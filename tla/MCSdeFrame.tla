----------------------------- MODULE MCSdeFrame -----------------------------
(***************************************************************************)
(* Instances of SdeFrame for TLC: one encoder with all modes and faults,   *)
(* two encoders in default mode with a panel that may stop sending TE, and *)
(* two encoders with posted start.  For liveness, fewer frames.            *)
(***************************************************************************)
EXTENDS SdeFrame

AllFaults == {"te", "hang", "lost"}

MCConfigs ==
    {[n |-> 1, modes |-> {"default", "serialize"}, faults |-> AllFaults, frames |-> 3],
     [n |-> 1, modes |-> {"default", "posted"}, faults |-> AllFaults, frames |-> 3],
     [n |-> 2, modes |-> {"default"}, faults |-> {"te"}, frames |-> 2],
     [n |-> 2, modes |-> {"posted"}, faults |-> {}, frames |-> 3]}

MCLiveConfigs ==
    {[n |-> 1, modes |-> {"default", "serialize", "posted"}, faults |-> AllFaults, frames |-> 1],
     [n |-> 1, modes |-> {"posted"}, faults |-> AllFaults, frames |-> 2],
     [n |-> 2, modes |-> {"default"}, faults |-> {"te"}, frames |-> 1]}
=============================================================================
