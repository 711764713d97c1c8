---------------------------- MODULE SdeTimeline ----------------------------
(***************************************************************************)
(* What a fence timeline promises to the clients that hold its file        *)
(* descriptors, without counters' locks, lists and references.  A client   *)
(* gets a fence for a point that is still to come; the fence is released   *)
(* once time has reached its point, or broken, at any moment, by a failed  *)
(* input fence; time never runs back; a fence is never waiting again.      *)
(***************************************************************************)
EXTENDS Integers

CONSTANTS Fence,  \* fence objects
          Point   \* points of the timeline

VARIABLES now,    \* the timeline: commits done
          point,  \* the point a fence was issued for
          view    \* what the holder of the descriptor sees

tvars == <<now, point, view>>

Init == now = 0 /\ point = [f \in Fence |-> 0] /\ view = [f \in Fence |-> "closed"]

Tick == /\ \E n \in Point : n > now /\ now' = n
        /\ UNCHANGED <<point, view>>

Issue(f) ==
  /\ view[f] = "closed"
  /\ \E p \in Point : p > now /\ point' = [point EXCEPT ![f] = p]
  /\ view' = [view EXCEPT ![f] = "waiting"]
  /\ UNCHANGED now

Release(f) ==
  /\ view[f] = "waiting" /\ point[f] <= now
  /\ view' = [view EXCEPT ![f] = "released"]
  /\ UNCHANGED <<now, point>>

\* a fence already released may still be marked by an error that comes late
Break(f) ==
  /\ view[f] \in {"waiting", "released"}
  /\ view' = [view EXCEPT ![f] = "broken"]
  /\ UNCHANGED <<now, point>>

Close(f) ==
  /\ view[f] # "closed"
  /\ view' = [view EXCEPT ![f] = "closed"]
  /\ point' = [point EXCEPT ![f] = 0]
  /\ UNCHANGED now

Next == Tick \/ \E f \in Fence : Issue(f) \/ Release(f) \/ Break(f) \/ Close(f)

Spec == Init /\ [][Next]_tvars
=============================================================================
