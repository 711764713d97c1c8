--------------------------- MODULE MsmCommitOrder ---------------------------
(***************************************************************************)
(* What the atomic commit path promises a display client, whatever threads *)
(* work on it: a commit is a set of objects (CRTCs and planes) that reach  *)
(* the hardware together; commits in flight share no object, so the        *)
(* hardware takes the states of an object one by one, in the order in      *)
(* which they became the current software state.                           *)
(***************************************************************************)
CONSTANT Obj

VARIABLE flight   \* commits between their swap and their end: [objs, on]

OrderTypeOK == flight \subseteq [objs : SUBSET Obj, on : {"software", "hardware"}]

Init == flight = {}

\* A new state of all of objs becomes current: none of them is in flight.
Open(objs) ==
    /\ \A f \in flight : f.objs \cap objs = {}
    /\ flight' = flight \cup {[objs |-> objs, on |-> "software"]}

\* The whole commit reaches the hardware.
Show(f) ==
    /\ f.on = "software"
    /\ flight' = (flight \ {f}) \cup {[f EXCEPT !.on = "hardware"]}

\* A commit that was shown is over.
Close(f) ==
    /\ f.on = "hardware"
    /\ flight' = flight \ {f}

Next ==
    \/ \E objs \in (SUBSET Obj) \ {{}} : Open(objs)
    \/ \E f \in flight : Show(f) \/ Close(f)

Spec == Init /\ [][Next]_flight
=============================================================================
