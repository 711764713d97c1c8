---------------------------- MODULE SdeRscProofs ----------------------------
(***************************************************************************)
(* What SdeRsc promises, for any number of external displays, any          *)
(* revision of the hardware and any set of faults.                         *)
(*                                                                         *)
(* The two invariants are not inductive: they need one another and three   *)
(* more.  PowerInv relates the power handle to the displays; ClockInv the  *)
(* state of the RSC to its clocks and to the collapse; SleepInv says who   *)
(* sleeps with the lock, and that a switch put off by that sleep is the    *)
(* right one; PayInv that while the count of vsyncs is above 0 the RSC is  *)
(* awake and somebody who keeps it awake will lower the count.             *)
(*                                                                         *)
(* A request is taken in two steps: what the switch does, as a case of     *)
(* four (Stayed, Done, Failed, Queued), and that its goal is the state     *)
(* that serves the clients (GoalIsChoice).  Each invariant then has one    *)
(* lemma for requests (UpdateData to UpdateChoice), and there is one lemma *)
(* for each of the other actions.                                          *)
(***************************************************************************)
EXTENDS SdeRsc, TLAPS

\* The inductive invariant.

States == {"IDLE", "CMD", "VID", "CLK"}

DataOK ==
    /\ version \in Versions
    /\ current \in States
    /\ refs \in {0, 1} /\ vsync \in {0, 1}
    /\ lock \in Clients \cup {"none"}
    /\ state \in [Clients -> States]
    /\ \A e \in External \cup {"power"} : state[e] \in {"IDLE", "CLK"}
    /\ at \in [Clients -> {"rest", "count", "read", "vblank"}]
    /\ pays \in SUBSET Clients

FlagsOK ==
    /\ collapse \in BOOLEAN /\ stale \in BOOLEAN /\ unclocked \in BOOLEAN
    /\ inited \in BOOLEAN /\ powered \in BOOLEAN

TypeOK == DataOK /\ FlagsOK

\* While there is power the handle keeps its vote and the core is up; without, no display does
\* anything.  The handle itself never sleeps.
PowerInv ==
    /\ powered => state["power"] = "CLK" /\ ~collapse /\ current # "IDLE"
    /\ ~powered => \A d \in Displays : state[d] = "IDLE" /\ at[d] = "rest"
    /\ at["power"] = "rest"

\* The clocks are off exactly in IDLE, unless they never went on, and only then is the core
\* collapsed.
ClockInv ==
    /\ current = "IDLE" => refs = 0
    /\ current # "IDLE" => refs > 0 \/ unclocked
    /\ collapse => current = "IDLE"

\* Who sleeps for the count holds the lock, in CLK and because CLK is right.
SleepInv ==
    /\ \A c \in Clients : at[c] = "count" <=> lock = c
    /\ lock # "none" => current = "CLK" /\ Choice = "CLK" /\ powered

\* The client will lower the count.
Payer(c) == at[c] = "read" \/ (at[c] = "vblank" /\ c \in pays)

\* The client keeps the RSC in CLK.
Needs(c) == (c \in External /\ state[c] = "CLK") \/ (c = "primary" /\ ~Own(state))

PayInv == vsync > 0 => current = "CLK" /\ \E c \in Clients : Payer(c) /\ Needs(c)

\* In CMD and VID the primary display is alone, even after a switch that failed.
ChoiceInv ==
    /\ current \in {"CMD", "VID"} => state["primary"] = current /\ ~Multi(state)
    /\ Arbitrated

IInv == TypeOK /\ PowerInv /\ ClockInv /\ SleepInv /\ PayInv /\ ChoiceInv

-----------------------------------------------------------------------------
\* What a switch does, with the flags as propositions.

Ends(c, ok) ==
    /\ c = "power" => (powered' <=> ok /\ state'["power"] = "CLK")
    /\ c # "power" => (powered' <=> powered)

Clocks(n) ==
    /\ current # "IDLE" => n = refs /\ (unclocked' <=> unclocked)
    /\ current = "IDLE" => n \in {refs, refs + 1} /\ (unclocked' <=> n = refs)

Told(c, wait) ==
    /\ wait /\ c # "power" => at' = [at EXCEPT ![c] = "read"]
    /\ ~(wait /\ c # "power") => at' = at

Stayed(c, goal) ==
    /\ goal = "none" \/ (goal = current /\ goal \in {"CMD", "VID"})
    /\ current' = current
    /\ \E n \in {refs, refs + 1} :
          /\ Clocks(n)
          /\ refs' = IF current = "IDLE" /\ n > 0 THEN n - 1 ELSE n
    /\ at' = at \/ (c # "power" /\ at' = [at EXCEPT ![c] = "read"])
    /\ (stale' <=> goal = "none" /\ stale)
    /\ Ends(c, TRUE)
    /\ (collapse' <=> collapse) /\ vsync' = vsync /\ lock' = lock

Done(c, goal) ==
    /\ goal # "none" /\ (goal = current => goal \notin {"CMD", "VID"})
    /\ goal = "CLK" /\ ~NeedsVsync => vsync = 0
    /\ current' = goal
    /\ \E n \in {refs, refs + 1} :
          /\ Clocks(n)
          /\ refs' = IF goal = "IDLE" /\ n > 0 THEN n - 1 ELSE n
    /\ (collapse' <=> goal = "IDLE")
    /\ Told(c, goal # "IDLE" /\ NeedsVsync)
    /\ vsync' = IF goal = "CLK" /\ NeedsVsync /\ c # "power" THEN vsync + 1 ELSE vsync
    /\ ~stale' /\ Ends(c, TRUE) /\ lock' = lock

Failed(c, goal) ==
    /\ goal # "none" /\ (goal = "IDLE" \/ collapse)
    /\ goal = "CLK" => vsync = 0
    /\ current' = current
    /\ \E n \in {refs, refs + 1} :
          /\ Clocks(n)
          /\ refs' = IF current = "IDLE" /\ n > 0 THEN n - 1 ELSE n
    /\ (collapse' <=> goal # "IDLE" /\ collapse)
    /\ at' = at /\ vsync' = vsync /\ lock' = lock
    /\ stale' /\ Ends(c, FALSE)

Queued(c, goal) ==
    /\ goal = "CLK" /\ vsync > 0
    /\ current' = current /\ vsync' = vsync
    /\ Clocks(refs')
    /\ refs' \in {refs, refs + 1}
    /\ collapse' => collapse
    /\ at' = [at EXCEPT ![c] = "count"] /\ lock' = c
    /\ (stale' <=> stale) /\ (powered' <=> powered)

\* The clocks after sde_rsc_resource_enable.
LEMMA ClocksEffect ==
    ASSUME NEW n \in {refs, refs + 1}, Enable(n)
    PROVE  Clocks(n)
  BY Zenon DEF Enable, Clocks

\* The power handle after a request.
LEMMA EndsEffect ==
    ASSUME NEW c, NEW ok \in BOOLEAN, Return(c, ok)
    PROVE  Ends(c, ok)
  BY Zenon DEF Return, Ends

\* A request that switches nothing.
LEMMA StayEffect ==
    ASSUME NEW c, NEW goal, NEW config, Stay(c, goal, config)
    PROVE  Stayed(c, goal)
<1>1. PICK n \in {refs, refs + 1} : Enable(n) /\ Settle(current, n)
  BY Zenon DEF Stay
<1>2. Clocks(n) /\ current' = current
  BY Zenon, <1>1, ClocksEffect DEF Settle
<1>3. refs' = IF current = "IDLE" /\ n > 0 THEN n - 1 ELSE n
  BY Zenon, <1>1 DEF Settle
<1>4. at' = at \/ (c # "power" /\ at' = [at EXCEPT ![c] = "read"])
  BY Zenon DEF Stay, Await
<1>5. stale' <=> goal = "none" /\ stale
  BY Zenon DEF Stay
<1>6. Ends(c, TRUE)
  BY Zenon, EndsEffect DEF Stay
<1>. QED
  BY Zenon, <1>2, <1>3, <1>4, <1>5, <1>6 DEF Stay, Stayed

\* A switch is done or fails.
LEMMA MoveEffect ==
    ASSUME NEW c, NEW goal, Move(c, goal)
    PROVE  Done(c, goal) \/ Failed(c, goal)
<1>1. PICK n \in {refs, refs + 1}, ok \in BOOLEAN :
         LET wait == ok /\ goal # "IDLE" /\ NeedsVsync IN
         /\ goal = "CLK" /\ ~wait => vsync = 0
         /\ Enable(n) /\ Hardware(goal, ok)
         /\ Settle(IF ok THEN goal ELSE current, n)
         /\ Await(c, wait)
         /\ vsync' = IF wait /\ goal = "CLK" /\ c # "power" THEN vsync + 1 ELSE vsync
         /\ stale' = ~ok
         /\ Return(c, ok)
  BY Zenon DEF Move
<1>2. Clocks(n)
  BY Zenon, <1>1, ClocksEffect
<1>3. Ends(c, ok)
  BY Zenon, <1>1, EndsEffect
<1>4. goal # "none" /\ (goal = current => goal \notin {"CMD", "VID"}) /\ lock' = lock
  BY Zenon DEF Move
<1>5. CASE ok
  <2>1. current' = goal /\ refs' = IF goal = "IDLE" /\ n > 0 THEN n - 1 ELSE n
    BY Zenon, <1>1, <1>5 DEF Settle
  <2>2. collapse' <=> goal = "IDLE"
    BY Zenon, <1>1, <1>5 DEF Hardware
  <2>3. Told(c, goal # "IDLE" /\ NeedsVsync)
    BY Zenon, <1>1, <1>5 DEF Await, Told
  <2>4. vsync' = IF goal = "CLK" /\ NeedsVsync /\ c # "power" THEN vsync + 1 ELSE vsync
    BY Zenon, <1>1, <1>5
  <2>5. ~stale' /\ Ends(c, TRUE) /\ (goal = "CLK" /\ ~NeedsVsync => vsync = 0)
    BY Zenon, <1>1, <1>3, <1>5
  <2>. QED
    BY Zenon, <1>2, <1>4, <2>1, <2>2, <2>3, <2>4, <2>5 DEF Done
<1>6. CASE ~ok
  <2>1. current' = current /\ refs' = IF current = "IDLE" /\ n > 0 THEN n - 1 ELSE n
    BY Zenon, <1>1, <1>6 DEF Settle
  <2>2. (collapse' <=> goal # "IDLE" /\ collapse) /\ (goal = "IDLE" \/ collapse)
    BY Zenon, <1>1, <1>6 DEF Hardware
  <2>3. at' = at /\ vsync' = vsync /\ (goal = "CLK" => vsync = 0)
    BY Zenon, <1>1, <1>6 DEF Await
  <2>4. stale' /\ Ends(c, FALSE)
    BY Zenon, <1>1, <1>3, <1>6
  <2>. QED
    BY Zenon, <1>2, <1>4, <2>1, <2>2, <2>3, <2>4 DEF Failed
<1>. QED
  BY Zenon, <1>5, <1>6

\* A switch that is put off.
LEMMA QueueEffect ==
    ASSUME NEW c, NEW goal, Queue(c, goal)
    PROVE  Queued(c, goal)
<1>1. PICK n \in {refs, refs + 1}, ok \in BOOLEAN :
         Enable(n) /\ Hardware(goal, ok) /\ refs' = n
  BY Zenon DEF Queue
<1>2. Clocks(refs') /\ refs' \in {refs, refs + 1}
  BY Zenon, <1>1, ClocksEffect
<1>3. collapse' => collapse
  BY Zenon, <1>1 DEF Queue, Hardware
<1>. QED
  BY Zenon, <1>2, <1>3 DEF Queue, Queued

-----------------------------------------------------------------------------
\* What a request does: what is asked for, and what becomes of it.
Want(s) == IF s = "VID" /\ version >= 3 THEN "CLK" ELSE s
New(c, s) == [state EXCEPT ![c] = Want(s)]
GoalOf(c, s) == Goal(Want(s), New(c, s))

\* Who asks for what, and when.
Asked(c, s) ==
    \/ c = "power" /\ ~powered /\ s = "CLK"
    \/ /\ c = "power" /\ powered /\ s = "IDLE"
       /\ \A d \in Displays : state[d] = "IDLE" /\ at[d] = "rest"
    \/ c = "primary" /\ powered /\ s \in States
    \/ c \in External /\ powered /\ s \in {"IDLE", "CLK"}

\* A request changes nothing, or does one of the four.
Kept(c) ==
    /\ current' = current /\ refs' = refs /\ vsync' = vsync /\ lock' = lock /\ at' = at
    /\ (collapse' <=> collapse) /\ (stale' <=> stale) /\ (unclocked' <=> unclocked)
    /\ Ends(c, TRUE)

Updated(c, s) ==
    /\ lock = "none" /\ at[c] = "rest"
    /\ state' = New(c, s) /\ version' = version /\ pays' = pays
    /\ \/ current = Want(s) /\ Kept(c)
       \/ Stayed(c, GoalOf(c, s))
       \/ Done(c, GoalOf(c, s))
       \/ Failed(c, GoalOf(c, s))
       \/ Queued(c, GoalOf(c, s))

\* A request in its five cases.
LEMMA UpdateEffect ==
    ASSUME NEW c, NEW s, NEW config, Update(c, s, config)
    PROVE  Updated(c, s)
<1>1. /\ lock = "none" /\ at[c] = "rest"
      /\ state' = New(c, s) /\ version' = version /\ pays' = pays
  BY Zenon DEF Update, New, Want
<1>2. CASE current = Want(s) /\ ~config /\ Return(c, TRUE) /\ UNCHANGED <<rsc, vsync, lock, at>>
  <2>1. Ends(c, TRUE)
    BY Zenon, <1>2, EndsEffect
  <2>2. Kept(c)
    BY Zenon, <1>2, <2>1 DEF Kept, rsc
  <2>. QED
    BY Zenon, <1>1, <1>2, <2>2 DEF Updated
<1>3. CASE Stay(c, GoalOf(c, s), config)
  BY Zenon, <1>1, <1>3, StayEffect DEF Updated
<1>4. CASE Move(c, GoalOf(c, s))
  BY Zenon, <1>1, <1>4, MoveEffect DEF Updated
<1>5. CASE Queue(c, GoalOf(c, s))
  BY Zenon, <1>1, <1>5, QueueEffect DEF Updated
<1>. QED
  BY Zenon, <1>2, <1>3, <1>4, <1>5 DEF Update, GoalOf, New, Want

\* The goal of a request is the state that serves the clients once it is noted; it is refused only
\* to the primary display while another is on.
LEMMA GoalIsChoice ==
    ASSUME DataOK, PowerInv, ChoiceInv, NEW c \in Clients, NEW s, Asked(c, s),
           state' = New(c, s)
    PROVE  /\ Choice' = IF GoalOf(c, s) = "none" THEN "CLK" ELSE GoalOf(c, s)
           /\ GoalOf(c, s) = "none" => c = "primary" /\ Multi(state)
           /\ GoalOf(c, s) = "IDLE" => c = "power" /\ powered
           /\ GoalOf(c, s) \in States \cup {"none"}
           /\ Want(s) \in States
           /\ Want(s) = "IDLE" \/ GoalOf(c, s) \in {Want(s), "none"}
           /\ state' \in [Clients -> States]
           /\ \A e \in External \cup {"power"} : state'[e] \in {"IDLE", "CLK"}
<1>1. Want(s) \in States /\ (c # "primary" => Want(s) = s)
  BY DEF Asked, Want, States, Clients, Displays
<1>2. /\ state' \in [Clients -> States]
      /\ \A e \in External \cup {"power"} : state'[e] \in {"IDLE", "CLK"}
  BY <1>1, RscAssumption DEF DataOK, New, States, Asked, Clients, Displays
<1>. DEFINE g == GoalOf(c, s)
<1>. DEFINE Goals == /\ Choice' = IF g = "none" THEN "CLK" ELSE g
                     /\ g = "none" => c = "primary" /\ Multi(state)
                     /\ g = "IDLE" => c = "power" /\ powered
                     /\ g \in States \cup {"none"}
                     /\ Want(s) = "IDLE" \/ g \in {Want(s), "none"}
<1>. SUFFICES Goals
  BY <1>1, <1>2
<1>3. CASE c = "power"
  <2>1. ~Own(state') /\ ~Own(New(c, s)) /\ \A d \in Displays : state'[d] = "IDLE"
    BY <1>3, RscAssumption DEF DataOK, PowerInv, Asked, New, Own, Clients, Displays
  <2>2. state'["power"] = s /\ Want(s) = s /\ New(c, s)["power"] = s /\ s \in {"IDLE", "CLK"}
    BY <1>1, <1>3, RscAssumption DEF DataOK, Asked, New, Clients, Displays
  <2>3. g = s
    BY <2>1, <2>2 DEF GoalOf, Goal, ToIdle, ToClk
  <2>4. Choice' = s
    BY <2>1, <2>2 DEF Choice, Clients
  <2>. QED
    BY <1>3, <2>2, <2>3, <2>4, RscAssumption DEF States, Asked, Displays
<1>4. CASE c \in Displays
  <2>1. /\ state'["power"] = "CLK" /\ New(c, s)["power"] = "CLK" /\ c # "power"
        /\ "power" \in Clients
    BY <1>4, RscAssumption DEF DataOK, PowerInv, Asked, New, Clients, Displays
  <2>2. Choice' = IF Own(state') /\ ~Multi(state') THEN state'["primary"] ELSE "CLK"
    BY <2>1 DEF Choice
  <2>3. CASE Want(s) = "IDLE"
    BY <2>1, <2>2, <2>3 DEF GoalOf, Goal, ToIdle, Own, States
  <2>4. CASE Want(s) = "CLK"
    <3>1. ~(Own(New(c, s)) /\ ~Multi(New(c, s)))
      BY <1>4, <2>4 DEF DataOK, New, Own, Multi, Clients, Displays
    <3>. QED
      BY <2>2, <2>4, <3>1 DEF GoalOf, Goal, ToClk, States
  <2>5. CASE Want(s) \in {"CMD", "VID"}
    <3>1. c = "primary" /\ Own(state') /\ state'["primary"] = Want(s)
      BY <1>1, <1>4, <2>5, RscAssumption DEF DataOK, Asked, New, Own, Clients, Displays
    <3>2. Multi(state') <=> Multi(state)
      BY <3>1, RscAssumption DEF DataOK, New, Multi, Clients, Displays
    <3>3. g = IF current # Want(s) /\ Multi(state) THEN "none" ELSE Want(s)
      BY <2>5, <3>2 DEF GoalOf, Goal, ToOwn
    <3>. QED
      BY <2>2, <2>5, <3>1, <3>2, <3>3 DEF ChoiceInv, States
  <2>. QED
    BY <1>1, <2>3, <2>4, <2>5 DEF States
<1>. QED
  BY <1>1, <1>2, <1>3, <1>4 DEF Clients

-----------------------------------------------------------------------------
\* What a request does to each part of the invariant.

Goals(c, s) ==
    LET g == GoalOf(c, s) IN
    /\ Choice' = IF g = "none" THEN "CLK" ELSE g
    /\ g = "none" => c = "primary" /\ Multi(state)
    /\ g = "IDLE" => c = "power" /\ powered
    /\ g \in States \cup {"none"}
    /\ Want(s) \in States
    /\ Want(s) = "IDLE" \/ g \in {Want(s), "none"}
    /\ state' \in [Clients -> States]
    /\ \A e \in External \cup {"power"} : state'[e] \in {"IDLE", "CLK"}

\* Only a display that is on is waited for, and then the power handle asks for nothing.
LEMMA PaysWhilePowered ==
    ASSUME IInv
    PROVE  vsync > 0 => powered /\ current = "CLK"
  BY RscAssumption DEF IInv, TypeOK, DataOK, PowerInv, PayInv, Payer, Clients

\* A display asks while there is power; the power handle while no display does anything.
LEMMA Whose ==
    ASSUME IInv, NEW c \in Clients, NEW s, Asked(c, s)
    PROVE  /\ c # "power" => powered /\ c \in Displays
           /\ c = "power" => \A d \in Clients : at[d] = "rest" /\ (d # "power" => state[d] = "IDLE")
           /\ c = "power" => vsync = 0
           /\ c = "power" => s = IF powered THEN "IDLE" ELSE "CLK"
<1>1. c # "power" => powered /\ c \in Displays
  BY DEF Asked, Clients, Displays
<1>2. c = "power" => \A d \in Clients : at[d] = "rest" /\ (d # "power" => state[d] = "IDLE")
  BY RscAssumption DEF IInv, PowerInv, Asked, Clients, Displays
<1>3. c = "power" => s = IF powered THEN "IDLE" ELSE "CLK"
  BY RscAssumption DEF Asked, Displays
<1>4. c = "power" => vsync = 0
  BY <1>2 DEF IInv, TypeOK, DataOK, PayInv, Payer
<1>. QED
  BY <1>1, <1>2, <1>3, <1>4

\* Types.
LEMMA UpdateData ==
    ASSUME IInv, NEW c \in Clients, NEW s, Asked(c, s), Updated(c, s), Goals(c, s)
    PROVE  DataOK'
<1>. USE DEF IInv, TypeOK
<1>1. CASE Kept(c)
  BY <1>1 DEF Updated, Goals, Kept, DataOK
<1>2. CASE Stayed(c, GoalOf(c, s))
  BY <1>2 DEF Updated, Goals, Stayed, DataOK, Clocks, ClockInv
<1>3. CASE Done(c, GoalOf(c, s))
  BY <1>3 DEF Updated, Goals, Done, DataOK, Clocks, ClockInv, Told, PayInv, NeedsVsync, States
<1>4. CASE Failed(c, GoalOf(c, s))
  BY <1>4 DEF Updated, Goals, Failed, DataOK, Clocks, ClockInv
<1>5. CASE Queued(c, GoalOf(c, s))
  BY <1>5, PaysWhilePowered DEF Updated, Goals, Queued, DataOK, Clocks
<1>. QED
  BY <1>1, <1>2, <1>3, <1>4, <1>5 DEF Updated

\* Power.
LEMMA UpdatePower ==
    ASSUME IInv, NEW c \in Clients, NEW s, Asked(c, s), Updated(c, s), Goals(c, s)
    PROVE  PowerInv'
<1>. USE DEF IInv, TypeOK
<1>0. /\ c # "power" => state'["power"] = state["power"]
      /\ c = "power" => state'["power"] = s /\ \A d \in Displays : state'[d] = state[d]
      /\ "power" \in Clients /\ Displays \subseteq Clients /\ "power" \notin Displays
  BY RscAssumption DEF Updated, New, Want, Asked, DataOK, Clients, Displays
<1>6. c = "power" => GoalOf(c, s) = s
  BY <1>0, Whose, RscAssumption DEF Goals, Choice, Own, Clients, Displays
<1>1. CASE current = Want(s) /\ Kept(c)
  BY <1>0, <1>1, Whose DEF Updated, Goals, Kept, PowerInv, ClockInv, Ends, Want
<1>2. CASE Stayed(c, GoalOf(c, s))
  BY <1>0, <1>2, <1>6, Whose DEF Updated, Goals, Stayed, PowerInv, Ends, DataOK
<1>3. CASE Done(c, GoalOf(c, s))
  BY <1>0, <1>3, <1>6, Whose DEF Updated, Goals, Done, PowerInv, Ends, Told, DataOK
<1>4. CASE Failed(c, GoalOf(c, s))
  BY <1>0, <1>4, <1>6, Whose DEF Updated, Goals, Failed, PowerInv, Ends
<1>5. CASE Queued(c, GoalOf(c, s))
  BY <1>0, <1>5, Whose DEF Updated, Goals, Queued, PowerInv, DataOK
<1>. QED
  BY <1>1, <1>2, <1>3, <1>4, <1>5 DEF Updated

\* Clocks.
LEMMA UpdateClock ==
    ASSUME IInv, NEW c \in Clients, NEW s, Asked(c, s), Updated(c, s), Goals(c, s)
    PROVE  ClockInv'
<1>. USE DEF IInv, TypeOK
<1>1. CASE Kept(c)
  BY <1>1 DEF Kept, ClockInv
<1>2. CASE Stayed(c, GoalOf(c, s))
  BY <1>2 DEF Stayed, ClockInv, Clocks, DataOK
<1>3. CASE Done(c, GoalOf(c, s))
  BY <1>3 DEF Done, ClockInv, Clocks, DataOK
<1>4. CASE Failed(c, GoalOf(c, s))
  BY <1>4, Whose DEF Failed, Goals, ClockInv, Clocks, DataOK, PowerInv, Ends
<1>5. CASE Queued(c, GoalOf(c, s))
  BY <1>5, PaysWhilePowered DEF Queued, ClockInv, Clocks, DataOK
<1>. QED
  BY <1>1, <1>2, <1>3, <1>4, <1>5 DEF Updated

\* The sleep with the lock.
LEMMA UpdateSleep ==
    ASSUME IInv, NEW c \in Clients, NEW s, Asked(c, s), Updated(c, s), Goals(c, s)
    PROVE  SleepInv'
<1>. USE DEF IInv, TypeOK
<1>0. "none" \notin Clients /\ \A d \in Clients : at[d] # "count"
  BY RscAssumption DEF Updated, SleepInv, Clients, Displays
<1>1. CASE Kept(c)
  BY <1>1 DEF Updated, Kept, SleepInv
<1>2. CASE Stayed(c, GoalOf(c, s))
  BY <1>2 DEF Updated, Stayed, SleepInv, DataOK
<1>3. CASE Done(c, GoalOf(c, s))
  BY <1>3 DEF Updated, Done, SleepInv, DataOK, Told
<1>4. CASE Failed(c, GoalOf(c, s))
  BY <1>4 DEF Updated, Failed, SleepInv
<1>5. CASE Queued(c, GoalOf(c, s))
  BY <1>0, <1>5, PaysWhilePowered DEF Updated, Goals, Queued, SleepInv, DataOK
<1>. QED
  BY <1>1, <1>2, <1>3, <1>4, <1>5 DEF Updated

\* The count: whoever is to lower it still is, and a new one keeps the RSC in CLK.
LEMMA UpdatePay ==
    ASSUME IInv, NEW c \in Clients, NEW s, Asked(c, s), Updated(c, s), Goals(c, s)
    PROVE  PayInv'
<1>. USE DEF IInv, TypeOK
<1>1. \A d \in Clients : d # c => state'[d] = state[d]
  BY DEF Updated, New, DataOK
<1>2. ASSUME NEW d \in Clients, Payer(d), Needs(d)
      PROVE  d # c /\ Needs(d)'
  <2>1. d # c
    BY <1>2 DEF Updated, Payer
  <2>. QED
    BY <1>1, <1>2, <2>1, RscAssumption DEF Needs, Own, Clients, Displays
<1>3. ASSUME NEW d \in Clients, Needs(d)', c # "power"
      PROVE  Choice' = "CLK"
  BY <1>3, Whose, RscAssumption DEF Needs, Choice, Own, Multi, Clients, Displays, Updated, New,
     PowerInv, DataOK
<1>4. CASE vsync > 0
  <2>1. PICK d \in Clients : Payer(d) /\ Needs(d)
    BY <1>4 DEF PayInv
  <2>2. d # c /\ Needs(d)' /\ c # "power"
    BY <1>2, <1>4, <2>1, Whose DEF DataOK
  <2>3. Choice' = "CLK" /\ current = "CLK"
    BY <1>3, <1>4, <2>2, PaysWhilePowered
  <2>4. Payer(d)' /\ current' = "CLK"
    <3>1. CASE Kept(c)
      BY <2>1, <2>3, <3>1 DEF Kept, Payer, Updated
    <3>2. CASE Stayed(c, GoalOf(c, s))
      BY <2>1, <2>2, <2>3, <3>2 DEF Stayed, Payer, Updated, DataOK
    <3>3. CASE Done(c, GoalOf(c, s))
      BY <2>1, <2>2, <2>3, <3>3, <1>4 DEF Done, Goals, NeedsVsync, DataOK
    <3>4. CASE Failed(c, GoalOf(c, s))
      BY <2>1, <2>3, <3>4 DEF Failed, Payer, Updated
    <3>5. CASE Queued(c, GoalOf(c, s))
      BY <2>1, <2>2, <2>3, <3>5 DEF Queued, Payer, Updated, DataOK
    <3>. QED
      BY <3>1, <3>2, <3>3, <3>4, <3>5 DEF Updated
  <2>. QED
    BY <2>2, <2>4 DEF PayInv
<1>5. CASE ~(vsync > 0)
  <2>1. CASE Done(c, GoalOf(c, s)) /\ GoalOf(c, s) = "CLK" /\ NeedsVsync /\ c # "power"
    <3>1. Payer(c)' /\ current' = "CLK"
      BY <2>1 DEF Done, Told, Payer, DataOK
    <3>2. Needs(c)'
      BY <2>1, Whose, RscAssumption
         DEF Needs, Goals, Choice, Updated, New, ChoiceInv, NeedsVsync, Multi, Own, DataOK, Clients, Displays
    <3>. QED
      BY <3>1, <3>2 DEF PayInv
  <2>2. CASE ~(Done(c, GoalOf(c, s)) /\ GoalOf(c, s) = "CLK" /\ NeedsVsync /\ c # "power")
    BY <1>5, <2>2 DEF PayInv, Updated, Kept, Stayed, Done, Failed, Queued
  <2>. QED
    BY <2>1, <2>2
<1>. QED
  BY <1>4, <1>5

\* The state serves the clients.
LEMMA UpdateChoice ==
    ASSUME IInv, NEW c \in Clients, NEW s, Asked(c, s), Updated(c, s), Goals(c, s)
    PROVE  ChoiceInv'
<1>. USE DEF IInv, TypeOK
<1>1. ASSUME Choice' \in {"CMD", "VID"}
      PROVE  state'["primary"] = Choice' /\ ~Multi(state')
  BY <1>1 DEF Choice, Multi
<1>2. Multi(state)' <=> Multi(state')
  BY DEF Multi
<1>3. Multi(state) => Choice = "CLK"
  BY DEF Choice, Multi, Clients, Displays
<1>4. SUFFICES /\ current' \in {"CMD", "VID"} => state'["primary"] = current' /\ ~Multi(state')
               /\ lock' = "none" /\ ~stale' => current' = Choice'
  BY <1>2 DEF ChoiceInv, Arbitrated
<1>5. CASE current = Want(s) /\ Kept(c)
  BY <1>1, <1>5, Whose DEF Kept, Goals, ChoiceInv, PowerInv, Want, States
<1>6. CASE Stayed(c, GoalOf(c, s))
  BY <1>1, <1>3, <1>6 DEF Stayed, Goals, ChoiceInv, Arbitrated, Updated
<1>7. CASE Done(c, GoalOf(c, s))
  BY <1>1, <1>7 DEF Done, Goals
<1>8. CASE Failed(c, GoalOf(c, s))
  BY <1>8, Whose DEF Failed, Goals, ClockInv, ChoiceInv, Displays, Clients
<1>9. CASE Queued(c, GoalOf(c, s))
  BY <1>9, PaysWhilePowered, RscAssumption DEF Queued, Updated, Clients, Displays
<1>. QED
  BY <1>5, <1>6, <1>7, <1>8, <1>9 DEF Updated

\* A request preserves every part.
LEMMA UpdateInv ==
    ASSUME IInv, NEW c \in Clients, NEW s, NEW config, Asked(c, s), Update(c, s, config)
    PROVE  DataOK' /\ PowerInv' /\ ClockInv' /\ SleepInv' /\ PayInv' /\ ChoiceInv'
<1>1. Updated(c, s)
  BY UpdateEffect
<1>2. Goals(c, s)
  BY <1>1, GoalIsChoice DEF Goals, Updated, IInv, TypeOK
<1>. QED
  BY <1>1, <1>2, UpdateData, UpdatePower, UpdateClock, UpdateSleep, UpdatePay, UpdateChoice

-----------------------------------------------------------------------------
\* The other actions, which change no state of a client.

\* Without a request the right state remains the same.
LEMMA Unasked ==
    ASSUME state' = state
    PROVE  /\ Choice' = Choice
           /\ \A d : Needs(d)' <=> Needs(d)
           /\ Multi(state)' <=> Multi(state)
  BY DEF Choice, Needs, Own, Multi

\* The look at the count.
LEMMA ReadCountInv ==
    ASSUME IInv, NEW c \in Clients, ReadCount(c)
    PROVE  DataOK' /\ PowerInv' /\ ClockInv' /\ SleepInv' /\ PayInv' /\ ChoiceInv'
<1>. USE DEF IInv, TypeOK, ReadCount, rsc, clients
<1>1. DataOK'
  BY DEF DataOK
<1>2. PowerInv'
  BY RscAssumption DEF PowerInv, DataOK, Clients
<1>3. ClockInv'
  BY DEF ClockInv
<1>4. SleepInv'
  BY Unasked DEF SleepInv, DataOK
<1>5. PayInv'
  BY Unasked DEF PayInv, Payer, DataOK
<1>6. ChoiceInv'
  BY Unasked DEF ChoiceInv, Arbitrated
<1>. QED
  BY <1>1, <1>2, <1>3, <1>4, <1>5, <1>6

\* The vblank: only who saw the count lowers it.
LEMMA VblankInv ==
    ASSUME IInv, NEW c \in Clients, Vblank(c)
    PROVE  DataOK' /\ PowerInv' /\ ClockInv' /\ SleepInv' /\ PayInv' /\ ChoiceInv'
<1>. USE DEF IInv, TypeOK, Vblank, rsc, clients
<1>1. DataOK'
  BY DEF DataOK
<1>2. PowerInv'
  BY RscAssumption DEF PowerInv, DataOK, Clients
<1>3. ClockInv'
  BY DEF ClockInv
<1>4. SleepInv'
  BY Unasked DEF SleepInv, DataOK
<1>5. PayInv'
  BY Unasked DEF PayInv, Payer, DataOK
<1>6. ChoiceInv'
  BY Unasked DEF ChoiceInv, Arbitrated
<1>. QED
  BY <1>1, <1>2, <1>3, <1>4, <1>5, <1>6

\* The end of the sleep.
LEMMA CountedInv ==
    ASSUME IInv, NEW c \in Clients, NEW ok \in BOOLEAN, Counted(c, ok)
    PROVE  DataOK' /\ PowerInv' /\ ClockInv' /\ SleepInv' /\ PayInv' /\ ChoiceInv'
<1>1. /\ at[c] = "count" /\ at' = [at EXCEPT ![c] = "rest"] /\ lock' = "none"
      /\ state' = state /\ vsync' = vsync /\ pays' = pays /\ version' = version
      /\ (collapse' <=> collapse) /\ (unclocked' <=> unclocked)
  BY Zenon DEF Counted
<1>2. lock = c /\ current = "CLK" /\ Choice = "CLK" /\ powered /\ c # "none" /\ c # "power"
  BY <1>1, RscAssumption DEF IInv, TypeOK, DataOK, SleepInv, PowerInv, Clients, Displays
<1>3. (powered' <=> powered) /\ (stale' <=> ~ok)
  BY Zenon, <1>2 DEF Counted
<1>4. current' = current /\ refs' = refs
  BY <1>2 DEF Counted, Settle
<1>. USE DEF IInv, TypeOK
<1>5. DataOK'
  BY <1>1, <1>4 DEF DataOK
<1>6. PowerInv'
  BY <1>1, <1>2, <1>3, <1>4 DEF PowerInv, DataOK
<1>7. ClockInv'
  BY <1>1, <1>4 DEF ClockInv
<1>8. SleepInv'
  BY <1>1, <1>2, <1>5, RscAssumption DEF SleepInv, DataOK, Clients, Displays
<1>9. PayInv'
  BY <1>1, <1>4, Unasked DEF PayInv, Payer, DataOK
<1>10. ChoiceInv'
  BY <1>1, <1>2, <1>4, Unasked DEF ChoiceInv, Arbitrated
<1>. QED
  BY <1>5, <1>6, <1>7, <1>8, <1>9, <1>10

-----------------------------------------------------------------------------
\* The flags stay flags (apart from the rest: Zenon reasons about flags, SMT about the rest).

\* A switch.
LEMMA MoveFlags ==
    ASSUME FlagsOK, NEW c, NEW goal, Move(c, goal)
    PROVE  collapse' \in BOOLEAN /\ stale' \in BOOLEAN /\ unclocked' \in BOOLEAN /\ powered' \in BOOLEAN
  BY Zenon DEF FlagsOK, Move, Hardware, Enable, Return

\* A request.
LEMMA UpdateFlags ==
    ASSUME FlagsOK, NEW c, NEW s, NEW config, Update(c, s, config)
    PROVE  collapse' \in BOOLEAN /\ stale' \in BOOLEAN /\ unclocked' \in BOOLEAN /\ powered' \in BOOLEAN
<1>. DEFINE Flags == collapse' \in BOOLEAN /\ stale' \in BOOLEAN /\ unclocked' \in BOOLEAN /\ powered' \in BOOLEAN
<1>1. ASSUME NEW g, Stay(c, g, config)
      PROVE  Flags
  BY Zenon, <1>1 DEF FlagsOK, Stay, Enable, Return
<1>2. ASSUME NEW g, Queue(c, g)
      PROVE  Flags
  BY Zenon, <1>2 DEF FlagsOK, Queue, Hardware, Enable
<1>3. CASE Return(c, TRUE) /\ UNCHANGED <<rsc, vsync, lock, at>>
  BY Zenon, <1>3 DEF FlagsOK, rsc, Return
<1>. QED
  BY Zenon, <1>1, <1>2, <1>3, MoveFlags DEF Update

\* Any step.
LEMMA NextFlags ==
    ASSUME FlagsOK, Next
    PROVE  FlagsOK'
<1>1. CASE PowerOn \/ PowerOff
  BY Zenon, <1>1, UpdateFlags DEF PowerOn, PowerOff, FlagsOK
<1>2. ASSUME NEW s, NEW config \in BOOLEAN, Primary(s, config)
      PROVE  FlagsOK'
  BY Zenon, <1>2, UpdateFlags DEF Primary, FlagsOK
<1>3. ASSUME NEW e, NEW s, Ext(e, s)
      PROVE  FlagsOK'
  BY Zenon, <1>3, UpdateFlags DEF Ext, FlagsOK
<1>4. ASSUME NEW c, ReadCount(c) \/ Vblank(c) \/ Counted(c, TRUE) \/ Counted(c, FALSE)
      PROVE  FlagsOK'
  BY Zenon, <1>4 DEF ReadCount, Vblank, Counted, FlagsOK, rsc, clients
<1>. QED
  BY Zenon, <1>1, <1>2, <1>3, <1>4 DEF Next

-----------------------------------------------------------------------------
\* The induction, and what follows.

\* Initially the invariant holds.
LEMMA InitIInv == ASSUME Init PROVE IInv
<1>1. FlagsOK
  BY Zenon DEF Init, FlagsOK
<1>2. DataOK
  BY DEF Init, DataOK, States, Clients, Displays
<1>3. Choice = "IDLE"
  BY RscAssumption DEF Init, Choice, Own, Clients, Displays
<1>4. PowerInv /\ ClockInv /\ SleepInv /\ PayInv
  BY RscAssumption DEF Init, PowerInv, ClockInv, SleepInv, PayInv, Clients, Displays
<1>5. ChoiceInv
  BY <1>3 DEF Init, ChoiceInv, Arbitrated
<1>. QED
  BY <1>1, <1>2, <1>4, <1>5 DEF IInv, TypeOK

\* Every step preserves it.
LEMMA NextIInv == IInv /\ [Next]_vars => IInv'
<1>. SUFFICES ASSUME IInv, [Next]_vars
              PROVE  IInv'
  OBVIOUS
<1>. DEFINE Goal5 == DataOK' /\ PowerInv' /\ ClockInv' /\ SleepInv' /\ PayInv' /\ ChoiceInv'
<1>1. CASE PowerOn
  <2>1. Asked("power", "CLK") /\ "power" \in Clients
    BY <1>1 DEF PowerOn, Asked, Clients
  <2>2. Goal5
    BY <1>1, <2>1, UpdateInv DEF PowerOn
  <2>. QED
    BY <1>1, <2>2, NextFlags DEF IInv, TypeOK, Next
<1>2. CASE PowerOff
  <2>1. Asked("power", "IDLE") /\ "power" \in Clients
    BY <1>2 DEF PowerOff, Asked, Clients
  <2>2. Goal5
    BY <1>2, <2>1, UpdateInv DEF PowerOff
  <2>. QED
    BY <1>2, <2>2, NextFlags DEF IInv, TypeOK, Next
<1>3. ASSUME NEW s \in States, NEW config \in BOOLEAN, Primary(s, config)
      PROVE  IInv'
  <2>1. Asked("primary", s) /\ "primary" \in Clients
    BY <1>3 DEF Primary, Asked, Clients, Displays
  <2>2. Goal5
    BY <1>3, <2>1, UpdateInv DEF Primary
  <2>3. Next
    BY <1>3 DEF Next, States
  <2>. QED
    BY <2>2, <2>3, NextFlags DEF IInv, TypeOK
<1>4. ASSUME NEW e \in External, NEW s \in {"IDLE", "CLK"}, Ext(e, s)
      PROVE  IInv'
  <2>1. Asked(e, s) /\ e \in Clients
    BY <1>4 DEF Ext, Asked, Clients, Displays
  <2>2. Goal5
    BY <1>4, <2>1, UpdateInv DEF Ext
  <2>3. Next
    BY <1>4 DEF Next
  <2>. QED
    BY <2>2, <2>3, NextFlags DEF IInv, TypeOK
<1>5. ASSUME NEW c \in Clients, ReadCount(c) \/ Vblank(c) \/ Counted(c, TRUE) \/ Counted(c, FALSE)
      PROVE  IInv'
  <2>1. Goal5
    BY <1>5, ReadCountInv, VblankInv, CountedInv
  <2>2. Next
    BY <1>5 DEF Next
  <2>. QED
    BY <2>1, <2>2, NextFlags DEF IInv, TypeOK
<1>6. CASE UNCHANGED vars
  <2>1. FlagsOK'
    BY Zenon, <1>6 DEF IInv, TypeOK, FlagsOK, vars, rsc, clients
  <2>2. Goal5
    BY <1>6, Unasked DEF IInv, TypeOK, DataOK, PowerInv, ClockInv, SleepInv, PayInv, Payer,
       ChoiceInv, Arbitrated,
       vars, rsc, clients, waits
  <2>. QED
    BY <2>1, <2>2 DEF IInv, TypeOK
<1>. QED
  BY <1>1, <1>2, <1>3, <1>4, <1>5, <1>6 DEF Next, States

\* The invariant of the RSC, its clients and their waits.
THEOREM RscInvariant == Spec => []IInv
  BY InitIInv, NextIInv, PTL DEF Spec

\* Every variable stays in its type: at most one reference to the clocks, at most one vsync
\* waited for (resource_refcount, rsc_vsync_wait).
THEOREM RscTypeCorrect == Spec => []TypeOK
  BY RscInvariant, PTL DEF IInv

\* Outside a switch that failed the RSC is in the state that serves the present clients
\* (sde_rsc_client_state_update).
THEOREM AlwaysArbitrated == Spec => []Arbitrated
<1>1. IInv => Arbitrated
  BY DEF IInv, ChoiceInv
<1>. QED
  BY <1>1, RscInvariant, PTL

\* While there is power the core is not collapsed and has its clocks; an idle RSC holds none,
\* whatever failed (sde_rsc_resource_enable, sde_rsc_mode2_exit).
THEOREM AlwaysUpWhilePowered == Spec => []UpWhilePowered
<1>1. IInv => UpWhilePowered
  BY DEF IInv, PowerInv, ClockInv, UpWhilePowered
<1>. QED
  BY <1>1, RscInvariant, PTL

\* While a vsync is waited for there is power, the RSC is in CLK and stays there for a client
\* that is about to lower the count: who sleeps for the count depends on no other request
\* (sde_rsc_switch_to_clk, _sde_encoder_rsc_client_update_vsync_wait).
THEOREM CountHasPayer ==
    Spec => [](vsync > 0 => powered /\ current = "CLK" /\ \E c \in Clients : Payer(c) /\ Needs(c))
<1>1. IInv => (vsync > 0 => powered /\ current = "CLK" /\ \E c \in Clients : Payer(c) /\ Needs(c))
  BY PaysWhilePowered DEF IInv, PayInv
<1>. QED
  BY <1>1, RscInvariant, PTL

\* A request switches to the state that serves the clients, or not at all.
LEMMA UpdateServes ==
    ASSUME IInv, NEW c \in Clients, NEW s, NEW config, Asked(c, s), Update(c, s, config)
    PROVE  current' \in {current, Choice'}
<1>1. Updated(c, s)
  BY UpdateEffect
<1>2. Goals(c, s)
  BY <1>1, GoalIsChoice DEF Goals, Updated, IInv, TypeOK
<1>. QED
  BY <1>1, <1>2 DEF Updated, Kept, Stayed, Done, Failed, Queued, Goals

\* Whatever switches failed or were put off before, the RSC never goes to a state other than the
\* one that serves the clients at that moment: no late or outdated request is carried out
\* (sde_rsc_client_state_update).
THEOREM SwitchesServe == Spec => [][current' # current => current' = Choice']_vars
<1>1. IInv /\ [Next]_vars => [current' # current => current' = Choice']_vars
  <2>. SUFFICES ASSUME IInv, Next
                PROVE  current' \in {current, Choice'}
    OBVIOUS
  <2>1. CASE PowerOn \/ PowerOff
    BY <2>1, UpdateServes DEF PowerOn, PowerOff, Asked, Clients
  <2>2. ASSUME NEW s \in States, NEW config \in BOOLEAN, Primary(s, config)
        PROVE  current' \in {current, Choice'}
    BY <2>2, UpdateServes DEF Primary, Asked, Clients, Displays
  <2>3. ASSUME NEW e \in External, NEW s \in {"IDLE", "CLK"}, Ext(e, s)
        PROVE  current' \in {current, Choice'}
    BY <2>3, UpdateServes DEF Ext, Asked, Clients, Displays
  <2>4. ASSUME NEW c \in Clients, ReadCount(c) \/ Vblank(c)
        PROVE  current' = current
    BY <2>4 DEF ReadCount, Vblank, rsc
  <2>5. ASSUME NEW c \in Clients, NEW ok \in BOOLEAN, Counted(c, ok)
        PROVE  current' = current
    <3>1. at[c] = "count" /\ current' = IF ok THEN "CLK" ELSE current
      BY <2>5 DEF Counted, Settle
    <3>2. current = "CLK"
      BY <3>1, RscAssumption DEF IInv, SleepInv, Clients, Displays
    <3>. QED
      BY <3>1, <3>2
  <2>. QED
    BY <2>1, <2>2, <2>3, <2>4, <2>5 DEF Next, States
<1>. QED
  BY <1>1, RscInvariant, PTL DEF Spec
=============================================================================
