------------------------------- MODULE SdeRsc -------------------------------
(***************************************************************************)
(* The display RSC, which may collapse the power of the display core on    *)
(* its own (sde_rsc.c, sde_rsc_hw.c and sde_rsc_hw_v3.c, and its callers   *)
(* in sde_encoder.c and sde_power_handle.c).  Its clients are the encoders *)
(* of the primary and of external displays and the power handle; each asks *)
(* for a state, and sde_rsc_client_state_update finds the one state that   *)
(* serves them all.  In CMD the hardware may sleep between frames, in VID  *)
(* and CLK it stays awake, in IDLE the core is off ("mode 2").             *)
(*                                                                         *)
(* A request runs under client_lock.  A switch from CMD or VID to CLK is   *)
(* complete with the next vsync only, so the caller waits for a vblank     *)
(* when it has dropped the lock; rsc_vsync_wait counts such callers, and   *)
(* another client that needs CLK sleeps until it is 0, with client_lock    *)
(* held.                                                                   *)
(*                                                                         *)
(* What the clients do is taken from SdeEncoderRc: an encoder asks for     *)
(* anything but IDLE only while it holds a vote for power, sends its       *)
(* requests one at a time, and gives its vote back after IDLE; the power   *)
(* handle asks for CLK when the first vote comes and for IDLE when the     *)
(* last is gone.  Left out: bandwidth votes, continuous splash, creation   *)
(* and destruction of clients, the debug files.                            *)
(***************************************************************************)
EXTENDS Integers

CONSTANTS
    External,   \* encoders of external displays
    Versions,   \* revisions of the hardware
    Faults      \* what may fail, a subset of {"enable", "exit", "entry", "timeout"}

ASSUME RscAssumption ==
    /\ Versions \subseteq 1..5
    /\ External \cap {"primary", "power", "none"} = {}

Displays == {"primary"} \cup External
Clients == Displays \cup {"power"}

VARIABLES
    version,    \* of the hardware; never changes
    current,    \* current_state of the RSC
    refs,       \* resource_refcount: its clocks are on while it is above 0
    collapse,   \* power_collapse: the core is off
    vsync,      \* rsc_vsync_wait
    lock,       \* who sleeps with client_lock held
    state,      \* current_state of each client
    at,         \* where each client is: at rest, asleep until the count is 0, about to
                \* look at the count or waiting for a vblank
    pays,       \* the clients that will lower the count: wait_refcount was above 0
    inited,     \* rsc_state_init: the timers of the primary display were configured
    powered,    \* the last request of the power handle was for CLK and succeeded
    stale,      \* the last switch failed
    unclocked   \* the last time the clocks were to go on they did not

rsc == <<current, refs, collapse, stale, unclocked>>
clients == <<state, inited, powered>>
waits == <<vsync, lock, at, pays>>
vars == <<version, rsc, clients, waits>>

Init ==
    /\ version \in Versions
    /\ current = "IDLE" /\ refs = 0 /\ collapse = FALSE /\ stale = FALSE /\ unclocked = FALSE
    /\ state = [c \in Clients |-> "IDLE"] /\ inited = FALSE /\ powered = FALSE
    /\ vsync = 0 /\ lock = "none" /\ at = [c \in Clients |-> "rest"] /\ pays = {}

-----------------------------------------------------------------------------
(* Which state serves the clients.                                          *)

\* An external display is on.
Multi(st) == \E e \in External : st[e] = "CLK"

\* The primary display asks for a state of its own.
Own(st) == st["primary"] \in {"CMD", "VID"}

\* sde_rsc_switch_to_idle: something may still want the RSC.
MutToIdle(st) ==
    IF Own(st) THEN st["primary"]
    ELSE IF st["power"] = "CLK" THEN "CLK" ELSE "IDLE"
ToIdle(st) ==
    IF Own(st) /\ ~Multi(st) THEN st["primary"]
    ELSE IF st["power"] = "CLK" THEN "CLK" ELSE "IDLE"

\* sde_rsc_switch_to_cmd, sde_rsc_switch_to_vid: not while an external display is on.
ToOwn(want, st) == IF current # want /\ Multi(st) THEN "none" ELSE want

\* sde_rsc_switch_to_clk: not while only the primary display is on.
ToClk(st) == IF Own(st) /\ ~Multi(st) THEN "none" ELSE "CLK"

Goal(want, st) ==
    CASE want = "IDLE" -> ToIdle(st)
      [] want = "CLK" -> ToClk(st)
      [] OTHER -> ToOwn(want, st)

-----------------------------------------------------------------------------
(* The switch.                                                             *)

\* sde_rsc_resource_enable when the RSC is idle, with n references afterwards; its result is
\* ignored.
Enable(n) ==
    IF current # "IDLE"
    THEN n = refs /\ unclocked' = unclocked
    ELSE /\ n = refs + 1 \/ ("enable" \in Faults /\ n = refs)
         /\ unclocked' = (n = refs)

\* The switch ends in state new: it is noted, and the clocks go off in IDLE.
Settle(new, n) ==
    /\ current' = new
    /\ refs' = IF new = "IDLE" /\ n > 0 THEN n - 1 ELSE n

\* state_update of the hardware: mode 2 may be refused, and leaving it may take too long.
Hardware(goal, ok) ==
    /\ ok \/ IF goal = "IDLE" THEN "entry" \in Faults ELSE collapse /\ "exit" \in Faults
    /\ collapse' = IF goal = "IDLE" THEN ok ELSE collapse /\ ~ok

\* What the power handle learns.
Return(c, ok) == powered' = IF c = "power" THEN ok /\ state'["power"] = "CLK" ELSE powered

\* A switch from CMD or VID, and new timers in one of them, need a vsync.  (Hardware of revision
\* 4 does without between CMD and VID, but from revision 3 on a request for VID is one for CLK.)
NeedsVsync == current \in {"CMD", "VID"}

\* The caller is told to wait for it; the power handle, which cannot, sleeps for a frame.
Await(c, wait) == at' = IF wait /\ c # "power" THEN [at EXCEPT ![c] = "read"] ELSE at

\* Nothing to switch: refused, or in the state already.
Stay(c, goal, config) ==
    /\ goal = "none" \/ (goal = current /\ goal \in {"CMD", "VID"})
    /\ \E n \in {refs, refs + 1} : Enable(n) /\ Settle(current, n)
    /\ Await(c, goal # "none" /\ config /\ version < 3)
    /\ stale' = (goal = "none" /\ stale)
    /\ Return(c, TRUE)
    /\ UNCHANGED <<collapse, vsync, lock>>

\* A switch that need not wait for others under the lock; from CMD or VID to CLK it adds itself
\* to those that are waited for.
MutMove(c, goal) ==
    /\ goal # "none" /\ (goal = current => goal \notin {"CMD", "VID"})
    /\ \E n \in {refs, refs + 1}, ok \in BOOLEAN :
         LET wait == ok /\ goal # "IDLE" /\ NeedsVsync IN
         /\ goal = "CLK" /\ ~wait => vsync = 0
         /\ Enable(n) /\ Hardware(goal, ok)
         /\ Settle(IF ok THEN goal ELSE current, n)
         /\ Await(c, wait)
         /\ vsync' = IF wait /\ goal = "CLK" /\ c # "power" THEN vsync + 1 ELSE vsync
         /\ stale' = ~ok
         /\ Return(c, TRUE)
    /\ UNCHANGED lock
Move(c, goal) ==
    /\ goal # "none" /\ (goal = current => goal \notin {"CMD", "VID"})
    /\ \E n \in {refs, refs + 1}, ok \in BOOLEAN :
         LET wait == ok /\ goal # "IDLE" /\ NeedsVsync IN
         /\ goal = "CLK" /\ ~wait => vsync = 0
         /\ Enable(n) /\ Hardware(goal, ok)
         /\ Settle(IF ok THEN goal ELSE current, n)
         /\ Await(c, wait)
         /\ vsync' = IF wait /\ goal = "CLK" /\ c # "power" THEN vsync + 1 ELSE vsync
         /\ stale' = ~ok
         /\ Return(c, ok)
    /\ UNCHANGED lock

\* A switch to CLK while another client waits for the vsync of its switch: sleeps with
\* client_lock held, and what comes of that wait is the result, whatever the hardware said.
Queue(c, goal) ==
    /\ goal = "CLK" /\ vsync > 0
    /\ \E n \in {refs, refs + 1}, ok \in BOOLEAN :
         /\ ~(ok /\ NeedsVsync)
         /\ Enable(n) /\ Hardware(goal, ok) /\ refs' = n
    /\ at' = [at EXCEPT ![c] = "count"] /\ lock' = c
    /\ UNCHANGED <<current, vsync, stale, powered>>

\* sde_rsc_client_state_update.
Update(c, s, config) ==
    LET want == IF s = "VID" /\ version >= 3 THEN "CLK" ELSE s
        st == [state EXCEPT ![c] = want]
        goal == Goal(want, st)
    IN  /\ lock = "none" /\ at[c] = "rest"
        /\ state' = st
        /\ \/ /\ current = want /\ ~config
              /\ Return(c, TRUE) /\ UNCHANGED <<rsc, vsync, lock, at>>
           \/ /\ current # want \/ config
              /\ Stay(c, goal, config) \/ Move(c, goal) \/ Queue(c, goal)
        /\ UNCHANGED <<version, pays>>

\* The count is 0, or the sleep ends after two frames (rc = -ETIMEDOUT).
Counted(c, ok) ==
    /\ at[c] = "count"
    /\ IF ok THEN vsync = 0 ELSE vsync > 0 /\ "timeout" \in Faults
    /\ Settle(IF ok THEN "CLK" ELSE current, refs)
    /\ stale' = ~ok
    /\ at' = [at EXCEPT ![c] = "rest"] /\ lock' = "none"
    /\ powered' = IF c = "power" THEN ok /\ state["power"] = "CLK" ELSE powered
    /\ UNCHANGED <<version, collapse, unclocked, state, inited, vsync, pays>>

-----------------------------------------------------------------------------
(* The wait for the vblank, outside the lock                               *)
(* (_sde_encoder_rsc_client_update_vsync_wait).                            *)

\* It looks at the count first.
ReadCount(c) ==
    /\ at[c] = "read"
    /\ at' = [at EXCEPT ![c] = "vblank"]
    /\ pays' = IF vsync > 0 THEN pays \cup {c} ELSE pays
    /\ UNCHANGED <<version, rsc, clients, vsync, lock>>

\* The vblank has come, or five waits have timed out; whoever saw the count lowers it, unless
\* it is 0 by now (sde_rsc_client_reset_vsync_refcount).
MutVblank(c) ==
    /\ at[c] = "vblank"
    /\ at' = [at EXCEPT ![c] = "rest"]
    /\ pays' = pays \ {c}
    /\ \/ vsync' = vsync
       \/ vsync' = IF c \in pays /\ vsync > 0 THEN vsync - 1 ELSE vsync
    /\ UNCHANGED <<version, rsc, clients, lock>>
Vblank(c) ==
    /\ at[c] = "vblank"
    /\ at' = [at EXCEPT ![c] = "rest"]
    /\ pays' = pays \ {c}
    /\ vsync' = IF c \in pays /\ vsync > 0 THEN vsync - 1 ELSE vsync
    /\ UNCHANGED <<version, rsc, clients, lock>>

-----------------------------------------------------------------------------
(* The clients.                                                            *)

\* sde_power_resource_enable: the first vote for power.
PowerOn == ~powered /\ Update("power", "CLK", FALSE) /\ UNCHANGED inited

\* The last vote is gone.
PowerOff ==
    /\ powered /\ \A d \in Displays : state[d] = "IDLE" /\ at[d] = "rest"
    /\ Update("power", "IDLE", FALSE) /\ UNCHANGED inited

\* The encoder of the primary display (_sde_encoder_rsc_state_trigger), which sends its timers
\* with the first request and after a change of mode.
Primary(s, config) ==
    /\ powered
    /\ config => s # "IDLE"
    /\ ~inited /\ s # "IDLE" => config
    /\ Update("primary", s, config)
    /\ inited' = (inited \/ config)

\* The encoder of an external display.
Ext(e, s) == powered /\ Update(e, s, FALSE) /\ UNCHANGED inited

Next ==
    \/ PowerOn \/ PowerOff
    \/ \E s \in {"IDLE", "CLK", "CMD", "VID"}, config \in BOOLEAN : Primary(s, config)
    \/ \E e \in External, s \in {"IDLE", "CLK"} : Ext(e, s)
    \/ \E c \in Clients :
         ReadCount(c) \/ Vblank(c) \/ Counted(c, TRUE) \/ Counted(c, FALSE)

\* Vblanks come or the waits for them end, and who is woken runs; nothing is said of the
\* clients, nor of the sleep that times out.
Fairness ==
    \A c \in Clients :
        WF_vars(ReadCount(c)) /\ WF_vars(Vblank(c)) /\ WF_vars(Counted(c, TRUE))

Spec == Init /\ [][Next]_vars /\ Fairness

-----------------------------------------------------------------------------
(* Properties.                                                             *)

\* Whatever order the requests came in, the RSC is in the state that serves the clients of now,
\* the primary display's own when no other is on, awake when anybody needs it, else idle
\* (sde_rsc_client_state_update), unless the last switch failed.
Choice ==
    IF Own(state) /\ ~Multi(state) THEN state["primary"]
    ELSE IF \E c \in Clients : state[c] # "IDLE" THEN "CLK" ELSE "IDLE"
Arbitrated == lock = "none" /\ ~stale => current = Choice

\* While a display may be used its core is not collapsed and the RSC has clocks, if these went
\* on; while the RSC is idle it holds none, whatever failed (sde_rsc_resource_enable,
\* sde_rsc_mode2_exit).
UpWhilePowered ==
    /\ powered => ~collapse /\ (refs > 0 \/ unclocked)
    /\ lock = "none" /\ current = "IDLE" => refs = 0

\* A client that sleeps for the vsync of another, with the lock every request needs, is woken
\* by it and does not depend on the timeout (sde_rsc_client_reset_vsync_refcount).
CountEnds == \A c \in Clients : at[c] = "count" ~> at[c] # "count"
=============================================================================
