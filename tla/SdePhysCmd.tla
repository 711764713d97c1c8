----------------------------- MODULE SdePhysCmd -----------------------------
(***************************************************************************)
(* The physical encoders of a command mode display (sde_encoder_phys_cmd)  *)
(* with the part of the virtual encoder that joins them.  Encoder 1 is the *)
(* master.  A frame is posted to the CTL and goes out at the next tearing  *)
(* effect (TE) signal: wr_ptr interrupt of the master at its start, pp_done*)
(* interrupt of each encoder at its end.  Waiters count on                 *)
(* pending_kickoff_cnt and pending_retire_fence_cnt and end with a timeout *)
(* when the interrupt does not come.                                       *)
(*                                                                         *)
(* A counter and the event it stands for change in two steps (atomic_dec,  *)
(* then handle_frame_done), so each context has at most one event to send. *)
(* Timing assumed: a wait lasts longer than a frame, so it times out only  *)
(* when the hardware stands still or an interrupt is held up, and an       *)
(* interrupt is handled before the hardware raises it for the next frame;  *)
(* with two encoders its event is sent before the next frame starts.       *)
(*                                                                         *)
(* Left out: autorefresh, qsync, ctl_done, pp-split, hardware fences.      *)
(***************************************************************************)
EXTENDS SdeFrameEvents

CONSTANTS
    Configs,   \* records: n encoders, frame trigger modes, faults, bound on the frames
    MaxFaults  \* bound on the faults of the panel and the link

VARIABLES
    cfg,     \* the configuration
    mode,    \* frame_trigger_mode
    kick,    \* pending_kickoff_cnt of each encoder
    retire,  \* pending_retire_fence_cnt of the master
    done,    \* frame_done_cnt of each encoder
    wrok,    \* wr_ptr_wait_success
    est,     \* enable_state of each encoder
    hw,      \* what the hardware does
    pdead,   \* "pending": esd_recovery_pending of the panel; "dead": panel_dead as well
    send,    \* event each context has still to send
    w,       \* wait of each thread in MSM_ENC_TX_COMPLETE or prepare_for_kickoff
    faults,  \* faults so far
    past     \* history: "gaveup": a frame was given up; "late": one was counted with the
             \* pp_done of the frame before still latched

physvars == <<cfg, mode, kick, retire, done, wrok, est, hw, pdead, send, w, faults, past>>

Threads == {"disp", "esd"}
Phys == 1 .. cfg.n
NoSend == [p |-> 0, ev |-> "none"]
NoWait == [ph |-> "no", p |-> 0, chk |-> 0, rc |-> "ok"]

PhysInit ==
    /\ cfg \in Configs /\ mode = "default"
    /\ kick = [p \in Phys |-> 0] /\ retire = 0 /\ done = [p \in Phys |-> 0]
    /\ wrok = FALSE /\ est = [p \in Phys |-> "off"] /\ pdead = "no"
    /\ hw = [posted |-> 0, frame |-> 0, busy |-> {}, lat |-> {}, dead |-> FALSE, hung |-> FALSE]
    /\ send = [t \in Threads \cup {"irq"} |-> NoSend]
    /\ w = [t \in Threads |-> NoWait]
    /\ faults = 0 /\ past = {}

-----------------------------------------------------------------------------
(* The hardware.  lat holds the latched interrupts: 0 is wr_ptr, p pp_done *)

\* The frames the hardware reads or is going to read.
Reading ==
    (IF hw.posted = 0 THEN {} ELSE {hw.posted}) \cup (IF hw.busy = {} THEN {} ELSE {hw.frame})

HwStart ==
    /\ hw.posted # 0 /\ hw.busy = {} /\ ~hw.dead /\ 0 \notin hw.lat
    /\ cfg.n > 1 => hw.lat = {} /\ \A t \in DOMAIN send : send[t] = NoSend
    /\ \E wr \in {{0}} \cup (IF "lost" \in cfg.faults /\ faults < MaxFaults THEN {{}} ELSE {}) :
           /\ hw' = [hw EXCEPT !.posted = 0, !.frame = hw.posted, !.busy = Phys,
                               !.lat = @ \cup wr]
           /\ faults' = IF wr = {} THEN faults + 1 ELSE faults
    /\ UNCHANGED <<evvars, cfg, mode, kick, retire, done, wrok, est, pdead, send, w, past>>

HwDone(p) ==
    /\ p \in hw.busy /\ ~hw.hung /\ p \notin hw.lat
    /\ hw' = [hw EXCEPT !.busy = @ \ {p}, !.lat = @ \cup {p}]
    /\ UNCHANGED <<evvars, cfg, mode, kick, retire, done, wrok, est, pdead, send, w, faults,
                   past>>

\* The panel stops sending TE, or the link hangs in a transfer.
HwFault ==
    /\ faults < MaxFaults /\ faults' = faults + 1
    /\ \/ "te" \in cfg.faults /\ ~hw.dead /\ hw' = [hw EXCEPT !.dead = TRUE]
       \/ "hang" \in cfg.faults /\ hw.busy # {} /\ ~hw.hung /\ hw' = [hw EXCEPT !.hung = TRUE]
    /\ UNCHANGED <<evvars, cfg, mode, kick, retire, done, wrok, est, pdead, send, w, past>>

TeBack ==
    /\ hw.dead /\ hw' = [hw EXCEPT !.dead = FALSE]
    /\ UNCHANGED <<evvars, cfg, mode, kick, retire, done, wrok, est, pdead, send, w, faults,
                   past>>

\* No transfer goes on and none will start.
Still ==
    /\ hw.hung \/ hw.busy = {}
    /\ hw.posted = 0 \/ hw.dead \/ hw.hung

\* sde_encoder_needs_hw_reset: soft reset of the DSI controller, the frame on it is lost.
SoftReset(h) == [h EXCEPT !.busy = {}, !.hung = FALSE]
Awake(s) == [p \in Phys |-> IF s[p] = "reset" THEN "on" ELSE s[p]]

\* ctl->ops.reset: the frame that was posted is lost as well.
CtlReset(h) == [h EXCEPT !.busy = {}, !.hung = FALSE, !.posted = 0]

-----------------------------------------------------------------------------
(* Events                                                                  *)

\* Mutant: the event goes on as soon as one encoder is done.
MutAllDone(c) == TRUE

AllDone(c) == \A p \in Phys : c[p] > 0

\* sde_encoder_frame_done_callback: the end of a frame goes on to the CRTC when every
\* encoder has one; a third end that waits for the others is dropped.
Send(t) ==
    /\ send[t] # NoSend
    /\ LET ev == send[t].ev
           c == [done EXCEPT ![send[t].p] = @ + 1]
       IN CASE ev = "retire" -> Post(ev) /\ UNCHANGED done
            [] ev # "retire" /\ done[send[t].p] = 2 -> UNCHANGED <<evvars, done>>
            [] ev # "retire" /\ done[send[t].p] < 2 ->
                   IF AllDone(c)
                   THEN Post(ev) /\ done' = [p \in Phys |-> c[p] - 1]
                   ELSE UNCHANGED evvars /\ done' = c
    /\ send' = [send EXCEPT ![t] = NoSend]
    /\ UNCHANGED <<cfg, mode, kick, retire, wrok, est, hw, pdead, w, faults, past>>

\* Mutant: the count may go below zero.
MutGiveBack(t, p, ev) ==
    /\ kick' = [kick EXCEPT ![p] = IF @ > 0 THEN @ - 1 ELSE @]
    /\ send' = [send EXCEPT ![t] = [p |-> p, ev |-> ev]]

\* atomic_add_unless(&pending_kickoff_cnt, -1, 0), and an event if it did.
GiveBack(t, p, ev) ==
    IF kick[p] > 0
    THEN /\ kick' = [kick EXCEPT ![p] = @ - 1]
         /\ send' = [send EXCEPT ![t] = [p |-> p, ev |-> ev]]
    ELSE UNCHANGED <<kick, send>>

GiveRetire(t) ==
    IF retire > 0
    THEN retire' = retire - 1 /\ send' = [send EXCEPT ![t] = [p |-> 1, ev |-> "retire"]]
    ELSE UNCHANGED <<retire, send>>

\* The callback of a latched interrupt: wr_ptr_irq or pp_done (signal_frame_done).
Callback(t, x) ==
    /\ hw' = [hw EXCEPT !.lat = @ \ {x}]
    /\ IF x = 0 THEN GiveRetire(t) /\ UNCHANGED kick
                ELSE GiveBack(t, x, "done") /\ UNCHANGED retire

\* Interrupts are handled one at a time, under the lock of sde_core_irq.
Irq(x) ==
    /\ x \in hw.lat /\ send["irq"] = NoSend
    /\ Callback("irq", x)
    /\ UNCHANGED <<evvars, cfg, mode, done, wrok, est, pdead, w, faults, past>>

-----------------------------------------------------------------------------
(* _sde_encoder_phys_cmd_wait_for_idle, for each encoder in turn           *)

\* all: every encoder is waited for, whatever the others return (prepare_for_kickoff);
\* else the first error ends it (sde_encoder_wait_for_event).
NextPhys(t, rc, all) ==
    LET r == IF rc = "late" \/ w[t].rc = "late" THEN "late" ELSE "ok" IN
    w' = [w EXCEPT ![t] = IF w[t].p = cfg.n \/ (r = "late" /\ ~all)
                          THEN [NoWait EXCEPT !.ph = "end", !.rc = r]
                          ELSE [NoWait EXCEPT !.ph = "test", !.p = w[t].p + 1, !.rc = r]]

StartWait(t) == w' = [w EXCEPT ![t] = [NoWait EXCEPT !.ph = "test", !.p = 1]]

\* is_scheduler_idle: with posted start the end of a frame is taken from the scheduler
\* of the CTL, once wr_ptr showed that the frame had started.
SchedulerIdle(p) ==
    /\ mode = "posted" /\ kick[p] > 0
    /\ p = 1 => wrok
    /\ p \notin hw.busy

WaitTest(t, all) ==
    /\ w[t].ph = "test" /\ send[t] = NoSend
    /\ LET p == w[t].p IN
       IF SchedulerIdle(p)
       THEN GiveBack(t, p, "done") /\ NextPhys(t, "ok", all)
       ELSE /\ IF kick[p] = 0
               THEN NextPhys(t, "ok", all)
               ELSE w' = [w EXCEPT ![t].ph = "wait", ![t].chk = IF kick[p] > 1 THEN 1 ELSE 0]
            /\ UNCHANGED <<kick, send>>
    /\ UNCHANGED <<evvars, cfg, mode, retire, done, wrok, est, hw, pdead, faults, past>>

WaitOk(t, all) ==
    /\ w[t].ph = "wait" /\ kick[w[t].p] <= w[t].chk
    /\ NextPhys(t, "ok", all)
    /\ UNCHANGED <<evvars, cfg, mode, kick, retire, done, wrok, est, hw, pdead, send, faults,
                   past>>

\* The time is over but the interrupt is latched: the waiter runs the callback itself.
WaitLatched(t, all) ==
    /\ w[t].ph = "wait" /\ w[t].p \in hw.lat /\ kick[w[t].p] > w[t].chk
    /\ Callback(t, w[t].p) /\ NextPhys(t, "ok", all)
    /\ UNCHANGED <<evvars, cfg, mode, done, wrok, est, pdead, faults, past>>

\* The time is over and nothing is latched.
WaitLate(t) ==
    /\ w[t].ph = "wait" /\ w[t].p \notin hw.lat /\ kick[w[t].p] > w[t].chk /\ Still
    /\ w' = [w EXCEPT ![t].ph = "over"]
    /\ UNCHANGED <<evvars, cfg, mode, kick, retire, done, wrok, est, hw, pdead, send, faults,
                   past>>

\* Mutant: the frame that was given up stays counted.
MutWaitGiveUp(t, all) ==
    /\ w[t].ph = "over" /\ kick[w[t].p] > 0
    /\ w' = [w EXCEPT ![t].ph = "late"]
    /\ UNCHANGED <<evvars, cfg, mode, kick, send, retire, done, wrok, est, hw, pdead, faults,
                   past>>

\* Unless the end of the frame came meanwhile it is given up (handle_framedone_timeout).
WaitGiveUp(t, all) ==
    /\ w[t].ph = "over"
    /\ LET p == w[t].p IN
       CASE SchedulerIdle(p) -> GiveBack(t, p, "done") /\ NextPhys(t, "ok", all)
         [] ~SchedulerIdle(p) /\ kick[p] > 0 ->
                /\ kick' = [kick EXCEPT ![p] = @ - 1] /\ w' = [w EXCEPT ![t].ph = "late"]
                /\ UNCHANGED send
         [] ~SchedulerIdle(p) /\ kick[p] = 0 ->
                NextPhys(t, "late", all) /\ UNCHANGED <<kick, send>>
    /\ UNCHANGED <<evvars, cfg, mode, retire, done, wrok, est, hw, pdead, faults, past>>

\* sde_connector_esd_status.  Without TE the check may fail, after a failure it always
\* does, and the first to report the panel dead makes the watchdog send TE.
EsdStatus(bad) ==
    /\ (pdead # "no" => bad) /\ (bad => hw.dead \/ pdead # "no")
    /\ IF bad /\ pdead = "no"
       THEN pdead' = "dead" /\ hw' = [hw EXCEPT !.dead = FALSE]
       ELSE UNCHANGED <<pdead, hw>>

\* Unless the panel is dead a reset is due before the next frame.  prepare_for_kickoff
\* clears the count of an encoder whose wait failed.
WaitFailed(t, all) ==
    /\ w[t].ph = "late"
    /\ \E bad \in BOOLEAN :
           /\ EsdStatus(bad)
           /\ est' = IF bad THEN est ELSE [est EXCEPT ![w[t].p] = "reset"]
    /\ send' = [send EXCEPT ![t] = [p |-> w[t].p, ev |-> "error"]]
    /\ kick' = IF all THEN [kick EXCEPT ![w[t].p] = 0] ELSE kick
    /\ past' = past \cup {"gaveup"}
    /\ NextPhys(t, "late", all)
    /\ UNCHANGED <<evvars, cfg, mode, retire, done, wrok, faults>>

Wait(t, all) ==
    \/ WaitTest(t, all) \/ WaitOk(t, all) \/ WaitLatched(t, all)
    \/ WaitGiveUp(t, all) \/ WaitFailed(t, all)
=============================================================================
