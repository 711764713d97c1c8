---------------------------- MODULE SdeEncoderRc ----------------------------
(***************************************************************************)
(* Resource control of a display encoder (sde_encoder.c): the state        *)
(* machine rc_state that votes for clocks, interrupts, pm_qos and the RSC  *)
(* while frames are being shown and drops the votes when the display is    *)
(* idle (idle power collapse).                                             *)
(*                                                                         *)
(* Four kinds of threads send it events under rc_lock:                     *)
(*   - the display thread of the CRTC, one job at a time: commits (enable, *)
(*     frame, seamless mode switch, disable), delayed_off_work and the     *)
(*     early wakeup work;                                                  *)
(*   - the event thread, which runs esd_trigger_work for the threads that  *)
(*     report a dead panel (the status work and the DSI error interrupts); *)
(*   - the suspend thread, which asks for idle directly.                   *)
(* rc_lock is held over several steps where that can be told apart: the    *)
(* idle event of a command-mode display sleeps with the lock held, in a    *)
(* flush of the event thread; and the KICKOFF of the event thread may meet *)
(* sde_encoder_virt_reset, which clears cur_master and the CRTC without the*)
(* lock.  Every other event is one step, enabled when the lock is free: the*)
(* display thread sends it, or no reset can come meanwhile.                *)
(*                                                                         *)
(* Assumed: one CRTC per commit (msm_atomic.c:738), idle power collapse    *)
(* supported, autorefresh disabled, no clone (writeback) encoder.          *)
(***************************************************************************)
EXTENDS Integers, FiniteSets

CONSTANTS
    Modes,         \* panel modes the display can switch between ("cmd", "vid")
    DsiThread,     \* DSI error interrupt threads, one per DSI controller
    Status,        \* is the periodic ESD status work enabled?
    Wake,          \* does a client use the early wakeup ioctl?
    Dms,           \* do commits switch the mode seamlessly (DMS)?
    ModesetFails,  \* may sde_rm_reserve fail in the middle of a mode switch?
    ClkFails,      \* may the clock votes fail?
    Primary,       \* is the display the primary one?
    MaxFrames,     \* bound on the frames in flight
    MaxVotes       \* bound on the clock votes a mode switch or a wakeup starts with

ASSUME RcAssumption ==
    /\ Modes \subseteq {"cmd", "vid"} /\ Modes # {}
    /\ "status" \notin DsiThread
    /\ {Status, Wake, Dms, ModesetFails, ClkFails, Primary} \subseteq BOOLEAN
    /\ MaxFrames \in Nat \ {0} /\ MaxVotes \in Nat \ {0, 1}

Reporter == DsiThread \cup {"status"}

VARIABLES
    rc,        \* rc_state: OFF, MODESET, ON, IDLE or PRE_OFF
    pm, irq,   \* votes of this encoder: clocks, interrupts
    qos, rsc,  \* pm_qos requests added; RSC client asked for an active state
    off,       \* delayed_off_work is pending
    lock,      \* holder of rc_lock: "none", "disp", "pm" or "esd"
    mode,      \* curr_panel_mode
    master,    \* cur_master # NULL
    crtc,      \* sde_enc->crtc # NULL
    disp,      \* where the display thread is in its job, "free" between jobs
    active,    \* the CRTC is active in the committed state
    pending,   \* frame_pending of the CRTC
    wake,      \* early wakeup: "none", "checked" by the ioctl, "queued"
    dead,      \* panel_dead of the connector
    polling,   \* esd_status_check of the connector
    delay,     \* delay_kickoff
    esdwork,   \* esd_trigger_work is queued on the event thread
    esd,       \* where each reporter is
    kick,      \* where the event thread is in its KICKOFF, "none" outside
    oops,      \* a NULL pointer has been used: the kernel stops
    past       \* history: "torn", a reset met a KICKOFF since the last PRE_STOP;
               \* "half", a seamless mode switch has stopped half-way;
               \* "late", a command-mode event met an idle video-mode display

votes == <<pm, irq, qos, rsc>>
rcvars == <<rc, votes>>
dispvars == <<mode, master, crtc, active, pending>>
kickvars == <<kick, oops, past>>
esdvars == <<dead, polling, delay, esdwork, esd, kickvars>>
pastless == <<dead, polling, delay, esdwork, esd, kick, oops>>
vars == <<rcvars, off, lock, disp, dispvars, wake, esdvars>>

Init ==
    /\ rc = "OFF"
    /\ pm = 0 /\ irq = 0 /\ qos = FALSE /\ rsc = FALSE
    /\ off = FALSE /\ lock = "none"
    /\ mode \in Modes /\ master = FALSE /\ crtc = FALSE
    /\ disp = "free" /\ active = FALSE /\ pending = 0
    /\ wake = "none"
    /\ dead = FALSE /\ polling = FALSE /\ delay = FALSE /\ esdwork = FALSE
    /\ esd = [r \in Reporter |-> "none"]
    /\ kick = "none" /\ oops = FALSE /\ past = {}

\* History: something has happened that the properties must allow for.
Note(happened, what) == past' = IF happened THEN past \cup {what} ELSE past

-----------------------------------------------------------------------------
(* The votes.                                                              *)

HelperVotes == pm' = pm + 1 /\ irq' = irq + 1 /\ qos' = TRUE

\* _sde_encoder_resource_control_helper(enable = true)
HelperOn == master /\ HelperVotes

HelperFails ==
    /\ ~master \/ ClkFails
    /\ UNCHANGED <<pm, irq, qos>>

\* _sde_encoder_resource_control_helper(enable = false)
HelperOff ==
    IF master THEN pm' = pm - 1 /\ irq' = irq - 1 /\ qos' = FALSE
              ELSE UNCHANGED <<pm, irq, qos>>

\* _sde_encoder_update_rsc_client
UpdateRsc(on) == rsc' = IF crtc THEN on ELSE rsc

\* _sde_encoder_rc_restart_delayed: nothing while a dead panel is reported.
RestartDelayed == off' = (off \/ ~delay)

-----------------------------------------------------------------------------
(* The events, each under rc_lock.                                         *)

\* A KICKOFF that forgets that a video-mode display keeps its clocks in IDLE.
MutKickoff ==
    /\ lock = "none"
    /\ \/ rc \notin {"OFF", "IDLE"} /\ UNCHANGED rcvars
       \/ /\ rc \in {"OFF", "IDLE"}
          /\ \/ HelperOn /\ UpdateRsc(TRUE) /\ rc' = "ON"
             \/ HelperFails /\ UNCHANGED <<rc, rsc>>
    /\ RestartDelayed

\* SDE_ENC_RC_EVENT_KICKOFF
Kickoff ==
    /\ lock = "none"
    /\ \/ rc \notin {"OFF", "IDLE"} /\ UNCHANGED rcvars
       \/ /\ rc = "IDLE" /\ mode = "vid"
          /\ irq' = irq + 1 /\ qos' = TRUE /\ rc' = "ON"
          /\ UNCHANGED <<pm, rsc>>
       \/ /\ rc = "OFF" \/ (rc = "IDLE" /\ mode = "cmd")
          /\ \/ HelperOn /\ UpdateRsc(TRUE) /\ rc' = "ON"
             \/ HelperFails /\ UNCHANGED <<rc, rsc>>
    /\ RestartDelayed

\* SDE_ENC_RC_EVENT_PRE_STOP (the delayed work is cancelled before the lock)
PreStop ==
    /\ lock = "none"
    /\ \/ /\ rc = "OFF" \/ (rc = "IDLE" /\ mode = "cmd")
          /\ UNCHANGED rcvars
       \/ /\ rc \notin {"OFF", "IDLE"} \/ (rc = "IDLE" /\ mode = "vid")
          /\ irq' = IF rc = "IDLE" THEN irq + 1 ELSE irq
          /\ UpdateRsc(FALSE)
          /\ rc' = "PRE_OFF"
          /\ UNCHANGED <<pm, qos>>

\* SDE_ENC_RC_EVENT_STOP
Stop ==
    /\ lock = "none"
    /\ \/ rc \in {"OFF", "ON", "MODESET"} /\ UNCHANGED rcvars
       \/ rc = "PRE_OFF" /\ HelperOff /\ rc' = "OFF" /\ UNCHANGED rsc
       \/ rc = "IDLE" /\ rc' = "OFF" /\ UNCHANGED votes

\* SDE_ENC_RC_EVENT_PRE_MODESET; ok is the result
PreModeset(ok) ==
    /\ lock = "none"
    /\ \/ ok /\ rc = "OFF" /\ UNCHANGED rcvars
       \/ ok /\ rc = "ON" /\ rc' = "MODESET" /\ qos' = FALSE /\ UNCHANGED <<pm, irq, rsc>>
       \/ /\ rc \notin {"OFF", "ON"}
          /\ \/ /\ ok /\ master
                /\ pm' = pm + 1 /\ irq' = irq + 1 /\ qos' = FALSE
                /\ UpdateRsc(TRUE) /\ rc' = "MODESET"
             \/ ~ok /\ HelperFails /\ UNCHANGED <<rc, rsc>>

\* SDE_ENC_RC_EVENT_POST_MODESET
PostModeset ==
    /\ lock = "none"
    /\ \/ rc # "MODESET" /\ UNCHANGED rcvars
       \/ /\ rc = "MODESET"
          /\ UpdateRsc(TRUE) /\ rc' = "ON" /\ qos' = TRUE
          /\ UNCHANGED <<pm, irq>>

\* SDE_ENC_RC_EVENT_ENTER_IDLE.  kickoff_in_progress is set only while the
\* display thread is in a commit, when no thread gets here.
IdleSkip ==
    /\ lock = "none"
    /\ dead \/ rc # "ON"
    /\ UNCHANGED rcvars

IdleBusy ==
    /\ lock = "none"
    /\ ~dead /\ rc = "ON" /\ pending > 0
    /\ UNCHANGED rcvars

\* The video-mode branch drops interrupts and pm_qos, the clocks stay on.
IdleVideo ==
    /\ lock = "none"
    /\ ~dead /\ rc = "ON" /\ pending = 0 /\ mode = "vid"
    /\ irq' = irq - 1 /\ qos' = FALSE /\ rc' = "IDLE"
    /\ UNCHANGED <<pm, rsc>>

\* An idle event that does not look at the frames in flight.
MutIdleFlush(t) ==
    /\ lock = "none"
    /\ ~dead /\ rc = "ON" /\ mode = "cmd"
    /\ lock' = t
    /\ UNCHANGED rcvars

\* The command-mode branch flushes the event thread, rc_lock held ...
IdleFlush(t) ==
    /\ lock = "none"
    /\ ~dead /\ rc = "ON" /\ pending = 0 /\ mode = "cmd"
    /\ lock' = t
    /\ UNCHANGED rcvars

\* ... and then drops every vote.
IdleCollapse(t) ==
    /\ lock = t
    /\ ~esdwork /\ kick = "none"
    /\ UpdateRsc(FALSE) /\ HelperOff /\ rc' = "IDLE"
    /\ lock' = "none"

\* SDE_ENC_RC_EVENT_EARLY_WAKEUP
EarlyWakeup ==
    /\ lock = "none"
    /\ \/ ~crtc /\ UNCHANGED <<rcvars, off>>
       \/ /\ crtc /\ rc = "ON"
          /\ off' = (off \/ pending = 0)
          /\ UNCHANGED rcvars
       \/ /\ crtc /\ rc = "IDLE"
          /\ \/ HelperOn /\ UpdateRsc(TRUE) /\ rc' = "ON" /\ off' = TRUE
             \/ HelperFails /\ UNCHANGED <<rc, rsc, off>>
       \/ /\ crtc /\ rc \notin {"ON", "IDLE"}
          /\ UNCHANGED <<rcvars, off>>

-----------------------------------------------------------------------------
(* The display thread.  A job starts in "free" and returns to it.          *)

StartJob == disp = "free" /\ lock # "pm"

\* A commit enables the display: sde_encoder_virt_mode_set caches the CRTC and
\* cancels the delayed work, sde_crtc_enable starts the status work.
StartEnable ==
    /\ StartJob /\ ~active
    /\ active' = TRUE /\ crtc' = TRUE /\ off' = FALSE
    /\ polling' = Status
    /\ disp' = "enable"
    /\ UNCHANGED <<rcvars, lock, mode, master, pending, wake, dead, delay, esdwork, esd>>
    /\ UNCHANGED kickvars

\* sde_encoder_virt_enable, up to its KICKOFF: the delayed work is initialised.
EnableMaster ==
    /\ disp = "enable"
    /\ master' = TRUE /\ off' = FALSE
    /\ disp' = "enkick"
    /\ UNCHANGED <<rcvars, lock, mode, crtc, active, pending, wake, esdvars>>

\* sde_encoder_virt_enable, its KICKOFF; the commit goes on when it fails.
\* After a seamless switch ("reenable") sde_crtc_enable starts the status work
\* again and the delayed work is not initialised.
EnableKickoff ==
    /\ disp \in {"enkick", "reenable"}
    /\ Kickoff
    /\ disp' = "commit"
    /\ polling' = IF disp = "reenable" THEN Status ELSE polling
    /\ UNCHANGED <<lock, dispvars, wake, dead, delay, esdwork, esd, kickvars>>

\* A commit that only shows a frame.
StartFrame ==
    /\ StartJob /\ active
    /\ disp' = "commit"
    /\ UNCHANGED <<rcvars, off, lock, dispvars, wake, esdvars>>

\* sde_encoder_prepare_for_kickoff
CommitKickoff ==
    /\ disp = "commit"
    /\ Kickoff
    /\ disp' = "frame"
    /\ UNCHANGED <<lock, dispvars, wake, esdvars>>

\* sde_crtc_commit_kickoff: the frame is in flight.
CommitFrame ==
    /\ disp = "frame"
    /\ pending < MaxFrames
    /\ pending' = pending + 1
    /\ disp' = "free"
    /\ UNCHANGED <<rcvars, off, lock, mode, master, crtc, active, wake, esdvars>>

\* A commit with a seamless mode switch: sde_encoder_virt_mode_set ...
StartModeset ==
    /\ StartJob /\ active /\ Dms /\ pm < MaxVotes
    /\ off' = FALSE
    /\ disp' = "premodeset"
    /\ UNCHANGED <<rcvars, lock, dispvars, wake, esdvars>>

\* ... sde_encoder_virt_modeset_rc(pre); mode_set returns when it fails ...
ModesetPre ==
    /\ disp = "premodeset"
    /\ \/ PreModeset(TRUE) /\ disp' = "reserve"
       \/ PreModeset(FALSE) /\ disp' = "reenable"
    /\ Note(rc = "IDLE" /\ mode = "vid", "late")
    /\ UNCHANGED <<off, lock, dispvars, wake, pastless>>

\* ... and when the resources cannot be reserved, without a POST_MODESET ...
ModesetReserveFails ==
    /\ disp = "reserve" /\ ModesetFails
    /\ disp' = "reenable"
    /\ Note(rc = "MODESET", "half")
    /\ UNCHANGED <<rcvars, off, lock, dispvars, wake, pastless>>

\* ... sde_encoder_virt_modeset_rc(post).
ModesetPost ==
    /\ disp = "reserve"
    /\ PostModeset
    /\ disp' = "reenable"
    /\ UNCHANGED <<off, lock, dispvars, wake, esdvars>>

\* A commit disables the display.  The bridge is disabled first, which stops
\* the status work and waits for it.
StartDisable ==
    /\ StartJob /\ active
    /\ esd["status"] = "none"
    /\ polling' = FALSE
    /\ disp' = IF Primary THEN "cancel" ELSE "diskick"
    /\ UNCHANGED <<rcvars, off, lock, dispvars, wake, dead, delay, esdwork, esd, kickvars>>

\* sde_encoder_virt_disable of a display that is not primary
DisableKickoff ==
    /\ disp = "diskick"
    /\ Kickoff
    /\ disp' = "cancel"
    /\ UNCHANGED <<lock, dispvars, wake, esdvars>>

\* A PRE_STOP that leaves the delayed work pending.
MutPreStopCancel ==
    /\ disp = "cancel"
    /\ disp' = "prestop"
    /\ UNCHANGED <<rcvars, off, lock, dispvars, wake, esdvars>>

\* _sde_encoder_rc_pre_stop cancels the delayed work before it takes rc_lock.
PreStopCancel ==
    /\ disp = "cancel"
    /\ off' = FALSE
    /\ disp' = "prestop"
    /\ UNCHANGED <<rcvars, lock, dispvars, wake, esdvars>>

DisablePreStop ==
    /\ disp = "prestop"
    /\ PreStop
    /\ disp' = "stop"
    /\ past' = past \ {"torn"}
    /\ UNCHANGED <<off, lock, dispvars, wake, pastless>>

DisableStop ==
    /\ disp = "stop"
    /\ Stop
    /\ disp' = "reset"
    /\ UNCHANGED <<off, lock, dispvars, wake, esdvars>>

\* sde_encoder_virt_reset takes no lock: the connectors of the physical encoders
\* go first ...
Reset(from, to) ==
    /\ disp = from
    /\ disp' = to
    /\ Note(lock = "esd", "torn")
    /\ UNCHANGED <<rcvars, off, lock, mode, active, pending, wake, pastless>>

ResetConnectors == Reset("reset", "detached") /\ UNCHANGED <<master, crtc>>

\* ... then cur_master, then the CRTC.
ResetMaster == Reset("detached", "nomaster") /\ master' = FALSE /\ UNCHANGED crtc

ResetCrtc == Reset("nomaster", "postdisable") /\ crtc' = FALSE /\ UNCHANGED master

\* The bridge's post_disable frees the DSI interrupts, which waits for their
\* threads, and forgets the dead panel; sde_crtc_disable forgets the frames that
\* never completed.  The display stays off, or the same commit enables it
\* again, in another panel mode when it switches modes (POMS), for which
\* sde_encoder_virt_mode_switch already asks the RSC for an active state.
PostDisable ==
    /\ disp = "postdisable"
    /\ \A r \in DsiThread : esd[r] = "none"
    /\ dead' = FALSE /\ pending' = 0
    /\ \/ /\ active' = FALSE /\ disp' = "free"
          /\ UNCHANGED <<rsc, mode, crtc, polling>>
       \/ /\ mode' \in Modes
          /\ crtc' = TRUE
          /\ rsc' = (rsc \/ mode' # mode)
          /\ polling' = Status
          /\ disp' = "enable"
          /\ UNCHANGED active
    /\ UNCHANGED <<rc, pm, irq, qos, off, lock, master, wake, delay, esdwork, esd, kickvars>>

\* A delayed work that finds a frame in flight and does not start again.
MutOffWork ==
    /\ disp = "free" /\ off
    /\ \/ /\ IdleSkip \/ IdleVideo \/ IdleBusy
          /\ off' = FALSE /\ UNCHANGED <<lock, disp>>
       \/ /\ IdleFlush("disp")
          /\ off' = FALSE /\ disp' = "idle"
    /\ UNCHANGED <<dispvars, wake, esdvars>>

\* delayed_off_work: sde_encoder_off_work
OffWork ==
    /\ disp = "free" /\ off
    /\ \/ /\ IdleSkip \/ IdleVideo
          /\ off' = FALSE /\ UNCHANGED <<lock, disp>>
       \/ /\ IdleBusy
          /\ off' = ~delay /\ UNCHANGED <<lock, disp>>
       \/ /\ IdleFlush("disp")
          /\ off' = FALSE /\ disp' = "idle"
    /\ UNCHANGED <<dispvars, wake, esdvars>>

OffWorkEnd ==
    /\ disp = "idle"
    /\ IdleCollapse("disp")
    /\ disp' = "free"
    /\ UNCHANGED <<off, dispvars, wake, esdvars>>

\* sde_encoder_early_wakeup_work_handler
WakeWork ==
    /\ disp = "free" /\ wake = "queued"
    /\ EarlyWakeup
    /\ wake' = "none"
    /\ Note(rc = "IDLE" /\ mode = "vid", "late")
    /\ UNCHANGED <<lock, disp, dispvars, pastless>>

-----------------------------------------------------------------------------
(* The other threads.                                                      *)

\* sde_kms_pm_suspend holds the modeset locks, flushes the display thread and
\* waits for the frame before it requests idle of a display in LP2.
Suspend ==
    /\ disp = "free" /\ active /\ pending = 0 /\ mode = "cmd"
    /\ \/ IdleSkip /\ UNCHANGED lock
       \/ IdleFlush("pm")
    /\ UNCHANGED <<off, disp, dispvars, wake, esdvars>>

SuspendEnd ==
    /\ IdleCollapse("pm")
    /\ UNCHANGED <<off, disp, dispvars, wake, esdvars>>

\* The frame is done: the event thread counts it.
FrameDone ==
    /\ pending > 0
    /\ pending' = pending - 1
    /\ UNCHANGED <<rcvars, off, lock, disp, mode, master, crtc, active, wake, esdvars>>

\* sde_encoder_early_wakeup looks at the panel mode and the CRTC ...
WakeCheck ==
    /\ Wake /\ wake = "none" /\ pm < MaxVotes
    /\ mode = "cmd" /\ crtc
    /\ wake' = "checked"
    /\ UNCHANGED <<rcvars, off, lock, disp, dispvars, esdvars>>

\* ... and queues the work.
WakeQueue ==
    /\ wake = "checked"
    /\ wake' = "queued"
    /\ UNCHANGED <<rcvars, off, lock, disp, dispvars, esdvars>>

\* The status work finds the panel dead: sde_connector_report_panel_dead.
StatusReport ==
    /\ polling /\ ~dead
    /\ esd["status"] = "none"
    /\ esd' = [esd EXCEPT !["status"] = "mark"]
    /\ UNCHANGED <<rcvars, off, lock, disp, dispvars, wake, dead, polling, delay, esdwork>>
    /\ UNCHANGED kickvars

\* A DSI error: dsi_display_report_dead stops the status work first.
DsiReport(r) ==
    /\ active /\ ~dead
    /\ esd[r] = "none" /\ esd["status"] = "none"
    /\ esd' = [esd EXCEPT ![r] = "mark"]
    /\ polling' = FALSE
    /\ UNCHANGED <<rcvars, off, lock, disp, dispvars, wake, dead, delay, esdwork, kickvars>>

\* panel_dead is set; sde_encoder_display_failure_notification looks for the CRTC ...
ReportMark(r) ==
    /\ esd[r] = "mark"
    /\ dead' = TRUE
    /\ esd' = [esd EXCEPT ![r] = IF crtc THEN "queue" ELSE "none"]
    /\ UNCHANGED <<rcvars, off, lock, disp, dispvars, wake, polling, delay, esdwork, kickvars>>

\* ... queues the work that turns the resources on to the CRTC's event thread and
\* waits for it ...
ReportQueue(r) ==
    /\ esd[r] = "queue"
    /\ oops' = ~crtc
    /\ delay' = TRUE /\ esdwork' = TRUE
    /\ esd' = [esd EXCEPT ![r] = "flush"]
    /\ UNCHANGED <<rcvars, off, lock, disp, dispvars, wake, dead, polling, kick, past>>

\* ... switches the source of the vsync with the master encoder ...
ReportVsync(r) ==
    /\ esd[r] = "vsync"
    /\ oops' = ~master
    /\ esd' = [esd EXCEPT ![r] = "txwait"]
    /\ UNCHANGED <<rcvars, off, lock, disp, dispvars, wake, dead, polling, delay, esdwork>>
    /\ UNCHANGED <<kick, past>>

\* ... and waits for the frame, which is done, or the wait times out.
ReportEnd(r) ==
    /\ esd[r] = "txwait"
    /\ esd' = [esd EXCEPT ![r] = "none"]
    /\ delay' = FALSE
    /\ UNCHANGED <<rcvars, off, lock, disp, dispvars, wake, dead, polling, esdwork, kickvars>>

-----------------------------------------------------------------------------
(* The event thread's KICKOFF, with a step of its own for each look at     *)
(* cur_master or the CRTC and for each use of it.  (The panel mode, read   *)
(* before the lock, cannot change while a report is under way.)            *)

EsdRest == UNCHANGED <<disp, dispvars, wake, dead, polling, delay, past>>

\* A look at cur_master, and the step to take if it is there, or else.
EsdLook(use, else) == kick' = IF master THEN use ELSE else

\* sde_encoder_esd_trigger_work_handler, up to the lock
EsdTake ==
    /\ esdwork /\ kick = "none"
    /\ esdwork' = FALSE
    /\ esd' = [r \in Reporter |-> IF esd[r] = "flush" THEN "run" ELSE esd[r]]
    /\ EsdLook("intf_mode", "lock")
    /\ EsdRest /\ UNCHANGED <<rcvars, off, lock, oops>>

\* rc_lock, rc_state and the look of _sde_encoder_resource_control_helper
EsdLock ==
    /\ kick = "lock" /\ lock = "none"
    /\ lock' = "esd"
    /\ \/ rc \notin {"OFF", "IDLE"} /\ kick' = "arm" /\ UNCHANGED rcvars
       \/ /\ rc = "IDLE" /\ mode = "vid"
          /\ irq' = irq + 1 /\ qos' = TRUE /\ rc' = "ON" /\ kick' = "arm"
          /\ UNCHANGED <<pm, rsc>>
       \/ /\ rc = "OFF" \/ (rc = "IDLE" /\ mode = "cmd")
          /\ EsdLook("clk", "arm") /\ UNCHANGED rcvars
    /\ EsdRest /\ UNCHANGED <<off, esdwork, esd, oops>>

\* Without its connector the encoder gets no clocks.
EsdClk ==
    /\ kick = "clk"
    /\ \/ /\ ClkFails \/ disp = "detached"
          /\ kick' = "arm" /\ UNCHANGED <<pm, irq, qos, oops>>
       \/ /\ disp # "detached"
          /\ oops' = ~master
          /\ kick' = "rsc" /\ HelperVotes
    /\ EsdRest /\ UNCHANGED <<rc, rsc, off, lock, esdwork, esd>>

\* _sde_encoder_update_rsc_client fails without a CRTC, and its error is ignored.
EsdRsc ==
    /\ kick = "rsc"
    /\ \/ crtc /\ EsdLook("qsync", "ask") /\ UNCHANGED rc
       \/ ~crtc /\ rc' = "ON" /\ kick' = "arm"
    /\ EsdRest /\ UNCHANGED <<votes, off, lock, esdwork, esd, oops>>

\* _sde_encoder_rsc_state_trigger
EsdAsk ==
    /\ kick = "ask"
    /\ oops' = ~crtc
    /\ rsc' = TRUE /\ rc' = "ON" /\ kick' = "arm"
    /\ EsdRest /\ UNCHANGED <<pm, irq, qos, off, lock, esdwork, esd>>

\* _sde_encoder_rc_kickoff_delayed looks for autorefresh.
EsdArm ==
    /\ kick = "arm"
    /\ EsdLook("autorefresh", "delay")
    /\ EsdRest /\ UNCHANGED <<rcvars, off, lock, esdwork, esd, oops>>

\* The uses of cur_master that follow a look, and where they lead.
AfterUse == [intf_mode |-> "lock", qsync |-> "ask", autorefresh |-> "delay", lp |-> "timer"]

EsdUse ==
    /\ kick \in DOMAIN AfterUse
    /\ oops' = ~master
    /\ kick' = AfterUse[kick]
    /\ EsdRest /\ UNCHANGED <<rcvars, off, lock, esdwork, esd>>

\* _sde_encoder_rc_restart_delayed, and the end of the work: the delayed work is armed
\* on the thread of the CRTC, unless a report is still under way.
EsdEnd ==
    /\ kick \in {"delay", "timer"}
    /\ IF kick = "delay" /\ ~delay
       THEN EsdLook("lp", "timer") /\ UNCHANGED <<off, lock, esd, oops>>
       ELSE /\ off' = (off \/ kick = "timer")
            /\ oops' = (kick = "timer" /\ ~crtc)
            /\ lock' = "none" /\ kick' = "none"
            /\ esd' = [r \in Reporter |-> IF esd[r] = "run" THEN "vsync" ELSE esd[r]]
    /\ EsdRest /\ UNCHANGED <<rcvars, esdwork>>

EsdWork == EsdTake \/ EsdLock \/ EsdClk \/ EsdRsc \/ EsdAsk \/ EsdArm \/ EsdUse \/ EsdEnd

-----------------------------------------------------------------------------
Job ==
    \/ EnableMaster \/ EnableKickoff \/ CommitKickoff \/ CommitFrame
    \/ ModesetPre \/ ModesetReserveFails \/ ModesetPost
    \/ DisableKickoff \/ PreStopCancel \/ DisablePreStop \/ DisableStop
    \/ ResetConnectors \/ ResetMaster \/ ResetCrtc \/ PostDisable \/ OffWorkEnd

Works == OffWork \/ WakeWork

User == StartEnable \/ StartFrame \/ StartModeset \/ StartDisable \/ WakeCheck

Report(r) == ReportMark(r) \/ ReportQueue(r) \/ ReportVsync(r) \/ ReportEnd(r)

Next ==
    /\ ~oops
    /\ \/ User \/ Job \/ Works
       \/ Suspend \/ SuspendEnd \/ FrameDone \/ WakeQueue \/ EsdWork
       \/ StatusReport \/ \E r \in DsiThread : DsiReport(r)
       \/ \E r \in Reporter : Report(r)

Spec == Init /\ [][Next]_vars

\* Every thread that has work goes on with it, frames are completed, and the
\* timer of the delayed work expires: its work runs when the thread is free of
\* other work long enough.
Fairness ==
    /\ WF_vars(Job) /\ WF_vars(OffWork) /\ WF_vars(WakeWork) /\ WF_vars(FrameDone)
    /\ WF_vars(SuspendEnd) /\ WF_vars(WakeQueue) /\ WF_vars(EsdWork)
    /\ \A r \in Reporter : WF_vars(Report(r))

FairSpec == Spec /\ Fairness

-----------------------------------------------------------------------------
(* Properties.                                                             *)

Powered == rc \in {"ON", "MODESET", "PRE_OFF"}

ClockDue == IF Powered \/ (rc = "IDLE" /\ mode = "vid") THEN 1 ELSE 0
IrqDue == IF Powered THEN 1 ELSE 0

\* A vote may have been counted twice.
Twice == "half" \in past \/ "late" \in past

\* The votes an encoder holds are the ones its state stands for, whatever
\* threads drove it there: one clock vote while it is powered or idle in video
\* mode, one interrupt vote while it is powered, pm_qos requests exactly while
\* it is on, and the RSC active while frames may be sent.  A KICKOFF of the event
\* thread is over when it has left rc_lock.  Two exceptions: a KICKOFF that loses
\* its CRTC to a reset does not ask the RSC, and votes are counted twice, never too
\* few, by a seamless mode switch after one that stopped half-way, or by an early
\* wakeup or a seamless switch that takes an idle video-mode display for a
\* command-mode one.
VotesMatchState ==
    lock # "esd" =>
    /\ pm >= ClockDue /\ irq >= IrqDue
    /\ ~Twice => pm = ClockDue /\ irq = IrqDue
    /\ rc = "ON" => qos
    /\ rc \in {"OFF", "IDLE", "MODESET"} => ~qos
    /\ rc \in {"ON", "MODESET"} /\ "torn" \notin past => rsc
    /\ rc = "PRE_OFF" \/ (rc = "IDLE" /\ mode = "cmd") => ~rsc

\* The resources are never collapsed under a frame: an idle encoder has no
\* frame in flight, unless its clocks failed.
QuietIdle == rc = "IDLE" => pending = 0

\* The delayed work uses cur_master and its connector unchecked, and whoever
\* arms it uses sde_enc->crtc unchecked: when the display thread is free to run
\* it they are there, and a KICKOFF of the event thread that would arm it runs
\* only while the CRTC is there.  A report of a dead panel finds its pointers too,
\* unless the display is just being switched on or its encoder reset.
OffWorkSafe ==
    /\ off /\ disp = "free" => master /\ crtc
    /\ (esdwork \/ kick # "none") /\ ~delay => crtc
    /\ oops => disp \in {"enable", "detached", "nomaster", "postdisable"}

\* STOP disables "all the MDP/DSI core clocks, and disable IRQs": a display that
\* a commit has switched off holds no vote, if none was counted twice.
OffHoldsNothing ==
    ~active /\ disp = "free" => rc = "OFF" /\ ~off /\ (Twice \/ (pm = 0 /\ irq = 0))

\* When clients stop committing and waking, the encoder powers down, if no seamless
\* mode switch has stopped half-way and left it in MODESET.
PowersDown == <>[][~User]_vars => <>[](rc \in {"OFF", "IDLE"} \/ "half" \in past)
=============================================================================
