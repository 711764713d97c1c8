------------------------------ MODULE DsiHost ------------------------------
(***************************************************************************)
(* A DSI display at work on its clock manager: the display thread of the   *)
(* DRM bridge (dsi_bridge_pre_enable ... dsi_bridge_post_disable), senders *)
(* of panel commands (backlight, ESD status check), the work that ends an  *)
(* asynchronous command, the FIFO error work and the controller interrupt. *)
(*                                                                         *)
(* Lock order: display_lock, panel_lock.  The holder of panel_lock runs at *)
(* most one command transfer, so tx is the position of that holder in      *)
(* dsi_host_transfer_sub.  A command in flight keeps a reference on the    *)
(* command engine and a vote on all clocks until its cleanup, which runs   *)
(* in the sender (sync) or in post_cmd_tx_work (async).                    *)
(*                                                                         *)
(* Left out: mode switches (DMS, POMS), continuous splash and the trusted  *)
(* VM, command sets a panel may leave empty (PRE_ON, POST_ON, ...), and    *)
(* batches: a batch is one transfer under one panel_lock.                  *)
(***************************************************************************)
EXTENDS DsiClkManager

\* dsi_display_bind registers these clients.
ASSUME HostAssumption == {"mdp", "dsi"} \subseteq Client

VARIABLES
    d,        \* position of the display thread
    failed,   \* "enable": dsi_display_enable failed, pre_enable runs the unprepare;
              \* history "kept": dsi_display_prepare failed and kept its link vote
    dlock,    \* holder of display_lock
    plock,    \* holder of panel_lock
    tx,       \* position of the transfer of the holder of panel_lock
    kind,     \* "sync" or "async" (DSI_CTRL_CMD_ASYNC_WAIT)
    queued,   \* post_tx_queued
    work,     \* post_cmd_tx_work
    irq,      \* dma_irq_trig
    dma,      \* a command DMA is in flight
    eng,      \* cmd_engine_refcount
    ctl       \* subset of {"init", "host", "vid"}: host_initialized, controller_state,
              \* vid_engine_state

hostvars == <<d, failed, dlock, plock, tx, kind, queued, work, irq, dma, eng, ctl>>
vars == <<clkvars, hostvars>>

All == {"core", "link"}

Init ==
    /\ ClkInit
    /\ d = "off" /\ failed = {}
    /\ dlock = "free" /\ plock = "free" /\ tx = "no" /\ kind = "sync"
    /\ queued = FALSE /\ work = "none" /\ irq = FALSE /\ dma = FALSE
    /\ eng = 0 /\ ctl = {}

-----------------------------------------------------------------------------
(* Engines of the controller                                               *)

Ready == hw.pwr = "on" /\ "host" \in ctl

\* dsi_ctrl_set_cmd_engine_state: counted, and the first ON and the last OFF are
\* refused by dsi_ctrl_check_state unless power and host engine are on.
CmdEngineOn == (eng > 0 \/ Ready) /\ eng' = eng + 1

CmdEngineOff == eng' = IF eng > 1 \/ (eng = 1 /\ Ready) THEN eng - 1 ELSE eng

\* dsi_ctrl_set_host_engine_state(OFF), refused while an engine is on.
HostOff == IF Ready /\ eng = 0 /\ "vid" \notin ctl THEN ctl \ {"host"} ELSE ctl

-----------------------------------------------------------------------------
(* A command transfer by the holder of panel_lock                          *)

\* dsi_host_transfer_sub: nothing is sent while an ESD recovery is pending;
\* dsi_ctrl_transfer_prepare votes, and keeps the vote when the clocks fail.
TxVote ==
    /\ tx = "vote"
    /\ IF "esd" \in panel
       THEN tx' = "ok" /\ UNCHANGED clkvars
       ELSE \E rc \in {"ok", "fail"} :
                ClkOn("dsi", All, rc) /\ tx' = IF rc = "ok" THEN "flush" ELSE "fail"
    /\ UNCHANGED <<d, failed, dlock, plock, kind, queued, work, irq, dma, eng, ctl>>

\* Mutant: the work is cancelled and nobody does its clean-up.
MutTxReap ==
    /\ tx = "flush" /\ queued /\ irq /\ work = "queued"
    /\ work' = "none" /\ queued' = FALSE
    /\ UNCHANGED <<clkvars, eng, d, failed, dlock, plock, tx, kind, irq, dma, ctl>>

\* dsi_ctrl_flush_cmd_dma_queue: the interrupt came and the work has not started,
\* so the sender cancels it and cleans up in its place.
TxReap ==
    /\ tx = "flush" /\ queued /\ irq /\ work = "queued"
    /\ work' = "none" /\ queued' = FALSE
    /\ CmdEngineOff /\ ClkOff("dsi", All)
    /\ UNCHANGED <<d, failed, dlock, plock, tx, kind, irq, dma, ctl>>

\* Otherwise it waited for the work, which cleared post_tx_queued.  The engine goes
\* on, the DMA is triggered, the end of an asynchronous command is queued.
TxSend ==
    /\ tx = "flush" /\ ~queued
    /\ CmdEngineOn
    /\ dma' = TRUE /\ irq' = FALSE
    /\ IF kind = "async"
       THEN queued' = TRUE /\ work' = "queued" /\ tx' = "ok"
       ELSE tx' = "wait" /\ UNCHANGED <<queued, work>>
    /\ UNCHANGED <<clkvars, d, failed, dlock, plock, kind, ctl>>

TxRefused ==
    /\ tx = "flush" /\ ~queued /\ eng = 0 /\ ~Ready
    /\ ClkOff("dsi", All)
    /\ tx' = "fail"
    /\ UNCHANGED <<d, failed, dlock, plock, kind, queued, work, irq, dma, eng, ctl>>

\* dsi_ctrl_post_cmd_transfer of a synchronous command, after DmaDone or DmaTimeout.
TxDone ==
    /\ tx = "wait" /\ ~dma
    /\ CmdEngineOff
    /\ tx' = "clean"
    /\ UNCHANGED <<clkvars, d, failed, dlock, plock, kind, queued, work, irq, dma, ctl>>

TxClean ==
    /\ tx = "clean"
    /\ ClkOff("dsi", All)
    /\ tx' = "ok"
    /\ UNCHANGED <<d, failed, dlock, plock, kind, queued, work, irq, dma, eng, ctl>>

\* The interrupt of a controller that is on; or DSI_CTRL_TX_TO_MS passes, the waiter masks
\* the interrupt and takes the command for lost.
DmaDone ==
    /\ dma /\ hw.mlink = "ON"
    /\ dma' = FALSE /\ irq' = TRUE
    /\ UNCHANGED <<clkvars, d, failed, dlock, plock, tx, kind, queued, work, eng, ctl>>

DmaTimeout ==
    /\ dma /\ (tx = "wait" \/ work = "running")
    /\ dma' = FALSE
    /\ UNCHANGED <<clkvars, d, failed, dlock, plock, tx, kind, queued, work, irq, eng, ctl>>

\* dsi_ctrl_post_cmd_transfer_work
WorkStart ==
    /\ work = "queued"
    /\ work' = "running"
    /\ UNCHANGED <<clkvars, d, failed, dlock, plock, tx, kind, queued, irq, dma, eng, ctl>>

WorkDone ==
    /\ work = "running" /\ ~dma
    /\ CmdEngineOff
    /\ work' = "ending"
    /\ UNCHANGED <<clkvars, d, failed, dlock, plock, tx, kind, queued, irq, dma, ctl>>

WorkEnd ==
    /\ work = "ending"
    /\ ClkOff("dsi", All)
    /\ queued' = FALSE /\ work' = "none"
    /\ UNCHANGED <<d, failed, dlock, plock, tx, kind, irq, dma, eng, ctl>>

-----------------------------------------------------------------------------
(* Senders besides the display thread                                      *)

\* dsi_display_set_backlight, or any command of a kickoff (queue_cmd_waits).
BlStart ==
    /\ plock = "free" /\ "init" \in panel
    /\ plock' = "bl" /\ tx' = "vote" /\ kind' \in {"sync", "async"}
    /\ UNCHANGED <<clkvars, d, failed, dlock, queued, work, irq, dma, eng, ctl>>

BlEnd ==
    /\ plock = "bl" /\ tx \in {"ok", "fail"}
    /\ plock' = "free" /\ tx' = "no"
    /\ UNCHANGED <<clkvars, d, failed, dlock, kind, queued, work, irq, dma, eng, ctl>>

\* dsi_display_check_status by register read or by the tearing signal, which sends
\* nothing; the result of its own vote is not looked at.
EsdStart ==
    /\ plock = "free" /\ "init" \in panel /\ "esd" \notin panel
    /\ \E rc \in {"ok", "fail"} : ClkOn("dsi", All, rc)
    /\ plock' = "esd" /\ kind' = "sync" /\ tx' \in {"vote", "ok"}
    /\ UNCHANGED <<d, failed, dlock, queued, work, irq, dma, eng, ctl>>

EsdResult ==
    /\ plock = "esd" /\ tx \in {"ok", "fail"}
    /\ panel' \in {panel \cup {"esd"}} \cup (IF tx = "ok" THEN {panel} ELSE {})
    /\ tx' = "checked"
    /\ UNCHANGED <<conf, core, link, hw, faults, broken, d, failed, dlock, plock, kind, queued,
                   work, irq, dma, eng, ctl>>

EsdEnd ==
    /\ tx = "checked"
    /\ ClkOff("dsi", All)
    /\ plock' = "free" /\ tx' = "no"
    /\ UNCHANGED <<d, failed, dlock, kind, queued, work, irq, dma, eng, ctl>>

\* dsi_display_handle_fifo_underflow and overflow.  The ESD flag was read before the
\* wait for display_lock: it may have been set since.
ErrStart ==
    /\ dlock = "free" /\ "init" \in ctl
    /\ \E rc \in {"ok", "fail"} : ClkOn("dsi", All, rc)
    /\ dlock' = "err"
    /\ UNCHANGED <<d, failed, plock, tx, kind, queued, work, irq, dma, eng, ctl>>

ErrEnd ==
    /\ dlock = "err"
    /\ ClkOff("dsi", All)
    /\ dlock' = "free"
    /\ UNCHANGED <<d, failed, plock, tx, kind, queued, work, irq, dma, eng, ctl>>

-----------------------------------------------------------------------------
(* The display thread: enable                                              *)

\* dsi_bridge_pre_enable with active_changed.
PreEnable ==
    /\ d = "off"
    /\ d' = "prepare" /\ panel' = panel \ {"esd"}
    /\ UNCHANGED <<conf, core, link, hw, faults, broken, failed, dlock, plock, tx, kind, queued,
                   work, irq, dma, eng, ctl>>

\* dsi_display_prepare up to the core clocks; a failure leaves the vote behind.
Prepare ==
    /\ d = "prepare" /\ dlock = "free"
    /\ \E rc \in {"ok", "fail"} :
        /\ ClkOn("dsi", {"core"}, rc)
        /\ IF rc = "ok" THEN d' = "hostinit" /\ dlock' = "disp"
                        ELSE d' = "postenable" /\ UNCHANGED dlock
    /\ UNCHANGED <<failed, plock, tx, kind, queued, work, irq, dma, eng, ctl>>

\* PHY and controller set up, host engine on, link clocks.  The error path turns
\* the host off again and never takes the link vote back.
HostOn ==
    /\ d = "hostinit" /\ hw.pwr = "on" /\ ctl = {}
    /\ \E rc \in {"ok", "fail"} :
        /\ ClkOn("dsi", {"link"}, rc)
        /\ IF rc = "ok"
           THEN /\ d' = "enable" /\ dlock' = "free" /\ ctl' = ctl \cup {"init", "host"}
                /\ UNCHANGED failed
           ELSE /\ d' = "unwind" /\ failed' = failed \cup {"kept"}
                /\ UNCHANGED <<dlock, ctl>>
    /\ UNCHANGED <<plock, tx, kind, queued, work, irq, dma, eng>>

\* After a failure the set-up finds no power (the vote was granted on the word of an
\* older one) or a host that the last disable could not turn off.
HostFails ==
    /\ d = "hostinit" /\ (hw.pwr # "on" \/ ctl # {})
    /\ d' = "unwind"
    /\ UNCHANGED <<clkvars, failed, dlock, plock, tx, kind, queued, work, irq, dma, eng, ctl>>

Unwind ==
    /\ d = "unwind"
    /\ ClkOff("dsi", {"core"})
    /\ d' = "postenable" /\ dlock' = "free"
    /\ UNCHANGED <<failed, plock, tx, kind, queued, work, irq, dma, eng, ctl>>

\* dsi_display_enable, dsi_panel_enable: the ON commands under both locks.
Enable ==
    /\ d = "enable" /\ dlock = "free"
    /\ d' = "panelon" /\ dlock' = "disp"
    /\ UNCHANGED <<clkvars, failed, plock, tx, kind, queued, work, irq, dma, eng, ctl>>

PanelOn ==
    /\ d = "panelon" /\ plock = "free"
    /\ d' = "oncmd" /\ plock' = "disp" /\ tx' = "vote" /\ kind' = "sync"
    /\ UNCHANGED <<clkvars, failed, dlock, queued, work, irq, dma, eng, ctl>>

PanelOnDone ==
    /\ d = "oncmd" /\ tx \in {"ok", "fail"}
    /\ plock' = "free" /\ tx' = "no"
    /\ IF tx = "ok"
       THEN d' = "engine" /\ panel' = panel \cup {"init"} /\ UNCHANGED <<failed, dlock>>
       ELSE /\ d' = "unprep" /\ failed' = failed \cup {"enable"} /\ dlock' = "free"
            /\ UNCHANGED panel
    /\ UNCHANGED <<conf, core, link, hw, faults, broken, kind, queued, work, irq, dma, eng, ctl>>

\* The engine of the panel's mode; the power of its own vote is there.
EngineOn ==
    /\ d = "engine"
    /\ IF conf.mode = "cmd" THEN CmdEngineOn /\ UNCHANGED ctl
       ELSE Ready /\ ctl' = ctl \cup {"vid"} /\ UNCHANGED eng
    /\ d' = "postenable" /\ dlock' = "free"
    /\ UNCHANGED <<clkvars, failed, plock, tx, kind, queued, work, irq, dma>>

\* Mutant: a video panel gives its vote back as well.
MutPostEnable ==
    /\ d = "postenable" /\ dlock = "free"
    /\ ClkOff("dsi", All)
    /\ d' = "on"
    /\ UNCHANGED <<failed, dlock, plock, tx, kind, queued, work, irq, dma, eng, ctl>>

\* dsi_display_post_enable: a command panel gives the vote of its enable back.
PostEnable ==
    /\ d = "postenable" /\ dlock = "free"
    /\ IF conf.mode = "cmd" THEN ClkOff("dsi", All) ELSE UNCHANGED clkvars
    /\ d' = "on"
    /\ UNCHANGED <<failed, dlock, plock, tx, kind, queued, work, irq, dma, eng, ctl>>

-----------------------------------------------------------------------------
(* The display thread: the panel is on                                     *)

\* The encoder's resource control votes through sde_connector_clk_ctrl.
MdpVote ==
    /\ d = "on"
    /\ IF core["mdp"] = 0 THEN \E rc \in {"ok", "fail"} : ClkOn("mdp", All, rc)
       ELSE ClkOff("mdp", All)
    /\ UNCHANGED hostvars

\* dsi_display_pre_kickoff with a new bit clock, on a command panel: both locks,
\* then the end of the queued command, then the link off and on.
Update ==
    /\ d = "on" /\ conf.mode = "cmd" /\ dlock = "free"
    /\ d' = "update" /\ dlock' = "disp"
    /\ UNCHANGED <<clkvars, failed, plock, tx, kind, queued, work, irq, dma, eng, ctl>>

UpdateLock ==
    /\ d = "update" /\ plock = "free"
    /\ d' = "updateflush" /\ plock' = "disp"
    /\ UNCHANGED <<clkvars, failed, dlock, tx, kind, queued, work, irq, dma, eng, ctl>>

\* Mutant: the queued command is not waited for.
MutUpdateFlush ==
    /\ d = "updateflush"
    /\ d' = "toggle"
    /\ UNCHANGED <<clkvars, failed, dlock, plock, tx, kind, queued, work, irq, dma, eng, ctl>>

UpdateFlush ==
    /\ d = "updateflush" /\ ~queued
    /\ d' = "toggle"
    /\ UNCHANGED <<clkvars, failed, dlock, plock, tx, kind, queued, work, irq, dma, eng, ctl>>

Toggle ==
    /\ d = "toggle"
    /\ IF hw.mlink = "ON" THEN ForceUpdate ELSE UNCHANGED clkvars
    /\ d' = "on" /\ dlock' = "free" /\ plock' = "free"
    /\ UNCHANGED <<failed, tx, kind, queued, work, irq, dma, eng, ctl>>

-----------------------------------------------------------------------------
(* The display thread: disable                                             *)

\* dsi_display_pre_disable: a command panel votes for the disable.
PreDisable ==
    /\ d = "on" /\ dlock = "free"
    /\ IF conf.mode = "cmd" THEN \E rc \in {"ok", "fail"} : ClkOn("dsi", All, rc)
       ELSE UNCHANGED clkvars
    /\ d' = "mdpoff"
    /\ UNCHANGED <<failed, dlock, plock, tx, kind, queued, work, irq, dma, eng, ctl>>

\* The encoder is disabled between bridge disable and post_disable.
MdpOff ==
    /\ d = "mdpoff"
    /\ IF core["mdp"] > 0 THEN ClkOff("mdp", All) ELSE UNCHANGED clkvars
    /\ d' = "disable"
    /\ UNCHANGED <<failed, dlock, plock, tx, kind, queued, work, irq, dma, eng, ctl>>

\* dsi_display_disable: the engine of the mode, then dsi_panel_disable.
Disable ==
    /\ d = "disable" /\ dlock = "free"
    /\ d' = "engineoff" /\ dlock' = "disp"
    /\ UNCHANGED <<clkvars, failed, plock, tx, kind, queued, work, irq, dma, eng, ctl>>

EngineOff ==
    /\ d = "engineoff"
    /\ IF conf.mode = "cmd" THEN CmdEngineOff /\ UNCHANGED ctl
       ELSE ctl' = (IF Ready THEN ctl \ {"vid"} ELSE ctl) /\ UNCHANGED eng
    /\ d' = "paneloff"
    /\ UNCHANGED <<clkvars, failed, dlock, plock, tx, kind, queued, work, irq, dma>>

PanelOff ==
    /\ d = "paneloff" /\ plock = "free"
    /\ d' = "offcmd" /\ plock' = "disp" /\ kind' = "sync"
    /\ tx' = IF "esd" \in panel THEN "ok" ELSE "vote"
    /\ UNCHANGED <<clkvars, failed, dlock, queued, work, irq, dma, eng, ctl>>

\* Mutant: display_lock stays taken.
MutPanelOffDone ==
    /\ d = "offcmd" /\ tx \in {"ok", "fail"}
    /\ d' = "unprep" /\ plock' = "free" /\ tx' = "no"
    /\ panel' = panel \ {"init"}
    /\ UNCHANGED <<conf, core, link, hw, faults, broken, failed, dlock, kind, queued, work,
                   irq, dma, eng, ctl>>

PanelOffDone ==
    /\ d = "offcmd" /\ tx \in {"ok", "fail"}
    /\ d' = "unprep" /\ dlock' = "free" /\ plock' = "free" /\ tx' = "no"
    /\ panel' = panel \ {"init"}
    /\ UNCHANGED <<conf, core, link, hw, faults, broken, failed, kind, queued, work, irq, dma,
                   eng, ctl>>

\* dsi_display_unprepare: an asynchronous command still queued is waited for, the
\* host engine goes off, then link clocks, controller and core clocks.
Unprepare ==
    /\ d = "unprep" /\ dlock = "free"
    /\ d' = "hostoff" /\ dlock' = "disp"
    /\ UNCHANGED <<clkvars, failed, plock, tx, kind, queued, work, irq, dma, eng, ctl>>

\* Mutant: the asynchronous command is not waited for.
MutHostDisable ==
    /\ d = "hostoff"
    /\ ctl' = HostOff
    /\ d' = "ulink"
    /\ UNCHANGED <<clkvars, failed, dlock, plock, tx, kind, queued, work, irq, dma, eng>>

HostDisable ==
    /\ d = "hostoff" /\ ~queued
    /\ ctl' = HostOff
    /\ d' = "ulink"
    /\ UNCHANGED <<clkvars, failed, dlock, plock, tx, kind, queued, work, irq, dma, eng>>

UnprepareLink ==
    /\ d = "ulink"
    /\ ClkOff("dsi", {"link"})
    /\ d' = "ucore"
    /\ UNCHANGED <<failed, dlock, plock, tx, kind, queued, work, irq, dma, eng, ctl>>

UnprepareCore ==
    /\ d = "ucore"
    /\ ctl' = IF hw.pwr = "on" THEN ctl \ {"init"} ELSE ctl
    /\ ClkOff("dsi", {"core"})
    /\ d' = IF "enable" \in failed THEN "postenable" ELSE "off"
    /\ failed' = failed \ {"enable"} /\ dlock' = "free"
    /\ UNCHANGED <<plock, tx, kind, queued, work, irq, dma, eng>>

-----------------------------------------------------------------------------
Sender == TxVote \/ TxReap \/ TxSend \/ TxRefused \/ TxDone \/ TxClean

Work == WorkStart \/ WorkDone \/ WorkEnd

Others == BlStart \/ BlEnd \/ EsdStart \/ EsdResult \/ EsdEnd \/ ErrStart \/ ErrEnd

GoingOn == Prepare \/ HostOn \/ HostFails \/ Unwind \/ Enable \/ PanelOn \/ PanelOnDone
           \/ EngineOn \/ PostEnable

GoingOff == MdpOff \/ Disable \/ EngineOff \/ PanelOff \/ PanelOffDone \/ Unprepare
            \/ HostDisable \/ UnprepareLink \/ UnprepareCore

Next ==
    \/ Sender \/ DmaDone \/ DmaTimeout \/ Work \/ Others
    \/ PreEnable \/ GoingOn
    \/ MdpVote \/ Update \/ UpdateLock \/ UpdateFlush \/ Toggle
    \/ PreDisable \/ GoingOff

\* Threads, work items and holders of a lock run on; the mutexes hand over, so a
\* waiting thread gets its turn; every wait for a command is bounded.  Nothing
\* makes a modeset, a vote or a command come.
Fairness ==
    /\ WF_vars(Sender) /\ WF_vars(DmaTimeout) /\ WF_vars(Work)
    /\ WF_vars(BlEnd) /\ WF_vars(EsdResult) /\ WF_vars(EsdEnd) /\ WF_vars(ErrEnd)
    /\ SF_vars(GoingOn) /\ SF_vars(UpdateLock) /\ WF_vars(UpdateFlush) /\ WF_vars(Toggle)
    /\ SF_vars(GoingOff)

Spec == Init /\ [][Next]_vars /\ Fairness

-----------------------------------------------------------------------------
(* Properties                                                              *)

\* A link clock failed, and dsi_display_prepare with it: its error path drops the core vote
\* and keeps the link vote.
Stranded == "kept" \in failed /\ broken # {}

\* The order of the clocks in the display at work (dsi_update_clk_state), whichever clocks
\* and callbacks fail and whatever votes the failed calls leave behind, until it is stranded.
LinkOnCore == Stranded \/ LinkNeedsCore

\* And what a link that is on owes its users (dsi_pre_clkon_cb, dsi_post_clkon_cb).
LinkOnReady == Stranded \/ LinkReady

\* Votes of the display thread at each of its positions.
DispVote ==
    [core |-> CASE d \in {"off", "prepare"} -> 0
                [] d \in {"on", "update", "updateflush", "toggle"} ->
                       IF conf.mode = "cmd" THEN 0 ELSE 1
                [] OTHER -> 1,
     link |-> CASE d \in {"off", "prepare", "hostinit", "ucore"} -> 0
                [] d \in {"on", "update", "updateflush", "toggle"} ->
                       IF conf.mode = "cmd" THEN 0 ELSE 1
                [] OTHER -> 1]

Flag(b) == IF b THEN 1 ELSE 0

\* The counts of the DSI client are the votes of those that hold one: the display
\* thread, the transfer, the unfinished work, the ESD check and the error work.  A
\* leak or a double release anywhere breaks it.  (No clock failed: a failed ON keeps
\* its vote in some callers.)
VotesMatch ==
    faults = 0 =>
        \A dom \in All :
            (IF dom = "core" THEN core["dsi"] ELSE link["dsi"]) =
                DispVote[dom] + Flag(tx \in {"flush", "wait", "clean"}) + Flag(work # "none")
                + Flag(plock = "esd") + Flag(dlock = "err")

\* A command in flight has the link clocks, the host engine and a reference on the
\* command engine, whatever disables, reconfigures or checks the display meanwhile;
\* and nobody toggles the link under it.
InFlight ==
    /\ dma /\ faults = 0 => hw.mlink = "ON" /\ hw.hs = 1 /\ "host" \in ctl /\ eng > 0
    /\ d = "toggle" => ~dma

\* Once the host is disabled it really is off: the queued command is over, no engine
\* is on, and nobody turns one on until the next enable.
HostGoesOff ==
    faults = 0 /\ d \in {"ulink", "ucore", "off"} =>
        ctl \cap {"host", "vid"} = {} /\ eng = 0 /\ ~queued

\* Until a clock fails, every step of the display is one of the clock manager under
\* clients that keep its protocol: no link vote without a core vote, no OFF without
\* its ON.  So what is proved of the manager holds of the display.
KeepsProtocol == [][faults = 0 => ClkNext]_clkvars

\* A disable that started ends with the display off.
DisableEnds == d = "mdpoff" ~> d = "off"
=============================================================================
