------------------------------ MODULE SdeFrame ------------------------------
(***************************************************************************)
(* The life of a frame of a command mode display, from the commit that     *)
(* kicks it off to the fence that says it is done, with everything that    *)
(* runs at the same time: the display thread of the CRTC (commits one after*)
(* the other, then a disable), the interrupts, the event thread, and the   *)
(* ESD work that reports a dead panel.                                     *)
(*                                                                         *)
(* delay_kickoff holds the display thread for a bounded poll only, so it   *)
(* is not a guard here.  One encoder or two, as the configuration says.    *)
(***************************************************************************)
EXTENDS SdePhysCmd

VARIABLES
    d,       \* position of the display thread
    e,       \* position of the ESD work
    n,       \* frames kicked off
    perr,    \* a wait of the display thread failed
    nreset,  \* needs_hw_reset of the CRTC
    ftm,     \* frame_trigger_mode of the CRTC
    ph,      \* encoder of the loop in wait_for_event(COMMIT_DONE)
    left     \* TX_COMPLETE waits left in wait_for_commit_done

threadvars == <<d, e, n, perr, nreset, ftm, ph, left>>
vars == <<evvars, physvars, threadvars>>

Init ==
    /\ EventsInit /\ PhysInit
    /\ d = "off" /\ e = "idle" /\ n = 0 /\ perr = FALSE /\ nreset = FALSE /\ ftm = "default"
    /\ ph = 1 /\ left = 0

-----------------------------------------------------------------------------
(* A commit                                                                *)

\* sde_kms_prepare_commit: an encoder that waits for a reset gets one, and so will the
\* CRTC.  Then sde_encoder_prepare_for_kickoff: the frame trigger mode of the connector,
\* and in default mode a wait for the frame before.
Commit(m) ==
    /\ d = "idle" /\ n < cfg.frames
    /\ LET reset == \E p \in Phys : est[p] = "reset" IN
       /\ est' = Awake(est)
       /\ hw' = IF reset THEN SoftReset(hw) ELSE hw
       /\ nreset' = (nreset \/ reset)
    /\ mode' = m
    /\ IF m = "default" THEN StartWait("disp") /\ d' = "prep"
                        ELSE d' = "reset" /\ UNCHANGED w
    /\ UNCHANGED <<evvars, cfg, kick, retire, done, wrok, pdead, send, faults, past,
                   e, n, perr, ftm, ph, left>>

\* The end of sde_encoder_prepare_for_kickoff.  Its result is that of
\* _sde_encoder_prepare_for_kickoff_processing: the error of a wait is overwritten.
Prepared ==
    /\ d = "prep" /\ w["disp"].ph = "end" /\ send["disp"] = NoSend
    /\ hw' = IF \E p \in Phys : est[p] = "reset" THEN SoftReset(hw) ELSE hw
    /\ est' = Awake(est)
    /\ w' = [w EXCEPT !["disp"] = NoWait]
    /\ d' = "reset"
    /\ UNCHANGED <<evvars, cfg, mode, kick, retire, done, wrok, pdead, send, faults, past,
                   e, n, perr, nreset, ftm, ph, left>>

\* sde_crtc_reset_hw in sde_crtc_commit_kickoff, which posted start does without.
Reset ==
    /\ d = "reset"
    /\ hw' = IF nreset /\ mode # "posted" THEN CtlReset(hw) ELSE hw
    /\ ftm' = IF nreset THEN mode ELSE ftm
    /\ nreset' = FALSE
    /\ d' = "flush"
    /\ UNCHANGED <<evvars, cfg, mode, kick, retire, done, wrok, est, pdead, send, w, faults, past,
                   e, n, perr, ph, left>>

Flush ==
    /\ d = "flush" /\ FlushStart /\ d' = "flushing"
    /\ UNCHANGED <<physvars, e, n, perr, nreset, ftm, ph, left>>

\* frame_pending is raised when the flush is over ...
Flushed ==
    /\ d = "flushing" /\ fl = 0 /\ Kicked /\ d' = "flushhw"
    /\ UNCHANGED <<physvars, e, n, perr, nreset, ftm, ph, left>>

\* ... then _sde_encoder_trigger_flush, where the master counts a retire fence ...
FlushHw ==
    /\ d = "flushhw" /\ retire' = retire + 1 /\ d' = "count"
    /\ UNCHANGED <<evvars, cfg, mode, kick, done, wrok, est, hw, pdead, send, w, faults, past,
                   e, n, perr, nreset, ftm, ph, left>>

\* ... "update pending_kickoff_cnt AFTER flush but before trigger start".  A pp_done that
\* is still latched, of a frame the software has made up for, will end this one.
Count ==
    /\ d = "count"
    /\ kick' = [p \in Phys |-> kick[p] + 1]
    /\ n' = n + 1
    /\ past' = IF \E p \in Phys : kick[p] = 0 /\ p \in hw.lat THEN past \cup {"late"} ELSE past
    /\ d' = "start"
    /\ UNCHANGED <<evvars, cfg, mode, retire, done, wrok, est, hw, pdead, send, w, faults,
                   e, perr, nreset, ftm, ph, left>>

\* ... and at last the start of the CTL; a start that is still pending takes the new frame.
Start ==
    /\ d = "start"
    /\ hw' = [hw EXCEPT !.posted = n] /\ wrok' = FALSE
    /\ d' = "wrptr"
    /\ UNCHANGED <<evvars, cfg, mode, kick, retire, done, est, pdead, send, w, faults, past,
                   e, n, perr, nreset, ftm, ph, left>>

-----------------------------------------------------------------------------
(* sde_kms_wait_for_commit_done                                            *)

WrOk ==
    /\ d \in {"wrptr", "wragain"} /\ retire = 0 /\ send["disp"] = NoSend
    /\ wrok' = TRUE /\ d' = "pend"
    /\ UNCHANGED <<evvars, cfg, mode, kick, retire, done, est, hw, pdead, send, w, faults, past,
                   e, n, perr, nreset, ftm, ph, left>>

\* The time is over but wr_ptr is latched.
WrLatched ==
    /\ d \in {"wrptr", "wragain"} /\ retire > 0 /\ 0 \in hw.lat
    /\ Callback("disp", 0)
    /\ UNCHANGED <<evvars, cfg, mode, done, wrok, est, pdead, w, faults, past, threadvars>>

\* The frame started without a wr_ptr: good, when the panel answers.
WrLost ==
    /\ d \in {"wrptr", "wragain"} /\ retire > 0 /\ 0 \notin hw.lat /\ hw.posted = 0
    /\ \E bad \in BOOLEAN :
           /\ EsdStatus(bad)
           /\ IF bad
              THEN /\ d' = IF d = "wrptr" THEN "wrlate" ELSE "wrgone"
                   /\ UNCHANGED <<retire, send>>
              ELSE GiveRetire("disp") /\ UNCHANGED d
    /\ UNCHANGED <<evvars, cfg, mode, kick, done, wrok, est, w, faults, past,
                   e, n, perr, nreset, ftm, ph, left>>

WrLate ==
    /\ d \in {"wrptr", "wragain"} /\ retire > 0 /\ 0 \notin hw.lat /\ hw.posted # 0 /\ Still
    /\ d' = IF d = "wrptr" THEN "wrlate" ELSE "wrgone"
    /\ UNCHANGED <<evvars, physvars, e, n, perr, nreset, ftm, ph, left>>

\* handle_wr_ptr_timeout: once more when the panel is dead (the watchdog sends TE by now),
\* or with the watchdog when TE came at the wrong pace.
WrAgain ==
    /\ d = "wrlate" /\ d' = "wragain"
    /\ IF pdead = "dead" THEN UNCHANGED hw ELSE hw' = [hw EXCEPT !.dead = FALSE]
    /\ UNCHANGED <<evvars, cfg, mode, kick, retire, done, wrok, est, pdead, send, w, faults, past,
                   e, n, perr, nreset, ftm, ph, left>>

\* Mutant: the retire fence is left to an interrupt that will not come.
MutWrGone ==
    /\ d = "wrgone" \/ (d = "wrlate" /\ pdead # "dead")
    /\ left' = kick[1] /\ d' = "loop"
    /\ wrok' = FALSE /\ perr' = TRUE /\ past' = past \cup {"gaveup"}
    /\ UNCHANGED <<evvars, cfg, mode, kick, done, est, hw, pdead, w, faults, retire, send,
                   e, n, nreset, ftm, ph>>

\* "Signaling the retire fence at wr_ptr timeout to allow the next commit".
WrGone ==
    /\ d = "wrgone" \/ (d = "wrlate" /\ pdead # "dead")
    /\ GiveRetire("disp")
    /\ left' = kick[1] /\ d' = "loop"
    /\ wrok' = FALSE /\ perr' = TRUE /\ past' = past \cup {"gaveup"}
    /\ UNCHANGED <<evvars, cfg, mode, kick, done, est, hw, pdead, w, faults, e, n, nreset, ftm,
                   ph>>

\* wait_for_commit_done of encoder ph after wr_ptr: a second frame in flight, a frame the
\* CTL is through with, or serialize mode make it wait.
Pend ==
    /\ d = "pend"
    /\ IF \/ kick[ph] > 1 \/ mode = "serialize"
          \/ kick[ph] > 0 /\ ph = 1 /\ 1 \notin hw.busy
       THEN left' = kick[ph] /\ d' = "loop"
       ELSE left' = 0 /\ d' = "cdend"
    /\ UNCHANGED <<evvars, physvars, e, n, perr, nreset, ftm, ph>>

\* One TX_COMPLETE for every frame that was pending.
LoopStart ==
    /\ d = "loop" /\ send["disp"] = NoSend
    /\ IF left > 0 THEN StartWait("disp") /\ left' = left - 1 /\ d' = "tx"
                   ELSE d' = "cdend" /\ UNCHANGED <<w, left>>
    /\ UNCHANGED <<evvars, cfg, mode, kick, retire, done, wrok, est, hw, pdead, send, faults,
                   past,
                   e, n, perr, nreset, ftm, ph>>

LoopEnd ==
    /\ d = "tx" /\ w["disp"].ph = "end" /\ send["disp"] = NoSend
    /\ perr' = (perr \/ w["disp"].rc = "late")
    /\ w' = [w EXCEPT !["disp"] = NoWait]
    /\ d' = "loop"
    /\ UNCHANGED <<evvars, cfg, mode, kick, retire, done, wrok, est, hw, pdead, send, faults,
                   past,
                   e, n, nreset, ftm, ph, left>>

\* The next encoder, unless this one failed: then its reset, and that of the CTL if the
\* CRTC knows of posted start (sde_crtc_request_frame_reset).
CommitDone ==
    /\ d = "cdend"
    /\ LET failed == perr
           reset == failed /\ est[ph] = "reset"
           h == IF reset THEN SoftReset(hw) ELSE hw
       IN /\ est' = IF reset THEN Awake(est) ELSE est
          /\ hw' = IF failed /\ ftm = "posted" THEN CtlReset(h) ELSE h
          /\ IF failed \/ ph = cfg.n THEN d' = "idle" /\ ph' = 1 ELSE d' = "pend" /\ ph' = ph + 1
    /\ perr' = FALSE /\ left' = 0
    /\ UNCHANGED <<evvars, cfg, mode, kick, retire, done, wrok, pdead, send, w, faults, past,
                   e, n, nreset, ftm>>

-----------------------------------------------------------------------------
(* Enable and disable                                                      *)

Enable ==
    /\ d = "off" /\ n < cfg.frames
    /\ d' = "idle" /\ est' = [p \in Phys |-> "on"] /\ cb' = TRUE
    /\ UNCHANGED <<pend, q, cur, fl, fence, cfg, mode, kick, retire, done, wrok, hw, pdead,
                   send, w, faults, past, e, n, perr, nreset, ftm, ph, left>>

\* sde_encoder_virt_disable waits for the last frame ...
Disable ==
    /\ d = "idle" /\ n > 0
    /\ StartWait("disp") /\ d' = "dtx"
    /\ UNCHANGED <<evvars, cfg, mode, kick, retire, done, wrok, est, hw, pdead, send, faults,
                   past,
                   e, n, perr, nreset, ftm, ph, left>>

DisableWaited ==
    /\ d = "dtx" /\ w["disp"].ph = "end" /\ send["disp"] = NoSend
    /\ w' = [w EXCEPT !["disp"] = NoWait] /\ d' = "dphys"
    /\ UNCHANGED <<evvars, cfg, mode, kick, retire, done, wrok, est, hw, pdead, send, faults,
                   past,
                   e, n, perr, nreset, ftm, ph, left>>

\* Mutant: the ESD work is not flushed.
MutDisablePhys ==
    /\ d = "dphys"
    /\ est' = [p \in Phys |-> "off"] /\ hw' = CtlReset(hw) /\ d' = "dstop"
    /\ UNCHANGED <<evvars, cfg, mode, kick, retire, done, wrok, pdead, send, w, faults, past,
                   e, n, perr, nreset, ftm, ph, left>>

\* ... and for the ESD work (flush_delayed_work), then disables the encoders ...
DisablePhys ==
    /\ d = "dphys" /\ e = "idle"
    /\ est' = [p \in Phys |-> "off"] /\ hw' = CtlReset(hw) /\ d' = "dstop"
    /\ UNCHANGED <<evvars, cfg, mode, kick, retire, done, wrok, pdead, send, w, faults, past,
                   e, n, perr, nreset, ftm, ph, left>>

\* ... and the interrupts, once their handler is through; sde_encoder_virt_reset.
DisableStop ==
    /\ d = "dstop" /\ send["irq"] = NoSend
    /\ hw' = [hw EXCEPT !.lat = {}, !.dead = FALSE]
    /\ done' = [p \in Phys |-> 0]
    /\ d' = "dflush"
    /\ UNCHANGED <<evvars, cfg, mode, kick, retire, wrok, est, pdead, send, w, faults, past,
                   e, n, perr, nreset, ftm, ph, left>>

\* sde_crtc_disable
DisableFlush ==
    /\ d = "dflush" /\ WorkerFlush /\ d' = "dend"
    /\ UNCHANGED <<physvars, e, n, perr, nreset, ftm, ph, left>>

DisableEnd ==
    /\ d = "dend" /\ fl = 0
    /\ CrtcOff(n)
    /\ pdead' = "no"     \* sde_connector_helper_bridge_post_disable
    /\ d' = "off"
    /\ UNCHANGED <<cfg, mode, kick, retire, done, wrok, est, hw, send, w, faults, past,
                   e, n, perr, nreset, ftm, ph, left>>

-----------------------------------------------------------------------------
(* The ESD work (sde_connector_check_status_work) finds the panel dead     *)

EsdFails ==
    /\ e = "idle" /\ pdead = "no" /\ d \notin {"off", "dstop", "dflush", "dend"} /\ n > 0
    /\ hw.dead
    /\ pdead' = "pending" /\ e' = "report"
    /\ UNCHANGED <<evvars, cfg, mode, kick, retire, done, wrok, est, hw,
                   send, w, faults, past, d, n, perr, nreset, ftm, ph, left>>

\* sde_connector_report_panel_dead, sde_encoder_display_failure_notification
EsdReports ==
    /\ e = "report"
    /\ pdead' = "dead" /\ q' = Append(q, "esd") /\ e' = "flush"
    /\ UNCHANGED <<pend, cur, fl, fence, cb, cfg, mode, kick, retire, done, wrok, est, hw,
                   send, w, faults, past, d, n, perr, nreset, ftm, ph, left>>

\* esd_trigger_work is flushed, TE comes from the watchdog, the last frame is awaited.
EsdFlushed ==
    /\ e = "flush" /\ cur # "esd" /\ \A i \in DOMAIN q : q[i] # "esd"
    /\ hw' = [hw EXCEPT !.dead = FALSE]
    /\ StartWait("esd") /\ e' = "tx"
    /\ UNCHANGED <<evvars, cfg, mode, kick, retire, done, wrok, est, pdead, send, faults, past,
                   d, n, perr, nreset, ftm, ph, left>>

EsdEnd ==
    /\ e = "tx" /\ w["esd"].ph = "end" /\ send["esd"] = NoSend
    /\ w' = [w EXCEPT !["esd"] = NoWait] /\ e' = "idle"
    /\ UNCHANGED <<evvars, cfg, mode, kick, retire, done, wrok, est, hw, pdead, send, faults,
                   past,
                   d, n, perr, nreset, ftm, ph, left>>

-----------------------------------------------------------------------------
DispStep ==
    \/ \E m \in cfg.modes : Commit(m)
    \/ (Wait("disp", d = "prep") \/ WaitLate("disp")) /\ UNCHANGED threadvars
    \/ Send("disp") /\ UNCHANGED threadvars
    \/ Prepared \/ Reset \/ Flush \/ Flushed \/ FlushHw \/ Count \/ Start
    \/ WrOk \/ WrLatched \/ WrLost \/ WrLate \/ WrAgain \/ WrGone
    \/ Pend \/ LoopStart \/ LoopEnd \/ CommitDone
    \/ Enable \/ Disable \/ DisableWaited \/ DisablePhys \/ DisableStop
    \/ DisableFlush \/ DisableEnd

EsdStep ==
    \/ EsdReports \/ EsdFlushed \/ EsdEnd
    \/ (Wait("esd", FALSE) \/ Send("esd")) /\ UNCHANGED threadvars
    \/ d # "start" /\ WaitLate("esd") /\ UNCHANGED threadvars

IrqStep == (Send("irq") \/ \E x \in 0..cfg.n : Irq(x)) /\ UNCHANGED threadvars

EventStep == (EvTake \/ EvEnd) /\ UNCHANGED <<physvars, threadvars>>

HwStep == (HwStart \/ \E p \in Phys : HwDone(p)) /\ UNCHANGED threadvars

Next ==
    \/ DispStep \/ EsdStep \/ IrqStep \/ EventStep \/ HwStep
    \/ EsdFails
    \/ (HwFault \/ TeBack) /\ UNCHANGED threadvars

\* The kernel schedules the threads and the interrupts, and a frame the hardware has
\* taken ends unless the link hangs.
Fairness ==
    /\ WF_vars(DispStep) /\ WF_vars(EsdStep) /\ WF_vars(IrqStep)
    /\ WF_vars(EventStep) /\ WF_vars(HwStep)

Spec == Init /\ [][Next]_vars /\ Fairness

-----------------------------------------------------------------------------
(* Properties                                                              *)

\* Frames of encoder p the CRTC has not been told of.
InEncoder(p) ==
    kick[p] + done[p]
    + Cardinality({t \in DOMAIN send : send[t].p = p /\ send[t].ev \in Release})
    + Cardinality({t \in Threads : w[t].ph = "late" /\ w[t].p = p})

\* frame_pending is exact at all times: it counts the frames that are in the encoder and
\* those whose event is queued, for every encoder alike, through lost interrupts, frames
\* given up and two waiters.  So the event that "should not happen" does not, bandwidth is
\* released with the last frame, and an idle display is seen as idle.
PendingExact ==
    \A p \in Phys :
        pend = InEncoder(p) + Releases + IF d \in {"flushhw", "count"} THEN 1 ELSE 0

\* The event thread is flushed often enough: there is always an entry for the next event
\* (sde_crtc_frame_event_cb drops an event that finds none, and its frame stays pending).
PoolSuffices == InUse < EventSize

\* No frame is reported as done while the hardware still reads it or is about to, as
\* long as no frame had to be given up: not by an early count, not by the encoder that
\* is through first, not by a scheduler that has not started yet.  The exception is a
\* pp_done made up for by the software (is_scheduler_idle) and held up until the next frame
\* is counted, which it ends: from then on the reports run early, by one frame and never by
\* more, however often it happens.  (With posted start a dead panel is left out: between
\* Count and Start the ESD work finds wr_ptr_wait_success of the frame before and an idle
\* scheduler, and ends the frame before it starts.)
DoneIsDone ==
    "gaveup" \notin past /\ ~(pdead # "no" /\ "posted" \in cfg.modes) =>
        \A i \in DOMAIN fence : fence[i] = "done" =>
            /\ "late" \notin past => i \notin Reading
            /\ i - 1 \notin Reading

\* When the CRTC is off nothing is left that could still report a frame, and every fence
\* is signalled.
OffIsQuiet ==
    d = "off" =>
        /\ q = <<>> /\ cur = "none" /\ e = "idle"
        /\ \A t \in DOMAIN send : send[t] = NoSend
        /\ \A p \in Phys : kick[p] = 0
        /\ Len(fence) = n

\* Every commit ends, and a disable too, whatever the panel and the link do.
CommitEnds == (d # "idle" /\ d # "off") ~> (d = "idle" \/ d = "off")

\* The retire fence is signalled even when the frame never starts.
RetireSignalled == (retire > 0) ~> (retire = 0)
=============================================================================
