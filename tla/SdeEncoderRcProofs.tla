------------------------- MODULE SdeEncoderRcProofs -------------------------
(***************************************************************************)
(* Proofs about the resource control of an encoder, for any number of      *)
(* frames in flight, mode switches and threads. What the display thread's  *)
(* job says of its pointers and what a holder of rc_lock relies on (Core)  *)
(* hold always. That frames keep the encoder awake needs clocks that do    *)
(* not fail. What the reporters of a dead panel guarantee (ReportInv),     *)
(* that the event thread loses its pointers only to a reset (KickInv) and  *)
(* the votes (VotesInv) need that only one of them is under way at a time; *)
(* that a display switched off holds nothing needs that nobody reports a   *)
(* dead panel; and that the RSC is not asked without power needs a change  *)
(* of panel mode to succeed.                                               *)
(***************************************************************************)
EXTENDS SdeEncoderRc, TLAPS

\* At most one thread reports the panel dead at a time: one DSI controller, and no
\* status work that a seamless switch starts again beside its report.
OneReporter ==
    /\ \A r, s \in DsiThread : r = s
    /\ Status => DsiThread = {} \/ ~Dms

\* A display that changes its panel mode is enabled again.
SureSwitch == ~ClkFails \/ \A m, k \in Modes : m = k

\* Nobody reports a dead panel.
NoReporter == DsiThread = {} /\ ~Status

TypeOK ==
    /\ rc \in {"OFF", "MODESET", "ON", "IDLE", "PRE_OFF"}
    /\ pm \in Int /\ irq \in Int
    /\ lock \in {"none", "disp", "pm", "esd"}
    /\ mode \in Modes
    /\ disp \in {"free", "enable", "enkick", "commit", "frame", "premodeset", "reserve",
                 "reenable", "diskick", "cancel", "prestop", "stop", "reset", "detached",
                 "nomaster", "postdisable", "idle"}
    /\ pending \in 0..MaxFrames
    /\ wake \in {"none", "checked", "queued"}
    /\ esd \in [Reporter -> {"none", "mark", "queue", "flush", "run", "vsync", "txwait"}]
    /\ kick \in {"none", "intf_mode", "lock", "clk", "rsc", "qsync", "ask", "arm", "autorefresh",
                 "delay", "lp", "timer"}
    /\ past \subseteq {"torn", "half", "late"}

FlagOK ==
    /\ qos \in BOOLEAN /\ rsc \in BOOLEAN /\ off \in BOOLEAN
    /\ master \in BOOLEAN /\ crtc \in BOOLEAN /\ active \in BOOLEAN
    /\ dead \in BOOLEAN /\ polling \in BOOLEAN /\ delay \in BOOLEAN /\ esdwork \in BOOLEAN
    /\ oops \in BOOLEAN

\* The display is up: between the commit that enables it and the one that disables it.
Up == disp \notin {"enable", "nomaster", "postdisable"} /\ (disp \in {"free", "idle"} => active)

\* The pointers follow the job of the display thread.
JobInv ==
    /\ master <=> Up
    /\ crtc <=> Up \/ disp \in {"enable", "nomaster"}
    /\ disp \notin {"free", "idle"} => active
    /\ rc = "PRE_OFF" => disp = "stop"

\* A holder of rc_lock that sleeps finds the state as it left it.
LockInv ==
    /\ lock = "disp" <=> disp = "idle"
    /\ lock = "pm" => disp = "free" /\ active
    /\ lock \in {"disp", "pm"} => rc = "ON" /\ mode = "cmd" /\ pending = 0
    /\ lock = "esd" <=> kick \notin {"none", "intf_mode", "lock"}

\* The KICKOFF of a commit leaves no idle encoder to the frame.
QuietInv == QuietIdle /\ (disp = "frame" => rc # "IDLE")

Disabling ==
    disp \in {"diskick", "cancel", "prestop", "stop", "reset", "detached", "nomaster",
              "postdisable"}

\* One report at a time, and delay_kickoff is set until it ends; the delayed work is
\* not pending where sde_encoder_virt_reset may take its encoder away.
ReportInv ==
    /\ \A r, s \in Reporter : esd[r] # "none" /\ esd[s] # "none" => r = s
    /\ \A r \in Reporter : esd[r] = "mark" => ~dead
    /\ \A r \in Reporter : esd[r] \notin {"none", "mark"} => dead
    /\ \A r \in Reporter : esd[r] \in {"flush", "run", "vsync", "txwait"} => delay
    /\ \A r \in DsiThread : esd[r] # "none" /\ ~dead => ~polling
    /\ esdwork => \E r \in Reporter : esd[r] = "flush"
    /\ kick # "none" => \E r \in Reporter : esd[r] = "run"
    /\ kick \notin {"lp", "timer"}
    /\ polling \/ esd["status"] # "none" => Status
    /\ ~active => ~polling /\ \A r \in Reporter : esd[r] = "none"
    /\ Disabling => ~polling /\ esd["status"] = "none"
    /\ off => ~Disabling \/ disp \in {"diskick", "cancel"}
    /\ off /\ disp = "free" => active
    /\ disp = "idle" => active
    /\ ~Dms => disp \notin {"premodeset", "reserve", "reenable"}

\* The event thread loses cur_master, or the CRTC, only to a reset.
KickInv ==
    /\ kick \notin {"none", "lock", "arm", "delay"} /\ ~master
         => disp \in {"nomaster", "postdisable"}
    /\ kick \in {"clk", "rsc"} /\ ~crtc => "torn" \in past
    /\ oops => disp \in {"enable", "nomaster", "postdisable"}

\* The votes and the state, as VotesMatchState has them.
Balanced ==
    /\ pm >= ClockDue /\ irq >= IrqDue
    /\ ~Twice => pm = ClockDue /\ irq = IrqDue
    /\ rc = "ON" => qos
    /\ rc \in {"OFF", "IDLE", "MODESET"} => ~qos
    /\ rc \in {"ON", "MODESET"} /\ "torn" \notin past => rsc
    /\ rc = "PRE_OFF" \/ (rc = "IDLE" /\ mode = "cmd") => ~rsc

\* Between the votes of a KICKOFF and its new state.
Voted ==
    /\ pm >= 1 /\ irq >= 1 /\ qos
    /\ ~Twice => pm = 1 /\ irq = 1
    /\ rc = "IDLE" => ~rsc

\* The states of rc the display thread can meet where its pointers or the mode change.
VotesInv ==
    /\ IF kick \in {"rsc", "qsync", "ask"} THEN Voted ELSE Balanced
    /\ kick \in {"clk", "rsc", "qsync", "ask"} => rc = "OFF" \/ (rc = "IDLE" /\ mode = "cmd")
    /\ rc = "IDLE" /\ mode = "vid" /\ "torn" \notin past => rsc
    /\ rc = "IDLE" => disp \notin {"reset", "detached", "enkick"} /\ Up
    /\ rc = "IDLE" /\ disp = "stop" => mode = "cmd"
    /\ rc = "MODESET" => disp = "reserve" \/ "half" \in past

\* Who asks the RSC for an active state has a clock vote, or that of the commit that
\* enables it.
RscUnderPower == rsc => pm >= 1 \/ disp \in {"enable", "enkick"}

\* Nobody turns a display on behind the commit that switches it off.
OffInv ==
    /\ disp \in {"reset", "detached", "nomaster", "postdisable", "enable"} => rc = "OFF"
    /\ disp = "free" /\ ~active => rc = "OFF"
    /\ disp = "stop" => rc \in {"OFF", "IDLE", "PRE_OFF"}

\* Only a switch between panel modes asks the RSC before the clocks are on.
RscInv ==
    rc = "OFF" /\ rsc => disp \in {"enable", "enkick"} /\ \E m, k \in Modes : m # k

Core == TypeOK /\ FlagOK /\ JobInv /\ LockInv

-----------------------------------------------------------------------------

\* What the RSC is asked for.
LEMMA RscStep ==
    ASSUME Core
    PROVE  /\ UpdateRsc(TRUE) => (rsc' <=> crtc \/ rsc)
           /\ UpdateRsc(FALSE) => (rsc' <=> ~crtc /\ rsc)
<1>1. ASSUME UpdateRsc(TRUE) PROVE rsc' <=> crtc \/ rsc
  <2>1. CASE crtc
    BY <1>1, <2>1 DEF UpdateRsc
  <2>2. CASE ~crtc
    BY <1>1, <2>2 DEF UpdateRsc
  <2> QED
    BY <2>1, <2>2
<1>2. ASSUME UpdateRsc(FALSE) PROVE rsc' <=> ~crtc /\ rsc
  <2>1. CASE crtc
    BY <1>2, <2>1 DEF UpdateRsc
  <2>2. CASE ~crtc
    BY <1>2, <2>2 DEF UpdateRsc
  <2> QED
    BY <2>1, <2>2
<1> QED
  BY <1>1, <1>2

\* How an event changes the state and the votes.
Becomes(state, clocks, interrupts, requests, active_rsc) ==
    /\ rc' = state /\ pm' = clocks /\ irq' = interrupts
    /\ (qos' <=> requests) /\ (rsc' <=> active_rsc)

Same == Becomes(rc, pm, irq, qos, rsc)

\* A KICKOFF, which also arms the delayed work.
KickoffEffect ==
    /\ \/ (rc \notin {"OFF", "IDLE"} \/ ~master \/ ClkFails) /\ Same
       \/ rc = "IDLE" /\ mode = "vid" /\ Becomes("ON", pm, irq + 1, TRUE, rsc)
       \/ /\ rc = "OFF" \/ (rc = "IDLE" /\ mode = "cmd")
          /\ Becomes("ON", pm + 1, irq + 1, TRUE, TRUE)
    /\ off' <=> off \/ ~delay
    /\ lock = "none"

\* The KICKOFF of the display thread.
LEMMA KickoffStep ==
    ASSUME Core, Kickoff
    PROVE  KickoffEffect
<1>1. lock = "none" /\ (off' <=> off \/ ~delay)
  BY DEF Kickoff, RestartDelayed
<1>2. CASE rc \notin {"OFF", "IDLE"} /\ UNCHANGED rcvars
  BY <1>1, <1>2 DEF KickoffEffect, Same, Becomes, rcvars, votes
<1>3. CASE /\ rc = "IDLE" /\ mode = "vid"
           /\ irq' = irq + 1 /\ qos' = TRUE /\ rc' = "ON"
           /\ UNCHANGED <<pm, rsc>>
  BY <1>1, <1>3 DEF KickoffEffect, Becomes
<1>4. CASE /\ rc = "OFF" \/ (rc = "IDLE" /\ mode = "cmd")
           /\ HelperOn /\ UpdateRsc(TRUE) /\ rc' = "ON"
  <2>1. master /\ crtc
    BY <1>4 DEF HelperOn, Core, JobInv
  <2>2. rsc'
    BY <1>4, <2>1 DEF UpdateRsc
  <2> QED
    BY <1>1, <1>4, <2>2 DEF KickoffEffect, Becomes, HelperOn, HelperVotes
<1>5. CASE HelperFails /\ UNCHANGED <<rc, rsc>>
  BY <1>1, <1>5 DEF KickoffEffect, Same, Becomes, HelperFails
<1> QED
  BY <1>1, <1>2, <1>3, <1>4, <1>5 DEF Kickoff

\* PRE_STOP.
LEMMA PreStopStep ==
    ASSUME Core, PreStop
    PROVE  /\ lock = "none"
           /\ \/ (rc = "OFF" \/ (rc = "IDLE" /\ mode = "cmd")) /\ Same
              \/ rc \notin {"OFF", "IDLE"} /\ Becomes("PRE_OFF", pm, irq, qos, ~crtc /\ rsc)
              \/ rc = "IDLE" /\ mode = "vid" /\ Becomes("PRE_OFF", pm, irq + 1, qos, ~crtc /\ rsc)
<1>0. lock = "none"
  BY DEF PreStop
<1>1. CASE (rc = "OFF" \/ (rc = "IDLE" /\ mode = "cmd")) /\ UNCHANGED rcvars
  BY <1>0, <1>1 DEF Same, Becomes, rcvars, votes
<1>2. CASE /\ rc \notin {"OFF", "IDLE"} \/ (rc = "IDLE" /\ mode = "vid")
           /\ irq' = IF rc = "IDLE" THEN irq + 1 ELSE irq
           /\ UpdateRsc(FALSE) /\ rc' = "PRE_OFF" /\ UNCHANGED <<pm, qos>>
  BY <1>0, <1>2, RscStep DEF Becomes
<1> QED
  BY <1>0, <1>1, <1>2 DEF PreStop

\* PRE_MODESET and what the mode switch does with its result.
LEMMA PreModesetStep ==
    ASSUME Core, ModesetPre
    PROVE  /\ \/ disp' = "reserve" /\ rc = "OFF" /\ Same
              \/ disp' = "reserve" /\ rc = "ON" /\ Becomes("MODESET", pm, irq, FALSE, rsc)
              \/ /\ disp' = "reserve" /\ rc \notin {"OFF", "ON"}
                 /\ Becomes("MODESET", pm + 1, irq + 1, FALSE, TRUE)
              \/ disp' = "reenable" /\ rc \notin {"OFF", "ON"} /\ Same
           /\ lock = "none"
           /\ disp = "premodeset" /\ UNCHANGED <<off, lock, dispvars, wake, pastless>>
           /\ Note(rc = "IDLE" /\ mode = "vid", "late")
<1>0. /\ lock = "none" /\ disp = "premodeset" /\ UNCHANGED <<off, lock, dispvars, wake, pastless>>
      /\ Note(rc = "IDLE" /\ mode = "vid", "late")
  BY DEF ModesetPre, PreModeset
<1>1. CASE PreModeset(TRUE) /\ disp' = "reserve"
  <2>1. CASE rc = "OFF" /\ UNCHANGED rcvars
    BY <1>0, <1>1, <2>1 DEF Same, Becomes, rcvars, votes
  <2>2. CASE rc = "ON" /\ rc' = "MODESET" /\ qos' = FALSE /\ UNCHANGED <<pm, irq, rsc>>
    BY <1>0, <1>1, <2>2 DEF Becomes
  <2>3. CASE /\ rc \notin {"OFF", "ON"} /\ master
             /\ pm' = pm + 1 /\ irq' = irq + 1 /\ qos' = FALSE
             /\ UpdateRsc(TRUE) /\ rc' = "MODESET"
    BY <1>0, <1>1, <2>3, RscStep DEF Becomes, Core, JobInv
  <2> QED
    BY <1>1, <2>1, <2>2, <2>3 DEF PreModeset
<1>2. CASE PreModeset(FALSE) /\ disp' = "reenable"
  BY <1>0, <1>2 DEF PreModeset, HelperFails, Same, Becomes
<1> QED
  BY <1>0, <1>1, <1>2 DEF ModesetPre

\* POST_MODESET.
LEMMA PostModesetStep ==
    ASSUME Core, PostModeset
    PROVE  /\ lock = "none"
           /\ \/ rc # "MODESET" /\ Same
              \/ rc = "MODESET" /\ Becomes("ON", pm, irq, TRUE, crtc \/ rsc)
<1>0. lock = "none"
  BY DEF PostModeset
<1>1. CASE rc # "MODESET" /\ UNCHANGED rcvars
  BY <1>0, <1>1 DEF Same, Becomes, rcvars, votes
<1>2. CASE rc = "MODESET" /\ UpdateRsc(TRUE) /\ rc' = "ON" /\ qos' = TRUE /\ UNCHANGED <<pm, irq>>
  BY <1>0, <1>2, RscStep DEF Becomes
<1> QED
  BY <1>0, <1>1, <1>2 DEF PostModeset

\* The collapse of a command-mode display that is up.
LEMMA CollapseStep ==
    ASSUME Core, NEW t, IdleCollapse(t)
    PROVE  /\ lock = t /\ lock' = "none" /\ rc' = "IDLE"
           /\ master => Becomes("IDLE", pm - 1, irq - 1, FALSE, FALSE)
           /\ ~master => pm' = pm /\ irq' = irq
<1>1. lock = t /\ lock' = "none" /\ rc' = "IDLE" /\ UpdateRsc(FALSE) /\ HelperOff
  BY DEF IdleCollapse
<1>2. ASSUME master PROVE Becomes("IDLE", pm - 1, irq - 1, FALSE, FALSE)
  BY <1>1, <1>2, RscStep DEF HelperOff, Becomes, Core, JobInv
<1> QED
  BY <1>1, <1>2 DEF HelperOff

\* The early wakeup.
LEMMA WakeStep ==
    ASSUME Core, EarlyWakeup
    PROVE  /\ \/ (~crtc \/ rc # "IDLE" \/ ~master \/ ClkFails) /\ Same
              \/ crtc /\ rc = "IDLE" /\ Becomes("ON", pm + 1, irq + 1, TRUE, TRUE)
           /\ off' => off \/ crtc
           /\ lock = "none"
<1>0. lock = "none"
  BY DEF EarlyWakeup
<1>1. CASE ~crtc /\ UNCHANGED <<rcvars, off>>
  BY <1>0, <1>1 DEF Same, Becomes, rcvars, votes
<1>2. CASE crtc /\ rc # "IDLE" /\ UNCHANGED rcvars
  BY <1>0, <1>2 DEF Same, Becomes, rcvars, votes
<1>3. CASE /\ crtc /\ rc = "IDLE"
           /\ HelperOn /\ UpdateRsc(TRUE) /\ rc' = "ON" /\ off' = TRUE
  BY <1>0, <1>3, RscStep DEF HelperOn, HelperVotes, Becomes
<1>4. CASE crtc /\ rc = "IDLE" /\ HelperFails /\ UNCHANGED <<rc, rsc, off>>
  BY <1>0, <1>4 DEF HelperFails, Same, Becomes
<1> QED
  BY <1>0, <1>1, <1>2, <1>3, <1>4 DEF EarlyWakeup

\* The end of a disable: the display stays off, or the same commit enables it again.
LEMMA PostDisableStep ==
    ASSUME Core, PostDisable
    PROVE  /\ disp = "postdisable" /\ \A r \in DsiThread : esd[r] = "none"
           /\ ~dead' /\ pending' = 0
           /\ \/ /\ ~active' /\ disp' = "free" /\ mode' = mode
                 /\ (crtc' <=> crtc) /\ (polling' <=> polling) /\ Same
              \/ /\ active' /\ disp' = "enable" /\ mode' \in Modes /\ crtc'
                 /\ (polling' <=> Status)
                 /\ Becomes(rc, pm, irq, qos, rsc \/ mode' # mode)
           /\ UNCHANGED <<off, lock, master, wake, delay, esdwork, esd, kickvars>>
<1>1. CASE /\ active' = FALSE /\ disp' = "free"
           /\ UNCHANGED <<rsc, mode, crtc, polling>>
  BY <1>1 DEF PostDisable, Same, Becomes
<1>2. CASE /\ mode' \in Modes /\ crtc' = TRUE /\ rsc' = (rsc \/ mode' # mode)
           /\ polling' = Status /\ disp' = "enable" /\ UNCHANGED active
  <2>1. active /\ disp = "postdisable"
    BY DEF PostDisable, Core, JobInv
  <2> QED
    BY <1>2, <2>1 DEF PostDisable, Becomes
<1> QED
  BY <1>1, <1>2 DEF PostDisable

\* What a note adds to the history.
LEMMA NoteStep ==
    ASSUME past \subseteq {"torn", "half", "late"}, NEW c,
           NEW w \in {"torn", "half", "late"}, Note(c, w)
    PROVE  past' \subseteq {"torn", "half", "late"} /\ past \subseteq past' /\ (c => w \in past')
<1>1. CASE c
  BY <1>1 DEF Note
<1>2. CASE ~c
  BY <1>2 DEF Note
<1> QED
  BY <1>1, <1>2

\* Only the event thread is in the middle of its KICKOFF, lock and all.
LEMMA Unlocked ==
    ASSUME Core, lock # "esd"
    PROVE  kick \in {"none", "intf_mode", "lock"}
BY DEF Core, LockInv

\* A step of the event thread's KICKOFF changes the state at most to ON.
LEMMA EsdStep ==
    ASSUME EsdWork
    PROVE  /\ UNCHANGED <<disp, dispvars, wake, dead, polling, delay, past>>
           /\ (rc' = rc /\ rsc' = rsc) \/ rc' = "ON"
           /\ esdwork \/ kick # "none"
<1>1. CASE EsdTake
  BY <1>1 DEF rcvars, votes, EsdTake, EsdRest, EsdLook
<1>2. CASE EsdLock
  BY <1>2 DEF rcvars, votes, EsdLock, EsdRest, EsdLook
<1>3. CASE EsdClk
  BY <1>3 DEF rcvars, votes, EsdClk, EsdRest, HelperVotes
<1>4. CASE EsdRsc
  BY <1>4 DEF rcvars, votes, EsdRsc, EsdRest, EsdLook
<1>5. CASE EsdAsk
  BY <1>5 DEF rcvars, votes, EsdAsk, EsdRest
<1>6. CASE EsdArm
  BY <1>6 DEF rcvars, votes, EsdArm, EsdRest, EsdLook
<1>7. CASE EsdUse
  BY <1>7 DEF rcvars, votes, EsdUse, EsdRest, AfterUse
<1>8. CASE EsdEnd
  BY <1>8 DEF rcvars, votes, EsdEnd, EsdRest, EsdLook
<1> QED
  BY <1>1, <1>2, <1>3, <1>4, <1>5, <1>6, <1>7, <1>8 DEF EsdWork

\* Every step keeps the types, the pointers and what a sleeping holder relies on.
LEMMA TypeStep ==
    ASSUME Core, Next
    PROVE  TypeOK'
<1>1. CASE StartEnable
  BY <1>1 DEF Core, TypeOK, rcvars, votes, StartEnable, kickvars
<1>2. CASE StartFrame
  BY <1>2 DEF Core, TypeOK, rcvars, votes, dispvars, esdvars, StartFrame, kickvars
<1>3. CASE StartModeset
  BY <1>3 DEF Core, TypeOK, rcvars, votes, dispvars, esdvars, StartModeset, kickvars
<1>4. CASE StartDisable
  BY <1>4 DEF Core, TypeOK, rcvars, votes, dispvars, StartDisable, kickvars
<1>5. CASE WakeCheck
  BY <1>5 DEF Core, TypeOK, rcvars, votes, dispvars, esdvars, WakeCheck, kickvars
<1>6. CASE EnableMaster
  BY <1>6 DEF Core, TypeOK, rcvars, votes, esdvars, EnableMaster, kickvars
<1>7. CASE EnableKickoff
  BY <1>7, KickoffStep DEF Core, TypeOK, dispvars, EnableKickoff, KickoffEffect, Same, Becomes,
     kickvars
<1>8. CASE CommitKickoff
  BY <1>8, KickoffStep DEF Core, TypeOK, dispvars, esdvars, CommitKickoff, KickoffEffect, Same,
     Becomes, kickvars
<1>9. CASE CommitFrame
  BY <1>9, RcAssumption DEF Core, TypeOK, rcvars, votes, esdvars, CommitFrame, kickvars
<1>10. CASE ModesetPre
  <2>1. past' \subseteq {"torn", "half", "late"}
    BY <1>10, PreModesetStep, NoteStep DEF Core, TypeOK
  <2> QED
    BY <1>10, <2>1, PreModesetStep DEF Core, TypeOK, dispvars, pastless, Same, Becomes
<1>11. CASE ModesetReserveFails
  BY <1>11 DEF Core, TypeOK, rcvars, votes, dispvars, esdvars, ModesetReserveFails, pastless, Note
<1>12. CASE ModesetPost
  BY <1>12, PostModesetStep DEF Core, TypeOK, dispvars, esdvars, ModesetPost, Same, Becomes,
     kickvars
<1>13. CASE DisableKickoff
  BY <1>13, KickoffStep DEF Core, TypeOK, dispvars, esdvars, DisableKickoff, KickoffEffect,
     Same, Becomes, kickvars
<1>14. CASE PreStopCancel
  BY <1>14 DEF Core, TypeOK, rcvars, votes, dispvars, esdvars, PreStopCancel, kickvars
<1>15. CASE DisablePreStop
  BY <1>15, PreStopStep DEF Core, TypeOK, dispvars, esdvars, DisablePreStop, Same, Becomes,
     pastless, Note
<1>16. CASE DisableStop
  BY <1>16 DEF Core, TypeOK, rcvars, votes, dispvars, esdvars, DisableStop, Stop, HelperOff,
     kickvars
<1>17. CASE ResetConnectors \/ ResetMaster \/ ResetCrtc
  <2>1. past' \subseteq {"torn", "half", "late"}
    BY <1>17, NoteStep DEF Core, TypeOK, ResetConnectors, ResetMaster, ResetCrtc, Reset
  <2>2. disp' \in {"detached", "nomaster", "postdisable"}
        /\ UNCHANGED <<rcvars, lock, mode, pending, wake, pastless>>
    BY <1>17 DEF ResetConnectors, ResetMaster, ResetCrtc, Reset
  <2> QED
    BY <2>1, <2>2 DEF Core, TypeOK, rcvars, votes, pastless
<1>18. CASE PostDisable
  <2>1. UNCHANGED <<rc, pm, irq, lock, wake, esd, kickvars>>
    BY <1>18 DEF PostDisable
  <2>2. pending' = 0 /\ disp' \in {"free", "enable"} /\ mode' \in Modes
    BY <1>18 DEF PostDisable, Core, TypeOK
  <2> QED
    BY <2>1, <2>2, RcAssumption DEF Core, TypeOK, kickvars
<1>19. CASE OffWorkEnd
  BY <1>19, CollapseStep DEF Core, TypeOK, dispvars, esdvars, OffWorkEnd, Becomes, kickvars
<1>20. CASE OffWork
  BY <1>20 DEF Core, TypeOK, rcvars, votes, dispvars, esdvars, OffWork, IdleSkip, IdleBusy,
     IdleVideo, IdleFlush, kickvars
<1>21. CASE WakeWork
  BY <1>21, WakeStep DEF Core, TypeOK, dispvars, esdvars, WakeWork, Same, Becomes, pastless, Note
<1>22. CASE Suspend
  BY <1>22 DEF Core, TypeOK, rcvars, votes, dispvars, esdvars, Suspend, IdleSkip, IdleFlush,
     kickvars
<1>23. CASE SuspendEnd
  BY <1>23, CollapseStep DEF Core, TypeOK, dispvars, esdvars, SuspendEnd, Becomes, kickvars
<1>24. CASE FrameDone
  BY <1>24, RcAssumption DEF Core, TypeOK, rcvars, votes, esdvars, FrameDone, kickvars
<1>25. CASE WakeQueue
  BY <1>25 DEF Core, TypeOK, rcvars, votes, dispvars, esdvars, WakeQueue, kickvars
<1>26. CASE EsdWork
  <2>1. CASE EsdTake
    BY <2>1 DEF Core, TypeOK, rcvars, votes, dispvars, EsdTake, EsdRest, EsdLook
  <2>2. CASE EsdLock
    BY <2>2 DEF Core, TypeOK, rcvars, votes, dispvars, EsdLock, EsdRest, EsdLook
  <2>3. CASE EsdClk
    BY <2>3 DEF Core, TypeOK, rcvars, votes, dispvars, EsdClk, EsdRest, HelperVotes
  <2>4. CASE EsdRsc
    BY <2>4 DEF Core, TypeOK, rcvars, votes, dispvars, EsdRsc, EsdRest, EsdLook
  <2>5. CASE EsdAsk
    BY <2>5 DEF Core, TypeOK, rcvars, votes, dispvars, EsdAsk, EsdRest
  <2>6. CASE EsdArm
    BY <2>6 DEF Core, TypeOK, rcvars, votes, dispvars, EsdArm, EsdRest, EsdLook
  <2>7. CASE EsdUse
    BY <2>7 DEF Core, TypeOK, rcvars, votes, dispvars, EsdUse, EsdRest, AfterUse
  <2>8. CASE EsdEnd
    BY <2>8 DEF Core, TypeOK, rcvars, votes, dispvars, EsdEnd, EsdRest, EsdLook
  <2> QED
    BY <1>26, <2>1, <2>2, <2>3, <2>4, <2>5, <2>6, <2>7, <2>8 DEF EsdWork
<1>27. CASE StatusReport
  BY <1>27 DEF Core, TypeOK, rcvars, votes, dispvars, StatusReport, Reporter, kickvars
<1>28. ASSUME NEW r \in DsiThread, DsiReport(r) PROVE TypeOK'
  BY <1>28 DEF Core, TypeOK, rcvars, votes, dispvars, DsiReport, Reporter, kickvars
<1>29. ASSUME NEW r \in Reporter, ReportMark(r) PROVE TypeOK'
  BY <1>29 DEF Core, TypeOK, rcvars, votes, dispvars, ReportMark, kickvars
<1>30. ASSUME NEW r \in Reporter, ReportQueue(r) PROVE TypeOK'
  BY <1>30 DEF Core, TypeOK, rcvars, votes, dispvars, ReportQueue, kickvars
<1>31. ASSUME NEW r \in Reporter, ReportEnd(r) PROVE TypeOK'
  BY <1>31 DEF Core, TypeOK, rcvars, votes, dispvars, ReportEnd, kickvars
<1>32. ASSUME NEW r \in Reporter, ReportVsync(r) PROVE TypeOK'
  BY <1>32 DEF Core, TypeOK, rcvars, votes, dispvars, ReportVsync, kickvars
<1> QED
  BY <1>1, <1>2, <1>3, <1>4, <1>5, <1>6, <1>7, <1>8, <1>9, <1>10, <1>11, <1>12, <1>13, <1>14,
     <1>15, <1>16, <1>17, <1>18, <1>19, <1>20, <1>21, <1>22, <1>23, <1>24, <1>25, <1>26, <1>27,
     <1>28, <1>29, <1>30, <1>31, <1>32
     DEF Next, User, Job, Works, Report

\* Flags stay flags.
LEMMA FlagStep ==
    ASSUME Core, Next
    PROVE  FlagOK'
<1>1. CASE StartEnable
  BY <1>1, RcAssumption, Zenon DEF Core, FlagOK, rcvars, votes, StartEnable, kickvars
<1>2. CASE StartFrame
  BY <1>2, Zenon DEF Core, FlagOK, rcvars, votes, dispvars, esdvars, StartFrame, kickvars
<1>3. CASE StartModeset
  BY <1>3, Zenon DEF Core, FlagOK, rcvars, votes, dispvars, esdvars, StartModeset, kickvars
<1>4. CASE StartDisable
  BY <1>4, Zenon DEF Core, FlagOK, rcvars, votes, dispvars, StartDisable, kickvars
<1>5. CASE WakeCheck
  BY <1>5, Zenon DEF Core, FlagOK, rcvars, votes, dispvars, esdvars, WakeCheck, kickvars
<1>6. CASE EnableMaster
  BY <1>6, Zenon DEF Core, FlagOK, rcvars, votes, esdvars, EnableMaster, kickvars
<1>7. CASE EnableKickoff
  BY <1>7, RcAssumption, Zenon DEF Core, FlagOK, rcvars, votes, dispvars, EnableKickoff,
     Kickoff, HelperOn, HelperVotes, HelperFails, UpdateRsc, RestartDelayed, kickvars
<1>8. CASE CommitKickoff
  BY <1>8, Zenon DEF Core, FlagOK, rcvars, votes, dispvars, esdvars, CommitKickoff, Kickoff,
     HelperOn, HelperVotes, HelperFails, UpdateRsc, RestartDelayed, kickvars
<1>9. CASE CommitFrame
  BY <1>9, Zenon DEF Core, FlagOK, rcvars, votes, esdvars, CommitFrame, kickvars
<1>10. CASE ModesetPre
  BY <1>10, RcAssumption, Zenon DEF Core, FlagOK, rcvars, votes, dispvars, esdvars, ModesetPre,
     PreModeset, HelperFails, UpdateRsc, pastless
<1>11. CASE ModesetReserveFails
  BY <1>11, Zenon DEF Core, FlagOK, rcvars, votes, dispvars, esdvars, ModesetReserveFails,
     pastless
<1>12. CASE ModesetPost
  BY <1>12, Zenon DEF Core, FlagOK, rcvars, votes, dispvars, esdvars, ModesetPost, PostModeset,
     UpdateRsc, kickvars
<1>13. CASE DisableKickoff
  BY <1>13, Zenon DEF Core, FlagOK, rcvars, votes, dispvars, esdvars, DisableKickoff, Kickoff,
     HelperOn, HelperVotes, HelperFails, UpdateRsc, RestartDelayed, kickvars
<1>14. CASE PreStopCancel
  BY <1>14, Zenon DEF Core, FlagOK, rcvars, votes, dispvars, esdvars, PreStopCancel, kickvars
<1>15. CASE DisablePreStop
  BY <1>15, Zenon DEF Core, FlagOK, rcvars, votes, dispvars, esdvars, DisablePreStop, PreStop,
     UpdateRsc, pastless
<1>16. CASE DisableStop
  BY <1>16, RcAssumption, Zenon DEF Core, FlagOK, rcvars, votes, dispvars, esdvars,
     DisableStop, Stop, HelperOff, kickvars
<1>17. CASE ResetConnectors \/ ResetMaster \/ ResetCrtc
  <2>1. master' \in BOOLEAN /\ crtc' \in BOOLEAN
    BY <1>17, Zenon DEF Core, FlagOK, ResetConnectors, ResetMaster, ResetCrtc
  <2>2. UNCHANGED <<rcvars, off, active, pastless>>
    BY <1>17 DEF ResetConnectors, ResetMaster, ResetCrtc, Reset
  <2> QED
    BY <2>1, <2>2, Zenon DEF Core, FlagOK, rcvars, votes, pastless
<1>18. CASE PostDisable
  BY <1>18, RcAssumption, Zenon DEF Core, FlagOK, PostDisable, kickvars
<1>19. CASE OffWorkEnd
  BY <1>19, Zenon DEF Core, FlagOK, dispvars, esdvars, OffWorkEnd, IdleCollapse, UpdateRsc,
     HelperOff, kickvars
<1>20. CASE OffWork
  BY <1>20, Zenon DEF Core, FlagOK, rcvars, votes, dispvars, esdvars, OffWork, IdleSkip,
     IdleBusy, IdleVideo, IdleFlush, kickvars
<1>21. CASE WakeWork
  BY <1>21, RcAssumption, Zenon DEF Core, FlagOK, rcvars, votes, dispvars, esdvars, WakeWork,
     EarlyWakeup, HelperOn, HelperVotes, HelperFails, UpdateRsc, pastless
<1>22. CASE Suspend
  BY <1>22, Zenon DEF Core, FlagOK, rcvars, votes, dispvars, esdvars, Suspend, IdleSkip,
     IdleFlush, kickvars
<1>23. CASE SuspendEnd
  BY <1>23, Zenon DEF Core, FlagOK, dispvars, esdvars, SuspendEnd, IdleCollapse, UpdateRsc,
     HelperOff, kickvars
<1>24. CASE FrameDone
  BY <1>24, Zenon DEF Core, FlagOK, rcvars, votes, esdvars, FrameDone, kickvars
<1>25. CASE WakeQueue
  BY <1>25, Zenon DEF Core, FlagOK, rcvars, votes, dispvars, esdvars, WakeQueue, kickvars
<1>26. CASE EsdWork
  <2>1. CASE EsdTake
    BY <2>1, Zenon DEF Core, FlagOK, rcvars, votes, dispvars, EsdTake, EsdRest, EsdLook
  <2>2. CASE EsdLock
    BY <2>2, Zenon DEF Core, FlagOK, rcvars, votes, dispvars, EsdLock, EsdRest, EsdLook
  <2>3. CASE EsdClk
    BY <2>3, Zenon DEF Core, FlagOK, rcvars, votes, dispvars, EsdClk, EsdRest, HelperVotes
  <2>4. CASE EsdRsc
    BY <2>4, Zenon DEF Core, FlagOK, rcvars, votes, dispvars, EsdRsc, EsdRest, EsdLook
  <2>5. CASE EsdAsk
    BY <2>5, Zenon DEF Core, FlagOK, rcvars, votes, dispvars, EsdAsk, EsdRest
  <2>6. CASE EsdArm
    BY <2>6, Zenon DEF Core, FlagOK, rcvars, votes, dispvars, EsdArm, EsdRest, EsdLook
  <2>7. CASE EsdUse
    BY <2>7, Zenon DEF Core, FlagOK, rcvars, votes, dispvars, EsdUse, EsdRest, AfterUse
  <2>8. CASE EsdEnd
    BY <2>8, Zenon DEF Core, FlagOK, rcvars, votes, dispvars, EsdEnd, EsdRest, EsdLook
  <2> QED
    BY <1>26, <2>1, <2>2, <2>3, <2>4, <2>5, <2>6, <2>7, <2>8 DEF EsdWork
<1>27. CASE StatusReport
  BY <1>27, Zenon DEF Core, FlagOK, rcvars, votes, dispvars, StatusReport, kickvars
<1>28. ASSUME NEW r \in DsiThread, DsiReport(r) PROVE FlagOK'
  BY <1>28, Zenon DEF Core, FlagOK, rcvars, votes, dispvars, DsiReport, kickvars
<1>29. ASSUME NEW r \in Reporter, ReportMark(r) PROVE FlagOK'
  BY <1>29, Zenon DEF Core, FlagOK, rcvars, votes, dispvars, ReportMark, kickvars
<1>30. ASSUME NEW r \in Reporter, ReportQueue(r) PROVE FlagOK'
  BY <1>30, Zenon DEF Core, FlagOK, rcvars, votes, dispvars, ReportQueue, kickvars
<1>31. ASSUME NEW r \in Reporter, ReportEnd(r) PROVE FlagOK'
  BY <1>31, Zenon DEF Core, FlagOK, rcvars, votes, dispvars, ReportEnd, kickvars
<1>32. ASSUME NEW r \in Reporter, ReportVsync(r) PROVE FlagOK'
  BY <1>32, Zenon DEF Core, FlagOK, rcvars, votes, dispvars, ReportVsync, kickvars
<1> QED
  BY <1>1, <1>2, <1>3, <1>4, <1>5, <1>6, <1>7, <1>8, <1>9, <1>10, <1>11, <1>12, <1>13, <1>14,
     <1>15, <1>16, <1>17, <1>18, <1>19, <1>20, <1>21, <1>22, <1>23, <1>24, <1>25, <1>26, <1>27,
     <1>28, <1>29, <1>30, <1>31, <1>32
     DEF Next, User, Job, Works, Report

\* The pointers follow the job.
LEMMA JobStep ==
    ASSUME Core, Next
    PROVE  JobInv'
<1>1. CASE StartEnable
  BY <1>1 DEF Core, JobInv, Up, rcvars, StartEnable
<1>2. CASE StartFrame
  BY <1>2 DEF Core, JobInv, Up, rcvars, dispvars, StartFrame, StartJob
<1>3. CASE StartModeset
  BY <1>3 DEF Core, JobInv, Up, rcvars, dispvars, StartModeset, StartJob
<1>4. CASE StartDisable
  BY <1>4 DEF Core, JobInv, Up, rcvars, dispvars, StartDisable, StartJob
<1>5. CASE WakeCheck
  BY <1>5 DEF Core, JobInv, Up, rcvars, dispvars, WakeCheck
<1>6. CASE EnableMaster
  BY <1>6 DEF Core, JobInv, Up, rcvars, EnableMaster
<1>7. CASE EnableKickoff
  BY <1>7, KickoffStep DEF Core, JobInv, Up, dispvars, EnableKickoff, KickoffEffect, Same, Becomes
<1>8. CASE CommitKickoff
  BY <1>8, KickoffStep DEF Core, JobInv, Up, dispvars, CommitKickoff, KickoffEffect, Same, Becomes
<1>9. CASE CommitFrame
  BY <1>9 DEF Core, JobInv, Up, rcvars, CommitFrame
<1>10. CASE ModesetPre
  BY <1>10, PreModesetStep DEF Core, JobInv, Up, dispvars, Same, Becomes
<1>11. CASE ModesetReserveFails
  BY <1>11 DEF Core, JobInv, Up, rcvars, dispvars, ModesetReserveFails
<1>12. CASE ModesetPost
  BY <1>12, PostModesetStep DEF Core, JobInv, Up, dispvars, ModesetPost, Same, Becomes
<1>13. CASE DisableKickoff
  BY <1>13, KickoffStep DEF Core, JobInv, Up, dispvars, DisableKickoff, KickoffEffect, Same,
     Becomes
<1>14. CASE PreStopCancel
  BY <1>14 DEF Core, JobInv, Up, rcvars, dispvars, PreStopCancel
<1>15. CASE DisablePreStop
  BY <1>15 DEF Core, JobInv, Up, dispvars, DisablePreStop
<1>16. CASE DisableStop
  BY <1>16 DEF Core, JobInv, Up, rcvars, dispvars, DisableStop, Stop
<1>17. CASE ResetConnectors \/ ResetMaster \/ ResetCrtc
  BY <1>17 DEF Core, JobInv, Up, rcvars, ResetConnectors, ResetMaster, ResetCrtc, Reset,
     pastless, Note
<1>18. CASE PostDisable
  BY <1>18, PostDisableStep DEF Core, JobInv, Up, Same, Becomes
<1>19. CASE OffWorkEnd
  BY <1>19, CollapseStep DEF Core, JobInv, Up, dispvars, OffWorkEnd
<1>20. CASE OffWork
  BY <1>20 DEF Core, JobInv, Up, rcvars, dispvars, OffWork, IdleSkip, IdleBusy, IdleVideo,
     IdleFlush
<1>21. CASE WakeWork
  BY <1>21, WakeStep DEF Core, JobInv, Up, dispvars, WakeWork, Same, Becomes
<1>22. CASE Suspend
  BY <1>22 DEF Core, JobInv, Up, rcvars, dispvars, Suspend, IdleSkip, IdleFlush
<1>23. CASE SuspendEnd
  BY <1>23, CollapseStep DEF Core, JobInv, Up, dispvars, SuspendEnd
<1>24. CASE FrameDone
  BY <1>24 DEF Core, JobInv, Up, rcvars, FrameDone
<1>25. CASE WakeQueue
  BY <1>25 DEF Core, JobInv, Up, rcvars, dispvars, WakeQueue
<1>26. CASE EsdWork
  BY <1>26, EsdStep DEF Core, JobInv, Up, dispvars
<1>27. CASE StatusReport
  BY <1>27 DEF Core, JobInv, Up, rcvars, dispvars, StatusReport
<1>28. ASSUME NEW r \in DsiThread, DsiReport(r) PROVE JobInv'
  BY <1>28 DEF Core, JobInv, Up, rcvars, dispvars, DsiReport
<1>29. ASSUME NEW r \in Reporter, ReportMark(r) PROVE JobInv'
  BY <1>29 DEF Core, JobInv, Up, rcvars, dispvars, ReportMark
<1>30. ASSUME NEW r \in Reporter, ReportQueue(r) PROVE JobInv'
  BY <1>30 DEF Core, JobInv, Up, rcvars, dispvars, ReportQueue
<1>31. ASSUME NEW r \in Reporter, ReportEnd(r) PROVE JobInv'
  BY <1>31 DEF Core, JobInv, Up, rcvars, dispvars, ReportEnd
<1>32. ASSUME NEW r \in Reporter, ReportVsync(r) PROVE JobInv'
  BY <1>32 DEF Core, JobInv, Up, rcvars, dispvars, ReportVsync
<1> QED
  BY <1>1, <1>2, <1>3, <1>4, <1>5, <1>6, <1>7, <1>8, <1>9, <1>10, <1>11, <1>12, <1>13, <1>14,
     <1>15, <1>16, <1>17, <1>18, <1>19, <1>20, <1>21, <1>22, <1>23, <1>24, <1>25, <1>26, <1>27,
     <1>28, <1>29, <1>30, <1>31, <1>32
     DEF Next, User, Job, Works, Report

\* A sleeping holder of rc_lock.
LEMMA LockStep ==
    ASSUME Core, Next
    PROVE  LockInv'
<1>1. CASE StartEnable
  BY <1>1 DEF Core, LockInv, rcvars, StartEnable, StartJob, esdvars, kickvars
<1>2. CASE StartFrame
  BY <1>2 DEF Core, LockInv, rcvars, dispvars, StartFrame, StartJob, esdvars, kickvars
<1>3. CASE StartModeset
  BY <1>3 DEF Core, LockInv, rcvars, dispvars, StartModeset, StartJob, esdvars, kickvars
<1>4. CASE StartDisable
  BY <1>4 DEF Core, LockInv, rcvars, dispvars, StartDisable, StartJob, esdvars, kickvars
<1>5. CASE WakeCheck
  BY <1>5 DEF Core, LockInv, rcvars, dispvars, WakeCheck, esdvars, kickvars
<1>6. CASE EnableMaster
  BY <1>6 DEF Core, LockInv, rcvars, EnableMaster, esdvars, kickvars
<1>7. CASE EnableKickoff
  BY <1>7, KickoffStep DEF Core, LockInv, EnableKickoff, KickoffEffect, esdvars, kickvars
<1>8. CASE CommitKickoff
  BY <1>8, KickoffStep DEF Core, LockInv, CommitKickoff, KickoffEffect, esdvars, kickvars
<1>9. CASE CommitFrame
  BY <1>9 DEF Core, TypeOK, LockInv, CommitFrame, esdvars, kickvars
<1>10. CASE ModesetPre
  BY <1>10, PreModesetStep DEF Core, TypeOK, LockInv, pastless, Note
<1>11. CASE ModesetReserveFails
  BY <1>11 DEF Core, LockInv, rcvars, dispvars, ModesetReserveFails, pastless, Note
<1>12. CASE ModesetPost
  BY <1>12, PostModesetStep DEF Core, LockInv, dispvars, ModesetPost, Same, Becomes, esdvars,
     kickvars
<1>13. CASE DisableKickoff
  BY <1>13, KickoffStep DEF Core, LockInv, DisableKickoff, KickoffEffect, esdvars, kickvars
<1>14. CASE PreStopCancel
  BY <1>14 DEF Core, LockInv, rcvars, dispvars, PreStopCancel, esdvars, kickvars
<1>15. CASE DisablePreStop
  BY <1>15 DEF Core, TypeOK, LockInv, DisablePreStop, pastless, Note
<1>16. CASE DisableStop
  BY <1>16 DEF Core, LockInv, DisableStop, Stop, esdvars, kickvars
<1>17. CASE ResetConnectors \/ ResetMaster \/ ResetCrtc
  BY <1>17 DEF Core, LockInv, rcvars, ResetConnectors, ResetMaster, ResetCrtc, Reset, pastless,
     Note
<1>18. CASE PostDisable
  BY <1>18, PostDisableStep DEF Core, TypeOK, LockInv, esdvars, kickvars
<1>19. CASE OffWorkEnd
  BY <1>19, CollapseStep DEF Core, LockInv, OffWorkEnd, esdvars, kickvars
<1>20. CASE OffWork
  <2>1. lock = "none" /\ disp = "free" /\ UNCHANGED kick
    BY <1>20 DEF OffWork, IdleSkip, IdleBusy, IdleVideo, IdleFlush, esdvars, kickvars
  <2>2. CASE IdleFlush("disp") /\ disp' = "idle"
    BY <1>20, <2>1, <2>2 DEF Core, LockInv, rcvars, dispvars, OffWork, IdleFlush
  <2>3. CASE UNCHANGED <<lock, disp>>
    BY <2>1, <2>3 DEF Core, LockInv
  <2> QED
    BY <1>20, <2>2, <2>3 DEF OffWork
<1>21. CASE WakeWork
  BY <1>21, WakeStep DEF Core, LockInv, dispvars, WakeWork, Same, Becomes, pastless, Note
<1>22. CASE Suspend
  BY <1>22 DEF Core, LockInv, rcvars, dispvars, Suspend, IdleSkip, IdleFlush, esdvars, kickvars
<1>23. CASE SuspendEnd
  <2>1. lock = "pm" /\ lock' = "none" /\ UNCHANGED <<disp, kick>>
    BY <1>23, CollapseStep DEF SuspendEnd, esdvars, kickvars
  <2> QED
    BY <2>1 DEF Core, LockInv
<1>24. CASE FrameDone
  BY <1>24 DEF Core, LockInv, FrameDone, esdvars, kickvars
<1>25. CASE WakeQueue
  BY <1>25 DEF Core, LockInv, rcvars, dispvars, WakeQueue, esdvars, kickvars
<1>26. CASE EsdWork
  <2>1. CASE EsdTake
    BY <2>1 DEF Core, TypeOK, LockInv, rcvars, dispvars, EsdTake, EsdRest, EsdLook
  <2>2. CASE EsdLock
    BY <2>2 DEF Core, TypeOK, LockInv, rcvars, dispvars, EsdLock, EsdRest, EsdLook
  <2>3. CASE EsdClk
    BY <2>3 DEF Core, TypeOK, LockInv, rcvars, dispvars, EsdClk, EsdRest, HelperVotes
  <2>4. CASE EsdRsc
    BY <2>4 DEF Core, TypeOK, LockInv, rcvars, dispvars, EsdRsc, EsdRest, EsdLook
  <2>5. CASE EsdAsk
    BY <2>5 DEF Core, TypeOK, LockInv, rcvars, dispvars, EsdAsk, EsdRest
  <2>6. CASE EsdArm
    BY <2>6 DEF Core, TypeOK, LockInv, rcvars, dispvars, EsdArm, EsdRest, EsdLook
  <2>7. CASE EsdUse
    BY <2>7 DEF Core, TypeOK, LockInv, rcvars, dispvars, EsdUse, EsdRest, AfterUse
  <2>8. CASE EsdEnd
    BY <2>8 DEF Core, TypeOK, LockInv, rcvars, dispvars, EsdEnd, EsdRest, EsdLook
  <2> QED
    BY <1>26, <2>1, <2>2, <2>3, <2>4, <2>5, <2>6, <2>7, <2>8 DEF EsdWork
<1>27. CASE StatusReport
  BY <1>27 DEF Core, LockInv, rcvars, dispvars, StatusReport, esdvars, kickvars
<1>28. ASSUME NEW r \in DsiThread, DsiReport(r) PROVE LockInv'
  BY <1>28 DEF Core, LockInv, rcvars, dispvars, DsiReport, esdvars, kickvars
<1>29. ASSUME NEW r \in Reporter, ReportMark(r) PROVE LockInv'
  BY <1>29 DEF Core, LockInv, rcvars, dispvars, ReportMark, esdvars, kickvars
<1>30. ASSUME NEW r \in Reporter, ReportQueue(r) PROVE LockInv'
  BY <1>30 DEF Core, LockInv, rcvars, dispvars, ReportQueue, esdvars, kickvars
<1>31. ASSUME NEW r \in Reporter, ReportEnd(r) PROVE LockInv'
  BY <1>31 DEF Core, LockInv, rcvars, dispvars, ReportEnd, esdvars, kickvars
<1>32. ASSUME NEW r \in Reporter, ReportVsync(r) PROVE LockInv'
  BY <1>32 DEF Core, LockInv, rcvars, dispvars, ReportVsync, esdvars, kickvars
<1> QED
  BY <1>1, <1>2, <1>3, <1>4, <1>5, <1>6, <1>7, <1>8, <1>9, <1>10, <1>11, <1>12, <1>13, <1>14,
     <1>15, <1>16, <1>17, <1>18, <1>19, <1>20, <1>21, <1>22, <1>23, <1>24, <1>25, <1>26, <1>27,
     <1>28, <1>29, <1>30, <1>31, <1>32
     DEF Next, User, Job, Works, Report

\* Frames keep the encoder awake.
LEMMA QuietStep ==
    ASSUME Core, ~ClkFails, QuietInv, Next
    PROVE  QuietInv'
<1>1. CASE StartEnable
  BY <1>1 DEF QuietInv, QuietIdle, rcvars, StartEnable
<1>2. CASE StartFrame
  BY <1>2 DEF QuietInv, QuietIdle, rcvars, dispvars, StartFrame
<1>3. CASE StartModeset
  BY <1>3 DEF QuietInv, QuietIdle, rcvars, dispvars, StartModeset
<1>4. CASE StartDisable
  BY <1>4 DEF QuietInv, QuietIdle, rcvars, dispvars, StartDisable
<1>5. CASE WakeCheck
  BY <1>5 DEF QuietInv, QuietIdle, rcvars, dispvars, WakeCheck
<1>6. CASE EnableMaster
  BY <1>6 DEF QuietInv, QuietIdle, rcvars, EnableMaster
<1>7. CASE EnableKickoff
  BY <1>7, KickoffStep DEF QuietInv, QuietIdle, dispvars, EnableKickoff, KickoffEffect, Same,
     Becomes
<1>8. CASE CommitKickoff
  BY <1>8, KickoffStep DEF Core, JobInv, Up, QuietInv, QuietIdle, CommitKickoff, KickoffEffect,
     Same, Becomes
<1>9. CASE CommitFrame
  BY <1>9 DEF QuietInv, QuietIdle, rcvars, CommitFrame
<1>10. CASE ModesetPre
  BY <1>10, PreModesetStep DEF QuietInv, QuietIdle, dispvars, Same, Becomes
<1>11. CASE ModesetReserveFails
  BY <1>11 DEF QuietInv, QuietIdle, rcvars, dispvars, ModesetReserveFails
<1>12. CASE ModesetPost
  BY <1>12, PostModesetStep DEF QuietInv, QuietIdle, dispvars, ModesetPost, Same, Becomes
<1>13. CASE DisableKickoff
  BY <1>13, KickoffStep DEF QuietInv, QuietIdle, dispvars, DisableKickoff, KickoffEffect, Same,
     Becomes
<1>14. CASE PreStopCancel
  BY <1>14 DEF QuietInv, QuietIdle, rcvars, dispvars, PreStopCancel
<1>15. CASE DisablePreStop
  BY <1>15, PreStopStep DEF QuietInv, QuietIdle, dispvars, DisablePreStop, Same, Becomes
<1>16. CASE DisableStop
  BY <1>16 DEF QuietInv, QuietIdle, rcvars, DisableStop, Stop
<1>17. CASE ResetConnectors \/ ResetMaster \/ ResetCrtc
  BY <1>17 DEF QuietInv, QuietIdle, rcvars, ResetConnectors, ResetMaster, ResetCrtc, Reset,
     pastless, Note
<1>18. CASE PostDisable
  BY <1>18, PostDisableStep DEF QuietInv, QuietIdle
<1>19. CASE OffWorkEnd
  BY <1>19 DEF Core, LockInv, QuietInv, QuietIdle, dispvars, OffWorkEnd
<1>20. CASE OffWork
  BY <1>20 DEF QuietInv, QuietIdle, rcvars, dispvars, OffWork, IdleSkip, IdleBusy, IdleVideo,
     IdleFlush
<1>21. CASE WakeWork
  BY <1>21, WakeStep DEF QuietInv, QuietIdle, dispvars, WakeWork, Same, Becomes
<1>22. CASE Suspend
  BY <1>22 DEF QuietInv, QuietIdle, dispvars, Suspend
<1>23. CASE SuspendEnd
  BY <1>23, CollapseStep DEF Core, LockInv, QuietInv, QuietIdle, dispvars, SuspendEnd, Becomes
<1>24. CASE FrameDone
  BY <1>24 DEF QuietInv, QuietIdle, rcvars, FrameDone
<1>25. CASE WakeQueue
  BY <1>25 DEF QuietInv, QuietIdle, rcvars, dispvars, WakeQueue
<1>26. CASE EsdWork
  BY <1>26, EsdStep DEF QuietInv, QuietIdle, dispvars
<1>27. CASE StatusReport
  BY <1>27 DEF QuietInv, QuietIdle, rcvars, dispvars, StatusReport
<1>28. ASSUME NEW r \in DsiThread, DsiReport(r) PROVE QuietInv'
  BY <1>28 DEF QuietInv, QuietIdle, rcvars, dispvars, DsiReport
<1>29. ASSUME NEW r \in Reporter, ReportMark(r) PROVE QuietInv'
  BY <1>29 DEF QuietInv, QuietIdle, rcvars, dispvars, ReportMark
<1>30. ASSUME NEW r \in Reporter, ReportQueue(r) PROVE QuietInv'
  BY <1>30 DEF QuietInv, QuietIdle, rcvars, dispvars, ReportQueue
<1>31. ASSUME NEW r \in Reporter, ReportEnd(r) PROVE QuietInv'
  BY <1>31 DEF QuietInv, QuietIdle, rcvars, dispvars, ReportEnd
<1>32. ASSUME NEW r \in Reporter, ReportVsync(r) PROVE QuietInv'
  BY <1>32 DEF QuietInv, QuietIdle, rcvars, dispvars, ReportVsync
<1> QED
  BY <1>1, <1>2, <1>3, <1>4, <1>5, <1>6, <1>7, <1>8, <1>9, <1>10, <1>11, <1>12, <1>13, <1>14,
     <1>15, <1>16, <1>17, <1>18, <1>19, <1>20, <1>21, <1>22, <1>23, <1>24, <1>25, <1>26, <1>27,
     <1>28, <1>29, <1>30, <1>31, <1>32
     DEF Next, User, Job, Works, Report

\* One report at a time.
LEMMA ReportStep ==
    ASSUME Core, OneReporter, ReportInv, Next
    PROVE  ReportInv'
<1>1. CASE StartEnable
  BY <1>1 DEF ReportInv, Disabling, Reporter, StartEnable, kickvars
<1>2. CASE StartFrame
  BY <1>2 DEF ReportInv, Disabling, dispvars, esdvars, StartFrame, kickvars
<1>3. CASE StartModeset
  BY <1>3 DEF ReportInv, Disabling, dispvars, esdvars, StartModeset, kickvars
<1>4. CASE StartDisable
  BY <1>4 DEF ReportInv, Disabling, dispvars, StartDisable, kickvars
<1>5. CASE WakeCheck
  BY <1>5 DEF ReportInv, Disabling, dispvars, esdvars, WakeCheck, kickvars
<1>6. CASE EnableMaster
  BY <1>6 DEF ReportInv, Disabling, esdvars, EnableMaster, kickvars
<1>7. CASE EnableKickoff
  <2>1. disp \in {"enkick", "reenable"} /\ disp' = "commit" /\ (off' <=> off \/ ~delay)
        /\ UNCHANGED <<active, dead, delay, esdwork, esd, kick>>
    BY <1>7, KickoffStep DEF EnableKickoff, KickoffEffect, dispvars, kickvars
  <2>2. (polling' <=> polling) \/ (disp = "reenable" /\ (polling' <=> Status))
    BY <1>7 DEF EnableKickoff
  <2> QED
    BY <2>1, <2>2, RcAssumption
       DEF Core, TypeOK, FlagOK, JobInv, OneReporter, ReportInv, Disabling, Reporter
<1>8. CASE CommitKickoff
  BY <1>8 DEF ReportInv, Disabling, dispvars, esdvars, CommitKickoff, kickvars
<1>9. CASE CommitFrame
  BY <1>9 DEF Core, JobInv, ReportInv, Disabling, esdvars, CommitFrame, kickvars
<1>10. CASE ModesetPre
  BY <1>10, PreModesetStep DEF ReportInv, Disabling, dispvars, esdvars, Becomes, pastless, Note
<1>11. CASE ModesetReserveFails
  BY <1>11 DEF ReportInv, Disabling, dispvars, esdvars, ModesetReserveFails, pastless, Note
<1>12. CASE ModesetPost
  BY <1>12 DEF ReportInv, Disabling, dispvars, esdvars, ModesetPost, kickvars
<1>13. CASE DisableKickoff
  BY <1>13 DEF ReportInv, Disabling, dispvars, esdvars, DisableKickoff, kickvars
<1>14. CASE PreStopCancel
  BY <1>14 DEF ReportInv, Disabling, dispvars, esdvars, PreStopCancel, kickvars
<1>15. CASE DisablePreStop
  BY <1>15 DEF ReportInv, Disabling, dispvars, esdvars, DisablePreStop, pastless, Note
<1>16. CASE DisableStop
  BY <1>16 DEF ReportInv, Disabling, dispvars, esdvars, DisableStop, kickvars
<1>17. CASE ResetConnectors \/ ResetMaster \/ ResetCrtc
  BY <1>17 DEF ReportInv, Disabling, ResetConnectors, ResetMaster, ResetCrtc, Reset, pastless,
     Note
<1>18. CASE PostDisable
  BY <1>18, PostDisableStep DEF ReportInv, Disabling, Reporter, kickvars
<1>19. CASE OffWorkEnd
  BY <1>19 DEF ReportInv, Disabling, dispvars, esdvars, OffWorkEnd, kickvars
<1>20. CASE OffWork
  BY <1>20 DEF ReportInv, Disabling, dispvars, esdvars, OffWork, kickvars
<1>21. CASE WakeWork
  BY <1>21, WakeStep DEF Core, JobInv, Up, ReportInv, Disabling, dispvars, esdvars, WakeWork,
     pastless, Note
<1>22. CASE Suspend
  BY <1>22 DEF ReportInv, Disabling, dispvars, esdvars, Suspend, kickvars
<1>23. CASE SuspendEnd
  BY <1>23 DEF ReportInv, Disabling, dispvars, esdvars, SuspendEnd, kickvars
<1>24. CASE FrameDone
  BY <1>24 DEF ReportInv, Disabling, esdvars, FrameDone, kickvars
<1>25. CASE WakeQueue
  BY <1>25 DEF ReportInv, Disabling, dispvars, esdvars, WakeQueue, kickvars
<1>26. CASE EsdWork
  <2>1. CASE EsdTake
    <3>1. \A r \in Reporter : esd'[r] = IF esd[r] = "flush" THEN "run" ELSE esd[r]
      BY <2>1 DEF EsdTake
    <3>2. /\ esdwork /\ ~esdwork' /\ kick' \in {"intf_mode", "lock"}
          /\ UNCHANGED <<disp, active, off, dead, delay, polling>>
      BY <2>1 DEF EsdTake, EsdRest, EsdLook, dispvars
    <3>3. PICK r \in Reporter : esd[r] = "flush"
      BY <3>2 DEF ReportInv
    <3>4. esd'[r] = "run"
      BY <3>1, <3>3
    <3> QED
      BY <3>1, <3>2, <3>4 DEF ReportInv, Disabling, Reporter
  <2>2. CASE EsdLock
    BY <2>2 DEF Core, TypeOK, ReportInv, Disabling, dispvars, EsdLock, EsdRest, EsdLook
  <2>3. CASE EsdClk
    BY <2>3 DEF Core, TypeOK, ReportInv, Disabling, dispvars, EsdClk, EsdRest, HelperVotes
  <2>4. CASE EsdRsc
    BY <2>4 DEF Core, TypeOK, ReportInv, Disabling, dispvars, EsdRsc, EsdRest, EsdLook
  <2>5. CASE EsdAsk
    BY <2>5 DEF Core, TypeOK, ReportInv, Disabling, dispvars, EsdAsk, EsdRest
  <2>6. CASE EsdArm
    BY <2>6 DEF Core, TypeOK, ReportInv, Disabling, dispvars, EsdArm, EsdRest, EsdLook
  <2>7. CASE EsdUse
    BY <2>7 DEF Core, TypeOK, ReportInv, Disabling, dispvars, EsdUse, EsdRest, AfterUse
  <2>8. CASE EsdEnd
    <3>1. kick \in {"delay", "timer"}
      BY <2>8 DEF EsdEnd
    <3>2. delay /\ kick = "delay"
      BY <3>1 DEF ReportInv
    <3>3. /\ kick' = "none" /\ (off' <=> off)
          /\ \A r \in Reporter : esd'[r] = IF esd[r] = "run" THEN "vsync" ELSE esd[r]
      BY <2>8, <3>2 DEF EsdEnd
    <3>4. UNCHANGED <<disp, active, dead, delay, polling, esdwork>>
      BY <2>8 DEF EsdEnd, EsdRest, dispvars
    <3> QED
      BY <3>3, <3>4 DEF ReportInv, Disabling, Reporter
  <2> QED
    BY <1>26, <2>1, <2>2, <2>3, <2>4, <2>5, <2>6, <2>7, <2>8 DEF EsdWork
<1>27. CASE StatusReport
  BY <1>27, RcAssumption DEF ReportInv, Disabling, Reporter, dispvars, StatusReport, kickvars
<1>28. ASSUME NEW r \in DsiThread, DsiReport(r) PROVE ReportInv'
  BY <1>28, RcAssumption DEF OneReporter, ReportInv, Disabling, Reporter, dispvars, DsiReport,
     kickvars
<1>29. ASSUME NEW r \in Reporter, ReportMark(r) PROVE ReportInv'
  BY <1>29 DEF Core, TypeOK, ReportInv, Disabling, Reporter, dispvars, ReportMark, kickvars
<1>30. ASSUME NEW r \in Reporter, ReportQueue(r) PROVE ReportInv'
  <2>1. \A q \in Reporter : esd'[q] = IF q = r THEN "flush" ELSE esd[q]
    BY <1>30 DEF Core, TypeOK, ReportQueue
  <2>2. /\ esd[r] = "queue" /\ delay'
        /\ UNCHANGED <<disp, active, off, dead, polling, kick>>
    BY <1>30 DEF ReportQueue, dispvars
  <2> QED
    BY <2>1, <2>2 DEF ReportInv, Disabling, Reporter
<1>31. ASSUME NEW r \in Reporter, ReportEnd(r) PROVE ReportInv'
  BY <1>31 DEF Core, TypeOK, ReportInv, Disabling, dispvars, ReportEnd, kickvars
<1>32. ASSUME NEW r \in Reporter, ReportVsync(r) PROVE ReportInv'
  BY <1>32 DEF Core, TypeOK, ReportInv, Disabling, dispvars, ReportVsync, kickvars
<1> QED
  BY <1>1, <1>2, <1>3, <1>4, <1>5, <1>6, <1>7, <1>8, <1>9, <1>10, <1>11, <1>12, <1>13, <1>14,
     <1>15, <1>16, <1>17, <1>18, <1>19, <1>20, <1>21, <1>22, <1>23, <1>24, <1>25, <1>26, <1>27,
     <1>28, <1>29, <1>30, <1>31, <1>32
     DEF Next, User, Job, Works, Report

\* Whoever takes cur_master and the CRTC from the event thread is a reset, which marks it.
LEMMA KickStep ==
    ASSUME Core, OneReporter, ReportInv, KickInv, Next
    PROVE  KickInv'
<1>0. ~oops
  BY DEF Next
<1>1. CASE StartEnable
  BY <1>0, <1>1 DEF Core, JobInv, Up, ReportInv, KickInv, esdvars, kickvars, StartEnable
<1>2. CASE StartFrame
  BY <1>0, <1>2 DEF KickInv, dispvars, esdvars, kickvars, StartFrame, StartJob
<1>3. CASE StartModeset
  BY <1>0, <1>3 DEF KickInv, dispvars, esdvars, kickvars, StartModeset, StartJob
<1>4. CASE StartDisable
  BY <1>0, <1>4 DEF KickInv, dispvars, esdvars, kickvars, StartDisable, StartJob
<1>5. CASE WakeCheck
  BY <1>0, <1>5 DEF KickInv, dispvars, esdvars, kickvars, WakeCheck
<1>6. CASE EnableMaster
  BY <1>0, <1>6 DEF Core, JobInv, Up, ReportInv, KickInv, esdvars, kickvars, EnableMaster
<1>7. CASE EnableKickoff
  BY <1>0, <1>7 DEF KickInv, dispvars, esdvars, kickvars, EnableKickoff
<1>8. CASE CommitKickoff
  BY <1>0, <1>8 DEF KickInv, dispvars, esdvars, kickvars, CommitKickoff
<1>9. CASE CommitFrame
  BY <1>0, <1>9 DEF KickInv, esdvars, kickvars, CommitFrame
<1>10. CASE ModesetPre
  BY <1>0, <1>10, PreModesetStep DEF KickInv, dispvars, pastless, Note
<1>11. CASE ModesetReserveFails
  BY <1>0, <1>11 DEF KickInv, dispvars, pastless, Note, ModesetReserveFails
<1>12. CASE ModesetPost
  BY <1>0, <1>12 DEF KickInv, dispvars, esdvars, kickvars, ModesetPost
<1>13. CASE DisableKickoff
  BY <1>0, <1>13 DEF KickInv, dispvars, esdvars, kickvars, DisableKickoff
<1>14. CASE PreStopCancel
  BY <1>0, <1>14 DEF KickInv, dispvars, esdvars, kickvars, PreStopCancel
<1>15. CASE DisablePreStop
  BY <1>0, <1>15 DEF Core, JobInv, Up, KickInv, dispvars, pastless, DisablePreStop
<1>16. CASE DisableStop
  BY <1>0, <1>16 DEF KickInv, dispvars, esdvars, kickvars, DisableStop
<1>17. CASE ResetConnectors \/ ResetMaster \/ ResetCrtc
  BY <1>0, <1>17 DEF Core, TypeOK, JobInv, LockInv, Up, KickInv, pastless, ResetConnectors,
     ResetMaster,
     ResetCrtc, Reset, Note
<1>18. CASE PostDisable
  BY <1>0, <1>18, PostDisableStep DEF ReportInv, Disabling, Reporter, KickInv, kickvars
<1>19. CASE OffWorkEnd
  BY <1>0, <1>19 DEF KickInv, dispvars, esdvars, kickvars, OffWorkEnd
<1>20. CASE OffWork
  BY <1>0, <1>20 DEF KickInv, dispvars, esdvars, kickvars, OffWork
<1>21. CASE WakeWork
  BY <1>0, <1>21 DEF KickInv, dispvars, pastless, Note, WakeWork
<1>22. CASE Suspend
  BY <1>0, <1>22 DEF KickInv, dispvars, esdvars, kickvars, Suspend
<1>23. CASE SuspendEnd
  BY <1>0, <1>23 DEF KickInv, dispvars, esdvars, kickvars, SuspendEnd
<1>24. CASE FrameDone
  BY <1>0, <1>24 DEF KickInv, esdvars, kickvars, FrameDone
<1>25. CASE WakeQueue
  BY <1>0, <1>25 DEF KickInv, dispvars, esdvars, kickvars, WakeQueue
<1>26. CASE EsdWork
  <2>1. CASE EsdTake
    BY <1>0, <2>1 DEF Core, JobInv, Up, ReportInv, KickInv, dispvars, EsdTake, EsdRest, EsdLook
  <2>2. CASE EsdLock
    BY <1>0, <2>2 DEF Core, JobInv, Up, ReportInv, KickInv, dispvars, EsdLock, EsdRest, EsdLook
  <2>3. CASE EsdClk
    <3>1. kick = "clk" /\ kick' \in {"arm", "rsc"}
      BY <2>3 DEF EsdClk
    <3>2. oops' => ~master
      BY <1>0, <2>3 DEF EsdClk
    <3>3. UNCHANGED <<disp, master, crtc, past>>
      BY <2>3 DEF EsdClk, EsdRest, dispvars
    <3> QED
      BY <3>1, <3>2, <3>3 DEF KickInv
  <2>4. CASE EsdRsc
    BY <1>0, <2>4 DEF Core, JobInv, Up, ReportInv, KickInv, dispvars, EsdRsc, EsdRest, EsdLook
  <2>5. CASE EsdAsk
    BY <1>0, <2>5 DEF Core, JobInv, Up, ReportInv, KickInv, dispvars, EsdAsk, EsdRest
  <2>6. CASE EsdArm
    BY <1>0, <2>6 DEF Core, JobInv, Up, ReportInv, KickInv, dispvars, EsdArm, EsdRest, EsdLook
  <2>7. CASE EsdUse
    <3>1. kick \in {"intf_mode", "qsync", "autorefresh"}
      BY <2>7 DEF EsdUse, AfterUse, ReportInv
    <3>2. kick' \in {"lock", "ask", "delay"}
      BY <2>7, <3>1 DEF EsdUse, AfterUse
    <3>3. (oops' => ~master) /\ UNCHANGED <<disp, master, crtc, past>>
      BY <2>7 DEF EsdUse, EsdRest, dispvars
    <3> QED
      BY <3>1, <3>2, <3>3 DEF KickInv
  <2>8. CASE EsdEnd
    BY <1>0, <2>8 DEF Core, JobInv, Up, ReportInv, KickInv, dispvars, EsdEnd, EsdRest, EsdLook
  <2> QED
    BY <1>26, <2>1, <2>2, <2>3, <2>4, <2>5, <2>6, <2>7, <2>8 DEF EsdWork
<1>27. CASE StatusReport
  BY <1>0, <1>27 DEF KickInv, dispvars, esdvars, kickvars, StatusReport
<1>28. ASSUME NEW r \in DsiThread, DsiReport(r) PROVE KickInv'
  BY <1>0, <1>28 DEF KickInv, dispvars, kickvars, DsiReport
<1>29. ASSUME NEW r \in Reporter, ReportMark(r) PROVE KickInv'
  BY <1>0, <1>29 DEF KickInv, dispvars, kickvars, ReportMark
<1>30. ASSUME NEW r \in Reporter, ReportQueue(r) PROVE KickInv'
  BY <1>0, <1>30 DEF Core, JobInv, Up, ReportInv, KickInv, dispvars, kickvars, ReportQueue
<1>31. ASSUME NEW r \in Reporter, ReportEnd(r) PROVE KickInv'
  BY <1>0, <1>31 DEF KickInv, dispvars, kickvars, ReportEnd
<1>32. ASSUME NEW r \in Reporter, ReportVsync(r) PROVE KickInv'
  BY <1>0, <1>32 DEF Core, JobInv, Up, ReportInv, KickInv, dispvars, kickvars, ReportVsync
<1> QED
  BY <1>1, <1>2, <1>3, <1>4, <1>5, <1>6, <1>7, <1>8, <1>9, <1>10, <1>11, <1>12, <1>13, <1>14,
     <1>15, <1>16, <1>17, <1>18, <1>19, <1>20, <1>21, <1>22, <1>23, <1>24, <1>25, <1>26, <1>27,
  <1>28, <1>29, <1>30, <1>31, <1>32
     DEF Next, User, Job, Works, Report

\* Votes.
LEMMA VotesStep ==
    ASSUME Core, OneReporter, ReportInv, KickInv, VotesInv, Next
    PROVE  VotesInv'
<1>1. CASE StartEnable
  BY <1>1, Unlocked DEF Up, VotesInv, Balanced, Voted, ClockDue, IrqDue, Twice, Powered, rcvars,
     votes,
     StartEnable, StartJob, esdvars, kickvars
<1>2. CASE StartFrame
  BY <1>2 DEF Up, VotesInv, Balanced, Voted, ClockDue, IrqDue, Twice, Powered, rcvars, votes,
     dispvars, StartFrame,
     StartJob, esdvars, kickvars
<1>3. CASE StartModeset
  BY <1>3, Unlocked DEF Up, VotesInv, Balanced, Voted, ClockDue, IrqDue, Twice, Powered, rcvars,
     votes,
     dispvars, StartModeset,
     StartJob, esdvars, kickvars
<1>4. CASE StartDisable
  BY <1>4 DEF Up, VotesInv, Balanced, Voted, ClockDue, IrqDue, Twice, Powered, rcvars, votes,
     dispvars, StartDisable,
     StartJob, esdvars, kickvars
<1>5. CASE WakeCheck
  BY <1>5 DEF Up, VotesInv, Balanced, Voted, ClockDue, IrqDue, Twice, Powered, rcvars, votes,
     dispvars, WakeCheck, esdvars, kickvars
<1>6. CASE EnableMaster
  BY <1>6 DEF Up, VotesInv, Balanced, Voted, ClockDue, IrqDue, Twice, Powered, rcvars, votes,
     EnableMaster, esdvars, kickvars
<1>7. CASE EnableKickoff
  BY <1>7, Unlocked, KickoffStep DEF Core, TypeOK, JobInv, Up, VotesInv, Balanced, Voted,
     ClockDue, IrqDue, Twice, Powered,
     dispvars, EnableKickoff,
     KickoffEffect, Same, Becomes, esdvars, kickvars
<1>8. CASE CommitKickoff
  BY <1>8, Unlocked, KickoffStep DEF Core, TypeOK, JobInv, Up, VotesInv, Balanced, Voted,
     ClockDue, IrqDue, Twice, Powered,
     dispvars, CommitKickoff,
     KickoffEffect, Same, Becomes, esdvars, kickvars
<1>9. CASE CommitFrame
  BY <1>9 DEF Core, JobInv, Up, VotesInv, Balanced, Voted, ClockDue, IrqDue, Twice, Powered,
     rcvars, votes, CommitFrame, esdvars, kickvars
<1>10. CASE ModesetPre
  BY <1>10, Unlocked, PreModesetStep DEF Core, TypeOK, JobInv, Up, ReportInv, VotesInv,
     Balanced, Voted, ClockDue, IrqDue, Twice, Powered, dispvars, Same, Becomes, pastless, Note
<1>11. CASE ModesetReserveFails
  <2>1. past \subseteq past' /\ (rc = "MODESET" => "half" \in past')
    BY <1>11, NoteStep DEF Core, TypeOK, ModesetReserveFails
  <2>2. /\ disp = "reserve" /\ disp' = "reenable"
        /\ UNCHANGED <<rcvars, mode, active, kick>>
    BY <1>11 DEF ModesetReserveFails, dispvars, pastless
  <2> QED
    BY <2>1, <2>2 DEF Up, VotesInv, Balanced, Voted, ClockDue, IrqDue, Twice, Powered, rcvars,
       votes
<1>12. CASE ModesetPost
  BY <1>12, Unlocked, PostModesetStep DEF Up, VotesInv, Balanced, Voted, ClockDue, IrqDue, Twice,
     Powered,
     dispvars, ModesetPost,
     Same, Becomes, esdvars, kickvars
<1>13. CASE DisableKickoff
  BY <1>13, Unlocked, KickoffStep DEF Core, TypeOK, JobInv, Up, VotesInv, Balanced, Voted,
     ClockDue, IrqDue, Twice, Powered,
     dispvars, DisableKickoff,
     KickoffEffect, Same, Becomes, esdvars, kickvars
<1>14. CASE PreStopCancel
  BY <1>14 DEF Up, VotesInv, Balanced, Voted, ClockDue, IrqDue, Twice, Powered, rcvars, votes,
     dispvars, PreStopCancel, esdvars, kickvars
<1>15. CASE DisablePreStop
  BY <1>15, Unlocked, PreStopStep DEF Core, TypeOK, JobInv, Up, VotesInv, Balanced, Voted,
     ClockDue,
     IrqDue, Twice, Powered,
     dispvars, DisablePreStop, Same, Becomes, pastless, Note
<1>16. CASE DisableStop
  BY <1>16, Unlocked DEF Core, TypeOK, JobInv, Up, VotesInv, Balanced, Voted, ClockDue, IrqDue,
     Twice,
     Powered,
     rcvars, votes,
     DisableStop, Stop, HelperOff, esdvars, kickvars
<1>17. CASE ResetConnectors \/ ResetMaster \/ ResetCrtc
  <2>1. past \subseteq past'
    BY <1>17, NoteStep DEF Core, TypeOK, ResetConnectors, ResetMaster, ResetCrtc, Reset
  <2>2. /\ disp \in {"reset", "detached", "nomaster"}
        /\ disp' \in {"detached", "nomaster", "postdisable"}
        /\ UNCHANGED <<rcvars, mode, active, kick>>
    BY <1>17 DEF ResetConnectors, ResetMaster, ResetCrtc, Reset, pastless
  <2> QED
    BY <2>1, <2>2 DEF Up, VotesInv, Balanced, Voted, ClockDue, IrqDue, Twice, Powered, rcvars,
       votes
<1>18. CASE PostDisable
  BY <1>18, PostDisableStep DEF Core, JobInv, Up, VotesInv, Balanced, Voted, ClockDue, IrqDue,
     Twice, Powered, Same,
     Becomes, esdvars, kickvars
<1>19. CASE OffWorkEnd
  BY <1>19, Unlocked, CollapseStep DEF Core, TypeOK, JobInv, LockInv, Up, ReportInv, VotesInv,
     Balanced,
     Voted,
     ClockDue, IrqDue, Twice, Powered, dispvars, OffWorkEnd, Becomes, esdvars, kickvars
<1>20. CASE OffWork
  BY <1>20, Unlocked DEF Core, TypeOK, Up, ReportInv, VotesInv, Balanced, Voted, ClockDue,
     IrqDue, Twice,
     Powered,
     rcvars, votes, dispvars,
     OffWork, IdleSkip, IdleBusy, IdleVideo, IdleFlush, esdvars, kickvars
<1>21. CASE WakeWork
  BY <1>21, Unlocked, WakeStep DEF Core, TypeOK, Up, VotesInv, Balanced, Voted, ClockDue, IrqDue,
     Twice,
     Powered,
     dispvars, WakeWork, Same, Becomes, pastless, Note
<1>22. CASE Suspend
  BY <1>22, Unlocked DEF Up, VotesInv, Balanced, Voted, ClockDue, IrqDue, Twice, Powered, rcvars,
     votes,
     dispvars, Suspend,
     IdleSkip, IdleFlush, esdvars, kickvars
<1>23. CASE SuspendEnd
  BY <1>23, Unlocked, CollapseStep DEF Core, TypeOK, JobInv, LockInv, Up, VotesInv, Balanced,
     Voted,
     ClockDue,
     IrqDue, Twice, Powered,
     dispvars, SuspendEnd, Becomes, esdvars, kickvars
<1>24. CASE FrameDone
  BY <1>24 DEF Up, VotesInv, Balanced, Voted, ClockDue, IrqDue, Twice, Powered, rcvars, votes,
     FrameDone, esdvars, kickvars
<1>25. CASE WakeQueue
  BY <1>25 DEF Up, VotesInv, Balanced, Voted, ClockDue, IrqDue, Twice, Powered, rcvars, votes,
     dispvars, WakeQueue, esdvars, kickvars
<1>26. CASE EsdWork
  <2>1. CASE EsdTake
    BY <2>1 DEF Core, TypeOK, JobInv, Up, ReportInv, KickInv, VotesInv, Balanced, Voted,
       ClockDue, IrqDue, Twice, Powered, rcvars, votes, dispvars, EsdTake, EsdRest, EsdLook
  <2>2. CASE EsdLock
    BY <2>2 DEF Core, TypeOK, JobInv, Up, ReportInv, KickInv, VotesInv, Balanced, Voted,
       ClockDue, IrqDue, Twice, Powered, rcvars, votes, dispvars, EsdLock, EsdRest, EsdLook
  <2>3. CASE EsdClk
    BY <2>3 DEF Core, TypeOK, JobInv, Up, ReportInv, KickInv, VotesInv, Balanced, Voted,
       ClockDue, IrqDue, Twice, Powered, rcvars, votes, dispvars, EsdClk, EsdRest, HelperVotes
  <2>4. CASE EsdRsc
    BY <2>4 DEF Core, TypeOK, JobInv, Up, ReportInv, KickInv, VotesInv, Balanced, Voted,
       ClockDue, IrqDue, Twice, Powered, rcvars, votes, dispvars, EsdRsc, EsdRest, EsdLook
  <2>5. CASE EsdAsk
    BY <2>5 DEF Core, TypeOK, JobInv, Up, ReportInv, KickInv, VotesInv, Balanced, Voted,
       ClockDue, IrqDue, Twice, Powered, rcvars, votes, dispvars, EsdAsk, EsdRest
  <2>6. CASE EsdArm
    BY <2>6 DEF Core, TypeOK, JobInv, Up, ReportInv, KickInv, VotesInv, Balanced, Voted,
       ClockDue, IrqDue, Twice, Powered, rcvars, votes, dispvars, EsdArm, EsdRest, EsdLook
  <2>7. CASE EsdUse
    BY <2>7 DEF Core, TypeOK, JobInv, Up, ReportInv, KickInv, VotesInv, Balanced, Voted,
       ClockDue, IrqDue, Twice, Powered, rcvars, votes, dispvars, EsdUse, EsdRest, AfterUse
  <2>8. CASE EsdEnd
    BY <2>8 DEF Core, TypeOK, JobInv, Up, ReportInv, KickInv, VotesInv, Balanced, Voted,
       ClockDue, IrqDue, Twice, Powered, rcvars, votes, dispvars, EsdEnd, EsdRest, EsdLook
  <2> QED
    BY <1>26, <2>1, <2>2, <2>3, <2>4, <2>5, <2>6, <2>7, <2>8 DEF EsdWork
<1>27. CASE StatusReport
  BY <1>27 DEF Up, VotesInv, Balanced, Voted, ClockDue, IrqDue, Twice, Powered, rcvars, votes,
     dispvars, StatusReport, esdvars, kickvars
<1>28. ASSUME NEW r \in DsiThread, DsiReport(r) PROVE VotesInv'
  BY <1>28 DEF Up, VotesInv, Balanced, Voted, ClockDue, IrqDue, Twice, Powered, rcvars, votes,
     dispvars, DsiReport, esdvars, kickvars
<1>29. ASSUME NEW r \in Reporter, ReportMark(r) PROVE VotesInv'
  BY <1>29 DEF Up, VotesInv, Balanced, Voted, ClockDue, IrqDue, Twice, Powered, rcvars, votes,
     dispvars, ReportMark, esdvars, kickvars
<1>30. ASSUME NEW r \in Reporter, ReportQueue(r) PROVE VotesInv'
  BY <1>30 DEF Up, VotesInv, Balanced, Voted, ClockDue, IrqDue, Twice, Powered, rcvars, votes,
     dispvars, ReportQueue, esdvars, kickvars
<1>31. ASSUME NEW r \in Reporter, ReportEnd(r) PROVE VotesInv'
  BY <1>31 DEF Up, VotesInv, Balanced, Voted, ClockDue, IrqDue, Twice, Powered, rcvars, votes,
     dispvars, ReportEnd, esdvars, kickvars
<1>32. ASSUME NEW r \in Reporter, ReportVsync(r) PROVE VotesInv'
  BY <1>32 DEF Up, VotesInv, Balanced, Voted, ClockDue, IrqDue, Twice, Powered, rcvars, votes,
     dispvars, ReportVsync, esdvars, kickvars
<1> QED
  BY <1>1, Unlocked, <1>2, <1>3, <1>4, <1>5, <1>6, <1>7, <1>8, <1>9, <1>10, <1>11, <1>12, <1>13,
     <1>14,
     <1>15, <1>16, <1>17, <1>18, <1>19, <1>20, <1>21, <1>22, <1>23, <1>24, <1>25, <1>26, <1>27,
     <1>28, <1>29, <1>30, <1>31, <1>32
     DEF Next, User, Job, Works, Report

\* The RSC.
LEMMA RscInvStep ==
    ASSUME Core, OneReporter, SureSwitch, ReportInv, KickInv, VotesInv, RscInv, Next
    PROVE  RscInv'
<1>1. CASE StartEnable
  BY <1>1 DEF RscInv, rcvars, votes, StartEnable, StartJob
<1>2. CASE StartFrame
  BY <1>2 DEF RscInv, rcvars, votes, StartFrame, StartJob, dispvars
<1>3. CASE StartModeset
  BY <1>3 DEF RscInv, rcvars, votes, StartModeset, StartJob, dispvars
<1>4. CASE StartDisable
  BY <1>4 DEF RscInv, rcvars, votes, StartDisable, StartJob, dispvars
<1>5. CASE WakeCheck
  BY <1>5 DEF RscInv, rcvars, votes, WakeCheck, dispvars
<1>6. CASE EnableMaster
  BY <1>6 DEF RscInv, rcvars, votes, EnableMaster
<1>7. CASE EnableKickoff
  BY <1>7, KickoffStep DEF Core, JobInv, Up, SureSwitch, RscInv, dispvars, EnableKickoff,
     KickoffEffect, Same, Becomes
<1>8. CASE CommitKickoff
  BY <1>8, KickoffStep DEF Core, JobInv, Up, SureSwitch, RscInv, dispvars, CommitKickoff,
     KickoffEffect, Same, Becomes
<1>9. CASE CommitFrame
  BY <1>9 DEF RscInv, rcvars, votes, CommitFrame
<1>10. CASE ModesetPre
  BY <1>10, PreModesetStep DEF RscInv, Same, Becomes
<1>11. CASE ModesetReserveFails
  BY <1>11 DEF RscInv, rcvars, votes, ModesetReserveFails
<1>12. CASE ModesetPost
  BY <1>12, PostModesetStep DEF RscInv, ModesetPost, Same, Becomes
<1>13. CASE DisableKickoff
  BY <1>13, KickoffStep DEF Core, JobInv, Up, SureSwitch, RscInv, dispvars, DisableKickoff,
     KickoffEffect, Same, Becomes
<1>14. CASE PreStopCancel
  BY <1>14 DEF RscInv, rcvars, votes, PreStopCancel, dispvars
<1>15. CASE DisablePreStop
  BY <1>15, PreStopStep DEF RscInv, DisablePreStop, Same, Becomes
<1>16. CASE DisableStop
  BY <1>16, Unlocked DEF VotesInv, Balanced, RscInv, rcvars, votes, DisableStop, Stop
<1>17. CASE ResetConnectors \/ ResetMaster \/ ResetCrtc
  BY <1>17 DEF RscInv, rcvars, votes, ResetConnectors, ResetMaster, ResetCrtc, Reset, pastless,
     Note
<1>18. CASE PostDisable
  BY <1>18, PostDisableStep DEF Core, TypeOK, RscInv, Same, Becomes
<1>19. CASE OffWorkEnd
  BY <1>19, CollapseStep DEF RscInv, OffWorkEnd
<1>20. CASE OffWork
  BY <1>20 DEF RscInv, rcvars, votes, OffWork, IdleSkip, IdleBusy, IdleVideo, IdleFlush
<1>21. CASE WakeWork
  BY <1>21, WakeStep DEF RscInv, WakeWork, Same, Becomes
<1>22. CASE Suspend
  BY <1>22 DEF RscInv, rcvars, votes, Suspend, IdleSkip, IdleFlush
<1>23. CASE SuspendEnd
  BY <1>23, CollapseStep DEF RscInv, SuspendEnd
<1>24. CASE FrameDone
  BY <1>24 DEF RscInv, rcvars, votes, FrameDone
<1>25. CASE WakeQueue
  BY <1>25 DEF RscInv, rcvars, votes, WakeQueue, dispvars
<1>26. CASE EsdWork
  BY <1>26, EsdStep DEF RscInv
<1>27. CASE StatusReport
  BY <1>27 DEF RscInv, rcvars, votes, StatusReport, dispvars
<1>28. ASSUME NEW r \in DsiThread, DsiReport(r) PROVE RscInv'
  BY <1>28 DEF RscInv, rcvars, votes, dispvars, DsiReport
<1>29. ASSUME NEW r \in Reporter, ReportMark(r) PROVE RscInv'
  BY <1>29 DEF RscInv, rcvars, votes, dispvars, ReportMark
<1>30. ASSUME NEW r \in Reporter, ReportQueue(r) PROVE RscInv'
  BY <1>30 DEF RscInv, rcvars, votes, dispvars, ReportQueue
<1>31. ASSUME NEW r \in Reporter, ReportEnd(r) PROVE RscInv'
  BY <1>31 DEF RscInv, rcvars, votes, dispvars, ReportEnd
<1>32. ASSUME NEW r \in Reporter, ReportVsync(r) PROVE RscInv'
  BY <1>32 DEF RscInv, rcvars, votes, dispvars, ReportVsync
<1> QED
  BY <1>1, <1>2, <1>3, <1>4, <1>5, <1>6, <1>7, <1>8, <1>9, <1>10, <1>11, <1>12, <1>13, <1>14,
     <1>15, <1>16, <1>17, <1>18, <1>19, <1>20, <1>21, <1>22, <1>23, <1>24, <1>25, <1>26, <1>27,
     <1>28, <1>29, <1>30, <1>31, <1>32
     DEF Next, User, Job, Works, Report

\* Off.
LEMMA OffStep ==
    ASSUME Core, OneReporter, NoReporter, ReportInv, OffInv, Next
    PROVE  OffInv'
<1>1. CASE StartEnable
  BY <1>1 DEF OffInv, rcvars, StartEnable, StartJob
<1>2. CASE StartFrame
  BY <1>2 DEF OffInv, StartFrame
<1>3. CASE StartModeset
  BY <1>3 DEF OffInv, StartModeset
<1>4. CASE StartDisable
  BY <1>4 DEF OffInv, StartDisable
<1>5. CASE WakeCheck
  BY <1>5 DEF OffInv, rcvars, dispvars, WakeCheck
<1>6. CASE EnableMaster
  BY <1>6 DEF OffInv, EnableMaster
<1>7. CASE EnableKickoff
  BY <1>7 DEF OffInv, EnableKickoff
<1>8. CASE CommitKickoff
  BY <1>8 DEF OffInv, CommitKickoff
<1>9. CASE CommitFrame
  BY <1>9 DEF Core, JobInv, OffInv, CommitFrame
<1>10. CASE ModesetPre
  BY <1>10, PreModesetStep DEF OffInv
<1>11. CASE ModesetReserveFails
  BY <1>11 DEF OffInv, ModesetReserveFails
<1>12. CASE ModesetPost
  BY <1>12 DEF OffInv, ModesetPost
<1>13. CASE DisableKickoff
  BY <1>13 DEF OffInv, DisableKickoff
<1>14. CASE PreStopCancel
  BY <1>14 DEF OffInv, PreStopCancel
<1>15. CASE DisablePreStop
  BY <1>15, PreStopStep DEF OffInv, DisablePreStop, Same, Becomes
<1>16. CASE DisableStop
  BY <1>16 DEF OffInv, rcvars, DisableStop, Stop
<1>17. CASE ResetConnectors \/ ResetMaster \/ ResetCrtc
  BY <1>17 DEF OffInv, rcvars, ResetConnectors, ResetMaster, ResetCrtc, Reset, pastless, Note
<1>18. CASE PostDisable
  BY <1>18, PostDisableStep DEF OffInv, Same, Becomes
<1>19. CASE OffWorkEnd
  BY <1>19 DEF ReportInv, OffInv, dispvars, OffWorkEnd
<1>20. CASE OffWork
  BY <1>20 DEF ReportInv, OffInv, dispvars, OffWork
<1>21. CASE WakeWork
  BY <1>21, WakeStep DEF OffInv, dispvars, WakeWork, Same, Becomes
<1>22. CASE Suspend
  BY <1>22 DEF OffInv, dispvars, Suspend
<1>23. CASE SuspendEnd
  BY <1>23, CollapseStep DEF Core, LockInv, OffInv, dispvars, SuspendEnd
<1>24. CASE FrameDone
  BY <1>24 DEF OffInv, rcvars, FrameDone
<1>25. CASE WakeQueue
  BY <1>25 DEF OffInv, rcvars, dispvars, WakeQueue
<1>26. CASE EsdWork
  BY <1>26, EsdStep DEF NoReporter, Reporter, ReportInv
<1>27. CASE StatusReport
  BY <1>27 DEF OffInv, rcvars, dispvars, StatusReport
<1>28. ASSUME NEW r \in DsiThread, DsiReport(r) PROVE OffInv'
  BY <1>28 DEF OffInv, rcvars, dispvars, DsiReport
<1>29. ASSUME NEW r \in Reporter, ReportMark(r) PROVE OffInv'
  BY <1>29 DEF OffInv, rcvars, dispvars, ReportMark
<1>30. ASSUME NEW r \in Reporter, ReportQueue(r) PROVE OffInv'
  BY <1>30 DEF OffInv, rcvars, dispvars, ReportQueue
<1>31. ASSUME NEW r \in Reporter, ReportEnd(r) PROVE OffInv'
  BY <1>31 DEF OffInv, rcvars, dispvars, ReportEnd
<1>32. ASSUME NEW r \in Reporter, ReportVsync(r) PROVE OffInv'
  BY <1>32 DEF OffInv, rcvars, dispvars, ReportVsync
<1> QED
  BY <1>1, <1>2, <1>3, <1>4, <1>5, <1>6, <1>7, <1>8, <1>9, <1>10, <1>11, <1>12, <1>13, <1>14,
     <1>15, <1>16, <1>17, <1>18, <1>19, <1>20, <1>21, <1>22, <1>23, <1>24, <1>25, <1>26, <1>27,
     <1>28, <1>29, <1>30, <1>31, <1>32
     DEF Next, User, Job, Works, Report

-----------------------------------------------------------------------------
(* The theorems.                                                           *)

\* Every state has all its types, its pointers and its lock in order.
LEMMA CoreInvariant == Spec => []Core
<1>1. Init => Core
  <2>1. ASSUME Init PROVE TypeOK
    BY <2>1, RcAssumption DEF Init, TypeOK
  <2>2. ASSUME Init PROVE FlagOK
    BY <2>2, Zenon DEF Init, FlagOK
  <2>3. ASSUME Init PROVE JobInv /\ LockInv
    BY <2>3 DEF Init, JobInv, LockInv, Up
  <2> QED
    BY <2>1, <2>2, <2>3 DEF Core
<1>2. Core /\ [Next]_vars => Core'
  <2>1. ASSUME Core, Next PROVE Core'
    BY <2>1, TypeStep, FlagStep, JobStep, LockStep DEF Core
  <2>2. ASSUME Core, UNCHANGED vars PROVE Core'
    BY <2>2 DEF Core, TypeOK, FlagOK, JobInv, LockInv, Up, vars, rcvars, votes, dispvars, esdvars,
       kickvars
  <2> QED
    BY <2>1, <2>2
<1> QED
  BY <1>1, <1>2, PTL DEF Spec

\* Every variable keeps its type, however many threads send events.
THEOREM RcTypeCorrect == Spec => [](TypeOK /\ FlagOK)
<1>1. Core => TypeOK /\ FlagOK
  BY DEF Core
<1> QED
  BY <1>1, CoreInvariant, PTL

\* Idle power collapse never hits a frame: as long as the clocks can be turned on, no
\* frame is in flight while the encoder is idle (sde_encoder.c:2641), whatever else
\* runs, mode switches that fail half-way and several reporters included.
THEOREM IdleIsQuiet ==
    ASSUME ~ClkFails
    PROVE  Spec => []QuietIdle
<1>1. Init => QuietInv
  BY DEF Init, QuietInv, QuietIdle
<1>2. Core /\ QuietInv /\ [Next]_vars => QuietInv'
  <2>1. ASSUME Core, QuietInv, Next PROVE QuietInv'
    BY <2>1, QuietStep
  <2>2. ASSUME QuietInv, UNCHANGED vars PROVE QuietInv'
    BY <2>2 DEF QuietInv, QuietIdle, vars, rcvars, dispvars
  <2> QED
    BY <2>1, <2>2
<1>3. QuietInv => QuietIdle
  BY DEF QuietInv
<1> QED
  BY <1>1, <1>2, <1>3, CoreInvariant, PTL DEF Spec

\* One report at a time keeps its guarantees.
LEMMA ReportInvariant ==
    ASSUME OneReporter
    PROVE  Spec => []ReportInv
<1>1. Init => ReportInv
  BY RcAssumption DEF Init, ReportInv, Reporter, Disabling
<1>2. Core /\ ReportInv /\ [Next]_vars => ReportInv'
  <2>1. ASSUME Core, ReportInv, Next PROVE ReportInv'
    BY <2>1, ReportStep
  <2>2. ASSUME ReportInv, UNCHANGED vars PROVE ReportInv'
    BY <2>2 DEF ReportInv, Disabling, vars, dispvars, esdvars, kickvars
  <2> QED
    BY <2>1, <2>2
<1> QED
  BY <1>1, <1>2, CoreInvariant, PTL DEF Spec

\* With one report at a time, the event thread loses its pointers only to a reset.
LEMMA KickInvariant ==
    ASSUME OneReporter
    PROVE  Spec => []KickInv
<1>1. Init => KickInv
  BY DEF Init, KickInv
<1>2. Core /\ ReportInv /\ KickInv /\ [Next]_vars => KickInv'
  <2>1. ASSUME Core, ReportInv, KickInv, Next PROVE KickInv'
    BY <2>1, KickStep
  <2>2. ASSUME KickInv, UNCHANGED vars PROVE KickInv'
    BY <2>2 DEF KickInv, vars, dispvars, esdvars, kickvars
  <2> QED
    BY <2>1, <2>2
<1> QED
  BY <1>1, <1>2, CoreInvariant, ReportInvariant, PTL DEF Spec

\* The delayed work and the work of a reported panel find the pointers they use
\* unchecked (sde_encoder.c:3521, sde_encoder.c:4791), as long as one thread at a time
\* reports the panel, but where the display is being enabled or its encoder reset.
THEOREM DelayedWorkFindsItsCrtc ==
    ASSUME OneReporter
    PROVE  Spec => []OffWorkSafe
<1>1. Core /\ ReportInv /\ KickInv => OffWorkSafe
  <2>1. ASSUME Core, ReportInv, off, disp = "free" PROVE master /\ crtc
    BY <2>1 DEF Core, JobInv, Up, ReportInv
  <2>2. ASSUME ReportInv, esdwork \/ kick # "none" PROVE delay
    <3>1. PICK r \in Reporter : esd[r] \in {"flush", "run"}
      BY <2>2 DEF ReportInv
    <3> QED
      BY <3>1, <2>2 DEF ReportInv
  <2>3. ASSUME KickInv, oops PROVE disp \in {"enable", "detached", "nomaster", "postdisable"}
    BY <2>3 DEF KickInv
  <2> QED
    BY <2>1, <2>2, <2>3 DEF OffWorkSafe
<1> QED
  BY <1>1, CoreInvariant, ReportInvariant, KickInvariant, PTL

\* The states stand for their votes.
LEMMA VotesInvariant ==
    ASSUME OneReporter
    PROVE  Spec => []VotesInv
<1>1. Init => VotesInv
  BY DEF Init, VotesInv, Balanced, ClockDue, IrqDue, Twice, Powered, Up
<1>2. Core /\ ReportInv /\ KickInv /\ VotesInv /\ [Next]_vars => VotesInv'
  <2>1. ASSUME Core, ReportInv, KickInv, VotesInv, Next PROVE VotesInv'
    BY <2>1, VotesStep
  <2>2. ASSUME VotesInv, UNCHANGED vars PROVE VotesInv'
    BY <2>2 DEF VotesInv, Balanced, Voted, ClockDue, IrqDue, Twice, Powered, Up, vars, rcvars,
       votes, dispvars, esdvars, kickvars
  <2> QED
    BY <2>1, <2>2
<1> QED
  BY <1>1, <1>2, CoreInvariant, ReportInvariant, KickInvariant, PTL DEF Spec

\* Outside the middle of the event thread's KICKOFF the votes are balanced.
LEMMA LockedBalance ==
    ASSUME Core, VotesInv
    PROVE  VotesMatchState
<1>1. lock # "esd" => kick \notin {"rsc", "qsync", "ask"}
  BY DEF Core, LockInv
<1>2. lock # "esd" => Balanced
  BY <1>1 DEF VotesInv
<1> QED
  BY <1>2 DEF VotesMatchState, Balanced

\* The encoder holds exactly the votes its state stands for, whatever threads drove it
\* there and however often its clocks failed (sde_encoder.c:1962), with one reporter of
\* a dead panel at a time; also when sde_encoder_virt_reset takes cur_master and the CRTC
\* from a KICKOFF of the event thread (sde_encoder.c:3634), which leaves at most the RSC
\* unasked, and never fewer votes than due when a mode switch stopped half-way.
THEOREM VotesAlwaysMatch ==
    ASSUME OneReporter
    PROVE  Spec => []VotesMatchState
<1> QED
  BY LockedBalance, CoreInvariant, VotesInvariant, PTL

\* A display that a commit has switched off is OFF, has no delayed work pending and holds no
\* vote that was not counted twice (sde_encoder.c:2500), when nobody reports a dead panel
\* meanwhile.
THEOREM OffMeansOff ==
    ASSUME NoReporter
    PROVE  Spec => []OffHoldsNothing
<1>0. OneReporter
  BY DEF NoReporter, OneReporter
<1>1. Init => OffInv
  BY DEF Init, OffInv
<1>2. Core /\ ReportInv /\ OffInv /\ [Next]_vars => OffInv'
  <2>1. ASSUME Core, ReportInv, OffInv, Next PROVE OffInv'
    BY <1>0, <2>1, OffStep
  <2>2. ASSUME OffInv, UNCHANGED vars PROVE OffInv'
    BY <2>2 DEF OffInv, vars, rcvars, votes, dispvars
  <2> QED
    BY <2>1, <2>2
<1>3. Core /\ ReportInv /\ VotesInv /\ OffInv => OffHoldsNothing
  <2>1. ASSUME Core, ReportInv, VotesInv, OffInv, ~active, disp = "free" PROVE OffHoldsNothing
    <3>1. rc = "OFF" /\ ~off
      BY <2>1 DEF ReportInv, OffInv
    <3>2. kick = "none"
      BY <2>1 DEF ReportInv
    <3> QED
      BY <2>1, <3>1, <3>2
         DEF VotesInv, Balanced, ClockDue, IrqDue, Powered, OffHoldsNothing
  <2> QED
    BY <2>1 DEF OffHoldsNothing
<1> QED
  BY <1>0, <1>1, <1>2, <1>3, CoreInvariant, ReportInvariant, VotesInvariant, PTL DEF Spec

\* The RSC is asked for an active state only under a clock vote of the encoder, or in the commit
\* that enables the display, which holds one itself (sde_kms_prepare_commit): what SdeRsc assumes
\* of its clients (_sde_encoder_update_rsc_client, sde_encoder_virt_mode_switch).
THEOREM RscAskedUnderPower ==
    ASSUME OneReporter, SureSwitch
    PROVE  Spec => []RscUnderPower
<1>1. Init => RscInv
  BY DEF Init, RscInv
<1>2. Core /\ ReportInv /\ KickInv /\ VotesInv /\ RscInv /\ [Next]_vars => RscInv'
  <2>1. ASSUME RscInv, UNCHANGED vars PROVE RscInv'
    BY <2>1 DEF RscInv, vars, rcvars, votes, dispvars
  <2> QED
    BY <2>1, RscInvStep
<1>3. Core /\ VotesInv /\ RscInv => RscUnderPower
  BY RcAssumption DEF RscUnderPower, Core, TypeOK, VotesInv, Balanced, Voted, ClockDue, Powered,
     RscInv
<1> QED
  BY <1>1, <1>2, <1>3, CoreInvariant, ReportInvariant, KickInvariant, VotesInvariant, PTL DEF Spec

=============================================================================
