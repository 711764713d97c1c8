--------------------------- MODULE SdeFenceProofs ---------------------------
(***************************************************************************)
(* Theorems about SdeFence, for every set of fences, offset and bound.     *)
(***************************************************************************)
EXTENDS SdeFence, FiniteSetTheorems, TLAPS

\* The u32 counters of the code and the unwrapped ones of the model give the
\* same 32-bit difference, which is all that sde_fence_signaled and
\* sde_fence_signal look at.
THEOREM WrappedDifference ==
  ASSUME NEW a \in Nat, NEW b \in Nat
  PROVE  ((a % 4294967296) - (b % 4294967296)) % 4294967296 = (a - b) % 4294967296
OBVIOUS

\* Within half a range the cast of a difference is the difference.
LEMMA Int32Small ==
  ASSUME NEW x \in Int, -HalfRange <= x, x < HalfRange
  PROVE  Int32(x) = x
<1>1. x + HalfRange \in 0..(2 * HalfRange - 1)
  BY BoundAssumption
<1>2. ASSUME NEW a \in Int, NEW b \in Int, b > 0, a >= 0, a < b
      PROVE  a % b = a
  BY <1>2
<1> QED
  BY <1>1, <1>2, BoundAssumption DEF Int32

-----------------------------------------------------------------------------
(***************************************************************************)
(* The inductive invariant.                                                *)
(***************************************************************************)
\* list_lock is held by the one signaller that walks, over fences still listed.
LockInv ==
  /\ \A s \in Signaller : pc[s] = "walk" <=> listLock = s
  /\ \A s \in Signaller : pc[s] # "walk" => todo[s] = {}
  /\ \A s \in Signaller : todo[s] \subseteq listed
  /\ held \subseteq listed

\* The fence being created is not listed yet, and is for a commit to come.
UserInv ==
  /\ userFence \in Fence <=> user \in {"made", "installed"}
  /\ userFence \notin listed
  /\ user = "made" => userFence \notin open /\ state[userFence] = "pending"
  /\ user = "create" => userVal = commit + offset
  /\ userFence \in Fence => seqno[userFence] = commit + offset

\* No fence is further ahead than the trigger offset.
SeqnoBound == \A f \in Fence : seqno[f] <= commit + offset

\* An input error is only ever set together with the release of the fence; a
\* fence not signalled yet is listed, or about to be.
ErrorInv ==
  \A f \in Fence : /\ error[f] = "input" => f \notin listed /\ f # userFence
                   /\ state[f] = Free => error[f] = "none"
                   /\ state[f] = "pending" => f \in listed \/ f = userFence

\* The bound of the model on the commits that are opened.
Bounded == commit <= MaxCommit

\* The display thread starts a signal only when its last one is over.
DispInv == phase \notin {"errorSignal", "reset"} => pc["disp"] = "idle"

IInv == /\ TypeOK /\ LockInv /\ UserInv /\ FenceRefs /\ TimelineOrdered
        /\ SeqnoBound /\ ErrorInv /\ DispInv /\ NoEarlySignal /\ NoLostFence
        /\ Bounded

\* What the parts other than TypeOK depend on.
core == <<commit, done, seqno, refs, state, error, open, listed, held, offset, uvars, svars>>

\* A step that leaves the core variables alone keeps every part but TypeOK and DispInv.
LEMMA CoreUnchanged ==
  ASSUME IInv, UNCHANGED core
  PROVE  /\ LockInv' /\ UserInv' /\ FenceRefs' /\ TimelineOrdered' /\ Bounded'
         /\ SeqnoBound' /\ ErrorInv' /\ NoEarlySignal' /\ NoLostFence'
BY DEF core, uvars, svars, IInv, LockInv, UserInv, FenceRefs, TimelineOrdered, Bounded,
   SeqnoBound,
       ErrorInv, NoEarlySignal, NoLostFence, Covered, Signaled

\* A fence is signalled by the timeline only when its commit is done.
LEMMA SignaledIsDone ==
  ASSUME IInv, NEW f \in Fence
  PROVE  Signaled(f, done) => seqno[f] <= done
<1>1. seqno[f] \in Nat /\ done \in Nat /\ commit \in Nat
  BY DEF IInv, TypeOK
<1>2. seqno[f] - done < HalfRange
  BY <1>1, BoundAssumption, OffsetAssumption DEF IInv, TypeOK, MaxOffset, SeqnoBound,
     TimelineOrdered, Bounded
<1>3. CASE seqno[f] - done < -HalfRange
  BY <1>1, <1>3, BoundAssumption
<1>4. CASE seqno[f] - done >= -HalfRange
  <2>1. Int32(seqno[f] - done) = seqno[f] - done
    BY <1>1, <1>2, <1>4, Int32Small, BoundAssumption
  <2> QED BY <2>1, <1>1 DEF Signaled
<1> QED BY <1>1, <1>3, <1>4, BoundAssumption

\* sde_fence_signal advances the timeline only if a commit is not done.
LEMMA BehindMeansAhead == IInv /\ Behind => done < commit
<1> SUFFICES ASSUME IInv, Behind PROVE done < commit
  OBVIOUS
<1>1. done \in Nat /\ commit \in Nat
  BY DEF IInv, TypeOK
<1>2. Int32(done - commit) = done - commit
  BY <1>1, Int32Small, BoundAssumption, OffsetAssumption DEF IInv, TimelineOrdered, Bounded
<1> QED BY <1>1, <1>2 DEF Behind

\* The invariant holds after sde_fence_init.
LEMMA InitInv == Init => IInv
<1> SUFFICES ASSUME Init PROVE IInv
  OBVIOUS
<1> USE FenceAssumption, OffsetAssumption, BoundAssumption
<1>1. TypeOK
  <2>1. /\ commit \in Nat /\ done \in Nat /\ kref \in Int /\ lastGood \in Int
        /\ curr \in Nat /\ userVal \in Nat /\ inflight \in Nat
    BY DEF Init
  <2>0. owned \in BOOLEAN /\ handling \in BOOLEAN /\ inputBad \in BOOLEAN
    BY Zenon DEF Init
  <2>2. /\ seqno \in [Fence -> Nat] /\ refs \in [Fence -> Nat]
        /\ state \in [Fence -> {Free, "pending", "signaled"}]
        /\ error \in [Fence -> {"none", "EBUSY", "input"}]
        /\ open \subseteq Fence /\ listed \subseteq Fence /\ held \subseteq Fence
    BY DEF Init, Free
  <2>3. panel \in {"video", "cmd"} /\ offset \in 1..MaxOffset
    BY DEF Init, MaxOffset
  <2>5. /\ listLock \in Signaller \cup {"none"} /\ errState \in FenceErrors
        /\ user \in {"idle", "create", "made", "installed"}
        /\ userFence \in Fence \cup {"none"}
        /\ work \in {"none", "flip", "disable"} /\ phase \in Phases
    BY DEF Init, FenceErrors, Phases
  <2>4. /\ pc \in [Signaller -> {"idle", "trigger", "walk"}]
        /\ event \in [Signaller -> {"SIGNAL", "SIGNAL_ERROR", "RESET_TIMELINE"}]
        /\ todo \in [Signaller -> SUBSET Fence]
    BY DEF Init
  <2> QED BY <2>0, <2>1, <2>2, <2>3, <2>4, <2>5 DEF TypeOK
<1>2. LockInv /\ UserInv
  BY DEF Init, LockInv, UserInv, Signaller
<1>3. FenceRefs
  BY DEF Init, FenceRefs, One, Free
<1>4. TimelineOrdered /\ Bounded /\ SeqnoBound /\ ErrorInv /\ DispInv /\ NoEarlySignal /\ NoLostFence
  BY DEF Init, TimelineOrdered, Bounded, SeqnoBound, ErrorInv, DispInv, Signaller, NoEarlySignal,
         NoLostFence, Free
<1> QED BY <1>1, <1>2, <1>3, <1>4 DEF IInv
-----------------------------------------------------------------------------
(***************************************************************************)
(* The steps that leave the counters, fences, list and walks alone.        *)
(***************************************************************************)
CoreStep == \/ InputFenceError \/ ErrorEnd \/ InputFencesGood \/ Kickoff
            \/ FlipDone \/ DisableDone \/ Deinit

\* The steps outside the timeline keep the invariant.
LEMMA CoreStepInv == IInv /\ CoreStep => IInv'
<1> SUFFICES ASSUME IInv, CoreStep PROVE IInv'
  OBVIOUS
<1>1. UNCHANGED core
  BY DEF CoreStep, InputFenceError, ErrorEnd, InputFencesGood, Kickoff, FlipDone,
         DisableDone, Deinit, core, counters, fences, uvars, svars, crtc
<1>2. TypeOK'
  <2> USE DEF IInv, TypeOK, counters, fences, errctx, uvars, svars, dvars, crtc, FenceErrors, Phases
  <2>1. CASE InputFenceError
    <3>1. inputBad' \in BOOLEAN /\ handling' \in BOOLEAN
      BY <2>1, Zenon DEF InputFenceError
    <3> QED BY <2>1, <3>1 DEF InputFenceError
  <2>2. CASE ErrorEnd        BY <2>2 DEF ErrorEnd
  <2>3. CASE InputFencesGood BY <2>3 DEF InputFencesGood
  <2>4. CASE Kickoff
    <3>1. commit - 1 + offset \in Nat
      BY OffsetAssumption DEF MaxOffset
    <3>2. inputBad' \in BOOLEAN
      BY <2>4, Zenon DEF Kickoff
    <3> QED BY <2>4, <3>1, <3>2 DEF Kickoff
  <2>5. CASE FlipDone        BY <2>5 DEF FlipDone
  <2>6. CASE DisableDone     BY <2>6 DEF DisableDone
  <2>7. CASE Deinit
    <3>1. owned' \in BOOLEAN
      BY <2>7, Zenon DEF Deinit
    <3> QED BY <2>7, <3>1 DEF Deinit
  <2> QED BY <2>1, <2>2, <2>3, <2>4, <2>5, <2>6, <2>7 DEF CoreStep
<1>3. DispInv'
  BY DEF IInv, DispInv, CoreStep, InputFenceError, ErrorEnd, InputFencesGood, Kickoff, FlipDone,
         DisableDone, Deinit, svars, dvars, crtc
<1> QED BY <1>1, <1>2, <1>3, CoreUnchanged DEF IInv

-----------------------------------------------------------------------------
(***************************************************************************)
(* The user thread.                                                        *)
(***************************************************************************)
LEMMA CreateReadInv == IInv /\ CreateRead => IInv'
<1> SUFFICES ASSUME IInv, CreateRead PROVE IInv'
  OBVIOUS
<1> USE DEF IInv, CreateRead, counters, fences, errctx, svars, dvars, crtc
<1>1. TypeOK' BY OffsetAssumption DEF TypeOK
<1>2. LockInv' BY DEF LockInv
<1>3. UserInv' BY DEF UserInv
<1>4. FenceRefs' /\ TimelineOrdered' /\ Bounded' /\ SeqnoBound' /\ ErrorInv' /\ DispInv'
     /\ NoEarlySignal'
  BY DEF FenceRefs, TimelineOrdered, Bounded, SeqnoBound, ErrorInv, DispInv, NoEarlySignal
<1>5. NoLostFence' BY DEF NoLostFence, Covered, Signaled
<1> QED BY <1>1, <1>2, <1>3, <1>4, <1>5

\* A creation that finds no memory changes nothing but its thread.
LEMMA CreateNoMemoryInv == IInv /\ CreateNoMemory => IInv'
<1> SUFFICES ASSUME IInv, CreateNoMemory PROVE IInv'
  OBVIOUS
<1> USE DEF IInv, CreateNoMemory, counters, fences, errctx, svars, dvars, crtc
<1>1. TypeOK' BY DEF TypeOK
<1>2. LockInv' BY DEF LockInv
<1>3. UserInv' BY DEF UserInv
<1>4. FenceRefs' /\ TimelineOrdered' /\ Bounded' /\ SeqnoBound' /\ ErrorInv' /\ DispInv'
     /\ NoEarlySignal'
  BY DEF FenceRefs, TimelineOrdered, Bounded, SeqnoBound, ErrorInv, DispInv, NoEarlySignal
<1>5. NoLostFence' BY DEF NoLostFence, Covered, Signaled
<1> QED BY <1>1, <1>2, <1>3, <1>4, <1>5

\* The new fence is for a commit that is not done.
LEMMA CreateInitInv == ASSUME IInv, NEW f \in Fence, CreateInit(f) PROVE IInv'
<1> USE DEF IInv, CreateInit, counters, svars, dvars, crtc
<1>1. TypeOK' BY DEF TypeOK
<1>2. f \notin listed /\ f \notin open /\ f # userFence /\ userFence = "none"
  BY FenceAssumption DEF TypeOK, UserInv, FenceRefs, One
<1>3. LockInv' BY DEF LockInv
<1>4. UserInv' BY <1>2 DEF UserInv, TypeOK
<1>5. FenceRefs'
  BY <1>2, FenceAssumption DEF FenceRefs, One, Free, TypeOK
<1>6. TimelineOrdered' /\ Bounded' /\ DispInv' BY DEF TimelineOrdered, Bounded, DispInv
<1>7. SeqnoBound' BY DEF SeqnoBound, UserInv, TypeOK
<1>8. ErrorInv' BY <1>2, FenceAssumption DEF ErrorInv, TypeOK, FenceRefs, Free
<1>9. NoEarlySignal' BY DEF NoEarlySignal, TypeOK
<1>10. NoLostFence' BY <1>2 DEF NoLostFence, Covered, Signaled, TypeOK
<1> QED BY <1>1, <1>3, <1>4, <1>5, <1>6, <1>7, <1>8, <1>9, <1>10
\* A creation that fails gives its reference back.
LEMMA CreateFailInv == IInv /\ CreateFail => IInv'
<1> SUFFICES ASSUME IInv, CreateFail PROVE IInv'
  OBVIOUS
<1> USE DEF IInv, CreateFail, PutFence, counters, errctx, svars, dvars, crtc
<1>1. userFence \in Fence /\ refs[userFence] = 1 /\ userFence \notin open
      /\ userFence \notin listed
  BY DEF UserInv, FenceRefs, One
<1>2. TypeOK' BY <1>1 DEF TypeOK, Free
<1>3. LockInv' BY DEF LockInv
<1>4. UserInv' BY <1>1, FenceAssumption DEF UserInv, TypeOK
<1>5. FenceRefs' BY <1>1, FenceAssumption DEF FenceRefs, One, TypeOK, Free
<1>6. TimelineOrdered' /\ Bounded' /\ DispInv' BY DEF TimelineOrdered, Bounded, DispInv
<1>7. SeqnoBound' BY OffsetAssumption DEF SeqnoBound, TypeOK
<1>8. ErrorInv' BY <1>1, FenceAssumption DEF ErrorInv, TypeOK, Free
<1>9. NoEarlySignal' BY <1>1 DEF NoEarlySignal, TypeOK, Free
<1>10. NoLostFence' BY <1>1 DEF NoLostFence, Covered, Signaled, TypeOK, LockInv
<1> QED BY <1>2, <1>3, <1>4, <1>5, <1>6, <1>7, <1>8, <1>9, <1>10

\* The descriptor takes a reference of its own.
LEMMA CreateInstallInv == IInv /\ CreateInstall => IInv'
<1> SUFFICES ASSUME IInv, CreateInstall PROVE IInv'
  OBVIOUS
<1> USE DEF IInv, CreateInstall, counters, errctx, svars, dvars, crtc
<1>1. userFence \in Fence /\ userFence \notin open /\ userFence \notin listed
  BY DEF UserInv
<1>2. TypeOK' BY <1>1 DEF TypeOK
<1>3. LockInv' BY DEF LockInv
<1>4. UserInv' BY <1>1 DEF UserInv
<1>5. FenceRefs' BY <1>1 DEF FenceRefs, One, TypeOK
<1>6. TimelineOrdered' /\ Bounded' /\ SeqnoBound' /\ ErrorInv' /\ DispInv' /\ NoEarlySignal'
  BY DEF TimelineOrdered, Bounded, SeqnoBound, ErrorInv, DispInv, NoEarlySignal
<1>7. NoLostFence' BY DEF NoLostFence, Covered, Signaled
<1> QED BY <1>2, <1>3, <1>4, <1>5, <1>6, <1>7

\* The fence that is listed late is for a commit to come, so no walk missed it.
LEMMA CreateListInv == IInv /\ CreateList => IInv'
<1> SUFFICES ASSUME IInv, CreateList PROVE IInv'
  OBVIOUS
<1> USE DEF IInv, CreateList, counters, errctx, svars, dvars, crtc
<1>1. userFence \in Fence /\ userFence \notin listed /\ seqno[userFence] = commit + offset
  BY DEF UserInv
<1>2. TypeOK' BY <1>1 DEF TypeOK
<1>3. LockInv' BY DEF LockInv
<1>4. UserInv' BY <1>1, FenceAssumption DEF UserInv, TypeOK
<1>5. FenceRefs' BY <1>1, FenceAssumption DEF FenceRefs, One, TypeOK
<1>6. TimelineOrdered' /\ Bounded' /\ SeqnoBound' /\ DispInv' /\ NoEarlySignal'
  BY DEF TimelineOrdered, Bounded, SeqnoBound, DispInv, NoEarlySignal
<1>7. ErrorInv' BY <1>1, FenceAssumption DEF ErrorInv
<1>8. ~Signaled(userFence, done)
  BY <1>1, SignaledIsDone, OffsetAssumption DEF TypeOK, MaxOffset, TimelineOrdered, Bounded
<1>9. NoLostFence' BY <1>8 DEF NoLostFence, Covered, Signaled
<1> QED BY <1>2, <1>3, <1>4, <1>5, <1>6, <1>7, <1>9

\* Opening a commit moves the timeline away from every fence.
LEMMA PrepareInv == ASSUME IInv, NEW k \in {"flip", "disable"}, Prepare(k) PROVE IInv'
<1> USE DEF IInv, Prepare, fences, errctx, uvars, svars, crtc
<1>1. TypeOK' BY DEF TypeOK
<1>2. LockInv' BY DEF LockInv
<1>3. UserInv' BY FenceAssumption DEF UserInv, TypeOK
<1>4. FenceRefs' /\ ErrorInv' /\ DispInv' /\ NoEarlySignal'
  BY DEF FenceRefs, ErrorInv, DispInv, NoEarlySignal
<1>5. TimelineOrdered' /\ Bounded' BY BoundAssumption DEF TimelineOrdered, Bounded, TypeOK
<1>6. SeqnoBound' BY OffsetAssumption DEF SeqnoBound, TypeOK
<1>7. NoLostFence' BY DEF NoLostFence, Covered, Signaled
<1> QED BY <1>1, <1>2, <1>3, <1>4, <1>5, <1>6, <1>7

-----------------------------------------------------------------------------
(***************************************************************************)
(* The clients.                                                            *)
(***************************************************************************)
LEMMA CloseInv == ASSUME IInv, NEW f \in Fence, Close(f) PROVE IInv'
<1> USE DEF IInv, Close, PutFence, counters, errctx, uvars, svars, dvars, crtc
<1>1. /\ f \in open /\ refs[f] \in {1, 2}
      /\ refs[f] = 1 <=> f \notin listed /\ f # userFence
  BY DEF FenceRefs, One
<1>2. TypeOK' BY <1>1 DEF TypeOK
<1>3. LockInv' BY DEF LockInv
<1>4. UserInv' BY <1>1, FenceAssumption DEF UserInv, TypeOK
<1>5. FenceRefs' BY <1>1 DEF FenceRefs, One, TypeOK, Free
<1>6. TimelineOrdered' /\ Bounded' /\ DispInv' BY DEF TimelineOrdered, Bounded, DispInv
<1>7. SeqnoBound' BY OffsetAssumption DEF SeqnoBound, TypeOK
<1>8. ErrorInv' BY <1>1 DEF ErrorInv, TypeOK, Free
<1>9. NoEarlySignal' BY <1>1 DEF NoEarlySignal, TypeOK, Free
<1>10. NoLostFence' BY <1>1 DEF NoLostFence, Covered, Signaled, TypeOK
<1> QED BY <1>2, <1>3, <1>4, <1>5, <1>6, <1>7, <1>8, <1>9, <1>10

\* A poll signals a due fence without error.
LEMMA PollInv == ASSUME IInv, NEW f \in Fence, Poll(f) PROVE IInv'
<1> USE DEF IInv, Poll, counters, errctx, uvars, svars, dvars, crtc
<1>1. seqno[f] <= done BY SignaledIsDone
<1>2. TypeOK' BY DEF TypeOK
<1>3. LockInv' BY DEF LockInv
<1>4. UserInv' BY DEF UserInv
<1>5. FenceRefs' BY DEF FenceRefs, One, TypeOK, Free
<1>6. TimelineOrdered' /\ Bounded' /\ DispInv' /\ SeqnoBound'
  BY DEF TimelineOrdered, Bounded, DispInv, SeqnoBound
<1>7. ErrorInv' BY DEF ErrorInv, TypeOK, Free
<1>8. NoEarlySignal' BY <1>1 DEF NoEarlySignal, TypeOK
<1>9. NoLostFence' BY DEF NoLostFence, Covered, Signaled
<1> QED BY <1>2, <1>3, <1>4, <1>5, <1>6, <1>7, <1>8, <1>9

-----------------------------------------------------------------------------
(***************************************************************************)
(* sde_fence_signal and its walk.                                          *)
(***************************************************************************)
Events == {"SIGNAL", "SIGNAL_ERROR", "RESET_TIMELINE"}

\* The counter moves towards the commits, and every listed fence is covered.
LEMMA CountInv ==
  ASSUME IInv, NEW s \in Signaller, NEW ev \in Events, pc[s] = "idle", Count(s, ev),
         UNCHANGED <<commit, offset, fences, uvars, todo, listLock>>
  PROVE  /\ done' \in Nat /\ done <= done'
         /\ pc' \in [Signaller -> {"idle", "trigger", "walk"}] /\ event' \in [Signaller -> Events]
         /\ \A t \in Signaller : t # s => pc'[t] = pc[t]
         /\ LockInv' /\ UserInv' /\ FenceRefs' /\ TimelineOrdered' /\ Bounded' /\ SeqnoBound' /\ ErrorInv'
         /\ NoEarlySignal' /\ NoLostFence'
         /\ done' # done => done < done'
<1> USE DEF IInv, Events, fences, uvars
<1>1. CASE ~Behind
  <2>1. UNCHANGED <<done, pc, event>>
    BY <1>1 DEF Count
  <2> QED BY <2>1, CoreUnchanged DEF TypeOK, core, svars, Count
<1>2. CASE Behind
  <2>1. commit \in Nat /\ done \in Nat /\ done < commit
    BY <1>2, BehindMeansAhead DEF TypeOK
  <2>2. done' \in Nat /\ done < done' /\ done' <= commit /\ commit <= done' + MaxAhead
    BY <1>2, <2>1, BoundAssumption DEF Count, Advance, TimelineOrdered, Bounded
  <2>3. pc' = [pc EXCEPT ![s] = "trigger"] /\ event' = [event EXCEPT ![s] = ev]
    BY <1>2 DEF Count
  <2>4. pc' \in [Signaller -> {"idle", "trigger", "walk"}] /\ event' \in [Signaller -> Events]
    BY <2>3 DEF TypeOK
  <2>5. \A t \in Signaller : t # s => pc'[t] = pc[t]
    BY <2>3 DEF TypeOK
  <2>6. LockInv'
    BY <2>3 DEF LockInv, TypeOK
  <2>7. UserInv' /\ FenceRefs' /\ SeqnoBound' /\ ErrorInv'
    BY DEF UserInv, FenceRefs, SeqnoBound, ErrorInv
  <2>8. TimelineOrdered' /\ Bounded'
    BY <2>1, <2>2 DEF TimelineOrdered, Bounded
  <2>9. NoEarlySignal'
    BY <2>1, <2>2 DEF NoEarlySignal, TypeOK
  <2>10. NoLostFence'
    BY <2>3 DEF NoLostFence, Covered, TypeOK
  <2> QED BY <2>1, <2>2, <2>4, <2>5, <2>6, <2>7, <2>8, <2>9, <2>10
<1> QED BY <1>1, <1>2

\* The event thread starts a signal.
LEMMA FrameEventInv ==
  ASSUME IInv, NEW ev \in {"SIGNAL", "SIGNAL_ERROR"}, FrameEvent(ev) PROVE IInv'
<1>1. /\ "event" \in Signaller /\ pc["event"] = "idle" /\ Count("event", ev) /\ ev \in Events
      /\ UNCHANGED <<commit, fences, errctx, uvars, todo, listLock, work, phase, inputBad,
                     crtc>>
  BY DEF FrameEvent, Signaller, Events
<1>2. TypeOK'
  BY <1>1, CountInv DEF IInv, TypeOK, FrameEvent, fences, errctx, uvars, crtc, Events
<1>3. DispInv'
  BY <1>1, CountInv DEF IInv, DispInv, Signaller, crtc
<1> QED BY <1>1, <1>2, <1>3, CountInv DEF IInv, crtc

\* The display thread starts a signal for an input-fence error.
LEMMA ErrorSignalInv == IInv /\ ErrorSignal => IInv'
<1> SUFFICES ASSUME IInv, ErrorSignal PROVE IInv'
  OBVIOUS
<1>1. /\ "disp" \in Signaller /\ pc["disp"] = "idle" /\ Count("disp", "SIGNAL")
      /\ "SIGNAL" \in Events /\ phase' = "errorSignal"
      /\ UNCHANGED <<commit, fences, errctx, uvars, todo, listLock, work, inputBad, inflight,
                     crtc>>
  BY DEF IInv, DispInv, ErrorSignal, Signaller, Events
<1>2. TypeOK'
  BY <1>1, CountInv DEF IInv, TypeOK, fences, errctx, uvars, crtc, Events, Phases
<1> QED BY <1>1, <1>2, CountInv DEF IInv, DispInv, crtc

\* sde_crtc_disable starts a reset of the timeline.
LEMMA ResetInv == IInv /\ Reset => IInv'
<1> SUFFICES ASSUME IInv, Reset PROVE IInv'
  OBVIOUS
<1>1. /\ "disp" \in Signaller /\ pc["disp"] = "idle" /\ Count("disp", "RESET_TIMELINE")
      /\ "RESET_TIMELINE" \in Events /\ phase' = "reset" /\ inflight' = 0
      /\ UNCHANGED <<commit, fences, errctx, uvars, todo, listLock, work, inputBad, crtc>>
  BY DEF IInv, DispInv, Reset, Signaller, Events
<1>2. TypeOK'
  BY <1>1, CountInv DEF IInv, TypeOK, fences, errctx, uvars, crtc, Events, Phases
<1> QED BY <1>1, <1>2, CountInv DEF IInv, DispInv, crtc

\* The walk takes the list lock and the fences listed.
LEMMA WalkStartInv == ASSUME IInv, NEW s \in Signaller, WalkStart(s) PROVE IInv'
<1> USE DEF IInv, WalkStart, counters, errctx, uvars, dvars, crtc
<1>1. TypeOK' BY DEF TypeOK
<1>2. LockInv' BY DEF LockInv, TypeOK, Signaller
<1>3. UserInv' /\ FenceRefs' /\ SeqnoBound' /\ ErrorInv'
  BY DEF UserInv, FenceRefs, SeqnoBound, ErrorInv
<1>4. TimelineOrdered' /\ Bounded' /\ NoEarlySignal'
  BY DEF TimelineOrdered, Bounded, NoEarlySignal
<1>5. DispInv' BY DEF DispInv, TypeOK
<1>6. NoLostFence' BY DEF NoLostFence, Covered, Signaled, TypeOK
<1> QED BY <1>1, <1>2, <1>3, <1>4, <1>5, <1>6

\* The walk ends with no due fence left behind.
LEMMA WalkEndInv == ASSUME IInv, NEW s \in Signaller, WalkEnd(s) PROVE IInv'
<1> USE DEF IInv, WalkEnd, counters, errctx, uvars, dvars, crtc
<1>1. TypeOK' BY DEF TypeOK
<1>2. LockInv' BY DEF LockInv, TypeOK, Signaller
<1>3. UserInv' /\ FenceRefs' /\ SeqnoBound' /\ ErrorInv'
  BY DEF UserInv, FenceRefs, SeqnoBound, ErrorInv
<1>4. TimelineOrdered' /\ Bounded' /\ NoEarlySignal'
  BY DEF TimelineOrdered, Bounded, NoEarlySignal
<1>5. DispInv' BY DEF DispInv, TypeOK
<1>6. NoLostFence' BY DEF NoLostFence, Covered, Signaled, TypeOK
<1> QED BY <1>1, <1>2, <1>3, <1>4, <1>5, <1>6

\* The step of the walk that matters: a fence leaves the walk unsignalled only
\* if it is not due or is held, and is signalled only if due or in error.
LEMMA WalkFenceInv ==
  ASSUME IInv, NEW s \in Signaller, NEW f \in Fence, WalkFence(s, f) PROVE IInv'
<1> USE DEF IInv, WalkFence, counters, errctx, uvars, dvars, crtc
<1>1. f \in listed /\ f # userFence /\ pc[s] = "walk" /\ listLock = s
  BY DEF LockInv, UserInv
<1>2. todo' \in [Signaller -> SUBSET Fence] /\ NewError(s, f) \in {"none", "EBUSY", "input"}
  BY DEF TypeOK, NewError
<1>3. CASE ForceError(f) \/ (~Keep(f) /\ Signaled(f, done))
  <2>1. PutFence(f, "signaled", NewError(s, f)) /\ listed' = listed \ {f} /\ held' = held \ {f}
    BY <1>3
  <2>2. refs[f] \in {1, 2} /\ (refs[f] = 1 <=> f \notin open)
    BY <1>1 DEF FenceRefs, One
  <2>3. NewError(s, f) # "input" => seqno[f] <= done
    BY <1>3, SignaledIsDone DEF NewError
  <2> USE DEF PutFence
  <2>4. TypeOK' BY <1>2, <2>1, <2>2 DEF TypeOK, Free
  <2>5. LockInv' BY <2>1 DEF LockInv, TypeOK
  <2>6. UserInv' BY <1>1, <2>1 DEF UserInv, TypeOK
  <2>7. FenceRefs' BY <1>1, <2>1, <2>2 DEF FenceRefs, One, TypeOK, Free
  <2>8. TimelineOrdered' /\ Bounded' /\ DispInv' BY DEF TimelineOrdered, Bounded, DispInv
  <2>9. SeqnoBound' BY <2>1, OffsetAssumption DEF SeqnoBound, TypeOK
  <2>10. ErrorInv' BY <1>1, <2>1 DEF ErrorInv, TypeOK, Free
  <2>11. NoEarlySignal' BY <2>1, <2>2, <2>3 DEF NoEarlySignal, TypeOK, Free
  <2>12. NoLostFence' BY <2>1 DEF NoLostFence, Covered, Signaled, TypeOK
  <2> QED BY <2>4, <2>5, <2>6, <2>7, <2>8, <2>9, <2>10, <2>11, <2>12
<1>4. CASE ~(ForceError(f) \/ (~Keep(f) /\ Signaled(f, done)))
  <2>1. /\ held' = (IF Keep(f) THEN held \cup {f} ELSE held)
        /\ error' = [error EXCEPT ![f] = NewError(s, f)]
        /\ UNCHANGED <<listed, refs, kref, state, seqno>>
    BY <1>4
  <2>2. NewError(s, f) # "input"
    BY <1>1, <1>4 DEF NewError, ErrorInv
  <2>3. TypeOK' BY <1>2, <2>1 DEF TypeOK
  <2>4. LockInv' BY <1>1, <2>1 DEF LockInv, TypeOK
  <2>5. UserInv' /\ FenceRefs' /\ SeqnoBound'
    BY <2>1 DEF UserInv, FenceRefs, SeqnoBound
  <2>6. TimelineOrdered' /\ Bounded' /\ DispInv' BY DEF TimelineOrdered, Bounded, DispInv
  <2>7. state[f] # Free
    BY <1>1 DEF FenceRefs, One
  <2>8. ErrorInv' BY <1>1, <2>1, <2>2, <2>7 DEF ErrorInv, TypeOK
  <2>9. NoEarlySignal'
    BY <1>1, <2>1 DEF NoEarlySignal, ErrorInv, TypeOK
  <2>10. NoLostFence'
    BY <1>4, <2>1 DEF NoLostFence, Covered, Signaled, TypeOK
  <2> QED BY <2>3, <2>4, <2>5, <2>6, <2>8, <2>9, <2>10
<1> QED BY <1>3, <1>4

-----------------------------------------------------------------------------
\* Every step keeps the invariant.
LEMMA NextInv == IInv /\ [Next]_vars => IInv'
<1> SUFFICES ASSUME IInv, [Next]_vars PROVE IInv'
  OBVIOUS
<1>1. CASE Create
  BY <1>1, CreateReadInv, CreateNoMemoryInv, CreateFailInv, CreateInstallInv, CreateListInv,
     CreateInitInv DEF Create
<1>2. CASE \E k \in {"flip", "disable"} : Prepare(k)
  BY <1>2, PrepareInv
<1>3. CASE Client
  BY <1>3, CloseInv, PollInv DEF Client
<1>4. CASE \E ev \in {"SIGNAL", "SIGNAL_ERROR"} : FrameEvent(ev)
  BY <1>4, FrameEventInv
<1>5. CASE \E s \in Signaller : Walk(s)
  BY <1>5, WalkStartInv, WalkEndInv, WalkFenceInv DEF Walk
<1>6. CASE Disp
  BY <1>6, CoreStepInv, ErrorSignalInv, ResetInv DEF Disp, CoreStep
<1>7. CASE Deinit
  BY <1>7, CoreStepInv DEF CoreStep
<1>8. CASE UNCHANGED vars
  <2>1. UNCHANGED core /\ UNCHANGED dvars
    BY <1>8 DEF vars, core, counters, fences, uvars, svars, dvars, crtc
  <2>2. TypeOK' /\ DispInv'
    BY <1>8 DEF IInv, TypeOK, DispInv, vars, counters, fences, errctx, uvars, svars, dvars, crtc
  <2> QED BY <2>1, <2>2, CoreUnchanged DEF IInv
<1> QED BY <1>1, <1>2, <1>3, <1>4, <1>5, <1>6, <1>7, <1>8 DEF Next

\* The inductive invariant of the release fences.
LEMMA Invariance == Spec => []IInv
<1>1. Init => IInv BY InitInv
<1>2. IInv /\ [Next]_vars => IInv' BY NextInv
<1> QED BY <1>1, <1>2, PTL DEF Spec

\* Every variable of the timeline keeps its type.
THEOREM TypeCorrect == Spec => []TypeOK
<1>1. IInv => TypeOK BY DEF IInv
<1> QED BY <1>1, Invariance, PTL

\* done_count never passes commit_count, nor falls behind by more than the
\* commits that may be open.
THEOREM TimelineStaysOrdered == Spec => []TimelineOrdered
<1>1. IInv => TimelineOrdered BY DEF IInv
<1> QED BY <1>1, Invariance, PTL

\* No release fence is signalled before its commit is done, unless to report
\* a failed input fence.
THEOREM NeverEarly == Spec => []NoEarlySignal
<1>1. IInv => NoEarlySignal BY DEF IInv
<1> QED BY <1>1, Invariance, PTL

\* No fence whose commit is done is left on the list with no walk to come.
THEOREM NeverLost == Spec => []NoLostFence
<1>1. IInv => NoLostFence BY DEF IInv
<1> QED BY <1>1, Invariance, PTL

-----------------------------------------------------------------------------
(***************************************************************************)
(* The references on the fence context.  They count sets, so every step    *)
(* says which of the two sets gains or loses which element.                *)
(***************************************************************************)
Walkers == {s \in Signaller : pc[s] = "walk"}

LEMMA FiniteCounts ==
  /\ IsFiniteSet(Alive) /\ Cardinality(Alive) \in Nat
  /\ IsFiniteSet(Walkers) /\ Cardinality(Walkers) \in Nat
<1>1. IsFiniteSet(Alive)
  BY FenceAssumption, FS_Subset DEF Alive
<1>2. IsFiniteSet(Signaller)
  <2>1. Signaller = ({} \cup {"event"}) \cup {"disp"}
    BY DEF Signaller
  <2> QED BY <2>1, FS_EmptySet, FS_AddElement
<1>3. IsFiniteSet(Walkers)
  BY <1>2, FS_Subset DEF Walkers
<1> QED BY <1>1, <1>3, FS_CardinalityType

\* The balance, with the two sets named.
LEMMA Balance ==
  ContextRefs <=> kref = One(owned) + Cardinality(Alive) + Cardinality(Walkers)
BY DEF ContextRefs, Walkers

LEMMA SameCounts ==
  ASSUME ContextRefs, Alive' = Alive, Walkers' = Walkers, kref' = kref, owned' = owned
  PROVE  ContextRefs'
<1>1. kref' = One(owned') + Cardinality(Alive') + Cardinality(Walkers')
  BY Balance
<1> QED BY <1>1 DEF ContextRefs, Walkers

\* dma_fence_put drops a reference of the context exactly when it frees a fence.
LEMMA PutFenceCounts ==
  ASSUME IInv, ContextRefs, NEW f \in Fence, NEW st, NEW er, PutFence(f, st, er),
         st # Free, refs[f] > 0, Walkers' = Walkers, owned' = owned
  PROVE  ContextRefs'
<1>1. state[f] # Free /\ state \in [Fence -> {Free, "pending", "signaled"}] /\ kref \in Int
  BY DEF IInv, FenceRefs, TypeOK
<1>2. CASE refs[f] = 1
  <2>1. kref' = kref - 1 /\ state' = [state EXCEPT ![f] = Free]
    BY <1>2 DEF PutFence
  <2>2. Alive' = Alive \ {f} /\ f \in Alive
    BY <1>1, <2>1 DEF Alive
  <2>3. Cardinality(Alive') = Cardinality(Alive) - 1
    BY <2>2, FiniteCounts, FS_RemoveElement
  <2>4. kref' = One(owned') + Cardinality(Alive') + Cardinality(Walkers')
    BY <2>1, <2>3, <1>1, Balance, FiniteCounts DEF One
  <2> QED BY <2>4 DEF ContextRefs, Walkers
<1>3. CASE refs[f] # 1
  <2>1. kref' = kref /\ state' = [state EXCEPT ![f] = st]
    BY <1>3 DEF PutFence
  <2>2. Alive' = Alive
    BY <1>1, <2>1 DEF Alive
  <2> QED BY <2>1, <2>2, SameCounts
<1> QED BY <1>2, <1>3

\* A signal starts no walk yet.
LEMMA CountCounts ==
  ASSUME IInv, ContextRefs, NEW s \in Signaller, NEW ev, Count(s, ev), pc[s] = "idle",
         UNCHANGED <<state, kref, owned>>
  PROVE  ContextRefs'
<1>1. pc' = pc \/ pc' = [pc EXCEPT ![s] = "trigger"]
  BY DEF Count
<1>2. Walkers' = Walkers /\ Alive' = Alive
  BY <1>1 DEF IInv, TypeOK, Walkers, Alive
<1> QED BY <1>2, SameCounts

\* Every step keeps the balance.
LEMMA ContextStep == IInv /\ ContextRefs /\ [Next]_vars => ContextRefs'
<1> SUFFICES ASSUME IInv, ContextRefs, [Next]_vars PROVE ContextRefs'
  OBVIOUS
<1> USE DEF counters, fences, errctx, uvars, svars, dvars, crtc
<1>1. ASSUME UNCHANGED <<state, kref, owned, pc>> PROVE ContextRefs'
  BY <1>1, SameCounts DEF Alive, Walkers
<1>2. ASSUME UNCHANGED <<pc, owned>> PROVE Walkers' = Walkers /\ owned' = owned
  BY <1>2 DEF Walkers
<1>3. ASSUME NEW f \in Fence, CreateInit(f) PROVE ContextRefs'
  <2>1. kref' = kref + 1 /\ Alive' = Alive \cup {f} /\ f \notin Alive
    BY <1>3 DEF CreateInit, IInv, TypeOK, Alive, Free
  <2>2. Cardinality(Alive') = Cardinality(Alive) + 1
    BY <2>1, FiniteCounts, FS_AddElement
  <2>3. Walkers' = Walkers /\ owned' = owned
    BY <1>2, <1>3 DEF CreateInit
  <2>4. kref' = One(owned') + Cardinality(Alive') + Cardinality(Walkers')
    BY <2>1, <2>2, <2>3, Balance, FiniteCounts DEF One
  <2> QED BY <2>4 DEF ContextRefs, Walkers
<1>4. CASE CreateFail
  <2>1. userFence \in Fence /\ PutFence(userFence, "pending", "none") /\ UNCHANGED <<pc, owned>>
    BY <1>4 DEF CreateFail, IInv, UserInv
  <2>2. refs[userFence] > 0
    BY <2>1 DEF IInv, FenceRefs, One, TypeOK
  <2> QED BY <2>1, <2>2, <1>2, PutFenceCounts DEF Free
<1>5. ASSUME NEW f \in Fence, Close(f) PROVE ContextRefs'
  <2>1. PutFence(f, state[f], error[f]) /\ UNCHANGED <<pc, owned>>
    BY <1>5 DEF Close
  <2>2. refs[f] > 0 /\ state[f] # Free
    BY <1>5 DEF Close, IInv, FenceRefs, One, TypeOK
  <2> QED BY <2>1, <2>2, <1>2, PutFenceCounts
<1>6. ASSUME NEW f \in Fence, Poll(f) PROVE ContextRefs'
  <2>1. Alive' = Alive
    BY <1>6 DEF Poll, IInv, TypeOK, Alive, Free
  <2> QED BY <2>1, <1>2, <1>6, SameCounts DEF Poll
<1>7. ASSUME NEW s \in Signaller, WalkStart(s) PROVE ContextRefs'
  <2>1. kref' = kref + 1 /\ Walkers' = Walkers \cup {s} /\ s \notin Walkers
    BY <1>7 DEF WalkStart, IInv, TypeOK, Walkers
  <2>2. Cardinality(Walkers') = Cardinality(Walkers) + 1
    BY <2>1, FiniteCounts, FS_AddElement
  <2>3. Alive' = Alive /\ owned' = owned
    BY <1>7 DEF WalkStart, Alive
  <2>4. kref' = One(owned') + Cardinality(Alive') + Cardinality(Walkers')
    BY <2>1, <2>2, <2>3, Balance, FiniteCounts DEF One
  <2> QED BY <2>4 DEF ContextRefs, Walkers
<1>8. ASSUME NEW s \in Signaller, WalkEnd(s) PROVE ContextRefs'
  <2>1. kref' = kref - 1 /\ Walkers' = Walkers \ {s} /\ s \in Walkers
    BY <1>8 DEF WalkEnd, IInv, TypeOK, Walkers
  <2>2. Cardinality(Walkers') = Cardinality(Walkers) - 1
    BY <2>1, FiniteCounts, FS_RemoveElement
  <2>3. Alive' = Alive /\ owned' = owned
    BY <1>8 DEF WalkEnd, Alive
  <2>4. kref \in Int
    BY DEF IInv, TypeOK
  <2>5. kref' = One(owned') + Cardinality(Alive') + Cardinality(Walkers')
    BY <2>1, <2>2, <2>3, <2>4, Balance, FiniteCounts DEF One
  <2> QED BY <2>5 DEF ContextRefs, Walkers
<1>9. ASSUME NEW s \in Signaller, NEW f \in Fence, WalkFence(s, f) PROVE ContextRefs'
  <2>1. UNCHANGED <<pc, owned>>
    BY <1>9 DEF WalkFence
  <2>2. CASE ForceError(f) \/ (~Keep(f) /\ Signaled(f, done))
    <3>1. PutFence(f, "signaled", NewError(s, f))
      BY <1>9, <2>2 DEF WalkFence
    <3>2. refs[f] > 0
      BY <1>9 DEF WalkFence, IInv, LockInv, FenceRefs, One, TypeOK
    <3> QED BY <2>1, <3>1, <3>2, <1>2, PutFenceCounts DEF Free
  <2>3. CASE ~(ForceError(f) \/ (~Keep(f) /\ Signaled(f, done)))
    <3>1. UNCHANGED <<state, kref>>
      BY <1>9, <2>3 DEF WalkFence
    <3> QED BY <2>1, <3>1, <1>1
  <2> QED BY <2>2, <2>3
<1>10. CASE \E ev \in {"SIGNAL", "SIGNAL_ERROR"} : FrameEvent(ev)
  BY <1>10, CountCounts DEF FrameEvent, Signaller
<1>11. CASE ErrorSignal
  <2>1. pc["disp"] = "idle"
    BY <1>11 DEF ErrorSignal, IInv, DispInv
  <2> QED BY <1>11, <2>1, CountCounts DEF ErrorSignal, Signaller
<1>12. CASE Reset
  <2>1. pc["disp"] = "idle"
    BY <1>12 DEF Reset, IInv, DispInv
  <2> QED BY <1>12, <2>1, CountCounts DEF Reset, Signaller
<1>13. CASE Deinit
  <2>1. Alive' = Alive /\ Walkers' = Walkers /\ kref' = kref - 1 /\ owned /\ owned' = FALSE
    BY <1>13 DEF Deinit, Alive, Walkers
  <2>2. kref \in Int
    BY DEF IInv, TypeOK
  <2>3. kref' = One(owned') + Cardinality(Alive') + Cardinality(Walkers')
    BY <2>1, <2>2, Balance, FiniteCounts DEF One
  <2> QED BY <2>3 DEF ContextRefs, Walkers
<1>14. CASE CreateRead \/ CreateNoMemory \/ CreateInstall \/ CreateList
  BY <1>1, <1>14 DEF CreateRead, CreateNoMemory, CreateInstall, CreateList
<1>15. CASE \E k \in {"flip", "disable"} : Prepare(k)
  BY <1>1, <1>15 DEF Prepare
<1>16. CASE InputFenceError \/ ErrorEnd \/ InputFencesGood \/ Kickoff \/ FlipDone \/ DisableDone
  BY <1>1, <1>16 DEF InputFenceError, ErrorEnd, InputFencesGood, Kickoff, FlipDone, DisableDone
<1>17. CASE UNCHANGED vars
  BY <1>1, <1>17 DEF vars
<1> HIDE DEF counters, fences, errctx, uvars, svars, dvars, crtc
<1> QED
  BY <1>3, <1>4, <1>5, <1>6, <1>7, <1>8, <1>9, <1>10, <1>11, <1>12, <1>13, <1>14, <1>15, <1>16,
     <1>17 DEF Next, Create, Client, Walk, Disp

\* The context lives exactly as long as somebody needs it: the CRTC that owns it, a
\* fence that uses its lock, or a walk over its list (sde_fence_release,
\* sde_fence.c:897, and the kref_get of _sde_fence_trigger).
LEMMA ContextAccounted == Spec => []ContextRefs
<1>1. Init => ContextRefs
  <2> SUFFICES ASSUME Init PROVE ContextRefs
    OBVIOUS
  <2>1. Alive = {} /\ Walkers = {}
    BY DEF Init, Alive, Walkers
  <2>2. Cardinality(Alive) = 0 /\ Cardinality(Walkers) = 0
    BY <2>1, FS_EmptySet
  <2> QED BY <2>2, Balance DEF Init, One
<1>2. IInv /\ ContextRefs /\ [Next]_vars => ContextRefs'
  BY ContextStep
<1> QED BY <1>1, <1>2, Invariance, PTL DEF Spec

\* Every reference on a fence and on its context has an owner: no fence is freed while it is
\* listed or open, and the context not before the last fence that uses its lock.
THEOREM ReferencesSafe == Spec => []References
<1>1. IInv /\ ContextRefs => References
  BY DEF IInv, References
<1> QED BY <1>1, Invariance, ContextAccounted, PTL

-----------------------------------------------------------------------------
(***************************************************************************)
(* A disable releases every fence.                                         *)
(***************************************************************************)
\* While a commit that disables the CRTC runs, nothing is held back any more and what an
\* earlier walk held for the last good frame is swept by a walk to come; once the timeline
\* is reset the event thread stays out.
DisableInv ==
  /\ phase \notin {"error", "errorSignal"} => errState = "NO_ERROR"
  /\ phase \in {"error", "errorSignal", "waited", "kicked"} => work = "flip"
  /\ phase = "reset" => work = "disable" /\ inflight = 0 /\ pc["event"] = "idle" /\ done = commit
  /\ work = "disable" /\ done = commit => \A f \in held : seqno[f] <= done => Covered(f)

\* A fence whose commit is done reads as signalled.
LEMMA DueIsSignaled ==
  ASSUME IInv, MaxCommit <= HalfRange, NEW f \in Fence, seqno[f] <= done
  PROVE  Signaled(f, done)
<1>1. seqno[f] \in Nat /\ done \in Nat /\ done <= HalfRange
  BY BoundAssumption DEF IInv, TypeOK, Bounded, TimelineOrdered
<1>2. Int32(seqno[f] - done) = seqno[f] - done
  BY <1>1, BoundAssumption, Int32Small
<1> QED BY <1>1, <1>2 DEF Signaled

\* A reset that is refused finds the timeline where it would put it.
LEMMA NotBehind ==
  ASSUME IInv
  PROVE  ~Behind => done = commit
<1>1. done \in Nat /\ commit \in Nat /\ done <= commit /\ commit <= done + MaxAhead
  BY DEF IInv, TypeOK, TimelineOrdered
<1>2. Int32(done - commit) = done - commit
  BY <1>1, BoundAssumption, OffsetAssumption, Int32Small
<1> QED BY <1>1, <1>2 DEF Behind

LEMMA DisableStep ==
  ASSUME IInv, MaxCommit <= HalfRange, DisableInv, Next
  PROVE  DisableInv'
<1> USE DEF counters, fences, errctx, uvars, svars, dvars, crtc
<1>1. CASE CreateRead
  BY <1>1
     DEF IInv, TypeOK, LockInv, UserInv, DispInv, TimelineOrdered, DisableInv, Covered, CreateRead
<1>2. CASE CreateNoMemory
  BY <1>2
     DEF IInv, TypeOK, LockInv, UserInv, DispInv, TimelineOrdered, DisableInv, Covered, CreateNoMemory
<1>3. CASE CreateFail
  BY <1>3
     DEF IInv, TypeOK, LockInv, UserInv, DispInv, TimelineOrdered, DisableInv, Covered, CreateFail, PutFence
<1>4. CASE CreateInstall
  BY <1>4
     DEF IInv, TypeOK, LockInv, UserInv, DispInv, TimelineOrdered, DisableInv, Covered, CreateInstall
<1>5. CASE CreateList
  BY <1>5
     DEF IInv, TypeOK, LockInv, UserInv, DispInv, TimelineOrdered, DisableInv, Covered, CreateList
<1>6. ASSUME NEW f \in Fence, CreateInit(f) PROVE DisableInv'
  BY <1>6
     DEF IInv, TypeOK, LockInv, UserInv, DispInv, TimelineOrdered, DisableInv, Covered, CreateInit
<1>7. ASSUME NEW kind \in {"flip", "disable"}, Prepare(kind) PROVE DisableInv'
  BY <1>7
     DEF IInv, TypeOK, LockInv, UserInv, DispInv, TimelineOrdered, DisableInv, Covered, Prepare
<1>8. ASSUME NEW f \in Fence, Close(f) PROVE DisableInv'
  <2>1. \A g \in held : seqno'[g] = seqno[g]
    <3>1. f \in held => refs[f] = 2
      BY <1>8 DEF Close, IInv, LockInv, FenceRefs, One
    <3> QED
      BY <1>8, <3>1 DEF Close, PutFence, IInv, TypeOK
  <2>2. UNCHANGED <<held, done, commit, pc, todo, work, phase, errState, inflight>>
    BY <1>8 DEF Close
  <2> QED
    BY <2>1, <2>2 DEF DisableInv, Covered
<1>9. ASSUME NEW f \in Fence, Poll(f) PROVE DisableInv'
  BY <1>9
     DEF IInv, TypeOK, LockInv, UserInv, DispInv, TimelineOrdered, DisableInv, Covered, Poll
<1>10. ASSUME NEW ev \in {"SIGNAL", "SIGNAL_ERROR"}, FrameEvent(ev) PROVE DisableInv'
  <2>1. inflight > 0 /\ UNCHANGED <<commit, seqno, held, errState, todo, work, phase>>
    BY <1>10 DEF FrameEvent
  <2>2. phase # "reset"
    BY <2>1 DEF DisableInv
  <2>3. CASE Behind
    <3>1. pc' = [pc EXCEPT !["event"] = "trigger"]
      BY <1>10, <2>3 DEF FrameEvent, Count
    <3>2. pc'["event"] = "trigger" /\ "event" \in Signaller
      BY <3>1 DEF IInv, TypeOK, Signaller
    <3> QED
      BY <2>1, <2>2, <3>2 DEF DisableInv, Covered
  <2>4. CASE ~Behind
    <3>1. UNCHANGED <<done, pc>>
      BY <1>10, <2>4 DEF FrameEvent, Count
    <3> QED
      BY <2>1, <2>2, <3>1 DEF DisableInv, Covered
  <2> QED
    BY <2>3, <2>4
<1>11. ASSUME NEW s \in Signaller, WalkStart(s) PROVE DisableInv'
  BY <1>11
     DEF IInv, TypeOK, LockInv, UserInv, DispInv, TimelineOrdered, DisableInv, Covered, WalkStart
<1>12. ASSUME NEW s \in Signaller, WalkEnd(s) PROVE DisableInv'
  BY <1>12
     DEF IInv, TypeOK, LockInv, UserInv, DispInv, TimelineOrdered, DisableInv, Covered, WalkEnd
<1>13. ASSUME NEW s \in Signaller, NEW f \in Fence, WalkFence(s, f) PROVE DisableInv'
  <2>1. /\ pc[s] = "walk" /\ f \in todo[s] /\ f \in listed
        /\ todo' = [todo EXCEPT ![s] = todo[s] \ {f}]
        /\ UNCHANGED <<commit, done, pc, errState, work, phase, inflight>>
    BY <1>13 DEF WalkFence, IInv, LockInv
  <2>2. \A g \in held \ {f} : seqno'[g] = seqno[g]
    BY <1>13 DEF WalkFence, PutFence, IInv, TypeOK
  <2>3. held' \subseteq held \cup {f}
    BY <1>13 DEF WalkFence
  <2>4. ASSUME work = "disable", f \in held', seqno'[f] <= done PROVE FALSE
    <3>1. errState = "NO_ERROR"
      BY <2>4 DEF DisableInv
    <3>2. ~ForceError(f) /\ ~Keep(f)
      BY <3>1 DEF ForceError, Keep
    <3>3. ~Signaled(f, done) /\ seqno' = seqno
      BY <1>13, <2>4, <3>2 DEF WalkFence
    <3> QED
      BY <2>4, <3>3, DueIsSignaled
  <2>5. ASSUME NEW g \in held \ {f}, Covered(g) PROVE Covered(g)'
    BY <2>1, <2>5 DEF Covered, IInv, TypeOK
  <2> QED
    BY <2>1, <2>2, <2>3, <2>4, <2>5 DEF DisableInv
<1>14. CASE InputFenceError
  BY <1>14
     DEF IInv, TypeOK, LockInv, UserInv, DispInv, TimelineOrdered, DisableInv, Covered, InputFenceError
<1>15. CASE ErrorSignal
  BY <1>15
     DEF IInv, TypeOK, LockInv, UserInv, DispInv, TimelineOrdered, DisableInv, Covered, ErrorSignal, Count, Advance
<1>16. CASE ErrorEnd
  BY <1>16
     DEF IInv, TypeOK, LockInv, UserInv, DispInv, TimelineOrdered, DisableInv, Covered, ErrorEnd
<1>17. CASE InputFencesGood
  BY <1>17
     DEF IInv, TypeOK, LockInv, UserInv, DispInv, TimelineOrdered, DisableInv, Covered, InputFencesGood
<1>18. CASE Kickoff
  BY <1>18
     DEF IInv, TypeOK, LockInv, UserInv, DispInv, TimelineOrdered, DisableInv, Covered, Kickoff
<1>19. CASE FlipDone
  BY <1>19
     DEF IInv, TypeOK, LockInv, UserInv, DispInv, TimelineOrdered, DisableInv, Covered, FlipDone
<1>20. CASE Reset
  <2>1. /\ work = "disable" /\ phase = "idle" /\ phase' = "reset" /\ inflight' = 0
        /\ pc["event"] = "idle" /\ UNCHANGED <<commit, seqno, held, errState, todo, work>>
    BY <1>20 DEF Reset
  <2>2. CASE Behind
    <3>1. pc' = [pc EXCEPT !["disp"] = "trigger"] /\ done' = commit
      BY <1>20, <2>2 DEF Reset, Count, Advance
    <3>2. pc'["disp"] = "trigger" /\ "disp" \in Signaller /\ pc'["event"] = "idle"
      BY <2>1, <3>1 DEF IInv, TypeOK, Signaller
    <3> QED
      BY <2>1, <3>1, <3>2 DEF DisableInv, Covered
  <2>3. CASE ~Behind
    <3>1. UNCHANGED <<done, pc>> /\ done = commit
      BY <1>20, <2>3, NotBehind DEF Reset, Count
    <3> QED
      BY <2>1, <3>1 DEF DisableInv, Covered
  <2> QED
    BY <2>2, <2>3
<1>21. CASE DisableDone
  BY <1>21
     DEF IInv, TypeOK, LockInv, UserInv, DispInv, TimelineOrdered, DisableInv, Covered, DisableDone
<1>22. CASE Deinit
  BY <1>22
     DEF IInv, TypeOK, LockInv, UserInv, DispInv, TimelineOrdered, DisableInv, Covered, Deinit
<1> HIDE DEF counters, fences, errctx, uvars, svars, dvars, crtc
<1> QED
  BY <1>1, <1>2, <1>3, <1>4, <1>5, <1>6, <1>7, <1>8, <1>9, <1>10, <1>11, <1>12, <1>13, <1>14,
     <1>15, <1>16, <1>17, <1>18, <1>19, <1>20, <1>21, <1>22
     DEF Next, Create, Client, Walk, Disp

\* Once a disable commit has ended and the event thread is quiet, every fence still listed is
\* for a commit to come: the reset of the timeline (sde_fence_signal with
\* SDE_FENCE_RESET_TIMELINE), whatever was held, in error or about to be signalled before.
\* The driver is assumed to show fewer frames than half the range of its counters.
THEOREM DisableReleasesAll ==
  ASSUME MaxCommit <= HalfRange
  PROVE  Spec => ResetReleasesAll
<1>1. Init => DisableInv
  BY DEF Init, DisableInv
<1>2. IInv /\ DisableInv /\ [Next]_vars => DisableInv'
  <2>1. ASSUME IInv, DisableInv, Next PROVE DisableInv'
    BY <2>1, DisableStep
  <2>2. ASSUME DisableInv, UNCHANGED vars PROVE DisableInv'
    BY <2>2 DEF DisableInv, Covered, vars, counters, fences, errctx, svars, dvars
  <2> QED BY <2>1, <2>2
<1>3. IInv /\ DisableInv => (DisableDone /\ pc["event"] = "idle"
                               => \A f \in listed : seqno[f] > commit)
  <2> SUFFICES ASSUME IInv, DisableInv, DisableDone, pc["event"] = "idle",
                      NEW f \in listed, seqno[f] <= commit
               PROVE  FALSE
    BY DEF IInv, TypeOK
  <2>1. done = commit /\ work = "disable" /\ pc["disp"] = "idle" /\ f \in Fence
    BY DEF DisableDone, DisableInv, IInv, TypeOK
  <2>2. ~Covered(f)
    BY <2>1 DEF Covered, Signaller
  <2>3. f \notin held
    BY <2>1, <2>2 DEF DisableInv
  <2>4. Signaled(f, done)
    BY <2>1, DueIsSignaled
  <2> QED BY <2>2, <2>3, <2>4 DEF IInv, NoLostFence
<1> QED BY <1>1, <1>2, <1>3, Invariance, PTL DEF Spec, ResetReleasesAll

-----------------------------------------------------------------------------
(***************************************************************************)
(* The timeline implements SdeTimeline.                                    *)
(***************************************************************************)
Point == [f \in Fence |-> IF f \in open THEN seqno[f] ELSE 0]
Views == [f \in Fence |-> View(f)]

\* The steps of the abstract timeline.
LEMMA TimelineNextExpanded ==
  ASSUME \/ done' \in 0..(MaxCommit + MaxOffset) /\ done' > done /\ UNCHANGED <<Point, Views>>
         \/ \E f \in Fence :
              \/ /\ Views[f] = "closed"
                 /\ \E p \in 0..(MaxCommit + MaxOffset) : p > done /\ Point' = [Point EXCEPT ![f] = p]
                 /\ Views' = [Views EXCEPT ![f] = "waiting"] /\ UNCHANGED done
              \/ /\ Views[f] = "waiting" /\ Point[f] <= done
                 /\ Views' = [Views EXCEPT ![f] = "released"] /\ UNCHANGED <<done, Point>>
              \/ /\ Views[f] \in {"waiting", "released"}
                 /\ Views' = [Views EXCEPT ![f] = "broken"] /\ UNCHANGED <<done, Point>>
              \/ /\ Views[f] # "closed"
                 /\ Views' = [Views EXCEPT ![f] = "closed"]
                 /\ Point' = [Point EXCEPT ![f] = 0] /\ UNCHANGED done
         \/ UNCHANGED <<done, Point, Views>>
  PROVE  [Timeline!Next]_(Timeline!tvars)
BY DEF Timeline!Next, Timeline!tvars, Timeline!Tick, Timeline!Issue, Timeline!Release,
       Timeline!Break, Timeline!Close, Point, Views

\* A step that leaves what the clients see alone is a stutter.
LEMMA TimelineStutter ==
  ASSUME UNCHANGED <<done, seqno, state, error, open>>
  PROVE  [Timeline!Next]_(Timeline!tvars)
<1>1. UNCHANGED <<done, Point, Views>>
  BY DEF Point, Views, View
<1> QED BY <1>1, TimelineNextExpanded

\* Advancing done_count is an abstract step.
LEMMA CountRefines ==
  ASSUME IInv, IInv', NEW s \in Signaller, NEW ev \in Events, pc[s] = "idle", Count(s, ev),
         UNCHANGED <<commit, offset, fences, uvars, todo, listLock>>
  PROVE  [Timeline!Next]_(Timeline!tvars)
<1>1. UNCHANGED <<Point, Views>> /\ (done' # done => done < done')
  BY CountInv DEF Point, Views, View, fences
<1>2. done' \in 0..(MaxCommit + MaxOffset)
  BY BoundAssumption, OffsetAssumption DEF IInv, TypeOK, MaxOffset, TimelineOrdered, Bounded
<1> QED BY <1>1, <1>2, TimelineNextExpanded

\* The steps of sde_fence_create are abstract steps or stutter.
LEMMA CreateRefines == IInv /\ Create => [Timeline!Next]_(Timeline!tvars)
<1> SUFFICES ASSUME IInv, Create PROVE [Timeline!Next]_(Timeline!tvars)
  OBVIOUS
<1>1. CASE CreateRead \/ CreateNoMemory \/ CreateList
  BY <1>1, TimelineStutter DEF CreateRead, CreateNoMemory, CreateList, counters, fences
<1>2. CASE \E f \in Fence : CreateInit(f)
  <2>1. PICK f \in Fence : CreateInit(f)
    BY <1>2
  <2>2. f \notin open
    BY <2>1 DEF IInv, FenceRefs, One, CreateInit
  <2>3. UNCHANGED <<done, Point, Views>>
    BY <2>1, <2>2 DEF CreateInit, Point, Views, View, IInv, TypeOK, counters
  <2> QED BY <2>3, TimelineNextExpanded
<1>3. CASE CreateFail
  <2>1. userFence \in Fence /\ userFence \notin open
    BY <1>3 DEF IInv, UserInv, CreateFail
  <2>2. UNCHANGED <<done, Point, Views>>
    BY <1>3, <2>1 DEF CreateFail, PutFence, Point, Views, View, IInv, TypeOK, counters
  <2> QED BY <2>2, TimelineNextExpanded
<1>4. CASE CreateInstall
  <2>1. /\ userFence \in Fence /\ userFence \notin open /\ state[userFence] = "pending"
        /\ seqno[userFence] = commit + offset
    BY <1>4 DEF IInv, UserInv, CreateInstall
  <2>2. seqno[userFence] \in 0..(MaxCommit + MaxOffset) /\ seqno[userFence] > done
    BY <2>1, OffsetAssumption, BoundAssumption DEF IInv, TypeOK, MaxOffset, TimelineOrdered,
       Bounded
  <2>3. /\ Views[userFence] = "closed"
        /\ Point' = [Point EXCEPT ![userFence] = seqno[userFence]]
        /\ Views' = [Views EXCEPT ![userFence] = "waiting"] /\ UNCHANGED done
    BY <1>4, <2>1 DEF CreateInstall, Point, Views, View, counters
  <2> QED BY <2>1, <2>2, <2>3, TimelineNextExpanded
<1> QED BY <1>1, <1>2, <1>3, <1>4 DEF Create

\* What a client does with a fence is an abstract step.
LEMMA ClientRefines == IInv /\ Client => [Timeline!Next]_(Timeline!tvars)
<1> SUFFICES ASSUME IInv, NEW f \in Fence, Close(f) \/ Poll(f)
             PROVE  [Timeline!Next]_(Timeline!tvars)
  BY DEF Client
<1>1. CASE Close(f)
  <2>1. /\ Views[f] # "closed" /\ UNCHANGED done
        /\ Views' = [Views EXCEPT ![f] = "closed"] /\ Point' = [Point EXCEPT ![f] = 0]
    BY <1>1 DEF Close, PutFence, Point, Views, View, IInv, TypeOK, counters
  <2> QED BY <2>1, TimelineNextExpanded
<1>2. CASE Poll(f)
  <2>1. f \in open /\ state[f] = "pending" /\ seqno[f] <= done /\ error[f] # "input"
    BY <1>2, SignaledIsDone DEF Poll, IInv, ErrorInv, FenceRefs, One, Free
  <2>2. /\ Views[f] = "waiting" /\ Point[f] <= done
        /\ Views' = [Views EXCEPT ![f] = "released"] /\ UNCHANGED <<done, Point>>
    BY <1>2, <2>1 DEF Poll, Point, Views, View, IInv, TypeOK, counters
  <2> QED BY <2>2, TimelineNextExpanded
<1> QED BY <1>1, <1>2

\* What the walk does with a fence is an abstract step.
LEMMA WalkFenceRefines ==
  ASSUME IInv, NEW s \in Signaller, NEW f \in Fence, WalkFence(s, f)
  PROVE  [Timeline!Next]_(Timeline!tvars)
<1>1. f \in listed /\ error[f] # "input" /\ state[f] \in {"pending", "signaled"}
  BY DEF IInv, LockInv, WalkFence, ErrorInv, FenceRefs, One, TypeOK, Free
<1>2. NewError(s, f) # "input" => ~ForceError(f)
  BY DEF NewError
<1>3. CASE ForceError(f) \/ (~Keep(f) /\ Signaled(f, done))
  <2>1. PutFence(f, "signaled", NewError(s, f)) /\ UNCHANGED <<done, open>>
    BY <1>3 DEF WalkFence, counters
  <2>2. refs[f] = 1 <=> f \notin open
    BY <1>1 DEF IInv, FenceRefs, One
  <2>3. CASE f \notin open
    <3>1. UNCHANGED <<Point, Views>>
      BY <2>1, <2>3 DEF PutFence, Point, Views, View, IInv, TypeOK
    <3> QED BY <2>1, <3>1, TimelineNextExpanded
  <2>4. CASE f \in open
    <3>1. UNCHANGED Point
      BY <2>1, <2>2, <2>4 DEF PutFence, Point, IInv, TypeOK
    <3>2. Views' = [Views EXCEPT ![f] = IF NewError(s, f) = "input" THEN "broken" ELSE "released"]
      BY <2>1, <2>2, <2>4 DEF PutFence, Views, View, IInv, TypeOK
    <3>3. Views[f] = IF state[f] = "pending" THEN "waiting" ELSE "released"
      BY <1>1, <2>4 DEF Views, View
    <3>4. NewError(s, f) # "input" => Point[f] <= done
      BY <1>2, <1>3, <2>4, SignaledIsDone DEF Point
    <3>5. CASE NewError(s, f) = "input"
      <4>1. Views' = [Views EXCEPT ![f] = "broken"] BY <3>2, <3>5
      <4> QED BY <2>1, <3>1, <3>3, <4>1, TimelineNextExpanded
    <3>6. CASE NewError(s, f) # "input" /\ state[f] = "pending"
      <4>1. Views' = [Views EXCEPT ![f] = "released"] BY <3>2, <3>6
      <4> QED BY <2>1, <3>1, <3>3, <3>4, <3>6, <4>1, TimelineNextExpanded
    <3>7. CASE NewError(s, f) # "input" /\ state[f] # "pending"
      <4>1. Views' = Views BY <3>2, <3>3, <3>7 DEF Views
      <4> QED BY <2>1, <3>1, <4>1, TimelineNextExpanded
    <3> QED BY <3>5, <3>6, <3>7
  <2> QED BY <2>3, <2>4
<1>4. CASE ~(ForceError(f) \/ (~Keep(f) /\ Signaled(f, done)))
  <2>1. /\ error' = [error EXCEPT ![f] = NewError(s, f)]
        /\ UNCHANGED <<state, seqno, open, done>>
    BY <1>4 DEF WalkFence, counters
  <2>2. NewError(s, f) # "input"
    BY <1>1, <1>4 DEF NewError
  <2>3. UNCHANGED <<Point, Views>>
    BY <1>1, <2>1, <2>2 DEF Point, Views, View, IInv, TypeOK
  <2> QED BY <2>1, <2>3, TimelineNextExpanded
<1> QED BY <1>3, <1>4

\* Every step is an abstract step or stutters.
LEMMA NextRefines == IInv /\ IInv' /\ [Next]_vars => [Timeline!Next]_(Timeline!tvars)
<1> SUFFICES ASSUME IInv, IInv', [Next]_vars PROVE [Timeline!Next]_(Timeline!tvars)
  OBVIOUS
<1>1. CASE Create BY <1>1, CreateRefines
<1>2. CASE \E k \in {"flip", "disable"} : Prepare(k)
  BY <1>2, TimelineStutter DEF Prepare, fences
<1>3. CASE Client BY <1>3, ClientRefines
<1>4. CASE \E ev \in {"SIGNAL", "SIGNAL_ERROR"} : FrameEvent(ev)
  <2>1. PICK ev \in {"SIGNAL", "SIGNAL_ERROR"} : FrameEvent(ev)
    BY <1>4
  <2> QED BY <2>1, CountRefines DEF FrameEvent, Signaller, Events, crtc
<1>5. CASE \E s \in Signaller : Walk(s)
  BY <1>5, WalkFenceRefines, TimelineStutter DEF Walk, WalkStart, WalkEnd, counters
<1>6. CASE ErrorSignal \/ Reset
  BY <1>6, CountRefines DEF ErrorSignal, Reset, IInv, DispInv, Signaller, Events, crtc
<1>7. CASE CoreStep
  BY <1>7, TimelineStutter DEF CoreStep, InputFenceError, ErrorEnd, InputFencesGood, Kickoff,
     FlipDone, DisableDone, Deinit, counters, fences
<1>8. CASE UNCHANGED vars
  BY <1>8, TimelineStutter DEF vars, counters, fences
<1> QED BY <1>1, <1>2, <1>3, <1>4, <1>5, <1>6, <1>7, <1>8 DEF Next, Disp, CoreStep

\* Every behaviour of the code's timeline is one of the abstract timeline.
THEOREM ImplementsTimeline == Spec => TimelineSpec
<1>1. Init => Timeline!Init
  BY FenceAssumption DEF Init, Timeline!Init, View
<1>2. IInv /\ IInv' /\ [Next]_vars => [Timeline!Next]_(Timeline!tvars)
  BY NextRefines
<1> QED BY <1>1, <1>2, Invariance, PTL DEF Spec, TimelineSpec, Timeline!Spec
=============================================================================
