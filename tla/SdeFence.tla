------------------------------ MODULE SdeFence ------------------------------
(***************************************************************************)
(* One software fence timeline of the driver (msm/sde/sde_fence.c): the    *)
(* release-fence context a CRTC owns, the fences created on it, and the    *)
(* three threads that touch it.                                            *)
(*                                                                         *)
(*  - the user thread, inside the atomic ioctl: it creates release fences  *)
(*    (sde_fence_create) and opens a commit (sde_fence_prepare).  The CRTC *)
(*    modeset lock makes it one thread at a time, and the pending_crtcs    *)
(*    wait of msm_atomic_commit keeps it from opening a commit while the   *)
(*    previous one is still being worked on;                               *)
(*  - the event thread: sde_crtc_frame_event_work signals one commit, with *)
(*    or without an error;                                                 *)
(*  - the display thread: it runs the commit, where it may have to handle  *)
(*    a failed input fence (sde_encoder_handle_dma_fence_out_of_order) or  *)
(*    disable the CRTC and reset the timeline (sde_crtc_disable).          *)
(*                                                                         *)
(* The counters are u32 in the code.  They are kept unwrapped here and     *)
(* every comparison goes through Int32, the cast of a 32-bit difference:   *)
(* the difference of two wrapped counters is the wrapped difference        *)
(* (SdeFenceProofs, WrappedDifference), so nothing else can tell.          *)
(***************************************************************************)
EXTENDS Integers, FiniteSets

CONSTANTS
  Fence,       \* fence objects (kzalloc'ed, and reused once freed)
  ExtraOffset, \* the CRTC property output_fence_offset
  HalfRange,   \* half the range of a counter: 2^31
  MaxAhead,    \* bound: commits opened and not yet done
  MaxCommit    \* bound: commits opened in all

ASSUME FenceAssumption == "none" \notin Fence /\ IsFiniteSet(Fence)
ASSUME OffsetAssumption == ExtraOffset \in Nat
ASSUME BoundAssumption ==
  /\ HalfRange \in Nat \ {0} /\ MaxAhead \in Nat \ {0} /\ MaxCommit \in Nat
  /\ MaxAhead + ExtraOffset + 2 < HalfRange

MaxOffset == ExtraOffset + 2
Signaller == {"event", "disp"}
Free == "free"

VARIABLES
  commit, done,        \* commit_count and done_count
  kref,                \* references to the fence context
  owned,               \* the CRTC still holds its own reference
  panel, offset,       \* its panel mode and the trigger offset of its fences
  seqno, refs, state, error,   \* per fence: dma_fence seqno, kref, flag, status
  open,                \* fences whose sync_file descriptor is still open
  listed,              \* fence_list_head
  held,                \* auxiliary: fences a walk kept as last good frame
  listLock,            \* the signaller that holds list_lock
  lastGood, curr,      \* last_good_frame_fence_seqno, curr_frame_fence_seqno
  errState,            \* fence_error_state, with a negative status unless none
  handling,            \* fence_error_handle_in_progress
  user, userFence, userVal,    \* user thread: where it is in sde_fence_create
  work,                \* commit dispatched to the display thread: flip, disable
  phase,               \* display thread inside the commit
  inputBad,            \* input_fence_status is negative
  inflight,            \* frames kicked off whose frame event is still to come
  pc, event, todo      \* signaller: where it is, its event, the rest of a walk

counters == <<commit, done>>
fences   == <<seqno, refs, state, error, open, listed, held, kref>>
errctx   == <<lastGood, curr, errState, handling>>
uvars    == <<user, userFence, userVal>>
svars    == <<pc, event, todo, listLock>>
dvars    == <<work, phase, inputBad, inflight>>
crtc     == <<owned, panel, offset>>
vars     == <<counters, fences, errctx, uvars, svars, dvars, crtc>>

(***************************************************************************)
(* (int)x for a 32-bit difference x.                                       *)
(***************************************************************************)
Int32(x) == ((x + HalfRange) % (2 * HalfRange)) - HalfRange

MutSignaled(f, d) == Int32(seqno[f] - d) <= 1

\* sde_fence_signaled, for a fence and a value of done_count
Signaled(f, d) == Int32(seqno[f] - d) <= 0

Alive == {f \in Fence : state[f] # Free}

Init ==
  /\ commit = 0 /\ done = 0 /\ kref = 1 /\ owned = TRUE
  /\ panel \in {"video", "cmd"}
  /\ offset = ExtraOffset + (IF panel = "video" THEN 2 ELSE 1)
  /\ seqno = [f \in Fence |-> 0] /\ refs = [f \in Fence |-> 0]
  /\ state = [f \in Fence |-> Free] /\ error = [f \in Fence |-> "none"]
  /\ open = {} /\ listed = {} /\ held = {}
  /\ lastGood = 0 /\ curr = 0 /\ errState = "NO_ERROR" /\ handling = FALSE
  /\ user = "idle" /\ userFence = "none" /\ userVal = 0
  /\ work = "none" /\ phase = "idle" /\ inputBad = FALSE
  /\ inflight = 0
  /\ pc = [s \in Signaller |-> "idle"]
  /\ event = [s \in Signaller |-> "SIGNAL"]
  /\ todo = [s \in Signaller |-> {}] /\ listLock = "none"

-----------------------------------------------------------------------------
MutPutFence(f, st, er) ==
  /\ refs'  = [refs  EXCEPT ![f] = @ - 1]
  /\ kref'  = kref
  /\ state' = [state EXCEPT ![f] = IF refs[f] = 1 THEN Free ELSE st]
  /\ error' = [error EXCEPT ![f] = IF refs[f] = 1 THEN "none" ELSE er]
  /\ seqno' = [seqno EXCEPT ![f] = IF refs[f] = 1 THEN 0 ELSE @]

(***************************************************************************)
(* dma_fence_put of one reference on f, which is left in state st with     *)
(* status er.  With the last reference sde_fence_release drops one on the  *)
(* context and frees the fence.                                            *)
(***************************************************************************)
PutFence(f, st, er) ==
  LET last == refs[f] = 1 IN
  /\ refs'  = [refs  EXCEPT ![f] = @ - 1]
  /\ kref'  = IF last THEN kref - 1 ELSE kref
  /\ state' = [state EXCEPT ![f] = IF last THEN Free ELSE st]
  /\ error' = [error EXCEPT ![f] = IF last THEN "none" ELSE er]
  /\ seqno' = [seqno EXCEPT ![f] = IF last THEN 0 ELSE @]

(***************************************************************************)
(* User thread.  sde_fence_create reads the trigger value under ctx->lock  *)
(* and drops it; _sde_fence_create_fd then makes the fence, installs its   *)
(* descriptor and only then adds it to the list.                           *)
(***************************************************************************)
MutCreateRead ==
  /\ owned /\ user = "idle"
  /\ userVal' = commit /\ user' = "create"
  /\ UNCHANGED <<counters, fences, errctx, userFence, svars, dvars, crtc>>

CreateRead ==
  /\ owned /\ user = "idle"
  /\ userVal' = commit + offset /\ user' = "create"
  /\ UNCHANGED <<counters, fences, errctx, userFence, svars, dvars, crtc>>

CreateInit(f) ==
  /\ user = "create" /\ state[f] = Free
  /\ seqno' = [seqno EXCEPT ![f] = userVal]
  /\ refs' = [refs EXCEPT ![f] = 1]
  /\ state' = [state EXCEPT ![f] = "pending"]
  /\ kref' = kref + 1
  /\ curr' = userVal
  /\ userVal' = 0 /\ userFence' = f /\ user' = "made"
  /\ UNCHANGED <<counters, error, open, listed, held, lastGood, errState, handling,
                 svars, dvars, crtc>>

\* kzalloc fails
CreateNoMemory ==
  /\ user = "create"
  /\ userVal' = 0 /\ user' = "idle"
  /\ UNCHANGED <<counters, fences, errctx, userFence, svars, dvars, crtc>>

\* no descriptor or no sync_file: the fence goes, curr_frame_fence_seqno stays
CreateFail ==
  /\ user = "made"
  /\ PutFence(userFence, "pending", "none")
  /\ userFence' = "none" /\ user' = "idle"
  /\ UNCHANGED <<counters, open, listed, held, errctx, userVal, svars, dvars, crtc>>

CreateInstall ==
  /\ user = "made"
  /\ refs' = [refs EXCEPT ![userFence] = @ + 1]
  /\ open' = open \cup {userFence}
  /\ user' = "installed"
  /\ UNCHANGED <<counters, seqno, state, error, listed, held, kref, errctx,
                 userFence, userVal, svars, dvars, crtc>>

CreateList ==
  /\ user = "installed" /\ listLock = "none"
  /\ listed' = listed \cup {userFence}
  /\ userFence' = "none" /\ user' = "idle"
  /\ UNCHANGED <<counters, seqno, refs, state, error, open, held, kref, errctx,
                 userVal, svars, dvars, crtc>>

\* msm_atomic_commit: pending_crtcs is clear, prepare_fence, then dispatch
Prepare(kind) ==
  /\ owned /\ user = "idle" /\ work = "none"
  /\ commit < MaxCommit /\ commit - done < MaxAhead
  /\ commit' = commit + 1
  /\ work' = kind
  /\ UNCHANGED <<done, fences, errctx, uvars, svars, phase, inputBad, inflight,
                 crtc>>

(***************************************************************************)
(* Clients of the descriptor: closing it drops the sync_file's reference;  *)
(* polling it runs dma_fence_is_signaled, which signals the fence itself   *)
(* when sde_fence_signaled says so.                                        *)
(***************************************************************************)
Close(f) ==
  /\ f \in open
  /\ open' = open \ {f}
  /\ PutFence(f, state[f], error[f])
  /\ UNCHANGED <<counters, listed, held, errctx, uvars, svars, dvars, crtc>>

MutPoll(f) ==
  /\ f \in open /\ state[f] = "pending"
  /\ state' = [state EXCEPT ![f] = "signaled"]
  /\ UNCHANGED <<counters, seqno, refs, error, open, listed, held, kref,
                 errctx, uvars, svars, dvars, crtc>>

Poll(f) ==
  /\ f \in open /\ state[f] = "pending" /\ Signaled(f, done)
  /\ state' = [state EXCEPT ![f] = "signaled"]
  /\ UNCHANGED <<counters, seqno, refs, error, open, listed, held, kref,
                 errctx, uvars, svars, dvars, crtc>>

-----------------------------------------------------------------------------
(***************************************************************************)
(* sde_fence_signal, first part: the counter, under ctx->lock.  A refused  *)
(* call returns without a walk.                                            *)
(***************************************************************************)
Behind == Int32(done - commit) < 0

MutAdvance(ev) == done + 1
Advance(ev) == IF ev = "RESET_TIMELINE" THEN commit ELSE done + 1

Count(s, ev) ==
  IF Behind
  THEN /\ done' = Advance(ev)
       /\ pc' = [pc EXCEPT ![s] = "trigger"]
       /\ event' = [event EXCEPT ![s] = ev]
  ELSE UNCHANGED <<done, pc, event>>

\* _sde_fence_trigger, kref_get and list_lock
WalkStart(s) ==
  /\ pc[s] = "trigger" /\ listLock = "none"
  /\ listLock' = s
  /\ kref' = kref + 1
  /\ todo' = [todo EXCEPT ![s] = listed]
  /\ pc' = [pc EXCEPT ![s] = "walk"]
  /\ UNCHANGED <<counters, seqno, refs, state, error, open, listed, held, errctx,
                 uvars, event, dvars, crtc>>

Keep(f)      == errState = "HANDLE_OUT_OF_ORDER" /\ lastGood = seqno[f]
ForceError(f) ==
  ~Keep(f) /\ errState \in {"HANDLE_OUT_OF_ORDER", "SET_ERROR_ONLY_VID",
                            "SET_ERROR_ONLY_CMD_RELEASE"}

NewError(s, f) == IF ForceError(f) THEN "input"
                  ELSE IF event[s] = "SIGNAL_ERROR" THEN "EBUSY" ELSE error[f]

\* one fence of the walk, under ctx->lock, and its removal from the list
WalkFence(s, f) ==
  /\ pc[s] = "walk" /\ f \in todo[s]
  /\ todo' = [todo EXCEPT ![s] = @ \ {f}]
  /\ IF ForceError(f) \/ (~Keep(f) /\ Signaled(f, done))
     THEN /\ listed' = listed \ {f}
          /\ held' = held \ {f}
          /\ PutFence(f, "signaled", NewError(s, f))
     ELSE /\ held' = IF Keep(f) THEN held \cup {f} ELSE held
          /\ error' = [error EXCEPT ![f] = NewError(s, f)]
          /\ UNCHANGED <<listed, refs, kref, state, seqno>>
  /\ UNCHANGED <<counters, open, errctx, uvars, pc, event, listLock, dvars, crtc>>

MutWalkEnd(s) ==
  /\ pc[s] = "walk" /\ todo[s] = {}
  /\ kref' = kref - 1
  /\ pc' = [pc EXCEPT ![s] = "idle"]
  /\ event' = [event EXCEPT ![s] = "SIGNAL"]
  /\ UNCHANGED <<counters, seqno, refs, state, error, open, listed, held, errctx,
                 uvars, todo, listLock, dvars, crtc>>

WalkEnd(s) ==
  /\ pc[s] = "walk" /\ todo[s] = {}
  /\ listLock' = "none"
  /\ kref' = kref - 1
  /\ pc' = [pc EXCEPT ![s] = "idle"]
  /\ event' = [event EXCEPT ![s] = "SIGNAL"]
  /\ UNCHANGED <<counters, seqno, refs, state, error, open, listed, held, errctx,
                 uvars, todo, dvars, crtc>>

-----------------------------------------------------------------------------

\* event thread: sde_crtc_frame_event_work signals the release fence
FrameEvent(ev) ==
  /\ inflight > 0 /\ pc["event"] = "idle"
  /\ inflight' = inflight - 1
  /\ Count("event", ev)
  /\ UNCHANGED <<commit, fences, errctx, uvars, todo, listLock, work, phase,
                 inputBad, crtc>>

(***************************************************************************)
(* Display thread, inside the commit it works on.  A failed input fence:   *)
(* sde_crtc_sw_fence_error_handle notes the status, then                   *)
(* sde_encoder_handle_dma_fence_out_of_order sets the error context,       *)
(* signals, and clears it again.                                           *)
(***************************************************************************)
InputFenceError ==
  /\ work = "flip" /\ phase = "idle"
  /\ inputBad' = TRUE
  /\ IF panel = "video"
     THEN /\ lastGood' = IF handling THEN lastGood ELSE curr - 1
          /\ handling' = TRUE
          /\ errState' = "HANDLE_OUT_OF_ORDER"
     ELSE /\ errState' = "SET_ERROR_ONLY_CMD_RELEASE"
          /\ UNCHANGED <<lastGood, handling>>
  /\ phase' = "error"
  /\ UNCHANGED <<counters, fences, curr, uvars, svars, work, inflight, crtc>>

ErrorSignal ==
  /\ phase = "error"
  /\ phase' = "errorSignal"
  /\ Count("disp", "SIGNAL")
  /\ UNCHANGED <<commit, fences, errctx, uvars, todo, listLock, work, inputBad,
                 inflight, crtc>>

ErrorEnd ==
  /\ phase = "errorSignal" /\ pc["disp"] = "idle"
  /\ errState' = "NO_ERROR"
  /\ phase' = "waited"
  /\ UNCHANGED <<counters, fences, lastGood, curr, handling, uvars, svars, work,
                 inputBad, inflight, crtc>>

InputFencesGood ==
  /\ work = "flip" /\ phase = "idle"
  /\ phase' = "waited"
  /\ UNCHANGED <<counters, fences, errctx, uvars, svars, work, inputBad, inflight, crtc>>

\* _sde_encoder_kickoff_phys: a bad frame is not flushed, its status is reset
Kickoff ==
  /\ phase = "waited"
  /\ phase' = "kicked"
  /\ inputBad' = FALSE
  /\ inflight' = IF inputBad THEN inflight ELSE inflight + 1
  /\ UNCHANGED <<counters, fences, errctx, uvars, svars, work, crtc>>

\* wait for the vsync (video), sde_encoder_clear_fence_error_in_progress
FlipDone ==
  /\ phase = "kicked"
  /\ handling' = (handling /\ inputBad)
  /\ work' = "none" /\ phase' = "idle"
  /\ UNCHANGED <<counters, fences, lastGood, curr, errState, uvars, svars,
                 inputBad, inflight, crtc>>

\* sde_crtc_disable: the event thread is flushed, the frame event callback is
\* unregistered, then the timeline is reset
Reset ==
  /\ work = "disable" /\ phase = "idle" /\ pc["event"] = "idle"
  /\ phase' = "reset"
  /\ inflight' = 0
  /\ Count("disp", "RESET_TIMELINE")
  /\ UNCHANGED <<commit, fences, errctx, uvars, todo, listLock, work, inputBad, crtc>>

DisableDone ==
  /\ phase = "reset" /\ pc["disp"] = "idle"
  /\ work' = "none" /\ phase' = "idle"
  /\ UNCHANGED <<counters, fences, errctx, uvars, svars, inputBad, inflight, crtc>>

\* sde_crtc_destroy, after the threads have stopped
Deinit ==
  /\ owned /\ user = "idle" /\ work = "none"
  /\ \A s \in Signaller : pc[s] = "idle"
  /\ owned' = FALSE
  /\ kref' = kref - 1
  /\ UNCHANGED <<counters, seqno, refs, state, error, open, listed, held, errctx,
                 uvars, svars, dvars, panel, offset>>

-----------------------------------------------------------------------------
Create == CreateRead \/ CreateNoMemory \/ CreateFail \/ CreateInstall \/ CreateList
          \/ \E f \in Fence : CreateInit(f)
Client == \E f \in Fence : Close(f) \/ Poll(f)
Walk(s) == WalkStart(s) \/ WalkEnd(s) \/ \E f \in Fence : WalkFence(s, f)
Disp == InputFenceError \/ ErrorSignal \/ ErrorEnd \/ InputFencesGood
        \/ Kickoff \/ FlipDone \/ Reset \/ DisableDone

Next ==
  \/ Create
  \/ \E kind \in {"flip", "disable"} : Prepare(kind)
  \/ Client
  \/ \E ev \in {"SIGNAL", "SIGNAL_ERROR"} : FrameEvent(ev)
  \/ \E s \in Signaller : Walk(s)
  \/ Disp
  \/ Deinit

Spec == Init /\ [][Next]_vars

\* The kernel threads run: a started walk, and a commit, is carried on.
Fairness == /\ \A s \in Signaller : WF_vars(Walk(s))
            /\ WF_vars(Disp)
            /\ WF_vars(CreateList)

FairSpec == Spec /\ Fairness

-----------------------------------------------------------------------------
FenceErrors == {"NO_ERROR", "SET_ERROR_ONLY_CMD_RELEASE", "HANDLE_OUT_OF_ORDER"}
Phases == {"idle", "error", "errorSignal", "waited", "kicked", "reset"}

\* Every variable stays in the range the C declarations give it.
TypeOK ==
  /\ commit \in Nat /\ done \in Nat /\ kref \in Int /\ owned \in BOOLEAN
  /\ panel \in {"video", "cmd"} /\ offset \in 1..MaxOffset
  /\ seqno \in [Fence -> Nat] /\ refs \in [Fence -> Nat]
  /\ state \in [Fence -> {Free, "pending", "signaled"}]
  /\ error \in [Fence -> {"none", "EBUSY", "input"}]
  /\ open \subseteq Fence /\ listed \subseteq Fence /\ held \subseteq Fence
  /\ listLock \in Signaller \cup {"none"}
  /\ lastGood \in Int /\ curr \in Nat /\ handling \in BOOLEAN
  /\ errState \in FenceErrors
  /\ user \in {"idle", "create", "made", "installed"}
  /\ userFence \in Fence \cup {"none"} /\ userVal \in Nat
  /\ work \in {"none", "flip", "disable"} /\ phase \in Phases
  /\ inputBad \in BOOLEAN /\ inflight \in Nat
  /\ pc \in [Signaller -> {"idle", "trigger", "walk"}]
  /\ event \in [Signaller -> {"SIGNAL", "SIGNAL_ERROR", "RESET_TIMELINE"}]
  /\ todo \in [Signaller -> SUBSET Fence]

\* The timeline never runs past the commits that were opened, whatever the
\* order in which the event thread signals and the display thread resets.
TimelineOrdered == done <= commit /\ commit <= done + MaxAhead

\* A fence is signalled before its commit is done only to report a failed
\* input fence: otherwise userspace would reuse a buffer still being read.
NoEarlySignal ==
  \A f \in Fence : state[f] = "signaled" /\ error[f] # "input" => seqno[f] <= done

\* No fence is lost: one whose commit is done, still on the list, is in front
\* of a walk, unless an earlier walk held it for the last good frame.  The
\* gap between ctx->lock and list_lock, and the one between reading the
\* trigger value and listing the fence, are where it could be missed.
Covered(f) == \E s \in Signaller : pc[s] = "trigger" \/ (pc[s] = "walk" /\ f \in todo[s])
NoLostFence ==
  \A f \in listed \ held : Signaled(f, done) => Covered(f)

\* Every reference on a fence has an owner: the list (or the creator before it)
\* and the open descriptor.  No close, failed creation or release by a walk,
\* in any order, frees a fence that is listed or frees it twice.
One(b) == IF b THEN 1 ELSE 0
FenceRefs ==
  \A f \in Fence :
    /\ refs[f] = One(f \in listed \/ f = userFence) + One(f \in open)
    /\ state[f] = Free <=> refs[f] = 0

\* The context outlives the fences whose lock it holds and the walks over it,
\* whenever the CRTC drops its own reference.
ContextRefs ==
  kref = One(owned) + Cardinality(Alive) + Cardinality({s \in Signaller : pc[s] = "walk"})

\* Both counts are exact: they are taken and dropped by clients, the creator
\* with its error paths and the walks, each without a view of the others.
References == FenceRefs /\ ContextRefs

\* Once a disable commit has ended and the event thread is quiet, no fence of
\* a commit opened so far is left unsignalled (nothing is scanned out).
ResetReleasesAll ==
  [][DisableDone /\ pc["event"] = "idle" => \A f \in listed : seqno[f] > commit]_vars

\* A fence that is due is released or held, if the threads keep running.
DueReleased ==
  \A f \in Fence : (f \in listed /\ seqno[f] <= done) ~> (f \notin listed \/ f \in held)

(***************************************************************************)
(* The code keeps the promise of a timeline: a client sees its fence from  *)
(* the moment the descriptor is installed until it closes it.              *)
(***************************************************************************)
View(f) == IF f \notin open THEN "closed"
           ELSE IF state[f] = "pending" THEN "waiting"
           ELSE IF error[f] = "input" THEN "broken" ELSE "released"

Timeline == INSTANCE SdeTimeline WITH
  Point <- 0..(MaxCommit + MaxOffset),
  now   <- done,
  point <- [f \in Fence |-> IF f \in open THEN seqno[f] ELSE 0],
  view  <- [f \in Fence |-> View(f)]

\* The detailed timeline implements the abstract one: in particular no
\* interleaving of walks, polls, closes and errors releases a fence early,
\* makes a released one wait again, or lets a client get one that is past.
TimelineSpec == Timeline!Spec

=============================================================================
