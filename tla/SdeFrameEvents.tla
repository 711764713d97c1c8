--------------------------- MODULE SdeFrameEvents ---------------------------
(***************************************************************************)
(* Frame events of a CRTC.  An encoder callback, often in interrupt        *)
(* context, takes an entry of the pool frame_events and queues it on the   *)
(* event thread, which counts the frame off frame_pending, signals the     *)
(* fence and gives the entry back.  Work that is not a frame event ("esd") *)
(* shares the queue of the thread.                                         *)
(***************************************************************************)
EXTENDS Integers, Sequences, FiniteSets

CONSTANT EventSize   \* SDE_CRTC_EVENT_SIZE

\* The pool has room for all that can be under way (the code has 8 entries).
ASSUME EventAssumption == EventSize \in Nat /\ EventSize >= 6

VARIABLES
    pend,    \* frame_pending
    q,       \* work queued on the event thread
    cur,     \* work the event thread runs, or "none"
    fl,      \* work the thread still has to finish for a flush that waits for it
    fence,   \* how the release fence of each frame was signalled
    cb       \* crtc_frame_event_cb is registered

evvars == <<pend, q, cur, fl, fence, cb>>

Kinds == {"done", "error", "retire", "esd"}

EventsInit ==
    pend = 0 /\ q = <<>> /\ cur = "none" /\ fl = 0 /\ fence = <<>> /\ cb = FALSE

\* Events that carry SIGNAL_RELEASE_FENCE: they end a frame.
Release == {"done", "error"}

\* The entries of a queue that are of one of the kinds K.
CountIn(s, K) == Cardinality({i \in DOMAIN s : s[i] \in K})

Entries(s) == CountIn(s, Kinds \ {"esd"})

InUse == Entries(q) + IF cur \in Kinds \ {"esd"} THEN 1 ELSE 0

Releases == CountIn(q, Release)

\* Work the thread has not finished.
Todo == Len(q) + IF cur = "none" THEN 0 ELSE 1

\* sde_crtc_frame_event_cb: no free entry, no event.
Post(k) ==
    /\ q' = IF cb /\ InUse < EventSize THEN Append(q, k) ELSE q
    /\ UNCHANGED <<pend, cur, fl, fence, cb>>

\* sde_crtc_frame_event_work up to the fences: an event with nothing pending "should
\* not happen" and is only logged.
EvTake ==
    /\ cur = "none" /\ q # <<>>
    /\ cur' = Head(q) /\ q' = Tail(q)
    /\ pend' = IF Head(q) \in Release /\ pend >= 1 THEN pend - 1 ELSE pend
    /\ UNCHANGED <<fl, fence, cb>>

EvEnd ==
    /\ cur # "none"
    /\ fence' = IF cur \in Release THEN Append(fence, cur) ELSE fence
    /\ cur' = "none"
    /\ fl' = IF fl > 0 THEN fl - 1 ELSE 0
    /\ UNCHANGED <<pend, q, cb>>

\* Mutant: the flush looks for pending frames after it counted this one off.
MutFlushStart == fl' = 0 /\ UNCHANGED <<pend, q, cur, fence, cb>>

\* _sde_crtc_flush_frame_events: nothing pending, nothing to wait for.
FlushStart ==
    /\ fl' = IF pend = 0 THEN 0 ELSE Todo
    /\ UNCHANGED <<pend, q, cur, fence, cb>>

\* kthread_flush_worker in sde_crtc_disable.
WorkerFlush == fl' = Todo /\ UNCHANGED <<pend, q, cur, fence, cb>>

Kicked == pend' = pend + 1 /\ UNCHANGED <<q, cur, fl, fence, cb>>

\* The end of sde_crtc_disable: frames that never ended are forgotten, the callback goes
\* and SDE_FENCE_RESET_TIMELINE signals every fence up to the n-th.
CrtcOff(n) ==
    /\ pend' = 0 /\ cb' = FALSE
    /\ fence' = [i \in 1..n |-> IF i <= Len(fence) THEN fence[i] ELSE "reset"]
    /\ UNCHANGED <<q, cur, fl>>
=============================================================================
