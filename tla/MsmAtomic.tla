----------------------------- MODULE MsmAtomic ------------------------------
(***************************************************************************)
(* Atomic commits (msm_atomic.c): user threads that lock, check and swap   *)
(* the state of CRTCs and planes, and the display threads (one per CRTC)   *)
(* that carry the commits out after the swap.                              *)
(*                                                                         *)
(* The DRM core around it is external and modelled from how the driver     *)
(* uses it: the modeset locks of an ioctl are wound-wait mutexes, a thread *)
(* that an older one waits for may be told -EDEADLK, and the check of a    *)
(* new state is made against the state that is current when the lock of    *)
(* its object is taken.                                                    *)
(*                                                                         *)
(* msm_atomic_commit takes connection_mutex as well, waits until no        *)
(* pending commit shares an object with its own, marks its objects as      *)
(* pending, swaps the state and hands the commit over.  A commit without a *)
(* CRTC is carried out by the thread itself.                               *)
(***************************************************************************)
EXTENDS Integers, FiniteSets, Sequences

CONSTANTS
    Thread,    \* user threads, one ioctl at a time each
    Crtc,      \* CRTCs, each with its display thread
    Plane,     \* planes
    Index,     \* index of a CRTC in the mode configuration
    Commit,    \* msm_commit objects with their atomic states (bound on both)
    Request    \* commits a client may ask for

Obj == Crtc \cup Plane
Conn == "connection_mutex"
Lock == Obj \cup {Conn}

\* A request names its CRTCs and planes and the order it takes its locks in;
\* connection_mutex is one of them when a connector is in the commit.
ASSUME RequestAssumption ==
    /\ Crtc \cap Plane = {} /\ Conn \notin Obj
    /\ Request \subseteq [crtcs : SUBSET Crtc, planes : SUBSET Plane,
                          nonblock : BOOLEAN, locks : Seq(Lock)]
    /\ \A r \in Request :
         /\ \A o \in r.crtcs \cup r.planes : \E i \in 1 .. Len(r.locks) : r.locks[i] = o
         /\ \A i, j \in 1 .. Len(r.locks) : r.locks[i] = r.locks[j] => i = j
ASSUME IndexAssumption ==
    /\ Index \in [Crtc -> Nat]
    /\ \A c, d \in Crtc : Index[c] = Index[d] => c = d

NoRequest == [crtcs |-> {}, planes |-> {}, nonblock |-> FALSE, locks |-> << >>]
None == "none"
ASSUME CommitAssumption == None \notin Commit

VARIABLES
    pc,       \* where each user thread is
    req,      \* the request it works on
    com,      \* its commit, or None
    holds,    \* the modeset locks it holds
    older,    \* pairs of threads with an open acquire context, the older one first
    step,     \* where each commit is
    job,      \* its crtc_mask, plane_mask and nonblock
    srefs,    \* references to its atomic state
    pending,  \* pending_crtcs and pending_planes
    dirty     \* objects whose current state the hardware does not have yet

users   == <<pc, req, com, holds, older>>
commits == <<step, job, srefs, pending, dirty>>
vars    == <<users, commits>>

Objs(r) == r.crtcs \cup r.planes

Init ==
    /\ pc = [t \in Thread |-> "idle"]
    /\ req = [t \in Thread |-> NoRequest]
    /\ com = [t \in Thread |-> None]
    /\ holds = [t \in Thread |-> {}]
    /\ older = {}
    /\ step = [c \in Commit |-> "free"]
    /\ job = [c \in Commit |-> NoRequest]
    /\ srefs = [c \in Commit |-> 0]
    /\ pending = {} /\ dirty = {}

-----------------------------------------------------------------------------
(* The locks.                                                              *)

NextLock(t) == req[t].locks[Cardinality(holds[t]) + 1]
AllLocked(t) == Cardinality(holds[t]) = Len(req[t].locks)

Held(l) == \E u \in Thread : l \in holds[u]
HeldByOther(t, l) == \E u \in Thread \ {t} : l \in holds[u]

\* The lock a thread is after.
Wants(t, l) ==
    \/ pc[t] = "locking" /\ ~AllLocked(t) /\ l = NextLock(t)
    \/ pc[t] \in {"conn", "backoff"} /\ l = Conn

Wounded(t) == \E u \in Thread : <<u, t>> \in older /\ \E l \in holds[t] : Wants(u, l)

-----------------------------------------------------------------------------
(* A user thread in the DRM core.                                          *)

Begin(t, r) ==
    /\ pc[t] = "idle"
    /\ pc' = [pc EXCEPT ![t] = "locking"]
    /\ req' = [req EXCEPT ![t] = r]
    /\ older' = older \cup {<<u, t>> : u \in {v \in Thread : pc[v] # "idle"}}
    /\ UNCHANGED <<com, holds, commits>>

\* The state of an object is duplicated when its lock is taken.
Acquire(t) ==
    /\ pc[t] = "locking" /\ ~AllLocked(t)
    /\ ~Held(NextLock(t))
    /\ holds' = [holds EXCEPT ![t] = @ \cup {NextLock(t)}]
    /\ UNCHANGED <<pc, req, com, older, commits>>

\* -EDEADLK in the ioctl: the state is cleared, every lock dropped, and the
\* ioctl starts again with the same acquire context.
Restart(t) ==
    /\ pc[t] = "locking" /\ ~AllLocked(t)
    /\ HeldByOther(t, NextLock(t)) /\ Wounded(t)
    /\ holds' = [holds EXCEPT ![t] = {}]
    /\ UNCHANGED <<pc, req, com, older, commits>>

\* The ioctl drops its locks and its reference to the state.
Leave(t) ==
    /\ pc' = [pc EXCEPT ![t] = "idle"]
    /\ req' = [req EXCEPT ![t] = NoRequest]
    /\ com' = [com EXCEPT ![t] = None]
    /\ holds' = [holds EXCEPT ![t] = {}]
    /\ older' = {p \in older : t \notin {p[1], p[2]}}

Return(t) ==
    /\ pc[t] = "return"
    /\ Leave(t)
    /\ srefs' = [srefs EXCEPT ![com[t]] = @ - 1]
    /\ UNCHANGED <<step, job, pending, dirty>>

-----------------------------------------------------------------------------
(* msm_atomic_commit.                                                      *)

\* The planes cannot be prepared, or commit_init finds no memory.
CallFails(t) ==
    /\ pc[t] = "locking" /\ AllLocked(t)
    /\ Leave(t)
    /\ UNCHANGED commits

\* drm_atomic_helper_prepare_planes, commit_init and the masks
Call(t, c) ==
    /\ pc[t] = "locking" /\ AllLocked(t)
    /\ step[c] = "free" /\ srefs[c] = 0
    /\ step' = [step EXCEPT ![c] = "init"]
    /\ job' = [job EXCEPT ![c] = req[t]]
    /\ srefs' = [srefs EXCEPT ![c] = 1]
    /\ com' = [com EXCEPT ![t] = c]
    /\ pc' = [pc EXCEPT ![t] = "conn"]
    /\ UNCHANGED <<req, holds, older, pending, dirty>>

\* drm_modeset_lock(connection_mutex), which may already be held
ConnLock(t) ==
    /\ pc[t] = "conn" /\ ~HeldByOther(t, Conn)
    /\ holds' = [holds EXCEPT ![t] = @ \cup {Conn}]
    /\ pc' = [pc EXCEPT ![t] = "wait"]
    /\ UNCHANGED <<req, com, older, commits>>

\* A signal: any result but -EDEADLK is ignored.
ConnInterrupted(t) ==
    /\ pc[t] = "conn" /\ HeldByOther(t, Conn)
    /\ pc' = [pc EXCEPT ![t] = "wait"]
    /\ UNCHANGED <<req, com, holds, older, commits>>

\* -EDEADLK: drm_modeset_backoff drops every lock of the ioctl ...
ConnBackoff(t) ==
    /\ pc[t] = "conn" /\ HeldByOther(t, Conn) /\ Wounded(t)
    /\ holds' = [holds EXCEPT ![t] = {}]
    /\ pc' = [pc EXCEPT ![t] = "backoff"]
    /\ UNCHANGED <<req, com, older, commits>>

\* ... and waits for the contended one only.
ConnSlow(t) ==
    /\ pc[t] = "backoff" /\ ~Held(Conn)
    /\ holds' = [holds EXCEPT ![t] = {Conn}]
    /\ pc' = [pc EXCEPT ![t] = "wait"]
    /\ UNCHANGED <<req, com, older, commits>>

\* A wait that looks at the CRTCs only.
MutMark(t) ==
    /\ pc[t] = "wait"
    /\ job[com[t]].crtcs \cap pending = {}
    /\ pending' = pending \cup Objs(job[com[t]])
    /\ pc' = [pc EXCEPT ![t] = "swap"]
    /\ UNCHANGED <<req, com, holds, older, step, job, srefs, dirty>>

\* wait_event_interruptible_locked, and the marks under the same lock
Mark(t) ==
    /\ pc[t] = "wait"
    /\ Objs(job[com[t]]) \cap pending = {}
    /\ pending' = pending \cup Objs(job[com[t]])
    /\ pc' = [pc EXCEPT ![t] = "swap"]
    /\ UNCHANGED <<req, com, holds, older, step, job, srefs, dirty>>

\* A signal ends the wait: err_free.
Interrupted(t) ==
    /\ pc[t] = "wait"
    /\ step' = [step EXCEPT ![com[t]] = "free"]
    /\ pc' = [pc EXCEPT ![t] = "return"]
    /\ UNCHANGED <<req, com, holds, older, job, srefs, pending, dirty>>

\* A hand-over that does not take a reference to the state.
MutSwap(t) ==
    LET c == com[t] IN
    /\ pc[t] = "swap"
    /\ dirty' = dirty \cup Objs(job[c])
    /\ step' = [step EXCEPT ![c] = "queued"]
    /\ pc' = [pc EXCEPT ![t] = IF job[c].crtcs = {} THEN "sync"
                               ELSE IF job[c].nonblock THEN "return" ELSE "flush"]
    /\ UNCHANGED <<req, com, holds, older, job, srefs, pending>>

\* drm_atomic_helper_swap_state, prepare_fence, drm_atomic_state_get and
\* msm_atomic_commit_dispatch: to the display thread of the first CRTC, or,
\* without a CRTC, to this thread.
Swap(t) ==
    LET c == com[t] IN
    /\ pc[t] = "swap"
    /\ dirty' = dirty \cup Objs(job[c])
    /\ step' = [step EXCEPT ![c] = "queued"]
    /\ srefs' = [srefs EXCEPT ![c] = @ + 1]
    /\ pc' = [pc EXCEPT ![t] = IF job[c].crtcs = {} THEN "sync"
                               ELSE IF job[c].nonblock THEN "return" ELSE "flush"]
    /\ UNCHANGED <<req, com, holds, older, job, pending>>

\* kthread_flush_work has seen the commit end: kfree(commit)
Flushed(t) ==
    /\ pc[t] = "flush" /\ step[com[t]] = "done"
    /\ step' = [step EXCEPT ![com[t]] = "free"]
    /\ pc' = [pc EXCEPT ![t] = "return"]
    /\ UNCHANGED <<req, com, holds, older, job, srefs, pending, dirty>>

-----------------------------------------------------------------------------
(* complete_commit, on a display thread or on the user thread.             *)

First(S) == CHOOSE c \in S : \A d \in S : Index[c] <= Index[d]
Running == {"running", "shown", "finished"}
InFlight == {"queued"} \cup Running

SameThread(c, d) ==
    job[c].crtcs # {} /\ job[d].crtcs # {} /\ First(job[c].crtcs) = First(job[d].crtcs)

\* The thread takes the commit up and waits for the input fences.
Start(c) ==
    /\ step[c] = "queued"
    /\ \A d \in Commit : step[d] \in Running => ~SameThread(c, d)
    /\ step' = [step EXCEPT ![c] = "running"]
    /\ UNCHANGED <<users, job, srefs, pending, dirty>>

\* prepare_commit, disables, planes, enables and the kickoff
Apply(c) ==
    /\ step[c] = "running"
    /\ dirty' = dirty \ Objs(job[c])
    /\ step' = [step EXCEPT ![c] = "shown"]
    /\ UNCHANGED <<users, job, srefs, pending>>

\* The frame is done or timed out; cleanup_planes, complete_commit, state_put.
Finish(c) ==
    /\ step[c] = "shown"
    /\ srefs' = [srefs EXCEPT ![c] = @ - 1]
    /\ step' = [step EXCEPT ![c] = "finished"]
    /\ UNCHANGED <<users, job, pending, dirty>>

\* A commit_destroy that forgets the planes.
MutDestroy(c) ==
    /\ step[c] = "finished"
    /\ pending' = pending \ job[c].crtcs
    /\ step' = [step EXCEPT ![c] = IF job[c].nonblock THEN "free" ELSE "done"]
    /\ pc' = [t \in Thread |->
                IF pc[t] = "sync" /\ com[t] = c
                THEN IF job[c].nonblock THEN "return" ELSE "flush"
                ELSE pc[t]]
    /\ UNCHANGED <<req, com, holds, older, job, srefs, dirty>>

\* commit_destroy: wakes the waiters and frees a nonblocking commit.  A thread
\* that carried out its own commit goes on.
Destroy(c) ==
    /\ step[c] = "finished"
    /\ pending' = pending \ Objs(job[c])
    /\ step' = [step EXCEPT ![c] = IF job[c].nonblock THEN "free" ELSE "done"]
    /\ pc' = [t \in Thread |->
                IF pc[t] = "sync" /\ com[t] = c
                THEN IF job[c].nonblock THEN "return" ELSE "flush"
                ELSE pc[t]]
    /\ UNCHANGED <<req, com, holds, older, job, srefs, dirty>>

-----------------------------------------------------------------------------
UserStep(t) ==
    \/ Restart(t) \/ Return(t) \/ CallFails(t)
    \/ \E c \in Commit : Call(t, c)
    \/ ConnBackoff(t) \/ Mark(t) \/ Swap(t) \/ Flushed(t)
Signal(t) == ConnInterrupted(t) \/ Interrupted(t)
LockStep(t) == Acquire(t) \/ ConnLock(t) \/ ConnSlow(t)
CommitStep(c) == Start(c) \/ Apply(c) \/ Finish(c) \/ Destroy(c)

Next ==
    \/ \E t \in Thread :
         UserStep(t) \/ LockStep(t) \/ Signal(t) \/ \E r \in Request : Begin(t, r)
    \/ \E c \in Commit : CommitStep(c)

Spec == Init /\ [][Next]_vars

\* The threads run; input fences signal and frames complete or time out; a
\* mutex that is released again and again is given to a thread waiting for it.
\* Nobody needs a signal to go on.
Fairness ==
    /\ \A t \in Thread : WF_vars(UserStep(t)) /\ SF_vars(LockStep(t))
    /\ \A c \in Commit : WF_vars(CommitStep(c))

FairSpec == Spec /\ Fairness

-----------------------------------------------------------------------------
(* Properties.                                                             *)

UserPc == {"idle", "locking", "conn", "backoff", "wait", "swap", "sync", "flush",
           "return"}
CommitStepName == {"free", "init", "done"} \cup InFlight

TypeOK ==
    /\ pc \in [Thread -> UserPc]
    /\ req \in [Thread -> Request \cup {NoRequest}]
    /\ com \in [Thread -> Commit \cup {None}]
    /\ holds \in [Thread -> SUBSET Lock]
    /\ older \subseteq Thread \X Thread
    /\ step \in [Commit -> CommitStepName]
    /\ job \in [Commit -> Request \cup {NoRequest}]
    /\ srefs \in [Commit -> Nat]
    /\ pending \subseteq Obj /\ dirty \subseteq Obj

\* Commits in flight share no CRTC and no plane, however their ioctls were
\* interrupted or backed off: this is what sde_crtc, the fences and the planes
\* rely on when they use crtc->state and plane->state without a lock.
Exclusive ==
    \A c, d \in Commit :
        step[c] \in InFlight /\ step[d] \in InFlight /\ c # d
            => Objs(job[c]) \cap Objs(job[d]) = {}

\* The marks are those of the commits in flight and of the threads about to
\* swap: no mark is left behind to block every later commit, none is missing.
Marked(c) == step[c] \in InFlight \/ \E t \in Thread : pc[t] = "swap" /\ com[t] = c
PendingExact == pending = UNION {Objs(job[c]) : c \in {d \in Commit : Marked(d)}}

\* Once nothing is pending for an object the hardware has its current state.
HardwareCurrent == dirty \subseteq pending

\* A commit is never freed, nor its atomic state released, while a display
\* thread or the user thread still uses it, and no reference is leaked: the
\* state is held by its ioctl and by the thread that carries it out.
StateRefs(c) ==
    (IF \E t \in Thread : com[t] = c THEN 1 ELSE 0)
    + (IF step[c] \in InFlight \ {"finished"} THEN 1 ELSE 0)
CommitAlive ==
    /\ \A c \in Commit : srefs[c] = StateRefs(c)
    /\ \A t \in Thread :
         pc[t] \notin {"idle", "locking"}
             => com[t] # None /\ (pc[t] # "return" => step[com[t]] # "free")

\* The display thread of a CRTC has at most one commit, queued or running: the
\* "one job at a time" that the encoder and the fences rely on.
OneJob ==
    \A c, d \in Commit :
        step[c] \in InFlight /\ step[d] \in InFlight /\ c # d => ~SameThread(c, d)

\* Every commit that was swapped reaches the hardware and ends: no object is
\* pending for ever, whatever the user threads do.
CommitsEnd == \A o \in Obj : o \in pending ~> o \notin pending

\* Every ioctl returns: no thread is left waiting for a mutex, for a mark or for
\* its own commit, unless signals keep letting others past connection_mutex.
IoctlReturns ==
    <>[][\A t \in Thread : ~ConnInterrupted(t)]_vars
        => \A t \in Thread : pc[t] = "locking" ~> pc[t] = "idle"

\* The commits in flight keep the promise of MsmCommitOrder.
Flight ==
    {[objs |-> Objs(job[c]),
      on |-> IF step[c] \in {"shown", "finished"} THEN "hardware" ELSE "software"] :
        c \in {d \in Commit : step[d] \in InFlight /\ Objs(job[d]) # {}}}

Order == INSTANCE MsmCommitOrder WITH flight <- Flight

OrderSpec == Order!Spec
=============================================================================
