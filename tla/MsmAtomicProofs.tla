-------------------------- MODULE MsmAtomicProofs ---------------------------
(***************************************************************************)
(* Proofs about MsmAtomic, for any threads, CRTCs, planes, commits and     *)
(* requests.                                                               *)
(***************************************************************************)
EXTENDS MsmAtomic, FiniteSetTheorems, WellFoundedInduction, TLAPS

\* A thread has a commit from its call until it leaves, and one of its own.
ComOwned ==
    /\ \A t \in Thread : com[t] = None <=> pc[t] \in {"idle", "locking"}
    /\ \A t, u \in Thread : com[t] = com[u] /\ com[t] # None => t = u

\* Where the commit is, seen from where its thread is.
StepOfPc ==
    \A t \in Thread :
        /\ pc[t] \in {"conn", "backoff", "wait", "swap"} => step[com[t]] = "init"
        /\ pc[t] = "sync" => step[com[t]] \in InFlight
        /\ pc[t] = "flush" =>
             step[com[t]] \in InFlight \cup {"done"} /\ ~job[com[t]].nonblock

RefsExact == \A c \in Commit : srefs[c] = StateRefs(c)

\* The locks of a thread are those before the one it is after.
LocksCounted ==
    \A t \in Thread :
        /\ IsFiniteSet(holds[t])
        /\ pc[t] = "idle" => holds[t] = {}
        /\ pc[t] = "locking" => Cardinality(holds[t]) <= Len(req[t].locks)

MarkedDisjoint ==
    \A c, d \in Commit : Marked(c) /\ Marked(d) /\ c # d => Objs(job[c]) \cap Objs(job[d]) = {}

\* What the hardware does not have belongs to a commit that is not applied yet.
DirtyOwned ==
    \A o \in dirty : \E c \in Commit :
        step[c] \in {"queued", "running"} /\ o \in Objs(job[c])

\* PendingExact, one object at a time.
PendingPointwise ==
    \A o \in Obj : o \in pending <=> \E c \in Commit : Marked(c) /\ o \in Objs(job[c])

IInv ==
    /\ TypeOK /\ ComOwned /\ StepOfPc /\ RefsExact /\ LocksCounted
    /\ MarkedDisjoint /\ PendingPointwise /\ DirtyOwned

\* The steps that leave every commit alone.
QuietStep(t) ==
    \/ (\E r \in Request : Begin(t, r)) \/ Acquire(t) \/ Restart(t) \/ CallFails(t)
    \/ ConnLock(t) \/ ConnInterrupted(t) \/ ConnBackoff(t) \/ ConnSlow(t)

Asking == {"idle", "locking"}
Waiting == {"conn", "backoff", "wait"}

-----------------------------------------------------------------------------
\* The objects of a request are CRTCs and planes.
LEMMA ObjsTyped ==
    ASSUME NEW r \in Request \cup {NoRequest}
    PROVE  Objs(r) \subseteq Obj
BY RequestAssumption DEF Objs, NoRequest, Obj

\* A marked commit is in flight or about to be swapped.
LEMMA MarkedSteps ==
    ASSUME IInv, NEW c \in Commit, Marked(c)
    PROVE  step[c] \in InFlight \cup {"init"}
BY DEF IInv, Marked, StepOfPc

\* The invariant holds when the driver has been loaded.
LEMMA InitInv == Init => IInv
<1> SUFFICES ASSUME Init PROVE IInv
    OBVIOUS
<1> USE DEF Init
<1>1. TypeOK
    <2>1. /\ pc \in [Thread -> UserPc] /\ com \in [Thread -> Commit \cup {None}]
          /\ req \in [Thread -> Request \cup {NoRequest}] /\ older \subseteq Thread \X Thread
        BY DEF UserPc
    <2>2. holds \in [Thread -> SUBSET Lock]
        OBVIOUS
    <2>3. /\ step \in [Commit -> CommitStepName] /\ job \in [Commit -> Request \cup {NoRequest}]
          /\ srefs \in [Commit -> Nat] /\ pending \subseteq Obj /\ dirty \subseteq Obj
        BY DEF CommitStepName
    <2> QED BY <2>1, <2>2, <2>3 DEF TypeOK
<1>2. ComOwned /\ StepOfPc /\ DirtyOwned
    BY DEF ComOwned, StepOfPc, DirtyOwned
<1>3. RefsExact
    BY CommitAssumption DEF RefsExact, StateRefs, InFlight, Running
<1>4. LocksCounted
    BY FS_EmptySet DEF LocksCounted
<1>5. MarkedDisjoint /\ PendingPointwise
    BY DEF MarkedDisjoint, PendingPointwise, Marked, InFlight, Running
<1> QED BY <1>1, <1>2, <1>3, <1>4, <1>5 DEF IInv

-----------------------------------------------------------------------------
(***************************************************************************)
(* The steps that leave every commit alone.                                *)
(***************************************************************************)
\* What a quiet step leaves alone, and where it may take its thread.
LEMMA QuietFrame ==
    ASSUME IInv, NEW t \in Thread, QuietStep(t)
    PROVE  /\ UNCHANGED <<com, commits>>
           /\ pc' \in [Thread -> UserPc]
           /\ \A u \in Thread \ {t} : pc'[u] = pc[u]
           /\ \/ pc[t] \in Asking /\ pc'[t] \in Asking
              \/ pc[t] \in Waiting /\ pc'[t] \in Waiting
<1> USE DEF IInv, TypeOK, UserPc, Asking, Waiting
<1>1. CASE \E r \in Request : Begin(t, r)
    BY <1>1 DEF Begin
<1>2. CASE Acquire(t) \/ Restart(t)
    BY <1>2 DEF Acquire, Restart
<1>3. CASE CallFails(t)
    BY <1>3 DEF CallFails, Leave, ComOwned
<1>4. CASE ConnLock(t) \/ ConnInterrupted(t)
    BY <1>4 DEF ConnLock, ConnInterrupted
<1>5. CASE ConnBackoff(t) \/ ConnSlow(t)
    BY <1>5 DEF ConnBackoff, ConnSlow
<1> QED BY <1>1, <1>2, <1>3, <1>4, <1>5 DEF QuietStep

\* A quiet step takes locks in the order of its request, or drops them all.
LEMMA QuietLocks ==
    ASSUME IInv, NEW t \in Thread, QuietStep(t)
    PROVE  /\ req' \in [Thread -> Request \cup {NoRequest}]
           /\ holds' \in [Thread -> SUBSET Lock]
           /\ older' \subseteq Thread \X Thread
           /\ LocksCounted'
<1> USE DEF IInv, TypeOK, LocksCounted
<1>1. CASE \E r \in Request : Begin(t, r)
    <2>1. PICK r \in Request : Begin(t, r)
        BY <1>1
    <2>2. Len(r.locks) \in Nat
        BY RequestAssumption
    <2>3. req'[t] = r /\ holds' = holds /\ pc[t] = "idle"
        BY <2>1 DEF Begin
    <2>4. LocksCounted'
        BY <2>1, <2>2, <2>3, FS_EmptySet DEF Begin
    <2> QED BY <2>1, <2>4 DEF Begin
<1>2. CASE Acquire(t)
    <2> DEFINE l == NextLock(t)
    <2>1. req[t] \in Request
        BY <1>2, FS_CardinalityType DEF Acquire, AllLocked, NoRequest
    <2>2. req[t].locks \in Seq(Lock) /\ Cardinality(holds[t]) \in Nat
        BY <2>1, RequestAssumption, FS_CardinalityType
    <2>3. Cardinality(holds[t]) < Len(req[t].locks)
        BY <1>2, <2>2 DEF Acquire, AllLocked
    <2>4. l \in Lock /\ l \notin holds[t]
        BY <1>2, <2>2, <2>3 DEF Acquire, NextLock, Held
    <2>5. IsFiniteSet(holds[t] \cup {l})
          /\ Cardinality(holds[t] \cup {l}) = Cardinality(holds[t]) + 1
        BY <2>4, FS_AddElement
    <2>6. LocksCounted'
        BY <1>2, <2>2, <2>3, <2>5 DEF Acquire
    <2>7. holds' \in [Thread -> SUBSET Lock]
        BY <1>2, <2>4 DEF Acquire
    <2> QED BY <1>2, <2>6, <2>7 DEF Acquire
<1>3. CASE Restart(t)
    <2>1. Len(req[t].locks) \in Nat
        BY RequestAssumption DEF NoRequest
    <2> QED BY <1>3, <2>1, FS_EmptySet DEF Restart
<1>4. CASE CallFails(t)
    BY <1>4, FS_EmptySet DEF CallFails, Leave
<1>5. CASE ConnLock(t)
    <2>1. IsFiniteSet(holds[t] \cup {Conn})
        BY FS_AddElement
    <2> QED BY <1>5, <2>1 DEF ConnLock, Lock
<1>6. CASE ConnInterrupted(t)
    BY <1>6 DEF ConnInterrupted
<1>7. CASE ConnBackoff(t)
    BY <1>7, FS_EmptySet DEF ConnBackoff
<1>8. CASE ConnSlow(t)
    BY <1>8, FS_Singleton DEF ConnSlow, Lock
<1> QED BY <1>1, <1>2, <1>3, <1>4, <1>5, <1>6, <1>7, <1>8 DEF QuietStep

\* A quiet step keeps the invariant.
LEMMA QuietInv ==
    ASSUME IInv, NEW t \in Thread, QuietStep(t)
    PROVE  IInv'
<1>1. /\ UNCHANGED <<com, step, job, srefs, pending, dirty>>
      /\ pc' \in [Thread -> UserPc]
      /\ \A u \in Thread \ {t} : pc'[u] = pc[u]
      /\ \/ pc[t] \in Asking /\ pc'[t] \in Asking
         \/ pc[t] \in Waiting /\ pc'[t] \in Waiting
    BY QuietFrame DEF commits
<1>2. TypeOK' /\ LocksCounted'
    BY <1>1, QuietLocks DEF IInv, TypeOK
<1>3. ComOwned' /\ StepOfPc'
    BY <1>1 DEF IInv, TypeOK, ComOwned, StepOfPc, Asking, Waiting
<1>4. RefsExact' /\ DirtyOwned'
    BY <1>1 DEF IInv, RefsExact, StateRefs, DirtyOwned
<1>5. \A c \in Commit : Marked(c)' <=> Marked(c)
    BY <1>1 DEF Marked, Asking, Waiting
<1>6. MarkedDisjoint' /\ PendingPointwise'
    BY <1>1, <1>5 DEF IInv, MarkedDisjoint, PendingPointwise
<1> QED BY <1>2, <1>3, <1>4, <1>6 DEF IInv

-----------------------------------------------------------------------------
(***************************************************************************)
(* The steps of a user thread that change a commit.                        *)
(***************************************************************************)
\* A thread past its call works on a commit that no other thread works on.
LEMMA OwnCommit ==
    ASSUME IInv, NEW t \in Thread, pc[t] \notin Asking
    PROVE  /\ com[t] \in Commit
           /\ \A u \in Thread \ {t} : com[u] # com[t]
BY DEF IInv, TypeOK, ComOwned, Asking

\* A commit that no thread marks or swaps any more, and that is not in flight.
LEMMA Unmarked ==
    ASSUME IInv, NEW c \in Commit, step[c] \notin InFlight \cup {"init"}
    PROVE  ~Marked(c)
BY MarkedSteps

\* The ioctl drops its locks and its reference.
LEMMA ReturnInv == ASSUME IInv, NEW t \in Thread, Return(t) PROVE IInv'
<1> USE DEF Return, Leave
<1>1. com[t] \in Commit /\ \A u \in Thread \ {t} : com[u] # com[t]
    BY OwnCommit DEF Asking
<1>2. TypeOK'
    <2>1. srefs[com[t]] >= 1 /\ srefs[com[t]] \in Nat
        BY <1>1 DEF IInv, TypeOK, RefsExact, StateRefs
    <2>2. srefs' \in [Commit -> Nat]
        BY <2>1, <1>1 DEF IInv, TypeOK
    <2> QED BY <2>2 DEF IInv, TypeOK, UserPc
<1>3. ComOwned' /\ StepOfPc'
    BY <1>1 DEF IInv, TypeOK, ComOwned, StepOfPc
<1>4. RefsExact'
    <2> SUFFICES ASSUME NEW c \in Commit PROVE srefs'[c] = StateRefs(c)'
        BY DEF RefsExact
    <2>1. srefs[c] = StateRefs(c) /\ srefs[c] \in Nat
        BY DEF IInv, RefsExact, TypeOK
    <2>2. CASE c = com[t]
        <3>1. ~ \E u \in Thread : com'[u] = c
            BY <1>1, <2>2, CommitAssumption DEF IInv, TypeOK
        <3>2. (\E u \in Thread : com[u] = c) /\ step' = step /\ srefs'[c] = srefs[c] - 1
            BY <1>1, <2>2 DEF IInv, TypeOK
        <3> QED BY <2>1, <3>1, <3>2 DEF StateRefs
    <2>3. CASE c # com[t]
        <3>1. (\E u \in Thread : com'[u] = c) <=> \E u \in Thread : com[u] = c
            BY <2>3, CommitAssumption DEF IInv, TypeOK
        <3> QED BY <2>1, <2>3, <3>1 DEF StateRefs, IInv, TypeOK
    <2> QED BY <2>2, <2>3
<1>5. LocksCounted'
    BY FS_EmptySet DEF IInv, TypeOK, LocksCounted
<1>6. \A c \in Commit : Marked(c)' <=> Marked(c)
    BY DEF IInv, TypeOK, Marked
<1>7. MarkedDisjoint' /\ PendingPointwise' /\ DirtyOwned'
    BY <1>6 DEF IInv, MarkedDisjoint, PendingPointwise, DirtyOwned
<1> QED BY <1>2, <1>3, <1>4, <1>5, <1>7 DEF IInv

\* msm_atomic_commit takes a commit that nobody refers to.
LEMMA CallInv == ASSUME IInv, NEW t \in Thread, NEW c \in Commit, Call(t, c) PROVE IInv'
<1> USE DEF Call
<1>1. com[t] = None /\ \A u \in Thread : com[u] # c
    BY DEF IInv, TypeOK, ComOwned, RefsExact, StateRefs
<1>2. TypeOK'
    BY DEF IInv, TypeOK, UserPc, CommitStepName
<1>3. ComOwned'
    BY <1>1, CommitAssumption DEF IInv, TypeOK, ComOwned
<1>4. StepOfPc'
    BY <1>1 DEF IInv, TypeOK, StepOfPc, ComOwned
<1>5. RefsExact'
    <2> SUFFICES ASSUME NEW d \in Commit PROVE srefs'[d] = StateRefs(d)'
        BY DEF RefsExact
    <2>1. srefs[d] = StateRefs(d) /\ srefs[d] \in Nat
        BY DEF IInv, RefsExact, TypeOK
    <2>2. CASE d = c
        BY <2>2 DEF StateRefs, IInv, TypeOK, InFlight, Running
    <2>3. CASE d # c
        <3>1. (\E u \in Thread : com'[u] = d) <=> \E u \in Thread : com[u] = d
            BY <1>1, <2>3, CommitAssumption DEF IInv, TypeOK
        <3> QED BY <2>1, <2>3, <3>1 DEF StateRefs, IInv, TypeOK
    <2> QED BY <2>2, <2>3
<1>6. LocksCounted'
    BY DEF IInv, TypeOK, LocksCounted
<1>7. ~Marked(c) /\ ~Marked(c)'
    BY <1>1, Unmarked DEF IInv, TypeOK, Marked, InFlight, Running
<1>8. \A d \in Commit \ {c} : (Marked(d)' <=> Marked(d)) /\ job'[d] = job[d]
    BY <1>1 DEF IInv, TypeOK, Marked
<1>9. MarkedDisjoint' /\ PendingPointwise'
    BY <1>7, <1>8 DEF IInv, MarkedDisjoint, PendingPointwise
<1>10. DirtyOwned'
    BY DEF IInv, TypeOK, DirtyOwned
<1> QED BY <1>2, <1>3, <1>4, <1>5, <1>6, <1>9, <1>10 DEF IInv

\* The wait has found no mark of another commit on the objects it marks.
LEMMA MarkInv == ASSUME IInv, NEW t \in Thread, Mark(t) PROVE IInv'
<1> DEFINE c == com[t]
<1> USE DEF Mark
<1>1. c \in Commit /\ (\A u \in Thread \ {t} : com[u] # c) /\ step[c] = "init"
    BY OwnCommit DEF Asking, IInv, StepOfPc
<1>2. job[c] \in Request \cup {NoRequest}
    BY <1>1 DEF IInv, TypeOK
<1>3. TypeOK'
    BY <1>2, ObjsTyped DEF IInv, TypeOK, UserPc
<1>4. ComOwned' /\ StepOfPc'
    BY <1>1 DEF IInv, TypeOK, ComOwned, StepOfPc
<1>5. RefsExact' /\ DirtyOwned'
    BY DEF IInv, RefsExact, StateRefs, DirtyOwned
<1>6. LocksCounted'
    BY DEF IInv, TypeOK, LocksCounted
<1>7. ~Marked(c) /\ Marked(c)'
    BY <1>1 DEF IInv, TypeOK, Marked, InFlight, Running
<1>8. \A d \in Commit \ {c} : Marked(d)' <=> Marked(d)
    BY <1>1 DEF IInv, TypeOK, Marked
<1>9. MarkedDisjoint'
    <2>1. \A d \in Commit \ {c} : Marked(d) => Objs(job[d]) \cap Objs(job[c]) = {}
        <3> SUFFICES ASSUME NEW d \in Commit, Marked(d) PROVE Objs(job[d]) \subseteq pending
            BY <1>1
        <3>1. Objs(job[d]) \subseteq Obj
            BY ObjsTyped DEF IInv, TypeOK
        <3> QED BY <3>1 DEF IInv, PendingPointwise
    <2> QED BY <1>1, <1>8, <2>1 DEF IInv, MarkedDisjoint
<1>10. PendingPointwise'
    BY <1>1, <1>7, <1>8 DEF IInv, PendingPointwise
<1> QED BY <1>3, <1>4, <1>5, <1>6, <1>9, <1>10 DEF IInv

\* An interrupted wait has marked nothing.
LEMMA InterruptedInv == ASSUME IInv, NEW t \in Thread, Interrupted(t) PROVE IInv'
<1> DEFINE c == com[t]
<1> USE DEF Interrupted
<1>1. c \in Commit /\ (\A u \in Thread \ {t} : com[u] # c) /\ step[c] = "init"
    BY OwnCommit DEF Asking, IInv, StepOfPc
<1>2. TypeOK'
    BY <1>1 DEF IInv, TypeOK, UserPc, CommitStepName
<1>3. ComOwned' /\ StepOfPc'
    BY <1>1 DEF IInv, TypeOK, ComOwned, StepOfPc
<1>4. RefsExact'
    BY <1>1 DEF IInv, TypeOK, RefsExact, StateRefs, InFlight, Running
<1>5. LocksCounted'
    BY DEF IInv, TypeOK, LocksCounted
<1>6. \A d \in Commit : Marked(d)' <=> Marked(d)
    BY <1>1 DEF IInv, TypeOK, Marked, InFlight, Running
<1>7. MarkedDisjoint' /\ PendingPointwise'
    BY <1>6 DEF IInv, MarkedDisjoint, PendingPointwise
<1>8. DirtyOwned'
    BY <1>1 DEF IInv, TypeOK, DirtyOwned
<1> QED BY <1>2, <1>3, <1>4, <1>5, <1>7, <1>8 DEF IInv

\* The marks of the thread become those of a commit in flight.
LEMMA SwapInv == ASSUME IInv, NEW t \in Thread, Swap(t) PROVE IInv'
<1> DEFINE c == com[t]
<1> USE DEF Swap
<1>1. c \in Commit /\ (\A u \in Thread \ {t} : com[u] # c) /\ step[c] = "init"
    BY OwnCommit DEF Asking, IInv, StepOfPc
<1>2. Objs(job[c]) \subseteq Obj
    BY <1>1, ObjsTyped DEF IInv, TypeOK
<1>3. pc'[t] \in {"sync", "return", "flush"} /\ (pc'[t] = "flush" => ~job[c].nonblock)
    BY DEF IInv, TypeOK
<1>4. TypeOK'
    <2>1. pc' \in [Thread -> UserPc]
        BY DEF IInv, TypeOK, UserPc
    <2>2. step' \in [Commit -> CommitStepName] /\ srefs' \in [Commit -> Nat]
        BY <1>1 DEF IInv, TypeOK, CommitStepName, InFlight
    <2> QED BY <1>2, <2>1, <2>2 DEF IInv, TypeOK
<1>5. ComOwned'
    BY <1>3 DEF IInv, TypeOK, ComOwned
<1>6. StepOfPc'
    BY <1>1, <1>3 DEF IInv, TypeOK, StepOfPc, ComOwned, InFlight
<1>7. RefsExact'
    <2> SUFFICES ASSUME NEW d \in Commit PROVE srefs'[d] = StateRefs(d)'
        BY DEF RefsExact
    <2>1. srefs[d] = StateRefs(d) /\ srefs[d] \in Nat
        BY DEF IInv, RefsExact, TypeOK
    <2> QED BY <1>1, <2>1 DEF StateRefs, IInv, TypeOK, InFlight, Running
<1>8. LocksCounted'
    BY <1>3 DEF IInv, TypeOK, LocksCounted
<1>9. Marked(c) /\ Marked(c)'
    BY <1>1 DEF IInv, TypeOK, Marked, InFlight
<1>10. \A d \in Commit : Marked(d)' <=> Marked(d)
    BY <1>1, <1>9 DEF IInv, TypeOK, Marked
<1>11. MarkedDisjoint' /\ PendingPointwise'
    BY <1>10 DEF IInv, MarkedDisjoint, PendingPointwise
<1>12. DirtyOwned'
    BY <1>1 DEF IInv, TypeOK, DirtyOwned
<1> QED BY <1>4, <1>5, <1>6, <1>7, <1>8, <1>11, <1>12 DEF IInv

\* A blocking commit is freed by its own thread.
LEMMA FlushedInv == ASSUME IInv, NEW t \in Thread, Flushed(t) PROVE IInv'
<1> DEFINE c == com[t]
<1> USE DEF Flushed
<1>1. c \in Commit /\ (\A u \in Thread \ {t} : com[u] # c)
    BY OwnCommit DEF Asking
<1>2. TypeOK'
    BY <1>1 DEF IInv, TypeOK, UserPc, CommitStepName
<1>3. ComOwned' /\ StepOfPc'
    BY <1>1 DEF IInv, TypeOK, ComOwned, StepOfPc
<1>4. RefsExact'
    BY <1>1 DEF IInv, TypeOK, RefsExact, StateRefs, InFlight, Running
<1>5. LocksCounted'
    BY DEF IInv, TypeOK, LocksCounted
<1>6. \A d \in Commit : Marked(d)' <=> Marked(d)
    BY <1>1 DEF IInv, TypeOK, Marked, InFlight, Running
<1>7. MarkedDisjoint' /\ PendingPointwise'
    BY <1>6 DEF IInv, MarkedDisjoint, PendingPointwise
<1>8. DirtyOwned'
    BY <1>1 DEF IInv, TypeOK, DirtyOwned
<1> QED BY <1>2, <1>3, <1>4, <1>5, <1>7, <1>8 DEF IInv

-----------------------------------------------------------------------------
(***************************************************************************)
(* complete_commit.                                                        *)
(***************************************************************************)
\* complete_commit up to commit_destroy.
LEMMA ForwardInv ==
    ASSUME IInv, NEW c \in Commit, Start(c) \/ Apply(c) \/ Finish(c)
    PROVE  IInv'
<1> USE DEF users, InFlight, Running
<1>1. /\ step[c] \in InFlight /\ UNCHANGED <<pc, req, com, holds, older, job, pending>>
      /\ step' = [step EXCEPT ![c] = step'[c]]
      /\ step'[c] \in Running
    BY DEF Start, Apply, Finish, IInv, TypeOK
<1>2. RefsExact' /\ srefs' \in [Commit -> Nat]
    <2>1. CASE Start(c) \/ Apply(c)
        BY <2>1 DEF Start, Apply, IInv, TypeOK, RefsExact, StateRefs
    <2>2. CASE Finish(c)
        <3>1. srefs[c] \in Nat /\ srefs[c] >= 1
            BY <2>2 DEF Finish, IInv, TypeOK, RefsExact, StateRefs
        <3>2. srefs' \in [Commit -> Nat]
            BY <2>2, <3>1 DEF Finish, IInv, TypeOK
        <3>3. ASSUME NEW d \in Commit PROVE srefs'[d] = StateRefs(d)'
            <4>1. srefs[d] = StateRefs(d) /\ srefs[d] \in Nat
                BY DEF IInv, RefsExact, TypeOK
            <4> QED BY <2>2, <4>1 DEF Finish, StateRefs, IInv, TypeOK
        <3> QED BY <3>2, <3>3 DEF RefsExact
    <2> QED BY <2>1, <2>2
<1>3. DirtyOwned' /\ dirty' \subseteq Obj
    BY DEF Start, Apply, Finish, IInv, TypeOK, DirtyOwned
<1>4. TypeOK'
    BY <1>1, <1>2, <1>3 DEF IInv, TypeOK, CommitStepName
<1>5. ComOwned' /\ LocksCounted'
    BY <1>1 DEF IInv, ComOwned, LocksCounted
<1>6. StepOfPc'
    <2>1. \A d \in Commit : step'[d] = step[d] \/ {step[d], step'[d]} \subseteq InFlight
        BY <1>1 DEF IInv, TypeOK
    <2>2. \A t \in Thread : pc[t] \notin Asking => com[t] \in Commit
        BY OwnCommit
    <2> QED BY <1>1, <2>1, <2>2 DEF IInv, StepOfPc, Asking
<1>7. \A d \in Commit : Marked(d)' <=> Marked(d)
    BY <1>1 DEF IInv, TypeOK, Marked
<1>8. MarkedDisjoint' /\ PendingPointwise'
    BY <1>1, <1>7 DEF IInv, MarkedDisjoint, PendingPointwise
<1> QED BY <1>2, <1>3, <1>4, <1>5, <1>6, <1>8 DEF IInv

\* commit_destroy clears the marks of its commit and of no other.
LEMMA DestroyInv == ASSUME IInv, NEW c \in Commit, Destroy(c) PROVE IInv'
<1> USE DEF Destroy
<1>1. step'[c] \in {"free", "done"} /\ (~job[c].nonblock => step'[c] = "done")
    BY DEF IInv, TypeOK
<1>2. \A d \in Commit \ {c} : step'[d] = step[d]
    BY DEF IInv, TypeOK
<1>3. \A t \in Thread :
         \/ pc'[t] = pc[t] /\ ~(pc[t] = "sync" /\ com[t] = c)
         \/ /\ pc[t] = "sync" /\ com[t] = c
            /\ pc'[t] \in {"return", "flush"} /\ (pc'[t] = "flush" => ~job[c].nonblock)
    OBVIOUS
<1>4. TypeOK'
    <2>1. pc' \in [Thread -> UserPc]
        BY DEF IInv, TypeOK, UserPc
    <2>2. step' \in [Commit -> CommitStepName]
        BY DEF IInv, TypeOK, CommitStepName
    <2> QED BY <2>1, <2>2 DEF IInv, TypeOK
<1>5. ComOwned'
    BY <1>3 DEF IInv, TypeOK, ComOwned
<1>6. StepOfPc'
    <2> SUFFICES ASSUME NEW t \in Thread
                 PROVE /\ pc'[t] \in {"conn", "backoff", "wait", "swap"} => step'[com[t]] = "init"
                       /\ pc'[t] = "sync" => step'[com[t]] \in InFlight
                       /\ pc'[t] = "flush" =>
                            step'[com[t]] \in InFlight \cup {"done"} /\ ~job[com[t]].nonblock
        BY DEF StepOfPc, Destroy
    <2>1. pc[t] \notin Asking => com[t] \in Commit
        BY OwnCommit
    <2> QED BY <1>1, <1>2, <1>3, <2>1 DEF IInv, StepOfPc, Asking
<1>7. RefsExact'
    BY <1>1, <1>2 DEF IInv, TypeOK, RefsExact, StateRefs, InFlight, Running
<1>8. LocksCounted'
    BY <1>3 DEF IInv, LocksCounted
<1>9. Marked(c) /\ ~Marked(c)'
    BY <1>1, <1>3 DEF IInv, StepOfPc, Marked, InFlight, Running
<1>10. \A d \in Commit \ {c} : Marked(d)' <=> Marked(d)
    BY <1>2, <1>3 DEF Marked
<1>11. MarkedDisjoint'
    BY <1>9, <1>10 DEF IInv, MarkedDisjoint
<1>12. PendingPointwise'
    BY <1>9, <1>10 DEF IInv, PendingPointwise, MarkedDisjoint
<1>13. DirtyOwned'
    BY <1>2 DEF IInv, DirtyOwned
<1> QED BY <1>4, <1>5, <1>6, <1>7, <1>8, <1>11, <1>12, <1>13 DEF IInv

-----------------------------------------------------------------------------
(***************************************************************************)
(* The theorems.                                                           *)
(***************************************************************************)
\* A stuttering step keeps the invariant.
LEMMA StutterInv == IInv /\ UNCHANGED vars => IInv'
<1> SUFFICES ASSUME IInv, UNCHANGED vars PROVE IInv'
    OBVIOUS
<1> USE DEF vars, users, commits
<1>1. TypeOK' /\ ComOwned' /\ StepOfPc' /\ LocksCounted'
    BY DEF IInv, TypeOK, ComOwned, StepOfPc, LocksCounted
<1>2. RefsExact' /\ DirtyOwned'
    BY DEF IInv, RefsExact, StateRefs, DirtyOwned
<1>3. MarkedDisjoint' /\ PendingPointwise'
    BY DEF IInv, MarkedDisjoint, PendingPointwise, Marked
<1> QED BY <1>1, <1>2, <1>3 DEF IInv

\* Every step keeps the invariant.
LEMMA NextInv == IInv /\ [Next]_vars => IInv'
<1> SUFFICES ASSUME IInv, Next PROVE IInv'
    BY StutterInv
<1>1. ASSUME NEW t \in Thread, UserStep(t) \/ LockStep(t) \/ Signal(t) \/ \E r \in Request : Begin(t, r)
      PROVE  IInv'
    <2>1. CASE QuietStep(t)
        BY <2>1, QuietInv
    <2>2. CASE \E c \in Commit : Call(t, c)
        BY <2>2, CallInv
    <2>3. CASE Return(t) \/ Mark(t) \/ Swap(t) \/ Flushed(t) \/ Interrupted(t)
        BY <2>3, ReturnInv, MarkInv, SwapInv, FlushedInv, InterruptedInv
    <2> QED BY <1>1, <2>1, <2>2, <2>3 DEF UserStep, LockStep, Signal, QuietStep
<1>2. ASSUME NEW c \in Commit, CommitStep(c) PROVE IInv'
    BY <1>2, ForwardInv, DestroyInv DEF CommitStep
<1> QED BY <1>1, <1>2 DEF Next

\* The inductive invariant of the atomic commit path.
THEOREM Invariant == Spec => []IInv
BY InitInv, NextInv, PTL DEF Spec

\* The state of threads, commits and marks is well typed, for any number of
\* threads, objects, commits and requests.
THEOREM TypeCorrect == Spec => []TypeOK
<1>1. IInv => TypeOK
    BY DEF IInv
<1> QED BY <1>1, Invariant, PTL

\* Commits in flight share no CRTC and no plane, whatever backoffs and signals
\* msm_atomic_commit met on the way.
THEOREM AlwaysExclusive == Spec => []Exclusive
<1>1. IInv => Exclusive
    BY DEF IInv, MarkedDisjoint, Marked, Exclusive
<1> QED BY <1>1, Invariant, PTL

\* pending_crtcs and pending_planes are exactly what the commits in flight and the
\* threads about to swap have marked.
THEOREM MarksExact == Spec => []PendingExact
<1>1. IInv => PendingExact
    <2> SUFFICES ASSUME IInv PROVE PendingExact
        OBVIOUS
    <2>1. pending \subseteq Obj /\ \A c \in Commit : Objs(job[c]) \subseteq Obj
        BY ObjsTyped DEF IInv, TypeOK
    <2>2. \A o : o \in pending <=> \E c \in {d \in Commit : Marked(d)} : o \in Objs(job[c])
        BY <2>1 DEF IInv, PendingPointwise
    <2> QED BY <2>2 DEF PendingExact
<1> QED BY <1>1, Invariant, PTL

\* When nothing is pending for an object the hardware shows its current state.
THEOREM HardwareFollows == Spec => []HardwareCurrent
<1>1. IInv => HardwareCurrent
    <2> SUFFICES ASSUME IInv, NEW o \in dirty PROVE o \in pending
        BY DEF HardwareCurrent
    <2>1. PICK c \in Commit : step[c] \in {"queued", "running"} /\ o \in Objs(job[c])
        BY DEF IInv, DirtyOwned
    <2>2. Marked(c) /\ o \in Obj
        BY <2>1 DEF Marked, InFlight, Running, IInv, TypeOK
    <2> QED BY <2>1, <2>2 DEF IInv, PendingPointwise
<1> QED BY <1>1, Invariant, PTL

\* The references to every atomic state are those of its ioctl and of the thread
\* that carries it out, and no thread uses a commit that was freed.
THEOREM NothingUsedAfterFree == Spec => []CommitAlive
<1>1. IInv => CommitAlive
    <2> SUFFICES ASSUME IInv PROVE CommitAlive
        OBVIOUS
    <2>1. \A t \in Thread : pc[t] \notin Asking => com[t] # None
        BY DEF IInv, ComOwned, Asking
    <2>2. \A t \in Thread : pc[t] \notin Asking \cup {"return"} => step[com[t]] # "free"
        BY DEF IInv, TypeOK, UserPc, StepOfPc, Asking, InFlight, Running
    <2> QED BY <2>1, <2>2 DEF IInv, RefsExact, CommitAlive, Asking
<1> QED BY <1>1, Invariant, PTL

-----------------------------------------------------------------------------
(***************************************************************************)
(* One job per display thread.                                             *)
(***************************************************************************)
\* A commit with CRTCs is handed to the display thread of one of them.
LEMMA FirstIsMember ==
    ASSUME NEW S \in SUBSET Crtc, S # {}
    PROVE  First(S) \in S
<1> DEFINE Below(c) == 1 .. Index[c]
           T == {Below(c) : c \in S}
           R == StrictSubsetOrdering(Nat)
<1>1. \A c \in S : Index[c] \in Nat
    BY IndexAssumption
<1>2. T \subseteq FiniteSubsetsOf(Nat) /\ T # {}
    <2>1. \A c \in S : Below(c) \subseteq Nat /\ IsFiniteSet(Below(c))
        BY <1>1, FS_Interval
    <2> QED BY <2>1 DEF FiniteSubsetsOf
<1>3. \E x \in T : \A y \in T : ~ (<<y, x>> \in R)
    <2>1. IsWellFoundedOn(R, FiniteSubsetsOf(Nat))
        BY FS_StrictSubsetOrderingWellFounded
    <2> HIDE DEF T, R
    <2> QED BY <1>2, <2>1, WFMin
<1>4. PICK c \in S : \A d \in S : ~ (<<Below(d), Below(c)>> \in R)
    BY <1>3
<1>5. ASSUME NEW d \in S, Index[d] < Index[c] PROVE FALSE
    <2>1. Index[c] \in Nat /\ Index[d] \in Nat
        BY <1>1
    <2>2. Below(d) \subseteq Below(c) /\ Below(c) \subseteq Nat
        BY <1>5, <2>1
    <2>3. Index[c] \in Below(c) /\ Index[c] \notin Below(d)
        BY <1>5, <2>1
    <2>4. <<Below(d), Below(c)>> \in R
        BY <2>2, <2>3 DEF StrictSubsetOrdering
    <2> QED BY <1>4, <2>4
<1>6. \A d \in S : Index[c] <= Index[d]
    BY <1>1, <1>5
<1> QED BY <1>6 DEF First

\* A display thread has at most one commit, queued or running.
THEOREM AtMostOneJob == Spec => []OneJob
<1>1. IInv => OneJob
    <2> SUFFICES ASSUME IInv, NEW c \in Commit, NEW d \in Commit,
                        step[c] \in InFlight, step[d] \in InFlight, c # d, SameThread(c, d)
                 PROVE  FALSE
        BY DEF OneJob
    <2>1. job[c].crtcs \subseteq Crtc /\ job[d].crtcs \subseteq Crtc
        BY RequestAssumption DEF IInv, TypeOK, NoRequest
    <2>2. First(job[c].crtcs) \in Objs(job[c]) \cap Objs(job[d])
        BY <2>1, FirstIsMember DEF SameThread, Objs
    <2> QED BY <2>2 DEF IInv, MarkedDisjoint, Marked
<1> QED BY <1>1, Invariant, PTL

-----------------------------------------------------------------------------
(***************************************************************************)
(* MsmAtomic implements MsmCommitOrder.                                    *)
(***************************************************************************)
Visible(c) == step[c] \in InFlight /\ Objs(job[c]) # {}
Entry(c) ==
    [objs |-> Objs(job[c]),
     on |-> IF step[c] \in {"shown", "finished"} THEN "hardware" ELSE "software"]

\* The commits in flight, as elements of the refinement mapping.
LEMMA FlightEntries == \A f : f \in Flight <=> \E c \in Commit : Visible(c) /\ f = Entry(c)
BY DEF Flight, Visible, Entry

\* The same in the next state.
LEMMA FlightEntriesNext ==
    \A f : f \in Flight' <=> \E c \in Commit : Visible(c)' /\ f = Entry(c)'
BY DEF Flight, Visible, Entry

\* Two commits in flight have different entries.
LEMMA EntriesDisjoint ==
    ASSUME IInv, NEW c \in Commit, NEW d \in Commit, Visible(c), Visible(d), c # d
    PROVE  Entry(c).objs \cap Entry(d).objs = {} /\ Entry(c) # Entry(d)
BY DEF IInv, MarkedDisjoint, Marked, Visible, Entry

\* A step that moves no commit in or out of flight, nor to the hardware.
LEMMA FlightSame ==
    ASSUME \A c \in Commit : (Visible(c)' <=> Visible(c)) /\ (Visible(c) => Entry(c)' = Entry(c))
    PROVE  Flight' = Flight
BY FlightEntries, FlightEntriesNext

\* A step of a user thread opens a commit or changes nothing in flight.
LEMMA UserStepOrder ==
    ASSUME IInv, NEW t \in Thread,
           UserStep(t) \/ LockStep(t) \/ Signal(t) \/ \E r \in Request : Begin(t, r)
    PROVE  [Order!Next]_Flight
<1> USE DEF Visible, Entry, InFlight, Running
<1>1. CASE QuietStep(t)
    <2>1. UNCHANGED <<step, job>>
        BY <1>1, QuietFrame DEF commits
    <2> QED BY <2>1, FlightSame
<1>2. CASE Return(t) \/ Mark(t)
    BY <1>2, FlightSame DEF Return, Mark
<1>3. ASSUME NEW c \in Commit, Call(t, c) PROVE Flight' = Flight
    BY <1>3, FlightSame DEF Call, IInv, TypeOK
<1>4. CASE Interrupted(t) \/ Flushed(t)
    <2>1. com[t] \in Commit /\ step[com[t]] \in {"init", "done"}
        BY <1>4, OwnCommit DEF Interrupted, Flushed, Asking, IInv, StepOfPc
    <2>2. step' = [step EXCEPT ![com[t]] = "free"] /\ job' = job
        BY <1>4 DEF Interrupted, Flushed
    <2> QED BY <2>1, <2>2, FlightSame DEF IInv, TypeOK
<1>5. CASE Swap(t)
    <2>1. PICK c \in Commit : c = com[t] /\ step[c] = "init"
        BY <1>5, OwnCommit DEF Swap, Asking, IInv, StepOfPc
    <2>2. step' = [step EXCEPT ![c] = "queued"] /\ job' = job
        BY <1>5, <2>1 DEF Swap
    <2>3. \A d \in Commit \ {c} : (Visible(d)' <=> Visible(d)) /\ Entry(d)' = Entry(d)
        BY <2>1, <2>2 DEF IInv, TypeOK
    <2>4. /\ ~Visible(c) /\ (Visible(c)' <=> Objs(job[c]) # {})
          /\ Entry(c)' = [objs |-> Objs(job[c]), on |-> "software"]
        BY <2>1, <2>2 DEF IInv, TypeOK
    <2>5. CASE Objs(job[c]) = {}
        <3>1. ~Visible(c)'
            BY <2>4, <2>5
        <3> HIDE DEF Visible, Entry
        <3> QED BY <2>3, <2>4, <3>1, FlightSame
    <2>6. CASE Objs(job[c]) # {}
        <3>1. Flight' = Flight \cup {[objs |-> Objs(job[c]), on |-> "software"]}
            <4>1. Visible(c)'
                BY <2>4, <2>6
            <4> HIDE DEF Visible, Entry
            <4> QED BY <2>3, <2>4, <4>1, FlightEntries, FlightEntriesNext
        <3>2. Marked(c)
            BY <1>5, <2>1 DEF Swap, Marked
        <3>3. \A f \in Flight : f.objs \cap Objs(job[c]) = {}
            BY <2>4, <3>2, FlightEntries DEF IInv, MarkedDisjoint, Marked
        <3>4. Objs(job[c]) \in (SUBSET Obj) \ {{}}
            BY <2>6, ObjsTyped DEF IInv, TypeOK
        <3> QED BY <3>1, <3>3, <3>4 DEF Order!Next, Order!Open
    <2> QED BY <2>5, <2>6
<1> QED BY <1>1, <1>2, <1>3, <1>4, <1>5 DEF UserStep, LockStep, Signal, QuietStep

\* A step of a commit shows it, closes it or changes nothing in flight.
LEMMA CommitStepOrder ==
    ASSUME IInv, NEW c \in Commit, CommitStep(c)
    PROVE  [Order!Next]_Flight
<1> USE DEF Visible, Entry, InFlight, Running
<1>1. step' = [step EXCEPT ![c] = step'[c]] /\ job' = job /\ step[c] \in InFlight
    BY DEF CommitStep, Start, Apply, Finish, Destroy, IInv, TypeOK
<1>2. \A d \in Commit \ {c} : (Visible(d)' <=> Visible(d)) /\ Entry(d)' = Entry(d)
    BY <1>1 DEF IInv, TypeOK
<1>3. CASE Objs(job[c]) = {}
    <2>1. ~Visible(c) /\ ~Visible(c)'
        BY <1>1, <1>3
    <2> QED BY <1>2, <2>1, FlightSame
<1>4. CASE Objs(job[c]) # {} /\ (Start(c) \/ Finish(c))
    <2>1. Visible(c) /\ Visible(c)' /\ Entry(c)' = Entry(c)
        BY <1>1, <1>4 DEF Start, Finish, IInv, TypeOK
    <2> QED BY <1>2, <2>1, FlightSame
<1>5. CASE Objs(job[c]) # {} /\ Apply(c)
    <2>1. /\ Visible(c) /\ Visible(c)' /\ Entry(c).on = "software"
          /\ Entry(c)' = [Entry(c) EXCEPT !.on = "hardware"]
        BY <1>1, <1>5 DEF Apply, IInv, TypeOK
    <2>2. Entry(c) \in Flight
        BY <2>1, FlightEntries
    <2>3. \A d \in Commit : Visible(d) /\ d # c => Entry(d) # Entry(c)
        BY <2>1, EntriesDisjoint
    <2> HIDE DEF Visible, Entry
    <2>4. Flight' = (Flight \ {Entry(c)}) \cup {[Entry(c) EXCEPT !.on = "hardware"]}
        BY <1>2, <2>1, <2>3, FlightEntries, FlightEntriesNext
    <2> QED BY <2>1, <2>2, <2>4 DEF Order!Next, Order!Show
<1>6. CASE Objs(job[c]) # {} /\ Destroy(c)
    <2>1. Visible(c) /\ ~Visible(c)' /\ Entry(c).on = "hardware"
        BY <1>1, <1>6 DEF Destroy, IInv, TypeOK
    <2>2. Entry(c) \in Flight
        BY <2>1, FlightEntries
    <2>3. \A d \in Commit : Visible(d) /\ d # c => Entry(d) # Entry(c)
        BY <2>1, EntriesDisjoint
    <2> HIDE DEF Visible, Entry
    <2>4. Flight' = Flight \ {Entry(c)}
        BY <1>2, <2>1, <2>3, FlightEntries, FlightEntriesNext
    <2> QED BY <2>1, <2>2, <2>4 DEF Order!Next, Order!Close
<1> QED BY <1>3, <1>4, <1>5, <1>6 DEF CommitStep

\* The atomic commit path implements MsmCommitOrder: what is in flight changes by
\* opening, showing and closing commits that share no object.
THEOREM ImplementsOrder == Spec => OrderSpec
<1>1. Init => Order!Init
    BY DEF Init, Order!Init, Flight, InFlight, Running
<1>2. IInv /\ [Next]_vars => [Order!Next]_Flight
    <2> SUFFICES ASSUME IInv, [Next]_vars PROVE [Order!Next]_Flight
        OBVIOUS
    <2>1. CASE UNCHANGED vars
        BY <2>1, FlightSame DEF vars, commits, Visible, Entry
    <2>2. CASE Next
        BY <2>2, UserStepOrder, CommitStepOrder DEF Next
    <2> QED BY <2>1, <2>2
<1> QED BY <1>1, <1>2, Invariant, PTL DEF Spec, OrderSpec, Order!Spec

=============================================================================
