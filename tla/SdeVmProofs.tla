----------------------------- MODULE SdeVmProofs -----------------------------
(***************************************************************************)
(* Proofs about the hand-over of the display between the virtual machines, *)
(* for any number of interrupts, lends and failures of any calls.          *)
(***************************************************************************)
EXTENDS SdeVm, TLAPS

USE DEF VMs, Reqs, Irqs, FaultKinds, Where, PrimaryOps, TrustedOps, Goto, Go, End, Drop,
        Asked, hyp, own, state, checked

Shape(v) ==
    /\ job[v] # "idle" => job[v] = req[v]
    /\ job[v] \in {"RELEASE", "ACQUIRE"} => v \notin unseen
    /\ Asked(v) \in {"NONE", "RELEASE"} => req[v] # "RELEASE"
    /\ Asked(v) = "ACQUIRE" => req[v] = "RELEASE" /\ job[v] = "idle"
    /\ IF op[v] = "free" THEN by[v] = "client"
       ELSE IF by[v] = "client" THEN Asked(v) = "ACQUIRE"
       ELSE job[v] = "RELEASE" /\ Asked(v) \in {"idle", "off"}

\* A VM that may use the hardware, by the requests that were looked at: of its CRTC, of the
\* commit under way and of the one that is checked.
Entitled(v) ==
    /\ op[v] = "free"
    /\ \/ req[v] # "RELEASE" /\ v \notin unseen
       \/ job[v] = "RELEASE"
       \/ Asked(v) \in {"RELEASE", "ACQUIRE"}
       \/ Asked(v) = "NONE" /\ req[v] # "NONE"

PrimaryShape ==
    /\ Shape("primary") /\ (Entitled("primary") => Owns("primary"))
    /\ op["primary"] \in {"lendmem", "notify", "lendirq"} => by["primary"] = "commit"

TrustedShape ==
    "stale" \notin past => Shape("trusted") /\ (Entitled("trusted") => Owns("trusted"))

Rest == \A i \in Irqs : i > n["primary"] => irq[i] = "primary"

PrimaryBooks ==
    /\ mem = "primary" <=> handle["primary"] < 0
    /\ \A i \in Irqs : i <= n["primary"] => irq[i] # "primary"
    /\ past \cap {"release", "reclaim"} = {} => Rest
    /\ op["primary"] \in {"lendmem", "reclaimirq"} => handle["primary"] < 0
    /\ op["primary"] = "lendirq" => handle["primary"] >= 0
    /\ op["primary"] \in {"lendmem", "notify"} => n["primary"] = 0

TrustedBooks ==
    /\ \A i \in Irqs : irq[i] = "accepted" <=> i <= n["trusted"]
    /\ op["trusted"] = "acceptirq" =>
           /\ mem = "accepted" /\ next <= n["trusted"] + 1
           /\ handle["trusted"] >= 0 /\ handle["trusted"] = lends
    /\ "release" \notin past =>
        /\ mem = "accepted" => handle["trusted"] = lends
        /\ mem # "accepted" => n["trusted"] = 0
        /\ op["trusted"] = "releasemem" => n["trusted"] = 0
        /\ op["trusted"] = "free" /\ mem = "accepted" => n["trusted"] = NIrq
        /\ op["trusted"] = "acceptmem" => mem # "accepted"
    /\ op["trusted"] # "acceptirq" => next = 1

\* What the trusted VM still counts as accepted lies behind memory it has, or it has no
\* handle and will get none: while an interrupt is accepted the primary VM, unless it lost
\* the interrupt, cannot lend the memory again.
Backed ==
    /\ op["primary"] = "notify" => mem = "lent"
    /\ n["trusted"] > 0 /\ "kept" \notin past =>
        /\ mem = "accepted"
        /\ handle["trusted"] = lends \/ (handle["trusted"] < 0 /\ notif = <<>>)

\* Notifications under way are of later lends than the one the trusted VM knows.
Notifs ==
    /\ \A i \in 1..Len(notif) : handle["trusted"] < notif[i] /\ notif[i] <= lends
    /\ \A i, j \in 1..Len(notif) : i < j => notif[i] < notif[j]
    /\ handle["trusted"] <= lends
    /\ op["primary"] = "notify" =>
        /\ handle["primary"] = lends /\ handle["trusted"] < lends /\ lends > 0
        /\ \A i \in 1..Len(notif) : notif[i] < lends

\* What it takes for the primary VM to be left without a request it may make.
Undone == past \cap {"power", "lend", "notify", "reclaim", "release", "left"} # {}

WayOut ==
    /\ op["primary"] \in {"reclaimmem", "reclaimirq"} /\ by["primary"] = "commit" => Undone
    /\ /\ op["primary"] = "free" /\ Asked("primary") \in {"idle", "off"}
       /\ job["primary"] = "idle" /\ "primary" \notin unseen
       /\ req["primary"] = "RELEASE" /\ ~Undone
       => handle["primary"] >= 0

IInv ==
    /\ TypeOK /\ PrimaryShape /\ TrustedShape /\ PrimaryBooks /\ TrustedBooks /\ Backed
    /\ Notifs /\ WayOut

-----------------------------------------------------------------------------
\* What a call of the hypervisor leaves behind.
LEMMA CallOutcome ==
    ASSUME NEW ok \in BOOLEAN, NEW possible \in BOOLEAN, NEW kind \in FaultKinds,
           Call(ok, possible, kind)
    PROVE  /\ ok => possible /\ past' = past
           /\ ~ok /\ possible => past' = past \cup {kind}
           /\ ~ok /\ ~possible => past' = past
  BY DEF Call, MayFail, Happened

\* No notification is under way of a lend later than the last one.
LEMMA NoneUnderWay ==
    ASSUME TypeOK, Notifs, handle["trusted"] = lends
    PROVE  notif = <<>>
<1> SUFFICES ASSUME notif # <<>> PROVE FALSE
  OBVIOUS
<1>1. 1 \in 1..Len(notif) /\ notif[1] \in Nat /\ lends \in Nat
  BY DEF TypeOK
<1>2. lends < notif[1] /\ notif[1] <= lends
  BY <1>1 DEF Notifs
<1> QED
  BY <1>1, <1>2

\* The end of an operation keeps the types of what the two threads do.
LEMMA EndKeepsTypes ==
    ASSUME TypeOK, NEW v \in VMs, NEW ok \in BOOLEAN, End(v, ok)
    PROVE  /\ by' \in [VMs -> {"client", "commit"}] /\ job' \in [VMs -> Reqs \cup {"idle"}]
           /\ client' \in [VMs -> Reqs \cup {"idle"}] /\ seen' \in [VMs -> BOOLEAN]
<1>1. by' \in [VMs -> {"client", "commit"}]
  BY DEF TypeOK
<1>2. CASE by[v] = "commit"
  <2>1. job' \in [VMs -> Reqs \cup {"idle"}] /\ client' = client /\ seen' = seen
    BY <1>2 DEF TypeOK
  <2> QED
    BY <1>1, <2>1 DEF TypeOK
<1>3. CASE by[v] # "commit" /\ ok
  BY <1>1, <1>3 DEF TypeOK
<1>4. CASE by[v] # "commit" /\ ~ok
  <2>1. /\ job' = job
        /\ client' = [client EXCEPT ![v] = "idle"] /\ seen' = [seen EXCEPT ![v] = FALSE]
    BY <1>4
  <2>2. client' \in [VMs -> Reqs \cup {"idle"}]
    BY <2>1 DEF TypeOK
  <2>3. seen' \in [VMs -> BOOLEAN]
    BY <2>1, Zenon DEF TypeOK
  <2> QED
    BY <1>1, <2>1, <2>2, <2>3 DEF TypeOK
<1> QED
  BY <1>2, <1>3, <1>4

\* The invariant is kept by lending the memory (_sde_vm_lend_mem).
LEMMA LendMemKeeps ==
    ASSUME NEW ok \in BOOLEAN, IInv, LendMem(ok)
    PROVE  IInv'
<1> DEFINE possible == TRUE
<1>0. /\ ok => possible /\ past' = past
      /\ ~ok /\ possible => past' = past \cup {"lend"}
      /\ ~ok /\ ~possible => past' = past
  <2>1. Call(ok, possible, "lend") /\ possible \in BOOLEAN /\ "lend" \in FaultKinds
    BY DEF LendMem, FaultKinds
  <2> QED
    BY <2>1, CallOutcome
<1>1. TypeOK'
  <2>1. /\ req' \in [VMs -> Reqs] /\ by' \in [VMs -> {"client", "commit"}]
        /\ client' \in [VMs -> Reqs \cup {"idle"}] /\ job' \in [VMs -> Reqs \cup {"idle"}]
        /\ active' \in [VMs -> BOOLEAN] /\ seen' \in [VMs -> BOOLEAN] /\ unseen' \subseteq VMs
    BY DEF IInv, LendMem, TypeOK
  <2>2. /\ op' \in [VMs -> PrimaryOps \cup TrustedOps]
        /\ op'["primary"] \in PrimaryOps /\ op'["trusted"] \in TrustedOps
    BY DEF IInv, LendMem, TypeOK
  <2>3. /\ handle' \in [VMs -> Int] /\ n' \in [VMs -> 0..NIrq] /\ next' \in 1..(NIrq + 1)
    BY DEF IInv, LendMem, TypeOK
  <2>4. /\ mem' \in Where /\ irq' \in [Irqs -> Where] /\ lends' \in Nat
    BY DEF IInv, LendMem, TypeOK
  <2>5. notif' \in Seq(Nat)
    BY DEF IInv, LendMem, TypeOK
  <2>6. past' \subseteq FaultKinds \cup {"left", "stale", "kept"}
    BY <1>0 DEF IInv, TypeOK
  <2> QED
    BY <2>1, <2>2, <2>3, <2>4, <2>5, <2>6 DEF TypeOK
<1>2. PrimaryShape'
  BY DEF IInv, LendMem, TypeOK, PrimaryShape, Shape, Entitled
<1>3. TrustedShape'
  BY <1>0 DEF IInv, LendMem, TypeOK, TrustedShape, Shape, Entitled, Owns, TrustedOwns
<1>4. PrimaryBooks'
  BY <1>0 DEF IInv, LendMem, TypeOK, PrimaryBooks, Rest
<1>5. TrustedBooks'
  BY <1>0 DEF IInv, LendMem, TypeOK, TrustedBooks, PrimaryBooks
<1>6. Notifs'
  <2> QED
    BY DEF IInv, LendMem, TypeOK, Notifs
<1>7. WayOut'
  BY <1>0 DEF IInv, LendMem, TypeOK, WayOut, Undone
<1>8. Backed'
  BY <1>0 DEF IInv, LendMem, TypeOK, Backed, PrimaryBooks, TrustedBooks
<1> QED
  BY <1>1, <1>2, <1>3, <1>4, <1>5, <1>6, <1>7, <1>8 DEF IInv

\* The invariant is kept by the notification of the lend (_sde_vm_lend_mem).
LEMMA NotifyMemKeeps ==
    ASSUME NEW ok \in BOOLEAN, IInv, NotifyMem(ok)
    PROVE  IInv'
<1> DEFINE possible == TRUE
<1>0. /\ ok => possible /\ past' = past
      /\ ~ok /\ possible => past' = past \cup {"notify"}
      /\ ~ok /\ ~possible => past' = past
  <2>1. Call(ok, possible, "notify") /\ possible \in BOOLEAN /\ "notify" \in FaultKinds
    BY DEF NotifyMem, FaultKinds
  <2> QED
    BY <2>1, CallOutcome
<1>1. TypeOK'
  <2>1. /\ req' \in [VMs -> Reqs] /\ by' \in [VMs -> {"client", "commit"}]
        /\ client' \in [VMs -> Reqs \cup {"idle"}] /\ job' \in [VMs -> Reqs \cup {"idle"}]
        /\ active' \in [VMs -> BOOLEAN] /\ seen' \in [VMs -> BOOLEAN] /\ unseen' \subseteq VMs
    BY DEF IInv, NotifyMem, TypeOK
  <2>2. /\ op' \in [VMs -> PrimaryOps \cup TrustedOps]
        /\ op'["primary"] \in PrimaryOps /\ op'["trusted"] \in TrustedOps
    BY DEF IInv, NotifyMem, TypeOK
  <2>3. /\ handle' \in [VMs -> Int] /\ n' \in [VMs -> 0..NIrq] /\ next' \in 1..(NIrq + 1)
    BY DEF IInv, NotifyMem, TypeOK
  <2>4. /\ mem' \in Where /\ irq' \in [Irqs -> Where] /\ lends' \in Nat
    BY DEF IInv, NotifyMem, TypeOK
  <2>5. notif' \in Seq(Nat)
    BY DEF IInv, NotifyMem, TypeOK, Notifs
  <2>6. past' \subseteq FaultKinds \cup {"left", "stale", "kept"}
    BY <1>0 DEF IInv, TypeOK
  <2> QED
    BY <2>1, <2>2, <2>3, <2>4, <2>5, <2>6 DEF TypeOK
<1>2. PrimaryShape'
  BY DEF IInv, NotifyMem, TypeOK, PrimaryShape, Shape, Entitled
<1>3. TrustedShape'
  BY <1>0 DEF IInv, NotifyMem, TypeOK, TrustedShape, Shape, Entitled, Owns, TrustedOwns
<1>4. PrimaryBooks'
  BY <1>0 DEF IInv, NotifyMem, TypeOK, PrimaryBooks, Rest, Notifs
<1>5. TrustedBooks'
  BY <1>0 DEF IInv, NotifyMem, TypeOK, TrustedBooks
<1>6. Notifs'
  BY DEF IInv, NotifyMem, TypeOK, Notifs
<1>7. WayOut'
  BY <1>0 DEF IInv, NotifyMem, TypeOK, WayOut, Undone
<1>8. Backed'
  BY <1>0 DEF IInv, NotifyMem, TypeOK, Backed
<1> QED
  BY <1>1, <1>2, <1>3, <1>4, <1>5, <1>6, <1>7, <1>8 DEF IInv

\* The invariant is kept by lending an interrupt (_sde_vm_lend_irq).
LEMMA LendIrqKeeps ==
    ASSUME NEW ok \in BOOLEAN, IInv, LendIrq(ok)
    PROVE  IInv'
<1> DEFINE i == n["primary"] + 1
<1>a. i \in Irqs /\ i - 1 = n["primary"] /\ i > n["primary"]
  BY VmAssumption DEF IInv, LendIrq, TypeOK
<1>0. /\ ok => past' = past
      /\ past' \in {past, past \cup {"notify"}, past \cup {"lend"}}
      /\ ~ok /\ irq[i] = "primary" => past' # past \/ Undone
  BY DEF LendIrq, Call, MayFail, Happened, Undone
<1>u. ~ok => Undone'
  <2>1. irq[i] # "primary" => Undone
    BY <1>a DEF IInv, PrimaryBooks, Rest, Undone
  <2> QED
    BY <1>0, <2>1 DEF Undone
<1>b. \/ /\ irq[i] = "primary"
         /\ irq' = [irq EXCEPT ![i] = "lent"] /\ n' = [n EXCEPT !["primary"] = i]
      \/ ~ok /\ irq' = irq /\ n' = n
  BY DEF LendIrq
<1>c. \/ /\ irq[i] = "primary" /\ irq' \in [Irqs -> Where] /\ irq'[i] = "lent"
         /\ \A k \in Irqs : k # i => irq'[k] = irq[k]
         /\ n' \in [VMs -> 0..NIrq] /\ n'["primary"] = i /\ n'["trusted"] = n["trusted"]
      \/ ~ok /\ irq' = irq /\ n' = n
  <2> HIDE DEF i
  <2>1. CASE /\ irq[i] = "primary"
             /\ irq' = [irq EXCEPT ![i] = "lent"] /\ n' = [n EXCEPT !["primary"] = i]
    <3> QED
      BY <1>a, <2>1 DEF IInv, TypeOK
  <2> QED
    BY <1>b, <2>1
<1> HIDE DEF i
<1>1. TypeOK'
  BY <1>0, <1>c DEF IInv, LendIrq, TypeOK
<1>2. PrimaryShape'
  BY DEF IInv, LendIrq, TypeOK, PrimaryShape, Shape, Entitled
<1>3. TrustedShape'
  BY <1>0 DEF IInv, LendIrq, TypeOK, TrustedShape, Shape, Entitled, Owns, TrustedOwns
<1>4. PrimaryBooks'
  <2>1. past' \cap {"release", "reclaim"} = {} => past \cap {"release", "reclaim"} = {}
    BY <1>0
  <2>2. op'["primary"] \in {"lendirq", "reclaimmem"} /\ handle' = handle /\ mem' = mem
    BY DEF IInv, LendIrq, TypeOK
  <2>3. op["primary"] = "lendirq" /\ n["primary"] \in Nat
    BY DEF IInv, LendIrq, TypeOK
  <2> QED
    BY <1>a, <1>c, <2>1, <2>2, <2>3 DEF IInv, PrimaryBooks, Rest
<1>5. TrustedBooks'
  <2>1. \A k \in Irqs : irq'[k] = "accepted" <=> irq[k] = "accepted"
    BY <1>c
  <2>2. n'["trusted"] = n["trusted"]
    BY <1>c
  <2>3. "release" \in past' <=> "release" \in past
    BY <1>0
  <2>4. op'["trusted"] = op["trusted"] /\ UNCHANGED <<mem, handle, next, lends>>
    BY DEF IInv, LendIrq, TypeOK
  <2> QED
    BY <2>1, <2>2, <2>3, <2>4 DEF IInv, TrustedBooks
<1>6. Notifs'
  BY DEF IInv, LendIrq, TypeOK, Notifs
<1>7. WayOut'
  BY <1>0, <1>u DEF IInv, LendIrq, TypeOK, WayOut, Undone
<1>8. Backed'
  BY <1>0, <1>c DEF IInv, LendIrq, TypeOK, Backed
<1> QED
  BY <1>1, <1>2, <1>3, <1>4, <1>5, <1>6, <1>7, <1>8 DEF IInv

\* The invariant is kept by the end of the lends.
LEMMA LendDoneKeeps ==
    ASSUME IInv, LendDone
    PROVE  IInv'
<1>1. TypeOK'
  BY DEF IInv, LendDone, TypeOK
<1>2. PrimaryShape'
  BY DEF IInv, LendDone, TypeOK, PrimaryShape, Shape, Entitled
<1>3. TrustedShape'
  BY DEF IInv, LendDone, TypeOK, TrustedShape, Shape, Entitled, Owns, TrustedOwns
<1>4. PrimaryBooks'
  BY VmAssumption DEF IInv, LendDone, TypeOK, PrimaryBooks, Rest
<1>5. TrustedBooks'
  BY DEF IInv, LendDone, TypeOK, TrustedBooks
<1>6. Notifs'
  BY DEF IInv, LendDone, TypeOK, Notifs
<1>7. WayOut'
  BY DEF IInv, LendDone, TypeOK, WayOut, PrimaryBooks
<1>8. Backed'
  BY DEF IInv, LendDone, TypeOK, Backed
<1> QED
  BY <1>1, <1>2, <1>3, <1>4, <1>5, <1>6, <1>7, <1>8 DEF IInv

\* The invariant is kept by reclaiming the memory (_sde_vm_reclaim_mem).
LEMMA ReclaimMemKeeps ==
    ASSUME NEW ok \in BOOLEAN, IInv, ReclaimMem(ok)
    PROVE  IInv'
<1> DEFINE possible == mem \in {"lent", "released"}
<1>0. /\ ok => possible /\ past' = past
      /\ ~ok /\ possible => past' = past \cup {"reclaim"}
      /\ ~ok /\ ~possible => past' = past
  <2>1. Call(ok, possible, "reclaim") /\ possible \in BOOLEAN /\ "reclaim" \in FaultKinds
    BY DEF ReclaimMem, FaultKinds
  <2> QED
    BY <2>1, CallOutcome
<1>1. TypeOK'
  <2>1. req' \in [VMs -> Reqs] /\ active' \in [VMs -> BOOLEAN] /\ unseen' \subseteq VMs
    BY DEF IInv, ReclaimMem, TypeOK
  <2>7. /\ by' \in [VMs -> {"client", "commit"}] /\ job' \in [VMs -> Reqs \cup {"idle"}]
        /\ client' \in [VMs -> Reqs \cup {"idle"}] /\ seen' \in [VMs -> BOOLEAN]
    <3>1. CASE ok
      BY <3>1 DEF IInv, ReclaimMem, TypeOK
    <3>2. CASE ~ok
      <4>1. End("primary", FALSE)
        BY <3>2 DEF ReclaimMem
      <4> QED
        BY <4>1, EndKeepsTypes DEF IInv
    <3> QED
      BY <3>1, <3>2
  <2>2. /\ op' \in [VMs -> PrimaryOps \cup TrustedOps]
        /\ op'["primary"] \in PrimaryOps /\ op'["trusted"] \in TrustedOps
    BY DEF IInv, ReclaimMem, TypeOK
  <2>3. /\ handle' \in [VMs -> Int] /\ n' \in [VMs -> 0..NIrq] /\ next' \in 1..(NIrq + 1)
    BY DEF IInv, ReclaimMem, TypeOK
  <2>4. /\ mem' \in Where /\ irq' \in [Irqs -> Where] /\ lends' \in Nat
    BY DEF IInv, ReclaimMem, TypeOK
  <2>5. notif' \in Seq(Nat)
    BY DEF IInv, ReclaimMem, TypeOK
  <2>6. past' \subseteq FaultKinds \cup {"left", "stale", "kept"}
    BY <1>0 DEF IInv, TypeOK
  <2> QED
    BY <2>1, <2>2, <2>3, <2>4, <2>5, <2>6, <2>7 DEF TypeOK
<1>2. PrimaryShape'
  BY DEF IInv, ReclaimMem, TypeOK, PrimaryShape, Shape, Entitled
<1>3. TrustedShape'
  BY <1>0 DEF IInv, ReclaimMem, TypeOK, TrustedShape, Shape, Entitled, Owns, TrustedOwns
<1>4. PrimaryBooks'
  BY <1>0 DEF IInv, ReclaimMem, TypeOK, PrimaryBooks, Rest
<1>5. TrustedBooks'
  BY <1>0 DEF IInv, ReclaimMem, TypeOK, TrustedBooks
<1>6. Notifs'
  BY DEF IInv, ReclaimMem, TypeOK, Notifs
<1>7. WayOut'
  BY <1>0 DEF IInv, ReclaimMem, TypeOK, WayOut, Undone
<1>8. Backed'
  BY <1>0 DEF IInv, ReclaimMem, TypeOK, Backed
<1> QED
  BY <1>1, <1>2, <1>3, <1>4, <1>5, <1>6, <1>7, <1>8 DEF IInv

\* The invariant is kept by going on without memory to reclaim.
LEMMA ReclaimNoMemKeeps ==
    ASSUME IInv, ReclaimNoMem
    PROVE  IInv'
<1>1. TypeOK'
  BY DEF IInv, ReclaimNoMem, TypeOK
<1>2. PrimaryShape'
  BY DEF IInv, ReclaimNoMem, TypeOK, PrimaryShape, Shape, Entitled
<1>3. TrustedShape'
  BY DEF IInv, ReclaimNoMem, TypeOK, TrustedShape, Shape, Entitled, Owns, TrustedOwns
<1>4. PrimaryBooks'
  BY DEF IInv, ReclaimNoMem, TypeOK, PrimaryBooks, Rest
<1>5. TrustedBooks'
  BY DEF IInv, ReclaimNoMem, TypeOK, TrustedBooks
<1>6. Notifs'
  BY DEF IInv, ReclaimNoMem, TypeOK, Notifs
<1>7. WayOut'
  BY DEF IInv, ReclaimNoMem, TypeOK, WayOut, Undone
<1>8. Backed'
  BY DEF IInv, ReclaimNoMem, TypeOK, Backed
<1> QED
  BY <1>1, <1>2, <1>3, <1>4, <1>5, <1>6, <1>7, <1>8 DEF IInv

\* The invariant is kept by reclaiming an interrupt (_sde_vm_reclaim_irq).
LEMMA ReclaimIrqKeeps ==
    ASSUME NEW ok \in BOOLEAN, IInv, ReclaimIrq(ok)
    PROVE  IInv'
<1> DEFINE possible == irq[n["primary"]] \in {"lent", "released"}
<1>0. /\ ok => possible /\ past' = past
      /\ ~ok /\ possible => past' = past \cup {"reclaim"}
      /\ ~ok /\ ~possible => past' = past
  <2>1. Call(ok, possible, "reclaim") /\ possible \in BOOLEAN /\ "reclaim" \in FaultKinds
    BY DEF ReclaimIrq, FaultKinds
  <2> QED
    BY <2>1, CallOutcome
<1> DEFINE i == n["primary"]
<1>a. /\ i \in Irqs /\ n["primary"] = i /\ irq[i] # "primary" /\ irq[i] \in Where
      /\ handle["primary"] < 0 /\ mem = "primary"
  BY DEF IInv, ReclaimIrq, TypeOK, PrimaryBooks
<1>b. ~possible => "release" \in past
  <2>1. ASSUME irq[i] = "accepted", "release" \notin past PROVE FALSE
    BY <1>a, <2>1 DEF IInv, TrustedBooks
  <2> QED
    BY <1>a, <2>1
<1>c. ~ok => Undone'
  BY <1>0, <1>b DEF Undone
<1>1. TypeOK'
  <2>1. req' \in [VMs -> Reqs] /\ active' \in [VMs -> BOOLEAN] /\ unseen' \subseteq VMs
    BY DEF IInv, ReclaimIrq, TypeOK
  <2>7. /\ by' \in [VMs -> {"client", "commit"}] /\ job' \in [VMs -> Reqs \cup {"idle"}]
        /\ client' \in [VMs -> Reqs \cup {"idle"}] /\ seen' \in [VMs -> BOOLEAN]
    <3>1. CASE ok
      BY <3>1 DEF IInv, ReclaimIrq, TypeOK
    <3>2. CASE ~ok
      <4>1. End("primary", FALSE)
        BY <3>2 DEF ReclaimIrq
      <4> QED
        BY <4>1, EndKeepsTypes DEF IInv
    <3> QED
      BY <3>1, <3>2
  <2>2. /\ op' \in [VMs -> PrimaryOps \cup TrustedOps]
        /\ op'["primary"] \in PrimaryOps /\ op'["trusted"] \in TrustedOps
    BY DEF IInv, ReclaimIrq, TypeOK
  <2>3. /\ handle' \in [VMs -> Int] /\ n' \in [VMs -> 0..NIrq] /\ next' \in 1..(NIrq + 1)
    BY VmAssumption DEF IInv, ReclaimIrq, TypeOK
  <2>4. /\ mem' \in Where /\ irq' \in [Irqs -> Where] /\ lends' \in Nat
    BY DEF IInv, ReclaimIrq, TypeOK
  <2>5. notif' \in Seq(Nat)
    BY DEF IInv, ReclaimIrq, TypeOK
  <2>6. past' \subseteq FaultKinds \cup {"left", "stale", "kept"}
    BY <1>0 DEF IInv, TypeOK
  <2> QED
    BY <2>1, <2>2, <2>3, <2>4, <2>5, <2>6, <2>7 DEF TypeOK
<1>2. PrimaryShape'
  BY DEF IInv, ReclaimIrq, TypeOK, PrimaryShape, Shape, Entitled
<1>3. TrustedShape'
  BY <1>0 DEF IInv, ReclaimIrq, TypeOK, TrustedShape, Shape, Entitled, Owns, TrustedOwns
<1>4. PrimaryBooks'
  <2>1. CASE ok
    BY <1>0, <1>a, <2>1 DEF IInv, ReclaimIrq, TypeOK, PrimaryBooks, Rest
  <2>2. CASE ~ok
    <3>1. past' \cap {"release", "reclaim"} # {}
      BY <1>0, <1>b, <2>2
    <3> QED
      BY <1>a, <2>2, <3>1 DEF IInv, ReclaimIrq, TypeOK, PrimaryBooks
  <2> QED
    BY <2>1, <2>2
<1>5. TrustedBooks'
  BY <1>0 DEF IInv, ReclaimIrq, TypeOK, TrustedBooks
<1>6. Notifs'
  BY DEF IInv, ReclaimIrq, TypeOK, Notifs
<1>7. WayOut'
  BY <1>0, <1>c DEF IInv, ReclaimIrq, TypeOK, WayOut, Undone
<1>8. Backed'
  BY <1>0 DEF IInv, ReclaimIrq, TypeOK, Backed
<1> QED
  BY <1>1, <1>2, <1>3, <1>4, <1>5, <1>6, <1>7, <1>8 DEF IInv

\* The invariant is kept by the end of the reclaims.
LEMMA ReclaimDoneKeeps ==
    ASSUME IInv, ReclaimDone
    PROVE  IInv'
<1>1. TypeOK'
  BY DEF IInv, ReclaimDone, TypeOK
<1>2. PrimaryShape'
  BY DEF IInv, ReclaimDone, TypeOK, PrimaryShape, Shape, Owns, PrimaryOwns, PrimaryBooks
<1>3. TrustedShape'
  BY DEF IInv, ReclaimDone, TypeOK, TrustedShape, Shape, Entitled, Owns, TrustedOwns
<1>4. PrimaryBooks'
  BY DEF IInv, ReclaimDone, TypeOK, PrimaryBooks, Rest
<1>5. TrustedBooks'
  BY DEF IInv, ReclaimDone, TypeOK, TrustedBooks
<1>6. Notifs'
  BY DEF IInv, ReclaimDone, TypeOK, Notifs
<1>7. WayOut'
  BY DEF IInv, ReclaimDone, TypeOK, WayOut, Undone, PrimaryShape, Shape
<1>8. Backed'
  BY DEF IInv, ReclaimDone, TypeOK, Backed
<1> QED
  BY <1>1, <1>2, <1>3, <1>4, <1>5, <1>6, <1>7, <1>8 DEF IInv

\* The invariant is kept by a RELEASE of the primary VM (sde_kms_vm_primary_post_commit).
LEMMA PrimaryPostCommitKeeps ==
    ASSUME NEW ok \in BOOLEAN, IInv, PrimaryPostCommit(ok)
    PROVE  IInv'
<1> DEFINE possible == TRUE
<1>0. /\ ok => possible /\ past' = past
      /\ ~ok /\ possible => past' = past \cup {"lend"}
      /\ ~ok /\ ~possible => past' = past
  <2>1. Call(ok, possible, "lend") /\ possible \in BOOLEAN /\ "lend" \in FaultKinds
    BY DEF PrimaryPostCommit, FaultKinds
  <2> QED
    BY <2>1, CallOutcome
<1>1. TypeOK'
  <2>1. /\ req' \in [VMs -> Reqs] /\ by' \in [VMs -> {"client", "commit"}]
        /\ client' \in [VMs -> Reqs \cup {"idle"}] /\ job' \in [VMs -> Reqs \cup {"idle"}]
        /\ active' \in [VMs -> BOOLEAN] /\ seen' \in [VMs -> BOOLEAN] /\ unseen' \subseteq VMs
    BY DEF IInv, PrimaryPostCommit, TypeOK
  <2>2. /\ op' \in [VMs -> PrimaryOps \cup TrustedOps]
        /\ op'["primary"] \in PrimaryOps /\ op'["trusted"] \in TrustedOps
    BY DEF IInv, PrimaryPostCommit, TypeOK
  <2>3. /\ handle' \in [VMs -> Int] /\ n' \in [VMs -> 0..NIrq] /\ next' \in 1..(NIrq + 1)
    BY DEF IInv, PrimaryPostCommit, TypeOK
  <2>4. /\ mem' \in Where /\ irq' \in [Irqs -> Where] /\ lends' \in Nat
    BY DEF IInv, PrimaryPostCommit, TypeOK
  <2>5. notif' \in Seq(Nat)
    BY DEF IInv, PrimaryPostCommit, TypeOK
  <2>6. past' \subseteq FaultKinds \cup {"left", "stale", "kept"}
    BY <1>0 DEF IInv, TypeOK
  <2> QED
    BY <2>1, <2>2, <2>3, <2>4, <2>5, <2>6 DEF TypeOK
<1>2. PrimaryShape'
  BY DEF IInv, PrimaryPostCommit, TypeOK, PrimaryShape, Shape, Entitled
<1>3. TrustedShape'
  BY <1>0 DEF IInv, PrimaryPostCommit, TypeOK, TrustedShape, Shape, Entitled, Owns, TrustedOwns
<1>4. PrimaryBooks'
  BY <1>0 DEF IInv, PrimaryPostCommit, TypeOK, PrimaryBooks, Rest, Owns, PrimaryOwns,
     PrimaryShape, Entitled
<1>5. TrustedBooks'
  BY <1>0 DEF IInv, PrimaryPostCommit, TypeOK, TrustedBooks
<1>6. Notifs'
  BY DEF IInv, PrimaryPostCommit, TypeOK, Notifs
<1>7. WayOut'
  BY <1>0 DEF IInv, PrimaryPostCommit, TypeOK, WayOut, Undone
<1>8. Backed'
  BY <1>0 DEF IInv, PrimaryPostCommit, TypeOK, Backed
<1> QED
  BY <1>1, <1>2, <1>3, <1>4, <1>5, <1>6, <1>7, <1>8 DEF IInv

\* The invariant is kept by accepting the memory (_sde_vm_accept_mem).
LEMMA AcceptMemKeeps ==
    ASSUME NEW ok \in BOOLEAN, IInv, AcceptMem(ok)
    PROVE  IInv'
<1> DEFINE possible == (mem = "lent" /\ handle["trusted"] = lends)
<1>0. /\ ok => possible /\ past' = past
      /\ ~ok /\ possible => past' = past \cup {"accept"}
      /\ ~ok /\ ~possible => past' = past
  <2>1. Call(ok, possible, "accept") /\ possible \in BOOLEAN /\ "accept" \in FaultKinds
    BY DEF AcceptMem, FaultKinds
  <2> QED
    BY <2>1, CallOutcome
<1>1. TypeOK'
  <2>1. /\ req' \in [VMs -> Reqs] /\ by' \in [VMs -> {"client", "commit"}]
        /\ client' \in [VMs -> Reqs \cup {"idle"}] /\ job' \in [VMs -> Reqs \cup {"idle"}]
        /\ active' \in [VMs -> BOOLEAN] /\ seen' \in [VMs -> BOOLEAN] /\ unseen' \subseteq VMs
    BY DEF IInv, AcceptMem, TypeOK
  <2>2. /\ op' \in [VMs -> PrimaryOps \cup TrustedOps]
        /\ op'["primary"] \in PrimaryOps /\ op'["trusted"] \in TrustedOps
    BY DEF IInv, AcceptMem, TypeOK
  <2>3. /\ handle' \in [VMs -> Int] /\ n' \in [VMs -> 0..NIrq] /\ next' \in 1..(NIrq + 1)
    BY VmAssumption DEF IInv, AcceptMem, TypeOK
  <2>4. /\ mem' \in Where /\ irq' \in [Irqs -> Where] /\ lends' \in Nat
    BY DEF IInv, AcceptMem, TypeOK
  <2>5. notif' \in Seq(Nat)
    BY DEF IInv, AcceptMem, TypeOK
  <2>6. past' \subseteq FaultKinds \cup {"left", "stale", "kept"}
    BY <1>0 DEF IInv, TypeOK
  <2> QED
    BY <2>1, <2>2, <2>3, <2>4, <2>5, <2>6 DEF TypeOK
<1>2. PrimaryShape'
  BY DEF IInv, AcceptMem, TypeOK, PrimaryShape, Shape, Entitled, Owns, PrimaryOwns
<1>3. TrustedShape'
  BY <1>0 DEF IInv, AcceptMem, TypeOK, TrustedShape, Shape, Entitled
<1>4. PrimaryBooks'
  BY <1>0 DEF IInv, AcceptMem, TypeOK, PrimaryBooks, Rest, Owns, PrimaryOwns
<1>5. TrustedBooks'
  BY <1>0 DEF IInv, AcceptMem, TypeOK, TrustedBooks
<1>6. Notifs'
  BY DEF IInv, AcceptMem, TypeOK, Notifs
<1>7. WayOut'
  BY <1>0 DEF IInv, AcceptMem, TypeOK, WayOut, Undone
<1>8. Backed'
  <2>1. handle["trusted"] = lends => notif = <<>>
    BY NoneUnderWay DEF IInv
  <2> QED
    BY <1>0, <2>1 DEF IInv, AcceptMem, TypeOK, Backed, Notifs
<1> QED
  BY <1>1, <1>2, <1>3, <1>4, <1>5, <1>6, <1>7, <1>8 DEF IInv

\* The invariant is kept by accepting an interrupt (_sde_vm_accept_irq).
LEMMA AcceptIrqKeeps ==
    ASSUME NEW ok \in BOOLEAN, IInv, AcceptIrq(ok)
    PROVE  IInv'
<1> DEFINE possible == irq[next] = "lent"
<1>0. /\ ok => possible /\ past' = past
      /\ ~ok /\ possible => past' = past \cup {"accept"}
      /\ ~ok /\ ~possible => past' = past
  <2>1. Call(ok, possible, "accept") /\ possible \in BOOLEAN /\ "accept" \in FaultKinds
    BY DEF AcceptIrq, FaultKinds
  <2> QED
    BY <2>1, CallOutcome
<1>1. TypeOK'
  <2>1. /\ req' \in [VMs -> Reqs] /\ by' \in [VMs -> {"client", "commit"}]
        /\ client' \in [VMs -> Reqs \cup {"idle"}] /\ job' \in [VMs -> Reqs \cup {"idle"}]
        /\ active' \in [VMs -> BOOLEAN] /\ seen' \in [VMs -> BOOLEAN] /\ unseen' \subseteq VMs
    BY DEF IInv, AcceptIrq, TypeOK
  <2>2. /\ op' \in [VMs -> PrimaryOps \cup TrustedOps]
        /\ op'["primary"] \in PrimaryOps /\ op'["trusted"] \in TrustedOps
    BY DEF IInv, AcceptIrq, TypeOK
  <2>3. /\ handle' \in [VMs -> Int] /\ n' \in [VMs -> 0..NIrq] /\ next' \in 1..(NIrq + 1)
    BY VmAssumption DEF IInv, AcceptIrq, TypeOK, TrustedBooks
  <2>4. /\ mem' \in Where /\ irq' \in [Irqs -> Where] /\ lends' \in Nat
    BY DEF IInv, AcceptIrq, TypeOK
  <2>5. notif' \in Seq(Nat)
    BY DEF IInv, AcceptIrq, TypeOK
  <2>6. past' \subseteq FaultKinds \cup {"left", "stale", "kept"}
    BY <1>0 DEF IInv, TypeOK
  <2> QED
    BY <2>1, <2>2, <2>3, <2>4, <2>5, <2>6 DEF TypeOK
<1>2. PrimaryShape'
  BY DEF IInv, AcceptIrq, TypeOK, PrimaryShape, Shape, Entitled, Owns, PrimaryOwns
<1>3. TrustedShape'
  BY <1>0 DEF IInv, AcceptIrq, TypeOK, TrustedShape, Shape, Entitled
<1>4. PrimaryBooks'
  BY <1>0, VmAssumption DEF IInv, AcceptIrq, TypeOK, PrimaryBooks, Rest, Owns, PrimaryOwns
<1>5. TrustedBooks'
  BY <1>0, VmAssumption DEF IInv, AcceptIrq, TypeOK, TrustedBooks
<1>6. Notifs'
  BY DEF IInv, AcceptIrq, TypeOK, Notifs
<1>7. WayOut'
  BY <1>0 DEF IInv, AcceptIrq, TypeOK, WayOut, Undone
<1>8. Backed'
  BY <1>0 DEF IInv, AcceptIrq, TypeOK, Backed, TrustedBooks
<1> QED
  BY <1>1, <1>2, <1>3, <1>4, <1>5, <1>6, <1>7, <1>8 DEF IInv

\* The invariant is kept by the end of the acceptance (vm_resource_init).
LEMMA ResourceInitKeeps ==
    ASSUME NEW ok \in BOOLEAN, IInv, ResourceInit(ok)
    PROVE  IInv'
<1> DEFINE possible == TRUE
<1>0. /\ ok => possible /\ past' = past
      /\ ~ok /\ possible => past' = past \cup {"init"}
      /\ ~ok /\ ~possible => past' = past
  <2>1. Call(ok, possible, "init") /\ possible \in BOOLEAN /\ "init" \in FaultKinds
    BY DEF ResourceInit, FaultKinds
  <2> QED
    BY <2>1, CallOutcome
<1>1. TypeOK'
  <2>1. req' \in [VMs -> Reqs] /\ active' \in [VMs -> BOOLEAN] /\ unseen' \subseteq VMs
    BY DEF IInv, ResourceInit, TypeOK
  <2>7. /\ by' \in [VMs -> {"client", "commit"}] /\ job' \in [VMs -> Reqs \cup {"idle"}]
        /\ client' \in [VMs -> Reqs \cup {"idle"}] /\ seen' \in [VMs -> BOOLEAN]
    <3>1. End("trusted", ok)
      BY DEF ResourceInit
    <3> QED
      BY <3>1, EndKeepsTypes DEF IInv
  <2>2. /\ op' \in [VMs -> PrimaryOps \cup TrustedOps]
        /\ op'["primary"] \in PrimaryOps /\ op'["trusted"] \in TrustedOps
    BY DEF IInv, ResourceInit, TypeOK
  <2>3. /\ handle' \in [VMs -> Int] /\ n' \in [VMs -> 0..NIrq] /\ next' \in 1..(NIrq + 1)
    <3>1. handle' = handle /\ n' = n /\ next' = 1
      BY DEF ResourceInit
    <3> QED
      BY <3>1, VmAssumption DEF IInv, TypeOK
  <2>4. /\ mem' \in Where /\ irq' \in [Irqs -> Where] /\ lends' \in Nat
    BY DEF IInv, ResourceInit, TypeOK
  <2>5. notif' \in Seq(Nat)
    BY DEF IInv, ResourceInit, TypeOK
  <2>6. past' \subseteq FaultKinds \cup {"left", "stale", "kept"}
    BY <1>0 DEF IInv, TypeOK
  <2> QED
    BY <2>1, <2>2, <2>3, <2>4, <2>5, <2>6, <2>7 DEF TypeOK
<1>2. PrimaryShape'
  BY DEF IInv, ResourceInit, TypeOK, PrimaryShape, Shape, Entitled, Owns, PrimaryOwns
<1>3. TrustedShape'
  BY <1>0, VmAssumption DEF IInv, ResourceInit, TypeOK, TrustedShape, Shape, Owns, TrustedOwns,
     TrustedBooks
<1>4. PrimaryBooks'
  BY <1>0 DEF IInv, ResourceInit, TypeOK, PrimaryBooks, Rest, Owns, PrimaryOwns
<1>5. TrustedBooks'
  BY <1>0, VmAssumption DEF IInv, ResourceInit, TypeOK, TrustedBooks
<1>6. Notifs'
  BY DEF IInv, ResourceInit, TypeOK, Notifs
<1>7. WayOut'
  BY <1>0 DEF IInv, ResourceInit, TypeOK, WayOut, Undone
<1>8. Backed'
  BY <1>0 DEF IInv, ResourceInit, TypeOK, Backed
<1> QED
  BY <1>1, <1>2, <1>3, <1>4, <1>5, <1>6, <1>7, <1>8 DEF IInv

\* The invariant is kept by releasing an interrupt (_sde_vm_release_irq).
LEMMA ReleaseIrqKeeps ==
    ASSUME NEW ok \in BOOLEAN, IInv, ReleaseIrq(ok)
    PROVE  IInv'
<1> DEFINE possible == irq[n["trusted"]] = "accepted"
<1>0. /\ ok => possible /\ past' = past
      /\ ~ok /\ possible => past' = past \cup {"release"}
      /\ ~ok /\ ~possible => past' = past
  <2>1. Call(ok, possible, "release") /\ possible \in BOOLEAN /\ "release" \in FaultKinds
    BY DEF ReleaseIrq, FaultKinds
  <2> QED
    BY <2>1, CallOutcome
<1>1. TypeOK'
  <2>1. /\ req' \in [VMs -> Reqs] /\ by' \in [VMs -> {"client", "commit"}]
        /\ client' \in [VMs -> Reqs \cup {"idle"}] /\ job' \in [VMs -> Reqs \cup {"idle"}]
        /\ active' \in [VMs -> BOOLEAN] /\ seen' \in [VMs -> BOOLEAN] /\ unseen' \subseteq VMs
    BY DEF IInv, ReleaseIrq, TypeOK
  <2>2. /\ op' \in [VMs -> PrimaryOps \cup TrustedOps]
        /\ op'["primary"] \in PrimaryOps /\ op'["trusted"] \in TrustedOps
    BY DEF IInv, ReleaseIrq, TypeOK
  <2>3. /\ handle' \in [VMs -> Int] /\ n' \in [VMs -> 0..NIrq] /\ next' \in 1..(NIrq + 1)
    BY VmAssumption DEF IInv, ReleaseIrq, TypeOK
  <2>4. /\ mem' \in Where /\ irq' \in [Irqs -> Where] /\ lends' \in Nat
    BY DEF IInv, ReleaseIrq, TypeOK
  <2>5. notif' \in Seq(Nat)
    BY DEF IInv, ReleaseIrq, TypeOK
  <2>6. past' \subseteq FaultKinds \cup {"left", "stale", "kept"}
    BY <1>0 DEF IInv, TypeOK
  <2> QED
    BY <2>1, <2>2, <2>3, <2>4, <2>5, <2>6 DEF TypeOK
<1>2. PrimaryShape'
  BY DEF IInv, ReleaseIrq, TypeOK, PrimaryShape, Shape, Entitled, Owns, PrimaryOwns
<1>3. TrustedShape'
  BY <1>0 DEF IInv, ReleaseIrq, TypeOK, TrustedShape, Shape, Entitled
<1>4. PrimaryBooks'
  BY <1>0, VmAssumption DEF IInv, ReleaseIrq, TypeOK, PrimaryBooks, Rest, Owns,
     PrimaryOwns
<1>5. TrustedBooks'
  BY <1>0, VmAssumption DEF IInv, ReleaseIrq, TypeOK, TrustedBooks
<1>6. Notifs'
  BY DEF IInv, ReleaseIrq, TypeOK, Notifs
<1>7. WayOut'
  BY <1>0 DEF IInv, ReleaseIrq, TypeOK, WayOut, Undone
<1>8. Backed'
  BY <1>0 DEF IInv, ReleaseIrq, TypeOK, Backed
<1> QED
  BY <1>1, <1>2, <1>3, <1>4, <1>5, <1>6, <1>7, <1>8 DEF IInv

\* The invariant is kept by the end of the releases of interrupts.
LEMMA ReleaseNoIrqKeeps ==
    ASSUME IInv, ReleaseNoIrq
    PROVE  IInv'
<1>1. TypeOK'
  BY DEF IInv, ReleaseNoIrq, TypeOK
<1>2. PrimaryShape'
  BY DEF IInv, ReleaseNoIrq, TypeOK, PrimaryShape, Shape, Entitled, Owns, PrimaryOwns
<1>3. TrustedShape'
  BY DEF IInv, ReleaseNoIrq, TypeOK, TrustedShape, Shape, Entitled
<1>4. PrimaryBooks'
  BY DEF IInv, ReleaseNoIrq, TypeOK, PrimaryBooks, Rest, Owns, PrimaryOwns
<1>5. TrustedBooks'
  BY DEF IInv, ReleaseNoIrq, TypeOK, TrustedBooks
<1>6. Notifs'
  BY DEF IInv, ReleaseNoIrq, TypeOK, Notifs
<1>7. WayOut'
  BY DEF IInv, ReleaseNoIrq, TypeOK, WayOut, Undone
<1>8. Backed'
  BY DEF IInv, ReleaseNoIrq, TypeOK, Backed
<1> QED
  BY <1>1, <1>2, <1>3, <1>4, <1>5, <1>6, <1>7, <1>8 DEF IInv

\* The invariant is kept by releasing the memory (_sde_vm_release_mem).
LEMMA ReleaseMemKeeps ==
    ASSUME NEW ok \in BOOLEAN, IInv, ReleaseMem(ok)
    PROVE  IInv'
<1> DEFINE possible == mem = "accepted" /\ handle["trusted"] = lends
<1>0. /\ past' \subseteq past \cup {"release", "kept"} /\ past \subseteq past'
      /\ ok /\ "release" \in past' => "release" \in past
      /\ possible /\ mem' # mem /\ n["trusted"] > 0 => "kept" \in past'
      /\ ok => handle["trusted"] < 0 \/ possible
      /\ ~ok /\ possible => "release" \in past'
  BY DEF ReleaseMem, MayFail
<1>1. TypeOK'
  <2>1. req' \in [VMs -> Reqs] /\ active' \in [VMs -> BOOLEAN] /\ unseen' \subseteq VMs
    BY DEF IInv, ReleaseMem, TypeOK
  <2>7. /\ by' \in [VMs -> {"client", "commit"}] /\ job' \in [VMs -> Reqs \cup {"idle"}]
        /\ client' \in [VMs -> Reqs \cup {"idle"}] /\ seen' \in [VMs -> BOOLEAN]
    <3>1. End("trusted", FALSE)
      BY DEF ReleaseMem
    <3> QED
      BY <3>1, EndKeepsTypes DEF IInv
  <2>2. /\ op' \in [VMs -> PrimaryOps \cup TrustedOps]
        /\ op'["primary"] \in PrimaryOps /\ op'["trusted"] \in TrustedOps
    BY DEF IInv, ReleaseMem, TypeOK
  <2>3. /\ handle' \in [VMs -> Int] /\ n' \in [VMs -> 0..NIrq] /\ next' \in 1..(NIrq + 1)
    BY DEF IInv, ReleaseMem, TypeOK
  <2>4. /\ mem' \in Where /\ irq' \in [Irqs -> Where] /\ lends' \in Nat
    BY DEF IInv, ReleaseMem, TypeOK
  <2>5. notif' \in Seq(Nat)
    BY DEF IInv, ReleaseMem, TypeOK
  <2>6. past' \subseteq FaultKinds \cup {"left", "stale", "kept"}
    BY <1>0 DEF IInv, TypeOK
  <2> QED
    BY <2>1, <2>2, <2>3, <2>4, <2>5, <2>6, <2>7 DEF TypeOK
<1>2. PrimaryShape'
  BY DEF IInv, ReleaseMem, TypeOK, PrimaryShape, Shape, Entitled, Owns, PrimaryOwns
<1>3. TrustedShape'
  BY <1>0 DEF IInv, ReleaseMem, TypeOK, TrustedShape, Shape, Entitled
<1>4. PrimaryBooks'
  BY <1>0 DEF IInv, ReleaseMem, TypeOK, PrimaryBooks, Rest, Owns, PrimaryOwns
<1>5. TrustedBooks'
  BY <1>0 DEF IInv, ReleaseMem, TypeOK, TrustedBooks
<1>6. Notifs'
  BY DEF IInv, ReleaseMem, TypeOK, Notifs
<1>7. WayOut'
  BY <1>0 DEF IInv, ReleaseMem, TypeOK, WayOut, Undone
<1>8. Backed'
  BY <1>0 DEF IInv, ReleaseMem, TypeOK, Backed
<1> QED
  BY <1>1, <1>2, <1>3, <1>4, <1>5, <1>6, <1>7, <1>8 DEF IInv

\* The invariant is kept by a RELEASE of the trusted VM (sde_kms_vm_trusted_post_commit).
LEMMA TrustedPostCommitKeeps ==
    ASSUME IInv, TrustedPostCommit
    PROVE  IInv'
<1>1. TypeOK'
  BY DEF IInv, TrustedPostCommit, TypeOK
<1>2. PrimaryShape'
  BY DEF IInv, TrustedPostCommit, TypeOK, PrimaryShape, Shape, Entitled, Owns, PrimaryOwns
<1>3. TrustedShape'
  BY DEF IInv, TrustedPostCommit, TypeOK, TrustedShape, Shape, Entitled
<1>4. PrimaryBooks'
  BY DEF IInv, TrustedPostCommit, TypeOK, PrimaryBooks, Rest, Owns, PrimaryOwns
<1>5. TrustedBooks'
  BY DEF IInv, TrustedPostCommit, TypeOK, TrustedBooks
<1>6. Notifs'
  BY DEF IInv, TrustedPostCommit, TypeOK, Notifs
<1>7. WayOut'
  BY DEF IInv, TrustedPostCommit, TypeOK, WayOut, Undone
<1>8. Backed'
  BY DEF IInv, TrustedPostCommit, TypeOK, Backed
<1> QED
  BY <1>1, <1>2, <1>3, <1>4, <1>5, <1>6, <1>7, <1>8 DEF IInv

\* The invariant is kept by a notification (sde_vm_mem_lend_notification_handler).
LEMMA DeliverKeeps ==
    ASSUME IInv, Deliver
    PROVE  IInv'
<1>1. TypeOK'
  BY DEF IInv, Deliver, TypeOK
<1>2. PrimaryShape'
  BY DEF IInv, Deliver, TypeOK, PrimaryShape, Shape, Entitled, Owns, PrimaryOwns
<1>3. TrustedShape'
  BY DEF IInv, Deliver, TypeOK, TrustedShape, Shape, Entitled, Owns, TrustedOwns
<1>4. PrimaryBooks'
  BY DEF IInv, Deliver, TypeOK, PrimaryBooks, Rest, Owns, PrimaryOwns
<1>5. TrustedBooks'
  BY VmAssumption DEF IInv, Deliver, TypeOK, TrustedBooks, Notifs
<1>6. Notifs'
  BY DEF IInv, Deliver, TypeOK, Notifs
<1>7. WayOut'
  BY DEF IInv, Deliver, TypeOK, WayOut, Undone
<1>8. Backed'
  <2>1. handle["trusted"] # lends
    BY NoneUnderWay DEF IInv, Deliver
  <2> QED
    BY <2>1 DEF IInv, Deliver, TypeOK, Backed
<1> QED
  BY <1>1, <1>2, <1>3, <1>4, <1>5, <1>6, <1>7, <1>8 DEF IInv

\* The invariant is kept by the check of a commit (sde_kms_check_vm_request).
LEMMA CheckKeeps ==
    ASSUME NEW v \in VMs, NEW new \in Reqs, NEW on \in BOOLEAN, IInv, Check(v, new, on)
    PROVE  IInv'
<1>0. past' = past \/ past' = past \cup {"stale"}
  BY DEF Check, Happened
<1>1. TypeOK'
  <2>1. /\ req' \in [VMs -> Reqs] /\ by' \in [VMs -> {"client", "commit"}]
        /\ client' \in [VMs -> Reqs \cup {"idle"}] /\ job' \in [VMs -> Reqs \cup {"idle"}]
        /\ active' \in [VMs -> BOOLEAN] /\ seen' \in [VMs -> BOOLEAN] /\ unseen' \subseteq VMs
    BY DEF IInv, Check, TypeOK
  <2>2. /\ op' \in [VMs -> PrimaryOps \cup TrustedOps]
        /\ op'["primary"] \in PrimaryOps /\ op'["trusted"] \in TrustedOps
    BY DEF IInv, Check, TypeOK
  <2>3. /\ handle' \in [VMs -> Int] /\ n' \in [VMs -> 0..NIrq] /\ next' \in 1..(NIrq + 1)
    BY DEF IInv, Check, TypeOK
  <2>4. /\ mem' \in Where /\ irq' \in [Irqs -> Where] /\ lends' \in Nat
    BY DEF IInv, Check, TypeOK
  <2>5. notif' \in Seq(Nat)
    BY DEF IInv, Check, TypeOK
  <2>6. past' \subseteq FaultKinds \cup {"left", "stale", "kept"}
    BY <1>0 DEF IInv, TypeOK
  <2> QED
    BY <2>1, <2>2, <2>3, <2>4, <2>5, <2>6 DEF TypeOK
<1>2. PrimaryShape'
  BY DEF IInv, Check, TypeOK, PrimaryShape, Shape, Entitled, Owns, PrimaryOwns, Valid
<1>3. TrustedShape'
  BY DEF IInv, Check, TypeOK, TrustedShape, Shape, Entitled, Owns, TrustedOwns, Valid, Happened
<1>4. PrimaryBooks'
  BY <1>0 DEF IInv, Check, TypeOK, PrimaryBooks, Rest, Owns, PrimaryOwns, Valid
<1>5. TrustedBooks'
  BY <1>0 DEF IInv, Check, TypeOK, TrustedBooks, Owns, TrustedOwns
<1>6. Notifs'
  BY DEF IInv, Check, TypeOK, Notifs
<1>7. WayOut'
  BY <1>0 DEF IInv, Check, TypeOK, WayOut, Undone, PrimaryShape, Shape
<1>8. Backed'
  BY <1>0 DEF IInv, Check, TypeOK, Backed
<1> QED
  BY <1>1, <1>2, <1>3, <1>4, <1>5, <1>6, <1>7, <1>8 DEF IInv

\* The invariant is kept by a check that fails later on (sde_kms_vm_res_release).
LEMMA CheckFailsKeeps ==
    ASSUME NEW v \in VMs, IInv, CheckFails(v)
    PROVE  IInv'
<1>0. past' = past \/ past' = past \cup {"left"}
  BY DEF CheckFails, Happened
<1>1. TypeOK'
  <2>1. /\ req' \in [VMs -> Reqs] /\ by' \in [VMs -> {"client", "commit"}]
        /\ job' \in [VMs -> Reqs \cup {"idle"}]
        /\ active' \in [VMs -> BOOLEAN] /\ unseen' \subseteq VMs
    BY DEF IInv, CheckFails, TypeOK
  <2>7. (client' = client /\ seen' = seen) \/ Drop(v)
    BY DEF CheckFails
  <2>8. client' \in [VMs -> Reqs \cup {"idle"}]
    BY <2>7 DEF IInv, TypeOK
  <2>9. seen' \in [VMs -> BOOLEAN]
    <3>1. CASE seen' = seen
      BY <3>1 DEF IInv, TypeOK
    <3>2. CASE seen' = [seen EXCEPT ![v] = FALSE]
      BY <3>2, Zenon DEF IInv, TypeOK
    <3> QED
      BY <2>7, <3>1, <3>2
  <2>2. /\ op' \in [VMs -> PrimaryOps \cup TrustedOps]
        /\ op'["primary"] \in PrimaryOps /\ op'["trusted"] \in TrustedOps
    BY DEF IInv, CheckFails, TypeOK
  <2>3. /\ handle' \in [VMs -> Int] /\ n' \in [VMs -> 0..NIrq] /\ next' \in 1..(NIrq + 1)
    BY DEF IInv, CheckFails, TypeOK
  <2>4. /\ mem' \in Where /\ irq' \in [Irqs -> Where] /\ lends' \in Nat
    BY DEF IInv, CheckFails, TypeOK
  <2>5. notif' \in Seq(Nat)
    BY DEF IInv, CheckFails, TypeOK
  <2>6. past' \subseteq FaultKinds \cup {"left", "stale", "kept"}
    BY <1>0 DEF IInv, TypeOK
  <2> QED
    BY <2>1, <2>2, <2>3, <2>4, <2>5, <2>6, <2>8, <2>9 DEF TypeOK
<1>2. PrimaryShape'
  BY DEF IInv, CheckFails, TypeOK, PrimaryShape, Shape, Entitled, Owns, PrimaryOwns, Checked
<1>3. TrustedShape'
  BY <1>0 DEF IInv, CheckFails, TypeOK, TrustedShape, Shape, Entitled, Owns, TrustedOwns
<1>4. PrimaryBooks'
  BY <1>0 DEF IInv, CheckFails, TypeOK, PrimaryBooks, Rest, Owns, PrimaryOwns
<1>5. TrustedBooks'
  BY <1>0 DEF IInv, CheckFails, TypeOK, TrustedBooks
<1>6. Notifs'
  BY DEF IInv, CheckFails, TypeOK, Notifs
<1>7. WayOut'
  BY DEF IInv, CheckFails, TypeOK, WayOut, Undone, PrimaryShape, Shape, Happened, Owns,
     PrimaryOwns, TrustedOwns
<1>8. Backed'
  BY <1>0 DEF IInv, CheckFails, TypeOK, Backed
<1> QED
  BY <1>1, <1>2, <1>3, <1>4, <1>5, <1>6, <1>7, <1>8 DEF IInv

\* The invariant is kept by a commit that is given up before its swap.
LEMMA AbandonKeeps ==
    ASSUME NEW v \in VMs, IInv, Abandon(v)
    PROVE  IInv'
<1>0. past' = past \/ past' = past \cup {"left"}
  BY DEF Abandon, Happened
<1>1. TypeOK'
  BY <1>0 DEF IInv, Abandon, TypeOK
<1>2. PrimaryShape'
  BY DEF IInv, Abandon, TypeOK, PrimaryShape, Shape, Entitled, Owns, PrimaryOwns, Checked
<1>3. TrustedShape'
  BY <1>0 DEF IInv, Abandon, TypeOK, TrustedShape, Shape, Entitled, Owns, TrustedOwns, Checked
<1>4. PrimaryBooks'
  BY <1>0 DEF IInv, Abandon, TypeOK, PrimaryBooks, Rest, Owns, PrimaryOwns
<1>5. TrustedBooks'
  BY <1>0 DEF IInv, Abandon, TypeOK, TrustedBooks
<1>6. Notifs'
  BY DEF IInv, Abandon, TypeOK, Notifs
<1>7. WayOut'
  BY DEF IInv, Abandon, TypeOK, WayOut, Undone, PrimaryShape, Shape, Happened
<1>8. Backed'
  BY <1>0 DEF IInv, Abandon, TypeOK, Backed
<1> QED
  BY <1>1, <1>2, <1>3, <1>4, <1>5, <1>6, <1>7, <1>8 DEF IInv

\* The invariant is kept by the swap of a commit (msm_atomic_commit).
LEMMA SwapKeeps ==
    ASSUME NEW v \in VMs, NEW on \in BOOLEAN, IInv, Swap(v, on)
    PROVE  IInv'
<1>1. TypeOK'
  BY DEF IInv, Swap, TypeOK, Checked
<1>2. PrimaryShape'
  BY DEF IInv, Swap, TypeOK, PrimaryShape, Shape, Entitled, Owns, PrimaryOwns, Checked
<1>3. TrustedShape'
  BY DEF IInv, Swap, TypeOK, TrustedShape, Shape, Entitled, Owns, TrustedOwns, Checked
<1>4. PrimaryBooks'
  BY DEF IInv, Swap, TypeOK, PrimaryBooks, Rest, Owns, PrimaryOwns, Checked
<1>5. TrustedBooks'
  BY DEF IInv, Swap, TypeOK, TrustedBooks
<1>6. Notifs'
  BY DEF IInv, Swap, TypeOK, Notifs
<1>7. WayOut'
  BY DEF IInv, Swap, TypeOK, WayOut, Undone
<1>8. Backed'
  BY DEF IInv, Swap, TypeOK, Backed
<1> QED
  BY <1>1, <1>2, <1>3, <1>4, <1>5, <1>6, <1>7, <1>8 DEF IInv

\* The invariant is kept by the end of a commit (sde_kms_complete_commit).
LEMMA CompleteKeeps ==
    ASSUME NEW v \in VMs, NEW ok \in BOOLEAN, IInv, Complete(v, ok)
    PROVE  IInv'
<1> DEFINE possible == TRUE
<1>0. /\ ok => possible /\ past' = past
      /\ ~ok /\ possible => past' = past \cup {"power"}
      /\ ~ok /\ ~possible => past' = past
  <2>1. Call(ok, possible, "power") /\ possible \in BOOLEAN /\ "power" \in FaultKinds
    BY DEF Complete, FaultKinds
  <2> QED
    BY <2>1, CallOutcome
<1>1. TypeOK'
  BY <1>0 DEF IInv, Complete, TypeOK
<1>2. PrimaryShape'
  BY DEF IInv, Complete, TypeOK, PrimaryShape, Shape, Entitled, Owns, PrimaryOwns, Running
<1>3. TrustedShape'
  BY <1>0 DEF IInv, Complete, TypeOK, TrustedShape, Shape, Entitled, Owns, TrustedOwns, Running
<1>4. PrimaryBooks'
  BY <1>0 DEF IInv, Complete, TypeOK, PrimaryBooks, Rest, Owns, PrimaryOwns
<1>5. TrustedBooks'
  BY <1>0 DEF IInv, Complete, TypeOK, TrustedBooks
<1>6. Notifs'
  BY DEF IInv, Complete, TypeOK, Notifs
<1>7. WayOut'
  BY <1>0 DEF IInv, Complete, TypeOK, WayOut, Undone, PrimaryShape, Shape
<1>8. Backed'
  BY <1>0 DEF IInv, Complete, TypeOK, Backed
<1> QED
  BY <1>1, <1>2, <1>3, <1>4, <1>5, <1>6, <1>7, <1>8 DEF IInv

-----------------------------------------------------------------------------
\* The invariant holds at the start, when everything is off and nobody votes.
LEMMA InitIInv == Init => IInv
<1> SUFFICES ASSUME Init PROVE IInv
  OBVIOUS
<1>1. TypeOK
  <2>1. handle \in [VMs -> Int] /\ n \in [VMs -> 0..NIrq] /\ next \in 1..(NIrq + 1)
    BY VmAssumption DEF Init
  <2>2. notif \in Seq(Nat)
    BY DEF Init
  <2> QED
    BY <2>1, <2>2 DEF Init, TypeOK
<1>2. PrimaryShape /\ TrustedShape
  BY DEF Init, PrimaryShape, TrustedShape, Shape, Entitled, Owns, PrimaryOwns
<1>3. PrimaryBooks /\ TrustedBooks
  BY VmAssumption DEF Init, PrimaryBooks, Rest, TrustedBooks
<1>4. Backed /\ Notifs /\ WayOut
  BY DEF Init, Backed, Notifs, WayOut
<1> QED
  BY <1>1, <1>2, <1>3, <1>4 DEF IInv

\* So does every step of clients that keep the protocol.
LEMMA NextIInv == IInv /\ [Next]_vars => IInv'
<1> SUFFICES ASSUME IInv, [Next]_vars PROVE IInv'
  OBVIOUS
<1>1. ASSUME NEW ok \in BOOLEAN, Primary(ok) PROVE IInv'
  BY <1>1, LendMemKeeps, NotifyMemKeeps, LendIrqKeeps, ReclaimMemKeeps, ReclaimIrqKeeps,
     PrimaryPostCommitKeeps DEF Primary
<1>2. ASSUME NEW ok \in BOOLEAN, Trusted(ok) PROVE IInv'
  BY <1>2, AcceptMemKeeps, AcceptIrqKeeps, ResourceInitKeeps, ReleaseIrqKeeps,
     ReleaseMemKeeps DEF Trusted
<1>3. ASSUME NEW v \in VMs, NEW ok \in BOOLEAN, Complete(v, ok) PROVE IInv'
  BY <1>3, CompleteKeeps
<1>4. ASSUME NEW v \in VMs, Client(v) PROVE IInv'
  BY <1>4, CheckKeeps, CheckFailsKeeps, AbandonKeeps, SwapKeeps DEF Client
<1>5. CASE LendDone \/ ReclaimNoMem \/ ReclaimDone \/ ReleaseNoIrq
  BY <1>5, LendDoneKeeps, ReclaimNoMemKeeps, ReclaimDoneKeeps, ReleaseNoIrqKeeps
<1>6. CASE TrustedPostCommit \/ Deliver
  BY <1>6, TrustedPostCommitKeeps, DeliverKeeps
<1>7. CASE UNCHANGED vars
  BY <1>7 DEF vars, IInv, TypeOK, PrimaryShape, TrustedShape, Shape, Entitled, Owns,
     PrimaryOwns, TrustedOwns, PrimaryBooks, Rest, TrustedBooks, Backed, Notifs, WayOut, Undone
<1> QED
  BY <1>1, <1>2, <1>3, <1>4, <1>5, <1>6, <1>7 DEF Next

\* So it holds in every reachable state of the manager.
LEMMA Inductive == Spec => []IInv
<1>1. Init => IInv
  BY InitIInv
<1>2. IInv /\ [Next]_vars => IInv'
  BY NextIInv
<1> QED
  BY <1>1, <1>2, PTL DEF Spec

-----------------------------------------------------------------------------
(* The theorems                                                            *)

\* The requests, the owners' books and the hypervisor's state keep their types.
THEOREM VmTypeCorrect == Spec => []TypeOK
<1>1. IInv => TypeOK
  BY DEF IInv
<1> QED
  BY <1>1, Inductive, PTL

\* Whatever calls of the hypervisor fail and however often, between its operations each VM
\* knows what it lent (sde_vm_primary.c) and what it accepted (sde_vm_trusted.c).
THEOREM BooksAlwaysMatch == Spec => []BooksMatch
<1>1. IInv => BooksMatch
  <2> SUFFICES ASSUME IInv PROVE BooksMatch
    OBVIOUS
  <2>1. (mem = "primary") = (handle["primary"] < 0)
    BY DEF IInv, PrimaryBooks
  <2>2. past \cap {"release", "reclaim"} = {} =>
            \A i \in Irqs : irq[i] # "primary" <=> i <= n["primary"]
    BY VmAssumption DEF IInv, TypeOK, PrimaryBooks, Rest
  <2>3. /\ \A i \in Irqs : irq[i] = "accepted" <=> i <= n["trusted"]
        /\ mem = "accepted" /\ "release" \notin past => handle["trusted"] = lends
    BY DEF IInv, TrustedBooks
  <2> QED
    BY <2>1, <2>2, <2>3 DEF BooksMatch
<1> QED
  BY <1>1, Inductive, PTL

\* A VM whose clients and commits are at rest has a request sde_vm_request_valid grants,
\* whatever calls failed and however often, but for the exceptions that NotStuck names.
THEOREM NeverStuck == Spec => []NotStuck
<1>1. IInv => NotStuck
  <2> SUFFICES ASSUME IInv,
                      NEW v \in VMs, client[v] = "idle", job[v] = "idle", op[v] = "free",
                      v \notin unseen, v = "trusted" => "stale" \notin past,
                      v = "primary" /\ req[v] = "RELEASE" => ~Undone
               PROVE  \E new \in Reqs : Valid(v, new)
    BY DEF NotStuck, Undone
  <2>1. CASE req[v] = "RELEASE"
    <3>1. Valid(v, "ACQUIRE")
      BY <2>1, VmAssumption DEF IInv, TypeOK, WayOut, Valid, Owns, PrimaryOwns
    <3> QED
      BY <3>1
  <2>2. CASE req[v] # "RELEASE"
    <3>1. Owns(v)
      BY <2>2 DEF IInv, PrimaryShape, TrustedShape, Entitled
    <3>2. Valid(v, "NONE")
      BY <2>2, <3>1 DEF Valid
    <3> QED
      BY <3>2
  <2> QED
    BY <2>1, <2>2
<1> QED
  BY <1>1, Inductive, PTL

\* Whatever calls fail and however often, whoever touches the hardware has it, and so never
\* both VMs (sde_kms_check_vm_request and the lend and accept operations of both VMs), but for
\* the exceptions that TouchesOwn names.
THEOREM OnlyTheOwnerTouches == Spec => []TouchesOwn
<1>1. IInv => TouchesOwn
  <2> SUFFICES ASSUME IInv, NEW v \in VMs, Touches(v),
                      v = "trusted" => past \cap {"stale", "kept"} = {}
               PROVE  /\ Has(v, mem)
                      /\ past \cap {"release", "reclaim"} = {} => \A i \in Irqs : Has(v, irq[i])
    BY DEF TouchesOwn
  <2>1. Owns(v)
    <3>1. CASE Running(v) /\ (v \in unseen => job[v] # "NONE")
      BY <3>1 DEF IInv, PrimaryShape, TrustedShape, Shape, Entitled, Running, TypeOK
    <3> QED
      BY <3>1 DEF Touches
  <2>2. CASE v = "primary"
    BY <2>1, <2>2, VmAssumption DEF IInv, TypeOK, PrimaryBooks, Rest, Owns, PrimaryOwns, Has
  <2>3. CASE v = "trusted"
    BY <2>1, <2>3, VmAssumption DEF IInv, TypeOK, TrustedBooks, Backed, Owns, TrustedOwns, Has
  <2> QED
    BY <2>2, <2>3
<1> QED
  BY <1>1, Inductive, PTL
=============================================================================
