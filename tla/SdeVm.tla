-------------------------------- MODULE SdeVm --------------------------------
(***************************************************************************)
(* The hand-over of the display between the primary and the trusted        *)
(* virtual machine (sde_vm_primary.c, sde_vm_trusted.c, sde_vm_common.c    *)
(* and their callers in sde_kms.c).  A client asks for it with the         *)
(* vm_request_state of a commit: RELEASE gives the hardware away when the  *)
(* commit is done, ACQUIRE takes it while the commit is checked.  Neither  *)
(* the check nor the commit looks at the request of a CRTC that is and     *)
(* stays inactive, but the request becomes the CRTC's all the same.        *)
(*                                                                         *)
(* In each VM a client thread checks commits under the modeset locks and   *)
(* the display thread carries them out; what they do with memory and       *)
(* interrupts is under vm_res_lock, one call of the hypervisor after the   *)
(* other, and the calls of the two VMs interleave.                         *)
(*                                                                         *)
(* The hypervisor is external: it lends memory and interrupts, lets the    *)
(* trusted VM accept what is lent to it and release what it accepted, and  *)
(* the primary VM reclaim what is not accepted.  Its notifications arrive  *)
(* in order.                                                               *)
(*                                                                         *)
(* One CRTC; both VMs list the interrupts in the same order.  Left out:    *)
(* the refusal of a request with idle power collapse or several CRTCs, the *)
(* message queue, which no VM listens to in this tree.                     *)
(***************************************************************************)
EXTENDS Integers, Sequences, FiniteSets

CONSTANTS
    NIrq,       \* interrupts of the display
    Fault,      \* calls that may fail: subset of FaultKinds
    MaxFaults,  \* no call fails any more once this many kinds of them have
    MaxLends    \* bound on the times the memory is lent

VMs == {"primary", "trusted"}
Reqs == {"NONE", "RELEASE", "ACQUIRE"}
FaultKinds == {"power", "lend", "notify", "reclaim", "accept", "release", "init"}

ASSUME VmAssumption ==
    /\ NIrq \in Nat \ {0} /\ MaxFaults \in Nat /\ MaxLends \in Nat
    /\ Fault \subseteq FaultKinds

VARIABLES
    req,     \* vm_request_state of the CRTC's current state
    active,  \* is the CRTC active in its current state?
    client,  \* what the client thread has checked: a request, or "idle"
    seen,    \* is the CRTC active before or after the commit that is checked?
    job,     \* request of the commit the display thread runs, or "idle"
    op,      \* what the holder of vm_res_lock does, or "free"
    by,      \* the holder: "client" (or none) or "commit"
    handle,  \* io_mem_handle
    n,       \* n_irq_lent
    next,    \* the interrupt the trusted VM accepts next, 1 when it accepts none
    mem,     \* hypervisor: who has the memory
    irq,     \* hypervisor: who has each interrupt
    lends,   \* hypervisor: parcels so far, the last one is the current
    notif,   \* lend notifications under way to the trusted VM
    past,    \* history: kinds of faults; "left", the primary VM took the hardware for a
             \* commit that failed; "stale", the trusted VM was granted what a commit is
             \* giving away; "kept", it gave the memory away and kept interrupts
    unseen   \* history: VMs whose request was changed last by a commit of an inactive CRTC

hyp == <<mem, irq, lends, notif>>
own == <<handle, n, next>>
state == <<req, active, unseen>>
checked == <<client, seen>>
vars == <<state, checked, job, op, by, own, hyp, past>>

Irqs == 1..NIrq

Init ==
    /\ req = [v \in VMs |-> IF v = "trusted" THEN "RELEASE" ELSE "NONE"]
    /\ active = [v \in VMs |-> FALSE] /\ seen = active /\ unseen = {}
    /\ client = [v \in VMs |-> "idle"] /\ job = [v \in VMs |-> "idle"]
    /\ op = [v \in VMs |-> "free"] /\ by = [v \in VMs |-> "client"]
    /\ handle = [v \in VMs |-> IF v = "trusted" THEN 0 ELSE -1]
    /\ n = [v \in VMs |-> 0] /\ next = 1
    /\ mem = "primary" /\ irq = [i \in Irqs |-> "primary"]
    /\ lends = 0 /\ notif = <<>> /\ past = {}

-----------------------------------------------------------------------------
(* Ownership as a VM sees it, and the requests it allows                   *)

PrimaryOwns == n["primary"] = 0 /\ handle["primary"] < 0
TrustedOwns == n["trusted"] = NIrq /\ handle["trusted"] >= 0
Owns(v) == IF v = "primary" THEN PrimaryOwns ELSE TrustedOwns

\* Mutant: the trusted VM, too, may not acquire what it has.
MutValid(v, new) ==
    \/ new \in {"NONE", "RELEASE"} /\ req[v] # "RELEASE" /\ Owns(v)
    \/ new = "ACQUIRE" /\ req[v] = "RELEASE" /\ ~Owns(v)

\* sde_vm_request_valid
Valid(v, new) ==
    \/ new \in {"NONE", "RELEASE"} /\ req[v] # "RELEASE" /\ Owns(v)
    \/ new = "ACQUIRE" /\ req[v] = "RELEASE" /\ (Owns(v) => v = "trusted")

-----------------------------------------------------------------------------
(* Steps under vm_res_lock                                                 *)

Happened(k) == past' = past \cup {k}

\* A call of the hypervisor: it fails when it must, and may fail otherwise.
MayFail(ok, possible, kind) ==
    /\ ok => possible
    /\ possible /\ ~ok => kind \in Fault /\ Cardinality(past \cap FaultKinds) < MaxFaults

Call(ok, possible, kind) ==
    /\ MayFail(ok, possible, kind)
    /\ IF possible /\ ~ok THEN Happened(kind) ELSE UNCHANGED past

Goto(v, to) == op' = [op EXCEPT ![v] = to]

\* The client thread has nothing checked any more.
Drop(v) == client' = [client EXCEPT ![v] = "idle"] /\ seen' = [seen EXCEPT ![v] = FALSE]

\* The lock is dropped: the commit is over, or the check is with result ok.
End(v, ok) ==
    /\ Goto(v, "free") /\ by' = [by EXCEPT ![v] = "client"]
    /\ IF by[v] = "commit"
       THEN job' = [job EXCEPT ![v] = "idle"] /\ UNCHANGED checked
       ELSE UNCHANGED job /\ IF ok THEN UNCHANGED checked ELSE Drop(v)

Go(v, to) == Goto(v, to) /\ UNCHANGED <<by, checked, job>>

\* _sde_vm_lend_mem: the memory, then the notification of it.
LendMem(ok) ==
    /\ op["primary"] = "lendmem" /\ lends < MaxLends
    /\ Call(ok, TRUE, "lend")
    /\ IF ok
       THEN /\ mem' = "lent" /\ lends' = lends + 1
            /\ handle' = [handle EXCEPT !["primary"] = lends + 1]
            /\ Go("primary", "notify")
       ELSE UNCHANGED <<mem, lends, handle>> /\ Go("primary", "reclaimmem")
    /\ UNCHANGED <<state, n, next, irq, notif>>

NotifyMem(ok) ==
    /\ op["primary"] = "notify"
    /\ Call(ok, TRUE, "notify")
    /\ notif' = IF ok THEN Append(notif, handle["primary"]) ELSE notif
    /\ Go("primary", IF ok THEN "lendirq" ELSE "reclaimmem")
    /\ UNCHANGED <<state, own, mem, irq, lends>>

\* _sde_vm_lend_irq, one interrupt; it counts even if its notification fails.  What the
\* primary VM does not have cannot be lent.
LendIrq(ok) ==
    /\ op["primary"] = "lendirq" /\ n["primary"] < NIrq
    /\ LET i == n["primary"] + 1
           possible == irq[i] = "primary"
       IN \/ /\ possible /\ Call(ok, TRUE, "notify")
             /\ irq' = [irq EXCEPT ![i] = "lent"] /\ n' = [n EXCEPT !["primary"] = i]
          \/ ~ok /\ Call(FALSE, possible, "lend") /\ UNCHANGED <<irq, n>>
    /\ Go("primary", IF ok THEN "lendirq" ELSE "reclaimmem")
    /\ UNCHANGED <<state, handle, next, mem, lends, notif>>

LendDone ==
    /\ op["primary"] = "lendirq" /\ n["primary"] = NIrq
    /\ End("primary", TRUE)
    /\ UNCHANGED <<state, own, hyp, past>>

\* Mutant: the result of the reclaim is ignored.
MutReclaimMem(ok) ==
    /\ op["primary"] = "reclaimmem" /\ handle["primary"] >= 0
    /\ Call(ok, mem \in {"lent", "released"}, "reclaim")
    /\ handle' = [handle EXCEPT !["primary"] = -1]
    /\ mem' = IF ok THEN "primary" ELSE mem
    /\ Go("primary", "reclaimirq")
    /\ UNCHANGED <<state, n, next, irq, lends, notif>>

\* _sde_vm_reclaim_mem: refused while the trusted VM has the memory.
ReclaimMem(ok) ==
    /\ op["primary"] = "reclaimmem" /\ handle["primary"] >= 0
    /\ Call(ok, mem \in {"lent", "released"}, "reclaim")
    /\ IF ok
       THEN /\ handle' = [handle EXCEPT !["primary"] = -1] /\ mem' = "primary"
            /\ Go("primary", "reclaimirq")
       ELSE UNCHANGED <<handle, mem>> /\ End("primary", FALSE)
    /\ UNCHANGED <<state, n, next, irq, lends, notif>>

ReclaimNoMem ==
    /\ op["primary"] = "reclaimmem" /\ handle["primary"] < 0
    /\ Go("primary", "reclaimirq")
    /\ UNCHANGED <<state, own, hyp, past>>

\* _sde_vm_reclaim_irq, the last one first; after a failure the rest is forgotten.
ReclaimIrq(ok) ==
    /\ op["primary"] = "reclaimirq" /\ n["primary"] > 0
    /\ LET i == n["primary"] IN
       /\ Call(ok, irq[i] \in {"lent", "released"}, "reclaim")
       /\ irq' = IF ok THEN [irq EXCEPT ![i] = "primary"] ELSE irq
       /\ n' = [n EXCEPT !["primary"] = IF ok THEN i - 1 ELSE 0]
    /\ IF ok THEN Go("primary", "reclaimirq") ELSE End("primary", FALSE)
    /\ UNCHANGED <<state, handle, next, mem, lends, notif>>

ReclaimDone ==
    /\ op["primary"] = "reclaimirq" /\ n["primary"] = 0
    /\ End("primary", TRUE)
    /\ UNCHANGED <<state, own, hyp, past>>

\* _sde_vm_accept_mem: what is not accepted need not be released; what is accepted and
\* not the memory expected is.
AcceptMem(ok) ==
    /\ op["trusted"] = "acceptmem"
    /\ LET possible == mem = "lent" /\ handle["trusted"] = lends IN
       /\ Call(ok, possible, "accept")
       /\ \/ ok /\ mem' = "accepted" /\ UNCHANGED handle
          \/ ~ok /\ possible /\ mem' = "accepted" /\ UNCHANGED handle
          \/ ~ok /\ UNCHANGED mem /\ handle' = [handle EXCEPT !["trusted"] = -1]
    /\ Go("trusted", IF ok THEN "acceptirq" ELSE "releaseirq")
    /\ UNCHANGED <<state, n, next, irq, lends, notif>>

\* Mutant: an interrupt is counted after it has been compared with the one expected.
MutAcceptIrq(ok) ==
    /\ op["trusted"] = "acceptirq" /\ next <= NIrq
    /\ LET possible == irq[next] = "lent" IN
       /\ Call(ok, possible, "accept")
       /\ IF possible THEN irq' = [irq EXCEPT ![next] = "accepted"] ELSE UNCHANGED irq
    /\ n' = IF ok THEN [n EXCEPT !["trusted"] = @ + 1] ELSE n
    /\ next' = IF ok THEN next + 1 ELSE 1
    /\ Go("trusted", IF ok THEN "acceptirq" ELSE "releaseirq")
    /\ UNCHANGED <<state, handle, mem, lends, notif>>

\* _sde_vm_accept_irq, one interrupt; it counts even if it is not the one expected.
AcceptIrq(ok) ==
    /\ op["trusted"] = "acceptirq" /\ next <= NIrq
    /\ LET possible == irq[next] = "lent" IN
       /\ Call(ok, possible, "accept")
       /\ \/ /\ possible
             /\ irq' = [irq EXCEPT ![next] = "accepted"]
             /\ n' = [n EXCEPT !["trusted"] = @ + 1]
          \/ ~ok /\ UNCHANGED <<irq, n>>
    /\ next' = IF ok THEN next + 1 ELSE 1
    /\ Go("trusted", IF ok THEN "acceptirq" ELSE "releaseirq")
    /\ UNCHANGED <<state, handle, mem, lends, notif>>

\* vm_resource_init; its failure fails the check and leaves the hardware accepted.
ResourceInit(ok) ==
    /\ op["trusted"] = "acceptirq" /\ next > NIrq
    /\ Call(ok, TRUE, "init")
    /\ next' = 1
    /\ End("trusted", ok)
    /\ UNCHANGED <<state, handle, n, hyp>>

\* _sde_vm_release_irq, the last one first; a failure, also of the notification, ends it.
ReleaseIrq(ok) ==
    /\ op["trusted"] = "releaseirq" /\ n["trusted"] > 0
    /\ LET i == n["trusted"]
           possible == irq[i] = "accepted"
       IN /\ Call(ok, possible, "release")
          /\ \/ /\ possible
                /\ irq' = [irq EXCEPT ![i] = "released"]
                /\ n' = [n EXCEPT !["trusted"] = i - 1]
             \/ ~ok /\ UNCHANGED <<irq, n>>
    /\ Go("trusted", IF ok THEN "releaseirq" ELSE "releasemem")
    /\ UNCHANGED <<state, handle, next, mem, lends, notif>>

ReleaseNoIrq ==
    /\ op["trusted"] = "releaseirq" /\ n["trusted"] = 0
    /\ Go("trusted", "releasemem")
    /\ UNCHANGED <<state, own, hyp, past>>

\* _sde_vm_release_mem; the handle stays when the call or the notification fails.
ReleaseMem(ok) ==
    /\ op["trusted"] = "releasemem"
    /\ LET possible == mem = "accepted" /\ handle["trusted"] = lends
           failed == IF possible /\ ~ok THEN {"release"} ELSE {}
           kept == IF n["trusted"] > 0 THEN {"kept"} ELSE {}
       IN IF handle["trusted"] < 0 THEN ok /\ UNCHANGED <<mem, handle, past>>
          ELSE /\ MayFail(ok, possible, "release")
               /\ \/ possible /\ mem' = "released" /\ past' = past \cup failed \cup kept
                  \/ ~ok /\ UNCHANGED mem /\ past' = past \cup failed
               /\ handle' = IF ok THEN [handle EXCEPT !["trusted"] = -1] ELSE handle
    /\ End("trusted", FALSE)
    /\ UNCHANGED <<state, n, next, irq, lends, notif>>

\* sde_vm_mem_lend_notification_handler
Deliver ==
    /\ op["trusted"] = "free" /\ notif # <<>>
    /\ handle' = [handle EXCEPT !["trusted"] = Head(notif)] /\ notif' = Tail(notif)
    /\ UNCHANGED <<state, checked, job, op, by, n, next, mem, irq, lends, past>>

-----------------------------------------------------------------------------
(* The client thread, with the modeset locks                               *)

\* What the commit asks for, as sde_kms sees it: nothing ("off") for a CRTC that is and
\* stays inactive.
Asked(v) == IF client[v] # "idle" /\ ~seen[v] THEN "off" ELSE client[v]

\* sde_kms_check_vm_request, _sde_kms_validate_vm_request: a commit of a CRTC that is and
\* stays inactive is not looked at, nor one without a request, before and now; an ACQUIRE
\* of a VM without the hardware takes it.
Check(v, new, on) ==
    /\ client[v] = "idle"
    /\ client' = [client EXCEPT ![v] = new] /\ seen' = [seen EXCEPT ![v] = active[v] \/ on]
    /\ \/ /\ ~(active[v] \/ on) \/ (req[v] = "NONE" /\ new = "NONE")
          /\ UNCHANGED <<op, past>>
       \/ /\ active[v] \/ on
          /\ op[v] = "free" /\ Valid(v, new)
          /\ IF new = "ACQUIRE" /\ ~Owns(v)
             THEN /\ Goto(v, IF v = "primary" THEN "reclaimmem" ELSE "acceptmem")
                  /\ UNCHANGED past
             ELSE /\ UNCHANGED op
                  /\ IF new = "ACQUIRE" /\ job[v] = "RELEASE" THEN Happened("stale")
                     ELSE UNCHANGED past
    /\ UNCHANGED <<state, job, by, own, hyp>>

Checked(v) == client[v] # "idle" /\ (op[v] = "free" \/ by[v] = "commit")

\* The check fails later on: sde_kms_vm_res_release releases what an ACQUIRE took, for
\* which the primary VM has no handler.
CheckFails(v) ==
    /\ Checked(v)
    /\ IF Asked(v) = "ACQUIRE" /\ v = "trusted"
       THEN /\ op[v] = "free" /\ Goto(v, "releaseirq")
            /\ UNCHANGED <<checked, past>>
       ELSE /\ Drop(v) /\ UNCHANGED op
            /\ IF Asked(v) = "ACQUIRE" THEN Happened("left") ELSE UNCHANGED past
    /\ UNCHANGED <<state, job, by, own, hyp>>

\* It was a TEST_ONLY commit, or the commit fails before the swap (a signal, -EDEADLK).
Abandon(v) ==
    /\ Checked(v)
    /\ Drop(v)
    /\ IF Asked(v) = "ACQUIRE" /\ v = "primary" THEN Happened("left") ELSE UNCHANGED past
    /\ UNCHANGED <<state, job, op, by, own, hyp>>

\* msm_atomic_commit waits for the commit before, swaps the state in and queues the commit,
\* which has nothing to do here for a CRTC that is and stays inactive.
Swap(v, on) ==
    /\ Checked(v) /\ job[v] = "idle"
    /\ active[v] \/ on = seen[v]
    /\ req' = [req EXCEPT ![v] = client[v]] /\ active' = [active EXCEPT ![v] = on]
    /\ job' = [job EXCEPT ![v] = IF seen[v] THEN client[v] ELSE "idle"]
    /\ Drop(v)
    /\ unseen' = IF req[v] = client[v] THEN unseen
                 ELSE IF seen[v] THEN unseen \ {v} ELSE unseen \cup {v}
    /\ UNCHANGED <<op, by, own, hyp, past>>

-----------------------------------------------------------------------------
(* The display thread: the commit runs, and at its end ...                 *)

Running(v) == job[v] # "idle" /\ ~(op[v] # "free" /\ by[v] = "commit")

\* sde_kms_complete_commit, which ends early when the power resource is not enabled.
Complete(v, ok) ==
    /\ Running(v) /\ (ok => job[v] # "RELEASE")
    /\ Call(ok, TRUE, "power")
    /\ job' = [job EXCEPT ![v] = "idle"]
    /\ UNCHANGED <<state, checked, op, by, own, hyp>>

\* sde_kms_vm_primary_post_commit after a RELEASE: frames and works are waited for, the
\* clients prepared and interrupts disabled; then _sde_vm_release lists the resources.
PrimaryPostCommit(ok) ==
    /\ Running("primary") /\ job["primary"] = "RELEASE" /\ op["primary"] = "free"
    /\ Call(ok, TRUE, "lend")
    /\ IF ok
       THEN /\ Goto("primary", "lendmem") /\ by' = [by EXCEPT !["primary"] = "commit"]
            /\ UNCHANGED <<checked, job>>
       ELSE job' = [job EXCEPT !["primary"] = "idle"] /\ UNCHANGED <<op, checked, by>>
    /\ UNCHANGED <<state, own, hyp>>

\* sde_kms_vm_trusted_post_commit, likewise.
TrustedPostCommit ==
    /\ Running("trusted") /\ job["trusted"] = "RELEASE" /\ op["trusted"] = "free"
    /\ Goto("trusted", "releaseirq") /\ by' = [by EXCEPT !["trusted"] = "commit"]
    /\ UNCHANGED <<state, checked, job, own, hyp, past>>

-----------------------------------------------------------------------------
Primary(ok) ==
    \/ LendMem(ok) \/ NotifyMem(ok) \/ LendIrq(ok) \/ ReclaimMem(ok) \/ ReclaimIrq(ok)
    \/ PrimaryPostCommit(ok)

Trusted(ok) ==
    \/ AcceptMem(ok) \/ AcceptIrq(ok) \/ ResourceInit(ok) \/ ReleaseIrq(ok) \/ ReleaseMem(ok)

Client(v) ==
    \/ CheckFails(v) \/ Abandon(v)
    \/ \E on \in BOOLEAN : Swap(v, on) \/ \E new \in Reqs : Check(v, new, on)

Next ==
    \/ \E ok \in BOOLEAN : Primary(ok) \/ Trusted(ok) \/ \E v \in VMs : Complete(v, ok)
    \/ LendDone \/ ReclaimNoMem \/ ReclaimDone \/ ReleaseNoIrq
    \/ TrustedPostCommit \/ Deliver
    \/ \E v \in VMs : Client(v)

Spec == Init /\ [][Next]_vars

-----------------------------------------------------------------------------
(* Properties                                                              *)

Where == {"primary", "lent", "accepted", "released"}
PrimaryOps == {"free", "lendmem", "notify", "lendirq", "reclaimmem", "reclaimirq"}
TrustedOps == {"free", "acceptmem", "acceptirq", "releaseirq", "releasemem"}

TypeOK ==
    /\ req \in [VMs -> Reqs] /\ unseen \subseteq VMs
    /\ active \in [VMs -> BOOLEAN] /\ seen \in [VMs -> BOOLEAN]
    /\ client \in [VMs -> Reqs \cup {"idle"}] /\ job \in [VMs -> Reqs \cup {"idle"}]
    /\ op \in [VMs -> PrimaryOps \cup TrustedOps]
    /\ op["primary"] \in PrimaryOps /\ op["trusted"] \in TrustedOps
    /\ by \in [VMs -> {"client", "commit"}]
    /\ handle \in [VMs -> Int] /\ n \in [VMs -> 0..NIrq] /\ next \in 1..(NIrq + 1)
    /\ mem \in Where /\ irq \in [Irqs -> Where]
    /\ lends \in Nat /\ notif \in Seq(Nat)
    /\ past \subseteq FaultKinds \cup {"left", "stale", "kept"}

Has(v, x) == x = IF v = "primary" THEN "primary" ELSE "accepted"

\* A running commit of a display that is on, or anybody (backlight, early wakeup, MISR,
\* panel commands) who takes vm_res_lock and asks sde_vm_owns_hw.
Touches(v) ==
    \/ Running(v) /\ (v \in unseen => job[v] # "NONE")
    \/ op[v] = "free" /\ Owns(v)

\* Whoever touches the hardware has it, and so never both VMs, whichever way their calls
\* interleave and fail: the memory always, the interrupts as long as none got lost.  So
\* whatever the clients of one VM ask for does not take the hardware from the other.
\* (Known exceptions: a VM in which a commit of an inactive CRTC has reset the request,
\* which sde_kms_check_vm_request skips, is then let in without a request; the trusted VM
\* takes the claim of a release that is still under way for an acquisition, "stale", and
\* counts interrupts it kept as if it had the memory, "kept"; an interrupt the trusted VM
\* did not release is forgotten by the primary VM.)
TouchesOwn ==
    \A v \in VMs :
        Touches(v) /\ (v = "trusted" => past \cap {"stale", "kept"} = {}) =>
            /\ Has(v, mem)
            /\ past \cap {"release", "reclaim"} = {} => \A i \in Irqs : Has(v, irq[i])

\* Between their operations both VMs know what they lent and what they accepted, whatever
\* failed: so what was lent can be reclaimed and what was accepted released.  (Known
\* exception: an interrupt that could not be reclaimed is forgotten; and when the trusted VM
\* could not release the memory, its next ACQUIRE, which the hypervisor refuses, forgets it.)
BooksMatch ==
    /\ op["primary"] = "free" =>
        /\ (mem = "primary") = (handle["primary"] < 0)
        /\ past \cap {"release", "reclaim"} = {} =>
               \A i \in Irqs : irq[i] # "primary" <=> i <= n["primary"]
    /\ op["trusted"] = "free" =>
        /\ \A i \in Irqs : irq[i] = "accepted" <=> i <= n["trusted"]
        /\ mem = "accepted" /\ "release" \notin past => handle["trusted"] = lends

\* A VM at rest has a request it may make, whatever calls failed before.  (Known
\* exceptions: the primary VM refuses every request when its last one is a RELEASE whose
\* hardware it has again or has kept, after a failure, or after an ACQUIRE that was granted
\* and not committed; the trusted VM may after a stale claim; and so may a VM in which a
\* commit of an inactive CRTC has changed the request.)
NotStuck ==
    \A v \in VMs :
        /\ client[v] = "idle" /\ job[v] = "idle" /\ op[v] = "free"
        /\ v \notin unseen /\ (v = "trusted" => "stale" \notin past)
        => \/ \E new \in Reqs : Valid(v, new)
           \/ /\ v = "primary" /\ req[v] = "RELEASE"
              /\ past \cap {"power", "lend", "notify", "reclaim", "release", "left"} # {}
=============================================================================
