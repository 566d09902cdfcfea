------------------------- MODULE HypervisorProofs -------------------------
(***************************************************************************)
(* Proofs about Hypervisor: the composed system implements Sched, so that  *)
(* the theorems of SchedProofs hold of it, and it keeps the invariant of   *)
(* the trust engine.                                                       *)
(***************************************************************************)
EXTENDS Hypervisor, IdsProofs

\* The vCPU tables of the other VMs are as they were.
VcpusKept(h, g, v) == \A w \in VMs : w # v => g.vcpus[w] = h.vcpus[w]

\* The machines the security engine can leave of h when it does not leave it
\* alone, by one call of trust_quarantine for v.
Stopped(h, v) == vm_stop(vm_suspend(h, v), v)
---------------------------------------------------------------------------
\* The life-cycle hypercalls change no vCPU table.
LEMMA LifeCycleVcpus ==
    ASSUME NEW h \in Machine, NEW v \in VMs
    PROVE  /\ vm_stop(h, v).vcpus = h.vcpus
           /\ vm_suspend(h, v).vcpus = h.vcpus
           /\ vm_resume(h, v).vcpus = h.vcpus
<1> DEFINE p == [c \in Pool |-> IF c \in VcpusOf(h, v)
                                THEN [h.pool[c] EXCEPT !.state = "STOPPED"]
                                ELSE h.pool[c]]
           s == vm_stop(h, v)
<1>1. \/ s = h
      \/ s = [h EXCEPT !.pool = p, !.mapped[v] = FALSE, !.vttbr = v, !.state[v] = "STOPPED"]
  BY DEF vm_stop
<1> HIDE DEF p, s
<1>2. s.vcpus = h.vcpus
  BY <1>1, Zenon DEF Machine
<1>3. vm_suspend(h, v).vcpus = h.vcpus /\ vm_resume(h, v).vcpus = h.vcpus
  BY DEF vm_suspend, vm_resume, power_gate_vm, power_ungate_vm, Machine
<1> QED
  BY <1>2, <1>3 DEF s

\* A restart gives new vCPUs to its own VM only.
LEMMA RestartVcpus ==
    ASSUME NEW h, HypInv(h), NEW v \in VMs
    PROVE  VcpusKept(h, vm_suspend(h, v), v) /\ VcpusKept(h, vm_stop(h, v), v)
           /\ VcpusKept(h, vm_restart(h, v), v)
<1> DEFINE s == vm_stop(h, v)
           f == vm_finalize(s, v)
           e == vcpu_set_entry(f, v)
<1>1. h \in Machine /\ HypInv(s) /\ s \in Machine
  BY StopInv DEF HypInv
<1>2. s.vcpus = h.vcpus /\ vm_suspend(h, v).vcpus = h.vcpus
  BY <1>1, LifeCycleVcpus
<1>4. HypInv(f) /\ f \in Machine
  <2>1. s.state[v] = "STOPPED"
    BY StopKeepsCore
  <2> QED
    BY <1>1, <2>1, FinalizeInv DEF HypInv
<1>5. \A w \in VMs : w # v => f.vcpus[w] = s.vcpus[w]
  <2> DEFINE n == Fresh(s, v)
             vs == [i \in VcpuId |-> IF i < n THEN s.used + 1 + i ELSE s.vcpus[v][i]]
             p == [c \in Pool |-> IF c \in (s.used + 1)..(s.used + n)
                                  THEN vcpu_init(v) ELSE s.pool[c]]
  <2>1. f = [s EXCEPT !.mapped[v] = TRUE, !.nvc[v] = n, !.vcpus[v] = vs, !.pool = p,
                      !.used = s.used + n,
                      !.state[v] = IF n = NumVcpus[v] THEN "READY" ELSE @]
    BY DEF vm_finalize
  <2> HIDE DEF n, vs, p, s, f
  <2>2. f.vcpus = [s.vcpus EXCEPT ![v] = vs]
    BY <1>1, <2>1, SMTT(40) DEF Machine
  <2> QED
    BY <1>1, <2>2, Fields
<1> HIDE DEF s, f
<1>6. e.vcpus = f.vcpus /\ e \in Machine
  BY <1>4, SetEntryInv, Zenon DEF vcpu_set_entry, Machine, HypInv
<1> HIDE DEF e
<1>7. vm_start(e, v).vcpus = e.vcpus
  BY <1>6 DEF vm_start, Machine
<1>8. vm_restart(h, v) = f \/ vm_restart(h, v) = vm_start(e, v)
  BY DEF vm_restart, s, f, e
<1> QED
  BY <1>2, <1>5, <1>6, <1>7, <1>8 DEF VcpusKept, s

\* So does everything the security engine does to a VM.
LEMMA OutcomeVcpus ==
    ASSUME NEW h, HypInv(h), NEW v \in VMs, NEW g \in Recovered(h, v) \union {Stopped(h, v)}
    PROVE  VcpusKept(h, g, v)
<1> DEFINE s == vm_suspend(h, v)
<1>1. HypInv(s) /\ VcpusKept(h, s, v)
  BY SuspendInv, RestartVcpus
<1>2. g \in {s, vm_restart(s, v), vm_stop(s, v)}
  BY DEF Recovered, Stopped
<1> HIDE DEF s
<1>3. VcpusKept(s, vm_restart(s, v), v) /\ VcpusKept(s, vm_stop(s, v), v)
  BY <1>1, RestartVcpus
<1> QED
  BY <1>1, <1>2, <1>3 DEF VcpusKept

\* What trust_quarantine does to the machine, when it does anything.
LEMMA QuarantineOutcome ==
    ASSUME NEW s, VseInv(s), NEW v \in VMs, ~trust_is_blocked(s.trust, v)
    PROVE  LET r == trust_quarantine(s, v)
           IN  \/ r.hyp \in Recovered(s.hyp, v)
               \/ r.hyp = Stopped(s.hyp, v) /\ r.trust.level[v] = REVOKED
<1> DEFINE q == [hyp |-> vm_suspend(s.hyp, v), trust |-> trust_set(s.trust, v, QUARANTINE)]
           r == trust_quarantine(s, v)
<1>1. r = IF v \in Backup THEN do_failover(q, v) ELSE q
  BY DEF trust_quarantine, failover_on_quarantine
<1>2. WellFormed(q)
  <2>1. QUARANTINE \in TRUSTED..REVOKED
    BY Levels
  <2> QED
    BY <2>1, SuspendInv, SetLevel, Zenon DEF VseInv, WellFormed
<1>3. q.hyp = vm_suspend(s.hyp, v)
  OBVIOUS
<1> HIDE DEF q, r
<1>4. CASE r = q
  BY <1>3, <1>4 DEF Recovered, r
<1>5. CASE r = trust_revoke(q, v)
  <2>1. r.trust.level[v] = REVOKED
    BY <1>2, <1>5, RevokeEffect
  <2>2. r.hyp = vm_stop(q.hyp, v)
    BY <1>5 DEF trust_revoke
  <2> QED
    BY <1>3, <2>1, <2>2 DEF Stopped, r
<1>6. CASE r.hyp = vm_restart(q.hyp, v)
  BY <1>3, <1>6, SMTT(40) DEF Recovered, r
<1>7. r = q \/ r = trust_revoke(q, v) \/ r.hyp = vm_restart(q.hyp, v)
  BY <1>1 DEF do_failover
<1> QED
  BY <1>4, <1>5, <1>6, <1>7, SMTT(40)

\* The same for trust_report_fault.
LEMMA ReportOutcome ==
    ASSUME NEW s, VseInv(s), NEW v \in VMs
    PROVE  LET r == trust_report_fault(s, v)
           IN  \/ r.hyp \in {s.hyp} \union Recovered(s.hyp, v)
               \/ r.hyp = Stopped(s.hyp, v) /\ r.trust.level[v] = REVOKED
<1> DEFINE t == [s.trust EXCEPT !.faults[v] = Bump(@, ThreshQuarantine), !.age[v] = 0]
           n == [hyp |-> s.hyp, trust |-> t]
           q == [hyp |-> vm_suspend(n.hyp, v), trust |-> trust_set(n.trust, v, QUARANTINE)]
           r == trust_report_fault(s, v)
<1>1. \/ r.hyp = s.hyp
      \/ r = trust_quarantine(n, v) /\ s.trust.level[v] # REVOKED
  BY DEF trust_report_fault
<1>2. CASE r.hyp = s.hyp
  BY <1>2
<1>3. CASE r = trust_quarantine(n, v) /\ s.trust.level[v] # REVOKED
  <2>1. r = n \/ r = (IF v \in Backup THEN do_failover(q, v) ELSE q)
    BY <1>3 DEF trust_quarantine, failover_on_quarantine
  <2>2. n.hyp = s.hyp /\ n.trust \in TrustState
    <3>1. Bump(s.trust.faults[v], ThreshQuarantine) \in 0..ThreshQuarantine
      BY TrustFields, TrustAssumption DEF Bump, VseInv, WellFormed
    <3>2. 0 \in 0..CleanPeriod
      BY TrustAssumption
    <3> QED
      BY <3>1, <3>2, Zenon DEF TrustState, VseInv, WellFormed
  <2> HIDE DEF t, n, r
  <2>3. WellFormed(q)
    <3>1. QUARANTINE \in TRUSTED..REVOKED
      BY Levels
    <3> QED
      BY <2>2, <3>1, SuspendInv, SetLevel, Zenon DEF VseInv, WellFormed
  <2>4. q.hyp = vm_suspend(s.hyp, v)
    BY <2>2
  <2> HIDE DEF q
  <2>5. r = n \/ r = q \/ r = trust_revoke(q, v) \/ r.hyp = vm_restart(q.hyp, v)
    BY <2>1 DEF do_failover
  <2>6. CASE r = trust_revoke(q, v)
    <3>1. r.trust.level[v] = REVOKED
      BY <2>3, <2>6, RevokeEffect
    <3>2. r.hyp = vm_stop(q.hyp, v)
      BY <2>6 DEF trust_revoke
    <3> QED
      BY <2>4, <3>1, <3>2 DEF Stopped, r
  <2>7. CASE r = n \/ r = q \/ r.hyp = vm_restart(q.hyp, v)
    BY <2>2, <2>4, <2>7 DEF Recovered, r
  <2> QED
    BY <2>5, <2>6, <2>7
<1> QED
  BY <1>1, <1>2, <1>3, SMTT(40)

\* What a fault handler leaves of the machine: nothing changed, or the VM was
\* recovered once or twice, or stopped for good, perhaps after one recovery.
LEMMA FaultOutcome ==
    ASSUME NEW v \in VMs, NEW type, VseInv(Vse), HandleFault(v, type)
    PROVE  /\ \/ hyp' = hyp
              \/ \E h \in {hyp} \union Recovered(hyp, v) :
                   hyp' \in Recovered(h, v) \union {Stopped(h, v)}
           /\ VcpusKept(hyp, hyp', v)
<1> DEFINE r == trust_report_fault(Vse, v)
           p == Pair(r)
           q == trust_quarantine(p, v)
<1>1. Vse.hyp = hyp /\ HypInv(hyp)
  BY DEF Vse, VseInv, WellFormed
<1>2. \/ r.hyp \in {hyp} \union Recovered(hyp, v)
      \/ r.hyp = Stopped(hyp, v) /\ r.trust.level[v] = REVOKED
  BY <1>1, ReportOutcome
<1>3. VseInv(r)
  <2>1. WellFormed(r) /\ OnlyVm(Vse, r, v) /\ VmOK(r, v)
    BY ReportInv
  <2> HIDE DEF r
  <2> QED
    BY <2>1, LocalInv
<1>4. /\ hyp' = Enforced(ids, r, v).hyp
      /\ \/ Enforced(ids, r, v) = p
         \/ Enforced(ids, r, v) = q /\ ~trust_is_blocked(r.trust, v)
  BY FaultIs DEF Enforced
<1> HIDE DEF r
<1>5. VseInv(p) /\ p.hyp = r.hyp /\ p.trust = r.trust
  BY <1>3, PairInv
<1> HIDE DEF p
<1>6. VcpusKept(hyp, r.hyp, v)
  <2>1. CASE r.hyp = hyp
    BY <2>1 DEF VcpusKept
  <2>2. CASE r.hyp \in Recovered(hyp, v) \union {Stopped(hyp, v)}
    BY <1>1, <2>2, OutcomeVcpus, SMTT(40)
  <2> QED
    BY <1>2, <2>1, <2>2
<1>7. CASE Enforced(ids, r, v) = p
  BY <1>2, <1>4, <1>5, <1>6, <1>7, SMTT(40)
<1>8. CASE Enforced(ids, r, v) = q /\ ~trust_is_blocked(r.trust, v)
  <2>1. r.hyp \in {hyp} \union Recovered(hyp, v)
    BY <1>2, <1>8, Levels, SMTT(40) DEF trust_is_blocked
  <2>2. q.hyp \in Recovered(r.hyp, v) \union {Stopped(r.hyp, v)}
    BY <1>5, <1>8, QuarantineOutcome
  <2> HIDE DEF q
  <2>3. VcpusKept(r.hyp, q.hyp, v)
    <3>1. HypInv(r.hyp)
      BY <1>3 DEF VseInv, WellFormed
    <3> QED
      BY <2>2, <3>1, OutcomeVcpus
  <2>4. VcpusKept(hyp, q.hyp, v)
    BY <1>6, <2>3 DEF VcpusKept
  <2> QED
    BY <1>4, <1>8, <2>1, <2>2, <2>4, SMTT(40)
<1> QED
  BY <1>4, <1>7, <1>8
---------------------------------------------------------------------------
\* The inductive invariant: that of the scheduler, that of the trust engine, and
\* the type of the monitors.
SystemInv == Inv /\ VseInv(Vse) /\ ids \in IdsState

\* What FaultsChargeTheCulprit and PromotionEarned say of one step and one VM.
Charged(v) ==
    \/ trust'.level[v] > trust.level[v]
    \/ trust'.attempts[v] # trust.attempts[v]
    \/ hyp'.vcpus[v] # hyp.vcpus[v]
    => CurrentVm(hyp) = v

Earned(v) ==
    trust'.level[v] < trust.level[v] =>
      \/ trust'.attempts[v] > trust.attempts[v] /\ trust'.level[v] = DEGRADED
      \/ /\ <<NULL, "POLL">> \in ids'.log
         /\ trust.level[v] = DEGRADED /\ trust.age[v] = CleanPeriod
         /\ trust'.faults[v] = 0

\* The VMs are as they were, whatever runs on the core now.
SameVms(h, g) == g.state = h.state /\ g.power = h.power /\ g.vcpus = h.vcpus

\* The trust engine does not notice a switch.
LEMMA SameVmsInv ==
    ASSUME NEW s, NEW r, VseInv(s), HypInv(r.hyp), SameVms(s.hyp, r.hyp), r.trust = s.trust
    PROVE  VseInv(r)
BY DEF VseInv, WellFormed, VmOK, StateOK, TrustedIsClean, FaultyIsBlocked, SameVms

\* A switch changes what is on the core, and no VM.
LEMMA DispatchSameVms ==
    ASSUME Inv, NEW k, NEW armed, Dispatch(k, armed)
    PROVE  SameVms(hyp, hyp')
<1>1. hyp \in Machine
  BY DEF Inv, HypInv
<1>2. hyp' = hyp \/ hyp' = vcpu_do_switch(hyp, slot_vcpu(hyp, k))
  BY DEF Dispatch, do_switch
<1> QED
  BY <1>1, <1>2, Zenon DEF vcpu_do_switch, SameVms, Machine

\* A promotion scan promotes the VMs that have earned it.
LEMMA PromotionScan ==
    ASSUME NEW t \in TrustState, NEW v \in VMs
    PROVE  LET u == trust_auto_promote_tick(t)
           IN  /\ u.attempts = t.attempts
               /\ \/ u.level[v] = t.level[v]
                  \/ /\ t.level[v] = DEGRADED /\ u.level[v] = TRUSTED
                     /\ t.age[v] = CleanPeriod /\ u.faults[v] = 0
<1> DEFINE f == [w \in VMs |-> IF w \in Promotable(t) THEN 0 ELSE t.faults[w]]
           l == [w \in VMs |-> IF w \in Promotable(t) THEN TRUSTED ELSE t.level[w]]
           u == trust_auto_promote_tick(t)
<1>1. u = [t EXCEPT !.faults = f, !.level = l]
  BY DEF trust_auto_promote_tick, TrustState
<1> HIDE DEF f, l, u
<1>2. u.attempts = t.attempts /\ u.faults = f /\ u.level = l
  BY <1>1 DEF TrustState
<1>3. t.age[v] \in 0..CleanPeriod /\ CleanPeriod \in Nat
  BY TrustFields, TrustAssumption
<1>4. v \in Promotable(t) => t.level[v] = DEGRADED /\ t.age[v] = CleanPeriod
  BY <1>3 DEF Promotable
<1> QED
  BY <1>2, <1>4 DEF f, l, u

\* A handler that logs nothing leaves the monitors well formed.
LEMMA QuietIds ==
    ASSUME NEW i \in IdsState
    PROVE  [i EXCEPT !.log = {}] \in IdsState
BY DEF IdsState

\* A switch, with or without a poll of the detector.
LEMMA SwitchStep ==
    ASSUME SystemInv, HypTimerIrq \/ HypWfi
    PROVE  SystemInv' /\ Next /\ \A v \in VMs : Charged(v) /\ Earned(v)
<1>1. Inv /\ VseInv(Vse) /\ HypInv(hyp) /\ trust \in TrustState /\ ids \in IdsState
  BY DEF SystemInv, Inv, VseInv, WellFormed, Vse
<1>2. (TimerIrq \/ Wfi) /\ PollOnSwitch
  BY DEF HypTimerIrq, HypWfi
<1>3. Next
  BY <1>2 DEF Next, NextLive
<1>4. Inv' /\ HypInv(hyp')
  BY <1>1, <1>3, StepInv DEF Inv
<1>5. SameVms(hyp, hyp')
  BY <1>1, <1>2, DispatchSameVms, Zenon DEF TimerIrq, Wfi
<1> DEFINE r == [hyp |-> hyp, trust |-> trust']
<1>6. /\ Vse.hyp = hyp /\ Vse.trust = trust /\ Vse'.hyp = hyp' /\ Vse'.trust = trust'
      /\ r.hyp = hyp /\ r.trust = trust'
  BY DEF Vse
<1>7. \/ trust' = trust
      \/ trust' = trust_auto_promote_tick(trust) /\ <<NULL, "POLL">> \in ids'.log
  <2>1. \/ trust' = trust
        \/ PollNow
    BY <1>2 DEF PollOnSwitch
  <2>2. CASE PollNow
    <3>1. trust' = trust_auto_promote_tick(trust)
      BY <2>2 DEF PollNow, ids_poll, All
    <3> QED
      BY <1>1, <2>2, <3>1, PollIds
  <2> QED
    BY <2>1, <2>2
<1> HIDE DEF r
<1>8. VseInv(r)
  <2>1. CASE trust' = trust
    <3>1. r.hyp = Vse.hyp /\ r.trust = Vse.trust
      BY <1>6, <2>1
    <3> QED
      BY <1>1, <1>6, <3>1, SameVmsInv, SMTT(40) DEF SameVms
  <2>2. CASE trust' = trust_auto_promote_tick(trust)
    BY <1>1, <1>6, <2>2, ScanInv, SMTT(40)
  <2> QED
    BY <1>7, <2>1, <2>2, SMTT(40)
<1>9. VseInv(Vse')
  BY <1>4, <1>5, <1>6, <1>8, SameVmsInv, SMTT(40)
<1>10. ASSUME NEW v \in VMs PROVE Charged(v) /\ Earned(v)
  <2>1. trust.level[v] \in Int
    <3>1. trust.level[v] \in TRUSTED..REVOKED
      BY <1>1, TrustFields
    <3> QED
      BY <3>1, Levels
  <2>2. hyp'.vcpus[v] = hyp.vcpus[v]
    BY <1>5 DEF SameVms
  <2>3. CASE trust' = trust
    BY <2>1, <2>2, <2>3, SMTT(40) DEF Charged, Earned
  <2>4. CASE trust' = trust_auto_promote_tick(trust) /\ <<NULL, "POLL">> \in ids'.log
    <3>1. /\ trust'.attempts = trust.attempts
          /\ \/ trust'.level[v] = trust.level[v]
             \/ /\ trust.level[v] = DEGRADED /\ trust'.level[v] = TRUSTED
                /\ trust.age[v] = CleanPeriod /\ trust'.faults[v] = 0
      BY <1>1, <2>4, PromotionScan
    <3> QED
      BY <2>1, <2>2, <2>4, <3>1, Levels, SMTT(40) DEF Charged, Earned
  <2> QED
    BY <1>7, <2>3, <2>4, SMTT(40)
<1>11. ids' \in IdsState
  <2>1. PollNow \/ ids' = [ids EXCEPT !.log = {}]
    BY <1>2 DEF PollOnSwitch
  <2> QED
    BY <1>1, <2>1, PollIds, QuietIds, SMTT(40)
<1> QED
  BY <1>3, <1>4, <1>9, <1>10, <1>11, SMTT(40) DEF SystemInv

\* A handler that leaves the trust records alone.
LEMMA QuietStep ==
    ASSUME SystemInv,
           \/ HypUartIrq \/ HypIabt \/ HypHvcYield
           \/ \E v \in VMs : HypHvcStop(v) \/ HypHvcSuspend(v) \/ HypHvcResume(v)
    PROVE  SystemInv' /\ Next /\ \A v \in VMs : Charged(v) /\ Earned(v)
<1>1. Inv /\ VseInv(Vse) /\ HypInv(hyp) /\ trust \in TrustState /\ hyp \in Machine
      /\ ids \in IdsState
  BY DEF SystemInv, Inv, VseInv, WellFormed, Vse, HypInv
<1>2. trust' = trust /\ ids' \in IdsState
  <2>1. Quiet
    BY DEF HypUartIrq, HypIabt, HypHvcYield, HypHvcStop, HypHvcSuspend, HypHvcResume
  <2> QED
    BY <1>1, <2>1, QuietIds DEF Quiet
<1>3. Next
  BY DEF HypUartIrq, HypIabt, HypHvcYield, HypHvcStop, HypHvcSuspend, HypHvcResume, Next, NextLive
<1>4. Inv' /\ HypInv(hyp')
  BY <1>1, <1>3, StepInv, SMTT(40) DEF Inv
<1>5. /\ Vse.hyp = hyp /\ Vse.trust = trust /\ Vse'.hyp = hyp' /\ Vse'.trust = trust'
  BY DEF Vse
<1>6. \/ hyp' = hyp
      \/ \E v \in VMs : hyp' \in {vm_stop(hyp, v), vm_suspend(hyp, v), vm_resume(hyp, v)}
  BY DEF HypUartIrq, HypIabt, HypHvcYield, HypHvcStop, HypHvcSuspend, HypHvcResume,
         UartIrq, Iabt, HvcYield, HvcVmStop, HvcVmSuspend, HvcVmResume
<1>7. ASSUME NEW v \in VMs, hyp' \in {vm_stop(hyp, v), vm_suspend(hyp, v), vm_resume(hyp, v)}
      PROVE  VseInv(Vse') /\ hyp'.vcpus = hyp.vcpus
  <2>1. WellFormed(Vse') /\ OnlyVm(Vse, Vse', v) /\ VmOK(Vse', v)
    BY <1>1, <1>2, <1>5, <1>7, GuestHvcInv, SMTT(40)
  <2>2. VseInv(Vse')
    BY <1>1, <2>1, LocalInv, SMTT(40)
  <2> QED
    BY <1>1, <1>7, <2>2, LifeCycleVcpus, SMTT(40)
<1>8. VseInv(Vse') /\ hyp'.vcpus = hyp.vcpus
  <2>1. CASE hyp' = hyp
    BY <1>1, <1>2, <1>4, <1>5, <2>1, SameVmsInv, SMTT(40) DEF SameVms
  <2> QED
    BY <1>6, <1>7, <2>1, SMTT(40)
<1>9. ASSUME NEW v \in VMs PROVE Charged(v) /\ Earned(v)
  <2>1. trust.level[v] \in Int
    <3>1. trust.level[v] \in TRUSTED..REVOKED
      BY <1>1, TrustFields
    <3> QED
      BY <3>1, Levels
  <2> QED
    BY <1>2, <1>8, <2>1, SMTT(40) DEF Charged, Earned
<1> QED
  BY <1>2, <1>3, <1>4, <1>8, <1>9, SMTT(40) DEF SystemInv

\* A fault of the guest on the core.
LEMMA FaultSystemStep ==
    ASSUME SystemInv, NEW type \in FaultTypes, HypFault(type)
    PROVE  SystemInv' /\ [Next]_vars /\ \A v \in VMs : Charged(v) /\ Earned(v)
<1> DEFINE c == CurrentVm(hyp)
<1>1. Inv /\ VseInv(Vse) /\ HypInv(hyp) /\ trust \in TrustState /\ ids \in IdsState
  BY DEF SystemInv, Inv, VseInv, WellFormed, Vse
<1>2. c \in VMs
  BY <1>1 DEF HypInv, CurrentUsed, CurrentVm
<1>3. HandleFault(c, type) /\ sched' = sched /\ GuestRuns
  BY DEF HypFault
<1>4. /\ Vse.hyp = hyp /\ Vse.trust = trust /\ Vse'.hyp = hyp' /\ Vse'.trust = trust'
  BY DEF Vse
<1>5. /\ \/ hyp' = hyp
         \/ \E h \in {hyp} \union Recovered(hyp, c) :
              hyp' \in Recovered(h, c) \union {Stopped(h, c)}
      /\ VcpusKept(hyp, hyp', c)
  BY <1>1, <1>2, <1>3, FaultOutcome, SMTT(40)
<1>6. VseInv(Vse') /\ OnlyVm(Vse, Vse', c) /\ NotRaised(Vse, Vse', c)
  BY <1>1, <1>2, <1>3, FaultInv, SMTT(40)
<1>7. [Next]_vars
  <2>1. CASE hyp' = hyp
    BY <1>3, <2>1 DEF vars
  <2>2. CASE \E h \in {hyp} \union Recovered(hyp, c) : hyp' \in Recovered(h, c)
    BY <1>3, <2>2, SMTT(40) DEF Quarantine, NextLive, Next
  <2>3. CASE \E h \in {hyp} \union Recovered(hyp, c) : hyp' = Stopped(h, c)
    BY <1>3, <2>3 DEF Revoke, Next, Stopped
  <2> QED
    BY <1>5, <2>1, <2>2, <2>3, SMTT(40)
<1>8. Inv'
  BY <1>1, <1>7, StepInv, StutterInv, SMTT(40)
<1>9. ASSUME NEW v \in VMs PROVE Charged(v) /\ Earned(v)
  <2>1. trust.level[v] \in Int /\ trust'.level[v] \in Int
    <3>1. trust.level[v] \in TRUSTED..REVOKED
      BY <1>1, TrustFields
    <3>2. trust' \in TrustState
      BY <1>4, <1>6 DEF VseInv, WellFormed
    <3>3. trust'.level[v] \in TRUSTED..REVOKED
      BY <3>2, TrustFields, SMTT(40)
    <3> QED
      BY <3>1, <3>3, Levels, SMTT(40)
  <2> HIDE DEF c
  <2>2. CASE v = c
    <3>1. Charged(v)
      BY <2>2 DEF Charged, c
    <3>2. trust'.level[v] >= trust.level[v]
      BY <1>4, <1>6, <2>2, SMTT(40) DEF NotRaised
    <3> QED
      BY <2>1, <3>1, <3>2, SMTT(40) DEF Earned
  <2>3. CASE v # c
    <3>1. /\ trust'.level[v] = trust.level[v] /\ trust'.attempts[v] = trust.attempts[v]
          /\ hyp'.vcpus[v] = hyp.vcpus[v]
      BY <1>4, <1>5, <1>6, <2>3, SMTT(40) DEF OnlyVm, VcpusKept
    <3> QED
      BY <2>1, <3>1, SMTT(40) DEF Charged, Earned
  <2> QED
    BY <2>2, <2>3, SMTT(40)
<1>10. ids' \in IdsState
  <2> DEFINE r == trust_report_fault(Vse, c)
             s == [hyp |-> r.hyp, trust |-> r.trust, ids |-> ids]
  <2>1. ids' = ids_notify_fault(s, c, type).ids /\ s.ids = ids
    <3>1. [hyp |-> All.hyp, trust |-> All.trust] = Vse /\ All.ids = ids
      BY SMTT(40) DEF All, Vse
    <3> QED
      BY <1>3, <3>1, SMTT(40) DEF HandleFault, fdetect
  <2> HIDE DEF s, c
  <2>2. ids_notify_fault(s, c, type).ids \in IdsState
    BY <1>1, <1>2, <2>1, NotifyIds, ZenonT(40)
  <2> QED
    BY <2>1, <2>2, SMTT(40)
<1> QED
  BY <1>6, <1>7, <1>8, <1>9, <1>10, SMTT(40) DEF SystemInv

\* Time that passes.
LEMMA TimeSystemStep ==
    ASSUME SystemInv, HypTime
    PROVE  SystemInv' /\ [Next]_vars /\ \A v \in VMs : Charged(v) /\ Earned(v)
<1>1. Inv /\ VseInv(Vse) /\ trust \in TrustState /\ hyp' = hyp /\ sched' = sched
      /\ trust' = Aged(trust) /\ ids \in IdsState /\ ids' = IdsAged(ids)
  BY DEF SystemInv, Inv, VseInv, WellFormed, Vse, HypTime
<1>2. /\ Vse.hyp = hyp /\ Vse.trust = trust /\ Vse'.hyp = hyp' /\ Vse'.trust = trust'
  BY DEF Vse
<1>3. VseInv(Vse')
  BY <1>1, <1>2, ScanInv
<1>4. UNCHANGED vars /\ Inv'
  BY <1>1, StutterInv DEF vars
<1>5. trust'.level = trust.level /\ trust'.attempts = trust.attempts
  BY <1>1 DEF Aged, TrustState
<1>6. ASSUME NEW v \in VMs PROVE Charged(v) /\ Earned(v)
  <2>1. trust.level[v] \in TRUSTED..REVOKED
    BY <1>1, TrustFields
  <2>2. trust.level[v] \in Int
    BY <2>1, Levels
  <2> QED
    BY <1>1, <1>5, <2>2, SMTT(40) DEF Charged, Earned
<1> QED
  BY <1>1, <1>3, <1>4, <1>6, AgedIds, SMTT(40) DEF SystemInv

\* Every handler, or none.
LEMMA HypStep ==
    ASSUME SystemInv, [HypNext]_hvars
    PROVE  SystemInv' /\ [Next]_vars
<1>1. CASE HypNext
  BY <1>1, SwitchStep, QuietStep, FaultSystemStep, TimeSystemStep, SMTT(40) DEF HypNext
<1>2. CASE UNCHANGED hvars
  <2>1. hyp' = hyp /\ sched' = sched /\ trust' = trust /\ ids' = ids
    BY <1>2 DEF hvars
  <2>2. Inv' /\ UNCHANGED vars
    BY <2>1, StutterInv DEF SystemInv, vars
  <2>3. VseInv(Vse')
    BY <2>1 DEF SystemInv, Vse
  <2> QED
    BY <2>1, <2>2, <2>3, SMTT(40) DEF SystemInv
<1> QED
  BY <1>1, <1>2

\* What a handler does to the other VMs, and what a promotion takes.
LEMMA HypStepFair ==
    ASSUME SystemInv, HypNext, NEW v \in VMs
    PROVE  Charged(v) /\ Earned(v)
BY SwitchStep, QuietStep, FaultSystemStep, TimeSystemStep, SMTT(40) DEF HypNext

\* The boot establishes the invariant.
LEMMA HypInitInv == HypInit => SystemInv
<1> SUFFICES ASSUME HypInit PROVE SystemInv
  OBVIOUS
<1>1. IdsInv
  BY IdsInitInv DEF HypInit
<1>2. Inv
  BY InitInv DEF HypInit, IdsInit, TrustInit
<1> QED
  BY <1>1, <1>2 DEF SystemInv, IdsInv, TrustInv
---------------------------------------------------------------------------
\* The invariants of the scheduler and of the trust engine hold together.
THEOREM SystemInvHolds == HypSpec => []SystemInv
<1>1. SystemInv /\ [HypNext]_hvars => SystemInv'
  BY HypStep
<1> QED
  BY <1>1, HypInitInv, PTL DEF HypSpec

\* The composed system implements the scheduler: whatever the trust engine, the
\* failovers and the intrusion detector do in a fault handler is one step of Sched,
\* for any number of VMs, any thresholds and any period of the polls.
THEOREM ImplementsScheduler == HypSpec => ImplementsSched
<1>1. HypInit => sched_run
  BY DEF HypInit, IdsInit, TrustInit
<1>2. SystemInv /\ [HypNext]_hvars => [Next]_vars
  BY HypStep
<1> QED
  BY <1>1, <1>2, SystemInvHolds, PTL DEF HypSpec, Spec, ImplementsSched

\* No VM is punished for another: fault_dabt and hvc_dma_xfer charge the VM of
\* g_current_vcpu[0], and no other handler worsens a level or restarts a VM.
THEOREM OnlyTheCulpritIsCharged == HypSpec => FaultsChargeTheCulprit
<1>1. SystemInv /\ [HypNext]_hvars => [\A v \in VMs : Charged(v)]_hvars
  BY HypStepFair
<1> QED
  BY <1>1, SystemInvHolds, PTL DEF HypSpec, FaultsChargeTheCulprit, Charged

\* A level improves only by a failover or by a poll that finds the VM clean for
\* the whole period (trust_auto_promote_tick, called from ids_poll in do_switch).
THEOREM PromotionsAreEarned == HypSpec => PromotionEarned
<1>1. SystemInv /\ [HypNext]_hvars => [\A v \in VMs : Earned(v)]_hvars
  BY HypStepFair
<1> QED
  BY <1>1, SystemInvHolds, PTL DEF HypSpec, PromotionEarned, Earned

\* What SchedProofs proves of the scheduler holds of the composed system: one vCPU
\* runs, no pool entry is shared, a RUNNING VM can run, only Linux gets the UART.
THEOREM ComposedSafety ==
    HypSpec => /\ [](TypeOK /\ OneRunning /\ VcpusDistinct /\ RunningIsRunnable /\ UartGated)
               /\ DispatchSafe
BY ImplementsScheduler, TypeCorrect, MutualExclusion, NoSharedVcpu, RunningCanRun,
   UartOnlyForLinux, SwitchesAreSafe, PTL DEF ImplementsSched

\* The levels match the fault counts and the clocks follow the states of the VMs
\* also when switches, polls and storms interleave with the faults.
THEOREM ComposedTrust == HypSpec => [](LevelMatchesCount /\ PowerFollowsState)
<1>1. SystemInv => LevelMatchesCount /\ PowerFollowsState
  BY DEF SystemInv, VseInv, VmOK, StateOK, TrustedIsClean, FaultyIsBlocked, Vse,
         LevelMatchesCount, PowerFollowsState
<1> QED
  BY <1>1, SystemInvHolds, PTL
===========================================================================
