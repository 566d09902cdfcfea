---------------------------- MODULE TrustProofs ----------------------------
(***************************************************************************)
(* Proofs about Trust, for any number of VMs, thresholds and attempts.  A  *)
(* pair s of a machine and the trust records is what the functions of      *)
(* vse/trust.c and vse/failover.c take and return: there is one lemma per  *)
(* function, on top of the lemmas of SchedProofs for the life cycle.       *)
(***************************************************************************)
EXTENDS Trust, SchedProofs

\* The function changed no VM but v.
OnlyVm(s, r, v) ==
    \A w \in VMs : w # v =>
      /\ r.trust.level[w] = s.trust.level[w]
      /\ r.trust.faults[w] = s.trust.faults[w]
      /\ r.trust.attempts[w] = s.trust.attempts[w]
      /\ r.hyp.state[w] = s.hyp.state[w]
      /\ r.hyp.power[w] = s.hyp.power[w]

WellFormed(s) == HypInv(s.hyp) /\ s.trust \in TrustState

\* The clocks of a VM follow its state, a revoked VM is stopped, and no VM is
\* left READY between two steps: vm_suspend would not stop it.
StateOK(s, v) ==
    /\ s.hyp.state[v] # "READY"
    /\ s.hyp.state[v] = "SUSPENDED" => s.hyp.power[v] = "GATED"
    /\ s.hyp.state[v] = "RUNNING" /\ s.hyp.power[v] = "GATED" => s.trust.attempts[v] > 0
    /\ s.trust.level[v] = REVOKED => s.hyp.state[v] = "STOPPED"

TrustedIsClean(s, v) == s.trust.level[v] = TRUSTED => s.trust.faults[v] < ThreshDegraded

FaultyIsBlocked(s, v) ==
    s.trust.faults[v] >= ThreshQuarantine =>
      s.trust.level[v] >= QUARANTINE \/ s.trust.attempts[v] > 0

VmOK(s, v) == StateOK(s, v) /\ TrustedIsClean(s, v) /\ FaultyIsBlocked(s, v)

VseInv(s) == WellFormed(s) /\ \A v \in VMs : VmOK(s, v)
---------------------------------------------------------------------------
\* The fields of the trust records, one by one.
LEMMA TrustFields ==
    ASSUME NEW t \in TrustState
    PROVE  /\ t.level \in [VMs -> TRUSTED..REVOKED]
           /\ t.faults \in [VMs -> 0..ThreshQuarantine]
           /\ t.age \in [VMs -> 0..CleanPeriod]
           /\ t.attempts \in [VMs -> 0..MaxAttempts]
BY DEF TrustState

\* trust_set changes the level of one VM.
LEMMA SetLevel ==
    ASSUME NEW t \in TrustState, NEW v \in VMs, NEW l \in TRUSTED..REVOKED
    PROVE  /\ trust_set(t, v, l) \in TrustState
           /\ trust_set(t, v, l).level = [t.level EXCEPT ![v] = l]
           /\ trust_set(t, v, l).faults = t.faults
           /\ trust_set(t, v, l).attempts = t.attempts
           /\ trust_set(t, v, l).age = t.age
BY DEF trust_set, TrustState

\* What the life-cycle functions do to the states of the VMs.
LEMMA StopEffect ==
    ASSUME NEW h \in Machine, NEW v \in VMs
    PROVE  /\ vm_stop(h, v).state = [h.state EXCEPT ![v] = "STOPPED"]
           /\ vm_stop(h, v).power = h.power
           /\ vm_stop(h, v).used = h.used
<1> DEFINE p == [c \in Pool |-> IF c \in VcpusOf(h, v)
                                THEN [h.pool[c] EXCEPT !.state = "STOPPED"]
                                ELSE h.pool[c]]
<1>1. h.state \in [VMs -> VmState]
  BY Fields
<1>2. CASE h.state[v] = "STOPPED"
  BY <1>1, <1>2 DEF vm_stop
<1>3. CASE h.state[v] # "STOPPED"
  <2>1. vm_stop(h, v) = [h EXCEPT !.pool = p, !.mapped[v] = FALSE, !.vttbr = v,
                                  !.state[v] = "STOPPED"]
    BY <1>3 DEF vm_stop
  <2> HIDE DEF p
  <2> QED
    BY <2>1 DEF Machine
<1> QED
  BY <1>2, <1>3

\* vm_suspend gates the clocks of the RUNNING VM it suspends.
LEMMA SuspendEffect ==
    ASSUME NEW h \in Machine, NEW v \in VMs
    PROVE  /\ h.state[v] # "RUNNING" => vm_suspend(h, v) = h
           /\ h.state[v] = "RUNNING" =>
                /\ vm_suspend(h, v).state = [h.state EXCEPT ![v] = "SUSPENDED"]
                /\ vm_suspend(h, v).power = [h.power EXCEPT ![v] = "GATED"]
           /\ vm_suspend(h, v).used = h.used
BY DEF vm_suspend, power_gate_vm, Machine

\* vm_resume gives a SUSPENDED VM its clocks back.
LEMMA ResumeEffect ==
    ASSUME NEW h \in Machine, NEW v \in VMs
    PROVE  /\ h.state[v] # "SUSPENDED" => vm_resume(h, v) = h
           /\ h.state[v] = "SUSPENDED" =>
                /\ vm_resume(h, v).state = [h.state EXCEPT ![v] = "RUNNING"]
                /\ vm_resume(h, v).power = [h.power EXCEPT ![v] = "ON"]
           /\ vm_resume(h, v).used = h.used
BY DEF vm_resume, power_ungate_vm, Machine

\* A restart leaves its VM RUNNING, or STOPPED when the pool ran out.
LEMMA RestartEffect ==
    ASSUME NEW h, HypInv(h), NEW v \in VMs
    PROVE  /\ \/ vm_restart(h, v).state = [h.state EXCEPT ![v] = "RUNNING"]
              \/ vm_restart(h, v).state = [h.state EXCEPT ![v] = "STOPPED"]
           /\ vm_restart(h, v).power = h.power
<1> DEFINE s == vm_stop(h, v)
           f == vm_finalize(s, v)
           e == vcpu_set_entry(f, v)
           n == Fresh(s, v)
           m == [i \in VcpuId |-> IF i < n THEN s.used + 1 + i ELSE s.vcpus[v][i]]
           p == [c \in Pool |-> IF c \in (s.used + 1)..(s.used + n)
                                THEN vcpu_init(v) ELSE s.pool[c]]
<1>1. h \in Machine /\ h.state \in [VMs -> VmState]
  BY Fields DEF HypInv
<1>2. /\ HypInv(s) /\ s \in Machine
      /\ s.state = [h.state EXCEPT ![v] = "STOPPED"] /\ s.power = h.power
  BY <1>1, StopInv, StopEffect DEF HypInv
<1> HIDE DEF s
<1>3. f = [s EXCEPT !.mapped[v] = TRUE, !.nvc[v] = n, !.vcpus[v] = m, !.pool = p,
                    !.used = s.used + n,
                    !.state[v] = IF n = NumVcpus[v] THEN "READY" ELSE @]
  BY DEF vm_finalize
<1>5. HypInv(f) /\ f \in Machine
  BY <1>1, <1>2, FinalizeInv DEF HypInv
<1> HIDE DEF n, m, p, f
<1>4. /\ f.power = h.power
      /\ \/ f.state = [h.state EXCEPT ![v] = "READY"]
         \/ f.state = [h.state EXCEPT ![v] = "STOPPED"]
  <2>1. /\ f.power = s.power
        /\ f.state = [s.state EXCEPT ![v] = IF n = NumVcpus[v] THEN "READY" ELSE @]
    BY <1>2, <1>3 DEF Machine
  <2> QED
    BY <1>1, <1>2, <2>1
<1>6. HypInv(e) /\ e \in Machine
  BY <1>5, SetEntryInv DEF HypInv
<1>7. e.state = f.state /\ e.power = f.power
  BY <1>5 DEF vcpu_set_entry, Machine
<1> HIDE DEF e
<1>8. vm_restart(h, v) = IF f.state[v] # "READY" THEN f ELSE vm_start(e, v)
  BY DEF vm_restart, e, f, s
<1>9. CASE f.state[v] # "READY"
  BY <1>1, <1>4, <1>8, <1>9
<1>10. CASE f.state[v] = "READY"
  <2>1. vm_start(e, v) = [e EXCEPT !.state[v] = "RUNNING"]
    BY <1>7, <1>10 DEF vm_start
  <2>2. vm_start(e, v).power = e.power
        /\ vm_start(e, v).state = [e.state EXCEPT ![v] = "RUNNING"]
    BY <1>6, <2>1 DEF Machine
  <2> QED
    BY <1>1, <1>4, <1>7, <1>8, <1>10, <2>2
<1> QED
  BY <1>9, <1>10
---------------------------------------------------------------------------
\* What a failover leaves of its VM: it is revoked, runs its backup image, or is
\* stopped because the pool ran out.
FailedOver(s, r, v) ==
    /\ WellFormed(r) /\ OnlyVm(s, r, v)
    /\ r.trust.faults[v] = s.trust.faults[v] /\ r.hyp.power[v] = s.hyp.power[v]
    /\ \/ /\ r.trust.level[v] = REVOKED /\ r.hyp.state[v] = "STOPPED"
          /\ r.trust.attempts[v] = s.trust.attempts[v]
       \/ /\ r.trust.level[v] = DEGRADED /\ r.hyp.state[v] = "RUNNING"
          /\ r.trust.attempts[v] = s.trust.attempts[v] + 1
       \/ /\ r.trust.level[v] = s.trust.level[v] /\ r.hyp.state[v] = "STOPPED"
          /\ r.trust.attempts[v] = s.trust.attempts[v] + 1

\* trust_revoke stops the VM.
LEMMA RevokeEffect ==
    ASSUME NEW s, WellFormed(s), NEW v \in VMs
    PROVE  /\ FailedOver(s, trust_revoke(s, v), v)
           /\ trust_revoke(s, v).trust.level[v] = REVOKED
           /\ trust_revoke(s, v).hyp.state[v] = "STOPPED"
<1> DEFINE h == vm_stop(s.hyp, v)
           t == trust_set(s.trust, v, REVOKED)
           r == trust_revoke(s, v)
<1>1. HypInv(s.hyp) /\ s.hyp \in Machine /\ s.trust \in TrustState
  BY DEF WellFormed, HypInv
<1>2. s.hyp.state \in [VMs -> VmState] /\ s.trust.level \in [VMs -> TRUSTED..REVOKED]
  BY <1>1, Fields, TrustFields
<1>3. /\ HypInv(h) /\ h.state = [s.hyp.state EXCEPT ![v] = "STOPPED"]
      /\ h.power = s.hyp.power
  BY <1>1, StopInv, StopEffect, SMTT(40)
<1>4. REVOKED \in TRUSTED..REVOKED
  BY DEF TRUSTED, REVOKED
<1>5. /\ t \in TrustState /\ t.level = [s.trust.level EXCEPT ![v] = REVOKED]
      /\ t.faults = s.trust.faults /\ t.attempts = s.trust.attempts
  BY <1>1, <1>4, SetLevel
<1>6. r.hyp = h /\ r.trust = t
  BY DEF trust_revoke
<1> HIDE DEF h, t, r
<1> QED
  BY <1>2, <1>3, <1>5, <1>6 DEF FailedOver, WellFormed, OnlyVm, r

\* _do_failover revokes the VM when its attempts are used up, else it spends one.
LEMMA FailoverEffect ==
    ASSUME NEW s, WellFormed(s), NEW v \in VMs
    PROVE  FailedOver(s, do_failover(s, v), v)
<1> DEFINE h == vm_restart(s.hyp, v)
           t == [s.trust EXCEPT !.attempts[v] = @ + 1]
           d == trust_set(t, v, DEGRADED)
           r == do_failover(s, v)
<1>1. HypInv(s.hyp) /\ s.hyp \in Machine /\ s.trust \in TrustState
  BY DEF WellFormed, HypInv
<1>2. /\ s.hyp.state \in [VMs -> VmState] /\ s.trust.level \in [VMs -> TRUSTED..REVOKED]
      /\ s.trust.attempts \in [VMs -> 0..MaxAttempts]
  BY <1>1, Fields, TrustFields
<1>3. CASE s.trust.attempts[v] >= MaxAttempts
  BY <1>3, RevokeEffect DEF do_failover
<1>4. CASE ~(s.trust.attempts[v] >= MaxAttempts)
  <2>1. /\ HypInv(h) /\ h.power = s.hyp.power
        /\ \/ h.state = [s.hyp.state EXCEPT ![v] = "RUNNING"]
           \/ h.state = [s.hyp.state EXCEPT ![v] = "STOPPED"]
    BY <1>1, RestartInv, RestartEffect
  <2>2. s.trust.attempts[v] + 1 \in 0..MaxAttempts
    BY <1>2, <1>4, TrustAssumption
  <2>3. /\ t \in TrustState /\ t.level = s.trust.level /\ t.faults = s.trust.faults
        /\ t.attempts = [s.trust.attempts EXCEPT ![v] = @ + 1]
    BY <1>1, <2>2 DEF TrustState
  <2> HIDE DEF t
  <2>4. DEGRADED \in TRUSTED..REVOKED
    BY DEF TRUSTED, DEGRADED, REVOKED
  <2>5. /\ d \in TrustState /\ d.level = [s.trust.level EXCEPT ![v] = DEGRADED]
        /\ d.faults = s.trust.faults
        /\ d.attempts = [s.trust.attempts EXCEPT ![v] = @ + 1]
    BY <2>3, <2>4, SetLevel
  <2>6. r.hyp = h /\ r.trust = IF h.state[v] = "RUNNING" THEN d ELSE t
    BY <1>4 DEF do_failover, t
  <2> HIDE DEF h, d, r
  <2>7. WellFormed(r)
    BY <2>1, <2>3, <2>5, <2>6 DEF WellFormed
  <2>8. OnlyVm(s, r, v)
    BY <1>2, <2>1, <2>3, <2>5, <2>6 DEF OnlyVm
  <2>9. CASE h.state[v] = "RUNNING"
    BY <1>2, <2>1, <2>5, <2>6, <2>7, <2>8, <2>9 DEF FailedOver, r
  <2>10. CASE h.state[v] # "RUNNING"
    BY <1>2, <2>1, <2>3, <2>6, <2>7, <2>8, <2>10 DEF FailedOver, r
  <2> QED
    BY <2>9, <2>10
<1> QED
  BY <1>3, <1>4
---------------------------------------------------------------------------
\* What trust_quarantine leaves of a VM that was not blocked: it is blocked and
\* cannot be dispatched, or one more failover has made it run its backup image.
Quarantined(s, r, v) ==
    /\ WellFormed(r) /\ OnlyVm(s, r, v) /\ StateOK(r, v)
    /\ r.trust.faults[v] = s.trust.faults[v]
    /\ \/ /\ r.trust.level[v] >= QUARANTINE
          /\ r.hyp.state[v] \notin {"READY", "RUNNING"}
       \/ /\ r.trust.level[v] = DEGRADED
          /\ r.trust.attempts[v] = s.trust.attempts[v] + 1

\* The levels are numbers in this order.
LEMMA Levels ==
    /\ TRUSTED = 1 /\ DEGRADED = 2 /\ QUARANTINE = 3 /\ REVOKED = 4
    /\ DEGRADED \in TRUSTED..REVOKED /\ QUARANTINE \in TRUSTED..REVOKED
BY DEF TRUSTED, DEGRADED, QUARANTINE, REVOKED

\* trust_quarantine leaves a blocked VM alone.
LEMMA QuarantineEffect ==
    ASSUME NEW s, WellFormed(s), NEW v \in VMs, StateOK(s, v)
    PROVE  /\ trust_is_blocked(s.trust, v) => trust_quarantine(s, v) = s
           /\ ~trust_is_blocked(s.trust, v) => Quarantined(s, trust_quarantine(s, v), v)
<1> DEFINE h == vm_suspend(s.hyp, v)
           t == trust_set(s.trust, v, QUARANTINE)
           q == [hyp |-> h, trust |-> t]
           r == trust_quarantine(s, v)
<1>1. trust_is_blocked(s.trust, v) => r = s
  BY DEF trust_quarantine
<1>2. SUFFICES ASSUME ~trust_is_blocked(s.trust, v)
               PROVE  Quarantined(s, r, v)
  BY <1>1
<1>3. HypInv(s.hyp) /\ s.hyp \in Machine /\ s.trust \in TrustState
  BY DEF WellFormed, HypInv
<1>4. /\ s.hyp.state \in [VMs -> VmState] /\ s.hyp.power \in [VMs -> PowerState]
      /\ s.trust.level \in [VMs -> TRUSTED..REVOKED]
      /\ s.trust.attempts \in [VMs -> 0..MaxAttempts]
  BY <1>3, Fields, TrustFields
<1>5. /\ HypInv(h)
      /\ s.hyp.state[v] # "RUNNING" => h = s.hyp
      /\ s.hyp.state[v] = "RUNNING" =>
           /\ h.state = [s.hyp.state EXCEPT ![v] = "SUSPENDED"]
           /\ h.power = [s.hyp.power EXCEPT ![v] = "GATED"]
  BY <1>3, SuspendInv, SuspendEffect
<1>6. /\ t \in TrustState /\ t.level = [s.trust.level EXCEPT ![v] = QUARANTINE]
      /\ t.faults = s.trust.faults /\ t.attempts = s.trust.attempts
  <2>1. QUARANTINE \in TRUSTED..REVOKED
    BY Levels
  <2> QED
    BY <1>3, <2>1, SetLevel
<1>7. q.hyp = h /\ q.trust = t
  OBVIOUS
<1>8. r = IF v \in Backup THEN do_failover(q, v) ELSE q
  BY <1>2 DEF trust_quarantine, failover_on_quarantine
<1> HIDE DEF h, t, q, r
<1>9. /\ WellFormed(q) /\ OnlyVm(s, q, v)
      /\ q.trust.level[v] = QUARANTINE
      /\ q.trust.faults[v] = s.trust.faults[v] /\ q.trust.attempts[v] = s.trust.attempts[v]
      /\ q.hyp.state[v] \in {"SUSPENDED", "STOPPED"}
      /\ q.hyp.state[v] = "SUSPENDED" => q.hyp.power[v] = "GATED"
  <2>1. WellFormed(q)
    BY <1>5, <1>6, <1>7 DEF WellFormed
  <2>2. OnlyVm(s, q, v)
    BY <1>4, <1>5, <1>6, <1>7 DEF OnlyVm
  <2>3. h.state[v] \in {"SUSPENDED", "STOPPED"} /\ (h.state[v] = "SUSPENDED" => h.power[v] = "GATED")
    BY <1>4, <1>5 DEF StateOK, VmState
  <2> QED
    BY <1>4, <1>6, <1>7, <2>1, <2>2, <2>3
<1>10. CASE v \notin Backup
  <2>1. StateOK(q, v)
    BY <1>9, Levels DEF StateOK
  <2> QED
    BY <1>8, <1>9, <1>10, <2>1, Levels DEF Quarantined, r
<1>11. CASE v \in Backup
  <2>1. FailedOver(q, r, v)
    BY <1>8, <1>9, <1>11, FailoverEffect, SMTT(40)
  <2>2. WellFormed(r) /\ OnlyVm(s, r, v) /\ r.trust.faults[v] = s.trust.faults[v]
    BY <1>9, <2>1 DEF FailedOver, OnlyVm
  <2>3. StateOK(r, v)
    BY <1>4, <1>9, <2>1, Levels DEF FailedOver, StateOK
  <2> QED
    BY <1>9, <2>1, <2>2, <2>3, Levels DEF FailedOver, Quarantined, r
<1> QED
  BY <1>10, <1>11

\* A change of one VM that is as it should be keeps the invariant.
LEMMA LocalInv ==
    ASSUME NEW s, NEW r, NEW v \in VMs, VseInv(s), WellFormed(r), OnlyVm(s, r, v), VmOK(r, v)
    PROVE  VseInv(r)
BY DEF VseInv, OnlyVm, VmOK, StateOK, TrustedIsClean, FaultyIsBlocked

\* A function lifts no quarantine and no revocation of a VM, and a VM it blocks
\* cannot be dispatched.
NoRelease(s, r, v) ==
    /\ s.trust.level[v] >= QUARANTINE => r.trust.level[v] = s.trust.level[v]
    /\ s.trust.level[v] < QUARANTINE /\ r.trust.level[v] >= QUARANTINE =>
         r.hyp.state[v] \notin {"READY", "RUNNING"}

\* trust_quarantine on a VM whose count may just have reached the threshold.
LEMMA QuarantineInv ==
    ASSUME NEW s, WellFormed(s), NEW v \in VMs, StateOK(s, v)
    PROVE  LET r == trust_quarantine(s, v)
           IN  WellFormed(r) /\ OnlyVm(s, r, v) /\ VmOK(r, v) /\ NoRelease(s, r, v)
<1> DEFINE r == trust_quarantine(s, v)
<1>1. /\ trust_is_blocked(s.trust, v) => r = s
      /\ ~trust_is_blocked(s.trust, v) => Quarantined(s, r, v)
  BY QuarantineEffect
<1>2. /\ s.trust.level[v] \in TRUSTED..REVOKED /\ s.trust.attempts[v] \in 0..MaxAttempts
      /\ s.trust.faults[v] \in 0..ThreshQuarantine
  BY TrustFields DEF WellFormed
<1> HIDE DEF r
<1>3. CASE trust_is_blocked(s.trust, v)
  <2>1. r = s
    BY <1>1, <1>3
  <2>2. FaultyIsBlocked(s, v) /\ TrustedIsClean(s, v)
    BY <1>2, <1>3, Levels DEF FaultyIsBlocked, TrustedIsClean, trust_is_blocked
  <2> QED
    BY <1>2, <1>3, <2>1, <2>2, Levels DEF OnlyVm, VmOK, NoRelease, trust_is_blocked, r
<1>4. CASE ~trust_is_blocked(s.trust, v)
  <2>1. Quarantined(s, r, v)
    BY <1>1, <1>4
  <2>2. VmOK(r, v)
    <3>1. r.trust.level[v] # TRUSTED
      BY <2>1, Levels DEF Quarantined
    <3>2. r.trust.level[v] >= QUARANTINE \/ r.trust.attempts[v] > 0
      BY <1>2, <2>1, TrustAssumption DEF Quarantined
    <3> QED
      BY <2>1, <3>1, <3>2 DEF Quarantined, VmOK, TrustedIsClean, FaultyIsBlocked
  <2>3. NoRelease(s, r, v)
    BY <1>2, <1>4, <2>1, Levels DEF Quarantined, NoRelease, trust_is_blocked
  <2> QED
    BY <2>1, <2>2, <2>3 DEF Quarantined, r
<1> QED
  BY <1>3, <1>4

\* trust_report_fault counts the fault, then degrades or quarantines the VM.
LEMMA ReportInv ==
    ASSUME NEW s, VseInv(s), NEW v \in VMs
    PROVE  LET r == trust_report_fault(s, v)
           IN  WellFormed(r) /\ OnlyVm(s, r, v) /\ VmOK(r, v) /\ NoRelease(s, r, v)
<1> DEFINE t == [s.trust EXCEPT !.faults[v] = Bump(@, ThreshQuarantine), !.age[v] = 0]
           n == [hyp |-> s.hyp, trust |-> t]
           d == trust_set(t, v, DEGRADED)
           r == trust_report_fault(s, v)
<1>1. WellFormed(s) /\ HypInv(s.hyp) /\ s.trust \in TrustState /\ VmOK(s, v)
  BY DEF VseInv, WellFormed
<1>2. /\ s.trust.level[v] \in TRUSTED..REVOKED /\ s.trust.attempts[v] \in 0..MaxAttempts
      /\ s.trust.faults \in [VMs -> 0..ThreshQuarantine]
      /\ s.trust.level \in [VMs -> TRUSTED..REVOKED]
  BY <1>1, TrustFields
<1>3. CASE s.trust.level[v] = REVOKED
  <2>1. r = s
    BY <1>3 DEF trust_report_fault
  <2> QED
    BY <1>1, <1>3, <2>1, Levels DEF OnlyVm, NoRelease
<1>4. CASE s.trust.level[v] # REVOKED
  <2>1. Bump(s.trust.faults[v], ThreshQuarantine) \in 0..ThreshQuarantine
    BY <1>2, TrustAssumption DEF Bump
  <2>2. /\ t \in TrustState /\ t.level = s.trust.level /\ t.attempts = s.trust.attempts
        /\ t.faults = [s.trust.faults EXCEPT ![v] = Bump(@, ThreshQuarantine)]
    <3>1. 0 \in 0..CleanPeriod
      BY TrustAssumption
    <3> QED
      BY <1>1, <2>1, <3>1, Zenon DEF TrustState
  <2>3. r = IF t.faults[v] >= ThreshQuarantine THEN trust_quarantine(n, v)
            ELSE IF t.faults[v] >= ThreshDegraded /\ t.level[v] = TRUSTED
            THEN [n EXCEPT !.trust = d] ELSE n
    BY <1>4 DEF trust_report_fault
  <2> HIDE DEF t
  <2>4. /\ n.hyp = s.hyp /\ n.trust = t /\ n = [hyp |-> s.hyp, trust |-> t]
        /\ WellFormed(n) /\ OnlyVm(s, n, v) /\ StateOK(n, v)
    BY <1>1, <1>2, <2>2 DEF WellFormed, OnlyVm, StateOK, VmOK
  <2>5. t.faults[v] \in 0..ThreshQuarantine
    BY <1>2, <2>1, <2>2
  <2> HIDE DEF n, r
  <2>6. CASE t.faults[v] >= ThreshQuarantine
    <3>2. WellFormed(r) /\ OnlyVm(n, r, v) /\ VmOK(r, v) /\ NoRelease(n, r, v)
      BY <2>3, <2>4, <2>6, QuarantineInv
    <3>3. OnlyVm(s, r, v)
      BY <2>4, <3>2 DEF OnlyVm
    <3>4. NoRelease(s, r, v)
      BY <2>2, <2>4, <3>2 DEF NoRelease
    <3> QED
      BY <3>2, <3>3, <3>4 DEF r
  <2>7. CASE t.faults[v] < ThreshQuarantine /\ t.faults[v] >= ThreshDegraded /\ t.level[v] = TRUSTED
    <3>1. r = [n EXCEPT !.trust = d]
      BY <2>3, <2>5, <2>7, TrustAssumption
    <3>2. r.hyp = s.hyp /\ r.trust = d
      BY <2>4, <3>1
    <3>3. DEGRADED \in TRUSTED..REVOKED
      BY Levels
    <3>4. /\ d \in TrustState /\ d.level = [t.level EXCEPT ![v] = DEGRADED]
          /\ d.faults = t.faults /\ d.attempts = t.attempts
      BY <2>2, <3>3, SetLevel
    <3> HIDE DEF d
    <3>5. WellFormed(r) /\ OnlyVm(s, r, v)
      BY <1>1, <1>2, <2>2, <3>2, <3>4 DEF WellFormed, OnlyVm
    <3>6. VmOK(r, v)
      BY <1>1, <1>2, <2>2, <2>7, <2>5, <3>2, <3>4, Levels, TrustAssumption
      DEF VmOK, StateOK, TrustedIsClean, FaultyIsBlocked
    <3>7. NoRelease(s, r, v)
      BY <1>2, <2>2, <2>7, <3>2, <3>4, Levels DEF NoRelease
    <3> QED
      BY <3>5, <3>6, <3>7 DEF r
  <2>8. CASE t.faults[v] < ThreshQuarantine /\ ~(t.faults[v] >= ThreshDegraded /\ t.level[v] = TRUSTED)
    <3>1. r = n
      BY <2>3, <2>5, <2>8, TrustAssumption
    <3>2. VmOK(n, v)
      BY <1>1, <1>2, <2>2, <2>4, <2>5, <2>8, Levels, TrustAssumption, SMTT(40)
      DEF VmOK, StateOK, TrustedIsClean, FaultyIsBlocked
    <3>3. NoRelease(s, n, v)
      BY <1>2, <2>2, <2>4, Levels DEF NoRelease
    <3> QED
      BY <2>4, <3>1, <3>2, <3>3 DEF r
  <2> QED
    BY <2>5, <2>6, <2>7, <2>8, TrustAssumption
<1> QED
  BY <1>3, <1>4

\* trust_restore lifts a quarantine, to DEGRADED, and nothing else.
LEMMA RestoreInv ==
    ASSUME NEW s, VseInv(s), NEW v \in VMs
    PROVE  LET r == trust_restore(s, v)
           IN  /\ WellFormed(r) /\ OnlyVm(s, r, v) /\ VmOK(r, v)
               /\ s.trust.level[v] # QUARANTINE => r = s
               /\ s.trust.level[v] = QUARANTINE => r.trust.level[v] = DEGRADED
<1> DEFINE h == vm_resume(s.hyp, v)
           t == [s.trust EXCEPT !.faults[v] = 0]
           d == trust_set(t, v, DEGRADED)
           r == trust_restore(s, v)
<1>1. /\ WellFormed(s) /\ HypInv(s.hyp) /\ s.hyp \in Machine /\ s.trust \in TrustState
      /\ VmOK(s, v)
  BY DEF VseInv, WellFormed, HypInv
<1>2. CASE s.trust.level[v] # QUARANTINE
  BY <1>1, <1>2 DEF trust_restore, OnlyVm
<1>3. CASE s.trust.level[v] = QUARANTINE
  <2>1. /\ s.hyp.state \in [VMs -> VmState] /\ s.hyp.power \in [VMs -> PowerState]
        /\ s.trust.level \in [VMs -> TRUSTED..REVOKED]
        /\ s.trust.faults \in [VMs -> 0..ThreshQuarantine]
    BY <1>1, Fields, TrustFields
  <2>2. /\ HypInv(h)
        /\ s.hyp.state[v] # "SUSPENDED" => h = s.hyp
        /\ s.hyp.state[v] = "SUSPENDED" =>
             /\ h.state = [s.hyp.state EXCEPT ![v] = "RUNNING"]
             /\ h.power = [s.hyp.power EXCEPT ![v] = "ON"]
    BY <1>1, ResumeInv, ResumeEffect
  <2>3. /\ t \in TrustState /\ t.level = s.trust.level /\ t.attempts = s.trust.attempts
        /\ t.faults = [s.trust.faults EXCEPT ![v] = 0]
    <3>1. 0 \in 0..ThreshQuarantine
      BY TrustAssumption
    <3> QED
      BY <1>1, <3>1 DEF TrustState
  <2> HIDE DEF t
  <2>4. DEGRADED \in TRUSTED..REVOKED
    BY Levels
  <2>5. /\ d \in TrustState /\ d.level = [s.trust.level EXCEPT ![v] = DEGRADED]
        /\ d.faults = [s.trust.faults EXCEPT ![v] = 0] /\ d.attempts = s.trust.attempts
    BY <2>3, <2>4, SetLevel
  <2>6. r.hyp = h /\ r.trust = d
    BY <1>3 DEF trust_restore, t
  <2> HIDE DEF h, d, r
  <2>7. WellFormed(r) /\ OnlyVm(s, r, v)
    BY <2>1, <2>2, <2>5, <2>6 DEF WellFormed, OnlyVm
  <2>8. /\ h.state[v] # "READY"
        /\ h.state[v] = "SUSPENDED" => h.power[v] = "GATED"
        /\ h.state[v] = "RUNNING" /\ h.power[v] = "GATED" => s.trust.attempts[v] > 0
    BY <1>1, <2>1, <2>2 DEF VmOK, StateOK
  <2>9. VmOK(r, v)
    BY <2>1, <2>5, <2>6, <2>8, Levels, TrustAssumption, SMTT(40)
    DEF VmOK, StateOK, TrustedIsClean, FaultyIsBlocked
  <2> QED
    BY <1>3, <2>1, <2>5, <2>6, <2>7, <2>9 DEF r
<1> QED
  BY <1>2, <1>3

\* A failover, manual or not, keeps a VM as it should be.
LEMMA FailoverInv ==
    ASSUME NEW s, VseInv(s), NEW v \in VMs, NEW r, FailedOver(s, r, v)
    PROVE  VmOK(r, v)
<1>1. VmOK(s, v) /\ s.trust \in TrustState
  BY DEF VseInv, WellFormed
<1>2. s.trust.attempts[v] \in 0..MaxAttempts
  BY <1>1, TrustFields
<1> QED
  BY <1>1, <1>2, Levels, TrustAssumption
  DEF FailedOver, VmOK, StateOK, TrustedIsClean, FaultyIsBlocked

\* The hypercalls of a guest change the state of one VM and no trust record.
LEMMA GuestHvcInv ==
    ASSUME NEW s, VseInv(s), NEW v \in VMs, NEW r, r.trust = s.trust,
           r.hyp \in {vm_stop(s.hyp, v), vm_suspend(s.hyp, v), vm_resume(s.hyp, v)}
    PROVE  WellFormed(r) /\ OnlyVm(s, r, v) /\ VmOK(r, v)
<1>1. WellFormed(s) /\ HypInv(s.hyp) /\ s.hyp \in Machine /\ VmOK(s, v)
  BY DEF VseInv, WellFormed, HypInv
<1>2. s.hyp.state \in [VMs -> VmState] /\ s.hyp.power \in [VMs -> PowerState]
  BY <1>1, Fields
<1>3. WellFormed(r)
  BY <1>1, StopInv, SuspendInv, ResumeInv DEF WellFormed
<1>4. /\ OnlyVm(s, r, v)
      /\ \/ r.hyp.state[v] = "STOPPED"
         \/ r.hyp.state[v] = s.hyp.state[v] /\ r.hyp.power[v] = s.hyp.power[v]
         \/ /\ s.hyp.state[v] # "STOPPED"
            /\ r.hyp.state[v] = "SUSPENDED" /\ r.hyp.power[v] = "GATED"
         \/ /\ s.hyp.state[v] # "STOPPED"
            /\ r.hyp.state[v] = "RUNNING" /\ r.hyp.power[v] = "ON"
  <2>1. \/ r.hyp = s.hyp
        \/ r.hyp.state = [s.hyp.state EXCEPT ![v] = "STOPPED"] /\ r.hyp.power = s.hyp.power
        \/ /\ s.hyp.state[v] = "RUNNING"
           /\ r.hyp.state = [s.hyp.state EXCEPT ![v] = "SUSPENDED"]
           /\ r.hyp.power = [s.hyp.power EXCEPT ![v] = "GATED"]
        \/ /\ s.hyp.state[v] = "SUSPENDED"
           /\ r.hyp.state = [s.hyp.state EXCEPT ![v] = "RUNNING"]
           /\ r.hyp.power = [s.hyp.power EXCEPT ![v] = "ON"]
    <3>1. CASE r.hyp = vm_stop(s.hyp, v)
      BY <1>1, <3>1, StopEffect, SMTT(40)
    <3>2. CASE r.hyp = vm_suspend(s.hyp, v)
      BY <1>1, <3>2, SuspendEffect, SMTT(40)
    <3>3. CASE r.hyp = vm_resume(s.hyp, v)
      BY <1>1, <3>3, ResumeEffect, SMTT(40)
    <3> QED
      BY <3>1, <3>2, <3>3
  <2> QED
    BY <1>2, <2>1 DEF OnlyVm
<1> QED
  BY <1>1, <1>3, <1>4 DEF VmOK, StateOK, TrustedIsClean, FaultyIsBlocked

\* A promotion scan and the passing of time.
LEMMA ScanInv ==
    ASSUME NEW s, VseInv(s), NEW r, r.hyp = s.hyp,
           r.trust \in {trust_auto_promote_tick(s.trust), Aged(s.trust)}
    PROVE  /\ VseInv(r)
           /\ \A v \in VMs : \/ r.trust.level[v] = s.trust.level[v]
                             \/ s.trust.level[v] = DEGRADED /\ r.trust.level[v] = TRUSTED
<1> DEFINE promoted == [v \in VMs |-> IF v \in Promotable(s.trust) THEN TRUSTED ELSE s.trust.level[v]]
           counts == [v \in VMs |-> IF v \in Promotable(s.trust) THEN 0 ELSE s.trust.faults[v]]
           ages == [v \in VMs |-> Bump(s.trust.age[v], CleanPeriod)]
<1>1. HypInv(s.hyp) /\ s.trust \in TrustState /\ \A v \in VMs : VmOK(s, v)
  BY DEF VseInv, WellFormed
<1>2. /\ s.trust.level \in [VMs -> TRUSTED..REVOKED] /\ s.trust.age \in [VMs -> 0..CleanPeriod]
      /\ s.trust.faults \in [VMs -> 0..ThreshQuarantine]
  BY <1>1, TrustFields
<1>3. CASE r.trust = trust_auto_promote_tick(s.trust)
  <2>1. promoted \in [VMs -> TRUSTED..REVOKED] /\ counts \in [VMs -> 0..ThreshQuarantine]
    BY <1>2, Levels, TrustAssumption
  <2>2. r.trust = [s.trust EXCEPT !.faults = counts, !.level = promoted]
    BY <1>3 DEF trust_auto_promote_tick
  <2>3. ASSUME NEW v \in VMs
        PROVE  \/ promoted[v] = s.trust.level[v] /\ counts[v] = s.trust.faults[v]
               \/ s.trust.level[v] = DEGRADED /\ promoted[v] = TRUSTED /\ counts[v] = 0
    BY DEF Promotable
  <2> HIDE DEF promoted, counts
  <2>4. /\ r.trust \in TrustState /\ r.trust.level = promoted /\ r.trust.faults = counts
        /\ r.trust.attempts = s.trust.attempts
    BY <1>1, <2>1, <2>2, Zenon DEF TrustState
  <2>5. ASSUME NEW v \in VMs PROVE VmOK(r, v)
    BY <1>1, <2>3, <2>4, Levels, TrustAssumption, SMTT(40)
    DEF VmOK, StateOK, TrustedIsClean, FaultyIsBlocked
  <2> QED
    BY <1>1, <2>3, <2>4, <2>5 DEF VseInv, WellFormed
<1>4. CASE r.trust = Aged(s.trust)
  <2>1. ages \in [VMs -> 0..CleanPeriod]
    BY <1>2, TrustAssumption DEF Bump
  <2>2. r.trust = [s.trust EXCEPT !.age = ages]
    BY <1>4 DEF Aged
  <2> HIDE DEF ages
  <2>3. /\ r.trust \in TrustState /\ r.trust.level = s.trust.level
        /\ r.trust.faults = s.trust.faults /\ r.trust.attempts = s.trust.attempts
    BY <1>1, <2>1, <2>2 DEF TrustState
  <2> QED
    BY <1>1, <2>3 DEF VseInv, WellFormed, VmOK, StateOK, TrustedIsClean, FaultyIsBlocked
<1> QED
  BY <1>3, <1>4
---------------------------------------------------------------------------
\* The inductive invariant of the specification.
TrustInv == VseInv(Vse) /\ sched \in SchedState

\* Which steps change the level of a blocked VM, and what a step that blocks a
\* VM leaves of it.
BlockedStep(v) ==
    /\ trust.level[v] = REVOKED => trust'.level[v] = REVOKED \/ OperatorFailover(v)
    /\ trust.level[v] = QUARANTINE =>
         \/ trust'.level[v] >= QUARANTINE
         \/ /\ trust'.level[v] = DEGRADED
            /\ OperatorRestore(v) \/ OperatorFailover(v)
    /\ trust.level[v] < QUARANTINE /\ trust'.level[v] >= QUARANTINE =>
         hyp'.state[v] \notin {"READY", "RUNNING"}

\* The machine and the records a step leaves are those of the function it calls.
LEMMA BecomesVse ==
    ASSUME NEW r, Becomes(r), sched \in SchedState, VseInv(r)
    PROVE  TrustInv' /\ trust' = r.trust /\ hyp' = r.hyp
<1>1. trust' = r.trust /\ hyp' = r.hyp /\ sched' = sched
  BY DEF Becomes
<1>2. Vse'.hyp = r.hyp /\ Vse'.trust = r.trust
  BY <1>1 DEF Vse
<1> QED
  BY <1>1, <1>2
  DEF TrustInv, VseInv, WellFormed, VmOK, StateOK, TrustedIsClean, FaultyIsBlocked

\* A step that changes one VM and releases none.
LEMMA OneVmStep ==
    ASSUME TrustInv, NEW v \in VMs, NEW r, Becomes(r),
           WellFormed(r), OnlyVm(Vse, r, v), VmOK(r, v),
           \/ NoRelease(Vse, r, v)
           \/ BlockedStep(v)
    PROVE  TrustInv' /\ \A w \in VMs : BlockedStep(w)
<1>1. /\ VseInv(Vse) /\ sched \in SchedState /\ Vse.hyp = hyp /\ Vse.trust = trust
      /\ trust \in TrustState
  BY DEF TrustInv, VseInv, WellFormed, Vse
<1>2. VseInv(r)
  BY <1>1, LocalInv
<1>3. TrustInv' /\ trust' = r.trust /\ hyp' = r.hyp
  BY <1>1, <1>2, BecomesVse
<1>4. trust.level \in [VMs -> TRUSTED..REVOKED]
  BY <1>1, TrustFields
<1>5. ASSUME NEW w \in VMs, w # v PROVE BlockedStep(w)
  BY <1>1, <1>3, <1>4, <1>5, Levels, SMTT(40) DEF OnlyVm, BlockedStep
<1>6. BlockedStep(v)
  BY <1>1, <1>3, <1>4, Levels DEF NoRelease, BlockedStep
<1> QED
  BY <1>3, <1>5, <1>6

\* Every step of the trust engine keeps the invariant.
LEMMA TrustStep ==
    ASSUME TrustInv, TrustNext
    PROVE  TrustInv' /\ \A v \in VMs : BlockedStep(v)
<1>1. /\ VseInv(Vse) /\ WellFormed(Vse) /\ sched \in SchedState
      /\ Vse.hyp = hyp /\ Vse.trust = trust /\ trust \in TrustState
      /\ trust.level \in [VMs -> TRUSTED..REVOKED]
      /\ \A v \in VMs : StateOK(Vse, v)
  BY TrustFields DEF TrustInv, VseInv, WellFormed, VmOK, Vse
<1>2. ASSUME NEW v \in VMs, ReportFault(v)
      PROVE  TrustInv' /\ \A w \in VMs : BlockedStep(w)
  <2> DEFINE r == trust_report_fault(Vse, v)
  <2>1. WellFormed(r) /\ OnlyVm(Vse, r, v) /\ VmOK(r, v) /\ NoRelease(Vse, r, v)
    BY <1>1, ReportInv
  <2>2. Becomes(r)
    BY <1>2 DEF ReportFault
  <2> HIDE DEF r
  <2> QED
    BY <2>1, <2>2, OneVmStep
<1>3. ASSUME NEW v \in VMs, AskQuarantine(v)
      PROVE  TrustInv' /\ \A w \in VMs : BlockedStep(w)
  <2> DEFINE r == trust_quarantine(Vse, v)
  <2>1. WellFormed(r) /\ OnlyVm(Vse, r, v) /\ VmOK(r, v) /\ NoRelease(Vse, r, v)
    BY <1>1, QuarantineInv
  <2>2. Becomes(r)
    BY <1>3 DEF AskQuarantine
  <2> HIDE DEF r
  <2> QED
    BY <2>1, <2>2, OneVmStep
<1>4. ASSUME NEW v \in VMs, OperatorRestore(v)
      PROVE  TrustInv' /\ \A w \in VMs : BlockedStep(w)
  <2> DEFINE r == trust_restore(Vse, v)
  <2>1. /\ WellFormed(r) /\ OnlyVm(Vse, r, v) /\ VmOK(r, v)
        /\ Vse.trust.level[v] # QUARANTINE => r = Vse
        /\ Vse.trust.level[v] = QUARANTINE => r.trust.level[v] = DEGRADED
    BY <1>1, RestoreInv
  <2>2. Becomes(r) /\ trust' = r.trust
    BY <1>4 DEF OperatorRestore, Becomes
  <2> HIDE DEF r
  <2>3. BlockedStep(v)
    BY <1>1, <1>4, <2>1, <2>2, Levels DEF BlockedStep
  <2> QED
    BY <2>1, <2>2, <2>3, OneVmStep
<1>5. ASSUME NEW v \in VMs, OperatorRevoke(v)
      PROVE  TrustInv' /\ \A w \in VMs : BlockedStep(w)
  <2> DEFINE r == trust_revoke(Vse, v)
  <2>1. /\ FailedOver(Vse, r, v) /\ r.trust.level[v] = REVOKED
        /\ r.hyp.state[v] = "STOPPED"
    BY <1>1, RevokeEffect
  <2>2. Becomes(r) /\ trust' = r.trust /\ hyp' = r.hyp
    BY <1>5, SMTT(40) DEF OperatorRevoke, Becomes
  <2> HIDE DEF r
  <2>3. WellFormed(r) /\ OnlyVm(Vse, r, v) /\ VmOK(r, v)
    BY <1>1, <2>1, FailoverInv, SMTT(40) DEF FailedOver
  <2>4. BlockedStep(v)
    BY <1>1, <2>1, <2>2, Levels, SMTT(40) DEF BlockedStep
  <2> QED
    BY <2>2, <2>3, <2>4, OneVmStep
<1>6. ASSUME NEW v \in VMs, OperatorFailover(v)
      PROVE  TrustInv' /\ \A w \in VMs : BlockedStep(w)
  <2> DEFINE r == failover_trigger(Vse, v)
  <2>1. r = Vse \/ FailedOver(Vse, r, v)
    BY <1>1, FailoverEffect, SMTT(40) DEF failover_trigger
  <2>2. Becomes(r) /\ trust' = r.trust /\ hyp' = r.hyp
    BY <1>6 DEF OperatorFailover, Becomes
  <2> HIDE DEF r
  <2>3. WellFormed(r) /\ OnlyVm(Vse, r, v) /\ VmOK(r, v)
    BY <1>1, <2>1, FailoverInv, Zenon DEF FailedOver, OnlyVm, VseInv
  <2>4. BlockedStep(v)
    BY <1>1, <1>6, <2>1, <2>2, Levels DEF BlockedStep, FailedOver
  <2> QED
    BY <2>2, <2>3, <2>4, OneVmStep
<1>7. ASSUME NEW v \in VMs, GuestHvc(v)
      PROVE  TrustInv' /\ \A w \in VMs : BlockedStep(w)
  <2>1. /\ Vse'.trust = Vse.trust
        /\ Vse'.hyp \in {vm_stop(Vse.hyp, v), vm_suspend(Vse.hyp, v), vm_resume(Vse.hyp, v)}
        /\ Becomes(Vse') /\ trust' = trust
    BY <1>7, SMTT(40) DEF GuestHvc, Becomes, Vse
  <2>2. WellFormed(Vse') /\ OnlyVm(Vse, Vse', v) /\ VmOK(Vse', v)
    BY <1>1, <2>1, GuestHvcInv, SMTT(40)
  <2>3. BlockedStep(v)
    BY <1>1, <2>1, Levels, SMTT(40) DEF BlockedStep
  <2> QED
    BY <2>1, <2>2, <2>3, OneVmStep
<1>8. ASSUME PromoteTick \/ Tick
      PROVE  TrustInv' /\ \A w \in VMs : BlockedStep(w)
  <2>1. /\ Vse'.hyp = Vse.hyp /\ sched' = sched /\ Vse'.trust = trust'
        /\ Vse'.trust \in {trust_auto_promote_tick(Vse.trust), Aged(Vse.trust)}
    BY <1>8 DEF PromoteTick, Tick, Vse
  <2>2. /\ VseInv(Vse')
        /\ \A v \in VMs : \/ Vse'.trust.level[v] = Vse.trust.level[v]
                          \/ Vse.trust.level[v] = DEGRADED /\ Vse'.trust.level[v] = TRUSTED
    BY <1>1, <2>1, ScanInv
  <2> QED
    BY <1>1, <2>1, <2>2, Levels DEF TrustInv, BlockedStep
<1> QED
  BY <1>2, <1>3, <1>4, <1>5, <1>6, <1>7, <1>8 DEF TrustNext

\* The machine sched_run launches and the records trust_init makes.
LEMMA TrustInitInv == TrustInit => TrustInv
<1> SUFFICES ASSUME TrustInit PROVE TrustInv
  OBVIOUS
<1>1. Inv /\ hyp = BootMachine
  BY InitInv DEF TrustInit, sched_run
<1>2. HypInv(hyp) /\ sched \in SchedState
  BY <1>1 DEF Inv
<1>3. hyp.state = [v \in VMs |-> "RUNNING"] /\ hyp.power = [v \in VMs |-> "ON"]
  BY <1>1 DEF BootMachine
<1>4. PICK bad \in SUBSET VMs :
        trust = [level |-> [v \in VMs |-> IF v \in bad THEN QUARANTINE ELSE TRUSTED],
                 faults |-> [v \in VMs |-> 0], age |-> [v \in VMs |-> 0],
                 attempts |-> [v \in VMs |-> 0]]
  BY DEF TrustInit, trust_init
<1>5. trust \in TrustState
  <2>1. /\ TRUSTED \in TRUSTED..REVOKED /\ QUARANTINE \in TRUSTED..REVOKED
        /\ 0 \in 0..ThreshQuarantine /\ 0 \in 0..CleanPeriod /\ 0 \in 0..MaxAttempts
    BY TrustAssumption, Levels
  <2> QED
    BY <1>4, <2>1 DEF TrustState
<1>6. ASSUME NEW v \in VMs PROVE VmOK(Vse, v)
  <2>1. /\ trust.level[v] \in {TRUSTED, QUARANTINE} /\ trust.faults[v] = 0
        /\ hyp.state[v] = "RUNNING" /\ hyp.power[v] = "ON"
    BY <1>3, <1>4
  <2>2. Vse.trust = trust /\ Vse.hyp = hyp
    BY DEF Vse
  <2> QED
    BY <2>1, <2>2, Levels, TrustAssumption DEF VmOK, StateOK, TrustedIsClean, FaultyIsBlocked
<1> QED
  BY <1>2, <1>5, <1>6 DEF TrustInv, VseInv, WellFormed, Vse

\* Nothing changes when no handler runs.
LEMMA TrustStutter ==
    ASSUME TrustInv, UNCHANGED tvars
    PROVE  TrustInv' /\ \A v \in VMs : BlockedStep(v)
<1>1. /\ hyp' = hyp /\ sched' = sched /\ trust' = trust
      /\ Vse' = Vse /\ trust \in TrustState
  BY DEF tvars, Vse, TrustInv, VseInv, WellFormed
<1>2. trust.level \in [VMs -> TRUSTED..REVOKED]
  BY <1>1, TrustFields
<1> QED
  BY <1>1, <1>2, Levels DEF TrustInv, BlockedStep

\* Every reachable state of the trust engine satisfies the inductive invariant.
THEOREM TrustInvHolds == TrustSpec => []TrustInv
<1>1. TrustInv /\ [TrustNext]_tvars => TrustInv'
  BY TrustStep, TrustStutter
<1> QED
  BY <1>1, TrustInitInv, PTL DEF TrustSpec

\* Machine, scheduler and trust records are well formed, for any thresholds: in
\* particular a VM never spends more than FAILOVER_MAX_ATTEMPTS attempts.
THEOREM TrustTypeCorrect == TrustSpec => []TrustTypeOK
<1>1. TrustInv => TrustTypeOK
  BY DEF TrustInv, VseInv, WellFormed, HypInv, Vse, TrustTypeOK, TypeOK
<1> QED
  BY <1>1, TrustInvHolds, PTL

\* The level of a VM and its fault count agree, after any promotions, restores
\* and failovers (trust_report_fault, trust_auto_promote_tick, trust_restore).
THEOREM LevelsMatchCounts == TrustSpec => []LevelMatchesCount
<1>1. TrustInv => LevelMatchesCount
  BY SMTT(40) DEF TrustInv, VseInv, VmOK, TrustedIsClean, FaultyIsBlocked, Vse, LevelMatchesCount
<1> QED
  BY <1>1, TrustInvHolds, PTL

\* The clocks follow the life cycle of a VM, whoever suspends, resumes, stops or
\* restarts it (vm_suspend, vm_resume, vm_start).
THEOREM PowerIsRight == TrustSpec => []PowerFollowsState
<1>1. TrustInv => PowerFollowsState
  BY DEF TrustInv, VseInv, VmOK, StateOK, Vse, PowerFollowsState
<1> QED
  BY <1>1, TrustInvHolds, PTL

\* A REVOKED VM stays so, and STOPPED, unless the operator triggers a failover
\* (trust_restore, trust_report_fault, vm_resume, failover_trigger).
THEOREM RevocationIsFinal == TrustSpec => RevokedIsFinal
<1> DEFINE Final(v) == trust.level[v] = REVOKED =>
                         \/ trust'.level[v] = REVOKED /\ hyp'.state[v] = "STOPPED"
                         \/ OperatorFailover(v)
<1>1. ASSUME TrustInv, [TrustNext]_tvars PROVE \A v \in VMs : Final(v)
  <2>1. TrustInv' /\ \A v \in VMs : BlockedStep(v)
    BY <1>1, TrustStep, TrustStutter, SMTT(40)
  <2>2. \A v \in VMs : trust'.level[v] = REVOKED => hyp'.state[v] = "STOPPED"
    BY <2>1 DEF TrustInv, VseInv, VmOK, StateOK, Vse
  <2> QED
    BY <2>1, <2>2 DEF BlockedStep
<1>2. TrustInv /\ [TrustNext]_tvars => [\A v \in VMs : Final(v)]_tvars
  BY <1>1
<1> QED
  BY <1>2, TrustInvHolds, PTL DEF TrustSpec, RevokedIsFinal

\* The step that blocks a VM leaves it unable to run, and only trust_restore or
\* a failover lifts a quarantine (trust_quarantine, trust_restore, _do_failover).
THEOREM QuarantineIsKept == TrustSpec => QuarantineStops
<1> DEFINE Kept(v) == /\ trust.level[v] < QUARANTINE /\ trust'.level[v] >= QUARANTINE =>
                           hyp'.state[v] \notin {"READY", "RUNNING"}
                      /\ trust.level[v] = QUARANTINE /\ trust'.level[v] < QUARANTINE =>
                           /\ trust'.level[v] = DEGRADED
                           /\ OperatorRestore(v) \/ OperatorFailover(v)
<1>1. ASSUME TrustInv, [TrustNext]_tvars PROVE \A v \in VMs : Kept(v)
  <2>1. TrustInv' /\ \A v \in VMs : BlockedStep(v)
    BY <1>1, TrustStep, TrustStutter
  <2>2. trust' \in TrustState
    BY <2>1 DEF TrustInv, VseInv, WellFormed, Vse
  <2>3. trust'.level \in [VMs -> TRUSTED..REVOKED]
    BY <2>2, TrustFields
  <2> QED
    BY <2>1, <2>3, Levels DEF BlockedStep
<1>2. TrustInv /\ [TrustNext]_tvars => [\A v \in VMs : Kept(v)]_tvars
  BY <1>1
<1> QED
  BY <1>2, TrustInvHolds, PTL DEF TrustSpec, QuarantineStops
---------------------------------------------------------------------------
\* spent[v] is what the slots and the failovers of the VMs up to v took of the
\* pool.
Spent(s, spent) ==
    /\ spent \in [0..NumVms -> Nat]
    /\ spent[0] = NSlots
    /\ \A v \in VMs : spent[v] = spent[v - 1] + s.trust.attempts[v] * NumVcpus[v]
    /\ s.hyp.used = spent[NumVms]

\* Every attempt took the vCPUs of its VM from the pool, and only VMs with a
\* backup image had one.
PoolSpent(s) ==
    /\ \E spent \in [0..NumVms -> Nat] : Spent(s, spent)
    /\ \A v \in VMs : s.trust.attempts[v] > 0 => v \in Backup

\* What is still to be taken fits.
Room(s) ==
    \A v \in Backup : s.trust.attempts[v] < MaxAttempts => NumVcpus[v] <= PoolSize - s.hyp.used

\* The failover of v took its vCPUs, and left it on them, as FailoverCompletes says.
Completed(s, r, v) ==
    /\ r.trust.attempts = [s.trust.attempts EXCEPT ![v] = @ + 1]
    /\ r.hyp.used = s.hyp.used + NumVcpus[v]
    /\ r.trust.level[v] = DEGRADED
    /\ r.hyp.state[v] = "RUNNING" /\ r.hyp.mapped[v]
    /\ r.hyp.nvc[v] = NumVcpus[v]
    /\ VcpusOf(r.hyp, v) \intersect 1..s.hyp.used = {}
    /\ r.hyp.pool[r.hyp.vcpus[v][0]].entry = "backup"

NothingSpent(s, r) == r.trust.attempts = s.trust.attempts /\ r.hyp.used = s.hyp.used

Spends(s, r, v) == NothingSpent(s, r) \/ (v \in Backup /\ Completed(s, r, v))

\* Products are monotonic.
LEMMA Times ==
    ASSUME NEW a \in Nat, NEW b \in Nat, NEW c \in Nat
    PROVE  /\ a * c \in Nat
           /\ (a + 1) * c = a * c + c
           /\ a <= b => a * c <= b * c
OBVIOUS

\* One more attempt of v moves the sums from v on.
LEMMA SpendMore ==
    ASSUME NEW s, NEW r, NEW v \in VMs, WellFormed(s), PoolSpent(s), v \in Backup,
           r.trust.attempts = [s.trust.attempts EXCEPT ![v] = @ + 1],
           r.hyp.used = s.hyp.used + NumVcpus[v]
    PROVE  PoolSpent(r)
<1>1. PICK spent \in [0..NumVms -> Nat] : Spent(s, spent)
  BY DEF PoolSpent
<1>2. /\ s.trust.attempts \in [VMs -> 0..MaxAttempts]
      /\ NumVcpus \in [VMs -> Nat] /\ MaxAttempts \in Nat /\ NumVms \in Nat
  BY TrustFields, VmAssumption, TrustAssumption DEF WellFormed
<1> DEFINE more == [n \in 0..NumVms |-> IF n >= v THEN spent[n] + NumVcpus[v] ELSE spent[n]]
<1>3. more \in [0..NumVms -> Nat] /\ more[0] = NSlots
  <2>1. NumVcpus[v] \in Nat /\ v \in Int /\ 0 \in 0..NumVms /\ ~(0 >= v)
    BY <1>2, SMTT(40) DEF VMs
  <2>2. \A n \in 0..NumVms : spent[n] + NumVcpus[v] \in Nat /\ spent[n] \in Nat
    BY <2>1
  <2>3. more \in [0..NumVms -> Nat]
    BY <2>2
  <2> QED
    BY <1>1, <2>1, <2>3 DEF Spent
<1>4. more[NumVms] = r.hyp.used
  <2>1. NumVms \in 0..NumVms /\ NumVms >= v
    BY <1>2 DEF VMs
  <2> QED
    BY <1>1, <2>1 DEF Spent
<1>5. ASSUME NEW w \in VMs PROVE more[w] = more[w - 1] + r.trust.attempts[w] * NumVcpus[w]
  <2>1. w \in 0..NumVms /\ w - 1 \in 0..NumVms /\ spent[w] = spent[w - 1] + s.trust.attempts[w] * NumVcpus[w]
    BY <1>1, <1>2 DEF Spent, VMs
  <2>2. s.trust.attempts[w] \in Nat /\ NumVcpus[w] \in Nat /\ NumVcpus[v] \in Nat /\ spent[w - 1] \in Nat
    BY <1>1, <1>2, <2>1, SMTT(40)
  <2>3. /\ s.trust.attempts[w] * NumVcpus[w] \in Nat
        /\ (s.trust.attempts[w] + 1) * NumVcpus[w] = s.trust.attempts[w] * NumVcpus[w] + NumVcpus[w]
    BY <2>2, Times, SMTT(40)
  <2> DEFINE product == s.trust.attempts[w] * NumVcpus[w]
  <2>4. CASE w = v
    <3>1. r.trust.attempts[w] * NumVcpus[w] = product + NumVcpus[w]
      BY <1>2, <2>3, <2>4, SMTT(40)
    <3>2. more[w] = spent[w] + NumVcpus[w] /\ more[w - 1] = spent[w - 1]
      BY <2>1, <2>4, SMTT(40) DEF VMs
    <3> HIDE DEF product, more
    <3> QED
      BY <2>1, <2>2, <2>3, <3>1, <3>2, SMTT(40) DEF product
  <2>5. CASE w # v
    <3>1. r.trust.attempts[w] * NumVcpus[w] = product
      BY <1>2, <2>5, SMTT(40)
    <3>2. \/ more[w] = spent[w] /\ more[w - 1] = spent[w - 1]
          \/ more[w] = spent[w] + NumVcpus[v] /\ more[w - 1] = spent[w - 1] + NumVcpus[v]
      <4>1. CASE w < v
        <5>1. ~(w >= v) /\ ~(w - 1 >= v)
          BY <4>1 DEF VMs
        <5> QED
          BY <2>1, <5>1
      <4>2. CASE w > v
        <5>1. w >= v /\ w - 1 >= v
          BY <4>2, SMTT(40) DEF VMs
        <5> QED
          BY <2>1, <5>1
      <4> QED
        BY <2>5, <4>1, <4>2, SMTT(40) DEF VMs
    <3> HIDE DEF more
    <3> QED
      BY <2>1, <2>2, <2>3, <3>1, <3>2
  <2> QED
    BY <2>4, <2>5
<1>6. Spent(r, more)
  BY <1>3, <1>4, <1>5, Zenon DEF Spent
<1>7. ASSUME NEW w \in VMs, r.trust.attempts[w] > 0 PROVE w \in Backup
  BY <1>2, <1>7 DEF PoolSpent
<1> QED
  BY <1>3, <1>6, <1>7 DEF PoolSpent

\* When the pool was made large enough there is room for the next attempt of a VM
\* that has one: its sums stay below what the VMs can ask for.
LEMMA PoolHasRoom ==
    ASSUME NEW s, WellFormed(s), PoolSpent(s), PoolIsEnough
    PROVE  Room(s)
<1>1. /\ s.trust.attempts \in [VMs -> 0..MaxAttempts]
      /\ NumVcpus \in [VMs -> Nat] /\ MaxAttempts \in Nat /\ NumVms \in Nat /\ PoolSize \in Nat
      /\ Backup \subseteq VMs /\ s.hyp.used \in 0..PoolSize
  BY Fields, TrustFields, VmAssumption, TrustAssumption DEF WellFormed, HypInv
<1> SUFFICES ASSUME NEW v \in Backup, s.trust.attempts[v] < MaxAttempts
             PROVE  NumVcpus[v] <= PoolSize - s.hyp.used
  BY DEF Room
<1> DEFINE next == [trust |-> [attempts |-> [s.trust.attempts EXCEPT ![v] = @ + 1]],
                    hyp |-> [used |-> s.hyp.used + NumVcpus[v]]]
           a == next.trust.attempts
<1>2. PoolSpent(next)
  BY <1>1, SpendMore, SMTT(40)
<1>3. a \in [VMs -> 0..MaxAttempts] /\ next.hyp.used = s.hyp.used + NumVcpus[v]
  BY <1>1
<1>4. PICK spent \in [0..NumVms -> Nat] : Spent(next, spent)
  BY <1>2, SMTT(40) DEF PoolSpent
<1>5. /\ \A w \in VMs : a[w] > 0 => w \in Backup
      /\ \A w \in VMs : spent[w] = spent[w - 1] + a[w] * NumVcpus[w]
      /\ spent[0] = NSlots /\ spent[NumVms] = s.hyp.used + NumVcpus[v]
  BY <1>2, <1>3, <1>4, Zenon DEF PoolSpent, Spent
<1> HIDE DEF next, a
<1>6. PICK need \in [0..NumVms -> 0..PoolSize] :
        /\ need[0] = NSlots
        /\ \A w \in VMs : need[w] = need[w - 1] +
             (IF w \in Backup THEN MaxAttempts * NumVcpus[w] ELSE 0)
  BY Zenon DEF PoolIsEnough
<1> DEFINE over == {n \in 0..NumVms : spent[n] > need[n]}
<1>7. over = {}
  <2> SUFFICES ASSUME over # {} PROVE FALSE
    OBVIOUS
  <2>1. PICK n \in over : \A m \in over : n <= m
    <3>1. over \subseteq Nat
      BY <1>1
    <3> QED
      BY <3>1, NatMin, Zenon
  <2>2. n \in VMs /\ n - 1 \in 0..NumVms
    BY <1>1, <1>5, <1>6, <2>1 DEF VMs
  <2>3. spent[n - 1] <= need[n - 1]
    <3>1. n - 1 \notin over
      BY <1>1, <2>1, <2>2
    <3> QED
      BY <1>4, <1>6, <2>2, <3>1
  <2>4. a[n] * NumVcpus[n] <= IF n \in Backup THEN MaxAttempts * NumVcpus[n] ELSE 0
    <3>1. a[n] \in Nat /\ a[n] <= MaxAttempts /\ NumVcpus[n] \in Nat
      BY <1>1, <1>3, <2>2
    <3>2. CASE n \in Backup
      BY <1>1, <3>1, <3>2, Times, SMTT(40)
    <3>3. CASE n \notin Backup
      <4>1. a[n] = 0
        BY <1>5, <2>2, <3>1, <3>3
      <4> QED
        BY <3>1, <3>3, <4>1
    <3> QED
      BY <3>2, <3>3
  <2>5. a[n] * NumVcpus[n] \in Nat /\ MaxAttempts * NumVcpus[n] \in Nat
    <3>1. a[n] \in Nat /\ NumVcpus[n] \in Nat
      BY <1>1, <1>3, <2>2
    <3> QED
      BY <1>1, <3>1, Times, Zenon
  <2>6. spent[n] <= need[n]
    <3> DEFINE x == a[n] * NumVcpus[n]
               y == MaxAttempts * NumVcpus[n]
    <3>1. spent[n] = spent[n - 1] + x /\ need[n] = need[n - 1] + (IF n \in Backup THEN y ELSE 0)
      BY <1>5, <1>6, <2>2
    <3>2. x <= IF n \in Backup THEN y ELSE 0
      BY <2>4
    <3>3. x \in Nat /\ y \in Nat /\ spent[n - 1] \in Nat /\ need[n - 1] \in Nat
      BY <1>4, <1>6, <2>2, <2>5
    <3> HIDE DEF x, y
    <3> QED
      BY <2>3, <3>1, <3>2, <3>3, SMTT(40)
  <2> QED
    BY <1>1, <1>4, <1>6, <2>1, <2>6, SMTT(40)
<1>8. spent[NumVms] <= need[NumVms] /\ need[NumVms] \in 0..PoolSize
  <2>1. NumVms \in 0..NumVms
    BY <1>1
  <2>2. spent[NumVms] \in Nat /\ need[NumVms] \in 0..PoolSize
    BY <1>4, <1>6, <2>1
  <2>3. ~(spent[NumVms] > need[NumVms])
    BY <1>7, <2>1, SMTT(40)
  <2> QED
    BY <1>1, <2>2, <2>3
<1> QED
  BY <1>1, <1>5, <1>8

\* A restart with room in the pool gives its VM new vCPUs, the first of them at
\* the backup entry.
LEMMA RestartCompletes ==
    ASSUME NEW h, HypInv(h), NEW v \in VMs, NumVcpus[v] <= PoolSize - h.used
    PROVE  LET r == vm_restart(h, v)
           IN  /\ r.state[v] = "RUNNING" /\ r.mapped[v]
               /\ r.nvc[v] = NumVcpus[v] /\ r.used = h.used + NumVcpus[v]
               /\ VcpusOf(r, v) \intersect 1..h.used = {}
               /\ r.pool[r.vcpus[v][0]].entry = "backup"
<1> DEFINE s == vm_stop(h, v)
           f == vm_finalize(s, v)
           e == vcpu_set_entry(f, v)
           r == vm_restart(h, v)
           n == NumVcpus[v]
           m == [i \in VcpuId |-> IF i < n THEN s.used + 1 + i ELSE s.vcpus[v][i]]
           p == [c \in Pool |-> IF c \in (s.used + 1)..(s.used + n)
                                THEN vcpu_init(v) ELSE s.pool[c]]
<1>1. HypInv(s) /\ s \in Machine /\ s.used = h.used
  BY StopInv, StopEffect, ZenonT(40) DEF HypInv
<1>2. /\ n \in 1..MaxVcpu /\ MaxVcpu \in Nat /\ h.used \in 0..PoolSize /\ PoolSize \in Nat
      /\ s.vcpus \in [VMs -> [VcpuId -> Pool \union {NULL}]] /\ s.pool \in [Pool -> Vcpu]
  BY <1>1, Fields, VmAssumption
<1> HIDE DEF s
<1>3. Fresh(s, v) = n
  BY <1>1 DEF Fresh
<1>4. f = [s EXCEPT !.mapped[v] = TRUE, !.nvc[v] = n, !.vcpus[v] = m, !.pool = p,
                    !.used = s.used + n,
                    !.state[v] = IF n = NumVcpus[v] THEN "READY" ELSE @]
  BY <1>3, SMTT(40) DEF vm_finalize
<1>5. HypInv(f) /\ f \in Machine
  <2>1. s.state[v] = "STOPPED"
    BY StopKeepsCore DEF s
  <2> QED
    BY <1>1, <2>1, FinalizeInv DEF HypInv
<1>6. 0 \in VcpuId /\ m[0] = h.used + 1 /\ \A i \in 0..(n - 1) : m[i] = h.used + 1 + i
  BY <1>1, <1>2, SMTT(40) DEF VcpuId
<1> HIDE DEF n, m, p, f
<1>7. /\ f.state[v] = "READY" /\ f.mapped[v] /\ f.nvc[v] = n /\ f.vcpus[v] = m
      /\ f.used = h.used + n
  BY <1>1, <1>4 DEF Machine, n
<1>8. f.pool \in [Pool -> Vcpu] /\ h.used + 1 \in Pool /\ h.used + 1 # NULL
  BY <1>2, <1>5, Fields DEF Pool, NULL, n
<1>9. e = [f EXCEPT !.pool[h.used + 1].entry = "backup"]
  BY <1>2, <1>6, <1>7, <1>8, SMTT(40) DEF vcpu_set_entry
<1>10. /\ e \in Machine /\ e.state = f.state /\ e.mapped = f.mapped /\ e.nvc = f.nvc
       /\ e.vcpus = f.vcpus /\ e.used = f.used /\ e.pool[h.used + 1].entry = "backup"
  <2>1. e \in Machine
    BY <1>5, SetEntryInv DEF HypInv
  <2>2. e.pool = [f.pool EXCEPT ![h.used + 1].entry = "backup"]
    BY <1>5, <1>9 DEF Machine
  <2>3. f.pool[h.used + 1] \in Vcpu
    BY <1>8
  <2>4. e.pool[h.used + 1].entry = "backup"
    BY <1>8, <2>2, <2>3 DEF Vcpu
  <2> QED
    BY <1>5, <1>9, <2>1, <2>4, Zenon DEF Machine
<1>11. r = vm_start(e, v)
  BY <1>7 DEF vm_restart, e, f, s
<1> HIDE DEF e, r
<1>12. /\ r.state[v] = "RUNNING" /\ r.mapped[v] /\ r.nvc[v] = n /\ r.used = h.used + n
       /\ r.vcpus[v] = m /\ r.pool = e.pool
  <2>1. r = [e EXCEPT !.state[v] = "RUNNING"]
    BY <1>7, <1>10, <1>11, SMTT(40) DEF vm_start
  <2> QED
    BY <1>7, <1>10, <2>1 DEF Machine
<1>13. VcpusOf(r, v) \intersect 1..h.used = {}
  BY <1>2, <1>6, <1>12, SMTT(40) DEF VcpusOf
<1> QED
  BY <1>6, <1>10, <1>12, <1>13, SMTT(40) DEF r, n

\* With room in the pool a failover completes or revokes.
LEMMA FailoverSpends ==
    ASSUME NEW s, WellFormed(s), NEW v \in Backup, Room(s)
    PROVE  Spends(s, do_failover(s, v), v)
<1> DEFINE h == vm_restart(s.hyp, v)
           t == [s.trust EXCEPT !.attempts[v] = @ + 1]
           r == do_failover(s, v)
<1>1. HypInv(s.hyp) /\ s.hyp \in Machine /\ s.trust \in TrustState /\ v \in VMs
  BY TrustAssumption DEF WellFormed, HypInv
<1>2. s.trust.attempts \in [VMs -> 0..MaxAttempts] /\ MaxAttempts \in Nat
  BY <1>1, TrustFields, TrustAssumption, SMTT(40)
<1>3. CASE s.trust.attempts[v] >= MaxAttempts
  <2>1. r = trust_revoke(s, v)
    BY <1>3 DEF do_failover
  <2>2. vm_stop(s.hyp, v).used = s.hyp.used
    BY <1>1, StopEffect, Zenon
  <2>3. trust_set(s.trust, v, REVOKED).attempts = s.trust.attempts
    BY <1>1 DEF trust_set, TrustState
  <2> QED
    BY <2>1, <2>2, <2>3 DEF trust_revoke, Spends, NothingSpent
<1>4. CASE ~(s.trust.attempts[v] >= MaxAttempts)
  <2>1. NumVcpus[v] <= PoolSize - s.hyp.used
    BY <1>1, <1>2, <1>4, SMTT(40) DEF Room
  <2>2. /\ h.state[v] = "RUNNING" /\ h.mapped[v]
        /\ h.nvc[v] = NumVcpus[v] /\ h.used = s.hyp.used + NumVcpus[v]
        /\ VcpusOf(h, v) \intersect 1..s.hyp.used = {}
        /\ h.pool[h.vcpus[v][0]].entry = "backup"
    BY <1>1, <2>1, RestartCompletes
  <2>3. r.hyp = h /\ r.trust = trust_set(t, v, DEGRADED)
    BY <1>4, <2>2 DEF do_failover
  <2>4. /\ t.attempts = [s.trust.attempts EXCEPT ![v] = @ + 1] /\ t.level = s.trust.level
        /\ t \in TrustState
    <3>1. s.trust.attempts[v] + 1 \in 0..MaxAttempts
      BY <1>1, <1>2, <1>4
    <3> QED
      BY <1>1, <3>1, SMTT(40) DEF TrustState
  <2> HIDE DEF t
  <2>5. /\ trust_set(t, v, DEGRADED).attempts = t.attempts
        /\ trust_set(t, v, DEGRADED).level[v] = DEGRADED
    BY <1>1, <2>4, SMTT(40) DEF trust_set, TrustState
  <2> HIDE DEF h, r
  <2>6. Completed(s, r, v)
    BY <2>2, <2>3, <2>4, <2>5 DEF Completed
  <2> QED
    BY <2>6 DEF Spends, r
<1> QED
  BY <1>3, <1>4

\* trust_quarantine of a VM whose records a caller may have changed before.
LEMMA QuarantineSpends ==
    ASSUME NEW s, WellFormed(s), NEW v \in VMs, Room(s)
    PROVE  Spends(s, trust_quarantine(s, v), v)
<1> DEFINE h == vm_suspend(s.hyp, v)
           t == trust_set(s.trust, v, QUARANTINE)
           q == [hyp |-> h, trust |-> t]
           r == trust_quarantine(s, v)
<1>1. HypInv(s.hyp) /\ s.hyp \in Machine /\ s.trust \in TrustState
  BY DEF WellFormed, HypInv
<1>2. CASE trust_is_blocked(s.trust, v)
  BY <1>2 DEF trust_quarantine, Spends, NothingSpent
<1>3. CASE ~trust_is_blocked(s.trust, v)
  <2>1. HypInv(h) /\ h.used = s.hyp.used
    BY <1>1, SuspendInv, SuspendEffect, Zenon
  <2>2. t \in TrustState /\ t.attempts = s.trust.attempts
    <3>1. QUARANTINE \in TRUSTED..REVOKED
      BY Levels
    <3> QED
      BY <1>1, <3>1, SetLevel, ZenonT(40)
  <2>3. r = IF v \in Backup THEN do_failover(q, v) ELSE q
    BY <1>3 DEF trust_quarantine, failover_on_quarantine
  <2>4. q.hyp = h /\ q.trust = t
    OBVIOUS
  <2> HIDE DEF h, t, q
  <2>5. WellFormed(q) /\ Room(q) /\ NothingSpent(s, q)
    BY <2>1, <2>2, <2>4 DEF WellFormed, Room, NothingSpent
  <2>6. CASE v \notin Backup
    BY <2>3, <2>5, <2>6 DEF Spends
  <2>7. CASE v \in Backup
    <3>1. Spends(q, r, v)
      BY <2>3, <2>5, <2>7, FailoverSpends, SMTT(40)
    <3> HIDE DEF r
    <3>2. Spends(s, r, v)
      BY <2>5, <3>1 DEF Spends, NothingSpent, Completed
    <3> QED
      BY <3>2 DEF r
  <2> QED
    BY <2>6, <2>7
<1> QED
  BY <1>2, <1>3

\* trust_report_fault spends an attempt only through trust_quarantine.
LEMMA ReportSpends ==
    ASSUME NEW s, WellFormed(s), NEW v \in VMs, Room(s)
    PROVE  Spends(s, trust_report_fault(s, v), v)
<1> DEFINE t == [s.trust EXCEPT !.faults[v] = Bump(@, ThreshQuarantine), !.age[v] = 0]
           n == [hyp |-> s.hyp, trust |-> t]
           d == trust_set(t, v, DEGRADED)
           r == trust_report_fault(s, v)
<1>1. HypInv(s.hyp) /\ s.trust \in TrustState
  BY DEF WellFormed
<1>2. CASE s.trust.level[v] = REVOKED
  BY <1>2 DEF trust_report_fault, Spends, NothingSpent
<1>3. CASE s.trust.level[v] # REVOKED
  <2>1. Bump(s.trust.faults[v], ThreshQuarantine) \in 0..ThreshQuarantine
    BY <1>1, TrustFields, TrustAssumption DEF Bump
  <2>2. t \in TrustState /\ t.attempts = s.trust.attempts
    <3>1. 0 \in 0..CleanPeriod
      BY TrustAssumption
    <3> QED
      BY <1>1, <2>1, <3>1, Zenon DEF TrustState
  <2>3. \/ r = trust_quarantine(n, v)
        \/ r = [n EXCEPT !.trust = d]
        \/ r = n
    BY <1>3 DEF trust_report_fault
  <2> HIDE DEF t
  <2>4. n = [hyp |-> s.hyp, trust |-> t] /\ n.hyp = s.hyp /\ n.trust = t
    OBVIOUS
  <2> HIDE DEF n, r
  <2>5. WellFormed(n) /\ Room(n) /\ NothingSpent(s, n)
    BY <1>1, <2>2, <2>4, SMTT(40) DEF WellFormed, Room, NothingSpent
  <2>6. CASE r = trust_quarantine(n, v)
    <3>1. Spends(n, r, v)
      BY <2>5, <2>6, QuarantineSpends, SMTT(40)
    <3> QED
      BY <2>5, <3>1 DEF Spends, NothingSpent, Completed, r
  <2>7. CASE r = [n EXCEPT !.trust = d]
    <3>1. d.attempts = t.attempts
      BY <2>2 DEF trust_set, TrustState
    <3> HIDE DEF d
    <3>2. r.hyp = s.hyp /\ r.trust = d
      BY <2>4, <2>7
    <3> QED
      BY <2>2, <3>1, <3>2 DEF Spends, NothingSpent, r
  <2>8. CASE r = n
    BY <2>5, <2>8 DEF Spends, r
  <2> QED
    BY <2>3, <2>6, <2>7, <2>8, SMTT(40)
<1> QED
  BY <1>2, <1>3

\* The inductive invariant, with the account of the pool.
PoolInv == TrustInv /\ PoolSpent(Vse)

\* A step of the trust engine spends nothing, or completes a failover.
SpendingStep ==
    \/ hyp'.used = hyp.used /\ trust'.attempts = trust.attempts
    \/ \E v \in Backup : Completed(Vse, Vse', v)

\* Every step spends at most one attempt, and completes it.
LEMMA StepSpends ==
    ASSUME TrustInv, TrustNext, Room(Vse)
    PROVE  SpendingStep
<1>1. /\ WellFormed(Vse) /\ Vse.hyp = hyp /\ Vse.trust = trust /\ trust \in TrustState
      /\ hyp \in Machine /\ Vse'.hyp = hyp' /\ Vse'.trust = trust'
  BY SMTT(40) DEF TrustInv, VseInv, WellFormed, HypInv, Vse
<1>2. ASSUME NEW v \in VMs, NEW r, Becomes(r), Spends(Vse, r, v) PROVE SpendingStep
  <2>1. hyp' = r.hyp /\ trust' = r.trust
    BY <1>2 DEF Becomes
  <2> QED
    BY <1>1, <1>2, <2>1, ZenonT(40) DEF Spends, NothingSpent, SpendingStep, Completed
<1>3. ASSUME NEW v \in VMs, ReportFault(v) PROVE SpendingStep
  BY <1>1, <1>2, <1>3, ReportSpends DEF ReportFault
<1>4. ASSUME NEW v \in VMs, AskQuarantine(v) PROVE SpendingStep
  BY <1>1, <1>2, <1>4, QuarantineSpends DEF AskQuarantine
<1>5. ASSUME NEW v \in VMs, OperatorRestore(v) PROVE SpendingStep
  <2> DEFINE t == [trust EXCEPT !.faults[v] = 0]
  <2>1. t.attempts = trust.attempts /\ trust_set(t, v, DEGRADED).attempts = t.attempts
    BY <1>1 DEF trust_set, TrustState
  <2>2. vm_resume(hyp, v).used = hyp.used
    BY <1>1, ResumeEffect, Zenon
  <2>3. \/ hyp' = hyp /\ trust' = trust
        \/ hyp' = vm_resume(hyp, v) /\ trust' = trust_set(t, v, DEGRADED)
    BY <1>1, <1>5 DEF OperatorRestore, Becomes, trust_restore
  <2> HIDE DEF t
  <2> QED
    BY <2>1, <2>2, <2>3 DEF SpendingStep
<1>6. ASSUME NEW v \in VMs, OperatorRevoke(v) PROVE SpendingStep
  <2>1. hyp' = vm_stop(hyp, v) /\ trust' = trust_set(trust, v, REVOKED)
    BY <1>1, <1>6 DEF OperatorRevoke, Becomes, trust_revoke
  <2>2. vm_stop(hyp, v).used = hyp.used
    BY <1>1, StopEffect, ZenonT(40)
  <2>3. trust_set(trust, v, REVOKED).attempts = trust.attempts
    BY <1>1 DEF trust_set, TrustState
  <2> QED
    BY <2>1, <2>2, <2>3 DEF SpendingStep
<1>7. ASSUME NEW v \in VMs, OperatorFailover(v) PROVE SpendingStep
  <2>1. CASE v \in Backup
    <3>1. Spends(Vse, do_failover(Vse, v), v)
      BY <1>1, <2>1, FailoverSpends
    <3> QED
      BY <1>2, <1>7, <2>1, <3>1 DEF OperatorFailover, failover_trigger
  <2>2. CASE v \notin Backup
    BY <1>1, <1>7, <2>2 DEF OperatorFailover, failover_trigger, Becomes, SpendingStep
  <2> QED
    BY <2>1, <2>2
<1>8. ASSUME NEW v \in VMs, GuestHvc(v) PROVE SpendingStep
  <2>1. vm_stop(hyp, v).used = hyp.used
    BY <1>1, StopEffect, Zenon
  <2>2. vm_suspend(hyp, v).used = hyp.used
    BY <1>1, SuspendEffect, Zenon
  <2>3. vm_resume(hyp, v).used = hyp.used
    BY <1>1, ResumeEffect, Zenon
  <2> QED
    BY <1>8, <2>1, <2>2, <2>3, SMTT(40) DEF GuestHvc, SpendingStep
<1>9. ASSUME PromoteTick \/ Tick PROVE SpendingStep
  <2>1. trust'.attempts = trust.attempts /\ hyp' = hyp
    BY <1>1, <1>9, Zenon DEF PromoteTick, Tick, trust_auto_promote_tick, Aged, TrustState
  <2> QED
    BY <2>1 DEF SpendingStep
<1> QED
  BY <1>3, <1>4, <1>5, <1>6, <1>7, <1>8, <1>9, SMTT(40) DEF TrustNext

\* The boot spends the slots of the table and no attempt.
LEMMA InitPool == TrustInit => PoolInv
<1> SUFFICES ASSUME TrustInit PROVE PoolInv
  OBVIOUS
<1>1. TrustInv /\ hyp = BootMachine
  BY TrustInitInv DEF TrustInit, sched_run
<1>2. hyp.used = NSlots
  BY <1>1 DEF BootMachine
<1>3. trust.attempts = [v \in VMs |-> 0]
  BY DEF TrustInit, trust_init
<1>4. NumVms \in Nat /\ NSlots \in Nat /\ NumVcpus \in [VMs -> Nat]
  BY VmAssumption, SchedAssumption
<1> DEFINE spent == [n \in 0..NumVms |-> NSlots]
<1>5. Vse.hyp = hyp /\ Vse.trust = trust
  BY DEF Vse
<1>6. spent \in [0..NumVms -> Nat] /\ spent[0] = NSlots /\ spent[NumVms] = NSlots
  BY <1>4
<1>7. ASSUME NEW v \in VMs
      PROVE  spent[v] = spent[v - 1] + trust.attempts[v] * NumVcpus[v]
  <2>1. v \in 0..NumVms /\ v - 1 \in 0..NumVms
    BY <1>4 DEF VMs
  <2>2. trust.attempts[v] = 0 /\ NumVcpus[v] \in Nat
    BY <1>3, <1>4
  <2> QED
    BY <1>4, <2>1, <2>2
<1> HIDE DEF spent
<1>8. Spent(Vse, spent)
  BY <1>2, <1>5, <1>6, <1>7 DEF Spent
<1>9. \A v \in VMs : ~(trust.attempts[v] > 0)
  BY <1>3, SMTT(40)
<1> QED
  BY <1>1, <1>5, <1>6, <1>8, <1>9 DEF PoolInv, PoolSpent

\* A step leaves the account right, and is what FailoverCompletes says.
LEMMA PoolStep ==
    ASSUME PoolIsEnough, PoolInv, [TrustNext]_tvars
    PROVE  PoolInv' /\ SpendingStep
<1>1. TrustInv /\ TrustInv' /\ PoolSpent(Vse)
  BY TrustStep, TrustStutter DEF PoolInv
<1>2. /\ WellFormed(Vse) /\ Vse.hyp = hyp /\ Vse.trust = trust
      /\ Vse'.hyp = hyp' /\ Vse'.trust = trust'
  BY <1>1 DEF TrustInv, VseInv, Vse
<1>3. SpendingStep
  <2>1. CASE TrustNext
    BY <1>1, <1>2, <2>1, PoolHasRoom, StepSpends
  <2>2. CASE UNCHANGED tvars
    BY <2>2 DEF tvars, SpendingStep
  <2> QED
    BY <2>1, <2>2
<1>4. CASE hyp'.used = hyp.used /\ trust'.attempts = trust.attempts
  <2>1. PoolSpent(Vse')
    BY <1>1, <1>2, <1>4, Zenon DEF PoolSpent, Spent
  <2> QED
    BY <1>1, <1>3, <2>1, SMTT(40) DEF PoolInv
<1>5. ASSUME NEW v \in Backup, Completed(Vse, Vse', v) PROVE PoolSpent(Vse')
  BY <1>1, <1>2, <1>5, SpendMore, TrustAssumption, SMTT(40) DEF Completed
<1>6. CASE \E v \in Backup : Completed(Vse, Vse', v)
  BY <1>1, <1>3, <1>5, <1>6 DEF PoolInv
<1> QED
  BY <1>3, <1>4, <1>6 DEF SpendingStep

\* A failover is all or nothing: with a pool as large as the attempts _do_failover
\* grants can ask for, vm_finalize never finds it empty, and the step that spends an
\* attempt leaves the VM running from its backup on vCPUs nothing used before.
THEOREM FailoversComplete == ASSUME PoolIsEnough PROVE TrustSpec => FailoverCompletes
<1> DEFINE Done(v) == trust'.attempts[v] # trust.attempts[v] =>
                        /\ trust'.level[v] = DEGRADED
                        /\ hyp'.state[v] = "RUNNING" /\ hyp'.mapped[v]
                        /\ hyp'.nvc[v] = NumVcpus[v]
                        /\ VcpusOf(hyp', v) \intersect 1..hyp.used = {}
                        /\ hyp'.pool[hyp'.vcpus[v][0]].entry = "backup"
<1>1. PoolInv /\ [TrustNext]_tvars => PoolInv'
  BY PoolStep, SMTT(40)
<1>2. ASSUME PoolInv, [TrustNext]_tvars PROVE \A v \in VMs : Done(v)
  <2>1. SpendingStep
    BY <1>2, PoolStep, SMTT(40)
  <2>2. /\ Vse.hyp = hyp /\ Vse.trust = trust /\ Vse'.hyp = hyp' /\ Vse'.trust = trust'
        /\ trust.attempts \in [VMs -> 0..MaxAttempts]
    BY <1>2, TrustFields, SMTT(40) DEF PoolInv, TrustInv, VseInv, WellFormed, Vse
  <2>3. ASSUME NEW v \in VMs, NEW w \in Backup, Completed(Vse, Vse', w) PROVE Done(v)
    <3>1. CASE v = w
      BY <2>2, <2>3, <3>1, SMTT(40) DEF Completed
    <3>2. CASE v # w
      BY <2>2, <2>3, <3>2, SMTT(40) DEF Completed
    <3> QED
      BY <3>1, <3>2, SMTT(40)
  <2> QED
    BY <2>1, <2>3 DEF SpendingStep
<1>3. PoolInv /\ [TrustNext]_tvars => [\A v \in VMs : Done(v)]_tvars
  BY <1>2
<1> QED
  BY <1>1, <1>3, InitPool, PTL DEF TrustSpec, FailoverCompletes
===========================================================================
