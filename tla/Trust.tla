------------------------------- MODULE Trust -------------------------------
(***************************************************************************)
(* Trust levels and failover: vse/trust.c and vse/failover.c.              *)
(*                                                                         *)
(* The variable trust holds, per VM, level (of g_trust.vm[]), faults       *)
(* (fault_count, counted up to the highest threshold: the code compares it *)
(* with nothing larger), age (timer_now_us() - last_fault_us, counted up   *)
(* to the clean period) and attempts (failover_count of _backup[]).        *)
(* Functions that change VMs as well take and return a record s with       *)
(* fields hyp and trust.                                                   *)
(*                                                                         *)
(* Here any VM whose memory is mapped may fault and any guest may make any *)
(* life-cycle hypercall; the module Hypervisor adds the scheduler, which   *)
(* decides who can at what time.                                           *)
(***************************************************************************)
EXTENDS Sched

CONSTANTS Backup,              \* the VMs failover_register was called for
          ThreshDegraded,      \* TRUST_THRESH_DEGRADED
          ThreshQuarantine,    \* TRUST_THRESH_QUARANTINE
          MaxAttempts,         \* FAILOVER_MAX_ATTEMPTS
          CleanPeriod          \* TRUST_CLEAN_PERIOD_US

VARIABLE trust

TRUSTED == 1
DEGRADED == 2
QUARANTINE == 3
REVOKED == 4

ASSUME TrustAssumption ==
    /\ Backup \subseteq VMs
    /\ ThreshDegraded \in Nat \ {0}
    /\ ThreshQuarantine \in Nat /\ ThreshQuarantine > ThreshDegraded
    /\ MaxAttempts \in Nat
    /\ CleanPeriod \in Nat

\* The pool holds every vCPU the failovers can ask for: need[v] is what the VMs up
\* to v take at most, after the vCPUs of the slots.
PoolIsEnough ==
    \E need \in [0..NumVms -> 0..PoolSize] :
      /\ need[0] = NSlots
      /\ \A v \in VMs : need[v] = need[v - 1] +
           (IF v \in Backup THEN MaxAttempts * NumVcpus[v] ELSE 0)

TrustState == [level : [VMs -> TRUSTED..REVOKED],
               faults : [VMs -> 0..ThreshQuarantine],
               age : [VMs -> 0..CleanPeriod],
               attempts : [VMs -> 0..MaxAttempts]]

\* guest_measure_vm may find a mismatch for any set of VMs; platform_init has
\* started them all by then.
trust_init ==
    \E bad \in SUBSET VMs :
      trust = [level |-> [v \in VMs |-> IF v \in bad THEN QUARANTINE ELSE TRUSTED],
               faults |-> [v \in VMs |-> 0],
               age |-> [v \in VMs |-> 0],
               attempts |-> [v \in VMs |-> 0]]
---------------------------------------------------------------------------
\* A counter that is compared with nothing above "top".
Bump(n, top) == IF n < top THEN n + 1 ELSE top

trust_is_blocked(t, v) == t.level[v] >= QUARANTINE

trust_set(t, v, level) == [t EXCEPT !.level[v] = level]

\* Mutant: the state is set without vm_stop.
trust_revoke_keeps_memory(s, v) ==
    [hyp |-> [s.hyp EXCEPT !.state[v] = "STOPPED"],
     trust |-> trust_set(s.trust, v, REVOKED)]

trust_revoke(s, v) ==
    [hyp |-> vm_stop(s.hyp, v), trust |-> trust_set(s.trust, v, REVOKED)]

do_failover(s, v) ==
    IF s.trust.attempts[v] >= MaxAttempts THEN trust_revoke(s, v)
    ELSE LET h == vm_restart(s.hyp, v)
             t == [s.trust EXCEPT !.attempts[v] = @ + 1]
         IN  [hyp |-> h,
              trust |-> IF h.state[v] = "RUNNING" THEN trust_set(t, v, DEGRADED)
                                                  ELSE t]

failover_on_quarantine(s, v) == IF v \in Backup THEN do_failover(s, v) ELSE s

failover_trigger(s, v) == IF v \in Backup THEN do_failover(s, v) ELSE s

\* Mutant: vm_suspend is not called.
trust_quarantine_no_suspend(s, v) ==
    IF trust_is_blocked(s.trust, v) THEN s
    ELSE failover_on_quarantine(
           [s EXCEPT !.trust = trust_set(s.trust, v, QUARANTINE)], v)

trust_quarantine(s, v) ==
    IF trust_is_blocked(s.trust, v) THEN s
    ELSE failover_on_quarantine(
           [hyp |-> vm_suspend(s.hyp, v),
            trust |-> trust_set(s.trust, v, QUARANTINE)], v)

\* Mutant: restores any blocked VM.
trust_restore_revoked(s, v) ==
    IF ~trust_is_blocked(s.trust, v) THEN s
    ELSE [hyp |-> vm_resume(s.hyp, v),
          trust |-> trust_set([s.trust EXCEPT !.faults[v] = 0], v, DEGRADED)]

trust_restore(s, v) ==
    IF s.trust.level[v] # QUARANTINE THEN s
    ELSE [hyp |-> vm_resume(s.hyp, v),
          trust |-> trust_set([s.trust EXCEPT !.faults[v] = 0], v, DEGRADED)]

trust_report_fault(s, v) ==
    IF s.trust.level[v] = REVOKED THEN s
    ELSE LET t == [s.trust EXCEPT !.faults[v] = Bump(@, ThreshQuarantine),
                                  !.age[v] = 0]
             r == [hyp |-> s.hyp, trust |-> t]
         IN  IF t.faults[v] >= ThreshQuarantine THEN trust_quarantine(r, v)
             ELSE IF t.faults[v] >= ThreshDegraded /\ t.level[v] = TRUSTED
             THEN [r EXCEPT !.trust = trust_set(t, v, DEGRADED)]
             ELSE r

\* Mutant: the clean period is not checked.
Promotable_at_once(t) == {v \in VMs : t.level[v] = DEGRADED}

\* The VMs a promotion scan finds clean for long enough.
Promotable(t) ==
    {v \in VMs : t.level[v] = DEGRADED /\ t.age[v] >= CleanPeriod}

\* Mutant: the fault count is not cleared.
trust_auto_promote_tick_keeps_count(t) ==
    [t EXCEPT !.level = [v \in VMs |-> IF v \in Promotable(t) THEN TRUSTED ELSE @[v]]]

trust_auto_promote_tick(t) ==
    [t EXCEPT !.faults = [v \in VMs |-> IF v \in Promotable(t) THEN 0 ELSE @[v]],
              !.level = [v \in VMs |-> IF v \in Promotable(t) THEN TRUSTED ELSE @[v]]]
---------------------------------------------------------------------------
tvars == <<hyp, sched, trust>>
Vse == [hyp |-> hyp, trust |-> trust]

Becomes(s) == hyp' = s.hyp /\ trust' = s.trust /\ UNCHANGED sched

\* A fault charged to a guest that can execute.
ReportFault(v) ==
    /\ hyp.mapped[v]
    /\ Becomes(trust_report_fault(Vse, v))

\* The intrusion detector, or an operator, asks for a quarantine.
AskQuarantine(v) == Becomes(trust_quarantine(Vse, v))

OperatorRestore(v) == Becomes(trust_restore(Vse, v))

OperatorRevoke(v) == Becomes(trust_revoke(Vse, v))

OperatorFailover(v) == Becomes(failover_trigger(Vse, v))

PromoteTick ==
    /\ trust' = trust_auto_promote_tick(trust)
    /\ UNCHANGED <<hyp, sched>>

GuestHvc(v) ==
    /\ hyp' \in {vm_stop(hyp, v), vm_suspend(hyp, v), vm_resume(hyp, v)}
    /\ UNCHANGED <<sched, trust>>

\* Time passes.
Aged(t) == [t EXCEPT !.age = [v \in VMs |-> Bump(t.age[v], CleanPeriod)]]

Tick == trust' = Aged(trust) /\ UNCHANGED <<hyp, sched>>

TrustNext ==
    \/ \E v \in VMs : \/ ReportFault(v) \/ AskQuarantine(v)
                      \/ OperatorRestore(v) \/ OperatorRevoke(v)
                      \/ OperatorFailover(v)
                      \/ GuestHvc(v)
    \/ PromoteTick
    \/ Tick

TrustInit == sched_run /\ trust_init

TrustSpec == TrustInit /\ [][TrustNext]_tvars
---------------------------------------------------------------------------
\* The trust records are well formed.
TrustTypeOK == TypeOK /\ trust \in TrustState

\* "A revoked VM is terminal" (trust.c): once a VM is REVOKED no fault, guest
\* hypercall, promotion scan or restore changes its level, and it never leaves
\* STOPPED.  Only failover_trigger, the manual path of failover.c, brings it
\* back: it does not look at the level.
RevokedIsFinal ==
    [][\A v \in VMs : trust.level[v] = REVOKED =>
         \/ trust'.level[v] = REVOKED /\ hyp'.state[v] = "STOPPED"
         \/ OperatorFailover(v)]_tvars

\* The level and the fault count agree after any promotions, restores and
\* failovers: a TRUSTED VM is below the first threshold, and one whose count has
\* reached the second is blocked, except after a failover, which lifts the level
\* and keeps the count (trust_report_fault, trust_auto_promote_tick).
LevelMatchesCount ==
    \A v \in VMs :
      /\ trust.level[v] = TRUSTED => trust.faults[v] < ThreshDegraded
      /\ trust.faults[v] >= ThreshQuarantine =>
           trust.level[v] >= QUARANTINE \/ trust.attempts[v] > 0

\* The step that quarantines a VM, whichever path it takes, does not leave the
\* VM runnable.  No fault, hypercall or promotion scan lifts a quarantine, also
\* not that of a VM trust_init found not to be genuine and that is running: only
\* trust_restore and a failover do, and to DEGRADED ("QUARANTINE and REVOKED
\* require explicit restore/policy", trust.c).
QuarantineStops ==
    [][\A v \in VMs :
         /\ trust.level[v] < QUARANTINE /\ trust'.level[v] >= QUARANTINE =>
              hyp'.state[v] \notin {"READY", "RUNNING"}
         /\ trust.level[v] = QUARANTINE /\ trust'.level[v] < QUARANTINE =>
              /\ trust'.level[v] = DEGRADED
              /\ OperatorRestore(v) \/ OperatorFailover(v)]_tvars

\* A failover is all or nothing: the step that spends an attempt leaves the VM
\* RUNNING, DEGRADED, mapped, on vCPUs no context has used before, the first of
\* them at the backup entry.  vm_finalize never finds the pool empty within the
\* attempts _do_failover grants.
FailoverCompletes ==
    [][\A v \in VMs : trust'.attempts[v] # trust.attempts[v] =>
         /\ trust'.level[v] = DEGRADED
         /\ hyp'.state[v] = "RUNNING" /\ hyp'.mapped[v]
         /\ hyp'.nvc[v] = NumVcpus[v]
         /\ VcpusOf(hyp', v) \intersect 1..hyp.used = {}
         /\ hyp'.pool[hyp'.vcpus[v][0]].entry = "backup"]_tvars

\* The clocks of a suspended VM are gated, whichever of the hypercall, the trust
\* engine or the intrusion detector suspended it (vm_suspend).  A RUNNING VM has
\* its clocks ("POWER_STATE_ON = 0,    VM running, all devices clocked", power.h),
\* except after a failover: vm_start does not undo the gating of the vm_suspend
\* that preceded it (vm_resume does).
PowerFollowsState ==
    \A v \in VMs :
      /\ hyp.state[v] = "SUSPENDED" => hyp.power[v] = "GATED"
      /\ hyp.state[v] = "RUNNING" /\ hyp.power[v] = "GATED" => trust.attempts[v] > 0

\* "a QUARANTINED VM is suspended" (trust.h), and "QUARANTINE and REVOKED require
\* explicit restore/policy" (trust.c): while the level stays QUARANTINE the VM is
\* not set running.
QuarantineHolds ==
    [][\A v \in VMs :
         /\ trust.level[v] = QUARANTINE /\ trust'.level[v] = QUARANTINE
         /\ hyp.state[v] # "RUNNING"
         => hyp'.state[v] # "RUNNING"]_tvars
===========================================================================
