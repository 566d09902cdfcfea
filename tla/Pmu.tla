-------------------------------- MODULE Pmu --------------------------------
(***************************************************************************)
(* Performance counters of the vCPUs (core/vcpu/pmu.c): the trapped guest  *)
(* accesses, which work on the saved context, and the save and restore of  *)
(* vcpu_do_switch, which work on the registers.                            *)
(*                                                                         *)
(* There is one event counter, enable bits are a set, and of PMCR_EL0 only *)
(* E is kept; the reset bits act at once.  An access is what the code      *)
(* decodes from the syndrome.                                              *)
(***************************************************************************)
EXTENDS Integers

CONSTANTS
    PmuVcpus,    \* vCPUs
    EventTypes,  \* values of PMEVTYPERn_EL0
    Values,      \* counter values a guest writes
    MaxCount     \* bound on the counters

VARIABLES
    pmucur,      \* the vCPU on the core
    hw,          \* the registers
    ctx,         \* vc->pmu
    cycles       \* per vCPU: cycles counted while it was on the core, from
                 \* the value it last wrote

\* The counters count up from what was written; the event type of a fresh
\* context is 0.
ASSUME PmuAssumption == Values \subseteq Nat /\ 0 \in EventTypes /\ MaxCount \in Nat

pmuvars == <<pmucur, hw, ctx, cycles>>

Counters == {"cycle", "event"}

\* pmu_init and pmu_vcpu_init.  Enable bits and event types have no reset
\* value.
PmuInit ==
    /\ pmucur \in PmuVcpus
    /\ \E en \in SUBSET Counters, t \in EventTypes :
          hw = [e |-> FALSE, cyc |-> 0, ev |-> 0, type |-> t, cnten |-> en]
    /\ ctx = [v \in PmuVcpus |-> [e |-> FALSE, cyc |-> 0, ev |-> 0, type |-> 0, cnten |-> {},
                                  enabled |-> FALSE]]
    /\ cycles = [v \in PmuVcpus |-> 0]

\* The guest runs: enabled counters count.
Count ==
    /\ hw.e
    /\ cycles[pmucur] < MaxCount /\ hw.ev < MaxCount
    /\ hw' = [hw EXCEPT !.cyc = IF "cycle" \in hw.cnten THEN @ + 1 ELSE @,
                        !.ev = IF "event" \in hw.cnten THEN @ + 1 ELSE @]
    /\ cycles' = [cycles EXCEPT ![pmucur] = IF "cycle" \in hw.cnten THEN @ + 1 ELSE @]
    /\ UNCHANGED <<pmucur, ctx>>

\* Mutant: the count of the interval replaces the total.
pmu_save_no_total(c, h) ==
    [c EXCEPT !.cyc = h.cyc, !.e = h.e, !.cnten = h.cnten, !.ev = h.ev, !.type = h.type]

\* The context takes the registers; the cycles are added to the total.
pmu_save(c, h) ==
    [c EXCEPT !.cyc = @ + h.cyc, !.e = h.e, !.cnten = h.cnten, !.ev = h.ev, !.type = h.type]

\* The counters are stopped and reset after a save.
Stopped(h) == [h EXCEPT !.e = FALSE, !.cyc = 0, !.ev = 0]

\* The event counter is written and then reset with the cycle counter;
\* writing PMCNTENSET adds bits.
pmu_restore(c, h) ==
    [h EXCEPT !.type = c.type, !.ev = 0, !.cyc = 0, !.cnten = @ \union c.cnten,
              !.e = c.enabled]

\* vcpu_do_switch.
PmuSwitch(v) ==
    /\ v # pmucur
    /\ ctx' = [ctx EXCEPT ![pmucur] = pmu_save(@, hw)]
    /\ hw' = pmu_restore(ctx[v], Stopped(hw))
    /\ pmucur' = v
    /\ UNCHANGED cycles

\* pmu_handle_trap: a write of PMCR_EL0 with its E bit and its bits 1 and 2.
WritePmcr(e, c, p) ==
    /\ ctx' = [ctx EXCEPT ![pmucur].e = e, ![pmucur].enabled = @ \/ e,
                          ![pmucur].cyc = IF c THEN 0 ELSE @,
                          ![pmucur].ev = IF p THEN 0 ELSE @]
    /\ cycles' = IF c THEN [cycles EXCEPT ![pmucur] = hw.cyc] ELSE cycles
    /\ UNCHANGED <<pmucur, hw>>

\* PMCCNTR_EL0; cycles of the running interval are added to it later.
WritePmccntr(val) ==
    /\ ctx' = [ctx EXCEPT ![pmucur].cyc = val]
    /\ cycles' = [cycles EXCEPT ![pmucur] = val + hw.cyc]
    /\ UNCHANGED <<pmucur, hw>>

\* PMCNTENSET_EL0, PMCNTENCLR_EL0, PMEVCNTRn_EL0 and PMEVTYPERn_EL0.
WriteOther ==
    /\ \/ \E b \in Counters :
             \/ ctx' = [ctx EXCEPT ![pmucur].cnten = @ \union {b}]
             \/ ctx' = [ctx EXCEPT ![pmucur].cnten = @ \ {b}]
       \/ \E val \in Values : ctx' = [ctx EXCEPT ![pmucur].ev = val]
       \/ \E t \in EventTypes : ctx' = [ctx EXCEPT ![pmucur].type = t]
    /\ UNCHANGED <<pmucur, hw, cycles>>

PmuNext ==
    \/ Count \/ WriteOther
    \/ \E v \in PmuVcpus : PmuSwitch(v)
    \/ \E e, c, p \in BOOLEAN : WritePmcr(e, c, p)
    \/ \E val \in Values : WritePmccntr(val)

PmuSpec == PmuInit /\ [][PmuNext]_pmuvars
----------------------------------------------------------------------------
\* pmu_query: the total of the past intervals and the running one.
pmu_query(v) == ctx[v].cyc + (IF v = pmucur THEN hw.cyc ELSE 0)

\* Registers and contexts are well formed.  A guest that has set E stays enabled,
\* and the counters only run for a vCPU that has enabled them, not on behalf of
\* the one before it (pmu_restore without ctx->enabled).
PmuTypeOK ==
    /\ pmucur \in PmuVcpus
    /\ hw \in [e : BOOLEAN, cyc : Nat, ev : Nat, type : EventTypes, cnten : SUBSET Counters]
    /\ \A v \in PmuVcpus : ctx[v].e => ctx[v].enabled
    /\ hw.e => ctx[pmucur].enabled

\* pmu_query reports to a vCPU the cycles counted while it was on the core,
\* none of another vCPU, none twice and none lost, over any switches, resets
\* and writes: pmu_save adds the interval and both pmu_save and pmu_restore
\* reset the register.
CyclesConserved == \A v \in PmuVcpus : pmu_query(v) = cycles[v]
============================================================================
