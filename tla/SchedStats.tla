---------------------------- MODULE SchedStats ----------------------------
(***************************************************************************)
(* CPU accounting (core/sched/sched_stats.c) and time slices               *)
(* (sched_set_slice of core/sched/sched.c), as the scheduler's handlers    *)
(* and the hypercalls drive them.  Which slot is next is Sched's business: *)
(* here it is any slot.  Durations are small numbers.                      *)
(***************************************************************************)
EXTENDS Integers, Sequences, FiniteSetsExt

CONSTANTS
    StatVms,             \* VM ids
    SlotVm,              \* the VM of each slot
    BootSlice,           \* time_slice_us of each VM, as vm_create sets it
    MinSlice, MaxSlice,  \* the bounds of sched_set_slice
    SliceArgs,           \* durations asked for in HVC_SCHED_SET_SLICE
    MaxSwitches          \* bound on g_switch_count

ASSUME StatsAssumption ==
    /\ MinSlice \in Nat \ {0} /\ MaxSlice \in Nat /\ MinSlice <= MaxSlice
    /\ BootSlice \in [StatVms -> Nat \ {0}]
    /\ SlotVm \in Seq(StatVms) /\ \A v \in StatVms : \E i \in DOMAIN SlotVm : SlotVm[i] = v

VARIABLES
    onCore,     \* the VM on the core
    firstVm,    \* the VM sched_run launched
    slots,      \* _slots[i].duration_us
    stats,      \* _stats
    switches    \* g_switch_count

statvars == <<onCore, firstVm, slots, stats, switches>>

\* sched_stats_init followed by sched_add_slot for every slot.
StatsInit ==
    /\ onCore \in StatVms /\ firstVm = onCore
    /\ slots = [i \in DOMAIN SlotVm |-> BootSlice[SlotVm[i]]]
    /\ stats = [v \in StatVms |-> [total |-> 0, slices |-> 0, preempts |-> 0, wfis |-> 0,
                                   dur |-> BootSlice[v]]]
    /\ switches = 0

Charge(s, v, us, preempt) ==
    [s EXCEPT ![v].total = @ + us, ![v].preempts = IF preempt THEN @ + 1 ELSE @]

\* The VM that leaves is charged with the slice it is given here.
sched_stats_on_switch(s, prev, next, us, preempt) ==
    [Charge(s, prev, us, preempt) EXCEPT ![next].slices = @ + 1]

\* Mutant: a WFI counts as a preemption of the next VM.
sched_stats_on_wfi_other(s, v) == [w \in StatVms |-> [s[w] EXCEPT !.preempts = @ + 1]]

sched_stats_on_wfi(s, v) == [s EXCEPT ![v].wfis = @ + 1]

\* do_switch charges the VM that leaves with the slice of the next slot.
do_switch_stats(s, i, preempt) ==
    /\ switches < MaxSwitches
    /\ stats' = sched_stats_on_switch(s, onCore, SlotVm[i], slots[i], preempt)
    /\ onCore' = SlotVm[i]
    /\ switches' = switches + 1
    /\ UNCHANGED <<firstVm, slots>>

\* sched_on_timer, when find_next_rr returns slot i.
StatTimer(i) == do_switch_stats(stats, i, TRUE)

\* sched_on_wfi: the WFI is recorded before the search.
StatWfi(i) == do_switch_stats(sched_stats_on_wfi(stats, onCore), i, FALSE)

\* sched_on_wfi without a VM to switch to: the WFI alone is recorded (bound: there
\* is at most one WFI more than there were switches).
StatWfiAlone ==
    /\ MapThenSumSet(LAMBDA v : stats[v].wfis, StatVms) <= switches
    /\ stats' = sched_stats_on_wfi(stats, onCore)
    /\ UNCHANGED <<onCore, firstVm, slots, switches>>

Clamp(us) == IF us < MinSlice THEN MinSlice ELSE IF us > MaxSlice THEN MaxSlice ELSE us

SetSlots(v, us) == [i \in DOMAIN slots |-> IF SlotVm[i] = v THEN us ELSE slots[i]]

\* HVC_SCHED_SET_SLICE; a VM without slots is not found.
sched_set_slice(v, us) ==
    /\ slots' = SetSlots(v, Clamp(us))
    /\ stats' = [stats EXCEPT ![v].dur = Clamp(us)]
    /\ UNCHANGED <<onCore, firstVm, switches>>

StatsNext ==
    \/ \E i \in DOMAIN SlotVm : StatTimer(i) \/ StatWfi(i)
    \/ StatWfiAlone
    \/ \E v \in StatVms, us \in SliceArgs : sched_set_slice(v, us)

StatsSpec == StatsInit /\ [][StatsNext]_statvars
---------------------------------------------------------------------------
TotalAll == MapThenSumSet(LAMBDA v : stats[v].total, StatVms)

\* HVC_PERF_QUERY and sched_stats_report: the share of a VM in permille.
HvcPerfQuery(v) == IF stats[v].total = 0 THEN 0 ELSE (stats[v].total * 1000) \div TotalAll

Slices == MinSlice .. MaxSlice \union {BootSlice[v] : v \in StatVms}

\* Slices stay between the bounds of sched_set_slice, or as vm_create set them.
StatsTypeOK ==
    /\ onCore \in StatVms /\ firstVm \in StatVms /\ switches \in 0 .. MaxSwitches
    /\ slots \in [DOMAIN SlotVm -> Slices]
    /\ stats \in [StatVms -> [total : Nat, slices : Nat, preempts : Nat, wfis : Nat, dur : Slices]]

\* The statistics agree with one another and with the slot table, whatever ticks,
\* WFIs and slice changes came: every switch gives exactly one slice, also one
\* that leaves the VM on the core; a VM is not preempted more often than it got
\* the core (arrivals are counted for the next VM, preemptions for the previous
\* one, and the first VM arrives without a switch); the slice HVC_SCHED_GET_STATS
\* reports is the one of each slot of the VM; and the shares of HVC_PERF_QUERY
\* add up to at most 1000.
StatsAgree ==
    /\ MapThenSumSet(LAMBDA v : stats[v].slices, StatVms) = switches
    /\ \A v \in StatVms :
          stats[v].preempts + (IF onCore = v THEN 1 ELSE 0)
              <= stats[v].slices + (IF firstVm = v THEN 1 ELSE 0)
    /\ \A i \in DOMAIN SlotVm : slots[i] = stats[SlotVm[i]].dur
    /\ MapThenSumSet(HvcPerfQuery, StatVms) <= 1000
===========================================================================
