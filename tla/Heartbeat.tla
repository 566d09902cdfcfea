----------------------------- MODULE Heartbeat -----------------------------
(***************************************************************************)
(* The counter in do_switch (core/sched/sched.c) that drives the intrusion *)
(* detector: every PollEvery-th change of VM calls ids_poll.  The module   *)
(* Hypervisor says what a poll does.                                       *)
(***************************************************************************)
EXTENDS Sched

CONSTANT PollEvery      \* 8 in do_switch

VARIABLE ctr            \* ids_poll_ctr, modulo PollEvery

ASSUME HeartbeatAssumption == PollEvery \in Nat \ {0, 1}

bvars == <<hyp, sched, ctr>>

VmChanges == CurrentVm(hyp') # CurrentVm(hyp)

\* Mutant: the counter is not static.
Count_not_static == ctr' = IF VmChanges THEN 1 ELSE ctr

\* Switches between the vCPUs of one VM are not counted.
Count == ctr' = IF VmChanges THEN (ctr + 1) % PollEvery ELSE ctr

\* The switch that polls.
Poll == VmChanges /\ ctr' = 0

BeatNext == NextLive /\ Count

\* Guests that idle: each one on the core reaches a WFI in the end, and an
\* armed timer expires.
HeartbeatSpec ==
    /\ sched_run /\ ctr = 0
    /\ [][BeatNext]_bvars
    /\ WF_bvars(Wfi /\ Count) /\ WF_bvars(TimerIrq /\ Count)
---------------------------------------------------------------------------
\* As long as two VMs stay RUNNING the detector is polled again and again, by
\* whatever mix of ticks and WFIs, suspends, resumes and failovers the switches
\* come about (do_switch counts changes of VM only).
PollsWhileVmsRun ==
    \A v, w \in VMs : v < w =>
      (<>[](hyp.state[v] = "RUNNING" /\ hyp.state[w] = "RUNNING") => []<><<Poll>>_ctr)
===========================================================================
