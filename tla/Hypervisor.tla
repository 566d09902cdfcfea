---------------------------- MODULE Hypervisor ----------------------------
(***************************************************************************)
(* The scheduler, the hypercalls, the fault handlers of core/fault/fault.c *)
(* and the security engine together.  Every handler is one step.  Faults   *)
(* are charged to the VM of g_current_vcpu[0]; the intrusion detector      *)
(* polls from inside do_switch, when the counter of Heartbeat says so.     *)
(***************************************************************************)
EXTENDS Ids, Heartbeat

\* The history variables of Ids play no part here.
unused == <<hist, polled>>
hvars == <<hyp, sched, trust, ids, ctr, unused>>

\* The handler writes no audit record and touches no trust record.
Quiet ==
    /\ trust' = trust
    /\ ids' = [ids EXCEPT !.log = {}]
    /\ UNCHANGED <<ctr, unused>>

\* do_switch, the part before the context switch.
PollOnSwitch ==
    /\ Count
    /\ IF Poll THEN PollNow ELSE trust' = trust /\ ids' = [ids EXCEPT !.log = {}]
    /\ UNCHANGED unused

HypTimerIrq == TimerIrq /\ PollOnSwitch

HypWfi == Wfi /\ PollOnSwitch

HypUartIrq == UartIrq /\ Quiet

HypIabt == Iabt /\ Quiet

HypHvcYield == HvcYield /\ Quiet

HypHvcStop(v) == HvcVmStop(v) /\ Quiet

HypHvcSuspend(v) == HvcVmSuspend(v) /\ Quiet

HypHvcResume(v) == HvcVmResume(v) /\ Quiet

\* Mutant: the fault is charged to a fixed VM.
HypFault_of_first_vm(type) ==
    /\ GuestRuns
    /\ HandleFault(LinuxVm, type)
    /\ UNCHANGED <<sched, ctr, unused>>

\* fault_dabt, for a fault outside the emulated device window, and the refused
\* transfer of hvc_dma_xfer.
HypFault(type) ==
    /\ GuestRuns
    /\ HandleFault(CurrentVm(hyp), type)
    /\ UNCHANGED <<sched, ctr, unused>>

HypTime ==
    /\ trust' = Aged(trust) /\ ids' = IdsAged(ids)
    /\ UNCHANGED <<hyp, sched, ctr, unused>>

HypNext ==
    \/ HypTimerIrq \/ HypWfi \/ HypUartIrq \/ HypHvcYield
    \/ \E v \in VMs : HypHvcSuspend(v) \/ HypHvcResume(v) \/ HypHvcStop(v)
    \/ \E type \in FaultTypes : HypFault(type)
    \/ HypTime
    \/ HypIabt

HypInit == IdsInit /\ ctr = 0

HypSpec == HypInit /\ [][HypNext]_hvars
---------------------------------------------------------------------------
\* The composed system implements the scheduler: whatever the trust engine,
\* failover and the intrusion detector do in a handler, its effect on the VMs
\* is one of the steps Sched allows, so Sched's properties hold here too.
ImplementsSched == Spec

\* No VM is punished for another: a step that worsens the level of a VM, spends
\* one of its attempts or restarts it happens while that VM is on the core.
FaultsChargeTheCulprit ==
    [][\A v \in VMs :
         \/ trust'.level[v] > trust.level[v]
         \/ trust'.attempts[v] # trust.attempts[v]
         \/ hyp'.vcpus[v] # hyp.vcpus[v]
         => CurrentVm(hyp) = v]_hvars

\* The clock of auto-promotion is honoured: a level improves only by a failover
\* or by a poll that finds the VM free of faults for the clean period, and the
\* promoted VM starts with a clean count.
PromotionEarned ==
    [][\A v \in VMs : trust'.level[v] < trust.level[v] =>
         \/ trust'.attempts[v] > trust.attempts[v] /\ trust'.level[v] = DEGRADED
         \/ /\ <<NULL, "POLL">> \in ids'.log
            /\ trust.level[v] = DEGRADED /\ trust.age[v] = CleanPeriod
            /\ trust'.faults[v] = 0]_hvars
===========================================================================
