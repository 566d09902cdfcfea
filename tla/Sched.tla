------------------------------- MODULE Sched -------------------------------
(***************************************************************************)
(* The scheduler, core/sched/sched.c, with the traps and interrupts that   *)
(* enter it: the CNTHP timer tick and the UART interrupt of                *)
(* drivers/gic/gicv3.c, the WFI trap, and the hypercalls of                *)
(* guest/hypercall/hvc_handler.c that change a VM's life cycle or the      *)
(* timer.  What the security engine may do to the VM on the core are the   *)
(* actions Quarantine and Revoke; the modules Trust and Hypervisor say     *)
(* when it does which.                                                     *)
(*                                                                         *)
(* The variable sched holds cur (_cur), timer (CNTHP is enabled) and uart  *)
(* (the UART interrupt is enabled at the GIC).                             *)
(***************************************************************************)
EXTENDS Vm

CONSTANTS NSlots,     \* _nslots
          Slots,      \* _slots: slot -> the VM and vCPU number it runs
          RealTime    \* the VMs with sched.realtime

VARIABLE sched

Slot == 0..(NSlots - 1)
LinuxVm == 1

\* sched_init adds one slot per vCPU, in the order of the VMs and their vCPUs,
\* which is also the order in which vm_finalize took the pool entries.
sched_init ==
    /\ Slots \in [Slot -> [vm : VMs, vcpu : VcpuId]]
    /\ \A v \in VMs, i \in VcpuId :
         i < NumVcpus[v] => \E k \in Slot : Slots[k] = [vm |-> v, vcpu |-> i]
    /\ \A k \in Slot : Slots[k].vcpu < NumVcpus[Slots[k].vm]
    /\ \A j, k \in Slot :
         j < k => \/ Slots[j].vm < Slots[k].vm
                  \/ Slots[j].vm = Slots[k].vm /\ Slots[j].vcpu < Slots[k].vcpu

ASSUME SchedAssumption ==
    /\ NSlots \in 1..PoolSize
    /\ sched_init
    /\ RealTime \subseteq VMs

SchedState == [cur : Slot, timer : BOOLEAN, uart : BOOLEAN]
---------------------------------------------------------------------------
\* Mutant: the states of the VM and the vCPU are not checked.
slot_vcpu_any_state(h, k) ==
    LET c == h.vcpus[Slots[k].vm][Slots[k].vcpu]
    IN  IF Slots[k].vcpu < h.nvc[Slots[k].vm] /\ c # NULL THEN c ELSE NULL

\* The vCPU a slot would run now, or NULL.
slot_vcpu(h, k) ==
    LET v == Slots[k].vm
        c == h.vcpus[v][Slots[k].vcpu]
    IN  IF /\ h.state[v] = "RUNNING"
           /\ Slots[k].vcpu < h.nvc[v]
           /\ c # NULL
           /\ h.pool[c].state # "STOPPED"
        THEN c ELSE NULL

Runnable(h) == {k \in Slot : slot_vcpu(h, k) # NULL}

\* Steps a search that starts behind slot "from" makes before it reaches k.
Dist(from, k) == (k - from - 1) % NSlots

\* The first slot of S such a search meets.
FirstAfter(S, from) ==
    CHOOSE k \in S : \A j \in S : Dist(from, k) <= Dist(from, j)

\* The slot find_next_rr stops at; it comes back to "from" when it finds none.
find_next_rr(h, from) ==
    IF Runnable(h) = {} THEN from ELSE FirstAfter(Runnable(h), from)

\* The slots sched_on_wfi looks at first: those of the other VMs.
OtherVms(h) == {k \in Runnable(h) : Slots[k].vm # CurrentVm(h)}

\* Mutant: the search starts at slot 0 instead of behind the current slot.
find_next_wfi_from_first(h, from) ==
    IF OtherVms(h) = {} THEN find_next_rr(h, from)
                        ELSE FirstAfter(OtherVms(h), NSlots - 1)

\* sched_on_wfi makes one full turn over the other VMs, then one over all.
find_next_wfi(h, from) ==
    IF OtherVms(h) = {} THEN find_next_rr(h, from)
                        ELSE FirstAfter(OtherVms(h), from)

\* Mutant: compares the VMs instead of the vCPUs.
do_switch_between_vms(h, next) ==
    IF CurrentVm(h) = h.pool[next].vm THEN h ELSE vcpu_do_switch(h, next)

\* The last statement of do_switch (its accounting and its calls to the
\* intrusion detector leave the machine alone).
do_switch(h, next) == IF h.current = next THEN h ELSE vcpu_do_switch(h, next)

\* Mutant: the interrupt is enabled for every VM.
gate_uart_always(h, next) == TRUE

gate_uart(h, next) == h.pool[next].vm = LinuxVm

\* What sched_on_timer and sched_on_wfi do once they know the slot; "armed" is
\* the timer's enable bit when the trap or interrupt returns to the guest.
Dispatch(k, armed) ==
    LET next == slot_vcpu(hyp, k)
    IN  IF next = NULL
        THEN /\ sched' = [sched EXCEPT !.cur = k, !.timer = armed]
             /\ UNCHANGED hyp
        ELSE /\ hyp' = do_switch(hyp, next)
             /\ sched' = [cur |-> k, timer |-> armed,
                          uart |-> gate_uart(hyp, next)]
---------------------------------------------------------------------------
\* The first real-time slot, else the first slot (every VM is RUNNING).
FirstSlot ==
    LET rt == {k \in Slot : Slots[k].vm \in RealTime}
    IN  FirstAfter(IF rt = {} THEN Slot ELSE rt, NSlots - 1)

SlotOf(v, i) == CHOOSE k \in Slot : Slots[k] = [vm |-> v, vcpu |-> i]

\* The machine platform_init leaves and sched_run launches: every VM finalized
\* and started in the order of the slots, the first guest on the core.
BootMachine ==
    [state |-> [v \in VMs |-> "RUNNING"],
     power |-> [v \in VMs |-> "ON"],
     nvc |-> NumVcpus,
     mapped |-> [v \in VMs |-> TRUE],
     vcpus |-> [v \in VMs |-> [i \in VcpuId |->
                  IF i < NumVcpus[v] THEN SlotOf(v, i) + 1 ELSE NULL]],
     pool |-> [c \in Pool |->
                 IF c > NSlots
                 THEN [vm |-> NULL, state |-> "IDLE", entry |-> "none"]
                 ELSE [vcpu_init(Slots[c - 1].vm) EXCEPT
                         !.state = IF c = FirstSlot + 1 THEN "RUNNING" ELSE @]],
     used |-> NSlots,
     vttbr |-> Slots[FirstSlot].vm,
     current |-> FirstSlot + 1]

sched_run ==
    /\ hyp = BootMachine
    /\ sched = [cur |-> FirstSlot, timer |-> TRUE, uart |-> FALSE]
---------------------------------------------------------------------------
\* A guest makes progress, and so traps, only while the tables VTTBR_EL2 points
\* to are populated; otherwise every instruction fetch aborts.
GuestRuns == hyp.mapped[hyp.vttbr]

\* fault_iabt steps over the instruction and returns to the same guest: nothing
\* is reported and nothing is scheduled.
Iabt == ~GuestRuns /\ UNCHANGED <<hyp, sched>>

\* gic_handle_irq, timer part.  sched_on_timer arms the timer for the next
\* slice and the write of CNTHP_IMASK that follows clears its enable bit.
TimerIrq ==
    /\ sched.timer
    /\ Dispatch(find_next_rr(hyp, sched.cur), FALSE)

Wfi ==
    /\ GuestRuns
    /\ Dispatch(find_next_wfi(hyp, sched.cur), TRUE)

\* gic_handle_irq, UART part: inject, then disable until the next gate_uart.
UartIrq ==
    /\ sched.uart
    /\ sched' = [sched EXCEPT !.uart = FALSE]
    /\ UNCHANGED hyp

\* HVC_SCHED_YIELD only shortens the timer.
HvcYield ==
    /\ GuestRuns
    /\ sched' = [sched EXCEPT !.timer = TRUE]
    /\ UNCHANGED hyp

HvcVmStop(v) ==
    /\ GuestRuns
    /\ hyp' = vm_stop(hyp, v)
    /\ UNCHANGED sched

HvcVmSuspend(v) ==
    /\ GuestRuns
    /\ hyp' = vm_suspend(hyp, v)
    /\ UNCHANGED sched

HvcVmResume(v) ==
    /\ GuestRuns
    /\ hyp' = vm_resume(hyp, v)
    /\ UNCHANGED sched

\* What one trust_quarantine may leave of the VM when it does not stop it:
\* suspended, or restarted from its backup image.
Recovered(h, v) == {vm_suspend(h, v), vm_restart(vm_suspend(h, v), v)}

\* A fault of the guest on the core can make the security engine call
\* trust_quarantine once, or twice: from the fault count and from the fault rate.
Quarantine ==
    /\ GuestRuns
    /\ LET v == CurrentVm(hyp)
       IN  \E h \in {hyp} \union Recovered(hyp, v) : hyp' \in Recovered(h, v)
    /\ UNCHANGED sched

\* The same when the last call finds the failover attempts used up.
Revoke ==
    /\ GuestRuns
    /\ LET v == CurrentVm(hyp)
       IN  \E h \in {hyp} \union Recovered(hyp, v) : hyp' = vm_stop(vm_suspend(h, v), v)
    /\ UNCHANGED sched

vars == <<hyp, sched>>

\* Steps that leave every VM's memory mapped.
NextLive ==
    \/ TimerIrq
    \/ Wfi
    \/ UartIrq
    \/ HvcYield
    \/ \E v \in VMs : HvcVmSuspend(v) \/ HvcVmResume(v)
    \/ Quarantine

Next ==
    \/ NextLive
    \/ \E v \in VMs : HvcVmStop(v)
    \/ Revoke
    \/ Iabt

Spec == sched_run /\ [][Next]_vars

\* An armed timer expires; nothing is known of the guests.
TimerFairSpec == sched_run /\ [][NextLive]_vars /\ WF_vars(TimerIrq)
---------------------------------------------------------------------------
\* The state of the machine and of the scheduler is well formed.
TypeOK == hyp \in Machine /\ sched \in SchedState

\* Mutual exclusion on the core: whatever mix of ticks, WFIs, stops, suspends
\* and restarts led here, a vCPU whose state is RUNNING is the one
\* g_current_vcpu[0] points to (vcpu_do_switch, vm_stop, vm_finalize).
OneRunning == \A c \in Pool : hyp.pool[c].state = "RUNNING" => c = hyp.current

\* Pool entries are never shared: two places of the vcpus[] tables in use hold
\* different vCPUs, each of which belongs to the VM of the table (vm_finalize
\* after any number of failovers).
VcpusDistinct ==
    \A v, w \in VMs : \A i, j \in VcpuId :
      i < hyp.nvc[v] /\ j < hyp.nvc[w] =>
        /\ hyp.pool[hyp.vcpus[v][i]].vm = v
        /\ hyp.vcpus[v][i] = hyp.vcpus[w][j] => v = w /\ i = j

\* A RUNNING VM can be run: its memory is mapped and none of its vCPUs is
\* STOPPED, although vcpu_do_switch puts a stopped vCPU back to READY and a
\* restart replaces the vCPU that is on the core.
RunningIsRunnable ==
    \A v \in VMs : hyp.state[v] = "RUNNING" =>
      /\ hyp.mapped[v]
      /\ \A i \in 0..(hyp.nvc[v] - 1) : hyp.pool[hyp.vcpus[v][i]].state # "STOPPED"

\* The UART interrupt is enabled only while Linux is on the core, so that
\* gic_handle_irq injects it into no other guest (gate_uart on every switch).
UartGated == sched.uart => CurrentVm(hyp) = LinuxVm

\* A context switch goes to a vCPU that its VM still owns, of a VM that is
\* RUNNING and mapped, and leaves VTTBR_EL2 with that VM's tables: never to a
\* suspended or stopped VM, nor to a vCPU that a failover has replaced.
DispatchSafe ==
    [][hyp'.current # hyp.current =>
         LET v == CurrentVm(hyp')
         IN  /\ hyp.state[v] = "RUNNING"
             /\ hyp.mapped[v]
             /\ hyp'.vttbr = v
             /\ hyp'.current \in VcpusOf(hyp, v)
             /\ hyp.pool[hyp'.current].state # "STOPPED"]_vars

\* VTTBR_EL2 holds the tables of the VM on the core whenever a guest runs: what
\* vcpu.c says of it ("Stage-2 page table base for the next VM").
VttbrFollowsCurrent == hyp.vttbr = CurrentVm(hyp)

\* No VM starves: a VM that stays RUNNING gets the core again and again, in
\* every interleaving of ticks, WFIs, suspends and resumes (find_next_rr and
\* the search of sched_on_wfi, which skips the VM that executed the WFI).
NoVmStarves ==
    \A v \in VMs : []<>(CurrentVm(hyp) = v \/ hyp.state[v] # "RUNNING")

\* After a failover the vCPU on the core is one its VM no longer owns; it does
\* not keep the core ("The scheduler then naturally resumes the VM on its next
\* slot, now executing the backup OS", failover.c).
FailoverTakesEffect ==
    (hyp.current \notin VcpusOf(hyp, CurrentVm(hyp))) ~>
      \/ hyp.current \in VcpusOf(hyp, CurrentVm(hyp))
      \/ \A w \in VMs : hyp.state[w] # "RUNNING"
===========================================================================
