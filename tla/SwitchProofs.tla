---------------------------- MODULE SwitchProofs ----------------------------
(***************************************************************************)
(* Proofs about what a context switch saves and restores: the performance  *)
(* counters, the list registers and the register file, for any number of   *)
(* vCPUs, list registers and pool entries.                                 *)
(***************************************************************************)
EXTENDS Pmu, VIrq, Context, NatLemmas, FiniteSetTheorems, TLAPS

PmuContext ==
    [e : BOOLEAN, cyc : Nat, ev : Nat, type : EventTypes, cnten : SUBSET Counters,
     enabled : BOOLEAN]

PmuRegs == [e : BOOLEAN, cyc : Nat, ev : Nat, type : EventTypes, cnten : SUBSET Counters]

\* PmuTypeOK and CyclesConserved with the types of the contexts and of the
\* reference count.
PmuInv ==
    /\ PmuTypeOK
    /\ ctx \in [PmuVcpus -> PmuContext]
    /\ cycles \in [PmuVcpus -> Nat]
    /\ CyclesConserved

\* While the guest runs, the register and the reference count alike.
LEMMA PmuCounts ==
    ASSUME PmuInv, Count
    PROVE  PmuInv'
<1> USE DEF PmuInv, PmuTypeOK, PmuContext, PmuRegs
<1> DEFINE n == IF "cycle" \in hw.cnten THEN 1 ELSE 0
<1>1. /\ hw' \in PmuRegs
      /\ hw'.e = hw.e /\ hw'.cyc = hw.cyc + n
  <2> DEFINE m == IF "event" \in hw.cnten THEN 1 ELSE 0
             h == [e |-> hw.e, cyc |-> hw.cyc + n, ev |-> hw.ev + m, type |-> hw.type,
                   cnten |-> hw.cnten]
  <2>1. hw' = h
    <3>1. /\ (IF "cycle" \in hw.cnten THEN hw.cyc + 1 ELSE hw.cyc) = hw.cyc + n
          /\ (IF "event" \in hw.cnten THEN hw.ev + 1 ELSE hw.ev) = hw.ev + m
      OBVIOUS
    <3>2. hw' = [hw EXCEPT !.cyc = hw.cyc + n, !.ev = hw.ev + m]
      BY <3>1, Zenon DEF Count
    <3> HIDE DEF n, m
    <3> QED
      BY <3>2, Zenon
  <2>2. n \in Nat /\ m \in Nat
    OBVIOUS
  <2>3. /\ h \in PmuRegs
        /\ h.e = hw.e /\ h.cyc = hw.cyc + n
    BY <2>2
  <2> QED
    BY <2>1, <2>3
<1>2. /\ cycles' \in [PmuVcpus -> Nat]
      /\ \A v \in PmuVcpus : cycles'[v] = IF v = pmucur THEN cycles[v] + n ELSE cycles[v]
  BY DEF Count
<1>3. pmucur' = pmucur /\ ctx' = ctx
  BY DEF Count
<1>4. CyclesConserved'
  BY <1>1, <1>2, <1>3 DEF CyclesConserved, pmu_query
<1> QED
  BY <1>1, <1>2, <1>3, <1>4

\* A trapped access leaves the other vCPUs' totals alone and accounts for what it
\* writes (pmu_handle_trap).
LEMMA PmuAccess ==
    ASSUME PmuInv
    PROVE  /\ WriteOther => PmuInv'
           /\ \A e, c, p \in BOOLEAN : WritePmcr(e, c, p) => PmuInv'
           /\ \A val \in Values : WritePmccntr(val) => PmuInv'
<1> USE PmuAssumption DEF PmuInv, PmuTypeOK, PmuContext, PmuRegs
<1>1. WriteOther => PmuInv'
  BY DEF WriteOther, CyclesConserved, pmu_query
<1>2. ASSUME NEW e \in BOOLEAN, NEW c \in BOOLEAN, NEW p \in BOOLEAN, WritePmcr(e, c, p)
      PROVE  PmuInv'
  <2>1. /\ ctx' \in [PmuVcpus -> PmuContext]
        /\ \A v \in PmuVcpus :
              /\ ctx'[v].cyc = IF v = pmucur /\ c THEN 0 ELSE ctx[v].cyc
              /\ ctx'[v].enabled = (ctx[v].enabled \/ (v = pmucur /\ e))
              /\ ctx'[v].e = IF v = pmucur THEN e ELSE ctx[v].e
    <3> DEFINE old == ctx[pmucur]
               d == [old EXCEPT !.e = e, !.enabled = @ \/ e, !.cyc = IF c THEN 0 ELSE @,
                                !.ev = IF p THEN 0 ELSE @]
    <3>1. ctx' = [ctx EXCEPT ![pmucur] = d]
      BY <1>2, Zenon DEF WritePmcr
    <3>2. old \in PmuContext
      OBVIOUS
    <3>3. /\ d \in PmuContext
          /\ d.cyc = (IF c THEN 0 ELSE old.cyc)
          /\ d.enabled = (old.enabled \/ e)
          /\ d.e = e
      BY <3>2, ZenonT(40)
    <3> QED
      BY <3>1, <3>3
  <2>2. /\ cycles' \in [PmuVcpus -> Nat]
        /\ \A v \in PmuVcpus : cycles'[v] = IF v = pmucur /\ c THEN hw.cyc ELSE cycles[v]
    BY <1>2 DEF WritePmcr
  <2>3. pmucur' = pmucur /\ hw' = hw
    BY <1>2 DEF WritePmcr
  <2>4. CyclesConserved'
    BY <2>1, <2>2, <2>3 DEF CyclesConserved, pmu_query
  <2> QED
    BY <2>1, <2>2, <2>3, <2>4
<1>3. ASSUME NEW val \in Values, WritePmccntr(val)
      PROVE  PmuInv'
  BY <1>3 DEF WritePmccntr, CyclesConserved, pmu_query
<1> QED
  BY <1>1, <1>2, <1>3

\* pmu_save adds the interval to the total and keeps whether the guest has set E.
LEMMA PmuSaved ==
    ASSUME NEW c \in PmuContext, NEW h \in PmuRegs
    PROVE  /\ pmu_save(c, h) \in PmuContext
           /\ pmu_save(c, h).cyc = c.cyc + h.cyc
           /\ pmu_save(c, h).enabled = c.enabled
           /\ pmu_save(c, h).e = h.e
<1> DEFINE total == c.cyc + h.cyc
           d1 == [c EXCEPT !.cyc = total]
           d2 == [d1 EXCEPT !.e = h.e]
           d3 == [d2 EXCEPT !.cnten = h.cnten]
           d4 == [d3 EXCEPT !.ev = h.ev]
           d5 == [d4 EXCEPT !.type = h.type]
<1>1. pmu_save(c, h) = d5
  BY DEF pmu_save
<1>2. total \in Nat
  BY DEF PmuContext, PmuRegs
<1> HIDE DEF total
<1>3. d1 \in PmuContext /\ d1.cyc = total /\ d1.enabled = c.enabled
  BY <1>2 DEF PmuContext
<1> HIDE DEF d1
<1>4. d2 \in PmuContext /\ d2.cyc = total /\ d2.enabled = c.enabled /\ d2.e = h.e
  BY <1>3 DEF PmuContext, PmuRegs
<1> HIDE DEF d2
<1>5. d3 \in PmuContext /\ d3.cyc = total /\ d3.enabled = c.enabled /\ d3.e = h.e
  BY <1>4 DEF PmuContext, PmuRegs
<1> HIDE DEF d3
<1>6. d4 \in PmuContext /\ d4.cyc = total /\ d4.enabled = c.enabled /\ d4.e = h.e
  BY <1>5 DEF PmuContext, PmuRegs
<1> HIDE DEF d4
<1>7. d5 \in PmuContext /\ d5.cyc = total /\ d5.enabled = c.enabled /\ d5.e = h.e
  BY <1>6 DEF PmuContext, PmuRegs
<1> HIDE DEF d5
<1> QED
  BY <1>1, <1>7 DEF total

\* pmu_save moves the interval of the vCPU that leaves into its total, and
\* pmu_restore starts the next one at 0.
LEMMA PmuSwitched ==
    ASSUME PmuInv, NEW v \in PmuVcpus, PmuSwitch(v)
    PROVE  PmuInv'
<1> USE DEF PmuInv, PmuTypeOK, PmuContext, PmuRegs
<1>1. /\ ctx' \in [PmuVcpus -> PmuContext]
      /\ \A w \in PmuVcpus :
            /\ ctx'[w].cyc = ctx[w].cyc + (IF w = pmucur THEN hw.cyc ELSE 0)
            /\ ctx'[w].enabled = ctx[w].enabled
            /\ ctx'[w].e = IF w = pmucur THEN hw.e ELSE ctx[w].e
  <2> DEFINE d == pmu_save(ctx[pmucur], hw)
  <2>1. ctx' = [ctx EXCEPT ![pmucur] = d]
    BY DEF PmuSwitch, pmu_save
  <2>2. ctx[pmucur] \in PmuContext
    OBVIOUS
  <2>3. /\ d \in PmuContext
        /\ d.cyc = ctx[pmucur].cyc + hw.cyc
        /\ d.enabled = ctx[pmucur].enabled
        /\ d.e = hw.e
    BY <2>2, PmuSaved
  <2> HIDE DEF d
  <2> QED
    BY <2>1, <2>3
<1>2. /\ hw' \in PmuRegs
      /\ hw'.cyc = 0 /\ hw'.e = ctx[v].enabled
  BY Zenon DEF PmuSwitch, pmu_restore, Stopped
<1>3. pmucur' = v /\ cycles' = cycles
  BY DEF PmuSwitch
<1>4. CyclesConserved'
  BY <1>1, <1>2, <1>3 DEF CyclesConserved, pmu_query
<1> QED
  BY <1>1, <1>2, <1>3, <1>4

\* The counters of the vCPUs are well formed and conserved at every switch and
\* access.
THEOREM PmuInvHolds == PmuSpec => []PmuInv
<1>1. PmuInit => PmuInv
  BY PmuAssumption DEF PmuInit, PmuInv, PmuTypeOK, CyclesConserved, pmu_query, PmuContext
<1>2. PmuInv /\ [PmuNext]_pmuvars => PmuInv'
  <2> SUFFICES ASSUME PmuInv, [PmuNext]_pmuvars PROVE PmuInv'
    OBVIOUS
  <2>1. CASE PmuNext
    BY <2>1, PmuCounts, PmuAccess, PmuSwitched DEF PmuNext
  <2>2. CASE UNCHANGED pmuvars
    BY <2>2 DEF pmuvars, PmuInv, PmuTypeOK, CyclesConserved, pmu_query
  <2> QED
    BY <2>1, <2>2
<1> QED
  BY <1>1, <1>2, PTL DEF PmuSpec

\* pmu_query reports every cycle once, to the vCPU that spent it, whatever
\* switches, resets and writes came between (pmu_save, pmu_restore).
THEOREM CyclesAreConserved == PmuSpec => []CyclesConserved
<1>1. PmuInv => CyclesConserved
  BY DEF PmuInv
<1> QED
  BY <1>1, PmuInvHolds, PTL
---------------------------------------------------------------------------
\* What LR0 and the saved contexts hold was injected for the VM that finds it,
\* and the UART interrupt for Linux; SPI 33 is enabled only under Linux.
VIrqInv ==
    /\ VIrqTypeOK
    /\ lr[0].to \in {0, core}
    /\ \A g \in Guests : saved[g].to \in {0, g}
    /\ \A i \in Lr : lr[i].virq = UART_SPI => lr[i].to = Linux
    /\ \A g \in Guests : saved[g].virq = UART_SPI => saved[g].to = Linux
    /\ uart => core = Linux

\* What is injected is an entry for the VM on the core.
LEMMA VirqIsEntry ==
    ASSUME VIrqTypeOK, NEW virq \in Virqs, NEW owner \in Guests
    PROVE  /\ Virq(virq, owner) \in LrValue
           /\ Virq(virq, owner).to = core /\ Virq(virq, owner).virq = virq
BY DEF VIrqTypeOK, Virq, LrValue

\* gic_inject_virq_lr writes at most one register, a free one or, when there is
\* none, LR0.
LEMMA InjectsOnce ==
    ASSUME VIrqTypeOK, NEW virq \in Virqs, NEW owner \in Guests
    PROVE  \/ gic_inject_virq_lr(virq, owner) = lr
           \/ \E i \in Lr : /\ gic_inject_virq_lr(virq, owner) = [lr EXCEPT ![i] = Virq(virq, owner)]
                            /\ lr[i] = Free \/ (i = 0 /\ FreeLrs = {})
<1>1. CASE vgic_is_masked(core)
  BY <1>1 DEF gic_inject_virq_lr
<1>2. CASE ~ vgic_is_masked(core) /\ FreeLrs = {}
  <2>1. 0 \in Lr
    BY VIrqAssumption DEF Lr
  <2> QED
    BY <1>2, <2>1, Zenon DEF gic_inject_virq_lr
<1>3. CASE ~ vgic_is_masked(core) /\ FreeLrs # {}
  <2> DEFINE first == CHOOSE i \in FreeLrs : \A j \in FreeLrs : i <= j
  <2>1. FreeLrs \subseteq Nat
    BY VIrqAssumption DEF FreeLrs, Lr
  <2>2. \E i \in FreeLrs : \A j \in FreeLrs : i <= j
    BY <1>3, <2>1, NatMin, Zenon
  <2>3. first \in FreeLrs
    BY <2>2
  <2>4. gic_inject_virq_lr(virq, owner) = [lr EXCEPT ![first] = Virq(virq, owner)]
    BY <1>3, Zenon DEF gic_inject_virq_lr
  <2> HIDE DEF first
  <2> QED
    BY <2>3, <2>4, Zenon DEF FreeLrs
<1> QED
  BY <1>1, <1>2, <1>3

\* An entry that waits while its VM stays on the core is overwritten only in LR0,
\* by the guest's timer or when no register is free.
KeepsWaiting ==
    \A i \in Lr :
        (lr[i] # Free /\ lr'[i] # Free /\ lr'[i] # lr[i] /\ core' = core) =>
            (i = 0 /\ (lr'[0].virq = VTIMER_PPI \/ FreeLrs = {}))

\* An injection for the VM on the core, whichever register it takes, keeps the
\* entries apart by VM; the UART interrupt is injected only under Linux.
LEMMA InjectStep ==
    ASSUME VIrqInv, NEW virq \in Virqs, NEW owner \in Guests,
           virq = UART_SPI => core = Linux,
           lr' = gic_inject_virq_lr(virq, owner), UNCHANGED <<core, saved, vtimer, pmr>>,
           uart' \in BOOLEAN, uart' => core = Linux
    PROVE  VIrqInv' /\ KeepsWaiting
<1> DEFINE x == Virq(virq, owner)
<1>1. x \in LrValue /\ x.to = core /\ x.virq = virq
  BY VirqIsEntry DEF VIrqInv
<1>2. \/ lr' = lr
      \/ \E i \in Lr : lr' = [lr EXCEPT ![i] = x] /\ (lr[i] = Free \/ (i = 0 /\ FreeLrs = {}))
  BY InjectsOnce, Zenon DEF VIrqInv
<1> HIDE DEF x
<1> USE DEF VIrqInv, VIrqTypeOK
<1>3. CASE lr' = lr
  BY <1>3 DEF KeepsWaiting
<1>4. ASSUME NEW i \in Lr, lr' = [lr EXCEPT ![i] = x],
             lr[i] = Free \/ (i = 0 /\ FreeLrs = {})
      PROVE  VIrqInv' /\ KeepsWaiting
  <2>1. \A j \in Lr : lr'[j] = IF j = i THEN x ELSE lr[j]
    BY <1>4
  <2>2. lr' \in [Lr -> LrValue]
    BY <1>1, <1>4
  <2>3. lr'[0].to \in {0, core}
    <3>1. 0 \in Lr
      BY VIrqAssumption DEF Lr
    <3> QED
      BY <1>1, <2>1, <3>1
  <2>4. \A j \in Lr : lr'[j].virq = UART_SPI => lr'[j].to = Linux
    BY <1>1, <2>1
  <2>5. KeepsWaiting
    BY <1>4, <2>1 DEF KeepsWaiting
  <2> QED
    BY <2>2, <2>3, <2>4, <2>5
<1> QED
  BY <1>2, <1>3, <1>4
\* The actions that inject: the UART interrupt, a routed one and the doorbell.
LEMMA InjectingSteps ==
    ASSUME VIrqInv
    PROVE  /\ UartIrq => VIrqInv' /\ KeepsWaiting
           /\ \A p \in DOMAIN Routes : irq_route_to_vm(p) => VIrqInv' /\ KeepsWaiting
           /\ \A g \in Guests : ipc_notify(g) => VIrqInv' /\ KeepsWaiting
<1>1. Linux \in Guests /\ UART_SPI \in Virqs /\ DOORBELL \in Virqs /\ DOORBELL # UART_SPI
  BY VIrqAssumption DEF Virqs, DOORBELL, UART_SPI
<1>2. uart \in BOOLEAN /\ (uart => core = Linux)
  BY Zenon DEF VIrqInv, VIrqTypeOK
<1>3. ASSUME UartIrq PROVE VIrqInv' /\ KeepsWaiting
  <2>1. /\ lr' = gic_inject_virq_lr(UART_SPI, Linux) /\ UNCHANGED <<core, saved, vtimer, pmr>>
        /\ uart' \in BOOLEAN /\ (uart' => core = Linux) /\ core = Linux
    BY <1>2, <1>3, Zenon DEF UartIrq
  <2> QED
    BY <1>1, <2>1, InjectStep
<1>4. ASSUME NEW p \in DOMAIN Routes, irq_route_to_vm(p) PROVE VIrqInv' /\ KeepsWaiting
  <2>1. /\ lr' = gic_inject_virq_lr(Routes[p].virq, Routes[p].vm_id)
        /\ UNCHANGED <<core, saved, vtimer, pmr>>
        /\ uart' \in BOOLEAN /\ (uart' => core = Linux)
    BY <1>2, <1>4 DEF irq_route_to_vm
  <2>2. Routes[p].virq \in Virqs /\ Routes[p].virq # UART_SPI /\ Routes[p].vm_id \in Guests
    BY VIrqAssumption DEF Virqs
  <2> QED
    BY <2>1, <2>2, InjectStep
<1>5. ASSUME NEW g \in Guests, ipc_notify(g) PROVE VIrqInv' /\ KeepsWaiting
  <2>1. /\ lr' = gic_inject_virq_lr(DOORBELL, g) /\ UNCHANGED <<core, saved, vtimer, pmr>>
        /\ uart' \in BOOLEAN /\ (uart' => core = Linux)
    BY <1>2, <1>5 DEF ipc_notify
  <2> QED
    BY <1>1, <2>1, InjectStep
<1> QED
  BY <1>3, <1>4, <1>5

\* The virtual timer goes through LR0, whatever is there.
LEMMA TimerStep ==
    ASSUME VIrqInv, VirtualTimerIrq
    PROVE  VIrqInv' /\ KeepsWaiting
<1> DEFINE x == Virq(VTIMER_PPI, core)
<1>1. x \in LrValue /\ x.to = core /\ x.virq = VTIMER_PPI
  <2>1. VTIMER_PPI \in Virqs /\ core \in Guests
    BY DEF Virqs, VIrqInv, VIrqTypeOK
  <2> QED
    BY <2>1, VirqIsEntry DEF VIrqInv
<1>2. lr' = [lr EXCEPT ![0] = x] /\ vtimer' = [vtimer EXCEPT ![core] = FALSE]
  BY Zenon DEF VirtualTimerIrq, gic_inject_virq
<1>3. UNCHANGED <<core, saved, pmr, uart>>
  BY DEF VirtualTimerIrq
<1> HIDE DEF x
<1> USE DEF VIrqInv, VIrqTypeOK
<1>4. 0 \in Lr /\ \A j \in Lr : lr'[j] = IF j = 0 THEN x ELSE lr[j]
  BY <1>2, VIrqAssumption DEF Lr
<1>5. lr' \in [Lr -> LrValue] /\ vtimer' \in [Guests -> BOOLEAN]
  BY <1>1, <1>2, ZenonT(40)
<1>6. VTIMER_PPI # UART_SPI
  BY DEF VTIMER_PPI, UART_SPI
<1>7. KeepsWaiting
  BY <1>1, <1>4 DEF KeepsWaiting
<1> QED
  BY <1>1, <1>3, <1>4, <1>5, <1>6, <1>7

\* A switch hands LR0 over with the vCPU: the VM that comes finds its own entry,
\* and SPI 33 is enabled only when that VM is Linux (vcpu_do_switch, gate_uart).
LEMMA SwitchStep ==
    ASSUME VIrqInv, NEW g \in Guests, Switch(g)
    PROVE  VIrqInv' /\ KeepsWaiting
<1> USE DEF VIrqInv, VIrqTypeOK
<1>1. /\ core' = g /\ g # core
      /\ saved' = [saved EXCEPT ![core] = lr[0]]
      /\ lr' = [lr EXCEPT ![0] = saved[g]]
      /\ UNCHANGED <<vtimer, pmr>>
  BY Zenon DEF Switch
<1>2. uart' \in BOOLEAN /\ (uart' => g = Linux)
  BY Zenon DEF Switch
<1>3. 0 \in Lr
  BY VIrqAssumption DEF Lr
<1>4. /\ saved' \in [Guests -> LrValue]
      /\ \A h \in Guests : saved'[h] = IF h = core THEN lr[0] ELSE saved[h]
  BY <1>1, <1>3
<1>5. /\ lr' \in [Lr -> LrValue]
      /\ \A i \in Lr : lr'[i] = IF i = 0 THEN saved[g] ELSE lr[i]
  BY <1>1, <1>3
<1>6. KeepsWaiting
  BY <1>1 DEF KeepsWaiting
<1> QED
  BY <1>1, <1>2, <1>3, <1>4, <1>5, <1>6

\* The guest's own steps: the timer, the priority mask and the end of an interrupt.
LEMMA GuestSteps ==
    ASSUME VIrqInv
    PROVE  /\ ArmTimer => VIrqInv' /\ KeepsWaiting
           /\ \A mask \in {0, 255} : vgic_icc_trap(mask) => VIrqInv' /\ KeepsWaiting
           /\ \A i \in Lr : EndOfInterrupt(i) => VIrqInv' /\ KeepsWaiting
<1> USE DEF VIrqInv, VIrqTypeOK, KeepsWaiting
<1>1. ASSUME ArmTimer PROVE VIrqInv' /\ KeepsWaiting
  BY <1>1 DEF ArmTimer
<1>2. ASSUME NEW mask \in {0, 255}, vgic_icc_trap(mask) PROVE VIrqInv' /\ KeepsWaiting
  BY <1>2 DEF vgic_icc_trap
<1>3. ASSUME NEW i \in Lr, EndOfInterrupt(i) PROVE VIrqInv' /\ KeepsWaiting
  <2>1. /\ lr' = [lr EXCEPT ![i] = Free] /\ UNCHANGED <<core, saved, vtimer, pmr, uart>>
    BY <1>3 DEF EndOfInterrupt
  <2>2. Free \in LrValue /\ Free.to = 0 /\ Free.virq # UART_SPI
    BY DEF LrValue, Free, UART_SPI
  <2>3. /\ lr' \in [Lr -> LrValue]
        /\ \A j \in Lr : lr'[j] = IF j = i THEN Free ELSE lr[j]
    BY <2>1, <2>2
  <2>4. 0 \in Lr
    BY VIrqAssumption DEF Lr
  <2> QED
    BY <2>1, <2>2, <2>3, <2>4
<1> QED
  BY <1>1, <1>2, <1>3
\* Every step of the interrupt hardware, the handlers and the guests.
LEMMA VIrqStep == VIrqInv /\ [VIrqNext]_virqvars => VIrqInv' /\ [KeepsWaiting]_virqvars
<1> SUFFICES ASSUME VIrqInv, [VIrqNext]_virqvars PROVE VIrqInv' /\ [KeepsWaiting]_virqvars
  OBVIOUS
<1>1. CASE VIrqNext
  BY <1>1, InjectingSteps, TimerStep, SwitchStep, GuestSteps DEF VIrqNext
<1>2. CASE UNCHANGED virqvars
  BY <1>2 DEF virqvars, VIrqInv, VIrqTypeOK
<1> QED
  BY <1>1, <1>2

\* The routes and registers of the interrupt model stay well formed, with every
\* waiting entry in the hands of the VM it was injected for.
THEOREM VIrqInvHolds == VIrqSpec => []VIrqInv
<1>1. VIrqInit => VIrqInv
  <2>1. 0 \in Lr
    BY VIrqAssumption DEF Lr
  <2>2. Free \in LrValue /\ Free.to = 0 /\ Free.virq # UART_SPI
    BY DEF LrValue, Free, UART_SPI
  <2> SUFFICES ASSUME VIrqInit PROVE VIrqInv
    OBVIOUS
  <2>3. VIrqTypeOK
    <3>1. lr \in [Lr -> LrValue] /\ saved \in [Guests -> LrValue]
      BY <2>2 DEF VIrqInit
    <3>2. core \in Guests /\ pmr \in [Guests -> 0..255]
      BY DEF VIrqInit
    <3>3. vtimer \in [Guests -> BOOLEAN] /\ uart \in BOOLEAN
      BY Zenon DEF VIrqInit
    <3> QED
      BY <3>1, <3>2, <3>3 DEF VIrqTypeOK
  <2>4. (\A i \in Lr : lr[i] = Free) /\ (\A g \in Guests : saved[g] = Free) /\ ~ uart
    BY DEF VIrqInit
  <2> QED
    BY <2>1, <2>2, <2>3, <2>4 DEF VIrqInv
<1> QED
  BY <1>1, VIrqStep, PTL DEF VIrqSpec

\* An interrupt reaches the VM it was injected for, and one that waits is lost only
\* in LR0, to the guest's own timer or when every register is taken
\* (vcpu_save_sysregs, vcpu_restore_sysregs, gate_uart, gic_inject_virq_lr).
THEOREM InterruptsAreKept == VIrqSpec => InterruptsStayWithVm
<1> DEFINE Sorted == /\ lr[0].to \in {0, core}
                     /\ \A g \in Guests : saved[g].to \in {0, g}
                     /\ \A i \in Lr : lr[i].virq = UART_SPI => lr[i].to = Linux
           Kept == \A i \in Lr :
                     lr[i] # Free /\ lr'[i] # Free /\ lr'[i] # lr[i] /\ core' = core =>
                       i = 0 /\ (lr'[0].virq = VTIMER_PPI \/ FreeLrs = {})
<1>1. VIrqInv => Sorted
  BY DEF VIrqInv
<1>2. KeepsWaiting => Kept
  BY DEF KeepsWaiting
<1>3. InterruptsStayWithVm <=> ([]Sorted /\ [][Kept]_virqvars)
  BY DEF InterruptsStayWithVm
<1> HIDE DEF Sorted, Kept
<1> QED
  BY <1>1, <1>2, <1>3, VIrqInvHolds, VIrqStep, PTL DEF VIrqSpec
---------------------------------------------------------------------------
Frame == [regs : [GuestRegs -> Value], sysregs : [SavedSysregs -> Value]]

Machines == [cpu : [Declared -> Value], frames : [Context -> Frame], running : Context]

\* What a vCPU that is off the core finds when it comes back is in its context.
InContext(c) ==
    /\ \A r \in GuestRegs : frames[c].regs[r] = own[c][r]
    /\ \A r \in RestoredSysregs : frames[c].sysregs[r] = own[c][r]

\* The registers of the guest on the core are its own, those of the other vCPUs
\* are in their contexts, and an entry of the pool that was never used has its
\* reset state before it.
ContextInv ==
    /\ pooled \in NumOwned .. NumContexts
    /\ running \in 1 .. pooled /\ owned \subseteq 1 .. pooled
    /\ Cardinality(owned) = NumOwned
    /\ cpu \in [Declared -> Value]
    /\ frames \in [Context -> Frame]
    /\ own \in [Context -> [Declared -> Value]]
    /\ GuestKeepsRegisters
    /\ \A c \in 1 .. pooled : c # running => InContext(c)
    /\ \A c \in pooled + 1 .. NumContexts : own[c] = Reset(c)

\* The registers the guest leaves with the trap.
LEMMA GuestIsValue ==
    ASSUME running \in Context, cpu \in [Declared -> Value]
    PROVE  Guest \in [Declared -> Value]
<1>1. "spsr_el2" \in Declared
  BY DEF Declared, GuestRegs, Return
<1>2. cpu["spsr_el2"].run \in 0 .. Runs - 1
  BY <1>1 DEF Value
<1>3. (cpu["spsr_el2"].run + 1) % Runs \in 0 .. Runs - 1
  BY <1>2, ContextAssumption
<1>4. Written(running, (cpu["spsr_el2"].run + 1) % Runs) \in Value
  BY <1>3 DEF Written, Value
<1> QED
  BY <1>4 DEF Guest

\* What EL2 leaves behind and what a handler changes are values too.
LEMMA ValuesAreValues ==
    /\ Scratch \in Value
    /\ \A v \in Value : Edited(v) \in Value
    /\ \A c \in Context : Written(c, 0) \in Value
BY ContextAssumption DEF Scratch, Edited, Written, Value

\* A store touches the registers rs of the context of the vCPU on the core.
LEMMA Stores ==
    ASSUME NEW m \in Machines, NEW rs \in SUBSET GuestRegs
    PROVE  /\ Store(m, rs) \in Machines
           /\ Store(m, rs).cpu = m.cpu /\ Store(m, rs).running = m.running
           /\ \A c \in Context :
                 /\ c # m.running => Store(m, rs).frames[c] = m.frames[c]
                 /\ Store(m, rs).frames[c].sysregs = m.frames[c].sysregs
           /\ \A r \in GuestRegs : Store(m, rs).frames[m.running].regs[r] =
                 IF r \in rs THEN m.cpu[r] ELSE m.frames[m.running].regs[r]
<1> DEFINE f == m.frames[m.running]
           g == [r \in GuestRegs |-> IF r \in rs THEN m.cpu[r] ELSE f.regs[r]]
           fs == [m.frames EXCEPT ![m.running] = [f EXCEPT !.regs = g]]
<1>1. Store(m, rs) = [m EXCEPT !.frames = fs]
  BY DEF Store, Machines
<1>2. GuestRegs \subseteq Declared
  BY DEF Declared
<1>3. f \in Frame /\ m.running \in Context /\ m.frames \in [Context -> Frame]
  BY DEF Machines
<1>4. g \in [GuestRegs -> Value]
  BY <1>2, <1>3 DEF Machines, Frame
<1>5. [f EXCEPT !.regs = g] \in Frame /\ [f EXCEPT !.regs = g].regs = g
      /\ [f EXCEPT !.regs = g].sysregs = f.sysregs
  BY <1>3, <1>4 DEF Frame
<1> HIDE DEF g
<1>6. /\ fs \in [Context -> Frame]
      /\ fs[m.running].regs = g
      /\ \A c \in Context : /\ c # m.running => fs[c] = m.frames[c]
                            /\ fs[c].sysregs = m.frames[c].sysregs
  BY <1>3, <1>5
<1> HIDE DEF fs
<1>7. /\ Store(m, rs) \in Machines /\ Store(m, rs).frames = fs
      /\ Store(m, rs).cpu = m.cpu /\ Store(m, rs).running = m.running
  BY <1>1, <1>6 DEF Machines
<1> QED
  BY <1>6, <1>7 DEF g

\* One register of the core is set.
LEMMA SetsCpu ==
    ASSUME NEW m \in Machines, NEW r \in Declared, NEW v \in Value
    PROVE  LET n == [m EXCEPT !.cpu[r] = v]
           IN  /\ n \in Machines /\ n.frames = m.frames /\ n.running = m.running
               /\ \A q \in Declared : n.cpu[q] = IF q = r THEN v ELSE m.cpu[q]
<1> DEFINE k == [m.cpu EXCEPT ![r] = v]
<1>1. k \in [Declared -> Value] /\ \A q \in Declared : k[q] = IF q = r THEN v ELSE m.cpu[q]
  BY DEF Machines
<1>2. [m EXCEPT !.cpu[r] = v] = [m EXCEPT !.cpu = k]
  BY DEF Machines
<1> HIDE DEF k
<1> QED
  BY <1>1, <1>2 DEF Machines

\* One general register is set in the context of the vCPU on the core.
LEMMA SetsReg ==
    ASSUME NEW m \in Machines, NEW r \in GuestRegs, NEW v \in Value
    PROVE  LET n == [m EXCEPT !.frames[m.running].regs[r] = v]
           IN  /\ n \in Machines /\ n.cpu = m.cpu /\ n.running = m.running
               /\ \A c \in Context : /\ c # m.running => n.frames[c] = m.frames[c]
                                     /\ n.frames[c].sysregs = m.frames[c].sysregs
               /\ \A q \in GuestRegs : n.frames[m.running].regs[q] =
                     IF q = r THEN v ELSE m.frames[m.running].regs[q]
<1> DEFINE f == m.frames[m.running]
           g == [f.regs EXCEPT ![r] = v]
           fs == [m.frames EXCEPT ![m.running] = [f EXCEPT !.regs = g]]
<1>1. [m EXCEPT !.frames[m.running].regs[r] = v] = [m EXCEPT !.frames = fs]
  BY DEF Machines
<1>2. f \in Frame /\ m.running \in Context /\ m.frames \in [Context -> Frame]
  BY DEF Machines
<1>3. g \in [GuestRegs -> Value] /\ \A q \in GuestRegs : g[q] = IF q = r THEN v ELSE f.regs[q]
  BY <1>2 DEF Frame
<1>4. /\ [f EXCEPT !.regs = g] \in Frame /\ [f EXCEPT !.regs = g].regs = g
      /\ [f EXCEPT !.regs = g].sysregs = f.sysregs
  BY <1>2, <1>3, Zenon DEF Frame
<1> HIDE DEF g
<1>5. /\ fs \in [Context -> Frame]
      /\ fs[m.running].regs = g
      /\ \A c \in Context : /\ c # m.running => fs[c] = m.frames[c]
                            /\ fs[c].sysregs = m.frames[c].sysregs
  BY <1>2, <1>4
<1> HIDE DEF fs
<1> DEFINE n == [m EXCEPT !.frames = fs]
<1>6. n \in Machines /\ n.frames = fs /\ n.cpu = m.cpu /\ n.running = m.running
  BY <1>5 DEF Machines
<1> HIDE DEF n
<1>7. [m EXCEPT !.frames[m.running].regs[r] = v] = n
  BY <1>1 DEF n
<1> QED
  BY <1>3, <1>5, <1>6, <1>7, Zenon

\* The entry of a vector: every register of the guest is in its context although
\* x14 to x17 are used on the way; the system registers are as they were.
LEMMA Saves ==
    ASSUME NEW m \in Machines
    PROVE  LET s == SAVE_GUEST_REGS(m)
           IN  /\ s \in Machines /\ s.running = m.running
               /\ \A r \in Declared \ Gprs : s.cpu[r] = m.cpu[r]
               /\ \A c \in Context : /\ c # m.running => s.frames[c] = m.frames[c]
                                     /\ s.frames[c].sysregs = m.frames[c].sysregs
               /\ \A r \in GuestRegs : s.frames[m.running].regs[r] = m.cpu[r]
<1> DEFINE stack == m.cpu["x16_x17"]
           S1 == {"x0", "x1_x13", "x14_x15"}
           S2 == {"x18_x30"} \union Return
           m1 == [m EXCEPT !.cpu["x16_x17"] = Scratch]
           a == Store(m1, S1)
           a1 == [a EXCEPT !.cpu["x14_x15"] = stack]
           b == [a1 EXCEPT !.frames[a1.running].regs["x16_x17"] = stack]
           s == Store(b, S2)
<1>1. /\ "x16_x17" \in GuestRegs /\ "x16_x17" \in Declared /\ "x14_x15" \in Declared
      /\ S1 \in SUBSET GuestRegs /\ S2 \in SUBSET GuestRegs /\ stack \in Value
  BY DEF Declared, GuestRegs, Gprs, Machines
<1>2. /\ m1 \in Machines /\ m1.frames = m.frames /\ m1.running = m.running
      /\ \A q \in Declared : m1.cpu[q] = IF q = "x16_x17" THEN Scratch ELSE m.cpu[q]
  BY <1>1, SetsCpu, ValuesAreValues
<1> HIDE DEF m1
<1>3. /\ a \in Machines /\ a.cpu = m1.cpu /\ a.running = m.running
      /\ \A c \in Context : /\ c # m.running => a.frames[c] = m.frames[c]
                            /\ a.frames[c].sysregs = m.frames[c].sysregs
      /\ \A r \in GuestRegs : r \in S1 => a.frames[m.running].regs[r] = m1.cpu[r]
  BY <1>1, <1>2, Stores
<1> HIDE DEF a
<1>4. /\ a1 \in Machines /\ a1.frames = a.frames /\ a1.running = m.running
      /\ \A q \in Declared : a1.cpu[q] = IF q = "x14_x15" THEN stack ELSE a.cpu[q]
  BY <1>1, <1>3, SetsCpu
<1> HIDE DEF a1
<1>5. /\ b \in Machines /\ b.cpu = a1.cpu /\ b.running = m.running
      /\ \A c \in Context : /\ c # m.running => b.frames[c] = a.frames[c]
                            /\ b.frames[c].sysregs = a.frames[c].sysregs
      /\ \A q \in GuestRegs : b.frames[m.running].regs[q] =
            IF q = "x16_x17" THEN stack ELSE a.frames[m.running].regs[q]
  <2>1. /\ b \in Machines /\ b.cpu = a1.cpu /\ b.running = a1.running
        /\ \A c \in Context : /\ c # a1.running => b.frames[c] = a1.frames[c]
                              /\ b.frames[c].sysregs = a1.frames[c].sysregs
        /\ \A q \in GuestRegs : b.frames[a1.running].regs[q] =
              IF q = "x16_x17" THEN stack ELSE a1.frames[a1.running].regs[q]
    <3>1. a1 \in Machines
      BY <1>4
    <3> HIDE DEF stack
    <3> QED
      BY <1>1, <3>1, SetsReg
  <2> HIDE DEF b
  <2> QED
    BY <1>4, <2>1, SMTT(40)
<1>6. SAVE_GUEST_REGS(m) = s
  <2>1. a1.running = m.running
    BY <1>4, SMTT(40)
  <2> QED
    BY <2>1, Zenon DEF SAVE_GUEST_REGS, m1, a, a1
<1> HIDE DEF b
<1>7. /\ s \in Machines /\ s.cpu = b.cpu /\ s.running = m.running
      /\ \A c \in Context : /\ c # m.running => s.frames[c] = b.frames[c]
                            /\ s.frames[c].sysregs = b.frames[c].sysregs
      /\ \A r \in GuestRegs : s.frames[m.running].regs[r] =
            IF r \in S2 THEN b.cpu[r] ELSE b.frames[m.running].regs[r]
  BY <1>1, <1>5, Stores, SMTT(40)
<1> HIDE DEF s
<1>8. \A r \in GuestRegs : s.frames[m.running].regs[r] = m.cpu[r]
  <2>1. ASSUME NEW r \in S1 PROVE s.frames[m.running].regs[r] = m.cpu[r]
    <3>1. r \in GuestRegs /\ r \in Declared /\ r \notin S2 /\ r # "x16_x17"
      BY DEF GuestRegs, Gprs, Return, Declared
    <3> QED
      BY <1>2, <1>3, <1>5, <1>7, <3>1, SMTT(40)
  <2>2. s.frames[m.running].regs["x16_x17"] = m.cpu["x16_x17"]
    <3>1. "x16_x17" \notin S2
      BY DEF Return
    <3> QED
      BY <1>1, <1>5, <1>7, <3>1
  <2>3. ASSUME NEW r \in S2 PROVE s.frames[m.running].regs[r] = m.cpu[r]
    <3>1. r \in GuestRegs /\ r \in Declared /\ r # "x16_x17" /\ r # "x14_x15"
      BY DEF GuestRegs, Gprs, Return, Declared
    <3> QED
      BY <1>2, <1>3, <1>4, <1>5, <1>7, <3>1
  <2>4. GuestRegs = S1 \union {"x16_x17"} \union S2
    BY DEF GuestRegs, Gprs
  <2> QED
    BY <2>1, <2>2, <2>3, <2>4, SMTT(40)
<1>9. \A r \in Declared \ Gprs : s.cpu[r] = m.cpu[r]
  BY <1>2, <1>3, <1>4, <1>5, <1>7 DEF Gprs
<1> QED
  BY <1>3, <1>5, <1>6, <1>7, <1>8, <1>9

\* A handler may leave anything in the general registers and nowhere else.
LEMMA Clobbers ==
    ASSUME NEW m \in Machines
    PROVE  LET n == Clobber(m)
           IN  /\ n \in Machines /\ n.frames = m.frames /\ n.running = m.running
               /\ \A r \in Declared \ Gprs : n.cpu[r] = m.cpu[r]
<1> DEFINE k == [r \in Declared |-> IF r \in Gprs THEN Scratch ELSE m.cpu[r]]
           n == [m EXCEPT !.cpu = k]
<1>1. k \in [Declared -> Value] /\ \A r \in Declared \ Gprs : k[r] = m.cpu[r]
  BY ValuesAreValues DEF Machines
<1>2. Clobber(m) = n
  BY Zenon DEF Clobber
<1> HIDE DEF k
<1>3. n \in Machines /\ n.frames = m.frames /\ n.running = m.running /\ n.cpu = k
  BY <1>1 DEF Machines
<1> HIDE DEF n
<1> QED
  BY <1>1, <1>2, <1>3

\* The handler's result and the step over the instruction go into the context.
LEMMA Edits ==
    ASSUME NEW m \in Machines, NEW rs \in SUBSET GuestRegs
    PROVE  LET n == Edit(m, rs)
           IN  /\ n \in Machines /\ n.cpu = m.cpu /\ n.running = m.running
               /\ \A c \in Context : /\ c # m.running => n.frames[c] = m.frames[c]
                                     /\ n.frames[c].sysregs = m.frames[c].sysregs
               /\ \A r \in GuestRegs : n.frames[m.running].regs[r] =
                     IF r \in rs THEN Edited(m.frames[m.running].regs[r])
                     ELSE m.frames[m.running].regs[r]
<1> DEFINE f == m.frames[m.running]
           g == [r \in GuestRegs |-> IF r \in rs THEN Edited(f.regs[r]) ELSE f.regs[r]]
           fs == [m.frames EXCEPT ![m.running] = [f EXCEPT !.regs = g]]
           n == [m EXCEPT !.frames = fs]
<1>1. Edit(m, rs) = n
  BY DEF Edit, Machines
<1>2. f \in Frame /\ m.running \in Context /\ m.frames \in [Context -> Frame]
  BY DEF Machines
<1>3. g \in [GuestRegs -> Value]
  BY <1>2, ValuesAreValues, SMTT(40) DEF Frame
<1>4. /\ [f EXCEPT !.regs = g] \in Frame /\ [f EXCEPT !.regs = g].regs = g
      /\ [f EXCEPT !.regs = g].sysregs = f.sysregs
  BY <1>2, <1>3 DEF Frame
<1> HIDE DEF g
<1>5. /\ fs \in [Context -> Frame]
      /\ fs[m.running].regs = g
      /\ \A c \in Context : /\ c # m.running => fs[c] = m.frames[c]
                            /\ fs[c].sysregs = m.frames[c].sysregs
  BY <1>2, <1>4
<1> HIDE DEF fs
<1>6. n \in Machines /\ n.frames = fs /\ n.cpu = m.cpu /\ n.running = m.running
  BY <1>5 DEF Machines
<1> HIDE DEF n
<1>7. \A r \in GuestRegs : g[r] = IF r \in rs THEN Edited(f.regs[r]) ELSE f.regs[r]
  BY DEF g
<1> QED
  BY <1>1, <1>5, <1>6, <1>7

\* The way out of a vector: the guest's registers come from the context of the
\* vCPU on the core; the registers that have no place there are left.
LEMMA Restores ==
    ASSUME NEW m \in Machines
    PROVE  LET n == RESTORE_GUEST_REGS(m)
           IN  /\ n \in Machines /\ n.frames = m.frames /\ n.running = m.running
               /\ \A r \in Declared : n.cpu[r] =
                     IF r \in GuestRegs THEN m.frames[m.running].regs[r] ELSE m.cpu[r]
<1>1. ASSUME NEW k \in Machines, NEW rs \in SUBSET GuestRegs
      PROVE  LET n == Load(k, rs)
             IN  /\ n \in Machines /\ n.frames = k.frames /\ n.running = k.running
                 /\ \A r \in Declared : n.cpu[r] =
                       IF r \in rs THEN k.frames[k.running].regs[r] ELSE k.cpu[r]
  <2> DEFINE p == [r \in Declared |->
                     IF r \in rs THEN k.frames[k.running].regs[r] ELSE k.cpu[r]]
             n == [k EXCEPT !.cpu = p]
  <2>1. k.frames[k.running] \in Frame
    BY DEF Machines
  <2>2. p \in [Declared -> Value]
    BY <2>1 DEF Machines, Frame
  <2>3. Load(k, rs) = n
    BY Zenon DEF Load
  <2> HIDE DEF p
  <2>4. n \in Machines /\ n.frames = k.frames /\ n.running = k.running /\ n.cpu = p
    BY <2>2 DEF Machines
  <2> HIDE DEF n
  <2> QED
    BY <2>3, <2>4 DEF p
<1> DEFINE R1 == GuestRegs \ {"x16_x17"}
           R2 == {"x16_x17"}
           a == Load(m, R1)
           b == Load(a, R2)
<1>2. R1 \in SUBSET GuestRegs /\ R2 \in SUBSET GuestRegs /\ R1 \union R2 = GuestRegs
  BY DEF GuestRegs, Gprs
<1> HIDE DEF R1, R2
<1>3. /\ a \in Machines /\ a.frames = m.frames /\ a.running = m.running
      /\ \A r \in Declared : a.cpu[r] =
            IF r \in R1 THEN m.frames[m.running].regs[r] ELSE m.cpu[r]
  BY <1>1, <1>2
<1> HIDE DEF a
<1>4. /\ b \in Machines /\ b.frames = m.frames /\ b.running = m.running
      /\ \A r \in Declared : b.cpu[r] =
            IF r \in R2 THEN m.frames[m.running].regs[r] ELSE a.cpu[r]
  BY <1>1, <1>2, <1>3
<1> HIDE DEF b
<1>5. RESTORE_GUEST_REGS(m) = b
  BY Zenon DEF RESTORE_GUEST_REGS, a, b, R1, R2
<1> QED
  BY <1>2, <1>3, <1>4, <1>5

\* A switch puts the system registers of the vCPU that leaves into its context
\* and takes those of the next one from there (vcpu_save_sysregs,
\* vcpu_restore_sysregs); no general register moves.
LEMMA Switches ==
    ASSUME NEW m \in Machines, NEW next \in Context, next # m.running
    PROVE  LET n == vcpu_do_switch(m, next)
           IN  /\ n \in Machines /\ n.running = next
               /\ \A c \in Context : /\ c # m.running => n.frames[c] = m.frames[c]
                                     /\ n.frames[c].regs = m.frames[c].regs
               /\ \A r \in SavedSysregs : n.frames[m.running].sysregs[r] = m.cpu[r]
               /\ \A r \in RestoredSysregs : n.cpu[r] = m.frames[next].sysregs[r]
<1> DEFINE f == m.frames[m.running]
           g == [r \in SavedSysregs |-> m.cpu[r]]
           fs == [m.frames EXCEPT ![m.running] = [f EXCEPT !.sysregs = g]]
           a == [m EXCEPT !.frames = fs]
           b == [a EXCEPT !.running = next]
           k == [r \in Declared |-> IF r \in RestoredSysregs THEN b.frames[b.running].sysregs[r]
                                    ELSE b.cpu[r]]
           n == [b EXCEPT !.cpu = k]
<1>1. /\ f \in Frame /\ m.running \in Context /\ m.frames \in [Context -> Frame]
      /\ m.cpu \in [Declared -> Value]
  BY DEF Machines
<1>2. SavedSysregs \subseteq Declared /\ RestoredSysregs \subseteq SavedSysregs
  BY DEF Declared, SavedSysregs
<1>3. vcpu_save_sysregs(m) = a
  BY DEF vcpu_save_sysregs, Machines
<1>4. vcpu_do_switch(m, next) = n
  <2> HIDE DEF a
  <2>1. vcpu_do_switch(m, next) = vcpu_restore_sysregs(b)
    BY <1>3, Zenon DEF vcpu_do_switch
  <2> HIDE DEF b
  <2>2. vcpu_restore_sysregs(b) = n
    BY Zenon DEF vcpu_restore_sysregs
  <2> QED
    BY <2>1, <2>2
<1>5. g \in [SavedSysregs -> Value] /\ \A r \in SavedSysregs : g[r] = m.cpu[r]
  BY <1>1, <1>2
<1>6. /\ [f EXCEPT !.sysregs = g] \in Frame /\ [f EXCEPT !.sysregs = g].sysregs = g
      /\ [f EXCEPT !.sysregs = g].regs = f.regs
  BY <1>1, <1>5 DEF Frame
<1> HIDE DEF g
<1>7. /\ fs \in [Context -> Frame]
      /\ fs[m.running].sysregs = g
      /\ \A c \in Context : /\ c # m.running => fs[c] = m.frames[c]
                            /\ fs[c].regs = m.frames[c].regs
  BY <1>1, <1>6
<1> HIDE DEF fs
<1>8. b \in Machines /\ b.frames = fs /\ b.cpu = m.cpu /\ b.running = next
  BY <1>1, <1>7, Zenon DEF Machines
<1> HIDE DEF b
<1>9. /\ k \in [Declared -> Value]
      /\ \A r \in RestoredSysregs : k[r] = m.frames[next].sysregs[r]
  BY <1>1, <1>2, <1>7, <1>8 DEF Frame
<1> HIDE DEF k
<1>10. n \in Machines /\ n.frames = fs /\ n.cpu = k /\ n.running = next
  BY <1>8, <1>9 DEF Machines
<1> HIDE DEF n
<1> QED
  BY <1>4, <1>5, <1>7, <1>9, <1>10

\* The trapped vCPU when its handler runs: its registers are in its context and
\* the system registers still on the core.
LEMMA Entered ==
    ASSUME ContextInv
    PROVE  LET b == Clobber(SAVE_GUEST_REGS(Machine))
           IN  /\ b \in Machines /\ b.running = running
               /\ \A r \in Declared \ Gprs : b.cpu[r] = Guest[r]
               /\ \A c \in Context : c # running => b.frames[c] = frames[c]
               /\ \A r \in GuestRegs : b.frames[running].regs[r] = Guest[r]
<1> DEFINE a == SAVE_GUEST_REGS(Machine)
           b == Clobber(a)
<1>1. running \in Context
  BY ContextAssumption DEF ContextInv, Context
<1>2. /\ Machine \in Machines
      /\ Machine.cpu = Guest /\ Machine.frames = frames /\ Machine.running = running
  <2>1. Guest \in [Declared -> Value] /\ frames \in [Context -> Frame]
    BY <1>1, GuestIsValue DEF ContextInv
  <2> QED
    BY <1>1, <2>1 DEF Machine, Machines
<1>3. /\ a \in Machines /\ a.running = running
      /\ \A r \in Declared \ Gprs : a.cpu[r] = Guest[r]
      /\ \A c \in Context : c # running => a.frames[c] = frames[c]
      /\ \A r \in GuestRegs : a.frames[running].regs[r] = Guest[r]
  BY <1>2, Saves
<1> HIDE DEF a
<1>4. /\ b \in Machines /\ b.frames = a.frames /\ b.running = running
      /\ \A r \in Declared \ Gprs : b.cpu[r] = Guest[r]
  BY <1>3, Clobbers
<1>5. Clobber(SAVE_GUEST_REGS(Machine)) = b
  BY ZenonT(40) DEF a
<1> HIDE DEF b
<1> QED
  BY <1>3, <1>4, <1>5

\* The same when the handler has changed the registers rs.
LEMMA Trapped ==
    ASSUME ContextInv, NEW rs \in SUBSET GuestRegs
    PROVE  LET s == Edit(Clobber(SAVE_GUEST_REGS(Machine)), rs)
           IN  /\ s \in Machines /\ s.running = running
               /\ \A r \in Declared \ Gprs : s.cpu[r] = Guest[r]
               /\ \A c \in Context : c # running => s.frames[c] = frames[c]
               /\ \A r \in GuestRegs : s.frames[running].regs[r] =
                     IF r \in rs THEN Edited(Guest[r]) ELSE Guest[r]
<1> DEFINE b == Clobber(SAVE_GUEST_REGS(Machine))
           s == Edit(b, rs)
<1>1. /\ b \in Machines /\ b.running = running
      /\ \A r \in Declared \ Gprs : b.cpu[r] = Guest[r]
      /\ \A c \in Context : c # running => b.frames[c] = frames[c]
      /\ \A r \in GuestRegs : b.frames[running].regs[r] = Guest[r]
  BY Entered, SMTT(40)
<1> HIDE DEF b
<1>2. /\ s \in Machines /\ s.cpu = b.cpu /\ s.running = b.running
      /\ \A c \in Context : c # b.running => s.frames[c] = b.frames[c]
      /\ \A r \in GuestRegs : s.frames[b.running].regs[r] =
            IF r \in rs THEN Edited(b.frames[b.running].regs[r]) ELSE b.frames[b.running].regs[r]
  BY <1>1, Edits
<1>3. Edit(Clobber(SAVE_GUEST_REGS(Machine)), rs) = s
  BY ZenonT(40) DEF b
<1> HIDE DEF s
<1> QED
  BY <1>1, <1>2, <1>3, SMTT(40)

\* A trap, with a switch or without: the vCPU that leaves the core is in its
\* context, the one that stays or comes finds its own registers.
LEMMA TrapStep ==
    ASSUME ContextInv, NEW rs \in SUBSET {"x0", "elr_el2"},
           NEW next \in owned \union {running}, Trap(rs, next)
    PROVE  ContextInv'
<1> DEFINE s == Edit(Clobber(SAVE_GUEST_REGS(Machine)), rs)
           t == vcpu_do_switch(s, next)
           u == RESTORE_GUEST_REGS(t)
           mine == [r \in Declared |-> IF r \in rs THEN Edited(Guest[r]) ELSE Guest[r]]
<1>1. /\ running \in 1 .. pooled /\ next \in 1 .. pooled /\ 1 .. pooled \subseteq Context
      /\ pooled \in NumOwned .. NumContexts
  BY ContextAssumption DEF ContextInv, Context
<1>2. /\ GuestRegs \subseteq Declared /\ RestoredSysregs \subseteq SavedSysregs
      /\ RestoredSysregs \subseteq Declared \ Gprs
      /\ rs \in SUBSET GuestRegs /\ rs \intersect RestoredSysregs = {}
  BY DEF Declared, GuestRegs, Gprs, Return, RestoredSysregs, SavedSysregs
<1>3. /\ cpu' = u.cpu /\ frames' = u.frames /\ running' = u.running
      /\ owned' = owned /\ pooled' = pooled
      /\ own' = [own EXCEPT ![running] = mine]
  BY DEF Trap, Becomes
<1>4. /\ s \in Machines /\ s.running = running
      /\ \A r \in Declared \ Gprs : s.cpu[r] = Guest[r]
      /\ \A c \in Context : c # running => s.frames[c] = frames[c]
      /\ \A r \in GuestRegs : s.frames[running].regs[r] =
            IF r \in rs THEN Edited(Guest[r]) ELSE Guest[r]
  BY <1>2, Trapped
<1> HIDE DEF s
<1>5. Guest \in [Declared -> Value] /\ mine \in [Declared -> Value]
  <2>1. Guest \in [Declared -> Value]
    BY <1>1, GuestIsValue DEF ContextInv
  <2> QED
    BY <2>1, ValuesAreValues
<1>6. /\ own' \in [Context -> [Declared -> Value]]
      /\ \A c \in Context : own'[c] = IF c = running THEN mine ELSE own[c]
  BY <1>1, <1>3, <1>5, SMTT(40) DEF ContextInv
<1>7. /\ \A r \in GuestRegs : s.frames[running].regs[r] = mine[r]
      /\ \A r \in RestoredSysregs : s.cpu[r] = mine[r]
  BY <1>2, <1>4, ZenonT(40)
<1> HIDE DEF mine
<1>8. /\ t \in Machines /\ t.running = next
      /\ \A c \in Context \ {running} : t.frames[c] = frames[c]
      /\ \A r \in GuestRegs : t.frames[running].regs[r] = mine[r]
      /\ next # running => \A r \in RestoredSysregs : /\ t.frames[running].sysregs[r] = mine[r]
                                                      /\ t.cpu[r] = frames[next].sysregs[r]
      /\ next = running => \A r \in RestoredSysregs : t.cpu[r] = mine[r]
  <2>1. CASE next = running
    <3>1. t = s
      BY <1>4, <2>1, SMTT(40) DEF vcpu_do_switch
    <3> QED
      BY <1>4, <1>7, <2>1, <3>1
  <2>2. CASE next # running
    <3>1. /\ t \in Machines /\ t.running = next
          /\ \A c \in Context : /\ c # s.running => t.frames[c] = s.frames[c]
                                /\ t.frames[c].regs = s.frames[c].regs
          /\ \A r \in SavedSysregs : t.frames[s.running].sysregs[r] = s.cpu[r]
          /\ \A r \in RestoredSysregs : t.cpu[r] = s.frames[next].sysregs[r]
      <4>1. next \in Context /\ next # s.running
        BY <1>1, <1>4, <2>2, SMTT(40)
      <4> QED
        BY <1>4, <4>1, Switches
    <3> HIDE DEF t
    <3> QED
      BY <1>1, <1>2, <1>4, <1>7, <2>2, <3>1, SMTT(40)
  <2> QED
    BY <2>1, <2>2
<1> HIDE DEF t
<1>9. /\ u \in Machines /\ u.frames = t.frames /\ u.running = next
      /\ \A r \in Declared : u.cpu[r] =
            IF r \in GuestRegs THEN t.frames[next].regs[r] ELSE t.cpu[r]
  BY <1>8, Restores
<1> HIDE DEF u
<1>10. cpu' \in [Declared -> Value] /\ frames' \in [Context -> Frame]
  BY <1>3, <1>9 DEF Machines
<1>11. next # running => InContext(next)
  BY <1>1 DEF ContextInv
<1>12. GuestKeepsRegisters'
  <2>1. ASSUME NEW r \in GuestRegs \union RestoredSysregs PROVE cpu'[r] = own'[next][r]
    BY <1>1, <1>2, <1>3, <1>6, <1>8, <1>9, <1>11 DEF InContext
  <2> QED
    BY <1>3, <1>9, <2>1, SMTT(40) DEF GuestKeepsRegisters
<1>13. ASSUME NEW c \in 1 .. pooled, c # next PROVE InContext(c)'
  <2>1. CASE c = running
    BY <1>1, <1>3, <1>6, <1>8, <1>9, <1>13, <2>1, SMTT(40) DEF InContext
  <2>2. CASE c # running
    <3>1. InContext(c) /\ frames'[c] = frames[c] /\ own'[c] = own[c]
      BY <1>1, <1>3, <1>6, <1>8, <1>9, <2>2, SMTT(40) DEF ContextInv
    <3> QED
      BY <3>1, SMTT(40) DEF InContext
  <2> QED
    BY <2>1, <2>2, SMTT(40)
<1>14. ASSUME NEW c \in pooled + 1 .. NumContexts PROVE own'[c] = Reset(c)
  <2>1. c \in Context /\ c # running
    BY <1>1, ContextAssumption, SMTT(40) DEF Context
  <2> QED
    BY <1>6, <2>1 DEF ContextInv
<1> QED
  BY <1>1, <1>3, <1>6, <1>9, <1>10, <1>12, <1>13, <1>14, Zenon DEF ContextInv

\* A failover in the middle of a call: the new entry of the pool starts from its
\* reset state, and the guest on the core, also when its own VM is the one that is
\* restarted, goes on with its registers.
LEMMA FailoverStep ==
    ASSUME ContextInv, NEW old \in Context, ContextFailover(old)
    PROVE  ContextInv'
<1>0. PICK new : new = pooled + 1
  OBVIOUS
<1> DEFINE m == Clobber(SAVE_GUEST_REGS(Machine))
           n == [m EXCEPT !.frames[new] = vcpu_init(new)]
           u == RESTORE_GUEST_REGS(n)
<1>1. /\ running \in 1 .. pooled /\ owned \subseteq 1 .. pooled /\ pooled \in Nat
      /\ new \in Context /\ new \notin 1 .. pooled /\ new # running /\ running \in Context
      /\ new \in NumOwned .. NumContexts /\ 1 .. pooled \subseteq 1 .. new /\ new \in 1 .. new
      /\ 1 .. new \subseteq Context
  BY <1>0, ContextAssumption DEF ContextInv, Context, ContextFailover
<1>2. /\ cpu' = u.cpu /\ frames' = u.frames /\ pooled' = new /\ running' = running
      /\ owned' = (owned \ {old}) \union {new} /\ old \in owned
      /\ own' = [own EXCEPT ![running] = Guest]
  BY <1>0, SMTT(40) DEF ContextFailover
<1>3. /\ m \in Machines /\ m.running = running
      /\ \A r \in Declared \ Gprs : m.cpu[r] = Guest[r]
      /\ \A c \in Context : c # running => m.frames[c] = frames[c]
      /\ \A r \in GuestRegs : m.frames[running].regs[r] = Guest[r]
  BY Entered
<1> HIDE DEF m
<1>4. /\ vcpu_init(new) \in Frame
      /\ \A r \in GuestRegs : vcpu_init(new).regs[r] = Written(new, 0)
      /\ \A r \in RestoredSysregs : vcpu_init(new).sysregs[r] = Written(new, 0)
  BY <1>1, ValuesAreValues DEF vcpu_init, Filled, Frame, SavedSysregs
<1>5. /\ n \in Machines /\ n.cpu = m.cpu /\ n.running = running
      /\ \A c \in Context : n.frames[c] = IF c = new THEN vcpu_init(new) ELSE m.frames[c]
  <2> DEFINE fs == [m.frames EXCEPT ![new] = vcpu_init(new)]
             k == [m EXCEPT !.frames = fs]
  <2>1. n = k
    BY <1>3, SMTT(40) DEF Machines
  <2>2. /\ fs \in [Context -> Frame]
        /\ \A c \in Context : fs[c] = IF c = new THEN vcpu_init(new) ELSE m.frames[c]
    BY <1>1, <1>3, <1>4 DEF Machines
  <2> HIDE DEF fs, n
  <2>3. k \in Machines /\ k.cpu = m.cpu /\ k.running = running /\ k.frames = fs
    BY <1>3, <2>2, SMTT(40) DEF Machines
  <2> QED
    BY <2>1, <2>2, <2>3
<1> HIDE DEF n
<1>6. /\ u \in Machines /\ u.frames = n.frames /\ u.running = running
      /\ \A r \in Declared : u.cpu[r] =
            IF r \in GuestRegs THEN n.frames[running].regs[r] ELSE n.cpu[r]
  BY <1>5, Restores, SMTT(40)
<1> HIDE DEF u
<1>7. cpu' \in [Declared -> Value] /\ frames' \in [Context -> Frame]
  BY <1>2, <1>6 DEF Machines
<1>8. /\ own' \in [Context -> [Declared -> Value]]
      /\ \A c \in Context : own'[c] = IF c = running THEN Guest ELSE own[c]
  <2>1. Guest \in [Declared -> Value]
    BY <1>1, GuestIsValue DEF ContextInv
  <2> QED
    BY <1>1, <1>2, <2>1 DEF ContextInv
<1>9. GuestKeepsRegisters'
  <2>1. GuestRegs \subseteq Declared /\ RestoredSysregs \subseteq Declared \ Gprs
    BY SMTT(40) DEF Declared, GuestRegs, Gprs, Return, RestoredSysregs, SavedSysregs
  <2>2. ASSUME NEW r \in GuestRegs \union RestoredSysregs PROVE cpu'[r] = own'[running][r]
    BY <1>1, <1>2, <1>3, <1>5, <1>6, <1>8, <2>1, SMTT(40)
  <2> QED
    BY <1>2, <2>2 DEF GuestKeepsRegisters
<1>10. InContext(new)'
  <2>1. own'[new] = Reset(new)
    <3>1. new \in pooled + 1 .. NumContexts
      BY <1>0, <1>1, ContextAssumption DEF Context
    <3> QED
      BY <1>1, <1>8, <3>1 DEF ContextInv
  <2>2. \A r \in GuestRegs \union RestoredSysregs : Reset(new)[r] = Written(new, 0)
    BY DEF Reset, Declared, SavedSysregs
  <2>3. frames'[new] = vcpu_init(new)
    BY <1>1, <1>2, <1>5, <1>6
  <2> QED
    BY <1>4, <2>1, <2>2, <2>3 DEF InContext
<1>11. ASSUME NEW c \in 1 .. new, c # running PROVE InContext(c)'
  <2>1. CASE c = new
    BY <1>10, <2>1
  <2>2. CASE c # new
    <3>1. c \in 1 .. pooled
      BY <1>0, <1>1, <2>2, SMTT(40)
    <3>2. InContext(c) /\ frames'[c] = frames[c] /\ own'[c] = own[c]
      BY <1>1, <1>2, <1>3, <1>5, <1>6, <1>8, <1>11, <2>2, <3>1, SMTT(40) DEF ContextInv
    <3> QED
      BY <3>2 DEF InContext
  <2> QED
    BY <2>1, <2>2
<1>12. ASSUME NEW c \in new + 1 .. NumContexts PROVE own'[c] = Reset(c)
  <2>1. c \in Context /\ c # running /\ c \in pooled + 1 .. NumContexts
    BY <1>0, <1>1, ContextAssumption DEF Context
  <2> QED
    BY <1>8, <2>1 DEF ContextInv
<1>13. Cardinality(owned') = NumOwned
  <2>1. IsFiniteSet(owned)
    <3>1. IsFiniteSet(1 .. pooled)
      BY <1>1, FS_Interval
    <3> QED
      BY <1>1, <3>1, FS_Subset, Zenon
  <2> DEFINE rest == owned \ {old}
  <2>2. IsFiniteSet(rest) /\ Cardinality(rest) = Cardinality(owned) - 1
    BY <1>2, <2>1, FS_RemoveElement
  <2>3. new \notin rest
    BY <1>1
  <2> HIDE DEF rest
  <2>4. Cardinality(rest \union {new}) = Cardinality(rest) + 1
    BY <2>2, <2>3, FS_AddElement
  <2>5. Cardinality(owned) = NumOwned /\ NumOwned \in Nat
    BY ContextAssumption DEF ContextInv
  <2> QED
    BY <1>2, <2>2, <2>4, <2>5 DEF rest
<1> QED
  BY <1>1, <1>2, <1>7, <1>8, <1>9, <1>11, <1>12, <1>13, Zenon DEF ContextInv

\* The launch of sched_run: the other vCPUs start from the reset state in their
\* contexts.
LEMMA ContextStarts == ContextInit => ContextInv
<1> SUFFICES ASSUME ContextInit PROVE ContextInv
  OBVIOUS
<1>1. /\ running \in 1 .. NumOwned /\ owned = 1 .. NumOwned /\ pooled = NumOwned
      /\ running \in Context /\ 1 .. NumOwned \subseteq Context
  BY ContextAssumption DEF ContextInit, Context
<1>2. cpu \in [Declared -> Value]
  BY <1>1, ValuesAreValues DEF ContextInit
<1>3. \A c \in Context : Reset(c) \in [Declared -> Value]
  BY ValuesAreValues DEF Reset
<1>4. /\ own \in [Context -> [Declared -> Value]]
      /\ \A c \in Context : own[c] = IF c = running THEN cpu ELSE Reset(c)
  BY <1>2, <1>3 DEF ContextInit
<1>5. \A v \in Value : Filled(v) \in Frame
  BY DEF Filled, Frame
<1>6. frames \in [Context -> Frame]
  <2>1. \A c \in Context : vcpu_init(c) \in Frame /\ Filled(Scratch) \in Frame
    BY <1>5, ValuesAreValues, SMTT(40) DEF vcpu_init
  <2> QED
    BY <2>1 DEF ContextInit
<1>7. ASSUME NEW c \in 1 .. pooled, c # running PROVE InContext(c)
  <2>1. c \in Context /\ frames[c] = vcpu_init(c) /\ own[c] = Reset(c)
    BY <1>1, <1>4, <1>7, ContextAssumption DEF ContextInit
  <2>2. \A r \in GuestRegs \union RestoredSysregs : Reset(c)[r] = Written(c, 0)
    BY DEF Reset, Declared, SavedSysregs
  <2>3. /\ \A r \in GuestRegs : vcpu_init(c).regs[r] = Written(c, 0)
        /\ \A r \in RestoredSysregs : vcpu_init(c).sysregs[r] = Written(c, 0)
    BY DEF vcpu_init, Filled, SavedSysregs
  <2> QED
    BY <2>1, <2>2, <2>3 DEF InContext
<1>8. ASSUME NEW c \in pooled + 1 .. NumContexts PROVE own[c] = Reset(c)
  <2>1. c \in Context /\ c # running
    BY <1>1, ContextAssumption DEF Context
  <2> QED
    BY <1>4, <2>1
<1>9. Cardinality(owned) = NumOwned
  BY <1>1, ContextAssumption, FS_Interval
<1>10. GuestKeepsRegisters
  BY <1>1, <1>4 DEF GuestKeepsRegisters
<1> QED
  BY <1>1, <1>2, <1>4, <1>6, <1>7, <1>8, <1>9, <1>10, ContextAssumption, SMTT(40) DEF ContextInv

\* Every trap, switch and failover keeps the register files apart.
THEOREM ContextInvHolds == ContextSpec => []ContextInv
<1>1. ContextInv /\ [ContextNext]_cvars => ContextInv'
  <2> SUFFICES ASSUME ContextInv, [ContextNext]_cvars PROVE ContextInv'
    OBVIOUS
  <2>1. ASSUME NEW next \in Context, Irq(next) PROVE ContextInv'
    BY <2>1, TrapStep DEF Irq
  <2>2. ASSUME NEW next \in Context, Wfi(next) PROVE ContextInv'
    BY <2>2, TrapStep DEF Wfi
  <2>3. ASSUME NEW read \in BOOLEAN, Emulated(read) PROVE ContextInv'
    BY <2>3, TrapStep DEF Emulated
  <2>4. CASE CallTrap
    BY <2>4, TrapStep DEF CallTrap
  <2>5. ASSUME NEW old \in Context, ContextFailover(old) PROVE ContextInv'
    BY <2>5, FailoverStep, SMTT(40)
  <2>6. CASE UNCHANGED cvars
    BY <2>6, SMTT(40) DEF cvars, ContextInv, InContext, GuestKeepsRegisters
  <2> QED
    BY <2>1, <2>2, <2>3, <2>4, <2>5, <2>6 DEF ContextNext
<1> QED
  BY <1>1, ContextStarts, PTL DEF ContextSpec

\* A guest on the core finds every register the code switches as it left it,
\* but for its handler's result and the instruction that was emulated, however
\* many vCPUs ran, trapped and were replaced in between (SAVE_GUEST_REGS,
\* vcpu_do_switch, RESTORE_GUEST_REGS).
THEOREM RegistersAreKept == ContextSpec => []GuestKeepsRegisters
<1>1. ContextInv => GuestKeepsRegisters
  BY DEF ContextInv
<1> QED
  BY <1>1, ContextInvHolds, PTL

\* The contexts are well formed; the tables never refer to an entry of the pool
\* that was not taken, nor twice to the same.
THEOREM ContextTypeCorrect == ContextSpec => []ContextTypeOK
<1>1. ContextInv => ContextTypeOK
  BY DEF ContextInv, ContextTypeOK, Frame
<1> QED
  BY <1>1, ContextInvHolds, PTL
=============================================================================
