------------------------------- MODULE VIrq -------------------------------
(***************************************************************************)
(* Virtual interrupts: the list registers and gic_handle_irq of            *)
(* drivers/gic/gicv3.c, the routing table of vre/irq/irq_router.c, the     *)
(* priority mask of vre/irq/vgic.c, the doorbell of guest/ipc/ipc.c and    *)
(* what a context switch saves of them (arch/arm64/context.S).             *)
(*                                                                         *)
(* A list register holds the virtual interrupt and two ghost fields: "to", *)
(* the VM on the core when it was injected, and "owner", the VM the source *)
(* of the interrupt belongs to.  Pending and active are one state: the     *)
(* register is occupied.  Every VM has one vCPU here.                      *)
(***************************************************************************)
EXTENDS Integers

CONSTANTS Guests,      \* ids of the VMs, Linux is 1
          NumLrs,      \* _num_lrs
          Routes       \* _routes: physical interrupt -> [vm_id, virq]

VARIABLES core,        \* the VM on the core
          lr,          \* ICH_LR0_EL2 ..
          saved,       \* sysregs.ich_lr0 of every vCPU
          vtimer,      \* per vCPU: CNTV_CTL_EL0 is enabled and not masked
          pmr,         \* per vCPU: vgic_cpu.icc_pmr
          uart         \* SPI 33 is enabled at the distributor

Linux == 1
VTIMER_PPI == 27
DOORBELL == 31
UART_SPI == 33
DefaultPriority == 160

\* Routes has the interrupts gic_handle_irq leaves to the router: SPI 33 is not
\* one of them, and platform_init gives every interrupt its own number.
ASSUME VIrqAssumption ==
    /\ Linux \in Guests
    /\ NumLrs \in Nat \ {0}
    /\ \A p \in DOMAIN Routes :
          Routes[p].vm_id \in Guests /\ Routes[p].virq \in Nat \ {0, UART_SPI}

Lr == 0..(NumLrs - 1)
Free == [virq |-> 0, to |-> 0, owner |-> 0]
Virqs == {VTIMER_PPI, DOORBELL, UART_SPI} \union {Routes[p].virq : p \in DOMAIN Routes}
LrValue == [virq : Virqs, to : Guests, owner : Guests] \union {Free}

virqvars == <<core, lr, saved, vtimer, pmr, uart>>

\* vcpu_init clears the context: nothing calls vgic_cpu_init or vgic_dist_init.
VIrqInit ==
    /\ core \in Guests
    /\ lr = [i \in Lr |-> Free]
    /\ saved = [g \in Guests |-> Free]
    /\ vtimer = [g \in Guests |-> FALSE]
    /\ pmr = [g \in Guests |-> 0]
    /\ uart = FALSE
---------------------------------------------------------------------------
\* An interrupt is passed when its priority is below the mask.
vgic_is_masked(g) == DefaultPriority >= pmr[g]

Virq(virq, owner) == [virq |-> virq, to |-> core, owner |-> owner]

gic_inject_virq(virq, owner) == [lr EXCEPT ![0] = Virq(virq, owner)]

FreeLrs == {i \in Lr : lr[i] = Free}

\* Without distributor state every interrupt is enabled, at DefaultPriority.
gic_inject_virq_lr(virq, owner) ==
    IF vgic_is_masked(core) THEN lr
    ELSE LET first == IF FreeLrs = {} THEN 0
                      ELSE CHOOSE i \in FreeLrs : \A j \in FreeLrs : i <= j
         IN  [lr EXCEPT ![first] = Virq(virq, owner)]
---------------------------------------------------------------------------
\* gic_handle_irq on PPI 27: mask the guest's timer and inject through LR0.
VirtualTimerIrq ==
    /\ vtimer[core]
    /\ vtimer' = [vtimer EXCEPT ![core] = FALSE]
    /\ lr' = gic_inject_virq(VTIMER_PPI, core)
    /\ UNCHANGED <<core, saved, pmr, uart>>

UartIrq ==
    /\ uart
    /\ lr' = gic_inject_virq_lr(UART_SPI, Linux)
    /\ uart' = FALSE
    /\ UNCHANGED <<core, saved, vtimer, pmr>>

\* irq_route_to_vm: the route's vm_id is only logged.
irq_route_to_vm(phys) ==
    /\ lr' = gic_inject_virq_lr(Routes[phys].virq, Routes[phys].vm_id)
    /\ UNCHANGED <<core, saved, vtimer, pmr, uart>>

\* ipc_notify by the VM on the core, for a destination that is RUNNING.
ipc_notify(dst) ==
    /\ lr' = gic_inject_virq_lr(DOORBELL, dst)
    /\ UNCHANGED <<core, saved, vtimer, pmr, uart>>

\* vgic_icc_trap where it takes the access for a write of ICC_PMR_EL1; how it
\* decodes the syndrome is left out.  Only whether the mask is above
\* DefaultPriority matters.
vgic_icc_trap(mask) ==
    /\ pmr' = [pmr EXCEPT ![core] = mask]
    /\ UNCHANGED <<core, lr, saved, vtimer, uart>>

\* Mutant: the UART interrupt is not disabled for other VMs.
Switch_no_uart_gate(g) ==
    /\ g # core
    /\ saved' = [saved EXCEPT ![core] = lr[0]]
    /\ lr' = [lr EXCEPT ![0] = saved[g]]
    /\ core' = g
    /\ uart' = (uart \/ g = Linux)
    /\ UNCHANGED <<vtimer, pmr>>

\* A context switch: vcpu_save_sysregs and vcpu_restore_sysregs exchange LR0,
\* gate_uart follows.
Switch(g) ==
    /\ g # core
    /\ saved' = [saved EXCEPT ![core] = lr[0]]
    /\ lr' = [lr EXCEPT ![0] = saved[g]]
    /\ core' = g
    /\ uart' = (g = Linux)
    /\ UNCHANGED <<vtimer, pmr>>

\* The guest arms its virtual timer, or takes and ends an interrupt.
ArmTimer ==
    /\ vtimer' = [vtimer EXCEPT ![core] = TRUE]
    /\ UNCHANGED <<core, lr, saved, pmr, uart>>

EndOfInterrupt(i) ==
    /\ lr[i] # Free
    /\ lr' = [lr EXCEPT ![i] = Free]
    /\ UNCHANGED <<core, saved, vtimer, pmr, uart>>

VIrqNext ==
    \/ VirtualTimerIrq
    \/ UartIrq
    \/ \E p \in DOMAIN Routes : irq_route_to_vm(p)
    \/ \E g \in Guests : ipc_notify(g) \/ Switch(g)
    \/ \E mask \in {0, 255} : vgic_icc_trap(mask)
    \/ ArmTimer
    \/ \E i \in Lr : EndOfInterrupt(i)

VIrqSpec == VIrqInit /\ [][VIrqNext]_virqvars
---------------------------------------------------------------------------
\* Registers and contexts are well formed.
VIrqTypeOK ==
    /\ core \in Guests
    /\ lr \in [Lr -> LrValue]
    /\ saved \in [Guests -> LrValue]
    /\ vtimer \in [Guests -> BOOLEAN]
    /\ pmr \in [Guests -> 0..255]
    /\ uart \in BOOLEAN

\* An interrupt reaches the VM it was injected for (vcpu_save_sysregs,
\* vcpu_restore_sysregs, gate_uart): what LR0 holds was injected while the VM that
\* now has the core, or owns the saved context, was on the core, and the UART
\* interrupt, in whichever register, while Linux was.  One that waits while its VM
\* has the core is overwritten only in LR0, by the guest's own timer or when no
\* register was free ("falls back to LR0", gicv3.c).
InterruptsStayWithVm ==
    /\ [](/\ lr[0].to \in {0, core}
          /\ \A g \in Guests : saved[g].to \in {0, g}
          /\ \A i \in Lr : lr[i].virq = UART_SPI => lr[i].to = Linux)
    /\ [][\A i \in Lr :
            lr[i] # Free /\ lr'[i] # Free /\ lr'[i] # lr[i] /\ core' = core =>
              i = 0 /\ (lr'[0].virq = VTIMER_PPI \/ FreeLrs = {})]_virqvars
===========================================================================
