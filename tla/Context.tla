------------------------------ MODULE Context ------------------------------
(***************************************************************************)
(* Registers across traps and context switches: SAVE_GUEST_REGS,           *)
(* RESTORE_GUEST_REGS and the vectors of arch/arm64/entry.S,               *)
(* vcpu_save_sysregs and vcpu_restore_sysregs of arch/arm64/context.S,     *)
(* vcpu_init and vcpu_do_switch of core/vcpu/vcpu.c, the handlers of       *)
(* boot/main.c that reach them and the launch of sched_run.                *)
(*                                                                         *)
(* Registers the macros treat alike are one register here.  A value says   *)
(* which vCPU wrote it, in which of its runs, and how often a handler has  *)
(* changed it since: a result in x0, an instruction stepped over in        *)
(* ELR_EL2.  The list registers are in VIrq and the counters in Pmu.  A    *)
(* vector that leads to _spin_forever ends the behaviour.                  *)
(*                                                                         *)
(* own is the specification: the register file each vCPU should find when  *)
(* it is back on the core.                                                 *)
(***************************************************************************)
EXTENDS Integers, FiniteSets

CONSTANTS NumContexts,   \* entries of _vcpu_pool
          NumOwned,      \* vCPUs the VMs have at boot
          Runs           \* a guest's runs are told apart modulo this number

VARIABLES cpu,      \* the registers of the core
          frames,   \* regs and sysregs of every entry of the pool
          running,  \* g_current_vcpu[0]
          owned,    \* the entries the vcpus[] tables refer to
          pooled,   \* _vcpu_idx
          own

ASSUME ContextAssumption ==
    /\ NumOwned \in Nat \ {0} /\ NumContexts \in Nat /\ NumContexts >= NumOwned
    /\ Runs \in Nat \ {0, 1}

cvars == <<cpu, frames, running, owned, pooled, own>>

Context == 1 .. NumContexts

Gprs == {"x0", "x1_x13", "x14_x15", "x16_x17", "x18_x30"}
Return == {"sp_el1", "elr_el2", "spsr_el2"}
GuestRegs == Gprs \union Return

\* What vcpu_restore_sysregs writes: control, translation, thread and exception
\* return registers of EL1; its stack; the virtual timer.
RestoredSysregs == {"el1", "sp_el1", "timer"}

\* What vcpu_save_sysregs reads: esr_el1 and far_el1 too.
SavedSysregs == RestoredSysregs \union {"esr_far"}

\* el1_sysregs_t has a field for par_el1; sp_el0 is what guest_regs_t says that
\* its sp is.
Declared == GuestRegs \union SavedSysregs \union {"par_el1", "sp_el0"}

Value == [by : Context \union {0}, run : 0 .. Runs - 1, edits : 0 .. 1]

Written(c, n) == [by |-> c, run |-> n, edits |-> 0]

\* What EL2 code leaves in a register.
Scratch == Written(0, 0)

\* The handler changes a register in the saved context (counted modulo 2).
Edited(v) == [v EXCEPT !.edits = 1 - @]

Filled(v) == [regs |-> [r \in GuestRegs |-> v], sysregs |-> [r \in SavedSysregs |-> v]]

\* The reset state of a vCPU is its own.
vcpu_init(c) == Filled(Written(c, 0))
---------------------------------------------------------------------------
\* The registers when the guest traps: it has written all since it was entered.
Guest == [r \in Declared |-> Written(running, (cpu["spsr_el2"].run + 1) % Runs)]

\* A step works on m, a record of cpu, frames and running.
Machine == [cpu |-> Guest, frames |-> frames, running |-> running]

Store(m, rs) ==
    [m EXCEPT !.frames[m.running].regs = [r \in GuestRegs |-> IF r \in rs THEN m.cpu[r] ELSE @[r]]]

Load(m, rs) ==
    [m EXCEPT !.cpu = [r \in Declared |->
        IF r \in rs THEN m.frames[m.running].regs[r] ELSE @[r]]]

\* Mutant: x16 and x17 are stored as they are after the vCPU was looked up.
SAVE_GUEST_REGS_pointer(m) == Store([m EXCEPT !.cpu["x16_x17"] = Scratch], GuestRegs)

\* x16 and x17 are needed to find the vCPU and go over the stack, and from
\* there through x14 and x15, which have been stored by then.
SAVE_GUEST_REGS(m) ==
    LET stack == m.cpu["x16_x17"]
        a == Store([m EXCEPT !.cpu["x16_x17"] = Scratch], {"x0", "x1_x13", "x14_x15"})
        b == [a EXCEPT !.cpu["x14_x15"] = stack,
                       !.frames[m.running].regs["x16_x17"] = stack]
    IN  Store(b, {"x18_x30"} \union Return)

\* The handler, a C function, is free to use every general register.
Clobber(m) == [m EXCEPT !.cpu = [r \in Declared |-> IF r \in Gprs THEN Scratch ELSE @[r]]]

\* x16 holds the vCPU until the last load.
RESTORE_GUEST_REGS(m) == Load(Load(m, GuestRegs \ {"x16_x17"}), {"x16_x17"})

vcpu_restore_sysregs(m) ==
    [m EXCEPT !.cpu = [r \in Declared |->
        IF r \in RestoredSysregs THEN m.frames[m.running].sysregs[r] ELSE @[r]]]

vcpu_save_sysregs(m) ==
    [m EXCEPT !.frames[m.running].sysregs = [r \in SavedSysregs |-> m.cpu[r]]]

\* do_switch: nothing to do when the vCPU stays.
vcpu_do_switch(m, next) ==
    IF next = m.running THEN m
    ELSE vcpu_restore_sysregs([vcpu_save_sysregs(m) EXCEPT !.running = next])

Edit(m, rs) ==
    [m EXCEPT !.frames[m.running].regs =
        [r \in GuestRegs |-> IF r \in rs THEN Edited(@[r]) ELSE @[r]]]

\* own at the first run: the registers without a place in the context are free.
Reset(c) ==
    [r \in Declared |-> IF r \in GuestRegs \union RestoredSysregs THEN Written(c, 0) ELSE Scratch]

Becomes(m) ==
    /\ cpu' = m.cpu /\ frames' = m.frames /\ running' = m.running
    /\ UNCHANGED <<owned, pooled>>
---------------------------------------------------------------------------
\* The launch of sched_run: the guest's system registers, x0 and the return state
\* are loaded, the other general registers hold what EL2 left there.
ContextInit ==
    /\ running \in 1 .. NumOwned
    /\ frames = [c \in Context |-> IF c <= NumOwned THEN vcpu_init(c) ELSE Filled(Scratch)]
    /\ cpu = [r \in Declared |->
                IF r \in {"x0"} \union Return \union RestoredSysregs
                THEN Written(running, 0) ELSE Scratch]
    /\ owned = 1 .. NumOwned /\ pooled = NumOwned
    /\ own = [c \in Context |-> IF c = running THEN cpu ELSE Reset(c)]

\* The guest runs and traps; the handler changes the saved registers rs, the
\* scheduler picks next, and the step ends with the eret to it.
Trap(rs, next) ==
    /\ LET saved == Edit(Clobber(SAVE_GUEST_REGS(Machine)), rs)
       IN  Becomes(RESTORE_GUEST_REGS(vcpu_do_switch(saved, next)))
    /\ own' = [own EXCEPT ![running] =
                 [r \in Declared |-> IF r \in rs THEN Edited(Guest[r]) ELSE Guest[r]]]

\* _guest64_irq: the timer's interrupt may switch, another one does not.
Irq(next) == next \in owned \union {running} /\ Trap({}, next)

\* sched_on_wfi steps over the instruction before it switches.
Wfi(next) == next \in owned \union {running} /\ Trap({"elr_el2"}, next)

\* An abort or a trapped register is stepped over; a read of it returns a value.
Emulated(read) == Trap({"elr_el2"} \union (IF read THEN {"x0"} ELSE {}), running)

\* A hypercall, a PSCI call or a read in the MMIO window: a result, no step.
CallTrap == Trap({"x0"}, running)

\* A call in which the VM of the entry old is restarted: vm_finalize takes the
\* next entry of the pool, the core stays with the old one until a switch.
ContextFailover(old) ==
    /\ old \in owned /\ pooled < NumContexts
    /\ LET m == Clobber(SAVE_GUEST_REGS(Machine))
           r == RESTORE_GUEST_REGS([m EXCEPT !.frames[pooled + 1] = vcpu_init(pooled + 1)])
       IN  cpu' = r.cpu /\ frames' = r.frames
    /\ pooled' = pooled + 1
    /\ owned' = (owned \ {old}) \union {pooled + 1}
    /\ own' = [own EXCEPT ![running] = Guest]
    /\ UNCHANGED running

ContextNext ==
    \/ \E next \in Context : Irq(next) \/ Wfi(next)
    \/ \E read \in BOOLEAN : Emulated(read)
    \/ CallTrap
    \/ \E old \in Context : ContextFailover(old)

ContextSpec == ContextInit /\ [][ContextNext]_cvars
---------------------------------------------------------------------------
\* Registers and contexts hold values; the core runs an entry that was made.
ContextTypeOK ==
    /\ cpu \in [Declared -> Value]
    /\ \A c \in Context : /\ frames[c].regs \in [GuestRegs -> Value]
                          /\ frames[c].sysregs \in [SavedSysregs -> Value]
    /\ running \in 1 .. pooled /\ owned \subseteq 1 .. pooled
    /\ Cardinality(owned) = NumOwned

\* A guest on the core finds every register the code switches as it left it, but
\* for the result of its hypercall and the instruction that was emulated, whatever
\* other guests ran and trapped in between; a vCPU that a failover made starts
\* from its entry and never with what the vCPU it replaces left behind
\* (SAVE_GUEST_REGS, RESTORE_GUEST_REGS, vcpu_do_switch).
GuestKeepsRegisters ==
    \A r \in GuestRegs \union RestoredSysregs : cpu[r] = own[running][r]

\* The same for every register a vCPU's context has a field for: guest_regs_t,
\* whose sp is "Saved from SP_EL0 during exception entry" (hyp_regs.h), and
\* el1_sysregs_t, in a switch that vcpu.c calls full.
ContextIsComplete == \A r \in Declared : own[running][r] \in {cpu[r], Scratch}
===========================================================================
