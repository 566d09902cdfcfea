-------------------------------- MODULE Vm --------------------------------
(***************************************************************************)
(* Virtual machines, their vCPUs and their power state: core/vm/vm.c,      *)
(* core/vcpu/vcpu.c and vre/power/power.c.                                 *)
(*                                                                         *)
(* Every C function is an operator from the machine state to the machine   *)
(* state it leaves, so that a handler that calls several of them is their  *)
(* composition.  The hypervisor runs on one physical core and its handlers *)
(* run to completion with interrupts masked: a handler is one step.        *)
(*                                                                         *)
(* The variable hyp holds what the C files keep in static tables:          *)
(*   state, power, nvc   per VM: vm->state, _state[] of power.c, num_vcpus *)
(*   mapped              per VM: its memory regions are in its Stage-2     *)
(*   vcpus               per VM: vm->vcpus[], indices into the vCPU pool   *)
(*   pool, used          _vcpu_pool and _vcpu_idx, static in vm_finalize   *)
(*   vttbr               the VM whose tables VTTBR_EL2 points to           *)
(*   current             g_current_vcpu[0]                                 *)
(***************************************************************************)
EXTENDS Integers, FiniteSets

CONSTANTS NumVms,      \* VMs made by platform_init, ids 1..NumVms
          NumVcpus,    \* vCPUs vm_finalize gives to each VM
          MaxVcpu,     \* MAX_VCPU_PER_VM
          PoolSize     \* MAX_VMS * MAX_VCPU_PER_VM entries of _vcpu_pool

VARIABLE hyp

VMs == 1..NumVms
VcpuId == 0..(MaxVcpu - 1)
Pool == 1..PoolSize
NULL == 0

ASSUME VmAssumption ==
    /\ NumVms \in Nat \ {0}
    /\ MaxVcpu \in Nat \ {0}
    /\ PoolSize \in Nat \ {0}
    /\ NumVcpus \in [VMs -> 1..MaxVcpu]

VmState == {"READY", "RUNNING", "SUSPENDED", "STOPPED"}
VcpuState == {"IDLE", "READY", "RUNNING", "STOPPED"}
PowerState == {"ON", "GATED"}

\* What a vCPU context resumes into: nothing yet, the VM's own image, or the
\* entry of the backup image.
Entry == {"none", "boot", "backup"}
Vcpu == [vm : VMs \union {NULL}, state : VcpuState, entry : Entry]

Machine == [state : [VMs -> VmState],
            power : [VMs -> PowerState],
            nvc : [VMs -> 0..MaxVcpu],
            mapped : [VMs -> BOOLEAN],
            vcpus : [VMs -> [VcpuId -> Pool \union {NULL}]],
            pool : [Pool -> Vcpu],
            used : 0..PoolSize,
            vttbr : VMs,
            current : Pool]
---------------------------------------------------------------------------
\* The vCPUs vm->vcpus[0 .. num_vcpus-1] of a VM.
VcpusOf(h, v) == {h.vcpus[v][i] : i \in 0..(h.nvc[v] - 1)}

\* The VM of the vCPU on the core.
CurrentVm(h) == h.pool[h.current].vm

vcpu_init(v) == [vm |-> v, state |-> "READY", entry |-> "boot"]

vm_start(h, v) ==
    IF h.state[v] = "READY" THEN [h EXCEPT !.state[v] = "RUNNING"] ELSE h

\* Stops the vCPUs, clears the Stage-2 entries and flushes the TLB.  The flush
\* leaves VTTBR_EL2 pointing at the stopped VM.
vm_stop(h, v) ==
    IF h.state[v] = "STOPPED" THEN h
    ELSE [h EXCEPT !.pool = [c \in Pool |->
                               IF c \in VcpusOf(h, v)
                               THEN [h.pool[c] EXCEPT !.state = "STOPPED"]
                               ELSE h.pool[c]],
                   !.mapped[v] = FALSE,
                   !.vttbr = v,
                   !.state[v] = "STOPPED"]

power_gate_vm(h, v) == [h EXCEPT !.power[v] = "GATED"]

power_ungate_vm(h, v) == [h EXCEPT !.power[v] = "ON"]

\* Mutant: the clocks stay on.
vm_suspend_keeps_clocks(h, v) ==
    IF h.state[v] = "RUNNING" THEN [h EXCEPT !.state[v] = "SUSPENDED"] ELSE h

vm_suspend(h, v) ==
    IF h.state[v] = "RUNNING"
    THEN [power_gate_vm(h, v) EXCEPT !.state[v] = "SUSPENDED"]
    ELSE h

\* Mutant: the state check is inverted to "not RUNNING".
vm_resume_any_state(h, v) ==
    IF h.state[v] # "RUNNING"
    THEN [power_ungate_vm(h, v) EXCEPT !.state[v] = "RUNNING"] ELSE h

vm_resume(h, v) ==
    IF h.state[v] = "SUSPENDED"
    THEN [power_ungate_vm(h, v) EXCEPT !.state[v] = "RUNNING"]
    ELSE h

\* Mutant: the end of the pool is not checked.
Fresh_unbounded(h, v) == NumVcpus[v]

\* The pool only grows: a VM that is finalized again gets new entries, and when
\* the pool runs out vm_finalize returns E_NOMEM with fewer vCPUs and the state
\* unchanged.
Fresh(h, v) == IF NumVcpus[v] <= PoolSize - h.used
               THEN NumVcpus[v] ELSE PoolSize - h.used

\* Mutant: the pool index starts again at 0 on every call.
vm_finalize_reuses_pool(h, v) ==
    LET n == NumVcpus[v]
    IN  [h EXCEPT !.mapped[v] = TRUE,
                  !.nvc[v] = n,
                  !.vcpus[v] = [i \in VcpuId |-> IF i < n THEN 1 + i ELSE @[i]],
                  !.pool = [c \in Pool |-> IF c \in 1..n THEN vcpu_init(v) ELSE @[c]],
                  !.state[v] = "READY"]

vm_finalize(h, v) ==
    LET n == Fresh(h, v)
    IN  [h EXCEPT !.mapped[v] = TRUE,
                  !.nvc[v] = n,
                  !.vcpus[v] = [i \in VcpuId |-> IF i < n THEN h.used + 1 + i
                                                          ELSE h.vcpus[v][i]],
                  !.pool = [c \in Pool |->
                              IF c \in (h.used + 1)..(h.used + n)
                              THEN vcpu_init(v) ELSE h.pool[c]],
                  !.used = h.used + n,
                  !.state[v] = IF n = NumVcpus[v] THEN "READY" ELSE @]

\* Step 3 of _do_failover: the primary vCPU starts at the backup image.
vcpu_set_entry(h, v) ==
    IF h.nvc[v] > 0 /\ h.vcpus[v][0] # NULL
    THEN [h EXCEPT !.pool[h.vcpus[v][0]].entry = "backup"]
    ELSE h

\* Mutant: step 3, the backup entry, is left out.
vm_restart_same_entry(h, v) ==
    LET f == vm_finalize(vm_stop(h, v), v)
    IN  IF f.state[v] # "READY" THEN f ELSE vm_start(f, v)

\* Steps 1 to 4 of _do_failover.  A vm_finalize that fails ends the restart.
vm_restart(h, v) ==
    LET f == vm_finalize(vm_stop(h, v), v)
    IN  IF f.state[v] # "READY" THEN f ELSE vm_start(vcpu_set_entry(f, v), v)

\* Mutant: the state of the vCPU that leaves is not updated.
vcpu_do_switch_leaves_running(h, next) ==
    [h EXCEPT !.pool[next].state = "RUNNING",
              !.vttbr = h.pool[next].vm,
              !.current = next]

\* VTTBR_EL2, the vCPU states and g_current_vcpu[0] move together; the vCPU
\* that leaves becomes READY whatever it was.
vcpu_do_switch(h, next) ==
    [h EXCEPT !.pool[h.current].state = "READY",
              !.pool[next].state = "RUNNING",
              !.vttbr = h.pool[next].vm,
              !.current = next]
===========================================================================
