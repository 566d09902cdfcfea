------------------------------ MODULE Devices ------------------------------
(***************************************************************************)
(* Devices: the SMMU (vre/dma/smmu.c), the MMIO trap table                 *)
(* (vre/device/mmio_trap.c), the PCIe manager (vre/bus/pcie.c), the device *)
(* profile (boot/device_profile.c) that fills them, the order in which     *)
(* boot/platform_init.c does so, and the data aborts of core/fault/fault.c *)
(* that reach them.                                                        *)
(*                                                                         *)
(* Guest addresses are the pages the profile and the handlers tell apart.  *)
(* The scheduler moves the core between VMs and, although the comment of   *)
(* mmio_set_current_vm expects it, never calls that function.              *)
(***************************************************************************)
EXTENDS Naturals, Sequences, FiniteSets

CONSTANTS Polls,          \* attempts smmu_init makes
          PollModulus,    \* its counter is u32
          MaxStreams,     \* MAX_STREAMS
          MaxRegions,     \* MAX_MMIO_REGIONS
          MaxMem          \* MAX_MEM_REGIONS

VARIABLES smmuHw,         \* [base, acks]: reads of CR0ACK that fail before one succeeds
          _smmu_present,
          ste,            \* _ste_table: [valid, vmid, s2] of every stream
          _regs,          \* the MMIO regions, in order
          _assignments,   \* PCIe functions given to VMs
          mem,            \* profile entries of every VM's mem[]
          state,          \* per VM: "created", "running" or "stopped"
          bootStep,       \* where platform_init is
          devCore,         \* the VM on the core
          abort           \* the last data abort: [vm, page, answer, charged, advanced]

devvars == <<smmuHw, _smmu_present, ste, _regs, _assignments, mem, state,
             bootStep, devCore, abort>>

DevVms == 1..3
Never == Polls + 1
Streams == 0..(MaxStreams - 1)

\* Pages of the guest address space in ascending order.
PageOrder == <<"low", "gicd", "gicr", "uart", "obd", "mbox1", "mbox2", "mbox3", "mid", "ecam">>
Pages == {PageOrder[i] : i \in DOMAIN PageOrder}

Entry(vm, ipa, io) == [vm_id |-> vm, ipa |-> ipa, io |-> io, stream_id |-> 0]

\* The pages an entry covers.  The RAM of the RTOS and of Android begins at 0 and
\* runs past the devices, Linux's upper RAM covers the ECAM window.  Entries of
\* one VM may overlap: the tables are built in this order, the last one counts.
_profile ==
    << Entry(1, {"low"}, FALSE), Entry(1, {"mid", "ecam"}, FALSE),
       Entry(1, {"uart"}, TRUE), Entry(1, {"gicd"}, TRUE), Entry(1, {"gicr"}, TRUE),
       Entry(2, {"low", "gicd", "gicr", "uart", "obd", "mbox1", "mbox2", "mbox3"}, FALSE),
       Entry(2, {"uart"}, TRUE), Entry(1, {"obd"}, FALSE),
       Entry(3, {"low", "gicd", "gicr", "uart", "obd", "mbox1", "mbox2", "mbox3", "mid"}, FALSE),
       Entry(3, {"uart"}, TRUE),
       Entry(1, {"mbox1"}, TRUE), Entry(2, {"mbox2"}, TRUE), Entry(3, {"mbox3"}, TRUE) >>

Rows(v) == {i \in DOMAIN _profile : _profile[i].vm_id = v}

ASSUME DevicesAssumption ==
    /\ {Polls, PollModulus, MaxRegions} \subseteq Nat \ {0}
    /\ PollModulus > Polls
    /\ MaxStreams >= Cardinality(DevVms)
    /\ \A v \in DevVms : Cardinality(Rows(v)) <= MaxMem

NoSte == [valid |-> FALSE, vmid |-> 0, s2 |-> 0]
NoAbort == [vm |-> 0, page |-> "low", answer |-> "none", charged |-> 0, advanced |-> FALSE]

DevicesInit ==
    /\ smmuHw \in [base : {0, 1}, acks : 0..Never]
    /\ _smmu_present = FALSE
    /\ ste = [s \in Streams |-> NoSte]
    /\ _regs = << >> /\ _assignments = << >>
    /\ mem = [v \in DevVms |-> {}]
    /\ state = [v \in DevVms |-> "none"]
    /\ bootStep = "smmu" /\ devCore = 0 /\ abort = NoAbort
---------------------------------------------------------------------------
\* The counter after the loop: it ends when a read succeeds, or when the counter
\* tested is 0, which the decrement then takes below 0.
timeout ==
    LET left[i \in 0..Polls] ==
            IF i >= smmuHw.acks THEN Polls - i
            ELSE IF i = Polls THEN PollModulus - 1 ELSE left[i + 1]
    IN  left[0]

smmu_init == smmuHw.base # 0 /\ timeout # 0

\* The VMIDs and the roots s2_create gives out are numbered as the VMs are.
smmu_assign_stream(sid, v) ==
    IF sid \in Streams /\ _smmu_present
    THEN [ste EXCEPT ![sid] = [valid |-> TRUE, vmid |-> v, s2 |-> v]] ELSE ste

\* mmio_register (owner 0) and mmio_register_vm_device: E_NOMEM changes nothing.
Register(regs, r) == IF Len(regs) >= MaxRegions THEN regs ELSE Append(regs, r)

\* The shared devices are not registered.
Exclusive(e) == e.io /\ e.ipa \intersect {"uart", "gicd", "gicr"} = {}

RegisterAll[i \in 0..Len(_profile)] ==
    IF i = 0 THEN _regs
    ELSE LET e == _profile[i]
         IN  IF Exclusive(e)
             THEN Register(RegisterAll[i - 1], [pages |-> e.ipa, owner |-> e.vm_id, fn |-> "none"])
             ELSE RegisterAll[i - 1]
---------------------------------------------------------------------------
\* platform_init, one step per part of it.
SmmuInit ==
    /\ bootStep = "smmu"
    /\ _smmu_present' = smmu_init
    /\ bootStep' = "pcie"
    /\ UNCHANGED <<smmuHw, ste, _regs, _assignments, mem, state, devCore, abort>>

\* pcie_init, and pcie_assign_vm(1, 0xFF, 0, 0).  The VMs are created next.
PcieInit ==
    /\ bootStep = "pcie"
    /\ _regs' = Register(_regs, [pages |-> {"ecam"}, owner |-> 0, fn |-> "ecam"])
    /\ _assignments' = Append(_assignments, [vm_id |-> 1, bus |-> 255])
    /\ state' = [v \in DevVms |-> "created"]
    /\ bootStep' = "profile"
    /\ UNCHANGED <<smmuHw, _smmu_present, ste, mem, devCore, abort>>

\* No entry of the table has a stream.  vm_add_mem finds nothing mapped yet.
device_profile_init ==
    /\ bootStep = "profile"
    /\ mem' = [v \in DevVms |-> Rows(v)]
    /\ _regs' = RegisterAll[Len(_profile)]
    /\ bootStep' = "start"
    /\ UNCHANGED <<smmuHw, _smmu_present, ste, _assignments, state, devCore, abort>>

StreamOf(v) == v - 1

\* vm_finalize, vm_start and the VM's stream, in the order of the ids.
StartVm(v) ==
    /\ bootStep = "start"
    /\ state[v] = "created" /\ \A w \in DevVms : w < v => state[w] = "running"
    /\ state' = [state EXCEPT ![v] = "running"]
    /\ ste' = smmu_assign_stream(StreamOf(v), v)
    /\ bootStep' = IF v = 3 THEN "run" ELSE "start"
    /\ devCore' = IF v = 3 THEN 1 ELSE 0
    /\ UNCHANGED <<smmuHw, _smmu_present, _regs, _assignments, mem, abort>>
---------------------------------------------------------------------------
\* The pages the tables of a VM translate: vm_stop unmaps every region.
Translated(v) == IF state[v] = "running" THEN UNION {_profile[i].ipa : i \in mem[v]} ELSE {}

\* _current_vm_id: nothing sets it.
mmio_get_current_vm == 0

\* Bus 0xFF stands for every bus.
pcie_vm_owns_bdf(v, bus) ==
    \E i \in DOMAIN _assignments : /\ _assignments[i].vm_id = v
                                   /\ _assignments[i].bus \in {255, bus}

pcie_ecam_emulate(bus) == IF pcie_vm_owns_bdf(mmio_get_current_vm, bus) THEN "config" ELSE "ones"

\* What a read finds: the first region that covers the page answers.
mmio_handle(page) ==
    LET hits == {i \in DOMAIN _regs : page \in _regs[i].pages}
        r == _regs[CHOOSE i \in hits : \A j \in hits : i <= j]
    IN  IF hits = {} THEN "none"
        ELSE IF r.owner \notin {0, mmio_get_current_vm} THEN "zero"
        ELSE IF r.fn = "ecam" THEN pcie_ecam_emulate(0) ELSE "none"

\* Mutant: translation faults go to the MMIO engine, as the code that is
\* commented out in fault_dabt did.
fault_dabt_all(page, translation) ==
    IF translation \/ page \in {"gicd", "gicr"}
    THEN [vm |-> devCore, page |-> page, answer |-> mmio_handle(page), charged |-> 0, advanced |-> FALSE]
    ELSE [vm |-> devCore, page |-> page, answer |-> "none", charged |-> devCore, advanced |-> TRUE]

\* Addresses 0x08xxxxxx go to the MMIO engine; anything else is reported, and
\* stepped over unless it is a translation fault.
fault_dabt(page, translation) ==
    IF page \in {"gicd", "gicr"}
    THEN [vm |-> devCore, page |-> page, answer |-> mmio_handle(page), charged |-> 0, advanced |-> FALSE]
    ELSE [vm |-> devCore, page |-> page, answer |-> "none", charged |-> devCore, advanced |-> ~translation]

\* The guest on the core touches a page that is not translated, or a device page
\* whose access fails on the bus.
Dabt(page, translation) ==
    /\ bootStep = "run"
    /\ translation <=> page \notin Translated(devCore)
    /\ abort' = fault_dabt(page, translation)
    /\ UNCHANGED <<smmuHw, _smmu_present, ste, _regs, _assignments, mem, state, bootStep, devCore>>

\* The scheduler dispatches another VM.
Dispatch(v) ==
    /\ bootStep = "run" /\ state[v] = "running" /\ v # devCore
    /\ devCore' = v
    /\ UNCHANGED <<smmuHw, _smmu_present, ste, _regs, _assignments, mem, state, bootStep, abort>>

\* vm_stop and the restart of a failover leave the stream tables, the mem[] list
\* and the MMIO table as they are.
StopOrRestart(v) ==
    /\ bootStep = "run"
    /\ state' = [state EXCEPT ![v] = IF @ = "running" THEN "stopped" ELSE "running"]
    /\ UNCHANGED <<smmuHw, _smmu_present, ste, _regs, _assignments, mem, bootStep, devCore, abort>>

DevicesNext ==
    \/ SmmuInit \/ PcieInit \/ device_profile_init
    \/ \E v \in DevVms : StartVm(v) \/ Dispatch(v) \/ StopOrRestart(v)
    \/ \E page \in Pages, translation \in BOOLEAN : Dabt(page, translation)

DevicesSpec == DevicesInit /\ [][DevicesNext]_devvars
---------------------------------------------------------------------------
\* A valid stream goes through the tables of one VM under its VMID, and no two
\* streams share them, whatever VMs are stopped and restarted
\* (smmu_assign_stream, platform_init).
StreamsOwned ==
    \A s \in Streams : ste[s].valid => ste[s].vmid = s + 1 /\ ste[s].s2 = s + 1

\* The MMIO table never exceeds MAX_MMIO_REGIONS, although device_profile_init
\* does not look at the result of the registration.
DevicesTypeOK ==
    /\ smmuHw \in [base : {0, 1}, acks : 0..Never] /\ _smmu_present \in BOOLEAN
    /\ ste \in [Streams -> [valid : BOOLEAN, vmid : 0..3, s2 : 0..3]]
    /\ StreamsOwned
    /\ Len(_regs) <= MaxRegions /\ Len(_assignments) <= 1
    /\ mem \in [DevVms -> SUBSET DOMAIN _profile]
    /\ state \in [DevVms -> {"none", "created", "running", "stopped"}]
    /\ bootStep \in {"smmu", "pcie", "profile", "start", "run"} /\ devCore \in 0..3
    /\ abort \in [vm : 0..3, page : Pages, answer : {"none", "zero", "ones", "config"},
                  charged : 0..3, advanced : BOOLEAN]

\* A VM that touches a page the profile makes another VM's own device is charged
\* with a fault, and gets no answer from the device's region (fault_dabt,
\* mmio_handle): the charge goes to the VM on the core.
ForeignAccessCharged ==
    \A i \in DOMAIN _profile :
        /\ Exclusive(_profile[i])
        /\ abort.page \in _profile[i].ipa
        /\ abort.vm \notin {0, _profile[i].vm_id}
        => abort.charged = abort.vm /\ abort.answer = "none"

\* smmu.c, lines 6 to 9: hardware that is absent never acknowledges, smmu_init
\* "detects this, logs a warning, and sets _smmu_present=false".
AbsentDetected ==
    bootStep # "smmu" /\ smmuHw.acks = Never => ~_smmu_present
===========================================================================
