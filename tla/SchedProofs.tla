---------------------------- MODULE SchedProofs ----------------------------
(***************************************************************************)
(* Proofs about Sched, for any number of VMs, vCPUs, slots and pool        *)
(* entries.  The inductive invariant is a predicate of a machine state, so *)
(* that one lemma per C function serves every handler that calls it.       *)
(***************************************************************************)
EXTENDS Sched, NatLemmas, TLAPS

\* The vCPUs of a VM were taken from the used part of the pool, for that VM,
\* and no two of its places share one.
Allocated(h) ==
    \A v \in VMs : \A i \in VcpuId : i < h.nvc[v] =>
      /\ h.vcpus[v][i] \in 1..h.used
      /\ h.pool[h.vcpus[v][i]].vm = v
      /\ \A j \in VcpuId : j < h.nvc[v] /\ h.vcpus[v][i] = h.vcpus[v][j] => i = j

\* The vCPU on the core was taken from the pool, perhaps for a VM that has
\* replaced it since.
CurrentUsed(h) == h.current \in 1..h.used /\ h.pool[h.current].vm \in VMs

OnlyCurrentRuns(h) == \A c \in Pool : h.pool[c].state = "RUNNING" => c = h.current

\* Resuming a suspended VM checks nothing but its state, so that what a RUNNING
\* VM needs must hold of every VM that is not STOPPED.
Resumable(h) ==
    \A v \in VMs : h.state[v] # "STOPPED" =>
      /\ h.mapped[v]
      /\ \A i \in VcpuId : i < h.nvc[v] => h.pool[h.vcpus[v][i]].state # "STOPPED"

HypInv(h) ==
    h \in Machine /\ Allocated(h) /\ CurrentUsed(h) /\ OnlyCurrentRuns(h) /\ Resumable(h)
---------------------------------------------------------------------------
\* The searches of the scheduler stop at a slot of the set they search.
LEMMA FirstAfterIn ==
    ASSUME NEW S \in SUBSET Slot, S # {}, NEW from \in Slot
    PROVE  FirstAfter(S, from) \in S
<1> DEFINE D == {Dist(from, k) : k \in S}
<1>1. \A k \in S : Dist(from, k) \in Nat
  BY SchedAssumption, VmAssumption DEF Dist, Slot
<1>2. PICK d \in D : \A e \in D : d <= e
  <2>1. D \subseteq Nat /\ D # {}
    BY <1>1
  <2> QED
    BY <2>1, NatMin, Zenon
<1>3. PICK k \in S : d = Dist(from, k)
  BY <1>2
<1>4. \A j \in S : Dist(from, k) <= Dist(from, j)
  BY <1>2, <1>3
<1> QED
  BY <1>4 DEF FirstAfter
---------------------------------------------------------------------------
\* The fields of a machine state, one by one.
LEMMA Fields ==
    ASSUME NEW h \in Machine
    PROVE  /\ h.state \in [VMs -> VmState]
           /\ h.power \in [VMs -> PowerState]
           /\ h.nvc \in [VMs -> 0..MaxVcpu]
           /\ h.mapped \in [VMs -> BOOLEAN]
           /\ h.vcpus \in [VMs -> [VcpuId -> Pool \union {NULL}]]
           /\ h.pool \in [Pool -> Vcpu]
           /\ h.used \in 0..PoolSize
           /\ h.vttbr \in VMs
           /\ h.current \in Pool
BY DEF Machine

\* Places in use hold pool entries made for the VM.
LEMMA Place ==
    ASSUME NEW h, HypInv(h), NEW v \in VMs, NEW i \in VcpuId, i < h.nvc[v]
    PROVE  /\ h.vcpus[v][i] \in Pool
           /\ h.vcpus[v][i] \in 1..h.used
           /\ h.pool[h.vcpus[v][i]].vm = v
<1>1. h.vcpus[v][i] \in 1..h.used /\ h.pool[h.vcpus[v][i]].vm = v
  BY DEF HypInv, Allocated
<1>2. h.used \in 0..PoolSize
  BY Fields DEF HypInv
<1> QED
  BY <1>1, <1>2, VmAssumption DEF Pool

\* The members of VcpusOf are the places in use.
LEMMA VcpusOfPlaces ==
    ASSUME NEW h, HypInv(h), NEW v \in VMs
    PROVE  VcpusOf(h, v) = {h.vcpus[v][i] : i \in {j \in VcpuId : j < h.nvc[v]}}
<1>1. h.nvc[v] \in 0..MaxVcpu
  BY Fields DEF HypInv
<1>2. 0..(h.nvc[v] - 1) = {j \in VcpuId : j < h.nvc[v]}
  BY <1>1, VmAssumption DEF VcpuId
<1> QED
  BY <1>2 DEF VcpusOf

\* vm_stop keeps the invariant: the vCPUs it stops belong to no other VM.
LEMMA StopInv ==
    ASSUME NEW h, HypInv(h), NEW v \in VMs
    PROVE  HypInv(vm_stop(h, v))
<1> DEFINE g == vm_stop(h, v)
           stopped(c) == IF c \in VcpusOf(h, v)
                         THEN [h.pool[c] EXCEPT !.state = "STOPPED"] ELSE h.pool[c]
           p == [c \in Pool |-> stopped(c)]
<1>0. CASE h.state[v] = "STOPPED"
  BY <1>0 DEF vm_stop
<1>1. CASE h.state[v] # "STOPPED"
  <2>1. h \in Machine
    BY DEF HypInv
  <2>2. ASSUME NEW c \in Pool
        PROVE  /\ stopped(c) \in Vcpu
               /\ stopped(c).vm = h.pool[c].vm
               /\ stopped(c).state \in {h.pool[c].state, "STOPPED"}
               /\ c \notin VcpusOf(h, v) => stopped(c) = h.pool[c]
    <3>1. h.pool[c] \in Vcpu
      BY <2>1, Fields
    <3> QED
      BY <3>1 DEF Vcpu, VcpuState
  <2>3. g = [h EXCEPT !.pool = p, !.mapped[v] = FALSE, !.vttbr = v,
                      !.state[v] = "STOPPED"]
    BY <1>1 DEF vm_stop
  <2>4. p \in [Pool -> Vcpu]
    BY <2>2
  <2>5. \A c \in Pool : p[c] = stopped(c)
    OBVIOUS
  <2> HIDE DEF p, g, stopped
  <2>6. /\ g \in Machine
        /\ g.vcpus = h.vcpus /\ g.nvc = h.nvc /\ g.used = h.used
        /\ g.current = h.current
        /\ g.state = [h.state EXCEPT ![v] = "STOPPED"]
        /\ g.mapped = [h.mapped EXCEPT ![v] = FALSE]
        /\ g.pool = p
    BY <2>1, <2>3, <2>4, Zenon DEF Machine, VmState
  <2>7. ASSUME NEW c \in Pool
        PROVE  /\ g.pool[c].vm = h.pool[c].vm
               /\ g.pool[c].state \in {h.pool[c].state, "STOPPED"}
               /\ c \notin VcpusOf(h, v) => g.pool[c] = h.pool[c]
    BY <2>2, <2>5, <2>6
  <2>8. /\ g.state[v] = "STOPPED"
        /\ \A w \in VMs : w # v => g.state[w] = h.state[w] /\ g.mapped[w] = h.mapped[w]
    BY <2>1, <2>6, Fields
  <2>9. Allocated(g)
    BY <2>6, <2>7, <2>8, Place DEF HypInv, Allocated
  <2>10. CurrentUsed(g)
    BY <2>1, <2>6, <2>7, Fields DEF HypInv, CurrentUsed
  <2>11. OnlyCurrentRuns(g)
    BY <2>6, <2>7 DEF HypInv, OnlyCurrentRuns
  <2>12. Resumable(g)
    <3> SUFFICES ASSUME NEW w \in VMs, g.state[w] # "STOPPED"
                 PROVE  /\ g.mapped[w]
                        /\ \A i \in VcpuId : i < g.nvc[w] =>
                             g.pool[g.vcpus[w][i]].state # "STOPPED"
      BY DEF Resumable
    <3>1. w # v
      BY <2>8
    <3>2. ASSUME NEW i \in VcpuId, i < h.nvc[w]
          PROVE  h.vcpus[w][i] \in Pool /\ h.vcpus[w][i] \notin VcpusOf(h, v)
      BY <3>1, <3>2, Place, VcpusOfPlaces
    <3> QED
      BY <2>6, <2>7, <2>8, <3>1, <3>2 DEF HypInv, Resumable
  <2> QED
    BY <2>6, <2>9, <2>10, <2>11, <2>12 DEF HypInv, g
<1> QED
  BY <1>0, <1>1

\* The machine keeps its vCPUs and its memory.
SameVcpus(h, g) ==
    /\ g.vcpus = h.vcpus /\ g.nvc = h.nvc /\ g.used = h.used
    /\ g.current = h.current /\ g.pool = h.pool /\ g.mapped = h.mapped

\* A VM whose memory and vCPUs are intact may change between READY, RUNNING and
\* SUSPENDED, and its power state may change.
LEMMA LifeCycleInv ==
    ASSUME NEW h, HypInv(h), NEW g \in Machine, SameVcpus(h, g),
           \A w \in VMs : g.state[w] # "STOPPED" => h.state[w] # "STOPPED"
    PROVE  HypInv(g)
<1>1. Allocated(g) /\ CurrentUsed(g) /\ OnlyCurrentRuns(g)
  BY DEF HypInv, SameVcpus, Allocated, CurrentUsed, OnlyCurrentRuns
<1>2. Resumable(g)
  BY DEF HypInv, SameVcpus, Resumable
<1> QED
  BY <1>1, <1>2 DEF HypInv

\* vm_suspend keeps the invariant: it is a change of state and power alone.
LEMMA SuspendInv ==
    ASSUME NEW h, HypInv(h), NEW v \in VMs
    PROVE  HypInv(vm_suspend(h, v))
<1>1. h \in Machine
  BY DEF HypInv
<1>2. CASE h.state[v] = "RUNNING"
  <2> DEFINE g == vm_suspend(h, v)
  <2>1. g \in Machine /\ SameVcpus(h, g)
    BY <1>1, <1>2, Zenon DEF vm_suspend, power_gate_vm, Machine, SameVcpus, VmState, PowerState
  <2>2. \A w \in VMs : g.state[w] # "STOPPED" => h.state[w] # "STOPPED"
    BY <1>1, <1>2 DEF vm_suspend, power_gate_vm, Machine
  <2> QED
    BY <2>1, <2>2, LifeCycleInv
<1> QED
  BY <1>2 DEF vm_suspend

\* vm_resume keeps the invariant: a SUSPENDED VM is intact.
LEMMA ResumeInv ==
    ASSUME NEW h, HypInv(h), NEW v \in VMs
    PROVE  HypInv(vm_resume(h, v))
<1>1. h \in Machine
  BY DEF HypInv
<1>2. CASE h.state[v] = "SUSPENDED"
  <2> DEFINE g == vm_resume(h, v)
  <2>1. g \in Machine /\ SameVcpus(h, g)
    BY <1>1, <1>2, Zenon DEF vm_resume, power_ungate_vm, Machine, SameVcpus, VmState, PowerState
  <2>2. \A w \in VMs : g.state[w] # "STOPPED" => h.state[w] # "STOPPED"
    BY <1>1, <1>2 DEF vm_resume, power_ungate_vm, Machine
  <2> QED
    BY <2>1, <2>2, LifeCycleInv
<1> QED
  BY <1>2 DEF vm_resume

\* vm_start keeps the invariant: it sets a READY VM running and no other.
LEMMA StartInv ==
    ASSUME NEW h, HypInv(h), NEW v \in VMs
    PROVE  HypInv(vm_start(h, v))
<1>1. h \in Machine
  BY DEF HypInv
<1>2. CASE h.state[v] = "READY"
  <2> DEFINE g == vm_start(h, v)
  <2>1. g \in Machine /\ SameVcpus(h, g)
    BY <1>1, <1>2, Zenon DEF vm_start, Machine, SameVcpus, VmState, PowerState
  <2>2. \A w \in VMs : g.state[w] # "STOPPED" => h.state[w] # "STOPPED"
    BY <1>1, <1>2 DEF vm_start, Machine
  <2> QED
    BY <2>1, <2>2, LifeCycleInv
<1> QED
  BY <1>2 DEF vm_start

\* vm_finalize keeps the invariant when the VM is STOPPED: the entries it takes
\* were in use by nobody, and without a full set of vCPUs the VM stays STOPPED.
LEMMA FinalizeInv ==
    ASSUME NEW h, HypInv(h), NEW v \in VMs, h.state[v] = "STOPPED"
    PROVE  HypInv(vm_finalize(h, v))
<1> DEFINE n == Fresh(h, v)
           f == vm_finalize(h, v)
           place(i) == IF i < n THEN h.used + 1 + i ELSE h.vcpus[v][i]
           entry(c) == IF c \in (h.used + 1)..(h.used + n) THEN vcpu_init(v) ELSE h.pool[c]
           places == [i \in VcpuId |-> place(i)]
           p == [c \in Pool |-> entry(c)]
<1>1. h \in Machine
  BY DEF HypInv
<1>2. h.used \in 0..PoolSize /\ h.current \in Pool /\ h.current \in 1..h.used
  BY <1>1, Fields DEF HypInv, CurrentUsed
<1>3. n \in 0..MaxVcpu /\ h.used + n \in 0..PoolSize
  BY <1>2, VmAssumption DEF Fresh
<1> HIDE DEF n
<1>4. places \in [VcpuId -> Pool \union {NULL}]
  <2>1. ASSUME NEW i \in VcpuId PROVE place(i) \in Pool \union {NULL}
    <3>1. h.vcpus[v][i] \in Pool \union {NULL}
      BY <1>1, Fields
    <3> QED
      BY <1>2, <1>3, <3>1, VmAssumption DEF Pool, VcpuId
  <2> QED
    BY <2>1
<1>5. /\ vcpu_init(v) \in Vcpu /\ vcpu_init(v).vm = v
      /\ vcpu_init(v).state = "READY"
  BY DEF vcpu_init, Vcpu, VcpuState, Entry
<1>6. p \in [Pool -> Vcpu]
  BY <1>1, <1>5, Fields
<1>7. f = [h EXCEPT !.mapped[v] = TRUE, !.nvc[v] = n, !.vcpus[v] = places,
                    !.pool = p, !.used = h.used + n,
                    !.state[v] = IF n = NumVcpus[v] THEN "READY" ELSE @]
  BY DEF vm_finalize, n
<1>8. \A i \in VcpuId : places[i] = place(i)
  OBVIOUS
<1>9. \A c \in Pool : p[c] = entry(c)
  OBVIOUS
<1> HIDE DEF places, p, f
<1>10. /\ f \in Machine
       /\ f.mapped = [h.mapped EXCEPT ![v] = TRUE]
       /\ f.nvc = [h.nvc EXCEPT ![v] = n]
       /\ f.vcpus = [h.vcpus EXCEPT ![v] = places]
       /\ f.pool = p /\ f.used = h.used + n /\ f.current = h.current
       /\ f.state[v] \in {"READY", "STOPPED"}
       /\ \A w \in VMs : w # v => f.state[w] = h.state[w]
  BY <1>1, <1>3, <1>4, <1>6, <1>7, Zenon DEF Machine, VmState
\* Entries in use keep their contents; the new ones are READY vCPUs of the VM.
<1>11. ASSUME NEW c \in 1..h.used PROVE c \in Pool /\ f.pool[c] = h.pool[c]
  <2>1. c \in Pool /\ c \notin (h.used + 1)..(h.used + n)
    BY <1>2, <1>3, VmAssumption DEF Pool
  <2> QED
    BY <2>1, <1>9, <1>10
<1>12. ASSUME NEW i \in VcpuId, i < n
       PROVE  /\ f.vcpus[v][i] = h.used + 1 + i
              /\ f.vcpus[v][i] \in 1..f.used
              /\ f.pool[f.vcpus[v][i]] = vcpu_init(v)
  <2>1. h.used + 1 + i \in (h.used + 1)..(h.used + n) /\ h.used + 1 + i \in Pool
        /\ h.used + 1 + i \in 1..(h.used + n)
    BY <1>2, <1>3, <1>12, VmAssumption DEF Pool, VcpuId
  <2>2. f.vcpus[v][i] = h.used + 1 + i
    BY <1>1, <1>8, <1>10, <1>12, Fields
  <2> QED
    BY <2>1, <2>2, <1>9, <1>10
<1>13. f.nvc[v] = n
  BY <1>1, <1>10, Fields
<1>14. ASSUME NEW w \in VMs, w # v
       PROVE  f.nvc[w] = h.nvc[w] /\ f.vcpus[w] = h.vcpus[w] /\ f.mapped[w] = h.mapped[w]
  BY <1>1, <1>10, <1>14, Fields
<1>15. Allocated(f)
  <2> SUFFICES ASSUME NEW w \in VMs, NEW i \in VcpuId, i < f.nvc[w]
               PROVE  /\ f.vcpus[w][i] \in 1..f.used
                      /\ f.pool[f.vcpus[w][i]].vm = w
                      /\ \A j \in VcpuId : j < f.nvc[w] /\ f.vcpus[w][i] = f.vcpus[w][j] => i = j
    BY DEF Allocated
  <2>1. CASE w = v
    BY <2>1, <1>2, <1>5, <1>12, <1>13 DEF VcpuId
  <2>2. CASE w # v
    <3>1. h.vcpus[w][i] \in 1..h.used /\ h.pool[h.vcpus[w][i]].vm = w
      BY <2>2, <1>14, Place
    <3>2. f.vcpus[w][i] \in 1..f.used
      BY <2>2, <3>1, <1>2, <1>3, <1>10, <1>14
    <3>3. f.pool[f.vcpus[w][i]].vm = w
      BY <2>2, <3>1, <1>11, <1>14
    <3> QED
      BY <2>2, <3>2, <3>3, <1>14 DEF HypInv, Allocated
  <2> QED
    BY <2>1, <2>2
<1>16. CurrentUsed(f)
  BY <1>2, <1>3, <1>10, <1>11 DEF HypInv, CurrentUsed
<1>17. OnlyCurrentRuns(f)
  BY <1>5, <1>9, <1>10 DEF HypInv, OnlyCurrentRuns
<1>18. Resumable(f)
  <2> SUFFICES ASSUME NEW w \in VMs, f.state[w] # "STOPPED"
               PROVE  /\ f.mapped[w]
                      /\ \A i \in VcpuId : i < f.nvc[w] => f.pool[f.vcpus[w][i]].state # "STOPPED"
    BY DEF Resumable
  <2>1. CASE w = v
    <3>1. f.mapped[v]
      BY <1>1, <1>10, Fields
    <3> QED
      BY <2>1, <3>1, <1>5, <1>12, <1>13
  <2>2. CASE w # v
    <3>1. h.state[w] # "STOPPED"
      BY <2>2, <1>10
    <3>2. ASSUME NEW i \in VcpuId, i < h.nvc[w]
          PROVE  f.pool[h.vcpus[w][i]] = h.pool[h.vcpus[w][i]]
      BY <3>2, <1>11, Place
    <3> QED
      BY <2>2, <3>1, <3>2, <1>14 DEF HypInv, Resumable
  <2> QED
    BY <2>1, <2>2
<1> QED
  BY <1>10, <1>15, <1>16, <1>17, <1>18 DEF HypInv, f

\* vcpu_set_entry keeps the invariant: it changes the entry of a vCPU and no
\* vCPU's owner or state.
LEMMA SetEntryInv ==
    ASSUME NEW h, HypInv(h), NEW v \in VMs
    PROVE  /\ HypInv(vcpu_set_entry(h, v))
           /\ vcpu_set_entry(h, v).current = h.current
           /\ CurrentVm(vcpu_set_entry(h, v)) = CurrentVm(h)
<1> DEFINE c == h.vcpus[v][0]
           g == vcpu_set_entry(h, v)
           p == [h.pool EXCEPT ![c].entry = "backup"]
<1>1. h \in Machine
  BY DEF HypInv
<1>2. CASE h.nvc[v] > 0 /\ c # NULL
  <2>1. c \in Pool
    <3>1. 0 \in VcpuId
      BY VmAssumption DEF VcpuId
    <3>2. c \in Pool \union {NULL}
      BY <1>1, <3>1, Fields
    <3> QED
      BY <1>2, <3>2
  <2>2. h.pool \in [Pool -> Vcpu] /\ h.current \in Pool
    BY <1>1, Fields
  <2> HIDE DEF c
  <2>3. /\ p \in [Pool -> Vcpu]
        /\ \A d \in Pool : p[d].vm = h.pool[d].vm /\ p[d].state = h.pool[d].state
    BY <2>1, <2>2 DEF Vcpu, Entry
  <2>4. g = [h EXCEPT !.pool = p]
    BY <1>1, <1>2 DEF vcpu_set_entry, c, Machine
  <2> HIDE DEF p, g
  <2>5. /\ g \in Machine /\ g.pool = p /\ g.state = h.state /\ g.nvc = h.nvc
        /\ g.mapped = h.mapped /\ g.vcpus = h.vcpus /\ g.used = h.used
        /\ g.current = h.current
    BY <1>1, <2>3, <2>4, ZenonT(40) DEF Machine
  <2>6. Allocated(g)
    BY <2>3, <2>5, Place DEF HypInv, Allocated
  <2>7. CurrentUsed(g) /\ OnlyCurrentRuns(g)
    BY <2>2, <2>3, <2>5 DEF HypInv, CurrentUsed, OnlyCurrentRuns
  <2>8. Resumable(g)
    BY <2>3, <2>5, Place DEF HypInv, Resumable
  <2>9. CurrentVm(g) = CurrentVm(h)
    BY <2>2, <2>3, <2>5 DEF CurrentVm
  <2> QED
    BY <2>5, <2>6, <2>7, <2>8, <2>9 DEF HypInv, g
<1>3. CASE ~(h.nvc[v] > 0 /\ c # NULL)
  BY <1>3 DEF vcpu_set_entry
<1> QED
  BY <1>2, <1>3

\* vcpu_do_switch to the vCPU of a runnable slot keeps the invariant, puts that
\* vCPU on the core and VTTBR_EL2 to its VM.  The vCPU that leaves becomes READY
\* whatever it was, which can only help its VM.
LEMMA SwitchInv ==
    ASSUME NEW h, HypInv(h), NEW next \in Pool, next \in 1..h.used,
           h.pool[next].vm \in VMs, h.current # next
    PROVE  /\ HypInv(vcpu_do_switch(h, next))
           /\ vcpu_do_switch(h, next).current = next
           /\ vcpu_do_switch(h, next).vttbr = h.pool[next].vm
           /\ CurrentVm(vcpu_do_switch(h, next)) = h.pool[next].vm
<1> DEFINE g == vcpu_do_switch(h, next)
           p == [h.pool EXCEPT ![h.current].state = "READY", ![next].state = "RUNNING"]
<1>1. h \in Machine
  BY DEF HypInv
<1>2. h.pool \in [Pool -> Vcpu] /\ h.current \in Pool
  BY <1>1, Fields
<1>3. /\ p \in [Pool -> Vcpu]
      /\ \A d \in Pool : p[d].vm = h.pool[d].vm
      /\ p[next].state = "RUNNING" /\ p[h.current].state = "READY"
      /\ \A d \in Pool : d # next /\ d # h.current => p[d].state = h.pool[d].state
  BY <1>2, ZenonT(40) DEF Vcpu, VcpuState
<1>4. g = [h EXCEPT !.pool = p, !.vttbr = h.pool[next].vm, !.current = next]
  BY <1>1, Zenon DEF vcpu_do_switch, Machine
<1> HIDE DEF p, g
<1>5. /\ g \in Machine /\ g.pool = p /\ g.state = h.state /\ g.nvc = h.nvc
      /\ g.mapped = h.mapped /\ g.vcpus = h.vcpus /\ g.used = h.used
      /\ g.current = next /\ g.vttbr = h.pool[next].vm
  BY <1>1, <1>3, <1>4, Zenon DEF Machine
<1>6. Allocated(g)
  BY <1>3, <1>5, Place DEF HypInv, Allocated
<1>7. CurrentUsed(g)
  BY <1>3, <1>5 DEF CurrentUsed
<1>8. OnlyCurrentRuns(g)
  BY <1>2, <1>3, <1>5 DEF HypInv, OnlyCurrentRuns
<1>9. Resumable(g)
  <2>1. ASSUME NEW d \in Pool, h.pool[d].state # "STOPPED" PROVE p[d].state # "STOPPED"
    BY <2>1, <1>3
  <2> QED
    BY <2>1, <1>5, Place DEF HypInv, Resumable
<1>10. CurrentVm(g) = h.pool[next].vm
  BY <1>3, <1>5 DEF CurrentVm
<1> QED
  BY <1>5, <1>6, <1>7, <1>8, <1>9, <1>10 DEF HypInv, g

\* The life-cycle functions leave the vCPU on the core, and its owner, alone.
KeepsCore(h, g) == g.current = h.current /\ CurrentVm(g) = CurrentVm(h)

\* vm_stop leaves the core with its vCPU.
LEMMA StopKeepsCore ==
    ASSUME NEW h, HypInv(h), NEW v \in VMs
    PROVE  KeepsCore(h, vm_stop(h, v)) /\ vm_stop(h, v).state[v] = "STOPPED"
<1> DEFINE stopped(c) == IF c \in VcpusOf(h, v)
                         THEN [h.pool[c] EXCEPT !.state = "STOPPED"] ELSE h.pool[c]
           p == [c \in Pool |-> stopped(c)]
<1>1. h \in Machine
  BY DEF HypInv
<1>2. CASE h.state[v] # "STOPPED"
  <2>1. h.current \in Pool /\ h.pool[h.current] \in Vcpu
    BY <1>1, Fields
  <2>2. stopped(h.current).vm = h.pool[h.current].vm
    BY <2>1 DEF Vcpu
  <2>3. p[h.current].vm = h.pool[h.current].vm
    BY <2>1, <2>2
  <2>4. vm_stop(h, v) = [h EXCEPT !.pool = p, !.mapped[v] = FALSE, !.vttbr = v,
                                  !.state[v] = "STOPPED"]
    BY <1>2 DEF vm_stop
  <2> HIDE DEF p
  <2> QED
    BY <1>1, <2>3, <2>4 DEF Machine, KeepsCore, CurrentVm
<1>3. CASE h.state[v] = "STOPPED"
  BY <1>3 DEF vm_stop, KeepsCore
<1> QED
  BY <1>2, <1>3

\* Changes of a VM's state and power state leave the core with its vCPU.
LEMMA LifeCycleKeepsCore ==
    ASSUME NEW h, HypInv(h), NEW v \in VMs
    PROVE  /\ KeepsCore(h, vm_suspend(h, v))
           /\ KeepsCore(h, vm_resume(h, v))
           /\ KeepsCore(h, vm_start(h, v))
<1>1. h \in Machine
  BY DEF HypInv
<1>2. KeepsCore(h, vm_suspend(h, v))
  BY <1>1 DEF KeepsCore, CurrentVm, vm_suspend, power_gate_vm, Machine
<1>3. KeepsCore(h, vm_resume(h, v))
  BY <1>1 DEF KeepsCore, CurrentVm, vm_resume, power_ungate_vm, Machine
<1>4. KeepsCore(h, vm_start(h, v))
  BY <1>1 DEF KeepsCore, CurrentVm, vm_start, Machine
<1> QED
  BY <1>2, <1>3, <1>4

\* vm_finalize leaves the core with its vCPU: the entries it fills were unused.
LEMMA FinalizeKeepsCore ==
    ASSUME NEW h, HypInv(h), NEW v \in VMs
    PROVE  KeepsCore(h, vm_finalize(h, v))
<1> DEFINE n == Fresh(h, v)
           entry(c) == IF c \in (h.used + 1)..(h.used + n) THEN vcpu_init(v) ELSE h.pool[c]
           places == [i \in VcpuId |-> IF i < n THEN h.used + 1 + i ELSE h.vcpus[v][i]]
           p == [c \in Pool |-> entry(c)]
<1>1. h \in Machine
  BY DEF HypInv
<1>2. h.used \in 0..PoolSize /\ h.current \in Pool /\ h.current \in 1..h.used
  BY <1>1, Fields DEF HypInv, CurrentUsed
<1>3. n \in Int
  BY <1>2, VmAssumption DEF Fresh
<1>4. vm_finalize(h, v) =
        [h EXCEPT !.mapped[v] = TRUE, !.nvc[v] = n, !.vcpus[v] = places,
                  !.pool = p, !.used = h.used + n,
                  !.state[v] = IF n = NumVcpus[v] THEN "READY" ELSE @]
  BY DEF vm_finalize
<1> HIDE DEF n
<1>5. p[h.current] = h.pool[h.current]
  <2>1. h.current \notin (h.used + 1)..(h.used + n)
    BY <1>2, <1>3
  <2> QED
    BY <1>2, <2>1
<1> HIDE DEF p, places
<1> QED
  BY <1>1, <1>4, <1>5 DEF Machine, KeepsCore, CurrentVm

\* The restart of a failover keeps the invariant and leaves the core with the
\* vCPU that failed.
LEMMA RestartInv ==
    ASSUME NEW h, HypInv(h), NEW v \in VMs
    PROVE  HypInv(vm_restart(h, v)) /\ KeepsCore(h, vm_restart(h, v))
<1> DEFINE s == vm_stop(h, v)
           f == vm_finalize(s, v)
           e == vcpu_set_entry(f, v)
<1>1. HypInv(s) /\ s.state[v] = "STOPPED" /\ KeepsCore(h, s)
  BY StopInv, StopKeepsCore
<1> HIDE DEF s
<1>2. HypInv(f) /\ KeepsCore(s, f)
  BY <1>1, FinalizeInv, FinalizeKeepsCore
<1> HIDE DEF f
<1>3. HypInv(e) /\ KeepsCore(f, e)
  BY <1>2, SetEntryInv DEF KeepsCore
<1> HIDE DEF e
<1>4. HypInv(vm_start(e, v)) /\ KeepsCore(e, vm_start(e, v))
  BY <1>3, StartInv, LifeCycleKeepsCore
<1>5. vm_restart(h, v) = IF f.state[v] # "READY" THEN f ELSE vm_start(e, v)
  BY SMTT(40) DEF vm_restart, e, f, s
<1> QED
  BY <1>1, <1>2, <1>3, <1>4, <1>5 DEF KeepsCore
---------------------------------------------------------------------------
\* What slot_vcpu returns is a vCPU its VM owns, of a RUNNING and mapped VM.
LEMMA SlotVcpu ==
    ASSUME NEW h, HypInv(h), NEW k \in Slot, slot_vcpu(h, k) # NULL
    PROVE  /\ slot_vcpu(h, k) \in Pool
           /\ slot_vcpu(h, k) \in 1..h.used
           /\ Slots[k].vm \in VMs
           /\ h.pool[slot_vcpu(h, k)].vm = Slots[k].vm
           /\ h.pool[slot_vcpu(h, k)].state # "STOPPED"
           /\ slot_vcpu(h, k) \in VcpusOf(h, Slots[k].vm)
           /\ h.state[Slots[k].vm] = "RUNNING"
           /\ h.mapped[Slots[k].vm]
<1> DEFINE v == Slots[k].vm
           i == Slots[k].vcpu
<1>1. v \in VMs /\ i \in VcpuId
  BY SchedAssumption, SMTT(40) DEF sched_init
<1>2. /\ slot_vcpu(h, k) = h.vcpus[v][i] /\ h.state[v] = "RUNNING" /\ i < h.nvc[v]
      /\ h.pool[h.vcpus[v][i]].state # "STOPPED"
  BY Zenon DEF slot_vcpu
<1> HIDE DEF v, i
<1>3. h.vcpus[v][i] \in VcpusOf(h, v)
  BY <1>1, <1>2, VcpusOfPlaces
<1>4. h.mapped[v]
  BY <1>1, <1>2 DEF HypInv, Resumable
<1>5. /\ h.vcpus[v][i] \in Pool /\ h.vcpus[v][i] \in 1..h.used
      /\ h.pool[h.vcpus[v][i]].vm = v
  BY <1>1, <1>2, Place
<1> QED
  BY <1>1, <1>2, <1>3, <1>4, <1>5, Zenon DEF v

\* The searches return slots.
LEMMA SearchesReturnSlots ==
    ASSUME NEW h, NEW from \in Slot
    PROVE  find_next_rr(h, from) \in Slot /\ find_next_wfi(h, from) \in Slot
<1>1. Runnable(h) \in SUBSET Slot /\ OtherVms(h) \in SUBSET Slot
  BY DEF Runnable, OtherVms
<1>2. find_next_rr(h, from) \in Slot
  BY <1>1, FirstAfterIn DEF find_next_rr
<1> QED
  BY <1>1, <1>2, FirstAfterIn DEF find_next_wfi

\* The slot sched_run starts with is a slot.
LEMMA FirstSlotIsSlot == FirstSlot \in Slot
<1> DEFINE rt == {k \in Slot : Slots[k].vm \in RealTime}
           S == IF rt = {} THEN Slot ELSE rt
<1>1. 0 \in Slot /\ NSlots - 1 \in Slot
  BY SchedAssumption, VmAssumption DEF Slot
<1>2. S \in SUBSET Slot /\ S # {}
  BY <1>1
<1>3. FirstAfter(S, NSlots - 1) \in S
  BY <1>1, <1>2, FirstAfterIn
<1> QED
  BY <1>2, <1>3 DEF FirstSlot

\* The machine that sched_run launches satisfies the invariant.
LEMMA BootInv == HypInv(BootMachine)
<1> DEFINE h == BootMachine
           place(v, i) == IF i < NumVcpus[v] THEN SlotOf(v, i) + 1 ELSE NULL
           places(v) == [i \in VcpuId |-> place(v, i)]
           entry(c) == IF c > NSlots
                       THEN [vm |-> NULL, state |-> "IDLE", entry |-> "none"]
                       ELSE [vcpu_init(Slots[c - 1].vm) EXCEPT
                               !.state = IF c = FirstSlot + 1 THEN "RUNNING" ELSE @]
           tables == [v \in VMs |-> places(v)]
           p == [c \in Pool |-> entry(c)]
<1>1. NSlots \in 1..PoolSize /\ PoolSize \in Nat /\ MaxVcpu \in Nat
      /\ NumVcpus \in [VMs -> 1..MaxVcpu]
  BY SchedAssumption, VmAssumption
<1>2. /\ Slots \in [Slot -> [vm : VMs, vcpu : VcpuId]]
      /\ \A v \in VMs, i \in VcpuId :
           i < NumVcpus[v] => \E k \in Slot : Slots[k] = [vm |-> v, vcpu |-> i]
  BY SchedAssumption DEF sched_init
<1>3. FirstSlot \in Slot
  BY FirstSlotIsSlot
<1>4. ASSUME NEW v \in VMs, NEW i \in VcpuId, i < NumVcpus[v]
      PROVE  /\ SlotOf(v, i) \in Slot /\ Slots[SlotOf(v, i)] = [vm |-> v, vcpu |-> i]
             /\ place(v, i) = SlotOf(v, i) + 1
             /\ place(v, i) \in 1..NSlots /\ place(v, i) \in Pool
  <2>1. PICK k \in Slot : Slots[k] = [vm |-> v, vcpu |-> i]
    BY <1>2, <1>4
  <2>2. SlotOf(v, i) \in Slot /\ Slots[SlotOf(v, i)] = [vm |-> v, vcpu |-> i]
    BY <2>1 DEF SlotOf
  <2> QED
    BY <1>1, <1>4, <2>2 DEF Slot, Pool
<1>5. ASSUME NEW c \in Pool
      PROVE  /\ entry(c) \in Vcpu
             /\ entry(c).state # "STOPPED"
             /\ entry(c).state = "RUNNING" => c = FirstSlot + 1
             /\ c <= NSlots => entry(c).vm = Slots[c - 1].vm /\ Slots[c - 1].vm \in VMs
  <2>1. CASE c > NSlots
    BY <2>1, <1>1 DEF Vcpu, VcpuState, Entry, Pool
  <2>2. CASE c <= NSlots
    <3>1. c - 1 \in Slot /\ Slots[c - 1].vm \in VMs
      BY <2>2, <1>1, <1>2 DEF Slot, Pool
    <3> QED
      BY <2>2, <3>1, <1>1 DEF vcpu_init, Vcpu, VcpuState, Entry, Pool
  <2> QED
    BY <2>1, <2>2, <1>1 DEF Pool
<1>6. tables \in [VMs -> [VcpuId -> Pool \union {NULL}]]
  <2>1. ASSUME NEW v \in VMs, NEW i \in VcpuId PROVE place(v, i) \in Pool \union {NULL}
    BY <2>1, <1>4, Zenon
  <2>2. ASSUME NEW v \in VMs PROVE places(v) \in [VcpuId -> Pool \union {NULL}]
    BY <2>1
  <2> QED
    BY <2>2
<1>7. p \in [Pool -> Vcpu]
  BY <1>5
<1>8. /\ h.state = [v \in VMs |-> "RUNNING"] /\ h.power = [v \in VMs |-> "ON"]
      /\ h.nvc = NumVcpus /\ h.mapped = [v \in VMs |-> TRUE] /\ h.vcpus = tables
      /\ h.pool = p /\ h.used = NSlots /\ h.vttbr = Slots[FirstSlot].vm
      /\ h.current = FirstSlot + 1
      /\ h = [state |-> h.state, power |-> h.power, nvc |-> h.nvc, mapped |-> h.mapped,
              vcpus |-> h.vcpus, pool |-> h.pool, used |-> h.used, vttbr |-> h.vttbr,
              current |-> h.current]
  BY DEF BootMachine
<1>9. \A v \in VMs, i \in VcpuId : tables[v][i] = place(v, i)
  OBVIOUS
<1>10. \A c \in Pool : p[c] = entry(c)
  OBVIOUS
<1> HIDE DEF h, tables, p, place, entry
<1>11. /\ h.state \in [VMs -> VmState] /\ h.power \in [VMs -> PowerState]
       /\ h.nvc \in [VMs -> 0..MaxVcpu] /\ h.mapped \in [VMs -> BOOLEAN]
       /\ h.used \in 0..PoolSize /\ h.vttbr \in VMs /\ h.current \in Pool
       /\ h.current \in 1..NSlots
  BY <1>1, <1>2, <1>3, <1>8 DEF VmState, PowerState, Slot, Pool
<1>12. h \in Machine
  BY <1>6, <1>7, <1>8, <1>11, Zenon DEF Machine
\* A place in use holds the entry of its slot, which is in the used part of the
\* pool and belongs to the VM.
<1>13. ASSUME NEW v \in VMs, NEW i \in VcpuId, i < h.nvc[v]
       PROVE  /\ h.vcpus[v][i] = SlotOf(v, i) + 1
              /\ SlotOf(v, i) \in Slot /\ Slots[SlotOf(v, i)] = [vm |-> v, vcpu |-> i]
              /\ h.vcpus[v][i] \in 1..h.used /\ h.vcpus[v][i] \in Pool
              /\ h.pool[h.vcpus[v][i]].vm = v
              /\ h.pool[h.vcpus[v][i]].state # "STOPPED"
  <2>1. i < NumVcpus[v] /\ h.vcpus[v][i] = place(v, i)
    BY <1>8, <1>9, <1>13
  <2>2. /\ SlotOf(v, i) \in Slot /\ Slots[SlotOf(v, i)] = [vm |-> v, vcpu |-> i]
        /\ place(v, i) = SlotOf(v, i) + 1
        /\ place(v, i) \in 1..NSlots /\ place(v, i) \in Pool
    BY <2>1, <1>4
  <2>3. place(v, i) - 1 = SlotOf(v, i) /\ place(v, i) <= NSlots
    BY <2>2, <1>1 DEF Slot
  <2>4. entry(place(v, i)).vm = Slots[SlotOf(v, i)].vm /\ entry(place(v, i)).state # "STOPPED"
    BY <2>2, <2>3, <1>5
  <2>5. h.pool[h.vcpus[v][i]] = entry(place(v, i))
    BY <2>1, <2>2, <1>8, <1>10
  <2>6. Slots[SlotOf(v, i)].vm = v
    BY <2>2
  <2> QED
    BY <2>1, <2>2, <2>4, <2>5, <2>6, <1>8
<1>14. Allocated(h)
  <2>1. ASSUME NEW v \in VMs, NEW i \in VcpuId, NEW j \in VcpuId,
               i < h.nvc[v], j < h.nvc[v], h.vcpus[v][i] = h.vcpus[v][j]
        PROVE  i = j
    <3>1. SlotOf(v, i) = SlotOf(v, j)
      <4>1. h.vcpus[v][i] = SlotOf(v, i) + 1 /\ h.vcpus[v][j] = SlotOf(v, j) + 1
            /\ SlotOf(v, i) \in Slot /\ SlotOf(v, j) \in Slot
        BY <2>1, <1>13, ZenonT(40)
      <4>2. \A a, b \in Slot : a + 1 = b + 1 => a = b
        BY <1>1 DEF Slot
      <4> QED
        BY <2>1, <4>1, <4>2, Zenon
    <3>2. [vm |-> v, vcpu |-> j] = [vm |-> v, vcpu |-> i]
      BY <2>1, <3>1, <1>13
    <3> QED
      BY <3>2
  <2> QED
    BY <2>1, <1>13, Zenon DEF Allocated
<1>15. CurrentUsed(h)
  BY <1>1, <1>5, <1>8, <1>10, <1>11 DEF CurrentUsed
<1>16. OnlyCurrentRuns(h)
  BY <1>5, <1>8, <1>10 DEF OnlyCurrentRuns
<1>17. Resumable(h)
  <2>1. \A v \in VMs : h.mapped[v]
    BY <1>8
  <2>2. ASSUME NEW v \in VMs, NEW i \in VcpuId, i < h.nvc[v]
        PROVE  h.pool[h.vcpus[v][i]].state # "STOPPED"
    BY <1>13, <2>2, ZenonT(40)
  <2> QED
    BY <2>1, <2>2 DEF Resumable
<1> QED
  BY <1>12, <1>14, <1>15, <1>16, <1>17 DEF HypInv, h
---------------------------------------------------------------------------
\* The inductive invariant of the specification.
Inv == HypInv(hyp) /\ sched \in SchedState /\ UartGated

\* A step that leaves the core alone and does not enable the UART interrupt.
LEMMA CoreStepInv ==
    ASSUME Inv, HypInv(hyp'), KeepsCore(hyp, hyp'), sched' \in SchedState,
           sched'.uart => sched.uart
    PROVE  Inv'
BY DEF Inv, UartGated, KeepsCore, CurrentVm

\* What sched_on_timer and sched_on_wfi do once they know the slot keeps the
\* invariant, and when it changes the vCPU on the core it changes it to one of
\* the slot's VM.
LEMMA DispatchInv ==
    ASSUME Inv, NEW k \in Slot, NEW armed \in BOOLEAN, Dispatch(k, armed)
    PROVE  /\ Inv'
           /\ hyp'.current # hyp.current =>
                /\ slot_vcpu(hyp, k) # NULL
                /\ hyp'.current = slot_vcpu(hyp, k)
                /\ CurrentVm(hyp') = Slots[k].vm
                /\ hyp'.vttbr = Slots[k].vm
<1> DEFINE next == slot_vcpu(hyp, k)
<1>1. HypInv(hyp) /\ sched \in SchedState /\ UartGated
  BY DEF Inv
<1>2. CASE next = NULL
  <2>1. /\ hyp' = hyp /\ sched' \in SchedState /\ sched'.uart = sched.uart
    BY <1>1, <1>2, Zenon DEF Dispatch, SchedState
  <2>2. HypInv(hyp') /\ KeepsCore(hyp, hyp')
    BY <1>1, <2>1 DEF KeepsCore
  <2> QED
    BY <2>1, <2>2, CoreStepInv
<1>3. CASE next # NULL
  <2>1. /\ hyp' = do_switch(hyp, next)
        /\ sched' = [cur |-> k, timer |-> armed, uart |-> gate_uart(hyp, next)]
    BY <1>3 DEF Dispatch
  <2>2. /\ next \in Pool /\ next \in 1..hyp.used /\ Slots[k].vm \in VMs
        /\ hyp.pool[next].vm = Slots[k].vm
    BY <1>1, <1>3, SlotVcpu
  <2>3. gate_uart(hyp, next) \in BOOLEAN
        /\ (gate_uart(hyp, next) <=> hyp.pool[next].vm = LinuxVm)
    BY DEF gate_uart
  <2> HIDE DEF next
  <2>4. sched' \in SchedState /\ sched'.uart = gate_uart(hyp, next)
    BY <2>1, <2>3 DEF SchedState
  <2>5. CASE hyp.current = next
    <3>1. hyp' = hyp /\ CurrentVm(hyp) = hyp.pool[next].vm
      BY <2>1, <2>5 DEF do_switch, CurrentVm
    <3>2. UartGated'
      BY <2>3, <2>4, <3>1 DEF UartGated
    <3> QED
      BY <1>1, <2>4, <3>1, <3>2 DEF Inv
  <2>6. CASE hyp.current # next
    <3>1. hyp' = vcpu_do_switch(hyp, next)
      BY <2>1, <2>6 DEF do_switch
    <3>2. /\ HypInv(hyp') /\ hyp'.current = next /\ hyp'.vttbr = hyp.pool[next].vm
          /\ CurrentVm(hyp') = hyp.pool[next].vm
      BY <1>1, <2>2, <2>6, <3>1, SwitchInv
    <3>3. UartGated'
      BY <2>3, <2>4, <3>2 DEF UartGated
    <3> QED
      BY <1>3, <2>2, <2>4, <3>2, <3>3 DEF Inv, next
  <2> QED
    BY <2>5, <2>6
<1> QED
  BY <1>2, <1>3

\* What one trust_quarantine may leave of a VM satisfies the invariant.
LEMMA RecoveredInv ==
    ASSUME NEW h, HypInv(h), NEW v \in VMs, NEW g \in Recovered(h, v)
    PROVE  HypInv(g) /\ KeepsCore(h, g)
<1> DEFINE s == vm_suspend(h, v)
<1>1. HypInv(s) /\ KeepsCore(h, s)
  BY SuspendInv, LifeCycleKeepsCore
<1>2. g = s \/ g = vm_restart(s, v)
  BY DEF Recovered
<1> HIDE DEF s
<1>3. HypInv(vm_restart(s, v)) /\ KeepsCore(s, vm_restart(s, v))
  BY <1>1, RestartInv
<1> QED
  BY <1>1, <1>2, <1>3 DEF KeepsCore

\* The vCPU on the core changes only to the one a slot would run.
SwitchesToSlot ==
    hyp'.current # hyp.current =>
      \E k \in Slot : /\ slot_vcpu(hyp, k) # NULL
                      /\ hyp'.current = slot_vcpu(hyp, k)
                      /\ CurrentVm(hyp') = Slots[k].vm
                      /\ hyp'.vttbr = Slots[k].vm

\* Every step of the machine keeps the invariant.
LEMMA StepInv ==
    ASSUME Inv, Next
    PROVE  Inv' /\ SwitchesToSlot
<1> DEFINE u == CurrentVm(hyp)
<1>1. HypInv(hyp) /\ sched \in SchedState /\ u \in VMs
  BY DEF Inv, HypInv, CurrentUsed, CurrentVm
<1>2. sched.cur \in Slot
  BY <1>1 DEF SchedState
\* Most handlers do not switch, leave the UART interrupt as it is or disable it.
<1>3. ASSUME HypInv(hyp'), KeepsCore(hyp, hyp'),
             sched' \in SchedState, sched'.uart => sched.uart
      PROVE  Inv' /\ SwitchesToSlot
  BY <1>3, CoreStepInv DEF KeepsCore, SwitchesToSlot
<1>4. ASSUME HypInv(hyp'), KeepsCore(hyp, hyp'), UNCHANGED sched
      PROVE  Inv' /\ SwitchesToSlot
  BY <1>1, <1>3, <1>4
<1>5. KeepsCore(hyp, hyp)
  BY DEF KeepsCore
<1>6. CASE TimerIrq
  <2>1. find_next_rr(hyp, sched.cur) \in Slot
    BY <1>2, SearchesReturnSlots
  <2> QED
    BY <1>6, <2>1, DispatchInv, Zenon DEF TimerIrq, SwitchesToSlot
<1>7. CASE Wfi
  <2>1. find_next_wfi(hyp, sched.cur) \in Slot
    BY <1>2, SearchesReturnSlots
  <2> QED
    BY <1>7, <2>1, DispatchInv, Zenon DEF Wfi, SwitchesToSlot
<1>8. CASE UartIrq
  <2>1. hyp' = hyp /\ sched' \in SchedState /\ ~sched'.uart
    BY <1>1, <1>8, Zenon DEF UartIrq, SchedState
  <2> QED
    BY <1>1, <1>3, <1>5, <2>1
<1>9. CASE HvcYield
  <2>1. hyp' = hyp /\ sched' \in SchedState /\ sched'.uart = sched.uart
    BY <1>1, <1>9, Zenon DEF HvcYield, SchedState
  <2> QED
    BY <1>1, <1>3, <1>5, <2>1
<1>10. CASE \E v \in VMs : HvcVmSuspend(v)
  BY <1>1, <1>4, <1>10, SuspendInv, LifeCycleKeepsCore DEF HvcVmSuspend
<1>11. CASE \E v \in VMs : HvcVmResume(v)
  BY <1>1, <1>4, <1>11, ResumeInv, LifeCycleKeepsCore DEF HvcVmResume
<1>12. CASE \E v \in VMs : HvcVmStop(v)
  BY <1>1, <1>4, <1>12, StopInv, StopKeepsCore DEF HvcVmStop
<1>13. ASSUME NEW h \in {hyp} \union Recovered(hyp, u)
       PROVE  HypInv(h) /\ KeepsCore(hyp, h)
  BY <1>1, <1>5, <1>13, RecoveredInv
<1>14. CASE Quarantine
  <2>1. PICK h \in {hyp} \union Recovered(hyp, u) : hyp' \in Recovered(h, u)
    BY <1>14 DEF Quarantine
  <2>2. HypInv(h) /\ KeepsCore(hyp, h)
    BY <1>13
  <2>3. HypInv(hyp') /\ KeepsCore(h, hyp')
    BY <1>1, <2>1, <2>2, RecoveredInv
  <2>4. KeepsCore(hyp, hyp')
    BY <2>2, <2>3 DEF KeepsCore
  <2> QED
    BY <1>4, <1>14, <2>3, <2>4 DEF Quarantine
<1>15. CASE Revoke
  <2>1. PICK h \in {hyp} \union Recovered(hyp, u) : hyp' = vm_stop(vm_suspend(h, u), u)
    BY <1>15 DEF Revoke
  <2>2. HypInv(h) /\ KeepsCore(hyp, h)
    BY <1>13
  <2>3. HypInv(vm_suspend(h, u)) /\ KeepsCore(h, vm_suspend(h, u))
    BY <1>1, <2>2, SuspendInv, LifeCycleKeepsCore
  <2>4. HypInv(hyp') /\ KeepsCore(vm_suspend(h, u), hyp')
    BY <1>1, <2>1, <2>3, StopInv, StopKeepsCore
  <2>5. KeepsCore(hyp, hyp')
    BY <2>2, <2>3, <2>4 DEF KeepsCore
  <2> QED
    BY <1>4, <1>15, <2>4, <2>5 DEF Revoke
<1>16. CASE Iabt
  BY <1>1, <1>4, <1>5, <1>16 DEF Iabt
<1> QED
  BY <1>6, <1>7, <1>8, <1>9, <1>10, <1>11, <1>12, <1>14, <1>15, <1>16 DEF Next, NextLive

\* Nothing changes when no handler runs.
LEMMA StutterInv ==
    ASSUME Inv, UNCHANGED vars
    PROVE  Inv' /\ SwitchesToSlot
BY DEF Inv, vars, UartGated, CurrentVm, SwitchesToSlot

\* The invariant holds when sched_run has launched the first guest.
LEMMA InitInv == sched_run => Inv
<1> SUFFICES ASSUME sched_run PROVE Inv
  OBVIOUS
<1>1. hyp = BootMachine /\ sched = [cur |-> FirstSlot, timer |-> TRUE, uart |-> FALSE]
  BY DEF sched_run
<1>2. sched \in SchedState /\ ~sched.uart
  BY <1>1, FirstSlotIsSlot DEF SchedState
<1> QED
  BY <1>1, <1>2, BootInv DEF Inv, UartGated
---------------------------------------------------------------------------
\* Every reachable state of the scheduler satisfies the inductive invariant.
THEOREM InvHolds == Spec => []Inv
<1>1. sched_run => Inv
  BY InitInv
<1>2. Inv /\ [Next]_vars => Inv'
  BY StepInv, StutterInv
<1> QED
  BY <1>1, <1>2, PTL DEF Spec

\* The state of the machine and of the scheduler is well formed, for any number
\* of VMs, vCPUs and pool entries; in particular vm_finalize never takes an entry
\* beyond the end of _vcpu_pool.
THEOREM TypeCorrect == Spec => []TypeOK
<1>1. Inv => TypeOK
  BY DEF Inv, HypInv, TypeOK
<1> QED
  BY <1>1, InvHolds, PTL

\* Mutual exclusion on the core: a vCPU whose state is RUNNING is the one
\* g_current_vcpu[0] points to (vcpu_do_switch, vm_stop, vm_finalize).
THEOREM MutualExclusion == Spec => []OneRunning
<1>1. Inv => OneRunning
  BY DEF Inv, HypInv, OnlyCurrentRuns, OneRunning
<1> QED
  BY <1>1, InvHolds, PTL

\* No pool entry is in two places of the vcpus[] tables, after any number of
\* failovers (vm_finalize).
THEOREM NoSharedVcpu == Spec => []VcpusDistinct
<1>1. Inv => VcpusDistinct
  BY DEF Inv, HypInv, Allocated, VcpusDistinct
<1> QED
  BY <1>1, InvHolds, PTL

\* A RUNNING VM has its memory mapped and no STOPPED vCPU, whatever stops,
\* suspends, resumes and failovers came before (vm_resume checks neither).
THEOREM RunningCanRun == Spec => []RunningIsRunnable
<1>1. ASSUME Inv PROVE RunningIsRunnable
  <2> SUFFICES ASSUME NEW v \in VMs, hyp.state[v] = "RUNNING",
                      NEW i \in 0..(hyp.nvc[v] - 1)
               PROVE  hyp.mapped[v] /\ hyp.pool[hyp.vcpus[v][i]].state # "STOPPED"
    <3>1. \A v \in VMs : hyp.state[v] = "RUNNING" => hyp.mapped[v]
      BY <1>1 DEF Inv, HypInv, Resumable
    <3> QED
      BY <3>1 DEF RunningIsRunnable
  <2>1. hyp.nvc[v] \in 0..MaxVcpu
    BY <1>1, Fields DEF Inv, HypInv
  <2>2. i \in VcpuId /\ i < hyp.nvc[v]
    BY <2>1, VmAssumption DEF VcpuId
  <2> QED
    BY <1>1, <2>2 DEF Inv, HypInv, Resumable
<1> QED
  BY <1>1, InvHolds, PTL

\* The UART interrupt is enabled only while Linux is on the core (gate_uart).
THEOREM UartOnlyForLinux == Spec => []UartGated
<1>1. Inv => UartGated
  BY DEF Inv
<1> QED
  BY <1>1, InvHolds, PTL

\* A context switch goes to a vCPU its VM owns, of a RUNNING and mapped VM, and
\* leaves VTTBR_EL2 with that VM's tables (slot_vcpu, do_switch, vcpu_do_switch).
THEOREM SwitchesAreSafe == Spec => DispatchSafe
<1> DEFINE Safe == hyp'.current # hyp.current =>
                     LET v == CurrentVm(hyp')
                     IN  /\ hyp.state[v] = "RUNNING"
                         /\ hyp.mapped[v]
                         /\ hyp'.vttbr = v
                         /\ hyp'.current \in VcpusOf(hyp, v)
                         /\ hyp.pool[hyp'.current].state # "STOPPED"
<1>1. ASSUME Inv, [Next]_vars PROVE Safe
  <2>1. SwitchesToSlot
    BY <1>1, StepInv, StutterInv
  <2> SUFFICES ASSUME hyp'.current # hyp.current PROVE Safe
    OBVIOUS
  <2>2. PICK k \in Slot : /\ slot_vcpu(hyp, k) # NULL
                          /\ hyp'.current = slot_vcpu(hyp, k)
                          /\ CurrentVm(hyp') = Slots[k].vm
                          /\ hyp'.vttbr = Slots[k].vm
    BY <2>1 DEF SwitchesToSlot
  <2> QED
    BY <1>1, <2>2, SlotVcpu DEF Inv
<1>2. Inv /\ [Next]_vars => [Safe]_vars
  BY <1>1
<1> QED
  BY <1>2, InvHolds, PTL DEF Spec, DispatchSafe
===========================================================================
