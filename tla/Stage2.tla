------------------------------ MODULE Stage2 ------------------------------
(***************************************************************************)
(* Stage-2 page tables and TLB maintenance (vre/mmu/stage2.c), the memory  *)
(* side of the VM life cycle (core/vm/vm.c), shared memory                 *)
(* (guest/shmem/shmem.c) and the DMA guard (vre/dma/dma_guard.c).          *)
(*                                                                         *)
(* Addresses are page numbers; an address that is not a multiple of 4 KB   *)
(* is an argument of its own (aligned = FALSE).  Tables are the entries of *)
(* the static pool; a descriptor of levels 1 and 2 is the number of the    *)
(* next table, one of level 3 the physical page and its attributes.        *)
(*                                                                         *)
(* The TLB holds translations under the VMID of the VM they were made for. *)
(* It may hold any translation the tables have had since the last flush of *)
(* that VMID; mmu.stale is the part of it the tables no longer have.       *)
(***************************************************************************)
EXTENDS Integers, Sequences, SequencesExt, FiniteSets

CONSTANTS
    SpaceVms,          \* VM ids, 1 .. the number of VMs
    Entries,           \* entries of a table (512 in the code)
    PtPoolPages,       \* PT_POOL_PAGES
    Regions,           \* vm->mem[] of each VM after device_profile_init
    EarlyPage,         \* the additional ranges vm_finalize maps for Linux
    MaxShmemRegions,   \* MAX_SHMEM_REGIONS
    ShmemPoolPa,       \* first page of the shared pool
    ShmemPoolSz,       \* pages of the shared pool
    ShmPairs,          \* arguments of the hypercalls that are explored: the
    ShmIpas, ShmSizes, \* parties, the pages and the sizes
    Invalid            \* a descriptor with the valid bit clear

ASSUME Stage2Assumption ==
    /\ Entries \in Nat \ {0, 1} /\ PtPoolPages \in Nat \ {0}
    /\ ShmPairs \subseteq SpaceVms \X SpaceVms
    /\ MaxShmemRegions \in Nat /\ ShmemPoolSz \in Nat

VARIABLES
    s2,      \* the pool, _pt_idx, the root of each VM, and the endless loop
    vmstate, \* RUNNING or STOPPED
    shm,     \* _regions[0 .. _nr - 1] and _cursor
    mmu      \* the VM of VTTBR_EL2 and the outdated translations of each VMID

s2vars == <<s2, vmstate, shm, mmu>>

Span == Entries * Entries * Entries

\* The new table is the one at the old index; without one the core spins.
pt_alloc(s) ==
    IF s.pt_idx >= PtPoolPages THEN [s EXCEPT !.hung = TRUE]
    ELSE [s EXCEPT !.pt_idx = @ + 1,
                   !.pool[s.pt_idx] = [i \in 0 .. Entries - 1 |-> Invalid]]

s2_create(s, v) == pt_alloc([s EXCEPT !.root[v] = s.pt_idx])

\* Mutant: the level 1 index takes the place of the level 2 index.
TableIndex_off_by_level(ipa, level) ==
    CASE level = 1 -> (ipa \div (Entries * Entries)) % Entries
      [] level = 2 -> (ipa \div (Entries * Entries)) % Entries
      [] level = 3 -> ipa % Entries

\* i1, i2, i3: only 9 bits of the address are used at each level.
TableIndex(ipa, level) ==
    CASE level = 1 -> (ipa \div (Entries * Entries)) % Entries
      [] level = 2 -> (ipa \div Entries) % Entries
      [] level = 3 -> ipa % Entries

\* The table below entry i of table t, made when the entry is not valid.
Descend(s, t, i) ==
    IF s.hung \/ s.pool[t][i] # Invalid THEN s
    ELSE LET a == pt_alloc(s)
         IN  IF a.hung THEN a ELSE [a EXCEPT !.pool[t][i] = s.pt_idx]

MapPage(s, v, ipa, desc) ==
    LET l1 == s.root[v]
        a == Descend(s, l1, TableIndex(ipa, 1))
        l2 == a.pool[l1][TableIndex(ipa, 1)]
        b == Descend(a, l2, TableIndex(ipa, 2))
        l3 == b.pool[l2][TableIndex(ipa, 2)]
    IN  IF a.hung THEN a
        ELSE IF b.hung THEN b
        ELSE [b EXCEPT !.pool[l3][TableIndex(ipa, 3)] = desc]

\* Aligned arguments; the caller returns E_INVAL on the others.
s2_map(s, v, r) ==
    FoldLeft(LAMBDA a, k : MapPage(a, v, r.ipa + k, [pa |-> r.pa + k, attr |-> r.attr]),
             s, [k \in 1 .. r.n |-> k - 1])

\* The level 3 table and index of a page, or none.
Level3(s, v, ipa) ==
    LET t1 == s.pool[s.root[v]][TableIndex(ipa, 1)]
    IN  IF t1 = Invalid THEN Invalid ELSE s.pool[t1][TableIndex(ipa, 2)]

Walk(s, v, ipa) ==
    LET t3 == Level3(s, v, ipa)
    IN  IF t3 = Invalid THEN Invalid ELSE s.pool[t3][TableIndex(ipa, 3)]

UnmapPage(s, v, ipa) ==
    IF Level3(s, v, ipa) = Invalid THEN s
    ELSE [s EXCEPT !.pool[Level3(s, v, ipa)][TableIndex(ipa, 3)] = Invalid]

\* Tables that become empty stay in place.
s2_unmap(s, v, ipa, n) ==
    FoldLeft(LAMBDA a, k : UnmapPage(a, v, ipa + k), s, [k \in 1 .. n |-> k - 1])

\* Mutant: a level 3 table counts for all of its pages.
s2_ipa_is_mapped_coarse(s, v, ipa, n) ==
    \E k \in 0 .. n - 1 : Level3(s, v, ipa + k) # Invalid

\* True when one page of the range is mapped.
s2_ipa_is_mapped(s, v, ipa, n) == \E k \in 0 .. n - 1 : Walk(s, v, ipa + k) # Invalid

\* In whole pages.
dma_guard_check_ipa(s, v, ipa, n) ==
    IF n > 0 /\ s2_ipa_is_mapped(s, v, ipa, n) THEN "E_OK" ELSE "E_INVAL"

\* A size of 0 is a page.  A refusal is charged to the caller (HypFault).
hvc_dma_xfer(s, v, ipa, n) ==
    IF dma_guard_check_ipa(s, v, ipa, IF n = 0 THEN 1 ELSE n) = "E_OK" THEN "E_OK" ELSE "E_DENIED"
---------------------------------------------------------------------------
\* The attributes vm_finalize derives from the flags of a region.
S2Flags(flags) == [dev |-> "IO" \in flags, xn |-> "X" \notin flags]

MapRegion(s, v, r) ==
    s2_map(s, v, [ipa |-> r.ipa, n |-> r.n, pa |-> r.pa, attr |-> S2Flags(r.flags)])

\* The part of vm_finalize that builds the tables.
vm_finalize(s, v) ==
    FoldLeft(LAMBDA a, r : MapRegion(a, v, r), s, Regions[v] \o EarlyPage[v])

\* The part of vm_stop that clears the tables.
vm_stop(s, v) == FoldLeft(LAMBDA a, r : s2_unmap(a, v, r.ipa, r.n), s, Regions[v])

\* The flush that ends s2_map and s2_unmap is for the VMID in VTTBR_EL2, whichever
\* VM the tables are of.
s2_dsb_tlb_isb(m) == [m EXCEPT !.stale[m.vttbr] = {}]

\* VTTBR_EL2 is not put back.
s2_flush_tlb(m, v) == s2_dsb_tlb_isb([m EXCEPT !.vttbr = v])

\* Mutant: the flush of vm_stop is left out.
StopFlushes_unmaps_only(m, v) == s2_dsb_tlb_isb(m)

\* The flushes of vm_stop.
StopFlushes(m, v) == s2_flush_tlb(s2_dsb_tlb_isb(m), v)

\* The translations of VM v in the tables s.
Translations(s, v) ==
    {e \in {<<p, Walk(s, v, p)>> : p \in 0 .. Span - 1} : e[2] # Invalid}

\* The tables change from s to t, before the flush.
Outdated(m, s, t) ==
    [m EXCEPT !.stale = [v \in SpaceVms |-> (@[v] \union Translations(s, v)) \ Translations(t, v)]]

BootTables ==
    LET vms == [v \in 1 .. Cardinality(SpaceVms) |-> v]
        empty == [pool |-> [t \in 0 .. PtPoolPages - 1 |-> [i \in 0 .. Entries - 1 |-> Invalid]],
                  pt_idx |-> 0, root |-> [v \in SpaceVms |-> 0], hung |-> FALSE]
    IN  FoldLeft(vm_finalize, FoldLeft(s2_create, empty, vms), vms)

Stage2Init ==
    /\ s2 = BootTables
    /\ vmstate = [v \in SpaceVms |-> "RUNNING"]
    /\ shm = [regions |-> <<>>, cursor |-> ShmemPoolPa]
    /\ mmu = [vttbr |-> 1, stale |-> [v \in SpaceVms |-> {}]]

\* vcpu_do_switch; no flush, the VMIDs differ.
SwitchTo(v) ==
    /\ vmstate[v] = "RUNNING" /\ mmu.vttbr # v
    /\ mmu' = [mmu EXCEPT !.vttbr = v]
    /\ UNCHANGED <<s2, vmstate, shm>>

HvcStop(v) ==
    /\ vmstate[v] # "STOPPED"
    /\ s2' = vm_stop(s2, v)
    /\ vmstate' = [vmstate EXCEPT ![v] = "STOPPED"]
    /\ mmu' = StopFlushes(Outdated(mmu, s2, s2'), v)
    /\ UNCHANGED shm

\* vm_stop, vm_finalize and vm_start of a failover.  When the vCPU pool is
\* used up (ok = FALSE) vm_finalize fails after it has mapped the memory.
Failover(v, ok) ==
    /\ s2' = vm_finalize(IF vmstate[v] = "STOPPED" THEN s2 ELSE vm_stop(s2, v), v)
    /\ vmstate' = [vmstate EXCEPT ![v] = IF ok THEN "RUNNING" ELSE "STOPPED"]
    /\ LET m == Outdated(mmu, s2, s2')
       IN  mmu' = s2_dsb_tlb_isb(IF vmstate[v] = "STOPPED" THEN m ELSE StopFlushes(m, v))
    /\ UNCHANGED shm

\* Mutant: the cursor stays, and the next region is on the same pages.
Taken_nothing(n) == 0

\* Mutant: the size is added twice.
Taken_twice(n) == 2 * n

\* Pages of the shared pool a mapping takes.
Taken(n) == n

\* With an address that is not aligned s2_map fails after the pages were
\* taken from the pool, and they are not given back.
shmem_map(src, dst, ipa, aligned, n) ==
    /\ Len(shm.regions) < MaxShmemRegions
    /\ shm.cursor + n <= ShmemPoolPa + ShmemPoolSz
    /\ LET r == [ipa |-> ipa, n |-> n, pa |-> shm.cursor, attr |-> [dev |-> FALSE, xn |-> FALSE]]
           m == IF aligned THEN s2_map(s2_map(s2, src, r), dst, r) ELSE s2
           region == [pa |-> r.pa, n |-> n, src |-> src, dst |-> dst, ipa |-> ipa, active |-> TRUE]
       IN  /\ s2' = m
           /\ shm' = [regions |-> IF aligned /\ ~m.hung THEN Append(shm.regions, region)
                                  ELSE shm.regions,
                      cursor |-> shm.cursor + Taken(n)]
           /\ mmu' = IF aligned THEN s2_dsb_tlb_isb(Outdated(mmu, s2, m)) ELSE mmu
    /\ UNCHANGED vmstate

\* The first active region at the address is released, with the size the
\* caller gives; a size that is not aligned unmaps nothing.
shmem_unmap(ipa, n, aligned) ==
    \E i \in DOMAIN shm.regions :
        /\ shm.regions[i].active /\ shm.regions[i].ipa = ipa
        /\ \A j \in 1 .. i - 1 : ~(shm.regions[j].active /\ shm.regions[j].ipa = ipa)
        /\ s2' = IF aligned
                 THEN s2_unmap(s2_unmap(s2, shm.regions[i].src, ipa, n), shm.regions[i].dst, ipa, n)
                 ELSE s2
        /\ shm' = [shm EXCEPT !.regions[i].active = FALSE]
        /\ mmu' = IF aligned THEN s2_dsb_tlb_isb(Outdated(mmu, s2, s2')) ELSE mmu
        /\ UNCHANGED vmstate

\* The loop of pt_alloc.
Spin == s2.hung /\ UNCHANGED s2vars

Stage2Next ==
    \/ /\ ~s2.hung
       /\ \/ \E v \in SpaceVms : \/ SwitchTo(v)
                                 \/ HvcStop(v)
                                 \/ \E ok \in BOOLEAN : Failover(v, ok)
          \/ \E ipa \in ShmIpas, n \in ShmSizes, aligned \in BOOLEAN :
                \/ \E pair \in ShmPairs : shmem_map(pair[1], pair[2], ipa, aligned, n)
                \/ shmem_unmap(ipa, n, aligned)
    \/ Spin

Stage2Spec == Stage2Init /\ [][Stage2Next]_s2vars
---------------------------------------------------------------------------
L2Tables(v) == {s2.pool[s2.root[v]][i] : i \in 0 .. Entries - 1} \ {Invalid}
L3Tables(v) == {s2.pool[t][i] : t \in L2Tables(v), i \in 0 .. Entries - 1} \ {Invalid}
Tables(v) == {s2.root[v]} \union L2Tables(v) \union L3Tables(v)

\* The types of the variables of stage2.c and shmem.c; the cursor stays within
\* the shared pool.  The tables of a VM form a tree, and no table is in the trees
\* of two VMs: what pt_alloc hands out belongs to one parent entry for ever.
Stage2TypeOK ==
    /\ s2.pt_idx \in 0 .. PtPoolPages /\ s2.hung \in BOOLEAN
    /\ vmstate \in [SpaceVms -> {"RUNNING", "STOPPED"}]
    /\ mmu.vttbr \in SpaceVms
    /\ Len(shm.regions) <= MaxShmemRegions
    /\ shm.cursor \in ShmemPoolPa .. ShmemPoolPa + ShmemPoolSz
    /\ \A v \in SpaceVms :
        /\ Tables(v) \subseteq 0 .. s2.pt_idx - 1
        /\ \A w \in SpaceVms \ {v} : Tables(v) \intersect Tables(w) = {}
        /\ Cardinality(Tables(v)) =
             1 + Cardinality({i \in 0 .. Entries - 1 : s2.pool[s2.root[v]][i] # Invalid})
               + Cardinality({<<t, i>> \in L2Tables(v) \X (0 .. Entries - 1) :
                                 s2.pool[t][i] # Invalid})

\* The descriptors VM v can reach, through its tables or through the TLB.
Reach(v) == {e[2] : e \in Translations(s2, v) \union mmu.stale[v]}

\* Two VMs reach the same page of the shared pool only as the two parties of
\* one shmem_map, however regions were released, VMs stopped and restarted
\* and calls failed in between, and whatever the TLB still holds.
SharedByParties ==
    LET seen == [v \in SpaceVms |-> {d.pa : d \in Reach(v)}
                                    \intersect ShmemPoolPa .. ShmemPoolPa + ShmemPoolSz - 1]
    IN  ~s2.hung =>
          \A v, w \in SpaceVms : v # w =>
             \A pa \in seen[v] \intersect seen[w] :
                \E i \in DOMAIN shm.regions :
                   LET r == shm.regions[i]
                   IN  pa \in r.pa .. r.pa + r.n - 1 /\ {v, w} = {r.src, r.dst}

\* The pages of v that a shmem_map or shmem_unmap with v as a party may have
\* changed; an unmap may name more pages than the region has.
SharedAt(v) ==
    {(shm.regions[i].ipa + k) % Span : i \in {j \in DOMAIN shm.regions :
                                                v \in {shm.regions[j].src, shm.regions[j].dst}},
                                      k \in 0 .. Max(ShmSizes) - 1}

\* No VM runs on a translation of its memory or its devices that the tables no
\* longer have: after any stops, restarts and switches a cached translation that
\* disagrees with the tables is one of a page that was shared (vm_stop ends with
\* s2_flush_tlb; s2_map and s2_unmap flush only the VMID in VTTBR_EL2).
StaleOnlyWhereShared ==
    ~s2.hung => \A v \in SpaceVms : \A e \in mmu.stale[v] : e[1] \in SharedAt(v)

OwnPages(v) ==
    LET rs == Regions[v] \o EarlyPage[v]
    IN  UNION {{(rs[i].ipa + k) % Span : k \in 0 .. rs[i].n - 1} : i \in DOMAIN rs}

\* Stopping a VM and failing over take no page-table memory: the tables that
\* s2_unmap empties are found again by vm_finalize, so that restarts cannot
\* use the pool up.  And they bring back all of the VM's memory and nothing else:
\* where nothing was shared, the DMA guard grants a page exactly when the page is
\* the VM's, while the VM is RUNNING; to a STOPPED VM it grants no other.
RestartRestoresMemory ==
    /\ [][shm' = shm => s2'.pt_idx = s2.pt_idx]_s2vars
    /\ [](~s2.hung => \A v \in SpaceVms :
             LET own == OwnPages(v)
                 granted == {p \in 0 .. Span - 1 : hvc_dma_xfer(s2, v, p, 0) = "E_OK"} \ SharedAt(v)
             IN  /\ granted \subseteq own
                 /\ vmstate[v] = "RUNNING" => own \ SharedAt(v) \subseteq granted)

\* The three-level tables behave as one flat map for each VM.
Flat == INSTANCE AddressSpace WITH
    space <- [v \in SpaceVms |-> [p \in 0 .. Span - 1 |-> Walk(s2, v, p)]],
    hung <- s2.hung,
    Fault <- Invalid,
    Image <- [v \in SpaceVms |->
                 [i \in DOMAIN (Regions[v] \o EarlyPage[v]) |->
                     LET r == (Regions[v] \o EarlyPage[v])[i]
                     IN  [ipa |-> r.ipa, n |-> r.n, pa |-> r.pa, attr |-> S2Flags(r.flags)]]],
    Shared <- {r \in [ipa : ShmIpas, n : ShmSizes, pa : ShmemPoolPa .. ShmemPoolPa + ShmemPoolSz,
                      attr : {[dev |-> FALSE, xn |-> FALSE]}] :
                 r.pa + r.n <= ShmemPoolPa + ShmemPoolSz}

\* s2_map, s2_unmap and the walk agree with the flat
\* maps: a page is translated by the last mapping made for it in this VM
\* (device pages over RAM included), whatever was shared or restarted.  The
\* abstract variables depend on s2 alone.
ImplementsAddressSpace ==
    Flat!SpaceInit /\ [][UNCHANGED s2 \/ Flat!SpaceNext]_s2vars
===========================================================================
