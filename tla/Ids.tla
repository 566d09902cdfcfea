-------------------------------- MODULE Ids --------------------------------
(***************************************************************************)
(* Fault detection and the intrusion detector: vse/fault_detect.c and      *)
(* vse/ids.c, on top of the trust engine.                                  *)
(*                                                                         *)
(* The variable ids holds the monitor of every VM (g_ids.mon[]) and log,   *)
(* the audit records the last handler appended; the ring buffer that keeps *)
(* them is the module AuditLog.  Times are ages, counted up to the largest *)
(* value the code tells apart: wage is now - window_start_us, fage is      *)
(* now - first_fault_us or Never when first_fault_us is 0.  The counters   *)
(* window_faults (wfaults) and repeat_run (run) are only compared for      *)
(* equality with a limit, and are counted up to one past it.               *)
(*                                                                         *)
(* hist and polled are history variables: the latest faults of every VM,   *)
(* with their age and whether a STORM was raised on them, and the trust    *)
(* levels when the previous poll ended.                                    *)
(***************************************************************************)
EXTENDS Trust, Sequences

CONSTANTS FaultTypes,      \* TRUST_FAULT_MEM, TRUST_FAULT_DMA
          StormFaults,     \* IDS_STORM_FAULTS
          StormWindow,     \* IDS_STORM_WINDOW_US
          RapidTime,       \* IDS_RAPID_US
          RepeatCount,     \* IDS_REPEAT_COUNT
          EnforceStorm     \* IDS_ENFORCE

VARIABLES ids, hist, polled

Never == -1
NoType == 0

ASSUME IdsAssumption ==
    /\ NoType \notin FaultTypes
    /\ StormFaults \in Nat /\ StormWindow \in Nat /\ RapidTime \in Nat
    /\ RepeatCount \in Nat \ {0, 1}
    /\ EnforceStorm \in BOOLEAN

Events == {"FAULT", "REPEAT", "STORM", "ENFORCE", "RAPID", "TRUST_DROP", "POLL"}

IdsState == [wage : [VMs -> 0..(StormWindow + 1)],
             wfaults : [VMs -> 0..(StormFaults + 2)],
             fage : [VMs -> Never..RapidTime],
             ltype : [VMs -> FaultTypes \union {NoType}],
             run : [VMs -> 0..(RepeatCount + 1)],
             seen : [VMs -> TRUSTED..REVOKED],
             log : SUBSET ((VMs \union {NULL}) \X Events)]

ids_init ==
    ids = [wage |-> [v \in VMs |-> 0],
           wfaults |-> [v \in VMs |-> 0],
           fage |-> [v \in VMs |-> Never],
           ltype |-> [v \in VMs |-> NoType],
           run |-> [v \in VMs |-> 0],
           seen |-> trust.level,
           log |-> {}]
---------------------------------------------------------------------------
\* The repeat detector.
Repeats(i, v, type) == type = i.ltype[v]

\* Mutant: another type does not restart the run.
RunLength_no_reset(i, v, type) ==
    Bump(i.run[v], RepeatCount + 1)

RunLength(i, v, type) ==
    IF Repeats(i, v, type) THEN Bump(i.run[v], RepeatCount + 1) ELSE 1

\* Mutant: the window never restarts.
WindowExpired_never(i, v) == FALSE

\* The storm detector: a window that has expired starts again at this fault.
WindowExpired(i, v) == i.wage[v] > StormWindow

WindowFaults(i, v) ==
    IF WindowExpired(i, v) THEN 1 ELSE Bump(i.wfaults[v], StormFaults + 2)

Storm(i, v) == ~WindowExpired(i, v) /\ WindowFaults(i, v) = StormFaults + 1

\* ids_notify_fault on s, a record of hyp, trust and ids.  A storm quarantines
\* the VM at once; the rapid detector then reads the level that leaves.
ids_notify_fault(s, v, type) ==
    LET i == s.ids
        storm == Storm(i, v)
        enforce == storm /\ EnforceStorm /\ ~trust_is_blocked(s.trust, v)
        vse == [hyp |-> s.hyp, trust |-> s.trust]
        after == IF enforce THEN trust_quarantine(vse, v) ELSE vse
        first == IF i.fage[v] = Never THEN 0 ELSE i.fage[v]
        rapid == trust_is_blocked(after.trust, v) /\ first < RapidTime
        repeat == Repeats(i, v, type) /\ RunLength(i, v, type) = RepeatCount
        logged == {"FAULT"} \union (IF repeat THEN {"REPEAT"} ELSE {})
                            \union (IF storm THEN {"STORM"} ELSE {})
                            \union (IF enforce THEN {"ENFORCE"} ELSE {})
                            \union (IF rapid THEN {"RAPID"} ELSE {})
    IN  [hyp |-> after.hyp,
         trust |-> after.trust,
         ids |-> [i EXCEPT !.run[v] = RunLength(i, v, type),
                           !.ltype[v] = type,
                           !.wage[v] = IF WindowExpired(i, v) THEN 0 ELSE @,
                           !.wfaults[v] = WindowFaults(i, v),
                           !.fage[v] = IF rapid THEN Never ELSE first,
                           !.log = {<<v, e>> : e \in logged}]]

\* fdetect_mem_fault and fdetect_dma_violation, which differ in the type.
fdetect(s, v, type) ==
    LET r == trust_report_fault([hyp |-> s.hyp, trust |-> s.trust], v)
    IN  ids_notify_fault([hyp |-> r.hyp, trust |-> r.trust, ids |-> s.ids], v, type)

\* Mutant: the wrong level is taken for the unset one.
Dropped_unless_trusted(s) ==
    {v \in VMs : s.trust.level[v] > s.ids.seen[v] /\ s.ids.seen[v] # TRUSTED}

\* ids_poll: report the VMs whose level got worse since it was last seen, then
\* promote the clean ones.
Dropped(s) == {v \in VMs : s.trust.level[v] > s.ids.seen[v]}

\* Mutant: the promotion scan is not called.
ids_poll_no_promotion(s) ==
    [s EXCEPT !.ids.seen = s.trust.level,
              !.ids.log = {<<v, "TRUST_DROP">> : v \in Dropped(s)}
                          \union {<<NULL, "POLL">>}]

ids_poll(s) ==
    [s EXCEPT !.ids.seen = s.trust.level,
              !.ids.log = {<<v, "TRUST_DROP">> : v \in Dropped(s)}
                          \union {<<NULL, "POLL">>},
              !.trust = trust_auto_promote_tick(s.trust)]

\* Time passes.
IdsAged(i) ==
    [i EXCEPT !.wage = [v \in VMs |-> Bump(i.wage[v], StormWindow + 1)],
              !.fage = [v \in VMs |-> IF i.fage[v] = Never THEN Never
                                      ELSE Bump(i.fage[v], RapidTime)],
              !.log = {}]
---------------------------------------------------------------------------
Max2(m, n) == IF m > n THEN m ELSE n

\* The number of faults the history keeps.
HistLen == Max2(StormFaults, RepeatCount) + 1

Fault == [age : 0..(StormWindow + 1), type : FaultTypes, storm : BOOLEAN]

\* The history after a fault that raised, or did not raise, a STORM.
Recorded(hs, type, storm) ==
    LET h == Append(hs, [age |-> 0, type |-> type, storm |-> storm])
    IN  IF Len(h) > HistLen THEN Tail(h) ELSE h

HistAged == [v \in VMs |-> [n \in 1..Len(hist[v]) |->
               [hist[v][n] EXCEPT !.age = Bump(@, StormWindow + 1)]]]
---------------------------------------------------------------------------
ivars == <<hyp, sched, trust, ids, hist, polled>>
All == [hyp |-> hyp, trust |-> trust, ids |-> ids]

\* What a fault handler does, without the history.
HandleFault(v, type) ==
    LET s == fdetect(All, v, type)
    IN  hyp' = s.hyp /\ trust' = s.trust /\ ids' = s.ids

GuestFault(v, type) ==
    /\ hyp.mapped[v]
    /\ HandleFault(v, type)
    /\ hist' = [hist EXCEPT ![v] = Recorded(@, type, <<v, "STORM">> \in ids'.log)]
    /\ UNCHANGED <<sched, polled>>

\* What a poll does to the trust engine and the detector.
PollNow == LET s == ids_poll(All) IN trust' = s.trust /\ ids' = s.ids

IdsPoll == PollNow /\ polled' = trust'.level /\ UNCHANGED <<hyp, sched, hist>>

TimePasses ==
    /\ trust' = Aged(trust) /\ ids' = IdsAged(ids) /\ hist' = HistAged
    /\ UNCHANGED <<hyp, sched, polled>>

IdsNext ==
    \/ \E v \in VMs, type \in FaultTypes : GuestFault(v, type)
    \/ IdsPoll
    \/ TimePasses

IdsInit ==
    /\ TrustInit
    /\ ids_init
    /\ hist = [v \in VMs |-> << >>]
    /\ polled = trust.level

IdsSpec == IdsInit /\ [][IdsNext]_ivars

\* A clock that advances; polls and faults come when they come.
IdsFairSpec == IdsSpec /\ WF_ivars(TimePasses)
---------------------------------------------------------------------------
\* The monitors, the records and the history are well formed.
IdsTypeOK ==
    /\ TrustTypeOK
    /\ ids \in IdsState
    /\ \A v \in VMs : Len(hist[v]) <= HistLen /\ \A n \in 1..Len(hist[v]) : hist[v][n] \in Fault
    /\ polled \in [VMs -> TRUSTED..REVOKED]

\* The latest n faults of a VM, oldest first.
Latest(h, n) == SubSeq(h, Len(h) - n + 1, Len(h))

\* The faults in h came within one storm window.
InOneWindow(h) == h[1].age - h[Len(h)].age <= StormWindow

\* No false storm: ids_notify_fault raises STORM, and quarantines the VM for it,
\* only when more than IDS_STORM_FAULTS faults of that VM fell within one
\* window, however windows were started and expired before.
StormSound ==
    [][\A v \in VMs : <<v, "STORM">> \in ids'.log =>
         /\ Len(hist'[v]) > StormFaults
         /\ InOneWindow(Latest(hist'[v], StormFaults + 1))]_ivars

\* Every n-th fault of one type in a row, n = IDS_REPEAT_COUNT, raises REPEAT
\* once: on the fault that completes the run, and on no other.
RepeatExact ==
    [][\A v \in VMs : <<v, "FAULT">> \in ids'.log =>
         LET h == hist'[v]
             sameType(n) == \A k \in 1..n : h[Len(h) + 1 - k].type = h[Len(h)].type
         IN  (<<v, "REPEAT">> \in ids'.log) <=>
               /\ Len(h) >= RepeatCount
               /\ sameType(RepeatCount)
               /\ Len(h) > RepeatCount => ~sameType(RepeatCount + 1)]_ivars

\* A VM that was free to run at the end of one poll and is blocked at the next
\* is reported by that poll, although promotions, faults and failovers moved its
\* level in between.
BlockReported ==
    [][\A v \in VMs :
         /\ <<NULL, "POLL">> \in ids'.log
         /\ polled[v] < QUARANTINE /\ trust.level[v] >= QUARANTINE
         => <<v, "TRUST_DROP">> \in ids'.log]_ivars

Polled == <<NULL, "POLL">> \in ids.log

\* A DEGRADED VM that stops faulting gets its trust back, as long as polls go on
\* (trust_auto_promote_tick from ids_poll).
CleanVmIsPromoted ==
    \A v \in VMs :
      []<>Polled => []<>(trust.level[v] # DEGRADED \/ trust.age[v] = 0)

\* "so we enforce once per incident" (ids.c): handling one fault spends at most
\* one failover attempt.
EnforcedOnce ==
    [][\A v \in VMs : trust'.attempts[v] <= trust.attempts[v] + 1]_ivars
===========================================================================
