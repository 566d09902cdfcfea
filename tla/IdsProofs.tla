----------------------------- MODULE IdsProofs -----------------------------
(***************************************************************************)
(* Proofs about Ids, for any thresholds, window and number of VMs.  What a *)
(* fault does to the machine and the trust records is put together from    *)
(* the lemmas of TrustProofs for trust_report_fault and trust_quarantine;  *)
(* the detectors are related to the history of the faults.                 *)
(***************************************************************************)
EXTENDS Ids, TrustProofs

Pair(r) == [hyp |-> r.hyp, trust |-> r.trust]

\* What ids_notify_fault leaves of r, the state after trust_report_fault.
Enforced(i, r, v) ==
    IF Storm(i, v) /\ EnforceStorm /\ ~trust_is_blocked(r.trust, v)
    THEN trust_quarantine(Pair(r), v) ELSE Pair(r)

\* The level of v got no better.
NotRaised(s, r, v) == r.trust.level[v] >= s.trust.level[v]
---------------------------------------------------------------------------
\* A pair and its copy have the same properties.
LEMMA PairInv ==
    ASSUME NEW r, VseInv(r)
    PROVE  VseInv(Pair(r)) /\ Pair(r).hyp = r.hyp /\ Pair(r).trust = r.trust
<1>1. Pair(r).hyp = r.hyp /\ Pair(r).trust = r.trust
  BY DEF Pair
<1> QED
  BY <1>1 DEF VseInv, WellFormed, VmOK, StateOK, TrustedIsClean, FaultyIsBlocked

\* trust_quarantine never improves a level: the failover it may start makes the
\* VM DEGRADED, which it was at best.
LEMMA QuarantineNotRaised ==
    ASSUME NEW s, VseInv(s), NEW v \in VMs
    PROVE  NotRaised(s, trust_quarantine(s, v), v)
<1>1. s.trust.level[v] \in TRUSTED..REVOKED
  BY TrustFields DEF VseInv, WellFormed
<1>2. WellFormed(s) /\ StateOK(s, v)
  BY DEF VseInv, VmOK
<1>3. /\ trust_is_blocked(s.trust, v) => trust_quarantine(s, v) = s
      /\ ~trust_is_blocked(s.trust, v) => Quarantined(s, trust_quarantine(s, v), v)
  BY <1>2, QuarantineEffect
<1>4. CASE trust_is_blocked(s.trust, v)
  BY <1>1, <1>3, <1>4, Levels DEF NotRaised
<1>5. CASE ~trust_is_blocked(s.trust, v)
  <2>1. s.trust.level[v] <= DEGRADED
    BY <1>1, <1>5, Levels DEF trust_is_blocked
  <2> DEFINE r == trust_quarantine(s, v)
  <2>2. WellFormed(r) /\ (r.trust.level[v] >= QUARANTINE \/ r.trust.level[v] = DEGRADED)
    BY <1>3, <1>5 DEF Quarantined
  <2> HIDE DEF r
  <2>3. r.trust.level[v] \in TRUSTED..REVOKED
    BY <2>2, TrustFields DEF WellFormed
  <2>4. NotRaised(s, r, v)
    BY <1>1, <2>1, <2>2, <2>3, Levels DEF NotRaised
  <2> QED
    BY <2>4 DEF r
<1> QED
  BY <1>4, <1>5

\* Nor does trust_report_fault.
LEMMA ReportNotRaised ==
    ASSUME NEW s, VseInv(s), NEW v \in VMs
    PROVE  NotRaised(s, trust_report_fault(s, v), v)
<1> DEFINE t == [s.trust EXCEPT !.faults[v] = Bump(@, ThreshQuarantine), !.age[v] = 0]
           n == [hyp |-> s.hyp, trust |-> t]
           d == trust_set(t, v, DEGRADED)
           r == trust_report_fault(s, v)
<1>1. /\ HypInv(s.hyp) /\ s.trust \in TrustState /\ StateOK(s, v)
      /\ s.trust.level[v] \in TRUSTED..REVOKED
  BY TrustFields DEF VseInv, WellFormed, VmOK
<1>2. CASE s.trust.level[v] = REVOKED
  BY <1>1, <1>2, Levels DEF trust_report_fault, NotRaised
<1>3. CASE s.trust.level[v] # REVOKED
  <2>1. Bump(s.trust.faults[v], ThreshQuarantine) \in 0..ThreshQuarantine
    BY <1>1, TrustFields, TrustAssumption DEF Bump
  <2>2. t \in TrustState /\ t.level = s.trust.level /\ t.attempts = s.trust.attempts
    <3>1. 0 \in 0..CleanPeriod
      BY TrustAssumption
    <3> QED
      BY <1>1, <2>1, <3>1, Zenon DEF TrustState
  <2>3. \/ r = trust_quarantine(n, v)
        \/ r = [n EXCEPT !.trust = d] /\ t.level[v] = TRUSTED
        \/ r = n
    BY <1>3 DEF trust_report_fault
  <2> HIDE DEF t
  <2>4. n = [hyp |-> s.hyp, trust |-> t] /\ n.hyp = s.hyp /\ n.trust = t
    OBVIOUS
  <2> HIDE DEF n, r
  <2>5. WellFormed(n) /\ StateOK(n, v)
    BY <1>1, <2>2, <2>4 DEF WellFormed, StateOK
  <2>6. CASE r = trust_quarantine(n, v)
    <3>1. /\ trust_is_blocked(n.trust, v) => r = n
          /\ ~trust_is_blocked(n.trust, v) => Quarantined(n, r, v)
      BY <2>5, <2>6, QuarantineEffect
    <3>2. CASE trust_is_blocked(n.trust, v)
      BY <1>1, <2>2, <2>4, <3>1, <3>2, Levels DEF NotRaised, r
    <3>3. CASE ~trust_is_blocked(n.trust, v)
      <4>1. WellFormed(r) /\ (r.trust.level[v] >= QUARANTINE \/ r.trust.level[v] = DEGRADED)
        BY <3>1, <3>3 DEF Quarantined
      <4>2. r.trust.level[v] \in TRUSTED..REVOKED
        BY <4>1, TrustFields DEF WellFormed
      <4>3. s.trust.level[v] <= DEGRADED
        BY <1>1, <2>2, <2>4, <3>3, Levels DEF trust_is_blocked
      <4> QED
        BY <1>1, <4>1, <4>2, <4>3, Levels DEF NotRaised, r
    <3> QED
      BY <3>2, <3>3
  <2>7. CASE r = [n EXCEPT !.trust = d] /\ t.level[v] = TRUSTED
    <3>1. d.level = [t.level EXCEPT ![v] = DEGRADED] /\ t.level \in [VMs -> TRUSTED..REVOKED]
      <4>1. DEGRADED \in TRUSTED..REVOKED
        BY Levels
      <4> QED
        BY <2>2, <4>1, SetLevel, TrustFields
    <3> HIDE DEF d
    <3>2. r.trust.level[v] = DEGRADED
      BY <2>4, <2>7, <3>1
    <3> QED
      BY <2>2, <2>7, <3>2, Levels DEF NotRaised, r
  <2>8. CASE r = n
    BY <1>1, <2>2, <2>4, <2>8, Levels DEF NotRaised, r
  <2> QED
    BY <2>3, <2>6, <2>7, <2>8
<1> QED
  BY <1>2, <1>3

\* What a fault does to the machine and the trust records.
LEMMA FaultIs ==
    ASSUME NEW v \in VMs, NEW type, HandleFault(v, type)
    PROVE  LET a == Enforced(ids, trust_report_fault(Vse, v), v)
           IN  hyp' = a.hyp /\ trust' = a.trust
<1>1. [hyp |-> All.hyp, trust |-> All.trust] = Vse /\ All.ids = ids
  BY DEF All, Vse
<1> DEFINE r == trust_report_fault(Vse, v)
           s == [hyp |-> r.hyp, trust |-> r.trust, ids |-> ids]
           f == ids_notify_fault(s, v, type)
<1>2. hyp' = f.hyp /\ trust' = f.trust
  BY <1>1 DEF HandleFault, fdetect
<1>3. f.hyp = Enforced(ids, r, v).hyp /\ f.trust = Enforced(ids, r, v).trust
  BY DEF ids_notify_fault, Enforced, Pair
<1> QED
  BY <1>2, <1>3

\* The fault keeps what trust_report_fault and trust_quarantine keep.
LEMMA FaultInv ==
    ASSUME NEW v \in VMs, NEW type, VseInv(Vse), HandleFault(v, type)
    PROVE  VseInv(Vse') /\ OnlyVm(Vse, Vse', v) /\ NotRaised(Vse, Vse', v)
<1> DEFINE r == trust_report_fault(Vse, v)
           p == Pair(r)
           q == trust_quarantine(p, v)
<1>1. VseInv(r) /\ OnlyVm(Vse, r, v) /\ NotRaised(Vse, r, v)
  <2>1. WellFormed(r) /\ OnlyVm(Vse, r, v) /\ VmOK(r, v)
    BY ReportInv
  <2>2. NotRaised(Vse, r, v)
    BY ReportNotRaised
  <2> HIDE DEF r
  <2> QED
    BY <2>1, <2>2, LocalInv
<1>2. \/ Enforced(ids, r, v) = p
      \/ Enforced(ids, r, v) = q
  BY DEF Enforced
<1>3. /\ hyp' = Enforced(ids, r, v).hyp /\ trust' = Enforced(ids, r, v).trust
      /\ Vse'.hyp = hyp' /\ Vse'.trust = trust'
  BY FaultIs DEF Vse
<1> HIDE DEF r
<1>4. VseInv(p) /\ p.hyp = r.hyp /\ p.trust = r.trust
  BY <1>1, PairInv
<1> HIDE DEF p
<1>5. VseInv(q) /\ OnlyVm(p, q, v) /\ NotRaised(p, q, v)
  <2>1. WellFormed(p) /\ StateOK(p, v)
    BY <1>4 DEF VseInv, VmOK
  <2>2. WellFormed(q) /\ OnlyVm(p, q, v) /\ VmOK(q, v)
    BY <2>1, QuarantineInv
  <2>3. NotRaised(p, q, v)
    BY <1>4, QuarantineNotRaised
  <2> HIDE DEF q
  <2> QED
    BY <1>4, <2>2, <2>3, LocalInv
<1>6. /\ VseInv(q) /\ OnlyVm(Vse, q, v) /\ NotRaised(Vse, q, v)
      /\ VseInv(p) /\ OnlyVm(Vse, p, v) /\ NotRaised(Vse, p, v)
  <2> HIDE DEF q
  <2>1. /\ Vse.trust.level[v] \in Int /\ p.trust.level[v] \in Int /\ q.trust.level[v] \in Int
    <3>1. /\ Vse.trust.level[v] \in TRUSTED..REVOKED /\ p.trust.level[v] \in TRUSTED..REVOKED
          /\ q.trust.level[v] \in TRUSTED..REVOKED
      BY <1>4, <1>5, TrustFields DEF VseInv, WellFormed
    <3> QED
      BY <3>1, Levels
  <2>2. OnlyVm(Vse, q, v) /\ OnlyVm(Vse, p, v)
    BY <1>1, <1>4, <1>5 DEF OnlyVm
  <2>3. NotRaised(Vse, q, v) /\ NotRaised(Vse, p, v)
    BY <1>1, <1>4, <1>5, <2>1 DEF NotRaised
  <2> QED
    BY <1>4, <1>5, <2>2, <2>3
<1> HIDE DEF q
<1>7. PICK a \in {p, q} : Vse'.hyp = a.hyp /\ Vse'.trust = a.trust
  BY <1>2, <1>3
<1>8. VseInv(a) /\ OnlyVm(Vse, a, v) /\ NotRaised(Vse, a, v)
  BY <1>6, SMTT(40)
<1> HIDE DEF p
<1>9. VseInv(Vse')
  BY <1>7, <1>8 DEF VseInv, WellFormed, VmOK, StateOK, TrustedIsClean, FaultyIsBlocked
<1>10. OnlyVm(Vse, Vse', v) /\ NotRaised(Vse, Vse', v)
  BY <1>7, <1>8 DEF OnlyVm, NotRaised
<1> QED
  BY <1>9, <1>10
---------------------------------------------------------------------------
\* The fields of the monitors, one by one.
LEMMA IdsFields ==
    ASSUME NEW i \in IdsState
    PROVE  /\ i.wage \in [VMs -> 0..(StormWindow + 1)]
           /\ i.wfaults \in [VMs -> 0..(StormFaults + 2)]
           /\ i.fage \in [VMs -> Never..RapidTime]
           /\ i.ltype \in [VMs -> FaultTypes \union {NoType}]
           /\ i.run \in [VMs -> 0..(RepeatCount + 1)]
           /\ i.seen \in [VMs -> TRUSTED..REVOKED]
           /\ i.log \in SUBSET ((VMs \union {NULL}) \X Events)
BY DEF IdsState

\* What ids_notify_fault does to the monitors.
LEMMA NotifyIds ==
    ASSUME NEW i \in IdsState, NEW s, s.ids = i, NEW v \in VMs, NEW type \in FaultTypes
    PROVE  LET j == ids_notify_fault(s, v, type).ids
           IN  /\ j \in IdsState
               /\ j.run = [i.run EXCEPT ![v] = RunLength(i, v, type)]
               /\ j.ltype = [i.ltype EXCEPT ![v] = type]
               /\ j.wage = [i.wage EXCEPT ![v] = IF WindowExpired(i, v) THEN 0 ELSE i.wage[v]]
               /\ j.wfaults = [i.wfaults EXCEPT ![v] = WindowFaults(i, v)]
               /\ j.seen = i.seen
               /\ \A w \in VMs \union {NULL}, e \in Events : <<w, e>> \in j.log =>
                    /\ w = v
                    /\ e # "POLL"
                    /\ e = "STORM" => Storm(i, v)
                    /\ e = "REPEAT" => /\ Repeats(i, v, type)
                                       /\ RunLength(i, v, type) = RepeatCount
               /\ Repeats(i, v, type) /\ RunLength(i, v, type) = RepeatCount =>
                    <<v, "REPEAT">> \in j.log
<1> DEFINE storm == Storm(i, v)
           enforce == storm /\ EnforceStorm /\ ~trust_is_blocked(s.trust, v)
           vse == [hyp |-> s.hyp, trust |-> s.trust]
           after == IF enforce THEN trust_quarantine(vse, v) ELSE vse
           first == IF i.fage[v] = Never THEN 0 ELSE i.fage[v]
           rapid == trust_is_blocked(after.trust, v) /\ first < RapidTime
           repeat == Repeats(i, v, type) /\ RunLength(i, v, type) = RepeatCount
           logged == {"FAULT"} \union (IF repeat THEN {"REPEAT"} ELSE {})
                               \union (IF storm THEN {"STORM"} ELSE {})
                               \union (IF enforce THEN {"ENFORCE"} ELSE {})
                               \union (IF rapid THEN {"RAPID"} ELSE {})
           log == {<<v, e>> : e \in logged}
           fage == IF rapid THEN Never ELSE first
           wage == IF WindowExpired(i, v) THEN 0 ELSE i.wage[v]
           run == RunLength(i, v, type)
           wf == WindowFaults(i, v)
           j == ids_notify_fault(s, v, type).ids
<1>1. j = [i EXCEPT !.run[v] = run, !.ltype[v] = type, !.wage[v] = wage,
                    !.wfaults[v] = wf, !.fage[v] = fage, !.log = log]
  BY DEF ids_notify_fault
<1>2. logged \subseteq Events \ {"POLL"} /\ ("STORM" \in logged => storm)
      /\ ("REPEAT" \in logged <=> repeat)
  BY DEF Events
<1>3. fage \in Never..RapidTime
  <2>1. i.fage[v] \in Never..RapidTime /\ 0 \in Never..RapidTime /\ Never \in Never..RapidTime
    BY IdsFields, IdsAssumption DEF Never
  <2> HIDE DEF rapid
  <2> QED
    BY <2>1
<1>4. wage \in 0..(StormWindow + 1)
  BY IdsFields, IdsAssumption
<1>5. run \in 0..(RepeatCount + 1)
  BY IdsFields, IdsAssumption DEF RunLength, Bump
<1>6. wf \in 0..(StormFaults + 2)
  BY IdsFields, IdsAssumption DEF WindowFaults, Bump
<1> HIDE DEF logged, fage, wage, run, wf, repeat, storm
<1>7. log \in SUBSET ((VMs \union {NULL}) \X Events)
  BY <1>2
<1>8. \A w \in VMs \union {NULL}, e \in Events : <<w, e>> \in log <=> w = v /\ e \in logged
  BY <1>2
<1> HIDE DEF log, j
<1>9. j \in IdsState
  BY <1>1, <1>3, <1>4, <1>5, <1>6, <1>7, Zenon DEF IdsState
<1>10. /\ j.run = [i.run EXCEPT ![v] = run]
       /\ j.ltype = [i.ltype EXCEPT ![v] = type]
       /\ j.wage = [i.wage EXCEPT ![v] = wage]
       /\ j.wfaults = [i.wfaults EXCEPT ![v] = wf]
       /\ j.seen = i.seen /\ j.log = log
  BY <1>1 DEF IdsState
<1>11. \A w \in VMs \union {NULL}, e \in Events : <<w, e>> \in j.log =>
          w = v /\ e # "POLL" /\ (e = "STORM" => storm) /\ (e = "REPEAT" => repeat)
  BY <1>2, <1>8, <1>10
<1>12. repeat => <<v, "REPEAT">> \in j.log
  BY <1>2, <1>8, <1>10, Zenon DEF Events
<1> QED
  BY <1>9, <1>10, <1>11, <1>12 DEF j, run, wage, wf, repeat, storm
---------------------------------------------------------------------------
\* The k-th latest fault.
Back(h, k) == h[Len(h) + 1 - k]

\* The latest n faults are of one type.
SameType(h, n) == \A k \in 1..n : Back(h, k).type = Back(h, 1).type

HistOK(h) == h \in Seq(Fault) /\ Len(h) <= HistLen

\* The storm detector: the faults it has counted in the window that is open came
\* since that window started.
WindowInv(i, h, v) ==
    i.wage[v] <= StormWindow /\ i.wfaults[v] <= StormFaults =>
      /\ Len(h) >= i.wfaults[v]
      /\ \A k \in 1..i.wfaults[v] : Back(h, k).age <= i.wage[v]

\* The repeat detector: run is the length of the run of faults of one type that
\* ends with the latest fault, counted up to one more than IDS_REPEAT_COUNT.
RunInv(i, h, v) ==
    /\ h = << >> => i.ltype[v] = NoType
    /\ h # << >> => /\ i.ltype[v] = Back(h, 1).type
                    /\ i.run[v] >= 1
                    /\ Len(h) >= i.run[v]
                    /\ SameType(h, i.run[v])
                    /\ i.run[v] <= RepeatCount /\ Len(h) > i.run[v] =>
                         Back(h, i.run[v] + 1).type # Back(h, 1).type

\* What the latest poll saw of a VM it left free to run.
SeenInv(v) == polled[v] < QUARANTINE => ids.seen[v] < QUARANTINE

\* The inductive invariant.
IdsInv ==
    /\ TrustInv
    /\ ids \in IdsState
    /\ polled \in [VMs -> TRUSTED..REVOKED]
    /\ DOMAIN hist = VMs
    /\ \A v \in VMs : /\ HistOK(hist[v])
                      /\ WindowInv(ids, hist[v], v)
                      /\ RunInv(ids, hist[v], v)
                      /\ SeenInv(v)
---------------------------------------------------------------------------
\* The history is long enough for both detectors.
LEMMA HistLong ==
    HistLen \in Nat /\ HistLen >= StormFaults + 1 /\ HistLen >= RepeatCount + 1
BY IdsAssumption DEF HistLen, Max2

\* A recorded fault becomes the latest one, and the others move back.
LEMMA RecordedHist ==
    ASSUME NEW h, HistOK(h), NEW type \in FaultTypes, NEW storm \in BOOLEAN
    PROVE  LET r == Recorded(h, type, storm)
           IN  /\ HistOK(r)
               /\ Len(r) = IF Len(h) = HistLen THEN HistLen ELSE Len(h) + 1
               /\ Back(r, 1).type = type /\ Back(r, 1).age = 0
               /\ \A k \in 2..Len(r) : Back(r, k) = Back(h, k - 1)
<1> DEFINE f == [age |-> 0, type |-> type, storm |-> storm]
           a == Append(h, f)
           r == Recorded(h, type, storm)
<1>1. f \in Fault /\ f.type = type /\ f.age = 0
  BY IdsAssumption DEF Fault
<1> HIDE DEF f
<1>2. h \in Seq(Fault) /\ Len(h) \in Nat /\ Len(h) <= HistLen /\ HistLen \in Nat /\ HistLen >= 1
  <2>1. h \in Seq(Fault) /\ Len(h) <= HistLen
    BY DEF HistOK
  <2>2. HistLen \in Nat /\ HistLen >= 1
    BY HistLong, IdsAssumption
  <2> QED
    BY <2>1, <2>2
<1>3. /\ a \in Seq(Fault) /\ Len(a) = Len(h) + 1 /\ a[Len(h) + 1] = f
      /\ \A n \in 1..Len(h) : a[n] = h[n]
  BY <1>1, <1>2
<1>4. r = IF Len(a) > HistLen THEN Tail(a) ELSE a
  BY DEF Recorded, f
<1> HIDE DEF a, r
<1>5. CASE Len(h) = HistLen
  <2>1. r = Tail(a) /\ a # << >>
    BY <1>2, <1>3, <1>4, <1>5
  <2>2. r \in Seq(Fault) /\ Len(r) = HistLen /\ \A n \in 1..HistLen : r[n] = a[n + 1]
    BY <1>2, <1>3, <1>5, <2>1
  <2>3. Back(r, 1) = f
    BY <1>2, <1>3, <1>5, <2>2 DEF Back
  <2>4. ASSUME NEW k \in 2..Len(r) PROVE Back(r, k) = Back(h, k - 1)
    <3>1. Len(r) + 1 - k \in 1..HistLen /\ Len(r) + 1 - k + 1 \in 1..Len(h)
          /\ Len(h) + 1 - (k - 1) = Len(r) + 1 - k + 1
      BY <1>2, <1>5, <2>2
    <3> QED
      BY <1>3, <2>2, <3>1, SMTT(40) DEF Back
  <2> QED
    BY <1>1, <1>2, <1>5, <2>2, <2>3, <2>4, SMTT(40) DEF HistOK, r
<1>6. CASE Len(h) # HistLen
  <2>1. r = a /\ Len(r) = Len(h) + 1 /\ Len(r) <= HistLen
    BY <1>2, <1>3, <1>4, <1>6, SMTT(40)
  <2>2. Back(r, 1) = f
    BY <1>2, <1>3, <2>1 DEF Back
  <2>3. ASSUME NEW k \in 2..Len(r) PROVE Back(r, k) = Back(h, k - 1)
    <3>1. Len(r) + 1 - k \in 1..Len(h) /\ Len(h) + 1 - (k - 1) = Len(r) + 1 - k
      BY <1>2, <2>1
    <3> QED
      BY <1>3, <2>1, <3>1 DEF Back
  <2> QED
    BY <1>1, <1>2, <1>3, <1>6, <2>1, <2>2, <2>3, SMTT(40) DEF HistOK, r
<1> QED
  BY <1>5, <1>6

\* What is known of the detectors and the history of one VM after a fault.
Noted(i, j, h, r, v, type) ==
    /\ i \in IdsState /\ j \in IdsState /\ HistOK(h) /\ HistOK(r)
    /\ j.run[v] = RunLength(i, v, type) /\ j.ltype[v] = type
    /\ j.wage[v] = (IF WindowExpired(i, v) THEN 0 ELSE i.wage[v])
    /\ j.wfaults[v] = WindowFaults(i, v)
    /\ Len(r) = (IF Len(h) = HistLen THEN HistLen ELSE Len(h) + 1)
    /\ Back(r, 1).type = type /\ Back(r, 1).age = 0
    /\ \A k \in 2..Len(r) : Back(r, k) = Back(h, k - 1)

\* The storm detector after a fault, and what a storm means.
LEMMA WindowAfterFault ==
    ASSUME NEW i, NEW j, NEW h, NEW r, NEW v \in VMs, NEW type \in FaultTypes,
           Noted(i, j, h, r, v, type), WindowInv(i, h, v)
    PROVE  /\ WindowInv(j, r, v)
           /\ Storm(i, v) => /\ Len(r) > StormFaults
                             /\ \A k \in 1..(StormFaults + 1) : Back(r, k).age <= StormWindow
<1>1. /\ i.wage[v] \in 0..(StormWindow + 1) /\ i.wfaults[v] \in 0..(StormFaults + 2)
      /\ StormWindow \in Nat /\ StormFaults \in Nat
  BY IdsFields, IdsAssumption DEF Noted
<1>2. Len(h) \in Nat /\ Len(r) \in Nat /\ HistLen \in Nat /\ HistLen >= StormFaults + 1
      /\ Len(h) <= HistLen
  BY HistLong DEF Noted, HistOK
<1>3. Len(r) = (IF Len(h) = HistLen THEN HistLen ELSE Len(h) + 1)
  BY DEF Noted
<1>4. /\ Back(r, 1).age = 0
      /\ \A k \in 2..Len(r) : Back(r, k) = Back(h, k - 1)
      /\ j.wage[v] = (IF WindowExpired(i, v) THEN 0 ELSE i.wage[v])
      /\ j.wfaults[v] = WindowFaults(i, v)
  BY DEF Noted
<1>5. ASSUME ~WindowExpired(i, v), NEW n \in 0..StormFaults, i.wfaults[v] = n
      PROVE  /\ Len(r) >= n + 1
             /\ \A k \in 1..(n + 1) : Back(r, k).age <= i.wage[v]
  <2>1. i.wage[v] <= StormWindow /\ i.wfaults[v] <= StormFaults /\ n \in Nat
    BY <1>1, <1>5 DEF WindowExpired
  <2>2. Len(h) >= n /\ \A k \in 1..n : Back(h, k).age <= i.wage[v]
    BY <1>5, <2>1 DEF WindowInv
  <2>3. Len(r) >= n + 1
    BY <1>1, <1>2, <1>3, <2>2, SMTT(40)
  <2>4. ASSUME NEW k \in 1..(n + 1) PROVE Back(r, k).age <= i.wage[v]
    <3>1. CASE k = 1
      BY <1>1, <1>4, <3>1, SMTT(40)
    <3>2. CASE k # 1
      <4>1. k \in 2..Len(r) /\ k - 1 \in 1..n
        BY <1>2, <2>1, <2>3, <3>2, SMTT(40)
      <4> QED
        BY <1>4, <2>2, <4>1, SMTT(40)
    <3> QED
      BY <3>1, <3>2, SMTT(40)
  <2> QED
    BY <2>3, <2>4
<1>6. Storm(i, v) => /\ Len(r) > StormFaults
                     /\ \A k \in 1..(StormFaults + 1) : Back(r, k).age <= StormWindow
  <2> SUFFICES ASSUME Storm(i, v)
               PROVE  /\ Len(r) > StormFaults
                      /\ \A k \in 1..(StormFaults + 1) : Back(r, k).age <= StormWindow
    OBVIOUS
  <2>1. ~WindowExpired(i, v) /\ i.wfaults[v] = StormFaults /\ i.wage[v] <= StormWindow
    BY <1>1 DEF Storm, WindowFaults, WindowExpired, Bump
  <2>2. /\ Len(r) >= StormFaults + 1
        /\ \A k \in 1..(StormFaults + 1) : Back(r, k).age <= i.wage[v]
    BY <1>1, <1>5, <2>1
  <2>3. ASSUME NEW k \in 1..(StormFaults + 1) PROVE Back(r, k).age \in Int
    <3>1. r \in Seq(Fault) /\ Len(r) + 1 - k \in 1..Len(r)
      BY <1>1, <1>2, <2>2 DEF Noted, HistOK
    <3>2. Back(r, k) \in Fault
      BY <3>1 DEF Back
    <3> QED
      BY <3>2 DEF Fault
  <2> QED
    BY <1>1, <1>2, <2>1, <2>2, <2>3, SMTT(40)
<1>7. WindowInv(j, r, v)
  <2>1. CASE WindowExpired(i, v)
    <3>1. j.wage[v] = 0 /\ j.wfaults[v] = 1
      BY <1>4, <2>1 DEF WindowFaults
    <3> QED
      BY <1>1, <1>2, <1>3, <1>4, <3>1, SMTT(40) DEF WindowInv
  <2>2. CASE ~WindowExpired(i, v) /\ i.wfaults[v] < StormFaults
    <3>1. j.wage[v] = i.wage[v] /\ j.wfaults[v] = i.wfaults[v] + 1
      BY <1>1, <1>4, <2>2, SMTT(40) DEF WindowFaults, Bump
    <3>2. i.wfaults[v] \in 0..StormFaults
      BY <1>1, <2>2, SMTT(40)
    <3> QED
      BY <1>5, <2>2, <3>1, <3>2, SMTT(40) DEF WindowInv
  <2>3. CASE ~WindowExpired(i, v) /\ i.wfaults[v] >= StormFaults
    <3>1. j.wfaults[v] > StormFaults /\ j.wfaults[v] \in Int
      BY <1>1, <1>4, <2>3, SMTT(40) DEF WindowFaults, Bump
    <3> QED
      BY <1>1, <3>1, SMTT(40) DEF WindowInv
  <2> QED
    BY <1>1, <2>1, <2>2, <2>3, SMTT(40)
<1> QED
  BY <1>6, <1>7

\* The fault completes a run of IDS_REPEAT_COUNT faults of one type.
RunCompleted(h) ==
    /\ Len(h) >= RepeatCount
    /\ SameType(h, RepeatCount)
    /\ Len(h) > RepeatCount => ~SameType(h, RepeatCount + 1)

\* The run that RunInv describes has length RepeatCount exactly when it is complete.
LEMMA RunIsCompleted ==
    ASSUME NEW i \in IdsState, NEW h, HistOK(h), h # << >>, NEW v \in VMs, RunInv(i, h, v)
    PROVE  i.run[v] = RepeatCount <=> RunCompleted(h)
<1>1. i.run[v] \in 0..(RepeatCount + 1) /\ RepeatCount \in Nat /\ RepeatCount > 1
  BY IdsFields, IdsAssumption
<1>2. Len(h) \in Nat
  BY DEF HistOK
<1>3. /\ i.run[v] >= 1 /\ Len(h) >= i.run[v] /\ SameType(h, i.run[v])
      /\ i.run[v] <= RepeatCount /\ Len(h) > i.run[v] =>
           Back(h, i.run[v] + 1).type # Back(h, 1).type
  BY DEF RunInv
<1>4. CASE i.run[v] = RepeatCount
  <2>1. Len(h) > RepeatCount => ~SameType(h, RepeatCount + 1)
    BY <1>1, <1>3, <1>4, SMTT(40) DEF SameType
  <2> QED
    BY <1>3, <1>4, <2>1, SMTT(40) DEF RunCompleted
<1>5. CASE i.run[v] < RepeatCount
  <2> SUFFICES ASSUME RunCompleted(h) PROVE FALSE
    BY <1>1, <1>5
  <2>1. i.run[v] + 1 \in 1..RepeatCount /\ Len(h) > i.run[v]
    BY <1>1, <1>2, <1>5 DEF RunCompleted
  <2>2. Back(h, i.run[v] + 1).type = Back(h, 1).type
    BY <2>1 DEF RunCompleted, SameType
  <2> QED
    BY <1>1, <1>3, <1>5, <2>1, <2>2, SMTT(40)
<1>6. CASE i.run[v] = RepeatCount + 1
  BY <1>1, <1>2, <1>3, <1>6 DEF RunCompleted
<1> QED
  BY <1>1, <1>4, <1>5, <1>6, SMTT(40)

\* The repeat detector after a fault.
LEMMA RunAfterFault ==
    ASSUME NEW i, NEW j, NEW h, NEW r, NEW v \in VMs, NEW type \in FaultTypes,
           Noted(i, j, h, r, v, type), RunInv(i, h, v)
    PROVE  /\ r # << >> /\ RunInv(j, r, v)
           /\ RunLength(i, v, type) = RepeatCount => Repeats(i, v, type)
<1>1. /\ i.run[v] \in 0..(RepeatCount + 1) /\ RepeatCount \in Nat /\ RepeatCount > 1
      /\ i.ltype[v] \in FaultTypes \union {NoType} /\ NoType \notin FaultTypes
  BY IdsFields, IdsAssumption DEF Noted
<1>2. Len(h) \in Nat /\ Len(r) \in Nat /\ HistLen \in Nat /\ HistLen >= RepeatCount + 1
      /\ Len(h) <= HistLen
  BY HistLong DEF Noted, HistOK
<1>3. /\ Len(r) = (IF Len(h) = HistLen THEN HistLen ELSE Len(h) + 1)
      /\ Back(r, 1).type = type
      /\ \A k \in 2..Len(r) : Back(r, k) = Back(h, k - 1)
      /\ j.run[v] = RunLength(i, v, type) /\ j.ltype[v] = type
  BY DEF Noted
<1>4. r # << >> /\ Len(r) >= 1
  BY <1>1, <1>2, <1>3, SMTT(40)
<1>5. CASE ~Repeats(i, v, type)
  <2>1. j.run[v] = 1
    BY <1>3, <1>5 DEF RunLength
  <2>2. SameType(r, 1)
    BY DEF SameType
  <2>3. ASSUME Len(r) > 1 PROVE Back(r, 2).type # Back(r, 1).type
    <3>1. h # << >> /\ Back(r, 2) = Back(h, 1)
      BY <1>1, <1>2, <1>3, <2>3, SMTT(40)
    <3>2. Back(h, 1).type # type
      BY <1>5, <3>1, SMTT(40) DEF Repeats, RunInv
    <3> QED
      BY <1>3, <3>1, <3>2, SMTT(40)
  <2> QED
    BY <1>1, <1>3, <1>4, <1>5, <2>1, <2>2, <2>3, SMTT(40) DEF RunInv
<1>6. CASE Repeats(i, v, type)
  <2> DEFINE n == i.run[v]
             m == j.run[v]
  <2>1. h # << >> /\ type = Back(h, 1).type
    BY <1>1, <1>6, SMTT(40) DEF Repeats, RunInv
  <2>2. /\ n >= 1 /\ Len(h) >= n /\ SameType(h, n)
        /\ n <= RepeatCount /\ Len(h) > n => Back(h, n + 1).type # Back(h, 1).type
    BY <2>1 DEF RunInv
  <2>3. m = IF n < RepeatCount + 1 THEN n + 1 ELSE RepeatCount + 1
    BY <1>3, <1>6, SMTT(40) DEF RunLength, Bump
  <2> HIDE DEF n, m
  <2>4. n \in 1..(RepeatCount + 1) /\ m \in 2..(RepeatCount + 1) /\ m <= n + 1
    BY <1>1, <2>2, <2>3, SMTT(40) DEF n
  <2>5. Len(r) >= m
    BY <1>1, <1>2, <1>3, <2>2, <2>4, SMTT(40)
  <2>6. ASSUME NEW k \in 1..m PROVE Back(r, k).type = type
    <3>1. CASE k = 1
      BY <1>3, <3>1, SMTT(40)
    <3>2. CASE k # 1
      <4>1. k \in 2..Len(r) /\ k - 1 \in 1..n
        BY <1>2, <2>4, <2>5, <3>2, SMTT(40)
      <4>2. Back(h, k - 1).type = Back(h, 1).type
        BY <2>2, <4>1, SMTT(40) DEF SameType
      <4> QED
        BY <1>3, <2>1, <4>1, <4>2, SMTT(40)
    <3> QED
      BY <3>1, <3>2
  <2>7. ASSUME m <= RepeatCount, Len(r) > m PROVE Back(r, m + 1).type # type
    <3>1. m = n + 1 /\ n <= RepeatCount /\ Len(h) > n
      BY <1>1, <1>2, <1>3, <2>3, <2>4, <2>7, SMTT(40)
    <3>2. m + 1 \in 2..Len(r) /\ m + 1 - 1 = n + 1
      BY <1>2, <2>4, <2>7, <3>1, SMTT(40)
    <3> QED
      BY <1>3, <2>1, <2>2, <3>1, <3>2, SMTT(40)
  <2>8. SameType(r, m)
    BY <1>3, <2>6 DEF SameType
  <2> QED
    BY <1>3, <1>4, <1>6, <2>4, <2>5, <2>7, <2>8, SMTT(40) DEF RunInv, m
<1> QED
  BY <1>5, <1>6, SMTT(40)

\* Time passes: the ages of the window and of the faults in it grow together.
LEMMA WindowAged ==
    ASSUME NEW i \in IdsState, NEW h, HistOK(h), NEW v \in VMs,
           WindowInv(i, h, v), RunInv(i, h, v)
    PROVE  LET g == [n \in 1..Len(h) |-> [h[n] EXCEPT !.age = Bump(@, StormWindow + 1)]]
           IN  HistOK(g) /\ WindowInv(IdsAged(i), g, v) /\ RunInv(IdsAged(i), g, v)
<1> DEFINE older(f) == [f EXCEPT !.age = Bump(f.age, StormWindow + 1)]
           g == [n \in 1..Len(h) |-> older(h[n])]
<1>1. /\ h \in Seq(Fault) /\ Len(h) \in Nat /\ Len(h) <= HistLen
      /\ StormWindow \in Nat /\ StormFaults \in Nat
  BY IdsAssumption DEF HistOK
<1>2. ASSUME NEW f \in Fault
      PROVE  /\ older(f) \in Fault /\ older(f).type = f.type
             /\ f.age \in Nat /\ older(f).age <= f.age + 1 /\ older(f).age \in Nat
  <2>1. f.age \in 0..(StormWindow + 1)
    BY DEF Fault
  <2>2. /\ Bump(f.age, StormWindow + 1) \in 0..(StormWindow + 1)
        /\ Bump(f.age, StormWindow + 1) <= f.age + 1
    BY <1>1, <2>1 DEF Bump
  <2> QED
    BY <1>1, <2>1, <2>2, SMTT(40) DEF Fault
<1>3. \A n \in 1..Len(h) : h[n] \in Fault
  BY <1>1
<1> HIDE DEF older
<1>4. g \in Seq(Fault) /\ Len(g) = Len(h) /\ \A n \in 1..Len(h) : g[n] = older(h[n])
  BY <1>1, <1>2, <1>3, SMTT(40)
<1> HIDE DEF g
<1>5. ASSUME NEW k \in 1..Len(h)
      PROVE  /\ Back(g, k).type = Back(h, k).type
             /\ Back(g, k).age <= Back(h, k).age + 1
             /\ Back(g, k).age \in Nat /\ Back(h, k).age \in Nat
  <2>1. Len(h) + 1 - k \in 1..Len(h)
    BY <1>1
  <2> QED
    BY <1>2, <1>3, <1>4, <2>1, SMTT(40) DEF Back
<1>6. /\ IdsAged(i).wage[v] = Bump(i.wage[v], StormWindow + 1)
      /\ IdsAged(i).wfaults = i.wfaults /\ IdsAged(i).run = i.run
      /\ IdsAged(i).ltype = i.ltype
  BY DEF IdsAged, IdsState
<1>7. i.wage[v] \in 0..(StormWindow + 1) /\ i.wfaults[v] \in 0..(StormFaults + 2)
      /\ i.run[v] \in 0..(RepeatCount + 1) /\ RepeatCount \in Nat
  BY IdsFields, IdsAssumption
<1>8. HistOK(g)
  BY <1>1, <1>4, SMTT(40) DEF HistOK
<1>9. WindowInv(IdsAged(i), g, v)
  <2> SUFFICES ASSUME IdsAged(i).wage[v] <= StormWindow, i.wfaults[v] <= StormFaults
               PROVE  /\ Len(g) >= i.wfaults[v]
                      /\ \A k \in 1..i.wfaults[v] : Back(g, k).age <= IdsAged(i).wage[v]
    BY <1>6 DEF WindowInv
  <2>1. IdsAged(i).wage[v] = i.wage[v] + 1 /\ i.wage[v] <= StormWindow
    BY <1>1, <1>6, <1>7, SMTT(40) DEF Bump
  <2>2. Len(h) >= i.wfaults[v] /\ \A k \in 1..i.wfaults[v] : Back(h, k).age <= i.wage[v]
    BY <2>1, SMTT(40) DEF WindowInv
  <2>3. ASSUME NEW k \in 1..i.wfaults[v] PROVE Back(g, k).age <= i.wage[v] + 1
    <3>1. k \in 1..Len(h) /\ Back(h, k).age <= i.wage[v]
      BY <1>1, <1>7, <2>2, SMTT(40)
    <3>2. /\ Back(g, k).age <= Back(h, k).age + 1
          /\ Back(g, k).age \in Nat /\ Back(h, k).age \in Nat
      BY <1>5, <3>1
    <3> QED
      BY <1>7, <3>1, <3>2, SMTT(40)
  <2> QED
    BY <1>4, <2>1, <2>2, <2>3, SMTT(40)
<1>10. RunInv(IdsAged(i), g, v)
  <2>1. CASE h = << >>
    <3>1. g = << >>
      <4>1. Len(g) = 0
        BY <1>4, <2>1, SMTT(40)
      <4> QED
        BY <1>4, <4>1
    <3> QED
      BY <1>6, <2>1, <3>1 DEF RunInv
  <2>2. CASE h # << >>
    <3>1. Len(h) >= 1 /\ g # << >>
      BY <1>1, <1>4, <2>2, SMTT(40)
    <3>2. SameType(g, i.run[v])
      BY <1>1, <1>5, <1>7, <2>2, <3>1, SMTT(40) DEF RunInv, SameType
    <3>3. ASSUME i.run[v] <= RepeatCount, Len(g) > i.run[v]
          PROVE  Back(g, i.run[v] + 1).type # Back(g, 1).type
      <4>1. i.run[v] + 1 \in 1..Len(h) /\ 1 \in 1..Len(h)
        BY <1>1, <1>4, <1>7, <3>1, <3>3, SMTT(40)
      <4> QED
        BY <1>4, <1>5, <2>2, <3>3, <4>1, SMTT(40) DEF RunInv
    <3> QED
      BY <1>1, <1>4, <1>5, <1>6, <2>2, <3>1, <3>2, <3>3, SMTT(40) DEF RunInv
  <2> QED
    BY <2>1, <2>2, SMTT(40)
<1> QED
  BY <1>8, <1>9, <1>10 DEF g, older
---------------------------------------------------------------------------
\* What StormSound, RepeatExact and BlockReported say of one step and one VM.
StormOK(w) ==
    <<w, "STORM">> \in ids'.log =>
      /\ Len(hist'[w]) > StormFaults
      /\ InOneWindow(Latest(hist'[w], StormFaults + 1))

RepeatOK(w) ==
    <<w, "FAULT">> \in ids'.log =>
      ((<<w, "REPEAT">> \in ids'.log) <=> RunCompleted(hist'[w]))

ReportOK(w) ==
    /\ <<NULL, "POLL">> \in ids'.log
    /\ polled[w] < QUARANTINE /\ trust.level[w] >= QUARANTINE
    => <<w, "TRUST_DROP">> \in ids'.log

\* The latest faults, none older than the window, came within one window.
LEMMA LatestInWindow ==
    ASSUME NEW h, HistOK(h), Len(h) > StormFaults,
           \A k \in 1..(StormFaults + 1) : Back(h, k).age <= StormWindow
    PROVE  InOneWindow(Latest(h, StormFaults + 1))
<1> DEFINE n == StormFaults + 1
           s == Latest(h, n)
<1>1. h \in Seq(Fault) /\ Len(h) \in Nat /\ n \in Nat /\ n >= 1 /\ Len(h) >= n
      /\ StormWindow \in Nat
  BY IdsAssumption DEF HistOK
<1>2. /\ Len(s) = n
      /\ s[1] = h[Len(h) - n + 1] /\ s[n] = h[Len(h)]
  <2> DEFINE a == Len(h) - n + 1
  <2>1. /\ a \in 1..Len(h) /\ Len(h) \in 1..Len(h) /\ a <= Len(h)
        /\ Len(h) - a + 1 = n /\ a + 1 - 1 = a /\ a + n - 1 = Len(h)
    BY <1>1
  <2>2. s = SubSeq(h, a, Len(h))
    BY DEF Latest
  <2> HIDE DEF a, s, n
  <2>3. Len(s) = n
    BY <1>1, <2>1, <2>2, SMTT(40)
  <2>4. s[1] = h[a] /\ s[n] = h[Len(h)]
    BY <1>1, <2>1, <2>2, <2>3, SMTT(40)
  <2> QED
    BY <2>3, <2>4 DEF a
<1>3. s[1] = Back(h, n) /\ s[Len(s)] = Back(h, 1)
  BY <1>1, <1>2 DEF Back
<1>4. Back(h, n) \in Fault /\ Back(h, 1) \in Fault
  BY <1>1 DEF Back
<1>5. Back(h, n).age \in Nat /\ Back(h, 1).age \in Nat
  BY <1>4 DEF Fault
<1>6. Back(h, n).age <= StormWindow
  BY <1>1
<1> HIDE DEF s, n
<1>7. InOneWindow(s)
  BY <1>1, <1>3, <1>5, <1>6, SMTT(40) DEF InOneWindow
<1> QED
  BY <1>7 DEF s, n

\* Each fault keeps the invariant, raises no false storm and counts runs exactly.
LEMMA FaultStep ==
    ASSUME IdsInv, NEW v \in VMs, NEW type \in FaultTypes, GuestFault(v, type)
    PROVE  IdsInv' /\ \A w \in VMs : StormOK(w) /\ RepeatOK(w) /\ ReportOK(w)
<1>1. TrustInv /\ ids \in IdsState /\ HandleFault(v, type) /\ VseInv(Vse)
  BY SMTT(40) DEF IdsInv, GuestFault, TrustInv
<1>2. TrustInv' /\ polled' = polled
  <2>1. VseInv(Vse') /\ sched' = sched
    BY <1>1, FaultInv, SMTT(40) DEF GuestFault
  <2> QED
    BY <1>1, <2>1, SMTT(40) DEF GuestFault, TrustInv
<1> DEFINE r == trust_report_fault(Vse, v)
           s == [hyp |-> r.hyp, trust |-> r.trust, ids |-> ids]
<1>3. ids' = ids_notify_fault(s, v, type).ids /\ s.ids = ids
  <2>1. [hyp |-> All.hyp, trust |-> All.trust] = Vse /\ All.ids = ids
    BY DEF All, Vse
  <2> QED
    BY <1>1, <2>1 DEF HandleFault, fdetect
<1> HIDE DEF s
<1> DEFINE j == ids_notify_fault(s, v, type).ids
<1>4. /\ j \in IdsState
      /\ j.run = [ids.run EXCEPT ![v] = RunLength(ids, v, type)]
      /\ j.ltype = [ids.ltype EXCEPT ![v] = type]
      /\ j.wage = [ids.wage EXCEPT ![v] = IF WindowExpired(ids, v) THEN 0 ELSE ids.wage[v]]
      /\ j.wfaults = [ids.wfaults EXCEPT ![v] = WindowFaults(ids, v)]
      /\ j.seen = ids.seen
      /\ \A w \in VMs \union {NULL}, e \in Events : <<w, e>> \in j.log =>
           /\ w = v
           /\ e # "POLL"
           /\ e = "STORM" => Storm(ids, v)
           /\ e = "REPEAT" => /\ Repeats(ids, v, type)
                              /\ RunLength(ids, v, type) = RepeatCount
      /\ Repeats(ids, v, type) /\ RunLength(ids, v, type) = RepeatCount =>
           <<v, "REPEAT">> \in j.log
  BY <1>1, <1>3, NotifyIds, Zenon
<1> HIDE DEF j
<1>5. /\ ids' \in IdsState
      /\ ids'.run = [ids.run EXCEPT ![v] = RunLength(ids, v, type)]
      /\ ids'.ltype = [ids.ltype EXCEPT ![v] = type]
      /\ ids'.wage = [ids.wage EXCEPT ![v] = IF WindowExpired(ids, v) THEN 0 ELSE ids.wage[v]]
      /\ ids'.wfaults = [ids.wfaults EXCEPT ![v] = WindowFaults(ids, v)]
      /\ ids'.seen = ids.seen
  BY <1>3, <1>4, Zenon DEF j
<1>logged. \A w \in VMs \union {NULL}, e \in Events : <<w, e>> \in ids'.log =>
             /\ w = v
             /\ e # "POLL"
             /\ e = "STORM" => Storm(ids, v)
             /\ e = "REPEAT" => /\ Repeats(ids, v, type)
                                /\ RunLength(ids, v, type) = RepeatCount
  BY <1>3, <1>4, Zenon DEF j
<1>repeated. Repeats(ids, v, type) /\ RunLength(ids, v, type) = RepeatCount =>
               <<v, "REPEAT">> \in ids'.log
  BY <1>3, <1>4, ZenonT(40) DEF j
<1> HIDE DEF r
<1> DEFINE storm == <<v, "STORM">> \in ids'.log
           h == hist[v]
           g == Recorded(h, type, storm)
<1>6. hist' = [hist EXCEPT ![v] = g] /\ DOMAIN hist = VMs
  BY SMTT(40) DEF GuestFault, IdsInv
<1>7. HistOK(h) /\ storm \in BOOLEAN /\ WindowInv(ids, h, v) /\ RunInv(ids, h, v)
  BY DEF IdsInv
<1> HIDE DEF storm
<1>8. /\ HistOK(g)
      /\ Len(g) = IF Len(h) = HistLen THEN HistLen ELSE Len(h) + 1
      /\ Back(g, 1).type = type /\ Back(g, 1).age = 0
      /\ \A k \in 2..Len(g) : Back(g, k) = Back(h, k - 1)
  BY <1>7, RecordedHist, SMTT(40)
<1> HIDE DEF g
<1>9. Noted(ids, ids', h, g, v, type)
  <2>1. /\ ids'.run[v] = RunLength(ids, v, type) /\ ids'.ltype[v] = type
        /\ ids'.wage[v] = (IF WindowExpired(ids, v) THEN 0 ELSE ids.wage[v])
        /\ ids'.wfaults[v] = WindowFaults(ids, v)
    BY <1>1, <1>5, IdsFields
  <2> HIDE DEF h
  <2> QED
    BY ONLY <1>1, <1>5, <1>7, <1>8, <2>1, SMTT(40) DEF Noted
<1>10. /\ WindowInv(ids', g, v)
       /\ Storm(ids, v) => /\ Len(g) > StormFaults
                           /\ \A k \in 1..(StormFaults + 1) : Back(g, k).age <= StormWindow
  BY <1>7, <1>9, WindowAfterFault, SMTT(40)
<1>11. /\ g # << >> /\ RunInv(ids', g, v)
       /\ RunLength(ids, v, type) = RepeatCount => Repeats(ids, v, type)
  BY <1>7, <1>9, RunAfterFault
<1>12. hist'[v] = g /\ DOMAIN hist' = VMs /\ \A w \in VMs : w # v => hist'[w] = hist[w]
  BY <1>6
<1>13. ASSUME NEW w \in VMs
       PROVE  HistOK(hist'[w]) /\ WindowInv(ids', hist'[w], w) /\ RunInv(ids', hist'[w], w)
  <2>1. CASE w = v
    BY <1>8, <1>10, <1>11, <1>12, <2>1, SMTT(40)
  <2>2. CASE w # v
    <3>1. /\ ids'.run[w] = ids.run[w] /\ ids'.ltype[w] = ids.ltype[w]
          /\ ids'.wage[w] = ids.wage[w] /\ ids'.wfaults[w] = ids.wfaults[w]
      BY <1>1, <1>5, <2>2, IdsFields
    <3>2. HistOK(hist[w]) /\ WindowInv(ids, hist[w], w) /\ RunInv(ids, hist[w], w)
      BY SMTT(40) DEF IdsInv
    <3> QED
      BY <1>12, <2>2, <3>1, <3>2, SMTT(40) DEF WindowInv, RunInv
  <2> QED
    BY <2>1, <2>2, SMTT(40)
<1>14. \A w \in VMs : SeenInv(w)'
  BY <1>2, <1>5 DEF IdsInv, SeenInv
<1>15. IdsInv'
  BY <1>2, <1>5, <1>12, <1>13, <1>14, Zenon DEF IdsInv
<1>16. ASSUME NEW w \in VMs PROVE StormOK(w) /\ RepeatOK(w) /\ ReportOK(w)
  <2>1. StormOK(w)
    <3> SUFFICES ASSUME <<w, "STORM">> \in ids'.log
                 PROVE  Len(g) > StormFaults /\ InOneWindow(Latest(g, StormFaults + 1)) /\ w = v
      BY <1>12, SMTT(40) DEF StormOK
    <3>1. w = v /\ Storm(ids, v)
      BY <1>logged, Zenon DEF Events
    <3> QED
      BY <1>8, <1>10, <3>1, LatestInWindow, SMTT(40)
  <2>2. RepeatOK(w)
    <3> SUFFICES ASSUME <<w, "FAULT">> \in ids'.log
                 PROVE  (<<w, "REPEAT">> \in ids'.log) <=> RunCompleted(hist'[w])
      BY DEF RepeatOK
    <3>1. w = v /\ hist'[w] = g
      BY <1>logged, <1>12, ZenonT(40) DEF Events
    <3>2. ids'.run[v] = RepeatCount <=> RunCompleted(g)
      BY <1>5, <1>8, <1>11, RunIsCompleted, Zenon
    <3>3. ids'.run[v] = RunLength(ids, v, type)
      BY <1>1, <1>5, IdsFields
    <3>4. (<<v, "REPEAT">> \in ids'.log) <=> RunLength(ids, v, type) = RepeatCount
      BY <1>logged, <1>repeated, <1>11, Zenon DEF Events
    <3> QED
      BY <3>1, <3>2, <3>3, <3>4
  <2>3. ReportOK(w)
    <3>1. <<NULL, "POLL">> \notin ids'.log
      BY <1>logged, Zenon DEF Events
    <3> QED
      BY <3>1 DEF ReportOK
  <2> QED
    BY <2>1, <2>2, <2>3, SMTT(40)
<1> QED
  BY <1>15, <1>16, SMTT(40)

\* What a poll does to the monitors, and what it logs.
LEMMA PollIds ==
    ASSUME ids \in IdsState, trust \in TrustState, PollNow
    PROVE  /\ ids' \in IdsState /\ ids'.seen = trust.level
           /\ ids'.run = ids.run /\ ids'.ltype = ids.ltype
           /\ ids'.wage = ids.wage /\ ids'.wfaults = ids.wfaults
           /\ \A w \in VMs : <<w, "STORM">> \notin ids'.log /\ <<w, "FAULT">> \notin ids'.log
           /\ \A w \in VMs : trust.level[w] > ids.seen[w] => <<w, "TRUST_DROP">> \in ids'.log
           /\ <<NULL, "POLL">> \in ids'.log
<1> DEFINE log == {<<v, "TRUST_DROP">> : v \in Dropped(All)} \union {<<NULL, "POLL">>}
<1>1. ids' = [ids EXCEPT !.seen = trust.level, !.log = log]
  BY SMTT(40) DEF PollNow, ids_poll, All
<1>2. Dropped(All) = {v \in VMs : trust.level[v] > ids.seen[v]}
  BY DEF Dropped, All
<1>3. log \in SUBSET ((VMs \union {NULL}) \X Events)
  BY <1>2 DEF Events
<1>4. /\ \A w \in VMs : <<w, "STORM">> \notin log /\ <<w, "FAULT">> \notin log
      /\ \A w \in VMs : trust.level[w] > ids.seen[w] => <<w, "TRUST_DROP">> \in log
      /\ <<NULL, "POLL">> \in log
  BY <1>2, SMTT(40)
<1> HIDE DEF log
<1>5. trust.level \in [VMs -> TRUSTED..REVOKED]
  BY TrustFields
<1>6. /\ ids' \in IdsState /\ ids'.log = log /\ ids'.seen = trust.level
      /\ ids'.run = ids.run /\ ids'.ltype = ids.ltype
      /\ ids'.wage = ids.wage /\ ids'.wfaults = ids.wfaults
  BY <1>1, <1>3, <1>5, ZenonT(40) DEF IdsState
<1> QED
  BY <1>4, <1>6

\* A poll keeps the invariant and reports the VMs that were blocked since the last.
LEMMA PollStep ==
    ASSUME IdsInv, IdsPoll
    PROVE  IdsInv' /\ \A w \in VMs : StormOK(w) /\ RepeatOK(w) /\ ReportOK(w)
<1>1. /\ ids \in IdsState /\ VseInv(Vse) /\ sched \in SchedState
      /\ trust' = trust_auto_promote_tick(trust) /\ hyp' = hyp /\ sched' = sched
      /\ hist' = hist /\ polled' = trust'.level
  BY DEF IdsInv, TrustInv, IdsPoll, PollNow, ids_poll, All
<1>2. Vse.hyp = hyp /\ Vse.trust = trust /\ Vse'.hyp = hyp' /\ Vse'.trust = trust'
  BY DEF Vse
<1>3. /\ VseInv(Vse')
      /\ \A v \in VMs : \/ trust'.level[v] = trust.level[v]
                        \/ trust.level[v] = DEGRADED /\ trust'.level[v] = TRUSTED
  BY <1>1, <1>2, ScanInv
<1>4. trust \in TrustState /\ trust' \in TrustState
  BY <1>1, <1>2, <1>3 DEF VseInv, WellFormed
<1>5. /\ trust.level \in [VMs -> TRUSTED..REVOKED] /\ trust'.level \in [VMs -> TRUSTED..REVOKED]
      /\ TRUSTED..REVOKED \subseteq Int
  BY <1>4, TrustFields, Levels, SMTT(40)
<1>6. /\ ids' \in IdsState /\ ids'.seen = trust.level
      /\ ids'.run = ids.run /\ ids'.ltype = ids.ltype
      /\ ids'.wage = ids.wage /\ ids'.wfaults = ids.wfaults
      /\ \A w \in VMs : <<w, "STORM">> \notin ids'.log /\ <<w, "FAULT">> \notin ids'.log
      /\ \A w \in VMs : trust.level[w] > ids.seen[w] => <<w, "TRUST_DROP">> \in ids'.log
  BY <1>1, <1>4, PollIds DEF IdsPoll
<1>7. \A w \in VMs : SeenInv(w)'
  <2> SUFFICES ASSUME NEW w \in VMs, trust'.level[w] < QUARANTINE
               PROVE  trust.level[w] < QUARANTINE
    BY <1>1, <1>6, SMTT(40) DEF SeenInv
  <2> QED
    BY <1>3, Levels, SMTT(40)
<1>8. ASSUME NEW w \in VMs
      PROVE  HistOK(hist'[w]) /\ WindowInv(ids', hist'[w], w) /\ RunInv(ids', hist'[w], w)
  <2>1. HistOK(hist[w]) /\ WindowInv(ids, hist[w], w) /\ RunInv(ids, hist[w], w)
    BY Zenon DEF IdsInv
  <2>2. /\ hist'[w] = hist[w] /\ ids'.run[w] = ids.run[w] /\ ids'.ltype[w] = ids.ltype[w]
        /\ ids'.wage[w] = ids.wage[w] /\ ids'.wfaults[w] = ids.wfaults[w]
    BY <1>1, <1>6, Zenon
  <2> QED
    BY ONLY <2>1, <2>2 DEF WindowInv, RunInv
<1>9. IdsInv'
  <2>1. TrustInv'
    BY <1>1, <1>3 DEF TrustInv
  <2>2. DOMAIN hist' = VMs /\ ids' \in IdsState /\ polled' \in [VMs -> TRUSTED..REVOKED]
    BY <1>1, <1>5, <1>6, Zenon DEF IdsInv
  <2> QED
    BY <1>7, <1>8, <2>1, <2>2, ZenonT(40) DEF IdsInv
<1>10. ASSUME NEW w \in VMs PROVE StormOK(w) /\ RepeatOK(w) /\ ReportOK(w)
  <2>1. StormOK(w) /\ RepeatOK(w)
    BY <1>6 DEF StormOK, RepeatOK
  <2>2. ReportOK(w)
    <3> SUFFICES ASSUME polled[w] < QUARANTINE, trust.level[w] >= QUARANTINE
                 PROVE  <<w, "TRUST_DROP">> \in ids'.log
      BY DEF ReportOK
    <3>1. ids.seen[w] < QUARANTINE
      BY SMTT(40) DEF IdsInv, SeenInv
    <3>2. ids.seen[w] \in TRUSTED..REVOKED /\ trust.level[w] \in TRUSTED..REVOKED
      BY <1>1, <1>5, IdsFields
    <3>3. trust.level[w] > ids.seen[w]
      BY <3>1, <3>2, Levels
    <3> QED
      BY <1>6, <3>3
  <2> QED
    BY <2>1, <2>2
<1> QED
  BY <1>9, <1>10

\* Time that passes leaves the monitors well formed.
LEMMA AgedIds ==
    ASSUME NEW i \in IdsState
    PROVE  IdsAged(i) \in IdsState /\ IdsAged(i).log = {} /\ IdsAged(i).seen = i.seen
<1> DEFINE wage == [v \in VMs |-> Bump(i.wage[v], StormWindow + 1)]
           fage == [v \in VMs |-> IF i.fage[v] = Never THEN Never
                                  ELSE Bump(i.fage[v], RapidTime)]
<1>1. IdsAged(i) = [i EXCEPT !.wage = wage, !.fage = fage, !.log = {}]
  BY DEF IdsAged
<1>2. ASSUME NEW v \in VMs
      PROVE  /\ Bump(i.wage[v], StormWindow + 1) \in 0..(StormWindow + 1)
             /\ (IF i.fage[v] = Never THEN Never ELSE Bump(i.fage[v], RapidTime))
                  \in Never..RapidTime
  BY IdsFields, IdsAssumption DEF Bump, Never
<1>3. wage \in [VMs -> 0..(StormWindow + 1)] /\ fage \in [VMs -> Never..RapidTime]
  BY <1>2
<1> HIDE DEF wage, fage
<1> QED
  BY <1>1, <1>3, Zenon DEF IdsState

\* Time that passes keeps the invariant, and logs nothing.
LEMMA TimeStep ==
    ASSUME IdsInv, TimePasses
    PROVE  IdsInv' /\ \A w \in VMs : StormOK(w) /\ RepeatOK(w) /\ ReportOK(w)
<1>1. /\ ids \in IdsState /\ VseInv(Vse) /\ sched \in SchedState /\ DOMAIN hist = VMs
      /\ trust' = Aged(trust) /\ hyp' = hyp /\ sched' = sched
      /\ hist' = HistAged /\ polled' = polled /\ ids' = IdsAged(ids)
  BY DEF IdsInv, TrustInv, TimePasses
<1>2. Vse.hyp = hyp /\ Vse.trust = trust /\ Vse'.hyp = hyp' /\ Vse'.trust = trust'
  BY DEF Vse
<1>3. VseInv(Vse')
  BY <1>1, <1>2, ScanInv
<1>4. ids' \in IdsState /\ ids'.log = {} /\ ids'.seen = ids.seen
  BY <1>1, AgedIds
<1>5. DOMAIN hist' = VMs /\ \A w \in VMs : hist'[w] =
        [n \in 1..Len(hist[w]) |-> [hist[w][n] EXCEPT !.age = Bump(@, StormWindow + 1)]]
  BY <1>1 DEF HistAged
<1>6. ASSUME NEW w \in VMs
      PROVE  HistOK(hist'[w]) /\ WindowInv(ids', hist'[w], w) /\ RunInv(ids', hist'[w], w)
  <2>1. HistOK(hist[w]) /\ WindowInv(ids, hist[w], w) /\ RunInv(ids, hist[w], w)
    BY DEF IdsInv
  <2> QED
    BY <1>1, <1>5, <2>1, WindowAged, SMTT(40)
<1>7. IdsInv'
  BY <1>1, <1>3, <1>4, <1>5, <1>6, SMTT(40) DEF IdsInv, TrustInv, SeenInv
<1>8. \A w \in VMs : StormOK(w) /\ RepeatOK(w) /\ ReportOK(w)
  BY <1>4 DEF StormOK, RepeatOK, ReportOK
<1> QED
  BY <1>7, <1>8

\* Every step, or none.
LEMMA IdsStep ==
    ASSUME IdsInv, IdsNext
    PROVE  IdsInv' /\ \A w \in VMs : StormOK(w) /\ RepeatOK(w) /\ ReportOK(w)
BY FaultStep, PollStep, TimeStep, SMTT(40) DEF IdsNext

\* A step that leaves the detector, the trust state and the scheduler alone keeps
\* the invariant of the detector.
LEMMA IdsStutter == IdsInv /\ UNCHANGED ivars => IdsInv'
<1> SUFFICES ASSUME IdsInv, UNCHANGED ivars PROVE IdsInv'
  OBVIOUS
<1>1. /\ hyp' = hyp /\ sched' = sched /\ trust' = trust /\ ids' = ids /\ hist' = hist
      /\ polled' = polled
  BY DEF ivars
<1>2. TrustInv'
  BY <1>1, TrustStutter, SMTT(40) DEF IdsInv, tvars
<1> QED
  BY <1>1, <1>2 DEF IdsInv, SeenInv

\* ids_init and the boot state satisfy the invariant of the detector.
LEMMA IdsInitInv == IdsInit => IdsInv
<1> SUFFICES ASSUME IdsInit PROVE IdsInv
  OBVIOUS
<1>1. TrustInv
  BY TrustInitInv DEF IdsInit
<1>2. trust.level \in [VMs -> TRUSTED..REVOKED]
  <2>1. trust \in TrustState
    BY <1>1 DEF TrustInv, VseInv, WellFormed, Vse
  <2> QED
    BY <2>1, TrustFields
<1>3. /\ ids = [wage |-> [v \in VMs |-> 0], wfaults |-> [v \in VMs |-> 0],
                fage |-> [v \in VMs |-> Never], ltype |-> [v \in VMs |-> NoType],
                run |-> [v \in VMs |-> 0], seen |-> trust.level, log |-> {}]
      /\ hist = [v \in VMs |-> << >>] /\ polled = trust.level
  BY DEF IdsInit, ids_init
<1>4. 0 \in 0..(StormWindow + 1) /\ 0 \in 0..(StormFaults + 2) /\ Never \in Never..RapidTime
      /\ 0 \in 0..(RepeatCount + 1)
  BY IdsAssumption, SMTT(40) DEF Never
<1>5. ids \in IdsState
  BY <1>2, <1>3, <1>4, ZenonT(40) DEF IdsState
<1>6. ASSUME NEW v \in VMs
      PROVE  /\ HistOK(hist[v]) /\ WindowInv(ids, hist[v], v) /\ RunInv(ids, hist[v], v)
             /\ SeenInv(v)
  <2>1. hist[v] = << >> /\ Len(hist[v]) = 0 /\ ids.wfaults[v] = 0 /\ ids.ltype[v] = NoType
    BY <1>3
  <2>2. HistOK(hist[v])
    BY <2>1, HistLong DEF HistOK
  <2> QED
    BY <1>3, <2>1, <2>2, SMTT(40) DEF WindowInv, RunInv, SeenInv
<1> QED
  BY <1>1, <1>2, <1>3, <1>5, <1>6, Zenon DEF IdsInv
---------------------------------------------------------------------------
\* The invariant of the detector and the history holds in every behaviour.
THEOREM IdsInvHolds == IdsSpec => []IdsInv
<1>1. IdsInv /\ [IdsNext]_ivars => IdsInv'
  BY IdsStep, IdsStutter
<1> QED
  BY <1>1, IdsInitInv, PTL DEF IdsSpec

\* No false storm: more than IDS_STORM_FAULTS faults fell within one window of
\* ids_notify_fault, whatever windows were started and expired before.
THEOREM StormsAreSound == IdsSpec => StormSound
<1>1. IdsInv /\ [IdsNext]_ivars => [\A v \in VMs : StormOK(v)]_ivars
  BY IdsStep
<1> QED
  BY <1>1, IdsInvHolds, PTL DEF IdsSpec, StormSound, StormOK

\* REPEAT is raised on the fault that completes a run of IDS_REPEAT_COUNT faults
\* of one type, and on no other (ids_notify_fault).
THEOREM RepeatsAreExact == IdsSpec => RepeatExact
<1>1. IdsInv /\ [IdsNext]_ivars => [\A v \in VMs : RepeatOK(v)]_ivars
  BY IdsStep
<1> DEFINE same(h, n) == \A k \in 1..n : h[Len(h) + 1 - k].type = h[Len(h)].type
           Exact(v) == <<v, "FAULT">> \in ids'.log =>
             ((<<v, "REPEAT">> \in ids'.log) <=>
                /\ Len(hist'[v]) >= RepeatCount
                /\ same(hist'[v], RepeatCount)
                /\ Len(hist'[v]) > RepeatCount => ~same(hist'[v], RepeatCount + 1))
<1>2. ASSUME NEW h, HistOK(h), NEW n PROVE SameType(h, n) <=> same(h, n)
  <2>1. Len(h) + 1 - 1 = Len(h)
    BY DEF HistOK
  <2> QED
    BY <2>1 DEF SameType, Back
<1>3. IdsInv' /\ (\A v \in VMs : RepeatOK(v)) => \A v \in VMs : Exact(v)
  <2> SUFFICES ASSUME IdsInv', NEW v \in VMs, RepeatOK(v) PROVE Exact(v)
    BY SMTT(40)
  <2>1. HistOK(hist'[v])
    BY DEF IdsInv
  <2> QED
    BY <1>2, <2>1, SMTT(40) DEF RepeatOK, RunCompleted
<1>4. IdsInv /\ IdsInv' /\ [IdsNext]_ivars => [\A v \in VMs : Exact(v)]_ivars
  BY <1>1, <1>3, SMTT(40)
<1> QED
  BY <1>4, IdsInvHolds, PTL DEF IdsSpec, RepeatExact

\* A VM that was free to run at the end of one poll and is blocked at the next is
\* reported by that poll (ids_poll, trust_auto_promote_tick).
THEOREM BlocksAreReported == IdsSpec => BlockReported
<1>1. IdsInv /\ [IdsNext]_ivars => [\A v \in VMs : ReportOK(v)]_ivars
  BY IdsStep
<1> QED
  BY <1>1, IdsInvHolds, PTL DEF IdsSpec, BlockReported, ReportOK
===========================================================================
