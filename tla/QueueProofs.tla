---------------------------- MODULE QueueProofs ----------------------------
(***************************************************************************)
(* The two ring buffers of the hypervisor implement what they promise: the *)
(* audit log the latest records, inter-VM messaging FIFO queues, for any   *)
(* size of the rings, number of VMs and length of the messages.            *)
(***************************************************************************)
EXTENDS AuditLog, Ipc, NatLemmas, SequenceTheorems, TLAPS

\* A function on 1 .. n is a sequence of length n.
LEMMA FunctionIsSeq ==
    ASSUME NEW S, NEW n \in Nat, NEW f \in [1 .. n -> S]
    PROVE  f \in Seq(S) /\ Len(f) = n
BY SeqDef

\* A sequence with one more element at the end.
LEMMA IsAppend ==
    ASSUME NEW S, NEW s \in Seq(S), NEW t \in Seq(S), NEW e \in S, Len(t) = Len(s) + 1,
           \A i \in 1 .. Len(s) : t[i] = s[i], t[Len(s) + 1] = e
    PROVE  t = Append(s, e)
<1> DEFINE a == Append(s, e)
<1>1. /\ a \in Seq(S) /\ Len(a) = Len(s) + 1 /\ a[Len(s) + 1] = e
      /\ \A i \in 1 .. Len(s) : a[i] = s[i]
  BY AppendProperties
<1> HIDE DEF a
<1>2. \A i \in 1 .. Len(t) : t[i] = a[i]
  BY <1>1, LenProperties
<1>3. t = a
  BY <1>1, <1>2, SeqEqual
<1> QED
  BY <1>3 DEF a

\* A sequence without its first element.
LEMMA IsTail ==
    ASSUME NEW S, NEW s \in Seq(S), NEW t \in Seq(S), s # << >>, Len(t) = Len(s) - 1,
           \A i \in 1 .. Len(t) : t[i] = s[i + 1]
    PROVE  t = Tail(s)
<1> DEFINE a == Tail(s)
<1>1. a \in Seq(S) /\ Len(a) = Len(s) - 1 /\ \A i \in 1 .. Len(a) : a[i] = s[i + 1]
  BY HeadTailProperties
<1> HIDE DEF a
<1>2. t = a
  BY <1>1, SeqEqual
<1> QED
  BY <1>2 DEF a
---------------------------------------------------------------------------
\* While the buffer fills, the head is the number of records; when it is full for
\* the first time, the head is at the oldest record.
LogInv ==
    /\ LogTypeOK
    /\ log_count < Capacity => log_head = log_count
    /\ log_count = Capacity => log_head = 0

Slots == Record \union {Blank}

\* The records from the start of the buffer while it fills, from the head once it
\* is full.
ListsFromHead ==
    /\ log_count < Capacity =>
         /\ Listing \in Seq(Slots) /\ Len(Listing) = log_count
         /\ \A i \in 1 .. log_count : Listing[i] = log[i - 1]
    /\ log_count >= Capacity =>
         /\ Listing \in Seq(Slots) /\ Len(Listing) = Capacity
         /\ \A i \in 1 .. Capacity :
               Listing[i] = log[IF log_head + i - 1 < Capacity THEN log_head + i - 1
                                ELSE log_head + i - 1 - Capacity]

\* That is what ids_log_at returns.
LEMMA ListingIs == LogInv => ListsFromHead
<1> SUFFICES ASSUME LogInv PROVE ListsFromHead
  OBVIOUS
<1> USE AuditLogAssumption DEF LogInv, LogTypeOK, Slots, ListsFromHead
<1>1. CASE log_count < Capacity
  <2> DEFINE f == [i \in 1 .. log_count |-> log[i - 1]]
  <2>1. \A i \in 1 .. log_count : ids_log_at(i - 1) = log[i - 1]
    <3>1. ASSUME NEW i \in 1 .. log_count PROVE (0 + (i - 1)) % Capacity = i - 1
      <4>1. i - 1 \in 0 .. Capacity - 1 /\ 0 + (i - 1) = i - 1
        BY <1>1
      <4>2. \A k \in 0 .. Capacity - 1 : k % Capacity = k
        OBVIOUS
      <4> QED
        BY <4>1, <4>2
    <3> QED
      BY <1>1, <3>1 DEF ids_log_at
  <2>2. Listing = f
    BY <1>1, <2>1 DEF Listing, ids_log_count
  <2>3. f \in [1 .. log_count -> Slots]
    BY <1>1
  <2>4. f \in Seq(Slots) /\ Len(f) = log_count
    BY <2>3, FunctionIsSeq
  <2>5. \A i \in 1 .. log_count : f[i] = log[i - 1]
    OBVIOUS
  <2> HIDE DEF f
  <2> QED
    BY <1>1, <2>2, <2>4, <2>5
<1>2. CASE log_count >= Capacity
  <2> DEFINE At(i) == IF log_head + i - 1 < Capacity THEN log_head + i - 1
                      ELSE log_head + i - 1 - Capacity
             f == [i \in 1 .. Capacity |-> log[At(i)]]
  <2>1. ASSUME NEW i \in 1 .. Capacity
        PROVE  ids_log_at(i - 1) = log[At(i)] /\ log[At(i)] \in Slots
    <3>1. (log_head + (i - 1)) % Capacity = At(i) /\ At(i) \in 0 .. Capacity - 1
      <4>1. log_head \in 0 .. Capacity - 1 /\ i - 1 \in 0 .. Capacity
        OBVIOUS
      <4>2. log_head + (i - 1) = log_head + i - 1
        OBVIOUS
      <4> QED
        BY <4>1, <4>2, RingAt, Zenon
    <3>2. ids_log_at(i - 1) = log[(log_head + (i - 1)) % Capacity]
      BY <1>2 DEF ids_log_at
    <3> QED
      BY <3>1, <3>2
  <2> HIDE DEF At
  <2>2. Listing = f
    BY <1>2, <2>1 DEF Listing, ids_log_count
  <2>3. f \in [1 .. Capacity -> Slots]
    BY <2>1
  <2>4. f \in Seq(Slots) /\ Len(f) = Capacity
    BY <2>3, FunctionIsSeq
  <2>5. \A i \in 1 .. Capacity : f[i] = log[At(i)]
    OBVIOUS
  <2> HIDE DEF f
  <2>6. /\ Listing \in Seq(Slots) /\ Len(Listing) = Capacity
        /\ \A i \in 1 .. Capacity : Listing[i] = log[At(i)]
    BY <2>2, <2>4, <2>5
  <2> QED
    BY <1>2, <2>6 DEF At
<1> QED
  BY <1>1, <1>2

\* ids_log keeps the head where the reader expects it.
LEMMA LogStep == LogInv /\ [LogNext]_lvars => LogInv'
<1> SUFFICES ASSUME LogInv, [LogNext]_lvars PROVE LogInv'
  OBVIOUS
<1> USE AuditLogAssumption DEF LogInv, LogTypeOK
<1>1. ASSUME NEW r \in Record, log_count + 1 < CountLimit, ids_log(r) PROVE LogInv'
  <2>1. log_count' = log_count + 1
    BY <1>1 DEF ids_log
  <2>2. /\ log_head' = IF log_head + 1 = Capacity THEN 0 ELSE log_head + 1
        /\ log_head' \in 0 .. Capacity - 1
    BY <1>1, RingNext, Zenon DEF ids_log
  <2>3. log' \in [0 .. Capacity - 1 -> Record \union {Blank}]
    BY <1>1 DEF ids_log
  <2> QED
    BY <1>1, <2>1, <2>2, <2>3
<1>2. CASE UNCHANGED lvars
  BY <1>2 DEF lvars
<1> QED
  BY <1>1, <1>2 DEF LogNext, ids_print_log

\* A record that is written appears at the end of the listing; once the buffer is
\* full the oldest one leaves it.
LEMMA LogWrites ==
    ASSUME LogInv, LogInv', ListsFromHead, ListsFromHead', NEW r \in Record,
           log_count + 1 < CountLimit, ids_log(r)
    PROVE  Abstract!Write(r)
<1> USE AuditLogAssumption DEF LogInv, LogTypeOK
<1>1. /\ log_count' = log_count + 1
      /\ \A k \in 0 .. Capacity - 1 : log'[k] = IF k = log_head THEN r ELSE log[k]
  BY DEF ids_log
<1>2. log_head' = IF log_head + 1 = Capacity THEN 0 ELSE log_head + 1
  BY RingNext, Zenon DEF ids_log
<1>3. r \in Slots
  BY DEF Slots
<1>4. CASE log_count < Capacity
  <2>1. /\ Listing \in Seq(Slots) /\ Len(Listing) = log_count /\ log_head = log_count
        /\ \A i \in 1 .. log_count : Listing[i] = log[i - 1]
    BY <1>4, Zenon DEF ListsFromHead
  <2>2. /\ Listing' \in Seq(Slots) /\ Len(Listing') = log_count + 1
        /\ \A i \in 1 .. log_count + 1 : Listing'[i] = log'[i - 1]
    <3>1. CASE log_count + 1 < Capacity
      BY <1>1, <3>1 DEF ListsFromHead
    <3>2. CASE log_count + 1 = Capacity
      BY <1>1, <3>2 DEF ListsFromHead
    <3> QED
      BY <1>4, <3>1, <3>2
  <2>3. /\ \A i \in 1 .. log_count : Listing'[i] = Listing[i]
        /\ Listing'[log_count + 1] = r
    <3>1. ASSUME NEW i \in 1 .. log_count PROVE Listing'[i] = Listing[i]
      <4>1. i - 1 \in 0 .. Capacity - 1 /\ i - 1 # log_head /\ i \in 1 .. log_count + 1
        BY <1>4, <2>1
      <4> QED
        BY <1>1, <2>1, <2>2, <4>1
    <3>2. Listing'[log_count + 1] = r
      <4>1. /\ log_count \in 0 .. Capacity - 1 /\ log_count + 1 \in 1 .. log_count + 1
            /\ log_count + 1 - 1 = log_count
        BY <1>4
      <4> QED
        BY <1>1, <2>1, <2>2, <4>1
    <3> QED
      BY <3>1, <3>2
  <2>4. Listing' = Append(Listing, r)
    BY <1>3, <2>1, <2>2, <2>3, IsAppend
  <2> QED
    BY <1>4, <2>1, <2>4 DEF Abstract!Write
<1>5. CASE log_count >= Capacity
  <2> DEFINE At(h, i) == IF h + i - 1 < Capacity THEN h + i - 1 ELSE h + i - 1 - Capacity
  <2>1. /\ Listing \in Seq(Slots) /\ Len(Listing) = Capacity
        /\ \A i \in 1 .. Capacity : Listing[i] = log[At(log_head, i)]
    BY <1>5, Zenon DEF ListsFromHead
  <2>2. /\ Listing' \in Seq(Slots) /\ Len(Listing') = Capacity
        /\ \A i \in 1 .. Capacity : Listing'[i] = log'[At(log_head', i)]
    <3>1. log_count' >= Capacity
      BY <1>1, <1>5
    <3> QED
      BY <3>1, Zenon DEF ListsFromHead
  <2>3. \A i \in 1 .. Capacity - 1 : /\ At(log_head', i) = At(log_head, i + 1)
                                     /\ At(log_head, i + 1) # log_head
                                     /\ At(log_head, i + 1) \in 0 .. Capacity - 1
    BY <1>2
  <2>4. At(log_head', Capacity) = log_head
    BY <1>2
  <2> HIDE DEF At
  <2>5. \A i \in 1 .. Capacity - 1 : Listing'[i] = Listing[i + 1]
    BY <1>1, <2>1, <2>2, <2>3, SMTT(40)
  <2>6. Listing'[Capacity] = r
    BY <1>1, <2>2, <2>4
  <2> DEFINE rest == Tail(Listing)
  <2>7. /\ rest \in Seq(Slots) /\ Len(rest) = Capacity - 1
        /\ \A i \in 1 .. Capacity - 1 : rest[i] = Listing[i + 1]
    <3>1. Listing # << >>
      BY <2>1, EmptySeq
    <3> QED
      BY <2>1, <3>1, HeadTailProperties
  <2> HIDE DEF rest
  <2>8. Listing' = Append(rest, r)
    <3>1. /\ Len(Listing') = Len(rest) + 1
          /\ \A i \in 1 .. Len(rest) : Listing'[i] = rest[i]
          /\ Listing'[Len(rest) + 1] = r
      <4>1. Len(rest) + 1 = Capacity /\ Len(Listing') = Capacity
        BY <2>2, <2>7
      <4>2. 1 .. Len(rest) = 1 .. Capacity - 1
        BY <2>7
      <4> QED
        BY <2>5, <2>6, <2>7, <4>1, <4>2, Zenon
    <3>2. Listing' \in Seq(Slots) /\ rest \in Seq(Slots) /\ r \in Slots
      BY <1>3, <2>2, <2>7
    <3> QED
      BY ONLY <3>1, <3>2, IsAppend, SMTT(40)
  <2> QED
    BY <1>5, <2>1, <2>8 DEF Abstract!Write, rest
<1> QED
  BY <1>4, <1>5

\* The buffer is well formed and its head follows the number of records.
THEOREM LogInvHolds == LogSpec => []LogInv
<1>1. ids_init => LogInv
  BY AuditLogAssumption DEF ids_init, LogInv, LogTypeOK
<1> QED
  BY <1>1, LogStep, PTL DEF LogSpec

\* The audit log implements the list of the latest Capacity records, oldest first
\* (ids_log, ids_log_count, ids_log_at), until its counter would wrap.
THEOREM LogImplementsLastRecords == LogSpec => KeepsLastRecords
<1>1. ids_init => Abstract!Init
  <2> SUFFICES ASSUME ids_init PROVE Listing = << >>
    BY DEF Abstract!Init
  <2>1. ids_log_count = 0
    BY AuditLogAssumption DEF ids_init, ids_log_count
  <2>2. 1 .. ids_log_count = {}
    BY <2>1
  <2> QED
    BY <2>2 DEF Listing
<1>2. LogInv => ListsFromHead
  BY ListingIs
<1>3. /\ LogInv /\ LogInv' /\ ListsFromHead /\ ListsFromHead' /\ [LogNext]_lvars
      => [Abstract!Next]_Listing
  <2> SUFFICES ASSUME LogInv, LogInv', ListsFromHead, ListsFromHead', [LogNext]_lvars
               PROVE  [Abstract!Next]_Listing
    OBVIOUS
  <2>1. ASSUME NEW r \in Record, log_count + 1 < CountLimit, ids_log(r)
        PROVE  Abstract!Next
    BY <2>1, LogWrites DEF Abstract!Next
  <2>2. CASE UNCHANGED lvars
    BY <2>2 DEF lvars, Listing, ids_log_at, ids_log_count
  <2> QED
    BY <2>1, <2>2 DEF LogNext, ids_print_log
<1> QED
  BY <1>1, <1>2, <1>3, LogInvHolds, PTL DEF LogSpec, KeepsLastRecords, Abstract!Spec
---------------------------------------------------------------------------
Text == Seq(Byte \union {Zero})

\* A ring whose tail is count slots after its head.
RingOK(q) == q \in Queue /\ q.tail = (q.head + q.count) % Depth

\* The slot of the n-th message of a ring.
SlotOf(q, n) == (q.head + n - 1) % Depth

\* The slots of the messages, and the one for the next message, are different ones
\* while the ring is not full; the last is the tail.
LEMMA SlotsDiffer ==
    ASSUME NEW q, RingOK(q)
    PROVE  /\ \A n \in 1 .. q.count : SlotOf(q, n) \in Index
           /\ q.count < Depth =>
                /\ q.tail = SlotOf(q, q.count + 1)
                /\ \A n \in 1 .. q.count : SlotOf(q, n) # q.tail
           /\ q.count > 0 => SlotOf(q, 1) = q.head
<1> USE IpcAssumption DEF RingOK, Queue, Index
<1>1. q.head \in 0 .. Depth - 1 /\ q.count \in 0 .. Depth
  OBVIOUS
<1>2. \A n \in 1 .. Depth : /\ SlotOf(q, n) = IF q.head + (n - 1) < Depth THEN q.head + (n - 1)
                                              ELSE q.head + (n - 1) - Depth
                            /\ SlotOf(q, n) \in Index
  <2> TAKE n \in 1 .. Depth
  <2>1. n - 1 \in 0 .. Depth /\ q.head + n - 1 = q.head + (n - 1)
    BY <1>1
  <2> QED
    BY <1>1, <2>1, RingAt, Zenon DEF SlotOf
<1>3. q.count < Depth => q.tail = SlotOf(q, q.count + 1)
  <2>1. q.head + (q.count + 1) - 1 = q.head + q.count
    BY <1>1
  <2> QED
    BY <2>1 DEF SlotOf
<1> HIDE DEF SlotOf, Queue, RingOK
<1>4. q.count < Depth => \A n \in 1 .. q.count : SlotOf(q, n) # SlotOf(q, q.count + 1)
  BY <1>1, <1>2
<1> QED
  BY <1>1, <1>2, <1>3, <1>4

\* The first bytes of a slot.
LEMMA PrefixIs ==
    ASSUME NEW d \in Data, NEW n \in 0 .. MsgMax
    PROVE  /\ SubSeq(d, 1, n) \in Text /\ Len(SubSeq(d, 1, n)) = n
           /\ \A b \in 1 .. n : SubSeq(d, 1, n)[b] = d[b]
<1> USE IpcAssumption
<1>1. \A b \in 1 .. n : d[b] \in Byte \union {Zero}
  BY DEF Data
<1>2. /\ SubSeq(d, 1, n) \in Text
      /\ Len(SubSeq(d, 1, n)) = IF 1 <= n THEN n - 1 + 1 ELSE 0
      /\ \A b \in 1 .. n - 1 + 1 : SubSeq(d, 1, n)[b] = d[1 + b - 1]
  BY <1>1, SubSeqProperties DEF Text
<1> QED
  BY <1>2

\* The messages of a ring are a sequence, one from each of its occupied slots.
LEMMA ContentsIs ==
    ASSUME NEW q, RingOK(q)
    PROVE  /\ Contents(q) \in Seq(Text) /\ Len(Contents(q)) = q.count
           /\ \A n \in 1 .. q.count :
                 Contents(q)[n] = SubSeq(q.data[SlotOf(q, n)], 1, q.len[SlotOf(q, n)])
<1> DEFINE f == [n \in 1 .. q.count |-> SubSeq(q.data[SlotOf(q, n)], 1, q.len[SlotOf(q, n)])]
<1>1. Contents(q) = f
  BY DEF Contents, SlotOf
<1>2. ASSUME NEW n \in 1 .. q.count
      PROVE  SubSeq(q.data[SlotOf(q, n)], 1, q.len[SlotOf(q, n)]) \in Text
  <2>1. SlotOf(q, n) \in Index
    BY SlotsDiffer
  <2>2. q.data[SlotOf(q, n)] \in Data /\ q.len[SlotOf(q, n)] \in 0 .. MsgMax
    BY <2>1 DEF RingOK, Queue
  <2> QED
    BY <2>2, PrefixIs
<1>3. q.count \in Nat
  BY IpcAssumption DEF RingOK, Queue
<1>4. f \in [1 .. q.count -> Text]
  BY <1>2
<1>5. f \in Seq(Text) /\ Len(f) = q.count
  BY <1>3, <1>4, FunctionIsSeq, Zenon
<1>6. \A n \in 1 .. q.count : f[n] = SubSeq(q.data[SlotOf(q, n)], 1, q.len[SlotOf(q, n)])
  BY Zenon
<1> HIDE DEF f
<1> QED
  BY <1>1, <1>5, <1>6

\* A message is a text; read back with its length from the slot it was copied to,
\* it is the message that was sent, whatever the slot held before.
LEMMA CopiedBack ==
    ASSUME NEW d \in Data, NEW m \in Msg
    PROVE  /\ m \in Text /\ Len(m) \in 0 .. MsgMax
           /\ memcpy(d, m) \in Data
           /\ SubSeq(memcpy(d, m), 1, Len(m)) = m
<1>1. PICK k \in 1 .. MsgMax : m \in [1 .. k -> Byte]
  BY DEF Msg
<1>2. m \in [1 .. k -> Byte \union {Zero}] /\ k \in Nat
  BY <1>1, IpcAssumption
<1>3. m \in Text /\ Len(m) = k /\ DOMAIN m = 1 .. k
  BY <1>2, FunctionIsSeq DEF Text
<1> DEFINE c == memcpy(d, m)
<1>4. c \in Data /\ \A b \in 1 .. k : c[b] = m[b]
  <2>1. DOMAIN d = 1 .. MsgMax /\ 1 .. k \subseteq 1 .. MsgMax
    BY <1>1, IpcAssumption DEF Data
  <2> QED
    BY <1>2, <1>3, <2>1 DEF memcpy, Data
<1> HIDE DEF c
<1>5. k \in 0 .. MsgMax
  BY <1>1, IpcAssumption
<1>6. /\ SubSeq(c, 1, k) \in Text /\ Len(SubSeq(c, 1, k)) = k
      /\ \A b \in 1 .. k : SubSeq(c, 1, k)[b] = c[b]
  BY <1>4, <1>5, PrefixIs
<1> DEFINE t == SubSeq(c, 1, k)
<1> HIDE DEF t
<1>7. t = m
  <2>1. t \in Text /\ Len(t) = k /\ \A b \in 1 .. k : t[b] = m[b]
    BY <1>4, <1>6 DEF t
  <2> QED
    BY <1>3, <2>1, SeqEqual DEF Text
<1> QED
  BY <1>3, <1>4, <1>5, <1>7 DEF c, t

\* ipc_send to a ring with room appends the message and leaves the others.
LEMMA Enqueues ==
    ASSUME NEW q, RingOK(q), q.count < Depth, NEW m \in Msg
    PROVE  RingOK(Enqueue(q, m)) /\ Contents(Enqueue(q, m)) = Append(Contents(q), m)
<1> DEFINE e == [data |-> [q.data EXCEPT ![q.tail] = memcpy(@, m)],
                 len |-> [q.len EXCEPT ![q.tail] = Len(m)],
                 head |-> q.head, tail |-> Advance(q.tail), count |-> q.count + 1]
<1>1. /\ q.data \in [Index -> Data] /\ q.len \in [Index -> 0 .. MsgMax] /\ q.head \in Index
      /\ q.tail \in Index /\ q.count \in 0 .. Depth /\ q.tail = (q.head + q.count) % Depth
  BY DEF RingOK, Queue
<1>2. Enqueue(q, m) = e
  <2>1. ~ (q.count >= Depth)
    BY <1>1, IpcAssumption
  <2> QED
    BY <2>1, Zenon DEF Enqueue, RingOK, Queue
<1>3. /\ m \in Text /\ Len(m) \in 0 .. MsgMax
      /\ memcpy(q.data[q.tail], m) \in Data
      /\ SubSeq(memcpy(q.data[q.tail], m), 1, Len(m)) = m
  BY <1>1, CopiedBack
<1>4. /\ e.data \in [Index -> Data] /\ e.len \in [Index -> 0 .. MsgMax]
      /\ e.data[q.tail] = memcpy(q.data[q.tail], m) /\ e.len[q.tail] = Len(m)
      /\ \A k \in Index : k # q.tail => e.data[k] = q.data[k] /\ e.len[k] = q.len[k]
      /\ e.head = q.head /\ e.tail = Advance(q.tail) /\ e.count = q.count + 1
  BY <1>1, <1>3
<1>5. RingOK(e)
  <2>1. Advance(q.tail) \in Index /\ e.count \in 0 .. Depth
    <3>1. Advance(q.tail) \in Index
      BY <1>1, RingNext, IpcAssumption, Zenon DEF Advance, Index
    <3>2. q.count + 1 \in 0 .. Depth
      BY <1>1, IpcAssumption
    <3> QED
      BY <1>4, <3>1, <3>2
  <2>2. Advance(q.tail) = (q.head + (q.count + 1)) % Depth
    <3>1. /\ q.tail = IF q.head + q.count < Depth THEN q.head + q.count ELSE q.head + q.count - Depth
          /\ (q.head + (q.count + 1)) % Depth =
                IF q.head + (q.count + 1) < Depth THEN q.head + (q.count + 1)
                ELSE q.head + (q.count + 1) - Depth
      <4>1. q.head \in 0 .. Depth - 1 /\ q.count \in 0 .. Depth /\ q.count + 1 \in 0 .. Depth
        BY <1>1, IpcAssumption, SMTT(40) DEF Index
      <4> QED
        BY <1>1, <4>1, RingAt, IpcAssumption, Zenon
    <3>2. Advance(q.tail) = IF q.tail + 1 = Depth THEN 0 ELSE q.tail + 1
      BY <1>1, RingNext, IpcAssumption, SMTT(40) DEF Advance, Index
    <3> DEFINE a == Advance(q.tail)
               b == (q.head + (q.count + 1)) % Depth
    <3>3. q.head \in 0 .. Depth - 1 /\ q.count \in 0 .. Depth /\ Depth \in Nat \ {0}
      BY <1>1, IpcAssumption DEF Index
    <3> HIDE DEF a, b, e
    <3>4. a = b
      BY <3>1, <3>2, <3>3, SMTT(40) DEF a, b
    <3> QED
      BY <3>4 DEF a, b
  <2>3. e \in Queue
    BY <1>1, <1>4, <2>1 DEF Queue
  <2> QED
    BY <1>4, <2>2, <2>3 DEF RingOK
<1> HIDE DEF e
<1> DEFINE old == Contents(q)
           new == Contents(e)
<1>6. /\ old \in Seq(Text) /\ Len(old) = q.count
      /\ \A n \in 1 .. q.count : old[n] = SubSeq(q.data[SlotOf(q, n)], 1, q.len[SlotOf(q, n)])
  BY ContentsIs
<1>7. /\ new \in Seq(Text) /\ Len(new) = q.count + 1
      /\ \A n \in 1 .. q.count + 1 :
            new[n] = SubSeq(e.data[SlotOf(q, n)], 1, e.len[SlotOf(q, n)])
  <2>1. \A n : SlotOf(e, n) = SlotOf(q, n)
    BY <1>4 DEF SlotOf
  <2> QED
    BY <1>4, <1>5, <2>1, ContentsIs
<1> HIDE DEF old, new
<1>8. \A n \in 1 .. q.count : new[n] = old[n]
  <2> TAKE n \in 1 .. q.count
  <2>1. SlotOf(q, n) \in Index /\ SlotOf(q, n) # q.tail
    BY SlotsDiffer
  <2>2. n \in 1 .. q.count + 1
    BY <1>1
  <2> QED
    BY <1>4, <1>6, <1>7, <2>1, <2>2, Zenon
<1>9. new[q.count + 1] = m
  <2>1. q.tail = SlotOf(q, q.count + 1)
    BY SlotsDiffer
  <2>2. q.count + 1 \in 1 .. q.count + 1
    BY <1>1
  <2> QED
    BY <1>3, <1>4, <1>7, <2>1, <2>2, ZenonT(40)
<1>10. new = Append(old, m)
  BY <1>3, <1>6, <1>7, <1>8, <1>9, IsAppend
<1> QED
  BY <1>2, <1>5, <1>10 DEF old, new

\* A ring after ipc_recv has taken the message at its head.
Dequeued(q) == [q EXCEPT !.head = Advance(@), !.count = @ - 1]

\* ipc_recv takes the oldest message and leaves the others.
LEMMA Dequeues ==
    ASSUME NEW q, RingOK(q), q.count # 0
    PROVE  /\ RingOK(Dequeued(q)) /\ Contents(q) # << >>
           /\ Contents(Dequeued(q)) = Tail(Contents(q))
           /\ Head(Contents(q)) = SubSeq(q.data[q.head], 1, q.len[q.head])
<1> DEFINE e == Dequeued(q)
<1>1. /\ q \in Queue /\ q.head \in 0 .. Depth - 1 /\ q.count \in 1 .. Depth
      /\ Depth \in Nat \ {0} /\ q.tail = (q.head + q.count) % Depth
  BY IpcAssumption, SMTT(40) DEF RingOK, Queue, Index
<1>2. /\ e.data = q.data /\ e.len = q.len /\ e.tail = q.tail
      /\ e.head = Advance(q.head) /\ e.count = q.count - 1
  BY DEF Dequeued, RingOK, Queue
<1>3. /\ e.head = IF q.head + 1 = Depth THEN 0 ELSE q.head + 1
      /\ e.head \in 0 .. Depth - 1 /\ e.count \in 0 .. Depth
  <2>1. Advance(q.head) = IF q.head + 1 = Depth THEN 0 ELSE q.head + 1
    BY <1>1, RingNext DEF Advance
  <2> QED
    BY <1>1, <1>2, <2>1
<1>4. e \in Queue
  <2>1. Advance(q.head) \in Index /\ q.count - 1 \in 0 .. Depth
    BY <1>2, <1>3 DEF Index
  <2> QED
    BY <1>1, <2>1, Zenon DEF Dequeued, Queue
<1> HIDE DEF e
<1>5. \A n \in 0 .. Depth - 1 : (e.head + n) % Depth = (q.head + (n + 1)) % Depth
  <2> TAKE n \in 0 .. Depth - 1
  <2>1. /\ (e.head + n) % Depth = IF e.head + n < Depth THEN e.head + n ELSE e.head + n - Depth
        /\ (q.head + (n + 1)) % Depth =
              IF q.head + (n + 1) < Depth THEN q.head + (n + 1) ELSE q.head + (n + 1) - Depth
    <3>1. n \in 0 .. Depth /\ n + 1 \in 0 .. Depth
      BY <1>1
    <3> QED
      BY <1>1, <1>3, <3>1, RingAt, Zenon
  <2> QED
    BY <1>1, <1>3, <2>1, SMTT(40)
<1>6. RingOK(e)
  <2>1. q.count - 1 \in 0 .. Depth - 1 /\ (q.count - 1) + 1 = q.count
    BY <1>1
  <2>2. (e.head + (q.count - 1)) % Depth = (q.head + q.count) % Depth
    BY <1>5, <2>1
  <2> QED
    BY <1>1, <1>2, <1>4, <2>2 DEF RingOK
<1>7. \A n \in 1 .. q.count - 1 : SlotOf(e, n) = SlotOf(q, n + 1)
  <2> TAKE n \in 1 .. q.count - 1
  <2>1. n - 1 \in 0 .. Depth - 1 /\ e.head + n - 1 = e.head + (n - 1)
        /\ q.head + (n + 1) - 1 = q.head + ((n - 1) + 1)
    BY <1>1, <1>3
  <2> QED
    BY <1>5, <2>1 DEF SlotOf
<1> DEFINE old == Contents(q)
           new == Contents(e)
<1>8. /\ old \in Seq(Text) /\ Len(old) = q.count
      /\ \A n \in 1 .. q.count : old[n] = SubSeq(q.data[SlotOf(q, n)], 1, q.len[SlotOf(q, n)])
  BY ContentsIs
<1>9. /\ new \in Seq(Text) /\ Len(new) = q.count - 1
      /\ \A n \in 1 .. q.count - 1 :
            new[n] = SubSeq(q.data[SlotOf(e, n)], 1, q.len[SlotOf(e, n)])
  BY <1>2, <1>6, ContentsIs
<1> HIDE DEF old, new
<1>10. \A n \in 1 .. q.count - 1 : new[n] = old[n + 1]
  <2> TAKE n \in 1 .. q.count - 1
  <2>1. n + 1 \in 1 .. q.count
    BY <1>1
  <2> QED
    BY <1>7, <1>8, <1>9, <2>1, Zenon
<1>11. old # << >>
  BY <1>1, <1>8, EmptySeq
<1>12. new = Tail(old)
  <2>1. 1 .. Len(new) = 1 .. q.count - 1 /\ Len(new) = Len(old) - 1
    BY <1>8, <1>9
  <2> QED
    BY <1>8, <1>9, <1>10, <1>11, <2>1, IsTail
<1>13. Head(old) = SubSeq(q.data[q.head], 1, q.len[q.head])
  <2>1. 1 \in 1 .. q.count /\ SlotOf(q, 1) = q.head
    BY <1>1, SlotsDiffer
  <2>2. Head(old) = old[1]
    BY <1>8, <1>11
  <2> QED
    BY <1>8, <2>1, <2>2
<1> QED
  BY <1>6, <1>11, <1>12, <1>13 DEF e, old, new

Queues == [d \in Dest |-> Contents(queues[d])]

\* ipc_send: the message is at the end of the destination's queue, or refused.
LEMMA SendStep ==
    ASSUME IpcTypeOK, NEW dst \in 0 .. MaxVms + 1, NEW m \in Msg, ipc_send(dst, m)
    PROVE  IpcTypeOK' /\ (Fifo!Nothing \/ \E d \in Dest : Fifo!Send(d, m))
<1> USE DEF IpcTypeOK
<1>1. got' = << >> /\ got' \in Text /\ got' = NoMsg
  BY EmptySeq DEF ipc_send, NoMsg, Text
<1>2. \A d \in Dest : RingOK(queues[d])
  BY DEF RingOK
<1>3. CASE dst \notin Dest \/ (dst \in Dest /\ queues[dst].count >= Depth)
  <2>1. queues' = queues
    BY <1>3 DEF ipc_send, Enqueue
  <2>2. Fifo!Nothing
    BY <1>1, <2>1 DEF Fifo!Nothing
  <2> QED
    BY <1>1, <2>1, <2>2 DEF Text
<1>4. CASE dst \in Dest /\ ~ (queues[dst].count >= Depth)
  <2> DEFINE q == queues[dst]
             e == Enqueue(q, m)
  <2>1. queues' = [queues EXCEPT ![dst] = e]
    BY <1>4, Zenon DEF ipc_send
  <2>2. RingOK(q) /\ q.count < Depth /\ q.count \in Nat
    BY <1>2, <1>4, IpcAssumption DEF RingOK, Queue
  <2>3. RingOK(e) /\ Contents(e) = Append(Contents(q), m)
    BY <2>2, Enqueues
  <2> HIDE DEF e
  <2>4. \A d \in Dest : queues'[d] = IF d = dst THEN e ELSE queues[d]
    BY <1>4, <2>1
  <2>5. IpcTypeOK'
    <3>1. queues' \in [Dest -> Queue]
      BY <1>4, <2>1, <2>3 DEF RingOK
    <3>2. \A d \in Dest : RingOK(queues'[d])
      BY <1>2, <2>3, <2>4
    <3> QED
      BY <1>1, <3>1, <3>2 DEF RingOK, Text
  <2>6. Queues' = [Queues EXCEPT ![dst] = Append(Queues[dst], m)]
    BY <1>4, <2>3, <2>4, Zenon DEF Queues
  <2>7. Len(Queues[dst]) < Depth
    <3>1. Len(Contents(q)) = q.count
      BY <2>2, ContentsIs
    <3> QED
      BY <1>4, <2>2, <3>1 DEF Queues
  <2>8. Fifo!Send(dst, m)
    BY <1>1, <2>6, <2>7 DEF Fifo!Send, Queues
  <2> QED
    BY <1>4, <2>5, <2>8
<1> QED
  BY <1>3, <1>4

\* ipc_recv: the oldest message, cut to the buffer, or none.
LEMMA RecvStep ==
    ASSUME IpcTypeOK, NEW dst \in VmIds, NEW max_len \in 0 .. MsgMax + 1, ipc_recv(dst, max_len)
    PROVE  IpcTypeOK' /\ (Fifo!Nothing \/ Fifo!Receive(dst))
<1> USE DEF IpcTypeOK
<1> DEFINE q == queues[dst]
<1>1. dst \in Dest /\ (\A d \in Dest : RingOK(queues[d])) /\ RingOK(q)
  BY IpcAssumption DEF RingOK, Dest
<1>2. CASE q.count = 0
  <2>1. got' = << >> /\ got' \in Text /\ got' = NoMsg /\ queues' = queues
    BY <1>2, EmptySeq DEF ipc_recv, NoMsg, Text
  <2> QED
    BY <2>1 DEF Fifo!Nothing, Text
<1>3. CASE q.count # 0
  <2> DEFINE e == Dequeued(q)
             d0 == q.data[q.head]
             n == copy_len(q, max_len)
  <2>1. got' = SubSeq(d0, 1, n) /\ queues' = [queues EXCEPT ![dst] = e]
    BY <1>3, Zenon DEF ipc_recv, Dequeued
  <2>2. /\ RingOK(e) /\ Contents(q) # << >>
        /\ Contents(e) = Tail(Contents(q))
        /\ Head(Contents(q)) = SubSeq(d0, 1, q.len[q.head])
    BY <1>1, <1>3, Dequeues
  <2> HIDE DEF e
  <2>3. d0 \in Data /\ q.len[q.head] \in 0 .. MsgMax
    BY <1>1 DEF RingOK, Queue
  <2>4. n \in 0 .. q.len[q.head] /\ n \in 0 .. MsgMax
    BY <2>3, IpcAssumption DEF copy_len
  <2> HIDE DEF n
  <2>5. got' \in Text /\ Len(got') = n /\ \A b \in 1 .. n : got'[b] = d0[b]
    BY <2>1, <2>3, <2>4, PrefixIs, SMTT(40)
  <2>6. \A d \in Dest : queues'[d] = IF d = dst THEN e ELSE queues[d]
    BY <1>1, <2>1
  <2>7. IpcTypeOK'
    <3>1. queues' \in [Dest -> Queue]
      BY <1>1, <2>1, <2>2 DEF RingOK
    <3>2. \A d \in Dest : RingOK(queues'[d])
      BY <1>1, <2>2, <2>6
    <3> QED
      BY <2>5, <3>1, <3>2 DEF RingOK, Text
  <2>8. Queues' = [Queues EXCEPT ![dst] = Tail(Queues[dst])] /\ Queues[dst] = Contents(q)
    BY <1>1, <2>2, <2>6, ZenonT(40) DEF Queues
  <2>9. n \in 0 .. Len(Head(Contents(q))) /\ got' = SubSeq(Head(Contents(q)), 1, n)
    <3> DEFINE h == SubSeq(d0, 1, q.len[q.head])
               t == SubSeq(h, 1, n)
    <3>1. h \in Text /\ Len(h) = q.len[q.head] /\ \A b \in 1 .. q.len[q.head] : h[b] = d0[b]
      BY <2>3, PrefixIs
    <3> HIDE DEF h
    <3>2. t \in Text /\ Len(t) = n /\ \A b \in 1 .. n : t[b] = h[b]
      <4>1. \A b \in 1 .. n : h[b] \in Byte \union {Zero}
        BY <2>3, <2>4, <3>1, ElementOfSeq DEF Text
      <4>2. /\ t \in Text /\ Len(t) = (IF 1 <= n THEN n - 1 + 1 ELSE 0)
            /\ \A b \in 1 .. n - 1 + 1 : t[b] = h[1 + b - 1]
        BY <2>4, <4>1, SubSeqProperties, SMTT(40) DEF Text
      <4> QED
        BY <2>4, <4>2
    <3> HIDE DEF t
    <3>3. \A b \in 1 .. n : got'[b] = t[b]
      BY <2>3, <2>4, <2>5, <3>1, <3>2, SMTT(40)
    <3>4. got' = t
      BY <2>5, <3>2, <3>3, SeqEqual DEF Text
    <3> QED
      BY <2>2, <2>4, <3>1, <3>4, Zenon DEF h, t
  <2>10. Fifo!Receive(dst)
    BY <2>2, <2>8, <2>9, Zenon DEF Fifo!Receive, Queues
  <2> QED
    BY <2>7, <2>10
<1> QED
  BY <1>2, <1>3

\* The rings of ipc_init are well formed and empty.
LEMMA IpcStarts == ipc_init => IpcTypeOK /\ Fifo!Init
<1> SUFFICES ASSUME ipc_init PROVE IpcTypeOK /\ Fifo!Init
  OBVIOUS
<1> DEFINE q == [data |-> [k \in Index |-> [b \in 1 .. MsgMax |-> Zero]],
                 len |-> [k \in Index |-> 0], head |-> 0, tail |-> 0, count |-> 0]
<1>1. queues = [d \in Dest |-> q] /\ got = << >> /\ got = NoMsg
  BY DEF ipc_init, NoMsg
<1>2. q \in Queue /\ q.count = 0 /\ q.tail = (q.head + q.count) % Depth
  BY IpcAssumption DEF Queue, Index, Data
<1> HIDE DEF q
<1>3. IpcTypeOK
  BY <1>1, <1>2, EmptySeq DEF IpcTypeOK
<1>4. Contents(q) = << >>
  <2>1. 1 .. q.count = {}
    BY <1>2
  <2> QED
    BY <2>1 DEF Contents
<1>5. Fifo!Init
  BY <1>1, <1>4 DEF Fifo!Init
<1> QED
  BY <1>3, <1>5

\* The rings stay well formed and their three indices agree.
THEOREM RingsAreWellFormed == IpcSpec => []IpcTypeOK
<1>1. IpcTypeOK /\ [IpcNext]_<<queues, got>> => IpcTypeOK'
  <2> SUFFICES ASSUME IpcTypeOK, [IpcNext]_<<queues, got>> PROVE IpcTypeOK'
    OBVIOUS
  <2>1. CASE IpcNext
    BY <2>1, SendStep, RecvStep DEF IpcNext
  <2>2. CASE UNCHANGED <<queues, got>>
    BY <2>2 DEF IpcTypeOK
  <2> QED
    BY <2>1, <2>2
<1> QED
  BY <1>1, IpcStarts, PTL DEF IpcSpec

\* The rings implement FIFO queues: no message is lost, duplicated, reordered or
\* mixed with an earlier one that used its slot (ipc_send, ipc_recv).
THEOREM RingsImplementFifo == IpcSpec => ImplementsFifo
<1>1. IpcTypeOK /\ [IpcNext]_<<queues, got>> => [Fifo!Next]_<<Queues, got>>
  <2> SUFFICES ASSUME IpcTypeOK, [IpcNext]_<<queues, got>>
               PROVE  [Fifo!Next]_<<Queues, got>>
    OBVIOUS
  <2>1. ASSUME NEW dst \in 0 .. MaxVms + 1, NEW m \in Msg, ipc_send(dst, m)
        PROVE  Fifo!Next
    BY <2>1, SendStep DEF Fifo!Next
  <2>2. ASSUME NEW dst \in VmIds, NEW max_len \in 0 .. MsgMax + 1, ipc_recv(dst, max_len)
        PROVE  Fifo!Next
    <3>1. dst \in Dest
      BY IpcAssumption DEF Dest
    <3> QED
      BY <2>2, <3>1, RecvStep DEF Fifo!Next
  <2>3. CASE UNCHANGED <<queues, got>>
    BY <2>3 DEF Queues
  <2> QED
    BY <2>1, <2>2, <2>3 DEF IpcNext
<1> QED
  BY <1>1, IpcStarts, RingsAreWellFormed, PTL
     DEF IpcSpec, ImplementsFifo, Fifo!Spec, Queues
=============================================================================
