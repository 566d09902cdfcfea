-------------------------------- MODULE Ipc --------------------------------
(***************************************************************************)
(* Inter-VM messages: ipc_init, ipc_send and ipc_recv of guest/ipc/ipc.c.  *)
(* One ring of IPC_DEPTH slots per destination.  A slot's data keeps what  *)
(* memcpy does not overwrite: the bytes of a longer, earlier message stay  *)
(* behind those of a shorter one.                                          *)
(***************************************************************************)
EXTENDS Integers, Sequences

CONSTANTS MaxVms,      \* MAX_VMS: there is a queue for every possible id
          VmIds,       \* the ids of the VMs that exist
          Depth,       \* IPC_DEPTH
          MsgMax,      \* IPC_MSG_MAX
          Byte,        \* what a byte of a message can be
          Zero         \* a byte of a slot as the memset of ipc_init leaves it

VARIABLES queues, got

ASSUME IpcAssumption ==
    /\ MaxVms \in Nat
    /\ VmIds \subseteq 1..MaxVms
    /\ Depth \in Nat \ {0}
    /\ MsgMax \in Nat \ {0}

Dest == 1..MaxVms
Index == 0..(Depth - 1)
Data == [1..MsgMax -> Byte \union {Zero}]
Queue == [data : [Index -> Data], len : [Index -> 0..MsgMax],
          head : Index, tail : Index, count : 0..Depth]

\* The messages a guest can pass to ipc_send.
Msg == UNION {[1..n -> Byte] : n \in 1..MsgMax}

NoMsg == << >>

ipc_init ==
    /\ queues = [d \in Dest |->
                   [data |-> [k \in Index |-> [b \in 1..MsgMax |-> Zero]],
                    len |-> [k \in Index |-> 0],
                    head |-> 0, tail |-> 0, count |-> 0]]
    /\ got = NoMsg
---------------------------------------------------------------------------
\* The first bytes of a slot after a message was copied into it.
memcpy(data, m) == [b \in DOMAIN data |-> IF b \in DOMAIN m THEN m[b] ELSE data[b]]

\* The slot that follows in the ring.
Advance(k) == (k + 1) % Depth

\* ipc_send to an id in range: refused when the queue is full (E_BUSY).
Enqueue(q, m) ==
    IF q.count >= Depth THEN q
    ELSE [q EXCEPT !.data[q.tail] = memcpy(@, m),
                   !.len[q.tail] = Len(m),
                   !.tail = Advance(@),
                   !.count = @ + 1]

ipc_send(dst, m) ==
    /\ queues' = IF dst \in Dest THEN [queues EXCEPT ![dst] = Enqueue(@, m)]
                                 ELSE queues
    /\ got' = NoMsg

\* Mutant: the message length is not looked at.
copy_len_of_buffer(q, max_len) == max_len

\* The number of bytes ipc_recv copies.
copy_len(q, max_len) ==
    IF q.len[q.head] < max_len THEN q.len[q.head] ELSE max_len

\* ipc_recv by the VM on the core, into a buffer of max_len bytes.
ipc_recv(dst, max_len) ==
    LET q == queues[dst]
    IN  IF q.count = 0 THEN got' = NoMsg /\ UNCHANGED queues
        ELSE /\ got' = SubSeq(q.data[q.head], 1, copy_len(q, max_len))
             /\ queues' = [queues EXCEPT ![dst].head = Advance(@),
                                         ![dst].count = @ - 1]

\* dst and max_len come from the guest's registers; an id out of range and a
\* length of zero or above IPC_MSG_MAX are refused.
IpcNext ==
    \/ \E dst \in 0..(MaxVms + 1), m \in Msg : ipc_send(dst, m)
    \/ \E dst \in VmIds, max_len \in 0..(MsgMax + 1) : ipc_recv(dst, max_len)

IpcSpec == ipc_init /\ [][IpcNext]_<<queues, got>>
---------------------------------------------------------------------------
\* The rings are well formed; head, tail and count agree: ipc_send writes at tail
\* and ipc_recv reads at head, and only count tells a full ring from an empty one.
IpcTypeOK ==
    /\ queues \in [Dest -> Queue] /\ got \in Seq(Byte \union {Zero})
    /\ \A d \in Dest : queues[d].tail = (queues[d].head + queues[d].count) % Depth

\* The messages in a ring, oldest first, each with the bytes it was sent with.
Contents(q) ==
    [n \in 1..q.count |->
       LET k == (q.head + n - 1) % Depth IN SubSeq(q.data[k], 1, q.len[k])]

Fifo == INSTANCE MsgQueue WITH queue <- [d \in Dest |-> Contents(queues[d])]

\* The rings implement FIFO queues: no message is lost, duplicated, reordered
\* or mixed with the bytes of an earlier one that used the same slot, with
\* senders and receivers interleaved in any way (ipc_send, ipc_recv).
ImplementsFifo == Fifo!Spec
===========================================================================
