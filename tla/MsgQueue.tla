----------------------------- MODULE MsgQueue -----------------------------
(***************************************************************************)
(* What inter-VM messaging promises: per destination a FIFO queue of at    *)
(* most Depth messages.  A sender is refused when the queue is full; a     *)
(* receiver gets the oldest message, cut to the size of its buffer.        *)
(***************************************************************************)
EXTENDS Naturals, Sequences

CONSTANTS Dest, Msg, Depth, NoMsg

VARIABLES queue,    \* per destination: the messages sent and not received
          got       \* what the last call delivered, NoMsg if nothing

Init ==
    /\ queue = [d \in Dest |-> << >>]
    /\ got = NoMsg

Send(d, m) ==
    /\ Len(queue[d]) < Depth
    /\ queue' = [queue EXCEPT ![d] = Append(@, m)]
    /\ got' = NoMsg

\* A full queue refuses a message, an empty one delivers none.
Nothing == got' = NoMsg /\ UNCHANGED queue

Receive(d) ==
    /\ queue[d] # << >>
    /\ \E size \in 0..Len(Head(queue[d])) : got' = SubSeq(Head(queue[d]), 1, size)
    /\ queue' = [queue EXCEPT ![d] = Tail(@)]

Next ==
    \/ Nothing
    \/ \E d \in Dest, m \in Msg : Send(d, m)
    \/ \E d \in Dest : Receive(d)

Spec == Init /\ [][Next]_<<queue, got>>
===========================================================================
