----------------------------- MODULE AuditLog -----------------------------
(***************************************************************************)
(* The ring buffer behind the intrusion detector: _log, ids_log_count and  *)
(* ids_log_at of vse/ids.c.  A record is an opaque value.  log_count is an *)
(* unsigned integer below CountLimit (2^32).                               *)
(***************************************************************************)
EXTENDS Naturals, Sequences

CONSTANTS Capacity,      \* IDS_LOG_CAPACITY
          Record,        \* what a record can hold
          CountLimit,    \* 2^32
          Blank          \* a slot as the memset of ids_init leaves it

VARIABLES log, log_head, log_count

ASSUME AuditLogAssumption ==
    /\ Capacity \in Nat \ {0}
    /\ CountLimit \in Nat /\ CountLimit > Capacity
    /\ Blank \notin Record

lvars == <<log, log_head, log_count>>

ids_init ==
    /\ log = [k \in 0..(Capacity - 1) |-> Blank]
    /\ log_head = 0
    /\ log_count = 0

ids_log(r) ==
    /\ log' = [log EXCEPT ![log_head] = r]
    /\ log_head' = (log_head + 1) % Capacity
    /\ log_count' = (log_count + 1) % CountLimit

ids_log_count == IF log_count < Capacity THEN log_count ELSE Capacity

\* Mutant: the oldest record is always taken to be at 0.
ids_log_at_from_zero(i) == log[i % Capacity]

ids_log_at(i) ==
    LET start == IF log_count <= Capacity THEN 0 ELSE log_head
    IN  log[(start + i) % Capacity]

\* A dump of the log calls ids_log_at for every index and changes nothing.
ids_print_log == UNCHANGED lvars

\* Up to the last record before the counter wraps.
LogNext ==
    \/ \E r \in Record : log_count + 1 < CountLimit /\ ids_log(r)
    \/ ids_print_log

LogSpec == ids_init /\ [][LogNext]_lvars
---------------------------------------------------------------------------
\* The buffer and its two indices are well formed.
LogTypeOK ==
    /\ log \in [0..(Capacity - 1) -> Record \union {Blank}]
    /\ log_head \in 0..(Capacity - 1)
    /\ log_count \in 0..(CountLimit - 1)

\* What a reader sees that calls ids_log_at(0), ids_log_at(1), ...
Listing == [i \in 1..ids_log_count |-> ids_log_at(i - 1)]

Abstract == INSTANCE LastRecords WITH kept <- Listing

\* The listing is the latest Capacity records, oldest first, before, while and
\* after the buffer fills ("Oldest-first ordering. When wrapped, oldest is at
\* log_head.", ids.c).
KeepsLastRecords == Abstract!Spec
===========================================================================
