---------------------------- MODULE LastRecords ----------------------------
(***************************************************************************)
(* What an audit log promises: a query lists the latest Capacity records,  *)
(* oldest first.                                                           *)
(***************************************************************************)
EXTENDS Naturals, Sequences

CONSTANTS Capacity, Record

VARIABLE kept

Init == kept = << >>

Write(r) ==
    kept' = IF Len(kept) < Capacity THEN Append(kept, r)
                                    ELSE Append(Tail(kept), r)

Next == \E r \in Record : Write(r)

Spec == Init /\ [][Next]_kept
===========================================================================
