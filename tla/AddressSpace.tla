--------------------------- MODULE AddressSpace ---------------------------
(***************************************************************************)
(* What Stage-2 translation promises: each VM has a flat map from pages to *)
(* descriptors.  Mapping a list of ranges overrides their pages, the last  *)
(* range winning; unmapping clears them; nothing changes outside of them   *)
(* or in another VM, until the machine stops for want of table memory.     *)
(***************************************************************************)
EXTENDS Integers, Sequences, FiniteSetsExt

CONSTANTS
    SpaceVms,   \* VM ids
    Span,       \* pages an input address can name; larger addresses wrap
    Fault,      \* the translation of a page that is not mapped
    Image,      \* the ranges of each VM
    Shared      \* the ranges shared memory may be mapped at or unmapped from

VARIABLES space, hung

svars == <<space, hung>>

\* The ranges of the list rs that page p is in; a range has at most Span pages.
Covering(rs, p) == {i \in DOMAIN rs : (p - rs[i].ipa) % Span < rs[i].n}

Translation(r, p) == [pa |-> r.pa + ((p - r.ipa) % Span), attr |-> r.attr]

Overlay(m, rs) ==
    [p \in DOMAIN m |-> LET over == Covering(rs, p)
                        IN  IF over = {} THEN m[p] ELSE Translation(rs[Max(over)], p)]

Erase(m, rs) == [p \in DOMAIN m |-> IF Covering(rs, p) = {} THEN m[p] ELSE Fault]

\* Boot maps each VM's ranges into empty tables.
SpaceInit ==
    /\ hung = FALSE
    /\ space = [v \in SpaceVms |-> Overlay([p \in 0 .. Span - 1 |-> Fault], Image[v])]

\* The maps m after each operation.
Stop(m, v) == [m EXCEPT ![v] = Erase(@, Image[v])]

Restart(m, v) == [m EXCEPT ![v] = Overlay(@, Image[v])]

\* The two VMs of a shared range, or one VM that shares with itself.
Parties == {{v, w} : v, w \in SpaceVms}

\* An operation turns the maps m into the maps n: a stop or a restart of one VM,
\* or a range shared or given up by its parties.
Change(m, n) ==
    \/ \E v \in SpaceVms : n = Stop(m, v) \/ n = Restart(m, v)
    \/ \E vs \in Parties :
         /\ \A v \in SpaceVms \ vs : n[v] = m[v]
         /\ \E r \in Shared :
               \/ \A v \in vs : n[v] = Overlay(m[v], <<r>>)
               \/ \A v \in vs : n[v] = Erase(m[v], <<r>>)

\* A machine without table memory may be left in the middle of a change.
Halt == ~hung /\ hung'

\* A call that is refused changes nothing.
Refuse == UNCHANGED svars

SpaceNext ==
    \/ Refuse
    \/ UNCHANGED hung /\ Change(space, space')
    \/ Halt

SpaceSpec == SpaceInit /\ [][SpaceNext]_svars
===========================================================================
