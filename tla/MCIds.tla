------------------------------- MODULE MCIds -------------------------------
(* Instances of Ids for TLC. *)
EXTENDS Ids

\* One VM: the monitors of different VMs share nothing.
OneVmVcpus == <<1>>
OneVmSlots == [k \in {0} |-> [vm |-> 1, vcpu |-> 0]]
===========================================================================
