--------------------------- MODULE MCHypervisor ---------------------------
(* Instances of Hypervisor for TLC. *)
EXTENDS Hypervisor

\* Linux without a backup image and the RTOS with one.
TwoVmVcpus == <<1, 1>>
TwoVmSlots == [k \in 0..1 |-> [vm |-> k + 1, vcpu |-> 0]]
===========================================================================
