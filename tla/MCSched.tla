------------------------------ MODULE MCSched ------------------------------
(* Instances of Sched for TLC. *)
EXTENDS Sched

\* Linux, the RTOS and Android with its two vCPUs, as platform_init makes them.
ThreeVmVcpus == <<1, 1, 2>>
ThreeVmSlots == [k \in 0..3 |-> CASE k = 0 -> [vm |-> 1, vcpu |-> 0]
                                  [] k = 1 -> [vm |-> 2, vcpu |-> 0]
                                  [] k = 2 -> [vm |-> 3, vcpu |-> 0]
                                  [] k = 3 -> [vm |-> 3, vcpu |-> 1]]
===========================================================================
