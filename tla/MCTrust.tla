------------------------------ MODULE MCTrust ------------------------------
(* Instances of Trust for TLC. *)
EXTENDS Trust

\* A VM with one vCPU and a backup image, and one with two vCPUs and none.
TwoVmVcpus == <<2, 1>>
TwoVmSlots == [k \in 0..2 |-> CASE k = 0 -> [vm |-> 1, vcpu |-> 0]
                                [] k = 1 -> [vm |-> 1, vcpu |-> 1]
                                [] k = 2 -> [vm |-> 2, vcpu |-> 0]]

\* As the 16 entries of the program are for its 4 vCPUs and 3 attempts.
ASSUME PoolAssumption == PoolIsEnough
===========================================================================
