---------------------------- MODULE MCHeartbeat ----------------------------
(* Instance of Heartbeat for TLC. *)
EXTENDS Heartbeat

\* Linux, the RTOS and Android with its two vCPUs.
ThreeVmVcpus == <<1, 1, 2>>
ThreeVmSlots ==
    [k \in 0..3 |-> [vm |-> IF k < 3 THEN k + 1 ELSE 3, vcpu |-> IF k < 3 THEN 0 ELSE 1]]
===========================================================================
