----------------------------- MODULE MCBroadcast -----------------------------
(* Two runs of one DaemonJob on two nodes: both runs use the same names. *)
EXTENDS Broadcast

CONSTANTS n1, n2

MCNodes == {n1, n2}
MCJobs  == {1, 2}
MCWorkerKey == [j \in MCJobs |-> [n \in MCNodes |-> n]]
=============================================================================
