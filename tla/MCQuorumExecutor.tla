--------------------------- MODULE MCQuorumExecutor ---------------------------
(* More ackers than one quorum needs, so that rounds can overlap. *)
EXTENDS QuorumExecutor

CONSTANTS a1, a2, a3, a4, e1, e2

ThreeAckers  == {a1, a2, a3}
FourAckers   == {a1, a2, a3, a4}
OneExecutor  == {e1}
TwoExecutors == {e1, e2}
=============================================================================
