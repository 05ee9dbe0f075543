-------------------------- MODULE MCDaemonCronJobSet --------------------------
(* Budgets for TLC. *)
EXTENDS DaemonCronJobSet, TLC

CONSTANTS n1, n2, l1

Allow(kinds) == [k \in Disruptions |-> IF k \in kinds THEN 1 ELSE 0]

NodeMoves == [Allow({"edit", "lostReply", "restart"}) EXCEPT !["node"] = 2]
Lifecycle == Allow({"delete", "deleteCronJob", "node", "apiError"})
Edits     == Allow({"edit"})
NodeFault == Allow({"node", "apiError"})

OneNode    == {n1}
TwoNodes   == {n1, n2}
OneLabel   == {l1}
NodeSymmetry == Permutations(TwoNodes)
=============================================================================
