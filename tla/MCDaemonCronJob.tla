--------------------------- MODULE MCDaemonCronJob ---------------------------
(* Budgets for TLC. *)
EXTENDS DaemonCronJob, TLC

CONSTANTS n1

Allow(kinds) == [k \in Happenings |-> IF k \in kinds THEN 1 ELSE 0]

Everything == {Allow({"create", "tick", "delete"}),
               [Allow({"delete"}) EXCEPT !["create"] = 2],
               Allow({"create", "tick", "removeNode"}),
               Allow({"create", "delete", "deleteCRB"}),
               Allow({"create", "edit", "apiError"}),
               Allow({"create", "deleteSA", "deleteCronJob", "restart"}),
               Allow({"create", "lostReply"})}
Creation == {Allow({"create"})}
TwoTicks == {[Allow({"create"}) EXCEPT !["tick"] = 2]}
OneTick  == {Allow({"create", "tick"})}
NodeLeaves == {Allow({"create", "tick", "removeNode"})}
NodeJoins  == {Allow({"create", "tick", "addNode", "deleteSA"})}
BindingDeleted == {Allow({"create", "deleteCRB"})}

OneNode == {n1}
=============================================================================
