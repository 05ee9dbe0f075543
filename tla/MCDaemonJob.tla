----------------------------- MODULE MCDaemonJob -----------------------------
(* Mixes of disruptions, their budgets and the nodes for TLC. *)
EXTENDS DaemonJob, TLC

CONSTANTS n1, n2

\* One of each kind that occurs in a mix.
Once(mixes) == [k \in Disruptions |-> IF k \in UNION mixes THEN 1 ELSE 0]

QuietMixes    == {{}}
FaultMixes    == {{"deleteDaemonJob", "deleteJob"}, {"deleteDaemonJob", "lostReply"},
                  {"deleteJob", "lostReply"}, {"addNode", "deleteDaemonJob"},
                  {"addNode", "lostReply"}}
NodeMixes     == {{"removeNode", "addNode"}, {"removeNode", "crashRun"},
                  {"removeNode", "restart"}, {"addNode", "restart"}, {"crashRun", "restart"},
                  {"deleteCRB", "restart"}}
DeletionMixes == {{"deleteDaemonJob", "deleteCRB"}, {"deleteDaemonJob", "apiError"},
                  {"deleteDaemonJob", "restart"}, {"addNode"}}
RecreationMixes == {{"deleteDaemonJob"}}
JobDeletedMixes == {{"deleteJob"}}
BindingMixes    == {{"deleteCRB"}}
NodeFaultMixes  == {{"removeNode", "apiError"}}
NodeJoinMixes   == {{"addNode"}}

Quiet      == Once(QuietMixes)
Faults     == Once(FaultMixes)
NodeMoves  == Once(NodeMixes)
Deletion   == Once(DeletionMixes)
Recreation == Once(RecreationMixes)
JobDeleted == Once(JobDeletedMixes)
BindingDeleted == Once(BindingMixes)
NodeFault  == Once(NodeFaultMixes)
NodeJoins  == Once(NodeJoinMixes)

OneNode  == {n1}
TwoNodes == {n1, n2}
NoneAtFirst == {{}}
OneAtFirst  == {OneNode}
BothAtFirst == {TwoNodes}
SomeAtFirst == {OneNode, {n2}, TwoNodes}
NodeSymmetry == Permutations(TwoNodes)
=============================================================================
