-------------------------------- MODULE Rounds --------------------------------
(***************************************************************************)
(* What a quorum executor promises: those who have acknowledged wait for   *)
(* an execution, an execution takes a quorum of them and releases them     *)
(* all, and who is released may leave.  There is no count here, no mutex   *)
(* and nobody is woken in vain: QuorumExecutor implements it.              *)
(***************************************************************************)
EXTENDS Naturals, FiniteSets

CONSTANTS Members,   \* who may acknowledge
          quorum     \* how many acknowledgements an execution takes

VARIABLES waiting,   \* the members whose acknowledgement awaits an execution
          released,  \* the members still inside after the execution that followed
          executions \* how often the function has been executed

vars == <<waiting, released, executions>>

Init ==
    /\ waiting = {}
    /\ released = {}
    /\ executions = 0

Acknowledge(p) ==
    /\ p \notin waiting \union released
    /\ waiting' = waiting \union {p}
    /\ UNCHANGED <<released, executions>>

\* Everybody who waits is served by one execution, be there more than a quorum.
Execute ==
    /\ Cardinality(waiting) >= quorum
    /\ waiting' = {}
    /\ released' = released \union waiting
    /\ executions' = executions + 1

Leave(p) ==
    /\ p \in released
    /\ released' = released \ {p}
    /\ UNCHANGED <<waiting, executions>>

Next == Execute \/ \E p \in Members : Acknowledge(p) \/ Leave(p)

Spec == Init /\ [][Next]_vars
=============================================================================
