------------------------------ MODULE Broadcast ------------------------------
(***************************************************************************)
(* internal/broadcast: the program run by the pod of a broadcast Job.  It  *)
(* reads the DaemonJob, lists the nodes, validates one worker Job per node *)
(* with a server-side dry run and then creates the worker Jobs one by one. *)
(* Its client is not cached: every call sees the API server's state.       *)
(*                                                                         *)
(* A broadcast Job has BackoffLimit 0 and RestartPolicy Never, so each Job *)
(* id in Jobs stands for at most one run of the program.                   *)
(***************************************************************************)
EXTENDS FiniteSets

CONSTANTS Nodes,      \* node names
          Jobs,       \* ids (UIDs) of broadcast Jobs, one run each
          Keys,       \* names of worker Jobs
          WorkerKey,  \* WorkerKey[j][n]: name of the worker Job of run j for node n
          None        \* absent object

VARIABLES owner,      \* TRUE when the DaemonJob the run belongs to exists
          crb,        \* TRUE when the ClusterRoleBinding grants the run its rights
          nodes,      \* the nodes that match the nodeSelector
          work,       \* worker Jobs in the API server, by name
          bc          \* the run of every broadcast Job

vars == <<owner, crb, nodes, work, bc>>

JobStatusTypes == {"progressing", "complete", "failed"}
Workers == [job : Jobs, st : JobStatusTypes]
Active  == {"read", "list", "dryrun", "create"}
Runs    == [pc   : {"unused", "complete", "failed"} \union Active,
            todo : SUBSET Nodes]

Unused == [pc |-> "unused", todo |-> {}]

\* What the Job controller reports of the broadcast Job: the exit of its pod.
JobOutcome(j) ==
    IF bc[j].pc \in {"complete", "failed"} THEN bc[j].pc ELSE "progressing"

\* A worker Job of that name exists: Create answers AlreadyExists.
Taken(j, n) == work[WorkerKey[j][n]] # None

Goto(j, pc) == bc' = [bc EXCEPT ![j].pc = pc]
-----------------------------------------------------------------------------
ReadOwner(j) ==
    /\ bc[j].pc = "read"
    /\ crb /\ owner
    /\ Goto(j, "list")
    /\ UNCHANGED work

ListNodes(j) ==
    /\ bc[j].pc = "list"
    /\ crb
    /\ bc' = [bc EXCEPT ![j].pc   = IF nodes = {} THEN "complete" ELSE "dryrun",
                        ![j].todo = nodes]
    /\ UNCHANGED work

\* One DryRunAll create per node; none of them changes the API server.
DryRun(j) ==
    /\ bc[j].pc = "dryrun"
    /\ crb
    /\ \A n \in bc[j].todo : ~Taken(j, n)
    /\ Goto(j, "create")
    /\ UNCHANGED work

\* Mutant of CreateWorker: server-side apply, which takes over what exists.
ApplyWorker(j, n) ==
    /\ bc[j].pc = "create"
    /\ n \in bc[j].todo
    /\ crb
    /\ work' = [work EXCEPT ![WorkerKey[j][n]] = [job |-> j, st |-> "progressing"]]
    /\ bc' = [bc EXCEPT ![j].pc   = IF bc[j].todo = {n} THEN "complete" ELSE "create",
                        ![j].todo = bc[j].todo \ {n}]

\* Mutant of CreateWorker: a worker Job without an owner.
CreateStray(j, n) ==
    /\ bc[j].pc = "create"
    /\ n \in bc[j].todo
    /\ crb
    /\ ~Taken(j, n)
    /\ work' = [work EXCEPT ![WorkerKey[j][n]] = [job |-> None, st |-> "progressing"]]
    /\ bc' = [bc EXCEPT ![j].pc   = IF bc[j].todo = {n} THEN "complete" ELSE "create",
                        ![j].todo = bc[j].todo \ {n}]

\* Mutant of CreateWorker: a name that is taken is logged and passed over.
CreateWorkerOrSkip(j, n) ==
    /\ bc[j].pc = "create"
    /\ n \in bc[j].todo
    /\ crb
    /\ work' = IF Taken(j, n) THEN work
               ELSE [work EXCEPT ![WorkerKey[j][n]] = [job |-> j, st |-> "progressing"]]
    /\ bc' = [bc EXCEPT ![j].pc   = IF bc[j].todo = {n} THEN "complete" ELSE "create",
                        ![j].todo = bc[j].todo \ {n}]

\* Create of the worker Job BuildWorkerJob makes for n: owned by run j's Job.
CreateWorker(j, n) ==
    /\ bc[j].pc = "create"
    /\ n \in bc[j].todo
    /\ crb
    /\ ~Taken(j, n)
    /\ work' = [work EXCEPT ![WorkerKey[j][n]] = [job |-> j, st |-> "progressing"]]
    /\ bc' = [bc EXCEPT ![j].pc   = IF bc[j].todo = {n} THEN "complete" ELSE "create",
                        ![j].todo = bc[j].todo \ {n}]

\* Mutant of Refused: an error is taken for a passing one and the call repeated.
RetryRefused(j) ==
    /\ bc[j].pc \in Active
    /\ \/ ~crb
       \/ bc[j].pc = "read" /\ ~owner
       \/ bc[j].pc \in {"dryrun", "create"} /\ \E n \in bc[j].todo : Taken(j, n)
    /\ UNCHANGED <<bc, work>>

\* The API server refuses the next call: Forbidden, NotFound or AlreadyExists.
\* Run returns the error, main exits with 1, and the Job has failed for good.
Refused(j) ==
    /\ bc[j].pc \in Active
    /\ \/ ~crb
       \/ bc[j].pc = "read" /\ ~owner
       \/ bc[j].pc \in {"dryrun", "create"} /\ \E n \in bc[j].todo : Taken(j, n)
    /\ Goto(j, "failed")
    /\ UNCHANGED work

\* The pod dies: evicted, its node lost, an API error, or its Job deleted.
Crash(j) ==
    /\ bc[j].pc \in Active
    /\ Goto(j, "failed")
    /\ UNCHANGED work

Step(j) ==
    \/ ReadOwner(j) \/ ListNodes(j) \/ DryRun(j) \/ Refused(j)
    \/ \E n \in Nodes : CreateWorker(j, n)
-----------------------------------------------------------------------------
(* The program on its own, in a cluster that may change under it. *)

Init ==
    /\ owner \in BOOLEAN
    /\ crb \in BOOLEAN
    /\ nodes \in SUBSET Nodes
    /\ work = [k \in Keys |-> None]
    /\ bc = [j \in Jobs |-> Unused]

\* The Job controller starts the pod of a new broadcast Job.
Start(j) ==
    /\ bc[j].pc = "unused"
    /\ Goto(j, "read")
    /\ UNCHANGED <<owner, crb, nodes, work>>

ClusterChanges ==
    /\ \/ owner' = ~owner /\ UNCHANGED <<crb, nodes>>
       \/ crb' = ~crb /\ UNCHANGED <<owner, nodes>>
       \/ (\E n \in Nodes : nodes' \in {nodes \ {n}, nodes \union {n}})
          /\ UNCHANGED <<owner, crb>>
    /\ UNCHANGED <<work, bc>>

\* The Job controller finishes a worker Job; the garbage collector, the
\* controller or a user deletes one.
WorkerEnds(k) ==
    /\ work[k] # None
    /\ work[k].st = "progressing"
    /\ \E st \in {"complete", "failed"} : work' = [work EXCEPT ![k].st = st]

WorkerGone(k) ==
    /\ work[k] # None
    /\ work' = [work EXCEPT ![k] = None]

Next ==
    \/ \E j \in Jobs : Start(j)
    \/ \E j \in Jobs : (Step(j) \/ Crash(j)) /\ UNCHANGED <<owner, crb, nodes>>
    \/ ClusterChanges
    \/ \E k \in Keys : (WorkerEnds(k) \/ WorkerGone(k))
                       /\ UNCHANGED <<owner, crb, nodes, bc>>

Fairness == \A j \in Jobs : WF_vars(Step(j) /\ UNCHANGED <<owner, crb, nodes>>)

Spec == Init /\ [][Next]_vars /\ Fairness
-----------------------------------------------------------------------------
TypeOK ==
    /\ owner \in BOOLEAN
    /\ crb \in BOOLEAN
    /\ nodes \in SUBSET Nodes
    /\ work \in [Keys -> Workers \union {None}]
    /\ bc \in [Jobs -> Runs]

\* A run never takes over or replaces a worker Job that another run created,
\* although the runs of one DaemonJob use the same names: the dry run and the
\* creates answer AlreadyExists instead (broadcast.go, Run).
NoOverwrite ==
    [][\A k \in Keys : work[k] # None /\ work'[k] # None => work'[k].job = work[k].job]_vars

\* A node that a run listed gets the run's worker Job, or the broadcast Job fails
\* and the DaemonJob with it: the creates are made one by one and any of them may be
\* refused after others went through, with no way back, but a node left out is never
\* passed over in silence (broadcast.go, Run).
ServedOrFailed ==
    \A j \in Jobs, n \in Nodes :
        bc[j].pc \in {"dryrun", "create"} /\ n \in bc[j].todo
            ~> \/ bc[j].pc = "failed"
               \/ work[WorkerKey[j][n]] # None /\ work[WorkerKey[j][n]].job = j

\* Whatever the cluster does meanwhile, a started run ends and its Job with it: an
\* error ends the program, which repeats no call (broadcast.go, Run).
RunEnds ==
    \A j \in Jobs : bc[j].pc # "unused" ~> bc[j].pc \in {"complete", "failed"}

\* "Applying worker jobs for node(s) atomically" (broadcast.go, Run): a run that
\* failed has created all the worker Jobs of the nodes it listed, or none.
AtomicApply ==
    [][\A j \in Jobs : bc[j].pc = "create" /\ bc'[j].pc = "failed"
          => \A k \in Keys : work[k] # None => work[k].job # j]_vars
=============================================================================
