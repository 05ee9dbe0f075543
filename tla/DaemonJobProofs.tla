--------------------------- MODULE DaemonJobProofs ---------------------------
(***************************************************************************)
(* Type correctness of the DaemonJob controller and its cluster, the       *)
(* finalizer protocol, what is there at rest, what Complete says of the    *)
(* worker Jobs, that an incarnation gets one broadcast Job and that no     *)
(* deletion is forgotten, for any set of nodes and any bounds.             *)
(***************************************************************************)
EXTENDS DaemonJob, FiniteSetTheorems, TLAPS

USE BoundsAssumption, NoneAssumption
-----------------------------------------------------------------------------
(* The operators the actions are made of *)

\* Spending keeps the budget a budget.
LEMMA SpendType ==
    ASSUME left \in [Disruptions -> Nat], NEW k \in Disruptions, Spend(k)
    PROVE  left' \in [Disruptions -> Nat]
BY DEF Spend

\* A text alone is a message.
LEMMA SayType == ASSUME NEW text \in Texts PROVE Say(text) \in Messages
BY DEF Say, Messages

\* So is a text with the names of worker Jobs, in any order.
LEMMA NamingType ==
    ASSUME NEW text \in Texts, NEW workers \in SUBSET Nodes
    PROVE  Naming(text, workers) \subseteq Messages
<1>1. ASSUME NEW l \in Seqs!SetToSeqs(workers) PROVE l \in Seq(Nodes)
  <2>1. l \in [1..Cardinality(workers) -> workers]
    BY DEF Seqs!SetToSeqs, Cardinality, Seqs!Cardinality
  <2>2. Cardinality(workers) \in Nat
    BY FS_Subset, FS_CardinalityType
  <2>3. l \in [1..Cardinality(workers) -> Nodes]
    BY <2>1
  <2> QED BY <2>2, <2>3
<1> QED BY <1>1 DEF Naming, Messages

\* The setters of status.go return condition lists.
LEMMA ConditionTypes ==
    /\ C!NoConditions \in C!ConditionLists
    /\ \A c \in C!ConditionLists, m \in Messages :
          /\ C!SetProgressing(c, m) \in C!ConditionLists
          /\ C!SetNotFound(c, m) \in C!ConditionLists
          /\ \A ok \in BOOLEAN : C!SetPair(c, ok, m) \in C!ConditionLists
<1>1. Say("") \in Messages
  BY SayType DEF Texts
<1>2. ASSUME NEW v \in BOOLEAN, NEW m \in Messages
      PROVE  C!Condition(v, m) \in C!ConditionValues
  BY DEF C!Condition, C!ConditionStatus, C!ConditionValues
<1>3. C!NoConditions \in C!ConditionLists
  BY <1>1 DEF C!NoConditions, C!ConditionLists, C!ConditionTypes, C!ConditionValues
<1>4. ASSUME NEW c \in C!ConditionLists, NEW m \in Messages, NEW ok \in BOOLEAN
      PROVE  /\ C!SetProgressing(c, m) \in C!ConditionLists
             /\ C!SetPair(c, ok, m) \in C!ConditionLists
  BY <1>1, <1>2 DEF C!ConditionLists, C!SetProgressing, C!SetPair
<1> QED BY <1>3, <1>4 DEF C!SetNotFound

\* What the API server shows of the broadcast Job has the type of a view.
LEMMA JobViewType == ClusterTypeOK => JobView \in JobViews \union {None}
<1> SUFFICES ASSUME ClusterTypeOK, job # None PROVE JobView \in JobViews
    BY DEF JobView
<1>1. job \in BroadcastJobs /\ job.id \in Jobs /\ job.owner \in Uids
  BY DEF ClusterTypeOK, BroadcastJobs
<1>2. R!JobOutcome(job.id) \in R!JobStatusTypes
  BY <1>1 DEF ClusterTypeOK, R!JobOutcome, R!JobStatusTypes
<1> QED BY <1>1, <1>2 DEF JobView, JobViews

\* A freshly listed cache has the type of a cache.
LEMMA ApiViewType == ClusterTypeOK => ApiView \in Caches
BY JobViewType DEF ClusterTypeOK, ApiView, Caches

\* Records of the cache and of the local copy, field by field.
LEMMA CacheFields ==
    ASSUME cache \in Caches
    PROVE  /\ cache.dj \in DaemonJobs \union {None}
           /\ cache.sa \in Uids \union {None}
           /\ cache.crb \in BOOLEAN
           /\ cache.job \in JobViews \union {None}
           /\ cache.work \in [Nodes -> R!Workers \union {None}]
           /\ cache.nodes \in SUBSET Nodes
BY DEF Caches
-----------------------------------------------------------------------------
(* The cluster's actions keep the types *)

\* What users and nodes do keeps the cluster's types.
LEMMA UserTypes ==
    ASSUME ClusterTypeOK,
           CreateDaemonJob \/ DeleteDaemonJob \/ DeleteJob \/ DeleteClusterRoleBinding
           \/ NodeChanges
    PROVE  ClusterTypeOK'
<1>1. CASE CreateDaemonJob
  BY <1>1, ConditionTypes DEF CreateDaemonJob, ClusterTypeOK, DaemonJobs, Uids
<1>2. CASE DeleteDaemonJob
  <2>1. left' \in [Disruptions -> Nat]
    BY <1>2, SpendType DEF DeleteDaemonJob, ClusterTypeOK, Disruptions
  <2> QED BY <1>2, <2>1 DEF DeleteDaemonJob, ClusterTypeOK, DaemonJobs
<1>3. CASE DeleteJob
  <2>1. left' \in [Disruptions -> Nat]
    BY <1>3, SpendType DEF DeleteJob, ClusterTypeOK, Disruptions
  <2> QED BY <1>3, <2>1 DEF DeleteJob, ClusterTypeOK
<1>4. CASE DeleteClusterRoleBinding
  <2>1. left' \in [Disruptions -> Nat]
    BY <1>4, SpendType DEF DeleteClusterRoleBinding, ClusterTypeOK, Disruptions
  <2> QED BY <1>4, <2>1 DEF DeleteClusterRoleBinding, ClusterTypeOK
<1>5. CASE NodeChanges
  <2>1. left' \in [Disruptions -> Nat]
    BY <1>5, SpendType DEF NodeChanges, ClusterTypeOK, Disruptions
  <2> QED BY <1>5, <2>1 DEF NodeChanges, ClusterTypeOK
<1> QED BY <1>1, <1>2, <1>3, <1>4, <1>5

\* So do the broadcast runs, the Job controller and the garbage collector.
LEMMA WorkloadTypes ==
    ASSUME ClusterTypeOK, RunStep \/ RunDies \/ WorkerEnds \/ Collect
    PROVE  ClusterTypeOK'
<1>1. CASE RunStep
  <2>1. PICK j \in Jobs : R!Step(j)
    BY <1>1 DEF RunStep
  <2>2. /\ bc \in [Jobs -> R!Runs] /\ work \in [Nodes -> R!Workers \union {None}]
        /\ nodes \subseteq Nodes
    BY DEF ClusterTypeOK
  <2>3. ASSUME R!ReadOwner(j) \/ R!ListNodes(j) \/ R!DryRun(j) \/ R!Refused(j)
        PROVE  bc' \in [Jobs -> R!Runs] /\ work' = work
    BY <2>2, <2>3 DEF R!ReadOwner, R!ListNodes, R!DryRun, R!Refused, R!Goto, R!Runs, R!Active
  <2>4. ASSUME NEW n \in Nodes, R!CreateWorker(j, n)
        PROVE  bc' \in [Jobs -> R!Runs] /\ work' \in [Nodes -> R!Workers \union {None}]
    <3>1. bc' \in [Jobs -> R!Runs]
      <4>1. bc[j].todo \subseteq Nodes
        BY <2>2 DEF R!Runs
      <4>2. PICK next \in {"complete", "create"} :
               bc' = [bc EXCEPT ![j].pc = next, ![j].todo = bc[j].todo \ {n}]
        BY <2>4 DEF R!CreateWorker
      <4>3. bc[j] \in R!Runs /\ bc[j].todo \ {n} \subseteq Nodes
        BY <2>2, <4>1
      <4>4. [bc[j] EXCEPT !.pc = next, !.todo = bc[j].todo \ {n}] \in R!Runs
        BY <4>3 DEF R!Runs, R!Active
      <4> QED BY <2>2, <4>2, <4>4
    <3>2. [job |-> j, st |-> "progressing"] \in R!Workers
      BY DEF R!Workers, R!JobStatusTypes
    <3> QED BY <2>2, <2>4, <3>1, <3>2 DEF R!CreateWorker, WorkerName
  <2>5. bc' \in [Jobs -> R!Runs] /\ work' \in [Nodes -> R!Workers \union {None}]
    BY <2>1, <2>2, <2>3, <2>4 DEF R!Step
  <2> QED BY <1>1, <2>5 DEF RunStep, ClusterTypeOK
<1>2. CASE RunDies
  <2>1. PICK j \in Jobs : R!Crash(j) /\ (Spend("crashRun") \/ UNCHANGED left)
    BY <1>2 DEF RunDies
  <2>2. left' \in [Disruptions -> Nat]
    BY <2>1, SpendType DEF ClusterTypeOK, Disruptions
  <2>3. bc' \in [Jobs -> R!Runs] /\ work' = work
    BY <2>1 DEF ClusterTypeOK, R!Crash, R!Goto, R!Runs, R!Active
  <2> QED BY <1>2, <2>2, <2>3 DEF RunDies, ClusterTypeOK
<1>3. CASE WorkerEnds
  BY <1>3 DEF WorkerEnds, ClusterTypeOK, R!WorkerEnds, R!Workers, R!JobStatusTypes
<1>4. CASE Collect
  BY <1>4 DEF Collect, ClusterTypeOK
<1> QED BY <1>1, <1>2, <1>3, <1>4

\* So does an informer that catches up.
LEMMA SyncTypes == ASSUME ClusterTypeOK, Sync PROVE ClusterTypeOK'
<1>1. cache' \in Caches
  <2>1. /\ cache \in Caches /\ dj \in DaemonJobs \union {None} /\ sa \in Uids \union {None}
        /\ crb \in BOOLEAN /\ JobView \in JobViews \union {None}
        /\ work \in [Nodes -> R!Workers \union {None}] /\ nodes \in SUBSET Nodes
    BY JobViewType DEF ClusterTypeOK
  <2>2. CASE SyncDaemonJob
    BY <2>1, <2>2 DEF SyncDaemonJob, Caches
  <2>3. CASE SyncServiceAccount \/ SyncClusterRoleBinding
    BY <2>1, <2>3 DEF SyncServiceAccount, SyncClusterRoleBinding, Caches
  <2>4. CASE SyncJobs
    BY <2>1, <2>4 DEF SyncJobs, Caches
  <2>5. CASE SyncNodes
    BY <2>1, <2>5 DEF SyncNodes, Caches
  <2> QED BY <2>2, <2>3, <2>4, <2>5 DEF Sync
<1>2. dirty' \in BOOLEAN
  BY DEF Sync, SyncDaemonJob, SyncServiceAccount, SyncClusterRoleBinding,
     SyncJobs, SyncNodes, ClusterTypeOK
<1> QED BY <1>1, <1>2 DEF Sync, ClusterTypeOK
-----------------------------------------------------------------------------
(* The controller's actions keep the types *)

LocalTypeOK ==
    /\ pc \in PCs
    /\ rdj \in DaemonJobs \union {None}
    /\ rnodes \in SUBSET Nodes
    /\ rconds \in C!ConditionLists
    /\ pc = "idle" <=> rdj = None

\* Any way a call may end keeps the types of the local variables, the queue and
\* the budget.
LEMMA EndTypes ==
    ASSUME StateTypeOK, Requeue
    PROVE  LocalTypeOK' /\ dirty' \in BOOLEAN
BY ConditionTypes DEF Requeue, End, LocalTypeOK, PCs

\* So does a call that fails.
LEMMA FailTypes ==
    ASSUME StateTypeOK, Fail
    PROVE  LocalTypeOK' /\ dirty' \in BOOLEAN /\ left' \in [Disruptions -> Nat]
BY EndTypes DEF Fail, StateTypeOK, ClusterTypeOK

\* So does a write whose reply is lost.
LEMMA LostTypes ==
    ASSUME StateTypeOK, Requeue, Spend("lostReply")
    PROVE  LocalTypeOK' /\ dirty' \in BOOLEAN /\ left' \in [Disruptions -> Nat]
BY EndTypes, SpendType DEF StateTypeOK, ClusterTypeOK, Disruptions

\* So does going on to the next call.
LEMMA GotoTypes ==
    ASSUME StateTypeOK, pc # "idle", NEW next \in PCs \ {"idle"}, Goto(next)
    PROVE  LocalTypeOK' /\ dirty' \in BOOLEAN /\ left' \in [Disruptions -> Nat]
BY DEF Goto, StateTypeOK, ClusterTypeOK, LocalTypeOK

\* Reconcile starts at a call it has, with the cached DaemonJob as its copy.
LEMMA ReconcileTypes == ASSUME StateTypeOK, Reconcile PROVE StateTypeOK'
<1>1. LocalTypeOK'
  <2>1. CASE UNCHANGED local
    BY <2>1 DEF local, LocalTypeOK, StateTypeOK
  <2>2. CASE ~UNCHANGED local
    <3>1. cache.dj # None /\ rdj' = cache.dj /\ rconds' = rconds /\ pc' = FirstCall(cache.dj)
          /\ rnodes' = rnodes
      BY <2>2 DEF Reconcile
    <3>2. cache.dj \in DaemonJobs
      BY <3>1, CacheFields DEF StateTypeOK, ClusterTypeOK
    <3>3. FirstCall(cache.dj) \in {"onDelete", "listNodes", "addFinalizer"}
      BY <3>2 DEF FirstCall, DaemonJobs
    <3> QED BY <3>1, <3>2, <3>3 DEF LocalTypeOK, StateTypeOK, PCs, Applying, Finalizing
  <2> QED BY <2>1, <2>2
<1> QED BY <1>1 DEF Reconcile, StateTypeOK, ClusterTypeOK, LocalTypeOK

\* The calls that add and remove the finalizer keep the types.
LEMMA FinalizerTypes ==
    ASSUME StateTypeOK, AddFinalizer \/ OnDelete \/ RemoveFinalizer
    PROVE  StateTypeOK'
<1>0. /\ "removeFinalizer" \in PCs \ {"idle"} /\ "listNodes" \in PCs \ {"idle"}
      /\ pc # "idle"
  BY DEF PCs, Finalizing, Applying, AddFinalizer, OnDelete, RemoveFinalizer
<1>1. CASE AddFinalizer
  <2>1. rdj \in DaemonJobs /\ [rdj EXCEPT !.fin = TRUE] \in DaemonJobs
    BY <1>0 DEF StateTypeOK, DaemonJobs
  <2>2. dj' \in DaemonJobs \union {None}
    BY <1>1, <2>1 DEF AddFinalizer, StateTypeOK, ClusterTypeOK
  <2>3. LocalTypeOK' /\ dirty' \in BOOLEAN /\ left' \in [Disruptions -> Nat]
    <3>1. CASE Fail
      BY <3>1, FailTypes
    <3>2. CASE Requeue /\ Spend("lostReply")
      BY <3>2, LostTypes
    <3>3. CASE /\ pc' = "listNodes" /\ rdj' = [rdj EXCEPT !.fin = TRUE]
               /\ UNCHANGED <<rnodes, rconds, dirty, left>>
      BY <1>0, <2>1, <3>3 DEF LocalTypeOK, StateTypeOK, ClusterTypeOK
    <3> QED BY <1>1, <3>1, <3>2, <3>3 DEF AddFinalizer, Written
  <2> QED BY <1>1, <2>2, <2>3 DEF AddFinalizer, StateTypeOK, ClusterTypeOK, LocalTypeOK
<1>2. CASE OnDelete
  <2>1. LocalTypeOK' /\ dirty' \in BOOLEAN /\ left' \in [Disruptions -> Nat]
    <3>1. Fail \/ (Requeue /\ Spend("lostReply")) \/ Goto("removeFinalizer")
      BY <1>2 DEF OnDelete, Written
    <3> QED BY <1>0, <3>1, FailTypes, LostTypes, GotoTypes
  <2> QED BY <1>2, <2>1 DEF OnDelete, StateTypeOK, ClusterTypeOK, LocalTypeOK
<1>3. CASE RemoveFinalizer
  <2>1. LocalTypeOK' /\ dirty' \in BOOLEAN /\ left' \in [Disruptions -> Nat]
    <3>1. Fail \/ (Requeue /\ Spend("lostReply")) \/ Done
      BY <1>3 DEF RemoveFinalizer, Written
    <3>2. CASE Done
      BY <3>2, ConditionTypes DEF Done, End, LocalTypeOK, StateTypeOK, ClusterTypeOK, PCs
    <3> QED BY <3>1, <3>2, FailTypes, LostTypes
  <2> QED BY <1>3, <2>1 DEF RemoveFinalizer, StateTypeOK, ClusterTypeOK, LocalTypeOK
<1> QED BY <1>1, <1>2, <1>3

\* So does the list of the nodes.
LEMMA ListNodesTypes == ASSUME StateTypeOK, ListNodes PROVE StateTypeOK'
<1>1. cache.nodes \in SUBSET Nodes
  BY CacheFields DEF StateTypeOK, ClusterTypeOK
<1> QED BY <1>1 DEF ListNodes, StateTypeOK, ClusterTypeOK, PCs, Applying

\* So does the deletion of worker Jobs, however many of them succeed.
LEMMA DeleteWorkersTypes ==
    ASSUME StateTypeOK, DeleteWorkerJobsOnNotExistNode
    PROVE  StateTypeOK'
<1>1. work' \in [Nodes -> R!Workers \union {None}]
  BY DEF DeleteWorkerJobsOnNotExistNode, StateTypeOK, ClusterTypeOK
<1>2. left' \in [Disruptions -> Nat]
  BY SpendType DEF DeleteWorkerJobsOnNotExistNode, StateTypeOK, ClusterTypeOK, Disruptions
<1>3. LocalTypeOK'
  BY DEF DeleteWorkerJobsOnNotExistNode, LocalTypeOK, StateTypeOK, PCs, Applying
<1> QED BY <1>1, <1>2, <1>3
    DEF DeleteWorkerJobsOnNotExistNode, StateTypeOK, ClusterTypeOK, LocalTypeOK

\* So do the three calls of applyJob.
LEMMA ApplyTypes ==
    ASSUME StateTypeOK, ApplyServiceAccount \/ ApplyClusterRoleBinding \/ ApplyJob
    PROVE  StateTypeOK'
<1>0. /\ {"applyCRB", "applyJob", "status"} \subseteq PCs \ {"idle"}
      /\ pc # "idle" /\ rdj \in DaemonJobs /\ rdj.uid \in Uids
  BY DEF PCs, Applying, ApplyServiceAccount, ApplyClusterRoleBinding, ApplyJob, StateTypeOK, DaemonJobs
<1>1. LocalTypeOK' /\ dirty' \in BOOLEAN /\ left' \in [Disruptions -> Nat]
  <2>1. \/ Fail \/ (Requeue /\ Spend("lostReply"))
        \/ Goto("applyCRB") \/ Goto("applyJob") \/ Goto("status")
    BY DEF ApplyServiceAccount, ApplyClusterRoleBinding, ApplyJob, Written
  <2> QED BY <1>0, <2>1, FailTypes, LostTypes, GotoTypes
<1>2. CASE ApplyServiceAccount
  BY <1>0, <1>1, <1>2 DEF ApplyServiceAccount, StateTypeOK, ClusterTypeOK, LocalTypeOK
<1>3. CASE ApplyClusterRoleBinding
  BY <1>0, <1>1, <1>3 DEF ApplyClusterRoleBinding, StateTypeOK, ClusterTypeOK, LocalTypeOK
<1>4. CASE ApplyJob
  <2>1. CASE UNCHANGED <<job, runOf, bc>>
    BY <1>1, <1>4, <2>1 DEF ApplyJob, StateTypeOK, ClusterTypeOK, LocalTypeOK
  <2>2. ASSUME NEW j \in Jobs, job' = [id |-> j, owner |-> rdj.uid],
               runOf' = [runOf EXCEPT ![j] = rdj.uid], bc' = [bc EXCEPT ![j].pc = "read"]
        PROVE  StateTypeOK'
    <3>1. bc' \in [Jobs -> R!Runs]
      BY <2>2 DEF StateTypeOK, ClusterTypeOK, R!Runs, R!Active
    <3>2. job' \in BroadcastJobs
      BY <1>0, <2>2 DEF BroadcastJobs
    <3>3. runOf' \in [Jobs -> Uids \union {None}]
      BY <1>0, <2>2 DEF StateTypeOK, ClusterTypeOK
    <3> QED BY <1>1, <1>4, <3>1, <3>2, <3>3 DEF ApplyJob, StateTypeOK, ClusterTypeOK, LocalTypeOK
  <2>3. CASE /\ cache.job # None /\ cache.job = JobView
             /\ job' = [job EXCEPT !.owner = rdj.uid] /\ UNCHANGED <<runOf, bc>>
    <3>1. job \in BroadcastJobs
      BY <2>3 DEF JobView, StateTypeOK, ClusterTypeOK
    <3>2. job' \in BroadcastJobs
      BY <1>0, <2>3, <3>1 DEF BroadcastJobs
    <3> QED BY <1>1, <1>4, <2>3, <3>2 DEF ApplyJob, StateTypeOK, ClusterTypeOK, LocalTypeOK
  <2> QED BY <1>4, <2>1, <2>2, <2>3 DEF ApplyJob
<1> QED BY <1>2, <1>3, <1>4

\* The times of the last transitions are one of two.
LEMMA SinceType ==
    ASSUME rdj \in DaemonJobs, NEW checked, NEW conds
    PROVE  Since(checked, conds) \subseteq BOOLEAN
<1>1. rdj.since \in BOOLEAN
  BY DEF DaemonJobs
<1> QED BY <1>1 DEF Since

\* So does a write of the status.
LEMMA WriteStatusTypes ==
    ASSUME StateTypeOK, pc # "idle", NEW checked, NEW conds \in C!ConditionLists,
           WriteStatus(checked, conds)
    PROVE  /\ dj' \in DaemonJobs \union {None}
           /\ LocalTypeOK' /\ dirty' \in BOOLEAN /\ left' \in [Disruptions -> Nat]
<1>1. dj' \in DaemonJobs \union {None}
  <2>1. rdj \in DaemonJobs
    BY DEF StateTypeOK
  <2>2. ASSUME NEW t \in Since(checked, conds)
        PROVE  [rdj EXCEPT !.conds = conds, !.since = t] \in DaemonJobs
    <3>1. t \in BOOLEAN
      BY <2>1, SinceType
    <3>2. PICK d : d = rdj
      OBVIOUS
    <3>3. [d EXCEPT !.conds = conds, !.since = t] \in DaemonJobs
      BY <2>1, <3>1, <3>2 DEF DaemonJobs
    <3> QED BY <3>2, <3>3
  <2>3. dj' = dj \/ \E t \in Since(checked, conds) : dj' = [rdj EXCEPT !.conds = conds, !.since = t]
    BY DEF WriteStatus
  <2>4. dj \in DaemonJobs \union {None}
    BY DEF StateTypeOK, ClusterTypeOK
  <2> QED BY <2>2, <2>3, <2>4
<1>2. CASE Done
  BY <1>1, <1>2, ConditionTypes DEF Done, End, LocalTypeOK, StateTypeOK, ClusterTypeOK, PCs
<1>3. Fail \/ (Requeue /\ Spend("lostReply")) \/ Done
  BY DEF WriteStatus, Written
<1> QED BY <1>1, <1>2, <1>3, FailTypes, LostTypes

\* The checks of what must exist leave condition lists.
LEMMA CheckedTypes ==
    ASSUME NEW conds \in C!ConditionLists, rdj.conds \in C!ConditionLists
    PROVE  NotFound(conds) \in C!ConditionLists /\ CheckedConditions \in C!ConditionLists
<1>1. Say("not found") \in Messages
  BY SayType DEF Texts
<1> QED BY <1>1, ConditionTypes DEF NotFound, CheckedConditions

\* So does what the worker Jobs lead to.
LEMMA WorkersConditionsTypes ==
    ASSUME rconds \in C!ConditionLists
    PROVE  WorkersConditions \subseteq C!ConditionLists
<1>0. Listed("failed") \in SUBSET Nodes /\ Listed("progressing") \in SUBSET Nodes
  BY DEF Listed
<1>1. /\ Naming("Some jobs failed", Listed("failed")) \subseteq Messages
      /\ Naming("Some jobs are progressing", Listed("progressing")) \subseteq Messages
      /\ Say("All jobs are completed") \in Messages
  <2>1. /\ "Some jobs failed" \in Texts /\ "Some jobs are progressing" \in Texts
        /\ "All jobs are completed" \in Texts
    BY DEF Texts
  <2>2. Naming("Some jobs failed", Listed("failed")) \subseteq Messages
    BY <1>0, <2>1, NamingType
  <2>3. Naming("Some jobs are progressing", Listed("progressing")) \subseteq Messages
    BY <1>0, <2>1, NamingType
  <2>4. Say("All jobs are completed") \in Messages
    BY <2>1, SayType
  <2> QED BY <2>2, <2>3, <2>4
<1>2. ASSUME NEW conds \in WorkersConditions PROVE conds \in C!ConditionLists
  <2>1. CASE Listed("failed") # {}
    <3>1. PICK m \in Naming("Some jobs failed", Listed("failed")) :
             conds = C!SetPair(rconds, FALSE, m)
      BY <2>1 DEF WorkersConditions
    <3> QED BY <1>1, <3>1, ConditionTypes
  <2>2. CASE Listed("failed") = {} /\ Listed("progressing") # {}
    <3>1. PICK m \in Naming("Some jobs are progressing", Listed("progressing")) :
             conds = C!SetProgressing(rconds, m)
      BY <2>2 DEF WorkersConditions
    <3> QED BY <1>1, <3>1, ConditionTypes
  <2>3. CASE Listed("failed") = {} /\ Listed("progressing") = {}
    <3>1. conds = C!SetPair(rconds, TRUE, Say("All jobs are completed"))
      BY <2>3 DEF WorkersConditions
    <3> QED BY <1>1, <3>1, ConditionTypes
  <2> QED BY <2>1, <2>2, <2>3
<1> QED BY <1>2

\* updateStatus writes conditions of the right type, or goes on to the next read.
LEMMA StatusWrites ==
    ASSUME StateTypeOK, CheckResources \/ UpdateStatus \/ UpdateStatusOfWorkers
    PROVE  \/ \E checked, conds \in C!ConditionLists : WriteStatus(checked, conds)
           \/ Fail /\ dj' = dj
           \/ /\ pc' \in {"getJob", "list"} /\ rconds' \in C!ConditionLists
              /\ UNCHANGED <<dj, rdj, rnodes, dirty, left>>
<1>1. rconds \in C!ConditionLists
  BY DEF StateTypeOK
<1>2. CASE CheckResources
  <2>1. rdj.conds \in C!ConditionLists
    BY <1>2 DEF CheckResources, StateTypeOK, DaemonJobs
  <2>2. CheckedConditions \in C!ConditionLists
    BY <2>1, CheckedTypes
  <2>3. NotFound(CheckedConditions) \in C!ConditionLists
    BY <2>1, <2>2, CheckedTypes
  <2> QED BY <1>2, <2>2, <2>3 DEF CheckResources
<1>3. CASE UpdateStatus
  <2>1. Say("Broadcast is running") \in Messages /\ Say("Broadcast failed") \in Messages
    BY SayType DEF Texts
  <2>2. /\ C!SetProgressing(rconds, Say("Broadcast is running")) \in C!ConditionLists
        /\ C!SetPair(rconds, FALSE, Say("Broadcast failed")) \in C!ConditionLists
    BY <1>1, <2>1, ConditionTypes
  <2> QED BY <1>1, <1>3, <2>2 DEF UpdateStatus, Goto
<1>4. CASE UpdateStatusOfWorkers
  BY <1>1, <1>4, WorkersConditionsTypes DEF UpdateStatusOfWorkers
<1> QED BY <1>2, <1>3, <1>4

\* So does updateStatus.
LEMMA StatusTypes ==
    ASSUME StateTypeOK, CheckResources \/ UpdateStatus \/ UpdateStatusOfWorkers
    PROVE  StateTypeOK'
<1> USE DEF CheckResources, UpdateStatus, UpdateStatusOfWorkers
<1>0. /\ pc # "idle"
      /\ UNCHANGED <<nodes, nextUid, sa, crb, job, runOf, work, bc, cache>>
  OBVIOUS
<1> HIDE DEF CheckResources, UpdateStatus, UpdateStatusOfWorkers
<1>1. CASE \E checked, conds \in C!ConditionLists : WriteStatus(checked, conds)
  BY <1>0, <1>1, WriteStatusTypes DEF StateTypeOK, ClusterTypeOK, LocalTypeOK
<1>2. CASE Fail /\ dj' = dj
  BY <1>0, <1>2, FailTypes DEF StateTypeOK, ClusterTypeOK, LocalTypeOK
<1>3. CASE /\ pc' \in {"getJob", "list"} /\ rconds' \in C!ConditionLists
           /\ UNCHANGED <<dj, rdj, rnodes, dirty, left>>
  BY <1>0, <1>3 DEF StateTypeOK, ClusterTypeOK, PCs, Applying
<1> QED BY <1>1, <1>2, <1>3, StatusWrites

\* So do a failed call and a restart of the manager.
LEMMA FaultTypes == ASSUME StateTypeOK, ApiError \/ Restart PROVE StateTypeOK'
<1>1. CASE ApiError
  <2>1. LocalTypeOK' /\ dirty' \in BOOLEAN
    BY <1>1, EndTypes DEF ApiError
  <2>2. left' \in [Disruptions -> Nat]
    BY <1>1, SpendType DEF ApiError, StateTypeOK, ClusterTypeOK, Disruptions
  <2> QED BY <1>1, <2>1, <2>2 DEF ApiError, StateTypeOK, ClusterTypeOK, LocalTypeOK
<1>2. CASE Restart
  <2>1. left' \in [Disruptions -> Nat]
    BY <1>2, SpendType DEF Restart, StateTypeOK, ClusterTypeOK, Disruptions
  <2>2. LocalTypeOK' /\ dirty' \in BOOLEAN
    BY <1>2, ConditionTypes DEF Restart, End, LocalTypeOK, PCs
  <2>3. cache' \in Caches
    BY <1>2, ApiViewType DEF Restart, StateTypeOK
  <2> QED BY <1>2, <2>1, <2>2, <2>3 DEF Restart, StateTypeOK, ClusterTypeOK, LocalTypeOK
<1> QED BY <1>1, <1>2

\* The initial states have the types.
LEMMA TypeInit == Init => TypeOK
<1> SUFFICES ASSUME Init PROVE TypeOK
    OBVIOUS
<1>1. /\ nodes \in SUBSET Nodes /\ dj = None /\ nextUid \in 1..(MaxUid + 1) /\ sa = None
      /\ crb \in BOOLEAN /\ job = None /\ runOf \in [Jobs -> Uids \union {None}]
      /\ work \in [Nodes -> R!Workers \union {None}] /\ bc \in [Jobs -> R!Runs]
      /\ dirty \in BOOLEAN /\ left \in [Disruptions -> Nat]
  <2>1. nextUid \in 1..(MaxUid + 1) /\ crb \in BOOLEAN /\ dirty \in BOOLEAN
    <3>1. nextUid = 1 /\ crb = FALSE /\ dirty = FALSE
      BY DEF Init, ClusterInit
    <3>2. 1 \in 1..(MaxUid + 1)
      OBVIOUS
    <3> QED BY <3>1, <3>2
  <2>2. bc \in [Jobs -> R!Runs]
    BY DEF Init, ClusterInit, R!Unused, R!Runs
  <2>3. left \in [Disruptions -> Nat]
    BY DEF Init, ClusterInit
  <2> QED BY <2>1, <2>2, <2>3 DEF Init, ClusterInit
<1>2. cache \in Caches
  BY <1>1 DEF Init, ClusterInit, ApiView, JobView, Caches
<1>3. unseen = {}
  BY DEF Init, ClusterInit
<1> QED BY <1>1, <1>2, <1>3, ConditionTypes DEF Init, TypeOK, StateTypeOK, ClusterTypeOK, PCs

\* An informer has only kinds to deliver.
LEMMA UnseenStep ==
    ASSUME unseen \in SUBSET Kinds, [Next]_vars
    PROVE  unseen' \in SUBSET Kinds
<1>1. CASE Events
  BY <1>1 DEF Events
<1>2. CASE Sync
  BY <1>2 DEF Sync, SyncDaemonJob, SyncServiceAccount, SyncClusterRoleBinding, SyncJobs,
              SyncNodes, Deliver
<1>3. CASE Restart
  BY <1>3 DEF Restart
<1>4. CASE UNCHANGED vars
  BY <1>4 DEF vars
<1> QED BY <1>1, <1>2, <1>3, <1>4 DEF Next

\* Every step keeps the types.
LEMMA TypeStep == TypeOK /\ [Next]_vars => TypeOK'
<1> SUFFICES ASSUME StateTypeOK, unseen \in SUBSET Kinds, [Next]_vars PROVE StateTypeOK'
    BY UnseenStep DEF TypeOK
<1>1. CASE (ClusterNext \/ Sync) /\ UNCHANGED local
  <2>1. ClusterTypeOK'
    BY <1>1, UserTypes, WorkloadTypes, SyncTypes DEF ClusterNext, StateTypeOK
  <2> QED BY <1>1, <2>1 DEF StateTypeOK, local
<1>2. CASE Controller
  BY <1>2, ReconcileTypes, FinalizerTypes, ListNodesTypes, DeleteWorkersTypes, ApplyTypes,
     StatusTypes DEF Controller
<1>3. CASE ApiError \/ Restart
  BY <1>3, FaultTypes
<1>4. CASE UNCHANGED vars
  BY <1>4 DEF vars, StateTypeOK, ClusterTypeOK
<1> QED BY <1>1, <1>2, <1>3, <1>4 DEF Next

\* Every variable of the controller and of its cluster keeps its type, and the
\* controller holds a local copy of the DaemonJob exactly while it reconciles.
THEOREM TypeCorrect == Spec => []TypeOK
BY TypeInit, TypeStep, PTL DEF Spec
-----------------------------------------------------------------------------
(* The finalizer protocol *)

Protection == CacheIsPast /\ FinalizingIsSeen /\ AddingIsRead /\ Protected

USE DEF Live

\* A step that touches neither the DaemonJob nor its cached copy, and moves the
\* reconciliation along its course or ends it.
LEMMA ProtectionFrame ==
    ASSUME StateTypeOK, Protection,
           dj' = dj, nextUid' = nextUid, cache'.dj = cache.dj,
           \/ pc' = "idle"
           \/ rdj' = rdj /\ \/ pc' = pc
                            \/ pc \in Applying /\ pc' \in Applying
                            \/ pc = "onDelete" /\ pc' = "removeFinalizer"
    PROVE  Protection'
<1>1. CacheIsPast'
  BY DEF Protection, CacheIsPast
<1>2. CASE pc' = "idle"
  BY <1>1, <1>2 DEF Protection, FinalizingIsSeen, AddingIsRead, Protected, Finalizing, Applying
<1>3. CASE /\ rdj' = rdj
           /\ \/ pc' = pc
              \/ pc \in Applying /\ pc' \in Applying
              \/ pc = "onDelete" /\ pc' = "removeFinalizer"
  BY <1>1, <1>3
     DEF Protection, FinalizingIsSeen, AddingIsRead, Protected, Finalizing, Applying
<1> QED BY <1>2, <1>3

\* Users: a new incarnation is newer than every copy of an older one, and a
\* delete of an incarnation that has the finalizer leaves it in place.
LEMMA UserProtection ==
    ASSUME StateTypeOK, Protection, UNCHANGED local, CreateDaemonJob \/ DeleteDaemonJob
    PROVE  Protection'
<1>0. /\ dj \in DaemonJobs \union {None} /\ nextUid \in Nat
      /\ cache.dj \in DaemonJobs \union {None} /\ rdj \in DaemonJobs \union {None}
      /\ pc # "idle" => rdj \in DaemonJobs
      /\ cache' = cache /\ pc' = pc /\ rdj' = rdj
  BY CacheFields DEF StateTypeOK, ClusterTypeOK, CreateDaemonJob, DeleteDaemonJob, local
<1>1. CASE CreateDaemonJob
  <2>1. /\ dj = None /\ dj' \in DaemonJobs /\ dj'.uid = nextUid /\ nextUid' = nextUid + 1
        /\ nextUid \in Uids
    BY <1>1, ConditionTypes DEF CreateDaemonJob, DaemonJobs, Uids
  <2>2. CacheIsPast'
    BY <1>0, <2>1 DEF Protection, CacheIsPast, DaemonJobs, Uids
  <2>3. FinalizingIsSeen' /\ AddingIsRead' /\ Protected'
    BY <1>0, <2>1
       DEF Protection, FinalizingIsSeen, AddingIsRead, Protected, Finalizing, Applying,
           DaemonJobs, Uids
  <2> QED BY <2>2, <2>3 DEF Protection
<1>2. CASE DeleteDaemonJob
  <2>1. /\ dj \in DaemonJobs /\ nextUid' = nextUid
        /\ dj.fin => /\ dj' \in DaemonJobs /\ dj'.uid = dj.uid
                     /\ dj'.fin /\ dj'.deleting
        /\ ~dj.fin => dj' = None
    BY <1>0, <1>2 DEF DeleteDaemonJob, DaemonJobs
  <2>2. CacheIsPast'
    BY <1>0, <2>1 DEF Protection, CacheIsPast
  <2>3. FinalizingIsSeen' /\ AddingIsRead' /\ Protected'
    BY <1>0, <2>1
       DEF Protection, FinalizingIsSeen, AddingIsRead, Protected, Finalizing, Applying
  <2> QED BY <2>2, <2>3 DEF Protection
<1> QED BY <1>1, <1>2

\* A cache that catches up learns nothing but the present.
LEMMA SyncProtection ==
    ASSUME StateTypeOK, Protection, UNCHANGED local, Sync
    PROVE  Protection'
<1>0. /\ cache \in Caches /\ dj' = dj /\ nextUid' = nextUid /\ pc' = pc /\ rdj' = rdj
  BY DEF StateTypeOK, ClusterTypeOK, Sync, local
<1>1. cache'.dj = cache.dj \/ cache'.dj = dj
  BY <1>0 DEF Sync, SyncDaemonJob, SyncServiceAccount, SyncClusterRoleBinding, SyncJobs,
              SyncNodes, Caches
<1>2. CASE cache'.dj = cache.dj
  BY <1>0, <1>2, ProtectionFrame
<1>3. CASE cache'.dj = dj
  BY <1>0, <1>3
     DEF Protection, CacheIsPast, FinalizingIsSeen, AddingIsRead, Protected
<1> QED BY <1>1, <1>2, <1>3

\* A restart drops the reconciliation and lists the caches anew.
LEMMA RestartProtection == ASSUME StateTypeOK, Protection, Restart PROVE Protection'
<1>1. /\ pc' = "idle" /\ dj' = dj /\ nextUid' = nextUid /\ cache'.dj = dj
      /\ dj \in DaemonJobs \union {None}
  BY DEF Restart, End, ApiView, StateTypeOK, ClusterTypeOK
<1> QED BY <1>1
    DEF Protection, CacheIsPast, FinalizingIsSeen, AddingIsRead, Protected, Finalizing, Applying

\* Reconcile enters the course that its cached copy calls for: with the
\* finalizer on it and no deletionTimestamp, CacheIsPast is what Protected needs.
LEMMA ReconcileProtection == ASSUME StateTypeOK, Protection, Reconcile PROVE Protection'
<1>0. dj' = dj /\ nextUid' = nextUid /\ cache' = cache
  BY DEF Reconcile
<1>1. CASE UNCHANGED local
  BY <1>0, <1>1, ProtectionFrame DEF local
<1>2. CASE ~UNCHANGED local
  <2>1. /\ cache.dj # None /\ rdj' = cache.dj
        /\ cache.dj.fin \/ ~cache.dj.deleting
        /\ pc' = FirstCall(cache.dj)
    BY <1>2 DEF Reconcile
  <2>2. cache.dj \in DaemonJobs /\ cache.dj.deleting \in BOOLEAN
    BY <2>1, CacheFields DEF StateTypeOK, ClusterTypeOK, DaemonJobs
  <2>3. CASE cache.dj.deleting
    BY <1>0, <2>1, <2>2, <2>3
       DEF FirstCall, Protection, CacheIsPast, FinalizingIsSeen, AddingIsRead, Protected, Finalizing, Applying
  <2>4. CASE ~cache.dj.deleting /\ cache.dj.fin
    BY <1>0, <2>1, <2>2, <2>4
       DEF FirstCall, Protection, CacheIsPast, FinalizingIsSeen, AddingIsRead, Protected, Finalizing, Applying
  <2>5. CASE ~cache.dj.deleting /\ ~cache.dj.fin
    BY <1>0, <2>1, <2>2, <2>5
       DEF FirstCall, Protection, CacheIsPast, FinalizingIsSeen, AddingIsRead, Protected, Finalizing, Applying
  <2> QED BY <2>2, <2>3, <2>4, <2>5
<1> QED BY <1>1, <1>2

\* The finalizer is added to the object that was read, or not at all.
LEMMA AddFinalizerProtection == ASSUME StateTypeOK, Protection, AddFinalizer PROVE Protection'
<1>0. /\ nextUid' = nextUid /\ cache' = cache /\ pc = "addFinalizer"
      /\ rdj \in DaemonJobs
  BY DEF AddFinalizer, StateTypeOK
<1>1. CASE dj' = dj /\ pc' = "idle"
  BY <1>0, <1>1, ProtectionFrame
<1>2. CASE dj = rdj /\ dj' = [rdj EXCEPT !.fin = TRUE]
           /\ \/ pc' = "idle"
              \/ pc' = "listNodes" /\ rdj' = [rdj EXCEPT !.fin = TRUE]
  <2>1. /\ dj' \in DaemonJobs /\ dj'.uid = dj.uid /\ dj'.fin /\ dj'.deleting = dj.deleting
        /\ dj # None /\ dj' # None
    BY <1>0, <1>2 DEF DaemonJobs
  <2>2. CacheIsPast'
    BY <1>0, <2>1 DEF Protection, CacheIsPast
  <2>3. FinalizingIsSeen' /\ AddingIsRead' /\ Protected'
    BY <1>0, <1>2, <2>1
       DEF FinalizingIsSeen, AddingIsRead, Protected, Finalizing, Applying
  <2> QED BY <2>2, <2>3 DEF Protection
<1> QED BY <1>1, <1>2 DEF AddFinalizer, Written, Fail, Requeue, End

\* The finalizer is removed from the object that was read with its
\* deletionTimestamp: no cache can still show that incarnation as wanted.
LEMMA RemoveFinalizerProtection ==
    ASSUME StateTypeOK, Protection, RemoveFinalizer
    PROVE  Protection'
<1>0. /\ nextUid' = nextUid /\ cache' = cache /\ pc = "removeFinalizer"
      /\ rdj \in DaemonJobs /\ pc' = "idle"
  BY DEF RemoveFinalizer, StateTypeOK, Written, Done, Fail, Requeue, End
<1>1. CASE dj' = dj
  BY <1>0, <1>1, ProtectionFrame
<1>2. CASE dj = rdj /\ dj' = None
  <2>1. ~(cache.dj # None /\ cache.dj.fin /\ ~cache.dj.deleting)
    BY <1>0, <1>2 DEF Protection, CacheIsPast, FinalizingIsSeen, Finalizing
  <2> QED BY <1>0, <1>2, <2>1
      DEF Protection, CacheIsPast, FinalizingIsSeen, AddingIsRead, Protected, Finalizing, Applying
<1> QED BY <1>1, <1>2 DEF RemoveFinalizer

\* updateStatus writes the status and nothing else of the DaemonJob.
LEMMA StatusProtection ==
    ASSUME StateTypeOK, Protection, CheckResources \/ UpdateStatus \/ UpdateStatusOfWorkers
    PROVE  Protection'
<1>0. /\ nextUid' = nextUid /\ cache' = cache /\ pc \in Applying
      /\ rdj \in DaemonJobs
  BY DEF CheckResources, UpdateStatus, UpdateStatusOfWorkers, StateTypeOK, Applying
<1>1. CASE \E checked, conds \in C!ConditionLists : WriteStatus(checked, conds)
  <2>1. PICK checked \in C!ConditionLists, conds \in C!ConditionLists :
           WriteStatus(checked, conds)
    BY <1>1
  <2>2. pc' = "idle"
    BY <2>1 DEF WriteStatus, Written, Done, Fail, Requeue, End
  <2>3. CASE dj' = dj
    BY <1>0, <2>2, <2>3, ProtectionFrame
  <2>4. ASSUME dj = rdj, NEW t \in Since(checked, conds),
               dj' = [rdj EXCEPT !.conds = conds, !.since = t]
        PROVE  Protection'
    <3>1. t \in BOOLEAN
      BY <1>0, <2>4, SinceType
    <3>2. /\ dj # None /\ dj'.uid = dj.uid /\ dj'.fin = dj.fin /\ dj'.deleting = dj.deleting
          /\ dj.fin /\ dj' \in DaemonJobs
      BY <1>0, <2>4, <3>1 DEF Protection, Protected, DaemonJobs
    <3> QED BY <1>0, <2>2, <3>2
        DEF Protection, CacheIsPast, FinalizingIsSeen, AddingIsRead, Protected, Finalizing, Applying
  <2> QED BY <2>1, <2>3, <2>4 DEF WriteStatus
<1>2. CASE Fail /\ dj' = dj
  BY <1>0, <1>2, ProtectionFrame DEF Fail, Requeue, End
<1>3. CASE pc' \in {"getJob", "list"} /\ UNCHANGED <<dj, rdj>>
  BY <1>0, <1>3, ProtectionFrame DEF Applying
<1> QED BY <1>1, <1>2, <1>3, StatusWrites

\* The other actions leave the DaemonJob and its cached copy alone.
LEMMA OtherProtection ==
    ASSUME StateTypeOK, Protection,
           \/ OnDelete \/ ListNodes \/ DeleteWorkerJobsOnNotExistNode \/ ApiError
           \/ ApplyServiceAccount \/ ApplyClusterRoleBinding \/ ApplyJob
    PROVE  Protection'
<1>1. dj' = dj /\ nextUid' = nextUid /\ cache' = cache
  BY DEF OnDelete, ListNodes, DeleteWorkerJobsOnNotExistNode, ApiError, ApplyServiceAccount,
         ApplyClusterRoleBinding, ApplyJob
<1>2. CASE OnDelete
  BY <1>1, <1>2, ProtectionFrame DEF OnDelete, Written, Goto, Fail, Requeue, End
<1>3. CASE ListNodes \/ DeleteWorkerJobsOnNotExistNode
  BY <1>1, <1>3, ProtectionFrame DEF ListNodes, DeleteWorkerJobsOnNotExistNode, Applying
<1>4. CASE ApiError
  BY <1>1, <1>4, ProtectionFrame DEF ApiError, Requeue, End
<1>5. CASE ApplyServiceAccount \/ ApplyClusterRoleBinding \/ ApplyJob
  <2>1. \/ pc' = "idle"
        \/ rdj' = rdj /\ pc \in Applying /\ pc' \in Applying
    BY <1>5 DEF ApplyServiceAccount, ApplyClusterRoleBinding, ApplyJob, Written, Goto, Fail,
                Requeue, End, Applying
  <2> QED BY <1>1, <2>1, ProtectionFrame
<1> QED BY <1>2, <1>3, <1>4, <1>5

\* Every step keeps the inductive invariant.
LEMMA ProtectionStep == ProtectedInv /\ [Next]_vars => ProtectedInv'
<1> SUFFICES ASSUME StateTypeOK, Protection, [Next]_vars PROVE Protection'
    BY TypeStep DEF ProtectedInv, Protection, TypeOK
<1>1. CASE (ClusterNext \/ Sync) /\ UNCHANGED local
  <2>1. CASE CreateDaemonJob \/ DeleteDaemonJob
    BY <1>1, <2>1, UserProtection
  <2>2. CASE Sync
    BY <1>1, <2>2, SyncProtection
  <2>3. CASE dj' = dj /\ nextUid' = nextUid /\ cache' = cache
    BY <1>1, <2>3, ProtectionFrame DEF local
  <2> QED BY <1>1, <2>1, <2>2, <2>3
      DEF ClusterNext, DeleteJob, DeleteClusterRoleBinding, NodeChanges, RunStep, RunDies,
          WorkerEnds, Collect
<1>2. CASE Controller
  BY <1>2, ReconcileProtection, AddFinalizerProtection, RemoveFinalizerProtection,
     StatusProtection, OtherProtection DEF Controller
<1>3. CASE ApiError \/ Restart
  BY <1>3, OtherProtection, RestartProtection
<1>4. CASE UNCHANGED vars
  BY <1>4, ProtectionFrame DEF vars
<1> QED BY <1>1, <1>2, <1>3, <1>4 DEF Next

\* Initially there is no DaemonJob, real or cached.
LEMMA ProtectionInit == Init => ProtectedInv
<1> SUFFICES ASSUME Init PROVE ProtectedInv
    OBVIOUS
<1>1. dj = None /\ cache.dj = None /\ pc = "idle"
  BY DEF Init, ClusterInit, ApiView
<1> QED BY <1>1, TypeInit
    DEF ProtectedInv, CacheIsPast, FinalizingIsSeen, AddingIsRead, Protected, Finalizing, Applying

\* The inductive invariant holds in every state: cached copies are past states
\* of the DaemonJob, and finalizing reconciliations have seen the deletionTimestamp.
THEOREM ProtectedInvariant == Spec => []ProtectedInv
BY ProtectionInit, ProtectionStep, PTL DEF Spec

\* A reconciliation creates and updates objects only while the incarnation it
\* read exists and carries the finalizer, however stale the caches are.
THEOREM AlwaysProtected == Spec => []Protected
<1>1. ProtectedInv => Protected
  BY DEF ProtectedInv
<1> QED BY <1>1, ProtectedInvariant, PTL

\* No ClusterRoleBinding is ever created that no finalizer will clean up.
THEOREM BindingUnderFinalizer == Spec => CreatedUnderFinalizer
<1>1. ASSUME ProtectedInv, [Next]_vars, ~crb, crb' PROVE dj # None /\ dj.fin
  <2>1. crb \in BOOLEAN
    BY <1>1 DEF ProtectedInv, TypeOK, StateTypeOK, ClusterTypeOK
  <2>2. CASE ApplyClusterRoleBinding
    BY <1>1, <2>2 DEF ApplyClusterRoleBinding, ProtectedInv, Protected, Applying
  <2>3. CASE ~ApplyClusterRoleBinding
    <3>1. crb' = crb \/ crb' = FALSE
      BY <1>1, <2>3
         DEF Next, vars, ClusterNext, Controller, CreateDaemonJob, DeleteDaemonJob, DeleteJob,
             DeleteClusterRoleBinding, NodeChanges, RunStep, RunDies, WorkerEnds, Collect, Sync,
             Reconcile, AddFinalizer, OnDelete, RemoveFinalizer, ListNodes, DeleteWorkerJobsOnNotExistNode,
             ApplyServiceAccount, ApplyJob, CheckResources,
         UpdateStatus, UpdateStatusOfWorkers, ApiError, Restart
    <3> QED BY <1>1, <3>1
  <2> QED BY <2>2, <2>3
<1>2. ProtectedInv /\ [Next]_vars => [~crb /\ crb' => dj # None /\ dj.fin]_vars
  BY <1>1
<1> QED BY <1>2, ProtectedInvariant, PTL DEF Spec, CreatedUnderFinalizer
-----------------------------------------------------------------------------
(* What the caches say *)

\* The cached objects are the real ones unless an event of theirs is outstanding.
CacheSeen ==
    /\ "dj" \notin unseen => cache.dj = dj
    /\ "sa" \notin unseen => cache.sa = sa
    /\ "crb" \notin unseen => cache.crb = crb
    /\ "job" \notin unseen => cache.job = JobView /\ cache.work = work
    /\ "nodes" \notin unseen => cache.nodes = nodes

\* Steps of the cluster and calls of the controller leave the caches alone.
LEMMA CacheKept == ASSUME ClusterNext \/ Controller \/ ApiError PROVE cache' = cache
BY DEF ClusterNext, Controller, CreateDaemonJob, DeleteDaemonJob, DeleteJob,
       DeleteClusterRoleBinding, NodeChanges, RunStep, RunDies, WorkerEnds, Collect,
       Reconcile, AddFinalizer, OnDelete, RemoveFinalizer, ListNodes, DeleteWorkerJobsOnNotExistNode,
       ApplyServiceAccount, ApplyClusterRoleBinding, ApplyJob, CheckResources, UpdateStatus,
       UpdateStatusOfWorkers, ApiError

\* What has changed in a step is outstanding after it.
LEMMA EventsTell ==
    ASSUME Events
    PROVE  /\ unseen \subseteq unseen'
           /\ dj' # dj => "dj" \in unseen'
           /\ sa' # sa => "sa" \in unseen'
           /\ crb' # crb => "crb" \in unseen'
           /\ JobView' # JobView \/ work' # work => "job" \in unseen'
           /\ nodes' # nodes => "nodes" \in unseen'
<1> USE DEF Events, Kinds
<1> QED BY DEF Changed

\* Initially the caches have been listed.
LEMMA CacheSeenInit == Init => CacheSeen
<1> SUFFICES ASSUME Init PROVE CacheSeen
    OBVIOUS
<1>1. cache = ApiView
  BY DEF Init, ClusterInit
<1> QED BY <1>1 DEF ApiView, CacheSeen

\* What changes an object leaves an event behind, and what changes its cached copy
\* reads the object.
LEMMA CacheSeenStep == CacheSeen /\ cache \in Caches /\ [Next]_vars => CacheSeen'
<1> SUFFICES ASSUME CacheSeen, cache \in Caches, [Next]_vars PROVE CacheSeen'
    OBVIOUS
<1>1. CASE cache' = cache /\ Events
  BY <1>1, EventsTell DEF CacheSeen
<1>2. CASE Sync
  <2>1. JobView' = JobView
    BY <1>2 DEF Sync, JobView, R!JobOutcome
  <2> QED BY <1>2, <2>1
      DEF Sync, SyncDaemonJob, SyncServiceAccount, SyncClusterRoleBinding, SyncJobs,
          SyncNodes, Deliver, CacheSeen, Caches
<1>3. CASE Restart
  <2>1. JobView' = JobView
    BY <1>3 DEF Restart, JobView, R!JobOutcome
  <2> QED BY <1>3, <2>1 DEF Restart, ApiView, CacheSeen
<1>4. CASE UNCHANGED vars
  BY <1>4 DEF vars, CacheSeen, JobView, R!JobOutcome
<1> QED BY <1>1, <1>2, <1>3, <1>4, CacheKept DEF Next

\* applyJob goes on to the broadcast Job without a ClusterRoleBinding only if the
\* informer has yet to tell of its deletion.
THEOREM BindingFirst == Spec => BindingUnlessLagging
<1>1. ASSUME CacheSeen, [Next]_vars, pc = "applyCRB", pc' = "applyJob"
      PROVE  crb' \/ "crb" \in unseen
  <2>1. ApplyClusterRoleBinding
    BY <1>1 DEF Next, vars, local, Controller, Reconcile, AddFinalizer, OnDelete,
         RemoveFinalizer, ListNodes, DeleteWorkerJobsOnNotExistNode, ApplyServiceAccount, ApplyJob,
         CheckResources,
         UpdateStatus, UpdateStatusOfWorkers, ApiError, Requeue, Restart, End
  <2> QED BY <1>1, <2>1
      DEF ApplyClusterRoleBinding, CacheSeen, Goto, Fail, Requeue, End
<1>2. CacheSeen /\ [Next]_vars
        => [pc = "applyCRB" /\ pc' = "applyJob" => crb' \/ "crb" \in unseen]_vars
  BY <1>1
<1>3. TypeOK => cache \in Caches
  BY DEF TypeOK, StateTypeOK, ClusterTypeOK
<1> QED BY <1>2, <1>3, CacheSeenInit, CacheSeenStep, TypeCorrect, PTL
        DEF Spec, BindingUnlessLagging

\* The finalizer of a deleted DaemonJob goes on without its ClusterRoleBinding
\* deleted only if the informer has yet to tell of the binding.
THEOREM BindingGone == Spec => BindingGoneUnlessLagging
<1>1. ASSUME CacheSeen, [Next]_vars, pc = "onDelete", pc' = "removeFinalizer"
      PROVE  ~crb' \/ "crb" \in unseen
  <2>1. OnDelete
    BY <1>1 DEF Next, vars, local, Controller, Reconcile, AddFinalizer, RemoveFinalizer,
         ListNodes, DeleteWorkerJobsOnNotExistNode, ApplyServiceAccount, ApplyClusterRoleBinding, ApplyJob,
         CheckResources, UpdateStatus, UpdateStatusOfWorkers, WriteStatus, Written, Goto, Done,
         ApiError, Fail, Requeue, Restart, End
  <2> QED BY <1>1, <2>1 DEF OnDelete, CacheSeen, Goto, Fail, Requeue, End
<1>2. CacheSeen /\ [Next]_vars
        => [pc = "onDelete" /\ pc' = "removeFinalizer" => ~crb' \/ "crb" \in unseen]_vars
  BY <1>1
<1>3. TypeOK => cache \in Caches
  BY DEF TypeOK, StateTypeOK, ClusterTypeOK
<1> QED BY <1>2, <1>3, CacheSeenInit, CacheSeenStep, TypeCorrect, PTL
        DEF Spec, BindingGoneUnlessLagging

-----------------------------------------------------------------------------
(* What is there at rest *)

\* The cached ServiceAccount and broadcast Job are those of the cached DaemonJob, or
\* an event will come that enqueues it.
ServiceAccountHeld == "sa" \in unseen \/ cache.sa = cache.dj.uid
JobHeld == "job" \in unseen \/ (cache.job # None /\ cache.job.owner = cache.dj.uid)

\* A reconciliation that nothing has enqueued since it began works for the cached
\* DaemonJob, and what it has applied is there; so it is after its end.
Applied ==
    ~dirty =>
        /\ pc = "idle" /\ cache.dj # None /\ ~cache.dj.deleting => ServiceAccountHeld /\ JobHeld
        /\ pc # "idle" => cache.dj # None /\ rdj.uid = cache.dj.uid
        /\ pc \in Finalizing => cache.dj.deleting
        /\ pc \in {"applyCRB", "applyJob", "status", "getJob", "list"} => ServiceAccountHeld
        /\ pc \in {"status", "getJob", "list"} => JobHeld

\* A step that leaves caches, queue and reconciliation alone, and one that enqueues.
LEMMA AppliedFrame ==
    ASSUME Applied,
           \/ dirty'
           \/ /\ UNCHANGED <<dirty, pc, rdj>> /\ unseen \subseteq unseen'
              /\ cache'.dj = cache.dj /\ cache'.sa = cache.sa /\ cache'.job = cache.job
    PROVE  Applied'
BY DEF Applied, ServiceAccountHeld, JobHeld

\* The informers: those that do not enqueue have nothing to do with it.
LEMMA AppliedSync ==
    ASSUME Applied, StateTypeOK, CacheSeen, Sync, UNCHANGED local
    PROVE  Applied'
<1>1. cache \in Caches
  BY DEF StateTypeOK, ClusterTypeOK
<1>2. CASE SyncDaemonJob \/ SyncServiceAccount \/ SyncJobs
  BY <1>2, AppliedFrame DEF SyncDaemonJob, SyncServiceAccount, SyncJobs
<1>3. CASE SyncClusterRoleBinding \/ SyncNodes
  <2>1. /\ cache'.dj = cache.dj /\ cache'.sa = cache.sa /\ cache'.job = cache.job
        /\ dirty' \in BOOLEAN /\ (dirty => dirty')
        /\ "sa" \in unseen => "sa" \in unseen'
        /\ "job" \in unseen => "job" \in unseen'
    BY <1>1, <1>3 DEF SyncClusterRoleBinding, SyncNodes, Deliver, Caches,
                      StateTypeOK, ClusterTypeOK
  <2> QED BY <2>1 DEF local, Applied, ServiceAccountHeld, JobHeld
<1> QED BY <1>2, <1>3 DEF Sync

\* A reconciliation begins with the cached DaemonJob.
LEMMA AppliedReconcile == ASSUME Applied, StateTypeOK, Reconcile PROVE Applied'
<1>1. cache' = cache
  BY DEF Reconcile
<1>2. CASE UNCHANGED local
  <2>1. cache.dj # None => cache.dj.deleting
    <3>1. pc = "idle" /\ rdj = None
      BY DEF Reconcile, StateTypeOK
    <3>2. cache.dj # None /\ ~(cache.dj.deleting /\ ~cache.dj.fin) => rdj' = cache.dj
      BY DEF Reconcile
    <3> QED BY <1>2, <3>1, <3>2 DEF local
  <2> QED BY <1>1, <1>2, <2>1 DEF local, Applied, Reconcile, Finalizing
<1>3. CASE /\ cache.dj # None /\ rdj' = cache.dj /\ pc' = FirstCall(cache.dj)
  <2>1. cache.dj \in DaemonJobs /\ cache.dj.deleting \in BOOLEAN /\ cache.dj.fin \in BOOLEAN
    BY <1>3, CacheFields DEF StateTypeOK, ClusterTypeOK, DaemonJobs
  <2>2. \/ cache.dj.deleting /\ pc' = "onDelete"
        \/ pc' \in {"listNodes", "addFinalizer"}
    BY <1>3, <2>1 DEF FirstCall
  <2> QED BY <1>1, <1>3, <2>2 DEF Applied, Finalizing
<1> QED BY <1>2, <1>3 DEF Reconcile, local

\* The finalizer calls end the reconciliation of a deleted DaemonJob, or go on.
LEMMA AppliedFinalizer ==
    ASSUME Applied, StateTypeOK, Events, AddFinalizer \/ OnDelete \/ RemoveFinalizer
    PROVE  Applied'
<1>1. cache' = cache
  BY DEF AddFinalizer, OnDelete, RemoveFinalizer
<1>2. CASE AddFinalizer
  <2>1. dirty' \/ (dirty' = dirty /\ pc' = "listNodes" /\ rdj' = [rdj EXCEPT !.fin = TRUE])
    BY <1>2 DEF AddFinalizer, Written, Fail, Requeue
  <2>2. rdj \in DaemonJobs /\ pc = "addFinalizer"
    BY <1>2 DEF AddFinalizer, StateTypeOK
  <2>3. [rdj EXCEPT !.fin = TRUE].uid = rdj.uid
    BY <2>2 DEF DaemonJobs
  <2> QED BY <1>1, <2>1, <2>2, <2>3 DEF Applied, Finalizing
<1>3. CASE OnDelete
  <2>1. dirty' \/ (dirty' = dirty /\ pc' = "removeFinalizer" /\ rdj' = rdj)
    BY <1>3 DEF OnDelete, Written, Goto, Fail, Requeue
  <2> QED BY <1>1, <1>3, <2>1 DEF Applied, Finalizing, OnDelete
<1>4. CASE RemoveFinalizer
  <2>1. dirty' \/ (dirty' = dirty /\ pc' = "idle")
    BY <1>4 DEF RemoveFinalizer, Written, Done, End, Fail, Requeue
  <2> QED BY <1>1, <1>4, <2>1 DEF Applied, Finalizing, RemoveFinalizer
<1> QED BY <1>2, <1>3, <1>4

\* applyServiceAccount finds the ServiceAccount in the cache, or changes it.
LEMMA AppliedServiceAccount ==
    ASSUME Applied, Events, ApplyServiceAccount
    PROVE  Applied'
<1>1. cache' = cache /\ pc = "applySA"
  BY DEF ApplyServiceAccount
<1>2. \/ dirty'
      \/ /\ dirty' = dirty /\ pc' = "applyCRB" /\ rdj' = rdj
         /\ cache.sa = rdj.uid \/ sa' # sa
  BY DEF ApplyServiceAccount, Written, Goto, Fail, Requeue
<1> QED BY <1>1, <1>2, EventsTell DEF Applied, ServiceAccountHeld, Finalizing

\* applyJob finds the broadcast Job in the cache, or creates or takes over one.
LEMMA AppliedJob ==
    ASSUME Applied, StateTypeOK, StateTypeOK', Events, ApplyJob
    PROVE  Applied'
<1>1. cache' = cache /\ pc = "applyJob"
  BY DEF ApplyJob
<1>2. \/ dirty'
      \/ /\ dirty' = dirty /\ pc' = "status" /\ rdj' = rdj
         /\ \/ cache.job # None /\ cache.job.owner = rdj.uid
            \/ JobView' # JobView
  <2>1. CASE cache.job = None
    <3>1. ASSUME NEW j \in Jobs, job = None, job' = [id |-> j, owner |-> rdj.uid]
          PROVE  JobView' # JobView
      <4>1. JobView = None
        BY <3>1 DEF JobView
      <4>2. rdj.uid \in Uids
        BY DEF ApplyJob, StateTypeOK, DaemonJobs
      <4>3. job' # None
        BY <3>1, <4>2, NoneAssumption DEF BroadcastJobs
      <4>4. JobView' \in JobViews
        <5>1. R!JobOutcome(job.id)' \in R!JobStatusTypes
          BY DEF R!JobOutcome, R!JobStatusTypes
        <5>2. JobView' = [id |-> job'.id, owner |-> job'.owner, st |-> R!JobOutcome(job.id)']
          BY <4>3 DEF JobView
        <5> QED BY <3>1, <4>2, <5>1, <5>2 DEF JobViews
      <4> QED BY <4>1, <4>4, NoneAssumption
    <3>2. \/ dirty'
          \/ /\ dirty' = dirty /\ pc' = "status" /\ rdj' = rdj
             /\ \E j \in Jobs : job = None /\ job' = [id |-> j, owner |-> rdj.uid]
      BY <2>1 DEF ApplyJob, JobNameFree, Written, Goto, Fail, Requeue
    <3> QED BY <3>1, <3>2
  <2>2. CASE cache.job # None
    <3>1. ASSUME cache.job.owner # rdj.uid, cache.job = JobView,
                 job' = [job EXCEPT !.owner = rdj.uid]
          PROVE  JobView' # JobView
      <4>1. job # None /\ job \in BroadcastJobs /\ JobView.owner = job.owner
        BY <2>2, <3>1 DEF JobView, StateTypeOK, ClusterTypeOK
      <4>2. job' # None /\ job'.owner = rdj.uid
        <5>1. rdj.uid \in Uids
          BY DEF ApplyJob, StateTypeOK, DaemonJobs
        <5>2. job' \in BroadcastJobs /\ job'.owner = rdj.uid
          BY <3>1, <4>1, <5>1 DEF BroadcastJobs
        <5> QED BY <5>2, NoneAssumption
      <4>3. JobView'.owner = rdj.uid
        BY <4>2 DEF JobView
      <4> QED BY <3>1, <4>3
    <3> QED BY <2>2, <3>1 DEF ApplyJob, Written, Goto, Fail, Requeue
  <2> QED BY <2>1, <2>2
<1>3. rdj.uid = cache.dj.uid \/ dirty
  BY <1>1 DEF Applied
<1>4. ServiceAccountHeld' \/ dirty
  BY <1>1, EventsTell DEF Applied, ServiceAccountHeld
<1>5. JobHeld' \/ dirty \/ dirty'
  BY <1>1, <1>2, <1>3, EventsTell DEF JobHeld
<1> QED BY <1>1, <1>2, <1>4, <1>5 DEF Applied, Finalizing

\* The status is written when everything has been applied.
LEMMA AppliedStatus ==
    ASSUME Applied, Events, CheckResources \/ UpdateStatus \/ UpdateStatusOfWorkers
    PROVE  Applied'
<1>1. cache' = cache /\ pc \in {"status", "getJob", "list"}
  BY DEF CheckResources, UpdateStatus, UpdateStatusOfWorkers
<1>2. \/ dirty'
      \/ dirty' = dirty /\ pc' \in {"getJob", "list"} /\ rdj' = rdj
      \/ dirty' = dirty /\ pc' = "idle"
  BY DEF CheckResources, UpdateStatus, UpdateStatusOfWorkers, WriteStatus, Written, Goto, Done,
         End, Fail, Requeue
<1>3. dirty \/ (ServiceAccountHeld /\ JobHeld)'
  BY <1>1, EventsTell DEF Applied, ServiceAccountHeld, JobHeld
<1> QED BY <1>1, <1>2, <1>3 DEF Applied, Finalizing

\* The other calls.
LEMMA AppliedOther ==
    ASSUME Applied, Events,
           \/ ListNodes \/ DeleteWorkerJobsOnNotExistNode \/ ApplyClusterRoleBinding
           \/ ApiError
    PROVE  Applied'
<1>1. cache' = cache
  BY DEF ListNodes, DeleteWorkerJobsOnNotExistNode, ApplyClusterRoleBinding, ApiError
<1>2. \/ dirty'
      \/ /\ dirty' = dirty /\ rdj' = rdj
         /\ \/ pc = "listNodes" /\ pc' = "deleteWorkers"
            \/ pc = "deleteWorkers" /\ pc' = "applySA"
            \/ pc = "applyCRB" /\ pc' = "applyJob"
  BY DEF ListNodes, DeleteWorkerJobsOnNotExistNode, ApplyClusterRoleBinding, ApiError, Written,
         Goto, Fail, Requeue
<1> QED BY <1>1, <1>2, EventsTell DEF Applied, ServiceAccountHeld, Finalizing

\* Every step keeps it.
LEMMA AppliedStep ==
    ASSUME TypeOK, TypeOK', CacheSeen, Applied, [Next]_vars
    PROVE  Applied'
<1> USE DEF TypeOK
<1>1. CASE ClusterNext /\ UNCHANGED local /\ Events
  <2>1. dirty' = dirty
    BY <1>1 DEF ClusterNext, CreateDaemonJob, DeleteDaemonJob, DeleteJob,
       DeleteClusterRoleBinding, NodeChanges, RunStep, RunDies, WorkerEnds, Collect
  <2> QED BY <1>1, <2>1, CacheKept, EventsTell, AppliedFrame DEF local
<1>2. CASE Sync /\ UNCHANGED local
  BY <1>2, AppliedSync
<1>3. CASE (Controller \/ ApiError) /\ Events
  BY <1>3, AppliedReconcile, AppliedFinalizer, AppliedServiceAccount, AppliedJob,
     AppliedStatus, AppliedOther DEF Controller
<1>4. CASE Restart
  <2>1. dirty' \/ (cache'.dj = None /\ pc' = "idle")
    BY <1>4 DEF Restart, ApiView, End
  <2> QED BY <2>1 DEF Applied, Finalizing
<1>5. CASE UNCHANGED vars
  BY <1>5, AppliedFrame DEF vars
<1> QED BY <1>1, <1>2, <1>3, <1>4, <1>5 DEF Next

\* Whatever failed, was deleted or was left by a namesake: when the controller has
\* come to rest, the ServiceAccount and the broadcast Job are the DaemonJob's own.
THEOREM ResourcesThere == Spec => []ResourcesAtRest
<1>1. Init => Applied
  BY DEF Init, ClusterInit, ApiView, Applied, Finalizing
<1>2. TypeOK => cache \in Caches
  BY DEF TypeOK, StateTypeOK, ClusterTypeOK
<1>3. CacheSeen /\ Applied => ResourcesAtRest
  <2> SUFFICES ASSUME CacheSeen, Applied, Settled, Wanted
               PROVE  sa = dj.uid /\ job # None /\ job.owner = dj.uid
      BY DEF ResourcesAtRest
  <2>1. cache.dj = dj /\ cache.sa = sa /\ cache.job = JobView
    BY DEF Settled, CacheSeen
  <2>2. ServiceAccountHeld /\ JobHeld
    BY <2>1 DEF Settled, Wanted, Applied
  <2> QED BY <2>1, <2>2 DEF Settled, ServiceAccountHeld, JobHeld, JobView
<1> QED BY <1>1, <1>2, <1>3, AppliedStep, CacheSeenInit, CacheSeenStep, TypeCorrect, PTL DEF Spec
-----------------------------------------------------------------------------
(* No deletion is forgotten *)

\* What is being deleted is held by a finalizer: the API server has removed it
\* otherwise.
Held ==
    /\ dj # None /\ dj.deleting => dj.fin
    /\ cache.dj # None /\ cache.dj.deleting => cache.dj.fin

\* A deletion in the cache has enqueued the DaemonJob, is being finalized, or has
\* been: then the event of its end is outstanding.
Finishing ==
    ~dirty /\ cache.dj # None /\ cache.dj.deleting
        => pc \in Finalizing \/ (pc = "idle" /\ "dj" \in unseen)

\* Steps that write the DaemonJob keep its finalizer while it is being deleted.
LEMMA HeldStep == TypeOK /\ Held /\ [Next]_vars => Held'
<1> SUFFICES ASSUME TypeOK, Held, [Next]_vars PROVE Held'
    OBVIOUS
<1>1. cache'.dj = cache.dj \/ cache'.dj = dj
  <2>1. CASE Sync
    BY <2>1 DEF TypeOK, StateTypeOK, ClusterTypeOK, Caches, Sync, SyncDaemonJob,
       SyncServiceAccount, SyncClusterRoleBinding, SyncJobs, SyncNodes, Deliver
  <2>2. CASE Restart
    BY <2>2 DEF Restart, ApiView
  <2> QED BY <2>1, <2>2, CacheKept DEF Next, vars
<1>2. dj' # None /\ dj'.deleting => dj'.fin
  <2>1. CASE dj' = dj
    BY <2>1 DEF Held
  <2>2. CASE CreateDaemonJob
    BY <2>2 DEF CreateDaemonJob
  <2>3. CASE DeleteDaemonJob
    BY <2>3 DEF DeleteDaemonJob, TypeOK, StateTypeOK, ClusterTypeOK, DaemonJobs
  <2>4. CASE AddFinalizer
    BY <2>1, <2>4 DEF AddFinalizer, TypeOK, StateTypeOK, DaemonJobs
  <2>5. CASE RemoveFinalizer
    BY <2>1, <2>5 DEF RemoveFinalizer
  <2>6. CASE CheckResources \/ UpdateStatus \/ UpdateStatusOfWorkers
    <3>1. dj' = dj \/ \E conds, t : dj' = [rdj EXCEPT !.conds = conds, !.since = t] /\ dj = rdj
      BY <2>6, ZenonT(60) DEF CheckResources, UpdateStatus, UpdateStatusOfWorkers, WriteStatus
    <3>2. dj # None => dj \in DaemonJobs
      BY DEF TypeOK, StateTypeOK, ClusterTypeOK
    <3>3. rdj \in DaemonJobs
      BY <2>6 DEF CheckResources, UpdateStatus, UpdateStatusOfWorkers, TypeOK, StateTypeOK
    <3> QED BY <2>1, <3>1, <3>2, <3>3, NoneAssumption DEF Held, DaemonJobs
  <2> QED BY <2>1, <2>2, <2>3, <2>4, <2>5, <2>6
      DEF Next, vars, ClusterNext, DeleteJob, DeleteClusterRoleBinding, NodeChanges, RunStep,
          RunDies, WorkerEnds, Collect, Sync, SyncDaemonJob, SyncServiceAccount,
          SyncClusterRoleBinding, SyncJobs, SyncNodes, Deliver, Controller, Reconcile,
          OnDelete, ListNodes, DeleteWorkerJobsOnNotExistNode, ApplyServiceAccount,
          ApplyClusterRoleBinding, ApplyJob, ApiError, Restart
<1> QED BY <1>1, <1>2 DEF Held

\* A step that leaves queue, reconciliation and the cached DaemonJob alone, and one
\* that enqueues.
LEMMA FinishingFrame ==
    ASSUME Finishing,
           \/ dirty'
           \/ /\ UNCHANGED <<dirty, pc>> /\ cache'.dj = cache.dj
              /\ "dj" \in unseen => "dj" \in unseen'
    PROVE  Finishing'
BY DEF Finishing

\* Of the informers only the DaemonJob's own changes its cached copy, and enqueues.
LEMMA FinishingSync ==
    ASSUME Finishing, StateTypeOK, Sync, UNCHANGED local
    PROVE  Finishing'
<1>1. CASE SyncDaemonJob \/ SyncServiceAccount \/ SyncJobs
  BY <1>1, FinishingFrame DEF SyncDaemonJob, SyncServiceAccount, SyncJobs
<1>2. CASE SyncClusterRoleBinding \/ SyncNodes
  <2>1. /\ cache'.dj = cache.dj /\ dirty' \in BOOLEAN /\ (dirty => dirty')
        /\ "dj" \in unseen => "dj" \in unseen'
    BY <1>2 DEF SyncClusterRoleBinding, SyncNodes, Deliver, Caches, StateTypeOK, ClusterTypeOK
  <2> QED BY <2>1 DEF local, Finishing
<1> QED BY <1>1, <1>2 DEF Sync

\* A reconciliation of a deleted DaemonJob finalizes.
LEMMA FinishingReconcile == ASSUME Held, StateTypeOK, Reconcile PROVE Finishing'
<1>1. cache' = cache
  BY DEF Reconcile
<1>2. CASE cache.dj # None /\ cache.dj.deleting
  <2>1. pc' = FirstCall(cache.dj)
    BY <1>2 DEF Reconcile, Held
  <2>2. pc' = "onDelete"
    BY <1>2, <2>1 DEF FirstCall
  <2> QED BY <2>2 DEF Finishing, Finalizing
<1> QED BY <1>1, <1>2 DEF Finishing

\* Finalizing ends with the removal of the DaemonJob, or in another try; and what is
\* applied is not being deleted, as far as the cache knows.
LEMMA FinishingCalls ==
    ASSUME Finishing, StateTypeOK, (Controller /\ ~Reconcile) \/ ApiError, Events
    PROVE  Finishing'
<1>1. cache' = cache
  BY CacheKept
<1>2. CASE OnDelete
  <2>1. dirty' \/ pc' = "removeFinalizer"
    BY <1>2 DEF OnDelete, Written, Goto, Fail, Requeue
  <2> QED BY <2>1 DEF Finishing, Finalizing
<1>3. CASE RemoveFinalizer
  <2>1. dirty' \/ (pc' = "idle" /\ dj = rdj /\ dj' = None)
    BY <1>3 DEF RemoveFinalizer, Written, Done, End, Fail, Requeue
  <2>2. rdj # None
    BY <1>3 DEF RemoveFinalizer, StateTypeOK
  <2> QED BY <2>1, <2>2, EventsTell DEF Finishing
<1>4. CASE pc \notin Finalizing \union {"idle"}
  <2>1. dirty' \/ dirty' = dirty
    BY <1>4 DEF Controller, ApiError, AddFinalizer, OnDelete, RemoveFinalizer, ListNodes,
       DeleteWorkerJobsOnNotExistNode, ApplyServiceAccount, ApplyClusterRoleBinding, ApplyJob,
       CheckResources, UpdateStatus, UpdateStatusOfWorkers, WriteStatus, Written, Done, End,
       Goto, Fail, Requeue
  <2> QED BY <1>1, <1>4, <2>1 DEF Finishing
<1>5. CASE ApiError
  BY <1>5 DEF ApiError, Requeue, Finishing
<1> QED BY <1>2, <1>3, <1>4, <1>5
    DEF Controller, Finalizing, AddFinalizer, ListNodes, DeleteWorkerJobsOnNotExistNode,
        ApplyServiceAccount, ApplyClusterRoleBinding, ApplyJob, CheckResources, UpdateStatus,
        UpdateStatusOfWorkers

\* Every step keeps it.
LEMMA FinishingStep == TypeOK /\ Held /\ Finishing /\ [Next]_vars => Finishing'
<1> SUFFICES ASSUME TypeOK, Held, Finishing, [Next]_vars PROVE Finishing'
    OBVIOUS
<1> USE DEF TypeOK
<1>1. CASE ClusterNext /\ UNCHANGED local /\ Events
  <2>1. dirty' = dirty
    BY <1>1 DEF ClusterNext, CreateDaemonJob, DeleteDaemonJob, DeleteJob,
       DeleteClusterRoleBinding, NodeChanges, RunStep, RunDies, WorkerEnds, Collect
  <2> QED BY <1>1, <2>1, CacheKept, EventsTell, FinishingFrame DEF local
<1>2. CASE Sync /\ UNCHANGED local
  BY <1>2, FinishingSync
<1>3. CASE (Controller \/ ApiError) /\ Events
  BY <1>3, FinishingReconcile, FinishingCalls
<1>4. CASE Restart
  <2>1. dirty' \/ cache'.dj = None
    BY <1>4 DEF Restart, ApiView
  <2> QED BY <2>1 DEF Finishing
<1>5. CASE UNCHANGED vars
  BY <1>5, FinishingFrame DEF vars
<1> QED BY <1>1, <1>2, <1>3, <1>4, <1>5 DEF Next

\* However old the caches were, and whatever failed, conflicted or was restarted: the
\* controller does not come to rest while a deleted DaemonJob waits for its finalizer.
THEOREM DeletionRemembered == Spec => []NoDeletionAtRest
<1>1. Init => Held /\ Finishing
  BY DEF Init, ClusterInit, ApiView, Held, Finishing
<1>2. CacheSeen /\ Finishing => NoDeletionAtRest
  BY DEF CacheSeen, Finishing, NoDeletionAtRest, Settled, Finalizing
<1>3. TypeOK => cache \in Caches
  BY DEF TypeOK, StateTypeOK, ClusterTypeOK
<1> QED BY <1>1, <1>2, <1>3, HeldStep, FinishingStep, CacheSeenInit, CacheSeenStep,
           TypeCorrect, PTL DEF Spec
-----------------------------------------------------------------------------
(* What the state says at rest *)

\* The broadcast Job and the worker Jobs given have all ended, and how.
AllEnded(j, w) ==
    /\ j # None /\ j.st # "progressing"
    /\ \A n \in Nodes : w[n] # None => w[n].st # "progressing"

OutcomeOf(j, w) ==
    IF j.st = "complete" /\ \A n \in Nodes : w[n] # None => w[n].st = "complete"
    THEN "Complete" ELSE "Degraded"

\* The cached state is the outcome of the cached Jobs, once they have ended, unless
\* there is more to see of it.
StateTold ==
    "dj" \in unseen
    \/ (AllEnded(cache.job, cache.work)
          => C!State(cache.dj.conds) = OutcomeOf(cache.job, cache.work))

\* While nothing waits in the queue, the workers are listed for a broadcast Job that
\* is complete in the cache, and what has been written at the end is the outcome.
Told ==
    ~dirty =>
        /\ pc = "list" => cache.job # None /\ cache.job.st = "complete"
        /\ pc = "idle" /\ cache.dj # None /\ ~cache.dj.deleting => StateTold

\* The states of conditions that SetPair has just set, whatever they say.
LEMMA PairStates ==
    ASSUME NEW c \in C!ConditionLists, NEW m
    PROVE  /\ C!State(C!SetPair(c, TRUE, m)) = "Complete"
           /\ C!State(C!SetPair(c, FALSE, m)) = "Degraded"
BY DEF C!State, C!Is, C!SetPair, C!Condition, C!ConditionStatus, C!ConditionLists,
       C!ConditionTypes

\* A status that was written, or was there already, is told.
LEMMA WriteTells ==
    ASSUME StateTypeOK, CacheSeen, Events, cache' = cache, pc # "idle",
           NEW checked, NEW conds, WriteStatus(checked, conds), ~dirty',
           AllEnded(cache.job, cache.work) => C!State(conds) = OutcomeOf(cache.job, cache.work)
    PROVE  Told'
<1>1. PICK t \in Since(checked, conds) :
         pc' = "idle" /\ dj = rdj /\ dj' = [rdj EXCEPT !.conds = conds, !.since = t]
  BY DEF WriteStatus, Written, Done, End, Fail, Requeue
<1>2. rdj \in DaemonJobs
  BY DEF StateTypeOK
<1>3. dj'.conds = conds
  BY <1>1, <1>2 DEF DaemonJobs
<1>4. CASE "dj" \in unseen'
  BY <1>1, <1>4 DEF Told, StateTold
<1>5. CASE "dj" \notin unseen'
  <2>1. dj' = dj /\ cache.dj = dj
    BY <1>5, EventsTell DEF CacheSeen
  <2>2. cache.dj.conds = conds
    BY <1>3, <2>1
  <2>3. C!State(cache.dj.conds) = C!State(conds)
    BY <2>2
  <2> QED BY <1>1, <2>3 DEF Told, StateTold, AllEnded, OutcomeOf
<1> QED BY <1>4, <1>5

\* The checks of updateStatus end only if the broadcast Job is missing.
LEMMA ToldResources ==
    ASSUME StateTypeOK, CacheSeen, Told, Events, CheckResources
    PROVE  Told'
<1>1. cache' = cache /\ pc = "status"
  BY DEF CheckResources
<1>2. CASE cache.job = None
  <2>1. WriteStatus(CheckedConditions, NotFound(CheckedConditions))
    BY <1>2 DEF CheckResources
  <2>2. ~AllEnded(cache.job, cache.work)
    BY <1>2 DEF AllEnded
  <2>3. CASE dirty'
    BY <2>3 DEF Told
  <2>4. CASE ~dirty'
    BY <1>1, <2>1, <2>2, <2>4, WriteTells
  <2> QED BY <2>3, <2>4
<1>3. CASE cache.job # None
  BY <1>3 DEF CheckResources, Told
<1> QED BY <1>2, <1>3

\* updateStatus for a broadcast Job that runs or has failed, or is complete.
LEMMA ToldStatus ==
    ASSUME StateTypeOK, CacheSeen, Told, Events, UpdateStatus
    PROVE  Told'
<1>1. cache' = cache /\ pc = "getJob" /\ rconds \in C!ConditionLists
  BY DEF UpdateStatus, StateTypeOK
<1>2. CASE cache.job = None
  BY <1>2 DEF UpdateStatus, Fail, Requeue, Told
<1>3. CASE cache.job # None /\ cache.job.st = "complete"
  BY <1>1, <1>3 DEF UpdateStatus, Goto, Told
<1>4. CASE cache.job # None /\ cache.job.st # "complete"
  <2>1. PICK conds :
           /\ WriteStatus(rconds, conds)
           /\ \/ cache.job.st = "progressing"
              \/ /\ conds = C!SetPair(rconds, FALSE, Say("Broadcast failed"))
                 /\ cache.job.st = "failed"
    BY <1>4 DEF UpdateStatus
  <2>2. AllEnded(cache.job, cache.work) => C!State(conds) = OutcomeOf(cache.job, cache.work)
    BY <1>1, <2>1, PairStates DEF AllEnded, OutcomeOf
  <2>3. CASE dirty'
    BY <2>3 DEF Told
  <2>4. CASE ~dirty'
    BY <1>1, <2>1, <2>2, <2>4, WriteTells
  <2> QED BY <2>3, <2>4
<1> QED BY <1>2, <1>3, <1>4

\* updateStatus with the workers of a broadcast Job that is complete.
LEMMA ToldWorkers ==
    ASSUME StateTypeOK, CacheSeen, Told, Events, UpdateStatusOfWorkers
    PROVE  Told'
<1>1. cache' = cache /\ pc = "list"
  BY DEF UpdateStatusOfWorkers
<1>2. PICK conds \in WorkersConditions : WriteStatus(rconds, conds)
  BY DEF UpdateStatusOfWorkers
<1>3. rconds \in C!ConditionLists
  BY DEF StateTypeOK
<1>4. \A n \in Nodes : cache.work[n] # None =>
         cache.work[n].st \in {"complete", "progressing", "failed"}
  BY CacheFields DEF StateTypeOK, ClusterTypeOK, R!Workers, R!JobStatusTypes
<1>5. ASSUME ~dirty, AllEnded(cache.job, cache.work)
      PROVE  C!State(conds) = OutcomeOf(cache.job, cache.work)
  <2>1. cache.job.st = "complete" /\ Listed("progressing") = {}
    BY <1>1, <1>5 DEF Told, AllEnded, Listed
  <2>2. CASE Listed("failed") # {}
    <3>1. \E m : conds = C!SetPair(rconds, FALSE, m)
      BY <1>2, <2>2 DEF WorkersConditions
    <3>2. OutcomeOf(cache.job, cache.work) = "Degraded"
      BY <2>2 DEF OutcomeOf, Listed
    <3> QED BY <1>3, <3>1, <3>2, PairStates
  <2>3. CASE Listed("failed") = {}
    <3>1. \A n \in Nodes : cache.work[n] # None => cache.work[n].st = "complete"
      BY <1>4, <2>1, <2>3 DEF Listed
    <3>2. \E m : conds = C!SetPair(rconds, TRUE, m)
      BY <1>2, <2>1, <2>3 DEF WorkersConditions
    <3>3. OutcomeOf(cache.job, cache.work) = "Complete"
      BY <2>1, <3>1 DEF OutcomeOf
    <3> QED BY <1>3, <3>2, <3>3, PairStates
  <2> QED BY <2>2, <2>3
<1>6. dirty' \/ ~dirty
  BY <1>2 DEF WriteStatus, Written, Done, Fail, Requeue
<1>7. CASE dirty'
  BY <1>7 DEF Told
<1>8. CASE ~dirty'
  BY <1>1, <1>2, <1>5, <1>6, <1>8, WriteTells
<1> QED BY <1>7, <1>8

\* The other calls come to an end only for a DaemonJob that is being deleted.
LEMMA ToldOther ==
    ASSUME Applied, Told,
           \/ Reconcile \/ AddFinalizer \/ OnDelete \/ RemoveFinalizer
           \/ ListNodes \/ DeleteWorkerJobsOnNotExistNode \/ ApplyServiceAccount
           \/ ApplyClusterRoleBinding \/ ApplyJob \/ ApiError,
           StateTypeOK
    PROVE  Told'
<1>1. CASE Reconcile
  <2>1. cache' = cache /\ pc' # "list"
    BY <1>1 DEF Reconcile, FirstCall, local
  <2>2. pc' = "idle" => cache.dj = None \/ cache.dj.deleting
    BY <1>1, CacheFields DEF Reconcile, FirstCall, StateTypeOK, ClusterTypeOK, DaemonJobs, local
  <2> QED BY <2>1, <2>2 DEF Told
<1>2. CASE RemoveFinalizer
  <2>1. cache' = cache /\ (dirty' \/ (dirty' = dirty /\ pc' = "idle" /\ pc = "removeFinalizer"))
    BY <1>2 DEF RemoveFinalizer, Written, Done, End, Fail, Requeue
  <2> QED BY <2>1 DEF Told, Applied, Finalizing
<1>3. CASE \/ AddFinalizer \/ OnDelete \/ ListNodes \/ DeleteWorkerJobsOnNotExistNode
           \/ ApplyServiceAccount \/ ApplyClusterRoleBinding \/ ApplyJob \/ ApiError
  <2>1. dirty' \/ pc' \notin {"idle", "list"}
    BY <1>3 DEF AddFinalizer, OnDelete, ListNodes, DeleteWorkerJobsOnNotExistNode,
       ApplyServiceAccount, ApplyClusterRoleBinding, ApplyJob, ApiError, Written, Goto, Fail, Requeue
  <2> QED BY <2>1 DEF Told
<1> QED BY <1>1, <1>2, <1>3

\* A step that leaves caches, queue and reconciliation alone, and one that enqueues.
LEMMA ToldFrame ==
    ASSUME Told,
           \/ dirty'
           \/ /\ UNCHANGED <<dirty, pc>> /\ unseen \subseteq unseen'
              /\ cache'.dj = cache.dj /\ cache'.job = cache.job /\ cache'.work = cache.work
    PROVE  Told'
BY DEF Told, StateTold, AllEnded, OutcomeOf

\* The informers: those that do not enqueue have nothing to do with it.
LEMMA ToldSync ==
    ASSUME Told, StateTypeOK, Sync, UNCHANGED local
    PROVE  Told'
<1>1. cache \in Caches
  BY DEF StateTypeOK, ClusterTypeOK
<1>2. CASE SyncDaemonJob \/ SyncServiceAccount \/ SyncJobs
  BY <1>2, ToldFrame DEF SyncDaemonJob, SyncServiceAccount, SyncJobs
<1>3. CASE SyncClusterRoleBinding \/ SyncNodes
  <2>1. /\ cache'.dj = cache.dj /\ cache'.job = cache.job /\ cache'.work = cache.work
        /\ dirty' \in BOOLEAN /\ (dirty => dirty')
        /\ "dj" \in unseen => "dj" \in unseen'
    BY <1>1, <1>3 DEF SyncClusterRoleBinding, SyncNodes, Deliver, Caches,
                      StateTypeOK, ClusterTypeOK
  <2> QED BY <2>1 DEF local, Told, StateTold, AllEnded, OutcomeOf
<1> QED BY <1>2, <1>3 DEF Sync

\* Every step keeps it.
LEMMA ToldStep == TypeOK /\ CacheSeen /\ Applied /\ Told /\ [Next]_vars => Told'
<1> SUFFICES ASSUME StateTypeOK, CacheSeen, Applied, Told, [Next]_vars PROVE Told'
    BY DEF TypeOK
<1>1. CASE ClusterNext /\ UNCHANGED local /\ Events
  <2>1. dirty' = dirty
    BY <1>1 DEF ClusterNext, CreateDaemonJob, DeleteDaemonJob, DeleteJob,
       DeleteClusterRoleBinding, NodeChanges, RunStep, RunDies, WorkerEnds, Collect
  <2> QED BY <1>1, <2>1, CacheKept, EventsTell, ToldFrame DEF local
<1>2. CASE Sync /\ UNCHANGED local
  BY <1>2, ToldSync
<1>3. CASE (Controller \/ ApiError) /\ Events
  BY <1>3, ToldResources, ToldStatus, ToldWorkers, ToldOther DEF Controller
<1>4. CASE Restart
  <2>1. dirty' \/ (cache'.dj = None /\ pc' = "idle")
    BY <1>4 DEF Restart, ApiView, End
  <2> QED BY <2>1 DEF Told
<1>5. CASE UNCHANGED vars
  BY <1>5, ToldFrame DEF vars
<1> QED BY <1>1, <1>2, <1>3, <1>4, <1>5 DEF Next

\* When the controller has come to rest and the broadcast and its workers have ended,
\* the state is their outcome: no last event is lost on the way.
THEOREM StateThere == Spec => []StateAtRest
<1>1. Init => Applied /\ Told
  BY DEF Init, ClusterInit, ApiView, Applied, Told, Finalizing
<1>2. TypeOK => cache \in Caches
  BY DEF TypeOK, StateTypeOK, ClusterTypeOK
<1>3. CacheSeen /\ Told => StateAtRest
  <2> SUFFICES ASSUME CacheSeen, Told, Settled, Wanted, Ended
               PROVE  C!State(dj.conds) = Outcome
      BY DEF StateAtRest
  <2>1. cache.dj = dj /\ cache.job = JobView /\ cache.work = work
    BY DEF Settled, CacheSeen
  <2>2. AllEnded(JobView, work) /\ Outcome = OutcomeOf(JobView, work)
    BY DEF Ended, AllEnded, Outcome, OutcomeOf
  <2> QED BY <2>1, <2>2 DEF Settled, Wanted, Told, StateTold
<1> QED BY <1>1, <1>2, <1>3, AppliedStep, ToldStep, CacheSeenInit, CacheSeenStep, TypeCorrect, PTL
        DEF Spec
-----------------------------------------------------------------------------
(* What is left on nodes that are gone, if no call fails *)

NoErrors == left["apiError"] = 0

\* A budget that is used up stays used up.
LEMMA NoErrorsStep ==
    ASSUME StateTypeOK, NoErrors, [Next]_vars
    PROVE  NoErrors'
<1>1. left \in [Disruptions -> Nat] /\ "apiError" \in Disruptions
  BY DEF StateTypeOK, ClusterTypeOK, Disruptions
<1>2. ASSUME NEW k \in Disruptions, Spend(k) PROVE NoErrors'
  BY <1>1, <1>2 DEF Spend, NoErrors
<1>3. CASE left' = left
  BY <1>3 DEF NoErrors
<1>4. left' = left \/ \E k \in Disruptions : Spend(k)
  <2> USE DEF Disruptions
  <2>1. CASE ClusterNext
    BY <2>1 DEF ClusterNext, CreateDaemonJob, DeleteDaemonJob, DeleteJob,
       DeleteClusterRoleBinding, NodeChanges, RunStep, RunDies, WorkerEnds, Collect
  <2>2. CASE Controller
    BY <2>2 DEF Controller, Reconcile, AddFinalizer, OnDelete, RemoveFinalizer, ListNodes,
       DeleteWorkerJobsOnNotExistNode, ApplyServiceAccount, ApplyClusterRoleBinding, ApplyJob,
       CheckResources, UpdateStatus, UpdateStatusOfWorkers, WriteStatus, Written, Goto, Done,
       Fail
  <2>3. CASE Sync \/ ApiError \/ Restart \/ UNCHANGED vars
    BY <2>3 DEF Sync, ApiError, Restart, vars
  <2> QED BY <2>1, <2>2, <2>3 DEF Next
<1> QED BY <1>2, <1>3, <1>4

\* The cache has no worker Job on a node that is not there, unless there is more to
\* see of the Jobs.
GoneSwept == "job" \in unseen \/ \A n \in Nodes \ cache.nodes : cache.work[n] = None

\* Nor has it one on a node that has gone since the nodes were listed: its watch
\* enqueues.
ListedSwept == "job" \in unseen \/ \A n \in rnodes \ cache.nodes : cache.work[n] = None

\* While nothing waits in the queue, this is so from the list and from the deletes on.
Swept ==
    ~dirty =>
        /\ pc = "idle" /\ cache.dj # None /\ ~cache.dj.deleting => GoneSwept
        /\ pc = "deleteWorkers" => ListedSwept
        /\ pc \in Applying \ {"listNodes", "deleteWorkers"} => GoneSwept

\* A step that leaves caches, queue and reconciliation alone, and one that enqueues.
LEMMA SweptFrame ==
    ASSUME Swept,
           \/ dirty'
           \/ /\ UNCHANGED <<dirty, pc, rnodes>> /\ unseen \subseteq unseen'
              /\ cache'.dj = cache.dj /\ cache'.work = cache.work /\ cache'.nodes = cache.nodes
    PROVE  Swept'
BY DEF Swept, GoneSwept, ListedSwept

\* The informers: one that takes away a node with a worker Job enqueues.
LEMMA SweptSync ==
    ASSUME Swept, StateTypeOK, Sync, UNCHANGED local
    PROVE  Swept'
<1>1. cache \in Caches
  BY DEF StateTypeOK, ClusterTypeOK
<1>2. CASE SyncDaemonJob \/ SyncServiceAccount \/ SyncJobs
  BY <1>2, SweptFrame DEF SyncDaemonJob, SyncServiceAccount, SyncJobs
<1>3. CASE SyncClusterRoleBinding
  <2>1. /\ cache'.dj = cache.dj /\ cache'.work = cache.work /\ cache'.nodes = cache.nodes
        /\ dirty' = dirty /\ ("job" \in unseen => "job" \in unseen')
    BY <1>1, <1>3 DEF SyncClusterRoleBinding, Deliver, Caches
  <2> QED BY <2>1 DEF local, Swept, GoneSwept, ListedSwept
<1>4. CASE SyncNodes
  <2>1. /\ cache'.dj = cache.dj /\ cache'.work = cache.work /\ cache'.nodes = nodes
        /\ "job" \in unseen => "job" \in unseen'
    BY <1>1, <1>4 DEF SyncNodes, Deliver, Caches
  <2>2. dirty' \in BOOLEAN /\ (dirty => dirty')
    BY <1>4 DEF SyncNodes, StateTypeOK, ClusterTypeOK
  <2>3. ~dirty' => \A n \in cache.nodes \ nodes : cache.work[n] = None
    BY <1>4 DEF SyncNodes
  <2>4. ~dirty' /\ GoneSwept => GoneSwept'
    BY <2>1, <2>3 DEF GoneSwept
  <2>5. ~dirty' /\ ListedSwept => ListedSwept'
    BY <2>1, <2>3 DEF ListedSwept, local
  <2> QED BY <2>1, <2>2, <2>4, <2>5 DEF local, Swept
<1> QED BY <1>2, <1>3, <1>4 DEF Sync

\* The deletes: of a worker Job whose node is not listed, what is not in the cache only
\* is seen to go.
LEMMA SweptDeletes ==
    ASSUME StateTypeOK, CacheSeen, NoErrors, Swept, Events, DeleteWorkerJobsOnNotExistNode
    PROVE  Swept'
<1>1. cache' = cache /\ dirty' = dirty /\ pc = "deleteWorkers" /\ pc' = "applySA"
  BY DEF DeleteWorkerJobsOnNotExistNode
<1>2. work \in [Nodes -> R!Workers \union {None}]
  BY DEF StateTypeOK, ClusterTypeOK
<1>3. ASSUME NEW n \in Nodes \ rnodes, cache.work[n] # None
      PROVE  "job" \in unseen'
  <2>1. CASE work[n] = None
    BY <1>3, <2>1, EventsTell DEF CacheSeen
  <2>2. CASE work[n] # None
    <3>1. PICK gone, exist :
             /\ gone = {i \in Nodes \ rnodes : cache.work[i] # None}
             /\ exist = {i \in gone : work[i] # None}
      OBVIOUS
    <3>2. \/ gone = exist /\ work' = [i \in Nodes |-> IF i \in gone THEN None ELSE work[i]]
          \/ gone # exist
      BY <3>1 DEF DeleteWorkerJobsOnNotExistNode, Spend, NoErrors
    <3>3. CASE gone = exist
      BY <1>3, <2>2, <3>1, <3>2, <3>3, EventsTell
    <3>4. CASE gone # exist
      <4>1. PICK i \in Nodes : cache.work[i] # None /\ work[i] = None
        BY <3>1, <3>4
      <4> QED BY <4>1, EventsTell DEF CacheSeen
    <3> QED BY <3>3, <3>4
  <2> QED BY <2>1, <2>2
<1>4. ASSUME ~dirty, NEW n \in Nodes \ cache.nodes, cache.work[n] # None
      PROVE  "job" \in unseen'
  <2>1. CASE n \in rnodes
    BY <1>1, <1>4, <2>1, EventsTell DEF Swept, ListedSwept
  <2>2. CASE n \notin rnodes
    BY <1>3, <1>4, <2>2
  <2> QED BY <2>1, <2>2
<1> QED BY <1>1, <1>4 DEF Swept, GoneSwept

\* The other calls.
LEMMA SweptOther ==
    ASSUME Swept, Applied, StateTypeOK, Events,
           \/ AddFinalizer \/ OnDelete \/ RemoveFinalizer \/ ListNodes
           \/ ApplyServiceAccount \/ ApplyClusterRoleBinding \/ ApplyJob
           \/ CheckResources \/ UpdateStatus \/ UpdateStatusOfWorkers \/ ApiError
    PROVE  Swept'
<1>1. cache' = cache /\ unseen \subseteq unseen'
  BY DEF AddFinalizer, OnDelete, RemoveFinalizer, ListNodes, ApplyServiceAccount,
     ApplyClusterRoleBinding, ApplyJob, CheckResources, UpdateStatus, UpdateStatusOfWorkers,
     ApiError, Events
<1>2. CASE AddFinalizer \/ OnDelete \/ ApiError
  <2>1. dirty' \/ pc' \in {"listNodes", "removeFinalizer"}
    BY <1>2 DEF AddFinalizer, OnDelete, ApiError, Written, Goto, Fail, Requeue
  <2> QED BY <2>1 DEF Swept, Applying
<1>3. CASE RemoveFinalizer
  <2>1. dirty' \/ (dirty' = dirty /\ pc' = "idle" /\ pc = "removeFinalizer")
    BY <1>3 DEF RemoveFinalizer, Written, Done, End, Fail, Requeue
  <2> QED BY <1>1, <2>1 DEF Swept, Applied, Finalizing, Applying
<1>4. CASE ListNodes
  <2>1. pc' = "deleteWorkers" /\ rnodes' = cache.nodes
    BY <1>4 DEF ListNodes
  <2> QED BY <1>1, <2>1 DEF Swept, ListedSwept, Applying
<1>5. CASE \/ ApplyServiceAccount \/ ApplyClusterRoleBinding \/ ApplyJob
           \/ CheckResources \/ UpdateStatus \/ UpdateStatusOfWorkers
  <2>1. \/ dirty'
        \/ /\ dirty' = dirty /\ pc \in Applying \ {"listNodes", "deleteWorkers"}
           /\ pc' # "deleteWorkers"
    BY <1>5 DEF ApplyServiceAccount, ApplyClusterRoleBinding, ApplyJob, CheckResources,
       UpdateStatus, UpdateStatusOfWorkers, WriteStatus, Written, Goto, Done, End, Fail,
       Requeue, Applying
  <2> QED BY <1>1, <2>1 DEF Swept, GoneSwept
<1> QED BY <1>2, <1>3, <1>4, <1>5

\* Every step keeps it, as long as none of the deletes fails.
LEMMA SweptStep ==
    ASSUME StateTypeOK, CacheSeen, Applied, NoErrors, Swept, [Next]_vars
    PROVE  Swept'
<1>1. CASE ClusterNext /\ UNCHANGED local /\ Events
  <2>1. dirty' = dirty
    BY <1>1 DEF ClusterNext, CreateDaemonJob, DeleteDaemonJob, DeleteJob,
       DeleteClusterRoleBinding, NodeChanges, RunStep, RunDies, WorkerEnds, Collect
  <2> QED BY <1>1, <2>1, CacheKept, EventsTell, SweptFrame DEF local
<1>2. CASE Sync /\ UNCHANGED local
  BY <1>2, SweptSync
<1>3. CASE Reconcile
  <2>1. cache' = cache /\ pc' \notin Applying \ {"listNodes"}
    BY <1>3 DEF Reconcile, FirstCall, local, Applying
  <2>2. pc' = "idle" => cache.dj = None \/ cache.dj.deleting
    BY <1>3, CacheFields DEF Reconcile, FirstCall, StateTypeOK, ClusterTypeOK, DaemonJobs, local
  <2> QED BY <2>1, <2>2 DEF Swept, Applying
<1>4. CASE (Controller \/ ApiError) /\ Events /\ ~Reconcile
  BY <1>4, SweptDeletes, SweptOther DEF Controller
<1>5. CASE Restart
  <2>1. dirty' \/ (cache'.dj = None /\ pc' = "idle")
    BY <1>5 DEF Restart, ApiView, End
  <2> QED BY <2>1 DEF Swept, Applying
<1>6. CASE UNCHANGED vars
  BY <1>6, SweptFrame DEF vars
<1> QED BY <1>1, <1>2, <1>3, <1>4, <1>5, <1>6 DEF Next

\* Unless a delete fails, which Reconcile only logs, no worker Job is left at rest on a
\* node that is gone, whichever informer was behind and whatever else went wrong.
THEOREM OrphansSwept ==
    ASSUME Budget["apiError"] = 0
    PROVE  Spec => []OrphansAtRest
<1>1. Init => Applied /\ NoErrors /\ Swept
  BY DEF Init, ClusterInit, ApiView, Applied, NoErrors, Swept, Applying, Finalizing
<1>2. TypeOK => cache \in Caches /\ StateTypeOK
  BY DEF TypeOK, StateTypeOK, ClusterTypeOK
<1>3. CacheSeen /\ Swept => OrphansAtRest
  <2> SUFFICES ASSUME CacheSeen, Swept, Settled, Wanted
               PROVE  \A n \in Nodes \ nodes : work[n] = None
      BY DEF OrphansAtRest
  <2>1. cache.dj = dj /\ cache.nodes = nodes /\ cache.work = work
    BY DEF Settled, CacheSeen
  <2> QED BY <2>1 DEF Settled, Wanted, Swept, GoneSwept
<1>4. StateTypeOK /\ CacheSeen /\ Applied /\ NoErrors /\ Swept /\ [Next]_vars => NoErrors' /\ Swept'
  BY NoErrorsStep, SweptStep
<1>5. TypeOK /\ TypeOK' /\ CacheSeen /\ Applied /\ [Next]_vars => Applied'
  BY AppliedStep
<1> QED BY <1>1, <1>2, <1>3, <1>4, <1>5, CacheSeenInit, CacheSeenStep, TypeCorrect, PTL DEF Spec
-----------------------------------------------------------------------------
(* What Complete says of the worker Jobs *)

\* The run j has created its worker Jobs, and the cache knows those that are there, if
\* not how they end.
Covered(j) ==
    /\ bc[j].pc = "complete"
    /\ \A n \in Nodes :
          work[n] # None /\ work[n].job = j =>
              /\ cache.work[n] # None
              /\ cache.work[n].st = "complete" => work[n].st = "complete"

\* A broadcast Job that is complete in the cache, and one that was when the workers are
\* about to be listed, is such a run; its Job's id is not used again.
Informed ==
    /\ \A j \in Jobs : runOf[j] = None => bc[j].pc = "unused"
    /\ cache.job # None /\ cache.job.st = "complete" => Covered(cache.job.id)
    /\ pc = "list" => \E j \in Jobs : Covered(j)
    /\ pc \in {"getJob", "list"} /\ C!Is(rconds, "Complete") => C!Is(rdj.conds, "Complete")

\* A step leaves the runs that are complete alone.
LEMMA CoveredFrame ==
    ASSUME NEW j \in Jobs, Covered(j), bc'[j] = bc[j], cache'.work = cache.work,
           \A n \in Nodes : work'[n] = work[n] \/ work'[n] = None
    PROVE  Covered(j)'
BY DEF Covered

\* So do other runs, and the end of worker Jobs.
LEMMA CoveredWorkload ==
    ASSUME ClusterTypeOK, NEW j \in Jobs, Covered(j),
           RunStep \/ RunDies \/ WorkerEnds \/ Collect
    PROVE  Covered(j)'
<1>0. /\ bc \in [Jobs -> R!Runs] /\ work \in [Nodes -> R!Workers \union {None}]
      /\ cache' = cache
  BY DEF ClusterTypeOK, RunStep, RunDies, WorkerEnds, Collect
<1>1. CASE RunStep
  <2>1. PICK i \in Jobs : R!Step(i)
    BY <1>1 DEF RunStep
  <2>2. i # j
    BY <2>1 DEF Covered, R!Step, R!ReadOwner, R!ListNodes, R!DryRun, R!Refused, R!CreateWorker,
                R!Active
  <2>3. bc'[j] = bc[j]
    BY <1>0, <2>1, <2>2 DEF R!Step, R!ReadOwner, R!ListNodes, R!DryRun, R!Refused,
                            R!CreateWorker, R!Goto
  <2>4. CASE work' = work
    BY <1>0, <2>3, <2>4, CoveredFrame
  <2>5. ASSUME NEW m \in Nodes, R!CreateWorker(i, m) PROVE Covered(j)'
    <3>1. work' = [work EXCEPT ![m] = [job |-> i, st |-> "progressing"]]
      BY <2>5 DEF R!CreateWorker, WorkerName
    <3>2. work'[m].job = i /\ \A n \in Nodes \ {m} : work'[n] = work[n]
      BY <1>0, <3>1
    <3> QED BY <1>0, <2>2, <2>3, <3>2 DEF Covered
  <2> QED BY <2>1, <2>4, <2>5 DEF R!Step, R!ReadOwner, R!ListNodes, R!DryRun, R!Refused
<1>2. CASE RunDies
  <2>1. PICK i \in Jobs : R!Crash(i)
    BY <1>2 DEF RunDies
  <2>2. i # j
    BY <2>1 DEF Covered, R!Crash, R!Active
  <2>3. bc'[j] = bc[j] /\ work' = work
    BY <1>0, <2>1, <2>2 DEF R!Crash, R!Goto
  <2> QED BY <1>0, <2>3, CoveredFrame
<1>3. CASE WorkerEnds
  <2>1. PICK m \in Nodes : R!WorkerEnds(m)
    BY <1>3 DEF WorkerEnds
  <2>2. /\ work[m] \in R!Workers /\ work[m].st = "progressing"
        /\ \E st \in {"complete", "failed"} : work' = [work EXCEPT ![m] = [work[m] EXCEPT !.st = st]]
    BY <1>0, <2>1 DEF R!WorkerEnds
  <2>3. /\ work[m] # None /\ work'[m].job = work[m].job
        /\ \A n \in Nodes \ {m} : work'[n] = work[n]
    BY <1>0, <2>2, NoneAssumption DEF R!Workers
  <2>4. bc' = bc
    BY <1>3 DEF WorkerEnds
  <2> QED BY <1>0, <2>2, <2>3, <2>4 DEF Covered
<1>4. CASE Collect
  <2>1. bc' = bc /\ \A n \in Nodes : work'[n] = work[n] \/ work'[n] = None
    BY <1>0, <1>4 DEF Collect
  <2> QED BY <1>0, <2>1, CoveredFrame
<1> QED BY <1>1, <1>2, <1>3, <1>4

\* So does the controller, which starts runs that have not been used and deletes
\* worker Jobs.
LEMMA CoveredController ==
    ASSUME StateTypeOK, Informed, NEW j \in Jobs, Covered(j), Controller \/ ApiError
    PROVE  Covered(j)'
<1>0. cache' = cache /\ bc \in [Jobs -> R!Runs] /\ runOf \in [Jobs -> Uids \union {None}]
  BY CacheKept DEF StateTypeOK, ClusterTypeOK
<1>1. CASE ApplyJob
  <2>1. work' = work
    BY <1>1 DEF ApplyJob
  <2>2. runOf[j] # None
    BY DEF Informed, Covered
  <2>3. \/ bc' = bc
        \/ \E i \in Jobs : runOf[i] = None /\ bc' = [bc EXCEPT ![i].pc = "read"]
    BY <1>1 DEF ApplyJob
  <2>4. bc'[j] = bc[j]
    BY <1>0, <2>2, <2>3
  <2> QED BY <1>0, <2>1, <2>4, CoveredFrame
<1>2. CASE DeleteWorkerJobsOnNotExistNode
  <2>1. bc' = bc
    BY <1>2 DEF DeleteWorkerJobsOnNotExistNode
  <2>2. \E D : work' = [n \in Nodes |-> IF n \in D THEN None ELSE work[n]]
    BY <1>2 DEF DeleteWorkerJobsOnNotExistNode
  <2> QED BY <1>0, <2>1, <2>2, CoveredFrame
<1>3. CASE ~ApplyJob /\ ~DeleteWorkerJobsOnNotExistNode
  <2>1. bc' = bc /\ work' = work
    BY <1>3 DEF Controller, Reconcile, AddFinalizer, OnDelete, RemoveFinalizer,
       ListNodes, ApplyServiceAccount, ApplyClusterRoleBinding, CheckResources, UpdateStatus,
       UpdateStatusOfWorkers, ApiError
  <2> QED BY <1>0, <2>1, CoveredFrame
<1> QED BY <1>1, <1>2, <1>3

\* And what users do.
LEMMA CoveredUser ==
    ASSUME NEW j \in Jobs, Covered(j),
           \/ CreateDaemonJob \/ DeleteDaemonJob \/ DeleteJob \/ DeleteClusterRoleBinding
           \/ NodeChanges
    PROVE  Covered(j)'
<1>1. bc' = bc /\ work' = work /\ cache' = cache
  BY DEF CreateDaemonJob, DeleteDaemonJob, DeleteJob, DeleteClusterRoleBinding, NodeChanges
<1> QED BY <1>1, CoveredFrame

\* A cache that has just been listed covers every run that is complete.
LEMMA CoveredListed ==
    ASSUME cache'.work = work, work' = work, bc' = bc
    PROVE  \A j \in Jobs : bc[j].pc = "complete" => Covered(j)'
BY DEF Covered

\* Every step keeps what runs are complete and known.
LEMMA CoveredStep ==
    ASSUME TypeOK, Informed, [Next]_vars, NEW j \in Jobs, Covered(j)
    PROVE  Covered(j)'
<1> USE DEF TypeOK, StateTypeOK
<1>1. CASE ClusterNext
  BY <1>1, CoveredUser, CoveredWorkload DEF ClusterNext
<1>2. CASE Sync
  <2>1. bc' = bc /\ work' = work /\ (cache'.work = cache.work \/ cache'.work = work)
    BY <1>2 DEF Sync, SyncDaemonJob, SyncServiceAccount, SyncClusterRoleBinding, SyncJobs,
                SyncNodes, ClusterTypeOK, Caches
  <2> QED BY <2>1, CoveredFrame, CoveredListed DEF Covered
<1>3. CASE Controller \/ ApiError
  BY <1>3, CoveredController
<1>4. CASE Restart
  <2>1. bc' = bc /\ work' = work /\ cache'.work = work
    BY <1>4 DEF Restart, ApiView
  <2> QED BY <2>1, CoveredListed DEF Covered
<1>5. CASE UNCHANGED vars
  BY <1>5, CoveredFrame DEF vars
<1> QED BY <1>1, <1>2, <1>3, <1>4, <1>5 DEF Next

\* A run is used only with a broadcast Job of its own.
LEMMA UnusedStep ==
    ASSUME TypeOK, Informed, [Next]_vars, NEW j \in Jobs, runOf'[j] = None
    PROVE  bc'[j].pc = "unused"
<1>0. /\ bc \in [Jobs -> R!Runs] /\ runOf \in [Jobs -> Uids \union {None}]
      /\ runOf[j] = None => bc[j].pc = "unused"
  BY DEF TypeOK, StateTypeOK, ClusterTypeOK, Informed
<1>1. CASE ApplyJob
  <2>1. CASE runOf' = runOf /\ bc' = bc
    BY <1>0, <2>1
  <2>2. ASSUME NEW i \in Jobs, runOf' = [runOf EXCEPT ![i] = rdj.uid],
               bc' = [bc EXCEPT ![i].pc = "read"]
        PROVE  bc'[j].pc = "unused"
    <3>1. rdj.uid # None
      BY <1>1, NoneAssumption DEF ApplyJob, TypeOK, StateTypeOK, DaemonJobs
    <3>2. i # j
      BY <1>0, <2>2, <3>1
    <3> QED BY <1>0, <2>2, <3>2
  <2> QED BY <1>1, <2>1, <2>2 DEF ApplyJob
<1>2. CASE RunStep \/ RunDies
  <2>1. PICK i \in Jobs : R!Step(i) \/ R!Crash(i)
    BY <1>2 DEF RunStep, RunDies
  <2>2. runOf' = runOf
    BY <1>2 DEF RunStep, RunDies
  <2>3. bc[i].pc \in R!Active
    BY <2>1 DEF R!Step, R!Crash, R!ReadOwner, R!ListNodes, R!DryRun, R!Refused, R!CreateWorker,
                R!Active
  <2>4. i # j
    BY <1>0, <2>2, <2>3 DEF R!Active
  <2>5. bc'[j] = bc[j]
    BY <1>0, <2>1, <2>4 DEF R!Step, R!Crash, R!ReadOwner, R!ListNodes, R!DryRun, R!Refused,
                            R!CreateWorker, R!Goto
  <2> QED BY <1>0, <2>2, <2>5
<1>3. CASE ~ApplyJob /\ ~RunStep /\ ~RunDies
  <2>1. bc' = bc /\ runOf' = runOf
    BY <1>3 DEF Next, ClusterNext, CreateDaemonJob, DeleteDaemonJob, DeleteJob,
       DeleteClusterRoleBinding, NodeChanges, WorkerEnds, Collect, Sync, Controller, Reconcile,
       AddFinalizer, OnDelete, RemoveFinalizer, ListNodes, DeleteWorkerJobsOnNotExistNode,
       ApplyServiceAccount, ApplyClusterRoleBinding, CheckResources, UpdateStatus,
       UpdateStatusOfWorkers, ApiError, Restart, vars
  <2> QED BY <1>0, <2>1
<1> QED BY <1>1, <1>2, <1>3

\* The cache says complete of what is complete.
LEMMA CachedStep ==
    ASSUME TypeOK, Informed, [Next]_vars, cache'.job # None, cache'.job.st = "complete"
    PROVE  Covered(cache.job.id)'
<1>0. cache \in Caches /\ ClusterTypeOK
  BY DEF TypeOK, StateTypeOK, ClusterTypeOK
<1>1. CASE cache'.job = cache.job
  <2>1. PICK j \in Jobs : j = cache.job.id
    BY <1>0, <1>1 DEF Caches, JobViews
  <2>2. Covered(j)
    BY <1>1, <2>1 DEF Informed
  <2>3. Covered(j)'
    BY <2>2, CoveredStep
  <2> QED BY <1>1, <2>1, <2>3 DEF Covered
<1>2. CASE cache'.job = JobView /\ cache'.work = work /\ work' = work /\ bc' = bc
  <2>1. job # None /\ JobView = [id |-> job.id, owner |-> job.owner, st |-> R!JobOutcome(job.id)]
    BY <1>2 DEF JobView
  <2>2. PICK j \in Jobs : j = job.id
    BY <1>0, <2>1 DEF ClusterTypeOK, BroadcastJobs
  <2>3. bc[j].pc = "complete"
    BY <1>2, <2>1, <2>2 DEF R!JobOutcome
  <2>4. Covered(j)'
    BY <1>2, <2>3, CoveredListed
  <2>5. cache'.job.id = j
    BY <1>2, <2>1, <2>2
  <2> QED BY <2>4, <2>5 DEF Covered
<1>3. CASE Sync
  BY <1>0, <1>1, <1>2, <1>3 DEF Sync, SyncDaemonJob, SyncServiceAccount, SyncClusterRoleBinding,
     SyncJobs, SyncNodes, Caches
<1>4. CASE Restart
  BY <1>2, <1>4 DEF Restart, ApiView
<1>5. CASE ClusterNext \/ Controller \/ ApiError \/ UNCHANGED vars
  BY <1>1, <1>5, CacheKept DEF vars
<1> QED BY <1>3, <1>4, <1>5 DEF Next

\* The workers are listed after a look at a broadcast Job that was complete.
LEMMA ListingStep ==
    ASSUME TypeOK, Informed, [Next]_vars, pc' = "list"
    PROVE  \E j \in Jobs : Covered(j)'
<1>0. cache \in Caches
  BY DEF TypeOK, StateTypeOK, ClusterTypeOK
<1>1. CASE UpdateStatus
  <2>1. cache.job # None /\ cache.job.st = "complete"
    BY <1>1 DEF UpdateStatus, WriteStatus, Written, Done, End, Fail, Requeue
  <2>2. PICK j \in Jobs : j = cache.job.id
    BY <1>0, <2>1 DEF Caches, JobViews
  <2> QED BY <2>1, <2>2, CoveredStep DEF Informed
<1>2. CASE UNCHANGED local
  BY <1>2, CoveredStep DEF Informed, local
<1>3. UpdateStatus \/ UNCHANGED local
  BY DEF Next, Controller, Reconcile, FirstCall, AddFinalizer, OnDelete, RemoveFinalizer,
     ListNodes, DeleteWorkerJobsOnNotExistNode, ApplyServiceAccount, ApplyClusterRoleBinding,
     ApplyJob, CheckResources, UpdateStatusOfWorkers, WriteStatus, ApiError, Restart, Written,
     Goto, Done, End, Fail, Requeue, vars, local
<1> QED BY <1>1, <1>2, <1>3

\* The checks of what must exist never make a DaemonJob Complete.
LEMMA CheckedStep ==
    ASSUME TypeOK, Informed, [Next]_vars, pc' \in {"getJob", "list"},
           C!Is(rconds', "Complete")
    PROVE  C!Is(rdj'.conds, "Complete")
<1>1. CASE CheckResources
  <2>1. rconds' = CheckedConditions /\ rdj' = rdj
    BY <1>1 DEF CheckResources, WriteStatus, Written, Done, End, Fail, Requeue
  <2>2. rdj.conds \in C!ConditionLists
    BY <1>1 DEF CheckResources, TypeOK, StateTypeOK, DaemonJobs
  <2>3. C!Is(CheckedConditions, "Complete") => C!Is(rdj.conds, "Complete")
    BY <2>2 DEF CheckedConditions, NotFound, C!Is, C!SetNotFound, C!SetPair, C!Condition,
       C!ConditionStatus, C!ConditionLists, C!ConditionTypes
  <2> QED BY <2>1, <2>3
<1>2. CASE UpdateStatus
  BY <1>2 DEF UpdateStatus, WriteStatus, Written, Goto, Done, End, Fail, Requeue, Informed
<1>3. CASE UNCHANGED local
  BY <1>3 DEF Informed, local
<1>4. CheckResources \/ UpdateStatus \/ UNCHANGED local
  BY DEF Next, Controller, Reconcile, FirstCall, AddFinalizer, OnDelete, RemoveFinalizer,
     ListNodes, DeleteWorkerJobsOnNotExistNode, ApplyServiceAccount, ApplyClusterRoleBinding,
     ApplyJob, UpdateStatusOfWorkers, WriteStatus, ApiError, Restart, Written, Goto, Done, End,
     Fail, Requeue, vars, local
<1> QED BY <1>1, <1>2, <1>3, <1>4

\* Every step keeps it.
LEMMA InformedStep == TypeOK /\ Informed /\ [Next]_vars => Informed'
<1> SUFFICES ASSUME TypeOK, Informed, [Next]_vars PROVE Informed'
    OBVIOUS
<1>1. \A j \in Jobs : runOf'[j] = None => bc'[j].pc = "unused"
  BY UnusedStep
<1>2. cache'.job # None /\ cache'.job.st = "complete" => Covered(cache.job.id)'
  BY CachedStep
<1>3. pc' = "list" => \E j \in Jobs : Covered(j)'
  BY ListingStep
<1>4. pc' \in {"getJob", "list"} /\ C!Is(rconds', "Complete") => C!Is(rdj'.conds, "Complete")
  BY CheckedStep
<1> QED BY <1>1, <1>2, <1>3, <1>4 DEF Informed, C!Is

\* What turns the state to Complete: the workers in the cache are all complete.
LEMMA TurnsComplete ==
    ASSUME TypeOK, Informed, [Next]_vars, dj # None, dj' # None,
           C!State(dj.conds) # "Complete", C!State(dj'.conds) = "Complete"
    PROVE  /\ pc = "list"
           /\ \A n \in Nodes : cache.work[n] # None => cache.work[n].st = "complete"
<1>1. dj \in DaemonJobs /\ dj.conds \in C!ConditionLists
  BY DEF TypeOK, StateTypeOK, ClusterTypeOK, DaemonJobs
<1>2. ~C!Is(dj.conds, "Complete")
  BY <1>1 DEF C!State
<1>3. \A c : C!State(c) = "Complete" => C!Is(c, "Complete")
  BY DEF C!State
<1>4. ASSUME NEW checked, NEW conds, WriteStatus(checked, conds), rdj \in DaemonJobs
      PROVE  dj = rdj /\ C!Is(conds, "Complete")
  <2>1. dj = rdj /\ \E t : dj' = [rdj EXCEPT !.conds = conds, !.since = t]
    BY <1>4 DEF WriteStatus
  <2>2. dj'.conds = conds
    BY <1>4, <2>1 DEF DaemonJobs
  <2> QED BY <1>3, <2>1, <2>2
<1>5. \A m : \A c \in C!ConditionLists : ~C!Is(C!SetPair(c, FALSE, m), "Complete")
  BY DEF C!Is, C!SetPair, C!Condition, C!ConditionStatus, C!ConditionLists, C!ConditionTypes
<1>6. \A m : \A c \in C!ConditionLists :
         C!Is(C!SetProgressing(c, m), "Complete") => C!Is(c, "Complete")
  BY DEF C!Is, C!SetProgressing, C!ConditionLists, C!ConditionTypes
<1>7. dj' # dj
  OBVIOUS
<1>8. CASE CheckResources
  <2>1. rdj \in DaemonJobs /\ rdj.conds \in C!ConditionLists
    BY <1>8 DEF CheckResources, TypeOK, StateTypeOK, DaemonJobs
  <2>2. CheckedConditions \in C!ConditionLists
    BY <2>1, CheckedTypes
  <2>3. WriteStatus(CheckedConditions, NotFound(CheckedConditions))
    BY <1>8, <1>7 DEF CheckResources
  <2>4. ~C!Is(NotFound(CheckedConditions), "Complete")
    BY <1>5, <2>2 DEF NotFound, C!SetNotFound
  <2> QED BY <1>4, <2>1, <2>3, <2>4
<1>9. CASE UpdateStatus
  <2>1. rdj \in DaemonJobs /\ rconds \in C!ConditionLists /\ pc = "getJob"
    BY <1>9 DEF UpdateStatus, TypeOK, StateTypeOK
  <2>2. \/ WriteStatus(rconds, C!SetProgressing(rconds, Say("Broadcast is running")))
        \/ WriteStatus(rconds, C!SetPair(rconds, FALSE, Say("Broadcast failed")))
    BY <1>9, <1>7 DEF UpdateStatus
  <2>3. dj = rdj /\ C!Is(rconds, "Complete")
    BY <1>4, <1>5, <1>6, <2>1, <2>2
  <2> QED BY <1>2, <2>1, <2>3 DEF Informed
<1>10. CASE UpdateStatusOfWorkers
  <2>1. rdj \in DaemonJobs /\ rconds \in C!ConditionLists /\ pc = "list"
    BY <1>10 DEF UpdateStatusOfWorkers, TypeOK, StateTypeOK
  <2>2. PICK conds \in WorkersConditions : WriteStatus(rconds, conds)
    BY <1>10 DEF UpdateStatusOfWorkers
  <2>3. dj = rdj /\ C!Is(conds, "Complete")
    BY <1>4, <2>1, <2>2
  <2>4. ~C!Is(rconds, "Complete")
    BY <1>2, <2>1, <2>3 DEF Informed
  <2>5. \/ \E m : conds = C!SetProgressing(rconds, m)
        \/ \E m : conds = C!SetPair(rconds, FALSE, m)
        \/ Listed("failed") = {} /\ Listed("progressing") = {}
    BY <2>2, Zenon DEF WorkersConditions
  <2>6. Listed("failed") = {} /\ Listed("progressing") = {}
    <3>1. ASSUME NEW m PROVE conds # C!SetProgressing(rconds, m)
      BY <1>6, <2>1, <2>3, <2>4
    <3>2. ASSUME NEW m PROVE conds # C!SetPair(rconds, FALSE, m)
      <4>1. ~C!Is(C!SetPair(rconds, FALSE, m), "Complete")
        BY <1>5, <2>1
      <4> QED BY <2>3, <4>1
    <3> QED BY <2>5, <3>1, <3>2
  <2>7. \A n \in Nodes : cache.work[n] # None =>
           cache.work[n].st \in {"complete", "progressing", "failed"}
    BY CacheFields DEF TypeOK, StateTypeOK, ClusterTypeOK, R!Workers, R!JobStatusTypes
  <2> QED BY <2>1, <2>6, <2>7 DEF Listed
<1>11. CASE AddFinalizer \/ DeleteDaemonJob
  <2>1. dj'.conds = dj.conds
    BY <1>1, <1>11 DEF AddFinalizer, DeleteDaemonJob, DaemonJobs
  <2> QED BY <2>1
<1>12. CASE /\ ~CheckResources /\ ~UpdateStatus /\ ~UpdateStatusOfWorkers
           /\ ~AddFinalizer /\ ~DeleteDaemonJob
  <2>1. dj' = dj \/ dj' = None \/ dj = None
    BY <1>12 DEF Next, ClusterNext, CreateDaemonJob, DeleteJob, DeleteClusterRoleBinding,
       NodeChanges, RunStep, RunDies, WorkerEnds, Collect, Sync, Controller, Reconcile, OnDelete,
       RemoveFinalizer, ListNodes, DeleteWorkerJobsOnNotExistNode, ApplyServiceAccount,
       ApplyClusterRoleBinding, ApplyJob, ApiError, Restart, vars
  <2> QED BY <2>1
<1> QED BY <1>8, <1>9, <1>10, <1>11, <1>12

\* However old what the controller has seen is: when it reports Complete, a broadcast
\* has created all its worker Jobs and none of them runs or has failed.
THEOREM CompleteTrue == Spec => CompleteIsTrue
<1>1. Init => Informed
  BY DEF Init, ClusterInit, ApiView, JobView, R!Unused, Informed
<1>2. ASSUME TypeOK, Informed, [Next]_vars, dj # None, dj' # None,
             C!State(dj.conds) # "Complete", C!State(dj'.conds) = "Complete"
      PROVE  \E j \in Jobs :
                /\ bc[j].pc = "complete"
                /\ \A n \in Nodes : work[n] # None /\ work[n].job = j
                                    => work[n].st = "complete"
  <2>1. PICK j \in Jobs : Covered(j)
    BY <1>2, TurnsComplete DEF Informed
  <2> QED BY <1>2, <2>1, TurnsComplete DEF Covered
<1>3. TypeOK /\ Informed /\ [Next]_vars
        => [dj # None /\ dj' # None /\ C!State(dj.conds) # "Complete"
            /\ C!State(dj'.conds) = "Complete"
               => \E j \in Jobs :
                     /\ bc[j].pc = "complete"
                     /\ \A n \in Nodes : work[n] # None /\ work[n].job = j
                                         => work[n].st = "complete"]_vars
  BY <1>2
<1> QED BY <1>1, <1>3, InformedStep, TypeCorrect, PTL DEF Spec, CompleteIsTrue
-----------------------------------------------------------------------------
(* One broadcast Job per incarnation: counting *)

\* The broadcast Jobs of an incarnation are finitely many.
LEMMA RunsOfFinite ==
    ASSUME NEW u PROVE IsFiniteSet(RunsOf(u)) /\ Cardinality(RunsOf(u)) \in Nat
<1>1. IsFiniteSet(Jobs)
  BY FS_Interval DEF Jobs
<1>2. RunsOf(u) \in SUBSET Jobs
  BY DEF RunsOf
<1>3. IsFiniteSet(RunsOf(u))
  BY <1>1, <1>2, FS_Subset
<1> QED BY <1>3, FS_CardinalityType

\* What users may delete is a number, and what they have deleted an integer.
LEMMA BudgetType ==
    ASSUME StateTypeOK
    PROVE  /\ "deleteJob" \in Disruptions /\ left \in [Disruptions -> Nat]
           /\ left["deleteJob"] \in Nat /\ Budget["deleteJob"] \in Nat
           /\ DeletedByUser \in Int
BY DEF StateTypeOK, ClusterTypeOK, Disruptions, DeletedByUser

\* A disruption of another kind does not count.
LEMMA SpendOther ==
    ASSUME StateTypeOK, NEW k \in Disruptions \ {"deleteJob"}, Spend(k)
    PROVE  left'["deleteJob"] = left["deleteJob"]
BY BudgetType DEF Spend

\* A broadcast Job created for the incarnation u is one more for u and for no other.
LEMMA CreateCounts ==
    ASSUME StateTypeOK, NEW j \in Jobs, NEW u \in Uids, runOf[j] = None,
           runOf' = [runOf EXCEPT ![j] = u]
    PROVE  /\ Cardinality(RunsOf(u)') = Cardinality(RunsOf(u)) + 1
           /\ \A v \in Uids \ {u} : RunsOf(v)' = RunsOf(v)
<1>1. runOf \in [Jobs -> Uids \union {None}]
  BY DEF StateTypeOK, ClusterTypeOK
<1>2. RunsOf(u)' = RunsOf(u) \union {j} /\ j \notin RunsOf(u)
  BY <1>1 DEF RunsOf
<1>3. Cardinality(RunsOf(u)') = Cardinality(RunsOf(u)) + 1
  BY <1>2, RunsOfFinite, FS_AddElement
<1>4. \A v \in Uids \ {u} : RunsOf(v)' = RunsOf(v)
  BY <1>1 DEF RunsOf
<1> QED BY <1>3, <1>4
-----------------------------------------------------------------------------
(* One broadcast Job per incarnation: the steps *)

\* A step that creates and deletes no broadcast Job, and neither creates an
\* incarnation nor turns one into another.
LEMMA CountedFrame ==
    ASSUME StateTypeOK, BroadcastsCounted,
           runOf' = runOf, job' = job, nextUid' = nextUid,
           left'["deleteJob"] = left["deleteJob"],
           dj' = None \/ (dj # None /\ dj' # None /\ dj'.uid = dj.uid)
    PROVE  BroadcastsCounted'
<1>1. DeletedByUser' = DeletedByUser
  BY DEF DeletedByUser
<1>2. \A u \in Uids : /\ RunsOf(u)' = RunsOf(u)
                      /\ Represented(u)' = Represented(u)
                      /\ Live(u)' => Live(u)
  BY DEF RunsOf, Represented, Live
<1> QED BY <1>1, <1>2 DEF BroadcastsCounted, OneBroadcastPerIncarnation

\* A new incarnation has no broadcast Job, whatever Job there is under its name.
LEMMA CountedCreate ==
    ASSUME StateTypeOK, BroadcastsCounted, CreateDaemonJob
    PROVE  BroadcastsCounted'
<1>1. /\ runOf' = runOf /\ job' = job /\ left' = left
      /\ dj'.uid = nextUid /\ nextUid' = nextUid + 1 /\ nextUid \in Nat
  BY DEF CreateDaemonJob, Uids
<1>2. /\ DeletedByUser' = DeletedByUser
      /\ \A u \in Uids : RunsOf(u)' = RunsOf(u) /\ Represented(u)' = Represented(u)
  BY <1>1 DEF DeletedByUser, RunsOf, Represented
<1>3. job # None => job.id \in Jobs
  BY DEF StateTypeOK, ClusterTypeOK, BroadcastJobs
<1>4. ASSUME NEW u \in Uids, Live(u)'
      PROVE  RunsOf(u) = {} /\ ~Represented(u)
  <2>1. u = nextUid
    BY <1>1, <1>4 DEF Live
  <2>2. RunsOf(u) = {}
    BY <1>1, <2>1 DEF BroadcastsCounted
  <2> QED BY <1>3, <2>2 DEF Represented, RunsOf
<1>5. \A u \in Uids : u >= nextUid' => RunsOf(u)' = {}
  BY <1>1, <1>2 DEF BroadcastsCounted, Uids
<1>6. 0 <= DeletedByUser
  BY BudgetType DEF BroadcastsCounted, DeletedByUser
<1>7. \A u \in Uids : Live(u)' => ~Represented(u)' /\ Cardinality(RunsOf(u)') <= DeletedByUser'
  BY <1>2, <1>4, <1>6, FS_EmptySet
<1> QED BY <1>1, <1>2, <1>5, <1>7 DEF BroadcastsCounted, OneBroadcastPerIncarnation

\* A user who deletes the broadcast Job makes room for one more.
LEMMA CountedDelete ==
    ASSUME StateTypeOK, BroadcastsCounted, DeleteJob
    PROVE  BroadcastsCounted'
<1>1. /\ runOf' = runOf /\ nextUid' = nextUid /\ dj' = dj /\ job' = None
      /\ left'["deleteJob"] = left["deleteJob"] - 1
  BY BudgetType DEF DeleteJob, Spend
<1>2. DeletedByUser' = DeletedByUser + 1
  BY <1>1, BudgetType DEF DeletedByUser
<1>3. \A u \in Uids : RunsOf(u)' = RunsOf(u) /\ ~Represented(u)' /\ Cardinality(RunsOf(u)) \in Nat
  BY <1>1, RunsOfFinite DEF RunsOf, Represented
<1> QED BY <1>1, <1>2, <1>3, BudgetType DEF BroadcastsCounted, OneBroadcastPerIncarnation

\* The garbage collector deletes the broadcast Job of no incarnation that exists.
LEMMA CountedCollect ==
    ASSUME StateTypeOK, BroadcastsCounted, Collect
    PROVE  BroadcastsCounted'
<1>1. runOf' = runOf /\ nextUid' = nextUid /\ dj' = dj /\ left' = left
  BY DEF Collect
<1>2. CASE job' = job
  BY <1>1, <1>2, CountedFrame
<1>3. CASE job # None /\ job.owner \notin LiveUids /\ job' = None
  <2>1. \A u \in Uids : RunsOf(u)' = RunsOf(u) /\ Live(u)' = Live(u) /\ ~Represented(u)'
    BY <1>1, <1>3 DEF RunsOf, Live, Represented
  <2>2. \A u \in Uids : Live(u) => ~Represented(u)
    BY <1>3 DEF BroadcastsCounted, Live, LiveUids
  <2> QED BY <1>1, <2>1, <2>2
      DEF BroadcastsCounted, OneBroadcastPerIncarnation, DeletedByUser
<1> QED BY <1>2, <1>3 DEF Collect

\* applyJob creates a broadcast Job when there is none, for the incarnation that
\* exists (Protected), or gives that incarnation the one there is.
LEMMA CountedApply ==
    ASSUME StateTypeOK, Protection, BroadcastsCounted, ApplyJob
    PROVE  BroadcastsCounted'
<1>0. rdj \in DaemonJobs /\ rdj.uid \in Uids
  BY DEF ApplyJob, StateTypeOK, DaemonJobs
<1>8. PICK w \in Uids : w = rdj.uid
  BY <1>0
<1>1. /\ dj # None /\ dj.uid = w /\ dj.uid < nextUid
      /\ nextUid' = nextUid /\ dj' = dj
  BY <1>8 DEF ApplyJob, Protection, Protected, Applying, Live, CacheIsPast
<1>2. left'["deleteJob"] = left["deleteJob"]
  BY SpendOther DEF ApplyJob, Written, Goto, Fail, Disruptions
<1>3. DeletedByUser' = DeletedByUser
  BY <1>2 DEF DeletedByUser
<1>4. \A u \in Uids : Live(u)' = Live(u) /\ (Live(u) <=> u = w)
  BY <1>1 DEF Live
<1>5. CASE UNCHANGED <<job, runOf, bc>>
  BY <1>1, <1>2, <1>5, CountedFrame
<1>6. ASSUME NEW j \in Jobs, job = None, runOf[j] = None, job' = [id |-> j, owner |-> w],
             runOf' = [runOf EXCEPT ![j] = w]
      PROVE  BroadcastsCounted'
  <2>1. /\ Cardinality(RunsOf(w)') = Cardinality(RunsOf(w)) + 1
        /\ \A v \in Uids \ {w} : RunsOf(v)' = RunsOf(v)
    BY <1>1, <1>6, CreateCounts
  <2>2. job'.owner = w /\ Represented(w)'
    <3>1. job' \in BroadcastJobs /\ job'.id = j /\ job'.owner = w
      BY <1>6 DEF BroadcastJobs
    <3>2. runOf'[j] = w
      BY <1>6 DEF StateTypeOK, ClusterTypeOK
    <3> QED BY <3>1, <3>2 DEF Represented
  <2>3. Cardinality(RunsOf(w)) <= DeletedByUser
    BY <1>1, <1>4, <1>6 DEF BroadcastsCounted, Represented
  <2>4. \A u \in Uids : Cardinality(RunsOf(u)') <= 1 + DeletedByUser'
    BY <1>3, <2>1, <2>3, RunsOfFinite, BudgetType
       DEF BroadcastsCounted, OneBroadcastPerIncarnation
  <2>5. \A u \in Uids : u >= nextUid' => RunsOf(u)' = {}
    BY <1>1, <2>1 DEF BroadcastsCounted, Uids, StateTypeOK, ClusterTypeOK
  <2> QED BY <1>2, <1>4, <2>2, <2>4, <2>5 DEF BroadcastsCounted, OneBroadcastPerIncarnation
<1>7. CASE /\ cache.job # None /\ cache.job = JobView
           /\ job' = [job EXCEPT !.owner = w] /\ UNCHANGED runOf
  <2>1. job \in BroadcastJobs /\ job # None
    BY <1>7 DEF JobView, StateTypeOK, ClusterTypeOK
  <2>2. job'.owner = w /\ job'.id = job.id /\ job' # None
    BY <1>1, <1>7, <2>1 DEF BroadcastJobs
  <2>3. \A u \in Uids : RunsOf(u)' = RunsOf(u) /\ Represented(u)' = Represented(u)
    BY <1>7, <2>1, <2>2 DEF RunsOf, Represented
  <2> QED BY <1>1, <1>2, <1>3, <1>4, <2>2, <2>3
      DEF BroadcastsCounted, OneBroadcastPerIncarnation
<1> QED BY <1>8, <1>5, <1>6, <1>7 DEF ApplyJob, JobNameFree

\* No other step creates or deletes a broadcast Job.
LEMMA CountedOther ==
    ASSUME StateTypeOK, BroadcastsCounted,
           \/ DeleteDaemonJob \/ DeleteClusterRoleBinding \/ NodeChanges
           \/ RunStep \/ RunDies \/ WorkerEnds \/ Sync
           \/ Controller /\ ~ApplyJob
           \/ ApiError \/ Restart \/ UNCHANGED vars
    PROVE  BroadcastsCounted'
<1>1. runOf' = runOf /\ job' = job /\ nextUid' = nextUid
  BY DEF DeleteDaemonJob, DeleteClusterRoleBinding, NodeChanges, RunStep, RunDies, WorkerEnds,
         Sync, Controller, Reconcile, AddFinalizer, OnDelete, RemoveFinalizer,
         ListNodes, DeleteWorkerJobsOnNotExistNode, ApplyServiceAccount, ApplyClusterRoleBinding,
         CheckResources,
         UpdateStatus, UpdateStatusOfWorkers, ApiError, Restart, vars
<1>2. left'["deleteJob"] = left["deleteJob"]
  <2>1. \/ left' = left
        \/ \E k \in Disruptions \ {"deleteJob"} : Spend(k)
    BY DEF DeleteDaemonJob, DeleteClusterRoleBinding, NodeChanges, RunStep, RunDies, WorkerEnds,
           Sync, Controller, Reconcile, AddFinalizer, OnDelete, RemoveFinalizer, ListNodes,
           DeleteWorkerJobsOnNotExistNode, ApplyServiceAccount, ApplyClusterRoleBinding,
           CheckResources, UpdateStatus, UpdateStatusOfWorkers, WriteStatus, ApiError, Restart, vars,
           Written, Goto, Done, Fail, Disruptions
  <2> QED BY <2>1, SpendOther
<1>3. dj' = None \/ (dj # None /\ dj' # None /\ dj'.uid = dj.uid)
  <2>1. dj \in DaemonJobs \union {None} /\ (pc # "idle" => rdj \in DaemonJobs)
    BY DEF StateTypeOK, ClusterTypeOK
  <2>2. CASE DeleteDaemonJob
    BY <2>1, <2>2 DEF DeleteDaemonJob, DaemonJobs
  <2>3. CASE AddFinalizer
    BY <2>1, <2>3 DEF AddFinalizer, DaemonJobs
  <2>4. CASE RemoveFinalizer
    BY <2>1, <2>4 DEF RemoveFinalizer
  <2>5. CASE CheckResources \/ UpdateStatus \/ UpdateStatusOfWorkers
    <3>1. pc # "idle" /\ (dj' = dj \/ \E checked, conds : WriteStatus(checked, conds))
      BY <2>5, StatusWrites DEF CheckResources, UpdateStatus, UpdateStatusOfWorkers
    <3> QED BY <2>1, <3>1 DEF WriteStatus, DaemonJobs
  <2>6. CASE dj' = dj
    BY <2>6
  <2> QED BY <2>2, <2>3, <2>4, <2>5, <2>6
      DEF DeleteClusterRoleBinding, NodeChanges, RunStep, RunDies, WorkerEnds, Sync, Controller,
          Reconcile, OnDelete, ListNodes, DeleteWorkerJobsOnNotExistNode, ApplyServiceAccount,
          ApplyClusterRoleBinding, ApiError, Restart, vars
<1> QED BY <1>1, <1>2, <1>3, CountedFrame

\* Every step keeps the count; that Protected holds is what applyJob needs.
LEMMA CountedStep ==
    ProtectedInv /\ BroadcastsCounted /\ [Next]_vars => BroadcastsCounted'
<1> SUFFICES ASSUME StateTypeOK, Protection, BroadcastsCounted, [Next]_vars
             PROVE  BroadcastsCounted'
    BY DEF ProtectedInv, TypeOK, Protection
<1> QED BY CountedCreate, CountedDelete, CountedCollect, CountedApply, CountedOther
    DEF Next, ClusterNext, Controller

\* Initially no broadcast Job has been created.
LEMMA CountedInit == Init => BroadcastsCounted
<1> SUFFICES ASSUME Init PROVE BroadcastsCounted
    OBVIOUS
<1>1. /\ runOf = [j \in Jobs |-> None] /\ dj = None /\ left = Budget
  BY DEF Init, ClusterInit
<1>2. StateTypeOK
  BY TypeInit DEF TypeOK
<1>3. \A u \in Uids : RunsOf(u) = {}
  BY <1>1 DEF RunsOf
<1>4. \A u \in Uids : Cardinality(RunsOf(u)) = 0
  BY <1>3, FS_EmptySet
<1>5. DeletedByUser = 0 /\ left["deleteJob"] <= Budget["deleteJob"]
  BY <1>1, <1>2, BudgetType DEF DeletedByUser
<1> QED BY <1>1, <1>3, <1>4, <1>5
    DEF BroadcastsCounted, OneBroadcastPerIncarnation, Live

\* In every state the broadcast Jobs of an incarnation are accounted for: the one
\* that is there, and those that users have deleted.
THEOREM BroadcastsAreCounted == Spec => []BroadcastsCounted
<1>1. Init => ProtectedInv /\ BroadcastsCounted
  BY ProtectionInit, CountedInit
<1>2. ProtectedInv /\ BroadcastsCounted /\ [Next]_vars => (ProtectedInv /\ BroadcastsCounted)'
  BY ProtectionStep, CountedStep
<1> QED BY <1>1, <1>2, PTL DEF Spec

\* An incarnation of a DaemonJob gets one broadcast Job, and one more for each
\* that a user deletes, whatever caches, lost replies, failures and restarts do.
THEOREM OneBroadcast == Spec => []OneBroadcastPerIncarnation
<1>1. BroadcastsCounted => OneBroadcastPerIncarnation
  BY DEF BroadcastsCounted
<1> QED BY <1>1, BroadcastsAreCounted, PTL
=============================================================================
