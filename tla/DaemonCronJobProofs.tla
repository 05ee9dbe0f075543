------------------------- MODULE DaemonCronJobProofs -------------------------
(***************************************************************************)
(* Type correctness of the DaemonCronJob controller and its cluster, the   *)
(* finalizer protocol, what is there at rest, and that no deletion is      *)
(* forgotten, for any nodes, policy, labels, bounds and budgets.           *)
(***************************************************************************)
EXTENDS DaemonCronJob, TLAPS

USE BoundsAssumption, NoneAssumption
-----------------------------------------------------------------------------
(* The operators the actions are made of *)

\* Spending keeps the budget a budget.
LEMMA SpendType ==
    ASSUME left \in [Happenings -> Nat], NEW k \in Happenings, Spend(k)
    PROVE  left' \in [Happenings -> Nat]
BY DEF Spend

\* The setters of status.go return condition lists.
LEMMA ConditionTypes ==
    /\ C!NoConditions \in C!ConditionLists
    /\ \A c \in C!ConditionLists :
          /\ NotFound(c) \in C!ConditionLists
          /\ C!SetPair(c, TRUE, "") \in C!ConditionLists
<1>1. ASSUME NEW v \in BOOLEAN, NEW m \in {"", "not found"}
      PROVE  C!Condition(v, m) \in C!ConditionValues
  BY DEF C!Condition, C!ConditionStatus, C!ConditionValues
<1>2. C!NoConditions \in C!ConditionLists
  BY DEF C!NoConditions, C!ConditionLists, C!ConditionValues
<1>3. ASSUME NEW c \in C!ConditionLists, NEW m \in {"", "not found"}, NEW ok \in BOOLEAN
      PROVE  C!SetPair(c, ok, m) \in C!ConditionLists
  BY <1>1 DEF C!ConditionLists, C!SetPair
<1> QED BY <1>2, <1>3 DEF NotFound, C!SetNotFound

\* A freshly listed cache has the type of a cache.
LEMMA ApiViewType == ClusterTypeOK => ApiView \in Caches
BY DEF ClusterTypeOK, ApiView, Caches, Existing

\* Records of the cache, field by field.
LEMMA CacheFields ==
    ASSUME cache \in Caches
    PROVE  /\ cache.dcj \in DaemonCronJobs \union {None}
           /\ cache.sa \in Uids \union {None}
           /\ cache.crb \in BOOLEAN
           /\ cache.cj \in CronJobs \union {None}
           /\ cache.work \in SUBSET WorkerKeys
           /\ cache.nodes \in SUBSET Nodes
BY DEF Caches

\* What the API server's objects and the budget are, apart from the controller.
ObjectTypeOK ==
    /\ nodes \in SUBSET Nodes
    /\ dcj \in DaemonCronJobs \union {None}
    /\ nextUid \in 1..(MaxUid + 1)
    /\ sa \in Uids \union {None}
    /\ crb \in BOOLEAN
    /\ cj \in CronJobs \union {None}
    /\ nextCj \in 1..(MaxCronJobs + 1)
    /\ jobs \in [Ticks -> CronJobIds \union {None}]
    /\ work \in [WorkerKeys -> R!Workers \union {None}]
    /\ bc \in [Ticks -> R!Runs]
    /\ left \in [Happenings -> Nat]
-----------------------------------------------------------------------------
(* The cluster's actions keep the types *)

\* What users and nodes do keeps the types of the objects.
LEMMA UserTypes == ASSUME ObjectTypeOK, User \/ NodeChanges PROVE ObjectTypeOK'
<1>1. left' \in [Happenings -> Nat]
  BY SpendType DEF User, CreateDaemonCronJob, EditDaemonCronJob, DeleteDaemonCronJob,
     DeleteResource, NodeChanges, ObjectTypeOK, Happenings
<1>2. CASE CreateDaemonCronJob
  <2>1. PICK l \in Labelled :
           dcj' = [uid |-> nextUid, deleting |-> FALSE, fin |-> FALSE, labelled |-> l,
                   conds |-> C!NoConditions, since |-> FALSE]
    BY <1>2 DEF CreateDaemonCronJob
  <2>2. nextUid \in Uids /\ l \in BOOLEAN
    BY <1>2 DEF CreateDaemonCronJob
  <2>3. dcj' \in DaemonCronJobs
    BY <2>1, <2>2, ConditionTypes DEF DaemonCronJobs
  <2> QED BY <1>1, <1>2, <2>2, <2>3 DEF CreateDaemonCronJob, ObjectTypeOK, Uids
<1>3. CASE EditDaemonCronJob
  <2>1. PICK l \in Labelled : dcj' = [dcj EXCEPT !.labelled = l]
    BY <1>3 DEF EditDaemonCronJob
  <2>2. dcj \in DaemonCronJobs /\ l \in BOOLEAN
    BY <1>3 DEF EditDaemonCronJob, ObjectTypeOK
  <2>3. dcj' \in DaemonCronJobs
    BY <2>1, <2>2 DEF DaemonCronJobs
  <2> QED BY <1>1, <1>3, <2>3 DEF EditDaemonCronJob, ObjectTypeOK
<1>4. CASE DeleteDaemonCronJob
  <2>1. dcj' \in DaemonCronJobs \union {None}
    BY <1>4 DEF DeleteDaemonCronJob, ObjectTypeOK, DaemonCronJobs
  <2> QED BY <1>1, <1>4, <2>1 DEF DeleteDaemonCronJob, ObjectTypeOK
<1>5. CASE DeleteResource
  BY <1>1, <1>5 DEF DeleteResource, ObjectTypeOK
<1>6. CASE NodeChanges
  BY <1>1, <1>6 DEF NodeChanges, ObjectTypeOK
<1> QED BY <1>2, <1>3, <1>4, <1>5, <1>6 DEF User

\* So do the CronJob controller's ticks, its status and its history limits.
LEMMA CronJobTypes ==
    ASSUME ObjectTypeOK, Tick \/ UpdateActive \/ RetireJob
    PROVE  ObjectTypeOK'
<1>0. cj # None => cj \in CronJobs /\ cj.id \in CronJobIds /\ cj.active \subseteq Ticks
  BY DEF ObjectTypeOK, CronJobs
<1>1. CASE Tick
  <2>0. PICK replaced : replaced = IF ConcurrencyPolicy = "Replace" THEN cj.active ELSE {}
    OBVIOUS
  <2>1. PICK t \in Ticks :
           /\ jobs' = [i \in Ticks |-> IF i = t THEN cj.id
                                       ELSE IF i \in replaced THEN None ELSE jobs[i]]
           /\ bc' = [bc EXCEPT ![t].pc = "read"]
           /\ cj' = [cj EXCEPT !.active = (cj.active \ replaced) \union {t}]
    BY <1>1, <2>0, ZenonT(60) DEF Tick
  <2>2. cj # None /\ left' \in [Happenings -> Nat]
    BY <1>1, SpendType DEF Tick, ObjectTypeOK, Happenings
  <2>3. jobs' \in [Ticks -> CronJobIds \union {None}]
    BY <1>0, <2>1, <2>2 DEF ObjectTypeOK
  <2>4. bc' \in [Ticks -> R!Runs]
    BY <2>1 DEF ObjectTypeOK, R!Runs, R!Active
  <2>5. cj' \in CronJobs
    BY <1>0, <2>1, <2>2 DEF CronJobs
  <2> QED BY <1>1, <2>2, <2>3, <2>4, <2>5 DEF Tick, ObjectTypeOK
<1>2. CASE UpdateActive
  <2>1. cj # None /\ cj' = [cj EXCEPT !.active = {t \in cj.active : t \in LiveJobs /\ Unfinished(t)}]
    BY <1>2 DEF UpdateActive
  <2>2. PICK A \in SUBSET Ticks : cj' = [cj EXCEPT !.active = A]
    BY <1>0, <2>1
  <2>3. cj' \in CronJobs
    BY <1>0, <2>1, <2>2 DEF CronJobs
  <2> QED BY <1>2, <2>3 DEF UpdateActive, ObjectTypeOK
<1>3. CASE RetireJob
  BY <1>3 DEF RetireJob, ObjectTypeOK
<1> QED BY <1>1, <1>2, <1>3

\* So do the broadcast runs and the garbage collector.
LEMMA WorkloadTypes ==
    ASSUME ObjectTypeOK, RunStep \/ RunDies \/ Collect
    PROVE  ObjectTypeOK'
<1>1. CASE RunStep
  <2>1. PICK j \in Ticks : R!Step(j)
    BY <1>1 DEF RunStep
  <2>2. /\ bc \in [Ticks -> R!Runs] /\ work \in [WorkerKeys -> R!Workers \union {None}]
        /\ nodes \subseteq Nodes
    BY DEF ObjectTypeOK
  <2>3. ASSUME R!ReadOwner(j) \/ R!ListNodes(j) \/ R!DryRun(j) \/ R!Refused(j)
        PROVE  bc' \in [Ticks -> R!Runs] /\ work' = work
    BY <2>2, <2>3 DEF R!ReadOwner, R!ListNodes, R!DryRun, R!Refused, R!Goto, R!Runs, R!Active
  <2>4. ASSUME NEW n \in Nodes, R!CreateWorker(j, n)
        PROVE  bc' \in [Ticks -> R!Runs] /\ work' \in [WorkerKeys -> R!Workers \union {None}]
    <3>1. bc' \in [Ticks -> R!Runs]
      <4>1. bc[j].todo \subseteq Nodes
        BY <2>2 DEF R!Runs
      <4>2. \/ bc' = [bc EXCEPT ![j].pc = "complete", ![j].todo = bc[j].todo \ {n}]
            \/ bc' = [bc EXCEPT ![j].pc = "create", ![j].todo = bc[j].todo \ {n}]
        BY <2>4 DEF R!CreateWorker
      <4> QED BY <2>2, <4>1, <4>2 DEF R!Runs, R!Active
    <3>2. [job |-> j, st |-> "progressing"] \in R!Workers
      BY DEF R!Workers, R!JobStatusTypes
    <3>3. WorkerName[j][n] \in WorkerKeys
      BY DEF WorkerName, WorkerKeys
    <3> QED BY <2>2, <2>4, <3>1, <3>2, <3>3 DEF R!CreateWorker
  <2>5. bc' \in [Ticks -> R!Runs] /\ work' \in [WorkerKeys -> R!Workers \union {None}]
    BY <2>1, <2>2, <2>3, <2>4 DEF R!Step
  <2> QED BY <1>1, <2>5 DEF RunStep, ObjectTypeOK
<1>2. CASE RunDies
  <2>1. PICK j \in Ticks : R!Crash(j) /\ (Spend("crashRun") \/ UNCHANGED left)
    BY <1>2 DEF RunDies
  <2>2. left' \in [Happenings -> Nat]
    BY <2>1, SpendType DEF ObjectTypeOK, Happenings
  <2>3. bc' \in [Ticks -> R!Runs] /\ work' = work
    BY <2>1 DEF ObjectTypeOK, R!Crash, R!Goto, R!Runs, R!Active
  <2> QED BY <1>2, <2>2, <2>3 DEF RunDies, ObjectTypeOK
<1>3. CASE Collect
  BY <1>3 DEF Collect, ObjectTypeOK, LiveJobs, Existing
<1> QED BY <1>1, <1>2, <1>3

\* So does an informer that catches up.
LEMMA SyncTypes == ASSUME ClusterTypeOK, Sync PROVE ClusterTypeOK'
<1>1. PICK kind \in Kinds : CatchUp(kind)
  BY DEF Sync, SyncDaemonCronJob, SyncServiceAccount, SyncClusterRoleBinding, SyncCronJob,
     SyncJobs, SyncNodes, Kinds
<1>2. cache' \in Caches
  BY <1>1, ApiViewType DEF CatchUp, ClusterTypeOK, Caches, Kinds
<1>3. dirty' \in BOOLEAN
  BY DEF Sync, SyncDaemonCronJob, SyncServiceAccount, SyncClusterRoleBinding, SyncCronJob,
     SyncJobs, SyncNodes, ClusterTypeOK
<1> QED BY <1>2, <1>3 DEF Sync, ClusterTypeOK
-----------------------------------------------------------------------------
(* The controller's actions keep the types *)

\* Any way a call may end keeps the types of the local variables, the queue and
\* the budget.
LEMMA EndTypes ==
    ASSUME StateTypeOK, Requeue
    PROVE  LocalTypeOK' /\ dirty' \in BOOLEAN
BY DEF Requeue, End, LocalTypeOK, PCs

\* So does a call that fails.
LEMMA FailTypes ==
    ASSUME StateTypeOK, Fail
    PROVE  LocalTypeOK' /\ dirty' \in BOOLEAN /\ left' \in [Happenings -> Nat]
BY EndTypes DEF Fail, StateTypeOK, ClusterTypeOK

\* So does a write whose reply is lost.
LEMMA LostTypes ==
    ASSUME StateTypeOK, Requeue, Spend("lostReply")
    PROVE  LocalTypeOK' /\ dirty' \in BOOLEAN /\ left' \in [Happenings -> Nat]
BY EndTypes, SpendType DEF StateTypeOK, ClusterTypeOK, Happenings

\* So does the end of a reconciliation.
LEMMA DoneTypes ==
    ASSUME StateTypeOK, Done
    PROVE  LocalTypeOK' /\ dirty' \in BOOLEAN /\ left' \in [Happenings -> Nat]
BY DEF Done, End, LocalTypeOK, StateTypeOK, ClusterTypeOK, PCs

\* So does going on to the next call.
LEMMA GotoTypes ==
    ASSUME StateTypeOK, pc # "idle", NEW next \in PCs \ {"idle"}, Goto(next)
    PROVE  LocalTypeOK' /\ dirty' \in BOOLEAN /\ left' \in [Happenings -> Nat]
BY DEF Goto, StateTypeOK, ClusterTypeOK, LocalTypeOK

\* Reconcile starts at a call it has, with the cached DaemonCronJob as its copy.
LEMMA ReconcileTypes == ASSUME StateTypeOK, Reconcile PROVE StateTypeOK'
<1>1. LocalTypeOK'
  <2>1. CASE UNCHANGED local
    BY <2>1 DEF local, LocalTypeOK, StateTypeOK
  <2>2. CASE ~UNCHANGED local
    <3>1. /\ ToReconcile(cache.dcj) /\ rdcj' = cache.dcj /\ rnodes' = rnodes
          /\ pc' = FirstCall(cache.dcj)
      BY <2>2 DEF Reconcile
    <3>2. cache.dcj \in DaemonCronJobs
      BY <3>1, CacheFields DEF StateTypeOK, ClusterTypeOK, ToReconcile
    <3>3. FirstCall(cache.dcj) \in {"onDelete", "listNodes", "addFinalizer"}
      BY <3>2 DEF FirstCall, DaemonCronJobs
    <3> QED BY <3>1, <3>2, <3>3 DEF LocalTypeOK, StateTypeOK, PCs, Applying, Finalizing
  <2> QED BY <2>1, <2>2
<1> QED BY <1>1 DEF Reconcile, others, StateTypeOK, ClusterTypeOK

\* The calls that add and remove the finalizer keep the types.
LEMMA FinalizerTypes ==
    ASSUME StateTypeOK, AddFinalizer \/ OnDelete \/ RemoveFinalizer
    PROVE  StateTypeOK'
<1>0. /\ "removeFinalizer" \in PCs \ {"idle"} /\ "listNodes" \in PCs \ {"idle"}
      /\ pc # "idle"
  BY DEF PCs, Finalizing, Applying, AddFinalizer, OnDelete, RemoveFinalizer
<1>1. CASE AddFinalizer
  <2>1. rdcj \in DaemonCronJobs /\ [rdcj EXCEPT !.fin = TRUE] \in DaemonCronJobs
    BY <1>0 DEF StateTypeOK, LocalTypeOK, DaemonCronJobs
  <2>2. dcj' \in DaemonCronJobs \union {None}
    BY <1>1, <2>1 DEF AddFinalizer, StateTypeOK, ClusterTypeOK
  <2>3. LocalTypeOK' /\ dirty' \in BOOLEAN /\ left' \in [Happenings -> Nat]
    <3>1. CASE Fail
      BY <3>1, FailTypes
    <3>2. CASE Requeue /\ Spend("lostReply")
      BY <3>2, LostTypes
    <3>3. CASE /\ pc' = "listNodes" /\ rdcj' = [rdcj EXCEPT !.fin = TRUE]
               /\ UNCHANGED <<rnodes, dirty, left>>
      BY <1>0, <2>1, <3>3 DEF LocalTypeOK, StateTypeOK, ClusterTypeOK
    <3> QED BY <1>1, <3>1, <3>2, <3>3 DEF AddFinalizer, Written
  <2> QED BY <1>1, <2>2, <2>3 DEF AddFinalizer, others, StateTypeOK, ClusterTypeOK
<1>2. CASE OnDelete
  <2>1. LocalTypeOK' /\ dirty' \in BOOLEAN /\ left' \in [Happenings -> Nat]
    <3>1. Fail \/ (Requeue /\ Spend("lostReply")) \/ Goto("removeFinalizer")
      BY <1>2 DEF OnDelete, Written
    <3> QED BY <1>0, <3>1, FailTypes, LostTypes, GotoTypes
  <2> QED BY <1>2, <2>1 DEF OnDelete, others, StateTypeOK, ClusterTypeOK
<1>3. CASE RemoveFinalizer
  <2>1. LocalTypeOK' /\ dirty' \in BOOLEAN /\ left' \in [Happenings -> Nat]
    <3>1. Fail \/ (Requeue /\ Spend("lostReply")) \/ Done
      BY <1>3 DEF RemoveFinalizer, Written
    <3> QED BY <3>1, FailTypes, LostTypes, DoneTypes
  <2> QED BY <1>3, <2>1 DEF RemoveFinalizer, others, StateTypeOK, ClusterTypeOK
<1> QED BY <1>1, <1>2, <1>3

\* So do the list of the nodes and the deletion of worker Jobs, however many of
\* them succeed.
LEMMA DeleteWorkersTypes ==
    ASSUME StateTypeOK, ListNodes \/ DeleteWorkerJobsOnNotExistNode
    PROVE  StateTypeOK'
<1>1. CASE ListNodes
  <2>1. cache.nodes \in SUBSET Nodes
    BY CacheFields DEF StateTypeOK, ClusterTypeOK
  <2>2. LocalTypeOK'
    BY <1>1, <2>1 DEF ListNodes, StateTypeOK, LocalTypeOK, PCs, Applying
  <2> QED BY <1>1, <2>2 DEF ListNodes, others, StateTypeOK, ClusterTypeOK
<1>2. CASE DeleteWorkerJobsOnNotExistNode
  <2>1. work' \in [WorkerKeys -> R!Workers \union {None}]
    BY <1>2 DEF DeleteWorkerJobsOnNotExistNode, StateTypeOK, ClusterTypeOK
  <2>2. left' \in [Happenings -> Nat]
    BY <1>2, SpendType
       DEF DeleteWorkerJobsOnNotExistNode, StateTypeOK, ClusterTypeOK, Happenings
  <2>3. LocalTypeOK'
    BY <1>2 DEF DeleteWorkerJobsOnNotExistNode, LocalTypeOK, StateTypeOK, PCs, Applying
  <2> QED BY <1>2, <2>1, <2>2, <2>3
      DEF DeleteWorkerJobsOnNotExistNode, others, StateTypeOK, ClusterTypeOK
<1> QED BY <1>1, <1>2

\* So do the three calls of applyCronJob, one of which may panic.
LEMMA ApplyTypes ==
    ASSUME StateTypeOK, ApplyServiceAccount \/ ApplyClusterRoleBinding \/ ApplyCronJob
    PROVE  StateTypeOK'
<1>0. /\ {"applyCRB", "applyCronJob", "status"} \subseteq PCs \ {"idle"}
      /\ pc # "idle" /\ rdcj \in DaemonCronJobs /\ rdcj.uid \in Uids
  BY DEF PCs, Applying, ApplyServiceAccount, ApplyClusterRoleBinding, ApplyCronJob,
         StateTypeOK, LocalTypeOK, DaemonCronJobs
<1>1. LocalTypeOK' /\ dirty' \in BOOLEAN /\ left' \in [Happenings -> Nat]
  <2>1. \/ Fail \/ (Requeue /\ Spend("lostReply"))
        \/ Goto("applyCRB") \/ Goto("applyCronJob") \/ Goto("status")
    BY DEF ApplyServiceAccount, ApplyClusterRoleBinding, ApplyCronJob, Written
  <2> QED BY <1>0, <2>1, FailTypes, LostTypes, GotoTypes
<1>2. CASE ApplyServiceAccount
  BY <1>0, <1>1, <1>2 DEF ApplyServiceAccount, others, StateTypeOK, ClusterTypeOK
<1>3. CASE ApplyClusterRoleBinding
  BY <1>0, <1>1, <1>3 DEF ApplyClusterRoleBinding, others, StateTypeOK, ClusterTypeOK
<1>4. CASE ApplyCronJob
  <2>1. CASE UNCHANGED <<cj, nextCj>>
    BY <1>1, <1>4, <2>1 DEF ApplyCronJob, others, StateTypeOK, ClusterTypeOK
  <2>2. CASE /\ nextCj \in CronJobIds /\ nextCj' = nextCj + 1
             /\ cj' = [id |-> nextCj, owner |-> rdcj.uid, active |-> {}]
    <3>1. cj' \in CronJobs
      BY <1>0, <2>2 DEF CronJobs
    <3>2. nextCj' \in 1..(MaxCronJobs + 1)
      BY <2>2 DEF CronJobIds
    <3> QED BY <1>1, <1>4, <3>1, <3>2 DEF ApplyCronJob, others, StateTypeOK, ClusterTypeOK
  <2>3. CASE /\ cache.cj # None /\ cache.cj = cj /\ cj' = [cj EXCEPT !.owner = rdcj.uid]
             /\ UNCHANGED nextCj
    <3>1. cj \in CronJobs
      BY <2>3 DEF StateTypeOK, ClusterTypeOK
    <3>2. cj' \in CronJobs
      BY <1>0, <2>3, <3>1 DEF CronJobs
    <3> QED BY <1>1, <1>4, <2>3, <3>2 DEF ApplyCronJob, others, StateTypeOK, ClusterTypeOK
  <2> QED BY <1>4, <2>1, <2>2, <2>3 DEF ApplyCronJob
<1> QED BY <1>2, <1>3, <1>4

\* The times of the transitions are what they were, or new.
LEMMA SinceType == ASSUME rdcj \in DaemonCronJobs PROVE Since \subseteq BOOLEAN
<1>1. rdcj.since \in BOOLEAN
  BY DEF DaemonCronJobs
<1> QED BY <1>1 DEF Since

\* updateStatus writes conditions and ends the reconciliation, or fails.
LEMMA StatusWrites ==
    ASSUME StateTypeOK, UpdateStatus
    PROVE  /\ rdcj \in DaemonCronJobs /\ pc' = "idle"
           /\ \/ dcj' = dcj
              \/ \E conds \in C!ConditionLists, t \in BOOLEAN :
                    dcj = rdcj /\ dcj' = [rdcj EXCEPT !.conds = conds, !.since = t]
<1>1. rdcj \in DaemonCronJobs /\ rdcj.conds \in C!ConditionLists
  BY DEF UpdateStatus, StateTypeOK, LocalTypeOK, DaemonCronJobs
<1>2. CheckedConditions \in C!ConditionLists
  BY <1>1, ConditionTypes DEF CheckedConditions
<1>3. NewConditions \in C!ConditionLists
  BY <1>2, ConditionTypes DEF NewConditions
<1>4. pc' = "idle"
  BY DEF UpdateStatus, Written, Done, Fail, Requeue, End
<1>5. Since \subseteq BOOLEAN
  BY <1>1, SinceType
<1> QED BY <1>1, <1>3, <1>4, <1>5 DEF UpdateStatus

\* So does updateStatus.
LEMMA StatusTypes == ASSUME StateTypeOK, UpdateStatus PROVE StateTypeOK'
<1>1. dcj' \in DaemonCronJobs \union {None}
  <2>1. CASE dcj' = dcj
    BY <2>1 DEF StateTypeOK, ClusterTypeOK
  <2>2. ASSUME NEW conds \in C!ConditionLists, NEW t \in BOOLEAN,
               dcj' = [rdcj EXCEPT !.conds = conds, !.since = t]
        PROVE  dcj' \in DaemonCronJobs
    BY <2>2, StatusWrites DEF DaemonCronJobs
  <2> QED BY <2>1, <2>2, StatusWrites
<1>2. LocalTypeOK' /\ dirty' \in BOOLEAN /\ left' \in [Happenings -> Nat]
  <2>1. Fail \/ (Requeue /\ Spend("lostReply")) \/ Done
    BY DEF UpdateStatus, Written
  <2> QED BY <2>1, FailTypes, LostTypes, DoneTypes
<1> QED BY <1>1, <1>2 DEF UpdateStatus, others, StateTypeOK, ClusterTypeOK

\* So do a failed call and a restart of the manager.
LEMMA FaultTypes == ASSUME StateTypeOK, ApiError \/ Restart PROVE StateTypeOK'
<1>1. left' \in [Happenings -> Nat]
  BY SpendType DEF ApiError, Restart, StateTypeOK, ClusterTypeOK, Happenings
<1>2. CASE ApiError
  <2>1. LocalTypeOK' /\ dirty' \in BOOLEAN
    BY <1>2, EndTypes DEF ApiError
  <2> QED BY <1>1, <1>2, <2>1 DEF ApiError, others, StateTypeOK, ClusterTypeOK
<1>3. CASE Restart
  <2>1. LocalTypeOK' /\ dirty' \in BOOLEAN
    BY <1>3 DEF Restart, End, LocalTypeOK, PCs
  <2>2. cache' \in Caches
    BY <1>3, ApiViewType DEF Restart, StateTypeOK
  <2> QED BY <1>1, <1>3, <2>1, <2>2 DEF Restart, StateTypeOK, ClusterTypeOK
<1> QED BY <1>2, <1>3

\* The initial states have the types.
LEMMA TypeInit == Init => TypeOK
<1> SUFFICES ASSUME Init PROVE TypeOK
    OBVIOUS
<1>1. /\ nextUid = 1 /\ nextCj = 1 /\ crb = FALSE /\ dirty = FALSE /\ pc = "idle"
      /\ dcj = None /\ sa = None /\ cj = None /\ rdcj = None /\ rnodes = {} /\ unseen = {}
  BY DEF Init
<1>2. 1 \in 1..(MaxUid + 1) /\ 1 \in 1..(MaxCronJobs + 1)
  OBVIOUS
<1>3. /\ jobs \in [Ticks -> CronJobIds \union {None}]
      /\ work \in [WorkerKeys -> R!Workers \union {None}]
  BY DEF Init
<1>4. bc \in [Ticks -> R!Runs]
  BY DEF Init, R!Unused, R!Runs
<1>5. nodes \in SUBSET Nodes /\ left \in [Happenings -> Nat]
  BY DEF Init
<1>6. cache \in Caches
  <2>1. Existing \in SUBSET WorkerKeys
    BY DEF Existing
  <2> QED BY <1>1, <1>5, <2>1 DEF Init, ApiView, Caches
<1>7. ClusterTypeOK
  BY <1>1, <1>2, <1>3, <1>4, <1>5, <1>6 DEF ClusterTypeOK
<1>8. LocalTypeOK
  BY <1>1 DEF LocalTypeOK, PCs
<1> QED BY <1>1, <1>7, <1>8 DEF TypeOK, StateTypeOK

\* An informer has only kinds to deliver.
LEMMA UnseenStep ==
    ASSUME unseen \in SUBSET Kinds, [Next]_vars
    PROVE  unseen' \in SUBSET Kinds
<1>1. CASE Events
  BY <1>1 DEF Events
<1>2. CASE Sync
  BY <1>2 DEF Sync, SyncDaemonCronJob, SyncServiceAccount, SyncClusterRoleBinding, SyncCronJob,
              SyncJobs, SyncNodes, CatchUp
<1>3. CASE Restart
  BY <1>3 DEF Restart
<1>4. CASE UNCHANGED vars
  BY <1>4 DEF vars
<1> QED BY <1>1, <1>2, <1>3, <1>4 DEF Next, Outside

\* Every step keeps the types.
LEMMA TypeStep == TypeOK /\ [Next]_vars => TypeOK'
<1> SUFFICES ASSUME StateTypeOK, unseen \in SUBSET Kinds, [Next]_vars PROVE StateTypeOK'
    BY UnseenStep DEF TypeOK
<1>1. CASE Outside(User \/ Cluster)
  <2>1. ObjectTypeOK
    BY DEF StateTypeOK, ClusterTypeOK, ObjectTypeOK
  <2>2. ObjectTypeOK'
    BY <1>1, <2>1, UserTypes, CronJobTypes, WorkloadTypes DEF Outside, Cluster
  <2>3. UNCHANGED <<cache, dirty, pc, rdcj, rnodes>>
    BY <1>1 DEF Outside, local
  <2> QED BY <2>2, <2>3 DEF StateTypeOK, ClusterTypeOK, ObjectTypeOK, LocalTypeOK
<1>2. CASE Sync
  <2>1. UNCHANGED <<pc, rdcj, rnodes>> /\ ClusterTypeOK'
    BY <1>2, SyncTypes DEF Sync, local, StateTypeOK
  <2> QED BY <2>1 DEF StateTypeOK, LocalTypeOK
<1>3. CASE Controller
  BY <1>3, ReconcileTypes, FinalizerTypes, DeleteWorkersTypes, ApplyTypes, StatusTypes
     DEF Controller
<1>4. CASE ApiError \/ Restart
  BY <1>4, FaultTypes
<1>5. CASE UNCHANGED vars
  BY <1>5 DEF vars, StateTypeOK, ClusterTypeOK, LocalTypeOK
<1> QED BY <1>1, <1>2, <1>3, <1>4, <1>5 DEF Next

\* Every variable of the controller and of its cluster keeps its type, and the
\* controller holds a local copy of the DaemonCronJob exactly while it reconciles.
THEOREM TypeCorrect == Spec => []TypeOK
BY TypeInit, TypeStep, PTL DEF Spec
-----------------------------------------------------------------------------
(* The finalizer protocol *)

Protection == CacheIsPast /\ FinalizingIsSeen /\ AddingIsRead /\ Protected

USE DEF Live

\* A step that touches neither the DaemonCronJob nor its cached copy, and moves the
\* reconciliation along its course or ends it.
LEMMA ProtectionFrame ==
    ASSUME StateTypeOK, Protection,
           dcj' = dcj, nextUid' = nextUid, cache'.dcj = cache.dcj,
           \/ pc' = "idle"
           \/ rdcj' = rdcj /\ \/ pc' = pc
                              \/ pc \in Applying /\ pc' \in Applying
                              \/ pc = "onDelete" /\ pc' = "removeFinalizer"
    PROVE  Protection'
<1>1. CacheIsPast'
  BY DEF Protection, CacheIsPast
<1>2. CASE pc' = "idle"
  BY <1>1, <1>2 DEF Protection, FinalizingIsSeen, AddingIsRead, Protected, Finalizing, Applying
<1>3. CASE /\ rdcj' = rdcj
           /\ \/ pc' = pc
              \/ pc \in Applying /\ pc' \in Applying
              \/ pc = "onDelete" /\ pc' = "removeFinalizer"
  BY <1>1, <1>3
     DEF Protection, FinalizingIsSeen, AddingIsRead, Protected, Finalizing, Applying
<1> QED BY <1>2, <1>3

\* Users: a new incarnation is newer than every copy of an older one, an edit leaves
\* the metadata alone, and a delete leaves what has the finalizer in place.
LEMMA UserProtection ==
    ASSUME StateTypeOK, Protection, UNCHANGED local, cache' = cache,
           CreateDaemonCronJob \/ EditDaemonCronJob \/ DeleteDaemonCronJob
    PROVE  Protection'
<1>0. /\ dcj \in DaemonCronJobs \union {None} /\ nextUid \in Nat
      /\ cache.dcj \in DaemonCronJobs \union {None} /\ rdcj \in DaemonCronJobs \union {None}
      /\ pc # "idle" => rdcj \in DaemonCronJobs
      /\ pc' = pc /\ rdcj' = rdcj
  BY CacheFields DEF StateTypeOK, ClusterTypeOK, LocalTypeOK, local
<1>1. CASE CreateDaemonCronJob
  <2>1. PICK l \in Labelled :
           dcj' = [uid |-> nextUid, deleting |-> FALSE, fin |-> FALSE, labelled |-> l,
                   conds |-> C!NoConditions, since |-> FALSE]
    BY <1>1 DEF CreateDaemonCronJob
  <2>2. nextUid \in Uids /\ dcj = None /\ nextUid' = nextUid + 1
    BY <1>1 DEF CreateDaemonCronJob
  <2>3. dcj' \in DaemonCronJobs /\ dcj'.uid = nextUid
    BY <2>1, <2>2, ConditionTypes DEF DaemonCronJobs
  <2>4. CacheIsPast'
    BY <1>0, <2>2, <2>3 DEF Protection, CacheIsPast, DaemonCronJobs, Uids
  <2>5. FinalizingIsSeen' /\ AddingIsRead' /\ Protected'
    BY <1>0, <2>2, <2>3
       DEF Protection, FinalizingIsSeen, AddingIsRead, Protected, Finalizing, Applying,
           DaemonCronJobs, Uids
  <2> QED BY <2>4, <2>5 DEF Protection
<1>2. CASE EditDaemonCronJob
  <2>1. PICK l \in Labelled : dcj' = [dcj EXCEPT !.labelled = l]
    BY <1>2 DEF EditDaemonCronJob
  <2>2. dcj \in DaemonCronJobs /\ nextUid' = nextUid
    BY <1>0, <1>2 DEF EditDaemonCronJob
  <2>3. /\ dcj' \in DaemonCronJobs /\ dcj'.uid = dcj.uid
        /\ dcj'.fin = dcj.fin /\ dcj'.deleting = dcj.deleting
    BY <2>1, <2>2 DEF DaemonCronJobs
  <2>4. CacheIsPast'
    BY <1>0, <2>2, <2>3 DEF Protection, CacheIsPast
  <2>5. FinalizingIsSeen' /\ AddingIsRead' /\ Protected'
    BY <1>0, <2>2, <2>3
       DEF Protection, FinalizingIsSeen, AddingIsRead, Protected, Finalizing, Applying
  <2> QED BY <2>4, <2>5 DEF Protection
<1>3. CASE DeleteDaemonCronJob
  <2>1. /\ dcj \in DaemonCronJobs /\ nextUid' = nextUid
        /\ dcj.fin => /\ dcj' \in DaemonCronJobs /\ dcj'.uid = dcj.uid
                      /\ dcj'.fin /\ dcj'.deleting
        /\ ~dcj.fin => dcj' = None
    BY <1>0, <1>3 DEF DeleteDaemonCronJob, DaemonCronJobs
  <2>2. CacheIsPast'
    BY <1>0, <2>1 DEF Protection, CacheIsPast
  <2>3. FinalizingIsSeen' /\ AddingIsRead' /\ Protected'
    BY <1>0, <2>1
       DEF Protection, FinalizingIsSeen, AddingIsRead, Protected, Finalizing, Applying
  <2> QED BY <2>2, <2>3 DEF Protection
<1> QED BY <1>1, <1>2, <1>3

\* A cache that catches up learns nothing but the present.
LEMMA SyncProtection == ASSUME StateTypeOK, Protection, Sync PROVE Protection'
<1>0. /\ cache \in Caches /\ dcj' = dcj /\ nextUid' = nextUid /\ pc' = pc /\ rdcj' = rdcj
  BY DEF StateTypeOK, ClusterTypeOK, Sync, local
<1>1. cache'.dcj = cache.dcj \/ cache'.dcj = dcj
  BY <1>0 DEF Sync, SyncDaemonCronJob, SyncServiceAccount, SyncClusterRoleBinding, SyncCronJob,
              SyncJobs, SyncNodes, CatchUp, ApiView, Caches
<1>2. CASE cache'.dcj = cache.dcj
  BY <1>0, <1>2, ProtectionFrame
<1>3. CASE cache'.dcj = dcj
  BY <1>0, <1>3
     DEF Protection, CacheIsPast, FinalizingIsSeen, AddingIsRead, Protected
<1> QED BY <1>1, <1>2, <1>3

\* A restart drops the reconciliation and lists the caches anew.
LEMMA RestartProtection == ASSUME StateTypeOK, Protection, Restart PROVE Protection'
<1>1. /\ pc' = "idle" /\ dcj' = dcj /\ nextUid' = nextUid /\ cache'.dcj = dcj
      /\ dcj \in DaemonCronJobs \union {None}
  BY DEF Restart, End, ApiView, StateTypeOK, ClusterTypeOK
<1> QED BY <1>1
    DEF Protection, CacheIsPast, FinalizingIsSeen, AddingIsRead, Protected, Finalizing, Applying

\* Reconcile enters the course that its cached copy calls for: with the
\* finalizer on it and no deletionTimestamp, CacheIsPast is what Protected needs.
LEMMA ReconcileProtection == ASSUME StateTypeOK, Protection, Reconcile PROVE Protection'
<1>0. dcj' = dcj /\ nextUid' = nextUid /\ cache' = cache
  BY DEF Reconcile, others
<1>1. CASE UNCHANGED local
  BY <1>0, <1>1, ProtectionFrame DEF local
<1>2. CASE ~UNCHANGED local
  <2>1. /\ cache.dcj # None /\ rdcj' = cache.dcj
        /\ cache.dcj.deleting => cache.dcj.fin
        /\ pc' = FirstCall(cache.dcj)
    BY <1>2 DEF Reconcile, ToReconcile
  <2>2. /\ cache.dcj \in DaemonCronJobs
        /\ cache.dcj.deleting \in BOOLEAN /\ cache.dcj.fin \in BOOLEAN
    BY <2>1, CacheFields DEF StateTypeOK, ClusterTypeOK, DaemonCronJobs
  <2>3. CASE cache.dcj.deleting
    BY <1>0, <2>1, <2>2, <2>3
       DEF FirstCall, Protection, CacheIsPast, FinalizingIsSeen, AddingIsRead, Protected, Finalizing, Applying
  <2>4. CASE ~cache.dcj.deleting /\ cache.dcj.fin
    BY <1>0, <2>1, <2>2, <2>4
       DEF FirstCall, Protection, CacheIsPast, FinalizingIsSeen, AddingIsRead, Protected, Finalizing, Applying
  <2>5. CASE ~cache.dcj.deleting /\ ~cache.dcj.fin
    BY <1>0, <2>1, <2>2, <2>5
       DEF FirstCall, Protection, CacheIsPast, FinalizingIsSeen, AddingIsRead, Protected, Finalizing, Applying
  <2> QED BY <2>2, <2>3, <2>4, <2>5
<1> QED BY <1>1, <1>2

\* The finalizer is added to the object that was read, or not at all.
LEMMA AddFinalizerProtection == ASSUME StateTypeOK, Protection, AddFinalizer PROVE Protection'
<1>0. /\ nextUid' = nextUid /\ cache' = cache /\ pc = "addFinalizer"
      /\ rdcj \in DaemonCronJobs
  BY DEF AddFinalizer, others, StateTypeOK, LocalTypeOK
<1>1. CASE dcj' = dcj /\ pc' = "idle"
  BY <1>0, <1>1, ProtectionFrame
<1>2. CASE dcj = rdcj /\ dcj' = [rdcj EXCEPT !.fin = TRUE]
           /\ \/ pc' = "idle"
              \/ pc' = "listNodes" /\ rdcj' = [rdcj EXCEPT !.fin = TRUE]
  <2>1. /\ dcj' \in DaemonCronJobs /\ dcj'.uid = dcj.uid /\ dcj'.fin
        /\ dcj'.deleting = dcj.deleting /\ dcj # None /\ dcj' # None
    BY <1>0, <1>2 DEF DaemonCronJobs
  <2>2. CacheIsPast'
    BY <1>0, <2>1 DEF Protection, CacheIsPast
  <2>3. FinalizingIsSeen' /\ AddingIsRead' /\ Protected'
    BY <1>0, <1>2, <2>1
       DEF FinalizingIsSeen, AddingIsRead, Protected, Finalizing, Applying
  <2> QED BY <2>2, <2>3 DEF Protection
<1> QED BY <1>1, <1>2 DEF AddFinalizer, Written, Fail, Requeue, End

\* The finalizer is removed from the object that was read with its
\* deletionTimestamp: no cache can still show that incarnation as wanted.
LEMMA RemoveFinalizerProtection ==
    ASSUME StateTypeOK, Protection, RemoveFinalizer
    PROVE  Protection'
<1>0. /\ nextUid' = nextUid /\ cache' = cache /\ pc = "removeFinalizer"
      /\ rdcj \in DaemonCronJobs /\ pc' = "idle"
  BY DEF RemoveFinalizer, others, StateTypeOK, LocalTypeOK, Written, Done, Fail, Requeue, End
<1>1. CASE dcj' = dcj
  BY <1>0, <1>1, ProtectionFrame
<1>2. CASE dcj = rdcj /\ dcj' = None
  <2>1. ~(cache.dcj # None /\ cache.dcj.fin /\ ~cache.dcj.deleting)
    BY <1>0, <1>2 DEF Protection, CacheIsPast, FinalizingIsSeen, Finalizing
  <2> QED BY <1>0, <1>2, <2>1
      DEF Protection, CacheIsPast, FinalizingIsSeen, AddingIsRead, Protected, Finalizing, Applying
<1> QED BY <1>1, <1>2 DEF RemoveFinalizer

\* updateStatus writes the conditions and nothing else of the DaemonCronJob.
LEMMA StatusProtection == ASSUME StateTypeOK, Protection, UpdateStatus PROVE Protection'
<1>0. /\ nextUid' = nextUid /\ cache' = cache /\ pc \in Applying
      /\ rdcj \in DaemonCronJobs /\ pc' = "idle"
  BY StatusWrites DEF UpdateStatus, others, Applying
<1>1. CASE dcj' = dcj
  BY <1>0, <1>1, ProtectionFrame
<1>2. ASSUME NEW conds \in C!ConditionLists, NEW t \in BOOLEAN,
             dcj = rdcj, dcj' = [rdcj EXCEPT !.conds = conds, !.since = t]
      PROVE  Protection'
  <2>1. /\ dcj # None /\ dcj'.uid = dcj.uid /\ dcj'.fin = dcj.fin
        /\ dcj'.deleting = dcj.deleting /\ dcj.fin /\ dcj' \in DaemonCronJobs
    BY <1>0, <1>2 DEF Protection, Protected, DaemonCronJobs
  <2> QED BY <1>0, <2>1
      DEF Protection, CacheIsPast, FinalizingIsSeen, AddingIsRead, Protected, Finalizing, Applying
<1> QED BY <1>1, <1>2, StatusWrites

\* The other actions leave the DaemonCronJob and its cached copy alone.
LEMMA OtherProtection ==
    ASSUME StateTypeOK, Protection,
           \/ OnDelete \/ ListNodes \/ DeleteWorkerJobsOnNotExistNode \/ ApiError
           \/ ApplyServiceAccount \/ ApplyClusterRoleBinding \/ ApplyCronJob
    PROVE  Protection'
<1>1. dcj' = dcj /\ nextUid' = nextUid /\ cache' = cache
  BY DEF OnDelete, ListNodes, DeleteWorkerJobsOnNotExistNode, ApiError, ApplyServiceAccount,
         ApplyClusterRoleBinding, ApplyCronJob, others
<1>2. CASE OnDelete
  BY <1>1, <1>2, ProtectionFrame DEF OnDelete, Written, Goto, Fail, Requeue, End
<1>3. CASE ListNodes \/ DeleteWorkerJobsOnNotExistNode
  BY <1>1, <1>3, ProtectionFrame DEF ListNodes, DeleteWorkerJobsOnNotExistNode, Applying
<1>4. CASE ApiError
  BY <1>1, <1>4, ProtectionFrame DEF ApiError, Requeue, End
<1>5. CASE ApplyServiceAccount \/ ApplyClusterRoleBinding \/ ApplyCronJob
  <2>1. \/ pc' = "idle"
        \/ rdcj' = rdcj /\ pc \in Applying /\ pc' \in Applying
    BY <1>5 DEF ApplyServiceAccount, ApplyClusterRoleBinding, ApplyCronJob, Written, Goto, Fail,
                Requeue, End, Applying
  <2> QED BY <1>1, <2>1, ProtectionFrame
<1> QED BY <1>2, <1>3, <1>4, <1>5

\* Every step keeps the inductive invariant.
LEMMA ProtectionStep == ProtectedInv /\ [Next]_vars => ProtectedInv'
<1> SUFFICES ASSUME StateTypeOK, Protection, [Next]_vars PROVE Protection'
    BY TypeStep DEF ProtectedInv, Protection, TypeOK
<1>1. CASE Outside(User \/ Cluster)
  <2>0. UNCHANGED local /\ cache' = cache
    BY <1>1 DEF Outside
  <2>1. CASE CreateDaemonCronJob \/ EditDaemonCronJob \/ DeleteDaemonCronJob
    BY <2>0, <2>1, UserProtection
  <2>2. CASE dcj' = dcj /\ nextUid' = nextUid
    BY <2>0, <2>2, ProtectionFrame DEF local
  <2> QED BY <1>1, <2>1, <2>2
      DEF Outside, User, Cluster, DeleteResource, NodeChanges, Tick, UpdateActive, RetireJob,
          RunStep, RunDies, Collect
<1>2. CASE Sync
  BY <1>2, SyncProtection
<1>3. CASE Controller
  BY <1>3, ReconcileProtection, AddFinalizerProtection, RemoveFinalizerProtection,
     StatusProtection, OtherProtection DEF Controller
<1>4. CASE ApiError \/ Restart
  BY <1>4, OtherProtection, RestartProtection
<1>5. CASE UNCHANGED vars
  BY <1>5, ProtectionFrame DEF vars
<1> QED BY <1>1, <1>2, <1>3, <1>4, <1>5 DEF Next

\* Initially there is no DaemonCronJob, real or cached.
LEMMA ProtectionInit == Init => ProtectedInv
<1> SUFFICES ASSUME Init PROVE ProtectedInv
    OBVIOUS
<1>1. dcj = None /\ cache.dcj = None /\ pc = "idle"
  BY DEF Init, ApiView
<1> QED BY <1>1, TypeInit
    DEF ProtectedInv, CacheIsPast, FinalizingIsSeen, AddingIsRead, Protected, Finalizing, Applying

\* The inductive invariant holds in every state: cached copies are past states
\* of the DaemonCronJob, and finalizing reconciliations have seen the deletionTimestamp.
THEOREM ProtectedInvariant == Spec => []ProtectedInv
BY ProtectionInit, ProtectionStep, PTL DEF Spec

\* A reconciliation creates and updates objects only while the incarnation it
\* read exists and carries the finalizer, however stale the caches are.
THEOREM AlwaysProtected == Spec => []Protected
<1>1. ProtectedInv => Protected
  BY DEF ProtectedInv
<1> QED BY <1>1, ProtectedInvariant, PTL
-----------------------------------------------------------------------------
(* What the caches say *)

\* A cached copy is the real object unless an event is outstanding.
CacheSeen ==
    /\ "dcj" \notin unseen => cache.dcj = dcj
    /\ "sa" \notin unseen => cache.sa = sa
    /\ "crb" \notin unseen => cache.crb = crb
    /\ "cj" \notin unseen => cache.cj = cj

\* Only informers and restarts write the caches.
LEMMA CacheKept ==
    ASSUME Outside(User \/ Cluster) \/ Controller \/ ApiError
    PROVE  cache' = cache
BY DEF Outside, Controller, others, Reconcile, AddFinalizer, OnDelete, RemoveFinalizer,
       ListNodes, DeleteWorkerJobsOnNotExistNode, ApplyServiceAccount,
       ApplyClusterRoleBinding, ApplyCronJob, UpdateStatus, ApiError

\* What has changed in a step is outstanding after it.
LEMMA EventsTell ==
    ASSUME Events
    PROVE  /\ unseen \subseteq unseen'
           /\ dcj' # dcj => "dcj" \in unseen'
           /\ sa' # sa => "sa" \in unseen'
           /\ crb' # crb => "crb" \in unseen'
           /\ cj' # cj => "cj" \in unseen'
BY DEF Events, Kinds, ApiView

\* Initially the caches have been listed.
LEMMA CacheSeenInit == Init => CacheSeen
BY DEF Init, ApiView, CacheSeen

\* What changes an object leaves an event behind, and what changes its cached copy
\* reads the object.
LEMMA CacheSeenStep == CacheSeen /\ cache \in Caches /\ [Next]_vars => CacheSeen'
<1> SUFFICES ASSUME CacheSeen, cache \in Caches, [Next]_vars PROVE CacheSeen'
    OBVIOUS
<1>1. CASE cache' = cache /\ Events
  BY <1>1, EventsTell DEF CacheSeen
<1>2. CASE Sync
  BY <1>2 DEF Sync, SyncDaemonCronJob, SyncServiceAccount, SyncClusterRoleBinding,
              SyncCronJob, SyncJobs, SyncNodes, CatchUp, ApiView, CacheSeen, Caches
<1>3. CASE Restart
  BY <1>3 DEF Restart, ApiView, CacheSeen
<1>4. CASE UNCHANGED vars
  BY <1>4 DEF vars, CacheSeen
<1>5. Outside(User \/ Cluster) => Events
  BY DEF Outside
<1> QED BY <1>1, <1>2, <1>3, <1>4, <1>5, CacheKept DEF Next

\* applyCronJob goes on to the CronJob without a ClusterRoleBinding only if the
\* informer has yet to tell of its deletion.
THEOREM BindingFirst == Spec => BindingUnlessLagging
<1>1. ASSUME CacheSeen, [Next]_vars, pc = "applyCRB", pc' = "applyCronJob"
      PROVE  crb' \/ "crb" \in unseen
  <2>1. ApplyClusterRoleBinding
    BY <1>1 DEF Next, Outside, vars, local, Sync, Controller, Reconcile, AddFinalizer, OnDelete,
         RemoveFinalizer, ListNodes, DeleteWorkerJobsOnNotExistNode, ApplyServiceAccount,
         ApplyCronJob, UpdateStatus, ApiError, Requeue, Restart, End
  <2> QED BY <1>1, <2>1
      DEF ApplyClusterRoleBinding, CacheSeen, Goto, Fail, Requeue, End
<1>2. CacheSeen /\ [Next]_vars
        => [pc = "applyCRB" /\ pc' = "applyCronJob" => crb' \/ "crb" \in unseen]_vars
  BY <1>1
<1>3. TypeOK => cache \in Caches
  BY DEF TypeOK, StateTypeOK, ClusterTypeOK
<1> QED BY <1>2, <1>3, CacheSeenInit, CacheSeenStep, TypeCorrect, PTL
        DEF Spec, BindingUnlessLagging

\* The finalizer of a deleted DaemonCronJob goes on without its ClusterRoleBinding
\* deleted only if the informer has yet to tell of the binding.
THEOREM BindingGone == Spec => BindingGoneUnlessLagging
<1>1. ASSUME CacheSeen, [Next]_vars, pc = "onDelete", pc' = "removeFinalizer"
      PROVE  ~crb' \/ "crb" \in unseen
  <2>1. OnDelete
    BY <1>1 DEF Next, Outside, vars, local, Sync, Controller, Reconcile, AddFinalizer,
         RemoveFinalizer, ListNodes, DeleteWorkerJobsOnNotExistNode, ApplyServiceAccount,
         ApplyClusterRoleBinding, ApplyCronJob, UpdateStatus, Written, Goto, Done,
         ApiError, Fail, Requeue, Restart, End
  <2> QED BY <1>1, <2>1 DEF OnDelete, CacheSeen, Goto, Fail, Requeue, End
<1>2. CacheSeen /\ [Next]_vars
        => [pc = "onDelete" /\ pc' = "removeFinalizer" => ~crb' \/ "crb" \in unseen]_vars
  BY <1>1
<1>3. TypeOK => cache \in Caches
  BY DEF TypeOK, StateTypeOK, ClusterTypeOK
<1> QED BY <1>2, <1>3, CacheSeenInit, CacheSeenStep, TypeCorrect, PTL
        DEF Spec, BindingGoneUnlessLagging
-----------------------------------------------------------------------------
(* What is there at rest *)

\* The cached ServiceAccount and CronJob are those of the cached DaemonCronJob, which
\* is Available, or an event will come that enqueues it.
ServiceAccountHeld == "sa" \in unseen \/ cache.sa = cache.dcj.uid
CronJobHeld == "cj" \in unseen \/ (cache.cj # None /\ cache.cj.owner = cache.dcj.uid)
StatusHeld ==
    "dcj" \in unseen \/ "cj" \in unseen \/ C!State(cache.dcj.conds) = "Available"

\* A reconciliation that nothing has enqueued since it began works for the cached
\* DaemonCronJob, and what it has applied is there; so it is after its end.
Applied ==
    ~dirty =>
        /\ pc = "idle" /\ cache.dcj # None /\ ~cache.dcj.deleting
             => ServiceAccountHeld /\ CronJobHeld /\ StatusHeld
        /\ pc # "idle" => cache.dcj # None /\ rdcj.uid = cache.dcj.uid
        /\ pc \in Finalizing => cache.dcj.deleting
        /\ pc \in {"applyCRB", "applyCronJob", "status"} => ServiceAccountHeld
        /\ pc = "status" => CronJobHeld

\* A step that leaves caches, queue and reconciliation alone, and one that enqueues.
LEMMA AppliedFrame ==
    ASSUME Applied,
           dirty' \/ (UNCHANGED <<cache, dirty, pc, rdcj>> /\ unseen \subseteq unseen')
    PROVE  Applied'
BY DEF Applied, ServiceAccountHeld, CronJobHeld, StatusHeld

\* The informers: those that do not enqueue have nothing to do with it.
LEMMA AppliedSync == ASSUME Applied, StateTypeOK, Sync PROVE Applied'
<1>1. CASE SyncDaemonCronJob \/ SyncServiceAccount \/ SyncCronJob
  BY <1>1, AppliedFrame DEF SyncDaemonCronJob, SyncServiceAccount, SyncCronJob
<1>2. CASE SyncClusterRoleBinding \/ SyncJobs \/ SyncNodes
  <2>1. /\ cache'.dcj = cache.dcj /\ cache'.sa = cache.sa /\ cache'.cj = cache.cj
        /\ dirty' \in BOOLEAN /\ (dirty => dirty')
        /\ \A k \in {"dcj", "sa", "cj"} : k \in unseen => k \in unseen'
    BY <1>2 DEF SyncClusterRoleBinding, SyncJobs, SyncNodes, CatchUp, Caches,
                StateTypeOK, ClusterTypeOK
  <2>2. pc' = pc /\ rdcj' = rdcj
    BY DEF Sync, local
  <2> QED BY <2>1, <2>2 DEF Applied, ServiceAccountHeld, CronJobHeld, StatusHeld
<1> QED BY <1>1, <1>2 DEF Sync

\* A reconciliation begins with the cached DaemonCronJob.
LEMMA AppliedReconcile == ASSUME Applied, StateTypeOK, Reconcile PROVE Applied'
<1>1. cache' = cache /\ cache.dcj \in DaemonCronJobs \union {None}
  BY CacheFields DEF Reconcile, others, StateTypeOK, ClusterTypeOK
<1>2. CASE ToReconcile(cache.dcj)
  <2>1. cache.dcj # None /\ rdcj' = cache.dcj /\ pc' = FirstCall(cache.dcj)
    BY <1>2 DEF Reconcile, ToReconcile
  <2>2. cache.dcj.deleting \in BOOLEAN /\ cache.dcj.fin \in BOOLEAN
    BY <1>1, <2>1 DEF DaemonCronJobs
  <2>3. \/ cache.dcj.deleting /\ pc' = "onDelete"
        \/ pc' \in {"listNodes", "addFinalizer"}
    BY <2>1, <2>2 DEF FirstCall
  <2> QED BY <1>1, <2>1, <2>3 DEF Applied, Finalizing
<1>3. CASE ~ToReconcile(cache.dcj)
  <2>1. pc' = "idle" /\ (cache.dcj # None => cache.dcj.deleting)
    BY <1>3 DEF Reconcile, ToReconcile, local
  <2> QED BY <1>1, <2>1 DEF Applied, Finalizing
<1> QED BY <1>2, <1>3

\* The finalizer calls end the reconciliation of a deleted DaemonCronJob, or go on.
LEMMA AppliedFinalizer ==
    ASSUME Applied, StateTypeOK, AddFinalizer \/ OnDelete \/ RemoveFinalizer
    PROVE  Applied'
<1>1. cache' = cache
  BY DEF AddFinalizer, OnDelete, RemoveFinalizer, others
<1>2. CASE AddFinalizer
  <2>1. dirty' \/ (dirty' = dirty /\ pc' = "listNodes" /\ rdcj' = [rdcj EXCEPT !.fin = TRUE])
    BY <1>2 DEF AddFinalizer, Written, Fail, Requeue
  <2>2. rdcj \in DaemonCronJobs /\ pc = "addFinalizer"
    BY <1>2 DEF AddFinalizer, StateTypeOK, LocalTypeOK
  <2>3. [rdcj EXCEPT !.fin = TRUE].uid = rdcj.uid
    BY <2>2 DEF DaemonCronJobs
  <2> QED BY <1>1, <2>1, <2>2, <2>3 DEF Applied, Finalizing
<1>3. CASE OnDelete
  <2>1. dirty' \/ (dirty' = dirty /\ pc' = "removeFinalizer" /\ rdcj' = rdcj)
    BY <1>3 DEF OnDelete, Written, Goto, Fail, Requeue
  <2> QED BY <1>1, <1>3, <2>1 DEF Applied, Finalizing, OnDelete
<1>4. CASE RemoveFinalizer
  <2>1. dirty' \/ (dirty' = dirty /\ pc' = "idle")
    BY <1>4 DEF RemoveFinalizer, Written, Done, End, Fail, Requeue
  <2> QED BY <1>1, <1>4, <2>1 DEF Applied, Finalizing, RemoveFinalizer
<1> QED BY <1>2, <1>3, <1>4

\* applyServiceAccount finds the ServiceAccount in the cache, or changes it.
LEMMA AppliedServiceAccount == ASSUME Applied, Events, ApplyServiceAccount PROVE Applied'
<1>1. cache' = cache /\ pc = "applySA"
  BY DEF ApplyServiceAccount, others
<1>2. \/ dirty'
      \/ /\ dirty' = dirty /\ pc' = "applyCRB" /\ rdcj' = rdcj
         /\ cache.sa = rdcj.uid \/ sa' # sa
  BY DEF ApplyServiceAccount, Written, Goto, Fail, Requeue
<1> QED BY <1>1, <1>2, EventsTell DEF Applied, ServiceAccountHeld, Finalizing

\* applyCronJob finds the CronJob in the cache, or creates or takes over one.
LEMMA AppliedCronJob ==
    ASSUME Applied, StateTypeOK, Events, ApplyCronJob
    PROVE  Applied'
<1>1. cache' = cache /\ pc = "applyCronJob"
  BY DEF ApplyCronJob, others
<1>2. rdcj \in DaemonCronJobs /\ rdcj.uid \in Uids
  BY <1>1 DEF StateTypeOK, LocalTypeOK, DaemonCronJobs
<1>3. ASSUME cj = None, nextCj \in CronJobIds,
             cj' = [id |-> nextCj, owner |-> rdcj.uid, active |-> {}]
      PROVE  cj' # cj
  <2>1. cj' \in CronJobs
    BY <1>2, <1>3 DEF CronJobs
  <2> QED BY <1>3, <2>1, NoneAssumption
<1>4. ASSUME cj # None, cj.owner # rdcj.uid, cj' = [cj EXCEPT !.owner = rdcj.uid]
      PROVE  cj' # cj
  <2>1. cj \in CronJobs
    BY <1>4 DEF StateTypeOK, ClusterTypeOK
  <2> QED BY <1>4, <2>1 DEF CronJobs
<1>5. \/ dirty'
      \/ /\ dirty' = dirty /\ pc' = "status" /\ rdcj' = rdcj
         /\ (cache.cj # None /\ cache.cj.owner = rdcj.uid) \/ cj' # cj
  BY <1>3, <1>4 DEF ApplyCronJob, Written, Goto, Fail, Requeue
<1> QED BY <1>1, <1>5, EventsTell DEF Applied, ServiceAccountHeld, CronJobHeld, Finalizing

\* A DaemonCronJob whose CronJob is in the cache is written to be Available.
LEMMA CheckedAvailable ==
    ASSUME NEW c \in C!ConditionLists
    PROVE  C!State(C!SetPair(c, TRUE, "")) = "Available"
BY DEF C!State, C!Is, C!SetPair, C!Condition, C!ConditionStatus, C!ConditionLists, C!ConditionTypes

\* The status is written when everything has been applied.
LEMMA AppliedStatus ==
    ASSUME Applied, StateTypeOK, CacheSeen, Events, UpdateStatus
    PROVE  Applied'
<1>1. cache' = cache /\ pc = "status"
  BY DEF UpdateStatus, others
<1>2. rdcj \in DaemonCronJobs
  BY <1>1 DEF StateTypeOK, LocalTypeOK
<1>3. CheckedConditions \in C!ConditionLists
  BY <1>2, ConditionTypes DEF CheckedConditions, DaemonCronJobs
<1>4. cache.cj # None => C!State(NewConditions) = "Available"
  BY <1>3, CheckedAvailable DEF NewConditions
<1>5. \/ dirty'
      \/ /\ dirty' = dirty /\ pc' = "idle"
         /\ dcj = rdcj
         /\ \E t \in Since : dcj' = [rdcj EXCEPT !.conds = NewConditions, !.since = t]
  BY DEF UpdateStatus, Written, Done, End, Fail, Requeue
<1>6. ASSUME NEW t, dcj = rdcj, dcj' = dcj,
             dcj' = [rdcj EXCEPT !.conds = NewConditions, !.since = t]
      PROVE  rdcj.conds = NewConditions
  <2>1. dcj'.conds = NewConditions
    BY <1>2, <1>6 DEF DaemonCronJobs
  <2> QED BY <1>6, <2>1
<1>7. ASSUME ~dirty, NEW t, dcj = rdcj,
             dcj' = [rdcj EXCEPT !.conds = NewConditions, !.since = t]
      PROVE  StatusHeld'
  <2>1. CASE dcj' # dcj
    BY <2>1, EventsTell DEF StatusHeld
  <2>2. CASE "dcj" \in unseen \/ "cj" \in unseen
    BY <2>2, EventsTell DEF StatusHeld
  <2>3. CASE dcj' = dcj /\ "dcj" \notin unseen /\ "cj" \notin unseen
    <3>1. cache.cj # None
      BY <1>1, <1>7, <2>3 DEF Applied, CronJobHeld
    <3>2. C!State(cache.dcj.conds) = "Available"
      BY <1>4, <1>6, <1>7, <2>3, <3>1 DEF CacheSeen
    <3> QED BY <1>1, <3>2 DEF StatusHeld
  <2> QED BY <2>1, <2>2, <2>3
<1>8. dirty \/ (ServiceAccountHeld /\ CronJobHeld)'
  BY <1>1, EventsTell DEF Applied, ServiceAccountHeld, CronJobHeld
<1>9. ASSUME ~dirty' PROVE pc' = "idle" /\ ~dirty /\ StatusHeld'
  <2>1. dirty' = dirty /\ pc' = "idle" /\ dcj = rdcj
    BY <1>5, <1>9
  <2>2. ~dirty
    BY <1>9, <2>1
  <2>3. PICK t \in Since : dcj' = [rdcj EXCEPT !.conds = NewConditions, !.since = t]
    BY <1>5, <1>9
  <2>4. StatusHeld'
    BY <1>7, <2>1, <2>2, <2>3
  <2> QED BY <2>1, <2>2, <2>4
<1> QED BY <1>8, <1>9 DEF Applied, Finalizing

\* The other calls.
LEMMA AppliedOther ==
    ASSUME Applied, Events,
           ListNodes \/ DeleteWorkerJobsOnNotExistNode \/ ApplyClusterRoleBinding \/ ApiError
    PROVE  Applied'
<1>1. cache' = cache
  BY DEF ListNodes, DeleteWorkerJobsOnNotExistNode, ApplyClusterRoleBinding, ApiError, others
<1>2. \/ dirty'
      \/ /\ dirty' = dirty /\ rdcj' = rdcj
         /\ \/ pc = "listNodes" /\ pc' = "deleteWorkers"
            \/ pc = "deleteWorkers" /\ pc' = "applySA"
            \/ pc = "applyCRB" /\ pc' = "applyCronJob"
  BY DEF ListNodes, DeleteWorkerJobsOnNotExistNode, ApplyClusterRoleBinding, ApiError,
         Written, Goto, Fail, Requeue
<1> QED BY <1>1, <1>2, EventsTell DEF Applied, ServiceAccountHeld, Finalizing

\* Every step keeps it.
LEMMA AppliedStep == TypeOK /\ CacheSeen /\ Applied /\ [Next]_vars => Applied'
<1> SUFFICES ASSUME StateTypeOK, CacheSeen, Applied, [Next]_vars PROVE Applied'
    BY DEF TypeOK
<1>1. CASE Outside(User \/ Cluster)
  BY <1>1, EventsTell, AppliedFrame DEF Outside, local
<1>2. CASE (Controller \/ ApiError) /\ Events
  BY <1>2, AppliedReconcile, AppliedFinalizer, AppliedServiceAccount, AppliedCronJob,
     AppliedStatus, AppliedOther DEF Controller
<1>3. CASE Restart
  <2>1. dirty' \/ (cache'.dcj = None /\ pc' = "idle")
    BY <1>3 DEF Restart, ApiView, End
  <2> QED BY <2>1 DEF Applied, Finalizing
<1>4. CASE UNCHANGED vars
  BY <1>4, AppliedFrame DEF vars
<1> QED BY <1>1, <1>2, <1>3, <1>4, AppliedSync DEF Next

\* Whatever failed, was deleted or was left by a namesake: when the controller has
\* come to rest, ServiceAccount and CronJob are the DaemonCronJob's own and it is
\* Available.
THEOREM ReadyThere == Spec => []ReadyAtRest
<1>1. Init => Applied
  BY DEF Init, ApiView, Applied, Finalizing
<1>2. TypeOK => cache \in Caches
  BY DEF TypeOK, StateTypeOK, ClusterTypeOK
<1>3. CacheSeen /\ Applied => ReadyAtRest
  <2> SUFFICES ASSUME CacheSeen, Applied, Settled, Wanted
               PROVE  /\ sa = dcj.uid
                      /\ cj # None /\ cj.owner = dcj.uid
                      /\ C!State(dcj.conds) = "Available"
      BY DEF ReadyAtRest
  <2>1. cache.dcj = dcj /\ cache.sa = sa /\ cache.cj = cj
    BY DEF Settled, CacheSeen
  <2>2. ServiceAccountHeld /\ CronJobHeld /\ StatusHeld
    BY <2>1 DEF Settled, Wanted, Applied
  <2> QED BY <2>1, <2>2 DEF Settled, ServiceAccountHeld, CronJobHeld, StatusHeld
<1> QED BY <1>1, <1>2, <1>3, AppliedStep, CacheSeenInit, CacheSeenStep, TypeCorrect, PTL DEF Spec
-----------------------------------------------------------------------------
(* No deletion is forgotten *)

\* What is being deleted is held by a finalizer: the API server has removed it
\* otherwise.
Held ==
    /\ dcj # None /\ dcj.deleting => dcj.fin
    /\ cache.dcj # None /\ cache.dcj.deleting => cache.dcj.fin

\* A deletion in the cache has enqueued the DaemonCronJob, is being finalized, or has
\* been: then the event of its end is outstanding.
Finishing ==
    ~dirty /\ cache.dcj # None /\ cache.dcj.deleting
        => pc \in Finalizing \/ (pc = "idle" /\ "dcj" \in unseen)

\* Steps that write the DaemonCronJob keep its finalizer while it is being deleted.
LEMMA HeldStep == StateTypeOK /\ Held /\ [Next]_vars => Held'
<1> SUFFICES ASSUME StateTypeOK, Held, [Next]_vars PROVE Held'
    OBVIOUS
<1>1. cache'.dcj = cache.dcj \/ cache'.dcj = dcj
  <2>1. CASE Sync
    BY <2>1 DEF StateTypeOK, ClusterTypeOK, Caches, Sync, SyncDaemonCronJob, ApiView,
       SyncServiceAccount, SyncClusterRoleBinding, SyncCronJob, SyncJobs, SyncNodes, CatchUp
  <2>2. CASE Restart
    BY <2>2 DEF Restart, ApiView
  <2> QED BY <2>1, <2>2, CacheKept DEF Next, vars
<1>2. dcj # None => dcj \in DaemonCronJobs
  BY DEF StateTypeOK, ClusterTypeOK
<1>3. dcj' # None /\ dcj'.deleting => dcj'.fin
  <2>1. CASE dcj' = dcj
    BY <2>1 DEF Held
  <2>2. CASE CreateDaemonCronJob
    BY <2>2 DEF CreateDaemonCronJob
  <2>3. CASE EditDaemonCronJob
    BY <1>2, <2>3 DEF EditDaemonCronJob, Held, DaemonCronJobs
  <2>4. CASE DeleteDaemonCronJob
    BY <1>2, <2>4 DEF DeleteDaemonCronJob, DaemonCronJobs
  <2>5. CASE AddFinalizer
    BY <2>1, <2>5 DEF AddFinalizer, StateTypeOK, LocalTypeOK, DaemonCronJobs
  <2>6. CASE RemoveFinalizer
    BY <2>1, <2>6 DEF RemoveFinalizer
  <2>7. CASE UpdateStatus
    <3>1. \/ dcj' = dcj
          \/ \E conds, t : dcj' = [rdcj EXCEPT !.conds = conds, !.since = t] /\ dcj = rdcj
      BY <2>7 DEF UpdateStatus
    <3>2. rdcj \in DaemonCronJobs
      BY <2>7 DEF UpdateStatus, StateTypeOK, LocalTypeOK
    <3> QED BY <1>2, <2>1, <3>1, <3>2, NoneAssumption DEF Held, DaemonCronJobs
  <2> QED BY <2>1, <2>2, <2>3, <2>4, <2>5, <2>6, <2>7
      DEF Next, vars, Outside, User, Cluster, others, DeleteResource, NodeChanges, Tick,
          UpdateActive, RetireJob, RunStep, RunDies, Collect, Sync, Controller, Reconcile,
          OnDelete, ListNodes, DeleteWorkerJobsOnNotExistNode, ApplyServiceAccount,
          ApplyClusterRoleBinding, ApplyCronJob, ApiError, Restart
<1> QED BY <1>1, <1>3 DEF Held

\* A step that leaves queue, reconciliation and the cached DaemonCronJob alone, and one
\* that enqueues.
LEMMA FinishingFrame ==
    ASSUME Finishing,
           \/ dirty'
           \/ /\ UNCHANGED <<dirty, pc>> /\ cache'.dcj = cache.dcj
              /\ "dcj" \in unseen => "dcj" \in unseen'
    PROVE  Finishing'
BY DEF Finishing

\* Of the informers only the DaemonCronJob's own changes its cached copy, and enqueues.
LEMMA FinishingSync == ASSUME Finishing, StateTypeOK, Sync PROVE Finishing'
<1>1. CASE SyncDaemonCronJob \/ SyncServiceAccount \/ SyncCronJob
  BY <1>1, FinishingFrame DEF SyncDaemonCronJob, SyncServiceAccount, SyncCronJob
<1>2. CASE SyncClusterRoleBinding \/ SyncJobs \/ SyncNodes
  <2>1. /\ cache'.dcj = cache.dcj /\ dirty' \in BOOLEAN /\ (dirty => dirty')
        /\ "dcj" \in unseen => "dcj" \in unseen'
    BY <1>2 DEF SyncClusterRoleBinding, SyncJobs, SyncNodes, CatchUp, Caches,
                StateTypeOK, ClusterTypeOK
  <2>2. pc' = pc
    BY DEF Sync, local
  <2> QED BY <2>1, <2>2 DEF Finishing
<1> QED BY <1>1, <1>2 DEF Sync

\* A reconciliation of a deleted DaemonCronJob finalizes.
LEMMA FinishingReconcile == ASSUME Held, Reconcile PROVE Finishing'
<1>1. cache' = cache
  BY DEF Reconcile, others
<1>2. CASE cache.dcj # None /\ cache.dcj.deleting
  <2>1. pc' = FirstCall(cache.dcj)
    BY <1>2 DEF Reconcile, Held, ToReconcile
  <2>2. pc' = "onDelete"
    BY <1>2, <2>1 DEF FirstCall
  <2> QED BY <2>2 DEF Finishing, Finalizing
<1> QED BY <1>1, <1>2 DEF Finishing

\* Finalizing ends with the removal of the DaemonCronJob, or in another try; and what
\* is applied is not being deleted, as far as the cache knows.
LEMMA FinishingCalls ==
    ASSUME Finishing, StateTypeOK, (Controller /\ ~Reconcile) \/ ApiError, Events
    PROVE  Finishing'
<1>1. cache' = cache
  BY CacheKept
<1>2. CASE OnDelete
  <2>1. dirty' \/ pc' = "removeFinalizer"
    BY <1>2 DEF OnDelete, Written, Goto, Fail, Requeue
  <2> QED BY <2>1 DEF Finishing, Finalizing
<1>3. CASE RemoveFinalizer
  <2>1. dirty' \/ (pc' = "idle" /\ dcj = rdcj /\ dcj' = None)
    BY <1>3 DEF RemoveFinalizer, Written, Done, End, Fail, Requeue
  <2>2. rdcj # None
    BY <1>3 DEF RemoveFinalizer, StateTypeOK, LocalTypeOK
  <2> QED BY <2>1, <2>2, EventsTell DEF Finishing
<1>4. CASE pc \notin Finalizing \union {"idle"}
  <2>1. dirty' \/ dirty' = dirty
    BY <1>4 DEF Controller, ApiError, Reconcile, AddFinalizer, OnDelete, RemoveFinalizer,
       ListNodes, DeleteWorkerJobsOnNotExistNode, ApplyServiceAccount,
       ApplyClusterRoleBinding, ApplyCronJob, UpdateStatus, Written, Done, End, Goto, Fail,
       Requeue
  <2> QED BY <1>1, <1>4, <2>1 DEF Finishing
<1>5. CASE ApiError
  BY <1>5 DEF ApiError, Requeue, Finishing
<1> QED BY <1>2, <1>3, <1>4, <1>5
    DEF Controller, Finalizing, AddFinalizer, ListNodes, DeleteWorkerJobsOnNotExistNode,
        ApplyServiceAccount, ApplyClusterRoleBinding, ApplyCronJob, UpdateStatus

\* Every step keeps it.
LEMMA FinishingStep == StateTypeOK /\ Held /\ Finishing /\ [Next]_vars => Finishing'
<1> SUFFICES ASSUME StateTypeOK, Held, Finishing, [Next]_vars PROVE Finishing'
    OBVIOUS
<1>1. CASE Outside(User \/ Cluster)
  BY <1>1, EventsTell, FinishingFrame DEF Outside, local
<1>2. CASE (Controller \/ ApiError) /\ Events
  BY <1>2, FinishingReconcile, FinishingCalls
<1>3. CASE Restart
  <2>1. dirty' \/ cache'.dcj = None
    BY <1>3 DEF Restart, ApiView
  <2> QED BY <2>1 DEF Finishing
<1>4. CASE UNCHANGED vars
  BY <1>4, FinishingFrame DEF vars
<1> QED BY <1>1, <1>2, <1>3, <1>4, FinishingSync DEF Next

\* However old the caches were, whatever failed or panicked: the controller does not
\* come to rest while a deleted DaemonCronJob waits for its finalizer.
THEOREM DeletionRemembered == Spec => []NoDeletionAtRest
<1>1. Init => Held /\ Finishing
  BY DEF Init, ApiView, Held, Finishing
<1>2. CacheSeen /\ Finishing => NoDeletionAtRest
  BY DEF CacheSeen, Finishing, NoDeletionAtRest, Settled, Finalizing
<1>3. TypeOK => StateTypeOK /\ cache \in Caches
  BY DEF TypeOK, StateTypeOK, ClusterTypeOK
<1> QED BY <1>1, <1>2, <1>3, HeldStep, FinishingStep, CacheSeenInit, CacheSeenStep,
           TypeCorrect, PTL DEF Spec
=============================================================================
