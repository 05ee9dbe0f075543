------------------------ MODULE DaemonCronJobSetProofs ------------------------
(***************************************************************************)
(* Type correctness of the DaemonCronJobSet controller and its cluster,    *)
(* and that at rest the nodes that match, and only they, have their        *)
(* CronJobs and the status says so, and that a foreground deletion loses   *)
(* CronJobs only, for any nodes, labels, bounds and budgets.               *)
(***************************************************************************)
EXTENDS DaemonCronJobSet, FiniteSetTheorems, TLAPS

USE BoundsAssumption, NoneAssumption
-----------------------------------------------------------------------------
(* The operators the actions are made of *)

\* Spending keeps the budget a budget.
LEMMA SpendType ==
    ASSUME left \in [Disruptions -> Nat], NEW k \in Disruptions, Spend(k)
    PROVE  left' \in [Disruptions -> Nat]
BY DEF Spend

\* How many of the nodes there are is one of the counts of the status.
LEMMA CountType == ASSUME NEW S \in SUBSET Nodes PROVE Cardinality(S) \in Counts
<1>1. IsFiniteSet(S) /\ Cardinality(S) <= Cardinality(Nodes)
  BY FS_Subset
<1>2. Cardinality(S) \in Nat /\ Cardinality(Nodes) \in Nat
  BY <1>1, FS_CardinalityType
<1> QED BY <1>1, <1>2 DEF Counts

\* A status with counts and conditions leaves a DaemonCronJobSet one.
LEMMA StatusType ==
    ASSUME NEW d \in Sets, NEW desired \in Counts, NEW available \in Counts
    PROVE  WithStatus(d, desired, available) \in Sets
<1>1. d.conds \in C!ConditionLists /\ (desired = available) \in BOOLEAN
  BY DEF Sets
<1>2. PICK c : c = C!SetPair(d.conds, desired = available, "")
  OBVIOUS
<1>3. c \in C!ConditionLists
  <2>1. ASSUME NEW v \in BOOLEAN PROVE C!Condition(v, "") \in C!ConditionValues
    BY DEF C!Condition, C!ConditionStatus, C!ConditionValues
  <2> QED BY <1>1, <1>2, <2>1 DEF C!SetPair, C!ConditionLists
<1>4. [d EXCEPT !.desired = desired, !.available = available, !.conds = c] \in Sets
  BY <1>3 DEF Sets
<1> QED BY <1>2, <1>4 DEF WithStatus

\* The parts of TypeOK: the state without what is unseen, and what is not unseen.
StateTypeOK ==
    /\ nodes \in [Nodes -> NodeLabels]
    /\ ds \in Sets \union {None}
    /\ nextUid \in 1..(MaxUid + 1)
    /\ cj \in [Nodes -> CronJobs \union {None}]
    /\ cache \in [ds : Sets \union {None}, cj : [Nodes -> CronJobs \union {None}],
                  nodes : [Nodes -> NodeLabels]]
    /\ dirty \in BOOLEAN
    /\ pc \in PCs
    /\ rds \in Sets \union {None}
    /\ todo \in SUBSET Nodes
    /\ left \in [Disruptions -> Nat]
    /\ pc = "idle" <=> rds = None

Mirrored == unseen \in SUBSET Kinds /\ \A k \in Kinds \ unseen : cache[k] = ApiView[k]

\* Together they are TypeOK.
LEMMA TypeParts == TypeOK <=> StateTypeOK /\ Mirrored
BY DEF TypeOK, StateTypeOK, Mirrored
-----------------------------------------------------------------------------
(* Every step keeps the types *)

\* What users and nodes do.
LEMMA UserTypes ==
    ASSUME StateTypeOK,
           CreateSet \/ EditSet \/ DeleteSet \/ DeleteCronJob \/ NodeChanges
    PROVE  StateTypeOK'
<1>1. left' \in [Disruptions -> Nat]
  BY SpendType DEF CreateSet, EditSet, DeleteSet, DeleteCronJob, NodeChanges, Disruptions,
     StateTypeOK
<1>2. CASE CreateSet
  <2>1. PICK s \in SUBSET Labels :
           ds' = [uid |-> nextUid, deleting |-> FALSE, selector |-> s, template |-> 1,
                  desired |-> 0, available |-> 0, conds |-> C!NoConditions]
    BY <1>2 DEF CreateSet
  <2>2. nextUid \in Uids /\ 1 \in Templates
    BY <1>2 DEF CreateSet, Templates
  <2>3. 0 \in Counts
    BY CountType, FS_EmptySet
  <2>4. C!NoConditions \in C!ConditionLists
    BY DEF C!NoConditions, C!ConditionLists, C!ConditionValues
  <2>5. ds' \in Sets
    BY <2>1, <2>2, <2>3, <2>4 DEF Sets
  <2> QED BY <1>1, <1>2, <2>2, <2>5 DEF CreateSet, StateTypeOK, Uids, local
<1>3. CASE EditSet
  <2>1. ds \in Sets
    BY <1>3 DEF EditSet, StateTypeOK
  <2>2. ds' \in Sets
    BY <1>3, <2>1 DEF EditSet, Sets
  <2> QED BY <1>1, <1>3, <2>2 DEF EditSet, StateTypeOK, local
<1>4. CASE DeleteSet
  <2>1. ds \in Sets
    BY <1>4 DEF DeleteSet, StateTypeOK
  <2>2. ds' \in Sets \union {None}
    BY <1>4, <2>1 DEF DeleteSet, Sets
  <2> QED BY <1>1, <1>4, <2>2 DEF DeleteSet, StateTypeOK, local
<1>5. CASE DeleteCronJob
  BY <1>1, <1>5 DEF DeleteCronJob, StateTypeOK, local
<1>6. CASE NodeChanges
  BY <1>1, <1>6 DEF NodeChanges, StateTypeOK, local
<1> QED BY <1>2, <1>3, <1>4, <1>5, <1>6

\* What the garbage collector does.
LEMMA CollectTypes == ASSUME StateTypeOK, Collect PROVE StateTypeOK'
BY DEF Collect, StateTypeOK, local

\* What the controller does.
LEMMA ControllerTypes == ASSUME StateTypeOK, Controller \/ ApiError PROVE StateTypeOK'
<1>1. CASE Reconcile
  BY <1>1 DEF Reconcile, ToReconcile, StateTypeOK, PCs, local
<1>2. CASE DeleteCronJobsOnMismatchedNode
  <2>1. left' \in [Disruptions -> Nat]
    BY <1>2, SpendType DEF DeleteCronJobsOnMismatchedNode, StateTypeOK, Disruptions
  <2>2. cj' \in [Nodes -> CronJobs \union {None}]
    BY <1>2 DEF DeleteCronJobsOnMismatchedNode, StateTypeOK
  <2> QED BY <1>2, <2>1, <2>2 DEF DeleteCronJobsOnMismatchedNode, StateTypeOK, PCs
<1>3. CASE MatchingNodes \/ DesiredCronJobs \/ CountNodes
  BY <1>3 DEF MatchingNodes, DesiredCronJobs, CountNodes, ListNodes, StateTypeOK, PCs
<1>4. ASSUME NEW n \in Nodes, ApplyCronJob(n) PROVE StateTypeOK'
  <2>1. rds \in Sets
    BY <1>4 DEF ApplyCronJob, StateTypeOK
  <2>2. left' \in [Disruptions -> Nat]
    BY <1>4, SpendType DEF ApplyCronJob, Applied, Written, Fail, Requeue, StateTypeOK, Disruptions
  <2>3. [owner |-> rds.uid, template |-> rds.template] \in CronJobs
    BY <2>1 DEF Sets, CronJobs
  <2>4. cj[n] # None => [cj[n] EXCEPT !.owner = rds.uid] \in CronJobs
    <3>1. PICK o : o = cj[n]
      OBVIOUS
    <3>2. o # None => [o EXCEPT !.owner = rds.uid] \in CronJobs
      BY <2>1, <3>1 DEF StateTypeOK, Sets, CronJobs
    <3> QED BY <3>1, <3>2
  <2>5. \/ cj' = cj
        \/ cj' = [cj EXCEPT ![n] = [owner |-> rds.uid, template |-> rds.template]]
        \/ cj[n] # None /\ cj' = [cj EXCEPT ![n] = [cj[n] EXCEPT !.owner = rds.uid]]
    BY <1>4 DEF ApplyCronJob
  <2>6. cj' \in [Nodes -> CronJobs \union {None}]
    BY <2>3, <2>4, <2>5 DEF StateTypeOK
  <2>7. \/ pc' = "idle" /\ rds' = None /\ todo' = {} /\ dirty' = TRUE
        \/ UNCHANGED <<pc, rds, dirty>> /\ todo' = todo \ {n}
    BY <1>4 DEF ApplyCronJob, Applied, Written, Fail, Requeue, End
  <2> QED BY <1>4, <2>2, <2>6, <2>7 DEF ApplyCronJob, StateTypeOK, PCs
<1>5. CASE UpdateStatus
  <2>1. rds \in Sets
    BY <1>5 DEF UpdateStatus, StateTypeOK
  <2>2. left' \in [Disruptions -> Nat]
    BY <1>5, SpendType DEF UpdateStatus, Written, Done, Fail, Requeue, StateTypeOK, Disruptions
  <2>3. todo \in SUBSET Nodes /\ Present(cache.cj) \in SUBSET Nodes
    BY DEF StateTypeOK, Present
  <2>4. ds' \in Sets \union {None}
    BY <1>5, <2>1, <2>3, CountType, StatusType DEF UpdateStatus, StateTypeOK
  <2> QED BY <1>5, <2>2, <2>4 DEF UpdateStatus, Written, Done, Fail, Requeue, End, StateTypeOK, PCs
<1>6. CASE ApiError
  <2>1. left' \in [Disruptions -> Nat]
    BY <1>6, SpendType DEF ApiError, StateTypeOK, Disruptions
  <2> QED BY <1>6, <2>1 DEF ApiError, Requeue, End, StateTypeOK, PCs
<1> QED BY <1>1, <1>2, <1>3, <1>4, <1>5, <1>6 DEF Controller

\* An informer that catches up, and a restart, keep what the caches mirror.
LEMMA SyncTypes == ASSUME StateTypeOK, Mirrored, Sync PROVE StateTypeOK' /\ Mirrored'
<1>1. /\ UNCHANGED <<nodes, ds, nextUid, cj, pc, rds, todo, left>>
      /\ dirty' \in BOOLEAN
      /\ CatchUp("ds") \/ CatchUp("cj") \/ CatchUp("nodes")
  BY DEF Sync, Delivered, SyncSet, SyncCronJobs, SyncNodes, StateTypeOK, local
<1>2. StateTypeOK'
  BY <1>1 DEF StateTypeOK, CatchUp, ApiView
<1>3. ApiView' = ApiView
  BY <1>1 DEF ApiView
<1>4. ASSUME NEW kind \in Kinds, CatchUp(kind) PROVE Mirrored'
  <2>1. cache' = [cache EXCEPT ![kind] = ApiView[kind]] /\ kind \in DOMAIN cache
    BY <1>4 DEF CatchUp, StateTypeOK, Kinds
  <2> QED BY <1>3, <1>4, <2>1 DEF CatchUp, Mirrored
<1> QED BY <1>1, <1>2, <1>4 DEF Kinds

\* As above.
LEMMA RestartTypes == ASSUME StateTypeOK, Restart PROVE StateTypeOK' /\ Mirrored'
<1>1. left' \in [Disruptions -> Nat]
  BY SpendType DEF Restart, StateTypeOK, Disruptions
<1>2. StateTypeOK'
  BY <1>1 DEF Restart, End, ApiView, StateTypeOK, PCs
<1>3. cache' = ApiView' /\ unseen' = {}
  BY DEF Restart, ApiView
<1> QED BY <1>2, <1>3 DEF Mirrored

\* A write is an event.
LEMMA EventsMirrored == ASSUME Mirrored, Events, cache' = cache PROVE Mirrored'
BY DEF Mirrored, Events

\* Every step keeps the types.
LEMMA TypeStep == TypeOK /\ [Next]_vars => TypeOK'
<1> SUFFICES ASSUME StateTypeOK, Mirrored, [Next]_vars PROVE StateTypeOK' /\ Mirrored'
    BY TypeParts DEF TypeOK, StateTypeOK, Mirrored
<1>1. CASE (CreateSet \/ EditSet \/ DeleteSet \/ DeleteCronJob \/ NodeChanges) /\ Events
  <2>1. cache' = cache
    BY <1>1 DEF CreateSet, EditSet, DeleteSet, DeleteCronJob, NodeChanges
  <2> QED BY <1>1, <2>1, UserTypes, EventsMirrored
<1>2. CASE (Collect \/ Controller \/ ApiError) /\ Events
  <2>1. cache' = cache
    BY <1>2 DEF Collect, Controller, ApiError, Reconcile, MatchingNodes,
       DeleteCronJobsOnMismatchedNode, DesiredCronJobs, ApplyCronJob, CountNodes, UpdateStatus
  <2> QED BY <1>2, <2>1, CollectTypes, ControllerTypes, EventsMirrored
<1>3. CASE UNCHANGED vars
  BY <1>3 DEF vars, StateTypeOK, Mirrored, ApiView
<1> QED BY <1>1, <1>2, <1>3, SyncTypes, RestartTypes DEF Next

\* Every object, cache and local copy is well typed in every state, and a cache that
\* has nothing unseen shows what there is.
THEOREM TypeCorrect == Spec => []TypeOK
<1>1. ASSUME Init PROVE TypeOK
  <2>1. cache = [ds |-> ds, cj |-> cj, nodes |-> nodes]
    BY <1>1 DEF Init, ApiView
  <2>2. nodes \in [Nodes -> NodeLabels] /\ cj \in [Nodes -> CronJobs \union {None}]
        /\ ds \in Sets \union {None} /\ nextUid \in 1..(MaxUid + 1)
    BY <1>1 DEF Init
  <2>3. cache \in [ds : Sets \union {None}, cj : [Nodes -> CronJobs \union {None}],
                   nodes : [Nodes -> NodeLabels]]
    BY <2>1, <2>2
  <2>4. left \in [Disruptions -> Nat] /\ dirty \in BOOLEAN /\ todo \in SUBSET Nodes
    BY <1>1 DEF Init
  <2>5. pc = "idle" /\ rds = None /\ pc \in PCs
    BY <1>1 DEF Init, PCs
  <2>6. StateTypeOK
    BY <2>2, <2>3, <2>4, <2>5 DEF StateTypeOK
  <2>7. Mirrored
    BY <1>1 DEF Init, Mirrored
  <2> QED BY <2>6, <2>7, TypeParts
<1> QED BY <1>1, TypeStep, PTL DEF Spec
-----------------------------------------------------------------------------
(* What there is at rest *)

\* The CronJob of n that the cache shows is the DaemonCronJobSet's own.
Held(n) == cache.cj[n] # None /\ cache.cj[n].owner = cache.ds.uid

\* Unless there is more to see of the CronJobs, those of the nodes N are there.
AllHeld(N) == "cj" \in unseen \/ \A n \in N : Held(n)

\* While nothing waits in the queue, a reconciliation works for the DaemonCronJobSet
\* of the cache; the nodes that it has done have their CronJobs, and so, once it has
\* applied them all, has every node that matches.
Progress ==
    \/ dirty
    \/ cache.ds = None
    \/ /\ pc # "idle" => rds = cache.ds
       /\ pc = "idle" /\ ~cache.ds.deleting => AllHeld(ListNodes(cache.nodes, cache.ds.selector))
       /\ pc = "apply" => AllHeld(ListNodes(cache.nodes, cache.ds.selector) \ todo)
       /\ pc = "status" => AllHeld(ListNodes(cache.nodes, cache.ds.selector))

\* What others do keeps it, up to the events it leaves to be seen.
LEMMA ProgressFrame ==
    ASSUME Progress, cache' = cache, dirty' = dirty, UNCHANGED local,
           unseen \subseteq unseen'
    PROVE  Progress'
BY DEF Progress, AllHeld, Held, local

\* An informer enqueues, unless it only takes nodes away.
LEMMA ProgressSync == ASSUME TypeOK, Progress, Sync PROVE Progress'
<1>1. dirty' \/ Delivered(SyncNodes)
  BY DEF Sync, Delivered, SyncSet, SyncCronJobs
<1>2. ASSUME Delivered(SyncNodes), ~dirty', cache.ds # None PROVE Progress'
  <2>1. ~dirty /\ pc' = pc /\ rds' = rds /\ todo' = todo
    BY <1>2 DEF Delivered, SyncNodes, local
  <2>2. /\ cache'.ds = cache.ds /\ cache'.cj = cache.cj /\ cache'.nodes = nodes
        /\ unseen' = unseen \ {"nodes"}
    BY <1>2 DEF Delivered, SyncNodes, CatchUp, TypeOK, ApiView
  <2>3. \A n \in Nodes : cache.nodes[n] # nodes[n] => nodes[n] = None
    BY <1>2 DEF Delivered, SyncNodes
  <2>4. ListNodes(cache'.nodes, cache'.ds.selector) \subseteq ListNodes(cache.nodes, cache.ds.selector)
    BY <2>2, <2>3 DEF ListNodes
  <2>5. \A n : Held(n) => Held(n)'
    BY <2>2 DEF Held
  <2> QED BY <1>2, <2>1, <2>2, <2>4, <2>5 DEF Progress, AllHeld
<1>3. cache'.ds = cache.ds \/ dirty'
  BY <1>1 DEF Delivered, SyncNodes, CatchUp, TypeOK
<1> QED BY <1>1, <1>2, <1>3 DEF Progress

\* A call of the controller does one more node, or asks to be called again.
LEMMA ProgressApply ==
    ASSUME TypeOK, Progress, Events, NEW n \in Nodes, ApplyCronJob(n)
    PROVE  Progress'
<1>1. cache' = cache /\ pc = "apply"
  BY DEF ApplyCronJob
<1>2. \/ dirty'
      \/ /\ dirty' = dirty /\ pc' = pc /\ rds' = rds /\ todo' = todo \ {n}
         /\ \/ cache.cj[n] # None /\ cache.cj[n].owner = rds.uid
            \/ cj' # cj
  <2>1. rds \in Sets /\ [owner |-> rds.uid, template |-> rds.template] \in CronJobs
    BY <1>1 DEF TypeOK, Sets, CronJobs
  <2>2. ASSUME cj[n] = None,
               cj' = [cj EXCEPT ![n] = [owner |-> rds.uid, template |-> rds.template]]
        PROVE  cj' # cj
    BY <2>1, <2>2 DEF TypeOK
  <2>3. ASSUME cj[n] # None, cj[n].owner # rds.uid, cj' = [cj EXCEPT ![n].owner = rds.uid]
        PROVE  cj' # cj
    <3>1. cj[n] \in CronJobs
      BY <2>3 DEF TypeOK
    <3>2. cj'[n].owner = rds.uid
      BY <2>3, <3>1 DEF TypeOK, CronJobs
    <3> QED BY <2>3, <3>2
  <2> QED BY <2>2, <2>3 DEF ApplyCronJob, NeedsUpdate, Written, Applied, Fail, Requeue
<1>3. cj' # cj => "cj" \in unseen'
  BY DEF Events, ApiView, Kinds
<1>4. unseen \subseteq unseen'
  BY DEF Events
<1> QED BY <1>1, <1>2, <1>3, <1>4 DEF Progress, AllHeld, Held

\* So do the others.
LEMMA ProgressOther ==
    ASSUME TypeOK, Progress, Events,
           Reconcile \/ MatchingNodes \/ DeleteCronJobsOnMismatchedNode \/ DesiredCronJobs
             \/ CountNodes \/ UpdateStatus \/ ApiError
    PROVE  Progress'
<1>1. unseen \subseteq unseen'
  BY DEF Events
<1>2. CASE Reconcile
  BY <1>2 DEF Progress, Reconcile, ToReconcile, local
<1>3. CASE MatchingNodes \/ DeleteCronJobsOnMismatchedNode
  BY <1>3 DEF Progress, MatchingNodes, DeleteCronJobsOnMismatchedNode
<1>4. CASE DesiredCronJobs \/ CountNodes
  BY <1>1, <1>4 DEF Progress, DesiredCronJobs, CountNodes, AllHeld, Held
<1>5. CASE UpdateStatus
  <2>1. dirty' \/ (dirty' = dirty /\ pc' = "idle" /\ cache' = cache /\ pc = "status")
    BY <1>5 DEF UpdateStatus, Written, Done, End, Fail, Requeue
  <2> QED BY <1>1, <2>1 DEF Progress, AllHeld, Held
<1>6. CASE ApiError
  BY <1>6 DEF Progress, ApiError, Requeue
<1> QED BY <1>2, <1>3, <1>4, <1>5, <1>6

\* Every step keeps it.
LEMMA ProgressStep == TypeOK /\ Progress /\ [Next]_vars => Progress'
<1> SUFFICES ASSUME TypeOK, Progress, [Next]_vars PROVE Progress'
    OBVIOUS
<1>1. CASE (CreateSet \/ EditSet \/ DeleteSet \/ DeleteCronJob \/ NodeChanges \/ Collect) /\ Events
  <2>1. cache' = cache /\ dirty' = dirty /\ UNCHANGED local /\ unseen \subseteq unseen'
    BY <1>1 DEF CreateSet, EditSet, DeleteSet, DeleteCronJob, NodeChanges, Collect, Events
  <2> QED BY <2>1, ProgressFrame
<1>2. CASE Restart
  <2>1. dirty' \/ cache'.ds = None
    BY <1>2 DEF Restart, ApiView
  <2> QED BY <2>1 DEF Progress
<1>3. CASE UNCHANGED vars
  BY <1>3, ProgressFrame DEF vars, local
<1> QED BY <1>1, <1>2, <1>3, ProgressSync, ProgressApply, ProgressOther DEF Next, Controller

\* Whatever joined, left, was relabelled or deleted, and whatever failed: when the
\* controller has come to rest, no node that matches is without its CronJob.
THEOREM EveryNodeServed == Spec => []EveryNodeHasItsCronJob
<1>1. Init => Progress
  BY DEF Init, Progress, ApiView
<1>2. TypeOK /\ Progress => EveryNodeHasItsCronJob
  <2> SUFFICES ASSUME TypeOK, Progress, Settled, Wanted
               PROVE  \A n \in ListNodes(nodes, ds.selector) : cj[n] # None /\ cj[n].owner = ds.uid
      BY DEF EveryNodeHasItsCronJob
  <2>1. cache.ds = ds /\ cache.cj = cj /\ cache.nodes = nodes
    BY DEF TypeOK, Settled, Kinds, ApiView
  <2> QED BY <2>1 DEF Progress, Settled, Wanted, AllHeld, Held
<1> QED BY <1>1, <1>2, TypeCorrect, ProgressStep, PTL DEF Spec
-----------------------------------------------------------------------------
(* What the status says at rest *)

\* The counts and the condition of d are those of the nodes and CronJobs given.
Counted(d, all, jobs) ==
    /\ d.desired = Cardinality(ListNodes(all, d.selector))
    /\ d.available = Cardinality(Present(jobs))
    /\ d.conds["Available"].status = C!ConditionStatus(d.desired = d.available)

\* While nothing waits in the queue and nothing runs, the cached status counts what the
\* caches have, unless there is more to see of it or of the CronJobs.
Reported ==
    ~dirty /\ pc = "idle" /\ cache.ds # None /\ ~cache.ds.deleting =>
        "ds" \in unseen \/ "cj" \in unseen \/ Counted(cache.ds, cache.nodes, cache.cj)

\* While nothing waits in the queue, the nodes that updateStatus has listed are still
\* those that match, unless there is more to see of the CronJobs.
Listed ==
    ~dirty /\ pc = "status" /\ cache.ds # None =>
        "cj" \in unseen \/ todo = ListNodes(cache.nodes, cache.ds.selector)

\* What updateStatus writes is counted.
LEMMA WithStatusCounted ==
    ASSUME NEW d \in Sets, NEW all, NEW jobs,
           d = WithStatus(d, Cardinality(ListNodes(all, d.selector)), Cardinality(Present(jobs)))
    PROVE  Counted(d, all, jobs)
<1>1. PICK desired, available :
         /\ desired = Cardinality(ListNodes(all, d.selector))
         /\ available = Cardinality(Present(jobs))
  OBVIOUS
<1>2. PICK c : c = C!SetPair(d.conds, desired = available, "")
  OBVIOUS
<1>3. d = [d EXCEPT !.desired = desired, !.available = available, !.conds = c]
  BY <1>1, <1>2 DEF WithStatus
<1>4. d.desired = desired /\ d.available = available /\ d.conds = c
  BY <1>3 DEF Sets
<1>5. c["Available"].status = C!ConditionStatus(desired = available)
  BY <1>2 DEF Sets, C!SetPair, C!Condition, C!ConditionLists, C!ConditionTypes
<1> QED BY <1>1, <1>4, <1>5 DEF Counted

\* An informer enqueues, unless it takes away nodes that have no CronJob and, once every
\* node that matches has one, do not match.
LEMMA QuietSync ==
    ASSUME TypeOK, Progress, Sync, ~dirty', cache'.ds # None, "cj" \notin unseen',
           pc = "status" \/ (pc = "idle" /\ ~cache'.ds.deleting)
    PROVE  /\ ~dirty /\ pc' = pc /\ todo' = todo /\ UNCHANGED <<cache.ds, cache.cj>>
           /\ "cj" \notin unseen /\ ("ds" \in unseen => "ds" \in unseen')
           /\ ListNodes(cache'.nodes, cache.ds.selector) = ListNodes(cache.nodes, cache.ds.selector)
<1>1. Delivered(SyncNodes)
  BY DEF Sync, Delivered, SyncSet, SyncCronJobs
<1>2. /\ cache'.ds = cache.ds /\ cache'.cj = cache.cj /\ cache'.nodes = nodes
      /\ unseen' = unseen \ {"nodes"} /\ pc' = pc /\ todo' = todo
  BY <1>1 DEF Delivered, SyncNodes, CatchUp, TypeOK, ApiView, local
<1>3. ~dirty /\ \A n \in Nodes : cache.nodes[n] # nodes[n] => nodes[n] = None /\ cache.cj[n] = None
  BY <1>1, <1>2 DEF Delivered, SyncNodes
<1>4. \A n \in ListNodes(cache.nodes, cache.ds.selector) : cache.cj[n] # None
  BY <1>2, <1>3 DEF Progress, AllHeld, Held
<1>5. ListNodes(nodes, cache.ds.selector) = ListNodes(cache.nodes, cache.ds.selector)
  BY <1>3, <1>4 DEF ListNodes
<1> QED BY <1>2, <1>3, <1>5

\* So the informers keep what is reported, and what is listed.
LEMMA ReportedSync ==
    ASSUME TypeOK, Progress, Reported, Listed, Sync
    PROVE  Reported' /\ Listed'
<1>0. UNCHANGED pc
  BY DEF Sync, Delivered, local
<1>1. ASSUME ~dirty', pc' = "idle", cache'.ds # None, ~cache'.ds.deleting,
             "cj" \notin unseen', "ds" \notin unseen'
      PROVE  Counted(cache'.ds, cache'.nodes, cache'.cj)
  <2>1. /\ ~dirty /\ cache'.ds = cache.ds /\ cache'.cj = cache.cj
        /\ "cj" \notin unseen /\ "ds" \notin unseen
        /\ ListNodes(cache'.nodes, cache.ds.selector) = ListNodes(cache.nodes, cache.ds.selector)
    BY <1>0, <1>1, QuietSync
  <2>2. Counted(cache.ds, cache.nodes, cache.cj)
    BY <1>0, <1>1, <2>1 DEF Reported
  <2> QED BY <2>1, <2>2 DEF Counted
<1>2. Reported' \/ (~dirty' /\ pc' = "idle" /\ cache'.ds # None /\ ~cache'.ds.deleting
                    /\ "cj" \notin unseen' /\ "ds" \notin unseen')
  BY DEF Reported
<1>3. Counted(cache'.ds, cache'.nodes, cache'.cj) => Reported'
  BY DEF Reported
<1>4. ASSUME ~dirty', pc' = "status", cache'.ds # None, "cj" \notin unseen'
      PROVE  todo' = ListNodes(cache'.nodes, cache'.ds.selector)
  <2>1. /\ ~dirty /\ todo' = todo /\ cache'.ds = cache.ds /\ "cj" \notin unseen
        /\ ListNodes(cache'.nodes, cache.ds.selector) = ListNodes(cache.nodes, cache.ds.selector)
    BY <1>0, <1>4, QuietSync
  <2> QED BY <1>0, <1>4, <2>1 DEF Listed
<1>5. Listed'
  BY <1>4 DEF Listed
<1> QED BY <1>1, <1>2, <1>3, <1>5

\* A reconciliation ends with the status it has counted, or asks for another one.
LEMMA ReportedStatus ==
    ASSUME TypeOK, Progress, Listed, Events, UpdateStatus
    PROVE  Reported'
<1>1. cache' = cache /\ pc = "status" /\ unseen \subseteq unseen'
  BY DEF UpdateStatus, Events
<1>2. \/ dirty'
      \/ /\ ~dirty /\ ds = rds
         /\ ds' = WithStatus(rds, Cardinality(todo), Cardinality(Present(cache.cj)))
  BY DEF UpdateStatus, Written, Done, Fail, Requeue
<1>3. rds \in Sets
  BY <1>1 DEF TypeOK
<1>4. ds' # ds => "ds" \in unseen'
  BY DEF Events, ApiView, Kinds
<1>5. ASSUME ~dirty', cache.ds # None, ds' = ds, "cj" \notin unseen
      PROVE  Counted(cache.ds, cache.nodes, cache.cj)
  <2>1. rds = cache.ds /\ todo = ListNodes(cache.nodes, rds.selector)
    BY <1>1, <1>2, <1>5 DEF Progress, Listed
  <2> QED BY <1>2, <1>3, <1>5, <2>1, WithStatusCounted
<1> QED BY <1>1, <1>4, <1>5 DEF Reported

\* Every step keeps both.
LEMMA ReportedStep ==
    ASSUME TypeOK, Progress, Reported, Listed, [Next]_vars
    PROVE  Reported' /\ Listed'
<1>1. CASE (CreateSet \/ EditSet \/ DeleteSet \/ DeleteCronJob \/ NodeChanges \/ Collect) /\ Events
  <2>1. /\ cache' = cache /\ dirty' = dirty /\ pc' = pc /\ todo' = todo
        /\ unseen \subseteq unseen'
    BY <1>1 DEF CreateSet, EditSet, DeleteSet, DeleteCronJob, NodeChanges, Collect, Events, local
  <2> QED BY <2>1 DEF Reported, Listed
<1>2. CASE Reconcile
  <2>1. /\ cache' = cache /\ (pc' # "idle" \/ cache.ds = None \/ cache.ds.deleting)
        /\ pc' # "status"
    BY <1>2 DEF Reconcile, ToReconcile, local
  <2> QED BY <2>1 DEF Reported, Listed
<1>3. CASE MatchingNodes \/ DeleteCronJobsOnMismatchedNode \/ DesiredCronJobs
  BY <1>3 DEF Reported, Listed, MatchingNodes, DeleteCronJobsOnMismatchedNode, DesiredCronJobs
<1>4. ASSUME NEW n \in Nodes, ApplyCronJob(n) PROVE Reported' /\ Listed'
  BY <1>4 DEF Reported, Listed, ApplyCronJob, Applied, Written, Fail, Requeue
<1>5. CASE CountNodes
  BY <1>5 DEF Progress, Reported, Listed, CountNodes
<1>6. CASE UpdateStatus /\ Events
  <2>1. dirty' \/ pc' = "idle"
    BY <1>6 DEF UpdateStatus, Written, Done, End, Fail, Requeue
  <2> QED BY <1>6, <2>1, ReportedStatus DEF Listed
<1>7. CASE ApiError
  BY <1>7 DEF ApiError, Requeue, Reported, Listed
<1>8. CASE Restart
  <2>1. dirty' \/ cache'.ds = None
    BY <1>8 DEF Restart, ApiView
  <2> QED BY <2>1 DEF Reported, Listed
<1>9. CASE UNCHANGED vars
  BY <1>9 DEF vars, Reported, Listed
<1> QED BY <1>1, <1>2, <1>3, <1>4, <1>5, <1>6, <1>7, <1>8, <1>9, ReportedSync
    DEF Next, Controller

\* At rest the status tells how many nodes match and how many CronJobs there are; and
\* although updateStatus compares numbers only, Available means that the CronJobs
\* are on the nodes that match, because none of these is without.
THEOREM StatusTrue == Spec => []StatusAtRest
<1>1. Init => Progress /\ Reported /\ Listed
  BY DEF Init, Progress, Reported, Listed, ApiView
<1>2. TypeOK /\ Reported /\ EveryNodeHasItsCronJob => StatusAtRest
  <2> SUFFICES ASSUME TypeOK, Reported, EveryNodeHasItsCronJob, Settled, Wanted
               PROVE  /\ ds.desired = Cardinality(ListNodes(nodes, ds.selector))
                      /\ ds.available = Cardinality(Present(cj))
                      /\ ds.conds["Available"].status = C!ConditionStatus(
                             Present(cj) = ListNodes(nodes, ds.selector))
      BY DEF StatusAtRest
  <2>1. cache.ds = ds /\ cache.cj = cj /\ cache.nodes = nodes
    BY DEF TypeOK, Settled, Kinds, ApiView
  <2>2. Counted(ds, nodes, cj)
    BY <2>1 DEF Reported, Settled, Wanted
  <2>3. ListNodes(nodes, ds.selector) \subseteq Present(cj) /\ Present(cj) \subseteq Nodes
    BY DEF EveryNodeHasItsCronJob, ListNodes, Present
  <2>4. IsFiniteSet(Present(cj))
    BY <2>3, FS_Subset
  <2>5. (ds.desired = ds.available) <=> (Present(cj) = ListNodes(nodes, ds.selector))
    BY <2>2, <2>3, <2>4, FS_Subset DEF Counted
  <2>6. C!ConditionStatus(ds.desired = ds.available)
          = C!ConditionStatus(Present(cj) = ListNodes(nodes, ds.selector))
    BY <2>5 DEF C!ConditionStatus
  <2> QED BY <2>2, <2>6 DEF Counted
<1> QED BY <1>1, <1>2, TypeCorrect, EveryNodeServed, ProgressStep, ReportedStep, PTL DEF Spec
-----------------------------------------------------------------------------
(* What is left on nodes that do not match, if no call fails *)

NoErrors == left["apiError"] = 0

\* A budget that is used up stays used up.
LEMMA NoErrorsStep ==
    ASSUME TypeOK, NoErrors, [Next]_vars
    PROVE  NoErrors'
<1>1. left \in [Disruptions -> Nat] /\ "apiError" \in Disruptions
  BY DEF TypeOK, Disruptions
<1>2. ASSUME NEW k \in Disruptions, Spend(k) PROVE NoErrors'
  BY <1>1, <1>2 DEF Spend, NoErrors
<1>3. CASE left' = left
  BY <1>3 DEF NoErrors
<1>4. left' = left \/ \E k \in Disruptions : Spend(k)
  BY DEF Disruptions, Next, CreateSet, EditSet, DeleteSet, DeleteCronJob, NodeChanges, Collect,
     Controller, Reconcile, MatchingNodes, DeleteCronJobsOnMismatchedNode, DesiredCronJobs,
     ApplyCronJob, CountNodes, UpdateStatus, Applied, Written, Done, Fail, ApiError, Sync, Delivered, Restart, vars
<1> QED BY <1>2, <1>3, <1>4

\* No CronJob in the cache is on a node that does not match, unless there is more to
\* see of the CronJobs.
NoneLeft ==
    "cj" \in unseen \/ Present(cache.cj) \subseteq ListNodes(cache.nodes, cache.ds.selector)

\* Nor will there be when the deletes have gone by the list of nodes.
NoneKept ==
    "cj" \in unseen
    \/ Present(cache.cj) \intersect todo \subseteq ListNodes(cache.nodes, cache.ds.selector)

\* While nothing waits in the queue, this is so from the deletes on.
Cleared ==
    ~dirty /\ cache.ds # None =>
        /\ pc = "idle" /\ ~cache.ds.deleting => NoneLeft
        /\ pc = "delete" => NoneKept
        /\ pc \in {"list", "apply", "status"} => NoneLeft

\* An informer enqueues, unless it only takes away nodes without a CronJob.
LEMMA ClearedSync == ASSUME TypeOK, Cleared, Sync PROVE Cleared'
<1>1. dirty' \/ Delivered(SyncNodes)
  BY DEF Sync, Delivered, SyncSet, SyncCronJobs
<1>2. ASSUME Delivered(SyncNodes), ~dirty', cache.ds # None PROVE Cleared'
  <2>1. /\ cache'.ds = cache.ds /\ cache'.cj = cache.cj /\ cache'.nodes = nodes
        /\ unseen' = unseen \ {"nodes"} /\ pc' = pc /\ todo' = todo
    BY <1>2 DEF Delivered, SyncNodes, CatchUp, TypeOK, ApiView, local
  <2>2. ~dirty /\ \A n \in Nodes : cache.nodes[n] # nodes[n] => cache.cj[n] = None
    BY <1>2, <2>1 DEF Delivered, SyncNodes
  <2>3. (NoneLeft => NoneLeft') /\ (NoneKept => NoneKept')
    BY <2>1, <2>2 DEF NoneLeft, NoneKept, Present, ListNodes
  <2> QED BY <1>2, <2>1, <2>2, <2>3 DEF Cleared
<1>3. cache'.ds = cache.ds \/ dirty'
  BY <1>1 DEF Delivered, SyncNodes, CatchUp, TypeOK
<1> QED BY <1>1, <1>2, <1>3 DEF Cleared

\* The deletes: a CronJob that is not in the cache only is seen to go.
LEMMA ClearedDeletes ==
    ASSUME TypeOK, Progress, NoErrors, Cleared, Events, DeleteCronJobsOnMismatchedNode
    PROVE  Cleared'
<1>1. /\ cache' = cache /\ pc = "delete" /\ pc' = "list" /\ dirty' = dirty
      /\ unseen \subseteq unseen'
  BY DEF DeleteCronJobsOnMismatchedNode, Events
<1>2. cj' # cj => "cj" \in unseen'
  BY DEF Events, ApiView, Kinds
<1>3. "cj" \in unseen \/ cache.cj = cj
  BY DEF TypeOK, ApiView, Kinds
<1>4. ASSUME ~dirty, cache.ds # None, "cj" \notin unseen', NEW n \in Present(cache.cj)
      PROVE  n \in ListNodes(cache.nodes, cache.ds.selector)
  <2>1. rds = cache.ds /\ cache.cj = cj /\ cj' = cj
    BY <1>1, <1>2, <1>3, <1>4 DEF Progress
  <2>2. PICK gone : gone = Present(cache.cj) \ todo
    OBVIOUS
  <2>3. gone \intersect Present(cj) = gone
    BY <2>1, <2>2
  <2>4. cj' = [i \in Nodes |-> IF i \in gone THEN None ELSE cj[i]]
    BY <2>2, <2>3 DEF DeleteCronJobsOnMismatchedNode, Spend, NoErrors
  <2>5. n \notin gone
    BY <1>4, <2>1, <2>4 DEF Present
  <2>6. Present(cache.cj) \intersect todo \subseteq ListNodes(cache.nodes, cache.ds.selector)
    BY <1>1, <1>4 DEF Cleared, NoneKept
  <2> QED BY <1>4, <2>2, <2>5, <2>6
<1> QED BY <1>1, <1>4 DEF Cleared, NoneLeft

\* Every step keeps it, as long as none of the deletes fails.
LEMMA ClearedStep ==
    ASSUME TypeOK, Progress, NoErrors, Cleared, [Next]_vars
    PROVE  Cleared'
<1>1. CASE (CreateSet \/ EditSet \/ DeleteSet \/ DeleteCronJob \/ NodeChanges \/ Collect) /\ Events
  <2>1. /\ cache' = cache /\ dirty' = dirty /\ pc' = pc /\ todo' = todo
        /\ unseen \subseteq unseen'
    BY <1>1 DEF CreateSet, EditSet, DeleteSet, DeleteCronJob, NodeChanges, Collect, Events, local
  <2> QED BY <2>1 DEF Cleared, NoneLeft, NoneKept
<1>2. CASE Reconcile
  <2>1. cache' = cache /\ (pc' = "listNodes" \/ (pc' = "idle" /\ (cache.ds = None \/ cache.ds.deleting)))
    BY <1>2 DEF Reconcile, ToReconcile, local
  <2> QED BY <2>1 DEF Cleared
<1>3. CASE (MatchingNodes \/ DesiredCronJobs \/ CountNodes) /\ Events
  <2>1. CASE MatchingNodes
    BY <2>1 DEF Progress, Cleared, NoneKept, MatchingNodes
  <2>2. CASE DesiredCronJobs \/ CountNodes
    BY <1>3, <2>2 DEF Cleared, NoneLeft, DesiredCronJobs, CountNodes, Events
  <2> QED BY <1>3, <2>1, <2>2
<1>4. ASSUME NEW n \in Nodes, ApplyCronJob(n), Events PROVE Cleared'
  <2>1. cache' = cache /\ unseen \subseteq unseen' /\ pc = "apply"
    BY <1>4 DEF ApplyCronJob, Events
  <2>2. dirty' \/ (dirty' = dirty /\ pc' = pc)
    BY <1>4 DEF ApplyCronJob, Applied, Written, Fail, Requeue
  <2> QED BY <2>1, <2>2 DEF Cleared, NoneLeft
<1>5. CASE UpdateStatus /\ Events
  <2>1. cache' = cache /\ unseen \subseteq unseen' /\ pc = "status"
    BY <1>5 DEF UpdateStatus, Events
  <2>2. dirty' \/ (dirty' = dirty /\ pc' = "idle")
    BY <1>5 DEF UpdateStatus, Written, Done, End, Fail, Requeue
  <2> QED BY <2>1, <2>2 DEF Cleared, NoneLeft
<1>6. CASE ApiError
  BY <1>6 DEF ApiError, Requeue, Cleared
<1>7. CASE Restart
  <2>1. dirty' \/ cache'.ds = None
    BY <1>7 DEF Restart, ApiView
  <2> QED BY <2>1 DEF Cleared
<1>8. CASE UNCHANGED vars
  BY <1>8 DEF vars, Cleared, NoneLeft, NoneKept
<1> QED BY <1>1, <1>2, <1>3, <1>4, <1>5, <1>6, <1>7, <1>8, ClearedSync, ClearedDeletes
        DEF Next, Controller

\* Unless a delete fails, which Reconcile only logs, the nodes that have a CronJob at
\* rest are those that match.
THEOREM NoStrayCronJob ==
    ASSUME Budget["apiError"] = 0
    PROVE  Spec => []OneCronJobPerNode
<1>1. Init => Progress /\ NoErrors /\ Cleared
  BY DEF Init, Progress, NoErrors, Cleared, ApiView
<1>2. TypeOK /\ Cleared /\ EveryNodeHasItsCronJob => OneCronJobPerNode
  <2> SUFFICES ASSUME TypeOK, Cleared, EveryNodeHasItsCronJob, Settled, Wanted
               PROVE  Present(cj) = ListNodes(nodes, ds.selector)
      BY DEF OneCronJobPerNode
  <2>1. cache.ds = ds /\ cache.cj = cj /\ cache.nodes = nodes
    BY DEF TypeOK, Settled, Kinds, ApiView
  <2>2. Present(cj) \subseteq ListNodes(nodes, ds.selector)
    BY <2>1 DEF Cleared, NoneLeft, Settled, Wanted
  <2>3. ListNodes(nodes, ds.selector) \subseteq Present(cj)
    BY DEF EveryNodeHasItsCronJob, ListNodes, Present
  <2> QED BY <2>2, <2>3
<1>3. TypeOK /\ Progress /\ NoErrors /\ Cleared /\ [Next]_vars => NoErrors' /\ Cleared'
  BY NoErrorsStep, ClearedStep
<1> QED BY <1>1, <1>2, <1>3, TypeCorrect, EveryNodeServed, ProgressStep, PTL DEF Spec
-----------------------------------------------------------------------------
(* A deletion in the foreground *)

\* No user, node or garbage collector makes a CronJob, or undoes a deletion.
LEMMA OthersKeepDeleted ==
    ASSUME TypeOK, SeenDeleted,
           CreateSet \/ EditSet \/ DeleteSet \/ DeleteCronJob \/ NodeChanges \/ Collect
    PROVE  /\ ds' = None \/ (ds' # None /\ ds'.deleting /\ ds'.uid = ds.uid)
           /\ cache' = cache /\ pc' = pc
           /\ \A n \in Nodes : cj'[n] \in {cj[n], None}
<1>1. ds \in Sets /\ cj \in [Nodes -> CronJobs \union {None}]
  BY DEF TypeOK, SeenDeleted
<1>2. CASE CreateSet \/ DeleteSet
  BY <1>2 DEF CreateSet, DeleteSet, SeenDeleted
<1>3. CASE EditSet
  <2>1. ds' \in Sets /\ ds'.deleting = ds.deleting /\ ds'.uid = ds.uid
    BY <1>1, <1>3 DEF EditSet, Sets
  <2> QED BY <1>3, <2>1 DEF EditSet, SeenDeleted, local
<1>4. CASE DeleteCronJob \/ NodeChanges \/ Collect
  BY <1>1, <1>4 DEF DeleteCronJob, NodeChanges, Collect, Present, SeenDeleted, local
<1> QED BY <1>2, <1>3, <1>4

\* The controller does not start on what it knows to be deleted.
LEMMA ControllerRests ==
    ASSUME SeenDeleted, Controller \/ ApiError
    PROVE  UNCHANGED <<ds, cj, cache, pc>>
BY DEF SeenDeleted, Controller, ApiError, Reconcile, ToReconcile, local,
       MatchingNodes, DeleteCronJobsOnMismatchedNode, DesiredCronJobs, ApplyCronJob,
       CountNodes, UpdateStatus

\* News of the DaemonCronJobSet are news of a deletion, also after a restart.
LEMMA NewsKeepDeleted ==
    ASSUME TypeOK, SeenDeleted, Sync \/ Restart
    PROVE  SeenDeleted' /\ ds' = ds /\ cj' = cj
<1>1. cache'.ds \in {cache.ds, ds}
  <2>1. CASE Restart
    BY <2>1 DEF Restart, ApiView
  <2>2. CASE Sync
    <3>1. PICK kind \in Kinds : cache' = [cache EXCEPT ![kind] = ApiView[kind]]
      BY <2>2 DEF Sync, SyncSet, SyncCronJobs, SyncNodes, Delivered, CatchUp, Kinds
    <3>2. cache'.ds = IF kind = "ds" THEN ApiView.ds ELSE cache.ds
      BY <3>1 DEF TypeOK, Kinds
    <3> QED BY <3>2 DEF ApiView
  <2> QED BY <2>1, <2>2
<1>2. ds' = ds /\ cj' = cj /\ pc' = "idle"
  BY DEF SeenDeleted, Sync, Delivered, Restart, End, local
<1> QED BY <1>1, <1>2 DEF SeenDeleted

\* However often it is edited, relabelled around and restarted: once the cache shows
\* the deletion and no reconciliation is under way, a DaemonCronJobSet that is being
\* deleted only loses CronJobs, until it has gone.
THEOREM NothingPutBack == Spec => PutsNothingBack
<1> DEFINE Step ==
      SeenDeleted => /\ ds' = None \/ (SeenDeleted' /\ ds'.uid = ds.uid)
                     /\ \A n \in Nodes : cj'[n] \in {cj[n], None}
<1>1. ASSUME TypeOK, [Next]_vars, SeenDeleted PROVE Step
  <2>1. CASE CreateSet \/ EditSet \/ DeleteSet \/ DeleteCronJob \/ NodeChanges \/ Collect
    BY <1>1, <2>1, OthersKeepDeleted DEF SeenDeleted
  <2>2. CASE Controller \/ ApiError
    BY <1>1, <2>2, ControllerRests DEF SeenDeleted
  <2>3. CASE Sync \/ Restart
    BY <1>1, <2>3, NewsKeepDeleted
  <2>4. CASE UNCHANGED vars
    BY <2>4 DEF vars, SeenDeleted
  <2> QED BY <1>1, <2>1, <2>2, <2>3, <2>4 DEF Next
<1>2. TypeOK /\ [Next]_vars => [Step]_vars
  BY <1>1
<1> QED BY <1>2, TypeCorrect, PTL DEF Spec, PutsNothingBack
=============================================================================
