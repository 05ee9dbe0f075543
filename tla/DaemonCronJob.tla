----------------------------- MODULE DaemonCronJob -----------------------------
(***************************************************************************)
(* internal/controller/daemoncronjob_controller.go: the reconciler of one  *)
(* DaemonCronJob, which keeps a CronJob whose Jobs are broadcast runs, the *)
(* objects it works on, the CronJob controller, users, nodes and garbage   *)
(* collector that change them, and its informer caches.                    *)
(*                                                                         *)
(* Every tick of the schedule makes one broadcast Job, which runs module   *)
(* Broadcast once.  The actions of the reconciler are cut as in module     *)
(* DaemonJob, one per call that writes.  Neither the reconciler nor a run  *)
(* reads the status of a worker Job: here worker Jobs run until deleted.   *)
(***************************************************************************)
EXTENDS Naturals, FiniteSets

CONSTANTS Nodes,              \* node names
          MaxUid,             \* bound: incarnations of the DaemonCronJob
          MaxCronJobs,        \* bound: CronJobs ever created
          MaxTicks,           \* bound: ticks of the schedule
          Labelled,           \* whether cronJobTemplate.metadata.labels may be given or not
          ConcurrencyPolicy,  \* "Allow", "Forbid" or "Replace"
          Budgets,            \* bound: alternatives of how often each of them may happen
          None                \* absent object

Uids == 1..MaxUid
CronJobIds == 1..MaxCronJobs
Ticks == 1..MaxTicks

Happenings == {"create", "tick", "delete", "edit", "deleteSA", "deleteCRB",
               "deleteCronJob", "addNode", "removeNode", "crashRun", "restart",
               "apiError", "lostReply"}

ASSUME BoundsAssumption ==
    /\ MaxUid \in Nat
    /\ MaxCronJobs \in Nat
    /\ MaxTicks \in Nat
    /\ Labelled \subseteq BOOLEAN
    /\ ConcurrencyPolicy \in {"Allow", "Forbid", "Replace"}
    /\ Budgets \subseteq [Happenings -> Nat]

VARIABLES
    nodes,     \* existing nodes (all match the nodeSelector)
    dcj,       \* the DaemonCronJob
    nextUid,   \* uid of its next incarnation
    sa,        \* owner uid of the broadcast ServiceAccount
    crb,       \* TRUE when the broadcast ClusterRoleBinding exists; it has no owner
    cj,        \* the CronJob: its id, its owner uid, the ticks in its status.active
    nextCj,    \* id of the next CronJob
    jobs,      \* the CronJob that owns the broadcast Job of each tick
    work,      \* worker Jobs by tick and node
    bc,        \* the broadcast run of each tick
    cache,     \* the controller's informer caches
    unseen,    \* kinds with events that their informer has yet to deliver
    dirty,     \* TRUE when the key waits in the controller's queue
    pc,        \* the next call of the reconciliation
    rdcj,      \* its local copy of the DaemonCronJob
    rnodes,    \* the nodes it has listed
    left       \* what is left of the budget

vars == <<nodes, dcj, nextUid, sa, crb, cj, nextCj, jobs, work, bc, cache, unseen,
          dirty, pc, rdcj, rnodes, left>>

local == <<pc, rdcj, rnodes>>

\* What the controller never writes.
others == <<nodes, nextUid, jobs, bc, cache>>

\* The controller passes Available for the progressing type it does not use.  What
\* is not found is left out, as in module Cluster.
C == INSTANCE Conditions WITH TypeAvailable   <- "Available",
                              TypeProgressing <- "Available",
                              TypeDegraded    <- "Degraded",
                              Messages        <- {"", "not found"},
                              NoMessage       <- ""

\* A broadcast Job's name ends with its scheduled time: no two share a name.
WorkerKeys == Ticks \X Nodes
WorkerName == [t \in Ticks |-> [n \in Nodes |-> <<t, n>>]]

R == INSTANCE Broadcast WITH owner     <- dcj # None,
                             Jobs      <- Ticks,
                             Keys      <- WorkerKeys,
                             WorkerKey <- WorkerName

DaemonCronJobs == [uid : Uids, deleting : BOOLEAN, fin : BOOLEAN, labelled : BOOLEAN,
                   conds : C!ConditionLists, since : BOOLEAN]
CronJobs == [id : CronJobIds, owner : Uids, active : SUBSET Ticks]

Caches == [dcj : DaemonCronJobs \union {None}, sa : Uids \union {None}, crb : BOOLEAN,
           cj : CronJobs \union {None}, work : SUBSET WorkerKeys, nodes : SUBSET Nodes]

ASSUME NoneAssumption ==
    /\ None \notin Uids
    /\ None \notin CronJobIds
    /\ None \notin DaemonCronJobs
    /\ None \notin CronJobs
    /\ None \notin R!Workers

Applying == {"listNodes", "deleteWorkers", "applySA", "applyCRB", "applyCronJob", "status"}
Finalizing == {"onDelete", "removeFinalizer"}
PCs == {"idle", "addFinalizer"} \union Applying \union Finalizing

Existing == {k \in WorkerKeys : work[k] # None}

ApiView == [dcj |-> dcj, sa |-> sa, crb |-> crb, cj |-> cj, work |-> Existing,
            nodes |-> nodes]
Kinds == {"dcj", "sa", "crb", "cj", "work", "nodes"}

Spend(kind) == left[kind] > 0 /\ left' = [left EXCEPT ![kind] = left[kind] - 1]

LiveUids == IF dcj = None THEN {} ELSE {dcj.uid}
LiveCronJobs == IF cj = None THEN {} ELSE {cj.id}
LiveJobs == {t \in Ticks : jobs[t] # None}
-----------------------------------------------------------------------------
(* Users and nodes *)

CreateDaemonCronJob ==
    /\ dcj = None
    /\ nextUid \in Uids
    /\ Spend("create")
    /\ \E l \in Labelled :
          dcj' = [uid |-> nextUid, deleting |-> FALSE, fin |-> FALSE, labelled |-> l,
                  conds |-> C!NoConditions, since |-> FALSE]
    /\ nextUid' = nextUid + 1
    /\ UNCHANGED <<nodes, sa, crb, cj, nextCj, jobs, work, bc>>

\* A user gives the CronJob's template labels, or takes them away.
EditDaemonCronJob ==
    /\ dcj # None
    /\ Spend("edit")
    /\ \E l \in Labelled \ {dcj.labelled} : dcj' = [dcj EXCEPT !.labelled = l]
    /\ UNCHANGED <<nodes, nextUid, sa, crb, cj, nextCj, jobs, work, bc>>

\* A finalizer turns a delete into a deletionTimestamp.
DeleteDaemonCronJob ==
    /\ dcj # None
    /\ ~dcj.deleting
    /\ Spend("delete")
    /\ dcj' = IF dcj.fin THEN [dcj EXCEPT !.deleting = TRUE] ELSE None
    /\ UNCHANGED <<nodes, nextUid, sa, crb, cj, nextCj, jobs, work, bc>>

DeleteResource ==
    /\ \/ sa # None /\ Spend("deleteSA") /\ sa' = None /\ UNCHANGED <<crb, cj>>
       \/ crb /\ Spend("deleteCRB") /\ crb' = FALSE /\ UNCHANGED <<sa, cj>>
       \/ cj # None /\ Spend("deleteCronJob") /\ cj' = None /\ UNCHANGED <<sa, crb>>
    /\ UNCHANGED <<nodes, dcj, nextUid, nextCj, jobs, work, bc>>

NodeChanges ==
    /\ \E n \in Nodes :
          \/ n \in nodes /\ Spend("removeNode") /\ nodes' = nodes \ {n}
          \/ n \notin nodes /\ Spend("addNode") /\ nodes' = nodes \union {n}
    /\ UNCHANGED <<dcj, nextUid, sa, crb, cj, nextCj, jobs, work, bc>>
-----------------------------------------------------------------------------
(* CronJob controller, Job controller, broadcast pods and garbage collector *)

\* The next tick: a broadcast Job, unless the policy forbids it while another is
\* active; Replace deletes the active ones.
Tick ==
    /\ cj # None
    /\ Spend("tick")
    /\ ConcurrencyPolicy = "Forbid" => cj.active = {}
    /\ LET replaced == IF ConcurrencyPolicy = "Replace" THEN cj.active ELSE {}
       IN  \E t \in Ticks :
              /\ bc[t].pc = "unused" /\ \A i \in Ticks : i < t => bc[i].pc # "unused"
              /\ jobs' = [i \in Ticks |-> IF i = t THEN cj.id
                                          ELSE IF i \in replaced THEN None ELSE jobs[i]]
              /\ bc' = [bc EXCEPT ![t].pc = "read"]
              /\ cj' = [cj EXCEPT !.active = (cj.active \ replaced) \union {t}]
    /\ UNCHANGED <<nodes, dcj, nextUid, sa, crb, nextCj, work>>

Unfinished(t) == R!JobOutcome(t) = "progressing"

\* The CronJob controller drops finished and missing Jobs from status.active.
UpdateActive ==
    /\ cj # None
    /\ cj' = [cj EXCEPT !.active = {t \in cj.active : t \in LiveJobs /\ Unfinished(t)}]
    /\ cj' # cj
    /\ UNCHANGED <<nodes, dcj, nextUid, sa, crb, nextCj, jobs, work, bc, left>>

\* The history limits: the CronJob controller deletes a finished broadcast Job.
RetireJob ==
    /\ \E t \in LiveJobs :
          jobs[t] \in LiveCronJobs /\ ~Unfinished(t) /\ jobs' = [jobs EXCEPT ![t] = None]
    /\ UNCHANGED <<nodes, dcj, nextUid, sa, crb, cj, nextCj, work, bc, left>>

\* A pod needs its ServiceAccount to be admitted.
RunStep ==
    /\ \E t \in Ticks : (bc[t].pc = "read" => sa # None) /\ R!Step(t)
    /\ UNCHANGED <<nodes, dcj, nextUid, sa, crb, cj, nextCj, jobs, left>>

\* The pod of a deleted Job is killed, though not at once; others may crash.
RunDies ==
    /\ \E t \in Ticks :
          /\ R!Crash(t)
          /\ IF t \in LiveJobs THEN Spend("crashRun") ELSE UNCHANGED left
    /\ UNCHANGED <<nodes, dcj, nextUid, sa, crb, cj, nextCj, jobs>>

\* Owned objects go once no object has their owner's uid.
Collect ==
    /\ \/ sa # None /\ sa \notin LiveUids /\ sa' = None /\ UNCHANGED <<cj, jobs, work>>
       \/ cj # None /\ cj.owner \notin LiveUids /\ cj' = None /\ UNCHANGED <<sa, jobs, work>>
       \/ /\ \E t \in LiveJobs :
                jobs[t] \notin LiveCronJobs /\ jobs' = [jobs EXCEPT ![t] = None]
          /\ UNCHANGED <<sa, cj, work>>
       \/ /\ \E k \in Existing :
                work[k].job \in Ticks \ LiveJobs /\ work' = [work EXCEPT ![k] = None]
          /\ UNCHANGED <<sa, cj, jobs>>
    /\ UNCHANGED <<nodes, dcj, nextUid, crb, nextCj, bc, left>>
-----------------------------------------------------------------------------
(* Informers: SetupWithManager *)

\* Every change of an object is an event, even if the next one undoes it.
Events == unseen' = unseen \union {k \in Kinds : ApiView'[k] # ApiView[k]}

\* The informer of a kind catches up with all its events.
CatchUp(kind) ==
    /\ kind \in unseen
    /\ unseen' = unseen \ {kind}
    /\ cache' = [cache EXCEPT ![kind] = ApiView[kind]]

SyncDaemonCronJob == CatchUp("dcj") /\ dirty' = TRUE

SyncServiceAccount == CatchUp("sa") /\ dirty' = TRUE

\* Owns finds no owner reference on a ClusterRoleBinding: nothing is enqueued.
SyncClusterRoleBinding == CatchUp("crb") /\ UNCHANGED dirty

\* Mutant of SyncCronJob: the CronJobs are not among the owned kinds.
SyncCronJobUnwatched == CatchUp("cj") /\ UNCHANGED dirty

SyncCronJob == CatchUp("cj") /\ dirty' = TRUE

\* The cache of the Jobs serves the lists; there is no watch on them.
SyncJobs == CatchUp("work") /\ UNCHANGED dirty

\* Only deleted nodes are watched; a node enqueues the DaemonCronJobs that have a
\* worker Job on it in the cache.  Nodes in again have left and are back.
SyncNodes ==
    /\ CatchUp("nodes")
    /\ \E again \in SUBSET nodes :
          dirty' = (dirty \/ \E k \in cache.work : k[2] \in (cache.nodes \ nodes) \union again)

Sync ==
    /\ \/ SyncDaemonCronJob \/ SyncServiceAccount \/ SyncClusterRoleBinding
       \/ SyncCronJob \/ SyncJobs \/ SyncNodes
    /\ UNCHANGED <<nodes, dcj, nextUid, sa, crb, cj, nextCj, jobs, work, bc, local, left>>
-----------------------------------------------------------------------------
(* Ends of a call *)

Goto(next) == pc' = next /\ UNCHANGED <<rdcj, rnodes, dirty, left>>

End == pc' = "idle" /\ rdcj' = None /\ rnodes' = {}

\* Mutant of Done: every reconciliation asks for another one.
DoneForNow == End /\ dirty' = TRUE /\ UNCHANGED left

\* ctrl.Result{}, nil: the key leaves the queue.
Done == End /\ UNCHANGED <<dirty, left>>

\* An error, or a panic, which controller-runtime recovers: the key goes back to
\* the queue, with backoff.
Requeue == End /\ dirty' = TRUE

Fail == Requeue /\ UNCHANGED left

\* A write that took effect goes on with A, unless its reply is lost and the
\* controller sees an error instead.
Written(A) == A \/ (Requeue /\ Spend("lostReply"))
-----------------------------------------------------------------------------
(* The reconciler *)

\* Mutant of FirstCall: a DaemonCronJob that is not being deleted is applied at once.
FirstCallWithoutFinalizer(d) == IF d.deleting THEN "onDelete" ELSE "listNodes"

\* What Reconcile calls first for the DaemonCronJob d.
FirstCall(d) ==
    CASE d.deleting            -> "onDelete"
      [] ~d.deleting /\ d.fin  -> "listNodes"
      [] ~d.deleting /\ ~d.fin -> "addFinalizer"

\* There is something to do for d, which the cache has.
ToReconcile(d) == d # None /\ (d.deleting => d.fin)

Reconcile ==
    /\ pc = "idle"
    /\ dirty
    /\ dirty' = FALSE
    /\ IF ToReconcile(cache.dcj)
       THEN rdcj' = cache.dcj /\ pc' = FirstCall(cache.dcj) /\ UNCHANGED rnodes
       ELSE UNCHANGED local
    /\ UNCHANGED <<dcj, sa, crb, cj, nextCj, work, others, left>>

\* Mutant of AddFinalizer: a merge patch, which has no resourceVersion to conflict.
PatchFinalizer ==
    /\ pc = "addFinalizer"
    /\ \/ /\ dcj # None
          /\ dcj' = [dcj EXCEPT !.fin = TRUE]
          /\ pc' = "listNodes" /\ rdcj' = [rdcj EXCEPT !.fin = TRUE]
          /\ UNCHANGED <<rnodes, dirty, left>>
       \/ dcj = None /\ Fail /\ UNCHANGED dcj
    /\ UNCHANGED <<sa, crb, cj, nextCj, work, others>>

\* The DaemonCronJob is written with the resourceVersion of rdcj: any other state
\* of it in the API server is a Conflict, its absence a NotFound.
AddFinalizer ==
    /\ pc = "addFinalizer"
    /\ \/ /\ dcj = rdcj
          /\ dcj' = [rdcj EXCEPT !.fin = TRUE]
          /\ Written(/\ pc' = "listNodes" /\ rdcj' = [rdcj EXCEPT !.fin = TRUE]
                     /\ UNCHANGED <<rnodes, dirty, left>>)
       \/ dcj # rdcj /\ Fail /\ UNCHANGED dcj
    /\ UNCHANGED <<sa, crb, cj, nextCj, work, others>>

\* Mutant of OnDelete: deletes by name, without a list of what there is to delete.
DeleteByName ==
    /\ pc = "onDelete"
    /\ \/ crb /\ crb' = FALSE /\ Written(Goto("removeFinalizer"))
       \/ ~crb /\ Fail /\ UNCHANGED crb
    /\ UNCHANGED <<dcj, sa, cj, nextCj, work, others>>

\* onDelete deletes what the cache lists; a NotFound is an error.
OnDelete ==
    /\ pc = "onDelete"
    /\ \/ ~cache.crb /\ Goto("removeFinalizer") /\ UNCHANGED crb
       \/ cache.crb /\ crb /\ crb' = FALSE /\ Written(Goto("removeFinalizer"))
       \/ cache.crb /\ ~crb /\ Fail /\ UNCHANGED crb
    /\ UNCHANGED <<dcj, sa, cj, nextCj, work, others>>

\* The last finalizer of a deleted object: the API server removes the object.
RemoveFinalizer ==
    /\ pc = "removeFinalizer"
    /\ \/ dcj = rdcj /\ dcj' = None /\ Written(Done)
       \/ dcj # rdcj /\ Fail /\ UNCHANGED dcj
    /\ UNCHANGED <<sa, crb, cj, nextCj, work, others>>

\* The nodes are listed before the worker Jobs, and both caches move on in between.
ListNodes ==
    /\ pc = "listNodes"
    /\ pc' = "deleteWorkers"
    /\ rnodes' = cache.nodes
    /\ UNCHANGED <<rdcj, dcj, sa, crb, cj, nextCj, work, others, dirty, left>>

\* The worker Jobs in the cache whose node is not listed, deleted by name one after the
\* other, in any order, until one delete fails; Reconcile only logs the error.
DeleteWorkerJobsOnNotExistNode ==
    /\ pc = "deleteWorkers"
    /\ LET gone   == {k \in cache.work : k[2] \notin rnodes}
           exist  == gone \intersect Existing
           Delete(D) == work' = [k \in WorkerKeys |-> IF k \in D THEN None ELSE work[k]]
       IN  \/ gone = exist /\ Delete(gone) /\ UNCHANGED left
           \/ gone # exist /\ (\E D \in SUBSET exist : Delete(D)) /\ UNCHANGED left
           \/ gone # {} /\ (\E D \in SUBSET exist : Delete(D)) /\ Spend("apiError")
    /\ pc' = "applySA"
    /\ rnodes' = {}
    /\ UNCHANGED <<rdcj, dcj, sa, crb, cj, nextCj, others, dirty>>

\* CreateOrUpdate: create when the cache has no object; otherwise write the owner
\* reference, and only if it is not this incarnation's already.
ApplyServiceAccount ==
    /\ pc = "applySA"
    /\ \/ cache.sa = rdcj.uid /\ Goto("applyCRB") /\ UNCHANGED sa
       \/ cache.sa # rdcj.uid /\ sa = cache.sa /\ sa' = rdcj.uid /\ Written(Goto("applyCRB"))
       \/ cache.sa # rdcj.uid /\ sa # cache.sa /\ Fail /\ UNCHANGED sa
    /\ UNCHANGED <<dcj, crb, cj, nextCj, work, others>>

\* Mutant of ApplyClusterRoleBinding: created along with the ServiceAccount only.
ApplyClusterRoleBindingOnce ==
    /\ pc = "applyCRB"
    /\ \/ cache.sa # None /\ Goto("applyCronJob") /\ UNCHANGED crb
       \/ cache.sa = None /\ ~crb /\ crb' = TRUE /\ Written(Goto("applyCronJob"))
       \/ cache.sa = None /\ crb /\ Fail /\ UNCHANGED crb
    /\ UNCHANGED <<dcj, sa, cj, nextCj, work, others>>

\* CreateOrUpdate with no mutation: create when the cache has no object.
ApplyClusterRoleBinding ==
    /\ pc = "applyCRB"
    /\ \/ cache.crb /\ Goto("applyCronJob") /\ UNCHANGED crb
       \/ ~cache.crb /\ ~crb /\ crb' = TRUE /\ Written(Goto("applyCronJob"))
       \/ ~cache.crb /\ crb /\ Fail /\ UNCHANGED crb
    /\ UNCHANGED <<dcj, sa, cj, nextCj, work, others>>

\* CronJob copies its labels into the template's map, which is nil, and panics,
\* unless the user has given labels.
ApplyCronJob ==
    /\ pc = "applyCronJob"
    /\ \/ ~rdcj.labelled /\ Fail /\ UNCHANGED <<cj, nextCj>>
       \/ /\ rdcj.labelled
          /\ cache.cj = None /\ cj = None
          /\ nextCj \in CronJobIds
          /\ cj' = [id |-> nextCj, owner |-> rdcj.uid, active |-> {}]
          /\ nextCj' = nextCj + 1
          /\ Written(Goto("status"))
       \/ /\ rdcj.labelled
          /\ cache.cj # None /\ cache.cj.owner = rdcj.uid
          /\ Goto("status") /\ UNCHANGED <<cj, nextCj>>
       \/ /\ rdcj.labelled
          /\ cache.cj # None /\ cache.cj.owner # rdcj.uid /\ cache.cj = cj
          /\ cj' = [cj EXCEPT !.owner = rdcj.uid]
          /\ Written(Goto("status")) /\ UNCHANGED nextCj
       \/ /\ rdcj.labelled
          /\ cache.cj # cj /\ (cache.cj # None => cache.cj.owner # rdcj.uid)
          /\ Fail /\ UNCHANGED <<cj, nextCj>>
    /\ UNCHANGED <<dcj, sa, crb, work, others>>

NotFound(conds) == C!SetNotFound(conds, "not found")

\* The conditions after the checks that ServiceAccount and ClusterRoleBinding exist.
CheckedConditions ==
    IF cache.sa = None \/ ~cache.crb THEN NotFound(rdcj.conds) ELSE rdcj.conds

\* A CronJob in the cache outweighs whatever else is missing.
NewConditions ==
    IF cache.cj = None THEN NotFound(CheckedConditions)
    ELSE C!SetPair(CheckedConditions, TRUE, "")

\* The times of the last transitions may be new although NewConditions says what rdcj
\* does, if a status has changed and changed back.
Since ==
    CASE NewConditions # rdcj.conds -> {FALSE}
      [] NewConditions = rdcj.conds
         /\ C!Flips(rdcj.conds, CheckedConditions, NewConditions) -> BOOLEAN
      [] NewConditions = rdcj.conds
         /\ ~C!Flips(rdcj.conds, CheckedConditions, NewConditions) -> {rdcj.since}

UpdateStatus ==
    /\ pc = "status"
    /\ \/ /\ dcj = rdcj
          /\ \E t \in Since : dcj' = [rdcj EXCEPT !.conds = NewConditions, !.since = t]
          /\ Written(Done)
       \/ dcj # rdcj /\ Fail /\ UNCHANGED dcj
    /\ UNCHANGED <<sa, crb, cj, nextCj, work, others>>

\* A call fails before it takes effect.
ApiError ==
    /\ pc \notin {"idle", "listNodes", "deleteWorkers"}
    /\ Spend("apiError")
    /\ Requeue
    /\ UNCHANGED <<dcj, sa, crb, cj, nextCj, work, others>>

\* The manager restarts: the reconciliation is gone, the caches are listed anew
\* and every listed object enqueues as if it had just been created.
Restart ==
    /\ Spend("restart")
    /\ End
    /\ cache' = ApiView
    /\ unseen' = {}
    /\ dirty' = (dcj # None \/ sa # None \/ cj # None)
    /\ UNCHANGED <<nodes, dcj, nextUid, sa, crb, cj, nextCj, jobs, work, bc>>

Controller ==
    \/ Reconcile \/ AddFinalizer \/ OnDelete \/ RemoveFinalizer
    \/ ListNodes \/ DeleteWorkerJobsOnNotExistNode
    \/ ApplyServiceAccount \/ ApplyClusterRoleBinding \/ ApplyCronJob \/ UpdateStatus
-----------------------------------------------------------------------------
Init ==
    /\ nodes \in SUBSET Nodes
    /\ dcj = None
    /\ nextUid = 1
    /\ sa = None
    /\ crb = FALSE
    /\ cj = None
    /\ nextCj = 1
    /\ jobs = [t \in Ticks |-> None]
    /\ work = [k \in WorkerKeys |-> None]
    /\ bc = [t \in Ticks |-> R!Unused]
    /\ cache = ApiView
    /\ unseen = {}
    /\ dirty = FALSE
    /\ pc = "idle"
    /\ rdcj = None
    /\ rnodes = {}
    /\ left \in Budgets

User == CreateDaemonCronJob \/ EditDaemonCronJob \/ DeleteDaemonCronJob \/ DeleteResource

Cluster ==
    \/ NodeChanges \/ Tick \/ UpdateActive \/ RetireJob \/ RunStep \/ RunDies \/ Collect

Outside(A) == A /\ UNCHANGED <<cache, dirty, local>> /\ Events

Next ==
    \/ Outside(User \/ Cluster)
    \/ Sync
    \/ (Controller \/ ApiError) /\ Events
    \/ Restart

Fairness ==
    /\ WF_vars(Controller /\ Events)
    /\ WF_vars(Sync)
    /\ WF_vars(Outside(RunStep))
    /\ WF_vars(Outside(Collect))

Spec == Init /\ [][Next]_vars
FairSpec == Spec /\ Fairness
-----------------------------------------------------------------------------
(* Safety *)

ClusterTypeOK ==
    /\ nodes \in SUBSET Nodes
    /\ dcj \in DaemonCronJobs \union {None}
    /\ nextUid \in 1..(MaxUid + 1)
    /\ sa \in Uids \union {None}
    /\ crb \in BOOLEAN
    /\ cj \in CronJobs \union {None}
    /\ nextCj \in 1..(MaxCronJobs + 1)
    /\ jobs \in [Ticks -> CronJobIds \union {None}]
    /\ work \in [WorkerKeys -> R!Workers \union {None}]
    /\ bc \in [Ticks -> R!Runs]
    /\ cache \in Caches
    /\ dirty \in BOOLEAN
    /\ left \in [Happenings -> Nat]

LocalTypeOK ==
    /\ pc \in PCs
    /\ rdcj \in DaemonCronJobs \union {None}
    /\ rnodes \in SUBSET Nodes
    /\ pc = "idle" <=> rdcj = None

StateTypeOK == ClusterTypeOK /\ LocalTypeOK

TypeOK == StateTypeOK /\ unseen \in SUBSET Kinds

Live(u) == dcj # None /\ dcj.uid = u

\* While a reconciliation creates the broadcast's resources, the incarnation it
\* works for exists in the API server and carries the finalizer, however old the
\* cached copy is that it started from (Reconcile, AddFinalizerIfNotExist).
Protected == pc \in Applying => Live(rdcj.uid) /\ dcj.fin

\* Nothing but the cache of the ClusterRoleBindings being behind lets a
\* reconciliation go on to the CronJob without one (applyCronJob).
BindingUnlessLagging ==
    [][pc = "applyCRB" /\ pc' = "applyCronJob" => crb' \/ "crb" \in unseen]_vars

\* Nothing but that cache being behind lets the finalizer go on while there is a
\* binding that it has not deleted (onDelete).
BindingGoneUnlessLagging ==
    [][pc = "onDelete" /\ pc' = "removeFinalizer" => ~crb' \/ "crb" \in unseen]_vars

\* The controller has seen everything there is to see and its queue is empty.
Settled == pc = "idle" /\ ~dirty /\ unseen = {}

Wanted == dcj # None /\ ~dcj.deleting

\* At rest, no deleted DaemonCronJob waits for its finalizer, although applying it
\* may have panicked (onDelete, RemoveFinalizerIfExist).
NoDeletionAtRest == Settled => dcj = None \/ ~dcj.deleting

\* At rest, a DaemonCronJob has its ServiceAccount and its CronJob, both of its own
\* incarnation, and is Available, whatever users deleted, whatever failed and
\* whatever a namesake left behind (applyCronJob, updateStatus).
ReadyAtRest ==
    Settled /\ Wanted =>
        /\ sa = dcj.uid
        /\ cj # None /\ cj.owner = dcj.uid
        /\ C!State(dcj.conds) = "Available"
-----------------------------------------------------------------------------
(* The inductive invariant behind Protected *)

\* The cached DaemonCronJob is a past state of the real one, and one that carries
\* the finalizer and is not being deleted proves that its incarnation still exists.
CacheIsPast ==
    /\ dcj # None => dcj.uid < nextUid
    /\ cache.dcj # None => cache.dcj.uid < nextUid
    /\ cache.dcj # None /\ cache.dcj.deleting /\ Live(cache.dcj.uid) => dcj.deleting
    /\ cache.dcj # None /\ cache.dcj.fin /\ ~cache.dcj.deleting
         => Live(cache.dcj.uid) /\ dcj.fin

\* A reconciliation that finalizes has seen the deletionTimestamp, and so has
\* every cache of the same incarnation since.
FinalizingIsSeen ==
    pc \in Finalizing =>
        /\ rdcj.deleting /\ rdcj.uid < nextUid
        /\ Live(rdcj.uid) => dcj.deleting
        /\ cache.dcj # None /\ cache.dcj.uid = rdcj.uid => cache.dcj.deleting

AddingIsRead ==
    pc = "addFinalizer" => ~rdcj.deleting /\ rdcj.uid < nextUid

ProtectedInv == TypeOK /\ CacheIsPast /\ FinalizingIsSeen /\ AddingIsRead /\ Protected
-----------------------------------------------------------------------------
(* The abstract specification *)

Uid == IF dcj = None THEN None ELSE dcj.uid

\* How far the life of the DaemonCronJob has come.
Phase == CASE dcj = None                              -> "absent"
           [] dcj # None /\ dcj.deleting              -> "deleting"
           [] dcj # None /\ ~dcj.deleting /\ dcj.fin  -> "guarded"
           [] dcj # None /\ ~dcj.deleting /\ ~dcj.fin -> "bare"

\* The incarnation that a reconciliation creates resources for.
Working == IF pc \in Applying THEN rdcj.uid ELSE None

Lifecycle == INSTANCE Finalizer WITH uid     <- Uid,
                                     phase   <- Phase,
                                     used    <- 1..(nextUid - 1),
                                     working <- Working,
                                     made    <- crb

\* Caches, conflicts and retries together keep the promise of module Finalizer: a
\* finalizer leaves only the incarnation whose deletion was seen, and work is only
\* done for the one that exists (Reconcile, onDelete, applyCronJob).
ImplementsFinalizer == Lifecycle!Spec
-----------------------------------------------------------------------------
(* Liveness *)

\* A deleted DaemonCronJob goes, even one whose template makes every
\* reconciliation panic (Reconcile, onDelete).
DeletionCompletes ==
    \A u \in Uids : (Live(u) /\ dcj.deleting) ~> ~Live(u)

\* The controller comes to rest, unless the template makes it panic.
ComesToRest == <>[](Settled \/ (Wanted /\ ~dcj.labelled))

\* With the DaemonCronJob goes everything that has an owner, down to the worker
\* Jobs that a broadcast run still creates after its Job is gone: along the owner
\* references that CreateOrUpdate and BuildWorkerJob write.
NothingOwned ==
    /\ sa = None
    /\ cj = None
    /\ LiveJobs = {}
    /\ Existing = {}
    /\ \A t \in Ticks : bc[t].pc \notin {"list", "dryrun", "create"}

LeavesNothing == dcj = None ~> dcj # None \/ NothingOwned
-----------------------------------------------------------------------------
(* What the repository says and the code does not keep: README, "Findings" *)

\* daemoncronjob_types.go: "It functions by creating a CronJob", the labels of whose
\* template are "+optional".
GetsCronJob == Wanted ~> (cj # None \/ ~Wanted)

\* At rest, no worker Job is left on a node that is gone.
OrphansAtRest == Settled /\ Wanted => \A k \in Existing : k[2] \in nodes

\* Available "the resource is fully functional": what the controller creates exists.
AvailableIsTrue ==
    Settled /\ dcj # None /\ C!State(dcj.conds) = "Available" => sa # None /\ crb /\ cj # None

\* deleteWorkerJobsOnNotExistNode spares the worker Jobs of nodes whose events have
\* all arrived.
SparesKnownNodes ==
    [][pc = "deleteWorkers" /\ pc' = "applySA" /\ "nodes" \notin unseen =>
          \A k \in Existing : k[2] \in nodes => work'[k] # None]_vars

\* Under Forbid, no two ticks have worker Jobs running on one node.
NoOverlap ==
    ConcurrencyPolicy = "Forbid" =>
        \A n \in Nodes : Cardinality({t \in Ticks : work[<<t, n>>] # None
                                          /\ work[<<t, n>>].st = "progressing"}) <= 1

\* The history limits, on finished Jobs, spare worker Jobs that are running.
RunningSpared ==
    [][\A k \in Existing : work[k].st = "progressing" /\ Wanted /\ k[2] \in nodes
          => work'[k] # None]_vars
=============================================================================
