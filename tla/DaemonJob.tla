------------------------------ MODULE DaemonJob ------------------------------
(***************************************************************************)
(* internal/controller/daemonjob_controller.go: the reconciler of one      *)
(* DaemonJob.  One action per call that writes to the API server; the      *)
(* reads between two writes go to the caches of module Cluster and happen  *)
(* with the write they lead to.  The queue hands a key to one worker at a  *)
(* time, so there is one reconciliation at most.  Lists that are compared  *)
(* with each other are actions of their own, like an object that is read   *)
(* twice: the caches move on in between.                                   *)
(***************************************************************************)
EXTENDS Cluster

Seqs == INSTANCE SequencesExt

VARIABLES
    pc,        \* the next call of the reconciliation, "idle" when there is none
    rdj,       \* its local copy of the DaemonJob, as read or last written
    rnodes,    \* the nodes it has listed
    rconds     \* the conditions after the checks of what must exist

vars == <<nodes, dj, nextUid, sa, crb, job, runOf, work, bc, cache, unseen, dirty,
          left, pc, rdj, rnodes, rconds>>

local == <<pc, rdj, rnodes, rconds>>

Applying == {"listNodes", "deleteWorkers", "applySA", "applyCRB", "applyJob", "status",
             "getJob", "list"}
Finalizing == {"onDelete", "removeFinalizer"}
PCs == {"idle", "addFinalizer"} \union Applying \union Finalizing
-----------------------------------------------------------------------------
(* Ends of a call *)

Goto(next) == pc' = next /\ UNCHANGED <<rdj, rnodes, rconds, dirty, left>>

End == pc' = "idle" /\ rdj' = None /\ rnodes' = {} /\ rconds' = C!NoConditions

\* Mutant of Done: every reconciliation asks for another one.
DoneForNow == End /\ dirty' = TRUE /\ UNCHANGED left

\* ctrl.Result{}, nil: the key leaves the queue.
Done == End /\ UNCHANGED <<dirty, left>>

\* An error: the key goes back to the queue, with backoff.
Requeue == End /\ dirty' = TRUE

Fail == Requeue /\ UNCHANGED left

\* A write that took effect goes on with A, unless its reply is lost and the
\* controller sees an error instead.
Written(A) == A \/ (Requeue /\ Spend("lostReply"))
-----------------------------------------------------------------------------
\* Mutant of FirstCall: a DaemonJob that is not being deleted is applied at once.
FirstCallWithoutFinalizer(d) == IF d.deleting THEN "onDelete" ELSE "listNodes"

\* What Reconcile calls first for the DaemonJob d.
FirstCall(d) ==
    CASE d.deleting            -> "onDelete"
      [] ~d.deleting /\ d.fin  -> "listNodes"
      [] ~d.deleting /\ ~d.fin -> "addFinalizer"

Reconcile ==
    /\ pc = "idle"
    /\ dirty
    /\ dirty' = FALSE
    /\ IF cache.dj = None THEN UNCHANGED local
       ELSE IF cache.dj.deleting /\ ~cache.dj.fin THEN UNCHANGED local
       ELSE /\ rdj' = cache.dj
            /\ pc' = FirstCall(cache.dj)
            /\ UNCHANGED <<rnodes, rconds>>
    /\ UNCHANGED <<nodes, dj, nextUid, sa, crb, job, runOf, work, bc, cache, left>>

\* Mutant of AddFinalizer: a merge patch, which has no resourceVersion to conflict.
PatchFinalizer ==
    /\ pc = "addFinalizer"
    /\ \/ /\ dj # None
          /\ dj' = [dj EXCEPT !.fin = TRUE]
          /\ pc' = "listNodes" /\ rdj' = [rdj EXCEPT !.fin = TRUE]
          /\ UNCHANGED <<rnodes, rconds, dirty, left>>
       \/ dj = None /\ Fail /\ UNCHANGED dj
    /\ UNCHANGED <<nodes, nextUid, sa, crb, job, runOf, work, bc, cache>>

\* The DaemonJob is written with the resourceVersion of rdj: any other state of
\* it in the API server is a Conflict, its absence a NotFound.
AddFinalizer ==
    /\ pc = "addFinalizer"
    /\ \/ /\ dj = rdj
          /\ dj' = [rdj EXCEPT !.fin = TRUE]
          /\ Written(/\ pc' = "listNodes" /\ rdj' = [rdj EXCEPT !.fin = TRUE]
                     /\ UNCHANGED <<rnodes, rconds, dirty, left>>)
       \/ dj # rdj /\ Fail /\ UNCHANGED dj
    /\ UNCHANGED <<nodes, nextUid, sa, crb, job, runOf, work, bc, cache>>

\* Mutant of OnDelete: deletes by name, without a list of what there is to delete.
DeleteByName ==
    /\ pc = "onDelete"
    /\ \/ crb /\ crb' = FALSE /\ Written(Goto("removeFinalizer"))
       \/ ~crb /\ Fail /\ UNCHANGED crb
    /\ UNCHANGED <<nodes, dj, nextUid, sa, job, runOf, work, bc, cache>>

\* Mutant of OnDelete: a label selector that matches no binding.
DeleteNone ==
    /\ pc = "onDelete"
    /\ Goto("removeFinalizer")
    /\ UNCHANGED <<nodes, dj, nextUid, sa, crb, job, runOf, work, bc, cache>>

\* onDelete deletes what the cache lists; a NotFound is an error.
OnDelete ==
    /\ pc = "onDelete"
    /\ \/ ~cache.crb /\ Goto("removeFinalizer") /\ UNCHANGED crb
       \/ cache.crb /\ crb /\ crb' = FALSE /\ Written(Goto("removeFinalizer"))
       \/ cache.crb /\ ~crb /\ Fail /\ UNCHANGED crb
    /\ UNCHANGED <<nodes, dj, nextUid, sa, job, runOf, work, bc, cache>>

\* The last finalizer of a deleted object: the API server removes the object.
RemoveFinalizer ==
    /\ pc = "removeFinalizer"
    /\ \/ dj = rdj /\ dj' = None /\ Written(Done)
       \/ dj # rdj /\ Fail /\ UNCHANGED dj
    /\ UNCHANGED <<nodes, nextUid, sa, crb, job, runOf, work, bc, cache>>

\* The nodes are listed before the worker Jobs, and both caches move on in between.
ListNodes ==
    /\ pc = "listNodes"
    /\ pc' = "deleteWorkers"
    /\ rnodes' = cache.nodes
    /\ UNCHANGED <<rdj, rconds, nodes, dj, nextUid, sa, crb, job, runOf, work, bc, cache,
                   dirty, left>>

\* The worker Jobs in the cache whose node is not listed, deleted by name one after
\* the other, in any order, until one delete fails; Reconcile only logs the error.
DeleteWorkerJobsOnNotExistNode ==
    /\ pc = "deleteWorkers"
    /\ LET gone   == {n \in Nodes \ rnodes : cache.work[n] # None}
           exist  == {n \in gone : work[n] # None}
           Delete(D) == work' = [n \in Nodes |-> IF n \in D THEN None ELSE work[n]]
       IN  \/ gone = exist /\ Delete(gone) /\ UNCHANGED left
           \/ gone # exist /\ (\E D \in SUBSET exist : Delete(D)) /\ UNCHANGED left
           \/ gone # {} /\ (\E D \in SUBSET exist : Delete(D)) /\ Spend("apiError")
    /\ pc' = "applySA"
    /\ rnodes' = {}
    /\ UNCHANGED <<rdj, rconds, nodes, dj, nextUid, sa, crb, job, runOf, bc, cache, dirty>>

\* CreateOrUpdate: create when the cache has no object; otherwise write the owner
\* reference, and only if it is not this incarnation's already.
ApplyServiceAccount ==
    /\ pc = "applySA"
    /\ \/ cache.sa = rdj.uid /\ Goto("applyCRB") /\ UNCHANGED sa
       \/ cache.sa # rdj.uid /\ sa = cache.sa /\ sa' = rdj.uid /\ Written(Goto("applyCRB"))
       \/ cache.sa # rdj.uid /\ sa # cache.sa /\ Fail /\ UNCHANGED sa
    /\ UNCHANGED <<nodes, dj, nextUid, crb, job, runOf, work, bc, cache>>

\* Mutant of ApplyClusterRoleBinding: created along with the ServiceAccount only.
ApplyClusterRoleBindingOnce ==
    /\ pc = "applyCRB"
    /\ \/ cache.sa # None /\ Goto("applyJob") /\ UNCHANGED crb
       \/ cache.sa = None /\ ~crb /\ crb' = TRUE /\ Written(Goto("applyJob"))
       \/ cache.sa = None /\ crb /\ Fail /\ UNCHANGED crb
    /\ UNCHANGED <<nodes, dj, nextUid, sa, job, runOf, work, bc, cache>>

\* CreateOrUpdate with no mutation: create when the cache has no object.
ApplyClusterRoleBinding ==
    /\ pc = "applyCRB"
    /\ \/ cache.crb /\ Goto("applyJob") /\ UNCHANGED crb
       \/ ~cache.crb /\ ~crb /\ crb' = TRUE /\ Written(Goto("applyJob"))
       \/ ~cache.crb /\ crb /\ Fail /\ UNCHANGED crb
    /\ UNCHANGED <<nodes, dj, nextUid, sa, job, runOf, work, bc, cache>>

\* Mutant of JobNameFree: a generated name, for which there is always room.
GeneratedNameFree == TRUE

\* The Job's name is that of the DaemonJob: there is room for one.
JobNameFree == job = None

\* A new Job is started by the Job controller.  A Job of an earlier incarnation
\* that is still in the cache is taken over as it is.
ApplyJob ==
    /\ pc = "applyJob"
    /\ IF cache.job = None
       THEN \/ /\ JobNameFree
               /\ \E j \in Jobs :
                     /\ runOf[j] = None /\ \A i \in Jobs : i < j => runOf[i] # None
                     /\ job' = [id |-> j, owner |-> rdj.uid]
                     /\ runOf' = [runOf EXCEPT ![j] = rdj.uid]
                     /\ bc' = [bc EXCEPT ![j].pc = "read"]
               /\ Written(Goto("status"))
            \/ ~JobNameFree /\ Fail /\ UNCHANGED <<job, runOf, bc>>
       ELSE \/ /\ cache.job.owner = rdj.uid
               /\ Goto("status") /\ UNCHANGED <<job, runOf, bc>>
            \/ /\ cache.job.owner # rdj.uid /\ cache.job = JobView
               /\ job' = [job EXCEPT !.owner = rdj.uid]
               /\ Written(Goto("status")) /\ UNCHANGED <<runOf, bc>>
            \/ /\ cache.job.owner # rdj.uid /\ cache.job # JobView
               /\ Fail /\ UNCHANGED <<job, runOf, bc>>
    /\ UNCHANGED <<nodes, dj, nextUid, sa, crb, work, cache>>

\* The times of the last transitions may be new although conds says what rdj does,
\* if a status has changed and changed back.
Since(checked, conds) ==
    CASE conds # rdj.conds -> {FALSE}
      [] conds = rdj.conds /\ C!Flips(rdj.conds, checked, conds) -> BOOLEAN
      [] conds = rdj.conds /\ ~C!Flips(rdj.conds, checked, conds) -> {rdj.since}

WriteStatus(checked, conds) ==
    \/ /\ dj = rdj
       /\ \E t \in Since(checked, conds) :
             dj' = [rdj EXCEPT !.conds = conds, !.since = t]
       /\ Written(Done)
    \/ dj # rdj /\ Fail /\ UNCHANGED dj

NotFound(conds) == C!SetNotFound(conds, Say("not found"))

\* The conditions after the checks that ServiceAccount and ClusterRoleBinding exist.
CheckedConditions ==
    IF cache.sa = None \/ ~cache.crb THEN NotFound(rdj.conds) ELSE rdj.conds

\* updateStatus up to the check that the broadcast Job exists.
CheckResources ==
    /\ pc = "status"
    /\ \/ /\ cache.job = None
          /\ WriteStatus(CheckedConditions, NotFound(CheckedConditions))
       \/ /\ cache.job # None
          /\ pc' = "getJob" /\ rconds' = CheckedConditions
          /\ UNCHANGED <<dj, rdj, rnodes, dirty, left>>
    /\ UNCHANGED <<nodes, nextUid, sa, crb, job, runOf, work, bc, cache>>

\* The broadcast Job is read again, for its status.
UpdateStatus ==
    /\ pc = "getJob"
    /\ \/ cache.job = None /\ Fail /\ UNCHANGED dj
       \/ /\ cache.job # None /\ cache.job.st = "progressing"
          /\ WriteStatus(rconds, C!SetProgressing(rconds, Say("Broadcast is running")))
       \/ /\ cache.job # None /\ cache.job.st = "failed"
          /\ WriteStatus(rconds, C!SetPair(rconds, FALSE, Say("Broadcast failed")))
       \/ /\ cache.job # None /\ cache.job.st = "complete"
          /\ Goto("list") /\ UNCHANGED dj
    /\ UNCHANGED <<nodes, nextUid, sa, crb, job, runOf, work, bc, cache>>

\* The worker Jobs in the cache with the status st.
Listed(st) == {n \in Nodes : cache.work[n] # None /\ cache.work[n].st = st}

\* A text and the names of worker Jobs, in the order the cache has listed them: any.
Naming(text, workers) == {[text |-> text, names |-> l] : l \in Seqs!SetToSeqs(workers)}

\* Mutant of WorkersConditions: running worker Jobs are not looked for.
WorkersConditionsUnlessFailed ==
    IF Listed("failed") # {}
    THEN {C!SetPair(rconds, FALSE, m) : m \in Naming("Some jobs failed", Listed("failed"))}
    ELSE {C!SetPair(rconds, TRUE, Say("All jobs are completed"))}

\* The conditions that the worker Jobs in the cache may lead to.
WorkersConditions ==
    CASE Listed("failed") # {} ->
            {C!SetPair(rconds, FALSE, m) : m \in Naming("Some jobs failed", Listed("failed"))}
      [] Listed("failed") = {} /\ Listed("progressing") # {} ->
            {C!SetProgressing(rconds, m) :
                m \in Naming("Some jobs are progressing", Listed("progressing"))}
      [] Listed("failed") = {} /\ Listed("progressing") = {} ->
            {C!SetPair(rconds, TRUE, Say("All jobs are completed"))}

\* The broadcast Job was complete: the rest of updateStatus lists the worker Jobs.
UpdateStatusOfWorkers ==
    /\ pc = "list"
    /\ \E conds \in WorkersConditions : WriteStatus(rconds, conds)
    /\ UNCHANGED <<nodes, nextUid, sa, crb, job, runOf, work, bc, cache>>

\* A call fails before it takes effect.
ApiError ==
    /\ pc \notin {"idle", "listNodes", "deleteWorkers"}
    /\ Spend("apiError")
    /\ Requeue
    /\ UNCHANGED <<nodes, dj, nextUid, sa, crb, job, runOf, work, bc, cache>>

\* The manager restarts: the reconciliation is gone, the caches are listed anew
\* and every listed object enqueues as if it had just been created.
Restart ==
    /\ Spend("restart")
    /\ End
    /\ cache' = ApiView
    /\ unseen' = {}
    /\ dirty' = (dj # None \/ sa # None \/ job # None \/ \E n \in Nodes : work[n] # None)
    /\ UNCHANGED <<nodes, dj, nextUid, sa, crb, job, runOf, work, bc>>

Controller ==
    \/ Reconcile \/ AddFinalizer \/ OnDelete \/ RemoveFinalizer
    \/ ListNodes \/ DeleteWorkerJobsOnNotExistNode
    \/ ApplyServiceAccount \/ ApplyClusterRoleBinding \/ ApplyJob
    \/ CheckResources \/ UpdateStatus \/ UpdateStatusOfWorkers
-----------------------------------------------------------------------------
Init ==
    /\ ClusterInit
    /\ pc = "idle"
    /\ rdj = None
    /\ rnodes = {}
    /\ rconds = C!NoConditions

Next ==
    \/ ClusterNext /\ UNCHANGED local /\ Events
    \/ Sync /\ UNCHANGED local
    \/ (Controller \/ ApiError) /\ Events
    \/ Restart

Fairness ==
    /\ WF_vars(Controller /\ Events)
    /\ WF_vars(Sync /\ UNCHANGED local)
    /\ WF_vars(RunStep /\ UNCHANGED local /\ Events)
    /\ WF_vars(Collect /\ UNCHANGED local /\ Events)

Spec == Init /\ [][Next]_vars
FairSpec == Spec /\ Fairness
-----------------------------------------------------------------------------
(* Safety *)

StateTypeOK ==
    /\ ClusterTypeOK
    /\ pc \in PCs
    /\ rdj \in DaemonJobs \union {None}
    /\ rnodes \in SUBSET Nodes
    /\ rconds \in C!ConditionLists
    /\ pc = "idle" <=> rdj = None

TypeOK == StateTypeOK /\ unseen \in SUBSET Kinds

Live(u) == dj # None /\ dj.uid = u

\* While a reconciliation creates the broadcast's resources, the incarnation it
\* works for exists in the API server and carries the finalizer, however old the
\* cached copy is that it started from (Reconcile, AddFinalizerIfNotExist).
Protected == pc \in Applying => Live(rdj.uid) /\ dj.fin

\* The ClusterRoleBinding, which nothing but the finalizer cleans up, is created
\* only while a finalizer is on the DaemonJob (Reconcile, applyJob).
CreatedUnderFinalizer == [][~crb /\ crb' => dj # None /\ dj.fin]_vars

\* Nothing but the cache of the ClusterRoleBindings being behind lets a
\* reconciliation go on to the broadcast Job without one (applyJob).
BindingUnlessLagging ==
    [][pc = "applyCRB" /\ pc' = "applyJob" => crb' \/ "crb" \in unseen]_vars

\* Nothing but that cache being behind lets the finalizer go on while there is a
\* binding that it has not deleted (onDelete).
BindingGoneUnlessLagging ==
    [][pc = "onDelete" /\ pc' = "removeFinalizer" => ~crb' \/ "crb" \in unseen]_vars

\* The broadcast Jobs created for an incarnation; the broadcast Jobs deleted by users.
RunsOf(u) == {j \in Jobs : runOf[j] = u}
DeletedByUser == Budget["deleteJob"] - left["deleteJob"]

\* "executed once": stale caches, lost replies, errors and restarts never make
\* applyJob create another broadcast Job for an incarnation.  Only a user who
\* deletes the broadcast Job gets a second one.
OneBroadcastPerIncarnation ==
    \A u \in Uids : Cardinality(RunsOf(u)) <= 1 + DeletedByUser

\* The state turns to Complete only when none of the worker Jobs of the broadcast
\* that has completed is still running or has failed (updateStatus).
CompleteIsTrue ==
    [][dj # None /\ dj' # None /\ C!State(dj.conds) # "Complete"
       /\ C!State(dj'.conds) = "Complete"
          => \E j \in Jobs :
                /\ bc[j].pc = "complete"
                /\ \A n \in Nodes : work[n] # None /\ work[n].job = j
                                    => work[n].st = "complete"]_vars

\* The controller has seen everything there is to see and its queue is empty.
\* Nothing but the ten-hourly resync or a new event makes it act again.
Settled == pc = "idle" /\ ~dirty /\ unseen = {}

Wanted == dj # None /\ ~dj.deleting

\* At rest, a DaemonJob has its ServiceAccount and its broadcast Job, both of
\* its own incarnation: whatever failed on the way has been tried again
\* (applyJob), and what a deleted namesake left has been taken over or replaced.
ResourcesAtRest ==
    Settled /\ Wanted => sa = dj.uid /\ job # None /\ job.owner = dj.uid

\* At rest, no deleted DaemonJob waits for its finalizer: no deletion is forgotten,
\* whatever failed or was overtaken on the way (onDelete, RemoveFinalizerIfExist).
NoDeletionAtRest == Settled => dj = None \/ ~dj.deleting

\* At rest, when the broadcast and its workers have ended, the state is their
\* outcome: no last event is lost on the way from Job status to condition.
Ended == /\ JobView # None
         /\ JobView.st # "progressing"
         /\ \A n \in Nodes : work[n] # None => work[n].st # "progressing"

Outcome == IF /\ JobView.st = "complete"
              /\ \A n \in Nodes : work[n] # None => work[n].st = "complete"
           THEN "Complete" ELSE "Degraded"

StateAtRest == Settled /\ Wanted /\ Ended => C!State(dj.conds) = Outcome

\* At rest, no worker Job is left on a node that is gone, whichever of the Node
\* and the Job informer was behind (deleteWorkerJobsOnNotExistNode).
OrphansAtRest == Settled /\ Wanted => \A n \in Nodes \ nodes : work[n] = None
-----------------------------------------------------------------------------
(* The inductive invariant behind Protected *)

\* The cached DaemonJob is a past state of the real one: incarnations only grow
\* and a deletionTimestamp stays.  A cached copy that carries the finalizer and
\* is not being deleted proves that its incarnation still exists, because only a
\* reconciliation that has seen the deletionTimestamp removes a finalizer.
CacheIsPast ==
    /\ dj # None => dj.uid < nextUid
    /\ cache.dj # None => cache.dj.uid < nextUid
    /\ cache.dj # None /\ cache.dj.deleting /\ Live(cache.dj.uid) => dj.deleting
    /\ cache.dj # None /\ cache.dj.fin /\ ~cache.dj.deleting
         => Live(cache.dj.uid) /\ dj.fin

\* A reconciliation that finalizes has seen the deletionTimestamp, and so has
\* every cache of the same incarnation since.
FinalizingIsSeen ==
    pc \in Finalizing =>
        /\ rdj.deleting /\ rdj.uid < nextUid
        /\ Live(rdj.uid) => dj.deleting
        /\ cache.dj # None /\ cache.dj.uid = rdj.uid => cache.dj.deleting

AddingIsRead ==
    pc = "addFinalizer" => ~rdj.deleting /\ rdj.uid < nextUid

ProtectedInv == TypeOK /\ CacheIsPast /\ FinalizingIsSeen /\ AddingIsRead /\ Protected
-----------------------------------------------------------------------------
(* The abstract specification *)

Uid == IF dj = None THEN None ELSE dj.uid

\* How far the life of the DaemonJob has come.
Phase == CASE dj = None                              -> "absent"
           [] dj # None /\ dj.deleting              -> "deleting"
           [] dj # None /\ ~dj.deleting /\ dj.fin  -> "guarded"
           [] dj # None /\ ~dj.deleting /\ ~dj.fin -> "bare"

\* The incarnation that a reconciliation creates resources for.
Working == IF pc \in Applying THEN rdj.uid ELSE None

Lifecycle == INSTANCE Finalizer WITH uid     <- Uid,
                                     phase   <- Phase,
                                     used    <- 1..(nextUid - 1),
                                     working <- Working,
                                     made    <- crb

\* Caches, conflicts and retries together keep the promise of module Finalizer: a
\* finalizer leaves only the incarnation whose deletion was seen, and work is only
\* done for the one that exists (Reconcile, onDelete, applyJob).
ImplementsFinalizer == Lifecycle!Spec
-----------------------------------------------------------------------------
(* The inductive invariant behind OneBroadcastPerIncarnation *)

\* The broadcast Job is there on behalf of the incarnation u.
Represented(u) == job # None /\ runOf[job.id] = u

\* The broadcast Job of an incarnation that exists belongs to it, so that the
\* garbage collector spares it; if there is none, users have deleted them all.
\* No incarnation has one before it exists.
BroadcastsCounted ==
    /\ left["deleteJob"] <= Budget["deleteJob"]
    /\ \A u \in Uids :
          /\ u >= nextUid => RunsOf(u) = {}
          /\ Live(u) /\ Represented(u) => job.owner = u
          /\ Live(u) /\ ~Represented(u) => Cardinality(RunsOf(u)) <= DeletedByUser
    /\ OneBroadcastPerIncarnation
-----------------------------------------------------------------------------
(* Liveness *)

\* A deleted DaemonJob goes: neither conflicts, nor a ClusterRoleBinding that is
\* already gone, nor an old cache block the finalizer for ever (onDelete).
DeletionCompletes ==
    \A u \in Uids : (Live(u) /\ dj.deleting) ~> ~Live(u)

\* The status is written anew because the cache has listed the same worker Jobs in
\* another order.
Reorders ==
    /\ pc = "list" /\ dj # None /\ dj' # None
    /\ \E t \in C!ConditionTypes :
          /\ dj'.conds[t] # dj.conds[t]
          /\ dj'.conds[t].status = dj.conds[t].status
          /\ dj'.conds[t].message.text = dj.conds[t].message.text
          /\ Seqs!ToSet(dj'.conds[t].message.names) = Seqs!ToSet(dj.conds[t].message.names)

\* The controller comes to rest: the events of its own writes do not keep it
\* reconciling, and no conflict is retried for ever.  Nothing but the order in which
\* the cache lists the worker Jobs, by chance a new one each time, can prevent it
\* (updateStatus).
ComesToRest == <>[]Settled \/ []<><<Reorders>>_vars

\* Under weak fairness alone, a new order each time keeps two running worker Jobs'
\* DaemonJob from rest: README, "Findings".
ComesToRestInAnyOrder == <>[]Settled
-----------------------------------------------------------------------------
(* What the repository says and the code does not keep: README, "Findings" *)

\* onDelete, "Delete ClusterRoleBinding using a finalizer": when the finalizer
\* goes, and the DaemonJob with it, the ClusterRoleBinding is gone.
FinalizerDeletesBinding == [][dj # None /\ dj.fin /\ dj' = None => ~crb]_vars

\* applyJob, "Create ClusterRoleBinding if not exist": there is one when the
\* broadcast Job is about to be created.
BindingBeforeJob == pc = "applyJob" => crb

\* daemonjob_types.go, "executed once on every node": a Complete DaemonJob has had
\* a broadcast of its own.
CompleteHasRun ==
    dj # None /\ C!State(dj.conds) = "Complete" => \E j \in Jobs : runOf[j] = dj.uid

\* daemonjob_types.go, Degraded "failed to reach or maintain its desired state":
\* something is missing or has failed.
DegradedIsTrue ==
    Settled /\ dj # None /\ C!State(dj.conds) = "Degraded" =>
        \/ sa = None \/ ~crb \/ JobView = None
        \/ JobView # None /\ JobView.st = "failed"
        \/ \E n \in Nodes : work[n] # None /\ work[n].st = "failed"

\* daemonjob_types.go, Complete "the resource is successfully completed": the
\* broadcast it has now is.
CompleteIsCurrent ==
    Settled /\ dj # None /\ C!State(dj.conds) = "Complete" =>
        JobView # None /\ JobView.st = "complete"

\* deleteWorkerJobsOnNotExistNode spares the worker Jobs of existing nodes.
SparesExistingNodes ==
    [][pc = "deleteWorkers" /\ pc' = "applySA" => \A n \in nodes : work'[n] = work[n]]_vars

\* Owns(ClusterRoleBinding), "move the current state of the cluster closer to the
\* desired state": at rest, the ClusterRoleBinding exists.
BindingAtRest == Settled /\ Wanted => crb
=============================================================================
