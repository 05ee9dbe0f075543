--------------------------- MODULE DaemonCronJobSet ---------------------------
(***************************************************************************)
(* internal/controller/daemoncronjobset_controller.go: the reconciler of   *)
(* one DaemonCronJobSet, which keeps one CronJob on every node that the    *)
(* nodeSelector matches, with the API objects it works on, the users,      *)
(* nodes and garbage collector that change them, and its informer caches.  *)
(*                                                                         *)
(* There is no finalizer: owner references alone clean up.  The actions    *)
(* are cut as in module DaemonJob: one per call that writes, and one per   *)
(* list of nodes, since the caches move on before its result is used.      *)
(***************************************************************************)
EXTENDS Naturals, FiniteSets

CONSTANTS Nodes,          \* node names
          Labels,         \* node labels a nodeSelector may ask for
          MaxUid,         \* bound: incarnations of the DaemonCronJobSet
          MaxTemplates,   \* bound: versions of its cronJobTemplate
          Budget,         \* bound: how often each kind of disruption may happen
          None            \* absent object

Uids == 1..MaxUid
Templates == 1..MaxTemplates

Disruptions == {"delete", "deleteCronJob", "edit", "node", "restart", "apiError", "lostReply"}

ASSUME BoundsAssumption ==
    /\ IsFiniteSet(Nodes)
    /\ MaxUid \in Nat
    /\ MaxTemplates \in Nat \ {0}
    /\ Budget \in [Disruptions -> Nat]

VARIABLES
    nodes,     \* labels of the existing nodes
    ds,        \* the DaemonCronJobSet
    nextUid,   \* uid of its next incarnation
    cj,        \* CronJobs by node
    cache,     \* the controller's informer caches
    unseen,    \* kinds with events that their informer has yet to deliver
    dirty,     \* TRUE when the key waits in the controller's queue
    pc,        \* the next call of the reconciliation
    rds,       \* its local copy of the DaemonCronJobSet
    todo,      \* nodes that it has listed and not yet dealt with
    left       \* what is left of the budget

local == <<pc, rds, todo>>
vars == <<nodes, ds, nextUid, cj, cache, unseen, dirty, pc, rds, todo, left>>

\* The controller passes Degraded for the progressing type it does not use.  The
\* message follows from the two counts beside it and is left out.
C == INSTANCE Conditions WITH TypeAvailable   <- "Available",
                              TypeProgressing <- "Degraded",
                              TypeDegraded    <- "Degraded",
                              Messages        <- {""},
                              NoMessage       <- ""

Counts == 0..Cardinality(Nodes)
Sets == [uid : Uids, deleting : BOOLEAN, selector : SUBSET Labels, template : Templates,
         desired : Counts, available : Counts, conds : C!ConditionLists]

\* What NewCronJobForNode makes: the template it was made of, and its owner.
CronJobs == [owner : Uids, template : Templates]

ASSUME NoneAssumption ==
    None \notin Sets /\ None \notin CronJobs /\ \A l \in SUBSET Labels : None # l

\* The labels of a node, if it exists.
NodeLabels == {None} \union SUBSET Labels

PCs == {"idle", "listNodes", "delete", "list", "apply", "status"}

ApiView == [ds |-> ds, cj |-> cj, nodes |-> nodes]
Kinds   == {"ds", "cj", "nodes"}

\* ListNodes: the nodes whose labels satisfy the selector.
ListNodes(all, selector) == {n \in Nodes : all[n] # None /\ selector \subseteq all[n]}

Present(jobs) == {n \in Nodes : jobs[n] # None}

Spend(kind) == left[kind] > 0 /\ left' = [left EXCEPT ![kind] = left[kind] - 1]
-----------------------------------------------------------------------------
(* Users, nodes and garbage collector *)

CreateSet ==
    /\ ds = None
    /\ nextUid \in Uids
    /\ \E s \in SUBSET Labels :
          ds' = [uid |-> nextUid, deleting |-> FALSE, selector |-> s, template |-> 1,
                 desired |-> 0, available |-> 0, conds |-> C!NoConditions]
    /\ nextUid' = nextUid + 1
    /\ UNCHANGED <<nodes, cj, cache, dirty, local, left>>

EditSet ==
    /\ ds # None
    /\ Spend("edit")
    /\ \/ \E s \in (SUBSET Labels) \ {ds.selector} : ds' = [ds EXCEPT !.selector = s]
       \/ ds.template + 1 \in Templates /\ ds' = [ds EXCEPT !.template = ds.template + 1]
    /\ UNCHANGED <<nodes, nextUid, cj, cache, dirty, local>>

\* In the background, or in the foreground, which leaves a deletionTimestamp
\* until the garbage collector has deleted the CronJobs.
DeleteSet ==
    /\ ds # None
    /\ ~ds.deleting
    /\ Spend("delete")
    /\ ds' \in {None, [ds EXCEPT !.deleting = TRUE]}
    /\ UNCHANGED <<nodes, nextUid, cj, cache, dirty, local>>

DeleteCronJob ==
    /\ Spend("deleteCronJob")
    /\ \E n \in Present(cj) : cj' = [cj EXCEPT ![n] = None]
    /\ UNCHANGED <<nodes, ds, nextUid, cache, dirty, local>>

\* A node joins, leaves or is labelled anew.
NodeChanges ==
    /\ Spend("node")
    /\ \E n \in Nodes, l \in NodeLabels :
          l # nodes[n] /\ nodes' = [nodes EXCEPT ![n] = l]
    /\ UNCHANGED <<ds, nextUid, cj, cache, dirty, local>>

OwnerExists(n) == ds # None /\ cj[n].owner = ds.uid

Collect ==
    /\ \/ \E n \in Present(cj) :
             /\ OwnerExists(n) => ds.deleting
             /\ cj' = [cj EXCEPT ![n] = None]
             /\ UNCHANGED ds
       \/ /\ ds # None /\ ds.deleting
          /\ \A n \in Present(cj) : ~OwnerExists(n)
          /\ ds' = None
          /\ UNCHANGED cj
    /\ UNCHANGED <<nodes, nextUid, cache, dirty, local, left>>
-----------------------------------------------------------------------------
(* Informers *)

\* Every change of an object is an event, even if the next one undoes it.
Events == unseen' = unseen \union {k \in Kinds : ApiView'[k] # ApiView[k]}

\* The informer of a kind catches up with all its events.
CatchUp(kind) ==
    /\ kind \in unseen
    /\ unseen' = unseen \ {kind}
    /\ cache' = [cache EXCEPT ![kind] = ApiView[kind]]

SyncSet == CatchUp("ds") /\ dirty' = TRUE

\* Mutant of SyncCronJobs: the CronJobs are not among the watched kinds.
SyncCronJobsUnwatched == CatchUp("cj") /\ UNCHANGED dirty

SyncCronJobs == CatchUp("cj") /\ dirty' = TRUE

\* Mutant of SyncNodes: the predicates of the DaemonJob controller, which let
\* deleted nodes through and no others.
SyncDeletedNodes ==
    /\ CatchUp("nodes")
    /\ dirty' = \/ dirty
                \/ /\ cache.ds # None
                   /\ \E n \in Nodes : cache.nodes[n] # None /\ nodes[n] = None

\* A node that is deleted by way of finalizers enqueues the owners of the cached
\* CronJobs on it, any other node event every cached DaemonCronJobSet.
SyncNodes ==
    /\ CatchUp("nodes")
    /\ LET changed == {n \in Nodes : cache.nodes[n] # nodes[n]}
       IN  \E finalized \in SUBSET {n \in changed : nodes[n] = None} :
              dirty' = \/ dirty
                       \/ \E n \in finalized : cache.cj[n] # None
                       \/ ((changed = {} \/ changed # finalized) /\ cache.ds # None)

Delivered(A) == A /\ UNCHANGED <<nodes, ds, nextUid, cj, local, left>>

Sync == Delivered(SyncSet) \/ Delivered(SyncCronJobs) \/ Delivered(SyncNodes)
-----------------------------------------------------------------------------
(* The reconciler *)

End == pc' = "idle" /\ rds' = None /\ todo' = {}

\* Mutant of Done: every reconciliation asks for another one.
DoneForNow == End /\ dirty' = TRUE /\ UNCHANGED left

Done == End /\ UNCHANGED <<dirty, left>>

\* An error: the key goes back to the queue, with backoff.
Requeue == End /\ dirty' = TRUE

Fail == Requeue /\ UNCHANGED left

Written(A) == A \/ (Requeue /\ Spend("lostReply"))

\* Mutant of ToReconcile: the deletionTimestamp is not looked at.
Exists(d) == d # None

ToReconcile(d) == d # None /\ ~d.deleting

Reconcile ==
    /\ pc = "idle"
    /\ dirty
    /\ dirty' = FALSE
    /\ \/ ToReconcile(cache.ds) /\ pc' = "listNodes" /\ rds' = cache.ds /\ UNCHANGED todo
       \/ ~ToReconcile(cache.ds) /\ UNCHANGED local
    /\ UNCHANGED <<nodes, ds, nextUid, cj, cache, left>>

\* deleteCronJobsOnMismatchedNode lists the nodes before the CronJobs.
MatchingNodes ==
    /\ pc = "listNodes"
    /\ pc' = "delete"
    /\ todo' = ListNodes(cache.nodes, rds.selector)
    /\ UNCHANGED <<nodes, ds, nextUid, cj, cache, dirty, rds, left>>

\* The cached CronJobs on nodes that are not listed, deleted one after the other,
\* in any order, until one delete fails; Reconcile only logs the error.
DeleteCronJobsOnMismatchedNode ==
    /\ pc = "delete"
    /\ LET gone   == Present(cache.cj) \ todo
           exist  == gone \intersect Present(cj)
           Delete(D) == cj' = [n \in Nodes |-> IF n \in D THEN None ELSE cj[n]]
       IN  \/ gone = exist /\ Delete(gone) /\ UNCHANGED left
           \/ gone # exist /\ (\E D \in SUBSET exist : Delete(D)) /\ UNCHANGED left
           \/ gone # {} /\ (\E D \in SUBSET exist : Delete(D)) /\ Spend("apiError")
    /\ pc' = "list"
    /\ todo' = {}
    /\ UNCHANGED <<nodes, ds, nextUid, cache, dirty, rds>>

\* applyCronJobs lists the nodes again.
DesiredCronJobs ==
    /\ pc = "list"
    /\ pc' = "apply"
    /\ todo' = ListNodes(cache.nodes, rds.selector)
    /\ UNCHANGED <<nodes, ds, nextUid, cj, cache, dirty, rds, left>>

Applied(n) == todo' = todo \ {n} /\ UNCHANGED <<pc, rds, dirty, left>>

\* SetControllerReference would change the cached CronJob of n.
NeedsUpdate(n) == cache.cj[n].owner # rds.uid

\* CreateOrUpdate: create when the cache has no CronJob of that name; otherwise
\* write the owner reference, and nothing of the template.
ApplyCronJob(n) ==
    /\ pc = "apply"
    /\ n \in todo
    /\ \/ /\ cache.cj[n] = None /\ cj[n] = None
          /\ cj' = [cj EXCEPT ![n] = [owner |-> rds.uid, template |-> rds.template]]
          /\ Written(Applied(n))
       \/ /\ cache.cj[n] # None /\ ~NeedsUpdate(n)
          /\ Applied(n) /\ UNCHANGED cj
       \/ /\ cache.cj[n] # None /\ NeedsUpdate(n) /\ cj[n] = cache.cj[n]
          /\ cj' = [cj EXCEPT ![n].owner = rds.uid]
          /\ Written(Applied(n))
       \/ /\ cj[n] # cache.cj[n]
          /\ cache.cj[n] # None => NeedsUpdate(n)
          /\ Fail /\ UNCHANGED cj
    /\ UNCHANGED <<nodes, ds, nextUid, cache>>

\* The status compares two counts.
WithStatus(d, desired, available) ==
    [d EXCEPT !.desired = desired, !.available = available,
              !.conds = C!SetPair(d.conds, desired = available, "")]

\* updateStatus, too, lists the nodes before the CronJobs.
CountNodes ==
    /\ pc = "apply"
    /\ todo = {}
    /\ pc' = "status"
    /\ todo' = ListNodes(cache.nodes, rds.selector)
    /\ UNCHANGED <<nodes, ds, nextUid, cj, cache, dirty, rds, left>>

UpdateStatus ==
    /\ pc = "status"
    /\ \/ /\ ds = rds
          /\ ds' = WithStatus(rds, Cardinality(todo), Cardinality(Present(cache.cj)))
          /\ Written(Done)
       \/ ds # rds /\ Fail /\ UNCHANGED ds
    /\ UNCHANGED <<nodes, nextUid, cj, cache>>

\* A call other than the deletes fails before it takes effect.
ApiError ==
    /\ pc = "status" \/ (pc = "apply" /\ todo # {})
    /\ Spend("apiError")
    /\ Requeue
    /\ UNCHANGED <<nodes, ds, nextUid, cj, cache>>

\* The caches are listed anew; every listed object, of which a node enqueues
\* the DaemonCronJobSets, arrives as if it had just been created.
Restart ==
    /\ Spend("restart")
    /\ End
    /\ cache' = ApiView
    /\ unseen' = {}
    /\ dirty' = (ds # None \/ Present(cj) # {})
    /\ UNCHANGED <<nodes, ds, nextUid, cj>>

Controller ==
    \/ Reconcile \/ MatchingNodes \/ DeleteCronJobsOnMismatchedNode
    \/ DesiredCronJobs \/ (\E n \in Nodes : ApplyCronJob(n))
    \/ CountNodes \/ UpdateStatus
-----------------------------------------------------------------------------
Init ==
    /\ nodes \in [Nodes -> NodeLabels]
    /\ ds = None
    /\ nextUid = 1
    /\ cj = [n \in Nodes |-> None]
    /\ cache = ApiView
    /\ unseen = {}
    /\ dirty = FALSE
    /\ pc = "idle"
    /\ rds = None
    /\ todo = {}
    /\ left = Budget

Next ==
    \/ (CreateSet \/ EditSet \/ DeleteSet \/ DeleteCronJob \/ NodeChanges) /\ Events
    \/ (Collect \/ Controller \/ ApiError) /\ Events
    \/ Sync \/ Restart

\* Every informer and the garbage collector run on their own.
Fairness ==
    /\ WF_vars(Controller /\ Events)
    /\ WF_vars(Delivered(SyncSet))
    /\ WF_vars(Delivered(SyncCronJobs))
    /\ WF_vars(Delivered(SyncNodes))
    /\ WF_vars(Collect /\ Events)

Spec == Init /\ [][Next]_vars
FairSpec == Spec /\ Fairness
-----------------------------------------------------------------------------
TypeOK ==
    /\ nodes \in [Nodes -> NodeLabels]
    /\ ds \in Sets \union {None}
    /\ nextUid \in 1..(MaxUid + 1)
    /\ cj \in [Nodes -> CronJobs \union {None}]
    /\ cache \in [ds : Sets \union {None}, cj : [Nodes -> CronJobs \union {None}],
                  nodes : [Nodes -> NodeLabels]]
    /\ unseen \in SUBSET Kinds
    /\ dirty \in BOOLEAN
    /\ pc \in PCs
    /\ rds \in Sets \union {None}
    /\ todo \in SUBSET Nodes
    /\ left \in [Disruptions -> Nat]
    /\ pc = "idle" <=> rds = None
    /\ \A k \in Kinds \ unseen : cache[k] = ApiView[k]

\* Everything seen and the queue empty: only a new event makes the controller act.
Settled == pc = "idle" /\ ~dirty /\ unseen = {}

Wanted == ds # None /\ ~ds.deleting

\* "one CronJob for each node": at rest every node that matches has its CronJob,
\* owned by this incarnation, whatever joined, left, was relabelled, deleted or
\* failed, in whatever order the informers told (applyCronJobs).
EveryNodeHasItsCronJob ==
    Settled /\ Wanted =>
        \A n \in ListNodes(nodes, ds.selector) : cj[n] # None /\ cj[n].owner = ds.uid

\* And no other node has one (deleteCronJobsOnMismatchedNode).
OneCronJobPerNode ==
    Settled /\ Wanted => Present(cj) = ListNodes(nodes, ds.selector)

\* At rest the counts are the real ones, and the DaemonCronJobSet is Available
\* exactly when no CronJob is missing or left over (updateStatus).
StatusAtRest ==
    Settled /\ Wanted =>
        /\ ds.desired = Cardinality(ListNodes(nodes, ds.selector))
        /\ ds.available = Cardinality(Present(cj))
        /\ ds.conds["Available"].status = C!ConditionStatus(
               Present(cj) = ListNodes(nodes, ds.selector))

\* A DaemonCronJobSet deleted in the foreground goes: the controller does not put
\* back for ever the CronJobs that the garbage collector deletes (Reconcile).
DeletionCompletes ==
    \A u \in Uids : (ds # None /\ ds.uid = u /\ ds.deleting) ~> ~(ds # None /\ ds.uid = u)

\* Once the informer has told of the deletion and a reconciliation that was under way
\* has ended, no CronJob is made or put back until the DaemonCronJobSet has gone,
\* whatever is edited, relabelled or restarted meanwhile (Reconcile).
SeenDeleted ==
    /\ ds # None /\ ds.deleting
    /\ cache.ds # None /\ cache.ds.deleting
    /\ pc = "idle"

PutsNothingBack ==
    [][SeenDeleted => /\ ds' = None \/ (SeenDeleted' /\ ds'.uid = ds.uid)
                      /\ \A n \in Nodes : cj'[n] \in {cj[n], None}]_vars

\* The controller comes to rest.
ComesToRest == <>[]Settled

\* daemoncronjobset_types.go: "It generates one CronJob for each node based on the
\* spec.cronJobTemplate": at rest, on the template that it has.
TemplateAtRest ==
    Settled /\ Wanted => \A n \in Present(cj) : cj[n].template = ds.template
=============================================================================
