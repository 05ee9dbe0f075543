------------------------------- MODULE Cluster -------------------------------
(***************************************************************************)
(* What the DaemonJob controller runs in: the API server's objects of one  *)
(* DaemonJob name, the users, nodes, Job controller and garbage collector  *)
(* that change them, the broadcast runs (module Broadcast), and the        *)
(* controller's informers with their caches.                               *)
(*                                                                         *)
(* A user may delete the DaemonJob and create it again under the same      *)
(* name: every incarnation has a uid of its own, and all the objects of    *)
(* the next one have the names of those of the previous one.               *)
(***************************************************************************)
EXTENDS Naturals, FiniteSets, Sequences

CONSTANTS Nodes,     \* node names
          FirstNodes,\* bound: the sets of nodes there may be at first
          MaxUid,    \* bound: incarnations of the DaemonJob
          MaxJobs,   \* bound: broadcast Jobs ever created
          Budget,    \* bound: how often each kind of disruption may happen
          Mixes,     \* bound: the sets of kinds that may meet in one behaviour
          None       \* absent object

Uids == 1..MaxUid
Jobs == 1..MaxJobs

Disruptions == {"deleteDaemonJob", "deleteJob", "deleteCRB", "addNode", "removeNode",
                "crashRun", "restart", "apiError", "lostReply"}

ASSUME BoundsAssumption ==
    /\ IsFiniteSet(Nodes)
    /\ FirstNodes \subseteq SUBSET Nodes
    /\ MaxUid \in Nat
    /\ MaxJobs \in Nat
    /\ Budget \in [Disruptions -> Nat]
    /\ Mixes \subseteq SUBSET Disruptions

VARIABLES
    nodes,     \* existing nodes (all match the nodeSelector)
    dj,        \* the DaemonJob
    nextUid,   \* uid of the next incarnation
    sa,        \* owner uid of the broadcast ServiceAccount
    crb,       \* TRUE when the broadcast ClusterRoleBinding exists; it has no owner
    job,       \* the broadcast Job: its id and its owner uid
    runOf,     \* the incarnation each broadcast Job id was created for
    work,      \* worker Jobs by node
    bc,        \* broadcast runs by Job id
    cache,     \* the controller's informer caches
    unseen,    \* kinds with events that their informer has yet to deliver
    dirty,     \* TRUE when the DaemonJob's key waits in the controller's queue
    left       \* what is left of the budget

apiVars == <<nodes, dj, nextUid, sa, crb, job, runOf, work, bc>>

\* What updateStatus says: a text and, in some, the worker Jobs it names.  Which of
\* the three resources is not found is left out: the checks have an order, so that
\* only a cache can make it another one.
Texts == {"", "not found", "Broadcast is running", "Broadcast failed", "Some jobs failed",
          "Some jobs are progressing", "All jobs are completed"}
Messages == [text : Texts, names : Seq(Nodes)]

Say(text) == [text |-> text, names |-> << >>]

C == INSTANCE Conditions WITH TypeAvailable   <- "Complete",
                              TypeProgressing <- "Progressing",
                              TypeDegraded    <- "Degraded",
                              NoMessage       <- Say("")


\* SelfName is the broadcast Job's name, the same for every incarnation.
WorkerName == [j \in Jobs |-> [n \in Nodes |-> n]]

R == INSTANCE Broadcast WITH owner     <- dj # None,
                             Keys      <- Nodes,
                             WorkerKey <- WorkerName

\* since stands for the times of the last transitions: one of two where they alone
\* tell the object from what it was.
DaemonJobs    == [uid : Uids, deleting : BOOLEAN, fin : BOOLEAN,
                  conds : C!ConditionLists, since : BOOLEAN]
BroadcastJobs == [id : Jobs, owner : Uids]
JobViews      == [id : Jobs, owner : Uids, st : R!JobStatusTypes]

\* Absence is no object and no uid.
ASSUME NoneAssumption ==
    /\ None \notin Uids
    /\ None \notin DaemonJobs
    /\ None \notin BroadcastJobs
    /\ None \notin JobViews
    /\ None \notin R!Workers

Caches == [dj : DaemonJobs \union {None}, sa : Uids \union {None}, crb : BOOLEAN,
           job : JobViews \union {None}, work : [Nodes -> R!Workers \union {None}],
           nodes : SUBSET Nodes]

\* The broadcast Job as the API server shows it, with its status.
JobView == IF job = None THEN None
           ELSE [id |-> job.id, owner |-> job.owner, st |-> R!JobOutcome(job.id)]

ApiView == [dj |-> dj, sa |-> sa, crb |-> crb, job |-> JobView, work |-> work, nodes |-> nodes]

\* Broadcast and worker Jobs are one kind.
Kinds == {"dj", "sa", "crb", "job", "nodes"}

\* Owners the garbage collector finds: an object with any other owner dangles.
LiveUids == IF dj = None THEN {} ELSE {dj.uid}
LiveJobs == IF job = None THEN {} ELSE {job.id}

\* The kinds that may have met so far.
Allowed == UNION {SUBSET mix : mix \in Mixes}

Spent == {kind \in Disruptions : left[kind] < Budget[kind]}

Spend(kind) ==
    /\ left[kind] > 0
    /\ Spent \union {kind} \in Allowed
    /\ left' = [left EXCEPT ![kind] = left[kind] - 1]

ClusterInit ==
    /\ nodes \in FirstNodes
    /\ dj = None
    /\ nextUid = 1
    /\ sa = None
    /\ crb = FALSE
    /\ job = None
    /\ runOf = [j \in Jobs |-> None]
    /\ work = [n \in Nodes |-> None]
    /\ bc = [j \in Jobs |-> R!Unused]
    /\ cache = ApiView
    /\ unseen = {}
    /\ dirty = FALSE
    /\ left = Budget
-----------------------------------------------------------------------------
(* Users and nodes *)

CreateDaemonJob ==
    /\ dj = None
    /\ nextUid \in Uids
    /\ dj' = [uid |-> nextUid, deleting |-> FALSE, fin |-> FALSE,
               conds |-> C!NoConditions, since |-> FALSE]
    /\ nextUid' = nextUid + 1
    /\ UNCHANGED <<nodes, sa, crb, job, runOf, work, bc, cache, dirty, left>>

\* A finalizer turns a delete into a deletionTimestamp.
DeleteDaemonJob ==
    /\ dj # None
    /\ ~dj.deleting
    /\ Spend("deleteDaemonJob")
    /\ dj' = IF dj.fin THEN [dj EXCEPT !.deleting = TRUE] ELSE None
    /\ UNCHANGED <<nodes, nextUid, sa, crb, job, runOf, work, bc, cache, dirty>>

DeleteJob ==
    /\ job # None
    /\ Spend("deleteJob")
    /\ job' = None
    /\ UNCHANGED <<nodes, dj, nextUid, sa, crb, runOf, work, bc, cache, dirty>>

DeleteClusterRoleBinding ==
    /\ crb
    /\ Spend("deleteCRB")
    /\ crb' = FALSE
    /\ UNCHANGED <<nodes, dj, nextUid, sa, job, runOf, work, bc, cache, dirty>>

NodeChanges ==
    /\ \E n \in Nodes :
          \/ n \in nodes /\ Spend("removeNode") /\ nodes' = nodes \ {n}
          \/ n \notin nodes /\ Spend("addNode") /\ nodes' = nodes \union {n}
    /\ UNCHANGED <<dj, nextUid, sa, crb, job, runOf, work, bc, cache, dirty>>
-----------------------------------------------------------------------------
(* Job controller, broadcast pods and garbage collector *)

\* A pod needs its ServiceAccount to be admitted.
RunStep ==
    /\ \E j \in Jobs : (bc[j].pc = "read" => sa # None) /\ R!Step(j)
    /\ UNCHANGED <<nodes, dj, nextUid, sa, crb, job, runOf, cache, dirty, left>>

\* The pod of a deleted Job is killed, though not at once; others may crash.
RunDies ==
    /\ \E j \in Jobs :
          /\ R!Crash(j)
          /\ IF j \in LiveJobs THEN Spend("crashRun") ELSE UNCHANGED left
    /\ UNCHANGED <<nodes, dj, nextUid, sa, crb, job, runOf, cache, dirty>>

WorkerEnds ==
    /\ \E n \in Nodes : R!WorkerEnds(n)
    /\ UNCHANGED <<nodes, dj, nextUid, sa, crb, job, runOf, bc, cache, dirty, left>>

\* Owned objects go once no object has their owner's uid.
Collect ==
    /\ \/ /\ sa # None /\ sa \notin LiveUids
          /\ sa' = None /\ UNCHANGED <<job, work>>
       \/ /\ job # None /\ job.owner \notin LiveUids
          /\ job' = None /\ UNCHANGED <<sa, work>>
       \/ /\ \E n \in Nodes :
                /\ work[n] # None /\ work[n].job \notin LiveJobs
                /\ work' = [work EXCEPT ![n] = None]
          /\ UNCHANGED <<sa, job>>
    /\ UNCHANGED <<nodes, dj, nextUid, crb, runOf, bc, cache, dirty, left>>
-----------------------------------------------------------------------------
(* Informers: SetupWithManager of the DaemonJob controller.  Each kind has a *)
(* watch of its own and lags on its own.  A Sync delivers all outstanding    *)
(* events of its kind.                                                       *)

Changed(kind) ==
    CASE kind = "dj"    -> dj' # dj
      [] kind = "sa"    -> sa' # sa
      [] kind = "crb"   -> crb' # crb
      [] kind = "job"   -> work' # work \/ JobView' # JobView
      [] kind = "nodes" -> nodes' # nodes

\* Every change of an object is an event, even if the next one undoes it.
Events == unseen' = unseen \union {k \in Kinds : Changed(k)}

Deliver(kind) == kind \in unseen /\ unseen' = unseen \ {kind}

SyncDaemonJob ==
    /\ Deliver("dj")
    /\ cache' = [cache EXCEPT !.dj = dj]
    /\ dirty' = TRUE

\* Owns: the owner reference names the DaemonJob.
SyncServiceAccount ==
    /\ Deliver("sa")
    /\ cache' = [cache EXCEPT !.sa = sa]
    /\ dirty' = TRUE

\* Owns finds no owner reference on a ClusterRoleBinding: nothing is enqueued.
SyncClusterRoleBinding ==
    /\ Deliver("crb")
    /\ cache' = [cache EXCEPT !.crb = crb]
    /\ UNCHANGED dirty

\* Mutant of SyncJobs: only the broadcast Job enqueues.
SyncBroadcastJobs ==
    /\ Deliver("job")
    /\ cache' = [cache EXCEPT !.job = JobView, !.work = work]
    /\ dirty' = (dirty \/ cache.job # JobView)

\* Every Job with the daemonjob-name label enqueues its DaemonJob.
SyncJobs ==
    /\ Deliver("job")
    /\ cache' = [cache EXCEPT !.job = JobView, !.work = work]
    /\ dirty' = TRUE

\* Mutant of SyncNodes: without the watch on nodes.
SyncNodesUnwatched ==
    /\ Deliver("nodes")
    /\ cache' = [cache EXCEPT !.nodes = nodes]
    /\ UNCHANGED dirty

\* Only deleted nodes are watched; a node enqueues the DaemonJobs that have a
\* worker Job on it in the cache.  Nodes in again have left and are back.
SyncNodes ==
    /\ Deliver("nodes")
    /\ cache' = [cache EXCEPT !.nodes = nodes]
    /\ \E again \in SUBSET nodes :
          dirty' = (dirty \/ \E n \in (cache.nodes \ nodes) \union again : cache.work[n] # None)

Sync ==
    /\ \/ SyncDaemonJob \/ SyncServiceAccount \/ SyncClusterRoleBinding
       \/ SyncJobs \/ SyncNodes
    /\ UNCHANGED <<nodes, dj, nextUid, sa, crb, job, runOf, work, bc, left>>
-----------------------------------------------------------------------------
ClusterNext ==
    \/ CreateDaemonJob \/ DeleteDaemonJob \/ DeleteJob \/ DeleteClusterRoleBinding
    \/ NodeChanges \/ RunStep \/ RunDies \/ WorkerEnds \/ Collect

ClusterTypeOK ==
    /\ nodes \in SUBSET Nodes
    /\ dj \in DaemonJobs \union {None}
    /\ nextUid \in 1..(MaxUid + 1)
    /\ sa \in Uids \union {None}
    /\ crb \in BOOLEAN
    /\ job \in BroadcastJobs \union {None}
    /\ runOf \in [Jobs -> Uids \union {None}]
    /\ work \in [Nodes -> R!Workers \union {None}]
    /\ bc \in [Jobs -> R!Runs]
    /\ cache \in Caches
    /\ dirty \in BOOLEAN
    /\ left \in [Disruptions -> Nat]
=============================================================================
