# Verification of daemonjob

daemonjob is a Kubernetes operator: a *DaemonJob* runs a Job once on every node, a
*DaemonCronJob* does so on a schedule, a *DaemonCronJobSet* keeps one CronJob per node.
This directory holds TLA+ models of its code, TLC configurations that check them on
small instances, and TLAPS proofs. Paths below are relative to the repository.

To run something: `tlc -workers 2 -config MCDaemonJobFaults.cfg MCDaemonJob`,
`tlapm DaemonJobProofs.tla`. The module of a configuration `MCx<Case>.cfg` is `MCx`.

## 1. The system

| Component | Source | State | Operations |
|---|---|---|---|
| DaemonJob controller | `internal/controller/daemonjob_controller.go` | informer caches, one work queue | `Reconcile`: finalizer, worker Jobs of deleted nodes, ServiceAccount, ClusterRoleBinding, broadcast Job, status |
| DaemonCronJob controller | `internal/controller/daemoncronjob_controller.go` | informer caches, queue | as the DaemonJob's, with a CronJob for the broadcast Job |
| DaemonCronJobSet controller | `internal/controller/daemoncronjobset_controller.go` | informer caches, queue | `Reconcile`: CronJobs of mismatched nodes, one CronJob per node, status |
| Broadcast program | `internal/broadcast/broadcast.go`, `cmd/broadcast/main.go` | the list of nodes it read | read the owner, list nodes, dry-run, create worker Jobs |
| Manifests, names, labels | `internal/controller/{daemonjob,daemoncronjob,daemoncronjobset}.go`, `BuildWorkerJob` | the objects in the API server | build an object; select the objects of a custom resource |
| Client helpers | `internal/controller/api.go` | none | `CreateOrUpdate`, finalizers, lists, `Exist` |
| Status and conditions | `internal/controller/status.go` | condition list in the status | `SetPair`, `SetProgressing`, `SetNotFound`, `State`, `CheckJobStatus` |
| QuorumExecutor | `internal/util/cond.go` | mutex, condition, count | `AckAndWait`, `WaitAndExecute` |
| daemonjobctl | `internal/daemonjobctl`, `cmd/daemonjobctl` | none | preview the manifests |
| Naming helpers | `internal/util/{hash,generic,label}.go` | none | name and label strings |
| Manager process | `cmd/controller/main.go` | wiring, flags | start, stop |

**How they interact.** Nothing calls anything directly: everything goes through the
API server. A controller reads *caches* that informers fill, one watch per kind, each
late on its own; it writes to the API server with the resourceVersion it read, so that
a stale write is a Conflict. A change of a watched object puts the key of its custom
resource in a queue, and the queue gives a key to one worker at a time. A broadcast
Job's pod talks to the API server without a cache, with the rights that the
ServiceAccount and the ClusterRoleBinding give it, and creates the worker Jobs; the Job
and CronJob controllers run them and the garbage collector deletes what has lost its
owner.

**What is hard.** (The list with lines is `hazards` in `PROJECT.json`.)

- *Stale caches.* `Reconcile` acts on a copy that may be several incarnations old;
  the caches it consults disagree with each other. It may create resources for an
  object that is gone, twice, or for its namesake.
- *Cleanup without an owner.* The ClusterRoleBinding is cluster-scoped, so that only
  the finalizer deletes it: it must never be made without one, never stay behind.
- *Partial failure.* Any call may fail, or take effect while its reply is lost; the
  whole reconciliation is then run again. The deletes of orphans only log their errors.
- *Partial broadcast.* The broadcast creates worker Jobs one by one and may be killed,
  refused or have its binding withdrawn half-way.
- *Overlapping broadcasts.* A DaemonCronJob has a broadcast per tick, which may still
  run when the next one starts, or when everything that owned it is gone.
- *Events that nobody sends.* At rest only an event wakes a controller. A kind that is
  not watched, or filtered, leaves it at rest in a wrong state.
- *Conditions.* `SetPair`, `SetProgressing`, `SetNotFound` write different subsets of
  the conditions, so that an old `True` may survive.
- *Names and labels.* Objects are found again by labels and created under joined names,
  which those of another custom resource may equal.
- *Condition variables.* Two rounds of waiters of one `sync.Cond` overlap.

**What makes it correct**, by component. The DaemonJob and DaemonCronJob controllers
create resources only under the finalizer, clean up, come to rest, and at rest the
resources exist and the state is true; a DaemonJob gets one broadcast Job. A broadcast
never touches another's worker Jobs and ends. What a deleted resource owned, goes, down
to the worker Jobs. The DaemonCronJobSet has, at rest, exactly one CronJob per matching
node and a status that says so. No controller deletes, or relies on, another custom
resource's objects. An acker never returns before its round was executed and no quorum
is missed.

## 2. The modules

```
Conditions ──┬─ DaemonCronJobSet ── DaemonCronJobSetProofs
             │
             │  ┌─ BroadcastProofs
Broadcast  ──┼──┴ Cluster ── DaemonJob ─┬─ DaemonJobProofs ────── DaemonJobRefinement
             │                          │
             │               Finalizer ─┤
             │                          │
             └───────── DaemonCronJob ──┴─ DaemonCronJobProofs ── DaemonCronJobRefinement

Manifests ── Tenants ── TenantsProofs
Rounds ── QuorumExecutor ── QuorumExecutorProofs
```
`MCBroadcast`, `MCDaemonJob`, `MCDaemonCronJob`, `MCDaemonCronJobSet`, `MCTenants` and
`MCQuorumExecutor` extend the module of that name and give TLC its constants and
symmetry. Operators under a comment that starts "Mutant of" are deliberate bugs that
show that a property can fail; no action of a specification uses them.

**`Conditions`** — the condition lists and the functions of `status.go`. A list is a
function from types to a status, `"True"`, `"False"` or, for a type not in it, `"None"`,
and a message; `SetPair` gives the message to the true one of its two conditions.
`SetProgressing` leaves Available/Complete and Degraded alone, as the code does. A status
write that changes nothing makes no event, so that messages matter to what comes to rest.
So do the times of transitions: `Flips` says when a list that reads as before has new ones.

**`Broadcast`** — `broadcast.Run`, one action per API call: `ReadOwner`, `ListNodes`
(an empty list ends the run), `DryRun` of all worker Jobs, `CreateWorker` per node in
any order, `Refused` and `Crash`. How the run ends is the exit status of the pod, and
the status of its Job; `BackoffLimit` 0 and `RestartPolicy` Never make it one run per
Job. On its own it has an environment that adds and removes nodes, owner, binding and
worker Jobs.

**`Finalizer`** — the abstract specification: a resource without an owner is made only
by work for an object that exists and carries a finalizer, and the finalizer leaves only
an object that was deleted, while nobody works for it. It has neither caches nor queue
nor calls. `DaemonJob` and `DaemonCronJob` implement it: `ImplementsFinalizer` in each,
with the refinement mapping `Uid`, `Phase`, `Working` and the binding for `made`. That
two controllers share it is a statement about the code: `daemoncronjob_controller.go`
repeats the protocol of `daemonjob_controller.go`.

**`Cluster`** — everything around the DaemonJob controller, for one DaemonJob name with
successive incarnations (uids): the objects in the API server, users, nodes, broadcast
runs (an INSTANCE of `Broadcast`), garbage collector, and the informers. `cache` is
what the controller reads. `unseen` is the set of kinds with events their informer has
not delivered; a change that is undone before its delivery is still an event. The
informer of a kind delivers all its outstanding events in one step (`SyncX`), which
sets `dirty` — the key is in the queue — when the handler in `SetupWithManager` would
enqueue. `Budget` bounds how often each disruption happens, `Mixes` which kinds of them
meet in one behaviour, `FirstNodes` the nodes to begin with. `Messages` are what the
DaemonJob's conditions may say: a text and a sequence of worker Jobs that it names.

**`DaemonJob`** — `Reconcile`, cut at each call that writes.

| pc | code |
|---|---|
| `idle` | `Reconcile` reads the DaemonJob and branches |
| `addFinalizer` | `AddFinalizerIfNotExist` (Update) |
| `onDelete`, `removeFinalizer` | `onDelete`, `RemoveFinalizerIfExist` |
| `listNodes`, `deleteWorkers` | `deleteWorkerJobsOnNotExistNode`: the Node list, then the Job list and the deletes |
| `applySA`, `applyCRB`, `applyJob` | `applyJob`: ServiceAccount, ClusterRoleBinding, broadcast Job |
| `status`, `getJob`, `list` | `updateStatus`: what exists, the broadcast Job's status, the worker Jobs' |

The reads between two writes go to the caches and happen with the write they lead to,
with two exceptions, in which the caches may move on between two reads. A list that is
compared with another is a step of its own: `ListNodes` precedes the list of the worker
Jobs. An object that is read twice is read in two steps: `CheckResources`, `UpdateStatus`
and `UpdateStatusOfWorkers` read Jobs one after the other. For the other reads nothing is
lost: a kind that was read earlier is a kind whose informer delivers later, and informers
step independently of the controller.

A message names worker Jobs in the order in which the cache has listed them. An informer's
store is a Go map: `Naming` takes any order, a new one each time.

Calls end as in the code: `Fail`/`Requeue` is a returned error, `Done` is
`ctrl.Result{}, nil`, `Written(A)` adds the lost reply. Optimistic concurrency is
equality of the local copy and the API server's object.

**`DaemonCronJob`** — the whole reconciler with its environment. The same protocol and
the same cut, with these differences, each from the code:

- `Tick`: the CronJob controller makes a broadcast Job per tick, under the three
  concurrency policies; `UpdateActive` and `RetireJob` (history limits) are its other
  steps. Each tick is a run of module `Broadcast`, and the runs overlap.
- `EditDaemonCronJob` gives the template labels or takes them away: without labels
  `CronJob` panics (`maps.Copy` into a nil map), which controller-runtime turns into an
  error.
- Jobs are not watched: `SyncJobs` enqueues nothing.
- `updateStatus` ends in `SetPair(true)` whenever the CronJob is in the cache.
- Worker Jobs run until they are deleted: nothing here reads how they end.

**`DaemonCronJobSet`** — the whole reconciler with its environment: nodes with labels,
selector and template edits, foreground and background deletion, CronJobs deleted by
users, its three informers, failures and restarts. It has no finalizer. A reconciliation
lists the nodes three times and the CronJobs twice, and the caches move on in between:
`MatchingNodes` and `DeleteCronJobsOnMismatchedNode`, `DesiredCronJobs` and one
`ApplyCronJob` per node, `CountNodes` and `UpdateStatus`.

**`Manifests`** — the objects as the code builds them: kind, namespace, name, owner,
labels, the ServiceAccount, the nodes a worker may run on, as pure operators, and the
label selectors of `api.go` that find them. A name is the sequence of its segments
between dashes; `\o` is the joining of strings, so that two names may be equal. The
DaemonCronJob's objects are built as a DaemonJob's and relabelled (`FixCommonLabels`), as
in the code. The constructors set no owner; `Owned` is `SetControllerReference`, which
`CreateOrUpdate` calls. A worker Job is made from a `Config`: the broadcast pod has it from
the name and labels of its Job (`PodConfig`), `daemonjobctl generate` fills it in by hand
(`PreviewConfig`). `Preview` is what that command prints: the constructors' objects, no
owner given.

**`Tenants`** — several custom resources of all three kinds and several namespaces in one
cluster, each creating, selecting and deleting objects through `Manifests`. A
reconciliation and a broadcast are one step each and the caches are up to date: the other
modules deal with the order of events within one custom resource; this one with what
several do to each other.

**`QuorumExecutor`** — every stretch of `cond.go` under the mutex is an action;
`sync.Cond.Broadcast` wakes all waiters, which take the mutex again in any order and
possibly after newcomers. The variable `acked` is history, for the properties only.

**`Rounds`** — the abstract specification of a quorum executor: those who have
acknowledged wait, an execution takes a quorum of them and releases them all, and who is
released may leave. It has no count, no mutex and no vain wake-ups. `QuorumExecutor`
implements it: `waiting` and `released` are the ackers inside the call, told apart by
whether the function has been executed since their increment.

### External behaviour that is assumed

- *API server and client library*: as above. `CreateOrUpdate` reads the cache; if the
  object is absent it creates (AlreadyExists is an error), otherwise it writes only
  when the mutation changed something, and the mutation is `SetControllerReference`,
  which compares group, kind and name of an existing owner but not its uid. Hence an
  object left by a deleted namesake is *adopted*. Removing the last finalizer of a
  deleted object removes it.
- *Garbage collector*: deletes objects whose owner's uid is not there, at any time.
- *Work queue*: one key, deduplicated, one worker per key, retried on error and on a
  recovered panic. Backoff is not timed.
- *Job controller*: the status of a Job follows its pod. A deleted Job's pod is killed
  some time later, so that it may still create worker Jobs.
- *CronJob controller*: a Job per tick, owned by the CronJob and named after the
  scheduled time; it retires finished Jobs only.

## 3. Runs

| Run | Instance | What it shows |
|---|---|---|
| `MCBroadcast` | 2 nodes, 2 runs with the same worker names | `NoOverwrite`: a run never takes over another's worker Job. `ServedOrFailed`: a node that a run has listed gets its worker Job, or the run fails. `RunEnds`: a run always ends |
| `MCDaemonJobFaults` | 2 incarnations, 3 Jobs; any two of: delete and re-creation, broadcast Job deleted, lost reply; or a node joins, so that there are worker Jobs, with a deletion or a lost reply | `Protected`, `CreatedUnderFinalizer`, `OneBroadcastPerIncarnation`, `ResourcesAtRest`, `BindingGoneUnlessLagging`, and that `ProtectedInv` and `BroadcastsCounted`, the invariants of the proofs, are true |
| `MCDaemonJobNodes` | 2 nodes (symmetric), 1 incarnation, 1 Job; a node leaves and one of: a node joins, the broadcast crashes, restart; or a restart and one of: a node joins, the broadcast crashes, the binding is deleted | `OrphansAtRest`, `CompleteIsTrue`, `StateAtRest`, `BindingUnlessLagging` |
| `MCDaemonJobLive` | 2 nodes, 1 incarnation; delete and one of: binding deleted by a user, failed call, restart; or the second node joins; `FairSpec` | `DeletionCompletes`, `ComesToRest`, the refinement `ImplementsFinalizer` |
| `MCDaemonCronJob` | 1 node, 2 incarnations, 2 CronJobs, 1 tick, templates with and without labels, seven alternative budgets; `FairSpec` | `ProtectedInv` (with the types and `Protected`), `ImplementsFinalizer`, `ReadyAtRest`, `BindingUnlessLagging`, `DeletionCompletes`, `ComesToRest`, `LeavesNothing` |
| `MCTenants` | a DaemonJob, DaemonCronJob and DaemonCronJobSet of one name and a second DaemonJob in another namespace, 1 node, 1 tick | `HandsOff`, `BindsOwn`, `PreviewIsTrue`, and that `OwnersInv`, the invariant of the proofs, is true: it says that no two objects have a name in common |
| `MCQuorumExecutor` | 4 ackers, 2 executors, quorum 2; `FairSpec` | `RoundInv`, `NoEarlyReturn`, `AcksAreInside`, `QuorumExecutes`, the refinement `ImplementsRounds` |
| `MCDaemonCronJobSetNodes` | 2 nodes (symmetric), 2 templates, 2 node changes, edit, lost reply, restart | `EveryNodeHasItsCronJob`, `OneCronJobPerNode`, `StatusAtRest` |
| `MCDaemonCronJobSetLive` | 1 node, 2 incarnations, delete, CronJob deleted, node change, failed call; `FairSpec` | `EveryNodeHasItsCronJob`, `PutsNothingBack`, `DeletionCompletes`, `ComesToRest` |
| `MCDaemonJobBindingLeft`, `MCDaemonJobAdopted`, `MCDaemonCronJobUnlabelled` | | violations, section 6 |

*Bounds.* Two incarnations suffice for what a namesake leaves behind: a cache lags
behind by one incarnation or more, and three look like two to a controller that knows
only "mine" and "another's". A property of one node's worker Job needs one node; that of
"all but one", the order of names in a message, and the counts of a status, which may be
equal although the sets are not, need two. Two Jobs are one and its
replacement; three let each incarnation have its own and a user delete one of them. Four
ackers with quorum two are two full rounds, the smallest overlap of rounds with more than one waiter each.
One occurrence of each disruption is enough to strike at every step. Combinations are
limited so that each run remains exhaustive: in `MCDaemonJob` the kinds of each of the
run's `Mixes` meet, two at a time, in `MCDaemonCronJob` each of the `Budgets` in `Everything` is one
combination of happenings around a creation — a tick with a delete or with a node leaving;
a delete and a re-creation; a delete with the binding gone; an edit with a failed call;
the ServiceAccount and the CronJob deleted with a restart; a lost reply. Where the budget
runs out the system comes to rest, which is legal: `CHECK_DEADLOCK FALSE` is set for this
reason in all runs but `MCBroadcast`, whose environment never stops.

*At rest* (`Settled`) means: no reconciliation, empty queue, every event delivered. From
there only a new event or the ten-hourly resync makes the controller act.

*Fairness.* Weak fairness on the controller's step (a queue worker that has a key runs),
on delivery (an open watch delivers in the end — per informer in `DaemonCronJobSet`), on
the steps of a broadcast (its pod runs) and on the garbage collector. None on users,
nodes, ticks, worker Jobs' ends, history limits, faults or restarts. In `QuorumExecutor` a
woken goroutine gets the mutex in the end; nobody is obliged to call.

The type invariants are theorems (section 4); the runs check them as parts of `ProtectedInv` and
`RoundInv`.

Some properties say more than their names. `ComesToRest` of `DaemonCronJob` excepts a
resource whose template makes the controller panic: it is retried for ever, and
`DeletionCompletes` shows that it can still be deleted. `LeavesNothing` is about the chain
DaemonCronJob → CronJob → broadcast Job → worker Job, while a run goes on creating worker
Jobs for a Job that is already collected. `BindingUnlessLagging` is the part of
"create ClusterRoleBinding if not exist" that the code does keep, `BindingGoneUnlessLagging`
that of "Delete ClusterRoleBinding using a finalizer": section 6 shows both without their
exception. `ComesToRest` of `DaemonJob` excepts a status that is written for ever because
the cache lists the same worker Jobs in a new order each time: the order is random, so that
two running worker Jobs stop being reported anew with probability one, but no fairness of
steps says so (`MCDaemonJobShuffled`, section 6). `ServedOrFailed` is what is left of
"atomically" (`MCBroadcastAtomic`): a node is not left out in silence. `PreviewIsTrue`
compares objects up to the reference to the custom resource that they are made for, which
the preview does not print.

## 4. Proofs

All from two assumptions per module: `BoundsAssumption` (bounds are naturals and budgets
functions to naturals; for `DaemonCronJob` also that the policy is one of the three) and
`NoneAssumption` (the absent object is no object); `QuorumAssumption` for the quorum. They
hold for every set of nodes, every number of incarnations, Jobs and ticks, and every
budget of disruptions. `Tenants` assumes of names only that they are names
(`NamesAssumption`) and that the API server has one custom resource of a kind and name in
a namespace; its theorems hold for any number of custom resources. The counts of `RunsBounded` and
`RunsShorten` need finitely many nodes. Two theorems, `OrphansSwept` and `NoStrayCronJob`, also assume
`Budget["apiError"] = 0`: `Reconcile` only logs the error of a delete, and section 6 shows
what a failed one leaves behind.

**`DaemonJobProofs`**
- `TypeCorrect`: `Spec => []TypeOK`;
- `ProtectedInvariant`: `Spec => []ProtectedInv`;
- `AlwaysProtected`: `Spec => []Protected` — while a reconciliation creates resources
  the incarnation it works for is in the API server, with its finalizer;
- `BindingUnderFinalizer`: `Spec => CreatedUnderFinalizer`;
- `BindingFirst`: `Spec => BindingUnlessLagging`;
- `ResourcesThere`: `Spec => []ResourcesAtRest`;
- `StateThere`: `Spec => []StateAtRest`;
- `OrphansSwept`: `Spec => []OrphansAtRest`, if no call fails;
- `CompleteTrue`: `Spec => CompleteIsTrue`;
- `BindingGone`: `Spec => BindingGoneUnlessLagging`;
- `BroadcastsAreCounted`: `Spec => []BroadcastsCounted`;
- `OneBroadcast`: `Spec => []OneBroadcastPerIncarnation` — an incarnation gets one
  broadcast Job, plus one for each that a user deletes;
- `DeletionRemembered`: `Spec => []NoDeletionAtRest`.

*The finalizer protocol.* `Protected` is about the object in the API server, but the code only
tests a cached copy, arbitrarily old. It is not inductive: when `Reconcile` starts from
a copy with the finalizer, nothing in `Protected` says that the finalizer is still
there. The missing fact is `CacheIsPast`: a *cached copy that carries the finalizer and
is not being deleted proves that its incarnation exists and carries it still*. It holds
because a finalizer is removed only by a reconciliation that finalizes
(`RemoveFinalizer`), which worked from a copy with the deletionTimestamp, and by then
the cache of that incarnation has the timestamp too (`FinalizingIsSeen`); the cache
moves forward only, and a timestamp never goes away. `AddingIsRead` gives the case of
the finalizer being added: an Update succeeds only on the very object that was read.
The step lemmas go action by action; `UnseenStep` deals with the set of pending events.

*What is there at rest.* `CacheSeen` is the bridge from the caches to the cluster: a
cached object is the real one unless an event of its kind is outstanding. The work is to
show that an event which matters puts the key back in the queue. `Applied` says what a
reconciliation has achieved *while nothing waits in the queue*: it works for the cached
DaemonJob, and the resources it has passed are there (`ServiceAccountHeld`, `JobHeld`), or
their events are outstanding and will enqueue the key; when it has ended, so are all of
them. A failed call, a conflict or a restart enqueues the key and makes `Applied` hold
vacuously; at rest nothing is outstanding and the cache is the cluster. `StateThere`
adds `Told` (the workers are listed for a broadcast Job that is complete in the cache, and
the conditions written are the outcome of the cached Jobs), `OrphansSwept` adds `Swept`:
from the deletes on, no cached worker Job is on a node that is gone (`GoneSwept`). The
deletes go by a list of nodes that may be out of date by then; `ListedSwept` says that the
cache has no worker Job on a node that has gone since, because the key would be in the
queue: the watch on nodes has enqueued it, or the event of that Job still will.

*What Complete says.* `updateStatus` lists worker Jobs from the cache, which might not have
them yet. `Informed`: a broadcast Job that is complete in the cache comes of a run that
has ended (`Covered`), and the Job informer, which serves both, has by then told of every
worker Job the run created. An ended run creates no more, and a worker Job that is
complete stays so.

*One broadcast per incarnation.* The count alone is not inductive: `applyJob` creates whenever the name is
free, and the garbage collector frees names. `BroadcastsCounted` ties the two: while an
incarnation exists, the broadcast Job that was created for it *belongs* to it, so
that the garbage collector spares it (`CountedCollect`) and only a user can free the
name (`CountedDelete`). Jobs are created for, and handed over to, the
incarnation that exists and no other (`CountedApply`): this is `Protected`, so the
proof rests on the finalizer protocol. An incarnation that does not exist yet has none.

*No deletion is forgotten* (`DeletionRemembered`: `Spec => []NoDeletionAtRest`). What is being
deleted still has its finalizer (`Held`), in the API server and in the cache: the API server
drops it otherwise. A deletion the cache shows has put its key into the queue, is being
finalized, or was, and then the event of the object's end is still to come (`Finishing`):
a conflict, an error, a lost reply and a restart all put the key back.

**`DaemonCronJobProofs`** — `TypeCorrect`, `ProtectedInvariant`, `AlwaysProtected`, `BindingFirst`,
`BindingGone`, `ReadyThere` and `DeletionRemembered` for the DaemonCronJob: the same
invariants, through edits of the resource by users (which make every write in flight
conflict), panics, ticks and three concurrency policies.

**`DaemonJobRefinement`, `DaemonCronJobRefinement`** — `DaemonJobImplementsFinalizer` and
`DaemonCronJobImplementsFinalizer`: `Spec => ImplementsFinalizer`. Every step maps to one
of `Finalizer` or to a stutter. `ProtectedInv` is what makes it go through: `Begin`
requires the finalizer on the *real* object where the code looks at the cached one, and
`Release` and `Vanish` require that nobody works, which is the controller's single `pc`.

**`QuorumExecutorProofs`** — `RoundInvariant` (`Spec => []RoundInv`) and
`NoAckerReturnsEarly` (`Spec => []NoEarlyReturn`) for all goroutines and quorums: while an
acker of the current round is inside, the count is positive, so it goes back to sleep. The
quorum may be 0: the code does not forbid it. `AcksAreOfAckersInside`
(`Spec => []AcksAreInside`) counts: `AcksInv` says that the ackers waiting in the current
round are finitely many and at least `ack`. `QuorumExecutorImplementsRounds`
(`Spec => ImplementsRounds`) uses both: that count makes an execution one of a quorum that
waits, and `RoundInv` makes every acker that returns one that has been released.

`NoWakeupLost` (`Spec => []NoLostWakeup`): while a quorum has acknowledged, no executor
is asleep.

**`BroadcastProofs`** — `TypeCorrect` and `NothingOverwritten` (`Spec => NoOverwrite`) for
any number of runs, nodes and common names of worker Jobs. For finitely many nodes,
`RunsBounded` and `RunsShorten` count the calls that a run has left: three and one per node
at first, fewer after each of its steps, and none exactly when it has ended. An auxiliary
invariant, `HasWork`, makes the last true: the nodes left to a run that creates are some.

**`DaemonCronJobSetProofs`**
- `TypeCorrect`: `Spec => []TypeOK`;
- `EveryNodeServed`: `Spec => []EveryNodeHasItsCronJob`;
- `StatusTrue`: `Spec => []StatusAtRest`;
- `NoStrayCronJob`: `Spec => []OneCronJobPerNode`, if no call fails;
- `NothingPutBack`: `Spec => PutsNothingBack`.

*The argument* is again about what holds while nothing waits in the queue. `Progress`: the
nodes that the reconciliation has done have their CronJobs. `Reported`: the cached status
counts what the caches have. `Cleared`: from the deletes on, no CronJob is on a node that
does not match (`NoneLeft`). The nodes are listed before the CronJobs: `NoneKept` and
`Listed` say of the deletes and of the status that, with nothing in the queue, the list is
still right where a CronJob is at stake, because every change of a node that matters has
put the key there. `StatusTrue` needs `EveryNodeServed`: `updateStatus` compares two
*numbers*, and equal numbers mean equal sets only because no matching node is without its
CronJob.

**`TenantsProofs`**
- `OwnersInvariant`: `Spec => []OwnersInv`;
- `TypeCorrect`: `Spec => []TypeOK` — with it, that no two objects share kind, namespace
  and name;
- `HandsOffHolds`: `Spec => HandsOff`;
- `PreviewIsTrueHolds`: `Spec => PreviewIsTrue`: the names, labels and owner that the pod's
  Config leads to are those of the preview's Config, and only the owner of the
  ServiceAccount and the broadcast Job is not shown;
- `BindsOwnUnlessJoined`: `Spec => []BindsOwn`, if `BindingsApart`;
- `SetsServedUnlessJoined`: `Spec => SetsServed`, if `CronJobsApart`;
- `BoundToItsNodeWithoutAffinity`: `Spec => []BoundToItsNode`, if `NoAffinities`.

*The argument.* Labels and names are all that a controller knows its objects by, and names
are joined, so that two of them may be equal. `Makable` is the set of all objects that the
constructors of the code can build; the lemmas about it say what a label selector finds
among them: worker Jobs made for the custom resource that looks, or CronJobs of that set.
This is where kinds, whose label keys the code rewrites into each other, are kept apart.
The garbage collector is the other one that deletes: `OwnersInv` says that the owner of what
exists for a live custom resource exists as well, and was made for the same one. The owner of
a worker Job is found by its broadcast's key, and one ServiceAccount name belongs to one
custom resource because its suffix names the kind (`AccountInjective`). The last three
theorems have hypotheses because the code has no defence where they fail:
`MCTenantsBinding`, `MCTenantsCronJob` and `MCTenantsAffinity` (section 6) each violate one
of them and the conclusion with it, so that none can be dropped.

*Only model-checked*: the liveness properties (`ServedOrFailed`, `RunEnds`,
`QuorumExecutes`, `DeletionCompletes`, `ComesToRest`, `LeavesNothing`), which with ENABLED
and weak fairness are out of the proof system's reach. Of four of them the safety half is
proved: for `RunEnds` that a run takes boundedly many steps and has one left until it ends
(`RunsBounded`, `RunsShorten`), for `QuorumExecutes` that no executor sleeps through a quorum
(`NoWakeupLost`), for `DeletionCompletes` of the two controllers with a finalizer that none of
them comes to rest before the deletion is complete (`DeletionRemembered`), and for that of
the DaemonCronJobSet that it only loses CronJobs (`NothingPutBack`). What remains to
TLC is that steps which may be taken are taken, and that none undoes another for ever.

## 5. What is not modelled

- Manifest fields other than those named under `Manifests`; the user's own labels; the
  limits on the length of names (63 characters of a Job name, 52 of a CronJob name), which
  a node name added to a long resource name can exceed.
- In `Cluster` and `DaemonCronJob` all nodes match the nodeSelector: node labels are
  modelled in `DaemonCronJobSet` only.
- What distinguishes two messages beyond their text and the worker Jobs that they name:
  which resource is not found (the checks have a fixed order, so that only a cache that has
  moved on makes it another), the reasons and messages of failed Jobs, and the termination
  logs of a failed broadcast's pods, of which there is one (`BackoffLimit` 0) but whose
  list would come in any order, too.
- Pods of worker Jobs, retries within a worker Job, `ttlSecondsAfterFinished`.
- Edits of a DaemonJob's spec, and of a DaemonCronJob's beyond its labels: `applyJob`
  and `applyCronJob` write nothing but the owner reference of an existing object; for the
  DaemonCronJobSet, where the same is visible, they are modelled (`TemplateAtRest`).
- `startingDeadlineSeconds`, suspension and the wall clock of the schedule: a tick may
  happen at any time.
- The resync every ten hours, and two managers at once (`manifests/install.yaml`
  deploys one replica, with `--leader-elect`).
- The manager's `main`, daemonjobctl apart from the objects it previews, CRDs, chart,
  generated deep copies, hash and reflection helpers: wiring, pure output, data.

## 6. Findings

Three runs end in a counterexample, each against a sentence of the repository
(`findings` in `PROJECT.json` quotes them).

1. `MCDaemonJobBindingLeft` / `FinalizerDeletesBinding` — `onDelete` deletes what the
   cache lists. If the DaemonJob is deleted before the informer has told of a binding
   just created, the finalizer goes and the binding stays for ever.
2. `MCDaemonJobAdopted` / `CompleteHasRun` — a DaemonJob deleted and created again takes
   over the finished Job of its predecessor from the cache and turns Complete
   without a broadcast of its own.
3. `MCDaemonCronJobUnlabelled` / `GetsCronJob` — a DaemonCronJob without labels in its
   `cronJobTemplate` makes every reconciliation panic in `applyCronJob`; the CronJob is
   never created, although the labels are optional.

Further configurations, kept for reading, also end in a counterexample. They show
limits of the code that follow from its design, or that the text promises less clearly.

| Configuration | Property | What happens |
|---|---|---|
| `MCBroadcastAtomic` | `AtomicApply` | "Applying worker jobs … atomically" (`broadcast.go:167`): a run that fails between two creates leaves some worker Jobs |
| `MCDaemonJobStaleComplete` | `CompleteIsCurrent` | `SetProgressing` leaves Complete at `True`: a DaemonJob whose broadcast Job was replaced stays Complete (`status.go:73`) |
| `MCDaemonJobDegraded` | `DegradedIsTrue` | likewise a Degraded survives its cause |
| `MCDaemonJobNoBinding` | `BindingBeforeJob` | a binding still cached but already deleted is not made again before the Job is (`daemonjob_controller.go:197`) |
| `MCDaemonJobBindingLost` | `BindingAtRest` | `Owns(ClusterRoleBinding)` sees no owner reference: a deleted binding is not made again until something else happens (`:333`) |
| `MCDaemonJobOrphan` | `OrphansAtRest` with a failed call | the error of a delete is only logged, and nothing tries again (`:111`) |
| `MCDaemonJobNewNode` | `SparesExistingNodes` | the nodes are listed first: a node that joins and gets its worker Job before the second list, or whose event is late, looks deleted: its worker Job is (`:146`, `:161`) |
| `MCDaemonJobShuffled` | `ComesToRestInAnyOrder` | with two running worker Jobs, a status written in a new order of their names each time enqueues the DaemonJob for ever (`:301-316`); only the chance of drawing the same order twice ends it |
| `MCDaemonCronJobOrphan` | `OrphansAtRest` | without a watch on Jobs, a worker Job whose node goes before the cache has the Job stays (`daemoncronjob_controller.go:247`) |
| `MCDaemonCronJobListed` | `SparesKnownNodes` | the nodes are listed first: a node that joins and gets its worker Job before the second list looks deleted (`:139`) |
| `MCDaemonCronJobAvailable` | `AvailableIsTrue` | Available although the binding is missing (`:242`) |
| `MCDaemonCronJobForbid` | `NoOverlap` | `concurrencyPolicy: Forbid` is about broadcasts, which end at once: the worker Jobs of two ticks overlap on a node |
| `MCDaemonCronJobHistory` | `RunningSpared` | the history limit deletes a finished broadcast Job, and with it its worker Jobs that still run |
| `MCDaemonCronJobSetEdit` | `TemplateAtRest` | an edited template does not reach existing CronJobs (`api.go:242`) |
| `MCDaemonCronJobSetOrphan` | `OneCronJobPerNode` with a failed call | as `MCDaemonJobOrphan` (`daemoncronjobset_controller.go:82`) |
| `MCTenantsBinding` | `BindsOwn` | namespace `a`, name `b-c` and namespace `a-b`, name `c` share one ClusterRoleBinding name (`daemonjob.go:93`): one's pods have no rights |
| `MCTenantsCronJob` | `SetsServed` | two DaemonCronJobSets whose names and nodes join to one CronJob name (`daemoncronjobset.go:50`): one is never served |
| `MCTenantsAffinity` | `BoundToItsNode` | the node's term is appended to the user's, and terms are ORed: a worker may run on another node (`broadcast.go:251`) |
| `MCQuorumExecutorStuck` | `QuorumReleases` | a late acker sends the ones of an executed round back to sleep, possibly for ever; no other code uses `QuorumExecutor` |

`OrphansAtRest` and `OneCronJobPerNode` are therefore checked without failing calls in
the passing runs, and with them here; `BindsOwn` with names that do not join alike. The
theorems say the same: their hypotheses are these conditions.

## 7. Plan

1. `Conditions`, `Broadcast`, `Cluster`, `DaemonJob` — done. First because the finalizer
   protocol under stale caches and the broadcast are the core of the program.
2. `QuorumExecutor`, `DaemonCronJobSet` — done.
3. `DaemonCronJob` — done. `Manifests` and `Tenants` — done.
4. `Finalizer`, the abstract specification, with the proofs that both controllers
   implement it — done.
5. The proofs of the safety properties of `Broadcast`, `DaemonJob`, `DaemonCronJob`,
   `DaemonCronJobSet`, `QuorumExecutor` and `Tenants`, and that `QuorumExecutor`
   implements `Rounds` — done.
6. Left: resources with a nodeSelector in `Cluster` and `DaemonCronJob`; stale caches and
   interleaved steps in `Tenants`.
