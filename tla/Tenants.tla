------------------------------- MODULE Tenants -------------------------------
(***************************************************************************)
(* Several custom resources of all three kinds, in several namespaces, in  *)
(* one cluster.  Modules DaemonJob, DaemonCronJob and DaemonCronJobSet     *)
(* look at one custom resource each, in every order of events.  Here each  *)
(* reconciliation and each broadcast is one step, caches are up to date    *)
(* and nothing fails: what is left is what they do to each other's objects *)
(* by way of names and labels (module Manifests).                          *)
(***************************************************************************)
EXTENDS Manifests, FiniteSets

CONSTANTS Segments,    \* what names consist of
          Nodes,       \* node names
          Resources,   \* custom resources that users may create, once each
          Ticks        \* bound: scheduled times, as name segments

\* Names are names, and the API server has one custom resource of a kind and name
\* in a namespace.
ASSUME NamesAssumption ==
    /\ \A kind \in DOMAIN Suffix : Suffix[kind] \in Segments
    /\ Ticks \subseteq Segments
    /\ Nodes \subseteq Seq(Segments)
    /\ Resources \subseteq [kind : DOMAIN Suffix, ns : Seq(Segments), name : Seq(Segments),
                           affinity : SUBSET Nodes]
    /\ \A c \in Resources : c.name # <<>>
    /\ \A c, d \in Resources : Self(c) = Self(d) => c = d

ASSUME NoneAssumption == \A c \in Resources : Account(c) # None

VARIABLES
    state,     \* "new", "live" or "gone", for each custom resource
    nodes,     \* existing nodes (all match the nodeSelectors)
    objs,      \* the objects created for the custom resources
    ran        \* keys of the broadcast Jobs whose pods have ended

vars == <<state, nodes, objs, ran>>

Live == {c \in Resources : state[c] = "live"}

\* The objects that the controllers ask for, and the worker Jobs of the run of j.
ServiceAccountOf(c) == Owned(ServiceAccount(c), c)
BroadcastJobOf(c)   == Owned(BroadcastJob(c), c)
CronJobOf(c, n)     == Owned(CronJobForNode(c, n), c)
WorkerJobOf(j, n)   == WorkerJob(PodConfig(j), j.for, n)

\* The API server has an object of that kind, namespace and name.
Taken(o, all) == \E p \in all : Key(p) = Key(o)

\* SetControllerReference fails: the object of that name has another controller.
AlreadyOwned(o, all) == \E p \in all : Key(p) = Key(o) /\ p.owner # o.owner

\* CreateOrUpdate creates what is missing, and changes nothing of what exists.
Missing(want, all) == {o \in want : ~Taken(o, all)}
-----------------------------------------------------------------------------
Create(c) ==
    /\ state[c] = "new"
    /\ state' = [state EXCEPT ![c] = "live"]
    /\ UNCHANGED <<nodes, objs, ran>>

\* The ServiceAccount, the ClusterRoleBinding and the broadcast Job or CronJob,
\* up to the first that another object controls.
Applicable(c, all) ==
    IF AlreadyOwned(ServiceAccountOf(c), all) THEN {}
    ELSE {ServiceAccountOf(c), ClusterRoleBinding(c)}
         \union (IF AlreadyOwned(BroadcastJobOf(c), all) THEN {} ELSE {BroadcastJobOf(c)})

Orphans(c) == {o \in ListWorkers(objs, c) : o.labels["node"] \notin nodes}

Reconcile(c) ==
    /\ c.kind # "DaemonCronJobSet"
    /\ state[c] = "live"
    /\ LET kept == objs \ Orphans(c)
       IN  objs' = kept \union Missing(Applicable(c, kept), kept)
    /\ UNCHANGED <<state, nodes, ran>>

\* The CronJobs in any order, up to the first whose name another set's has.
ReconcileSet(c) ==
    /\ c.kind = "DaemonCronJobSet"
    /\ state[c] = "live"
    /\ LET kept  == objs \ Orphans(c)
           want  == {CronJobOf(c, n) : n \in nodes}
           owned == {o \in want : AlreadyOwned(o, kept)}
       IN  \E done \in SUBSET (want \ owned) :
              /\ owned = {} => done = want
              /\ objs' = kept \union Missing(done, kept)
    /\ UNCHANGED <<state, nodes, ran>>

Tick ==
    /\ \E cronJob \in objs, t \in Ticks :
          /\ cronJob.kind = "CronJob" /\ cronJob.account # None
          /\ LET j == JobOfTick(cronJob, t)
             IN  ~Taken(j, objs) /\ Key(j) \notin ran /\ objs' = objs \union {j}
    /\ UNCHANGED <<state, nodes, ran>>

\* A pod needs its ServiceAccount.
Runnable(j) ==
    /\ j.kind = "Job" /\ j.account # None
    /\ Key(j) \notin ran
    /\ \E p \in objs : p.kind = "ServiceAccount" /\ p.account = j.account

\* A binding gives the account its rights, the custom resource is there, and no
\* worker Job's name is taken (Run).
Succeeds(j) ==
    /\ \E p \in objs : p.kind = "ClusterRoleBinding" /\ p.account = j.account
    /\ \E c \in Live : Self(c) = OwnerOf(PodConfig(j))
    /\ \A n \in nodes : ~Taken(WorkerJobOf(j, n), objs)

Broadcast(j) ==
    /\ Runnable(j)
    /\ ran' = ran \union {Key(j)}
    /\ objs' = objs \union (IF Succeeds(j) THEN {WorkerJobOf(j, n) : n \in nodes} ELSE {})
    /\ UNCHANGED <<state, nodes>>

\* The finalizer deletes the bindings, and the custom resource goes.
Delete(c) ==
    /\ state[c] = "live"
    /\ state' = [state EXCEPT ![c] = "gone"]
    /\ objs' = IF c.kind = "DaemonCronJobSet" THEN objs ELSE objs \ ListBindings(objs, c)
    /\ UNCHANGED <<nodes, ran>>

\* The garbage collector: owners are custom resources or objects.
OwnerExists(o) ==
    \/ o.owner = None
    \/ \E c \in Live : Self(c) = o.owner
    \/ \E p \in objs : Key(p) = o.owner

Collect ==
    /\ \E o \in objs : ~OwnerExists(o) /\ objs' = objs \ {o}
    /\ UNCHANGED <<state, nodes, ran>>

NodeChanges ==
    /\ \E n \in Nodes : nodes' \in {nodes \ {n}, nodes \union {n}}
    /\ UNCHANGED <<state, objs, ran>>

Init ==
    /\ state = [c \in Resources |-> "new"]
    /\ nodes \in SUBSET Nodes
    /\ objs = {}
    /\ ran = {}

Next ==
    \/ \E c \in Resources : Create(c) \/ Reconcile(c) \/ ReconcileSet(c) \/ Delete(c)
    \/ Tick \/ Collect \/ NodeChanges
    \/ \E j \in objs : Broadcast(j)

Spec == Init /\ [][Next]_vars
-----------------------------------------------------------------------------
\* No two objects of a kind have a namespace and a name in common: a create never
\* meets an object that is there already.
TypeOK ==
    /\ state \in [Resources -> {"new", "live", "gone"}]
    /\ nodes \in SUBSET Nodes
    /\ \A o, p \in objs : Key(o) = Key(p) => o = p
    /\ \A o \in objs : o.for \in Resources
    /\ \A o \in objs : "node" \in DOMAIN o.labels => o.labels["node"] \in Nodes

\* Hands off: the objects of a custom resource that exists go only with their
\* node.  No controller deletes what was created for another custom resource,
\* be it one of another kind or in another namespace that has the same name
\* (api.go, the selectors; daemoncronjob.go, fixCommonLabels).
HandsOff ==
    [][\A o \in objs \ objs' :
          \/ state'[o.for] = "gone"
          \/ "node" \in DOMAIN o.labels /\ o.labels["node"] \notin nodes]_vars

\* A broadcast pod has its rights: whoever has a ServiceAccount in use has a
\* ClusterRoleBinding for it, as long as it exists (daemonjob.go,
\* ClusterRoleBinding: "allows a broadcast job to take the necessary actions").
BindsOwn ==
    \A j \in objs : j.account # None /\ j.kind \in {"Job", "CronJob"} /\ state[j.for] = "live"
        => \E p \in objs : p.kind = "ClusterRoleBinding" /\ p.account = j.account

\* The object as it is printed by who does not know its owner.
Shown(o) == IF o.owner = Self(o.for) THEN [o EXCEPT !.owner = None] ELSE o

\* "Generate the Kubernetes manifests that daemonjob would create": once the
\* broadcast of a DaemonJob has succeeded, what exists for it is what the preview
\* for the same nodes shows, but for the references to the DaemonJob.  The preview
\* fills in the Config of the worker Jobs, which the pod has from the labels and
\* the name that the Job was created with (generate.go, generateDaemonJob).
PreviewIsTrue ==
    [][\A j \in objs : Key(j) \in ran' \ ran /\ Succeeds(j) /\ j.for.kind = "DaemonJob"
          => {Shown(o) : o \in {p \in objs' : p.for = j.for}} = Preview(j.for, nodes)]_vars
-----------------------------------------------------------------------------
(* The inductive invariant *)

Broadcasters == {c \in Resources : c.kind # "DaemonCronJobSet"}

\* The Jobs whose pods broadcast: that of a DaemonJob, and one for each tick.
BroadcastJobs ==
    {BroadcastJobOf(c) : c \in {d \in Resources : d.kind = "DaemonJob"}}
    \union {JobOfTick(BroadcastJobOf(c), t) :
               c \in {d \in Resources : d.kind = "DaemonCronJob"}, t \in Ticks}

\* All that the controllers, the ticks and the broadcasts create.
Makable ==
    {ServiceAccountOf(c) : c \in Broadcasters} \union {ClusterRoleBinding(c) : c \in Broadcasters}
    \union {BroadcastJobOf(c) : c \in Broadcasters} \union BroadcastJobs
    \union {WorkerJobOf(j, n) : j \in BroadcastJobs, n \in Nodes}
    \union {CronJobOf(c, n) : c \in Resources \ Broadcasters, n \in Nodes}

\* What exists was made for a custom resource that has been created; while that
\* exists, so does the owner, which is itself or something that is no worker and
\* that was made for it, too; and a worker Job comes of a broadcast that has ended.
OwnersInv ==
    /\ TypeOK
    /\ objs \subseteq Makable
    /\ \A o \in objs :
          /\ state[o.for] # "new"
          /\ state[o.for] = "live" =>
                \/ o.owner \in {None, Self(o.for)}
                \/ \E p \in objs : Key(p) = o.owner /\ p.for = o.for /\ p.account # None
          /\ o.kind = "Job" /\ o.account = None => o.owner \in ran
-----------------------------------------------------------------------------
(* What depends on names that do not join to the same one, or on pod templates *)
(* without a node affinity: README, "Findings"                                *)

\* BindsOwn holds under the first of these, SetsServed under the second and
\* BoundToItsNode under the third (module TenantsProofs).
BindingsApart ==
    \A c, d \in Broadcasters : BindingName(c) = BindingName(d) => c = d

CronJobsApart ==
    \A c, d \in Resources \ Broadcasters, n, m \in Nodes :
        c.ns = d.ns /\ CronJobName(c, n) = CronJobName(d, m) => c = d

NoAffinities == \A c \in Resources : c.affinity = {}

\* Every node has the CronJob of a set that has just been reconciled.
SetServed(c) == \A n \in nodes : CronJobOf(c, n) \in objs

SetsServed ==
    [][\A c \in Resources : ReconcileSet(c) => SetServed(c)']_vars

\* daemonjob.go: "The worker job is bound to a specific node."
BoundToItsNode ==
    \A o \in objs : Has(o, "role", <<"worker">>) => o.where = {o.labels["node"]}
=============================================================================
