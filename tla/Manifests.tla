------------------------------ MODULE Manifests ------------------------------
(***************************************************************************)
(* The objects that the controllers and the broadcast program create for a *)
(* custom resource: daemonjob.go, daemoncronjob.go and daemoncronjobset.go *)
(* of internal/controller, BuildWorkerJob of internal/broadcast, the label *)
(* selectors of internal/controller/api.go by which they find them again,  *)
(* and the preview of them that "daemonjobctl generate" prints.            *)
(*                                                                         *)
(* A name is the sequence of its segments between dashes: names are joined *)
(* by concatenation, and two names may join to the same one.  Of a         *)
(* manifest there is what tells objects apart, lets them be found, owned,  *)
(* permitted and placed; labels of the user's own are left out.            *)
(***************************************************************************)
EXTENDS Sequences

CONSTANT None     \* no owner, no subject

\* A custom resource: its kind, namespace and name, and the nodes that the node
\* affinity of its pod template allows ({} when it has none).
Suffix  == [DaemonJob |-> "dj", DaemonCronJob |-> "dcj", DaemonCronJobSet |-> "dcjs"]
NameKey == [DaemonJob |-> "daemonjob-name", DaemonCronJob |-> "daemoncronjob-name",
            DaemonCronJobSet |-> "daemoncronjobset-name"]

Self(c) == <<c.kind, c.ns, c.name>>
Key(o)  == <<o.kind, o.ns, o.name>>

ResourceName(c) == Append(c.name, Suffix[c.kind])

\* Mutant of BindingName: cluster-scoped, and named like the ServiceAccount.
BindingNameWithoutNamespace(c) == ResourceName(c)

BindingName(c) == c.ns \o ResourceName(c)

CronJobName(c, n) == Append(c.name \o n, Suffix[c.kind])
-----------------------------------------------------------------------------
(* Labels: functions from label key to value *)

Label(l, k, v) == [x \in DOMAIN l \union {k} |-> IF x = k THEN v ELSE l[x]]
Without(l, k) == [x \in DOMAIN l \ {k} |-> l[x]]

DaemonJobLabels(c) == Label(Label(<<>>, "daemonjob-name", c.name), "role", <<"broadcast">>)

\* Mutant of FixCommonLabels: the DaemonJob's label stays.
AddCommonLabels(l, c) == Label(l, "daemoncronjob-name", c.name)

\* A DaemonCronJob's objects are made as a DaemonJob's and then relabelled.
FixCommonLabels(l, c) == Label(Without(l, "daemonjob-name"), "daemoncronjob-name", c.name)

BroadcastLabels(c) ==
    IF c.kind = "DaemonJob" THEN DaemonJobLabels(c) ELSE FixCommonLabels(DaemonJobLabels(c), c)
-----------------------------------------------------------------------------
(* Objects.  account is the ServiceAccount a pod runs as or a binding is for,  *)
(* where the nodes a worker's pods may run on, for the custom resource it was  *)
(* made for, which is not part of the object.                                  *)

Account(c) == <<c.ns, ResourceName(c)>>

ServiceAccount(c) ==
    [kind |-> "ServiceAccount", ns |-> c.ns, name |-> ResourceName(c),
     labels |-> BroadcastLabels(c), owner |-> None,
     account |-> Account(c), where |-> {}, for |-> c]

ClusterRoleBinding(c) ==
    [kind |-> "ClusterRoleBinding", ns |-> <<>>, name |-> BindingName(c),
     labels |-> Label(BroadcastLabels(c), "namespace", c.ns), owner |-> None,
     account |-> Account(c), where |-> {}, for |-> c]

\* The broadcast Job of a DaemonJob, the CronJob of a DaemonCronJob.
BroadcastJob(c) ==
    [kind |-> IF c.kind = "DaemonJob" THEN "Job" ELSE "CronJob",
     ns |-> c.ns, name |-> ResourceName(c),
     labels |-> BroadcastLabels(c), owner |-> None,
     account |-> Account(c), where |-> {}, for |-> c]

\* The Job that the CronJob controller makes of the CronJob's template at a tick.
JobOfTick(cronJob, tick) ==
    [cronJob EXCEPT !.kind = "Job", !.name = Append(cronJob.name, tick),
                    !.owner = Key(cronJob)]

\* The Config that the broadcast pod of the Job j loads from its environment, which
\* are fields and labels of the pod; <<>> stands for the empty string.
Env(j, key) == IF key \in DOMAIN j.labels THEN j.labels[key] ELSE <<>>

PodConfig(j) ==
    [SelfName          |-> j.name,
     Namespace         |-> j.ns,
     DaemonJobName     |-> Env(j, "daemonjob-name"),
     DaemonCronJobName |-> Env(j, "daemoncronjob-name")]

\* The custom resource that Run reads.
OwnerOf(cfg) ==
    IF cfg.DaemonJobName # <<>> THEN <<"DaemonJob", cfg.Namespace, cfg.DaemonJobName>>
    ELSE <<"DaemonCronJob", cfg.Namespace, cfg.DaemonCronJobName>>

\* BuildWorkerJob, for a run with that Config and the pod template of c: it appends
\* a term for node n to those the user gives, and a pod may run wherever one of the
\* terms lets it.
NamingLabel(cfg) ==
    IF cfg.DaemonJobName # <<>> THEN Label(<<>>, "daemonjob-name", cfg.DaemonJobName)
    ELSE Label(<<>>, "daemoncronjob-name", cfg.DaemonCronJobName)

WorkerJob(cfg, c, n) ==
    [kind |-> "Job", ns |-> cfg.Namespace, name |-> cfg.SelfName \o n,
     labels |-> Label(Label(NamingLabel(cfg), "role", <<"worker">>), "node", n),
     owner |-> <<"Job", cfg.Namespace, cfg.SelfName>>, account |-> None,
     where |-> c.affinity \union {n}, for |-> c]

\* Mutant of CronJobForNode: the labels of commonLabels with the wrong argument.
CronJobForNobody(c, n) ==
    [kind |-> "CronJob", ns |-> c.ns, name |-> CronJobName(c, n),
     labels |-> Label(Label(Label(<<>>, "daemoncronjobset-name", c.name),
                            "role", <<"worker">>), "node", c.name),
     owner |-> None, account |-> None, where |-> {n}, for |-> c]

\* NewCronJobForNode replaces the affinity that the user gives.
CronJobForNode(c, n) ==
    [kind |-> "CronJob", ns |-> c.ns, name |-> CronJobName(c, n),
     labels |-> Label(Label(Label(<<>>, "daemoncronjobset-name", c.name),
                            "role", <<"worker">>), "node", n),
     owner |-> None, account |-> None, where |-> {n}, for |-> c]

\* SetControllerReference; a binding is cluster-scoped, and created without.
Owned(o, c) == [o EXCEPT !.owner = Self(c)]
-----------------------------------------------------------------------------
(* Selectors *)

Has(o, k, v) == k \in DOMAIN o.labels /\ o.labels[k] = v

ListBindings(objs, c) ==
    {o \in objs : /\ o.kind = "ClusterRoleBinding"
                  /\ Has(o, NameKey[c.kind], c.name)
                  /\ Has(o, "role", <<"broadcast">>)
                  /\ Has(o, "namespace", c.ns)}

\* The worker Jobs of a DaemonJob or DaemonCronJob, the CronJobs of a DaemonCronJobSet.
ListWorkers(objs, c) ==
    {o \in objs : /\ o.kind = IF c.kind = "DaemonCronJobSet" THEN "CronJob" ELSE "Job"
                  /\ o.ns = c.ns
                  /\ Has(o, NameKey[c.kind], c.name)
                  /\ Has(o, "role", <<"worker">>)}
-----------------------------------------------------------------------------
(* daemonjobctl generate *)

\* Mutant of PreviewConfig: the broadcast Job is taken to have the DaemonJob's name.
PreviewConfigNamedAlike(c) ==
    [SelfName          |-> c.name,
     Namespace         |-> c.ns,
     DaemonJobName     |-> IF c.kind = "DaemonJob" THEN c.name ELSE <<>>,
     DaemonCronJobName |-> IF c.kind = "DaemonCronJob" THEN c.name ELSE <<>>]

\* The Config that the preview fills in where a pod would load it.  The broadcast
\* Job of a DaemonCronJob is given the CronJob's name, without the tick that the
\* real ones end with.
PreviewConfig(c) ==
    [SelfName          |-> ResourceName(c),
     Namespace         |-> c.ns,
     DaemonJobName     |-> IF c.kind = "DaemonJob" THEN c.name ELSE <<>>,
     DaemonCronJobName |-> IF c.kind = "DaemonCronJob" THEN c.name ELSE <<>>]

\* The constructors' objects, to which no controller has given an owner.
Preview(c, nodes) ==
    IF c.kind = "DaemonCronJobSet" THEN {CronJobForNode(c, n) : n \in nodes}
    ELSE {ServiceAccount(c), ClusterRoleBinding(c), BroadcastJob(c)}
         \union {WorkerJob(PreviewConfig(c), c, n) : n \in nodes}
=============================================================================
