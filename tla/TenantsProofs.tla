---------------------------- MODULE TenantsProofs ----------------------------
(***************************************************************************)
(* What custom resources of all kinds do to each other's objects, for any  *)
(* custom resources, namespaces, names, nodes and ticks.  Names that join  *)
(* to the same one are not excluded, except where a theorem says so.       *)
(***************************************************************************)
EXTENDS Tenants, SequenceTheorems, TLAPS

Names == Seq(Segments)
-----------------------------------------------------------------------------
(* Names *)

\* The last segment of a name can be told from the others.
LEMMA LastSegment ==
    ASSUME NEW s \in Seq(Segments), NEW t \in Seq(Segments),
           NEW a \in Segments, NEW b \in Segments
    PROVE  Append(s, a) = Append(t, b) => s = t /\ a = b
BY AppendInjective

\* So can the rest of a name whose beginning is known.
LEMMA ConcatInjective ==
    ASSUME NEW s \in Names, NEW t \in Names, NEW u \in Names, s \o t = s \o u
    PROVE  t = u
<1>1. \A S : \A x, y, z \in Seq(S) : x \o y = x \o z => y = z
  BY ConcatSimplifications, Zenon
<1> QED BY <1>1 DEF Names

\* The suffixes tell the kinds apart.
LEMMA SuffixFacts ==
    /\ DOMAIN Suffix = {"DaemonJob", "DaemonCronJob", "DaemonCronJobSet"}
    /\ \A k, l \in DOMAIN Suffix : Suffix[k] = Suffix[l] => k = l
<1>1. DOMAIN Suffix = {"DaemonJob", "DaemonCronJob", "DaemonCronJobSet"}
  BY DEF Suffix
<1>2. Suffix.DaemonJob = "dj"
  BY DEF Suffix
<1>3. Suffix.DaemonCronJob = "dcj"
  BY DEF Suffix
<1>4. Suffix.DaemonCronJobSet = "dcjs"
  BY DEF Suffix
<1>5. \A k, l \in DOMAIN Suffix : Suffix[k] = Suffix[l] => k = l
  BY <1>1, <1>2, <1>3, <1>4
<1> QED BY <1>1, <1>5

\* The names the code makes are names.
LEMMA NamesMade ==
    ASSUME NEW c \in Resources
    PROVE  /\ c.kind \in DOMAIN Suffix /\ c.ns \in Names /\ c.name \in Names
           /\ Suffix[c.kind] \in Segments
           /\ ResourceName(c) \in Names
           /\ \A n \in Nodes : n \in Names /\ c.name \o n \in Names
           /\ \A t \in Ticks : Append(ResourceName(c), t) \in Names
<1>1. c.kind \in DOMAIN Suffix /\ c.ns \in Names /\ c.name \in Names /\ Suffix[c.kind] \in Segments
  BY NamesAssumption DEF Names
<1>2. ResourceName(c) \in Names
  BY <1>1, AppendProperties DEF Names, ResourceName
<1>3. \A n \in Nodes : n \in Names /\ c.name \o n \in Names
  BY <1>1, ConcatProperties, NamesAssumption DEF Names
<1>4. \A t \in Ticks : Append(ResourceName(c), t) \in Names
  BY <1>2, AppendProperties, NamesAssumption DEF Names
<1> QED BY <1>1, <1>2, <1>3, <1>4

\* A ServiceAccount tells whose it is, of whatever kind: the suffixes differ.
LEMMA AccountInjective ==
    ASSUME NEW c \in Resources, NEW d \in Resources, Account(c) = Account(d)
    PROVE  c = d
<1>1. c.ns = d.ns /\ Append(c.name, Suffix[c.kind]) = Append(d.name, Suffix[d.kind])
  BY DEF Account, ResourceName
<1>2. /\ c.name \in Seq(Segments) /\ d.name \in Seq(Segments)
      /\ Suffix[c.kind] \in Segments /\ Suffix[d.kind] \in Segments
      /\ c.kind \in DOMAIN Suffix /\ d.kind \in DOMAIN Suffix
  BY NamesMade DEF Names
<1>3. c.name = d.name /\ Suffix[c.kind] = Suffix[d.kind]
  <2>1. PICK x \in Segments, y \in Segments : x = Suffix[c.kind] /\ y = Suffix[d.kind]
    BY <1>2
  <2>2. Append(c.name, x) = Append(d.name, y) => c.name = d.name /\ x = y
    BY <1>2, LastSegment, SMTT(30)
  <2> QED BY <1>1, <2>1, <2>2
<1>4. c.kind = d.kind
  BY <1>2, <1>3, SuffixFacts
<1> QED BY <1>1, <1>3, <1>4, NamesAssumption DEF Self
-----------------------------------------------------------------------------
(* Labels *)

\* Label adds or replaces one label.
LEMMA LabelApplies ==
    ASSUME NEW l, NEW k, NEW v
    PROVE  /\ DOMAIN Label(l, k, v) = DOMAIN l \union {k}
           /\ Label(l, k, v)[k] = v
           /\ \A x \in DOMAIN l \ {k} : Label(l, k, v)[x] = l[x]
BY DEF Label

\* What a broadcast is labelled with, a DaemonCronJob's after the relabelling.
LEMMA LabelsOfBroadcast ==
    ASSUME NEW c \in Broadcasters
    PROVE  /\ DOMAIN BroadcastLabels(c) = {NameKey[c.kind], "role"}
           /\ BroadcastLabels(c)[NameKey[c.kind]] = c.name
           /\ BroadcastLabels(c)["role"] = <<"broadcast">>
           /\ NameKey[c.kind] \in {"daemonjob-name", "daemoncronjob-name"}
           /\ NameKey[c.kind] = "daemonjob-name" <=> c.kind = "DaemonJob"
<1>1. c.kind \in {"DaemonJob", "DaemonCronJob"}
  BY NamesMade, SuffixFacts DEF Broadcasters
<1>2. /\ DOMAIN DaemonJobLabels(c) = {"daemonjob-name", "role"}
      /\ DaemonJobLabels(c)["daemonjob-name"] = c.name
      /\ DaemonJobLabels(c)["role"] = <<"broadcast">>
  BY DEF DaemonJobLabels, Label
<1>3. CASE c.kind = "DaemonJob"
  BY <1>2, <1>3 DEF BroadcastLabels, NameKey
<1>4. CASE c.kind = "DaemonCronJob"
  <2>1. /\ DOMAIN Without(DaemonJobLabels(c), "daemonjob-name") = {"role"}
        /\ Without(DaemonJobLabels(c), "daemonjob-name")["role"] = <<"broadcast">>
    BY <1>2 DEF Without
  <2>2. BroadcastLabels(c) = Label(Without(DaemonJobLabels(c), "daemonjob-name"),
                                   "daemoncronjob-name", c.name)
    BY <1>4 DEF BroadcastLabels, FixCommonLabels
  <2>3. /\ DOMAIN BroadcastLabels(c) = {"role", "daemoncronjob-name"}
        /\ BroadcastLabels(c)["daemoncronjob-name"] = c.name
        /\ BroadcastLabels(c)["role"] = <<"broadcast">>
    BY <2>1, <2>2 DEF Label
  <2> QED BY <1>4, <2>3 DEF NameKey
<1> QED BY <1>1, <1>3, <1>4
-----------------------------------------------------------------------------
(* What can be made *)

\* A Job that broadcasts runs as its custom resource's ServiceAccount and carries
\* the label by which the broadcast program finds the custom resource.
LEMMA BroadcastJobFacts ==
    ASSUME NEW j \in BroadcastJobs
    PROVE  /\ j.for \in Broadcasters
           /\ j.kind = "Job" /\ j.ns = j.for.ns /\ j.name \in Names
           /\ j.labels = BroadcastLabels(j.for) /\ j.account = Account(j.for)
           /\ j.for.kind = "DaemonJob" => j = BroadcastJobOf(j.for)
<1>1. CASE \E c \in {d \in Resources : d.kind = "DaemonJob"} : j = BroadcastJobOf(c)
  <2>1. PICK c \in Resources : c.kind = "DaemonJob" /\ j = BroadcastJobOf(c)
    BY <1>1
  <2>2. /\ j.for = c /\ j.kind = "Job" /\ j.ns = c.ns /\ j.name = ResourceName(c)
        /\ j.labels = BroadcastLabels(c) /\ j.account = Account(c)
    BY <2>1 DEF BroadcastJob, BroadcastJobOf, Owned
  <2> QED BY <2>1, <2>2, NamesMade DEF Broadcasters
<1>2. CASE \E c \in {d \in Resources : d.kind = "DaemonCronJob"}, t \in Ticks :
              j = JobOfTick(BroadcastJobOf(c), t)
  <2>1. PICK c \in Resources, t \in Ticks :
               c.kind = "DaemonCronJob" /\ j = JobOfTick(BroadcastJobOf(c), t)
    BY <1>2
  <2>2. /\ j.for = c /\ j.kind = "Job" /\ j.ns = c.ns
        /\ j.name = Append(ResourceName(c), t)
        /\ j.labels = BroadcastLabels(c) /\ j.account = Account(c)
    BY <2>1 DEF BroadcastJob, BroadcastJobOf, JobOfTick, Owned
  <2> QED BY <2>1, <2>2, NamesMade DEF Broadcasters
<1> QED BY <1>1, <1>2 DEF BroadcastJobs

\* The broadcast program is told its own custom resource, and labels the worker
\* Jobs with the same key.
LEMMA ToldItsOwner ==
    ASSUME NEW j \in BroadcastJobs
    PROVE  /\ PodConfig(j) =
                 [SelfName          |-> j.name,
                  Namespace         |-> j.for.ns,
                  DaemonJobName     |-> IF j.for.kind = "DaemonJob" THEN j.for.name ELSE <<>>,
                  DaemonCronJobName |-> IF j.for.kind = "DaemonCronJob" THEN j.for.name ELSE <<>>]
           /\ OwnerOf(PodConfig(j)) = Self(j.for)
           /\ NamingLabel(PodConfig(j)) = Label(<<>>, NameKey[j.for.kind], j.for.name)
<1> DEFINE c == j.for
<1>1. /\ c \in Broadcasters /\ j.ns = c.ns /\ j.labels = BroadcastLabels(c)
  BY BroadcastJobFacts
<1>2. c.kind \in {"DaemonJob", "DaemonCronJob"} /\ c.name # <<>>
  BY <1>1, NamesMade, SuffixFacts, NamesAssumption DEF Broadcasters
<1> HIDE DEF c
<1>3. /\ DOMAIN j.labels = {NameKey[c.kind], "role"}
      /\ j.labels[NameKey[c.kind]] = c.name
  BY <1>1, LabelsOfBroadcast
<1>4. /\ c.kind = "DaemonJob" => NameKey[c.kind] = "daemonjob-name"
      /\ c.kind = "DaemonCronJob" => NameKey[c.kind] = "daemoncronjob-name"
  BY DEF NameKey
<1>5. PodConfig(j) = [SelfName          |-> j.name,
                      Namespace         |-> c.ns,
                      DaemonJobName     |-> IF c.kind = "DaemonJob" THEN c.name ELSE <<>>,
                      DaemonCronJobName |-> IF c.kind = "DaemonCronJob" THEN c.name ELSE <<>>]
  <2>1. Env(j, "daemonjob-name") = IF c.kind = "DaemonJob" THEN c.name ELSE <<>>
    BY <1>2, <1>3, <1>4 DEF Env
  <2>2. Env(j, "daemoncronjob-name") = IF c.kind = "DaemonCronJob" THEN c.name ELSE <<>>
    BY <1>2, <1>3, <1>4 DEF Env
  <2> QED BY <1>1, <2>1, <2>2 DEF PodConfig
<1>6. /\ PodConfig(j).Namespace = c.ns
      /\ PodConfig(j).DaemonJobName = IF c.kind = "DaemonJob" THEN c.name ELSE <<>>
      /\ PodConfig(j).DaemonCronJobName = IF c.kind = "DaemonCronJob" THEN c.name ELSE <<>>
  BY <1>5
<1>7. OwnerOf(PodConfig(j)) = Self(c)
  BY <1>2, <1>6 DEF OwnerOf, Self
<1>8. NamingLabel(PodConfig(j)) = Label(<<>>, NameKey[c.kind], c.name)
  BY <1>2, <1>4, <1>6 DEF NamingLabel
<1> QED BY <1>5, <1>7, <1>8 DEF c

\* A worker Job is found by the labels of the custom resource it was made for.
LEMMA WorkerFacts ==
    ASSUME NEW j \in BroadcastJobs, NEW n
    PROVE  /\ WorkerJobOf(j, n).kind = "Job" /\ WorkerJobOf(j, n).for = j.for
           /\ WorkerJobOf(j, n).account = None /\ WorkerJobOf(j, n).owner = Key(j)
           /\ WorkerJobOf(j, n).where = j.for.affinity \union {n}
           /\ Key(WorkerJobOf(j, n)) = <<"Job", j.ns, j.name \o n>>
           /\ DOMAIN WorkerJobOf(j, n).labels = {NameKey[j.for.kind], "role", "node"}
           /\ WorkerJobOf(j, n).labels["node"] = n
           /\ WorkerJobOf(j, n).labels["role"] = <<"worker">>
<1> DEFINE w == WorkerJobOf(j, n)
           key == NameKey[j.for.kind]
           labels == Label(Label(Label(<<>>, key, j.for.name), "role", <<"worker">>), "node", n)
<1>1. j.for \in Broadcasters /\ j.kind = "Job" /\ j.ns = j.for.ns
  BY BroadcastJobFacts
<1>2. PodConfig(j).SelfName = j.name /\ PodConfig(j).Namespace = j.ns
  BY DEF PodConfig
<1>3. NamingLabel(PodConfig(j)) = Label(<<>>, key, j.for.name)
  BY ToldItsOwner
<1>4. /\ w.kind = "Job" /\ w.for = j.for /\ w.account = None
      /\ w.owner = <<"Job", j.ns, j.name>>
      /\ w.where = j.for.affinity \union {n}
      /\ w.ns = j.ns /\ w.name = j.name \o n /\ w.labels = labels
  BY <1>2, <1>3 DEF WorkerJob, WorkerJobOf
<1>5. key # "role" /\ key # "node"
  BY <1>1, NamesMade, SuffixFacts DEF Broadcasters, NameKey
<1>6. /\ DOMAIN labels = {key, "role", "node"}
      /\ labels["node"] = n /\ labels["role"] = <<"worker">>
  <2> HIDE DEF key
  <2> QED BY <1>5 DEF Label
<1> HIDE DEF labels, key
<1>7. Key(w) = <<"Job", j.ns, j.name \o n>> /\ w.owner = Key(j)
  BY <1>1, <1>4 DEF Key
<1> QED BY <1>4, <1>6, <1>7 DEF key

\* The three objects that a DaemonJob or a DaemonCronJob is applied as.
LEMMA BroadcasterObjects ==
    ASSUME NEW c \in Broadcasters
    PROVE  /\ c \in Resources
           /\ c.kind \in {"DaemonJob", "DaemonCronJob"}
           /\ ServiceAccountOf(c).kind = "ServiceAccount"
           /\ ClusterRoleBinding(c).kind = "ClusterRoleBinding"
           /\ BroadcastJobOf(c).kind = IF c.kind = "DaemonJob" THEN "Job" ELSE "CronJob"
           /\ \A o \in {ServiceAccountOf(c), ClusterRoleBinding(c), BroadcastJobOf(c)} :
                 /\ o.for = c /\ o.account = Account(c) /\ o.account # None
                 /\ o.owner \in {None, Self(c)}
                 /\ "node" \notin DOMAIN o.labels
                 /\ o.labels["role"] = <<"broadcast">>
<1>1. c \in Resources /\ c.kind \in {"DaemonJob", "DaemonCronJob"}
  BY NamesMade, SuffixFacts DEF Broadcasters
<1>2. /\ DOMAIN BroadcastLabels(c) = {NameKey[c.kind], "role"}
      /\ BroadcastLabels(c)["role"] = <<"broadcast">>
      /\ NameKey[c.kind] \in {"daemonjob-name", "daemoncronjob-name"}
  BY LabelsOfBroadcast
<1>3. /\ "node" \notin DOMAIN BroadcastLabels(c)
      /\ DOMAIN Label(BroadcastLabels(c), "namespace", c.ns) =
            {NameKey[c.kind], "role", "namespace"}
      /\ Label(BroadcastLabels(c), "namespace", c.ns)["role"] = <<"broadcast">>
      /\ "node" \notin DOMAIN Label(BroadcastLabels(c), "namespace", c.ns)
  BY <1>2 DEF Label
<1>4. Account(c) # None
  BY <1>1, NoneAssumption
<1>5. ASSUME NEW o \in {ServiceAccountOf(c), ClusterRoleBinding(c), BroadcastJobOf(c)}
      PROVE  /\ o.for = c /\ o.account = Account(c)
             /\ o.owner \in {None, Self(c)}
             /\ o.labels \in {BroadcastLabels(c), Label(BroadcastLabels(c), "namespace", c.ns)}
  BY <1>5 DEF ServiceAccount, ServiceAccountOf, ClusterRoleBinding, BroadcastJob, BroadcastJobOf, Owned
<1>6. /\ ServiceAccountOf(c).kind = "ServiceAccount"
      /\ ClusterRoleBinding(c).kind = "ClusterRoleBinding"
      /\ BroadcastJobOf(c).kind = IF c.kind = "DaemonJob" THEN "Job" ELSE "CronJob"
  BY DEF ServiceAccount, ServiceAccountOf, ClusterRoleBinding, BroadcastJob, BroadcastJobOf, Owned
<1> QED BY <1>1, <1>2, <1>3, <1>4, <1>5, <1>6

\* The CronJob that a DaemonCronJobSet makes for a node.
LEMMA SetCronJobFacts ==
    ASSUME NEW c, NEW n
    PROVE  /\ CronJobOf(c, n).kind = "CronJob" /\ CronJobOf(c, n).for = c
           /\ CronJobOf(c, n).account = None /\ CronJobOf(c, n).owner = Self(c)
           /\ CronJobOf(c, n).where = {n}
           /\ Key(CronJobOf(c, n)) = <<"CronJob", c.ns, CronJobName(c, n)>>
           /\ DOMAIN CronJobOf(c, n).labels = {"daemoncronjobset-name", "role", "node"}
           /\ CronJobOf(c, n).labels["node"] = n
           /\ CronJobOf(c, n).labels["role"] = <<"worker">>
<1> DEFINE w == CronJobOf(c, n)
           labels == Label(Label(Label(<<>>, "daemoncronjobset-name", c.name),
                                 "role", <<"worker">>), "node", n)
<1>1. /\ w.kind = "CronJob" /\ w.for = c /\ w.account = None /\ w.owner = Self(c)
      /\ w.where = {n} /\ w.ns = c.ns /\ w.name = CronJobName(c, n) /\ w.labels = labels
  BY DEF CronJobForNode, CronJobOf, Owned
<1>2. /\ DOMAIN labels = {"daemoncronjobset-name", "role", "node"}
      /\ labels["node"] = n /\ labels["role"] = <<"worker">>
  BY DEF Label
<1>3. Key(w) = <<"CronJob", c.ns, CronJobName(c, n)>>
  BY <1>1 DEF Key
<1> HIDE DEF labels
<1> QED BY <1>1, <1>2, <1>3

\* What runs pods as a ServiceAccount is part of a broadcast; what does not is a
\* worker, and tells its node.
LEMMA MakableFacts ==
    ASSUME NEW o \in Makable
    PROVE  /\ o.for \in Resources
           /\ o.kind \in {"ServiceAccount", "ClusterRoleBinding", "Job", "CronJob"}
           /\ o.account = None =>
                 /\ "node" \in DOMAIN o.labels /\ o.labels["node"] \in Nodes
                 /\ "role" \in DOMAIN o.labels /\ o.labels["role"] = <<"worker">>
                 /\ o.kind \in {"Job", "CronJob"}
           /\ o.account # None =>
                 /\ o.for \in Broadcasters /\ o.account = Account(o.for)
                 /\ "node" \notin DOMAIN o.labels
                 /\ o.labels["role"] = <<"broadcast">>
<1>1. CASE \E c \in Broadcasters :
              o \in {ServiceAccountOf(c), ClusterRoleBinding(c), BroadcastJobOf(c)}
  <2>1. PICK c \in Broadcasters : o \in {ServiceAccountOf(c), ClusterRoleBinding(c), BroadcastJobOf(c)}
    BY <1>1
  <2>2. /\ c \in Resources /\ o.for = c /\ o.account = Account(c) /\ o.account # None
        /\ "node" \notin DOMAIN o.labels /\ o.labels["role"] = <<"broadcast">>
    BY <2>1, BroadcasterObjects
  <2>3. o.kind \in {"ServiceAccount", "ClusterRoleBinding", "Job", "CronJob"}
    BY <2>1, BroadcasterObjects
  <2> QED BY <2>2, <2>3
<1>2. CASE o \in BroadcastJobs
  <2>1. /\ o.for \in Broadcasters /\ o.kind = "Job"
        /\ o.labels = BroadcastLabels(o.for) /\ o.account = Account(o.for)
    BY <1>2, BroadcastJobFacts
  <2>2. PICK c \in Broadcasters : c = o.for
    BY <2>1
  <2>3. /\ "node" \notin DOMAIN BroadcastLabels(c)
        /\ BroadcastLabels(c)["role"] = <<"broadcast">>
    <3>1. /\ DOMAIN BroadcastLabels(c) = {NameKey[c.kind], "role"}
          /\ BroadcastLabels(c)["role"] = <<"broadcast">>
          /\ NameKey[c.kind] \in {"daemonjob-name", "daemoncronjob-name"}
      BY LabelsOfBroadcast
    <3> QED BY <3>1
  <2>4. c \in Resources /\ Account(c) # None
    BY NoneAssumption DEF Broadcasters
  <2> QED BY <2>1, <2>2, <2>3, <2>4
<1>3. CASE \E j \in BroadcastJobs, n \in Nodes : o = WorkerJobOf(j, n)
  <2>1. PICK j \in BroadcastJobs, n \in Nodes : o = WorkerJobOf(j, n)
    BY <1>3
  <2>2. j.for \in Resources
    BY BroadcastJobFacts DEF Broadcasters
  <2>3. o.for = j.for /\ o.kind = "Job" /\ o.account = None
    BY <2>1, WorkerFacts
  <2>4. /\ DOMAIN o.labels = {NameKey[j.for.kind], "role", "node"}
        /\ o.labels["node"] = n /\ o.labels["role"] = <<"worker">>
    <3>1. /\ DOMAIN WorkerJobOf(j, n).labels = {NameKey[j.for.kind], "role", "node"}
          /\ WorkerJobOf(j, n).labels["node"] = n
          /\ WorkerJobOf(j, n).labels["role"] = <<"worker">>
      BY WorkerFacts, ZenonT(60)
    <3> QED BY <2>1, <3>1
  <2> QED BY <2>2, <2>3, <2>4
<1>4. CASE \E c \in Resources \ Broadcasters, n \in Nodes : o = CronJobOf(c, n)
  <2>1. PICK c \in Resources \ Broadcasters, n \in Nodes : o = CronJobOf(c, n)
    BY <1>4
  <2>2. o.for = c /\ o.kind = "CronJob" /\ o.account = None
    BY <2>1, SetCronJobFacts
  <2>3. /\ DOMAIN o.labels = {"daemoncronjobset-name", "role", "node"}
        /\ o.labels["node"] = n /\ o.labels["role"] = <<"worker">>
    BY <2>1, SetCronJobFacts
  <2> QED BY <2>2, <2>3
<1> QED BY <1>1, <1>2, <1>3, <1>4 DEF Makable

\* A Job with a ServiceAccount broadcasts.
LEMMA JobsThatBroadcast ==
    ASSUME NEW o \in Makable, o.kind = "Job", o.account # None
    PROVE  o \in BroadcastJobs
<1>1. ASSUME NEW c \in Broadcasters,
             o \in {ServiceAccountOf(c), ClusterRoleBinding(c), BroadcastJobOf(c)}
      PROVE  o \in BroadcastJobs
  <2>1. o = BroadcastJobOf(c) /\ c.kind = "DaemonJob"
    BY <1>1, BroadcasterObjects
  <2> QED BY <2>1, BroadcasterObjects DEF BroadcastJobs
<1>2. ~ \E j \in BroadcastJobs, n \in Nodes : o = WorkerJobOf(j, n)
  BY WorkerFacts
<1>3. ~ \E c \in Resources \ Broadcasters, n \in Nodes : o = CronJobOf(c, n)
  BY SetCronJobFacts
<1> QED BY <1>1, <1>2, <1>3 DEF Makable

\* So does what the CronJob controller makes of a CronJob with a ServiceAccount.
LEMMA CronJobsThatBroadcast ==
    ASSUME NEW o \in Makable, o.kind = "CronJob", o.account # None
    PROVE  /\ o.for \in Resources /\ o.for.kind = "DaemonCronJob" /\ o = BroadcastJobOf(o.for)
           /\ \A t \in Ticks : JobOfTick(o, t) \in BroadcastJobs
<1>1. ASSUME NEW c \in Broadcasters,
             o \in {ServiceAccountOf(c), ClusterRoleBinding(c), BroadcastJobOf(c)}
      PROVE  o.for \in Resources /\ o.for.kind = "DaemonCronJob" /\ o = BroadcastJobOf(o.for)
  BY <1>1, BroadcasterObjects
<1>2. ~ \E j \in BroadcastJobs, n \in Nodes : o = WorkerJobOf(j, n)
  BY WorkerFacts
<1>3. ~ \E c \in Resources \ Broadcasters, n \in Nodes : o = CronJobOf(c, n)
  BY SetCronJobFacts
<1>4. o \notin BroadcastJobs
  BY BroadcastJobFacts
<1>5. o.for \in Resources /\ o.for.kind = "DaemonCronJob" /\ o = BroadcastJobOf(o.for)
  BY <1>1, <1>2, <1>3, <1>4 DEF Makable
<1> QED BY <1>5 DEF BroadcastJobs
-----------------------------------------------------------------------------
(* Names that differ *)

\* The worker Jobs of one broadcast have different names on different nodes.
LEMMA NodesTellWorkersApart ==
    ASSUME NEW j \in BroadcastJobs, NEW n \in Nodes, NEW m \in Nodes,
           Key(WorkerJobOf(j, n)) = Key(WorkerJobOf(j, m))
    PROVE  n = m
<1>1. j.name \o n = j.name \o m
  <2> DEFINE x == j.name \o n
             y == j.name \o m
  <2>1. Key(WorkerJobOf(j, n)) = <<"Job", j.ns, x>> /\ Key(WorkerJobOf(j, m)) = <<"Job", j.ns, y>>
    BY WorkerFacts
  <2> HIDE DEF x, y
  <2>2. <<"Job", j.ns, x>> = <<"Job", j.ns, y>>
    BY <2>1, Zenon
  <2> QED BY <2>2 DEF x, y
<1>2. j.name \in Names /\ n \in Names /\ m \in Names
  BY BroadcastJobFacts, NamesAssumption DEF Names
<1> QED BY <1>1, <1>2, ConcatInjective

\* So have the CronJobs of one set.
LEMMA NodesTellCronJobsApart ==
    ASSUME NEW c \in Resources, NEW n \in Nodes, NEW m \in Nodes,
           Key(CronJobOf(c, n)) = Key(CronJobOf(c, m))
    PROVE  n = m
<1> DEFINE cn == c.name \o n
           cm == c.name \o m
<1>1. CronJobName(c, n) = CronJobName(c, m)
  BY SetCronJobFacts
<1>2. PICK x \in Segments : x = Suffix[c.kind]
  BY NamesMade
<1>3. CronJobName(c, n) = Append(cn, x) /\ CronJobName(c, m) = Append(cm, x)
  BY <1>2 DEF CronJobName
<1>4. cn \in Seq(Segments) /\ cm \in Seq(Segments) /\ c.name \in Names
      /\ n \in Names /\ m \in Names
  BY NamesMade DEF Names
<1>5. Append(cn, x) = Append(cm, x) => cn = cm
  <2> HIDE DEF cn, cm
  <2> QED BY <1>4, LastSegment
<1>6. c.name \o n = c.name \o m
  BY <1>1, <1>3, <1>5
<1> QED BY <1>4, <1>6, ConcatInjective
-----------------------------------------------------------------------------
(* OwnersInv is inductive *)

\* Any step that removes no owner of what stays, and makes only what has an owner
\* and a name that is not taken.
LEMMA OwnersKept ==
    ASSUME OwnersInv, NEW kept, NEW made,
           objs' = kept \union made, kept \subseteq objs, made \subseteq Makable,
           state' \in [Resources -> {"new", "live", "gone"}],
           nodes' \in SUBSET Nodes, ran \subseteq ran',
           \A c \in Resources : state[c] # "new" =>
               state'[c] # "new" /\ (state'[c] = "live" => state[c] = "live"),
           \A p \in objs \ kept : p.account # None => state'[p.for] # "live",
           \A o, p \in made : Key(o) = Key(p) => o = p,
           \A o \in made : ~Taken(o, kept),
           \A o \in made :
              /\ state[o.for] # "new"
              /\ \/ o.owner \in {None, Self(o.for)}
                 \/ \E p \in kept : Key(p) = o.owner /\ p.for = o.for /\ p.account # None
              /\ o.kind = "Job" /\ o.account = None => o.owner \in ran'
    PROVE  OwnersInv'
<1>1. objs' \subseteq Makable
  BY DEF OwnersInv
<1>2. TypeOK'
  <2>1. \A o, p \in objs' : Key(o) = Key(p) => o = p
    BY DEF OwnersInv, TypeOK, Taken
  <2>2. \A o \in objs' : o.for \in Resources
    BY <1>1, MakableFacts
  <2>3. \A o \in objs' : "node" \in DOMAIN o.labels => o.labels["node"] \in Nodes
    BY <1>1, MakableFacts
  <2> QED BY <2>1, <2>2, <2>3 DEF TypeOK
<1>3. ASSUME NEW o \in objs'
      PROVE  /\ state'[o.for] # "new"
             /\ state'[o.for] = "live" =>
                   \/ o.owner \in {None, Self(o.for)}
                   \/ \E p \in objs' : Key(p) = o.owner /\ p.for = o.for /\ p.account # None
             /\ o.kind = "Job" /\ o.account = None => o.owner \in ran'
  <2>1. o.for \in Resources
    BY <1>1, MakableFacts
  <2>2. CASE o \in made
    BY <2>1, <2>2
  <2>3. CASE o \in kept
    <3>1. state[o.for] # "new" /\ (o.kind = "Job" /\ o.account = None => o.owner \in ran)
      BY <2>3 DEF OwnersInv
    <3>2. ASSUME state'[o.for] = "live", o.owner \notin {None, Self(o.for)}
          PROVE  \E p \in objs' : Key(p) = o.owner /\ p.for = o.for /\ p.account # None
      <4>1. state[o.for] = "live"
        BY <2>1, <3>1, <3>2
      <4>2. PICK p \in objs : Key(p) = o.owner /\ p.for = o.for /\ p.account # None
        BY <2>3, <3>2, <4>1 DEF OwnersInv
      <4>3. p \in kept
        BY <3>2, <4>2
      <4> QED BY <4>2, <4>3
    <3> QED BY <2>1, <3>1, <3>2
  <2> QED BY <2>2, <2>3
<1> QED BY <1>1, <1>2, <1>3 DEF OwnersInv

\* At first nothing exists.
LEMMA OwnersInit == Init => OwnersInv
BY DEF Init, OwnersInv, TypeOK

\* What a reconciliation takes for worker Jobs of nodes that are gone runs nothing.
LEMMA OrphansAreWorkers ==
    ASSUME OwnersInv, NEW c
    PROVE  \A p \in Orphans(c) : p \in objs /\ p.account = None
                                 /\ "node" \in DOMAIN p.labels /\ p.labels["node"] \notin nodes
<1> SUFFICES ASSUME NEW p \in Orphans(c)
             PROVE  p \in objs /\ p.account = None
                    /\ "node" \in DOMAIN p.labels /\ p.labels["node"] \notin nodes
  OBVIOUS
<1>1. p \in objs /\ p.labels["role"] = <<"worker">> /\ p.labels["node"] \notin nodes
  BY DEF Orphans, ListWorkers, Has
<1>2. p \in Makable
  BY <1>1 DEF OwnersInv
<1>3. p.account = None
  <2>1. <<"worker">> # <<"broadcast">>
    OBVIOUS
  <2> QED BY <1>1, <1>2, <2>1, MakableFacts
<1> QED BY <1>1, <1>2, <1>3, MakableFacts

\* Every ClusterRoleBinding is one that a DaemonJob or a DaemonCronJob is applied with.
LEMMA BindingsByKey ==
    ASSUME NEW p \in Makable, p.kind = "ClusterRoleBinding"
    PROVE  \E d \in Broadcasters : p = ClusterRoleBinding(d)
<1>1. ~ \E j \in BroadcastJobs, n \in Nodes : p = WorkerJobOf(j, n)
  BY WorkerFacts
<1>2. ~ \E b \in Resources \ Broadcasters, n \in Nodes : p = CronJobOf(b, n)
  BY SetCronJobFacts
<1>3. p \notin BroadcastJobs
  BY BroadcastJobFacts
<1>4. ASSUME NEW b \in Broadcasters PROVE p # ServiceAccountOf(b) /\ p # BroadcastJobOf(b)
  BY BroadcasterObjects
<1> QED BY <1>1, <1>2, <1>3, <1>4 DEF Makable

\* The finalizer's selector finds the bindings of its own custom resource alone.
LEMMA BindingsAreOwn ==
    ASSUME OwnersInv, NEW c \in Broadcasters
    PROVE  \A p \in ListBindings(objs, c) : p \in objs /\ p.kind = "ClusterRoleBinding" /\ p.for = c
<1> SUFFICES ASSUME NEW p \in ListBindings(objs, c)
             PROVE  p \in objs /\ p.kind = "ClusterRoleBinding" /\ p.for = c
  OBVIOUS
<1>1. /\ p \in objs /\ p.kind = "ClusterRoleBinding"
      /\ NameKey[c.kind] \in DOMAIN p.labels /\ p.labels[NameKey[c.kind]] = c.name
      /\ "namespace" \in DOMAIN p.labels /\ p.labels["namespace"] = c.ns
  BY DEF ListBindings, Has
<1>2. PICK d \in Broadcasters : p = ClusterRoleBinding(d)
  BY <1>1, BindingsByKey DEF OwnersInv
<1>3. /\ DOMAIN BroadcastLabels(d) = {NameKey[d.kind], "role"}
      /\ BroadcastLabels(d)[NameKey[d.kind]] = d.name
      /\ NameKey[d.kind] \in {"daemonjob-name", "daemoncronjob-name"}
      /\ NameKey[d.kind] = "daemonjob-name" <=> d.kind = "DaemonJob"
  BY LabelsOfBroadcast
<1>4. /\ NameKey[c.kind] \in {"daemonjob-name", "daemoncronjob-name"}
      /\ NameKey[c.kind] = "daemonjob-name" <=> c.kind = "DaemonJob"
  BY LabelsOfBroadcast
<1>5. p.for = d /\ p.labels = Label(BroadcastLabels(d), "namespace", d.ns)
  BY <1>2 DEF ClusterRoleBinding
<1>6. /\ DOMAIN p.labels = {NameKey[d.kind], "role", "namespace"}
      /\ p.labels[NameKey[d.kind]] = d.name /\ p.labels["namespace"] = d.ns
  BY <1>3, <1>5 DEF Label
<1>7. NameKey[c.kind] = NameKey[d.kind]
  BY <1>1, <1>4, <1>6
<1>8. c.kind = d.kind
  <2>1. /\ c.kind \in {"DaemonJob", "DaemonCronJob"}
        /\ d.kind \in {"DaemonJob", "DaemonCronJob"}
    BY BroadcasterObjects
  <2> QED BY <1>3, <1>4, <1>7, <2>1
<1>9. c.name = d.name /\ c.ns = d.ns
  BY <1>1, <1>6, <1>7
<1> QED BY <1>1, <1>5, <1>8, <1>9, NamesAssumption DEF Self, Broadcasters

\* No step of a custom resource's controller, of the CronJob controller, of a
\* broadcast, of the garbage collector or of the cluster takes the owner away.
LEMMA OwnersStep == OwnersInv /\ [Next]_vars => OwnersInv'
<1> SUFFICES ASSUME OwnersInv, [Next]_vars PROVE OwnersInv'
  OBVIOUS
<1> USE DEF Broadcasters
<1>1. ASSUME NEW c \in Resources, Create(c) PROVE OwnersInv'
  <2>1. state' = [state EXCEPT ![c] = "live"] /\ state[c] = "new"
        /\ objs' = objs \union {} /\ nodes' = nodes /\ ran' = ran
    BY <1>1 DEF Create
  <2>2. /\ state' \in [Resources -> {"new", "live", "gone"}]
        /\ \A d \in Resources : state[d] # "new" =>
               state'[d] # "new" /\ (state'[d] = "live" => state[d] = "live")
    BY <2>1 DEF OwnersInv, TypeOK
  <2>3. nodes' \in SUBSET Nodes
    BY <2>1 DEF OwnersInv, TypeOK
  <2>4. PICK made : made = {}
    OBVIOUS
  <2> QED BY <2>1, <2>2, <2>3, <2>4, OwnersKept
<1>2. ASSUME NEW c \in Resources, Reconcile(c) PROVE OwnersInv'
  <2> DEFINE kept == objs \ Orphans(c)
             want == Applicable(c, kept)
             made == Missing(want, kept)
  <2>1. /\ c \in Broadcasters /\ state[c] = "live"
        /\ objs' = kept \union made /\ state' = state /\ nodes' = nodes /\ ran' = ran
    BY <1>2 DEF Reconcile
  <2>2. /\ state' \in [Resources -> {"new", "live", "gone"}] /\ nodes' \in SUBSET Nodes
        /\ \A d \in Resources : state[d] # "new" =>
               state'[d] # "new" /\ (state'[d] = "live" => state[d] = "live")
    BY <2>1 DEF OwnersInv, TypeOK
  <2>3. \A p \in objs \ kept : p.account = None
    BY OrphansAreWorkers
  <2>4. \A o \in made :
           o \in {ServiceAccountOf(c), ClusterRoleBinding(c), BroadcastJobOf(c)} /\ ~Taken(o, kept)
    BY DEF Missing, Applicable
  <2>5. made \subseteq Makable
    BY <2>1, <2>4 DEF Makable
  <2> HIDE DEF made, want, kept
  <2>6. \A o, p \in made : Key(o) = Key(p) => o = p
    BY <2>1, <2>4, BroadcasterObjects DEF Key
  <2>7. \A o \in made : o.for = c /\ o.account # None /\ o.owner \in {None, Self(c)}
    BY <2>1, <2>4, BroadcasterObjects
  <2>8. kept \subseteq objs
    BY DEF kept
  <2> QED BY <2>1, <2>2, <2>3, <2>4, <2>5, <2>6, <2>7, <2>8, OwnersKept
<1>3. ASSUME NEW c \in Resources, ReconcileSet(c) PROVE OwnersInv'
  <2> DEFINE kept == objs \ Orphans(c)
             want == {CronJobOf(c, n) : n \in nodes}
             owned == {o \in want : AlreadyOwned(o, kept)}
  <2>1. PICK done \in SUBSET (want \ owned) : objs' = kept \union Missing(done, kept)
    BY <1>3 DEF ReconcileSet
  <2> DEFINE made == Missing(done, kept)
  <2>2. /\ c \notin Broadcasters /\ state[c] = "live"
        /\ state' = state /\ nodes' = nodes /\ ran' = ran
    BY <1>3 DEF ReconcileSet
  <2>3. /\ state' \in [Resources -> {"new", "live", "gone"}] /\ nodes' \in SUBSET Nodes
        /\ nodes \subseteq Nodes
        /\ \A d \in Resources : state[d] # "new" =>
               state'[d] # "new" /\ (state'[d] = "live" => state[d] = "live")
    BY <2>2 DEF OwnersInv, TypeOK
  <2>4. \A p \in objs \ kept : p.account = None
    BY OrphansAreWorkers
  <2>5. \A o \in made : ~Taken(o, kept) /\ \E n \in Nodes : o = CronJobOf(c, n)
    BY <2>3 DEF Missing
  <2>6. kept \subseteq objs /\ objs' = kept \union made
    BY <2>1
  <2> HIDE DEF made, owned, want, kept
  <2>7. made \subseteq Makable
    BY <2>2, <2>5 DEF Makable
  <2>8. \A o, p \in made : Key(o) = Key(p) => o = p
    BY <2>5, NodesTellCronJobsApart
  <2>9. \A o \in made : o.for = c /\ o.kind = "CronJob" /\ o.owner \in {None, Self(c)}
    BY <2>5, SetCronJobFacts
  <2> QED BY <2>2, <2>3, <2>4, <2>5, <2>6, <2>7, <2>8, <2>9, OwnersKept
<1>4. ASSUME NEW c \in Resources, Delete(c) PROVE OwnersInv'
  <2> DEFINE kept == objs'
  <2>1. /\ state[c] = "live" /\ state' = [state EXCEPT ![c] = "gone"]
        /\ nodes' = nodes /\ ran' = ran /\ objs' = kept \union {}
    BY <1>4 DEF Delete
  <2>2. kept \subseteq objs /\ \A p \in objs \ kept : p.for = c
    <3>1. CASE c.kind = "DaemonCronJobSet"
      BY <1>4, <3>1 DEF Delete
    <3>2. CASE c.kind # "DaemonCronJobSet"
      BY <1>4, <3>2, BindingsAreOwn DEF Delete
    <3> QED BY <3>1, <3>2
  <2>3. /\ state' \in [Resources -> {"new", "live", "gone"}] /\ nodes' \in SUBSET Nodes
        /\ state'[c] = "gone"
        /\ \A d \in Resources : state[d] # "new" =>
               state'[d] # "new" /\ (state'[d] = "live" => state[d] = "live")
    BY <2>1 DEF OwnersInv, TypeOK
  <2> HIDE DEF kept
  <2>4. PICK made : made = {}
    OBVIOUS
  <2>5. objs' = kept \union made /\ \A p \in objs \ kept : state'[p.for] # "live"
    BY <2>1, <2>2, <2>3, <2>4
  <2>6. ran \subseteq ran' /\ made \subseteq Makable /\ \A o \in made : FALSE
    BY <2>1, <2>4
  <2> QED BY <2>2, <2>3, <2>5, <2>6, OwnersKept
<1>5. CASE Tick
  <2>1. PICK cronJob \in objs, t \in Ticks :
           /\ cronJob.kind = "CronJob" /\ cronJob.account # None
           /\ ~Taken(JobOfTick(cronJob, t), objs)
           /\ objs' = objs \union {JobOfTick(cronJob, t)}
    BY <1>5 DEF Tick
  <2> DEFINE j == JobOfTick(cronJob, t)
             c == cronJob.for
  <2>2. state' = state /\ nodes' = nodes /\ ran' = ran
    BY <1>5 DEF Tick
  <2>3. /\ state' \in [Resources -> {"new", "live", "gone"}] /\ nodes' \in SUBSET Nodes
        /\ \A d \in Resources : state[d] # "new" =>
               state'[d] # "new" /\ (state'[d] = "live" => state[d] = "live")
    BY <2>2 DEF OwnersInv, TypeOK
  <2>4. /\ c \in Resources /\ cronJob = BroadcastJobOf(c) /\ c.kind = "DaemonCronJob"
        /\ j \in BroadcastJobs
    BY <2>1, CronJobsThatBroadcast DEF OwnersInv
  <2>5. j.for = c /\ j.owner = Key(cronJob) /\ j.account # None
    BY <2>4, NoneAssumption DEF JobOfTick, BroadcastJob, BroadcastJobOf, Owned
  <2>6. state[c] # "new"
    BY <2>1 DEF OwnersInv
  <2>7. {j} \subseteq Makable
    BY <2>4 DEF Makable
  <2> HIDE DEF j, c
  <2>8. \E p \in objs : Key(p) = j.owner /\ p.for = j.for /\ p.account # None
    BY <2>1, <2>5 DEF c
  <2>9. ~Taken(j, objs)
    BY <2>1 DEF j
  <2>10. PICK made : made = {j}
    OBVIOUS
  <2>11. objs' = objs \union made
    BY <2>1, <2>10 DEF j
  <2>12. \A o \in made : o = j
    BY <2>10
  <2>13. made \subseteq Makable /\ \A o, p \in made : o = p
    BY <2>7, <2>12
  <2>14. \A o \in made : ~Taken(o, objs)
    BY <2>9, <2>12
  <2>15. \A o \in made :
            /\ state[o.for] # "new" /\ o.account # None
            /\ \E p \in objs : Key(p) = o.owner /\ p.for = o.for /\ p.account # None
    BY <2>5, <2>6, <2>8, <2>12
  <2>16. objs \subseteq objs /\ ran \subseteq ran' /\ \A p \in objs \ objs : FALSE
    BY <2>2
  <2> QED BY <2>3, <2>11, <2>13, <2>14, <2>15, <2>16, OwnersKept
<1>6. CASE Collect
  <2>1. PICK o \in objs : ~OwnerExists(o) /\ objs' = objs \ {o}
    BY <1>6 DEF Collect
  <2>2. state' = state /\ nodes' = nodes /\ ran' = ran /\ objs' = (objs \ {o}) \union {}
    BY <1>6, <2>1 DEF Collect
  <2>3. /\ state' \in [Resources -> {"new", "live", "gone"}] /\ nodes' \in SUBSET Nodes
        /\ \A d \in Resources : state[d] # "new" =>
               state'[d] # "new" /\ (state'[d] = "live" => state[d] = "live")
    BY <2>2 DEF OwnersInv, TypeOK
  <2>4. state[o.for] # "live"
    BY <2>1 DEF OwnersInv, TypeOK, OwnerExists, Live
  <2>5. PICK kept, made : kept = objs \ {o} /\ made = {}
    OBVIOUS
  <2>6. /\ objs' = kept \union made /\ kept \subseteq objs
        /\ \A p \in objs \ kept : p = o
    BY <2>2, <2>5
  <2>7. \A p \in objs \ kept : state'[p.for] # "live"
    BY <2>2, <2>4, <2>6
  <2> QED BY <2>2, <2>3, <2>5, <2>6, <2>7, OwnersKept
<1>7. CASE NodeChanges
  <2>1. state' = state /\ ran' = ran /\ objs' = objs \union {}
    BY <1>7 DEF NodeChanges
  <2>2. nodes' \in SUBSET Nodes
    BY <1>7 DEF NodeChanges, OwnersInv, TypeOK
  <2>3. /\ state' \in [Resources -> {"new", "live", "gone"}]
        /\ \A d \in Resources : state[d] # "new" =>
               state'[d] # "new" /\ (state'[d] = "live" => state[d] = "live")
    BY <2>1 DEF OwnersInv, TypeOK
  <2>4. PICK made : made = {}
    OBVIOUS
  <2> QED BY <2>1, <2>2, <2>3, <2>4, OwnersKept
<1>8. ASSUME NEW j \in objs, Broadcast(j) PROVE OwnersInv'
  <2> DEFINE made == IF Succeeds(j) THEN {WorkerJobOf(j, n) : n \in nodes} ELSE {}
  <2>1. /\ objs' = objs \union made /\ state' = state /\ nodes' = nodes
        /\ ran' = ran \union {Key(j)}
    BY <1>8 DEF Broadcast
  <2>2. j \in BroadcastJobs /\ j.account # None
    BY <1>8, JobsThatBroadcast DEF OwnersInv, Broadcast, Runnable
  <2>3. /\ state' \in [Resources -> {"new", "live", "gone"}] /\ nodes' \in SUBSET Nodes
        /\ nodes \subseteq Nodes
        /\ \A d \in Resources : state[d] # "new" =>
               state'[d] # "new" /\ (state'[d] = "live" => state[d] = "live")
    BY <2>1 DEF OwnersInv, TypeOK
  <2>4. \A o \in made : ~Taken(o, objs) /\ \E n \in Nodes : o = WorkerJobOf(j, n)
    BY <2>3 DEF Succeeds
  <2> HIDE DEF made
  <2>5. made \subseteq Makable
    BY <2>2, <2>4 DEF Makable
  <2>6. \A o, p \in made : Key(o) = Key(p) => o = p
    BY <2>2, <2>4, NodesTellWorkersApart
  <2>7. \A o \in made : o.for = j.for /\ o.owner = Key(j)
    BY <2>2, <2>4, WorkerFacts
  <2>8. state[j.for] # "new"
    BY DEF OwnersInv
  <2> QED BY <2>1, <2>2, <2>3, <2>4, <2>5, <2>6, <2>7, <2>8, OwnersKept, SMTT(30)
<1>9. CASE UNCHANGED vars
  BY <1>9 DEF vars, OwnersInv, TypeOK
<1> QED BY <1>1, <1>2, <1>3, <1>4, <1>5, <1>6, <1>7, <1>8, <1>9 DEF Next

\* What exists has an owner that exists while its custom resource does, and was
\* made by one of the code's constructors.
THEOREM OwnersInvariant == Spec => []OwnersInv
<1> QED BY OwnersInit, OwnersStep, PTL DEF Spec

\* No two objects of a kind have a namespace and a name in common, whatever the
\* names of the custom resources and of the nodes.
THEOREM TypeCorrect == Spec => []TypeOK
<1>1. OwnersInv => TypeOK
  BY DEF OwnersInv
<1> QED BY <1>1, OwnersInvariant, PTL
-----------------------------------------------------------------------------
(* Hands off *)

\* What a step deletes was made for a custom resource that is gone, or for a node that is.
LEMMA HandsOffStep ==
    ASSUME OwnersInv, Next, NEW o \in objs \ objs'
    PROVE  \/ state'[o.for] = "gone"
           \/ "node" \in DOMAIN o.labels /\ o.labels["node"] \notin nodes
<1>1. ASSUME NEW c \in Resources, Reconcile(c) \/ ReconcileSet(c)
      PROVE  "node" \in DOMAIN o.labels /\ o.labels["node"] \notin nodes
  <2>1. o \in Orphans(c)
    BY <1>1 DEF Reconcile, ReconcileSet
  <2> QED BY <2>1, OrphansAreWorkers
<1>2. ASSUME NEW c \in Resources, Delete(c) PROVE state'[o.for] = "gone"
  <2>1. state'[c] = "gone"
    BY <1>2 DEF Delete, OwnersInv, TypeOK
  <2>2. o.for = c
    <3>1. c.kind # "DaemonCronJobSet" /\ o \in ListBindings(objs, c)
      BY <1>2 DEF Delete
    <3> QED BY <3>1, BindingsAreOwn DEF Broadcasters
  <2> QED BY <2>1, <2>2
<1>3. ASSUME Collect PROVE state'[o.for] = "gone"
  <2>1. ~OwnerExists(o) /\ state' = state
    BY <1>3 DEF Collect
  <2>2. state[o.for] # "new" /\ state[o.for] # "live" /\ o.for \in Resources
    BY <2>1 DEF OwnersInv, TypeOK, OwnerExists, Live
  <2> QED BY <2>1, <2>2 DEF OwnersInv, TypeOK
<1>4. ASSUME NEW c \in Resources PROVE ~Create(c)
  BY DEF Create
<1>5. ~Tick /\ ~NodeChanges
  BY DEF Tick, NodeChanges
<1>6. ASSUME NEW j \in objs PROVE ~Broadcast(j)
  BY DEF Broadcast
<1> QED BY <1>1, <1>2, <1>3, <1>4, <1>5, <1>6 DEF Next

\* The objects of a custom resource that exists go only with their node: neither
\* a controller that looks for its own objects by labels nor the garbage collector
\* deletes what was made for another one, of whatever kind, namespace and name.
THEOREM HandsOffHolds == Spec => HandsOff
<1>1. OwnersInv /\ [Next]_vars =>
        [\A o \in objs \ objs' :
            \/ state'[o.for] = "gone"
            \/ "node" \in DOMAIN o.labels /\ o.labels["node"] \notin nodes]_vars
  BY HandsOffStep
<1> QED BY <1>1, OwnersInvariant, PTL DEF Spec, HandsOff
-----------------------------------------------------------------------------
(* Rights *)

\* The binding of whoever runs pods, by the constructor that makes it.
Bound ==
    \A j \in objs :
        j.account # None /\ j.kind \in {"Job", "CronJob"} /\ state[j.for] = "live"
            => ClusterRoleBinding(j.for) \in objs

\* No other binding has the name that the controller is about to use.
LEMMA BindingIsApplied ==
    ASSUME BindingsApart, OwnersInv, NEW c \in Broadcasters, NEW kept \in SUBSET objs
    PROVE  \/ ClusterRoleBinding(c) \in kept
           \/ ClusterRoleBinding(c) \in Missing({ClusterRoleBinding(c)}, kept)
<1> DEFINE b == ClusterRoleBinding(c)
<1>1. ASSUME NEW p \in kept, Key(p) = Key(b) PROVE p = b
  <2>1. p.kind = "ClusterRoleBinding" /\ p.name = BindingName(c)
    BY <1>1 DEF Key, ClusterRoleBinding
  <2>2. PICK d \in Broadcasters : p = ClusterRoleBinding(d)
    BY <2>1, BindingsByKey DEF OwnersInv
  <2>3. BindingName(d) = BindingName(c)
    BY <2>1, <2>2 DEF ClusterRoleBinding
  <2> QED BY <2>2, <2>3 DEF BindingsApart
<1> HIDE DEF b
<1>2. b \in kept \/ b \in Missing({b}, kept)
  BY <1>1 DEF Missing, Taken
<1> QED BY <1>2 DEF b

\* Every step leaves the broadcasts of existing custom resources their bindings.
LEMMA BoundStep ==
    ASSUME BindingsApart, OwnersInv, Bound, [Next]_vars
    PROVE  Bound'
<1> SUFFICES ASSUME NEW j \in objs', j.account # None, j.kind \in {"Job", "CronJob"},
                    state'[j.for] = "live"
             PROVE  ClusterRoleBinding(j.for) \in objs'
  BY DEF Bound
<1>1. j.for \in Resources
  <2>1. OwnersInv'
    BY OwnersStep
  <2> QED BY <2>1 DEF OwnersInv, TypeOK
<1>2. ASSUME j \in objs, state[j.for] = "live"
      PROVE  /\ j.for \in Broadcasters /\ ClusterRoleBinding(j.for) \in objs
             /\ ClusterRoleBinding(j.for).account # None
             /\ ClusterRoleBinding(j.for).for = j.for
  <2>1. j.for \in Broadcasters /\ ClusterRoleBinding(j.for) \in objs
    BY <1>2, MakableFacts DEF Bound, OwnersInv
  <2> QED BY <2>1, BroadcasterObjects
<1>3. ASSUME NEW c \in Resources, Create(c) PROVE ClusterRoleBinding(j.for) \in objs'
  <2>1. objs' = objs /\ state[c] = "new" /\ state' = [state EXCEPT ![c] = "live"]
    BY <1>3 DEF Create
  <2>2. state[j.for] = "live"
    BY <1>1, <2>1 DEF OwnersInv, TypeOK
  <2> QED BY <1>2, <2>1, <2>2
<1>4. ASSUME NEW c \in Resources, Reconcile(c) PROVE ClusterRoleBinding(j.for) \in objs'
  <2> DEFINE kept == objs \ Orphans(c)
             made == Missing(Applicable(c, kept), kept)
  <2>1. objs' = kept \union made /\ state' = state /\ c \in Broadcasters
    BY <1>4 DEF Reconcile, Broadcasters
  <2>2. CASE j \in kept
    BY <1>2, <2>1, <2>2, OrphansAreWorkers
  <2>3. CASE j \in made
    <3>1. /\ j \in {ServiceAccountOf(c), ClusterRoleBinding(c), BroadcastJobOf(c)}
          /\ ClusterRoleBinding(c) \in Applicable(c, kept)
      BY <2>3 DEF Missing, Applicable
    <3>2. j.for = c
      BY <2>1, <3>1, BroadcasterObjects
    <3>3. kept \in SUBSET objs
      OBVIOUS
    <3>4. ClusterRoleBinding(c) \in kept \/ ClusterRoleBinding(c) \in made
      BY <2>1, <3>1, <3>3, BindingIsApplied DEF Missing
    <3> QED BY <2>1, <3>2, <3>4
  <2> QED BY <2>1, <2>2, <2>3
<1>5. ASSUME NEW c \in Resources, ReconcileSet(c) PROVE ClusterRoleBinding(j.for) \in objs'
  <2>1. /\ objs \ Orphans(c) \subseteq objs' /\ state' = state
        /\ \A o \in objs' \ objs : \E n \in nodes : o = CronJobOf(c, n)
    BY <1>5 DEF ReconcileSet, Missing
  <2>2. j \in objs
    BY <2>1, SetCronJobFacts
  <2> QED BY <1>2, <2>1, <2>2, OrphansAreWorkers
<1>6. ASSUME NEW c \in Resources, Delete(c) PROVE ClusterRoleBinding(j.for) \in objs'
  <2>1. state[c] = "live" /\ state' = [state EXCEPT ![c] = "gone"] /\ objs' \subseteq objs
    BY <1>6 DEF Delete
  <2>2. j \in objs /\ state[j.for] = "live" /\ j.for # c
    BY <1>1, <2>1 DEF OwnersInv, TypeOK
  <2>3. c.kind # "DaemonCronJobSet" => ClusterRoleBinding(j.for) \notin ListBindings(objs, c)
    BY <1>2, <2>2, BindingsAreOwn DEF Broadcasters
  <2> QED BY <1>2, <1>6, <2>2, <2>3 DEF Delete
<1>7. ASSUME Tick PROVE ClusterRoleBinding(j.for) \in objs'
  <2>1. PICK cronJob \in objs, t \in Ticks :
           /\ cronJob.kind = "CronJob" /\ cronJob.account # None
           /\ objs' = objs \union {JobOfTick(cronJob, t)}
    BY <1>7 DEF Tick
  <2>2. state' = state
    BY <1>7 DEF Tick
  <2>3. CASE j \in objs
    BY <1>2, <2>1, <2>2, <2>3
  <2>4. CASE j = JobOfTick(cronJob, t)
    <3>1. cronJob = BroadcastJobOf(cronJob.for)
      BY <2>1, CronJobsThatBroadcast DEF OwnersInv
    <3>2. JobOfTick(cronJob, t).for = cronJob.for
      BY <3>1 DEF JobOfTick, BroadcastJob, BroadcastJobOf, Owned
    <3>3. state[cronJob.for] = "live"
      BY <2>2, <2>4, <3>2
    <3>4. ClusterRoleBinding(cronJob.for) \in objs
      BY <2>1, <3>3 DEF Bound
    <3> QED BY <2>1, <2>4, <3>2, <3>4
  <2> QED BY <2>1, <2>3, <2>4
<1>8. ASSUME Collect PROVE ClusterRoleBinding(j.for) \in objs'
  <2>1. PICK o \in objs : ~OwnerExists(o) /\ objs' = objs \ {o}
    BY <1>8 DEF Collect
  <2>2. j \in objs /\ state' = state
    BY <1>8, <2>1 DEF Collect
  <2>3. OwnerExists(ClusterRoleBinding(j.for))
    BY DEF OwnerExists, ClusterRoleBinding
  <2> QED BY <1>2, <2>1, <2>2, <2>3
<1>9. ASSUME NEW b \in objs, Broadcast(b) PROVE ClusterRoleBinding(j.for) \in objs'
  <2>1. /\ objs \subseteq objs' /\ state' = state
        /\ \A o \in objs' \ objs : \E n \in nodes : o = WorkerJobOf(b, n)
    BY <1>9 DEF Broadcast
  <2>2. b \in BroadcastJobs
    BY <1>9, JobsThatBroadcast DEF OwnersInv, Broadcast, Runnable
  <2>3. j \in objs
    BY <2>1, <2>2, WorkerFacts
  <2> QED BY <1>2, <2>1, <2>3
<1>10. CASE NodeChanges
  BY <1>2, <1>10 DEF NodeChanges
<1>11. CASE UNCHANGED vars
  BY <1>2, <1>11 DEF vars
<1> QED BY <1>3, <1>4, <1>5, <1>6, <1>7, <1>8, <1>9, <1>10, <1>11 DEF Next

\* Where no two bindings get the same name, every pod that broadcasts for a custom
\* resource that exists has its rights.
THEOREM BindsOwnUnlessJoined ==
    ASSUME BindingsApart
    PROVE  Spec => []BindsOwn
<1>1. Init => Bound
  BY DEF Init, Bound
<1>2. OwnersInv /\ Bound /\ [Next]_vars => Bound'
  BY BoundStep
<1>3. OwnersInv /\ Bound => BindsOwn
  <2> SUFFICES ASSUME OwnersInv, Bound, NEW j \in objs, j.account # None,
                      j.kind \in {"Job", "CronJob"}, state[j.for] = "live"
               PROVE  \E p \in objs : p.kind = "ClusterRoleBinding" /\ p.account = j.account
    BY DEF BindsOwn
  <2>1. j.for \in Broadcasters /\ j.account = Account(j.for)
    BY MakableFacts DEF OwnersInv
  <2>2. ClusterRoleBinding(j.for) \in objs
    BY DEF Bound
  <2>3. /\ ClusterRoleBinding(j.for).kind = "ClusterRoleBinding"
        /\ ClusterRoleBinding(j.for).account = Account(j.for)
    BY <2>1, BroadcasterObjects
  <2> QED BY <2>1, <2>2, <2>3
<1> QED BY <1>1, <1>2, <1>3, OwnersInvariant, PTL DEF Spec
-----------------------------------------------------------------------------
(* The preview *)

\* A ServiceAccount or a binding that a broadcast of c can use is that of c.
LEMMA AccountsAreOwn ==
    ASSUME NEW p \in Makable, NEW c \in Broadcasters, p.account = Account(c),
           p.kind \in {"ServiceAccount", "ClusterRoleBinding"}
    PROVE  p = IF p.kind = "ServiceAccount" THEN ServiceAccountOf(c) ELSE ClusterRoleBinding(c)
<1>1. p.account # None
  BY NoneAssumption DEF Broadcasters
<1>2. PICK d \in Broadcasters :
         p \in {ServiceAccountOf(d), ClusterRoleBinding(d), BroadcastJobOf(d)} 
  <2>1. ~ \E j \in BroadcastJobs, n \in Nodes : p = WorkerJobOf(j, n)
    BY <1>1, WorkerFacts
  <2>2. ~ \E b \in Resources \ Broadcasters, n \in Nodes : p = CronJobOf(b, n)
    BY <1>1, SetCronJobFacts
  <2>3. p \notin BroadcastJobs
    BY BroadcastJobFacts
  <2> QED BY <2>1, <2>2, <2>3 DEF Makable
<1>3. Account(d) = Account(c) /\ d \in Resources /\ c \in Resources
  BY <1>2, BroadcasterObjects
<1>4. d = c
  BY <1>3, AccountInjective
<1> QED BY <1>2, <1>4, BroadcasterObjects

\* A broadcast succeeds: what exists for the DaemonJob then is what was previewed of it,
\* but for the owner references to the DaemonJob.
LEMMA PreviewStep ==
    ASSUME OwnersInv, Next, NEW j \in objs, Key(j) \in ran' \ ran, Succeeds(j),
           j.for.kind = "DaemonJob"
    PROVE  {Shown(o) : o \in {p \in objs' : p.for = j.for}} = Preview(j.for, nodes)
<1> DEFINE c == j.for
           workers == {WorkerJobOf(j, n) : n \in nodes}
<1>1. Broadcast(j)
  <2>1. PICK k \in objs : Broadcast(k)
    BY DEF Next, Create, Reconcile, ReconcileSet, Delete, Tick, Collect, NodeChanges
  <2>2. Key(k) = Key(j)
    BY <2>1 DEF Broadcast
  <2>3. k = j
    BY <2>2 DEF OwnersInv, TypeOK
  <2> QED BY <2>1, <2>3
<1>2. objs' = objs \union workers
  BY <1>1 DEF Broadcast
<1>3. j \in BroadcastJobs
  BY <1>1, JobsThatBroadcast DEF OwnersInv, Broadcast, Runnable
<1>4. c \in Broadcasters /\ j = BroadcastJobOf(c) /\ j.account = Account(c)
  BY <1>3, BroadcastJobFacts
<1>5. ServiceAccountOf(c) \in objs /\ ClusterRoleBinding(c) \in objs
  <2>1. \E p \in objs : p.kind = "ServiceAccount" /\ p.account = Account(c)
    BY <1>1, <1>4 DEF Broadcast, Runnable
  <2>2. \E p \in objs : p.kind = "ClusterRoleBinding" /\ p.account = Account(c)
    BY <1>4 DEF Succeeds
  <2> QED BY <1>4, <2>1, <2>2, AccountsAreOwn DEF OwnersInv
<1>6. Preview(c, nodes) = {ServiceAccount(c), ClusterRoleBinding(c), BroadcastJob(c)} \union workers
  <2>1. j.name = ResourceName(c)
    BY <1>4 DEF BroadcastJob, BroadcastJobOf, Owned
  <2>2. PodConfig(j) = PreviewConfig(c)
    BY <1>3, <2>1, ToldItsOwner DEF PreviewConfig
  <2> QED BY <1>4, <2>2 DEF Preview, WorkerJobOf
<1>7. ASSUME NEW o \in workers PROVE o \in objs' /\ o.for = c
  BY <1>2, <1>3, WorkerFacts
<1>8. ASSUME NEW o \in objs, o.for = c
      PROVE  o \in {ServiceAccountOf(c), ClusterRoleBinding(c), j}
  <2>1. o \in Makable
    BY DEF OwnersInv
  <2>2. CASE \E d \in Broadcasters : o \in {ServiceAccountOf(d), ClusterRoleBinding(d), BroadcastJobOf(d)}
    BY <1>4, <1>8, <2>2, BroadcasterObjects
  <2>3. CASE o \in BroadcastJobs
    BY <1>4, <1>8, <2>3, BroadcastJobFacts
  <2>4. ASSUME NEW b \in BroadcastJobs, NEW n \in Nodes, o = WorkerJobOf(b, n) PROVE FALSE
    <3> DEFINE w == WorkerJobOf(b, n)
    <3>1. w.for = b.for /\ w.owner = Key(b) /\ w.kind = "Job" /\ w.account = None
      BY WorkerFacts
    <3> HIDE DEF w
    <3>2. o = w
      BY <2>4 DEF w
    <3>3. b = j
      BY <1>4, <1>8, <3>1, <3>2, BroadcastJobFacts
    <3> QED BY <3>1, <3>2, <3>3 DEF OwnersInv
  <2>5. ASSUME NEW d \in Resources \ Broadcasters, NEW n \in Nodes, o = CronJobOf(d, n)
        PROVE  FALSE
    BY <1>4, <1>8, <2>5, SetCronJobFacts
  <2> QED BY <2>1, <2>2, <2>3, <2>4, <2>5 DEF Makable
<1>9. \A o \in {ServiceAccountOf(c), ClusterRoleBinding(c), j} : o \in objs /\ o.for = c
  BY <1>4, <1>5, BroadcasterObjects
<1>10. /\ Shown(ServiceAccountOf(c)) = ServiceAccount(c)
       /\ Shown(ClusterRoleBinding(c)) = ClusterRoleBinding(c)
       /\ Shown(j) = BroadcastJob(c)
       /\ \A o \in workers : Shown(o) = o
  <2>1. /\ ServiceAccount(c) = [ServiceAccountOf(c) EXCEPT !.owner = None]
        /\ ServiceAccountOf(c).owner = Self(c) /\ ServiceAccountOf(c).for = c
    <3>1. ServiceAccountOf(c) =
             [kind |-> "ServiceAccount", ns |-> c.ns, name |-> ResourceName(c),
              labels |-> BroadcastLabels(c), owner |-> Self(c),
              account |-> Account(c), where |-> {}, for |-> c]
      BY DEF ServiceAccount, ServiceAccountOf, Owned
    <3> QED BY <3>1 DEF ServiceAccount
  <2>2. /\ BroadcastJob(c) = [BroadcastJobOf(c) EXCEPT !.owner = None]
        /\ BroadcastJobOf(c).owner = Self(c) /\ BroadcastJobOf(c).for = c
    <3>1. BroadcastJobOf(c) =
             [kind |-> "Job", ns |-> c.ns, name |-> ResourceName(c),
              labels |-> BroadcastLabels(c), owner |-> Self(c),
              account |-> Account(c), where |-> {}, for |-> c]
      BY DEF BroadcastJob, BroadcastJobOf, Owned
    <3>2. BroadcastJob(c) =
             [kind |-> "Job", ns |-> c.ns, name |-> ResourceName(c),
              labels |-> BroadcastLabels(c), owner |-> None,
              account |-> Account(c), where |-> {}, for |-> c]
      BY DEF BroadcastJob
    <3> QED BY <3>1, <3>2
  <2>3. ClusterRoleBinding(c).owner = None /\ ClusterRoleBinding(c).for = c
    BY DEF ClusterRoleBinding
  <2>4. Shown(ClusterRoleBinding(c)) = ClusterRoleBinding(c)
    <3>1. \A l, n, a :
             LET r == [kind |-> "ClusterRoleBinding", ns |-> <<>>, name |-> n, labels |-> l,
                       owner |-> None, account |-> a, where |-> {}, for |-> c]
             IN  [r EXCEPT !.owner = None] = r
      OBVIOUS
    <3>2. [ClusterRoleBinding(c) EXCEPT !.owner = None] = ClusterRoleBinding(c)
      BY <3>1 DEF ClusterRoleBinding
    <3> QED BY <3>2 DEF Shown
  <2>5. ASSUME NEW o \in workers PROVE Shown(o) = o
    <3>0. PICK n \in nodes : o = WorkerJobOf(j, n)
      BY <2>5
    <3>1. o.owner = Key(j) /\ o.for = c
      <4>1. WorkerJobOf(j, n).owner = Key(j) /\ WorkerJobOf(j, n).for = c
        BY <1>3, WorkerFacts
      <4> QED BY <3>0, <4>1
    <3>2. Key(j) # Self(c)
      BY <1>3, <1>4, BroadcastJobFacts, BroadcasterObjects DEF Key, Self
    <3> QED BY <3>1, <3>2 DEF Shown
  <2> QED BY <1>4, <2>1, <2>2, <2>4, <2>5 DEF Shown
<1> DEFINE made == {o \in objs' : o.for = c}
<1>11. made = {ServiceAccountOf(c), ClusterRoleBinding(c), j} \union workers
  <2> HIDE DEF c, workers
  <2> QED BY <1>2, <1>7, <1>8, <1>9
<1>12. {Shown(o) : o \in made} = Preview(c, nodes)
  <2> HIDE DEF c, workers, made
  <2> QED BY <1>6, <1>10, <1>11
<1> QED BY <1>12

\* What "daemonjobctl generate" shows of a DaemonJob is what exists for it once its
\* broadcast has succeeded, but for the owner references, in any company and under
\* any names.
THEOREM PreviewIsTrueHolds == Spec => PreviewIsTrue
<1>1. OwnersInv /\ [Next]_vars =>
        [\A j \in objs : Key(j) \in ran' \ ran /\ Succeeds(j) /\ j.for.kind = "DaemonJob"
            => {Shown(o) : o \in {p \in objs' : p.for = j.for}} = Preview(j.for, nodes)]_vars
  BY PreviewStep
<1> QED BY <1>1, OwnersInvariant, PTL DEF Spec, PreviewIsTrue
-----------------------------------------------------------------------------
(* Sets and affinities *)

\* A reconciled set has the CronJob of every node.
LEMMA SetServedStep ==
    ASSUME CronJobsApart, OwnersInv, NEW c \in Resources, ReconcileSet(c), NEW n \in nodes'
    PROVE  CronJobOf(c, n) \in objs'
<1> DEFINE kept == objs \ Orphans(c)
           want == {CronJobOf(c, m) : m \in nodes}
           owned == {o \in want : AlreadyOwned(o, kept)}
<1>1. c \in Resources \ Broadcasters /\ nodes' = nodes /\ nodes \subseteq Nodes
  BY DEF ReconcileSet, Broadcasters, OwnersInv, TypeOK
<1>2. ASSUME NEW m \in nodes, NEW p \in kept, Key(p) = Key(CronJobOf(c, m))
      PROVE  p = CronJobOf(c, m)
  <2>1. p \in Makable
    BY DEF OwnersInv
  <2>2. p.kind = "CronJob" /\ p.ns = c.ns /\ p.name = CronJobName(c, m)
    BY <1>2, SetCronJobFacts DEF Key
  <2>3. p.account = None
    <3>1. SUFFICES ASSUME p.account # None PROVE FALSE
      OBVIOUS
    <3>2. p.for \in Resources /\ p.for.kind = "DaemonCronJob" /\ p = BroadcastJobOf(p.for)
      BY <2>1, <2>2, <3>1, CronJobsThatBroadcast
    <3>3. PICK d \in Resources : d.kind = "DaemonCronJob" /\ p = BroadcastJobOf(d)
      BY <3>2
    <3>4. p.name = Append(d.name, Suffix[d.kind])
      BY <3>3 DEF BroadcastJob, BroadcastJobOf, ResourceName, Owned
    <3>5. PICK x \in Segments, y \in Segments : x = Suffix[d.kind] /\ y = Suffix[c.kind]
      BY NamesMade
    <3>6. PICK s \in Seq(Segments), t \in Seq(Segments) : s = d.name /\ t = c.name \o m
      BY <1>1, NamesMade DEF Names
    <3>7. Append(s, x) = Append(t, y) => s = t /\ x = y
      BY LastSegment
    <3>8. Append(s, x) = Append(t, y)
      BY <2>2, <3>4, <3>5, <3>6 DEF CronJobName
    <3>9. d.kind = c.kind
      BY <3>5, <3>7, <3>8, NamesMade, SuffixFacts
    <3> QED BY <1>1, <3>3, <3>9 DEF Broadcasters
  <2>4. PICK d \in Resources \ Broadcasters, l \in Nodes : p = CronJobOf(d, l)
    <3>1. ASSUME NEW b \in Broadcasters
          PROVE  p \notin {ServiceAccountOf(b), ClusterRoleBinding(b), BroadcastJobOf(b)}
      BY <2>3, BroadcasterObjects
    <3>2. p \notin BroadcastJobs
      BY <2>2, BroadcastJobFacts
    <3>3. ASSUME NEW j \in BroadcastJobs, NEW l \in Nodes PROVE p # WorkerJobOf(j, l)
      <4>1. WorkerJobOf(j, l).kind = "Job"
        BY WorkerFacts
      <4> QED BY <2>2, <4>1
    <3>4. \E d \in Resources \ Broadcasters, l \in Nodes : p = CronJobOf(d, l)
      BY <2>1, <3>1, <3>2, <3>3 DEF Makable
    <3> QED BY <3>4
  <2>5. d.ns = c.ns /\ CronJobName(d, l) = CronJobName(c, m)
    BY <2>2, <2>4 DEF CronJobForNode, CronJobOf, Owned
  <2>6. d = c
    BY <1>1, <2>4, <2>5 DEF CronJobsApart
  <2>7. l = m
    BY <1>1, <1>2, <2>4, <2>6, NodesTellCronJobsApart
  <2> QED BY <2>4, <2>6, <2>7
<1>3. owned = {}
  BY <1>2 DEF AlreadyOwned
<1>4. objs' = kept \union Missing(want, kept)
  BY <1>3 DEF ReconcileSet
<1>5. CronJobOf(c, n) \in want
  BY <1>1
<1> QED BY <1>1, <1>2, <1>4, <1>5 DEF Missing, Taken

\* Where the CronJobs of no two sets get the same name, every node has its CronJob
\* once the set is reconciled.
THEOREM SetsServedUnlessJoined ==
    ASSUME CronJobsApart
    PROVE  Spec => SetsServed
<1>1. OwnersInv /\ [Next]_vars =>
        [\A c \in Resources : ReconcileSet(c) => SetServed(c)']_vars
  BY SetServedStep DEF SetServed
<1> QED BY <1>1, OwnersInvariant, PTL DEF Spec, SetsServed

\* Where no pod template has a node affinity, every worker's pods run on the node
\* that its label names.
THEOREM BoundToItsNodeWithoutAffinity ==
    ASSUME NoAffinities
    PROVE  Spec => []BoundToItsNode
<1>1. OwnersInv => BoundToItsNode
  <2> SUFFICES ASSUME OwnersInv, NEW o \in objs, Has(o, "role", <<"worker">>)
               PROVE  o.where = {o.labels["node"]}
    BY DEF BoundToItsNode
  <2>1. o \in Makable /\ o.labels["role"] = <<"worker">>
    BY DEF OwnersInv, Has
  <2>2. o.account = None
    <3>1. <<"worker">> # <<"broadcast">>
      OBVIOUS
    <3> QED BY <2>1, <3>1, MakableFacts
  <2>3. ASSUME NEW j \in BroadcastJobs, NEW n \in Nodes, o = WorkerJobOf(j, n)
        PROVE  o.where = {o.labels["node"]}
    <3>1. j.for.affinity = {}
      BY BroadcastJobFacts DEF Broadcasters, NoAffinities
    <3>2. o.where = j.for.affinity \union {n} /\ o.labels["node"] = n
      BY <2>3, WorkerFacts
    <3> QED BY <3>1, <3>2
  <2>4. ASSUME NEW c \in Resources \ Broadcasters, NEW n \in Nodes, o = CronJobOf(c, n)
        PROVE  o.where = {o.labels["node"]}
    BY <2>4, SetCronJobFacts
  <2>5. ~ \E c \in Broadcasters : o \in {ServiceAccountOf(c), ClusterRoleBinding(c), BroadcastJobOf(c)}
    BY <2>2, BroadcasterObjects
  <2>6. o \notin BroadcastJobs
    BY <2>2, BroadcastJobFacts, NoneAssumption DEF Broadcasters
  <2> QED BY <2>1, <2>3, <2>4, <2>5, <2>6 DEF Makable
<1> QED BY <1>1, OwnersInvariant, PTL
=============================================================================
