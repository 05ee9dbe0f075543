--------------------------- MODULE BroadcastProofs ---------------------------
(***************************************************************************)
(* NoOverwrite for any number of runs, nodes and names of worker Jobs, and *)
(* that a run makes no more than a bounded number of calls.                *)
(***************************************************************************)
EXTENDS Broadcast, FiniteSetTheorems, TLAPS

\* Writing the place of a run, or the nodes it still has to do, keeps a run a run.
LEMMA RunTypes ==
    ASSUME bc \in [Jobs -> Runs], NEW j \in Jobs,
           NEW pc \in {"complete", "failed"} \union Active, NEW todo \in SUBSET Nodes
    PROVE  /\ [bc EXCEPT ![j].pc = pc] \in [Jobs -> Runs]
           /\ [bc EXCEPT ![j].pc = pc, ![j].todo = todo] \in [Jobs -> Runs]
BY DEF Runs, Active

\* Every step of a run keeps the types, whatever the names of its worker Jobs are.
LEMMA StepTypes ==
    ASSUME TypeOK, NEW j \in Jobs, Step(j) \/ Crash(j)
    PROVE  /\ work' \in [Keys -> Workers \union {None}]
           /\ bc' \in [Jobs -> Runs]
<1>1. CASE ReadOwner(j) \/ DryRun(j) \/ Refused(j) \/ Crash(j)
  <2>1. PICK pc \in {"complete", "failed"} \union Active :
           bc' = [bc EXCEPT ![j].pc = pc] /\ work' = work
    BY <1>1 DEF ReadOwner, DryRun, Refused, Crash, Goto, Active
  <2>2. bc' \in [Jobs -> Runs]
    BY <2>1, RunTypes DEF TypeOK
  <2> QED BY <2>1, <2>2 DEF TypeOK
<1>2. CASE ListNodes(j)
  BY <1>2, RunTypes DEF TypeOK, ListNodes, Active
<1>3. ASSUME NEW n \in Nodes, CreateWorker(j, n)
      PROVE  work' \in [Keys -> Workers \union {None}] /\ bc' \in [Jobs -> Runs]
  <2>1. bc[j].todo \ {n} \in SUBSET Nodes
    BY DEF TypeOK, Runs
  <2>2. bc' \in [Jobs -> Runs]
    BY <1>3, <2>1, RunTypes DEF TypeOK, CreateWorker, Active
  <2>3. [job |-> j, st |-> "progressing"] \in Workers
    BY DEF Workers, JobStatusTypes
  <2>4. work' \in [Keys -> Workers \union {None}]
    BY <1>3, <2>3 DEF TypeOK, CreateWorker
  <2> QED BY <2>2, <2>4
<1> QED BY <1>1, <1>2, <1>3 DEF Step

\* A worker Job ends or goes.
LEMMA WorkerTypes ==
    ASSUME TypeOK, NEW k \in Keys, WorkerEnds(k) \/ WorkerGone(k)
    PROVE  work' \in [Keys -> Workers \union {None}]
BY DEF TypeOK, WorkerEnds, WorkerGone, Workers, JobStatusTypes

\* Every step keeps the types.
LEMMA TypeStep == TypeOK /\ [Next]_vars => TypeOK'
<1> SUFFICES ASSUME TypeOK, [Next]_vars PROVE TypeOK'
    OBVIOUS
<1>1. ASSUME NEW j \in Jobs, Start(j) PROVE TypeOK'
  BY <1>1, RunTypes DEF TypeOK, Start, Goto, Active
<1>2. ASSUME NEW j \in Jobs, Step(j) \/ Crash(j), UNCHANGED <<owner, crb, nodes>> PROVE TypeOK'
  BY <1>2, StepTypes DEF TypeOK
<1>3. CASE ClusterChanges
  BY <1>3 DEF TypeOK, ClusterChanges
<1>4. ASSUME NEW k \in Keys, WorkerEnds(k) \/ WorkerGone(k), UNCHANGED <<owner, crb, nodes, bc>>
      PROVE  TypeOK'
  BY <1>4, WorkerTypes DEF TypeOK
<1>5. CASE UNCHANGED vars
  BY <1>5 DEF vars, TypeOK
<1> QED BY <1>1, <1>2, <1>3, <1>4, <1>5 DEF Next

\* The runs and the worker Jobs are well typed in every state.
THEOREM TypeCorrect == Spec => []TypeOK
<1>1. Init => TypeOK
  BY DEF Init, TypeOK, Unused, Runs
<1> QED BY <1>1, TypeStep, PTL DEF Spec
-----------------------------------------------------------------------------
\* The worker Job k, if it is there before and after a step, is the same run's.
Kept(k) == work[k] # None /\ work'[k] # None => work'[k].job = work[k].job

\* A create needs a free name.
LEMMA CreateKeeps ==
    ASSUME TypeOK, NEW j \in Jobs, NEW n \in Nodes, CreateWorker(j, n), NEW k \in Keys
    PROVE  Kept(k)
<1>1. CASE k = WorkerKey[j][n]
  BY <1>1 DEF CreateWorker, Taken, Kept
<1>2. CASE k # WorkerKey[j][n]
  BY <1>2 DEF TypeOK, CreateWorker, Kept
<1> QED BY <1>1, <1>2

\* The end of a worker Job leaves its owner alone.
LEMMA EndKeeps ==
    ASSUME TypeOK, NEW i \in Keys, WorkerEnds(i) \/ WorkerGone(i), NEW k \in Keys
    PROVE  Kept(k)
<1>1. CASE WorkerEnds(i)
  <2>1. work[i] \in Workers
    BY <1>1 DEF TypeOK, WorkerEnds
  <2> QED BY <1>1, <2>1 DEF TypeOK, WorkerEnds, Workers, Kept
<1>2. CASE WorkerGone(i)
  BY <1>2 DEF TypeOK, WorkerGone, Kept
<1> QED BY <1>1, <1>2

\* However many broadcast runs overlap and whatever names their worker Jobs have in
\* common, none takes over or replaces a worker Job of another.
THEOREM NothingOverwritten == Spec => NoOverwrite
<1>1. ASSUME TypeOK, [Next]_vars, NEW k \in Keys PROVE Kept(k)
  <2>1. CASE work' = work
    BY <2>1 DEF Kept
  <2>2. ASSUME NEW j \in Jobs, Step(j) \/ Crash(j) PROVE Kept(k)
    BY <1>1, <2>1, <2>2, CreateKeeps DEF Step, Crash, ReadOwner, ListNodes, DryRun, Refused
  <2>3. ASSUME NEW i \in Keys, WorkerEnds(i) \/ WorkerGone(i) PROVE Kept(k)
    BY <1>1, <2>3, EndKeeps
  <2> QED BY <1>1, <2>1, <2>2, <2>3 DEF Next, Start, ClusterChanges, vars
<1>2. TypeOK /\ [Next]_vars
        => [\A k \in Keys : work[k] # None /\ work'[k] # None
                            => work'[k].job = work[k].job]_vars
  BY <1>1 DEF Kept
<1> QED BY <1>2, TypeCorrect, PTL DEF Spec, NoOverwrite
-----------------------------------------------------------------------------
(* How long a run takes *)

\* The list of a run between its dry run and its last create holds a node.
HasWork == \A j \in Jobs : bc[j].pc \in {"dryrun", "create"} => bc[j].todo # {}

\* The list of nodes is checked before it is worked off, and the last create ends
\* the run.
LEMMA HasWorkStep == TypeOK /\ HasWork /\ [Next]_vars => HasWork'
<1> SUFFICES ASSUME TypeOK, HasWork, [Next]_vars, NEW i \in Jobs,
                    bc'[i].pc \in {"dryrun", "create"}
             PROVE  bc'[i].todo # {}
    BY DEF HasWork
<1>1. CASE bc'[i] = bc[i]
  BY <1>1 DEF HasWork
<1>2. ASSUME NEW j \in Jobs, Start(j) \/ ReadOwner(j) \/ Refused(j) \/ Crash(j), bc'[i] # bc[i]
      PROVE  FALSE
  BY <1>2 DEF Start, ReadOwner, Refused, Crash, Goto, TypeOK, Runs
<1>3. ASSUME NEW j \in Jobs, ListNodes(j) PROVE bc'[i].todo # {}
  BY <1>1, <1>3 DEF ListNodes, TypeOK, Runs
<1>4. ASSUME NEW j \in Jobs, DryRun(j) PROVE bc'[i].todo # {}
  BY <1>1, <1>4 DEF DryRun, Goto, TypeOK, Runs, HasWork
<1>5. ASSUME NEW j \in Jobs, NEW n \in Nodes, CreateWorker(j, n) PROVE bc'[i].todo # {}
  BY <1>1, <1>5 DEF CreateWorker, TypeOK, Runs
<1> QED BY <1>1, <1>2, <1>3, <1>4, <1>5 DEF Next, Step, ClusterChanges, vars

\* So the calls left, counted below, are none only for a run that has ended.
LEMMA RunsHaveWork == Spec => []HasWork
<1>1. Init => HasWork
  BY DEF Init, HasWork, Unused
<1> QED BY <1>1, HasWorkStep, TypeCorrect, PTL DEF Spec

\* The calls that a run has yet to make, if none is refused: it reads the owner,
\* lists the nodes, dry-runs and creates a worker Job per node.
CallsLeft(j) ==
    CASE bc[j].pc = "read"   -> Cardinality(Nodes) + 3
      [] bc[j].pc = "list"   -> Cardinality(Nodes) + 2
      [] bc[j].pc = "dryrun" -> Cardinality(bc[j].todo) + 1
      [] bc[j].pc = "create" -> Cardinality(bc[j].todo)
      [] OTHER               -> 0

\* The list of a run is finite and no longer than there are nodes.
LEMMA ListSize ==
    ASSUME IsFiniteSet(Nodes), NEW todo \in SUBSET Nodes
    PROVE  /\ Cardinality(todo) \in Nat /\ Cardinality(Nodes) \in Nat
           /\ Cardinality(todo) <= Cardinality(Nodes)
           /\ todo # {} => Cardinality(todo) > 0
           /\ \A n \in todo : Cardinality(todo \ {n}) = Cardinality(todo) - 1
<1>1. IsFiniteSet(todo) /\ Cardinality(todo) <= Cardinality(Nodes)
  BY FS_Subset
<1>2. Cardinality(todo) \in Nat /\ Cardinality(Nodes) \in Nat
  BY <1>1, FS_CardinalityType
<1>3. todo # {} => Cardinality(todo) > 0
  BY <1>1, <1>2, FS_EmptySet
<1>4. \A n \in todo : Cardinality(todo \ {n}) = Cardinality(todo) - 1
  BY <1>1, FS_RemoveElement
<1> QED BY <1>1, <1>2, <1>3, <1>4

\* The calls left are a number, no larger than at the start of a run, and 0 for the
\* runs that have ended and no others.
CallsCount ==
    \A j \in Jobs : /\ CallsLeft(j) \in 0 .. Cardinality(Nodes) + 3
                    /\ bc[j].pc \in Active <=> CallsLeft(j) > 0

\* A run has a bounded number of calls before it, and none when it has ended.
LEMMA CallsCounted ==
    ASSUME IsFiniteSet(Nodes), TypeOK, HasWork PROVE CallsCount
<1> SUFFICES ASSUME NEW j \in Jobs
             PROVE  /\ CallsLeft(j) \in 0 .. Cardinality(Nodes) + 3
                    /\ bc[j].pc \in Active <=> CallsLeft(j) > 0
    BY DEF CallsCount
<1>1. bc[j].todo \in SUBSET Nodes /\ Cardinality(Nodes) \in Nat
  BY ListSize DEF TypeOK, Runs
<1>2. CASE bc[j].pc \in {"dryrun", "create"}
  BY <1>1, <1>2, ListSize DEF CallsLeft, HasWork, Active
<1>3. CASE bc[j].pc \notin {"dryrun", "create"}
  BY <1>1, <1>3 DEF CallsLeft, Active
<1> QED BY <1>2, <1>3

\* Every step of a run leaves it fewer calls.
LEMMA CallsStep ==
    ASSUME IsFiniteSet(Nodes), TypeOK, HasWork, NEW j \in Jobs, Step(j) \/ Crash(j)
    PROVE  CallsLeft(j)' < CallsLeft(j)
<1>0. /\ bc[j].todo \in SUBSET Nodes /\ nodes \in SUBSET Nodes /\ j \in DOMAIN bc
      /\ bc[j] = [pc |-> bc[j].pc, todo |-> bc[j].todo]
  BY DEF TypeOK, Runs
<1>1. ASSUME bc'[j].pc \in {"complete", "failed"} PROVE CallsLeft(j)' = 0
  BY <1>1 DEF CallsLeft
<1>2. CASE ReadOwner(j)
  <2>1. bc[j].pc = "read" /\ bc'[j].pc = "list"
    BY <1>0, <1>2 DEF ReadOwner, Goto
  <2> QED BY <2>1, ListSize DEF CallsLeft
<1>3. CASE ListNodes(j)
  <2>1. /\ bc[j].pc = "list" /\ CallsLeft(j) = Cardinality(Nodes) + 2
    BY <1>3 DEF ListNodes, CallsLeft
  <2>2. bc'[j].pc = "complete" \/ (bc'[j].pc = "dryrun" /\ bc'[j].todo = nodes)
    BY <1>0, <1>3 DEF ListNodes
  <2>3. bc'[j].pc = "dryrun" /\ bc'[j].todo = nodes
          => CallsLeft(j)' = Cardinality(nodes) + 1
    BY DEF CallsLeft
  <2> QED BY <1>0, <1>1, <2>1, <2>2, <2>3, ListSize
<1>4. CASE DryRun(j)
  <2>1. bc[j].pc = "dryrun" /\ bc'[j].pc = "create" /\ bc'[j].todo = bc[j].todo
    BY <1>0, <1>4 DEF DryRun, Goto
  <2>2. CallsLeft(j) = Cardinality(bc[j].todo) + 1 /\ CallsLeft(j)' = Cardinality(bc[j].todo)
    BY <2>1 DEF CallsLeft
  <2> QED BY <1>0, <2>2, ListSize
<1>5. ASSUME NEW n \in Nodes, CreateWorker(j, n) PROVE CallsLeft(j)' < CallsLeft(j)
  <2>1. /\ bc[j].pc = "create" /\ n \in bc[j].todo /\ bc'[j].todo = bc[j].todo \ {n}
        /\ bc'[j].pc \in {"complete", "create"}
    BY <1>0, <1>5 DEF CreateWorker
  <2>2. CallsLeft(j) = Cardinality(bc[j].todo)
    BY <2>1 DEF CallsLeft
  <2>3. bc'[j].pc = "create" => CallsLeft(j)' = Cardinality(bc[j].todo \ {n})
    BY <2>1 DEF CallsLeft
  <2> QED BY <1>0, <1>1, <2>1, <2>2, <2>3, ListSize
<1>6. CASE Refused(j) \/ Crash(j)
  <2>1. bc[j].pc \in Active /\ bc'[j].pc = "failed"
    BY <1>0, <1>6 DEF Refused, Crash, Goto
  <2>2. CallsLeft(j) > 0
    BY <2>1, CallsCounted DEF CallsCount
  <2> QED BY <1>1, <2>1, <2>2
<1> QED BY <1>2, <1>3, <1>4, <1>5, <1>6 DEF Step

\* A run that has calls left has not ended, and one that has none left has: the list
\* of nodes it works off is not empty.
THEOREM RunsBounded == ASSUME IsFiniteSet(Nodes) PROVE Spec => []CallsCount
BY CallsCounted, RunsHaveWork, TypeCorrect, PTL

\* Whatever the cluster does, a run ends after three calls and one per node at most,
\* its dry runs taken as one: only its own steps change it, and each leaves it fewer.
THEOREM RunsShorten ==
    ASSUME IsFiniteSet(Nodes)
    PROVE  Spec => [][\A j \in Jobs : bc[j].pc # "unused" /\ bc'[j] # bc[j]
                                          => CallsLeft(j)' < CallsLeft(j)]_vars
<1>1. TypeOK /\ HasWork /\ [Next]_vars
        => [\A j \in Jobs : bc[j].pc # "unused" /\ bc'[j] # bc[j]
                               => CallsLeft(j)' < CallsLeft(j)]_vars
  <2> SUFFICES ASSUME TypeOK, HasWork, [Next]_vars, NEW j \in Jobs,
                      bc[j].pc # "unused", bc'[j] # bc[j]
               PROVE  Step(j) \/ Crash(j)
      BY CallsStep
  <2>1. ASSUME NEW i \in Jobs, Step(i) \/ Crash(i) PROVE Step(j) \/ Crash(j)
    <3>1. \A k \in Jobs \ {i} : bc'[k] = bc[k]
      BY <2>1 DEF TypeOK, Step, Crash, ReadOwner, ListNodes, DryRun, Refused, CreateWorker, Goto
    <3> QED BY <2>1, <3>1
  <2>2. ASSUME NEW i \in Jobs, Start(i) PROVE FALSE
    BY <2>2 DEF Start, Goto, TypeOK
  <2> QED BY <2>1, <2>2 DEF Next, ClusterChanges, vars
<1> QED BY <1>1, RunsHaveWork, TypeCorrect, PTL DEF Spec
=============================================================================
