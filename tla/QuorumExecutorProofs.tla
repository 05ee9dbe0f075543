------------------------ MODULE QuorumExecutorProofs ------------------------
(***************************************************************************)
(* NoEarlyReturn, AcksAreInside and NoLostWakeup for any number of ackers  *)
(* and executors and any quorum, and that Rounds is implemented.           *)
(***************************************************************************)
EXTENDS QuorumExecutor, FiniteSetTheorems, TLAPS

\* Broadcast moves no goroutine other than the caller into or out of its call.
LEMMA BroadcastKeepsPlace ==
    ASSUME TypeOK, NEW p \in Procs, NEW l \in PCs, BroadcastAndBe(p, l)
    PROVE  /\ pc' \in [Procs -> PCs]
           /\ pc'[p] = l
           /\ \A q \in Procs \ {p} : /\ Inside(q)' <=> Inside(q)
                                     /\ pc'[q] = "outside" <=> pc[q] = "outside"
                                     /\ pc'[q] = "returned" <=> pc[q] = "returned"
BY DEF TypeOK, BroadcastAndBe, Inside, PCs

\* The count, the places of the goroutines and the history keep their types.
LEMMA TypeStep == TypeOK /\ [Next]_vars => TypeOK'
<1> SUFFICES ASSUME TypeOK, [Next]_vars PROVE TypeOK'
    OBVIOUS
<1>1. ASSUME NEW p \in Ackers, Ack(p) PROVE TypeOK'
  <2>1. pc' \in [Procs -> PCs]
    BY <1>1, BroadcastKeepsPlace DEF Ack, Procs, PCs
  <2> QED BY <1>1, <2>1 DEF Ack, TypeOK
<1>2. ASSUME NEW p \in Ackers, RecheckAck(p) PROVE TypeOK'
  BY <1>2 DEF RecheckAck, TypeOK, PCs, Procs
<1>3. ASSUME NEW e \in Executors, WaitForQuorum(e) PROVE TypeOK'
  BY <1>3 DEF WaitForQuorum, TypeOK, PCs, Procs
<1>4. ASSUME NEW e \in Executors, Execute(e) PROVE TypeOK'
  <2>1. pc' \in [Procs -> PCs]
    BY <1>4, BroadcastKeepsPlace DEF Execute, Procs, PCs
  <2> QED BY <1>4, <2>1 DEF Execute, TypeOK
<1>5. CASE UNCHANGED vars
  BY <1>5 DEF vars, TypeOK
<1> QED BY <1>1, <1>2, <1>3, <1>4, <1>5 DEF Next, AckerStep, ExecutorStep

\* Initially nobody is inside.
LEMMA RoundInit == Init => RoundInv
BY DEF Init, RoundInv, TypeOK, NoEarlyReturn, Inside, PCs, Procs

\* The inductive step: only Execute resets ack, and it starts the next round.
LEMMA RoundStep == RoundInv /\ [Next]_vars => RoundInv'
<1> SUFFICES ASSUME RoundInv, [Next]_vars PROVE RoundInv'
    OBVIOUS
<1> USE QuorumAssumption
<1>0. TypeOK /\ TypeOK'
  BY TypeStep DEF RoundInv
<1>1. ASSUME NEW p \in Ackers, Ack(p) PROVE RoundInv'
  <2>1. /\ pc'[p] = "waiting"
        /\ \A q \in Ackers \ {p} : /\ Inside(q)' <=> Inside(q)
                                   /\ pc'[q] = "outside" <=> pc[q] = "outside"
                                   /\ pc'[q] = "returned" <=> pc[q] = "returned"
    BY <1>0, <1>1, BroadcastKeepsPlace DEF Ack, Procs, PCs
  <2>2. /\ acked'[p] = runs /\ \A q \in Ackers \ {p} : acked'[q] = acked[q]
        /\ runs' = runs /\ ack' = ack + 1 /\ ack' > 0
    BY <1>0, <1>1 DEF Ack, TypeOK
  <2> QED BY <1>0, <2>1, <2>2 DEF RoundInv, NoEarlyReturn, TypeOK
<1>2. ASSUME NEW p \in Ackers, RecheckAck(p) PROVE RoundInv'
  <2>1. CASE ack > 0
    BY <1>0, <1>2, <2>1 DEF RecheckAck, RoundInv, NoEarlyReturn, Inside, TypeOK, Procs
  <2>2. CASE ~(ack > 0)
    <3>1. acked[p] < runs
      BY <1>0, <1>2, <2>2 DEF RecheckAck, RoundInv, Inside, TypeOK
    <3> QED BY <1>0, <1>2, <2>2, <3>1
        DEF RecheckAck, RoundInv, NoEarlyReturn, Inside, TypeOK, Procs
  <2> QED BY <2>1, <2>2
<1>3. ASSUME NEW e \in Executors, WaitForQuorum(e) PROVE RoundInv'
  BY <1>0, <1>3 DEF WaitForQuorum, RoundInv, NoEarlyReturn, Inside, TypeOK, Procs
<1>4. ASSUME NEW e \in Executors, Execute(e) PROVE RoundInv'
  <2>1. \A q \in Ackers : /\ Inside(q)' <=> Inside(q)
                          /\ pc'[q] = "outside" <=> pc[q] = "outside"
                          /\ pc'[q] = "returned" <=> pc[q] = "returned"
    BY <1>0, <1>4, BroadcastKeepsPlace DEF Execute, Procs, PCs
  <2>2. runs' = runs + 1 /\ acked' = acked
    BY <1>4 DEF Execute
  <2>3. ASSUME NEW q \in Ackers, pc[q] # "outside" PROVE acked'[q] < runs'
    BY <1>0, <2>2, <2>3 DEF RoundInv, TypeOK
  <2>4. \A q \in Ackers : Inside(q) \/ pc[q] = "returned" => pc[q] # "outside"
    BY DEF Inside
  <2>5. NoEarlyReturn'
    BY <2>1, <2>3, <2>4 DEF NoEarlyReturn
  <2>6. \A q \in Ackers : pc'[q] # "outside" => acked'[q] <= runs'
    BY <1>0, <2>1, <2>3 DEF TypeOK
  <2>7. \A q \in Ackers : Inside(q)' /\ acked'[q] = runs' => ack' > 0
    BY <1>0, <2>1, <2>3, <2>4 DEF TypeOK
  <2> QED BY <1>0, <2>5, <2>6, <2>7 DEF RoundInv
<1>5. CASE UNCHANGED vars
  BY <1>0, <1>5 DEF vars, RoundInv, NoEarlyReturn, Inside
<1> QED BY <1>1, <1>2, <1>3, <1>4, <1>5 DEF Next, AckerStep, ExecutorStep

\* TypeOK holds in every state of every behaviour.
THEOREM TypeCorrect == Spec => []TypeOK
<1>1. Init => TypeOK
  BY RoundInit DEF RoundInv
<1> QED BY <1>1, TypeStep, PTL DEF Spec

\* The inductive invariant holds in every state.
THEOREM RoundInvariant == Spec => []RoundInv
BY RoundInit, RoundStep, PTL DEF Spec

\* However many ackers and executors overlap, AckAndWait returns only after an
\* execution of f later than its own acknowledgement.
THEOREM NoAckerReturnsEarly == Spec => []NoEarlyReturn
<1>1. RoundInv => NoEarlyReturn
  BY DEF RoundInv
<1> QED BY <1>1, RoundInvariant, PTL
-----------------------------------------------------------------------------
(* Every acknowledgement is that of an acker inside *)

\* The ackers of the current round that are still inside.
Waiting == {p \in Ackers : Inside(p) /\ acked[p] = runs}

\* However many ackers there are, finitely many of them are inside at a time.
AcksInv == IsFiniteSet(Waiting) /\ ack <= Cardinality(Waiting)

\* An acknowledgement brings its acker in.
LEMMA AckCounts ==
    ASSUME RoundInv, AcksInv, NEW p \in Ackers, Ack(p)
    PROVE  AcksInv'
<1>1. Waiting' = Waiting \union {p} /\ p \notin Waiting
  <2>1. /\ pc[p] = "outside" /\ pc'[p] = "waiting"
        /\ \A q \in Ackers \ {p} : Inside(q)' <=> Inside(q)
    BY BroadcastKeepsPlace DEF RoundInv, Ack, Procs, PCs
  <2>2. acked'[p] = runs /\ runs' = runs /\ \A q \in Ackers \ {p} : acked'[q] = acked[q]
    BY DEF RoundInv, TypeOK, Ack
  <2>3. p \notin Waiting
    BY <2>1 DEF Waiting, Inside
  <2>4. Inside(p)'
    BY <2>1 DEF Inside
  <2> QED BY <2>1, <2>2, <2>3, <2>4 DEF Waiting
<1>2. IsFiniteSet(Waiting') /\ Cardinality(Waiting') = Cardinality(Waiting) + 1
  BY <1>1, FS_AddElement DEF AcksInv
<1>3. Cardinality(Waiting) \in Nat /\ ack \in Nat /\ ack' = ack + 1
  BY FS_CardinalityType DEF AcksInv, RoundInv, TypeOK, Ack
<1> QED BY <1>2, <1>3 DEF AcksInv

\* An acker leaves only when the count is 0.
LEMMA RecheckCounts ==
    ASSUME RoundInv, AcksInv, NEW p \in Ackers, RecheckAck(p)
    PROVE  AcksInv'
<1>1. CASE ack > 0
  <2>1. Waiting' = Waiting /\ ack' = ack
    BY <1>1 DEF RoundInv, TypeOK, RecheckAck, Waiting, Inside, Procs
  <2> QED BY <2>1 DEF AcksInv
<1>2. CASE ~(ack > 0)
  <2>1. ack' = 0
    BY <1>2 DEF RoundInv, TypeOK, RecheckAck
  <2>2. Waiting' \subseteq Waiting
    BY DEF RoundInv, TypeOK, RecheckAck, Waiting, Inside, Procs
  <2>3. IsFiniteSet(Waiting')
    BY <2>2, FS_Subset DEF AcksInv
  <2>4. Cardinality(Waiting') \in Nat
    BY <2>3, FS_CardinalityType
  <2> QED BY <2>1, <2>3, <2>4 DEF AcksInv
<1> QED BY <1>1, <1>2

\* Executors are not counted; an execution begins a round that nobody is in.
LEMMA ExecutorCounts ==
    ASSUME RoundInv, AcksInv, NEW e \in Executors, ExecutorStep(e)
    PROVE  AcksInv'
<1> USE QuorumAssumption
<1>1. CASE WaitForQuorum(e)
  <2>1. Waiting' = Waiting /\ ack' = ack
    BY <1>1 DEF RoundInv, TypeOK, WaitForQuorum, Waiting, Inside, Procs
  <2> QED BY <2>1 DEF AcksInv
<1>2. CASE Execute(e)
  <2>1. \A q \in Ackers : Inside(q)' => pc[q] # "outside"
    BY <1>2, BroadcastKeepsPlace DEF RoundInv, Execute, Procs, PCs, Inside
  <2>2. runs \in Nat /\ runs' = runs + 1 /\ acked' = acked /\ ack' = 0
    BY <1>2 DEF RoundInv, TypeOK, Execute
  <2>3. \A q \in Ackers : Inside(q)' => acked[q] \in Nat /\ acked[q] <= runs
    BY <2>1 DEF RoundInv, TypeOK
  <2>4. Waiting' = {}
    BY <2>2, <2>3 DEF Waiting
  <2> QED BY <2>2, <2>4, FS_EmptySet DEF AcksInv
<1> QED BY <1>1, <1>2 DEF ExecutorStep

\* Initially nobody waits, and no step breaks the count.
LEMMA AcksInit == Init => AcksInv
<1>1. Init => Waiting = {} /\ ack = 0
  BY DEF Init, Waiting, Inside, Procs
<1> QED BY <1>1, FS_EmptySet DEF AcksInv

\* Every step keeps the count below the ackers that wait inside.
LEMMA AcksStep == RoundInv /\ AcksInv /\ [Next]_vars => AcksInv'
<1> SUFFICES ASSUME RoundInv, AcksInv, [Next]_vars PROVE AcksInv'
  OBVIOUS
<1>1. CASE UNCHANGED vars
  <2>1. Waiting' = Waiting /\ ack' = ack
    BY <1>1 DEF vars, Waiting, Inside
  <2> QED BY <2>1 DEF AcksInv
<1> QED BY <1>1, AckCounts, RecheckCounts, ExecutorCounts DEF Next, AckerStep

\* The count never exceeds the ackers of the round that are inside: what releases
\* an executor has been acknowledged by goroutines that still wait for it.
THEOREM AcksAreOfAckersInside == Spec => []AcksAreInside
<1>1. AcksInv => AcksAreInside
  BY DEF AcksInv, AcksAreInside, Waiting
<1> QED BY <1>1, AcksInit, AcksStep, RoundInvariant, PTL DEF Spec
-----------------------------------------------------------------------------
(* What a fair scheduler needs for QuorumExecutes *)

\* No step leaves an executor asleep while the count is a quorum.
LEMMA WakeupStep == TypeOK /\ NoLostWakeup /\ [Next]_vars => NoLostWakeup'
<1> SUFFICES ASSUME TypeOK, NoLostWakeup, [Next]_vars PROVE NoLostWakeup'
    OBVIOUS
<1> USE QuorumAssumption DEF Procs
<1>1. ASSUME NEW p \in Ackers, Ack(p) PROVE NoLostWakeup'
  <2>1. \A e \in Executors : e # p /\ pc'[e] # "waiting"
    BY <1>1 DEF Ack, BroadcastAndBe, TypeOK
  <2> QED BY <2>1 DEF NoLostWakeup
<1>2. ASSUME NEW p \in Ackers, RecheckAck(p) PROVE NoLostWakeup'
  BY <1>2 DEF RecheckAck, TypeOK, NoLostWakeup
<1>3. ASSUME NEW e \in Executors, WaitForQuorum(e) PROVE NoLostWakeup'
  BY <1>3 DEF WaitForQuorum, TypeOK, NoLostWakeup
<1>4. ASSUME NEW e \in Executors, Execute(e) PROVE NoLostWakeup'
  <2>1. \A x \in Executors : pc'[x] # "waiting"
    BY <1>4 DEF Execute, BroadcastAndBe, TypeOK
  <2> QED BY <2>1 DEF NoLostWakeup
<1>5. CASE UNCHANGED vars
  BY <1>5 DEF vars, NoLostWakeup
<1> QED BY <1>1, <1>2, <1>3, <1>4, <1>5 DEF Next, AckerStep, ExecutorStep

\* When there is a quorum, every executor inside its call is awake, however many
\* quorums, ackers and executors there are: the scheduler does the rest.
THEOREM NoWakeupLost == Spec => []NoLostWakeup
<1>1. Init => NoLostWakeup
  BY DEF Init, NoLostWakeup, Procs
<1>2. RoundInv => TypeOK
  BY DEF RoundInv
<1> QED BY <1>1, <1>2, WakeupStep, RoundInvariant, PTL DEF Spec
-----------------------------------------------------------------------------
(* The refinement *)

\* The ackers of earlier rounds that are still inside.
Released == {p \in Ackers : Inside(p) /\ acked[p] < runs}

\* The abstract steps, in terms of the concrete state.
LEMMA Acknowledges ==
    ASSUME NEW p \in Ackers, p \notin Waiting \union Released,
           Waiting' = Waiting \union {p}, Released' = Released, runs' = runs
    PROVE  Round!Next
<1>1. Round!Acknowledge(p)
  BY DEF Waiting, Released, Round!Acknowledge
<1> QED BY <1>1 DEF Round!Next

\* A released acker that returns leaves its round.
LEMMA Leaves ==
    ASSUME NEW p \in Ackers, p \in Released,
           Released' = Released \ {p}, Waiting' = Waiting, runs' = runs
    PROVE  Round!Next
<1>1. Round!Leave(p)
  BY DEF Waiting, Released, Round!Leave
<1> QED BY <1>1 DEF Round!Next

\* An executor that finds a quorum executes the round and releases its ackers.
LEMMA Executes ==
    ASSUME Cardinality(Waiting) >= maxAck, Waiting' = {},
           Released' = Released \union Waiting, runs' = runs + 1
    PROVE  Round!Next
<1>1. Round!Cardinality(Waiting) = Cardinality(Waiting)
  BY DEF Cardinality, Round!Cardinality
<1>2. Round!Execute
  BY <1>1 DEF Waiting, Released, Round!Execute
<1> QED BY <1>2 DEF Round!Next

\* A step that changes neither who waits, who is released nor how often it ran.
LEMMA Stutters ==
    ASSUME UNCHANGED <<Waiting, Released, runs>>
    PROVE  UNCHANGED Round!vars
BY DEF Waiting, Released, Round!vars

\* An acker that comes in acknowledges.
LEMMA AckMaps ==
    ASSUME RoundInv, NEW p \in Ackers, Ack(p)
    PROVE  [Round!Next]_(Round!vars)
<1>1. /\ pc[p] = "outside" /\ pc'[p] = "waiting"
      /\ \A q \in Ackers \ {p} : Inside(q)' <=> Inside(q)
  BY BroadcastKeepsPlace DEF RoundInv, Ack, Procs, PCs
<1>2. acked'[p] = runs /\ runs' = runs /\ \A q \in Ackers \ {p} : acked'[q] = acked[q]
  BY DEF RoundInv, TypeOK, Ack
<1>3. Inside(p)' /\ ~Inside(p) /\ runs \in Nat
  BY <1>1 DEF Inside, RoundInv, TypeOK
<1>4. p \notin Waiting \union Released /\ Waiting' = Waiting \union {p} /\ Released' = Released
  BY <1>1, <1>2, <1>3 DEF Waiting, Released
<1> QED BY <1>2, <1>4, Acknowledges

\* An acker that wakes up leaves if it has been released, and otherwise stays.
LEMMA RecheckMaps ==
    ASSUME RoundInv, NEW p \in Ackers, RecheckAck(p)
    PROVE  [Round!Next]_(Round!vars)
<1>1. /\ pc[p] = "woken" /\ runs' = runs /\ acked' = acked
      /\ \A q \in Ackers \ {p} : Inside(q)' <=> Inside(q)
  BY DEF RoundInv, TypeOK, RecheckAck, Inside, Procs
<1>2. CASE ack > 0
  <2>1. Inside(p)' /\ Inside(p)
    BY <1>1, <1>2 DEF RoundInv, TypeOK, RecheckAck, Inside, Procs
  <2>2. UNCHANGED <<Waiting, Released, runs>>
    BY <1>1, <2>1 DEF Waiting, Released
  <2> QED BY <2>2, Stutters
<1>3. CASE ~(ack > 0)
  <2>1. ~Inside(p)' /\ Inside(p)
    BY <1>1, <1>3 DEF RoundInv, TypeOK, RecheckAck, Inside, Procs
  <2>2. acked[p] < runs
    BY <1>3, <2>1 DEF RoundInv, TypeOK, Inside
  <2>3. p \in Released /\ Released' = Released \ {p} /\ Waiting' = Waiting
    BY <1>1, <2>1, <2>2 DEF Waiting, Released, RoundInv, TypeOK
  <2> QED BY <1>1, <2>3, Leaves
<1> QED BY <1>2, <1>3

\* An execution is that of a quorum that waits; an executor that waits does nothing.
LEMMA ExecutorMaps ==
    ASSUME RoundInv, AcksInv, NEW e \in Executors, ExecutorStep(e)
    PROVE  [Round!Next]_(Round!vars)
<1> USE QuorumAssumption
<1>1. CASE WaitForQuorum(e)
  <2>1. UNCHANGED <<Waiting, Released, runs>>
    BY <1>1 DEF RoundInv, TypeOK, WaitForQuorum, Waiting, Released, Inside, Procs
  <2> QED BY <2>1, Stutters
<1>2. CASE Execute(e)
  <2>1. \A q \in Ackers : Inside(q)' <=> Inside(q)
    BY <1>2, BroadcastKeepsPlace DEF RoundInv, Execute, Procs, PCs
  <2>2. runs \in Nat /\ runs' = runs + 1 /\ acked' = acked /\ ~(ack < maxAck)
    BY <1>2 DEF RoundInv, TypeOK, Execute
  <2>3. \A q \in Ackers : Inside(q) => acked[q] \in Nat /\ acked[q] <= runs
    BY DEF RoundInv, TypeOK, Inside
  <2>4. Waiting' = {} /\ Released' = Released \union Waiting
    BY <2>1, <2>2, <2>3 DEF Waiting, Released
  <2>5. Cardinality(Waiting) >= maxAck
    <3>1. Cardinality(Waiting) \in Nat /\ ack \in Nat /\ ack <= Cardinality(Waiting)
      BY FS_CardinalityType DEF AcksInv, RoundInv, TypeOK
    <3> QED BY <2>2, <3>1
  <2> QED BY <2>2, <2>4, <2>5, Executes
<1> QED BY <1>1, <1>2 DEF ExecutorStep

\* For any number of goroutines and any quorum, the count behind the mutex, with its
\* wake-ups of everybody, implements the rounds: no execution without a quorum that
\* waits for it, no acker that leaves before it or is left behind by it.
THEOREM QuorumExecutorImplementsRounds == Spec => ImplementsRounds
<1>1. Init => Round!Init
  BY DEF Init, Round!Init, Inside, Procs
<1>2. RoundInv /\ AcksInv /\ [Next]_vars => [Round!Next]_(Round!vars)
  <2> SUFFICES ASSUME RoundInv, AcksInv, [Next]_vars PROVE [Round!Next]_(Round!vars)
    OBVIOUS
  <2>1. CASE UNCHANGED vars
    <3>1. UNCHANGED <<Waiting, Released, runs>>
      BY <2>1 DEF vars, Waiting, Released, Inside
    <3> QED BY <3>1, Stutters
  <2> QED BY <2>1, AckMaps, RecheckMaps, ExecutorMaps DEF Next, AckerStep
<1> QED BY <1>1, <1>2, AcksInit, AcksStep, RoundInvariant, PTL
        DEF Spec, ImplementsRounds, Round!Spec
=============================================================================
