--------------------------- MODULE QuorumExecutor ---------------------------
(***************************************************************************)
(* internal/util/cond.go: goroutines that acknowledge and wait, and        *)
(* goroutines that wait for maxAck acknowledgements and then execute f.    *)
(*                                                                         *)
(* The mutex is held from Lock to Wait or Unlock, so every stretch of code *)
(* between two of these is one action.  sync.Cond: Broadcast wakes every   *)
(* waiting goroutine, and each of them then takes the mutex again, in any  *)
(* order and after any newcomer, and evaluates its loop condition.         *)
(***************************************************************************)
EXTENDS Naturals, FiniteSets

CONSTANTS Ackers,     \* goroutines that call AckAndWait, once each
          Executors,  \* goroutines that call WaitAndExecute, once each
          maxAck      \* the quorum

ASSUME QuorumAssumption ==
    /\ Ackers \intersect Executors = {}
    /\ maxAck \in Nat

VARIABLES ack,    \* the count guarded by the mutex
          pc,     \* where each goroutine is
          runs,   \* how often f has been executed
          acked   \* acked[p]: runs when acker p incremented ack (history)

vars == <<ack, pc, runs, acked>>

Procs == Ackers \union Executors
PCs   == {"outside", "waiting", "woken", "returned"}

\* p is inside its call and has released the mutex.
Inside(p) == pc[p] \in {"waiting", "woken"}

\* cond.Broadcast, after which the caller p itself is at l.
BroadcastAndBe(p, l) ==
    pc' = [q \in Procs |-> IF q = p THEN l
                           ELSE IF pc[q] = "waiting" THEN "woken" ELSE pc[q]]
-----------------------------------------------------------------------------
Init ==
    /\ ack = 0
    /\ pc = [p \in Procs |-> "outside"]
    /\ runs = 0
    /\ acked = [p \in Ackers |-> 0]

\* Mutant of Ack: the executors are not woken.
AckSilently(p) ==
    /\ pc[p] = "outside"
    /\ ack' = ack + 1
    /\ acked' = [acked EXCEPT ![p] = runs]
    /\ pc' = [pc EXCEPT ![p] = "waiting"]
    /\ UNCHANGED runs

\* AckAndWait up to its first Wait: after the increment, ack > 0 holds.
Ack(p) ==
    /\ pc[p] = "outside"
    /\ ack' = ack + 1
    /\ acked' = [acked EXCEPT ![p] = runs]
    /\ BroadcastAndBe(p, "waiting")
    /\ UNCHANGED runs

\* Mutant of RecheckAck: a wait that is not in a loop.
ReturnWhenWoken(p) ==
    /\ pc[p] = "woken"
    /\ pc' = [pc EXCEPT ![p] = "returned"]
    /\ UNCHANGED <<ack, runs, acked>>

\* An acker woken from Wait waits again while ack > 0.
RecheckAck(p) ==
    /\ pc[p] = "woken"
    /\ pc' = [pc EXCEPT ![p] = IF ack > 0 THEN "waiting" ELSE "returned"]
    /\ UNCHANGED <<ack, runs, acked>>

\* WaitAndExecute, on entry or when woken.
WaitForQuorum(e) ==
    /\ pc[e] \in {"outside", "woken"}
    /\ ack < maxAck
    /\ pc' = [pc EXCEPT ![e] = "waiting"]
    /\ UNCHANGED <<ack, runs, acked>>

\* Mutant of Execute: one acknowledgement is consumed instead of all.
ExecuteForOne(e) ==
    /\ pc[e] \in {"outside", "woken"}
    /\ ~(ack < maxAck)
    /\ runs' = runs + 1
    /\ ack' = ack - 1
    /\ BroadcastAndBe(e, "returned")
    /\ UNCHANGED acked

Execute(e) ==
    /\ pc[e] \in {"outside", "woken"}
    /\ ~(ack < maxAck)
    /\ runs' = runs + 1
    /\ ack' = 0
    /\ BroadcastAndBe(e, "returned")
    /\ UNCHANGED acked

AckerStep(p)    == Ack(p) \/ RecheckAck(p)
ExecutorStep(e) == WaitForQuorum(e) \/ Execute(e)

Next == (\E p \in Ackers : AckerStep(p)) \/ (\E e \in Executors : ExecutorStep(e))

\* A goroutine that can run does in the end; none is obliged to call.
Fairness ==
    /\ \A p \in Ackers : WF_vars(RecheckAck(p))
    /\ \A e \in Executors : WF_vars(pc[e] = "woken" /\ ExecutorStep(e))

Spec == Init /\ [][Next]_vars
FairSpec == Spec /\ Fairness
-----------------------------------------------------------------------------
TypeOK ==
    /\ ack \in Nat
    /\ pc \in [Procs -> PCs]
    /\ runs \in Nat
    /\ acked \in [Ackers -> Nat]

\* AckAndWait never returns before an execution of f that came after its
\* increment, in spite of the wake-ups of other ackers and of earlier rounds.
NoEarlyReturn == \A p \in Ackers : pc[p] = "returned" => acked[p] < runs

\* Every acknowledgement the count holds is that of an acker still inside
\* AckAndWait: no quorum is reached on behalf of goroutines that have left.
AcksAreInside == ack <= Cardinality({p \in Ackers : Inside(p) /\ acked[p] = runs})

\* No executor sleeps through a quorum: the increment that completes it wakes all
\* who wait, and who comes later looks at the count first (WaitAndExecute).
NoLostWakeup == \A e \in Executors : pc[e] = "waiting" => ack < maxAck

\* The inductive invariant behind NoEarlyReturn: while an acker of the current
\* round is inside, ack is not 0, so that it waits again when woken.
RoundInv ==
    /\ TypeOK
    /\ \A p \in Ackers : pc[p] # "outside" => acked[p] <= runs
    /\ \A p \in Ackers : Inside(p) /\ acked[p] = runs => ack > 0
    /\ NoEarlyReturn

\* A quorum is not missed: once ack has reached maxAck, f is executed, or all
\* the executors have already returned.
QuorumExecutes ==
    \A e \in Executors : (ack >= maxAck /\ Inside(e)) ~> (ack = 0 \/ pc[e] = "returned")

\* "AckAndWait increments the ack count and wait for maxAck" (cond.go): an acker
\* whose quorum has been reached and executed returns.
QuorumReleases ==
    \A p \in Ackers : (Inside(p) /\ acked[p] < runs) ~> pc[p] = "returned"
-----------------------------------------------------------------------------
(* The abstract specification *)

Round == INSTANCE Rounds WITH
    Members    <- Ackers,
    quorum     <- maxAck,
    waiting    <- {p \in Ackers : Inside(p) /\ acked[p] = runs},
    released   <- {p \in Ackers : Inside(p) /\ acked[p] < runs},
    executions <- runs

\* Count, condition variable and vain wake-ups together keep the promise of module
\* Rounds: each execution is on behalf of a quorum that waits for it, and releases
\* those and no others (AckAndWait, WaitAndExecute).
ImplementsRounds == Round!Spec
=============================================================================
