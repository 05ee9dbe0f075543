----------------------------- MODULE Conditions -----------------------------
(***************************************************************************)
(* internal/controller/status.go: the condition list every controller of   *)
(* the operator keeps in its resource's status, and the one-word state     *)
(* computed from it.  The three condition types are the parameters that    *)
(* NewStatus takes; a message stands for a reason and its message.         *)
(*                                                                         *)
(* The Go slice becomes a function from type to condition, with the status *)
(* "None" for a type not yet in the slice.  Nothing is lost:               *)
(* SetStatusCondition keeps one entry per type, and SetPair, the only      *)
(* writer of the Available and Degraded entries, appends Available first,  *)
(* so the order in which State scans the slice is the order of the         *)
(* alternatives below.  LastTransitionTime is Flips.                       *)
(***************************************************************************)
CONSTANTS TypeAvailable, TypeProgressing, TypeDegraded,
          Messages,  \* what a condition may say
          NoMessage  \* the empty message, one of them

ConditionTypes == {TypeAvailable, TypeProgressing, TypeDegraded}
ConditionValues == [status : {"None", "True", "False"}, message : Messages]
ConditionLists == [ConditionTypes -> ConditionValues]

NoConditions == [t \in ConditionTypes |-> [status |-> "None", message |-> NoMessage]]

ConditionStatus(v) == IF v THEN "True" ELSE "False"

Condition(v, message) == [status |-> ConditionStatus(v), message |-> message]

\* Of the two conditions, the true one gets the message.
SetPair(conds, ok, message) ==
    [conds EXCEPT ![TypeAvailable] = Condition(ok, IF ok THEN message ELSE NoMessage),
                  ![TypeDegraded]  = Condition(~ok, IF ok THEN NoMessage ELSE message)]

SetProgressing(conds, message) ==
    [conds EXCEPT ![TypeProgressing] = Condition(TRUE, message)]

SetNotFound(conds, message) == SetPair(conds, FALSE, message)

Is(conds, type) == conds[type].status = "True"

\* "" is the not-ok result of State, which the controllers turn into Unknown.
State(conds) ==
    CASE Is(conds, TypeAvailable)                                -> TypeAvailable
      [] ~Is(conds, TypeAvailable) /\ Is(conds, TypeDegraded)  -> TypeDegraded
      [] ~Is(conds, TypeAvailable) /\ ~Is(conds, TypeDegraded)
         /\ Is(conds, TypeProgressing)                          -> TypeProgressing
      [] OTHER                                                  -> ""

\* A status that changes and changes back on the way from the conditions a to the
\* conditions c by way of b: its LastTransitionTime, a time in seconds, may be new.
Flips(a, b, c) ==
    \E t \in ConditionTypes : a[t].status # b[t].status /\ c[t].status = a[t].status
=============================================================================
