------------------------------- MODULE Finalizer -------------------------------
(***************************************************************************)
(* What a controller promises that guards a resource without an owner, the *)
(* ClusterRoleBinding, with a finalizer: the DaemonJob and DaemonCronJob   *)
(* controllers implement it.  There are no caches here, no queue and no    *)
(* calls: who works for an object knows that the object exists.            *)
(***************************************************************************)
CONSTANTS Uids,    \* identities of the object's incarnations
          None     \* no object, no work

VARIABLES uid,     \* the incarnation that exists
          phase,   \* "absent", "bare" without a finalizer, "guarded" or "deleting" with it
          used,    \* the uids of all incarnations so far
          working, \* the incarnation that resources are being made for
          made     \* TRUE when the resource without an owner exists

vars == <<uid, phase, used, working, made>>

Init ==
    /\ uid = None
    /\ phase = "absent"
    /\ used = {}
    /\ working = None
    /\ made = FALSE

\* A user creates the object: no two incarnations share a uid.
Create ==
    /\ phase = "absent"
    /\ phase' = "bare"
    /\ uid' \in Uids \ used
    /\ used' = used \union {uid'}
    /\ UNCHANGED <<working, made>>

\* A user deletes an object that has the finalizer, which holds it.
Delete == phase = "guarded" /\ phase' = "deleting" /\ UNCHANGED <<uid, used, working, made>>

\* An object without the finalizer is gone at once; nobody works for it.
Vanish ==
    /\ phase = "bare"
    /\ working = None
    /\ phase' = "absent"
    /\ uid' = None
    /\ UNCHANGED <<used, working, made>>

\* The finalizer is put on an object that nobody has deleted.
Protect ==
    /\ phase \in {"bare", "guarded"}
    /\ phase' = "guarded"
    /\ working' \in {None, uid}
    /\ UNCHANGED <<uid, used, made>>

\* Work starts for the object that exists, under its finalizer.
Begin ==
    /\ working = None
    /\ phase \in {"guarded", "deleting"}
    /\ working' = uid
    /\ UNCHANGED <<uid, phase, used, made>>

\* The resource is made only by work that is under way; the reply may be lost.
Make ==
    /\ working # None
    /\ made' = TRUE
    /\ working' \in {None, working}
    /\ UNCHANGED <<uid, phase, used>>

Stop == working' = None /\ UNCHANGED <<uid, phase, used, made>>

\* The controller or anybody else deletes the resource.
Unmake == made' = FALSE /\ UNCHANGED <<uid, phase, used, working>>

\* The finalizer is taken off a deleted object, and only then, while no work is
\* under way for it: the object is gone.
Release ==
    /\ phase = "deleting"
    /\ working = None
    /\ phase' = "absent"
    /\ uid' = None
    /\ UNCHANGED <<used, working, made>>

Next ==
    \/ Create \/ Delete \/ Vanish \/ Protect
    \/ Begin \/ Make \/ Stop \/ Unmake \/ Release

Spec == Init /\ [][Next]_vars
=============================================================================
