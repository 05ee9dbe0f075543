------------------------- MODULE DaemonJobRefinement -------------------------
(***************************************************************************)
(* The DaemonJob controller implements module Finalizer, for any nodes,    *)
(* bounds and budgets.  The invariant the steps need is that of            *)
(* DaemonJobProofs.                                                        *)
(***************************************************************************)
EXTENDS DaemonJobProofs

USE BoundsAssumption, NoneAssumption

Step == Lifecycle!Next \/ UNCHANGED Lifecycle!vars

\* What the invariant says of the abstract state.
LEMMA AbstractState ==
    ASSUME ProtectedInv
    PROVE  /\ dj \in DaemonJobs \union {None} /\ nextUid \in Nat \ {0}
           /\ rdj \in DaemonJobs \union {None} /\ crb \in BOOLEAN
           /\ pc # "idle" => rdj \in DaemonJobs
           /\ Working # None => dj \in DaemonJobs /\ dj.uid = Working /\ dj.fin
<1>1. /\ dj \in DaemonJobs \union {None} /\ nextUid \in 1..(MaxUid + 1)
      /\ rdj \in DaemonJobs \union {None} /\ crb \in BOOLEAN
      /\ pc # "idle" => rdj \in DaemonJobs
  BY DEF ProtectedInv, TypeOK, StateTypeOK, ClusterTypeOK
<1>2. ASSUME Working # None PROVE dj \in DaemonJobs /\ dj.uid = Working /\ dj.fin
  <2>1. pc \in Applying /\ Working = rdj.uid
    BY <1>2 DEF Working
  <2> QED BY <1>1, <2>1 DEF ProtectedInv, Protected, Live
<1> QED BY <1>1, <1>2

\* A step that leaves the object and the resource alone goes on with its work,
\* ends it, or has none.
LEMMA FrameStep ==
    ASSUME Uid' = Uid, Phase' = Phase, nextUid' = nextUid, crb' = crb,
           Working' = Working \/ Working' = None
    PROVE  Step
BY DEF Step, Lifecycle!Next, Lifecycle!Stop, Lifecycle!vars

\* A step along the course of a reconciliation, or to its end.
LEMMA CourseStep ==
    ASSUME Uid' = Uid, Phase' = Phase, nextUid' = nextUid, crb' = crb,
           \/ pc' \notin Applying
           \/ pc \in Applying /\ rdj' = rdj
    PROVE  Step
BY FrameStep DEF Working

\* Users create the object anew, and delete it under its finalizer or while
\* nobody works for it.
LEMMA UserSteps ==
    ASSUME ProtectedInv, UNCHANGED local,
           CreateDaemonJob \/ DeleteDaemonJob \/ DeleteClusterRoleBinding
    PROVE  Step
<1>0. Working' = Working
  BY DEF local, Working
<1>1. CASE CreateDaemonJob
  <2>1. dj = None /\ nextUid \in Uids /\ crb' = crb /\ nextUid' = nextUid + 1
    BY <1>1 DEF CreateDaemonJob
  <2>2. Phase = "absent"
    BY <2>1 DEF Phase
  <2>3. Uid' = nextUid /\ Phase' = "bare"
    <3>1. /\ dj' \in DaemonJobs /\ dj'.uid = nextUid
          /\ ~dj'.deleting /\ ~dj'.fin
      BY <1>1, ConditionTypes DEF CreateDaemonJob, DaemonJobs
    <3>2. dj' # None
      BY <3>1
    <3> QED BY <3>1, <3>2 DEF Uid, Phase
  <2>4. /\ nextUid \in Uids \ (1..(nextUid - 1))
        /\ 1..(nextUid' - 1) = (1..(nextUid - 1)) \union {nextUid}
    BY <2>1, AbstractState DEF Uids
  <2>5. Lifecycle!Create
    BY <1>0, <2>1, <2>2, <2>3, <2>4 DEF Lifecycle!Create
  <2> QED BY <2>5 DEF Step, Lifecycle!Next
<1>2. CASE DeleteDaemonJob
  <2>1. /\ dj \in DaemonJobs /\ dj # None /\ ~dj.deleting
        /\ dj' = IF dj.fin THEN [dj EXCEPT !.deleting = TRUE] ELSE None
        /\ nextUid' = nextUid /\ crb' = crb
    BY <1>2, AbstractState DEF DeleteDaemonJob
  <2>2. CASE dj.fin
    <3>1. dj' \in DaemonJobs /\ dj'.uid = dj.uid /\ dj'.deleting
      BY <2>1, <2>2 DEF DaemonJobs
    <3>2. Phase = "guarded" /\ Phase' = "deleting" /\ Uid' = Uid
      BY <2>1, <2>2, <3>1 DEF Phase, Uid
    <3>3. Lifecycle!Delete
      BY <1>0, <2>1, <3>2 DEF Lifecycle!Delete
    <3> QED BY <3>3 DEF Step, Lifecycle!Next
  <2>3. CASE ~dj.fin
    <3>1. Phase = "bare" /\ Phase' = "absent" /\ Uid' = None
      BY <2>1, <2>3 DEF Phase, Uid
    <3>2. Working = None
      BY <2>3, AbstractState
    <3>3. Lifecycle!Vanish
      BY <1>0, <2>1, <3>1, <3>2 DEF Lifecycle!Vanish
    <3> QED BY <3>3 DEF Step, Lifecycle!Next
  <2> QED BY <2>2, <2>3
<1>3. CASE DeleteClusterRoleBinding
  <2>1. Uid' = Uid /\ Phase' = Phase /\ nextUid' = nextUid /\ crb' = FALSE
    BY <1>3 DEF DeleteClusterRoleBinding, Uid, Phase
  <2>2. Lifecycle!Unmake
    BY <1>0, <2>1 DEF Lifecycle!Unmake
  <2> QED BY <2>2 DEF Step, Lifecycle!Next
<1> QED BY <1>1, <1>2, <1>3

\* Work begins for the incarnation that exists, or another course does.
LEMMA ReconcileSteps == ASSUME ProtectedInv, Reconcile PROVE Step
<1>0. Uid' = Uid /\ Phase' = Phase /\ nextUid' = nextUid /\ crb' = crb
  BY DEF Reconcile, Uid, Phase
<1>1. CASE UNCHANGED local
  BY <1>0, <1>1, FrameStep DEF local, Working
<1>2. CASE ~UNCHANGED local
  <2>1. /\ cache.dj # None /\ rdj' = cache.dj /\ pc' = FirstCall(cache.dj)
        /\ pc = "idle"
    BY <1>2 DEF Reconcile
  <2>2. Working = None
    BY <2>1 DEF Working, Applying
  <2>3. CASE pc' \notin Applying
    BY <1>0, <2>3, CourseStep
  <2>4. CASE pc' \in Applying
    <3>1. cache.dj \in DaemonJobs
      BY <2>1, CacheFields DEF ProtectedInv, TypeOK, StateTypeOK, ClusterTypeOK
    <3>2. cache.dj.fin /\ ~cache.dj.deleting
      BY <2>1, <2>4, <3>1 DEF FirstCall, Applying, DaemonJobs
    <3>3. dj # None /\ dj.uid = cache.dj.uid /\ dj.fin
      BY <2>1, <3>2 DEF ProtectedInv, CacheIsPast, Live
    <3>4. Phase \in {"guarded", "deleting"} /\ Working' = Uid
      BY <2>1, <2>4, <3>3 DEF Phase, Uid, Working
    <3>5. Lifecycle!Begin
      BY <1>0, <2>2, <3>4 DEF Lifecycle!Begin
    <3> QED BY <3>5 DEF Step, Lifecycle!Next
  <2> QED BY <2>3, <2>4
<1> QED BY <1>1, <1>2

\* The finalizer is put on the object that was read and not deleted since.
LEMMA AddFinalizerSteps == ASSUME ProtectedInv, AddFinalizer PROVE Step
<1>0. /\ nextUid' = nextUid /\ crb' = crb /\ pc = "addFinalizer" /\ rdj \in DaemonJobs
      /\ ~rdj.deleting
  BY AbstractState DEF AddFinalizer, ProtectedInv, AddingIsRead
<1>1. CASE dj' = dj /\ pc' = "idle"
  BY <1>0, <1>1, CourseStep DEF Uid, Phase, Applying
<1>2. CASE dj = rdj /\ dj' = [rdj EXCEPT !.fin = TRUE]
           /\ \/ pc' = "idle"
              \/ pc' = "listNodes" /\ rdj' = [rdj EXCEPT !.fin = TRUE]
  <2>1. /\ dj' \in DaemonJobs /\ dj'.uid = dj.uid /\ dj'.fin /\ ~dj'.deleting
        /\ pc' = "listNodes" => rdj'.uid = dj.uid
    BY <1>0, <1>2 DEF DaemonJobs
  <2>2. dj # None /\ dj' # None
    BY <1>0, <1>2, <2>1
  <2>3. Phase \in {"bare", "guarded"} /\ Uid = dj.uid
    BY <1>0, <1>2, <2>2 DEF Phase, Uid
  <2>4. Phase' = "guarded" /\ Uid' = dj.uid
    BY <2>1, <2>2 DEF Phase, Uid
  <2>5. Working' \in {None, dj.uid}
    BY <1>2, <2>1 DEF Working, Applying
  <2>6. Lifecycle!Protect
    BY <1>0, <2>3, <2>4, <2>5 DEF Lifecycle!Protect
  <2> QED BY <2>6 DEF Step, Lifecycle!Next
<1> QED BY <1>1, <1>2 DEF AddFinalizer, Written, Fail, Requeue, End

\* The finalizer leaves an object whose deletion was seen; the binding is deleted
\* before, if the cache has it.
LEMMA FinalizingSteps == ASSUME ProtectedInv, OnDelete \/ RemoveFinalizer PROVE Step
<1>0. /\ nextUid' = nextUid /\ pc \in Finalizing
      /\ pc' \in {"idle", "onDelete", "removeFinalizer"}
  BY DEF OnDelete, RemoveFinalizer, Finalizing, Written, Goto, Done, Fail, Requeue, End
<1>1. Working = None /\ Working' = None
  BY <1>0 DEF Working, Applying, Finalizing
<1>2. CASE OnDelete
  <2>1. Uid' = Uid /\ Phase' = Phase /\ (crb' = crb \/ crb' = FALSE)
    BY <1>2 DEF OnDelete, Uid, Phase
  <2>2. CASE crb' = crb
    BY <1>0, <1>1, <2>1, <2>2, FrameStep
  <2>3. CASE crb' = FALSE
    <3>1. Lifecycle!Unmake
      BY <1>0, <1>1, <2>1, <2>3 DEF Lifecycle!Unmake
    <3> QED BY <3>1 DEF Step, Lifecycle!Next
  <2> QED BY <2>1, <2>2, <2>3
<1>3. CASE RemoveFinalizer /\ dj' = dj
  BY <1>0, <1>1, <1>3, FrameStep DEF RemoveFinalizer, Uid, Phase
<1>4. CASE RemoveFinalizer /\ dj = rdj /\ dj' = None
  <2>1. dj \in DaemonJobs /\ dj.deleting /\ crb' = crb
    <3>1. pc # "idle" /\ crb' = crb
      BY <1>0, <1>4 DEF RemoveFinalizer, Finalizing
    <3>2. rdj \in DaemonJobs /\ rdj.deleting
      BY <1>0, <3>1, AbstractState DEF ProtectedInv, FinalizingIsSeen
    <3> QED BY <1>4, <3>1, <3>2
  <2>2. Phase = "deleting" /\ Phase' = "absent" /\ Uid' = None
    BY <1>4, <2>1 DEF Phase, Uid
  <2>3. Lifecycle!Release
    BY <1>0, <1>1, <2>1, <2>2 DEF Lifecycle!Release
  <2> QED BY <2>3 DEF Step, Lifecycle!Next
<1> QED BY <1>2, <1>3, <1>4 DEF RemoveFinalizer

\* The binding is made by work that is under way, whatever becomes of the reply.
LEMMA ApplySteps ==
    ASSUME ProtectedInv,
           \/ ListNodes \/ DeleteWorkerJobsOnNotExistNode
           \/ ApplyServiceAccount \/ ApplyClusterRoleBinding \/ ApplyJob
    PROVE  Step
<1>1. /\ Uid' = Uid /\ Phase' = Phase /\ nextUid' = nextUid
      /\ pc \in Applying /\ (pc' = "idle" \/ rdj' = rdj)
  BY DEF ListNodes, DeleteWorkerJobsOnNotExistNode, ApplyServiceAccount,
         ApplyClusterRoleBinding, ApplyJob, Uid, Phase, Applying, Written, Goto, Fail, Requeue, End
<1>2. CASE crb' = crb
  BY <1>1, <1>2, CourseStep DEF Applying
<1>3. CASE crb' # crb
  <2>1. ApplyClusterRoleBinding /\ crb' = TRUE /\ pc = "applyCRB"
    BY <1>3 DEF ListNodes, DeleteWorkerJobsOnNotExistNode, ApplyServiceAccount, ApplyJob,
                ApplyClusterRoleBinding
  <2>2. rdj.uid \in Uids /\ Working = rdj.uid
    BY <1>1, <2>1, AbstractState DEF Working, DaemonJobs
  <2>3. Working # None
    BY <2>2
  <2>4. Working' \in {None, Working}
    BY <1>1, <2>2 DEF Working, Applying
  <2>5. Lifecycle!Make
    BY <1>1, <2>1, <2>3, <2>4 DEF Lifecycle!Make
  <2> QED BY <2>5 DEF Step, Lifecycle!Next
<1> QED BY <1>2, <1>3

\* The status is not part of the abstract object.
LEMMA StatusSteps ==
    ASSUME ProtectedInv, CheckResources \/ UpdateStatus \/ UpdateStatusOfWorkers
    PROVE  Step
<1>0. /\ nextUid' = nextUid /\ crb' = crb /\ pc \in Applying /\ rdj \in DaemonJobs
  BY AbstractState DEF CheckResources, UpdateStatus, UpdateStatusOfWorkers, Applying
<1>1. CASE \E checked, conds \in C!ConditionLists : WriteStatus(checked, conds)
  <2>1. PICK checked \in C!ConditionLists, conds \in C!ConditionLists :
           WriteStatus(checked, conds)
    BY <1>1
  <2>2. pc' = "idle"
    BY <2>1 DEF WriteStatus, Written, Done, Fail, Requeue, End
  <2>3. Uid' = Uid /\ Phase' = Phase
    <3>1. CASE dj' = dj
      BY <3>1 DEF Uid, Phase
    <3>2. ASSUME dj = rdj, NEW t \in Since(checked, conds),
                 dj' = [rdj EXCEPT !.conds = conds, !.since = t]
          PROVE  Uid' = Uid /\ Phase' = Phase
      <4>1. t \in BOOLEAN
        BY <1>0, <3>2, SinceType
      <4>2. /\ dj' \in DaemonJobs /\ dj \in DaemonJobs
            /\ dj'.uid = dj.uid /\ dj'.fin = dj.fin /\ dj'.deleting = dj.deleting
        BY <1>0, <3>2, <4>1 DEF DaemonJobs
      <4>3. dj # None /\ dj' # None
        BY <4>2
      <4> QED BY <4>2, <4>3 DEF Uid, Phase
    <3> QED BY <2>1, <3>1, <3>2 DEF WriteStatus
  <2> QED BY <1>0, <2>2, <2>3, CourseStep DEF Applying
<1>2. CASE Fail /\ dj' = dj
  BY <1>0, <1>2, CourseStep DEF Fail, Requeue, End, Uid, Phase, Applying
<1>3. CASE pc' \in {"getJob", "list"} /\ UNCHANGED <<dj, rdj>>
  BY <1>0, <1>3, CourseStep DEF Uid, Phase
<1>4. StateTypeOK
  BY DEF ProtectedInv, TypeOK
<1> QED BY <1>1, <1>2, <1>3, <1>4, StatusWrites

\* Every step of the controller and its cluster is one of the abstract
\* specification's, or none.
LEMMA RefinementStep == ASSUME ProtectedInv, [Next]_vars PROVE Step
<1>1. CASE (ClusterNext \/ Sync) /\ UNCHANGED local
  <2>1. CASE CreateDaemonJob \/ DeleteDaemonJob \/ DeleteClusterRoleBinding
    BY <1>1, <2>1, UserSteps
  <2>2. CASE UNCHANGED <<dj, nextUid, crb>>
    BY <1>1, <2>2, FrameStep DEF local, Uid, Phase, Working
  <2> QED BY <1>1, <2>1, <2>2
      DEF ClusterNext, Sync, DeleteJob, NodeChanges, RunStep, RunDies, WorkerEnds, Collect
<1>2. CASE Controller
  BY <1>2, ReconcileSteps, AddFinalizerSteps, FinalizingSteps, ApplySteps, StatusSteps
     DEF Controller
<1>3. CASE ApiError \/ Restart
  BY <1>3, CourseStep DEF ApiError, Restart, Requeue, End, Uid, Phase, Applying
<1>4. CASE UNCHANGED vars
  BY <1>4, FrameStep DEF vars, Uid, Phase, Working
<1> QED BY <1>1, <1>2, <1>3, <1>4 DEF Next

\* Initially there is no object, no work and no resource.
LEMMA RefinementInit == Init => Lifecycle!Init
<1> SUFFICES ASSUME Init PROVE Lifecycle!Init
    OBVIOUS
<1>1. dj = None /\ nextUid = 1 /\ crb = FALSE /\ pc = "idle"
  BY DEF Init, ClusterInit
<1>2. Uid = None /\ Phase = "absent" /\ Working = None
  BY <1>1 DEF Uid, Phase, Working, Applying
<1>3. 1..(nextUid - 1) = {}
  BY <1>1
<1> QED BY <1>1, <1>2, <1>3 DEF Lifecycle!Init

\* The reconciler with its caches, conflicts, lost replies and restarts keeps the
\* promise of module Finalizer.
THEOREM DaemonJobImplementsFinalizer == Spec => ImplementsFinalizer
<1>1. ProtectedInv /\ [Next]_vars => [Lifecycle!Next]_(Lifecycle!vars)
  BY RefinementStep DEF Step
<1> QED BY <1>1, RefinementInit, ProtectedInvariant, PTL
    DEF Spec, ImplementsFinalizer, Lifecycle!Spec
=============================================================================
