----------------------- MODULE DaemonCronJobRefinement -----------------------
(***************************************************************************)
(* The DaemonCronJob controller implements module Finalizer, for any       *)
(* nodes, policy, labels, bounds and budgets.  The invariant the steps     *)
(* need is that of DaemonCronJobProofs.                                    *)
(***************************************************************************)
EXTENDS DaemonCronJobProofs

USE BoundsAssumption, NoneAssumption

Step == Lifecycle!Next \/ UNCHANGED Lifecycle!vars

\* What the invariant says of the abstract state.
LEMMA AbstractState ==
    ASSUME ProtectedInv
    PROVE  /\ dcj \in DaemonCronJobs \union {None} /\ nextUid \in Nat \ {0}
           /\ crb \in BOOLEAN
           /\ pc # "idle" => rdcj \in DaemonCronJobs
           /\ Working # None => dcj \in DaemonCronJobs /\ dcj.uid = Working /\ dcj.fin
<1>1. /\ dcj \in DaemonCronJobs \union {None} /\ nextUid \in 1..(MaxUid + 1)
      /\ rdcj \in DaemonCronJobs \union {None} /\ crb \in BOOLEAN
      /\ pc # "idle" => rdcj \in DaemonCronJobs
  BY DEF ProtectedInv, TypeOK, StateTypeOK, ClusterTypeOK, LocalTypeOK
<1>2. ASSUME Working # None PROVE dcj \in DaemonCronJobs /\ dcj.uid = Working /\ dcj.fin
  <2>1. pc \in Applying /\ Working = rdcj.uid
    BY <1>2 DEF Working
  <2> QED BY <1>1, <2>1 DEF ProtectedInv, Protected, Live
<1> QED BY <1>1, <1>2

\* A step that leaves the object and the resource alone goes on with its work,
\* ends it, or has none.
LEMMA FrameStep ==
    ASSUME Uid' = Uid, Phase' = Phase, nextUid' = nextUid, crb' = crb,
           Working' = Working \/ Working' = None
    PROVE  Step
BY DEF Step, Lifecycle!Next, Lifecycle!Stop, Lifecycle!vars

\* A step along the course of a reconciliation, or to its end.
LEMMA CourseStep ==
    ASSUME Uid' = Uid, Phase' = Phase, nextUid' = nextUid, crb' = crb,
           \/ pc' \notin Applying
           \/ pc \in Applying /\ rdcj' = rdcj
    PROVE  Step
BY FrameStep DEF Working

\* An edit or a status update keeps what the abstract object is made of.
LEMMA SameObject ==
    ASSUME dcj \in DaemonCronJobs, dcj' \in DaemonCronJobs,
           dcj'.uid = dcj.uid, dcj'.fin = dcj.fin, dcj'.deleting = dcj.deleting
    PROVE  Uid' = Uid /\ Phase' = Phase
<1>1. dcj # None /\ dcj' # None
  OBVIOUS
<1> QED BY <1>1 DEF Uid, Phase

\* Users create the object anew, edit it, and delete it under its finalizer or
\* while nobody works for it.
LEMMA UserSteps == ASSUME ProtectedInv, UNCHANGED local, User PROVE Step
<1>0. Working' = Working
  BY DEF local, Working
<1>1. CASE CreateDaemonCronJob
  <2>1. dcj = None /\ nextUid \in Uids /\ crb' = crb /\ nextUid' = nextUid + 1
    BY <1>1 DEF CreateDaemonCronJob
  <2>2. Phase = "absent"
    BY <2>1 DEF Phase
  <2>3. Uid' = nextUid /\ Phase' = "bare"
    <3>1. PICK l \in Labelled :
             dcj' = [uid |-> nextUid, deleting |-> FALSE, fin |-> FALSE, labelled |-> l,
                     conds |-> C!NoConditions, since |-> FALSE]
      BY <1>1 DEF CreateDaemonCronJob
    <3>2. /\ dcj' \in DaemonCronJobs /\ dcj'.uid = nextUid
          /\ ~dcj'.deleting /\ ~dcj'.fin
      BY <2>1, <3>1, ConditionTypes DEF DaemonCronJobs
    <3>3. dcj' # None
      BY <3>2
    <3> QED BY <3>2, <3>3 DEF Uid, Phase
  <2>4. /\ nextUid \in Uids \ (1..(nextUid - 1))
        /\ 1..(nextUid' - 1) = (1..(nextUid - 1)) \union {nextUid}
    BY <2>1, AbstractState DEF Uids
  <2>5. Lifecycle!Create
    BY <1>0, <2>1, <2>2, <2>3, <2>4 DEF Lifecycle!Create
  <2> QED BY <2>5 DEF Step, Lifecycle!Next
<1>2. CASE EditDaemonCronJob
  <2>1. PICK l \in Labelled : dcj' = [dcj EXCEPT !.labelled = l]
    BY <1>2 DEF EditDaemonCronJob
  <2>2. dcj \in DaemonCronJobs /\ nextUid' = nextUid /\ crb' = crb
    BY <1>2, AbstractState DEF EditDaemonCronJob
  <2>3. /\ dcj' \in DaemonCronJobs /\ dcj'.uid = dcj.uid
        /\ dcj'.fin = dcj.fin /\ dcj'.deleting = dcj.deleting
    BY <2>1, <2>2 DEF DaemonCronJobs
  <2> QED BY <1>0, <2>2, <2>3, SameObject, FrameStep
<1>3. CASE DeleteDaemonCronJob
  <2>1. /\ dcj \in DaemonCronJobs /\ dcj # None /\ ~dcj.deleting
        /\ dcj' = IF dcj.fin THEN [dcj EXCEPT !.deleting = TRUE] ELSE None
        /\ nextUid' = nextUid /\ crb' = crb
    BY <1>3, AbstractState DEF DeleteDaemonCronJob
  <2>2. CASE dcj.fin
    <3>1. dcj' \in DaemonCronJobs /\ dcj'.uid = dcj.uid /\ dcj'.deleting
      BY <2>1, <2>2 DEF DaemonCronJobs
    <3>2. Phase = "guarded" /\ Phase' = "deleting" /\ Uid' = Uid
      BY <2>1, <2>2, <3>1 DEF Phase, Uid
    <3>3. Lifecycle!Delete
      BY <1>0, <2>1, <3>2 DEF Lifecycle!Delete
    <3> QED BY <3>3 DEF Step, Lifecycle!Next
  <2>3. CASE ~dcj.fin
    <3>1. Phase = "bare" /\ Phase' = "absent" /\ Uid' = None
      BY <2>1, <2>3 DEF Phase, Uid
    <3>2. Working = None
      BY <2>3, AbstractState
    <3>3. Lifecycle!Vanish
      BY <1>0, <2>1, <3>1, <3>2 DEF Lifecycle!Vanish
    <3> QED BY <3>3 DEF Step, Lifecycle!Next
  <2> QED BY <2>2, <2>3
<1>4. CASE DeleteResource
  <2>1. /\ Uid' = Uid /\ Phase' = Phase /\ nextUid' = nextUid
        /\ crb' = crb \/ crb' = FALSE
    BY <1>4 DEF DeleteResource, Uid, Phase
  <2>2. CASE crb' = crb
    BY <1>0, <2>1, <2>2, FrameStep
  <2>3. CASE crb' = FALSE
    <3>1. Lifecycle!Unmake
      BY <1>0, <2>1, <2>3 DEF Lifecycle!Unmake
    <3> QED BY <3>1 DEF Step, Lifecycle!Next
  <2> QED BY <2>1, <2>2, <2>3
<1> QED BY <1>1, <1>2, <1>3, <1>4 DEF User

\* Work begins for the incarnation that exists, or another course does.
LEMMA ReconcileSteps == ASSUME ProtectedInv, Reconcile PROVE Step
<1>0. Uid' = Uid /\ Phase' = Phase /\ nextUid' = nextUid /\ crb' = crb
  BY DEF Reconcile, others, Uid, Phase
<1>1. CASE UNCHANGED local
  BY <1>0, <1>1, FrameStep DEF local, Working
<1>2. CASE ~UNCHANGED local
  <2>1. /\ cache.dcj # None /\ rdcj' = cache.dcj /\ pc' = FirstCall(cache.dcj)
        /\ pc = "idle"
    BY <1>2 DEF Reconcile, ToReconcile
  <2>2. Working = None
    BY <2>1 DEF Working, Applying
  <2>3. CASE pc' \notin Applying
    BY <1>0, <2>3, CourseStep
  <2>4. CASE pc' \in Applying
    <3>1. cache.dcj \in DaemonCronJobs
      BY <2>1, CacheFields DEF ProtectedInv, TypeOK, StateTypeOK, ClusterTypeOK
    <3>2. cache.dcj.fin /\ ~cache.dcj.deleting
      BY <2>1, <2>4, <3>1 DEF FirstCall, Applying, DaemonCronJobs
    <3>3. dcj # None /\ dcj.uid = cache.dcj.uid /\ dcj.fin
      BY <2>1, <3>2 DEF ProtectedInv, CacheIsPast, Live
    <3>4. Phase \in {"guarded", "deleting"} /\ Working' = Uid
      BY <2>1, <2>4, <3>3 DEF Phase, Uid, Working
    <3>5. Lifecycle!Begin
      BY <1>0, <2>2, <3>4 DEF Lifecycle!Begin
    <3> QED BY <3>5 DEF Step, Lifecycle!Next
  <2> QED BY <2>3, <2>4
<1> QED BY <1>1, <1>2

\* The finalizer is put on the object that was read and not deleted since.
LEMMA AddFinalizerSteps == ASSUME ProtectedInv, AddFinalizer PROVE Step
<1>0. /\ nextUid' = nextUid /\ crb' = crb /\ pc = "addFinalizer" /\ rdcj \in DaemonCronJobs
      /\ ~rdcj.deleting
  BY AbstractState DEF AddFinalizer, others, ProtectedInv, AddingIsRead
<1>1. CASE dcj' = dcj /\ pc' = "idle"
  BY <1>0, <1>1, CourseStep DEF Uid, Phase, Applying
<1>2. CASE dcj = rdcj /\ dcj' = [rdcj EXCEPT !.fin = TRUE]
           /\ \/ pc' = "idle"
              \/ pc' = "listNodes" /\ rdcj' = [rdcj EXCEPT !.fin = TRUE]
  <2>1. /\ dcj' \in DaemonCronJobs /\ dcj'.uid = dcj.uid /\ dcj'.fin /\ ~dcj'.deleting
        /\ pc' = "listNodes" => rdcj'.uid = dcj.uid
    BY <1>0, <1>2 DEF DaemonCronJobs
  <2>2. dcj # None /\ dcj' # None
    BY <1>0, <1>2, <2>1
  <2>3. Phase \in {"bare", "guarded"} /\ Uid = dcj.uid
    BY <1>0, <1>2, <2>2 DEF Phase, Uid
  <2>4. Phase' = "guarded" /\ Uid' = dcj.uid
    BY <2>1, <2>2 DEF Phase, Uid
  <2>5. Working' \in {None, dcj.uid}
    BY <1>2, <2>1 DEF Working, Applying
  <2>6. Lifecycle!Protect
    BY <1>0, <2>3, <2>4, <2>5 DEF Lifecycle!Protect
  <2> QED BY <2>6 DEF Step, Lifecycle!Next
<1> QED BY <1>1, <1>2 DEF AddFinalizer, Written, Fail, Requeue, End

\* The finalizer leaves an object whose deletion was seen; the binding is deleted
\* before, if the cache has it.
LEMMA FinalizingSteps == ASSUME ProtectedInv, OnDelete \/ RemoveFinalizer PROVE Step
<1>0. /\ nextUid' = nextUid /\ pc \in Finalizing
      /\ pc' \in {"idle", "onDelete", "removeFinalizer"}
  BY DEF OnDelete, RemoveFinalizer, others, Finalizing, Written, Goto, Done, Fail, Requeue, End
<1>1. Working = None /\ Working' = None
  BY <1>0 DEF Working, Applying, Finalizing
<1>2. CASE OnDelete
  <2>1. Uid' = Uid /\ Phase' = Phase /\ (crb' = crb \/ crb' = FALSE)
    BY <1>2 DEF OnDelete, Uid, Phase
  <2>2. CASE crb' = crb
    BY <1>0, <1>1, <2>1, <2>2, FrameStep
  <2>3. CASE crb' = FALSE
    <3>1. Lifecycle!Unmake
      BY <1>0, <1>1, <2>1, <2>3 DEF Lifecycle!Unmake
    <3> QED BY <3>1 DEF Step, Lifecycle!Next
  <2> QED BY <2>1, <2>2, <2>3
<1>3. CASE RemoveFinalizer /\ dcj' = dcj
  BY <1>0, <1>1, <1>3, FrameStep DEF RemoveFinalizer, Uid, Phase
<1>4. CASE RemoveFinalizer /\ dcj = rdcj /\ dcj' = None
  <2>1. dcj \in DaemonCronJobs /\ dcj.deleting /\ crb' = crb
    <3>1. pc # "idle" /\ crb' = crb
      BY <1>0, <1>4 DEF RemoveFinalizer, Finalizing
    <3>2. rdcj \in DaemonCronJobs /\ rdcj.deleting
      BY <1>0, <3>1, AbstractState DEF ProtectedInv, FinalizingIsSeen
    <3> QED BY <1>4, <3>1, <3>2
  <2>2. Phase = "deleting" /\ Phase' = "absent" /\ Uid' = None
    BY <1>4, <2>1 DEF Phase, Uid
  <2>3. Lifecycle!Release
    BY <1>0, <1>1, <2>1, <2>2 DEF Lifecycle!Release
  <2> QED BY <2>3 DEF Step, Lifecycle!Next
<1> QED BY <1>2, <1>3, <1>4 DEF RemoveFinalizer

\* The binding is made by work that is under way, whatever becomes of the reply.
LEMMA ApplySteps ==
    ASSUME ProtectedInv,
           \/ ListNodes \/ DeleteWorkerJobsOnNotExistNode \/ ApplyServiceAccount
           \/ ApplyClusterRoleBinding \/ ApplyCronJob
    PROVE  Step
<1>1. /\ Uid' = Uid /\ Phase' = Phase /\ nextUid' = nextUid
      /\ pc \in Applying /\ (pc' = "idle" \/ rdcj' = rdcj)
  BY DEF ListNodes, DeleteWorkerJobsOnNotExistNode, ApplyServiceAccount,
         ApplyClusterRoleBinding, ApplyCronJob, others, Uid, Phase, Applying, Written, Goto,
         Fail, Requeue, End
<1>2. CASE crb' = crb
  BY <1>1, <1>2, CourseStep DEF Applying
<1>3. CASE crb' # crb
  <2>1. ApplyClusterRoleBinding /\ crb' = TRUE /\ pc = "applyCRB"
    BY <1>3 DEF ListNodes, DeleteWorkerJobsOnNotExistNode, ApplyServiceAccount, ApplyCronJob,
                ApplyClusterRoleBinding
  <2>2. rdcj.uid \in Uids /\ Working = rdcj.uid
    BY <1>1, <2>1, AbstractState DEF Working, DaemonCronJobs
  <2>3. Working # None
    BY <2>2
  <2>4. Working' \in {None, Working}
    BY <1>1, <2>2 DEF Working, Applying
  <2>5. Lifecycle!Make
    BY <1>1, <2>1, <2>3, <2>4 DEF Lifecycle!Make
  <2> QED BY <2>5 DEF Step, Lifecycle!Next
<1> QED BY <1>2, <1>3

\* The conditions are not part of the abstract object.
LEMMA StatusSteps == ASSUME ProtectedInv, UpdateStatus PROVE Step
<1>0. StateTypeOK
  BY DEF ProtectedInv, TypeOK
<1>1. /\ nextUid' = nextUid /\ crb' = crb /\ rdcj \in DaemonCronJobs /\ pc' \notin Applying
  BY <1>0, StatusWrites DEF UpdateStatus, others, Applying
<1>2. CASE dcj' = dcj
  BY <1>1, <1>2, CourseStep DEF Uid, Phase
<1>3. ASSUME NEW conds \in C!ConditionLists, NEW t \in BOOLEAN,
             dcj = rdcj, dcj' = [rdcj EXCEPT !.conds = conds, !.since = t]
      PROVE  Step
  <2>1. /\ dcj \in DaemonCronJobs /\ dcj' \in DaemonCronJobs
        /\ dcj'.uid = dcj.uid /\ dcj'.fin = dcj.fin /\ dcj'.deleting = dcj.deleting
    BY <1>1, <1>3 DEF DaemonCronJobs
  <2> QED BY <1>1, <2>1, SameObject, CourseStep
<1> QED BY <1>0, <1>2, <1>3, StatusWrites

\* Every step of the controller and its cluster is one of the abstract
\* specification's, or none.
LEMMA RefinementStep == ASSUME ProtectedInv, [Next]_vars PROVE Step
<1>1. CASE Outside(User)
  BY <1>1, UserSteps DEF Outside
<1>2. CASE Outside(Cluster) \/ Sync
  BY <1>2, FrameStep
     DEF Outside, Cluster, Sync, local, Uid, Phase, Working, NodeChanges, Tick, UpdateActive,
         RetireJob, RunStep, RunDies, Collect
<1>3. CASE Controller
  BY <1>3, ReconcileSteps, AddFinalizerSteps, FinalizingSteps, ApplySteps, StatusSteps
     DEF Controller
<1>4. CASE ApiError \/ Restart
  BY <1>4, CourseStep DEF ApiError, Restart, others, Requeue, End, Uid, Phase, Applying
<1>5. CASE UNCHANGED vars
  BY <1>5, FrameStep DEF vars, Uid, Phase, Working
<1> QED BY <1>1, <1>2, <1>3, <1>4, <1>5 DEF Next, Outside

\* Initially there is no object, no work and no resource.
LEMMA RefinementInit == Init => Lifecycle!Init
<1> SUFFICES ASSUME Init PROVE Lifecycle!Init
    OBVIOUS
<1>1. dcj = None /\ nextUid = 1 /\ crb = FALSE /\ pc = "idle"
  BY DEF Init
<1>2. Uid = None /\ Phase = "absent" /\ Working = None
  BY <1>1 DEF Uid, Phase, Working, Applying
<1>3. 1..(nextUid - 1) = {}
  BY <1>1
<1> QED BY <1>1, <1>2, <1>3 DEF Lifecycle!Init

\* The reconciler with its caches, conflicts, panics, lost replies and restarts
\* keeps the promise of module Finalizer.
THEOREM DaemonCronJobImplementsFinalizer == Spec => ImplementsFinalizer
<1>1. ProtectedInv /\ [Next]_vars => [Lifecycle!Next]_(Lifecycle!vars)
  BY RefinementStep DEF Step
<1> QED BY <1>1, RefinementInit, ProtectedInvariant, PTL
    DEF Spec, ImplementsFinalizer, Lifecycle!Spec
=============================================================================
