----------------------- MODULE UnretriedFailuresProofs -----------------------
(***************************************************************************)
(* For every value of the constants: the failures UnretriedFailures names  *)
(* are the only ones that leave an operator at rest out of sync, or a      *)
(* reported success untrue.                                                *)
(***************************************************************************)
EXTENDS UnretriedFailures, UpdateServiceSyncProofs, UpdateServiceSuccessProofs

\* The history watches the operator and changes nothing.
LEMMA HistoryOnly == UnretriedSpec => Spec
<1>1. UnretriedInit => Init
  BY DEF UnretriedInit
<1>2. [UnretriedNext]_unretriedVars => [Next]_vars
  BY DEF UnretriedNext, Works, Disturbed, GoesOn, unretriedVars, Next
<1> QED
  BY <1>1, <1>2, PTL DEF UnretriedSpec, Spec

\* Only Begin takes a pass from idle to its first step.
LEMMA OnlyBeginBegins == Reconcile /\ PassBegins => Begin
<1> SUFFICES ASSUME Reconcile, PassBegins PROVE Begin
  OBVIOUS
<1>1. ~EnsureObject /\ ~EnsureGraphData /\ ~EnsureDeployment /\ ~UpdateStatus
  BY DEF PassBegins, EnsureObject, EnsureNothing, EnsureCreates, EnsureKeeps, EnsureUpdates,
     EnsureSwallows, EnsureBreaks, EnsureTimesOut, Ensuring,
     EnsureGraphData, GraphDataPinned, GraphDataPodCreated, GraphDataPodDeleted,
     GraphDataResolved, GraphDataUnknown, Resolving,
     EnsureDeployment, DeploymentWritten, DeploymentLeftAlone, DeploymentFails,
     DeploymentTimesOut, UpdateStatus
<1> QED
  BY <1>1 DEF Reconcile, Gather, PassBegins, Ignore, BeginFails, Reject, FindPullSecret,
     PullSecretNotFound, FindTrustedCA, NoTrustedCA, TrustedCANotFound, GatherFails,
     FindClusterCA, RenderFails, ReturnError, Finish

\* A step of the loop that adds no failure.
LEMMA LoopSucceeds ==
  ASSUME EnsureObject, ~LoopFails
  PROVE  budget' = budget /\ ~(Kind = "pullSecret" /\ pc' = "graphData")
BY DEF LoopFails, EnsureObject, EnsureNothing, EnsureCreates, EnsureKeeps, EnsureUpdates,
   EnsureSwallows, EnsureBreaks, EnsureTimesOut, Ensuring

\* Users change the sources, and the rest of the surroundings leaves them alone.
LEMMA OnlyUsersChangeCA ==
  Deliver \/ TimerFires \/ Collect \/ InjectBundle \/ PodAdvances \/ Restart
    => CurrentCA' = CurrentCA
BY DEF Deliver, DeliverInstance, DeliverObject, TimerFires, Collect, CollectObject,
   CollectDeployment, CollectPod, InjectBundle, PodAdvances, Restart, cluster, CurrentCA

-----------------------------------------------------------------------------
(* What the failures leave. *)

\* The inductive invariant: the one of the operator without failures, until a failure
\* that nobody retries, and again from the beginning of the next pass.
RetriedInv == ~unretried => SyncInv

LEMMA RetriedStep ==
  TypeOK /\ Coherent /\ InformersFollow /\ RetriedInv /\ [UnretriedNext]_unretriedVars
    => RetriedInv'
<1> SUFFICES ASSUME TypeOK, Coherent, InformersFollow, RetriedInv,
                    [UnretriedNext]_unretriedVars, ~unretried'
             PROVE  SyncInv'
  BY DEF RetriedInv
<1>1. CASE Works /\ PassBegins
  BY <1>1, OnlyBeginBegins, SyncBegin DEF Works
<1>2. CASE Works /\ ~PassBegins
  <2>1. Reconcile /\ SyncInv /\ ~LoopFails
    BY <1>2 DEF Works, RetriedInv
  <2>2. CASE EnsureObject
    BY <2>1, <2>2, LoopSucceeds, SyncEnsure
  <2> QED
    BY <2>1, <2>2, SyncGather, SyncDeploy, SyncStatus DEF Reconcile
<1>3. CASE Disturbed
  <2>1. User /\ SyncInv /\ ~EventDropped
    BY <1>3 DEF Disturbed, RetriedInv
  <2> QED
    BY <2>1, SyncEnvironment DEF EventDropped
<1>4. CASE GoesOn
  <2>1. SyncInv
    BY <1>4 DEF GoesOn, RetriedInv
  <2> QED
    BY <1>4, <2>1, OnlyUsersChangeCA, SyncEnvironment DEF GoesOn
<1>5. CASE UNCHANGED unretriedVars
  BY <1>5, SyncFrame DEF unretriedVars, vars, CurrentCA, Calm, RetriedInv
<1> QED
  BY <1>1, <1>2, <1>3, <1>4, <1>5 DEF UnretriedNext

\* Whatever fails, loses its answer, drifts, restarts, is created again or lags behind, the
\* Secret informer included: an operator at rest has every watched object and the
\* Deployment in place, unless a failure nobody retries happened since its last pass began
\* (the errors Reconcile returns, RequeueAfter and the watches).
THEOREM RestIsInSyncUnlessUnretried == UnretriedSpec => []RetriedMeansInSync
<1>1. UnretriedInit => RetriedInv
  BY SyncInit DEF UnretriedInit, RetriedInv
<1>2. RetriedInv => RetriedMeansInSync
  BY SyncIsQuiet DEF RetriedInv, RetriedMeansInSync
<1> QED
  BY <1>1, <1>2, RetriedStep, HistoryOnly, Coherence, InformersAreRight, PTL DEF UnretriedSpec

\* What of a success the API accepts may be untrue without a wakeup: for any failure, drift,
\* edit and lag, and unless the pass's own loop met a failure nobody retries, an object that
\* is not what the spec asks for when the status is written has the request queued or the
\* event of a watched kind on its way (Owns and Watches of SetupWithManager), except the
\* copy of the pull secret, which no watch covers, and a Deployment that lost its init
\* container or its graph-builder container, which ensureDeployment does not put back.
THEOREM UntrueIsQueuedOrExcepted == UnretriedSpec => []RetriedMeansTold
<1>1. TypeOK /\ Coherent /\ RetriedInv => RetriedMeansTold
  <2> SUFFICES ASSUME TypeOK, Coherent, RetriedInv, ~unretried, pc = "status", pass.current,
                      request = "valid", ~Told, NEW k \in Untrue, k # "pullSecret"
               PROVE  k = "deployment" /\ Incomplete
    BY DEF RetriedMeansTold
  <2>1. behind \subseteq {"pullSecret"}
    BY LaggingAssumption DEF TypeOK, CacheTypeOK, Watched, Told
  <2>2. Calm
    BY <2>1 DEF Calm, Coherent, Told
  <2>3. PassCurrent /\ RestInPlace
    BY <2>2 DEF RetriedInv, SyncInv
  <2>4. pass.spec = inst.spec /\ pass.ca = CurrentCA
    BY <2>3 DEF PassCurrent
  <2>5. WatchedInPlace(inst.spec, CurrentCA) /\ DeploymentInPlace(inst.spec, CurrentCA)
    BY <2>3, <2>4 DEF RestInPlace
  <2>6. k \notin LoopKinds \/ InPlace(k, inst.spec, src.ps, CurrentCA)
    <3> SUFFICES ASSUME k \in Noticed PROVE InPlace(k, inst.spec, src.ps, CurrentCA)
      BY DEF Noticed
    <3>1. Rendered(inst.spec, src.ps, CurrentCA)[k] = Rendered(inst.spec, None, CurrentCA)[k]
      BY RenderedNoticed
    <3> QED
      BY <2>5, <3>1 DEF WatchedInPlace, InPlace
  <2>7. k = "deployment" /\ ~DeploymentReflects(inst.spec, CurrentCA)
    BY <2>6, KindsOfTheLoop DEF Untrue
  <2> QED
    BY <2>5, <2>7 DEF DeploymentInPlace, DeploymentReflects, Incomplete
<1>2. UnretriedInit => RetriedInv
  BY SyncInit DEF UnretriedInit, RetriedInv
<1> QED
  BY <1>1, <1>2, RetriedStep, HistoryOnly, Coherence, InformersAreRight, PTL DEF UnretriedSpec

-----------------------------------------------------------------------------
(* What a pass may say. *)

\* The same of DoneInv, which is about the pass and its spec.
RetriedDone == ~unretried => DoneInv

LEMMA DoneStep ==
  ASSUME AloneAssumption
  PROVE  TypeOK /\ Whole /\ RetriedDone /\ [UnretriedNext]_unretriedVars => RetriedDone'
<1> SUFFICES ASSUME TypeOK, Whole, RetriedDone, [UnretriedNext]_unretriedVars, ~unretried'
             PROVE  DoneInv'
  BY DEF RetriedDone
<1>1. CASE Works /\ PassBegins
  <2>1. Begin
    BY <1>1, OnlyBeginBegins DEF Works
  <2>2. pc' \in {"reject", "findPullSecret"} /\ pass'.clusterCA = "new"
    BY <2>1 DEF Begin, EmptyPass
  <2> QED
    BY <2>2 DEF DoneInv, PassedKinds
<1>2. CASE Works /\ ~PassBegins
  <2>1. Reconcile /\ DoneInv /\ ~LoopFails
    BY <1>2 DEF Works, RetriedDone
  <2>2. CASE EnsureObject
    BY <2>1, <2>2, LoopSucceeds, DoneEnsure
  <2>3. CASE UpdateStatus
    BY <2>3, DoneEnded DEF UpdateStatus, ReturnPeriodic, Finish
  <2> QED
    BY <2>1, <2>2, <2>3, DoneGather, DoneDeploy DEF Reconcile
<1>3. CASE Disturbed \/ GoesOn
  <2>1. DoneInv
    BY <1>3 DEF Disturbed, GoesOn, RetriedDone
  <2> QED
    BY <1>3, <2>1, DoneEnvironment DEF Disturbed, GoesOn
<1>4. CASE UNCHANGED unretriedVars
  BY <1>4, DoneFrame DEF unretriedVars, vars, RetriedDone, Serving, Alive
<1> QED
  BY <1>1, <1>2, <1>3, <1>4 DEF UnretriedNext

\* While the UpdateService of the pass lives and its loop met no failure, what the pass
\* has been through is in place.
LEMMA PassedIsDoneUnlessUnretried ==
  ASSUME AloneAssumption PROVE UnretriedSpec => []RetriedDone
<1>1. UnretriedInit => RetriedDone
  BY DEF UnretriedInit, Init, RetriedDone, DoneInv, Serving
<1> QED
  BY <1>1, DoneStep, StaysWhole, HistoryOnly, TypeCorrect, PTL DEF UnretriedSpec

\* An accepted ReconcileCompleted is true of the spec the API then holds, in every pass
\* whose loop met no failure: no error before the loop, of ensureGraphDataSHA, of
\* ensureDeployment or of an earlier pass makes it untrue.
THEOREM SuccessIsTrueUnlessUnretried ==
  ASSUME AloneAssumption PROVE UnretriedSpec => []RetriedMeansTrue
<1>1. TypeOK /\ Coherent /\ RetriedDone => RetriedMeansTrue
  BY DoneIsTrue DEF RetriedDone, RetriedMeansTrue
<1> QED
  BY <1>1, HistoryOnly, Coherence, PassedIsDoneUnlessUnretried, PTL

\* In the same passes a Deployment is written only when everything its Pods mount and the
\* PodDisruptionBudget that guards them are in place for the same spec.
THEOREM DeploymentIsGuardedUnlessUnretried ==
  ASSUME AloneAssumption PROVE UnretriedSpec => RetriedMeansGuarded
<1> DEFINE A == pc = "deployment" /\ deploy' # deploy /\ Alive(pass.uid) /\ ~unretried
                  => \A k \in LoopKinds : InPlace(k, pass.spec, pass.ps, pass.ca)
<1>1. RetriedDone => A
  BY DEF RetriedDone, DoneInv, Serving, PassedKinds
<1> QED
  BY <1>1, PassedIsDoneUnlessUnretried, PTL DEF RetriedMeansGuarded

=============================================================================
