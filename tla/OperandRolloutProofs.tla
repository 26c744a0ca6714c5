------------------------- MODULE OperandRolloutProofs -------------------------
(***************************************************************************)
(* For every value of the constants: an operator at rest leaves no Pod     *)
(* waiting for an object, and the Pods run the configuration of the spec.  *)
(* The operator under the rollout is UpdateServiceReconciler, so what is   *)
(* proved of it holds here too.                                            *)
(***************************************************************************)
EXTENDS OperandRollout, UpdateServiceSyncProofs, UpdateServiceSuccessProofs

\* A rollout is an execution of the operator with Pods that start now and then.
LEMMA OperatorRuns == RolloutSpec => Spec
<1>1. RolloutInit => Init
  BY DEF RolloutInit
<1>2. [RolloutNext]_rolloutVars => [Next]_vars
  BY DEF RolloutNext, Operate, Roll, PodsCollected, rolloutVars
<1> QED
  BY <1>1, <1>2, PTL DEF RolloutSpec, Spec

-----------------------------------------------------------------------------
(* The inductive invariant. *)

\* A Deployment has its init container and the one object whose loss nobody would
\* notice; the others are QuietMeansInSync's.
Startable == deploy # None => deploy.init # None /\ obj["pullSecret"] # None

\* What informer, pass and Deployment work with, the user asks or has asked for.
Asked(r) == r \in left \cup {inst.spec.releases}
OnlyAsked ==
  /\ cached # None => Asked(cached.spec.releases)
  /\ pc # "idle" => Asked(pass.spec.releases)
  /\ deploy # None => Asked(deploy.hash)

\* A value that users have not replaced moves from the informer to the pass to the
\* Deployment, and nothing behind it works with another.
InformerHas(r) == cached # None /\ cached.spec.releases = r
NeverBehind ==
  /\ pc # "idle" /\ pass.spec.releases \notin left => InformerHas(pass.spec.releases)
  /\ deploy # None /\ deploy.hash \notin left =>
       InformerHas(deploy.hash) /\ (pc # "idle" => pass.spec.releases = deploy.hash)

\* A hash that users have not replaced stands for the ConfigMap there is, and Pods with
\* it for the one they started with.
HashIsTrue ==
  /\ deploy # None /\ deploy.hash \notin left =>
       obj["gbConfig"] # None /\ obj["gbConfig"].val = deploy.hash
  /\ pods # None /\ pods.template.hash \notin left => pods.config = pods.template.hash

RolloutInv == inst # None => Startable /\ OnlyAsked /\ NeverBehind /\ HashIsTrue

-----------------------------------------------------------------------------
(* What the steps of the operator leave alone. *)

\* The steps of the operator and its surroundings other than those of users keep the
\* spec the UpdateService has.
SpecKept == inst' # None => inst # None /\ inst'.spec = inst.spec

\* A step that keeps the spec replaces no value.
LEMMA NothingReplaced == Operate /\ SpecKept => UNCHANGED <<left, pods>>
BY DEF Operate, SpecKept

\* A step that lets the spec, the informer, the Deployment and the two objects be, and
\* that at most ends the pass.
LEMMA RolloutFrame ==
  ASSUME RolloutInv, UNCHANGED <<left, pods, cached>>, SpecKept,
         pc' # "idle" => pc # "idle" /\ pass'.spec = pass.spec,
         inst # None => /\ deploy' = deploy /\ obj'["gbConfig"] = obj["gbConfig"]
                        /\ obj["pullSecret"] # None => obj'["pullSecret"] # None
  PROVE  RolloutInv'
<1> SUFFICES ASSUME inst' # None PROVE (Startable /\ OnlyAsked /\ NeverBehind /\ HashIsTrue)'
  BY DEF RolloutInv
<1>1. inst # None /\ inst'.spec = inst.spec
  BY DEF SpecKept
<1>2. Startable' /\ HashIsTrue'
  BY <1>1 DEF RolloutInv, Startable, HashIsTrue
<1>3. OnlyAsked'
  BY <1>1 DEF RolloutInv, OnlyAsked, Asked
<1>4. NeverBehind'
  BY <1>1 DEF RolloutInv, NeverBehind, InformerHas
<1> QED
  BY <1>2, <1>3, <1>4

\* While there is an UpdateService, it is the only one there was, and the garbage
\* collector finds nothing.
LEMMA NothingCollected ==
  ASSUME UndisturbedAssumption, TypeOK, inst # None
  PROVE  /\ \A k \in LoopKinds : ~Dead(k)
         /\ deploy # None => Alive(deploy.owner)
         /\ pc # "idle" => Serving
<1>1. inst.uid = 1
  BY DEF UndisturbedAssumption, AloneAssumption, TypeOK, ApiTypeOK
<1>2. ASSUME NEW k \in LoopKinds, obj[k] # None PROVE obj[k].owner = 1
  BY <1>2 DEF UndisturbedAssumption, AloneAssumption, TypeOK, ClusterTypeOK, Objects
<1>3. deploy # None => deploy.owner = 1
  BY DEF UndisturbedAssumption, AloneAssumption, TypeOK, ClusterTypeOK, Deployments
<1>4. pc # "idle" => pass.uid = 1
  BY DEF UndisturbedAssumption, AloneAssumption, TypeOK, PassTypeOK
<1> QED
  BY <1>1, <1>2, <1>3, <1>4 DEF Serving, Dead, Alive

-----------------------------------------------------------------------------
(* The steps of users, the informer and the rest of the cluster. *)

\* A user who changes the releases replaces everything anybody works with.
LEMMA RolloutEdit ==
  UndisturbedAssumption /\ TypeOK /\ RolloutInv /\ Operate
  /\ (EditSpec \/ DeleteInstance \/ RecreateInstance) => RolloutInv'
<1> SUFFICES ASSUME UndisturbedAssumption, TypeOK, RolloutInv, Operate, inst' # None,
                    EditSpec \/ DeleteInstance \/ RecreateInstance
             PROVE  RolloutInv'
  BY DEF RolloutInv
<1>1. CASE EditSpec
  <2>1. PICK s \in Specs : inst' = [inst EXCEPT !.spec = s]
    BY <1>1 DEF EditSpec, WriteInstance
  <2>2. inst # None /\ inst'.spec = s
    <3>1. inst \in [uid : 1..MaxUid, spec : Specs, status : Statuses]
      BY <1>1 DEF EditSpec, TypeOK, ApiTypeOK
    <3> QED
      BY <1>1, <2>1, <3>1 DEF EditSpec
  <2>3. UNCHANGED <<cached, obj, deploy, pods, pc>> /\ pass'.spec = pass.spec
    BY <1>1 DEF EditSpec, WriteInstance, Operate, cluster, TypeOK, PassTypeOK, Passes
  <2>4. left' = IF s.releases # inst.spec.releases THEN left \cup {inst.spec.releases} ELSE left
    BY <2>2 DEF Operate
  <2>5. Startable /\ OnlyAsked /\ NeverBehind /\ HashIsTrue
    BY <2>2 DEF RolloutInv
  <2>6. Startable' /\ HashIsTrue'
    BY <2>3, <2>4, <2>5 DEF Startable, HashIsTrue
  <2>7. \A r : Asked(r) => Asked(r)'
    BY <2>2, <2>4 DEF Asked
  <2>8. OnlyAsked'
    BY <2>3, <2>5, <2>7 DEF OnlyAsked
  <2>9. NeverBehind'
    BY <2>3, <2>4, <2>5 DEF NeverBehind, InformerHas
  <2> QED
    BY <2>6, <2>8, <2>9 DEF RolloutInv
<1>2. CASE DeleteInstance
  BY <1>2 DEF DeleteInstance, WriteInstance
<1>3. CASE RecreateInstance
  BY <1>3 DEF RecreateInstance, UndisturbedAssumption, AloneAssumption, TypeOK, ApiTypeOK
<1> QED
  BY <1>1, <1>2, <1>3

\* The informer takes in what the user asks for, and a restarted operator lists it.
LEMMA RolloutRead ==
  TypeOK /\ RolloutInv /\ Operate /\ (DeliverInstance \/ Restart) => RolloutInv'
<1> SUFFICES ASSUME TypeOK, RolloutInv, Operate, DeliverInstance \/ Restart, inst' # None
             PROVE  (Startable /\ OnlyAsked /\ NeverBehind /\ HashIsTrue)'
  BY DEF RolloutInv
<1>1. UNCHANGED <<inst, obj, deploy>> /\ cached' = [uid |-> inst.uid, spec |-> inst.spec]
      /\ (pc' # "idle" => UNCHANGED <<pc, pass>>)
  BY DEF DeliverInstance, Restart, Finish, cluster
<1>2. UNCHANGED <<left, pods>>
  BY <1>1, NothingReplaced DEF SpecKept
<1>3. cached' # None /\ cached'.spec = inst.spec
  <2>1. inst \in [uid : 1..MaxUid, spec : Specs, status : Statuses]
    BY <1>1 DEF TypeOK, ApiTypeOK
  <2> QED
    BY <1>1, <2>1, NoneIsNoCopy
<1>4. Startable /\ OnlyAsked /\ NeverBehind /\ HashIsTrue
  BY <1>1 DEF RolloutInv
<1>5. Startable' /\ HashIsTrue'
  BY <1>1, <1>2, <1>4 DEF Startable, HashIsTrue
<1>6. OnlyAsked' /\ NeverBehind'
  BY <1>1, <1>2, <1>3, <1>4 DEF OnlyAsked, NeverBehind, InformerHas, Asked
<1> QED
  BY <1>5, <1>6

\* Events, the sources, the rest of the cluster.
LEMMA RolloutEnvironment ==
  UndisturbedAssumption /\ TypeOK /\ RolloutInv /\ Operate
  /\ (Deliver \/ TimerFires \/ Collect \/ InjectBundle \/ PodAdvances \/ User \/ Restart)
    => RolloutInv'
<1> SUFFICES ASSUME UndisturbedAssumption, TypeOK, RolloutInv, Operate,
                    Deliver \/ TimerFires \/ Collect \/ InjectBundle \/ PodAdvances
                      \/ User \/ Restart
             PROVE  RolloutInv'
  OBVIOUS
<1>1. CASE TimerFires \/ PodAdvances \/ CollectPod \/ PullSecretChanges \/ ImageConfigChanges
           \/ TrustedCAChanges
  <2>1. UNCHANGED <<inst, cached, obj, deploy, pc, pass>>
    BY <1>1 DEF TimerFires, PodAdvances, CollectPod, PullSecretChanges, ImageConfigChanges,
       TrustedCAChanges, api, cluster
  <2> QED
    BY <2>1, NothingReplaced, RolloutFrame DEF SpecKept
<1>2. CASE InjectBundle
  <2>1. UNCHANGED <<inst, cached, deploy, pc, pass>>
        /\ obj'["gbConfig"] = obj["gbConfig"] /\ obj'["pullSecret"] = obj["pullSecret"]
    BY <1>2, KindsOfTheLoop DEF InjectBundle, api, TypeOK, ClusterTypeOK
  <2> QED
    BY <2>1, NothingReplaced, RolloutFrame DEF SpecKept
<1>3. CASE CollectDeployment \/ \E k \in LoopKinds : CollectObject(k)
  <2>1. inst = None /\ inst' = None
    BY <1>3, NothingCollected DEF CollectDeployment, CollectObject, api
  <2> QED
    BY <2>1 DEF RolloutInv
<1>4. CASE DeploymentDrifts \/ \E k \in LoopKinds : ObjectDrifts(k)
  BY <1>4, NoFaultNoDrift DEF DeploymentDrifts, ObjectDrifts
<1>5. CASE \E k \in Lagging : DeliverObject(k)
  BY <1>5 DEF UndisturbedAssumption, AloneAssumption
<1> QED
  BY <1>1, <1>2, <1>3, <1>4, <1>5, RolloutEdit, RolloutRead DEF User, Collect, Deliver

-----------------------------------------------------------------------------
(* The pass. *)

\* A status that is written leaves the spec alone.
LEMMA StatusKeepsSpec ==
  ASSUME TypeOK, NEW st, PersistStatus(st) \/ LoseStatus
  PROVE  SpecKept
<1>1. inst # None => inst \in [uid : 1..MaxUid, spec : Specs, status : Statuses]
  BY DEF TypeOK, ApiTypeOK
<1> QED
  BY <1>1 DEF PersistStatus, LoseStatus, SpecKept

\* The steps of a pass that write no object.
LEMMA RolloutGather ==
  TypeOK /\ RolloutInv /\ Operate /\ (Gather \/ EnsureGraphData \/ UpdateStatus) => RolloutInv'
<1> SUFFICES ASSUME TypeOK, RolloutInv, Operate, Gather \/ EnsureGraphData \/ UpdateStatus
             PROVE  RolloutInv'
  OBVIOUS
<1>0. pass \in Passes
  BY DEF TypeOK, PassTypeOK
<1>1. CASE Begin
  <2>1. UNCHANGED <<inst, cached, obj, deploy>>
        /\ pass' = [EmptyPass EXCEPT !.uid = cached.uid, !.spec = cached.spec, !.current = fresh]
        /\ cached # None
    BY <1>1 DEF Begin, api, cluster
  <2>2. pass'.spec = cached.spec
    BY <2>1 DEF EmptyPass
  <2>3. UNCHANGED <<left, pods>>
    BY <2>1, NothingReplaced DEF SpecKept
  <2> QED
    BY <2>1, <2>2, <2>3
       DEF RolloutInv, Startable, OnlyAsked, Asked, NeverBehind, InformerHas, HashIsTrue
<1>2. CASE Reject \/ UpdateStatus
  <2>1. SpecKept
    BY <1>2, StatusKeepsSpec DEF Reject, UpdateStatus
  <2>2. UNCHANGED <<cached, obj, deploy>> /\ pc' = "idle"
    BY <1>2 DEF Reject, UpdateStatus, ReturnPeriodic, Finish, cluster
  <2> QED
    BY <2>1, <2>2, NothingReplaced, RolloutFrame
<1>3. CASE BeginFails \/ PullSecretNotFound \/ TrustedCANotFound \/ GatherFails \/ RenderFails
           \/ Ignore
  <2>1. UNCHANGED <<inst, cached, obj, deploy>> /\ pc' = "idle"
    BY <1>3 DEF BeginFails, PullSecretNotFound, TrustedCANotFound, GatherFails, RenderFails,
       Ignore, ReturnError, Finish, api, cluster
  <2> QED
    BY <2>1, NothingReplaced, RolloutFrame DEF SpecKept
<1>4. CASE FindPullSecret \/ FindTrustedCA \/ NoTrustedCA \/ FindClusterCA \/ EnsureGraphData
  <2>1. UNCHANGED <<inst, cached, obj, deploy>> /\ pc # "idle"
    BY <1>4 DEF FindPullSecret, FindTrustedCA, NoTrustedCA, FindClusterCA, EnsureGraphData,
       GraphDataPinned, GraphDataPodCreated, GraphDataPodDeleted, GraphDataResolved,
       GraphDataUnknown, Resolving, api, cluster
  <2>2. pass'.spec = pass.spec
    BY <1>0, <1>4 DEF FindPullSecret, FindTrustedCA, NoTrustedCA, FindClusterCA, EnsureGraphData,
       GraphDataPinned, GraphDataPodCreated, GraphDataPodDeleted, GraphDataResolved,
       GraphDataUnknown, GraphDataDone, Passes
  <2> QED
    BY <2>1, <2>2, NothingReplaced, RolloutFrame DEF SpecKept
<1> QED
  BY <1>1, <1>2, <1>3, <1>4 DEF Gather

\* The ensure loop: a ConfigMap that is written holds what the pass asks for, which is
\* what the Deployment asks for unless users have replaced that.
LEMMA RolloutEnsure ==
  UndisturbedAssumption /\ TypeOK /\ RolloutInv /\ Operate /\ EnsureObject => RolloutInv'
<1> SUFFICES ASSUME UndisturbedAssumption, TypeOK, RolloutInv, Operate, EnsureObject
             PROVE  RolloutInv'
  OBVIOUS
<1>0. pc = "ensure" /\ PassTypeOK /\ pass \in Passes
  BY DEF TypeOK, PassTypeOK, EnsureObject, EnsureNothing, EnsureCreates, EnsureKeeps,
     EnsureUpdates, EnsureSwallows, EnsureBreaks, EnsureTimesOut, Ensuring
<1>1. UNCHANGED <<inst, cached, deploy>>
  BY DEF EnsureObject, EnsureNothing, EnsureCreates, EnsureKeeps, EnsureUpdates,
     EnsureSwallows, EnsureBreaks, EnsureTimesOut, api, cluster
<1>2. pass'.spec = pass.spec
  <2>1. Noted \in Passes /\ Noted.spec = pass.spec
    BY <1>0, NotedType DEF Noted, Passes
  <2> QED
    BY <1>0, <2>1 DEF EnsureObject, EnsureNothing, EnsureCreates, EnsureKeeps, EnsureUpdates,
       EnsureSwallows, EnsureBreaks, EnsureTimesOut, NextKind, Passes
<1>3. UNCHANGED <<left, pods>>
  BY <1>1, NothingReplaced DEF SpecKept
<1>4. CASE UNCHANGED obj
  BY <1>0, <1>1, <1>2, <1>3, <1>4, RolloutFrame DEF SpecKept
<1>5. CASE obj' # obj
  <2>1. Kind \in LoopKinds /\ obj' = [obj EXCEPT ![Kind] = Written]
    BY <1>0, <1>5, KindType DEF EnsureObject, EnsureNothing, EnsureCreates, EnsureKeeps,
       EnsureUpdates, EnsureSwallows, EnsureBreaks, EnsureTimesOut, cluster
  <2>2. obj'[Kind] = Written /\ \A k \in LoopKinds \ {Kind} : obj'[k] = obj[k]
    BY <2>1 DEF TypeOK, ClusterTypeOK
  <2>3. Written # None /\ Written.val = Want
    <3>1. Found = obj[Kind]
      BY <2>1, UpToDate, KindsOfTheLoop DEF UndisturbedAssumption, Found, Current
    <3>2. obj[Kind] # None => obj[Kind] \in Objects
      BY <2>1 DEF TypeOK, ClusterTypeOK
    <3>3. Want \in Contents /\ pass.uid \in 1..MaxUid
      BY <1>0, KindType DEF PassTypeOK
    <3>4. Written \in Objects /\ Written.val = Want
      BY <3>1, <3>2, <3>3 DEF Written, Objects
    <3> QED
      BY <3>4, ObjectsAssumption
  <2>4. Kind = "gbConfig" => Want = pass.spec.releases
    BY DEF Want, Rendered
  <2>5. "gbConfig" \in LoopKinds /\ "pullSecret" \in LoopKinds
    BY KindsOfTheLoop
  <2> SUFFICES ASSUME inst' # None
               PROVE  (Startable /\ OnlyAsked /\ NeverBehind /\ HashIsTrue)'
    BY DEF RolloutInv
  <2>6. inst # None /\ Startable /\ OnlyAsked /\ NeverBehind /\ HashIsTrue
    BY <1>1 DEF RolloutInv
  <2>7. Startable'
    BY <1>1, <2>2, <2>3, <2>5, <2>6 DEF Startable
  <2>8. OnlyAsked' /\ NeverBehind'
    BY <1>0, <1>1, <1>2, <1>3, <2>6 DEF OnlyAsked, Asked, NeverBehind, InformerHas
  <2>9. HashIsTrue'
    BY <1>0, <1>1, <1>3, <2>2, <2>3, <2>4, <2>5, <2>6 DEF NeverBehind, HashIsTrue
  <2> QED
    BY <2>7, <2>8, <2>9
<1> QED
  BY <1>4, <1>5

\* A Deployment that is written finds what its Pods mount in place, for the spec of the
\* same pass: DoneInv.
LEMMA RolloutDeploy ==
  UndisturbedAssumption /\ TypeOK /\ DoneInv /\ RolloutInv /\ Operate /\ EnsureDeployment
    => RolloutInv'
<1> SUFFICES ASSUME UndisturbedAssumption, TypeOK, DoneInv, RolloutInv, Operate, EnsureDeployment
             PROVE  RolloutInv'
  OBVIOUS
<1>0. pass \in Passes /\ pc = "deployment"
  BY DEF TypeOK, PassTypeOK, EnsureDeployment, DeploymentWritten, DeploymentLeftAlone,
     DeploymentFails, DeploymentTimesOut
<1>1. UNCHANGED <<inst, cached, obj>>
  BY DEF EnsureDeployment, DeploymentWritten, DeploymentLeftAlone, DeploymentFails,
     DeploymentTimesOut, api, cluster
<1>2. UNCHANGED <<left, pods>>
  BY <1>1, NothingReplaced DEF SpecKept
<1>3. CASE DeploymentLeftAlone \/ DeploymentFails
  <2>1. deploy' = deploy /\ (pc' # "idle" => pass'.spec = pass.spec)
    BY <1>0, <1>3 DEF DeploymentLeftAlone, DeploymentDone, DeploymentFails, ReturnError, Finish,
       cluster, Passes
  <2> QED
    BY <1>0, <1>1, <1>2, <2>1, RolloutFrame DEF SpecKept
<1>4. CASE DeploymentTimesOut
  BY <1>4, NoFaultNoDrift DEF DeploymentTimesOut
<1>5. CASE DeploymentWritten
  <2> SUFFICES ASSUME inst' # None
               PROVE  (Startable /\ OnlyAsked /\ NeverBehind /\ HashIsTrue)'
    BY DEF RolloutInv
  <2>1. inst # None /\ Startable /\ OnlyAsked /\ NeverBehind /\ HashIsTrue
    BY <1>1 DEF RolloutInv
  <2>2. pass'.spec = pass.spec
    BY <1>0, <1>5 DEF DeploymentWritten, DeploymentDone, Passes
  <2>3. pass.spec \in Specs /\ pass.spec.graphData # None /\ pass.uid \in 1..MaxUid
    BY <1>0, SpecsAssumption DEF TypeOK, PassTypeOK
  <2>4. deploy'.hash = pass.spec.releases /\ deploy'.init = pass.spec.graphData
    <3>1. FoundDeployment = deploy
      BY UpToDate DEF UndisturbedAssumption, FoundDeployment, Current
    <3>2. CASE deploy' = NewDeployment(pass.uid, pass.spec, pass.ca)
      BY <3>2 DEF NewDeployment
    <3>3. CASE deploy # None /\ deploy' = MergeDeployment(deploy, pass)
      <4>1. deploy \in Deployments
        BY <3>3 DEF TypeOK, ClusterTypeOK
      <4> QED
        BY <3>3, <4>1 DEF MergeDeployment, Deployments
    <3> QED
      BY <1>5, <3>1, <3>2, <3>3 DEF DeploymentWritten, WriteDeployment, NeedsMerge, Merged
  <2>5. /\ obj["gbConfig"] # None /\ obj["gbConfig"].val = pass.spec.releases
        /\ obj["pullSecret"] # None
    <3>1. \A k \in LoopKinds : InPlace(k, pass.spec, pass.ps, pass.ca)
      BY <1>0, <2>1, NothingCollected DEF DoneInv, PassedKinds
    <3>2. InPlace("gbConfig", pass.spec, pass.ps, pass.ca)
          /\ InPlace("pullSecret", pass.spec, pass.ps, pass.ca)
      BY <3>1, KindsOfTheLoop
    <3> QED
      BY <3>2 DEF InPlace, Unwanted, Rendered
  <2>6. Startable'
    BY <1>1, <2>3, <2>4, <2>5 DEF Startable
  <2>7. OnlyAsked' /\ NeverBehind'
    BY <1>0, <1>1, <1>2, <2>1, <2>2, <2>4 DEF OnlyAsked, Asked, NeverBehind, InformerHas
  <2>8. HashIsTrue'
    BY <1>1, <1>2, <2>1, <2>4, <2>5 DEF HashIsTrue
  <2> QED
    BY <2>6, <2>7, <2>8
<1> QED
  BY <1>3, <1>4, <1>5 DEF EnsureDeployment

-----------------------------------------------------------------------------
(* The Pods. *)

\* Pods that start take the hash from the Deployment and the content from the ConfigMap.
LEMMA RolloutPods == RolloutInv /\ (Roll \/ PodsCollected) => RolloutInv'
<1> SUFFICES ASSUME RolloutInv, Roll \/ PodsCollected, inst' # None
             PROVE  (Startable /\ OnlyAsked /\ NeverBehind /\ HashIsTrue)'
  BY DEF RolloutInv
<1>1. UNCHANGED <<inst, cached, obj, deploy, pc, pass, left>>
  BY DEF Roll, PodsCollected, vars
<1>2. Startable /\ OnlyAsked /\ NeverBehind /\ HashIsTrue
  BY <1>1 DEF RolloutInv
<1>3. Startable' /\ OnlyAsked' /\ NeverBehind'
  BY <1>1, <1>2 DEF Startable, OnlyAsked, Asked, NeverBehind, InformerHas
<1>4. HashIsTrue'
  <2>1. CASE Roll
    <3>1. deploy # None /\ pods'.template.hash = deploy.hash /\ pods'.config = obj["gbConfig"].val
      BY <2>1 DEF Roll, Template
    <3> QED
      BY <1>1, <1>2, <3>1 DEF HashIsTrue
  <2>2. CASE PodsCollected
    BY <1>1, <1>2, <2>2 DEF PodsCollected, HashIsTrue
  <2> QED
    BY <2>1, <2>2
<1> QED
  BY <1>3, <1>4

\* What Deployment and Pods say of the releases they run with is true, until users have
\* replaced that value.
THEOREM HashesAreTrue == ASSUME UndisturbedAssumption PROVE RolloutSpec => []RolloutInv
<1>1. RolloutInit => RolloutInv
  BY DEF RolloutInit, Init, RolloutInv, Startable, OnlyAsked, NeverBehind, HashIsTrue
<1>2. TypeOK /\ DoneInv /\ RolloutInv /\ [RolloutNext]_rolloutVars => RolloutInv'
  <2> SUFFICES ASSUME TypeOK, DoneInv, RolloutInv, [RolloutNext]_rolloutVars PROVE RolloutInv'
    OBVIOUS
  <2>1. CASE Operate
    BY <2>1, RolloutEnvironment, RolloutGather, RolloutEnsure, RolloutDeploy
       DEF Operate, Next, Reconcile
  <2>2. CASE UNCHANGED rolloutVars
    BY <2>2, RolloutFrame DEF rolloutVars, vars, SpecKept
  <2> QED
    BY <2>1, <2>2, RolloutPods DEF RolloutNext
<1> QED
  BY <1>1, <1>2, OperatorRuns, TypeCorrect, PassedIsDone, PTL DEF RolloutSpec

-----------------------------------------------------------------------------
(* The operator at rest. *)

\* What is undisturbed fails in no call and reads its secrets up to date.
LEMMA UndisturbedIsQuiet == UndisturbedAssumption => QuietAssumption
BY DEF UndisturbedAssumption, AloneAssumption, QuietAssumption

LEMMA RestIsInSync == QuietMeansInSync /\ AtRest => inst # None /\ Synced(inst.spec, CurrentCA)
BY DEF QuietMeansInSync, AtRest, Renderable

\* Pods are not left waiting for an object nobody is going to create: every ConfigMap
\* and Secret a Deployment names is there when the operator is at rest, though the loop
\* and ensureDeployment are different calls, between which users, sources, the garbage
\* collector and restarts come.
THEOREM PodsAlwaysStart == ASSUME UndisturbedAssumption PROVE RolloutSpec => []PodsCanStart
<1>1. QuietMeansInSync /\ RolloutInv => PodsCanStart
  <2> SUFFICES ASSUME QuietMeansInSync, RolloutInv, AtRest, deploy # None,
                      NEW k \in Mounted(deploy) \cup {"envConfig"}
               PROVE  obj[k] # None
    BY DEF PodsCanStart, CanStart
  <2>1. inst # None /\ Synced(inst.spec, CurrentCA)
    BY RestIsInSync
  <2>2. deploy.init # None /\ obj["pullSecret"] # None
    BY <2>1 DEF RolloutInv, Startable
  <2>3. deploy.volumes = Mounts(CurrentCA)
    BY <2>1, <2>2 DEF Synced, DeploymentInPlace
  <2>4. \A j \in Noticed : InPlace(j, inst.spec, None, CurrentCA)
    BY <2>1 DEF Synced, WatchedInPlace
  <2>5. CASE k = "pullSecret"
    BY <2>2, <2>5
  <2>6. CASE k # "pullSecret"
    <3>1. k \in Noticed
      BY <2>6, KindsOfTheLoop DEF Noticed, Mounted
    <3>2. ~Unwanted(k, CurrentCA)
      BY <2>3, <2>6 DEF Mounted, Mounts, Unwanted
    <3> QED
      BY <2>4, <3>1, <3>2 DEF InPlace
  <2> QED
    BY <2>5, <2>6
<1> QED
  BY <1>1, OperatorRuns, UndisturbedIsQuiet, QuietIsInSync, HashesAreTrue, PTL

\* Once operator and rollout are done, the graph-builder runs with the configuration of
\* the current spec, whenever its Pods started (the config hash annotation, and the order
\* of ensureConfig and ensureDeployment).
THEOREM PodsAlwaysRunTheSpec ==
  ASSUME UndisturbedAssumption PROVE RolloutSpec => []PodsRunTheSpec
<1>1. QuietMeansInSync /\ RolloutInv => PodsRunTheSpec
  <2> SUFFICES ASSUME QuietMeansInSync, RolloutInv, AtRest, RolledOut,
                      inst.spec.releases \notin left
               PROVE  pods.config = inst.spec.releases
    BY DEF PodsRunTheSpec
  <2>1. inst # None /\ Synced(inst.spec, CurrentCA)
    BY RestIsInSync
  <2>2. deploy # None /\ deploy.hash = inst.spec.releases
    BY <2>1 DEF Synced, DeploymentInPlace, RolloutInv, Startable
  <2>3. pods # None /\ pods.template.hash = deploy.hash
    BY DEF RolledOut, Template
  <2> QED
    BY <2>1, <2>2, <2>3 DEF RolloutInv, HashIsTrue
<1> QED
  BY <1>1, OperatorRuns, UndisturbedIsQuiet, QuietIsInSync, HashesAreTrue, PTL

=============================================================================
