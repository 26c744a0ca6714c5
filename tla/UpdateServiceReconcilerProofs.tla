-------------------- MODULE UpdateServiceReconcilerProofs --------------------
(***************************************************************************)
(* Theorems about UpdateServiceReconciler, for every value of its          *)
(* constants that its assumptions allow.                                   *)
(***************************************************************************)
EXTENDS UpdateServiceReconciler, TLAPS

-----------------------------------------------------------------------------
(* What the operator renders. *)

\* The ten kinds, in extension.
LEMMA KindsOfTheLoop ==
  LoopKinds = {"gbConfig", "pullSecret", "envConfig", "clusterCA", "trustedCA",
               "gbService", "peService", "pdb", "route", "networkPolicy"}
BY DEF LoopKinds, EnsureOrder

\* Each position of the loop is a kind.
LEMMA LoopHasTenKinds ==
  Len(EnsureOrder) = 10 /\ \A i \in 1..10 : EnsureOrder[i] \in LoopKinds
BY DEF LoopKinds, EnsureOrder

\* A step that leaves the budget as it is meets no failure.
LEMMA FailureSpends == TypeOK /\ budget' = budget => ~Disturb("fault")
BY BoundsAssumption DEF TypeOK, WorkTypeOK, Disturb, CanDisturb

\* newKubeResources renders known contents only.
LEMMA RenderedContents ==
  ASSUME NEW s \in Specs, NEW ps \in Secrets \cup {None}, NEW ca \in Certs \cup {None},
         NEW k \in LoopKinds
  PROVE  Rendered(s, ps, ca)[k] \in Contents
BY KindsOfTheLoop, SMTT(30) DEF Rendered, Contents, MinAvailable

\* newVolumes mounts one of the two CA volumes, both or neither.
LEMMA MountsType == \A ca : Mounts(ca) \in Volumes
BY DEF Mounts, Volumes

\* The fields of a spec that reach the Deployment.
LEMMA SpecFields ==
  ASSUME NEW s \in Specs
  PROVE  s.replicas \in Nat /\ s.releases \in {t.releases : t \in Specs} /\ s.graphData \in Images
BY SpecsAssumption DEF Images

\* The locals of Reconcile between passes.
LEMMA EmptyPassType == EmptyPass \in Passes
BY BoundsAssumption DEF EmptyPass, Passes

-----------------------------------------------------------------------------
(* Type correctness. *)

\* A part of the state that a step leaves alone keeps its type.
LEMMA Frames ==
  /\ ApiTypeOK /\ UNCHANGED api => ApiTypeOK'
  /\ ClusterTypeOK /\ UNCHANGED <<src, obj, deploy, pod>> => ClusterTypeOK'
  /\ CacheTypeOK /\ UNCHANGED caches => CacheTypeOK'
  /\ ClusterTypeOK /\ CacheTypeOK /\ UNCHANGED cluster => ClusterTypeOK' /\ CacheTypeOK'
  /\ WorkTypeOK /\ UNCHANGED <<queue, budget>> => WorkTypeOK'
  /\ PassTypeOK /\ UNCHANGED <<pc, pass>> => PassTypeOK'
BY DEF ApiTypeOK, ClusterTypeOK, CacheTypeOK, WorkTypeOK, PassTypeOK, api, cluster, caches, queue

\* A change keeps the types of the informers and of the queue.
LEMMA NotifyType ==
  ASSUME CacheTypeOK, WorkTypeOK, NEW k, Notify(k)
  PROVE  CacheTypeOK' /\ dirty' \in BOOLEAN
BY DEF CacheTypeOK, WorkTypeOK, Notify, Enqueue

\* A pass that ends leaves the locals empty.
LEMMA FinishType == Finish => PassTypeOK'
BY EmptyPassType DEF Finish, PassTypeOK

\* A disturbance spends what is left of the budget.
LEMMA DisturbType == ASSUME WorkTypeOK, NEW d, Disturb(d) PROVE budget' \in 0..MaxDisturbances
BY BoundsAssumption DEF Disturb, CanDisturb, WorkTypeOK

\* The operator starts in a state of its types.
LEMMA InitType == Init => TypeOK
<1> SUFFICES ASSUME Init PROVE TypeOK
  OBVIOUS
<1>1. ApiTypeOK
  <2>1. PICK s \in Specs : inst = [uid |-> 1, spec |-> s, status |-> NoStatus]
    BY DEF Init
  <2>2. inst \in [uid : 1..MaxUid, spec : Specs, status : Statuses]
    BY <2>1, BoundsAssumption DEF NoStatus, Statuses
  <2>3. cached = None /\ fresh = FALSE /\ request \in Requests /\ uids \in 1..MaxUid
    BY BoundsAssumption DEF Init
  <2> QED
    BY <2>2, <2>3 DEF ApiTypeOK
<1>2. ClusterTypeOK
  BY SourcesAssumption DEF Init, ClusterTypeOK
<1>3. CacheTypeOK
  BY DEF Init, CacheTypeOK
<1>4. WorkTypeOK
  <2>1. dirty \in BOOLEAN /\ timer = "off"
    BY Zenon DEF Init
  <2>2. budget \in 0..MaxDisturbances
    BY BoundsAssumption DEF Init
  <2> QED
    BY <2>1, <2>2 DEF WorkTypeOK
<1>5. PassTypeOK
  BY EmptyPassType DEF Init, PassTypeOK
<1> QED
  BY <1>1, <1>2, <1>3, <1>4, <1>5 DEF TypeOK

\* Events, timers and ignored requests touch the informer and the queue only.
LEMMA QueueType == TypeOK /\ (Deliver \/ TimerFires \/ Ignore) => TypeOK'
<1> SUFFICES ASSUME TypeOK, Deliver \/ TimerFires \/ Ignore PROVE TypeOK'
  OBVIOUS
<1>1. CASE DeliverInstance
  <2>1. ApiTypeOK'
    BY <1>1 DEF TypeOK, ApiTypeOK, DeliverInstance
  <2>2. WorkTypeOK'
    BY <1>1 DEF TypeOK, WorkTypeOK, DeliverInstance
  <2> QED
    BY <1>1, <2>1, <2>2, Frames DEF TypeOK, DeliverInstance
<1>2. CASE TimerFires
  <2>1. WorkTypeOK'
    BY <1>2 DEF TypeOK, WorkTypeOK, TimerFires
  <2> QED
    BY <1>2, <2>1, Frames DEF TypeOK, TimerFires
<1>3. CASE Ignore
  <2>1. WorkTypeOK'
    BY <1>3 DEF TypeOK, WorkTypeOK, Ignore
  <2> QED
    BY <1>3, <2>1, Frames DEF TypeOK, Ignore
<1>4. CASE \E k \in Lagging : DeliverObject(k)
  <2>1. PICK k \in Lagging : DeliverObject(k)
    BY <1>4
  <2>2. Current(k) \in {None} \cup IF k = "deployment" THEN Deployments ELSE Objects
    BY LaggingAssumption DEF TypeOK, ClusterTypeOK, Current
  <2>3. CacheTypeOK'
    BY <2>1, <2>2 DEF TypeOK, CacheTypeOK, DeliverObject
  <2>4. WorkTypeOK'
    BY <2>1 DEF TypeOK, WorkTypeOK, DeliverObject, Enqueue
  <2> QED
    BY <2>1, <2>3, <2>4, Frames DEF TypeOK, DeliverObject
<1> QED
  BY <1>1, <1>2, <1>3, <1>4 DEF Deliver

\* A returned error, with or without a failure spent.
LEMMA ErrorType ==
  ASSUME TypeOK, UNCHANGED <<api, cluster>>, ReturnError, dirty' \in BOOLEAN,
         budget' \in 0..MaxDisturbances
  PROVE  TypeOK'
BY Frames, FinishType DEF TypeOK, WorkTypeOK, ReturnError

\* An accepted or lost status.
LEMMA PersistType ==
  ASSUME TypeOK, NEW st \in Statuses, PersistStatus(st) \/ LoseStatus,
         UNCHANGED <<cached, request, uids>>
  PROVE  ApiTypeOK'
<1>1. CASE LoseStatus
  BY <1>1 DEF LoseStatus, TypeOK, ApiTypeOK
<1>2. CASE PersistStatus(st)
  <2>1. inst \in [uid : 1..MaxUid, spec : Specs, status : Statuses]
    BY <1>2 DEF PersistStatus, TypeOK, ApiTypeOK
  <2>2. inst' \in [uid : 1..MaxUid, spec : Specs, status : Statuses]
    BY <1>2, <2>1 DEF PersistStatus
  <2>3. fresh' \in BOOLEAN
    BY <1>2, Zenon DEF PersistStatus, TypeOK, ApiTypeOK
  <2> QED
    BY <2>2, <2>3 DEF TypeOK, ApiTypeOK
<1> QED
  BY <1>1, <1>2

\* A pass starts for the incarnation and the spec the informer has.
LEMMA BeginType == TypeOK /\ Begin => TypeOK'
<1> SUFFICES ASSUME TypeOK, Begin PROVE TypeOK'
  OBVIOUS
<1>1. cached \in [uid : 1..MaxUid, spec : Specs] /\ fresh \in BOOLEAN
  BY DEF TypeOK, ApiTypeOK, Begin
<1>2. pass' \in Passes /\ pass'.uid \in 1..MaxUid /\ pass'.spec \in Specs /\ pass'.next = 1
  <2>1. pass' = [EmptyPass EXCEPT !.uid = cached.uid, !.spec = cached.spec, !.current = fresh]
    BY DEF Begin
  <2>2. cached.uid \in 0..MaxUid /\ cached.uid \in 1..MaxUid /\ cached.spec \in Specs
    BY <1>1
  <2> QED
    BY <1>1, <2>1, <2>2, EmptyPassType DEF EmptyPass, Passes
<1>3. PassTypeOK'
  BY <1>2 DEF Begin, PassTypeOK, Steps
<1>4. WorkTypeOK'
  BY DEF Begin, TypeOK, WorkTypeOK
<1> QED
  BY <1>3, <1>4, Frames DEF TypeOK, Begin

\* The early error returns of Reconcile.
LEMMA GatherErrorsType ==
  TypeOK /\ (BeginFails \/ PullSecretNotFound \/ TrustedCANotFound \/ GatherFails \/ RenderFails)
    => TypeOK'
<1> SUFFICES ASSUME TypeOK,
                    BeginFails \/ PullSecretNotFound \/ TrustedCANotFound \/ GatherFails \/ RenderFails
             PROVE  TypeOK'
  OBVIOUS
<1>1. budget' \in 0..MaxDisturbances
  BY DisturbType DEF TypeOK, WorkTypeOK, BeginFails, PullSecretNotFound, TrustedCANotFound,
     GatherFails, RenderFails
<1>2. dirty' \in BOOLEAN
  BY DEF TypeOK, WorkTypeOK, BeginFails, PullSecretNotFound, TrustedCANotFound, GatherFails,
     RenderFails
<1> QED
  BY <1>1, <1>2, ErrorType DEF BeginFails, PullSecretNotFound, TrustedCANotFound, GatherFails,
     RenderFails

\* validateRouteName fails: only the status is written.
LEMMA RejectType == TypeOK /\ Reject => TypeOK'
<1> SUFFICES ASSUME TypeOK, Reject PROVE TypeOK'
  OBVIOUS
<1>1. [NoStatus EXCEPT !.error = TRUE] \in Statuses
  BY DEF NoStatus, Statuses
<1>2. ApiTypeOK'
  BY <1>1, PersistType DEF Reject
<1>3. WorkTypeOK'
  BY DisturbType DEF TypeOK, WorkTypeOK, Reject, LoseStatus, queue
<1> QED
  BY <1>2, <1>3, Frames, FinishType DEF TypeOK, Reject

\* The lookups of the sources store what they found.
LEMMA FindType ==
  TypeOK /\ (FindPullSecret \/ FindTrustedCA \/ NoTrustedCA \/ FindClusterCA) => TypeOK'
<1> SUFFICES ASSUME TypeOK,
                    FindPullSecret \/ FindTrustedCA \/ NoTrustedCA \/ FindClusterCA
             PROVE  TypeOK'
  OBVIOUS
<1> USE DEF TypeOK
<1>1. CASE FindPullSecret
  <2>1. PassTypeOK'
    BY <1>1 DEF FindPullSecret, PassTypeOK, Passes, Steps, ClusterTypeOK
  <2> QED
    BY <1>1, <2>1, Frames DEF FindPullSecret
<1>2. CASE FindTrustedCA
  <2>1. PassTypeOK'
    BY <1>2 DEF FindTrustedCA, PassTypeOK, Passes, Steps
  <2> QED
    BY <1>2, <2>1, Frames DEF FindTrustedCA
<1>3. CASE NoTrustedCA
  <2>1. PassTypeOK'
    BY <1>3 DEF NoTrustedCA, PassTypeOK, Passes, Steps
  <2> QED
    BY <1>3, <2>1, Frames DEF NoTrustedCA
<1>4. CASE FindClusterCA
  <2>1. pass' \in Passes /\ pass'.uid = pass.uid /\ pass'.spec = pass.spec /\ pass'.next = pass.next
    BY <1>4 DEF FindClusterCA, PassTypeOK, Passes
  <2>2. PassTypeOK'
    BY <1>4, <2>1 DEF FindClusterCA, PassTypeOK, Passes, Steps
  <2>3. WorkTypeOK'
    BY <1>4, DisturbType DEF FindClusterCA, WorkTypeOK, queue
  <2> QED
    BY <1>4, <2>2, <2>3, Frames DEF FindClusterCA
<1> QED
  BY <1>1, <1>2, <1>3, <1>4

\* What an ensure function notes touches neither the instance nor the position.
LEMMA NotedType ==
  ASSUME PassTypeOK, pc = "ensure"
  PROVE  /\ Noted \in Passes /\ Noted.uid \in 1..MaxUid /\ Noted.spec \in Specs
         /\ Noted.next = pass.next
BY DEF Noted, PassTypeOK, Passes

\* The loop stays within its ten positions.
LEMMA NextKindType ==
  ASSUME PassTypeOK, pc = "ensure", NEW p \in Passes, p.uid \in 1..MaxUid, p.spec \in Specs,
         p.next = pass.next, NextKind(p)
  PROVE  PassTypeOK'
<1>1. p.next \in 1..10 /\ pass.next \in 1..10
  BY DEF PassTypeOK, Passes
<1>2. pass' \in Passes /\ pass'.uid \in 1..MaxUid /\ pass'.spec \in Specs
      /\ pass'.next = pass.next + 1
  BY <1>1 DEF NextKind, Passes
<1>3. pc' = IF pass.next = 10 THEN "graphData" ELSE "ensure"
  BY LoopHasTenKinds DEF NextKind
<1> QED
  BY <1>1, <1>2, <1>3 DEF PassTypeOK, Steps

\* The position of the loop names a kind, and what it should hold is rendered.
LEMMA KindType ==
  ASSUME PassTypeOK, pc = "ensure"
  PROVE  Kind \in LoopKinds /\ Want \in Contents
<1>1. pass.next \in 1..10 /\ pass.spec \in Specs /\ pass.ps \in Secrets \cup {None}
      /\ pass.ca \in Certs \cup {None}
  BY DEF PassTypeOK, Passes
<1>2. Kind \in LoopKinds
  BY <1>1, LoopHasTenKinds DEF Kind
<1> QED
  BY <1>1, <1>2, RenderedContents DEF Want

\* What an ensure function writes is an object.
LEMMA WrittenType ==
  ASSUME PassTypeOK, ClusterTypeOK, CacheTypeOK, pc = "ensure"
  PROVE  [obj EXCEPT ![Kind] = Written] \in [LoopKinds -> {None} \cup Objects]
<1>1. Kind \in LoopKinds /\ Want \in Contents /\ pass.uid \in 1..MaxUid
  BY KindType DEF PassTypeOK
<1>2. Found \in {None} \cup Objects
  <2>1. Kind # "deployment"
    BY <1>1, KindsOfTheLoop
  <2> QED
    BY <1>1, <2>1 DEF Found, Seen, Current, ClusterTypeOK, CacheTypeOK
<1>3. Written \in Objects
  BY <1>1, <1>2 DEF Written, Objects
<1> QED
  BY <1>1, <1>3 DEF ClusterTypeOK

\* The functions of the ensure loop.
LEMMA EnsureType == TypeOK /\ EnsureObject => TypeOK'
<1> SUFFICES ASSUME TypeOK, EnsureObject PROVE TypeOK'
  OBVIOUS
<1> USE DEF TypeOK, Ensuring
<1>1. CASE EnsureNothing
  <2>1. pass \in Passes /\ pass.uid \in 1..MaxUid /\ pass.spec \in Specs /\ pc = "ensure"
    BY <1>1 DEF EnsureNothing, PassTypeOK
  <2>2. PassTypeOK'
    BY <1>1, <2>1, NextKindType DEF EnsureNothing
  <2> QED
    BY <1>1, <2>2, Frames DEF EnsureNothing
<1>2. CASE EnsureCreates
  <2>1. PassTypeOK'
    BY <1>2, NotedType, NextKindType DEF EnsureCreates
  <2>3. ClusterTypeOK'
    BY <1>2, WrittenType DEF EnsureCreates, ClusterTypeOK
  <2>4. CacheTypeOK' /\ dirty' \in BOOLEAN
    BY <1>2, NotifyType DEF EnsureCreates
  <2>5. WorkTypeOK'
    BY <1>2, <2>4 DEF EnsureCreates, WorkTypeOK
  <2> QED
    BY <1>2, <2>1, <2>3, <2>4, <2>5, Frames DEF EnsureCreates
<1>3. CASE EnsureKeeps
  <2>1. PassTypeOK'
    BY <1>3, NotedType, NextKindType DEF EnsureKeeps
  <2> QED
    BY <1>3, <2>1, Frames DEF EnsureKeeps
<1>4. CASE EnsureUpdates
  <2>1. PassTypeOK'
    BY <1>4, NotedType, NextKindType DEF EnsureUpdates
  <2>3. ClusterTypeOK'
    BY <1>4, WrittenType DEF EnsureUpdates, ClusterTypeOK
  <2>4. CacheTypeOK' /\ dirty' \in BOOLEAN
    BY <1>4, NotifyType DEF EnsureUpdates
  <2>5. WorkTypeOK'
    BY <1>4, <2>4 DEF EnsureUpdates, WorkTypeOK
  <2> QED
    BY <1>4, <2>1, <2>3, <2>4, <2>5, Frames DEF EnsureUpdates
<1>5. CASE EnsureSwallows
  <2> DEFINE p == [Noted EXCEPT !.completed = "failed"]
  <2>1. p \in Passes /\ p.uid \in 1..MaxUid /\ p.spec \in Specs /\ p.next = pass.next
    BY <1>5, NotedType DEF EnsureSwallows, Passes
  <2>2. PassTypeOK'
    BY <1>5, <2>1, NextKindType DEF EnsureSwallows
  <2>3. WorkTypeOK'
    BY <1>5, DisturbType DEF EnsureSwallows, WorkTypeOK, queue
  <2> QED
    BY <1>5, <2>2, <2>3, Frames DEF EnsureSwallows
<1>6. CASE EnsureBreaks
  <2>1. PassTypeOK'
    BY <1>6, NotedType DEF EnsureBreaks, PassTypeOK, Passes, Steps
  <2>2. WorkTypeOK'
    BY <1>6, DisturbType DEF EnsureBreaks, WorkTypeOK, queue
  <2> QED
    BY <1>6, <2>1, <2>2, Frames DEF EnsureBreaks
<1>7. CASE EnsureTimesOut
  <2>1. PassTypeOK'
    BY <1>7, NotedType DEF EnsureTimesOut, PassTypeOK, Passes, Steps
  <2>3. ClusterTypeOK'
    BY <1>7, WrittenType DEF EnsureTimesOut, ClusterTypeOK
  <2>4. CacheTypeOK' /\ dirty' \in BOOLEAN
    BY <1>7, NotifyType DEF EnsureTimesOut
  <2>5. WorkTypeOK'
    BY <1>7, <2>4, DisturbType DEF EnsureTimesOut, WorkTypeOK
  <2> QED
    BY <1>7, <2>1, <2>3, <2>4, <2>5, Frames DEF EnsureTimesOut
<1> QED
  BY <1>1, <1>2, <1>3, <1>4, <1>5, <1>6, <1>7 DEF EnsureObject

\* ensureGraphDataSHA.
LEMMA GraphDataType == TypeOK /\ EnsureGraphData => TypeOK'
<1> SUFFICES ASSUME TypeOK, EnsureGraphData PROVE TypeOK'
  OBVIOUS
<1> USE DEF TypeOK, GraphDataDone, Resolving
<1>1. CASE GraphDataPinned
  <2>1. PassTypeOK'
    BY <1>1 DEF GraphDataPinned, PassTypeOK, Steps
  <2> QED
    BY <1>1, <2>1, Frames DEF GraphDataPinned
<1>2. CASE GraphDataPodCreated
  <2>1. PassTypeOK'
    BY <1>2 DEF GraphDataPodCreated, PassTypeOK, Steps
  <2>2. ClusterTypeOK'
    BY <1>2, SpecFields DEF GraphDataPodCreated, ClusterTypeOK, PassTypeOK
  <2>3. WorkTypeOK'
    BY <1>2 DEF GraphDataPodCreated, WorkTypeOK
  <2> QED
    BY <1>2, <2>1, <2>2, <2>3, Frames DEF GraphDataPodCreated
<1>3. CASE GraphDataPodDeleted
  <2>1. PassTypeOK'
    BY <1>3 DEF GraphDataPodDeleted, PassTypeOK, Steps
  <2>2. ClusterTypeOK'
    BY <1>3 DEF GraphDataPodDeleted, ClusterTypeOK
  <2>3. WorkTypeOK'
    BY <1>3 DEF GraphDataPodDeleted, WorkTypeOK
  <2> QED
    BY <1>3, <2>1, <2>2, <2>3, Frames DEF GraphDataPodDeleted
<1>4. CASE GraphDataResolved
  <2>1. pod.image \in Images
    BY <1>4 DEF GraphDataResolved, ClusterTypeOK
  <2>2. PassTypeOK'
    BY <1>4, <2>1 DEF GraphDataResolved, PassTypeOK, Passes, Steps
  <2> QED
    BY <1>4, <2>2, Frames DEF GraphDataResolved
<1>5. CASE GraphDataUnknown
  <2>1. PassTypeOK'
    BY <1>5 DEF GraphDataUnknown, PassTypeOK, Passes, Steps
  <2>2. WorkTypeOK'
    BY <1>5, DisturbType DEF GraphDataUnknown, WorkTypeOK, queue
  <2> QED
    BY <1>5, <2>1, <2>2, Frames DEF GraphDataUnknown
<1> QED
  BY <1>1, <1>2, <1>3, <1>4, <1>5 DEF EnsureGraphData

\* newDeployment builds a Deployment.
LEMMA NewDeploymentType ==
  ASSUME NEW u \in 1..MaxUid, NEW s \in Specs, NEW ca
  PROVE  NewDeployment(u, s, ca) \in Deployments
BY MountsType, SpecFields DEF NewDeployment, Deployments

\* So do the overwrites of ensureDeployment.
LEMMA MergeDeploymentType ==
  ASSUME NEW d \in Deployments, NEW p \in Passes, p.spec \in Specs
  PROVE  MergeDeployment(d, p) \in Deployments
<1>1. /\ p.spec.replicas \in Nat /\ p.spec.releases \in {s.releases : s \in Specs}
      /\ p.spec.graphData \in Images
  BY SpecFields
<1>2. Mounts(p.ca) \in Volumes /\ p.sha \in Images \cup {None}
  BY MountsType DEF Passes
<1> QED
  BY <1>1, <1>2 DEF MergeDeployment, Deployments

\* ensureDeployment and the last status update.
LEMMA DeployType == TypeOK /\ (EnsureDeployment \/ UpdateStatus) => TypeOK'
<1> SUFFICES ASSUME TypeOK, EnsureDeployment \/ UpdateStatus PROVE TypeOK'
  OBVIOUS
<1> USE DEF TypeOK, DeploymentDone
<1>1. ASSUME pc = "deployment", WriteDeployment
      PROVE  deploy' \in Deployments
  <2>1. pass \in Passes /\ pass.uid \in 1..MaxUid /\ pass.spec \in Specs
    BY <1>1 DEF PassTypeOK
  <2>2. FoundDeployment # None => FoundDeployment \in Deployments
    BY DEF ClusterTypeOK, CacheTypeOK, FoundDeployment, Seen, Current
  <2> QED
    BY <1>1, <2>1, <2>2, NewDeploymentType, MergeDeploymentType
       DEF WriteDeployment, NeedsMerge, Merged
<1>2. CASE DeploymentWritten
  <2>1. PassTypeOK'
    BY <1>2 DEF DeploymentWritten, PassTypeOK, Passes, Steps
  <2>2. deploy' \in Deployments /\ Notify("deployment")
    BY <1>1, <1>2 DEF DeploymentWritten, WriteDeployment
  <2>3. ClusterTypeOK'
    BY <1>2, <2>2 DEF DeploymentWritten, ClusterTypeOK
  <2>4. CacheTypeOK' /\ dirty' \in BOOLEAN
    BY <2>2, NotifyType
  <2>5. WorkTypeOK'
    BY <1>2, <2>4 DEF DeploymentWritten, WorkTypeOK
  <2> QED
    BY <1>2, <2>1, <2>3, <2>4, <2>5, Frames DEF DeploymentWritten
<1>3. CASE DeploymentLeftAlone
  <2>1. PassTypeOK'
    BY <1>3 DEF DeploymentLeftAlone, PassTypeOK, Passes, Steps
  <2> QED
    BY <1>3, <2>1, Frames DEF DeploymentLeftAlone
<1>4. CASE DeploymentFails
  <2>1. budget' \in 0..MaxDisturbances /\ dirty' \in BOOLEAN
    BY <1>4, DisturbType DEF DeploymentFails, WorkTypeOK
  <2> QED
    BY <1>4, <2>1, ErrorType DEF DeploymentFails
<1>5. CASE DeploymentTimesOut
  <2>1. deploy' \in Deployments /\ Notify("deployment")
    BY <1>1, <1>5 DEF DeploymentTimesOut, WriteDeployment
  <2>2. ClusterTypeOK'
    BY <1>5, <2>1 DEF DeploymentTimesOut, ClusterTypeOK
  <2>3. CacheTypeOK' /\ dirty' \in BOOLEAN
    BY <2>1, NotifyType
  <2>4. WorkTypeOK'
    BY <1>5, <2>3, DisturbType DEF DeploymentTimesOut, ReturnError, WorkTypeOK
  <2> QED
    BY <1>5, <2>2, <2>3, <2>4, Frames, FinishType DEF DeploymentTimesOut, ReturnError
<1>6. CASE UpdateStatus
  <2>1. StatusOf(pass) \in Statuses
    BY DEF StatusOf, Statuses, PassTypeOK, Passes
  <2>2. ApiTypeOK'
    BY <1>6, <2>1, PersistType DEF UpdateStatus
  <2>3. WorkTypeOK'
    BY <1>6, DisturbType DEF UpdateStatus, LoseStatus, ReturnPeriodic, WorkTypeOK
  <2> QED
    BY <1>6, <2>2, <2>3, Frames, FinishType DEF UpdateStatus, ReturnPeriodic
<1> QED
  BY <1>2, <1>3, <1>4, <1>5, <1>6 DEF EnsureDeployment

\* A write to the UpdateService outdates the pass and nothing else of it.
LEMMA OutdatedType ==
  ASSUME PassTypeOK, pc' = pc, pass' = [pass EXCEPT !.current = FALSE]
  PROVE  PassTypeOK'
BY DEF PassTypeOK, Passes

\* Users write well-formed specs and sources; drift leaves contents of the types.
LEMMA UserType == TypeOK /\ User => TypeOK'
<1> SUFFICES ASSUME TypeOK, User PROVE TypeOK'
  OBVIOUS
<1> USE DEF TypeOK, WriteInstance
<1>1. CASE EditSpec
  <2>1. ApiTypeOK'
    BY <1>1 DEF EditSpec, ApiTypeOK
  <2>2. WorkTypeOK'
    BY <1>1, DisturbType DEF EditSpec, WorkTypeOK, queue
  <2>3. PassTypeOK'
    BY <1>1, OutdatedType DEF EditSpec
  <2> QED
    BY <1>1, <2>1, <2>2, <2>3, Frames DEF EditSpec
<1>2. CASE DeleteInstance
  <2>1. ApiTypeOK'
    BY <1>2 DEF DeleteInstance, ApiTypeOK
  <2>2. WorkTypeOK'
    BY <1>2, DisturbType DEF DeleteInstance, WorkTypeOK, queue
  <2>3. PassTypeOK'
    BY <1>2, OutdatedType DEF DeleteInstance
  <2> QED
    BY <1>2, <2>1, <2>2, <2>3, Frames DEF DeleteInstance
<1>3. CASE RecreateInstance
  <2>1. PICK s \in Specs : inst' = [uid |-> uids + 1, spec |-> s, status |-> NoStatus]
    BY <1>3 DEF RecreateInstance
  <2>2. uids + 1 \in 1..MaxUid /\ NoStatus \in Statuses
    BY <1>3, BoundsAssumption DEF RecreateInstance, ApiTypeOK, NoStatus, Statuses
  <2>3. ApiTypeOK'
    BY <1>3, <2>1, <2>2 DEF RecreateInstance, ApiTypeOK
  <2>4. PassTypeOK'
    BY <1>3, OutdatedType DEF RecreateInstance
  <2> QED
    BY <1>3, <2>3, <2>4, Frames DEF RecreateInstance
<1>4. CASE PullSecretChanges
  <2>1. ClusterTypeOK'
    BY <1>4 DEF PullSecretChanges, ClusterTypeOK
  <2>2. WorkTypeOK'
    BY <1>4, DisturbType DEF PullSecretChanges, WorkTypeOK, queue
  <2> QED
    BY <1>4, <2>1, <2>2, Frames DEF PullSecretChanges
<1>5. CASE ImageConfigChanges
  <2>1. ClusterTypeOK'
    BY <1>5 DEF ImageConfigChanges, ClusterTypeOK
  <2>2. WorkTypeOK'
    BY <1>5, DisturbType DEF ImageConfigChanges, MapperEnqueues, WorkTypeOK
  <2> QED
    BY <1>5, <2>1, <2>2, Frames DEF ImageConfigChanges
<1>6. CASE TrustedCAChanges
  <2>1. ClusterTypeOK'
    BY <1>6 DEF TrustedCAChanges, ClusterTypeOK
  <2>2. WorkTypeOK'
    BY <1>6, DisturbType DEF TrustedCAChanges, MapperEnqueues, WorkTypeOK
  <2> QED
    BY <1>6, <2>1, <2>2, Frames DEF TrustedCAChanges
<1>7. CASE \E k \in LoopKinds : ObjectDrifts(k)
  <2>1. PICK k \in LoopKinds : ObjectDrifts(k)
    BY <1>7
  <2>2. ClusterTypeOK'
    BY <2>1 DEF ObjectDrifts, ClusterTypeOK, Objects, Contents
  <2>3. CacheTypeOK' /\ dirty' \in BOOLEAN
    BY <2>1, NotifyType DEF ObjectDrifts
  <2>4. WorkTypeOK'
    BY <2>1, <2>3, DisturbType DEF ObjectDrifts, WorkTypeOK
  <2> QED
    BY <2>1, <2>2, <2>3, <2>4, Frames DEF ObjectDrifts
<1>8. CASE DeploymentDrifts
  <2>1. PICK e \in DeploymentEdits : deploy' = Edited(deploy, e)
    BY <1>8 DEF DeploymentDrifts
  <2>2. deploy \in Deployments
    BY <1>8 DEF DeploymentDrifts, ClusterTypeOK
  <2>3. deploy' \in {None} \cup Deployments
    BY <2>1, <2>2, EditsAssumption DEF Edited, Deployments, Volumes
  <2>4. ClusterTypeOK'
    BY <1>8, <2>3 DEF DeploymentDrifts, ClusterTypeOK
  <2>5. CacheTypeOK' /\ dirty' \in BOOLEAN
    BY <1>8, NotifyType DEF DeploymentDrifts
  <2>6. WorkTypeOK'
    BY <1>8, <2>5, DisturbType DEF DeploymentDrifts, WorkTypeOK
  <2> QED
    BY <1>8, <2>4, <2>5, <2>6, Frames DEF DeploymentDrifts
<1> QED
  BY <1>1, <1>2, <1>3, <1>4, <1>5, <1>6, <1>7, <1>8 DEF User

\* The garbage collector, the kubelet, the network operator and restarts.
LEMMA ClusterType ==
  TypeOK /\ (Collect \/ InjectBundle \/ PodAdvances \/ Restart) => TypeOK'
<1> SUFFICES ASSUME TypeOK, Collect \/ InjectBundle \/ PodAdvances \/ Restart PROVE TypeOK'
  OBVIOUS
<1> USE DEF TypeOK
<1>1. CASE \E k \in LoopKinds : CollectObject(k)
  <2>1. PICK k \in LoopKinds : CollectObject(k)
    BY <1>1
  <2>2. ClusterTypeOK'
    BY <2>1 DEF CollectObject, ClusterTypeOK
  <2>3. CacheTypeOK' /\ dirty' \in BOOLEAN
    BY <2>1, NotifyType DEF CollectObject
  <2>4. WorkTypeOK'
    BY <2>1, <2>3 DEF CollectObject, WorkTypeOK
  <2> QED
    BY <2>1, <2>2, <2>3, <2>4, Frames DEF CollectObject
<1>2. CASE CollectDeployment \/ CollectPod
  <2>1. ClusterTypeOK'
    BY <1>2 DEF CollectDeployment, CollectPod, ClusterTypeOK
  <2>2. CacheTypeOK' /\ dirty' \in BOOLEAN
    BY <1>2, NotifyType, Frames DEF CollectDeployment, CollectPod
  <2>3. WorkTypeOK'
    BY <1>2, <2>2 DEF CollectDeployment, CollectPod, WorkTypeOK
  <2> QED
    BY <1>2, <2>1, <2>2, <2>3, Frames DEF CollectDeployment, CollectPod
<1>3. CASE InjectBundle
  <2>1. "clusterCA" \in LoopKinds
    BY KindsOfTheLoop
  <2>2. ClusterTypeOK'
    BY <1>3, <2>1 DEF InjectBundle, ClusterTypeOK, Objects, Contents
  <2>3. CacheTypeOK' /\ dirty' \in BOOLEAN
    BY <1>3, NotifyType DEF InjectBundle
  <2>4. WorkTypeOK'
    BY <1>3, <2>3 DEF InjectBundle, WorkTypeOK
  <2> QED
    BY <1>3, <2>2, <2>3, <2>4, Frames DEF InjectBundle
<1>4. CASE PodAdvances
  <2>1. ClusterTypeOK'
    BY <1>4 DEF PodAdvances, ClusterTypeOK
  <2>2. WorkTypeOK'
    BY <1>4 DEF PodAdvances, WorkTypeOK
  <2> QED
    BY <1>4, <2>1, <2>2, Frames DEF PodAdvances
<1>5. CASE Restart
  <2>1. ApiTypeOK'
    BY <1>5 DEF Restart, ApiTypeOK
  <2>2. dirty' \in BOOLEAN
    BY <1>5, Zenon DEF Restart
  <2>3. WorkTypeOK'
    BY <1>5, <2>2, DisturbType DEF Restart, WorkTypeOK
  <2>4. \A k \in Lagging :
          Current(k) \in {None} \cup IF k = "deployment" THEN Deployments ELSE Objects
    BY LaggingAssumption DEF ClusterTypeOK, Current
  <2>5. CacheTypeOK'
    BY <1>5, <2>4 DEF Restart, CacheTypeOK
  <2> QED
    BY <1>5, <2>1, <2>3, <2>5, Frames, FinishType DEF Restart
<1> QED
  BY <1>1, <1>2, <1>3, <1>4, <1>5 DEF Collect

\* Every step keeps the types.
LEMMA TypeStep == TypeOK /\ [Next]_vars => TypeOK'
<1> SUFFICES ASSUME TypeOK, [Next]_vars PROVE TypeOK'
  OBVIOUS
<1>1. CASE Next
  BY <1>1, QueueType, BeginType, GatherErrorsType, RejectType, FindType, EnsureType,
     GraphDataType, DeployType, UserType, ClusterType
     DEF Next, Reconcile, Gather
<1>2. CASE UNCHANGED vars
  BY <1>2, Frames DEF TypeOK, vars, api, caches, queue
<1> QED
  BY <1>1, <1>2

\* Every variable keeps its type: TypeOK is an invariant of the specification.
THEOREM TypeCorrect == Spec => []TypeOK
BY InitType, TypeStep, PTL DEF Spec

-----------------------------------------------------------------------------
(* The informer's copy, the pass and the API object; wake-ups. *)

\* The copy is of the same incarnation and spec as the pass before, or of none.
Keeps == pass'.current => pass.current /\ pass'.uid = pass.uid /\ pass'.spec = pass.spec

\* A step that leaves the API object, its copy and the request alone.
LEMMA CoherentFrame ==
  ASSUME Coherent, UNCHANGED <<inst, cached, fresh, request>>, Keeps, pc' # "reject"
  PROVE  Coherent'
BY DEF Coherent, Keeps

\* A pass that ended holds no copy any more.
LEMMA FinishKeeps == Finish => Keeps /\ ~pass'.current /\ pc' = "idle"
BY DEF Finish, Keeps, EmptyPass

\* What an ensure function notes is not about the instance.
LEMMA NotedKeeps ==
  /\ Noted.current = pass.current /\ Noted.uid = pass.uid /\ Noted.spec = pass.spec
  /\ PassTypeOK => \A c : LET p == [Noted EXCEPT !.completed = c] IN
       p.current = pass.current /\ p.uid = pass.uid /\ p.spec = pass.spec
BY DEF Noted, PassTypeOK, Passes

\* Neither is the step to the next function.
LEMMA NextKindKeeps ==
  ASSUME NEW p, p \in Passes, p.current = pass.current, p.uid = pass.uid, p.spec = pass.spec,
         NextKind(p)
  PROVE  Keeps /\ pc' # "reject"
BY DEF NextKind, Keeps, Passes

\* An absent object is none of the UpdateServices.
LEMMA NoneIsNoInstance == None \notin [uid : 1..MaxUid, spec : Specs, status : Statuses]
<1> SUFFICES ASSUME None \in [uid : 1..MaxUid, spec : Specs, status : Statuses] PROVE FALSE
  OBVIOUS
<1>1. None = [uid |-> None.uid, spec |-> None.spec, status |-> None.status]
      /\ None.uid \in 1..MaxUid /\ None.spec \in Specs /\ None.status \in Statuses
  OBVIOUS
<1> QED
  BY <1>1, NoneAssumption

\* Nor one of the copies the informer may have.
LEMMA NoneIsNoCopy ==
  ASSUME NEW u \in 1..MaxUid, NEW s \in Specs PROVE None # [uid |-> u, spec |-> s]
BY NoneAssumption

\* Coherent up to the rendered resources ...
LEMMA CoherentGather == TypeOK /\ Coherent /\ Gather => Coherent'
<1> SUFFICES ASSUME TypeOK, Coherent, Gather PROVE Coherent'
  OBVIOUS
<1>1. CASE Ignore
  BY <1>1 DEF Coherent, Ignore, api
<1>2. CASE Begin
  <2>1. cached # None /\ pass' = [EmptyPass EXCEPT !.uid = cached.uid, !.spec = cached.spec,
                                                   !.current = fresh]
    BY <1>2 DEF Begin
  <2>2. pass'.current = fresh /\ pass'.uid = cached.uid /\ pass'.spec = cached.spec
    BY <2>1 DEF EmptyPass
  <2>3. pc' = "reject" => request # "valid"
    BY <1>2 DEF Begin
  <2>4. fresh => inst # None /\ cached.uid = inst.uid /\ cached.spec = inst.spec
    BY <2>1 DEF Coherent
  <2>5. UNCHANGED <<inst, cached, fresh, request>>
    BY <1>2 DEF Begin, api
  <2> QED
    BY <2>2, <2>3, <2>4, <2>5 DEF Coherent
<1>3. CASE BeginFails \/ PullSecretNotFound \/ TrustedCANotFound \/ GatherFails \/ RenderFails
  BY <1>3, CoherentFrame, FinishKeeps
     DEF BeginFails, PullSecretNotFound, TrustedCANotFound, GatherFails, RenderFails, ReturnError, api
<1>4. CASE Reject
  <2>1. Finish /\ UNCHANGED <<cached, request>>
    BY <1>4 DEF Reject
  <2>2. ~pass'.current /\ pc' = "idle"
    BY <2>1, FinishKeeps
  <2>3. CASE UNCHANGED <<inst, fresh>>
    BY <2>1, <2>2, <2>3 DEF Coherent
  <2>4. CASE inst # None /\ pass.current /\ inst' = [inst EXCEPT !.status = [NoStatus EXCEPT !.error = TRUE]]
             /\ (fresh' = FALSE \/ fresh' = fresh)
    <3>1. inst \in [uid : 1..MaxUid, spec : Specs, status : Statuses]
      BY <2>4 DEF TypeOK, ApiTypeOK
    <3>2. [NoStatus EXCEPT !.error = TRUE] \in Statuses
      BY DEF NoStatus, Statuses
    <3>3. inst' \in [uid : 1..MaxUid, spec : Specs, status : Statuses]
      BY <2>4, <3>1, <3>2
    <3>4. inst'.uid = inst.uid /\ inst'.spec = inst.spec /\ inst' # None
      BY <2>4, <3>1, <3>3, NoneIsNoInstance
    <3> QED
      BY <2>1, <2>2, <2>4, <3>4 DEF Coherent
  <2> QED
    BY <1>4, <2>3, <2>4 DEF Reject, PersistStatus, LoseStatus
<1>5. CASE FindPullSecret \/ FindTrustedCA \/ NoTrustedCA \/ FindClusterCA
  <2>1. pass \in Passes
    BY DEF TypeOK, PassTypeOK
  <2>2. Keeps /\ pc' # "reject"
    BY <1>5, <2>1 DEF Keeps, Passes, FindPullSecret, FindTrustedCA, NoTrustedCA, FindClusterCA
  <2> QED
    BY <1>5, <2>2, CoherentFrame DEF FindPullSecret, FindTrustedCA, NoTrustedCA, FindClusterCA, api
<1> QED
  BY <1>1, <1>2, <1>3, <1>4, <1>5 DEF Gather

\* ... through the ensure loop ...
LEMMA CoherentEnsure == TypeOK /\ Coherent /\ EnsureObject => Coherent'
<1> SUFFICES ASSUME TypeOK, Coherent, EnsureObject PROVE Coherent'
  OBVIOUS
<1>1. pc = "ensure" /\ PassTypeOK
  BY DEF TypeOK, EnsureObject, EnsureNothing, EnsureCreates, EnsureKeeps, EnsureUpdates,
     EnsureSwallows, EnsureBreaks, EnsureTimesOut, Ensuring
<1>2. pass \in Passes /\ Noted \in Passes
  BY <1>1, NotedType DEF PassTypeOK
<1> DEFINE p == [Noted EXCEPT !.completed = "failed"]
<1>3. p \in Passes /\ p.current = pass.current /\ p.uid = pass.uid /\ p.spec = pass.spec
  BY <1>2, NotedKeeps DEF Passes
<1>4. Keeps /\ pc' # "reject"
  <2>1. CASE EnsureNothing
    BY <1>2, <2>1, NextKindKeeps DEF EnsureNothing
  <2>2. CASE EnsureCreates \/ EnsureKeeps \/ EnsureUpdates
    BY <1>2, <2>2, NotedKeeps, NextKindKeeps DEF EnsureCreates, EnsureKeeps, EnsureUpdates
  <2>3. CASE EnsureSwallows
    BY <1>3, <2>3, NextKindKeeps DEF EnsureSwallows
  <2>4. CASE EnsureBreaks \/ EnsureTimesOut
    BY <1>3, <2>4 DEF EnsureBreaks, EnsureTimesOut, Keeps
  <2> QED
    BY <2>1, <2>2, <2>3, <2>4 DEF EnsureObject
<1>5. UNCHANGED <<inst, cached, fresh, request>>
  BY DEF EnsureObject, EnsureNothing, EnsureCreates, EnsureKeeps, EnsureUpdates,
     EnsureSwallows, EnsureBreaks, EnsureTimesOut, api
<1> QED
  BY <1>4, <1>5, CoherentFrame

\* ... until the status is written ...
LEMMA CoherentFinal ==
  TypeOK /\ Coherent /\ (EnsureGraphData \/ EnsureDeployment \/ UpdateStatus) => Coherent'
<1> SUFFICES ASSUME TypeOK, Coherent, EnsureGraphData \/ EnsureDeployment \/ UpdateStatus
             PROVE  Coherent'
  OBVIOUS
<1>0. pass \in Passes
  BY DEF TypeOK, PassTypeOK
<1>1. CASE EnsureGraphData
  <2>1. Keeps /\ pc' # "reject"
    BY <1>0, <1>1 DEF EnsureGraphData, GraphDataPinned, GraphDataPodCreated, GraphDataPodDeleted,
       GraphDataResolved, GraphDataUnknown, GraphDataDone, Keeps, Passes
  <2>2. UNCHANGED <<inst, cached, fresh, request>>
    BY <1>1 DEF EnsureGraphData, GraphDataPinned, GraphDataPodCreated, GraphDataPodDeleted,
       GraphDataResolved, GraphDataUnknown, api
  <2> QED
    BY <2>1, <2>2, CoherentFrame
<1>2. CASE DeploymentWritten \/ DeploymentLeftAlone
  <2>1. Keeps /\ pc' # "reject"
    BY <1>0, <1>2 DEF DeploymentWritten, DeploymentLeftAlone, DeploymentDone,
       Keeps, Passes
  <2>2. UNCHANGED <<inst, cached, fresh, request>>
    BY <1>2 DEF DeploymentWritten, DeploymentLeftAlone, api
  <2> QED
    BY <2>1, <2>2, CoherentFrame
<1>3. CASE DeploymentFails \/ DeploymentTimesOut
  BY <1>3, CoherentFrame, FinishKeeps DEF DeploymentFails, DeploymentTimesOut, ReturnError, api
<1>4. CASE UpdateStatus
  <2>1. Finish /\ UNCHANGED <<cached, request>>
    BY <1>4 DEF UpdateStatus, ReturnPeriodic
  <2>2. ~pass'.current /\ pc' = "idle"
    BY <2>1, FinishKeeps
  <2>3. CASE UNCHANGED <<inst, fresh>>
    BY <2>1, <2>2, <2>3 DEF Coherent
  <2>4. CASE inst # None /\ inst' = [inst EXCEPT !.status = StatusOf(pass)]
             /\ (fresh' = FALSE \/ fresh' = fresh)
    <3>1. inst \in [uid : 1..MaxUid, spec : Specs, status : Statuses]
      BY <2>4 DEF TypeOK, ApiTypeOK
    <3>2. StatusOf(pass) \in Statuses
      BY <1>0 DEF StatusOf, Statuses, Passes
    <3>3. inst' \in [uid : 1..MaxUid, spec : Specs, status : Statuses]
      BY <2>4, <3>1, <3>2
    <3>4. inst'.uid = inst.uid /\ inst'.spec = inst.spec /\ inst' # None
      BY <2>4, <3>1, <3>3, NoneIsNoInstance
    <3> QED
      BY <2>1, <2>2, <2>4, <3>4 DEF Coherent
  <2> QED
    BY <1>4, <2>3, <2>4 DEF UpdateStatus, PersistStatus, LoseStatus
<1> QED
  BY <1>1, <1>2, <1>3, <1>4 DEF EnsureDeployment

\* ... and whatever happens around the pass.
LEMMA CoherentOthers ==
  TypeOK /\ Coherent /\ (Deliver \/ TimerFires \/ Collect \/ InjectBundle \/ PodAdvances
                         \/ User \/ Restart) => Coherent'
<1> SUFFICES ASSUME TypeOK, Coherent,
                    Deliver \/ TimerFires \/ Collect \/ InjectBundle \/ PodAdvances
                      \/ User \/ Restart
             PROVE  Coherent'
  OBVIOUS
<1>1. CASE DeliverInstance
  BY <1>1 DEF DeliverInstance, Coherent
<1>2. CASE TimerFires \/ (\E k \in Lagging : DeliverObject(k)) \/ Collect \/ InjectBundle \/ PodAdvances
  BY <1>2 DEF TimerFires, DeliverObject, Collect, CollectObject, CollectDeployment, CollectPod, InjectBundle,
     PodAdvances, Coherent, api
<1>3. CASE EditSpec \/ DeleteInstance \/ RecreateInstance
  <2>1. fresh' = FALSE /\ pc' = pc /\ request' = request
    BY <1>3 DEF EditSpec, DeleteInstance, RecreateInstance, WriteInstance
  <2>2. pass'.current = FALSE
    BY <1>3 DEF EditSpec, DeleteInstance, RecreateInstance, WriteInstance, TypeOK, PassTypeOK, Passes
  <2> QED
    BY <2>1, <2>2 DEF Coherent
<1>4. CASE PullSecretChanges \/ ImageConfigChanges \/ TrustedCAChanges \/ DeploymentDrifts
           \/ \E k \in LoopKinds : ObjectDrifts(k)
  BY <1>4 DEF PullSecretChanges, ImageConfigChanges, TrustedCAChanges, DeploymentDrifts,
     ObjectDrifts, Coherent, api
<1>5. CASE Restart
  <2>1. ~pass'.current /\ pc' = "idle"
    BY <1>5, FinishKeeps DEF Restart
  <2> QED
    BY <1>5, <2>1 DEF Restart, Coherent
<1> QED
  BY <1>1, <1>2, <1>3, <1>4, <1>5 DEF User, Deliver

\* The informer's copy and the pass agree with the API object as far as they claim to.
THEOREM Coherence == Spec => [](TypeOK /\ Coherent)
<1>1. Init => TypeOK /\ Coherent
  BY InitType DEF Init, Coherent, EmptyPass
<1>2. TypeOK /\ Coherent /\ [Next]_vars => (TypeOK /\ Coherent)'
  <2> SUFFICES ASSUME TypeOK, Coherent, [Next]_vars PROVE Coherent'
    BY TypeStep
  <2>1. CASE Next
    BY <2>1, CoherentGather, CoherentEnsure, CoherentFinal, CoherentOthers DEF Next, Reconcile
  <2>2. CASE UNCHANGED vars
    BY <2>2 DEF vars, Coherent
  <2> QED
    BY <2>1, <2>2
<1> QED
  BY <1>1, <1>2, PTL DEF Spec

\* Whatever fails, crashes or races, an accepted UpdateService is queued, about to be
\* re-added, being reconciled, or its event is on its way.
THEOREM WakeupAlwaysArmed == Spec => []WakeupArmed
<1>1. Init => WakeupArmed
  BY DEF Init, WakeupArmed
<1>2. TypeOK /\ Coherent /\ WakeupArmed /\ [Next]_vars => WakeupArmed'
  <2> SUFFICES ASSUME TypeOK, Coherent, WakeupArmed, [Next]_vars PROVE WakeupArmed'
    OBVIOUS
  <2>1. CASE Deliver \/ TimerFires \/ Collect \/ InjectBundle \/ PodAdvances \/ Restart
    BY <2>1 DEF Deliver, DeliverInstance, DeliverObject, TimerFires, Collect, CollectObject, CollectDeployment, CollectPod,
       InjectBundle, PodAdvances, Restart, Enqueue, Notify, WakeupArmed, api, queue
  <2>2. CASE User
    BY <2>2 DEF User, EditSpec, DeleteInstance, RecreateInstance, WriteInstance, PullSecretChanges,
       ImageConfigChanges, TrustedCAChanges, MapperEnqueues, DeploymentDrifts, ObjectDrifts,
       Enqueue, Notify, WakeupArmed, api, queue
  <2>3. CASE Ignore
    <3>1. inst # None => inst.uid \in 1..MaxUid /\ inst.spec \in Specs
      BY DEF TypeOK, ApiTypeOK
    <3>2. inst # None /\ request = "valid" => ~fresh
      BY <2>3, <3>1, NoneIsNoCopy DEF Ignore, Coherent
    <3> QED
      BY <2>3, <3>2 DEF Ignore, WakeupArmed, api
  <2>4. CASE Begin
    BY <2>4 DEF Begin, WakeupArmed
  <2>5. CASE Reject
    BY <2>5 DEF Reject, Coherent, WakeupArmed
  <2>6. CASE BeginFails \/ PullSecretNotFound \/ TrustedCANotFound \/ GatherFails \/ RenderFails
             \/ DeploymentFails \/ DeploymentTimesOut
    BY <2>6 DEF BeginFails, PullSecretNotFound, TrustedCANotFound, GatherFails, RenderFails,
       DeploymentFails, DeploymentTimesOut, ReturnError, WakeupArmed
  <2>7. CASE FindPullSecret \/ FindTrustedCA \/ NoTrustedCA \/ FindClusterCA
    BY <2>7 DEF FindPullSecret, FindTrustedCA, NoTrustedCA, FindClusterCA, WakeupArmed
  <2>8. CASE EnsureObject
    BY <2>8 DEF EnsureObject, EnsureNothing, EnsureCreates, EnsureKeeps, EnsureUpdates,
       EnsureSwallows, EnsureBreaks, EnsureTimesOut, NextKind, WakeupArmed
  <2>9. CASE EnsureGraphData \/ DeploymentWritten \/ DeploymentLeftAlone
    BY <2>9 DEF EnsureGraphData, GraphDataPinned, GraphDataPodCreated, GraphDataPodDeleted,
       GraphDataResolved, GraphDataUnknown, GraphDataDone, DeploymentWritten,
       DeploymentLeftAlone, DeploymentDone, WakeupArmed
  <2>10. CASE UpdateStatus
    BY <2>10 DEF UpdateStatus, ReturnPeriodic, WakeupArmed
  <2>11. CASE UNCHANGED vars
    BY <2>11 DEF vars, WakeupArmed
  <2> QED
    BY <2>1, <2>2, <2>3, <2>4, <2>5, <2>6, <2>7, <2>8, <2>9, <2>10, <2>11
       DEF Next, Reconcile, Gather, EnsureDeployment
<1> QED
  BY <1>1, <1>2, Coherence, PTL DEF Spec

\* An accepted status was computed for the incarnation and the spec the API then holds.
THEOREM StatusIsOfCurrentSpec == Spec => StatusFromCurrentSpec
<1> DEFINE A == inst # None /\ inst' # None /\ inst'.uid = inst.uid /\ inst'.status # inst.status
                  => pass.uid = inst.uid /\ pass.spec = inst.spec
<1>1. TypeOK /\ Coherent /\ [Next]_vars => A
  <2> SUFFICES ASSUME TypeOK, Coherent, [Next]_vars, inst # None, inst' # None,
                      inst'.status # inst.status
               PROVE  pass.uid = inst.uid /\ pass.spec = inst.spec
    OBVIOUS
  <2>1. CASE Reject \/ UpdateStatus
    BY <2>1 DEF Reject, UpdateStatus, PersistStatus, LoseStatus, Coherent
  <2>2. CASE EditSpec \/ DeleteInstance \/ RecreateInstance
    <3>1. inst \in [uid : 1..MaxUid, spec : Specs, status : Statuses]
      BY DEF TypeOK, ApiTypeOK
    <3>2. CASE EditSpec
      BY <3>1, <3>2 DEF EditSpec, WriteInstance
    <3>3. CASE DeleteInstance
      BY <3>3 DEF DeleteInstance, WriteInstance
    <3>4. CASE RecreateInstance
      BY <3>4 DEF RecreateInstance
    <3> QED
      BY <2>2, <3>2, <3>3, <3>4
  <2>3. CASE Deliver \/ TimerFires \/ Collect \/ InjectBundle \/ PodAdvances \/ Restart
             \/ UNCHANGED vars
    BY <2>3 DEF Deliver, DeliverInstance, DeliverObject, TimerFires, Collect, CollectObject, CollectDeployment, CollectPod,
       InjectBundle, PodAdvances, Restart, api, vars
  <2>4. CASE PullSecretChanges \/ ImageConfigChanges \/ TrustedCAChanges \/ DeploymentDrifts
             \/ \E k \in LoopKinds : ObjectDrifts(k)
    BY <2>4 DEF PullSecretChanges, ImageConfigChanges, TrustedCAChanges, DeploymentDrifts,
       ObjectDrifts, api
  <2>5. CASE \/ Ignore \/ Begin \/ BeginFails \/ FindPullSecret \/ PullSecretNotFound
             \/ FindTrustedCA \/ NoTrustedCA \/ TrustedCANotFound \/ GatherFails
             \/ FindClusterCA \/ RenderFails
    BY <2>5 DEF Ignore, Begin, BeginFails, FindPullSecret, PullSecretNotFound, FindTrustedCA,
       NoTrustedCA, TrustedCANotFound, GatherFails, FindClusterCA, RenderFails, api
  <2>6. CASE EnsureObject
    BY <2>6 DEF EnsureObject, EnsureNothing, EnsureCreates, EnsureKeeps, EnsureUpdates,
       EnsureSwallows, EnsureBreaks, EnsureTimesOut, api
  <2>7. CASE EnsureGraphData \/ EnsureDeployment
    BY <2>7 DEF EnsureGraphData, GraphDataPinned, GraphDataPodCreated, GraphDataPodDeleted,
       GraphDataResolved, GraphDataUnknown, EnsureDeployment, DeploymentWritten,
       DeploymentLeftAlone, DeploymentFails, DeploymentTimesOut, api
  <2> QED
    BY <2>1, <2>2, <2>3, <2>4, <2>5, <2>6, <2>7 DEF Next, Reconcile, Gather, User
<1> QED
  BY <1>1, Coherence, PTL DEF Spec, StatusFromCurrentSpec

\* Without an UpdateService that the informer still shows, only the surroundings go on.
LEMMA NothingBegins ==
  ASSUME Coherent, inst = None, fresh, pc = "idle", Reconcile
  PROVE  Ignore \/ BeginFails
<1>1. ~Begin
  BY DEF Coherent, Begin
<1>2. ~EnsureObject /\ ~EnsureGraphData /\ ~EnsureDeployment /\ ~UpdateStatus
  BY DEF EnsureObject, EnsureNothing, EnsureCreates, EnsureKeeps, EnsureUpdates,
     EnsureSwallows, EnsureBreaks, EnsureTimesOut, Ensuring,
     EnsureGraphData, GraphDataPinned, GraphDataPodCreated, GraphDataPodDeleted,
     GraphDataResolved, GraphDataUnknown, Resolving,
     EnsureDeployment, DeploymentWritten, DeploymentLeftAlone, DeploymentFails,
     DeploymentTimesOut, UpdateStatus
<1> QED
  BY <1>1, <1>2 DEF Reconcile, Gather, Reject, FindPullSecret, PullSecretNotFound,
     FindTrustedCA, NoTrustedCA, TrustedCANotFound, GatherFails, FindClusterCA, RenderFails

\* Users, the garbage collector and the network operator only change or delete objects.
LEMMA NothingAppears ==
  ASSUME TypeOK,
         Deliver \/ TimerFires \/ Collect \/ InjectBundle \/ PodAdvances \/ User \/ Restart
  PROVE  /\ deploy = None => deploy' = None
         /\ pod = None => pod' = None
         /\ \A k \in LoopKinds : obj[k] = None => obj'[k] = None
<1>1. obj \in [LoopKinds -> {None} \cup Objects]
  BY DEF TypeOK, ClusterTypeOK
<1>2. CASE \E k \in LoopKinds : ObjectDrifts(k) \/ CollectObject(k)
  BY <1>1, <1>2 DEF ObjectDrifts, CollectObject
<1>3. CASE InjectBundle
  BY <1>1, <1>3 DEF InjectBundle
<1>4. CASE DeploymentDrifts \/ CollectDeployment \/ CollectPod \/ PodAdvances
  BY <1>4 DEF DeploymentDrifts, CollectDeployment, CollectPod, PodAdvances
<1>5. CASE Deliver \/ TimerFires \/ Restart
  BY <1>5 DEF Deliver, DeliverInstance, DeliverObject, TimerFires, Restart, cluster
<1>6. CASE EditSpec \/ DeleteInstance \/ RecreateInstance \/ PullSecretChanges
           \/ ImageConfigChanges \/ TrustedCAChanges
  BY <1>6 DEF EditSpec, DeleteInstance, RecreateInstance, PullSecretChanges,
     ImageConfigChanges, TrustedCAChanges, cluster
<1> QED
  BY <1>2, <1>3, <1>4, <1>5, <1>6 DEF Collect, User

\* Once the informer knows of a deletion and no pass is under way, no pass begins and
\* nothing is created, whatever the queue, the timers, failures and restarts bring, until
\* the UpdateService is created again (the NotFound of the first Get of Reconcile).
THEOREM DeletedStays == Spec => DeletedStaysDeleted
<1> DEFINE A == inst = None /\ inst' = None /\ fresh /\ pc = "idle"
                  => /\ fresh' /\ pc' = "idle"
                     /\ deploy = None => deploy' = None
                     /\ pod = None => pod' = None
                     /\ \A k \in LoopKinds : obj[k] = None => obj'[k] = None
<1>1. TypeOK /\ Coherent /\ [Next]_vars => A
  <2> SUFFICES ASSUME TypeOK, Coherent, [Next]_vars, inst = None, inst' = None, fresh, pc = "idle"
               PROVE  /\ fresh' /\ pc' = "idle"
                      /\ deploy = None => deploy' = None
                      /\ pod = None => pod' = None
                      /\ \A k \in LoopKinds : obj[k] = None => obj'[k] = None
    OBVIOUS
  <2>1. CASE Reconcile
    <3>1. Ignore \/ BeginFails
      BY <2>1, NothingBegins
    <3> QED
      BY <3>1 DEF Ignore, BeginFails, ReturnError, Finish, api, cluster
  <2>2. CASE Deliver \/ TimerFires \/ Collect \/ InjectBundle \/ PodAdvances \/ User \/ Restart
    <3>1. fresh' /\ pc' = "idle"
      <4>1. CASE Deliver \/ TimerFires \/ Restart
        BY <4>1 DEF Deliver, DeliverInstance, DeliverObject, TimerFires, Restart, Finish, api
      <4>2. CASE Collect \/ InjectBundle \/ PodAdvances
        BY <4>2 DEF Collect, CollectObject, CollectDeployment, CollectPod, InjectBundle,
           PodAdvances, api
      <4>3. CASE User
        <5>1. ~EditSpec /\ ~DeleteInstance
          BY DEF EditSpec, DeleteInstance
        <5>2. ~RecreateInstance
          <6>1. SUFFICES ASSUME RecreateInstance PROVE FALSE
            OBVIOUS
          <6>2. TypeOK'
            BY <4>3, TypeStep DEF Next
          <6>3. PICK s \in Specs : inst' = [uid |-> uids + 1, spec |-> s, status |-> NoStatus]
            BY <6>1 DEF RecreateInstance, WriteInstance
          <6>4. uids + 1 \in 1..MaxUid /\ NoStatus \in Statuses
            BY <6>1, <6>2 DEF RecreateInstance, TypeOK, ApiTypeOK, NoStatus, Statuses
          <6>5. inst' \in [uid : 1..MaxUid, spec : Specs, status : Statuses]
            BY <6>3, <6>4
          <6> QED
            BY <6>5, NoneIsNoInstance
        <5> QED
          BY <4>3, <5>1, <5>2 DEF User, PullSecretChanges, ImageConfigChanges,
             TrustedCAChanges, ObjectDrifts, DeploymentDrifts, api
      <4> QED
        BY <2>2, <4>1, <4>2, <4>3
    <3> QED
      BY <2>2, <3>1, NothingAppears
  <2>3. CASE UNCHANGED vars
    BY <2>3 DEF vars
  <2> QED
    BY <2>1, <2>2, <2>3 DEF Next
<1> QED
  BY <1>1, Coherence, PTL DEF Spec, DeletedStaysDeleted

=============================================================================
