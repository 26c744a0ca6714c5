--------------------- MODULE UpdateServiceSuccessProofs ---------------------
(***************************************************************************)
(* The order of the writes of a pass and the truth of the success it       *)
(* reports, for every value of the constants: while the UpdateService of   *)
(* the pass lives, what the loop has been through stays in place until the *)
(* status is written.                                                      *)
(***************************************************************************)
EXTENDS UpdateServiceReconcilerProofs

\* Nobody else touches the operator's objects, the informers of these objects are up to
\* date, and the UpdateService is not created again.
AloneAssumption == "drift" \notin Disturbances /\ Lagging = {} /\ MaxUid = 1

\* And no call fails.
UndisturbedAssumption == AloneAssumption /\ "fault" \notin Disturbances

\* The pass works for an UpdateService the garbage collector spares the objects of.
Serving == pc # "idle" /\ Alive(pass.uid)

\* What the pass has been through is in place: the inductive reason for
\* DeploymentWrittenLast and SuccessIsTrue.
PassedKinds ==
  IF pc = "ensure" THEN {EnsureOrder[i] : i \in {j \in 1..10 : j < pass.next}}
  ELSE IF pc \in {"graphData", "deployment", "status"} THEN LoopKinds ELSE {}

DoneInv ==
  Serving =>
    /\ pc \in {"findPullSecret", "findTrustedCA", "findClusterCA"} => pass.clusterCA = "new"
    /\ pc = "ensure" /\ pass.clusterCA = "found" => obj["clusterCA"] # None
    /\ \A k \in PassedKinds : InPlace(k, pass.spec, pass.ps, pass.ca)
    /\ pc = "status" => DeploymentReflects(pass.spec, pass.ca)

\* Nobody removed the containers ensureDeployment does not put back.
Whole == deploy # None => deploy.init # None /\ deploy.gb # None

\* The informers are the API.
LEMMA UpToDate ==
  ASSUME AloneAssumption, TypeOK
  PROVE  behind = {} /\ \A k : Seen(k) = Current(k)
BY DEF AloneAssumption, TypeOK, CacheTypeOK, Seen

LEMMA NoDrift == AloneAssumption => ~Disturb("drift")
BY DEF AloneAssumption, Disturb, CanDisturb

LEMMA NoFaultNoDrift == UndisturbedAssumption => ~Disturb("fault") /\ ~Disturb("drift")
BY DEF UndisturbedAssumption, AloneAssumption, Disturb, CanDisturb

\* A Deployment starts with both containers, and the operator keeps those it finds.
LEMMA StaysWhole == ASSUME AloneAssumption PROVE Spec => []Whole
<1>1. Init => Whole
  BY DEF Init, Whole
<1>2. TypeOK /\ Whole /\ [Next]_vars => Whole'
  <2> SUFFICES ASSUME TypeOK, Whole, [Next]_vars PROVE Whole'
    OBVIOUS
  <2>1. CASE DeploymentWritten \/ DeploymentTimesOut
    <3>1. pc = "deployment" /\ WriteDeployment /\ FoundDeployment = deploy
      BY <2>1, UpToDate DEF DeploymentWritten, DeploymentTimesOut, FoundDeployment, Current
    <3>2. pass \in Passes /\ pass.uid \in 1..MaxUid /\ pass.spec \in Specs
      BY <3>1 DEF TypeOK, PassTypeOK
    <3>3. pass.spec.graphData # None
      BY <3>2, SpecsAssumption
    <3>4. Mounts(pass.ca) # None
      BY MountsType, ObjectsAssumption
    <3>5. CASE deploy' = NewDeployment(pass.uid, pass.spec, pass.ca)
      BY <3>3, <3>4, <3>5 DEF NewDeployment, Whole
    <3>6. CASE deploy # None /\ deploy' = MergeDeployment(deploy, pass)
      <4>1. deploy \in Deployments /\ deploy.gb # None
        BY <3>6 DEF TypeOK, ClusterTypeOK, Whole
      <4>2. deploy'.init = pass.spec.graphData /\ deploy'.gb = Mounts(pass.ca)
        BY <3>6, <4>1 DEF MergeDeployment, Deployments
      <4> QED
        BY <3>3, <3>4, <4>2 DEF Whole
    <3> QED
      BY <3>1, <3>5, <3>6 DEF WriteDeployment, NeedsMerge, Merged
  <2>2. CASE CollectDeployment
    BY <2>2 DEF CollectDeployment, Whole
  <2>3. CASE DeploymentDrifts
    BY <2>3, NoDrift DEF DeploymentDrifts
  <2>4. deploy' = deploy => Whole'
    BY DEF Whole
  <2>5. CASE Gather \/ EnsureObject \/ UpdateStatus
    BY <2>4, <2>5
       DEF Gather, Ignore, Begin, BeginFails, Reject, FindPullSecret, PullSecretNotFound,
           FindTrustedCA, NoTrustedCA, TrustedCANotFound, GatherFails, FindClusterCA, RenderFails,
           EnsureObject, EnsureNothing, EnsureCreates, EnsureKeeps, EnsureUpdates,
           EnsureSwallows, EnsureBreaks, EnsureTimesOut, UpdateStatus, cluster
  <2>6. CASE EnsureGraphData \/ DeploymentLeftAlone \/ DeploymentFails
    BY <2>4, <2>6
       DEF EnsureGraphData, GraphDataPinned, GraphDataPodCreated, GraphDataPodDeleted,
           GraphDataResolved, GraphDataUnknown, DeploymentLeftAlone, DeploymentFails, cluster
  <2>7. CASE Deliver \/ TimerFires \/ CollectPod \/ (\E k \in LoopKinds : CollectObject(k))
             \/ InjectBundle \/ PodAdvances \/ Restart
    BY <2>4, <2>7
       DEF Deliver, DeliverInstance, DeliverObject, TimerFires, CollectPod, CollectObject,
           InjectBundle, PodAdvances, Restart, cluster
  <2>8. CASE EditSpec \/ DeleteInstance \/ RecreateInstance \/ PullSecretChanges
             \/ ImageConfigChanges \/ TrustedCAChanges \/ (\E k \in LoopKinds : ObjectDrifts(k))
    BY <2>4, <2>8
       DEF EditSpec, DeleteInstance, RecreateInstance, PullSecretChanges, ImageConfigChanges,
           TrustedCAChanges, ObjectDrifts, cluster
  <2>9. CASE UNCHANGED vars
    BY <2>4, <2>9 DEF vars
  <2> QED
    BY <2>1, <2>2, <2>3, <2>5, <2>6, <2>7, <2>8, <2>9
       DEF Next, Reconcile, EnsureDeployment, Collect, User
<1> QED
  BY <1>1, <1>2, TypeCorrect, PTL DEF Spec

\* While the pass is serving, nothing it works with is collected.
LEMMA NothingDies ==
  ASSUME AloneAssumption, TypeOK, Serving
  PROVE  (\A k \in LoopKinds : ~Dead(k)) /\ (deploy # None => Alive(deploy.owner))
<1>1. pass.uid = 1
  BY DEF AloneAssumption, TypeOK, PassTypeOK, Serving
<1>2. ASSUME NEW k \in LoopKinds, obj[k] # None PROVE obj[k].owner = 1
  BY <1>2 DEF AloneAssumption, TypeOK, ClusterTypeOK, Objects
<1>3. deploy # None => deploy.owner = 1
  BY DEF AloneAssumption, TypeOK, ClusterTypeOK, Deployments
<1> QED
  BY <1>1, <1>2, <1>3 DEF Serving, Dead

\* A pass that ended.
LEMMA DoneEnded == pc' = "idle" => DoneInv'
BY DEF DoneInv, Serving

\* A step that lets the pass and, while it is serving, its objects be.
LEMMA DoneFrame ==
  ASSUME DoneInv, pc' = pc, pass'.uid = pass.uid, pass'.spec = pass.spec, pass'.ps = pass.ps,
         pass'.ca = pass.ca, pass'.clusterCA = pass.clusterCA, pass'.next = pass.next,
         Serving' => Serving,
         Serving => /\ deploy' = deploy
                    /\ \A k \in LoopKinds : \/ obj'[k] = obj[k]
                                            \/ k = "clusterCA" /\ obj'[k] # None
  PROVE  DoneInv'
<1> SUFFICES ASSUME Serving' PROVE DoneInv'
  BY DEF DoneInv
<1>1. PassedKinds' = PassedKinds /\ PassedKinds \subseteq LoopKinds
  BY LoopHasTenKinds DEF PassedKinds
<1>2. "clusterCA" \in LoopKinds
  BY KindsOfTheLoop
<1>3. \A k \in PassedKinds : InPlace(k, pass.spec, pass.ps, pass.ca)'
  BY <1>1 DEF DoneInv, InPlace
<1>4. pc = "status" => DeploymentReflects(pass.spec, pass.ca)'
  BY DEF DoneInv, DeploymentReflects
<1>5. pc = "ensure" /\ pass.clusterCA = "found" => obj'["clusterCA"] # None
  BY <1>2 DEF DoneInv
<1> QED
  BY <1>1, <1>3, <1>4, <1>5 DEF DoneInv

\* A ConfigMap with the bundle is a ConfigMap.
LEMMA InjectedIsThere ==
  ASSUME TypeOK, InjectBundle
  PROVE  obj'["clusterCA"] # None
<1>1. "clusterCA" \in LoopKinds
  BY KindsOfTheLoop
<1>2. obj["clusterCA"] \in Objects
  BY <1>1 DEF InjectBundle, TypeOK, ClusterTypeOK
<1>3. obj'["clusterCA"] = [obj["clusterCA"] EXCEPT !.val = "injected"]
  BY <1>1 DEF InjectBundle, TypeOK, ClusterTypeOK
<1>4. obj'["clusterCA"] \in Objects
  BY <1>2, <1>3 DEF Objects, Contents
<1> QED
  BY <1>4, ObjectsAssumption

\* Events, users, the rest of the cluster and restarts.
LEMMA DoneEnvironment ==
  AloneAssumption /\ TypeOK /\ DoneInv
  /\ (Deliver \/ TimerFires \/ Collect \/ InjectBundle \/ PodAdvances \/ User \/ Restart)
    => DoneInv'
<1> SUFFICES ASSUME AloneAssumption, TypeOK, DoneInv,
                    Deliver \/ TimerFires \/ Collect \/ InjectBundle \/ PodAdvances
                      \/ User \/ Restart
             PROVE  DoneInv'
  OBVIOUS
<1>1. CASE DeliverInstance \/ TimerFires \/ PodAdvances \/ CollectPod
           \/ \E k \in Lagging : DeliverObject(k)
  BY <1>1, DoneFrame
     DEF DeliverInstance, TimerFires, PodAdvances, CollectPod, DeliverObject, Serving, Alive,
         api, cluster
<1>2. CASE EditSpec \/ DeleteInstance \/ RecreateInstance
  <2>1. pass' = [pass EXCEPT !.current = FALSE] /\ UNCHANGED <<pc, obj, deploy>>
    BY <1>2 DEF EditSpec, DeleteInstance, RecreateInstance, WriteInstance, cluster
  <2>2. Alive(pass.uid)' => Alive(pass.uid)
    <3>1. CASE EditSpec
      <4>1. PICK s \in Specs : inst' = [inst EXCEPT !.spec = s]
        BY <3>1 DEF EditSpec, WriteInstance
      <4>2. inst # None /\ inst \in [uid : 1..MaxUid, spec : Specs, status : Statuses]
        BY <3>1 DEF EditSpec, TypeOK, ApiTypeOK
      <4> QED
        BY <2>1, <4>1, <4>2 DEF Alive, TypeOK, PassTypeOK, Passes
    <3>2. CASE DeleteInstance
      BY <2>1, <3>2 DEF DeleteInstance, WriteInstance, Alive, TypeOK, PassTypeOK, Passes
    <3>3. CASE RecreateInstance
      BY <3>3 DEF RecreateInstance, AloneAssumption, TypeOK, ApiTypeOK
    <3> QED
      BY <1>2, <3>1, <3>2, <3>3
  <2>3. Serving' => Serving
    BY <2>1, <2>2 DEF Serving
  <2> QED
    BY <2>1, <2>3, DoneFrame DEF TypeOK, PassTypeOK, Passes
<1>3. CASE PullSecretChanges \/ ImageConfigChanges \/ TrustedCAChanges
  BY <1>3, DoneFrame
     DEF PullSecretChanges, ImageConfigChanges, TrustedCAChanges, Serving, Alive, api
<1>4. CASE InjectBundle
  <2>1. obj'["clusterCA"] # None
    BY <1>4, InjectedIsThere
  <2>2. \A k \in LoopKinds : k # "clusterCA" => obj'[k] = obj[k]
    BY <1>4 DEF InjectBundle, TypeOK, ClusterTypeOK
  <2> QED
    BY <1>4, <2>1, <2>2, DoneFrame DEF InjectBundle, Serving, Alive, api
<1>5. ASSUME NEW k \in LoopKinds, CollectObject(k) PROVE DoneInv'
  BY <1>5, NothingDies, DoneFrame DEF CollectObject, Serving, Alive, api
<1>6. CASE CollectDeployment
  BY <1>6, NothingDies, DoneFrame DEF CollectDeployment, Serving, Alive, api
<1>7. CASE DeploymentDrifts \/ \E k \in LoopKinds : ObjectDrifts(k)
  BY <1>7, NoDrift DEF DeploymentDrifts, ObjectDrifts
<1>8. CASE Restart
  BY <1>8, DoneEnded DEF Restart, Finish
<1> QED
  BY <1>1, <1>2, <1>3, <1>4, <1>5, <1>6, <1>7, <1>8 DEF User, Collect, Deliver

-----------------------------------------------------------------------------
(* The pass. *)

\* The gathering of the sources.
LEMMA DoneGather == AloneAssumption /\ TypeOK /\ DoneInv /\ Gather => DoneInv'
<1> SUFFICES ASSUME AloneAssumption, TypeOK, DoneInv, Gather PROVE DoneInv'
  OBVIOUS
<1>1. CASE BeginFails \/ Reject \/ PullSecretNotFound \/ TrustedCANotFound \/ GatherFails
           \/ RenderFails
  BY <1>1, DoneEnded DEF BeginFails, Reject, PullSecretNotFound, TrustedCANotFound, GatherFails,
     RenderFails, ReturnError, Finish
<1>2. CASE Ignore
  BY <1>2, DoneFrame DEF Ignore, Serving, Alive, api, cluster
<1>3. CASE Begin \/ FindPullSecret \/ FindTrustedCA \/ NoTrustedCA
  <2>1. pc' \in {"reject", "findPullSecret", "findTrustedCA", "findClusterCA"}
    BY <1>3 DEF Begin, FindPullSecret, FindTrustedCA, NoTrustedCA
  <2>2. Serving' /\ pc' # "reject" => pass'.clusterCA = "new"
    <3>1. CASE Begin
      BY <3>1 DEF Begin, EmptyPass
    <3>2. CASE FindPullSecret \/ FindTrustedCA \/ NoTrustedCA
      <4>1. pass \in Passes /\ UNCHANGED inst
        BY <3>2 DEF FindPullSecret, FindTrustedCA, NoTrustedCA, TypeOK, PassTypeOK, api
      <4>2. pass'.uid = pass.uid /\ pass'.clusterCA = pass.clusterCA
        BY <3>2, <4>1 DEF FindPullSecret, FindTrustedCA, NoTrustedCA, Passes
      <4>3. pc \in {"findPullSecret", "findTrustedCA"}
        BY <3>2 DEF FindPullSecret, FindTrustedCA, NoTrustedCA
      <4> QED
        BY <4>1, <4>2, <4>3 DEF DoneInv, Serving, Alive
    <3> QED
      BY <1>3, <3>1, <3>2
  <2> QED
    BY <2>1, <2>2 DEF DoneInv, PassedKinds
<1>4. CASE FindClusterCA
  <2>1. pc' = "ensure" /\ pass'.next = 1 /\ obj' = obj
    BY <1>4 DEF FindClusterCA, TypeOK, PassTypeOK, Passes, cluster
  <2>2. PassedKinds' = {}
    BY <2>1 DEF PassedKinds
  <2>3. Serving' /\ pass'.clusterCA = "found" => Seen("clusterCA") # None
    <3>1. pass \in Passes /\ UNCHANGED inst
      BY <1>4 DEF FindClusterCA, TypeOK, PassTypeOK, api
    <3>2. pass'.uid = pass.uid
          /\ (pass'.clusterCA = "found" => HasBundle \/ pass.clusterCA = "found")
      BY <1>4, <3>1 DEF FindClusterCA, Passes
    <3>3. Serving => pass.clusterCA = "new"
      BY <1>4 DEF FindClusterCA, DoneInv
    <3> QED
      BY <1>4, <3>1, <3>2, <3>3 DEF FindClusterCA, HasBundle, Serving, Alive
  <2>4. Seen("clusterCA") = obj["clusterCA"]
    BY UpToDate DEF Current
  <2> QED
    BY <2>1, <2>2, <2>3, <2>4 DEF DoneInv
<1> QED
  BY <1>1, <1>2, <1>3, <1>4 DEF Gather

\* After the step object k is what the pass asks for.
Placed(k) ==
  \/ Unwanted(k, pass.ca)
  \/ obj'[k] # None
     /\ (k = "clusterCA" \/ obj'[k].val = Rendered(pass.spec, pass.ps, pass.ca)[k])

\* A step to the next kind that leaves the others as they are and the current one in
\* place.
LEMMA DoneAdvance ==
  ASSUME TypeOK, DoneInv, pc = "ensure", NEW p \in Passes, NextKind(p), UNCHANGED inst,
         p.uid = pass.uid, p.spec = pass.spec, p.ps = pass.ps, p.ca = pass.ca,
         p.clusterCA = pass.clusterCA, p.next = pass.next,
         \A k \in LoopKinds \ {Kind} : obj'[k] = obj[k],
         obj[Kind] # None => obj'[Kind] # None,
         Placed(Kind)
  PROVE  DoneInv'
<1>1. pass.next \in 1..10
  BY DEF TypeOK, PassTypeOK, Passes
<1>2. pass'.uid = pass.uid /\ pass'.spec = pass.spec /\ pass'.ps = pass.ps
      /\ pass'.ca = pass.ca /\ pass'.clusterCA = pass.clusterCA /\ pass'.next = pass.next + 1
  BY <1>1 DEF NextKind, Passes
<1>3. pc' = IF pass.next = 10 THEN "graphData" ELSE "ensure"
  BY LoopHasTenKinds DEF NextKind
<1> SUFFICES ASSUME Serving' PROVE DoneInv'
  BY DEF DoneInv
<1>4. Serving
  BY <1>2 DEF Serving, Alive
<1>5. PassedKinds' \subseteq PassedKinds \cup {Kind}
  <2>1. PassedKinds' = {EnsureOrder[i] : i \in {j \in 1..10 : j < pass.next + 1}}
    <3>1. CASE pass.next = 10
      BY <1>3, <3>1 DEF PassedKinds, LoopKinds
    <3>2. CASE pass.next # 10
      BY <1>2, <1>3, <3>2 DEF PassedKinds
    <3> QED
      BY <3>1, <3>2
  <2>2. \A i \in 1..10 : i < pass.next + 1 => i < pass.next \/ i = pass.next
    BY <1>1
  <2> QED
    BY <2>1, <2>2 DEF PassedKinds, Kind
<1>6. ASSUME NEW k \in PassedKinds' PROVE Placed(k)
  <2>1. CASE k = Kind
    BY <2>1
  <2>2. CASE k # Kind
    <3>1. k \in LoopKinds /\ InPlace(k, pass.spec, pass.ps, pass.ca)
      BY <1>4, <1>5, <1>6, <2>2, LoopHasTenKinds DEF PassedKinds, DoneInv
    <3> QED
      BY <2>2, <3>1 DEF InPlace, Placed
  <2> QED
    BY <2>1, <2>2
<1>7. pass.clusterCA = "found" => obj'["clusterCA"] # None
  BY <1>4, KindsOfTheLoop DEF DoneInv
<1>8. \A k \in PassedKinds' : InPlace(k, pass.spec, pass.ps, pass.ca)'
  BY <1>2, <1>6 DEF Placed, InPlace
<1> QED
  BY <1>2, <1>3, <1>7, <1>8 DEF DoneInv

\* The ensure loop, as long as no call of it fails.
LEMMA DoneEnsure ==
  AloneAssumption /\ TypeOK /\ DoneInv /\ EnsureObject /\ budget' = budget => DoneInv'
<1> SUFFICES ASSUME AloneAssumption, TypeOK, DoneInv, EnsureObject, budget' = budget PROVE DoneInv'
  OBVIOUS
<1>0. pc = "ensure" /\ PassTypeOK /\ pass \in Passes
  BY DEF TypeOK, PassTypeOK, EnsureObject, EnsureNothing, EnsureCreates, EnsureKeeps,
     EnsureUpdates, EnsureSwallows, EnsureBreaks, EnsureTimesOut, Ensuring
<1> DEFINE q == Noted
<1>1. q \in Passes /\ q.next = pass.next
  BY <1>0, NotedType
<1>2. q.uid = pass.uid /\ q.spec = pass.spec /\ q.ps = pass.ps /\ q.ca = pass.ca
      /\ q.clusterCA = pass.clusterCA
  BY <1>0 DEF Noted, Passes
<1> HIDE DEF q
<1>3. Kind \in LoopKinds
  BY <1>0, KindType
<1>4. Found = obj[Kind] /\ ~Stale
  BY <1>3, UpToDate, KindsOfTheLoop DEF Found, Current, Stale
<1>5. CASE EnsureNothing
  <2>1. NextKind(pass) /\ UNCHANGED <<inst, obj>> /\ Unwanted(Kind, pass.ca)
    BY <1>5 DEF EnsureNothing, api, cluster
  <2> QED
    BY <1>0, <2>1, DoneAdvance DEF Placed
<1>6. CASE EnsureKeeps
  <2>1. NextKind(q) /\ UNCHANGED <<inst, obj>>
        /\ obj[Kind] # None /\ (Kind = "clusterCA" \/ obj[Kind].val = Want)
    BY <1>4, <1>6 DEF EnsureKeeps, api, cluster, q
  <2> QED
    BY <1>0, <1>1, <1>2, <2>1, DoneAdvance DEF Placed, Want
<1>7. CASE EnsureCreates \/ EnsureUpdates
  <2>1. NextKind(q) /\ UNCHANGED inst /\ obj' = [obj EXCEPT ![Kind] = Written]
    BY <1>7 DEF EnsureCreates, EnsureUpdates, api, q
  <2>2. Written.val = Want /\ Written # None
    <3>1. obj[Kind] # None => obj[Kind] \in Objects
      BY <1>3 DEF TypeOK, ClusterTypeOK
    <3>2. Want \in Contents /\ pass.uid \in 1..MaxUid
      BY <1>0, KindType DEF PassTypeOK
    <3>3. Written \in Objects /\ Written.val = Want
      BY <1>4, <3>1, <3>2 DEF Written, Objects
    <3> QED
      BY <3>3, ObjectsAssumption
  <2>3. obj'[Kind] = Written /\ \A k \in LoopKinds \ {Kind} : obj'[k] = obj[k]
    BY <1>3, <2>1 DEF TypeOK, ClusterTypeOK
  <2> QED
    BY <1>0, <1>1, <1>2, <2>1, <2>2, <2>3, DoneAdvance DEF Placed, Want
<1>8. CASE EnsureTimesOut \/ EnsureSwallows
  BY <1>4, <1>8, FailureSpends DEF EnsureTimesOut, EnsureSwallows
<1>9. CASE EnsureBreaks
  <2>1. obj[Kind] = None /\ CreateRefused
    BY <1>4, <1>9, FailureSpends DEF EnsureBreaks, Creatable
  <2>2. ~Serving
    BY <1>0, <2>1 DEF CreateRefused, DoneInv
  <2>3. ~Serving'
    BY <1>0, <1>2, <1>9, <2>2 DEF EnsureBreaks, Serving, Alive, api, q, Passes, Noted
  <2> QED
    BY <2>3 DEF DoneInv
<1> QED
  BY <1>5, <1>6, <1>7, <1>8, <1>9 DEF EnsureObject

\* The graph-data image and the Deployment.
LEMMA DoneDeploy ==
  AloneAssumption /\ TypeOK /\ Whole /\ DoneInv /\ (EnsureGraphData \/ EnsureDeployment)
    => DoneInv'
<1> SUFFICES ASSUME AloneAssumption, TypeOK, Whole, DoneInv, EnsureGraphData \/ EnsureDeployment
             PROVE  DoneInv'
  OBVIOUS
<1>0. pass \in Passes
  BY DEF TypeOK, PassTypeOK
<1>1. CASE EnsureGraphData
  <2>1. pc = "graphData" /\ pc' = "deployment" /\ UNCHANGED <<inst, obj>>
    BY <1>1 DEF EnsureGraphData, GraphDataPinned, GraphDataPodCreated, GraphDataPodDeleted,
       GraphDataResolved, GraphDataUnknown, Resolving, GraphDataDone, api, cluster
  <2>2. pass'.uid = pass.uid /\ pass'.spec = pass.spec /\ pass'.ps = pass.ps /\ pass'.ca = pass.ca
    BY <1>0, <1>1 DEF EnsureGraphData, GraphDataPinned, GraphDataPodCreated, GraphDataPodDeleted,
       GraphDataResolved, GraphDataUnknown, GraphDataDone, Passes
  <2> QED
    BY <2>1, <2>2 DEF DoneInv, Serving, Alive, PassedKinds, InPlace
<1>2. CASE DeploymentWritten \/ DeploymentLeftAlone
  <2>1. pc = "deployment" /\ pc' = "status" /\ UNCHANGED <<inst, obj>>
        /\ pass' = [pass EXCEPT !.completed = "success"]
    BY <1>2 DEF DeploymentWritten, DeploymentLeftAlone, DeploymentDone, api, cluster
  <2>2. pass'.uid = pass.uid /\ pass'.spec = pass.spec /\ pass'.ps = pass.ps /\ pass'.ca = pass.ca
    BY <1>0, <2>1 DEF Passes
  <2>3. FoundDeployment = deploy
    BY UpToDate DEF FoundDeployment, Current
  <2>4. pass.uid \in 1..MaxUid /\ pass.spec \in Specs
    BY <2>1 DEF TypeOK, PassTypeOK
  <2>5. ASSUME deploy \in Deployments, deploy.gb # None
        PROVE  /\ MergeDeployment(deploy, pass) \in Deployments
               /\ LET d == MergeDeployment(deploy, pass)
                  IN  /\ d.replicas = pass.spec.replicas /\ d.hash = pass.spec.releases
                      /\ d.init = pass.spec.graphData
                      /\ d.volumes = Mounts(pass.ca) /\ d.gb = Mounts(pass.ca)
    <3>1. MergeDeployment(deploy, pass) \in Deployments
      BY <1>0, <2>4, <2>5, MergeDeploymentType
    <3>2. deploy = [owner |-> deploy.owner, replicas |-> deploy.replicas, hash |-> deploy.hash,
                    volumes |-> deploy.volumes, gb |-> deploy.gb, init |-> deploy.init,
                    extra |-> deploy.extra, sha |-> deploy.sha]
      BY <2>5 DEF Deployments
    <3> QED
      BY <2>5, <3>1, <3>2 DEF MergeDeployment
  <2>6. DeploymentReflects(pass.spec, pass.ca)'
    <3>1. CASE deploy' = NewDeployment(pass.uid, pass.spec, pass.ca)
      <4>1. deploy' \in Deployments
        BY <2>4, <3>1, NewDeploymentType
      <4> QED
        BY <2>2, <3>1, <4>1, ObjectsAssumption DEF NewDeployment, DeploymentReflects
    <3>2. CASE deploy # None /\ deploy.init # None /\ deploy' = MergeDeployment(deploy, pass)
      <4>1. deploy \in Deployments /\ deploy.gb # None
        BY <3>2 DEF TypeOK, ClusterTypeOK, Whole
      <4> QED
        BY <2>2, <2>5, <3>2, <4>1, ObjectsAssumption DEF DeploymentReflects
    <3>3. deploy # None => deploy.init # None
      BY DEF Whole
    <3> QED
      BY <1>2, <2>3, <3>1, <3>2, <3>3
         DEF DeploymentWritten, DeploymentLeftAlone, WriteDeployment, NeedsMerge, Merged, cluster
  <2> QED
    BY <2>1, <2>2, <2>6 DEF DoneInv, Serving, Alive, PassedKinds, InPlace
<1>3. CASE DeploymentFails \/ DeploymentTimesOut
  BY <1>3, DoneEnded DEF DeploymentFails, DeploymentTimesOut, ReturnError, Finish
<1> QED
  BY <1>1, <1>2, <1>3 DEF EnsureDeployment

-----------------------------------------------------------------------------

\* While the UpdateService of the pass lives, what the pass has been through is in place.
THEOREM PassedIsDone == ASSUME UndisturbedAssumption PROVE Spec => []DoneInv
<1>0. AloneAssumption
  BY DEF UndisturbedAssumption
<1>1. Init => DoneInv
  BY DEF Init, DoneInv, Serving
<1>2. TypeOK /\ Whole /\ DoneInv /\ [Next]_vars => DoneInv'
  <2> SUFFICES ASSUME TypeOK, Whole, DoneInv, [Next]_vars PROVE DoneInv'
    OBVIOUS
  <2>1. CASE UpdateStatus
    BY <2>1, DoneEnded DEF UpdateStatus, ReturnPeriodic, Finish
  <2>2. CASE EnsureObject
    <3>1. budget' = budget
      BY <2>2, NoFaultNoDrift DEF EnsureObject, EnsureNothing, EnsureCreates, EnsureKeeps,
         EnsureUpdates, EnsureSwallows, EnsureBreaks, EnsureTimesOut
    <3> QED
      BY <1>0, <2>2, <3>1, DoneEnsure
  <2>3. CASE UNCHANGED vars
    BY <2>3, DoneFrame DEF vars, Serving, Alive
  <2> QED
    BY <1>0, <2>1, <2>2, <2>3, DoneEnvironment, DoneGather, DoneDeploy DEF Next, Reconcile
<1>3. Spec => []Whole
  BY <1>0, StaysWhole
<1> QED
  BY <1>1, <1>2, <1>3, TypeCorrect, PTL DEF Spec

\* A pass that has an accepted copy works for the UpdateService and the spec of the API.
LEMMA DoneIsTrue == TypeOK /\ Coherent /\ DoneInv => SuccessIsTrue
<1> SUFFICES ASSUME TypeOK, Coherent, DoneInv, pc = "status", pass.current
             PROVE  /\ \A k \in LoopKinds : InPlace(k, inst.spec, pass.ps, pass.ca)
                    /\ DeploymentReflects(inst.spec, pass.ca)
  BY DEF SuccessIsTrue
<1>1. inst # None /\ pass.uid = inst.uid /\ pass.spec = inst.spec
  BY DEF Coherent
<1>2. Serving
  BY <1>1 DEF Serving, Alive
<1> QED
  BY <1>1, <1>2 DEF DoneInv, PassedKinds

\* When the API accepts a status with ReconcileCompleted, every object and the
\* Deployment reflect the spec the UpdateService has at that moment, whatever was
\* edited, deleted or restarted during the pass.
THEOREM SuccessIsAlwaysTrue == ASSUME UndisturbedAssumption PROVE Spec => []SuccessIsTrue
BY DoneIsTrue, Coherence, PassedIsDone, PTL

\* A Deployment is written only when everything its Pods mount and the
\* PodDisruptionBudget that guards them are in place for the same spec.
THEOREM DeploymentComesLast ==
  ASSUME UndisturbedAssumption PROVE Spec => DeploymentWrittenLast
<1> DEFINE A == pc = "deployment" /\ deploy' # deploy /\ Alive(pass.uid)
                  => \A k \in LoopKinds : InPlace(k, pass.spec, pass.ps, pass.ca)
<1>1. DoneInv => A
  BY DEF DoneInv, Serving, PassedKinds
<1> QED
  BY <1>1, PassedIsDone, PTL DEF DeploymentWrittenLast

=============================================================================
