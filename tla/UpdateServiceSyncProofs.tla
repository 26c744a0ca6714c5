---------------------- MODULE UpdateServiceSyncProofs ----------------------
(***************************************************************************)
(* Level-triggered reconciliation, for every value of the constants: a     *)
(* controller at rest has everything in place.  Each lemma names the one   *)
(* failure, if any, that its steps must not meet.                          *)
(***************************************************************************)
EXTENDS UpdateServiceReconcilerProofs

\* No API call fails in this instance, and the informer of secrets is up to date.
QuietAssumption == "fault" \notin Disturbances /\ "pullSecret" \notin Lagging

\* So no step spends a failure.
LEMMA NoFault == QuietAssumption => ~Disturb("fault")
BY DEF QuietAssumption, Disturb, CanDisturb

-----------------------------------------------------------------------------
(* The informers. *)

\* A change that is noticed or leaves its informer behind keeps the others right.
LEMMA FollowChange ==
  ASSUME InformersFollow, NEW k, Notify(k), \A j \in Lagging \ {k} : Current(j)' = Current(j)
  PROVE  InformersFollow'
BY DEF InformersFollow, Notify

\* A step that leaves the objects and their copies alone.
LEMMA FollowFrame ==
  ASSUME InformersFollow, UNCHANGED <<obj, deploy, caches>>
  PROVE  InformersFollow'
BY DEF InformersFollow, Current, caches

\* The steps that write the object of kind k.
LEMMA FollowObject ==
  ASSUME TypeOK, InformersFollow, NEW k \in LoopKinds, Notify(k), NEW v,
         obj' = [obj EXCEPT ![k] = v], UNCHANGED deploy
  PROVE  InformersFollow'
<1>1. \A j \in Lagging \ {k} : Current(j)' = Current(j)
  BY LaggingAssumption DEF Current, TypeOK, ClusterTypeOK
<1> QED
  BY <1>1, FollowChange

\* The steps that write the Deployment.
LEMMA FollowDeployment ==
  ASSUME InformersFollow, Notify("deployment"), UNCHANGED obj
  PROVE  InformersFollow'
<1>1. \A j \in Lagging \ {"deployment"} : Current(j)' = Current(j)
  BY DEF Current
<1> QED
  BY <1>1, FollowChange

\* Every step keeps the informers that are not behind up to date.
LEMMA InformersStep == TypeOK /\ InformersFollow /\ [Next]_vars => InformersFollow'
<1> SUFFICES ASSUME TypeOK, InformersFollow, [Next]_vars PROVE InformersFollow'
  OBVIOUS
<1>1. CASE UNCHANGED vars
  BY <1>1, FollowFrame DEF vars, caches
<1>2. CASE Deliver
  <2>1. CASE DeliverInstance
    BY <2>1, FollowFrame DEF DeliverInstance, cluster
  <2>2. ASSUME NEW k \in Lagging, DeliverObject(k) PROVE InformersFollow'
    BY <2>2 DEF DeliverObject, InformersFollow, Current, TypeOK, CacheTypeOK
  <2> QED
    BY <1>2, <2>1, <2>2 DEF Deliver
<1>3. CASE TimerFires \/ Gather \/ EnsureGraphData \/ UpdateStatus \/ PodAdvances
  BY <1>3, FollowFrame DEF TimerFires, PodAdvances, UpdateStatus, cluster,
     Gather, Ignore, Begin, BeginFails, Reject, FindPullSecret, PullSecretNotFound,
     FindTrustedCA, NoTrustedCA, TrustedCANotFound, GatherFails, FindClusterCA, RenderFails,
     EnsureGraphData, GraphDataPinned, GraphDataPodCreated, GraphDataPodDeleted,
     GraphDataResolved, GraphDataUnknown
<1>4. CASE EnsureObject
  <2>1. CASE EnsureNothing \/ EnsureKeeps \/ EnsureSwallows \/ EnsureBreaks
    BY <2>1, FollowFrame DEF EnsureNothing, EnsureKeeps, EnsureSwallows, EnsureBreaks, cluster
  <2>2. CASE EnsureCreates \/ EnsureUpdates \/ EnsureTimesOut
    <3>1. Kind \in LoopKinds
      BY <2>2, KindType DEF EnsureCreates, EnsureUpdates, EnsureTimesOut, Ensuring, TypeOK
    <3> QED
      BY <2>2, <3>1, FollowObject DEF EnsureCreates, EnsureUpdates, EnsureTimesOut
  <2> QED
    BY <1>4, <2>1, <2>2 DEF EnsureObject
<1>5. CASE EnsureDeployment
  <2>1. CASE DeploymentWritten \/ DeploymentTimesOut
    BY <2>1, FollowDeployment DEF DeploymentWritten, DeploymentTimesOut, WriteDeployment
  <2>2. CASE DeploymentLeftAlone \/ DeploymentFails
    BY <2>2, FollowFrame DEF DeploymentLeftAlone, DeploymentFails, cluster
  <2> QED
    BY <1>5, <2>1, <2>2 DEF EnsureDeployment
<1>6. CASE InjectBundle
  <2>1. obj' = [obj EXCEPT !["clusterCA"] = [obj["clusterCA"] EXCEPT !.val = "injected"]]
    BY <1>6 DEF InjectBundle
  <2> QED
    BY <1>6, <2>1, FollowObject, KindsOfTheLoop DEF InjectBundle
<1>7. CASE Collect
  <2>1. ASSUME NEW k \in LoopKinds, CollectObject(k) PROVE InformersFollow'
    BY <2>1, FollowObject DEF CollectObject
  <2>2. CASE CollectDeployment
    BY <2>2, FollowDeployment DEF CollectDeployment
  <2>3. CASE CollectPod
    BY <2>3, FollowFrame DEF CollectPod
  <2> QED
    BY <1>7, <2>1, <2>2, <2>3 DEF Collect
<1>8. CASE User
  <2>1. ASSUME NEW k \in LoopKinds, ObjectDrifts(k) PROVE InformersFollow'
    <3>1. PICK v : obj' = [obj EXCEPT ![k] = v]
      BY <2>1 DEF ObjectDrifts
    <3> QED
      BY <2>1, <3>1, FollowObject DEF ObjectDrifts
  <2>2. CASE DeploymentDrifts
    BY <2>2, FollowDeployment DEF DeploymentDrifts
  <2>3. CASE EditSpec \/ DeleteInstance \/ RecreateInstance \/ PullSecretChanges
             \/ ImageConfigChanges \/ TrustedCAChanges
    BY <2>3, FollowFrame DEF EditSpec, DeleteInstance, RecreateInstance, PullSecretChanges,
       ImageConfigChanges, TrustedCAChanges, cluster
  <2> QED
    BY <1>8, <2>1, <2>2, <2>3 DEF User
<1>9. CASE Restart
  BY <1>9 DEF Restart, InformersFollow, Current
<1> QED
  BY <1>1, <1>2, <1>3, <1>4, <1>5, <1>6, <1>7, <1>8, <1>9 DEF Next, Reconcile

-----------------------------------------------------------------------------
(* Events, users and the rest of the cluster. *)

\* A change of a kind with a watch is on its way to the operator.
LEMMA NotifyPending ==
  ASSUME NEW k \in Watched, Notify(k)
  PROVE  ~Calm'
<1>1. k # "pullSecret"
  BY KindsOfTheLoop DEF Watched
<1> QED
  BY <1>1 DEF Notify, Enqueue, Calm

\* A change of the copy of the pull secret is no news.
LEMMA NotifySecret == Notify("pullSecret") /\ inst' = inst /\ request' = request /\ fresh' = fresh
                        => (Calm' => Calm)
BY KindsOfTheLoop DEF Notify, Enqueue, Calm, Watched

\* Every kind but that of the pull secret has a watch.
LEMMA NoticedWatched == Watched = Noticed \cup {"deployment"} /\ "pullSecret" \notin Noticed
BY DEF Watched, Noticed

\* While nothing is on its way, the operator reads what the API holds of all but the
\* copy of the pull secret.
LEMMA CalmSeen ==
  ASSUME InformersFollow, Calm, NEW k, k # "pullSecret"
  PROVE  Seen(k) = Current(k)
BY DEF InformersFollow, Calm, Seen

\* A step that changes nothing but the copy of the pull secret and leaves the pass alone.
LEMMA SyncFrame ==
  ASSUME SyncInv, UNCHANGED <<inst, deploy, timer, pc, pass>>, Calm' => Calm,
         \A k \in Noticed : obj'[k] = obj[k], CurrentCA' = CurrentCA
  PROVE  SyncInv'
<1>1. "clusterCA" \in Noticed
  BY KindsOfTheLoop DEF Noticed
<1>2. Calm' => Calm
  OBVIOUS
<1>3. PassCurrent => PassCurrent'
  BY DEF PassCurrent
<1>4. LoopInPlace => LoopInPlace'
  BY <1>1 DEF LoopInPlace, InPlace
<1>5. RestInPlace => RestInPlace'
  BY DEF RestInPlace, Synced, WatchedInPlace, InPlace, DeploymentInPlace
<1> QED
  BY <1>2, <1>3, <1>4, <1>5 DEF SyncInv, Unread

\* A step after which an event is pending or nothing is left to reconcile.
LEMMA SyncPending ==
  ASSUME ~Calm', Unread'
  PROVE  SyncInv'
BY DEF SyncInv

\* A step that goes on with the pass or leaves it alone.
LEMMA SyncKeepsUnread ==
  ASSUME SyncInv, pc' \in {"findPullSecret", "findTrustedCA", "findClusterCA"} =>
                    pc' = pc /\ pass'.ca = pass.ca /\ pass'.clusterCA = pass.clusterCA
  PROVE  Unread'
BY DEF SyncInv, Unread

\* Events, users, the rest of the cluster and restarts: a change that matters is pending,
\* unless the mapper drops the event of another certificate.
LEMMA SyncEnvironment ==
  TypeOK /\ Coherent /\ SyncInv /\ (CurrentCA' # CurrentCA /\ cached # None => dirty')
  /\ (Deliver \/ TimerFires \/ Collect \/ InjectBundle \/ PodAdvances \/ User \/ Restart)
    => SyncInv'
<1> SUFFICES ASSUME TypeOK, Coherent, SyncInv,
                    CurrentCA' # CurrentCA /\ cached # None => dirty',
                    Deliver \/ TimerFires \/ Collect \/ InjectBundle \/ PodAdvances
                      \/ User \/ Restart
             PROVE  SyncInv'
  OBVIOUS
<1>0. inst # None /\ fresh => cached # None
  <2>1. inst # None => inst.uid \in 1..MaxUid /\ inst.spec \in Specs
    BY DEF TypeOK, ApiTypeOK
  <2> QED
    BY <2>1, NoneIsNoCopy DEF Coherent
<1>1. CASE DeliverInstance \/ TimerFires \/ PodAdvances \/ CollectPod
  BY <1>1, SyncPending, SyncKeepsUnread DEF DeliverInstance, TimerFires, PodAdvances, CollectPod, Calm
<1>2. CASE EditSpec \/ DeleteInstance \/ RecreateInstance
  <2>1. pass'.ca = pass.ca /\ pass'.clusterCA = pass.clusterCA /\ pc' = pc
    BY <1>2 DEF EditSpec, DeleteInstance, RecreateInstance, WriteInstance, TypeOK, PassTypeOK, Passes
  <2>2. ~Calm'
    BY <1>2 DEF EditSpec, DeleteInstance, RecreateInstance, WriteInstance, Calm
  <2> QED
    BY <2>1, <2>2, SyncPending, SyncKeepsUnread
<1>3. CASE Restart
  <2>1. pc' = "idle"
    BY <1>3 DEF Restart, Finish
  <2>2. inst # None => dirty'
    BY <1>3 DEF Restart
  <2>3. ~Calm'
    BY <1>3, <2>2 DEF Restart, Calm
  <2> QED
    BY <2>1, <2>3, SyncPending DEF Unread
<1>4. CASE PullSecretChanges
  <2>1. CurrentCA' = CurrentCA
    BY <1>4 DEF PullSecretChanges, CurrentCA, TypeOK, ClusterTypeOK
  <2> QED
    BY <1>4, <2>1, SyncFrame DEF PullSecretChanges, api, queue, caches, Calm
<1>5. CASE ImageConfigChanges \/ TrustedCAChanges
  <2>1. /\ UNCHANGED <<inst, cached, fresh, request, obj, deploy, behind, timer, pc, pass>>
        /\ dirty' = dirty \/ dirty' = (dirty \/ cached # None)
    BY <1>5 DEF ImageConfigChanges, TrustedCAChanges, MapperEnqueues, api, caches
  <2>2. CASE dirty'
    BY <2>1, <2>2, SyncPending, SyncKeepsUnread DEF Calm
  <2>3. CASE ~dirty' /\ cached = None
    <3>1. ~Calm'
      BY <1>0, <2>1, <2>3 DEF Calm
    <3> QED
      BY <2>1, <3>1, SyncPending, SyncKeepsUnread
  <2>4. CASE ~dirty' /\ cached # None
    <3>1. CurrentCA' = CurrentCA
      BY <2>4
    <3>2. Calm' => Calm
      BY <2>1, <2>4 DEF Calm, TypeOK, WorkTypeOK
    <3> QED
      BY <2>1, <3>1, <3>2, SyncFrame
  <2> QED
    BY <2>2, <2>3, <2>4
<1>6. ASSUME NEW k \in LoopKinds, ObjectDrifts(k) \/ CollectObject(k) PROVE SyncInv'
  <2>0. Notify(k) /\ UNCHANGED <<inst, request, fresh, deploy, timer, pc, pass>>
    BY <1>6 DEF ObjectDrifts, CollectObject, api
  <2>1. CASE k \in Watched
    BY <2>0, <2>1, NotifyPending, SyncPending, SyncKeepsUnread
  <2>2. CASE k \notin Watched
    <3>1. k = "pullSecret"
      BY <1>6, <2>2 DEF Watched
    <3>2. \A j \in Noticed : obj'[j] = obj[j]
      BY <1>6, <3>1 DEF ObjectDrifts, CollectObject, TypeOK, ClusterTypeOK, Noticed
    <3>3. CurrentCA' = CurrentCA
      BY <1>6 DEF ObjectDrifts, CollectObject, CurrentCA
    <3> QED
      BY <2>0, <3>1, <3>2, <3>3, NotifySecret, SyncFrame
  <2> QED
    BY <2>1, <2>2
<1>7. ASSUME NEW k \in Lagging, DeliverObject(k) PROVE SyncInv'
  <2>0. UNCHANGED <<inst, request, fresh, src, obj, deploy, timer, pc, pass>>
    BY <1>7 DEF DeliverObject, api
  <2>1. CASE k \in Watched
    BY <1>7, <2>0, <2>1, SyncPending, SyncKeepsUnread DEF DeliverObject, Enqueue, Calm
  <2>2. CASE k \notin Watched
    <3>1. k = "pullSecret"
      BY <2>2, LaggingAssumption DEF Watched
    <3>2. Calm' => Calm
      BY <1>7, <2>0, <3>1 DEF DeliverObject, Enqueue, Calm
    <3> QED
      BY <2>0, <3>2, SyncFrame DEF CurrentCA
  <2> QED
    BY <2>1, <2>2
<1>8. CASE InjectBundle \/ DeploymentDrifts \/ CollectDeployment
  <2>1. PICK k \in Watched : Notify(k)
    BY <1>8, KindsOfTheLoop DEF InjectBundle, DeploymentDrifts, CollectDeployment, Watched
  <2>2. UNCHANGED <<pc, pass>>
    BY <1>8 DEF InjectBundle, DeploymentDrifts, CollectDeployment
  <2> QED
    BY <2>1, <2>2, NotifyPending, SyncPending, SyncKeepsUnread
<1> QED
  BY <1>1, <1>2, <1>3, <1>4, <1>5, <1>6, <1>7, <1>8 DEF User, Collect, Deliver

-----------------------------------------------------------------------------
(* The pass. *)

\* A step that ends the pass with an error: the retry is on its way.
LEMMA SyncError == ReturnError => SyncInv'
BY DEF ReturnError, Finish, EmptyPass, SyncInv, Unread, PassCurrent, LoopInPlace, RestInPlace

\* A pass begins with what the informer has, whatever was left out of place.
LEMMA SyncBegin == Coherent /\ Begin => SyncInv'
<1> SUFFICES ASSUME Coherent, Begin PROVE SyncInv'
  OBVIOUS
<1>1. pass' = [EmptyPass EXCEPT !.uid = cached.uid, !.spec = cached.spec, !.current = fresh]
      /\ UNCHANGED <<inst, cached, fresh, request>>
      /\ cached # None
  BY DEF Begin, api
<1>2. pass'.ca = None /\ pass'.clusterCA = "new" /\ pass'.spec = cached.spec
  BY <1>1 DEF EmptyPass
<1>3. Calm' => pc' = "findPullSecret" /\ pass'.spec = inst'.spec
  BY <1>1, <1>2 DEF Begin, Calm, Coherent
<1>4. Calm' => PassCurrent' /\ LoopInPlace' /\ RestInPlace'
  BY <1>3 DEF PassCurrent, LoopInPlace, RestInPlace
<1> QED
  BY <1>2, <1>4 DEF SyncInv, Unread

\* The gathering of the sources ends with what the cluster holds, or with an error.  That
\* findTrustedClusterCAConfig drops its errors does no harm.
LEMMA SyncGather ==
  TypeOK /\ Coherent /\ InformersFollow /\ SyncInv /\ Gather => SyncInv'
<1> SUFFICES ASSUME TypeOK, Coherent, InformersFollow, SyncInv, Gather
             PROVE  SyncInv'
  OBVIOUS
<1>0. pass \in Passes
  BY DEF TypeOK, PassTypeOK
<1>1. CASE Ignore
  <2>1. inst # None /\ fresh => cached # None
    <3>1. inst # None => inst.uid \in 1..MaxUid /\ inst.spec \in Specs
      BY DEF TypeOK, ApiTypeOK
    <3> QED
      BY <3>1, NoneIsNoCopy DEF Coherent
  <2>2. ~Calm'
    BY <1>1, <2>1 DEF Ignore, Calm, api
  <2> QED
    BY <1>1, <2>2, SyncPending, SyncKeepsUnread DEF Ignore
<1>2. CASE Begin
  BY <1>2, SyncBegin
<1>3. CASE BeginFails \/ PullSecretNotFound \/ TrustedCANotFound \/ GatherFails \/ RenderFails
  BY <1>3, SyncError DEF BeginFails, PullSecretNotFound, TrustedCANotFound, GatherFails, RenderFails
<1>4. CASE Reject
  <2>1. ~Calm' /\ pc' = "idle"
    BY <1>4 DEF Reject, Finish, Coherent, Calm
  <2> QED
    BY <2>1, SyncPending DEF Unread
<1>5. CASE FindPullSecret \/ FindTrustedCA \/ NoTrustedCA
  <2>1. UNCHANGED <<inst, fresh, request, dirty, behind, src, obj, deploy>>
    BY <1>5 DEF FindPullSecret, FindTrustedCA, NoTrustedCA, api, cluster, caches, queue
  <2>2. Calm' => Calm
    BY <2>1 DEF Calm
  <2>3. pass'.spec = pass.spec /\ pc # "idle"
    BY <1>0, <1>5 DEF FindPullSecret, FindTrustedCA, NoTrustedCA, Passes
  <2>4. /\ pass'.clusterCA = "new"
        /\ \/ pc' = "findTrustedCA" /\ pass'.ca = None
           \/ pc' = "findClusterCA" /\ pass'.ca = CurrentCA
    <3>1. CASE FindPullSecret
      BY <1>0, <3>1 DEF FindPullSecret, Passes, SyncInv, Unread
    <3>2. CASE FindTrustedCA
      BY <1>0, <3>2 DEF FindTrustedCA, Passes, CurrentCA, SyncInv, Unread
    <3>3. CASE NoTrustedCA
      BY <1>0, <3>3, SourcesAssumption DEF NoTrustedCA, Passes, CurrentCA, SyncInv, Unread
    <3> QED
      BY <1>5, <3>1, <3>2, <3>3
  <2>5. CurrentCA' = CurrentCA
    BY <2>1 DEF CurrentCA
  <2>6. Calm' => PassCurrent' /\ LoopInPlace' /\ RestInPlace'
    BY <2>1, <2>2, <2>3, <2>4, <2>5 DEF SyncInv, PassCurrent, LoopInPlace, RestInPlace
  <2> QED
    BY <2>4, <2>6 DEF SyncInv, Unread
<1>6. CASE FindClusterCA
  <2>1. UNCHANGED <<inst, fresh, request, dirty, behind, src, obj, deploy>>
    BY <1>6 DEF FindClusterCA, api, cluster, caches, queue
  <2>2. pass'.spec = pass.spec /\ pass'.ca = pass.ca /\ pass'.next = 1
        /\ (pass'.clusterCA = "found" => Seen("clusterCA") # None)
    <3>1. pass.clusterCA = "new" /\ pass.next = 1
      BY <1>6 DEF SyncInv, Unread, FindClusterCA, TypeOK, PassTypeOK
    <3>2. CASE pass' = [pass EXCEPT !.completed = "started",
                                    !.clusterCA = IF HasBundle THEN "found" ELSE "new",
                                    !.caFound = IF LacksBundle THEN "False" ELSE @]
      BY <1>0, <3>1, <3>2 DEF Passes, HasBundle
    <3>3. CASE pass' = [pass EXCEPT !.completed = "started"]
      BY <1>0, <3>1, <3>3 DEF Passes
    <3> QED
      BY <1>6, <3>2, <3>3 DEF FindClusterCA
  <2>3. pc = "findClusterCA" /\ pc' = "ensure"
    BY <1>6 DEF FindClusterCA
  <2>4. CurrentCA' = CurrentCA /\ (Calm' => Calm)
    BY <2>1 DEF CurrentCA, Calm
  <2>5. Calm => Seen("clusterCA") = obj["clusterCA"]
    BY CalmSeen, KindsOfTheLoop DEF Current
  <2>6. Calm' => PassCurrent' /\ LoopInPlace' /\ RestInPlace'
    BY <2>1, <2>2, <2>3, <2>4, <2>5 DEF SyncInv, PassCurrent, LoopInPlace, RestInPlace
  <2> QED
    BY <2>3, <2>6 DEF SyncInv, Unread
<1> QED
  BY <1>1, <1>2, <1>3, <1>4, <1>5, <1>6 DEF Gather

\* The pull secret matters to the kind that is not watched only.
LEMMA RenderedNoticed ==
  ASSUME NEW s, NEW ps, NEW ca, NEW k \in Noticed
  PROVE  Rendered(s, ps, ca)[k] = Rendered(s, None, ca)[k]
BY KindsOfTheLoop DEF Rendered, Noticed

\* After the step object k is what the pass asks for.
WillBeInPlace(k) ==
  \/ Unwanted(k, pass.ca)
  \/ obj'[k] # None
     /\ (k = "clusterCA" \/ obj'[k].val = Rendered(pass.spec, None, pass.ca)[k])

\* A step to the next kind that leaves the noticed objects as they are unless an
\* event is on its way, and the current one in place.
LEMMA SyncAdvance ==
  ASSUME TypeOK, SyncInv, pc = "ensure", NEW p \in Passes, NextKind(p),
         p.spec = pass.spec, p.ca = pass.ca, p.clusterCA = pass.clusterCA, p.next = pass.next,
         UNCHANGED <<inst, request, fresh, src, deploy>>,
         Calm' => Calm /\ \A k \in Noticed : obj'[k] = obj[k],
         Calm' /\ Kind \in Noticed => WillBeInPlace(Kind)
  PROVE  SyncInv'
<1>1. pass.next \in 1..10 /\ pass \in Passes
  BY DEF TypeOK, PassTypeOK, Passes
<1>2. pass'.spec = pass.spec /\ pass'.ca = pass.ca /\ pass'.clusterCA = pass.clusterCA
      /\ pass'.next = pass.next + 1
  BY <1>1 DEF NextKind, Passes
<1>3. pc' = IF pass.next = 10 THEN "graphData" ELSE "ensure"
  BY LoopHasTenKinds DEF NextKind
<1>4. CurrentCA' = CurrentCA
  BY DEF CurrentCA
<1> SUFFICES ASSUME Calm' PROVE PassCurrent' /\ LoopInPlace' /\ RestInPlace'
  BY <1>3 DEF SyncInv, Unread
<1>5. Calm /\ \A k \in Noticed : obj'[k] = obj[k]
  OBVIOUS
<1>6. PassCurrent /\ LoopInPlace
  BY <1>5 DEF SyncInv
<1>7. PassCurrent'
  BY <1>2, <1>3, <1>4, <1>6 DEF PassCurrent
<1>8. ASSUME NEW i \in 1..10, i < pass.next + 1, EnsureOrder[i] \in Noticed
      PROVE  WillBeInPlace(EnsureOrder[i])
  <2>1. CASE i = pass.next
    BY <1>8, <2>1 DEF Kind
  <2>2. CASE i < pass.next
    <3>1. InPlace(EnsureOrder[i], pass.spec, None, pass.ca)
      BY <1>6, <1>8, <2>2 DEF LoopInPlace
    <3> QED
      BY <1>5, <1>8, <3>1 DEF InPlace, WillBeInPlace
  <2> QED
    BY <1>1, <1>8, <2>1, <2>2
<1>9. LoopInPlace'
  <2>1. pass'.clusterCA = "found" => obj'["clusterCA"] # None
    BY <1>2, <1>3, <1>5, <1>6, KindsOfTheLoop DEF LoopInPlace, Noticed
  <2>2. ASSUME NEW i \in 1..10, i < pass'.next, EnsureOrder[i] \in Noticed
        PROVE  InPlace(EnsureOrder[i], pass.spec, None, pass.ca)'
    BY <1>2, <1>8, <2>2 DEF InPlace, WillBeInPlace
  <2> QED
    BY <2>1, <2>2 DEF LoopInPlace
<1>10. pc' = "graphData" => WatchedInPlace(pass.spec, pass.ca)'
  <2> SUFFICES ASSUME pass.next = 10, NEW k \in Noticed
               PROVE  InPlace(k, pass.spec, None, pass.ca)'
    BY <1>3 DEF WatchedInPlace
  <2>1. PICK i \in 1..10 : k = EnsureOrder[i]
    BY DEF Noticed, LoopKinds
  <2>2. WillBeInPlace(k)
    BY <1>8, <2>1
  <2> QED
    BY <1>2, <2>2 DEF InPlace, WillBeInPlace
<1> QED
  BY <1>2, <1>3, <1>7, <1>9, <1>10 DEF RestInPlace

\* The ensure loop, as long as no call of it fails and the copy of the pull secret does
\* not break it off: what was not changed is in place, what was is watched.
LEMMA SyncEnsure ==
  TypeOK /\ InformersFollow /\ SyncInv /\ EnsureObject
  /\ budget' = budget /\ ~(Kind = "pullSecret" /\ pc' = "graphData") => SyncInv'
<1> SUFFICES ASSUME TypeOK, InformersFollow, SyncInv, EnsureObject, budget' = budget,
                    ~(Kind = "pullSecret" /\ pc' = "graphData")
             PROVE  SyncInv'
  OBVIOUS
<1>0. pc = "ensure" /\ PassTypeOK /\ pass \in Passes
  BY DEF TypeOK, PassTypeOK, EnsureObject, EnsureNothing, EnsureCreates, EnsureKeeps,
     EnsureUpdates, EnsureSwallows, EnsureBreaks, EnsureTimesOut, Ensuring
<1> DEFINE q == Noted
<1>1. q \in Passes /\ q.next = pass.next
  BY <1>0, NotedType
<1>2. q.spec = pass.spec /\ q.ca = pass.ca /\ q.clusterCA = pass.clusterCA
  BY <1>0 DEF Noted, Passes
<1> HIDE DEF q
<1>3. Kind \in Noticed => Want = Rendered(pass.spec, None, pass.ca)[Kind]
  BY RenderedNoticed DEF Want
<1>4. Kind \in LoopKinds
  BY <1>0, KindType
<1>5. Calm /\ Kind # "pullSecret" => Found = obj[Kind] /\ ~Stale
  <2>1. Kind # "deployment"
    BY <1>4, KindsOfTheLoop
  <2> QED
    BY <2>1, CalmSeen DEF Found, Current, Stale, Calm
<1>6. CASE EnsureNothing
  <2>1. Calm' => Calm /\ \A k \in Noticed : obj'[k] = obj[k]
    BY <1>6 DEF EnsureNothing, Calm, api, cluster, caches, queue
  <2>2. Kind \in Noticed => WillBeInPlace(Kind)
    BY <1>6 DEF EnsureNothing, WillBeInPlace
  <2> QED
    BY <1>0, <1>6, <2>1, <2>2, SyncAdvance DEF EnsureNothing, api, cluster
<1>7. CASE EnsureKeeps
  <2>1. Calm' => Calm /\ \A k \in Noticed : obj'[k] = obj[k]
    BY <1>7 DEF EnsureKeeps, Calm, api, cluster, caches, queue
  <2>2. Calm' /\ Kind \in Noticed => WillBeInPlace(Kind)
    BY <1>3, <1>5, <1>7, <2>1 DEF EnsureKeeps, WillBeInPlace, Noticed
  <2>3. NextKind(q) /\ UNCHANGED <<inst, request, fresh, src, deploy>>
    BY <1>7 DEF EnsureKeeps, api, cluster, q
  <2> QED
    BY <1>0, <1>1, <1>2, <2>1, <2>2, <2>3, SyncAdvance
<1>8. CASE EnsureCreates \/ EnsureUpdates
  <2>1. NextKind(q) /\ Notify(Kind) /\ UNCHANGED <<inst, request, fresh, src, deploy>>
    BY <1>8 DEF EnsureCreates, EnsureUpdates, api, q
  <2>2. CASE Kind \in Watched
    <3>1. ~Calm'
      BY <2>1, <2>2, NotifyPending
    <3> QED
      BY <1>0, <1>1, <1>2, <2>1, <3>1, SyncAdvance
  <2>3. CASE Kind \notin Watched
    <3>1. Kind = "pullSecret" /\ Kind \notin Noticed
      BY <1>4, <2>3, NoticedWatched DEF Noticed
    <3>2. \A k \in Noticed : obj'[k] = obj[k]
      BY <1>8, <3>1 DEF EnsureCreates, EnsureUpdates, TypeOK, ClusterTypeOK, Noticed
    <3>3. Calm' => Calm
      BY <2>1, <3>1, NotifySecret
    <3> QED
      BY <1>0, <1>1, <1>2, <2>1, <3>1, <3>2, <3>3, SyncAdvance
  <2> QED
    BY <2>2, <2>3
<1>9. CASE EnsureTimesOut
  BY <1>9, FailureSpends DEF EnsureTimesOut
<1>10. CASE EnsureSwallows
  <2>1. Stale /\ behind' = behind /\ pc' \in {"graphData", "ensure"}
    BY <1>10, FailureSpends DEF EnsureSwallows, NextKind, cluster, caches
  <2>2. Kind # "pullSecret"
    BY <1>10 DEF EnsureSwallows, Swallows
  <2>3. ~Calm'
    BY <2>1, <2>2 DEF Stale, Calm
  <2> QED
    BY <2>1, <2>3, SyncPending DEF Unread
<1>11. CASE EnsureBreaks
  <2>1. UNCHANGED <<inst, request, fresh, dirty, behind, obj>> /\ pc' = "graphData"
    BY <1>11 DEF EnsureBreaks, api, cluster, caches, queue
  <2>2. Calm' => Calm
    BY <2>1 DEF Calm
  <2>3. Calm => obj[Kind] = None /\ CreateRefused
    BY <1>5, <1>11, <2>1, FailureSpends DEF EnsureBreaks, Creatable
  <2>4. ~Calm'
    BY <1>0, <2>2, <2>3 DEF SyncInv, LoopInPlace, CreateRefused
  <2> QED
    BY <2>1, <2>4, SyncPending DEF Unread
<1> QED
  BY <1>6, <1>7, <1>8, <1>9, <1>10, <1>11 DEF EnsureObject

\* The graph-data image and the Deployment.
LEMMA SyncDeploy ==
  TypeOK /\ InformersFollow /\ SyncInv /\ (EnsureGraphData \/ EnsureDeployment) => SyncInv'
<1> SUFFICES ASSUME TypeOK, InformersFollow, SyncInv, EnsureGraphData \/ EnsureDeployment
             PROVE  SyncInv'
  OBVIOUS
<1>0. pass \in Passes
  BY DEF TypeOK, PassTypeOK
<1>1. CASE GraphDataPodCreated \/ GraphDataPodDeleted
  BY <1>1, SyncPending DEF GraphDataPodCreated, GraphDataPodDeleted, GraphDataDone, Calm, Unread
<1>2. CASE GraphDataPinned \/ GraphDataResolved \/ GraphDataUnknown
  <2>1. pc = "graphData" /\ pc' = "deployment" /\ pass'.spec = pass.spec /\ pass'.ca = pass.ca
    BY <1>0, <1>2 DEF GraphDataPinned, GraphDataResolved, GraphDataUnknown, Resolving,
       GraphDataDone, Passes
  <2>2. UNCHANGED <<inst, request, fresh, dirty, behind, src, obj>>
    BY <1>2 DEF GraphDataPinned, GraphDataResolved, GraphDataUnknown, api, cluster, caches, queue
  <2>3. Calm' => Calm /\ CurrentCA' = CurrentCA
    BY <2>2 DEF Calm, CurrentCA
  <2>4. Calm' => PassCurrent' /\ LoopInPlace' /\ RestInPlace'
    BY <2>1, <2>2, <2>3
       DEF SyncInv, PassCurrent, LoopInPlace, RestInPlace, WatchedInPlace, InPlace
  <2> QED
    BY <2>1, <2>4 DEF SyncInv, Unread
<1>3. CASE DeploymentWritten
  <2>1. ~Calm'
    BY <1>3, NotifyPending DEF DeploymentWritten, WriteDeployment, Watched
  <2>2. pc' = "status"
    BY <1>3 DEF DeploymentWritten, DeploymentDone
  <2> QED
    BY <2>1, <2>2, SyncPending DEF Unread
<1>4. CASE DeploymentLeftAlone
  <2>1. pc = "deployment" /\ pc' = "status" /\ pass'.spec = pass.spec /\ pass'.ca = pass.ca
    BY <1>0, <1>4 DEF DeploymentLeftAlone, DeploymentDone, Passes
  <2>2. UNCHANGED <<inst, request, fresh, dirty, behind, src, obj, deploy>>
    BY <1>4 DEF DeploymentLeftAlone, api, cluster, caches, queue
  <2>3. Calm' => Calm /\ CurrentCA' = CurrentCA
    BY <2>2 DEF Calm, CurrentCA
  <2>4. Calm => DeploymentInPlace(pass.spec, pass.ca)
    <3> SUFFICES ASSUME Calm PROVE DeploymentInPlace(pass.spec, pass.ca)
      OBVIOUS
    <3>1. FoundDeployment = deploy
      BY CalmSeen DEF FoundDeployment, Current
    <3>2. deploy # None /\ (deploy.init # None => MergeDeployment(deploy, pass) = deploy)
      BY <1>4, <3>1 DEF DeploymentLeftAlone, NeedsMerge, Merged
    <3>3. deploy \in Deployments
      BY <3>2 DEF TypeOK, ClusterTypeOK
    <3> QED
      BY <3>2, <3>3 DEF MergeDeployment, DeploymentInPlace, Deployments
  <2>5. Calm' => PassCurrent' /\ LoopInPlace' /\ RestInPlace'
    BY <2>1, <2>2, <2>3, <2>4
       DEF Calm, SyncInv, PassCurrent, LoopInPlace, RestInPlace, WatchedInPlace, InPlace,
           DeploymentInPlace
  <2> QED
    BY <2>1, <2>5 DEF SyncInv, Unread
<1>5. CASE DeploymentFails \/ DeploymentTimesOut
  BY <1>5, SyncError DEF DeploymentFails, DeploymentTimesOut
<1> QED
  BY <1>1, <1>2, <1>3, <1>4, <1>5 DEF EnsureGraphData, EnsureDeployment

\* The status write ends a pass that left everything in place.
LEMMA SyncStatus == TypeOK /\ SyncInv /\ UpdateStatus => SyncInv'
<1> SUFFICES ASSUME TypeOK, SyncInv, UpdateStatus, Calm' PROVE SyncInv'
  BY DEF SyncInv, Unread, UpdateStatus, ReturnPeriodic, Finish
<1>1. pc = "status" /\ pc' = "idle"
      /\ UNCHANGED <<request, dirty, behind, src, obj, deploy>>
  BY DEF UpdateStatus, ReturnPeriodic, Finish, cluster, caches
<1>2. inst # None /\ inst'.spec = inst.spec /\ fresh
  <2>1. inst # None => inst \in [uid : 1..MaxUid, spec : Specs, status : Statuses]
    BY DEF TypeOK, ApiTypeOK
  <2>2. CASE LoseStatus
    BY <2>2 DEF LoseStatus, Calm
  <2>3. CASE PersistStatus(StatusOf(pass))
    BY <2>1, <2>3 DEF PersistStatus, Calm
  <2> QED
    BY <2>2, <2>3 DEF UpdateStatus
<1>3. Calm /\ CurrentCA' = CurrentCA
  BY <1>1, <1>2 DEF Calm, CurrentCA
<1>4. pass.spec = inst.spec /\ pass.ca = CurrentCA
  BY <1>1, <1>3 DEF SyncInv, PassCurrent
<1>5. WatchedInPlace(pass.spec, pass.ca) /\ DeploymentInPlace(pass.spec, pass.ca)
  BY <1>1, <1>3 DEF SyncInv, RestInPlace
<1>6. Synced(inst.spec, CurrentCA)'
  BY <1>1, <1>2, <1>3, <1>4, <1>5 DEF Synced, WatchedInPlace, InPlace, DeploymentInPlace
<1> QED
  BY <1>1, <1>6 DEF SyncInv, Unread, PassCurrent, LoopInPlace, RestInPlace

-----------------------------------------------------------------------------
(* What follows. *)

LEMMA SyncInit == Init => SyncInv
BY DEF Init, SyncInv, Unread, Calm

LEMMA SyncIsQuiet == SyncInv => QuietMeansInSync
BY DEF SyncInv, Calm, RestInPlace, QuietMeansInSync, Renderable

\* Where no call fails, the mapper drops no event ...
LEMMA EventsArrive ==
  ASSUME QuietAssumption, TypeOK, CurrentCA' # CurrentCA, cached # None,
         Deliver \/ TimerFires \/ Collect \/ InjectBundle \/ PodAdvances \/ User \/ Restart
  PROVE  dirty'
<1>1. src' # src
  BY DEF CurrentCA
<1>2. CASE ImageConfigChanges
  BY <1>2 DEF ImageConfigChanges, MapperEnqueues, QuietAssumption
<1>3. CASE TrustedCAChanges
  <2>1. src.image = "named"
    BY <1>3 DEF TrustedCAChanges, CurrentCA, TypeOK, ClusterTypeOK
  <2> QED
    BY <1>3, <2>1 DEF TrustedCAChanges, MapperEnqueues, QuietAssumption
<1>4. CASE PullSecretChanges
  BY <1>4 DEF PullSecretChanges, CurrentCA, TypeOK, ClusterTypeOK
<1>5. CASE EditSpec \/ DeleteInstance \/ RecreateInstance \/ DeploymentDrifts
           \/ \E k \in LoopKinds : ObjectDrifts(k)
  BY <1>1, <1>5 DEF EditSpec, DeleteInstance, RecreateInstance, DeploymentDrifts, ObjectDrifts, cluster
<1> QED
  BY <1>1, <1>2, <1>3, <1>4, <1>5
     DEF User, Deliver, DeliverInstance, DeliverObject, TimerFires, Collect, CollectObject,
         CollectDeployment, CollectPod, InjectBundle, PodAdvances, Restart, cluster

\* ... and the copy of the pull secret does not break the loop off.
LEMMA LoopGoesOn ==
  ASSUME QuietAssumption, TypeOK, InformersFollow, EnsureObject
  PROVE  budget' = budget /\ ~(Kind = "pullSecret" /\ pc' = "graphData")
<1>1. ~Disturb("fault")
  BY NoFault
<1>2. budget' = budget
  BY <1>1 DEF EnsureObject, EnsureNothing, EnsureCreates, EnsureKeeps, EnsureUpdates,
     EnsureSwallows, EnsureBreaks, EnsureTimesOut
<1>3. SUFFICES ASSUME Kind = "pullSecret" PROVE pc' # "graphData"
  BY <1>2
<1>4. pass.next # 10
  BY <1>3 DEF Kind, EnsureOrder
<1>5. Found = obj[Kind] /\ ~Stale /\ ~CreateRefused
  BY <1>3 DEF QuietAssumption, Found, Seen, Current, Stale, CreateRefused, TypeOK, CacheTypeOK
<1>6. ~EnsureBreaks /\ ~EnsureTimesOut
  BY <1>1, <1>5 DEF EnsureBreaks, EnsureTimesOut, Creatable
<1> QED
  BY <1>4, <1>6, LoopHasTenKinds DEF EnsureObject, EnsureNothing, EnsureCreates, EnsureKeeps,
     EnsureUpdates, EnsureSwallows, NextKind

\* The informers that are not behind show what the API holds (the informers' events).
LEMMA InformersAreRight == Spec => []InformersFollow
<1>1. Init => InformersFollow
  BY LaggingAssumption DEF Init, InformersFollow, Current
<1> QED
  BY <1>1, InformersStep, TypeCorrect, PTL DEF Spec

\* While no API call fails, whatever users edit, delete, re-create or drift, whenever
\* the operator restarts and however far the informers lag behind: once the queue is
\* empty and no event is on its way, every watched object and the Deployment are what
\* the spec and the CA ask for.
THEOREM QuietIsInSync == ASSUME QuietAssumption PROVE Spec => []QuietMeansInSync
<1>1. TypeOK /\ Coherent /\ InformersFollow /\ SyncInv /\ [Next]_vars => SyncInv'
  <2> SUFFICES ASSUME TypeOK, Coherent, InformersFollow, SyncInv, [Next]_vars PROVE SyncInv'
    OBVIOUS
  <2>1. CASE Deliver \/ TimerFires \/ Collect \/ InjectBundle \/ PodAdvances \/ User \/ Restart
    BY <2>1, EventsArrive, SyncEnvironment
  <2>2. CASE EnsureObject
    BY <2>2, LoopGoesOn, SyncEnsure
  <2>3. CASE Gather \/ EnsureGraphData \/ EnsureDeployment \/ UpdateStatus
    BY <2>3, SyncGather, SyncDeploy, SyncStatus
  <2>4. CASE UNCHANGED vars
    BY <2>4, SyncFrame DEF vars, CurrentCA, Calm
  <2> QED
    BY <2>1, <2>2, <2>3, <2>4 DEF Next, Reconcile
<1> QED
  BY <1>1, SyncInit, SyncIsQuiet, Coherence, InformersAreRight, PTL DEF Spec

=============================================================================
