----------------------- MODULE UpdateServiceReconciler -----------------------
(***************************************************************************)
(* One UpdateService and the controller that reconciles it: the API        *)
(* object, the operator's informer copy of it, the work queue with its     *)
(* delayed re-adds, and UpdateServiceReconciler.Reconcile, one action per  *)
(* API call of a pass.  Users, the garbage collector, the kubelet, crashes *)
(* and API failures interleave with the pass at every call.                *)
(*                                                                         *)
(* The operator reads through informers.  Those of the kinds in Lagging    *)
(* are separate copies of the API's objects and may be out of date when    *)
(* they are read; for the others a change and its event are one step.      *)
(***************************************************************************)
EXTENDS Naturals, Sequences

CONSTANTS
  None,            \* absent object, empty field
  Foreign,         \* content that is none of the operator's renderings
  Specs,           \* the specs a user may give: [replicas, releases, graphData]
  Malformed,       \* the values of releases that contain no "/"
  Pinned,          \* the values of graphData that contain "@sha256"
  Secrets,         \* contents of the cluster pull secret
  Certs,           \* contents of the CA ConfigMap under updateservice-registry
  Requests,        \* kinds of request key: see request below
  Lagging,         \* the kinds whose informer may lag behind the API
  ProxySet,        \* TRUE iff HTTP_PROXY, HTTPS_PROXY or NO_PROXY is set
  InitSources,     \* states of the sources the operator may start with
  Disturbances,    \* what users, crashes and failures do in this instance
  DeploymentEdits, \* the hand edits of the Deployment
  CollectInOrder,  \* bound: the garbage collector follows EnsureOrder
  MaxDisturbances, \* bound on the number of disturbances
  MaxUid           \* bound on the incarnations of the UpdateService

ASSUME SpecsAssumption ==
  \A s \in Specs : /\ s.replicas \in Nat \ {0} /\ s.graphData # None
                   /\ s = [replicas |-> s.replicas, releases |-> s.releases,
                           graphData |-> s.graphData]
ASSUME BoundsAssumption ==
  MaxDisturbances \in Nat /\ MaxUid \in Nat \ {0} /\ CollectInOrder \in BOOLEAN
ASSUME EditsAssumption ==
  DeploymentEdits \subseteq {"delete", "scale", "mounts", "removeInit", "addInit",
                            "removeContainer", "addContainer"}
ASSUME SourcesAssumption ==
  /\ None \notin Secrets \cup Certs /\ Foreign \notin Certs
  /\ InitSources \subseteq [ps : Secrets \cup {None},
                            image : {"absent", "unset", "named"},
                            caMap : Certs \cup {None, Foreign}]

VARIABLES
  inst,    \* the UpdateService in the API: None or [uid, spec, status]
  cached,  \* the informer's copy: None or [uid, spec]
  fresh,   \* TRUE iff cached is the API's current version
  request, \* what its name and namespace are to the operator; never changes
  src,     \* pull secret, image.config/cluster and the ConfigMap it names
  obj,     \* the objects of the ensure loop: None or [owner, val]
  deploy,  \* the Deployment
  seen,    \* the informers' copies of the kinds in Lagging
  behind,  \* the kinds whose copy is not the API's current version
  pod,     \* the graph-data-tag-digest Pod
  dirty,   \* the request is in the work queue
  timer,   \* the delayed re-add of the request: "off", "retry" or "period"
  pc,      \* where Reconcile is, "idle" between passes
  pass,    \* the locals of Reconcile
  uids,    \* incarnations so far
  budget   \* disturbances left

caches  == <<seen, behind>>
cluster == <<src, obj, deploy, pod, caches>>
queue   == <<dirty, timer>>
api     == <<inst, cached, fresh, request, uids>>
vars    == <<inst, cached, fresh, request, src, obj, deploy, pod, seen, behind,
             dirty, timer, pc, pass, uids, budget>>

-----------------------------------------------------------------------------
(* What the operator renders. *)

EnsureOrder == <<"gbConfig", "pullSecret", "envConfig", "clusterCA", "trustedCA",
                 "gbService", "peService", "pdb", "route", "networkPolicy">>
LoopKinds == {EnsureOrder[i] : i \in 1..10}

\* Mutant of Watched: SetupWithManager forgets Owns(&routev1.Route{}).
MutWatched == (LoopKinds \ {"pullSecret", "route"}) \cup {"deployment"}

\* SetupWithManager owns every kind but Secret.
Watched == (LoopKinds \ {"pullSecret"}) \cup {"deployment"}

ASSUME LaggingAssumption == Lagging \subseteq LoopKinds \cup {"deployment"}

\* The kinds whose failed Update is logged and not returned.
Swallows == {"pdb", "route", "networkPolicy"}

\* getMinAvailablePBD
MinAvailable(spec) == IF spec.replicas >= 2 THEN "one" ELSE "zero"

\* newKubeResources: what each object of the loop should hold.
Rendered(spec, ps, ca) ==
  [gbConfig |-> spec.releases, pullSecret |-> ps, envConfig |-> "env",
   clusterCA |-> "empty", trustedCA |-> ca, gbService |-> "gb", peService |-> "pe",
   pdb |-> MinAvailable(spec), route |-> "to-pe", networkPolicy |-> spec.releases]

\* Mutant of Unwanted: the cluster CA ConfigMap is never made, proxy or not.
MutUnwanted(k, ca) == (k = "trustedCA" /\ ca = None) \/ k = "clusterCA"

\* The resources newKubeResources leaves nil.
Unwanted(k, ca) == (k = "trustedCA" /\ ca = None) \/ (k = "clusterCA" /\ ~ProxySet)

\* newVolumes and newGraphBuilderVolumeMounts
Mounts(ca) == {v \in {"trusted-ca", "cluster-trusted-ca"} :
                 IF v = "trusted-ca" THEN ca # None ELSE ProxySet}

\* Mutant of NewDeployment: no SetControllerReference.
MutNewDeployment(uid, spec, ca) ==
  [owner |-> None, replicas |-> spec.replicas, hash |-> spec.releases,
   volumes |-> Mounts(ca), gb |-> Mounts(ca), init |-> spec.graphData,
   extra |-> {}, sha |-> None]

\* newDeployment.  hash: the graph-builder-config-hash annotation; gb: the mounts
\* of the graph-builder container; init: the image of the graph-data init
\* container; extra: containers nobody rendered; sha: the graph-data-image
\* annotation, which a new Deployment does not have.
NewDeployment(uid, spec, ca) ==
  [owner |-> uid, replicas |-> spec.replicas, hash |-> spec.releases,
   volumes |-> Mounts(ca), gb |-> Mounts(ca), init |-> spec.graphData,
   extra |-> {}, sha |-> None]

\* Mutants of MergeDeployment: the annotations, or the volumes, of the Deployment are
\* not overwritten.
MutMergeDeploymentHash(found, p) ==
  [found EXCEPT !.replicas = p.spec.replicas,
                !.volumes = Mounts(p.ca),
                !.gb = IF @ = None THEN None ELSE Mounts(p.ca),
                !.init = p.spec.graphData,
                !.sha = IF p.sha = None THEN @ ELSE p.sha]
MutMergeDeployment(found, p) ==
  [found EXCEPT !.replicas = p.spec.replicas,
                !.hash = p.spec.releases,
                !.gb = IF @ = None THEN None ELSE Mounts(p.ca),
                !.init = p.spec.graphData,
                !.sha = IF p.sha = None THEN @ ELSE p.sha]

\* The overwrites ensureDeployment applies to a copy of the Deployment it found.
\* Unexpected containers stay; a missing graph-builder is not put back.
MergeDeployment(found, p) ==
  [found EXCEPT !.replicas = p.spec.replicas,
                !.hash = p.spec.releases,
                !.volumes = Mounts(p.ca),
                !.gb = IF @ = None THEN None ELSE Mounts(p.ca),
                !.init = p.spec.graphData,
                !.sha = IF p.sha = None THEN @ ELSE p.sha]

\* Conditions ReconcileCompleted, RegistryCACertFound and ReconcileError.  Module
\* PolicyEngineRoute has the fourth field, policyEngineURI.
NoStatus == [completed |-> "none", caFound |-> "none", error |-> FALSE]

EmptyPass ==
  [uid |-> 0, spec |-> None, current |-> FALSE, ps |-> None, ca |-> None,
   clusterCA |-> "new", next |-> 1, completed |-> "none", caFound |-> "none",
   sha |-> None]

\* The status the pass writes: the copy starts from an empty status.
StatusOf(p) == [completed |-> p.completed, caFound |-> p.caFound, error |-> FALSE]

-----------------------------------------------------------------------------
(* How Reconcile ends, and what a change of the cluster enqueues. *)

Finish == pc' = "idle" /\ pass' = EmptyPass

\* Mutant of ReturnError: the error is logged and not returned.
MutReturnError == Finish /\ timer' = timer

\* A returned error: AddRateLimited.
ReturnError == Finish /\ timer' = "retry"

\* Mutant of ReturnPeriodic: an empty Result instead of RequeueAfter.
MutReturnPeriodic == Finish /\ timer' = timer

\* RequeueAfter: the delaying queue keeps the earlier of two entries.
ReturnPeriodic == Finish /\ timer' = IF timer = "retry" THEN "retry" ELSE "period"

\* An event of kind k enqueues the owner of the object, if the kind is watched.
Enqueue(k) == dirty' = (dirty \/ k \in Watched)

\* A change of an object of kind k leaves its informer behind, or is noticed at once.
Notify(k) ==
  /\ UNCHANGED seen
  /\ IF k \in Lagging THEN behind' = behind \cup {k} /\ UNCHANGED dirty
                       ELSE UNCHANGED behind /\ Enqueue(k)

\* The object of kind k in the API and in the informer of its kind.
Current(k) == IF k = "deployment" THEN deploy ELSE obj[k]
Seen(k)    == IF k \in Lagging THEN seen[k] ELSE Current(k)

CanDisturb(d) == d \in Disturbances /\ budget > 0
Disturb(d)    == CanDisturb(d) /\ budget' = budget - 1

\* The garbage collector spares what has a living owner, or none.
Alive(owner) == owner = None \/ (inst # None /\ inst.uid = owner)

-----------------------------------------------------------------------------
(* The work queue and the informer of UpdateService. *)

Init ==
  /\ \E s \in Specs : inst = [uid |-> 1, spec |-> s, status |-> NoStatus]
  /\ cached = None /\ fresh = FALSE
  /\ request \in Requests
  /\ src \in InitSources
  /\ obj = [k \in LoopKinds |-> None] /\ deploy = None /\ pod = None
  /\ seen = [k \in Lagging |-> None] /\ behind = {}
  /\ dirty = FALSE /\ timer = "off"
  /\ pc = "idle" /\ pass = EmptyPass
  /\ uids = 1 /\ budget = MaxDisturbances

\* The informer takes in the current version and enqueues the request.
DeliverInstance ==
  /\ ~fresh
  /\ cached' = IF inst = None THEN None ELSE [uid |-> inst.uid, spec |-> inst.spec]
  /\ fresh' = TRUE
  /\ dirty' = TRUE
  /\ UNCHANGED <<inst, request, uids, cluster, timer, pc, pass, budget>>

\* The informer of kind k takes in the current version.
DeliverObject(k) ==
  /\ k \in behind
  /\ seen' = [seen EXCEPT ![k] = Current(k)]
  /\ behind' = behind \ {k}
  /\ Enqueue(k)
  /\ UNCHANGED <<api, src, obj, deploy, pod, timer, pc, pass, budget>>

TimerFires ==
  /\ timer # "off"
  /\ timer' = "off" /\ dirty' = TRUE
  /\ UNCHANGED <<api, cluster, pc, pass, budget>>

-----------------------------------------------------------------------------
(* Reconcile, up to the rendered resources. *)

\* The request is for another namespace, or the UpdateService is gone.
Ignore ==
  /\ pc = "idle" /\ dirty
  /\ request = "otherNamespace" \/ cached = None
  /\ dirty' = FALSE
  /\ UNCHANGED <<api, cluster, timer, pc, pass, budget>>

\* Mutant of Begin: a NotFound is ignored, and the pass goes on with an empty instance.
MutBegin ==
  /\ pc = "idle" /\ dirty
  /\ request # "otherNamespace"
  /\ dirty' = FALSE
  /\ pc' = "findPullSecret"
  /\ pass' = IF cached = None THEN EmptyPass
             ELSE [EmptyPass EXCEPT !.uid = cached.uid, !.spec = cached.spec,
                                    !.current = fresh]
  /\ UNCHANGED <<api, cluster, timer, budget>>

Begin ==
  /\ pc = "idle" /\ dirty
  /\ request # "otherNamespace" /\ cached # None
  /\ dirty' = FALSE
  /\ pc' = IF request = "badRouteName" THEN "reject" ELSE "findPullSecret"
  /\ pass' = [EmptyPass EXCEPT !.uid = cached.uid, !.spec = cached.spec,
                               !.current = fresh]
  /\ UNCHANGED <<api, cluster, timer, budget>>

\* Reading the UpdateService fails.
BeginFails ==
  /\ pc = "idle" /\ dirty
  /\ request # "otherNamespace"
  /\ Disturb("fault")
  /\ dirty' = FALSE
  /\ ReturnError
  /\ UNCHANGED <<api, cluster>>

\* Mutant of PersistStatus: the copy is written without its resourceVersion.
MutPersistStatus(st) ==
  /\ inst # None
  /\ inst' = [inst EXCEPT !.status = st]
  /\ fresh' = FALSE

\* A Status().Update is accepted iff the copy is of the current version.  The
\* conditions carry the time in seconds, so an equal status may or may not be a
\* new version of the object.
PersistStatus(st) ==
  /\ inst # None /\ pass.current
  /\ inst' = [inst EXCEPT !.status = st]
  /\ \/ fresh' = FALSE
     \/ st = inst.status /\ fresh' = fresh

LoseStatus ==
  /\ UNCHANGED <<inst, fresh>>
  /\ \/ ~pass.current /\ UNCHANGED budget
     \/ pass.current /\ Disturb("fault")

\* validateRouteName failed: report it and do not come back.
Reject ==
  /\ pc = "reject"
  /\ \/ PersistStatus([NoStatus EXCEPT !.error = TRUE]) /\ UNCHANGED budget
     \/ LoseStatus
  /\ Finish
  /\ UNCHANGED <<cached, request, uids, cluster, queue>>

FindPullSecret ==
  /\ pc = "findPullSecret" /\ src.ps # None
  /\ pc' = "findTrustedCA" /\ pass' = [pass EXCEPT !.ps = src.ps]
  /\ UNCHANGED <<api, cluster, queue, budget>>

PullSecretNotFound ==
  /\ pc = "findPullSecret" /\ src.ps = None
  /\ ReturnError
  /\ UNCHANGED <<api, cluster, dirty, budget>>

\* findTrustedCAConfig returns the ConfigMap ...
FindTrustedCA ==
  /\ pc = "findTrustedCA" /\ src.image = "named" /\ src.caMap \in Certs
  /\ pc' = "findClusterCA" /\ pass' = [pass EXCEPT !.ca = src.caMap]
  /\ UNCHANGED <<api, cluster, queue, budget>>

\* ... or nothing: no image.config, no name in it, or no updateservice-registry
\* key in the ConfigMap (caMap = Foreign) ...
NoTrustedCA ==
  /\ pc = "findTrustedCA" /\ (src.image = "named" => src.caMap = Foreign)
  /\ pc' = "findClusterCA" /\ pass' = [pass EXCEPT !.caFound = "False"]
  /\ UNCHANGED <<api, cluster, queue, budget>>

\* ... or an error: image.config names a ConfigMap that does not exist.
TrustedCANotFound ==
  /\ pc = "findTrustedCA" /\ src.image = "named" /\ src.caMap = None
  /\ ReturnError
  /\ UNCHANGED <<api, cluster, dirty, budget>>

GatherFails ==
  /\ pc \in {"findPullSecret", "findTrustedCA"}
  /\ Disturb("fault")
  /\ ReturnError
  /\ UNCHANGED <<api, cluster, dirty>>

\* The cluster CA ConfigMap has the ca-bundle.crt key once it is injected.
HasBundle   == Seen("clusterCA") # None /\ Seen("clusterCA").val = "injected"
LacksBundle == Seen("clusterCA") # None /\ Seen("clusterCA").val # "injected"

\* findTrustedClusterCAConfig and newKubeResources.  A found ConfigMap with the key
\* is itself the resource to create; every error but NotFound is dropped.
FindClusterCA ==
  /\ pc = "findClusterCA" /\ pass.spec.releases \notin Malformed
  /\ pc' = "ensure"
  /\ \/ /\ pass' = [pass EXCEPT !.completed = "started",
                                !.clusterCA = IF HasBundle THEN "found" ELSE "new",
                                !.caFound = IF LacksBundle THEN "False" ELSE @]
        /\ UNCHANGED budget
     \/ pass' = [pass EXCEPT !.completed = "started"] /\ Disturb("fault")
  /\ UNCHANGED <<api, cluster, queue>>

\* newGraphBuilderConfig cannot split spec.releases.
RenderFails ==
  /\ pc = "findClusterCA" /\ pass.spec.releases \in Malformed
  /\ ReturnError
  /\ UNCHANGED <<api, cluster, dirty, budget>>

-----------------------------------------------------------------------------
(* The ensure loop: one action per outcome of the function of one kind. *)

Kind == EnsureOrder[pass.next]
Want == Rendered(pass.spec, pass.ps, pass.ca)[Kind]

\* The function of the current kind has something to do.
Ensuring == pc = "ensure" /\ ~Unwanted(Kind, pass.ca)

\* What a function notes in the status on its way: ensureAdditionalTrustedCA the
\* certificate, ensureTrustedClusterCA a missing key.
Noted ==
  CASE Kind = "trustedCA" -> [pass EXCEPT !.caFound = "True"]
    [] Kind = "clusterCA" /\ LacksBundle -> [pass EXCEPT !.caFound = "False"]
    [] OTHER -> pass

\* Mutants of NextKind: the loop stops before its last function, or never ends.
MutNextKindShort(p) ==
  /\ pass' = [p EXCEPT !.next = @ + 1]
  /\ pc' = IF pass.next = Len(EnsureOrder) - 1 THEN "graphData" ELSE "ensure"
MutNextKindLong(p) == pass' = [p EXCEPT !.next = @ + 1] /\ pc' = "ensure"

\* On to the next function with locals p; after the last one, to ensureGraphDataSHA.
NextKind(p) ==
  /\ pass' = [p EXCEPT !.next = @ + 1]
  /\ pc' = IF pass.next = Len(EnsureOrder) THEN "graphData" ELSE "ensure"

EnsureNothing ==
  /\ pc = "ensure" /\ Unwanted(Kind, pass.ca)
  /\ NextKind(pass)
  /\ UNCHANGED <<api, cluster, queue, budget>>

\* What the Get of the current function returns, and whether it is out of date.
Found == Seen(Kind)
Stale == Kind \in behind

\* Reconcile found the cluster CA ConfigMap and it is gone now: the object to
\* create carries a resourceVersion, and the API refuses it.
CreateRefused == Kind = "clusterCA" /\ pass.clusterCA = "found"

\* A Create is accepted iff there is no object of that name.
Creatable == Found = None /\ obj[Kind] = None /\ ~CreateRefused

\* What is written: a new object, or the found one with the wanted content.
Written == IF Found = None THEN [owner |-> pass.uid, val |-> Want]
                           ELSE [Found EXCEPT !.val = Want]

EnsureCreates ==
  /\ Ensuring /\ Creatable
  /\ obj' = [obj EXCEPT ![Kind] = Written]
  /\ Notify(Kind)
  /\ NextKind(Noted)
  /\ UNCHANGED <<api, src, deploy, pod, timer, budget>>

\* Only the existence of the cluster CA ConfigMap counts: its content is injected.
EnsureKeeps ==
  /\ Ensuring /\ Found # None
  /\ Kind = "clusterCA" \/ Found.val = Want
  /\ NextKind(Noted)
  /\ UNCHANGED <<api, cluster, queue, budget>>

Outdated == Found # None /\ Kind # "clusterCA" /\ Found.val # Want

\* An Update of what was found keeps its owner references.  The API refuses it with
\* a Conflict if the copy was out of date.
EnsureUpdates ==
  /\ Ensuring /\ Outdated /\ ~Stale
  /\ obj' = [obj EXCEPT ![Kind] = Written]
  /\ Notify(Kind)
  /\ NextKind(Noted)
  /\ UNCHANGED <<api, src, deploy, pod, timer, budget>>

\* ensurePodDisruptionBudget, ensurePolicyEngineRoute and ensureNetworkPolicy log
\* a failed Update and return nil: the loop goes on.
EnsureSwallows ==
  /\ Ensuring /\ Outdated /\ Kind \in Swallows
  /\ \/ Stale /\ UNCHANGED budget
     \/ Disturb("fault")
  /\ NextKind([Noted EXCEPT !.completed = "failed"])
  /\ UNCHANGED <<api, cluster, queue>>

\* A function returns an error (a failed Get or Create, for the other kinds a
\* failed Update): the loop breaks off, and Reconcile goes on after it.
EnsureBreaks ==
  /\ Ensuring
  /\ \/ Found = None /\ ~Creatable /\ UNCHANGED budget
     \/ Outdated /\ Stale /\ Kind \notin Swallows /\ UNCHANGED budget
     \/ Disturb("fault")
  /\ pc' = "graphData"
  /\ pass' = [Noted EXCEPT !.completed = "failed"]
  /\ UNCHANGED <<api, cluster, queue>>

\* The same, but the API had applied the write: only the answer was lost.
EnsureTimesOut ==
  /\ Ensuring
  /\ Creatable \/ (Outdated /\ ~Stale /\ Kind \notin Swallows)
  /\ Disturb("fault")
  /\ obj' = [obj EXCEPT ![Kind] = Written]
  /\ Notify(Kind)
  /\ pc' = "graphData"
  /\ pass' = [Noted EXCEPT !.completed = "failed"]
  /\ UNCHANGED <<api, src, deploy, pod, timer>>

-----------------------------------------------------------------------------
(* After the loop: ensureGraphDataSHA, ensureDeployment and the status. *)

GraphDataDone(p) == pc' = "deployment" /\ pass' = p

\* A digest needs no resolving.
GraphDataPinned ==
  /\ pc = "graphData" /\ pass.spec.graphData \in Pinned
  /\ GraphDataDone(pass)
  /\ UNCHANGED <<api, cluster, queue, budget>>

Resolving == pc = "graphData" /\ pass.spec.graphData \notin Pinned

GraphDataPodCreated ==
  /\ Resolving /\ pod = None
  /\ pod' = [owner |-> pass.uid, image |-> pass.spec.graphData, phase |-> "pending"]
  /\ dirty' = TRUE
  /\ GraphDataDone(pass)
  /\ UNCHANGED <<api, src, obj, deploy, caches, timer, budget>>

GraphDataPodDeleted ==
  /\ Resolving /\ pod # None /\ pod.phase = "succeeded"
  /\ pod' = None /\ dirty' = TRUE
  /\ GraphDataDone(pass)
  /\ UNCHANGED <<api, src, obj, deploy, caches, timer, budget>>

\* The ImageID of the first container status, whatever image the Pod was made for.
GraphDataResolved ==
  /\ Resolving /\ pod # None /\ pod.phase \in {"running", "failed"}
  /\ GraphDataDone([pass EXCEPT !.sha = pod.image])
  /\ UNCHANGED <<api, cluster, queue, budget>>

\* No container status yet, or an API call failed: no annotation this time.
GraphDataUnknown ==
  /\ Resolving
  /\ \/ pod # None /\ pod.phase = "pending" /\ UNCHANGED budget
     \/ Disturb("fault")
  /\ GraphDataDone([pass EXCEPT !.completed = "failed"])
  /\ UNCHANGED <<api, cluster, queue>>

DeploymentDone(p) == pc' = "status" /\ pass' = p

\* The Deployment as the Get returns it, and what it becomes.
FoundDeployment == Seen("deployment")
Merged          == MergeDeployment(FoundDeployment, pass)
NeedsMerge      == /\ FoundDeployment # None /\ FoundDeployment.init # None
                   /\ Merged # FoundDeployment

\* A Create of a Deployment that exists and an Update of an outdated copy are refused.
DeploymentWritable ==
  IF FoundDeployment = None THEN deploy = None ELSE "deployment" \notin behind

WriteDeployment ==
  /\ DeploymentWritable
  /\ \/ /\ FoundDeployment = None
        /\ deploy' = NewDeployment(pass.uid, pass.spec, pass.ca)
     \/ NeedsMerge /\ deploy' = Merged
  /\ Notify("deployment")

DeploymentWritten ==
  /\ pc = "deployment" /\ WriteDeployment
  /\ DeploymentDone([pass EXCEPT !.completed = "success"])
  /\ UNCHANGED <<api, src, obj, pod, timer, budget>>

\* There is nothing to change, or there is no graph-data init container: then
\* ensureDeployment returns the nil err of the Get, nothing is written and Reconcile
\* reports success.
DeploymentLeftAlone ==
  /\ pc = "deployment" /\ FoundDeployment # None /\ ~NeedsMerge
  /\ DeploymentDone([pass EXCEPT !.completed = "success"])
  /\ UNCHANGED <<api, cluster, queue, budget>>

DeploymentFails ==
  /\ pc = "deployment"
  /\ \/ /\ FoundDeployment = None \/ NeedsMerge
        /\ ~DeploymentWritable /\ UNCHANGED budget
     \/ Disturb("fault")
  /\ ReturnError
  /\ UNCHANGED <<api, cluster, dirty>>

DeploymentTimesOut ==
  /\ pc = "deployment" /\ WriteDeployment
  /\ Disturb("fault")
  /\ ReturnError
  /\ UNCHANGED <<api, src, obj, pod>>

\* A failed update of the status is only logged.
UpdateStatus ==
  /\ pc = "status"
  /\ \/ PersistStatus(StatusOf(pass)) /\ UNCHANGED budget
     \/ LoseStatus
  /\ ReturnPeriodic
  /\ UNCHANGED <<cached, request, uids, cluster, dirty>>

-----------------------------------------------------------------------------
(* Users, the rest of the cluster, and crashes. *)

\* Any write to the UpdateService outdates the copies of the informer and the pass.
WriteInstance(i) ==
  /\ inst' = i /\ fresh' = FALSE
  /\ pass' = [pass EXCEPT !.current = FALSE]

EditSpec ==
  /\ inst # None /\ Disturb("edit")
  /\ \E s \in Specs \ {inst.spec} : WriteInstance([inst EXCEPT !.spec = s])
  /\ UNCHANGED <<cached, request, uids, cluster, queue, pc>>

DeleteInstance ==
  /\ inst # None /\ Disturb("delete")
  /\ WriteInstance(None)
  /\ UNCHANGED <<cached, request, uids, cluster, queue, pc>>

\* The same name again: a new incarnation with a new uid.
RecreateInstance ==
  /\ inst = None /\ uids < MaxUid
  /\ uids' = uids + 1
  /\ \E s \in Specs :
       WriteInstance([uid |-> uids + 1, spec |-> s, status |-> NoStatus])
  /\ UNCHANGED <<cached, request, cluster, queue, pc, budget>>

\* No watch covers secrets.
PullSecretChanges ==
  /\ Disturb("source")
  /\ \E s \in (Secrets \cup {None}) \ {src.ps} : src' = [src EXCEPT !.ps = s]
  /\ UNCHANGED <<api, obj, deploy, pod, caches, queue, pc, pass>>

\* mapper.requeueUpdateServices: all UpdateServices the informer knows.  The mapper
\* drops the event if its List, or Map's Get of image.config, fails.
MapperEnqueues ==
  \/ dirty' = (dirty \/ cached # None)
  \/ "fault" \in Disturbances /\ UNCHANGED dirty

\* mapper.Map for image.config.
ImageConfigChanges ==
  /\ Disturb("source")
  /\ \E i \in {"absent", "unset", "named"} \ {src.image} : src' = [src EXCEPT !.image = i]
  /\ MapperEnqueues
  /\ UNCHANGED <<api, obj, deploy, pod, caches, timer, pc, pass>>

\* mapper.Map for a ConfigMap: only the one image.config names counts.
TrustedCAChanges ==
  /\ Disturb("source")
  /\ \E c \in (Certs \cup {None, Foreign}) \ {src.caMap} : src' = [src EXCEPT !.caMap = c]
  /\ IF src.image = "named" THEN MapperEnqueues ELSE UNCHANGED dirty
  /\ UNCHANGED <<api, obj, deploy, pod, caches, timer, pc, pass>>

\* The network operator fills in the cluster CA bundle.
InjectBundle ==
  /\ obj["clusterCA"] # None /\ obj["clusterCA"].val = "empty"
  /\ obj' = [obj EXCEPT !["clusterCA"].val = "injected"]
  /\ Notify("clusterCA")
  /\ UNCHANGED <<api, src, deploy, pod, timer, pc, pass, budget>>

\* Somebody edits or deletes an object of the operator.
ObjectDrifts(k) ==
  /\ obj[k] # None /\ Disturb("drift")
  /\ \/ obj[k].val # Foreign /\ obj' = [obj EXCEPT ![k].val = Foreign]
     \/ obj' = [obj EXCEPT ![k] = None]
  /\ Notify(k)
  /\ UNCHANGED <<api, src, deploy, pod, timer, pc, pass>>

\* The hand edits: a Deployment that edit e made of d.
Edited(d, e) ==
  CASE e = "delete"          -> None
    [] e = "scale"           -> [d EXCEPT !.replicas = 0]
    [] e = "mounts"          -> [d EXCEPT !.volumes = {}]
    [] e = "removeInit"      -> [d EXCEPT !.init = None]
    [] e = "addInit"         -> [d EXCEPT !.extra = @ \cup {"init"}]
    [] e = "removeContainer" -> [d EXCEPT !.gb = None]
    [] e = "addContainer"    -> [d EXCEPT !.extra = @ \cup {"container"}]

DeploymentDrifts ==
  /\ deploy # None /\ Disturb("drift")
  /\ \E e \in DeploymentEdits : deploy' = Edited(deploy, e)
  /\ Notify("deployment")
  /\ UNCHANGED <<api, src, obj, pod, timer, pc, pass>>

\* The kubelet runs the Pod, whose only command is a sleep.
PodAdvances ==
  /\ pod # None
  /\ \/ pod.phase = "pending" /\ pod' = [pod EXCEPT !.phase = "running"]
     \/ /\ pod.phase = "running"
        /\ \E p \in {"succeeded", "failed"} : pod' = [pod EXCEPT !.phase = p]
  /\ dirty' = TRUE
  /\ UNCHANGED <<api, src, obj, deploy, caches, timer, pc, pass, budget>>

\* The garbage collector deletes what a dead incarnation owns, in any order unless
\* CollectInOrder bounds the interleavings.
Dead(k) == obj[k] # None /\ ~Alive(obj[k].owner)

CollectObject(k) ==
  /\ Dead(k)
  /\ CollectInOrder =>
       \A i \in 1..10 : EnsureOrder[i] = k => \A j \in 1..(i - 1) : ~Dead(EnsureOrder[j])
  /\ obj' = [obj EXCEPT ![k] = None]
  /\ Notify(k)
  /\ UNCHANGED <<api, src, deploy, pod, timer, pc, pass, budget>>

CollectDeployment ==
  /\ deploy # None /\ ~Alive(deploy.owner)
  /\ deploy' = None /\ Notify("deployment")
  /\ UNCHANGED <<api, src, obj, pod, timer, pc, pass, budget>>

CollectPod ==
  /\ pod # None /\ ~Alive(pod.owner)
  /\ pod' = None /\ dirty' = TRUE
  /\ UNCHANGED <<api, src, obj, deploy, caches, timer, pc, pass, budget>>

\* The operator restarts: queue and timers are gone, the informers list what there
\* is and enqueue the owner of each watched object and the UpdateService itself.
Restart ==
  /\ Disturb("crash")
  /\ Finish
  /\ timer' = "off"
  /\ cached' = IF inst = None THEN None ELSE [uid |-> inst.uid, spec |-> inst.spec]
  /\ fresh' = TRUE
  /\ seen' = [k \in Lagging |-> Current(k)] /\ behind' = {}
  /\ dirty' = (inst # None \/ pod # None \/ \E k \in Watched : Current(k) # None)
  /\ UNCHANGED <<inst, request, uids, src, obj, deploy, pod>>

-----------------------------------------------------------------------------

Gather == \/ Ignore \/ Begin \/ BeginFails \/ Reject
          \/ FindPullSecret \/ PullSecretNotFound
          \/ FindTrustedCA \/ NoTrustedCA \/ TrustedCANotFound
          \/ GatherFails \/ FindClusterCA \/ RenderFails

EnsureObject == \/ EnsureNothing \/ EnsureCreates \/ EnsureKeeps \/ EnsureUpdates
                \/ EnsureSwallows \/ EnsureBreaks \/ EnsureTimesOut

EnsureGraphData == \/ GraphDataPinned \/ GraphDataPodCreated \/ GraphDataPodDeleted
                   \/ GraphDataResolved \/ GraphDataUnknown

EnsureDeployment == \/ DeploymentWritten \/ DeploymentLeftAlone
                    \/ DeploymentFails \/ DeploymentTimesOut

Reconcile == Gather \/ EnsureObject \/ EnsureGraphData \/ EnsureDeployment \/ UpdateStatus

Collect == (\E k \in LoopKinds : CollectObject(k)) \/ CollectDeployment \/ CollectPod

User == \/ EditSpec \/ DeleteInstance \/ RecreateInstance
        \/ PullSecretChanges \/ ImageConfigChanges \/ TrustedCAChanges
        \/ (\E k \in LoopKinds : ObjectDrifts(k)) \/ DeploymentDrifts

Deliver == DeliverInstance \/ \E k \in Lagging : DeliverObject(k)

Next == \/ Deliver \/ TimerFires \/ Reconcile
        \/ Collect \/ InjectBundle \/ PodAdvances \/ User \/ Restart

Spec == Init /\ [][Next]_vars

\* The worker, the informers, the delaying queue and the garbage collector keep
\* going; users, failures, crashes, the kubelet and the network operator need not.
Fairness == /\ WF_vars(DeliverInstance) /\ WF_vars(TimerFires) /\ WF_vars(Reconcile)
            /\ WF_vars(Collect) /\ \A k \in Lagging : WF_vars(DeliverObject(k))

FairSpec == Spec /\ Fairness

-----------------------------------------------------------------------------
(* Properties. *)

Contents == {s.releases : s \in Specs} \cup Secrets \cup Certs \cup
            {None, Foreign, "env", "empty", "injected", "gb", "pe", "zero", "one", "to-pe"}
Images   == {s.graphData : s \in Specs}
Volumes  == SUBSET {"trusted-ca", "cluster-trusted-ca"}
Statuses == [completed : {"none", "started", "failed", "success"},
             caFound : {"none", "True", "False"}, error : BOOLEAN]
Objects  == [owner : 1..MaxUid, val : Contents]
Deployments ==
  [owner : 1..MaxUid, replicas : Nat, hash : {s.releases : s \in Specs},
   volumes : Volumes, gb : Volumes \cup {None}, init : Images \cup {None},
   extra : SUBSET {"init", "container"}, sha : Images \cup {None}]
Passes ==
  [uid : 0..MaxUid, spec : Specs \cup {None}, current : BOOLEAN,
   ps : Secrets \cup {None}, ca : Certs \cup {None}, clusterCA : {"new", "found"},
   next : 1..11, completed : {"none", "started", "failed", "success"},
   caFound : {"none", "True", "False"}, sha : Images \cup {None}]
Steps == {"findPullSecret", "findTrustedCA", "findClusterCA", "ensure", "graphData",
          "deployment", "status"}

\* None is no object of the operator, no list of mounts, not an UpdateService and not a
\* copy of one.
ASSUME ObjectsAssumption ==
  None \notin Objects /\ None \notin Deployments /\ \A v \in Volumes : None # v
ASSUME NoneAssumption ==
  \A u \in 1..MaxUid, s \in Specs :
    /\ None # [uid |-> u, spec |-> s]
    /\ \A t \in Statuses : None # [uid |-> u, spec |-> s, status |-> t]

\* Every variable has its type, and a pass under way works for an incarnation and a
\* spec that the informer had (Reconcile's instance and the locals derived from it).
ApiTypeOK ==
  /\ inst \in {None} \cup [uid : 1..MaxUid, spec : Specs, status : Statuses]
  /\ cached \in {None} \cup [uid : 1..MaxUid, spec : Specs]
  /\ fresh \in BOOLEAN
  /\ request \in Requests
  /\ uids \in 1..MaxUid
ClusterTypeOK ==
  /\ src \in [ps : Secrets \cup {None}, image : {"absent", "unset", "named"},
              caMap : Certs \cup {None, Foreign}]
  /\ obj \in [LoopKinds -> {None} \cup Objects]
  /\ deploy \in {None} \cup Deployments
  /\ pod \in {None} \cup [owner : 1..MaxUid, image : Images,
                          phase : {"pending", "running", "succeeded", "failed"}]
CacheTypeOK ==
  /\ seen \in [Lagging -> {None} \cup Objects \cup Deployments]
  /\ \A k \in Lagging : seen[k] \in {None} \cup IF k = "deployment" THEN Deployments ELSE Objects
  /\ behind \subseteq Lagging
WorkTypeOK ==
  /\ dirty \in BOOLEAN
  /\ timer \in {"off", "retry", "period"}
  /\ budget \in 0..MaxDisturbances
PassTypeOK ==
  /\ pc \in Steps \cup {"idle", "reject"}
  /\ pass \in Passes
  /\ pc # "idle" => pass.uid \in 1..MaxUid /\ pass.spec \in Specs
  /\ pc \in {"findPullSecret", "findTrustedCA", "findClusterCA"} => pass.next = 1
  /\ pc = "ensure" => pass.next <= 10
TypeOK == ApiTypeOK /\ ClusterTypeOK /\ CacheTypeOK /\ WorkTypeOK /\ PassTypeOK

\* An UpdateService the operator accepts is never forgotten: whatever failed,
\* crashed or raced, it is queued, about to be re-added, being reconciled, or its
\* event is on its way (the returns of Reconcile and RequeueAfter).
WakeupArmed ==
  inst # None /\ request = "valid" => dirty \/ timer # "off" \/ pc # "idle" \/ ~fresh

\* What ties the informer's copy and the pass to the API object; with it WakeupArmed
\* and StatusFromCurrentSpec are inductive.
Coherent ==
  /\ fresh => cached = IF inst = None THEN None ELSE [uid |-> inst.uid, spec |-> inst.spec]
  /\ pass.current => fresh /\ inst # None /\ pass.uid = inst.uid /\ pass.spec = inst.spec
  /\ pc = "reject" => request # "valid"

\* The informers that are not behind show what the API holds.
InformersFollow == \A k \in Lagging \ behind : seen[k] = Current(k)

\* A status that reaches the API was computed for the incarnation and the spec the
\* API holds at that moment, never for the ones an old pass started from
\* (Status().Update of the copy that was read).
StatusFromCurrentSpec ==
  [][inst # None /\ inst' # None /\ inst'.uid = inst.uid /\ inst'.status # inst.status
       => pass.uid = inst.uid /\ pass.spec = inst.spec]_vars

\* What the operator should render now.
CurrentCA == IF src.image = "named" /\ src.caMap \in Certs THEN src.caMap ELSE None

Renderable ==
  /\ inst # None /\ request = "valid" /\ inst.spec.releases \notin Malformed
  /\ src.ps # None /\ (src.image = "named" => src.caMap # None)

\* Object k holds what spec, ps and ca ask for; the content of the cluster CA
\* ConfigMap is not the operator's.
InPlace(k, spec, ps, ca) ==
  \/ Unwanted(k, ca)
  \/ obj[k] # None /\ (k = "clusterCA" \/ obj[k].val = Rendered(spec, ps, ca)[k])

\* The Deployment holds what spec and ca ask for.
DeploymentReflects(spec, ca) ==
  /\ deploy # None
  /\ deploy.replicas = spec.replicas /\ deploy.hash = spec.releases
  /\ deploy.init = spec.graphData
  /\ deploy.volumes = Mounts(ca) /\ deploy.gb = Mounts(ca)

\* The part of it the operator restores.  ensureDeployment leaves a Deployment without
\* the graph-data init container as it is, and does not put a graph-builder container
\* back that somebody removed; both passes report success.
DeploymentInPlace(spec, ca) ==
  /\ deploy # None
  /\ deploy.init # None =>
       /\ deploy.replicas = spec.replicas /\ deploy.hash = spec.releases
       /\ deploy.init = spec.graphData
       /\ deploy.volumes = Mounts(ca) /\ deploy.gb \in {None, Mounts(ca)}

\* The copy of the pull secret is the one object whose changes raise no event.
Noticed == LoopKinds \ {"pullSecret"}

\* Every object but that copy holds what spec and ca ask for, and so does the
\* Deployment.
WatchedInPlace(spec, ca) == \A k \in Noticed : InPlace(k, spec, None, ca)
Synced(spec, ca) == WatchedInPlace(spec, ca) /\ DeploymentInPlace(spec, ca)

\* Level-triggered reconciliation: once the queue is empty and no event is on its
\* way, every watched object reflects the spec and the sources, whatever edits,
\* drifts, restarts and re-creations happened during the passes and however far the
\* informers lagged behind.  The five-minute timer is not needed for it (the watches
\* of SetupWithManager).  Excepted is what ensureDeployment does not restore: all of a
\* Deployment whose graph-data init container was removed, and a graph-builder container
\* that was removed.  It takes that the informer of secrets does not lag: a
\* refused write of the copy of the pull secret breaks the loop off, and no event of
\* a secret brings the operator back before the five minutes are over.
QuietMeansInSync ==
  pc = "idle" /\ ~dirty /\ fresh /\ behind = {} /\ timer # "retry" /\ Renderable
    => Synced(inst.spec, CurrentCA)

\* The inductive strengthening of QuietMeansInSync.  While nothing is queued and no
\* event is on its way that would queue the request, the pass works with what the
\* cluster holds, and what it has been through is in place; any change in between sets
\* dirty, clears fresh or leaves the informer of a watched kind behind.
Calm ==
  inst # None /\ request = "valid" /\ fresh /\ ~dirty /\ behind \subseteq {"pullSecret"}

PassCurrent ==
  /\ pc # "idle" => pass.spec = inst.spec
  /\ pc \in {"findClusterCA", "ensure", "graphData", "deployment", "status"} =>
       pass.ca = CurrentCA
LoopInPlace ==
  pc = "ensure" =>
    /\ pass.clusterCA = "found" => obj["clusterCA"] # None
    /\ \A i \in 1..10 : i < pass.next /\ EnsureOrder[i] \in Noticed =>
         InPlace(EnsureOrder[i], pass.spec, None, pass.ca)
RestInPlace ==
  /\ pc \in {"graphData", "deployment", "status"} => WatchedInPlace(pass.spec, pass.ca)
  /\ pc = "status" => DeploymentInPlace(pass.spec, pass.ca)
  /\ pc = "idle" /\ timer # "retry" => Synced(inst.spec, CurrentCA)

Unread ==
  /\ pc \in {"findPullSecret", "findTrustedCA"} => pass.ca = None
  /\ pc \in {"findPullSecret", "findTrustedCA", "findClusterCA"} => pass.clusterCA = "new"

SyncInv == Unread /\ (Calm => PassCurrent /\ LoopInPlace /\ RestInPlace)

\* A Deployment is created or changed only when everything its Pods mount, and the
\* PodDisruptionBudget that guards them, is in place for the same spec, unless the
\* garbage collector is taking it away (the order of the ensure calls in Reconcile).
DeploymentWrittenLast ==
  [][pc = "deployment" /\ deploy' # deploy /\ Alive(pass.uid)
       => \A k \in LoopKinds : InPlace(k, pass.spec, pass.ps, pass.ca)]_vars

\* When the API accepts a status with ReconcileCompleted, every object reflects the
\* spec the UpdateService has at that moment (api/v1 ConditionReconcileCompleted).
SuccessIsTrue ==
  pc = "status" /\ pass.current
    => /\ \A k \in LoopKinds : InPlace(k, inst.spec, pass.ps, pass.ca)
       /\ DeploymentReflects(inst.spec, pass.ca)

\* Once users and failures leave it alone, the operator brings every object, the
\* unwatched Secret included, to what the spec and the sources ask for, and keeps it
\* there (the five-minute requeue of Reconcile).
Converged ==
  <>[](Renderable =>
         /\ \A k \in LoopKinds : InPlace(k, inst.spec, src.ps, CurrentCA)
         /\ DeploymentReflects(inst.spec, CurrentCA))

\* After a deletion nothing of the UpdateService stays behind, not even what a pass
\* that was under way creates afterwards (the owner references of every object).
DeletedMeansCollected ==
  <>[](inst = None => deploy = None /\ pod = None /\ \A k \in LoopKinds : obj[k] = None)

\* A deletion is final: once the informer knows of it and the pass under way has ended,
\* the operator begins no pass and creates nothing, whatever timers, late events,
\* failures, crashes and restarts are still to come, until there is an UpdateService
\* again (the NotFound of the first Get of Reconcile).
DeletedStaysDeleted ==
  [][inst = None /\ inst' = None /\ fresh /\ pc = "idle"
       => /\ fresh' /\ pc' = "idle"
          /\ deploy = None => deploy' = None
          /\ pod = None => pod' = None
          /\ \A k \in LoopKinds : obj[k] = None => obj'[k] = None]_vars

\* ReconcileCompleted says that all resources exist and reflect the specified state
\* (api/v1/updateservice_types.go): once nothing is left to do but to wait for the five
\* minutes, a reported success is true.  The code breaks this without any failure: the
\* Secret informer lags, the Create of the pull secret is refused, the loop breaks off,
\* its error is overwritten before it is looked at, and nothing wakes the operator.
CompletedMeansReflected ==
  (/\ pc = "idle" /\ ~dirty /\ fresh /\ behind = {} /\ timer = "period"
   /\ Renderable /\ inst.status.completed = "success")
    => WatchedInPlace(inst.spec, CurrentCA)

=============================================================================
