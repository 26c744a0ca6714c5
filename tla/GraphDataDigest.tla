--------------------------- MODULE GraphDataDigest ---------------------------
(***************************************************************************)
(* How by-tag graph-data images become annotations of Deployments:         *)
(* ensureGraphDataSHA and the part of ensureDeployment that uses its       *)
(* result, for several UpdateServices of one namespace.  They share one    *)
(* worker and one Pod, graph-data-tag-digest, which does nothing but pull  *)
(* the image of whoever created it.                                        *)
(*                                                                         *)
(* A digest is a version of a tag's content: each push makes a new one.    *)
(* The operator reads the Pod through an informer that may lag behind.     *)
(* That every UpdateService is reconciled again and again is WakeupArmed   *)
(* of UpdateServiceReconciler.                                             *)
(***************************************************************************)
EXTENDS Naturals

CONSTANTS
  None,           \* absent object, no digest
  Services,       \* the UpdateServices of the namespace
  Tags,           \* by-tag values of graphDataImage
  Pinned,         \* values of graphDataImage that contain "@sha256"
  SleepOutlasts,  \* the Pod's sleep lasts longer than the operator takes to see it run
  Disturbances,   \* what users, crashes and failures do in this instance
  MaxDisturbances \* bound on the number of disturbances

ASSUME ImagesAssumption ==
  /\ Tags \cap Pinned = {} /\ None \notin Tags \cup Pinned
  /\ SleepOutlasts \in BOOLEAN
ASSUME BoundAssumption == MaxDisturbances \in Nat

VARIABLES
  image,    \* graphDataImage of each UpdateService, None if there is none
  registry, \* the version of each image's content; only that of a tag changes
  pod,      \* the Pod: None or [owner, image, phase, id]
  seen,     \* the informer's copy of the Pod
  deploy,   \* the Deployment of each: None or [init, note]
  due,      \* the UpdateServices whose request is queued
  pass,     \* the running pass: None or [svc, image, sha, step]
  budget    \* disturbances left

vars == <<image, registry, pod, seen, deploy, due, pass, budget>>

Images  == Tags \cup Pinned
Digests == [tag : Tags, version : Nat]

Disturb(d) == d \in Disturbances /\ budget > 0 /\ budget' = budget - 1

Init ==
  /\ image \in [Services -> Images]
  /\ registry = [i \in Images |-> 0]
  /\ pod = None /\ seen = None
  /\ deploy = [s \in Services |-> None]
  /\ due = Services /\ pass = None
  /\ budget = MaxDisturbances

-----------------------------------------------------------------------------
(* The worker: one pass at a time. *)

Working == IF pass = None THEN {} ELSE {pass.svc}

\* The five-minute RequeueAfter of the last pass, or an event of another object.
Requeue(s) ==
  /\ image[s] # None /\ s \notin due \cup Working
  /\ due' = due \cup {s}
  /\ UNCHANGED <<image, registry, pod, seen, deploy, pass, budget>>

Start(s) ==
  /\ pass = None /\ s \in due
  /\ due' = due \ {s}
  /\ pass' = IF image[s] = None THEN None
             ELSE [svc |-> s, image |-> image[s], sha |-> None, step |-> "resolve"]
  /\ UNCHANGED <<image, registry, pod, seen, deploy, budget>>

\* On to ensureDeployment with what was found out, None for "".
Resolve(sha) == pass' = [pass EXCEPT !.sha = sha, !.step = "annotate"]

\* Mutant of Resolving: the image is not searched for "@sha256".
MutResolving == pass # None /\ pass.step = "resolve"

Resolving == pass # None /\ pass.step = "resolve" /\ pass.image \notin Pinned

ImagePinned ==
  /\ pass # None /\ pass.step = "resolve" /\ pass.image \in Pinned
  /\ Resolve(None)
  /\ UNCHANGED <<image, registry, pod, seen, deploy, due, budget>>

PodCreated ==
  /\ Resolving /\ seen = None /\ pod = None
  /\ pod' = [owner |-> pass.svc, image |-> pass.image, phase |-> "pending", id |-> None]
  /\ Resolve(None)
  /\ UNCHANGED <<image, registry, seen, deploy, due, budget>>

\* Mutant of PodDeleted: a Pod that has succeeded is left alone.
MutPodDeleted ==
  /\ Resolving /\ seen # None /\ seen.phase = "succeeded"
  /\ Resolve(None)
  /\ UNCHANGED <<image, registry, pod, seen, deploy, due, budget>>

\* The Pod has slept to its end: a later pass creates another, which pulls the tag again.
PodDeleted ==
  /\ Resolving /\ seen # None /\ seen.phase = "succeeded"
  /\ pod' = None
  /\ Resolve(None)
  /\ UNCHANGED <<image, registry, seen, deploy, due, budget>>

\* The ImageID of the Pod there is, whoever created it and for whatever image.
DigestRead ==
  /\ Resolving /\ seen # None /\ seen.phase # "succeeded" /\ seen.id # None
  /\ Resolve(seen.id)
  /\ UNCHANGED <<image, registry, pod, seen, deploy, due, budget>>

\* No container status yet, a refused Create, or a failed call: no digest this time.
DigestUnknown ==
  /\ Resolving
  /\ \/ seen # None /\ seen.phase # "succeeded" /\ seen.id = None /\ UNCHANGED budget
     \/ seen = None /\ pod # None /\ UNCHANGED budget
     \/ Disturb("fault")
  /\ Resolve(None)
  /\ UNCHANGED <<image, registry, pod, seen, deploy, due>>

\* What ensureDeployment makes of Deployment d: a new one has no annotation, and
\* without a digest the annotation of an old one stays.
Annotated(d) ==
  [init |-> pass.image,
   note |-> IF d = None THEN None ELSE IF pass.sha = None THEN d.note ELSE pass.sha]

Annotate ==
  /\ pass # None /\ pass.step = "annotate"
  /\ deploy' = [deploy EXCEPT ![pass.svc] = Annotated(@)]
  /\ due' = IF Annotated(deploy[pass.svc]) = deploy[pass.svc] THEN due
            ELSE due \cup {pass.svc}
  /\ pass' = None
  /\ UNCHANGED <<image, registry, pod, seen, budget>>

AnnotateFails ==
  /\ pass # None /\ pass.step = "annotate"
  /\ Disturb("fault")
  /\ due' = due \cup {pass.svc}
  /\ pass' = None
  /\ UNCHANGED <<image, registry, pod, seen, deploy>>

-----------------------------------------------------------------------------
(* The informer of Pods, the kubelet, the garbage collector, users and crashes. *)

\* An event of the Pod enqueues its owner.
OwnerOf(p) == IF p = None THEN {} ELSE {p.owner}

DeliverPod ==
  /\ seen # pod
  /\ seen' = pod
  /\ due' = due \cup OwnerOf(seen) \cup OwnerOf(pod)
  /\ UNCHANGED <<image, registry, pod, deploy, pass, budget>>

\* Mutant of Pulled: with IfNotPresent a node runs the content it once pulled.
MutPulled(i) == {[tag |-> i, version |-> v] : v \in 0..registry[i]}

\* The Pod asks for PullAlways, so that its node runs the content of now.
Pulled(i) == {[tag |-> i, version |-> registry[i]]}

\* The ImageID says what was pulled.
PodStarts ==
  /\ pod # None /\ pod.phase = "pending"
  /\ \E d \in Pulled(pod.image) : pod' = [pod EXCEPT !.phase = "running", !.id = d]
  /\ UNCHANGED <<image, registry, seen, deploy, due, pass, budget>>

\* The operator has seen the Pod run, and its owner's pass is over.
SeenRunning == seen = pod /\ pod.owner \notin due \cup Working

PodEnds ==
  /\ pod # None /\ pod.phase = "running"
  /\ SleepOutlasts => SeenRunning
  /\ pod' = [pod EXCEPT !.phase = "succeeded"]
  /\ UNCHANGED <<image, registry, seen, deploy, due, pass, budget>>

\* An eviction, an image that cannot be run, a node that goes away.
PodFails ==
  /\ pod # None /\ pod.phase \in {"pending", "running"} /\ Disturb("podFailure")
  /\ pod' = [pod EXCEPT !.phase = "failed"]
  /\ UNCHANGED <<image, registry, seen, deploy, due, pass>>

\* Somebody deletes the Pod.
PodDrifts ==
  /\ pod # None /\ Disturb("drift")
  /\ pod' = None
  /\ UNCHANGED <<image, registry, seen, deploy, due, pass>>

Collect ==
  \/ /\ pod # None /\ image[pod.owner] = None
     /\ pod' = None
     /\ UNCHANGED <<image, registry, seen, deploy, due, pass, budget>>
  \/ /\ \E s \in Services : /\ image[s] = None /\ deploy[s] # None
                            /\ deploy' = [deploy EXCEPT ![s] = None]
     /\ UNCHANGED <<image, registry, pod, seen, due, pass, budget>>

Push(t) ==
  /\ Disturb("push")
  /\ registry' = [registry EXCEPT ![t] = @ + 1]
  /\ UNCHANGED <<image, pod, seen, deploy, due, pass>>

EditImage(s) ==
  /\ image[s] # None /\ Disturb("edit")
  /\ \E i \in Images \ {image[s]} : image' = [image EXCEPT ![s] = i]
  /\ due' = due \cup {s}
  /\ UNCHANGED <<registry, pod, seen, deploy, pass>>

DeleteService(s) ==
  /\ image[s] # None /\ Disturb("delete")
  /\ image' = [image EXCEPT ![s] = None]
  /\ due' = due \cup {s}
  /\ UNCHANGED <<registry, pod, seen, deploy, pass>>

Restart ==
  /\ Disturb("crash")
  /\ pass' = None /\ seen' = pod
  /\ due' = {s \in Services : image[s] # None}
  /\ UNCHANGED <<image, registry, pod, deploy>>

-----------------------------------------------------------------------------

Pass == \/ ImagePinned \/ PodCreated \/ PodDeleted \/ DigestRead \/ DigestUnknown
        \/ Annotate \/ AnnotateFails

Worker == Pass \/ \E s \in Services : Start(s)

Kubelet == PodStarts \/ PodEnds

User == \/ PodFails \/ PodDrifts \/ (\E t \in Tags : Push(t))
        \/ (\E s \in Services : EditImage(s) \/ DeleteService(s)) \/ Restart

Next == \/ Worker \/ DeliverPod \/ Kubelet \/ Collect \/ User
        \/ \E s \in Services : Requeue(s)

Spec == Init /\ [][Next]_vars

\* The worker, the informer, the five-minute requeue, the kubelet and the garbage
\* collector keep going; users, failures and crashes need not.  The work queue is first
\* in, first out: a request is not passed over for ever, hence SF of Start.  The guard of
\* PodEnds says what five minutes of sleep outlast, not that the kubelet may wait for
\* ever: hence SF of Kubelet.
FairSpec == /\ Spec /\ WF_vars(Pass) /\ WF_vars(DeliverPod) /\ SF_vars(Kubelet)
            /\ WF_vars(Collect)
            /\ \A s \in Services : SF_vars(Start(s)) /\ WF_vars(Requeue(s))

-----------------------------------------------------------------------------
(* Properties. *)

Pods == [owner : Services, image : Tags, phase : {"pending", "running", "succeeded", "failed"},
         id : Digests \cup {None}]

\* Every variable has its type; a pass that resolves has no digest yet.
TypeOK ==
  /\ image \in [Services -> Images \cup {None}]
  /\ registry \in [Images -> Nat]
  /\ pod \in Pods \cup {None} /\ seen \in Pods \cup {None}
  /\ deploy \in [Services -> [init : Images, note : Digests \cup {None}] \cup {None}]
  /\ due \subseteq Services
  /\ pass \in [svc : Services, image : Images, sha : Digests \cup {None},
               step : {"resolve", "annotate"}] \cup {None}
  /\ budget \in 0..MaxDisturbances

\* d is None or at most as new as e.
UpTo(d, e) == d # None /\ e # None /\ d.tag = e.tag => d.version <= e.version

Note(s)  == IF deploy[s] = None THEN None ELSE deploy[s].note

\* An annotation, once written, is never replaced by an older content of the same
\* tag, though Pods come and go, fail, are shared and are seen late, and though a
\* pass writes what it read some steps ago: there is one worker, and Pods follow one
\* another (ensureGraphDataSHA and the annotation of ensureDeployment).
NoteNeverGoesBack ==
  [][\A s \in Services : deploy'[s] # None => UpTo(Note(s), Note(s)')]_vars

\* No digest is newer than its tag's content, and every digest under way is at least
\* as new as the annotations: the inductive reason for NoteNeverGoesBack.
Id(p)    == IF p = None THEN None ELSE p.id
Sha      == IF pass = None THEN None ELSE pass.sha
Known(d) == d # None => d.version <= registry[d.tag]

DigestsInOrder ==
  /\ Known(Id(pod)) /\ Known(Id(seen)) /\ Known(Sha) /\ \A s \in Services : Known(Note(s))
  /\ UpTo(Id(seen), Id(pod)) /\ UpTo(Sha, Id(seen)) /\ UpTo(Sha, Id(pod))
  /\ \A s \in Services : /\ UpTo(Note(s), Id(pod)) /\ UpTo(Note(s), Id(seen))
                         /\ UpTo(Note(s), Sha)

\* The Deployments of the namespace are annotated in the order of the pushes: what one
\* of them is given is at least as new as what any of them has of the same tag, though
\* they share one Pod and one reads what another made (ensureGraphDataSHA).
Content == INSTANCE AnnotatedContent WITH
             latest <- [t \in Tags |-> registry[t]],
             note   <- [s \in Services |-> Note(s)]

AnnotatedInOrder == Content!Spec

\* The annotation of a Deployment that runs a by-tag image is a digest of that image:
\* "Resolve any by-tag graph-data images into by-digest pullspecs" (the description of
\* the Pod).  The code breaks this: the Pod of one UpdateService is read for another.
NoteOfOwnImage ==
  \A s \in Services :
    deploy[s] # None /\ deploy[s].init \in Tags /\ deploy[s].note # None
      => deploy[s].note.tag = deploy[s].init

\* Once users and failures leave it alone, the annotation of the one UpdateService that
\* runs a by-tag image settles on the tag's content, whatever Pod an earlier image or a
\* deleted UpdateService left behind: a push reaches the Deployment (the Pod that is
\* pulled anew, deleted and created again).  A Pod that failed is never deleted and is
\* excepted.
PushReachesDeployment ==
  <>[](\A s \in Services :
         /\ image[s] \in Tags /\ \A q \in Services \ {s} : image[q] \notin Tags
         /\ pod # None => pod.phase # "failed"
         => /\ deploy[s] # None /\ deploy[s].init = image[s]
            /\ deploy[s].note = [tag |-> image[s], version |-> registry[image[s]]])

=============================================================================
