------------------------ MODULE GraphDataDigestProofs ------------------------
(***************************************************************************)
(* TypeOK and DigestsInOrder are inductive, whatever the UpdateServices,   *)
(* the images and the number of disturbances; NoteNeverGoesBack follows.   *)
(***************************************************************************)
EXTENDS GraphDataDigest, TLAPS

\* Spending a disturbance leaves a budget within its bound.
LEMMA Spent ==
  ASSUME NEW d, budget \in 0..MaxDisturbances, Disturb(d)
  PROVE  budget' \in 0..MaxDisturbances
BY BoundAssumption DEF Disturb

\* The steps of a pass keep the types.
LEMMA TypePass ==
  ASSUME TypeOK, Pass
  PROVE  TypeOK'
<1>1. CASE ImagePinned
  BY <1>1 DEF ImagePinned, Resolve, TypeOK
<1>2. CASE PodCreated
  BY <1>2 DEF PodCreated, Resolving, Resolve, TypeOK, Pods, Images
<1>3. CASE PodDeleted
  BY <1>3 DEF PodDeleted, Resolving, Resolve, TypeOK
<1>4. CASE DigestRead
  BY <1>4 DEF DigestRead, Resolving, Resolve, TypeOK, Pods
<1>5. CASE DigestUnknown
  BY <1>5, Spent DEF DigestUnknown, Resolving, Resolve, TypeOK
<1>6. CASE Annotate
  <2>1. Annotated(deploy[pass.svc]) \in [init : Images, note : Digests \cup {None}]
    BY <1>6 DEF Annotate, Annotated, TypeOK
  <2> QED
    BY <1>6, <2>1 DEF Annotate, TypeOK
<1>7. CASE AnnotateFails
  BY <1>7, Spent DEF AnnotateFails, TypeOK
<1> QED
  BY <1>1, <1>2, <1>3, <1>4, <1>5, <1>6, <1>7 DEF Pass

\* So do the informer, the kubelet and the garbage collector, ...
LEMMA TypeCluster ==
  ASSUME TypeOK, DeliverPod \/ Kubelet \/ Collect
  PROVE  TypeOK'
<1>1. CASE DeliverPod
  BY <1>1 DEF DeliverPod, OwnerOf, TypeOK, Pods
<1>2. CASE PodStarts
  <2>1. \A d \in Pulled(pod.image) : d \in Digests
    BY <1>2 DEF PodStarts, Pulled, Digests, TypeOK, Pods, Images
  <2> QED
    BY <1>2, <2>1 DEF PodStarts, TypeOK, Pods
<1>3. CASE PodEnds
  BY <1>3 DEF PodEnds, TypeOK, Pods
<1>4. CASE Collect
  BY <1>4 DEF Collect, TypeOK
<1> QED
  BY <1>1, <1>2, <1>3, <1>4 DEF Kubelet

\* ... and users, failures and crashes.
LEMMA TypeUser ==
  ASSUME TypeOK, User
  PROVE  TypeOK'
<1>1. CASE PodFails
  BY <1>1, Spent DEF PodFails, TypeOK, Pods
<1>2. CASE PodDrifts
  BY <1>2, Spent DEF PodDrifts, TypeOK
<1>3. ASSUME NEW t \in Tags, Push(t) PROVE TypeOK'
  BY <1>3, Spent DEF Push, TypeOK, Images
<1>4. ASSUME NEW s \in Services, EditImage(s) PROVE TypeOK'
  BY <1>4, Spent DEF EditImage, TypeOK
<1>5. ASSUME NEW s \in Services, DeleteService(s) PROVE TypeOK'
  BY <1>5, Spent DEF DeleteService, TypeOK
<1>6. CASE Restart
  BY <1>6, Spent DEF Restart, TypeOK
<1> QED
  BY <1>1, <1>2, <1>3, <1>4, <1>5, <1>6 DEF User

\* TypeOK is inductive.
LEMMA TypeStep == TypeOK /\ [Next]_vars => TypeOK'
<1> SUFFICES ASSUME TypeOK, [Next]_vars PROVE TypeOK'
  OBVIOUS
<1>1. CASE UNCHANGED vars
  BY <1>1 DEF vars, TypeOK
<1>2. ASSUME NEW s \in Services, Start(s) PROVE TypeOK'
  BY <1>2 DEF Start, TypeOK
<1>3. ASSUME NEW s \in Services, Requeue(s) PROVE TypeOK'
  BY <1>3 DEF Requeue, TypeOK
<1> QED
  BY <1>1, <1>2, <1>3, TypePass, TypeCluster, TypeUser DEF Next, Worker

\* Every variable has its type in every reachable state (the shape of Pods,
\* annotations and passes).
THEOREM TypeCorrect == Spec => []TypeOK
<1>1. Init => TypeOK
  BY BoundAssumption DEF Init, TypeOK
<1> QED
  BY <1>1, TypeStep, PTL DEF Spec

-----------------------------------------------------------------------------
(* The order of the digests under way. *)

\* What DigestsInOrder compares: every digest has a type.
LEMMA DigestTypes ==
  ASSUME TypeOK
  PROVE  /\ Id(pod) \in Digests \cup {None} /\ Id(seen) \in Digests \cup {None}
         /\ Sha \in Digests \cup {None}
         /\ \A s \in Services : Note(s) \in Digests \cup {None}
BY DEF TypeOK, Pods, Id, Sha, Note

\* A digest is never newer than itself.
LEMMA UpToItself == \A d \in Digests \cup {None} : UpTo(d, d)
BY DEF UpTo, Digests

\* Digests are only handed on, from the Pod to the informer, to the pass and to an
\* annotation, or forgotten.
HandedOn ==
  /\ registry' = registry
  /\ Id(pod)' \in {Id(pod), None}
  /\ Id(seen)' \in {Id(seen), Id(pod)}
  /\ Sha' \in {Sha, Id(seen), None}
  /\ \A s \in Services : Note(s)' \in {Note(s), Sha, None}

LEMMA OrderHandedOn ==
  ASSUME TypeOK, DigestsInOrder, HandedOn
  PROVE  DigestsInOrder'
<1> DEFINE Refl == UpTo(Id(pod), Id(pod)) /\ UpTo(Id(seen), Id(seen)) /\ UpTo(Sha, Sha)
<1>1. Refl
  BY DigestTypes, UpToItself
<1>2. \A d : UpTo(None, d) /\ UpTo(d, None) /\ Known(None)
  BY DEF UpTo, Known
<1>3. /\ Known(Id(pod))' /\ Known(Id(seen))' /\ Known(Sha)'
      /\ \A s \in Services : Known(Note(s))'
  BY <1>2 DEF HandedOn, DigestsInOrder, Known
<1>4. UpTo(Id(seen), Id(pod))' /\ UpTo(Sha, Id(seen))' /\ UpTo(Sha, Id(pod))'
  BY <1>1, <1>2 DEF HandedOn, DigestsInOrder, UpTo
<1>5. ASSUME NEW s \in Services
      PROVE  UpTo(Note(s), Id(pod))' /\ UpTo(Note(s), Id(seen))' /\ UpTo(Note(s), Sha)'
  BY <1>1, <1>2 DEF HandedOn, DigestsInOrder, UpTo
<1> QED
  BY <1>3, <1>4, <1>5 DEF DigestsInOrder

\* A Pod that starts has the newest digest there is.
LEMMA OrderPodStarts ==
  ASSUME TypeOK, DigestsInOrder, PodStarts
  PROVE  DigestsInOrder'
<1>1. PICK d \in Pulled(pod.image) : pod' = [pod EXCEPT !.phase = "running", !.id = d]
  BY DEF PodStarts
<1>2. pod \in Pods /\ d \in Digests /\ d.version = registry[d.tag]
  BY <1>1 DEF PodStarts, Pulled, Digests, TypeOK, Pods, Images
<1>3. Id(pod)' \in {d, None}
  BY <1>1, <1>2 DEF Pods, Id
<1>4. Known(d) /\ \A e \in Digests \cup {None} : Known(e) => UpTo(e, d)
  BY <1>2 DEF Known, UpTo, Digests
<1>5. /\ UNCHANGED <<registry, Id(seen), Sha>>
      /\ \A s \in Services : Note(s)' = Note(s)
  BY DEF PodStarts, Id, Sha, Note
<1>6. /\ Known(Id(pod))' /\ Known(Id(seen))' /\ Known(Sha)'
      /\ \A s \in Services : Known(Note(s))'
  BY <1>3, <1>4, <1>5 DEF DigestsInOrder, Known
<1>7. /\ UpTo(Id(seen), Id(pod)') /\ UpTo(Sha, Id(pod)')
      /\ \A s \in Services : UpTo(Note(s), Id(pod)')
  BY <1>3, <1>4, DigestTypes DEF DigestsInOrder, UpTo
<1> QED
  BY <1>5, <1>6, <1>7 DEF DigestsInOrder, UpTo

\* A push makes the content of a tag newer.
LEMMA OrderPush ==
  ASSUME TypeOK, DigestsInOrder, NEW t \in Tags, Push(t)
  PROVE  DigestsInOrder'
<1>1. \A i \in Images : registry'[i] >= registry[i] /\ registry[i] \in Nat /\ registry'[i] \in Nat
  BY DEF Push, TypeOK
<1>2. \A d \in Digests \cup {None} : Known(d) => (d # None => d.version <= registry'[d.tag])
  BY <1>1 DEF Known, Digests, Images
<1>3. /\ UNCHANGED <<Id(pod), Id(seen), Sha>>
      /\ \A s \in Services : Note(s)' = Note(s)
  BY DEF Push, Id, Sha, Note
<1> QED
  BY <1>2, <1>3, DigestTypes DEF DigestsInOrder, Known, UpTo

\* Nearly every step hands digests on: those of the worker, ...
LEMMA HandOnWorker ==
  ASSUME TypeOK, Worker \/ \E s \in Services : Requeue(s)
  PROVE  HandedOn
<1>1. CASE ImagePinned \/ PodCreated \/ PodDeleted \/ DigestRead \/ DigestUnknown
  <2>1. Sha' \in {Sha, Id(seen), None}
    BY <1>1 DEF ImagePinned, PodCreated, PodDeleted, DigestRead, DigestUnknown, Resolving,
       Resolve, Id, Sha, TypeOK
  <2>2. Id(pod)' \in {Id(pod), None}
    BY <1>1 DEF ImagePinned, PodCreated, PodDeleted, DigestRead, DigestUnknown, Resolving, Id
  <2> QED
    BY <1>1, <2>1, <2>2 DEF ImagePinned, PodCreated, PodDeleted, DigestRead, DigestUnknown,
       HandedOn, Id, Note
<1>2. CASE Annotate
  <2>1. ASSUME NEW s \in Services PROVE Note(s)' \in {Note(s), Sha, None}
    <3>1. deploy'[s] \in {deploy[s], Annotated(deploy[s])}
      BY <1>2 DEF Annotate, TypeOK
    <3>2. Annotated(deploy[s]).note \in {Note(s), Sha, None}
      BY <1>2 DEF Annotate, Annotated, Note, Sha
    <3> QED
      BY <3>1, <3>2 DEF Note
  <2> QED
    BY <1>2, <2>1 DEF Annotate, HandedOn, Id, Sha
<1>3. CASE AnnotateFails
  BY <1>3 DEF AnnotateFails, HandedOn, Id, Sha, Note
<1>4. ASSUME NEW s \in Services, Start(s) PROVE HandedOn
  BY <1>4 DEF Start, HandedOn, Id, Sha, Note
<1>5. ASSUME NEW s \in Services, Requeue(s) PROVE HandedOn
  BY <1>5 DEF Requeue, HandedOn, Id, Sha, Note
<1> QED
  BY <1>1, <1>2, <1>3, <1>4, <1>5 DEF Worker, Pass

\* ... of the informer, the kubelet and the garbage collector, ...
LEMMA HandOnCluster ==
  ASSUME TypeOK, DeliverPod \/ PodEnds \/ Collect
  PROVE  HandedOn
<1>1. CASE DeliverPod
  BY <1>1 DEF DeliverPod, HandedOn, Id, Sha, Note
<1>2. CASE PodEnds
  BY <1>2 DEF PodEnds, HandedOn, Id, Sha, Note, TypeOK, Pods
<1>3. CASE Collect
  BY <1>3 DEF Collect, HandedOn, Id, Sha, Note, TypeOK
<1> QED
  BY <1>1, <1>2, <1>3

\* ... and of users, failures and crashes.
LEMMA HandOnUser ==
  ASSUME TypeOK, User, ~\E t \in Tags : Push(t)
  PROVE  HandedOn
<1>1. CASE PodFails \/ PodDrifts \/ Restart
  BY <1>1 DEF PodFails, PodDrifts, Restart, HandedOn, Id, Sha, Note, TypeOK, Pods
<1>2. ASSUME NEW s \in Services, EditImage(s) \/ DeleteService(s) PROVE HandedOn
  BY <1>2 DEF EditImage, DeleteService, HandedOn, Id, Sha, Note
<1> QED
  BY <1>1, <1>2 DEF User

\* The order of the digests is inductive.
LEMMA OrderStep == TypeOK /\ DigestsInOrder /\ [Next]_vars => DigestsInOrder'
<1> SUFFICES ASSUME TypeOK, DigestsInOrder, [Next]_vars PROVE DigestsInOrder'
  OBVIOUS
<1>1. CASE UNCHANGED vars
  BY <1>1, OrderHandedOn DEF vars, HandedOn, Id, Sha, Note
<1>2. CASE Worker \/ \E s \in Services : Requeue(s)
  BY <1>2, HandOnWorker, OrderHandedOn
<1>3. CASE DeliverPod \/ PodEnds \/ Collect
  BY <1>3, HandOnCluster, OrderHandedOn
<1>4. CASE User /\ ~\E t \in Tags : Push(t)
  BY <1>4, HandOnUser, OrderHandedOn
<1> QED
  BY <1>1, <1>2, <1>3, <1>4, OrderPodStarts, OrderPush DEF Next, Kubelet

\* The digests under way are in order in every reachable state.
THEOREM DigestsAreInOrder == Spec => []DigestsInOrder
<1>1. Init => DigestsInOrder
  BY DEF Init, DigestsInOrder, Known, UpTo, Id, Sha, Note
<1> QED
  BY <1>1, TypeCorrect, OrderStep, PTL DEF Spec

\* No step replaces an annotation by an older content of its tag: the only one that
\* writes annotations hands on the digest of its pass, which is in order.
THEOREM NotesNeverGoBack == Spec => NoteNeverGoesBack
<1> DEFINE Forward ==
      \A s \in Services : deploy'[s] # None => UpTo(Note(s), Note(s)')
<1>1. TypeOK /\ DigestsInOrder /\ [Next]_vars => [Forward]_vars
  <2> SUFFICES ASSUME TypeOK, DigestsInOrder, [Next]_vars, NEW s \in Services
               PROVE  UpTo(Note(s), Note(s)')
    OBVIOUS
  <2>1. Note(s)' \in {Note(s), Sha, None}
    <3>1. CASE PodStarts \/ \E t \in Tags : Push(t)
      BY <3>1 DEF PodStarts, Push, Note
    <3>2. CASE UNCHANGED vars
      BY <3>2 DEF vars, Note
    <3> QED
      BY <3>1, <3>2, HandOnWorker, HandOnCluster, HandOnUser DEF Next, Kubelet, HandedOn
  <2>2. UpTo(Note(s), Note(s)) /\ UpTo(Note(s), Sha) /\ UpTo(Note(s), None)
    BY DigestTypes, UpToItself DEF DigestsInOrder, UpTo
  <2> QED
    BY <2>1, <2>2
<1> QED
  BY <1>1, TypeCorrect, DigestsAreInOrder, PTL DEF Spec, NoteNeverGoesBack

-----------------------------------------------------------------------------
(* AnnotatedContent is implemented. *)

Latest == [t \in Tags |-> registry[t]]
Notes  == [s \in Services |-> Note(s)]

\* Annotations change by the steps of Annotate and of the garbage collector only, and
\* those change one of them.
LEMMA OneNoteChanges ==
  ASSUME TypeOK, Annotate \/ Collect
  PROVE  /\ UNCHANGED registry
         /\ \/ UNCHANGED Notes
            \/ \E s \in Services : Notes' = [Notes EXCEPT ![s] = None]
            \/ Sha # None /\ \E s \in Services : Notes' = [Notes EXCEPT ![s] = Sha]
<1>1. CASE Annotate
  <2>1. PICK s \in Services : deploy' = [deploy EXCEPT ![s] = Annotated(@)]
    BY <1>1 DEF Annotate, TypeOK
  <2>2. Annotated(deploy[s]).note \in {Note(s), Sha, None}
    BY <1>1 DEF Annotate, Annotated, Note, Sha
  <2>3. Note(s)' \in {Note(s), Sha, None}
    BY <2>1, <2>2 DEF Note, TypeOK
  <2>4. \A q \in Services : q # s => Note(q)' = Note(q)
    BY <2>1 DEF Note, TypeOK
  <2>5. Notes' = [Notes EXCEPT ![s] = Note(s)']
    BY <2>1, <2>4 DEF Notes
  <2>6. Notes = [Notes EXCEPT ![s] = Note(s)]
    BY <2>1 DEF Notes
  <2> QED
    BY <1>1, <2>1, <2>3, <2>5, <2>6 DEF Annotate
<1>2. CASE Collect
  <2>1. UNCHANGED registry
    BY <1>2 DEF Collect
  <2>2. CASE UNCHANGED deploy
    BY <2>1, <2>2 DEF Notes, Note
  <2>3. ASSUME NEW s \in Services, deploy' = [deploy EXCEPT ![s] = None]
        PROVE  Notes' = [Notes EXCEPT ![s] = None]
    <3>1. \A q \in Services : Note(q)' = IF q = s THEN None ELSE Note(q)
      BY <2>3 DEF Note, TypeOK
    <3> QED
      BY <3>1 DEF Notes
  <2> QED
    BY <1>2, <2>1, <2>2, <2>3 DEF Collect
<1> QED
  BY <1>1, <1>2

\* The other steps but a push leave annotations and tags alone.
LEMMA NotesStay ==
  ASSUME TypeOK, [Next]_vars, ~Annotate, ~Collect, ~\E t \in Tags : Push(t)
  PROVE  UNCHANGED <<registry, Notes>>
<1>1. CASE Worker \/ DeliverPod \/ Kubelet \/ \E s \in Services : Requeue(s)
  BY <1>1 DEF Worker, Pass, Start, ImagePinned, PodCreated, PodDeleted, DigestRead,
     DigestUnknown, AnnotateFails, DeliverPod, Kubelet, PodStarts, PodEnds, Requeue, Notes, Note
<1>2. CASE User
  BY <1>2 DEF User, PodFails, PodDrifts, EditImage, DeleteService, Restart, Notes, Note
<1>3. CASE UNCHANGED vars
  BY <1>3 DEF vars, Notes, Note
<1> QED
  BY <1>1, <1>2, <1>3 DEF Next

\* Every step is a push, an annotation in order, the loss of an annotation, or nothing,
\* to whoever sees tags and annotations only.
LEMMA ContentStep ==
  TypeOK /\ DigestsInOrder /\ [Next]_vars => [Content!Next]_<<Latest, Notes>>
<1> SUFFICES ASSUME TypeOK, DigestsInOrder, [Next]_vars
             PROVE  [Content!Next]_<<Latest, Notes>>
  OBVIOUS
<1>1. ASSUME NEW t \in Tags, Push(t) PROVE Content!Push(t)
  <2>1. Latest' = [Latest EXCEPT ![t] = @ + 1]
    BY <1>1 DEF Push, Latest, TypeOK, Images
  <2>2. UNCHANGED Notes
    BY <1>1 DEF Push, Notes, Note
  <2> QED
    BY <2>1, <2>2 DEF Content!Push, Latest, Notes
<1>2. ASSUME NEW s \in Services, UNCHANGED registry, Notes' = [Notes EXCEPT ![s] = None]
      PROVE  Content!Drop(s)
  BY <1>2 DEF Content!Drop, Latest, Notes
<1>3. ASSUME NEW s \in Services, UNCHANGED registry, Sha # None,
             Notes' = [Notes EXCEPT ![s] = Sha]
      PROVE  Content!Take(s)
  <2>1. Sha \in Digests /\ Sha.tag \in Tags /\ Sha.version \in Nat
    BY <1>3, DigestTypes DEF Digests
  <2>2. Sha.version \in 0..Latest[Sha.tag]
    BY <1>3, <2>1 DEF DigestsInOrder, Known, Latest, TypeOK, Images
  <2>3. Sha = [tag |-> Sha.tag, version |-> Sha.version]
    BY <2>1 DEF Digests
  <2>4. \A q \in Services : Content!UpTo(Notes[q], Sha)
    BY DEF DigestsInOrder, UpTo, Content!UpTo, Notes
  <2>5. \E t \in Tags : \E v \in 0..Latest[t] :
          LET d == [tag |-> t, version |-> v]
          IN  /\ \A q \in Services : Content!UpTo(Notes[q], d)
              /\ Notes' = [Notes EXCEPT ![s] = d]
    BY <1>3, <2>1, <2>2, <2>3, <2>4
  <2> QED
    BY <1>3, <2>5 DEF Content!Take, Latest, Notes
<1>4. CASE Annotate \/ Collect
  BY <1>2, <1>3, <1>4, OneNoteChanges DEF Content!Next, Latest
<1>5. CASE ~Annotate /\ ~Collect /\ ~\E t \in Tags : Push(t)
  BY <1>5, NotesStay DEF Latest
<1> QED
  BY <1>1, <1>4, <1>5 DEF Content!Next

\* The Deployments of a namespace are annotated in the order of the pushes: the
\* resolution by a shared Pod implements AnnotatedContent.
THEOREM ImplementsAnnotatedContent == Spec => AnnotatedInOrder
<1>1. Init => Content!Init
  BY DEF Init, Content!Init, Note, Images
<1>2. TypeOK /\ DigestsInOrder /\ [Next]_vars => [Content!Next]_<<Latest, Notes>>
  BY ContentStep
<1> QED
  BY <1>1, <1>2, TypeCorrect, DigestsAreInOrder, PTL
  DEF Spec, AnnotatedInOrder, Content!Spec, Latest, Notes

=============================================================================
