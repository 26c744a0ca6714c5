# A formal model of the update service operator

This directory models the operator of the OpenShift Update Service (the code in
`src/`): TLA+ modules, the TLC runs that model-check them on small instances, and theorems
that TLAPS proves for every value of the constants.

## 1. The system

One process watches `UpdateService` objects in its own namespace and keeps, for each, the
objects that make up a running update service: three or four ConfigMaps, a Secret, two
Services, a PodDisruptionBudget, a Route, a NetworkPolicy, a Deployment, and a short-lived
Pod that resolves an image tag to a digest.  It is *level-triggered*: an event says only
that something changed, and `Reconcile` computes everything anew.

| component | source | state it keeps | operations | module |
|---|---|---|---|---|
| `Reconcile` | `controllers/updateservice_controller.go` | the locals of one pass | gather sources, render, ten `ensure*` functions, `ensureGraphDataSHA`, `ensureDeployment`, status | `UpdateServiceReconciler` |
| work queue, informers, watches | `SetupWithManager`; `vendor/.../controller.go`, `enqueue_owner.go`, `delaying_queue.go` | queued request, delayed re-add, cached objects | enqueue on events, `AddRateLimited`, `AddAfter`, re-list on start | `UpdateServiceReconciler` |
| mapper | `controllers/mapper.go` | none | `image.config/cluster` and CA ConfigMap events to requests | `UpdateServiceReconciler` |
| rendered resources | `controllers/new.go`, `names.go` | none | what each object should hold, when it is not wanted | all |
| graph-data tag resolution | `ensureGraphDataSHA` | the Pod `graph-data-tag-digest` | create, read the ImageID, delete when it has succeeded | `GraphDataDigest` |
| policy-engine route | `ensurePolicyEngineRoute`, `findExistingRoute`, `validateRouteName` | the Route under one of two names; `policyEngineURI` | find, create, update, report | `PolicyEngineRoute` |
| operand rollout | `newDeployment`, the merge in `ensureDeployment` | the Pod template | when running Pods are replaced | `OperandRollout` |
| network policy egress | `egressPorts` and helpers | none | the ports the operand may use | `OperandConfiguration` |
| configuration checksum | `checksumMap` | none | the annotations that roll the Pods | `OperandConfiguration` |
| process start | `main.go` | none | start and restart | each module's `Init`, `Restart` |
| API types, manifests, functional tests | `api/`, `config/`, `bundle/`, `functests/` | none | generated or static | none |

How they interact: a user, the kubelet, the garbage collector or the operator itself writes
to the API; the informer of that kind takes the new version in *later* and enqueues the
owner; one worker takes the request off the queue and runs `Reconcile`, which reads through
the informers and writes to the API; its return value decides whether the request comes back
at once (after a rate-limited delay), after five minutes, or only on the next event.

What is hard: every call of a pass interleaves with users, other controllers and crashes;
reads may be out of date, so a Create may meet an object that exists and an Update an object
that moved on; calls fail, or succeed and lose their answer; most errors are returned and
retried, some are logged only, and the error of the ensure loop is overwritten; secrets are
not watched at all; UpdateServices of a namespace share objects by name.  `PROJECT.json` lists
the hazards at their lines.

What makes the components correct:

- *Reconcile and queue*: an operator at rest has everything in place; it never forgets an
  `UpdateService`; it converges once it is left alone; nothing outlives its owner.
- *Status*: a status belongs to the spec and the incarnation it is written to, and a reported
  success is true.
- *Order and rollout*: the Deployment is written after all it mounts, its Pods can start, and
  they end up with the current configuration.
- *Digest*: annotations follow the pushes and never go back.
- *Route*: the user's TLS survives; the status names the Route that serves.
- *Configuration*: the egress rule is explicit and sufficient; a change of data changes the hash.

## 2. The modules

| module | what it is |
|---|---|
| `UpdateServiceReconciler` | the core: one `UpdateService`, the queue, the informers, every call of a pass, users, crashes, failures |
| `OperandRollout` | EXTENDS the core: the operand's Pods under its Deployment |
| `UnretriedFailures` | EXTENDS the core: a history of the failures nobody retries |
| `GraphDataDigest` | several UpdateServices share the digest Pod; implements `AnnotatedContent` |
| `AnnotatedContent` | the abstract specification: annotations are handed out in the order of the pushes |
| `PolicyEngineRoute` | several UpdateServices, two names for a Route, `policyEngineURI` |
| `OperandConfiguration` | egress rule and checksum, as functions of the spec, the environment and a ConfigMap |
| `MC*` | instances of these for TLC |
| `UpdateServiceReconcilerProofs` | types, wakeups, status of the core |
| `UpdateServiceSyncProofs` | a quiet operator is in sync |
| `UpdateServiceSuccessProofs` | a reported success is true; the Deployment comes last |
| `UnretriedFailuresProofs` | the same with failures: the ones nobody retries are the only ones that matter |
| `OperandRolloutProofs` | the Pods can start and run what the spec says |
| `GraphDataDigestProofs`, `PolicyEngineRouteProofs`, `OperandConfigurationProofs` | the proofs of these modules |

## 3. The models

### The core: `UpdateServiceReconciler`

One action per API call of a pass and per event.

| variable | in the code |
|---|---|
| `inst` | the `UpdateService` in the API: uid, spec, status |
| `cached`, `fresh` | the informer's copy of it, and whether its resourceVersion is current |
| `request` | whether the name and the namespace are acceptable (`validateRouteName`, the namespace test) |
| `src` | pull secret, `image.config/cluster`, and the CA ConfigMap it names |
| `obj`, `deploy`, `pod` | the ten objects of the ensure loop, the Deployment, the digest Pod |
| `seen`, `behind` | the informers' copies of the kinds in `Lagging`, and which are out of date |
| `dirty`, `timer` | the request is queued; its delayed re-add, by a returned error or by `RequeueAfter` |
| `pc`, `pass` | where `Reconcile` is, and its locals |
| `uids`, `budget` | bounds: incarnations and disturbances so far |

The actions of a pass follow `Reconcile` line by line (`map` in `PROJECT.json`): `Ignore`,
`Begin`, `Reject`; `FindPullSecret` ... `RenderFails`; the loop; `GraphData*`; `Deployment*`;
`UpdateStatus`.  The ten ensure functions share their shape (Get, then Create, Update or
nothing), so the loop has one action per *outcome*, parameterised by `Kind`; what differs
between them is in `Swallows` (a failed Update is not returned), `CreateRefused` and `Noted`.

Around the pass: `DeliverInstance` and `DeliverObject` (informers), `TimerFires`, `Restart`
(queue, timers and pass are lost, the informers list again), `Collect*` (garbage collector),
`PodAdvances` (kubelet), `InjectBundle` (network operator), and the user's edits, deletions,
re-creations and drifts.  `ImageConfigChanges` and `TrustedCAChanges` go through the mapper,
which drops the event when one of its own reads fails (`MapperEnqueues`).

Abstractions, all of them named in the module:

- Contents are model values; `Rendered` says which inputs an object depends on, `Mounts` which
  volumes exist.  The operand image and the environment configuration never change while the
  operator runs and are constants.
- The informers of kinds outside `Lagging` are as current as the API.  An informer takes in the
  current version, not each version in between; client-go compresses in the same way.
  `Lagging` may be any set of kinds; the digest Pod and the sources (`src` is what the informers
  show of them) do not lag.
- An accepted Status().Update may or may not be a new version: the conditions carry times.
- A failed call is a disturbance ("fault"); a lost answer is `EnsureTimesOut` and
  `DeploymentTimesOut`.  Where a pass ends in an error, the conditions it noted are lost, since
  the status is not written; which of them it had noted is therefore not followed in detail.
- The three reads of the cluster CA ConfigMap inside one `ensureTrustedClusterCA` are one step.
- An object whose defaulted fields the API fills in, so that `reflect.DeepEqual` sees a
  difference that is none, is not modelled: the needless Update changes nothing.
- Rate limiting is a delay of any length.

### The Pods: `OperandRollout`

The operator never restarts a Pod: it writes the Pod template, and the Deployment controller
replaces the Pods of another template.  `pods` is the newest generation of Pods: the template it
was made of and the contents of the ConfigMaps it *started* with.  `Roll` may happen at any moment
between two calls of a pass, once everything the Pods mount exists (`CanStart`).  `left` is a
history variable: the values of `releases` a user has replaced by another, so that a property can except
the return to a value whose template the Pods already have.  Surge, readiness and the Pods of older
templates are left out.

### The failures nobody retries: `UnretriedFailures`

Most errors end a pass and come back as a retry.  Three do not, and the module names them in a history
variable, `unretried`, which the next pass to begin clears:

- a call of the ensure loop fails (`LoopFails`): its error is overwritten at
  `updateservice_controller.go:179`, or was only logged by its function (lines 597 and the like);
- the write of the pull-secret copy is refused, because its informer lags: also in `LoopFails`; for the other
  kinds the event that brings the informer up to date queues the request again, but Secrets are not watched;
- the mapper drops the event of a certificate (`EventDropped`, `mapper.go:30` and `:54`).

The history constrains nothing.  TLC finds each of the three to be needed: without any one of them
`RetriedMeansInSync` is violated.

### The digest Pod: `GraphDataDigest`

`ensureGraphDataSHA` and the annotation `ensureDeployment` makes of its result, for several
`UpdateService`s of one namespace.  `Reconcile` uses one worker, so one `pass` is under way at a
time; the rest of the pass is the core's business and is left out.

| variable | in the code |
|---|---|
| `image` | `spec.graphDataImage` of each `UpdateService`: a tag, or a pinned `@sha256` |
| `registry` | how often the content of each image was replaced |
| `pod`, `seen` | the Pod `graph-data-tag-digest`: owner, image, phase, ImageID; the informer's copy |
| `deploy` | per `UpdateService` the image of the init container and the annotation |
| `due`, `pass` | queued requests; the pass: whose, for which image, with which `imageSHA` |

`ensureGraphDataSHA` has one action per return (`ImagePinned`, `PodCreated`, `PodDeleted`, `DigestRead`,
`DigestUnknown`), `ensureDeployment` has `Annotate` and `AnnotateFails`.  `WakeupArmed` of the core is the
reason why `Requeue` may be taken for granted.  A digest is a pair of a tag and a version, so
that properties can say *whose* and *how old*.  Only the Pod's informer lags; a refused write of
the Deployment is `AnnotateFails`.  A Pod terminates at once when it is deleted.

`AnnotatedContent` knows no Pods, passes and informers: `Push` makes a new content, `Take` gives a
Deployment one that is no older than what *any* Deployment of the namespace has of the tag,
`Drop` removes a Deployment.  The refinement mapping (`Content` in `GraphDataDigest`) is `registry` on the
tags and the annotation of each Deployment; every step of a Pod, a pass or an informer stutters.

### The Route: `PolicyEngineRoute`

| variable | in the code |
|---|---|
| `alive`, `uri` | the UpdateServices, and `status.policyEngineURI` of each |
| `routes`, `seen`, `news` | the Routes by name, the informer's copies, and whose events are on their way |
| `due`, `pass` | queued requests; the pass with the copy of the Route it works on |
| `unaware` | history: those that only the five minutes bring back |

One action per read and write: `ReadOld` and `ReadNew` are the two Gets of `findExistingRoute`;
`CreateRoute`, `UpdateRoute`, `RouteFails` are the outcomes of `ensurePolicyEngineRoute`; a pass that
breaks off anywhere before the Route ends with no URI (`RouteFails` again), since every pass starts from an
empty status; `WriteStatus` replaces the whole status.  The router admits and evicts, users put
their certificates in, lead Routes elsewhere, delete them or create one by hand.  Names are compared and
measured, never taken apart: the constants `OldName`, `NewName` and `NameLength` give the two names of an
UpdateService and their lengths.  `Rejected` is `validateRouteName`; `HostFits` is the API's own check, which refuses
the Create of a Route whose name and namespace make a label of more than 63 characters
(`docs/disconnected-updateservice-operator.md:173-176`).  `CreateRoute` does not ask the first and meets the second, so
a `Rejected` that accepts too much would leave an accepted UpdateService without a Route.  The URI stands for the name
of its Route and the scheme.  An informer's event enqueues the owners of the old and the new version of the
Route; `unaware` records who should have been told and has no event.

### Ports and hashes: `OperandConfiguration`

Pure functions, with an environment chosen once and a spec and a ConfigMap that users edit.  A host
is the sequence of its labels, a URL what `url.Parse` makes of it, an entry of `NO_PROXY` its kind
(`*`, a name, a suffix, a range).  `EgressPorts` follows `egressPorts` with its closure `add`.  `ChecksumMap` follows
the writes to the hash: the base64 encoder passes on groups of three bytes and keeps up to two back
(`Write`), the separators go past it, `Close` flushes.  What is hashed stands for its hash.

## 4. The runs

Specs, secrets and certificates are two each where they change.  `MaxDisturbances` of two or three
allows every order of two or three edits, drifts, faults, crashes or source changes at every point
of a pass, which covers one event hitting a pass and a second one hitting its repair.  It is one
in `reconciler_recreate`, where the garbage collector, the re-creation and the lagging informer
come on top of the deletion, the edit or the drift.

| run | checks | disturbances and bounds | shows |
|---|---|---|---|
| `reconciler_quiet` | `RetriedMeansInSync`, `RetriedMeansTold` | two of edit, fault, source, crash and the drift of any object; a lagging Secret informer | at rest means in sync, restarts included, unless one of the three failures nobody retries came since the last pass began; when a success is reported with an object untrue, the request is queued or an event is on its way, except for the pull-secret copy and a Deployment that lost a container |
| `reconciler_recreate` | `QuietMeansInSync`, `StatusFromCurrentSpec` | one of delete, edit and the drift of any object; a lagging Route informer; two incarnations | at rest means in sync, refused writes and late events included, and no leftovers of the first incarnation count for the second |
| `reconciler_faults` | `TypeOK`, `WakeupArmed`, `StatusFromCurrentSpec`, `DeletedStaysDeleted` | two of edit, delete, fault, crash, source; missing sources, a by-tag image, a malformed spec, bad names | never forgotten; never the status of an old spec; nothing is created once a deletion is known |
| `reconciler_live` | `Converged`, `DeletedMeansCollected`, `RetriedMeansTrue`, `RetriedMeansGuarded` | two of edit, delete, source, fault, crash | convergence, the unwatched Secret and dropped mapper events included; after a deletion nothing stays behind; a success is true and the Deployment comes last in every pass whose loop met no failure |
| `rollout` | `SuccessIsTrue`, `PodsRunTheSpec`, `PodsCanStart`, `DeploymentWrittenLast` | two of edit, source, crash, delete; Pods start at any moment | an accepted success is true; order of writes; the Pods run what the spec says |
| `digest` | `TypeOK`, `DigestsInOrder`, `NoteNeverGoesBack`, `AnnotatedInOrder`, `PushReachesDeployment` | three of fault, failed Pod, drift, push, edit, delete, crash; two UpdateServices, a tag, a pinned image | annotations only move forward, across UpdateServices; what was pushed last is annotated |
| `route` | `TypeOK`, `RestIsReported`, `TlsIsTheUsers`, `UriSettles` | two of fault, eviction, TLS edit, drift, Route by hand, delete, crash; a name whose host is one character too long | the user's TLS survives; the status is right at rest and settles |
| `configuration` | `PortsAreExplicit`, `EgressReachesRegistry`, `ChecksumNotices` | ports at and past their limits, service names and near misses, IPv4, IPv6, five kinds of proxy, four values of `NO_PROXY`; two keys, one the beginning of the other, values of up to two bytes | the rule is explicit and, by a reading of `NO_PROXY` of its own, sufficient; every change of one entry is noticed |

Why the bounds are enough.  One `UpdateService` is enough for the core, since instances share only the
digest Pod (`GraphDataDigest`), a Route by its name (`PolicyEngineRoute`) and the cluster CA (section 7).  In
`digest` two UpdateServices are enough for one to own the Pod another reads, and one tag for them to compete
for; a push and the loss of a Pod are what a stale annotation takes.  In `route` one UpdateService has both
names and the other is one character too long (a label of 64), which a check that accepts it would violate; an accepted
name at the limit itself is left to the proof, which is for every length (`RejectedIsRefused`).  What two accepted ones
do to each other is `route_collision`.  The encoder of `checksumMap` carries at most two bytes, so keys and values of up to two bytes
reach each of its states.

`reconciler_live` uses pinned images only, so the `pod` part of `DeletedMeansCollected` holds there without
a Pod ever existing; `digest` collects Pods, as a matter of safety only.

Runs that end in a violation, each the counterexample of a finding (section 6):
`reconciler_reflected`, `digest_two_tags`, `route_collision`, `rollout_cert`.

Deadlock is checked except where the system may really stop: after a deletion (`reconciler_recreate`,
`reconciler_live`, `rollout`, `digest`, `route`), after a rejected request (`reconciler_faults`, `route_collision`).  Every
property has a mutant of a mapped definition (`Mut*` in the module) that breaks it.

**Fairness** (`FairSpec`, and `UnretriedFairSpec` with the history).  Weak fairness of the worker (`Reconcile` as a whole), the timers, each
informer and the garbage collector: goroutines of a live process and controllers that keep
going.  Nothing is assumed of users, failures, crashes, the network operator or the router.
`FairSpec` of `GraphDataDigest` and of `PolicyEngineRoute` adds the five-minute requeue, which `WakeupArmed` justifies,
and takes `Start` of one UpdateService strongly: the queue is first in, first out, so that a request is not
passed over for ever, though the worker is busy again and again.  `GraphDataDigest` adds the
kubelet, strongly: with `SleepOutlasts` the end of the Pod's five-minute sleep waits until the
operator has seen it run, which is a statement about durations and not a reason for the kubelet
to stop, and it holds again and again but not continuously.
Disturbances are finite (`budget`), which is the "once it is left alone" of the liveness properties.

**Why some properties except what they do.**

- `QuietMeansInSync`: the Secret copy is not watched, so it may be up to five minutes old (`Converged` covers
  it).  With a lagging *Secret* informer or with failing calls the property is false: a refused write breaks off
  the loop and nothing but the timer brings the operator back (`reconciler_reflected`).  `RetriedMeansInSync`
  is the same without these two exceptions, and says exactly which failures it takes.  Both speak of the part of the
  Deployment that `ensureDeployment` restores (`DeploymentInPlace`).  Two removals are outside it: a Deployment without
  its init container is left alone altogether, since `updateservice_controller.go:552` returns the nil error of the Get,
  and a graph-builder container that was removed stays away, since the merge (lines 488-530) walks over the containers
  it finds.  In both cases success is reported (section 6).
- `RetriedMeansTold` takes an object for true only if it holds everything the spec asks for, the pull-secret copy and
  both containers of the Deployment included (`Untrue`).  Two objects may then be untrue with nothing queued and nothing
  on its way.  The pull-secret copy may drift after `ensurePullSecret` and before the status is written: no event tells,
  and up to five minutes go by.  And a Deployment that lost one of its two containers (`Incomplete`) has had its event,
  but a pass does not make it whole.  TLC finds each of the exceptions to be needed.
- `SuccessIsTrue` makes no exception for the containers (`DeploymentReflects`), and neither does `Converged`: they are
  checked where nobody removes one.  With a failing call, a hand edit, a lagging informer or leftovers of an earlier
  incarnation a success may be untrue for a moment, since the pass does not look back.  `RetriedMeansTrue` and
  `RetriedMeansGuarded` admit failing calls: only those of the pass's own loop matter.
- `PodsRunTheSpec`: the hash in the template is that of the *rendered* ConfigMap (`new.go:115`).  A user who
  goes back to an earlier repository brings back a template the Pods may already have, having started in
  between with the other configuration; `left` excepts the return.  A ConfigMap whose write failed, was refused
  because its informer lags, or that somebody edits, is not what the hash says; `rollout` has no
  faults, drifts or lagging informers (section 6).
- `RestIsReported` is about the UpdateServices whose host would fit and those the operator accepts (`Entitled`), so that a
  check of the name that is too strict violates it as well as one that is too lenient.  An UpdateService whose last pass failed somewhere, or that is not the owner of the Route
  that changed, has only the five minutes (`unaware`); `UriSettles` covers it.
- `PushReachesDeployment`: a failed Pod is never deleted (section 6).
- `ChecksumNotices`: one entry at a time.  Bytes that move from one entry to the next at once can give the
  same input to the hash, since a separator does not end the encoder's group of three.
- `EgressReachesRegistry`: which host and port the graph-builder connects to (`Contact`), when it goes past the proxy
  (`Direct`, `Exempt`: a `*`, the host itself, a domain above it, a range with its address) and which hosts are in the
  cluster (`ServiceIn`) are written without the operators that model the code, so that an error in `noProxy`,
  `portFromURL` or `namespaceFromInternalHost` is an error against them.  Outside the property (`Workable`) are
  `HTTP_PROXY` alone, whose port the code opens though https does not use it, a registry in the cluster that is not
  exempt from a proxy (the rule then names its namespace, and not the proxy), and an IPv6 registry that `NO_PROXY` names
  or has in a range (section 6); clients that take a leading-dot entry for the domain itself too read `NO_PROXY` in
  another way than the operator.

## 5. The proofs

The proofs hold for any specs, sources, informer lag, names, disturbances and bounds that the
`ASSUME`s of the modules allow; TLC evaluates those on every run.

`UpdateServiceReconcilerProofs`:

- `TypeCorrect`: `Spec => []TypeOK`.  One lemma per group of actions; `Frames` carries the parts a
  step leaves alone.  `TypeOK` is inductive, since it says that a pass under way has a uid and
  a spec and where the loop index is.
- `Coherence`: `TypeOK /\ Coherent`.  `Coherent` ties the informer's copy and `pass.current` to the API
  object; `fresh` and `pass.current` are cleared by exactly the writes that outdate them.
- `WakeupAlwaysArmed`: `Spec => []WakeupArmed`.  Not inductive alone: `Ignore` drops the request
  when `cached = None`, and `Coherent` shows that then there is no `UpdateService` or an
  event is coming.
- `StatusIsOfCurrentSpec`: `Spec => StatusFromCurrentSpec`.  Follows from `pass.current` in `Coherent`
  and the guard of `PersistStatus`.
- `DeletedStays`: `Spec => DeletedStaysDeleted`, the safety half of `DeletedMeansCollected`.  `Coherent` says that an
  informer that is up to date has no copy of what is gone, so that no pass begins (`NothingBegins`); what is
  not a pass only changes or deletes objects (`NothingAppears`).

`UpdateServiceSyncProofs`:

- `QuietIsInSync`: `Spec => []QuietMeansInSync`, if no API call fails and the Secret informer does not
  lag (`QuietAssumption`).  The inductive invariant is `TypeOK /\ Coherent /\ InformersFollow /\
  SyncInv`.  `InformersFollow` (a lemma)
  says that informers that are not behind show what the API holds.  `SyncInv` says: *while* nothing is queued and no event that queues is on its way (`Calm`, which
  takes no account of the Secret informer: its events queue nothing), the pass works with the current spec
  and CA (`PassCurrent`), what the loop has been through is in place (`LoopInPlace`), and so is everything after the loop and at rest (`RestInPlace`).  Every step that
  could falsify one of them ends `Calm`: `NotifyPending` for changes of watched objects,
  `SyncPending` for the rest, `SyncError` for passes that end in a retry.  So the proof never needs
  the order of the events.  `Unread` says that a pass holds no certificate before it has read one: what
  a pass that begins takes over from a time that was not calm is nothing.  The lemmas of the steps assume no
  quiet: each names the one failure its steps must not meet (`SyncEnsure` a failing call, `SyncEnvironment` a
  dropped event), and `QuietIsInSync` rules them out by the constants.

`UpdateServiceSuccessProofs`, if nobody else touches the operator's objects, their informers do not lag, the
UpdateService is not created again (`AloneAssumption`) and no call fails (with the former:
`UndisturbedAssumption`); edits, deletions, source changes and crashes may happen at any call:

- `PassedIsDone`: `DoneInv`, the inductive invariant: while the owner of the pass is alive (`Serving`), so that
  nothing is collected, every kind the loop has passed (`PassedKinds`) is in place *for the pass's own spec*,
  secret and certificate.  `SuccessIsTrue` is not inductive: it speaks of the end of the pass only.  Beside it goes
  `Whole`, by which no Deployment has lost a container (`StaysWhole`).
- `SuccessIsAlwaysTrue`: `DoneInv` with `Coherent`: a status the API accepts is of a pass whose spec is the API's.
- `DeploymentComesLast`: `DeploymentWrittenLast` from `DoneInv` alone.

`UnretriedFailuresProofs` for the core with its history:

- `RestIsInSyncUnlessUnretried`: `UnretriedSpec => []RetriedMeansInSync`, with *no* assumption: any calls may
  fail, answers get lost, any object drift, any informer lag, the operator restart and the UpdateService be created
  again.  The inductive invariant is `RetriedInv == ~unretried => SyncInv`: a failure that sets the history
  is the only step that breaks `SyncInv`, and `Begin` restores it from `Coherent` alone (`SyncBegin`), since a pass reads
  everything anew.
- `UntrueIsQueuedOrExcepted`: `UnretriedSpec => []RetriedMeansTold`, from the same invariant and `Coherent`, again with no
  assumption.  When the status is written and nothing is queued or on its way, the operator is `Calm`, and `SyncInv` says
  that everything is in place but the pull-secret copy and a Deployment that lost a container, which are the two
  exceptions the property makes.
- `SuccessIsTrueUnlessUnretried` and `DeploymentIsGuardedUnlessUnretried`, under `AloneAssumption` (but calls may fail): `RetriedDone == ~unretried => DoneInv` in the same way.

`OperandRolloutProofs`, under `UndisturbedAssumption`.  A rollout is an execution of the core (`OperatorRuns`), so that
its theorems hold here too:

- `HashesAreTrue`: `RolloutInv`, the inductive invariant, while there is an UpdateService.  `HashIsTrue`: a
  Deployment's hash that users have not replaced is that of the ConfigMap *now*, and Pods with such a hash
  started with its configuration.  That survives a change of the ConfigMap only since no pass writes an older
  configuration: a value not in `left` moves from the informer to the pass to the Deployment (`NeverBehind`), and
  everything any of them holds was asked for (`OnlyAsked`), so that an edit puts it into `left`.
  `Startable` is for the one mounted object no other invariant covers, the unwatched Secret.  A lagging
  ConfigMap informer really breaks `HashIsTrue` (section 6), so `Lagging = {}` is not for convenience.
- `PodsAlwaysStart`: `PodsCanStart` from `RolloutInv` and `QuietIsInSync`.
- `PodsAlwaysRunTheSpec`: `PodsRunTheSpec` from the same: at rest the Deployment has the hash of the spec.

`GraphDataDigestProofs`, for any UpdateServices, images and disturbances:

- `TypeCorrect`: `Spec => []TypeOK`, inductive.
- `DigestsAreInOrder`: `Spec => []DigestsInOrder`.  Digests travel from the Pod to the informer, to the
  pass and to an annotation.  Every step but two hands them on or forgets them (`HandedOn`), which
  keeps them in order by one lemma; `PodStarts` makes the newest one there is, and `Push` makes none.
- `NotesNeverGoBack`: `Spec => NoteNeverGoesBack`.  Needs the whole chain: the one step that writes an
  annotation writes the pass's digest, whose order to the old annotation was settled when it was
  read, possibly before other steps on the Pod.
- `ImplementsAnnotatedContent`: `Spec => Content!Spec`.  The initial states map to initial states; `Push` maps to
  `Push`, `Annotate` to `Take` or a stutter, the garbage collector to `Drop`, all else to a stutter.  The guard of
  `Take` is where `DigestsInOrder` is needed.

`PolicyEngineRouteProofs`, for any UpdateServices, names, certificates and disturbances:

- `TypeCorrect`: `Spec => []TypeOK`, inductive.
- `CurrentCopies`: a copy that the API would accept is the API's object, and so is the informer's when no event is
  on its way.
- `TlsStaysTheUsers`: `Spec => TlsIsTheUsers`: an accepted Update writes back the TLS of a copy that, by
  `CurrentCopies`, has the TLS of the Route.
- `RestIsAlwaysReported`: `Spec => []RestIsReported`, for any UpdateServices, also ones that share a Route, and names of any length.  The
  operator rejects exactly the names whose host the API refuses (`RejectedIsRefused`), so that the Create of an accepted
  one is never refused for its name.  The inductive invariant `RestInv` is about each UpdateService whose Routes nobody
  has touched without it being queued or told (`Undisturbed`): the pass for it has found out the truth so far (`FoundOut`: which names have
  no Route, that the copy is current, that the URI is the one it serves), and without a pass its
  status has it.  Any change of one of its Routes ends `Undisturbed`, so no lemma is about the order of changes
  and reads; `CurrentCopies` is what makes a read of the informer a read of the API then.

- `OwnNamesExposeOwnEngine`: `Spec => []UriExposesOwnEngine`, the property `route_collision` refutes, if the names of two
  UpdateServices never meet (`DistinctAssumption`), no call fails and nobody creates Routes by hand
  (`OwnRoutesAssumption`).  `OwnInv`: a Route is owned by the one whose name it has, so each of its events reaches that
  one (`Heard`), nobody is ever unaware, and `RestIsReported` says the rest.  So the collision is what the violation
  takes.

`OperandConfigurationProofs`, for any registries, environments, keys and values (`KeysAssumption`: the keys of a map
are sequences of bytes and differ):

- `PortsAlwaysExplicit`, by the cases of a proxy, no proxy and a proxy that is bypassed.
- `EgressAlwaysReaches`: first that the code's answers are those of the independent reading: `NoProxyIs` (with
  `SuffixIs`, a suffix with a leading dot is a domain above the host) and `NamespaceIs`; then by the same cases.
- `ChecksumAlwaysNotices`: `Spec => ChecksumNotices`, for any number of keys and any lengths.  An entry `k`, `v` adds
  `Len(k) + Len(v)` bytes and two separators to what was written (`WriteSize`), so an entry added or removed changes the
  size.  Of two writes of one size, what comes out and what is left in the encoder tells what it held before and what
  was written (`WriteTells`, `SeparatedTells`): the groups are of three bytes each and the separators are known by their
  length.  So from equal outcomes follow, backwards, equal states before each entry (`EntryTells`) and equal values
  (`EntriesTell`, by induction over the keys).  Closing the encoder loses nothing, since the last thing written is a
  separator (`CloseTells`).  The induction is a least-element argument over a set of numbers (`LeastNat`,
  `Induction`), which needs no theorem with an operator as parameter.

Only model-checked: liveness (`Converged`, `DeletedMeansCollected`, `PushReachesDeployment`, `UriSettles`), which TLAPS
cannot prove under fairness.  Every safety property of a passing run is a theorem.

## 6. Where the code and its words differ

1. `CompletedMeansReflected`, `reconciler_reflected`: the error of the ensure loop is overwritten at
   `updateservice_controller.go:179`, so `ReconcileCompleted` is reported with objects missing or
   out of date, against `api/v1/updateservice_types.go:54-55`.  A failing call is not even needed: a
   lagging Secret informer is enough, and no event of a Secret retries the broken-off loop.
2. `NoteOfOwnImage`, `digest_two_tags`: the Pod of one UpdateService is read for another with a
   different tag (`updateservice_controller.go:428`), against the purpose line 384 states.
3. `UriExposesOwnEngine`, `route_collision`: the old name of the Route of `x` is the name of the Route of
   `x-policy-engine`, and `findExistingRoute` (`updateservice_controller.go:732-758`) does not ask whose Route it
   finds; `updateservice_types.go:42` says what the URI is for.  Without a collision the property is a theorem
   (`OwnNamesExposeOwnEngine`).
4. `PodsTrustTheCert`, `rollout_cert`: a new certificate reaches the ConfigMap but not the template
   (`new.go:603`), so the Pods are not restarted, which `docs/external-registry-ca.md:36-38` says they are.

Seen while modelling, and modelled, without a run of their own: the Deployment may be scaled up after
a loop that broke off before the PodDisruptionBudget (`updateservice_controller.go:186`, the same cause as
1; `updateservice_types.go:12-14` promises the budget); a Deployment without its init container is never repaired
again (line 552) and a removed graph-builder container is never put back (lines 488-530), though success is reported;
`noProxy` cuts a registry at its first colon (`new.go:354`), which an IPv6 address already has in its middle, so an entry of
`NO_PROXY` that names or contains it is not seen; an unexpected init container stays, since line 556
assigns a local slice only (the comment of line 541 says it is removed); a failed digest Pod is never
deleted (line 420), so the polling "every 5 minutes" of line 384 is over; when the write of the
graph-builder ConfigMap is refused, because its informer lags behind the operator's own earlier write, the pass
still gives the template the hash of what it did not write (`new.go:115`, again line 179), Pods that start then
mount the old content, and when the next pass writes the ConfigMap nothing replaces them (with
`Lagging = {"gbConfig"}` one edit leads `OperandRollout` there; the comment of `new.go:28-31` says "the Pod
will be replaced whenever the content of the ConfigMap changes").

## 7. Not modelled

- `cluster-trusted-ca` has one name for all UpdateServices of the namespace (`new.go:743`): the first one owns
  it, and after its deletion the others wait for their next pass to have it again.  It needs a
  second UpdateService in the core, whose state space is at its limit with one.
- Pods of older templates, surge and readiness of the rollout; termination of the digest Pod.
- The names of objects other than the Route and the digest Pod: nothing looks them up under a second name.
- Logging, metrics and RBAC; the fixed texts, probes and commands of the rendered objects; flags and
  environment checks of `main.go`; leader election (off by default: one operator at a time); generated
  deep copies; the manifests; the functional tests; the operand itself.

## 8. What could follow

Theorems: that the UpdateServices of `GraphDataDigest` that share a tag agree once each has had a pass since the last
change of the Pod.  Modules: the shared cluster CA; an abstract controller with one atomic step from *actual* to
*desired*, implemented by the core without failures.
