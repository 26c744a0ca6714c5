---------------------------- MODULE OperandRollout ----------------------------
(***************************************************************************)
(* The operand's Pods under the Deployment of UpdateServiceReconciler: when*)
(* they start, and with which content of the ConfigMaps they mount.  The   *)
(* operator never restarts a Pod itself: it changes the Pod template, in   *)
(* particular the hash annotations, and the Deployment controller replaces *)
(* the Pods of another template.                                           *)
(***************************************************************************)
EXTENDS UpdateServiceReconciler

VARIABLES
  pods,  \* the Pods of the newest ReplicaSet: None or [template, config, cert],
         \* the contents being those the containers started with
  left   \* history: the values of releases that users have replaced

rolloutVars == <<vars, pods, left>>

-----------------------------------------------------------------------------

\* The Pod template of a Deployment: all but its replicas and its owner.
Template(d) == [hash |-> d.hash, volumes |-> d.volumes, gb |-> d.gb, init |-> d.init,
                extra |-> d.extra, sha |-> d.sha]

\* The object behind each volume: newVolumes.
Mounted(d) == {"gbConfig", "pullSecret"}
              \cup (IF "trusted-ca" \in d.volumes THEN {"trustedCA"} ELSE {})
              \cup (IF "cluster-trusted-ca" \in d.volumes THEN {"clusterCA"} ELSE {})

\* A Pod waits until every ConfigMap and Secret it mounts or takes its environment
\* from (newGraphBuilderContainer, newPolicyEngineContainer) exists.
CanStart(d) == \A k \in Mounted(d) \cup {"envConfig"} : obj[k] # None

\* The certificate among what the containers of d mount.
MountedCert(d) == IF "trusted-ca" \in d.volumes THEN obj["trustedCA"].val ELSE None

\* The Pods are those of the Deployment's template.
RolledOut == deploy # None /\ pods # None /\ pods.template = Template(deploy)

-----------------------------------------------------------------------------

RolloutInit == Init /\ pods = None /\ left = {}

\* The Deployment controller and the kubelet bring up Pods of the current template;
\* those of an older one end.
Roll ==
  /\ deploy # None /\ ~RolledOut /\ CanStart(deploy)
  /\ pods' = [template |-> Template(deploy), config |-> obj["gbConfig"].val,
              cert |-> MountedCert(deploy)]
  /\ UNCHANGED <<vars, left>>

\* The garbage collector ends the Pods of a Deployment that is gone.
PodsCollected ==
  /\ pods # None /\ deploy = None
  /\ pods' = None
  /\ UNCHANGED <<vars, left>>

\* The steps of the operator and of its surroundings start no Pod.
Operate ==
  /\ Next
  /\ left' = IF inst # None /\ inst' # None /\ inst'.spec.releases # inst.spec.releases
             THEN left \cup {inst.spec.releases} ELSE left
  /\ UNCHANGED pods

RolloutNext == Operate \/ Roll \/ PodsCollected

RolloutSpec == RolloutInit /\ [][RolloutNext]_rolloutVars

-----------------------------------------------------------------------------
(* Properties. *)

\* The operator has nothing left to do but to wait for its five minutes.
AtRest == pc = "idle" /\ ~dirty /\ fresh /\ behind = {} /\ timer # "retry" /\ Renderable

\* Once operator and rollout are done, the graph-builder runs with the configuration
\* of the current spec: its Pods did not start between a Deployment with the new hash
\* and the ConfigMap it stands for (GraphBuilderConfigHashAnnotation, and the order of
\* ensureConfig and ensureDeployment).  A user who returns to an earlier value while
\* Pods start is excepted: the template is then the one the Pods already have.
PodsRunTheSpec ==
  AtRest /\ RolledOut /\ inst.spec.releases \notin left
    => pods.config = inst.spec.releases

\* Pods are not left waiting for an object nobody is going to create: at rest, a
\* Deployment can start its Pods.
PodsCanStart == AtRest /\ deploy # None => CanStart(deploy)

\* "The Cincinnati Operator will watch the image.config.openshift.io API and the
\* ConfigMap you created [...] for changes, then restart the deployment if the Cert has
\* changed" (docs/external-registry-ca.md): once operator and rollout are done, the
\* Pods have started with the current certificate.  The code breaks this: newDeployment
\* annotates the template with the hashes of the two operand ConfigMaps only, so
\* another certificate under the same volume leaves the template as it is.
PodsTrustTheCert == AtRest /\ RolledOut => pods.cert = CurrentCA

=============================================================================
