-------------------------- MODULE UnretriedFailures --------------------------
(***************************************************************************)
(* UpdateServiceReconciler with a history of the failures nobody retries.  *)
(* Most errors of a pass are returned, and a retry follows.  Three are     *)
(* lost: an error of the ensure loop, which ensureGraphDataSHA overwrites  *)
(* or the function swallows; the refused write of the copy of the pull     *)
(* secret, whose kind has no watch; and an event the mapper drops.  Until  *)
(* the next pass begins, nothing is said of the objects then; but nothing  *)
(* else that fails leaves an operator at rest out of sync.                 *)
(***************************************************************************)
EXTENDS UpdateServiceReconciler

VARIABLE unretried  \* history: such a failure happened since a pass last began

unretriedVars == <<vars, unretried>>

\* A call of the ensure loop fails, or its function of the pull secret returns an error:
\* Reconcile breaks the loop off and overwrites err, or the function only logs it.
LoopFails == pc = "ensure" /\ (budget' # budget \/ (Kind = "pullSecret" /\ pc' = "graphData"))

\* mapper.Map returns no request for a change of the certificate.
EventDropped == CurrentCA' # CurrentCA /\ cached # None /\ ~dirty'

-----------------------------------------------------------------------------

UnretriedInit == Init /\ unretried = FALSE

\* A pass that begins reads everything anew.
PassBegins == pc = "idle" /\ pc' # "idle"

Works == Reconcile /\ unretried' = (~PassBegins /\ (unretried \/ LoopFails))

Disturbed == User /\ unretried' = (unretried \/ EventDropped)

GoesOn ==
  /\ Deliver \/ TimerFires \/ Collect \/ InjectBundle \/ PodAdvances \/ Restart
  /\ UNCHANGED unretried

UnretriedNext == Works \/ Disturbed \/ GoesOn

UnretriedSpec == UnretriedInit /\ [][UnretriedNext]_unretriedVars

UnretriedFairSpec == UnretriedSpec /\ Fairness

-----------------------------------------------------------------------------
(* Properties. *)

\* Whatever else fails, is lost, drifts, restarts or lags, the Secret informer included:
\* an operator at rest is in sync, unless a failure nobody retries happened since its last
\* pass began (ReturnError, RequeueAfter and the watches against the err of Reconcile).
RetriedMeansInSync == ~unretried => QuietMeansInSync

\* An accepted ReconcileCompleted is true of the API's spec in every pass whose loop
\* met no failure, whatever failed before and after the loop.
RetriedMeansTrue == ~unretried => SuccessIsTrue

\* The objects that are not what the API's spec and the sources ask for.
Untrue ==
  {k \in LoopKinds : ~InPlace(k, inst.spec, src.ps, CurrentCA)} \cup
  IF DeploymentReflects(inst.spec, CurrentCA) THEN {} ELSE {"deployment"}

\* The request is queued, or an event that queues it is on its way.
Told == dirty \/ \E k \in behind : k \in Watched

\* A Deployment that lost its init container or its graph-builder container: the event
\* of the removal came to a pass, and the pass did not repair it.
Incomplete == deploy # None /\ (deploy.init = None \/ deploy.gb = None)

\* Which objects may be untrue without the operator knowing: when the API accepts
\* ReconcileCompleted, in a pass whose loop met no failure, every object that is not what
\* the API's spec asks for has the request queued or an event on its way that queues it,
\* whatever failed, drifted, was edited or lagged behind (Owns and Watches of
\* SetupWithManager).  There are two exceptions, and in both the success is untrue until
\* something else happens: the copy of the pull secret, whose changes raise no event, and
\* a Deployment that lost its init container or its graph-builder container, which
\* ensureDeployment does not put back.
RetriedMeansTold ==
  ~unretried /\ pc = "status" /\ pass.current /\ request = "valid"
    => \A k \in Untrue : Told \/ k = "pullSecret" \/ (k = "deployment" /\ Incomplete)

\* A Deployment is written after all its Pods mount and the budget that guards them, in
\* every pass whose loop met no failure.
RetriedMeansGuarded ==
  [][pc = "deployment" /\ deploy' # deploy /\ Alive(pass.uid) /\ ~unretried
       => \A k \in LoopKinds : InPlace(k, pass.spec, pass.ps, pass.ca)]_unretriedVars

=============================================================================
