--------------------------- MODULE PolicyEngineRoute ---------------------------
(***************************************************************************)
(* The Route of the policy engine and the policyEngineURI of the status:   *)
(* validateRouteName, ensurePolicyEngineRoute with findExistingRoute, and  *)
(* the status update of Reconcile, for UpdateServices of one namespace     *)
(* that share one worker.  An earlier version of the operator gave the     *)
(* Route another name; a Route found under that name is kept in place of   *)
(* one under the name of now.                                              *)
(*                                                                         *)
(* The informer of Routes may lag.  The other objects of a pass are in     *)
(* UpdateServiceReconciler: here the loop either gets to the Route or      *)
(* breaks off before it.                                                   *)
(***************************************************************************)
EXTENDS Naturals

CONSTANTS
  None,            \* absent route, no TLS, no URI
  Services,        \* the UpdateServices of the namespace
  OldName,         \* oldPolicyEngineRouteName of each
  NewName,         \* namePolicyEngineRoute of each
  NameLength,      \* the length of each name of a Route
  NamespaceLength, \* the length of the name of the namespace
  Certificates,    \* what users put in the place of the rendered TLS
  Disturbances,    \* what users, crashes and failures do in this instance
  MaxDisturbances  \* bound on the number of disturbances

Names == {OldName[s] : s \in Services} \cup {NewName[s] : s \in Services}
Tls   == {"edge", None} \cup Certificates

ASSUME NamesAssumption ==
  /\ OldName = [s \in Services |-> OldName[s]] /\ NewName = [s \in Services |-> NewName[s]]
  /\ NameLength \in [Names -> Nat] /\ NamespaceLength \in Nat
  /\ None \notin Names \cup Services /\ MaxDisturbances \in Nat

VARIABLES
  alive,  \* the UpdateServices there are
  uri,    \* status.policyEngineURI of each: None or [name, secure]
  routes, \* the Routes: None or [owner, to, tls, admitted]
  seen,   \* the informer's copies of them
  news,   \* of each name, the owners in the events on their way to the informer
  due,    \* the UpdateServices whose request is queued
  pass,   \* the running pass, or NoPass: [svc, step, name, copy, current, uri, failed]
  unaware, \* the UpdateServices that nothing but the five minutes brings back: their last
           \* pass met a failure, or a Route was seen to change without an event for them
           \* (history)
  budget  \* disturbances left

vars == <<alive, uri, routes, seen, news, due, pass, unaware, budget>>

Disturb(d) == d \in Disturbances /\ budget > 0 /\ budget' = budget - 1

\* validateRouteName, as far as its length goes: name and namespace are one label.
DNS1123LabelMaxLength == 63
Rejected(s) == NameLength[NewName[s]] + 1 + NamespaceLength > DNS1123LabelMaxLength

\* A Route that is created without a host gets name-namespace as its first label, and the
\* API refuses one that is no DNS label: "must be no more than 63 characters".
HostFits(n) == NameLength[n] + 1 + NamespaceLength =< 63

\* IngressURI: the host, which stands for the name of the Route here, and the scheme.
URIOf(n, r) == IF r = None THEN None
               ELSE IF r.admitted THEN [name |-> n, secure |-> r.tls # None] ELSE None

\* newPolicyEngineRoute
NewRoute(s) == [owner |-> s, to |-> s, tls |-> "edge", admitted |-> FALSE]

\* What an earlier version of the operator may have left, if there was room for the host.
InitRoutes ==
  {r \in [Names -> {None} \cup [owner : Services, to : Services, tls : Tls, admitted : {TRUE}]] :
     \A n \in Names : r[n] # None =>
       OldName[r[n].owner] = n /\ r[n].to = r[n].owner /\ HostFits(n)}

NoPass == [svc |-> None, step |-> "idle", name |-> None, copy |-> None, current |-> FALSE,
           uri |-> None, failed |-> FALSE]

Init ==
  /\ alive = Services /\ uri = [s \in Services |-> None]
  /\ routes \in InitRoutes /\ seen = routes /\ news = [n \in Names |-> {}]
  /\ due = Services /\ pass = NoPass /\ unaware = {}
  /\ budget = MaxDisturbances

-----------------------------------------------------------------------------
(* The pass. *)

Working == {pass.svc} \ {None}

\* Mutant of Requeue: RequeueAfter only while there is no URI.
MutRequeue(s) ==
  /\ s \in alive /\ ~Rejected(s) /\ s \notin due \cup Working /\ uri[s] = None
  /\ due' = due \cup {s}
  /\ UNCHANGED <<alive, uri, routes, seen, news, pass, unaware, budget>>

\* The five-minute RequeueAfter of the last pass, or an event of another object.
Requeue(s) ==
  /\ s \in alive /\ ~Rejected(s) /\ s \notin due \cup Working
  /\ due' = due \cup {s}
  /\ UNCHANGED <<alive, uri, routes, seen, news, pass, unaware, budget>>

\* The pass starts from an empty status: no URI.
Start(s) ==
  /\ pass = NoPass /\ s \in due
  /\ due' = due \ {s}
  /\ pass' = IF s \notin alive THEN NoPass
             ELSE [NoPass EXCEPT !.svc = s, !.step = IF Rejected(s) THEN "status" ELSE "old"]
  /\ UNCHANGED <<alive, uri, routes, seen, news, unaware, budget>>

At(step) == pass.step = step

\* Mutant of ReadOld: NotFound is not told from a Route.
MutReadOld ==
  /\ At("old")
  /\ LET n == OldName[pass.svc] IN
       pass' = [pass EXCEPT !.step = "update", !.name = n, !.copy = seen[n],
                            !.current = news[n] = {}]
  /\ UNCHANGED <<alive, uri, routes, seen, news, due, unaware, budget>>

\* The first Get of findExistingRoute, under the old name, ...
ReadOld ==
  /\ At("old")
  /\ LET n == OldName[pass.svc] IN
       pass' = IF seen[n] = None THEN [pass EXCEPT !.step = "new"]
               ELSE [pass EXCEPT !.step = "update", !.name = n, !.copy = seen[n],
                                 !.current = news[n] = {}]
  /\ UNCHANGED <<alive, uri, routes, seen, news, due, unaware, budget>>

\* ... and the second, under the name of now.
ReadNew ==
  /\ At("new")
  /\ LET n == NewName[pass.svc] IN
       pass' = IF seen[n] = None THEN [pass EXCEPT !.step = "create"]
               ELSE [pass EXCEPT !.step = "update", !.name = n, !.copy = seen[n],
                                 !.current = news[n] = {}]
  /\ UNCHANGED <<alive, uri, routes, seen, news, due, unaware, budget>>

OwnerOf(r) == IF r = None THEN None ELSE r.owner

\* The API's object n changes: the copies of the informer and of the pass are old now.
Change(n, r) ==
  /\ routes' = [routes EXCEPT ![n] = r]
  /\ news' = [news EXCEPT ![n] = @ \cup {OwnerOf(routes[n]), OwnerOf(r)}]
  /\ UNCHANGED <<alive, uri, seen, due, unaware>>

\* There is no Route: create one, and leave the URI to a later pass.  The Create is
\* refused if there is a Route of that name after all, or if the host does not fit; then
\* the loop breaks off.
CreateRoute ==
  /\ At("create")
  /\ LET n == NewName[pass.svc] IN
       IF routes[n] = None /\ HostFits(n)
       THEN Change(n, NewRoute(pass.svc))
       ELSE UNCHANGED <<alive, uri, routes, seen, news, due, unaware>>
  /\ pass' = [pass EXCEPT !.step = "status"]
  /\ UNCHANGED budget

\* Mutant of Written: the rendered Spec, TLS included.
MutWritten(copy) == [copy EXCEPT !.to = pass.svc, !.tls = "edge"]

\* The rendered Spec with the TLS that was found.
Written(copy) == [copy EXCEPT !.to = pass.svc]

\* Mutant of Accepted: the Update carries no resourceVersion.
MutAccepted == routes[pass.name] # None

\* The API's answer to an Update of the copy of the pass.
Accepted == pass.current

\* A Route was found: its URI is reported, and what it leads to is put right.  A Route
\* in the API has defaults that are not rendered, so there is always an Update; one
\* that changes nothing makes no new version.  A refused Update is only logged.
UpdateRoute ==
  /\ At("update")
  /\ pass' = [pass EXCEPT !.step = "status", !.uri = URIOf(pass.name, pass.copy)]
  /\ IF Accepted /\ Written(pass.copy) # pass.copy
     THEN Change(pass.name, Written(pass.copy))
     ELSE UNCHANGED <<alive, uri, routes, seen, news, due, unaware>>
  /\ UNCHANGED budget

\* A failed Update is logged, with the URI in place; any other failure, of the Route or
\* of a function before it, breaks the loop off without one.
RouteFails ==
  /\ pass.step \in {"old", "new", "create", "update"}
  /\ Disturb("fault")
  /\ \E u \in {None} \cup IF pass.step = "update" THEN {URIOf(pass.name, pass.copy)} ELSE {} :
       pass' = [pass EXCEPT !.step = "status", !.uri = u, !.failed = TRUE]
  /\ UNCHANGED <<alive, uri, routes, seen, news, due, unaware>>

\* Mutant of StatusOf: only a found URI is written, the old one stays otherwise.
MutStatusOf(p) == IF p.uri = None THEN uri[p.svc] ELSE p.uri

\* The status of the pass takes the place of the whole status there was.
StatusOf(p) == p.uri

\* A status that is new makes a new version of the UpdateService, which is an event.
WriteStatus ==
  /\ At("status")
  /\ LET s == pass.svc
         u == IF s \in alive THEN StatusOf(pass) ELSE uri[s]
     IN  /\ uri' = [uri EXCEPT ![s] = u]
         /\ due' = IF u = uri[s] THEN due ELSE due \cup {s}
         /\ unaware' = IF pass.failed THEN unaware \cup {s} ELSE unaware \ {s}
  /\ pass' = NoPass
  /\ UNCHANGED <<alive, routes, seen, news, budget>>

\* The Deployment could not be written, or the update of the status failed.
StatusFails ==
  /\ At("status") /\ Disturb("fault")
  /\ unaware' = unaware \cup {pass.svc}
  /\ pass' = NoPass
  /\ UNCHANGED <<alive, uri, routes, seen, news, due>>

-----------------------------------------------------------------------------
(* The informer of Routes, the router, the garbage collector, users, crashes. *)

\* Mutant of Enqueued: SetupWithManager does not own Routes.
MutEnqueued(owners) == {}

\* An event of a Route enqueues its owner.
Enqueued(owners) == owners \ {None}

\* Those for whom n is the name of a Route, and who hear nothing of the events of n.
Unheard(n) == {s \in Services : n \in {OldName[s], NewName[s]} /\ s \notin news[n]}

\* The informer takes in the events of one name.
Deliver(n) ==
  /\ news[n] # {}
  /\ seen' = [seen EXCEPT ![n] = routes[n]]
  /\ news' = [news EXCEPT ![n] = {}]
  /\ due' = due \cup Enqueued(news[n])
  /\ unaware' = unaware \cup Unheard(n)
  /\ pass' = [pass EXCEPT !.failed = @ \/ pass.svc \in Unheard(n)]
  /\ UNCHANGED <<alive, uri, routes, budget>>

\* A change that is not the pass's own.
ChangeByOthers(n, r) ==
  /\ Change(n, r)
  /\ pass' = [pass EXCEPT !.current = @ /\ pass.name # n]

Admit(n) ==
  /\ routes[n] # None /\ ~routes[n].admitted
  /\ ChangeByOthers(n, [routes[n] EXCEPT !.admitted = TRUE])
  /\ UNCHANGED budget

\* The router gives a Route up.
Evict(n) ==
  /\ routes[n] # None /\ routes[n].admitted /\ Disturb("router")
  /\ ChangeByOthers(n, [routes[n] EXCEPT !.admitted = FALSE])

Collect(n) ==
  /\ routes[n] # None /\ routes[n].owner \notin alive \cup {None}
  /\ ChangeByOthers(n, None)
  /\ UNCHANGED budget

\* A user's certificate and key, or no TLS at all.
EditTls(n) ==
  /\ routes[n] # None /\ Disturb("tls")
  /\ \E t \in Tls \ {routes[n].tls} : ChangeByOthers(n, [routes[n] EXCEPT !.tls = t])

\* Somebody leads a Route elsewhere, or deletes it.
Drift(n) ==
  /\ routes[n] # None /\ Disturb("drift")
  /\ \/ routes[n].to # None /\ ChangeByOthers(n, [routes[n] EXCEPT !.to = None])
     \/ ChangeByOthers(n, None)

\* The names that some pass reads.
ReadNames == UNION {{OldName[s], NewName[s]} : s \in {t \in Services : ~Rejected(t)}}

\* Somebody creates a Route by hand; it has no owner.
CreateByHand(n) ==
  /\ routes[n] = None /\ n \in ReadNames /\ Disturb("create")
  /\ ChangeByOthers(n, [owner |-> None, to |-> None, tls |-> "edge", admitted |-> FALSE])

DeleteService(s) ==
  /\ s \in alive /\ Disturb("delete")
  /\ alive' = alive \ {s} /\ due' = due \cup {s}
  /\ UNCHANGED <<uri, routes, seen, news, pass, unaware>>

Restart ==
  /\ Disturb("crash")
  /\ pass' = NoPass /\ seen' = routes /\ news' = [n \in Names |-> {}]
  /\ due' = alive \cup Enqueued({OwnerOf(routes[n]) : n \in Names})
  /\ UNCHANGED <<alive, uri, routes, unaware>>

-----------------------------------------------------------------------------

Pass == \/ ReadOld \/ ReadNew \/ CreateRoute \/ UpdateRoute \/ RouteFails
        \/ WriteStatus \/ StatusFails

User == \/ \E n \in Names : Evict(n) \/ EditTls(n) \/ Drift(n) \/ CreateByHand(n)
        \/ \E s \in Services : DeleteService(s)
        \/ Restart

Next == \/ Pass \/ (\E s \in Services : Start(s) \/ Requeue(s))
        \/ (\E n \in Names : Deliver(n) \/ Admit(n) \/ Collect(n))
        \/ User

Spec == Init /\ [][Next]_vars

\* The worker, the informer, the five-minute requeue and the garbage collector keep
\* going, and the queue is first in, first out; the router and users need not.
FairSpec ==
  /\ Spec /\ WF_vars(Pass)
  /\ \A s \in Services : SF_vars(Start(s)) /\ WF_vars(Requeue(s))
  /\ \A n \in Names : WF_vars(Deliver(n)) /\ WF_vars(Collect(n))

-----------------------------------------------------------------------------
(* Properties. *)

Routes == [owner : Services \cup {None}, to : Services \cup {None}, tls : Tls,
           admitted : BOOLEAN]
URIs   == [name : Names, secure : BOOLEAN]

ASSUME RoutesAssumption == None \notin Routes

\* Every variable has its type; a pass that updates a Route has one.
TypeOK ==
  /\ alive \subseteq Services /\ due \subseteq Services /\ unaware \subseteq Services
  /\ uri \in [Services -> URIs \cup {None}]
  /\ routes \in [Names -> Routes \cup {None}] /\ seen \in [Names -> Routes \cup {None}]
  /\ news \in [Names -> SUBSET (Services \cup {None})]
  /\ pass \in [svc : Services \cup {None}, name : Names \cup {None},
               step : {"idle", "old", "new", "create", "update", "status"},
               copy : Routes \cup {None}, current : BOOLEAN, uri : URIs \cup {None},
               failed : BOOLEAN]
  /\ pass.step # "idle" => pass.svc \in Services
  /\ At("update") => pass.name \in Names /\ pass.copy \in Routes
  /\ budget \in 0..MaxDisturbances

\* Copies that count as current are: the inductive reason for TlsIsTheUsers.
CopiesAreCurrent ==
  /\ \A n \in Names : news[n] = {} => seen[n] = routes[n]
  /\ At("update") /\ pass.current => pass.copy = routes[pass.name]

\* "We want to allow user to update the TLS cert/key manually on the route and we don't
\* want to override that change" (ensurePolicyEngineRoute): no step of a pass changes
\* the TLS of a Route that exists, though it writes a whole Spec it read some steps ago
\* and the user may have edited, deleted or replaced the Route since.
PassMovesOn == pass'.step # pass.step

TlsIsTheUsers ==
  [][PassMovesOn => \A n \in Names : routes[n] # None /\ routes'[n] # None
                                      => routes'[n].tls = routes[n].tls]_vars

\* The Route of an UpdateService: the one findExistingRoute finds.
Maintained(s) == IF routes[OldName[s]] # None THEN OldName[s] ELSE NewName[s]

ServedAndReported(s) ==
  LET r == routes[Maintained(s)]
  IN  r # None /\ r.to = s /\ uri[s] = URIOf(Maintained(s), r)

\* The UpdateServices that should get a URI: those whose host fits, and those the operator
\* accepts.
Entitled == {s \in alive : HostFits(NewName[s]) \/ ~Rejected(s)}

AtRest(s) == /\ s \in Entitled /\ s \notin due \cup Working \cup unaware
             /\ \A n \in Names : news[n] = {}

\* An UpdateService that is at rest has a Route that leads to its own policy engine, and
\* its status gives the URI of that Route and of no other, whatever was edited, deleted
\* or admitted during the pass, and without waiting for the five minutes.  No UpdateService
\* is excepted but those whose Route the API would refuse: validateRouteName rejects these
\* and no others.
RestIsReported ==
  \A s \in Services :
    AtRest(s) => ServedAndReported(s)

\* Once users and failures leave it alone, the status settles on the URI of the Route,
\* one created by hand included, though a pass that breaks off early takes the URI out
\* of the status (the five-minute requeue of Reconcile).
UriSettles ==
  <>[](\A s \in Entitled : ServedAndReported(s))

\* policyEngineURI "is the external URI which exposes the policy engine" of the
\* UpdateService (UpdateServiceStatus): once nothing is queued, a URI in a status
\* is of a Route that leads to its policy engine.  The code breaks this: the Route of
\* the UpdateService "x-policy-engine" has the name the Route of "x" once had, and
\* findExistingRoute does not ask whose it is.
UriExposesOwnEngine ==
  pass = NoPass /\ due = {} /\ (\A n \in Names : news[n] = {})
    => \A s \in alive : uri[s] # None
         => routes[uri[s].name] # None /\ routes[uri[s].name].to = s

=============================================================================
