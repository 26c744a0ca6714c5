------------------------ MODULE PolicyEngineRouteProofs ------------------------
(***************************************************************************)
(* TypeOK, CopiesAreCurrent and RestInv are inductive, for any             *)
(* UpdateServices, even ones whose Routes share a name; TlsIsTheUsers and  *)
(* RestIsReported follow.                                                  *)
(***************************************************************************)
EXTENDS PolicyEngineRoute, TLAPS

\* Spending a disturbance leaves a budget within its bound.
LEMMA Spent ==
  ASSUME NEW d, budget \in 0..MaxDisturbances, Disturb(d)
  PROVE  budget' \in 0..MaxDisturbances
BY NamesAssumption DEF Disturb

\* The names of an UpdateService's Routes are names of Routes.
LEMMA NamesOf == \A s \in Services : OldName[s] \in Names /\ NewName[s] \in Names
BY DEF Names

\* A URI that is reported has the type of one.
LEMMA UriType ==
  ASSUME NEW n \in Names, NEW r \in Routes \cup {None}
  PROVE  URIOf(n, r) \in URIs \cup {None}
BY DEF URIOf, URIs, Routes

\* What Change writes has a type if the Route it is given has.
LEMMA ChangeType ==
  ASSUME TypeOK, NEW n \in Names, NEW r \in Routes \cup {None}, Change(n, r)
  PROVE  /\ routes' \in [Names -> Routes \cup {None}]
         /\ news' \in [Names -> SUBSET (Services \cup {None})]
         /\ UNCHANGED <<alive, uri, seen, due, unaware>>
<1>1. OwnerOf(r) \in Services \cup {None} /\ OwnerOf(routes[n]) \in Services \cup {None}
  BY DEF OwnerOf, TypeOK, Routes
<1> QED
  BY <1>1 DEF Change, TypeOK

\* The variables that are not of the pass keep their types, and so does a pass that
\* others outdate.
LEMMA ByOthersType ==
  ASSUME TypeOK, NEW n \in Names, NEW r \in Routes \cup {None}, ChangeByOthers(n, r),
         budget' \in 0..MaxDisturbances
  PROVE  TypeOK'
BY ChangeType DEF ChangeByOthers, TypeOK, At

\* The steps of a pass keep the types, ...
LEMMA TypePass ==
  ASSUME TypeOK, Pass
  PROVE  TypeOK'
<1> USE DEF At
<1>1. CASE ReadOld
  BY <1>1, NamesOf DEF ReadOld, TypeOK
<1>2. CASE ReadNew
  BY <1>2, NamesOf DEF ReadNew, TypeOK
<1>3. CASE CreateRoute
  <2>1. pass.svc \in Services /\ NewName[pass.svc] \in Names
    BY <1>3, NamesOf DEF CreateRoute, TypeOK
  <2>2. NewRoute(pass.svc) \in Routes
    BY <2>1 DEF NewRoute, Routes, Tls
  <2>3. /\ routes' \in [Names -> Routes \cup {None}]
        /\ news' \in [Names -> SUBSET (Services \cup {None})]
        /\ UNCHANGED <<alive, uri, seen, due, unaware>>
    BY <1>3, <2>1, <2>2, ChangeType DEF CreateRoute, TypeOK
  <2> QED
    BY <1>3, <2>3 DEF CreateRoute, TypeOK
<1>4. CASE UpdateRoute
  <2>1. pass.name \in Names /\ pass.copy \in Routes
    BY <1>4 DEF UpdateRoute, TypeOK
  <2>2. Written(pass.copy) \in Routes
    BY <1>4, <2>1 DEF UpdateRoute, Written, Routes, TypeOK
  <2>3. URIOf(pass.name, pass.copy) \in URIs \cup {None}
    BY <2>1, UriType
  <2>4. /\ routes' \in [Names -> Routes \cup {None}]
        /\ news' \in [Names -> SUBSET (Services \cup {None})]
        /\ UNCHANGED <<alive, uri, seen, due, unaware>>
    BY <1>4, <2>1, <2>2, ChangeType DEF UpdateRoute, TypeOK
  <2> QED
    BY <1>4, <2>3, <2>4 DEF UpdateRoute, TypeOK
<1>5. CASE RouteFails
  <2>1. \A u \in {None} \cup IF pass.step = "update" THEN {URIOf(pass.name, pass.copy)} ELSE {} :
          u \in URIs \cup {None}
    BY <1>5, UriType DEF RouteFails, TypeOK
  <2>2. budget' \in 0..MaxDisturbances
    BY <1>5, Spent DEF RouteFails, TypeOK
  <2>3. PICK u \in URIs \cup {None} :
          pass' = [pass EXCEPT !.step = "status", !.uri = u, !.failed = TRUE]
    BY <1>5, <2>1 DEF RouteFails
  <2>4. pass.svc \in Services
    BY <1>5 DEF RouteFails, TypeOK
  <2> QED
    BY <1>5, <2>2, <2>3, <2>4 DEF RouteFails, TypeOK
<1>6. CASE WriteStatus
  <2>1. pass.svc \in Services /\ StatusOf(pass) \in URIs \cup {None}
    BY <1>6 DEF WriteStatus, StatusOf, TypeOK
  <2>2. PICK u \in URIs \cup {None} :
          /\ uri' = [uri EXCEPT ![pass.svc] = u]
          /\ due' = IF u = uri[pass.svc] THEN due ELSE due \cup {pass.svc}
          /\ unaware' = IF pass.failed THEN unaware \cup {pass.svc} ELSE unaware \ {pass.svc}
    BY <1>6, <2>1 DEF WriteStatus, TypeOK
  <2>3. due' \subseteq Services /\ unaware' \subseteq Services
    BY <2>1, <2>2 DEF TypeOK
  <2> QED
    BY <1>6, <2>2, <2>3 DEF WriteStatus, TypeOK, NoPass
<1>7. CASE StatusFails
  BY <1>7, Spent DEF StatusFails, TypeOK, NoPass
<1> QED
  BY <1>1, <1>2, <1>3, <1>4, <1>5, <1>6, <1>7 DEF Pass

\* ... and so do all others.
LEMMA TypeOthers ==
  ASSUME TypeOK,
         \/ \E s \in Services : Start(s) \/ Requeue(s)
         \/ \E n \in Names : Deliver(n) \/ Admit(n) \/ Collect(n)
         \/ User
  PROVE  TypeOK'
<1>1. ASSUME NEW s \in Services, Start(s) \/ Requeue(s) PROVE TypeOK'
  <2>1. CASE Start(s)
    <3>1. pass' \in {NoPass, [NoPass EXCEPT !.svc = s, !.step = "status"],
                     [NoPass EXCEPT !.svc = s, !.step = "old"]}
      BY <2>1 DEF Start
    <3> QED
      BY <2>1, <3>1 DEF Start, TypeOK, At, NoPass
  <2>2. CASE Requeue(s)
    BY <2>2 DEF Requeue, TypeOK, At
  <2> QED
    BY <1>1, <2>1, <2>2
<1>2. ASSUME NEW n \in Names, Deliver(n) PROVE TypeOK'
  <2>1. Enqueued(news[n]) \subseteq Services /\ Unheard(n) \subseteq Services
    BY <1>2 DEF Enqueued, Unheard, TypeOK
  <2> QED
    BY <1>2, <2>1 DEF Deliver, TypeOK, At
<1>3. ASSUME NEW n \in Names, Admit(n) PROVE TypeOK'
  <2>1. /\ ChangeByOthers(n, [routes[n] EXCEPT !.admitted = TRUE])
        /\ routes[n] \in Routes /\ budget' \in 0..MaxDisturbances
    BY <1>3 DEF Admit, TypeOK
  <2>2. [routes[n] EXCEPT !.admitted = TRUE] \in Routes
    BY <2>1 DEF Routes
  <2> QED
    BY <2>1, <2>2, ByOthersType
<1>4. ASSUME NEW n \in Names, Collect(n) PROVE TypeOK'
  <2>1. ChangeByOthers(n, None) /\ budget' \in 0..MaxDisturbances
    BY <1>4 DEF Collect, TypeOK
  <2> QED
    BY <2>1, ByOthersType
<1>5. ASSUME NEW n \in Names, Evict(n) PROVE TypeOK'
  <2>1. budget' \in 0..MaxDisturbances
    BY <1>5, Spent DEF Evict, TypeOK
  <2>2. ChangeByOthers(n, [routes[n] EXCEPT !.admitted = FALSE]) /\ routes[n] \in Routes
    BY <1>5 DEF Evict, TypeOK
  <2>3. [routes[n] EXCEPT !.admitted = FALSE] \in Routes
    BY <2>2 DEF Routes
  <2> QED
    BY <2>1, <2>2, <2>3, ByOthersType
<1>6. ASSUME NEW n \in Names, EditTls(n) PROVE TypeOK'
  <2>1. budget' \in 0..MaxDisturbances
    BY <1>6, Spent DEF EditTls, TypeOK
  <2>2. PICK t \in Tls : ChangeByOthers(n, [routes[n] EXCEPT !.tls = t])
    BY <1>6 DEF EditTls
  <2>3. routes[n] \in Routes
    BY <1>6 DEF EditTls, TypeOK
  <2>4. [routes[n] EXCEPT !.tls = t] \in Routes
    BY <2>3 DEF Routes
  <2> QED
    BY <2>1, <2>2, <2>4, ByOthersType
<1>7. ASSUME NEW n \in Names, Drift(n) PROVE TypeOK'
  <2>1. budget' \in 0..MaxDisturbances
    BY <1>7, Spent DEF Drift, TypeOK
  <2>2. ChangeByOthers(n, [routes[n] EXCEPT !.to = None]) \/ ChangeByOthers(n, None)
    BY <1>7 DEF Drift
  <2>3. routes[n] \in Routes
    BY <1>7 DEF Drift, TypeOK
  <2>4. [routes[n] EXCEPT !.to = None] \in Routes
    BY <2>3 DEF Routes
  <2> QED
    BY <2>1, <2>2, <2>4, ByOthersType
<1>8. ASSUME NEW n \in Names, CreateByHand(n) PROVE TypeOK'
  <2>1. [owner |-> None, to |-> None, tls |-> "edge", admitted |-> FALSE] \in Routes
    BY DEF Routes, Tls
  <2> QED
    BY <1>8, <2>1, ByOthersType, Spent DEF CreateByHand, TypeOK
<1>9. ASSUME NEW s \in Services, DeleteService(s) PROVE TypeOK'
  BY <1>9, Spent DEF DeleteService, TypeOK, At
<1>10. CASE Restart
  <2>1. \A n \in Names : OwnerOf(routes[n]) \in Services \cup {None}
    BY DEF OwnerOf, TypeOK, Routes
  <2> QED
    BY <1>10, <2>1, Spent DEF Restart, Enqueued, TypeOK, At, NoPass
<1> QED
  BY <1>1, <1>2, <1>3, <1>4, <1>5, <1>6, <1>7, <1>8, <1>9, <1>10 DEF User

\* Every variable has its type in every reachable state (the shape of Routes and of the
\* pass of ensurePolicyEngineRoute).
THEOREM TypeCorrect == Spec => []TypeOK
<1>1. Init => TypeOK
  <2>1. ASSUME Init PROVE routes \in [Names -> Routes \cup {None}]
    BY <2>1 DEF Init, InitRoutes, Routes
  <2> QED
    BY <2>1, NamesAssumption DEF Init, TypeOK, At, NoPass
<1>2. TypeOK /\ [Next]_vars => TypeOK'
  <2>1. TypeOK /\ UNCHANGED vars => TypeOK'
    BY DEF vars, TypeOK, At
  <2> QED
    BY <2>1, TypePass, TypeOthers DEF Next
<1> QED
  BY <1>1, <1>2, PTL DEF Spec

-----------------------------------------------------------------------------
(* Copies that count as current are current. *)

\* A change leaves a copy of the informer that is out of date known to be so.
LEMMA ChangeIsNews ==
  ASSUME TypeOK, CopiesAreCurrent, NEW n \in Names, NEW r, Change(n, r)
  PROVE  \A m \in Names : news'[m] = {} => seen'[m] = routes'[m]
BY DEF Change, TypeOK, CopiesAreCurrent

LEMMA CurrentByOthers ==
  ASSUME TypeOK, CopiesAreCurrent, NEW n \in Names, NEW r, ChangeByOthers(n, r)
  PROVE  CopiesAreCurrent'
<1>1. \A m \in Names : news'[m] = {} => seen'[m] = routes'[m]
  BY ChangeIsNews DEF ChangeByOthers
<1>2. At("update")' /\ pass'.current => pass'.copy = routes'[pass'.name]
  BY DEF ChangeByOthers, Change, At, TypeOK, CopiesAreCurrent
<1> QED
  BY <1>1, <1>2 DEF CopiesAreCurrent

LEMMA CurrentPass ==
  ASSUME TypeOK, CopiesAreCurrent, Pass
  PROVE  CopiesAreCurrent'
<1> USE DEF At
<1>1. CASE ReadOld
  BY <1>1, NamesOf DEF ReadOld, TypeOK, CopiesAreCurrent
<1>2. CASE ReadNew
  BY <1>2, NamesOf DEF ReadNew, TypeOK, CopiesAreCurrent
<1>3. CASE CreateRoute
  <2>1. pass.svc \in Services /\ NewName[pass.svc] \in Names
    BY <1>3, NamesOf DEF CreateRoute, TypeOK
  <2>2. pass'.step = "status"
    BY <1>3 DEF CreateRoute, TypeOK
  <2> QED
    BY <1>3, <2>1, <2>2, ChangeIsNews DEF CreateRoute, CopiesAreCurrent
<1>4. CASE UpdateRoute
  <2>1. pass.name \in Names
    BY <1>4 DEF UpdateRoute, TypeOK
  <2>2. pass'.step = "status"
    BY <1>4 DEF UpdateRoute, TypeOK
  <2> QED
    BY <1>4, <2>1, <2>2, ChangeIsNews DEF UpdateRoute, CopiesAreCurrent
<1>5. CASE RouteFails \/ WriteStatus \/ StatusFails
  <2>1. pass'.step # "update"
    <3>1. CASE RouteFails
      <4>1. PICK u : pass' = [pass EXCEPT !.step = "status", !.uri = u, !.failed = TRUE]
        BY <3>1 DEF RouteFails
      <4> QED
        BY <4>1 DEF TypeOK
    <3>2. CASE WriteStatus \/ StatusFails
      BY <3>2 DEF WriteStatus, StatusFails, NoPass
    <3> QED
      BY <1>5, <3>1, <3>2
  <2> QED
    BY <1>5, <2>1 DEF RouteFails, WriteStatus, StatusFails, CopiesAreCurrent
<1> QED
  BY <1>1, <1>2, <1>3, <1>4, <1>5 DEF Pass

LEMMA CurrentStep == TypeOK /\ CopiesAreCurrent /\ [Next]_vars => CopiesAreCurrent'
<1> SUFFICES ASSUME TypeOK, CopiesAreCurrent, [Next]_vars PROVE CopiesAreCurrent'
  OBVIOUS
<1>1. CASE UNCHANGED vars
  BY <1>1 DEF vars, CopiesAreCurrent, At
<1>2. ASSUME NEW s \in Services, Start(s) \/ Requeue(s) \/ DeleteService(s)
      PROVE  CopiesAreCurrent'
  <2>1. CASE Start(s)
    <3>1. ~pass'.current
      BY <2>1 DEF Start, NoPass
    <3> QED
      BY <2>1, <3>1 DEF Start, CopiesAreCurrent
  <2>2. CASE Requeue(s) \/ DeleteService(s)
    BY <2>2 DEF Requeue, DeleteService, CopiesAreCurrent, At
  <2> QED
    BY <1>2, <2>1, <2>2
<1>3. ASSUME NEW n \in Names, Deliver(n) PROVE CopiesAreCurrent'
  BY <1>3 DEF Deliver, CopiesAreCurrent, At, TypeOK
<1>4. ASSUME NEW n \in Names,
             Admit(n) \/ Collect(n) \/ Evict(n) \/ EditTls(n) \/ Drift(n) \/ CreateByHand(n)
      PROVE  CopiesAreCurrent'
  BY <1>4, CurrentByOthers DEF Admit, Collect, Evict, EditTls, Drift, CreateByHand
<1>5. CASE Restart
  BY <1>5 DEF Restart, CopiesAreCurrent, At, NoPass
<1> QED
  BY <1>1, <1>2, <1>3, <1>4, <1>5, CurrentPass DEF Next, User

\* A copy that counts as current is what the API holds, in every reachable state.
THEOREM CurrentCopies == Spec => []CopiesAreCurrent
<1>1. Init => CopiesAreCurrent
  BY DEF Init, CopiesAreCurrent, At, NoPass
<1> QED
  BY <1>1, TypeCorrect, CurrentStep, PTL DEF Spec

\* No step of a pass changes the TLS of a Route that exists: an Update that the API
\* accepts was made from the Route there is, and changes only where it leads to.
THEOREM TlsStaysTheUsers == Spec => TlsIsTheUsers
<1> DEFINE Kept ==
      PassMovesOn => \A n \in Names : routes[n] # None /\ routes'[n] # None
                                        => routes'[n].tls = routes[n].tls
<1>1. TypeOK /\ CopiesAreCurrent /\ [Next]_vars => [Kept]_vars
  <2> SUFFICES ASSUME TypeOK, CopiesAreCurrent, Next, PassMovesOn, NEW n \in Names,
                      routes[n] # None, routes'[n] # None
               PROVE  routes'[n].tls = routes[n].tls
    BY DEF vars
  <2>1. CASE ReadOld \/ ReadNew \/ RouteFails \/ WriteStatus \/ StatusFails \/ Restart
             \/ \E s \in Services : Start(s) \/ Requeue(s) \/ DeleteService(s)
    BY <2>1 DEF ReadOld, ReadNew, RouteFails, WriteStatus, StatusFails, Restart, Start,
       Requeue, DeleteService
  <2>2. CASE CreateRoute
    BY <2>2 DEF CreateRoute, Change, TypeOK
  <2>3. CASE UpdateRoute
    <3>1. CASE UNCHANGED routes
      BY <3>1
    <3>2. CASE pass.current /\ Change(pass.name, Written(pass.copy))
      <4>1. pass.copy = routes[pass.name] /\ pass.copy \in Routes /\ pass.name \in Names
        BY <2>3, <3>2 DEF UpdateRoute, CopiesAreCurrent, At, TypeOK
      <4>2. Written(pass.copy).tls = pass.copy.tls
        BY <4>1 DEF Written, Routes
      <4> QED
        BY <3>2, <4>1, <4>2 DEF Change, TypeOK
    <3> QED
      BY <2>3, <3>1, <3>2 DEF UpdateRoute, Accepted
  <2>4. CASE \E m \in Names : Deliver(m) \/ Admit(m) \/ Collect(m) \/ Evict(m) \/ EditTls(m)
                                \/ Drift(m) \/ CreateByHand(m)
    <3>1. pass'.step = pass.step
      BY <2>4 DEF Deliver, Admit, Collect, Evict, EditTls, Drift, CreateByHand,
         ChangeByOthers, PassMovesOn, TypeOK
    <3> QED
      BY <3>1 DEF PassMovesOn
  <2> QED
    BY <2>1, <2>2, <2>3, <2>4 DEF Next, Pass, User
<1> QED
  BY <1>1, TypeCorrect, CurrentCopies, PTL DEF Spec, TlsIsTheUsers

-----------------------------------------------------------------------------
(* At rest: every change of a Route an UpdateService goes by is known to it, on its way *)
(* to it, or recorded as one it does not hear of.                                       *)

Mine(s) == {OldName[s], NewName[s]}

\* Nobody has called s, and no event of its Routes is on its way.
Undisturbed(s) ==
  s \in alive /\ ~Rejected(s) /\ s \notin due /\ \A n \in Mine(s) : news[n] = {}

Served(s, u) ==
  LET r == routes[Maintained(s)]
  IN  r # None /\ r.to = s /\ u = URIOf(Maintained(s), r)

\* What the pass for s has found out about the Routes, as long as nothing has changed.
FoundOut(s) ==
  /\ At("new") \/ At("create") => routes[OldName[s]] = None
  /\ At("create") => routes[NewName[s]] = None
  /\ At("update") => pass.current /\ pass.name = Maintained(s)
  /\ At("status") => Served(s, pass.uri)

RestInv ==
  /\ At("update") => pass.name \in Mine(pass.svc) /\ pass.copy # None
  /\ \A s \in Services : Undisturbed(s) =>
       IF s = pass.svc THEN ~pass.failed => FoundOut(s)
                       ELSE s \notin unaware => Served(s, uri[s])

\* The step leaves the Routes of s and their events alone.
SameRoutes(s) == \A n \in Mine(s) : routes'[n] = routes[n] /\ news'[n] = news[n]

\* validateRouteName rejects the names whose Route the API refuses, and no others.
LEMMA RejectedIsRefused == \A s \in Services : Rejected(s) <=> ~HostFits(NewName[s])
BY NamesOf, NamesAssumption DEF Rejected, HostFits, DNS1123LabelMaxLength

LEMMA MineAreNames == \A s \in Services : Mine(s) \subseteq Names /\ Maintained(s) \in Mine(s)
BY NamesOf DEF Mine, Maintained

\* For an UpdateService that the pass is not for, if what concerns it stays.
LEMMA RestOfOther ==
  ASSUME RestInv, NEW s \in Services, s # pass.svc, s # pass'.svc, SameRoutes(s), Undisturbed(s)',
         s \in alive, s \notin due, s \notin unaware' => s \notin unaware, uri'[s] = uri[s]
  PROVE  s \notin unaware' => Served(s, uri[s])'
BY MineAreNames DEF RestInv, Undisturbed, Served, SameRoutes, Maintained, Mine

\* A change of a Route disturbs those who go by it, and leaves the others alone.
LEMMA ChangeDisturbs ==
  ASSUME TypeOK, NEW n \in Names, NEW r, Change(n, r), NEW s \in Services
  PROVE  IF n \in Mine(s) THEN ~Undisturbed(s)' ELSE SameRoutes(s)
BY MineAreNames DEF Change, TypeOK, Undisturbed, SameRoutes, Mine

LEMMA RestByOthers ==
  ASSUME TypeOK, RestInv, NEW n \in Names, NEW r, ChangeByOthers(n, r)
  PROVE  RestInv'
<1>1. Change(n, r) /\ UNCHANGED <<alive, due, unaware, uri>>
      /\ pass' = [pass EXCEPT !.current = @ /\ pass.name # n]
  BY DEF ChangeByOthers, Change
<1>2. At("update")' => pass'.name \in Mine(pass.svc)' /\ pass'.copy # None
  BY <1>1 DEF RestInv, At, Mine, TypeOK
<1>3. ASSUME NEW s \in Services, Undisturbed(s)'
      PROVE  IF s = pass'.svc THEN ~pass'.failed => FoundOut(s)'
                              ELSE s \notin unaware' => Served(s, uri[s])'
  <2>1. n \notin Mine(s) /\ SameRoutes(s)
    BY <1>1, <1>3, ChangeDisturbs
  <2>2. Undisturbed(s)
    BY <1>1, <1>3, <2>1 DEF Undisturbed, SameRoutes
  <2>3. CASE s = pass.svc
    <3>1. ~pass.failed => FoundOut(s)
      BY <2>2, <2>3 DEF RestInv
    <3>2. Maintained(s)' = Maintained(s) /\ Maintained(s) \in Mine(s)
          /\ routes'[Maintained(s)] = routes[Maintained(s)]
      BY <2>1, MineAreNames DEF SameRoutes, Maintained, Mine
    <3> QED
      BY <1>1, <2>1, <2>3, <3>1, <3>2 DEF FoundOut, At, Served, SameRoutes, Mine, TypeOK
  <2>4. CASE s # pass.svc
    BY <1>1, <1>3, <2>1, <2>2, <2>4, RestOfOther DEF Undisturbed, TypeOK
  <2> QED
    BY <1>1, <2>3, <2>4 DEF TypeOK
<1> QED
  BY <1>2, <1>3 DEF RestInv

\* A step of the pass ends it or stays with its UpdateService and the Route it found.
LEMMA PassStays ==
  ASSUME TypeOK, Pass
  PROVE  /\ pass.svc \in Services /\ pass'.svc \in {pass.svc, None}
         /\ At("update")' => pass'.name \in Mine(pass.svc)' /\ pass'.copy # None
<1> USE DEF At
<1>0. \A s \in Services : OldName[s] \in Mine(s)' /\ NewName[s] \in Mine(s)'
  BY DEF Mine
<1>1. CASE ReadOld
  <2>1. pass.svc \in Services /\ pass'.svc = pass.svc
    BY <1>1 DEF ReadOld, TypeOK
  <2>2. pass'.step = "update" => pass'.name = OldName[pass.svc] /\ pass'.copy # None
    BY <1>1 DEF ReadOld, TypeOK
  <2> QED
    BY <1>0, <2>1, <2>2
<1>2. CASE ReadNew
  <2>1. pass.svc \in Services /\ pass'.svc = pass.svc
    BY <1>2 DEF ReadNew, TypeOK
  <2>2. pass'.step = "update" => pass'.name = NewName[pass.svc] /\ pass'.copy # None
    BY <1>2 DEF ReadNew, TypeOK
  <2> QED
    BY <1>0, <2>1, <2>2
<1>5. CASE CreateRoute
  BY <1>5 DEF CreateRoute, TypeOK
<1>6. CASE UpdateRoute
  BY <1>6 DEF UpdateRoute, TypeOK
<1>3. CASE RouteFails
  <2>1. PICK u : pass' = [pass EXCEPT !.step = "status", !.uri = u, !.failed = TRUE]
    BY <1>3 DEF RouteFails
  <2> QED
    BY <1>3, <2>1 DEF RouteFails, TypeOK
<1>4. CASE WriteStatus \/ StatusFails
  BY <1>4 DEF WriteStatus, StatusFails, TypeOK, NoPass
<1> QED
  BY <1>1, <1>2, <1>3, <1>4, <1>5, <1>6 DEF Pass

\* A step of the pass, for the UpdateServices it is not for.
LEMMA RestPassOthers ==
  ASSUME TypeOK, RestInv, Pass, NEW s \in Services, s # pass.svc, Undisturbed(s)'
  PROVE  s \notin unaware' => Served(s, uri[s])'
<1>1. pass.svc \in Services /\ (At("update") => pass.name \in Names)
  BY PassStays DEF TypeOK
<1>2. s # pass'.svc
  BY PassStays, NamesAssumption
<1>3. s \in alive /\ s \notin due /\ uri'[s] = uri[s] /\ (s \notin unaware' => s \notin unaware)
  BY <1>1 DEF Pass, ReadOld, ReadNew, CreateRoute, UpdateRoute, RouteFails, WriteStatus,
     StatusFails, Change, At, Undisturbed, TypeOK
<1>4. SameRoutes(s)
  <2>1. CASE UNCHANGED <<routes, news>>
    BY <2>1 DEF SameRoutes
  <2>2. CASE ~UNCHANGED <<routes, news>>
    <3>1. PICK n \in Names : \E r : Change(n, r)
      BY <1>1, <2>2, NamesOf DEF Pass, ReadOld, ReadNew, CreateRoute, UpdateRoute, RouteFails,
         WriteStatus, StatusFails, At
    <3> QED
      BY <3>1, ChangeDisturbs
  <2> QED
    BY <2>1, <2>2
<1> QED
  BY <1>2, <1>3, <1>4, RestOfOther

\* An event that has been taken in leaves no Route of s unread.
LEMMA Read ==
  ASSUME CopiesAreCurrent, NEW s \in Services, Undisturbed(s), NEW n \in Mine(s)
  PROVE  seen[n] = routes[n] /\ news[n] = {}
BY MineAreNames DEF CopiesAreCurrent, Undisturbed

\* A step of the pass, for its own UpdateService.
LEMMA RestPassOwn ==
  ASSUME TypeOK, CopiesAreCurrent, RestInv, Pass, NEW s \in Services, s = pass.svc,
         Undisturbed(s)'
  PROVE  IF pass'.svc = s THEN ~pass'.failed => FoundOut(s)'
                          ELSE s \notin unaware' => Served(s, uri[s])'
<1>0. s # None
  BY NamesAssumption
<1>1. CASE ReadOld \/ ReadNew
  <2>1. UNCHANGED <<alive, uri, routes, seen, news, due>> /\ Undisturbed(s)
    BY <1>1 DEF ReadOld, ReadNew, Undisturbed
  <2>2. (At("new") /\ ~pass.failed) => routes[OldName[s]] = None
    BY <2>1 DEF RestInv, FoundOut
  <2>3. OldName[s] \in Mine(s) /\ NewName[s] \in Mine(s)
    BY DEF Mine
  <2>4. CASE ReadOld
    <3>1. seen[OldName[s]] = routes[OldName[s]] /\ news[OldName[s]] = {}
      BY <2>1, <2>3, Read
    <3>2. pass' = IF routes[OldName[s]] = None THEN [pass EXCEPT !.step = "new"]
                  ELSE [pass EXCEPT !.step = "update", !.name = OldName[s],
                                    !.copy = routes[OldName[s]], !.current = TRUE]
      BY <2>4, <3>1 DEF ReadOld
    <3>3. pass'.svc = s /\ routes' = routes
      BY <2>1, <3>2 DEF TypeOK
    <3>4. CASE routes[OldName[s]] = None
      BY <3>2, <3>3, <3>4 DEF FoundOut, At, TypeOK
    <3>5. CASE routes[OldName[s]] # None
      <4>1. Maintained(s)' = OldName[s]
        BY <3>3, <3>5 DEF Maintained
      <4>2. /\ pass'.step = "update" /\ pass'.name = OldName[s] /\ pass'.current
            /\ pass'.copy = routes[OldName[s]]
        BY <3>2, <3>5 DEF TypeOK
      <4> QED
        BY <3>3, <4>1, <4>2 DEF FoundOut, At
    <3> QED
      BY <3>4, <3>5
  <2>5. CASE ReadNew
    <3>1. seen[NewName[s]] = routes[NewName[s]] /\ news[NewName[s]] = {}
      BY <2>1, <2>3, Read
    <3>2. pass' = IF routes[NewName[s]] = None THEN [pass EXCEPT !.step = "create"]
                  ELSE [pass EXCEPT !.step = "update", !.name = NewName[s],
                                    !.copy = routes[NewName[s]], !.current = TRUE]
      BY <2>5, <3>1 DEF ReadNew
    <3>3. pass'.svc = s /\ pass'.failed = pass.failed /\ routes' = routes /\ At("new")
      BY <2>1, <2>5, <3>2 DEF ReadNew, TypeOK
    <3>4. SUFFICES ASSUME ~pass.failed PROVE FoundOut(s)'
      BY <3>3
    <3>5. routes[OldName[s]] = None
      BY <2>2, <3>3, <3>4
    <3>6. Maintained(s)' = NewName[s]
      BY <3>3, <3>5 DEF Maintained
    <3>7. CASE routes[NewName[s]] = None
      <4>1. pass'.step = "create"
        BY <3>2, <3>7 DEF TypeOK
      <4> QED
        BY <3>3, <3>5, <3>7, <4>1 DEF FoundOut, At
    <3>8. CASE routes[NewName[s]] # None
      <4>1. /\ pass'.step = "update" /\ pass'.name = NewName[s] /\ pass'.current
            /\ pass'.copy = routes[NewName[s]]
        BY <3>2, <3>8 DEF TypeOK
      <4> QED
        BY <3>3, <3>6, <4>1 DEF FoundOut, At
    <3> QED
      BY <3>7, <3>8
  <2> QED
    BY <1>1, <2>4, <2>5
<1>2. CASE CreateRoute
  <2>1. NewName[s] \in Names /\ NewName[s] \in Mine(s) /\ HostFits(NewName[s])
    BY <1>2, NamesOf, RejectedIsRefused DEF Mine, CreateRoute, Change, Undisturbed
  <2>2. CASE routes[NewName[s]] = None
    BY <1>2, <2>1, <2>2, ChangeDisturbs DEF CreateRoute
  <2>3. CASE routes[NewName[s]] # None
    <3>1. Undisturbed(s) /\ pass' = [pass EXCEPT !.step = "status"]
      BY <1>2, <2>3 DEF CreateRoute, Undisturbed
    <3>2. pass.failed
      BY <1>2, <2>3, <3>1 DEF RestInv, FoundOut, CreateRoute
    <3> QED
      BY <3>1, <3>2 DEF TypeOK
  <2> QED
    BY <2>2, <2>3
<1>3. CASE UpdateRoute
  <2>1. pass.name \in Names /\ pass.name \in Mine(s) /\ pass.copy \in Routes
    BY <1>3 DEF UpdateRoute, TypeOK, RestInv, At
  <2>2. pass' = [pass EXCEPT !.step = "status", !.uri = URIOf(pass.name, pass.copy)]
    BY <1>3 DEF UpdateRoute
  <2>3. CASE pass.current /\ Written(pass.copy) # pass.copy
    BY <1>3, <2>1, <2>3, ChangeDisturbs DEF UpdateRoute, Accepted
  <2>4. CASE ~(pass.current /\ Written(pass.copy) # pass.copy)
    <3>1. UNCHANGED <<alive, uri, routes, seen, news, due>> /\ Undisturbed(s)
      BY <1>3, <2>4 DEF UpdateRoute, Accepted, Undisturbed
    <3>2. SUFFICES ASSUME ~pass'.failed PROVE Served(s, pass.uri)'
      BY <2>2 DEF FoundOut, At, TypeOK
    <3>3. pass.current /\ pass.name = Maintained(s) /\ pass.copy = routes[pass.name]
      BY <1>3, <2>2, <3>1, <3>2
         DEF RestInv, FoundOut, CopiesAreCurrent, UpdateRoute, At, TypeOK
    <3>4. pass.copy.to = s /\ pass.copy # None
      <4>1. Written(pass.copy) = pass.copy
        BY <2>4, <3>3
      <4>2. pass.copy.to = s
        BY <2>1, <4>1 DEF Written, Routes
      <4> QED
        BY <1>3, <4>2 DEF UpdateRoute, RestInv
    <3>5. Maintained(s)' = Maintained(s) /\ pass'.uri = URIOf(pass.name, pass.copy)
      BY <2>2, <3>1 DEF Maintained, TypeOK
    <3> QED
      BY <2>2, <3>1, <3>3, <3>4, <3>5 DEF Served, TypeOK
  <2> QED
    BY <2>3, <2>4
<1>4. CASE RouteFails
  <2>1. pass'.svc = pass.svc /\ pass'.failed
    BY <1>4 DEF RouteFails, TypeOK
  <2> QED
    BY <2>1
<1>5. CASE WriteStatus
  <2>1. pass'.svc # s /\ UNCHANGED <<alive, routes, news>> /\ s \in alive /\ s \notin due'
    BY <1>0, <1>5 DEF WriteStatus, NoPass, Undisturbed
  <2>2. uri'[s] = pass.uri /\ (s \notin unaware' => ~pass.failed)
    BY <1>5, <2>1 DEF WriteStatus, StatusOf, TypeOK
  <2>3. Undisturbed(s)
    BY <1>5, <2>1 DEF WriteStatus, Undisturbed
  <2>4. ~pass.failed => Served(s, pass.uri)
    BY <1>5, <2>3 DEF WriteStatus, RestInv, FoundOut
  <2> QED
    BY <2>1, <2>2, <2>4 DEF Served, Maintained
<1>6. CASE StatusFails
  BY <1>0, <1>6 DEF StatusFails, NoPass
<1> QED
  BY <1>1, <1>2, <1>3, <1>4, <1>5, <1>6 DEF Pass

LEMMA RestPass == TypeOK /\ CopiesAreCurrent /\ RestInv /\ Pass => RestInv'
<1> SUFFICES ASSUME TypeOK, CopiesAreCurrent, RestInv, Pass PROVE RestInv'
  OBVIOUS
<1>1. ASSUME NEW s \in Services, Undisturbed(s)'
      PROVE  IF s = pass'.svc THEN ~pass'.failed => FoundOut(s)'
                              ELSE s \notin unaware' => Served(s, uri[s])'
  BY <1>1, PassStays, RestPassOthers, RestPassOwn, NamesAssumption
<1> QED
  BY <1>1, PassStays DEF RestInv

\* The informer hands an event to the owners it names and is recorded with the others.
LEMMA RestDeliver == ASSUME TypeOK, RestInv, NEW n \in Names, Deliver(n) PROVE RestInv'
<1>1. pass' = [pass EXCEPT !.failed = @ \/ pass.svc \in Unheard(n)]
      /\ UNCHANGED <<alive, uri, routes>>
  BY DEF Deliver
<1>2. At("update")' => pass'.name \in Mine(pass.svc)' /\ pass'.copy # None
  BY <1>1 DEF RestInv, At, Mine, TypeOK
<1>3. ASSUME NEW s \in Services, Undisturbed(s)'
      PROVE  IF s = pass'.svc THEN ~pass'.failed => FoundOut(s)'
                              ELSE s \notin unaware' => Served(s, uri[s])'
  <2>1. CASE n \in Mine(s)
    <3>1. s \in Unheard(n)
      BY <1>3, <2>1, NamesAssumption DEF Deliver, Enqueued, Undisturbed, Unheard, Mine
    <3>2. s \in unaware' /\ (s = pass.svc => pass'.failed)
      BY <1>1, <3>1 DEF Deliver, TypeOK
    <3> QED
      BY <1>1, <3>2 DEF TypeOK
  <2>2. CASE n \notin Mine(s)
    <3>1. SameRoutes(s) /\ s \notin Unheard(n)
      BY <1>1, <2>2, MineAreNames DEF Deliver, SameRoutes, TypeOK, Unheard, Mine
    <3>2. Undisturbed(s) /\ (s \notin unaware' => s \notin unaware)
      BY <1>1, <1>3, <3>1 DEF Deliver, Undisturbed, SameRoutes
    <3>3. CASE s = pass.svc
      <4>1. ~pass.failed => FoundOut(s)
        BY <3>2, <3>3 DEF RestInv
      <4> QED
        BY <1>1, <3>3, <4>1 DEF FoundOut, At, Served, Maintained, TypeOK
    <3>4. CASE s # pass.svc
      BY <1>1, <1>3, <3>1, <3>2, <3>4, RestOfOther DEF Undisturbed, TypeOK
    <3> QED
      BY <1>1, <3>3, <3>4 DEF TypeOK
  <2> QED
    BY <2>1, <2>2
<1> QED
  BY <1>2, <1>3 DEF RestInv

\* The queue, a deletion and a restart.
LEMMA RestQueue ==
  ASSUME TypeOK, RestInv,
         Restart \/ \E s \in Services : Start(s) \/ Requeue(s) \/ DeleteService(s)
  PROVE  RestInv'
<1>1. CASE Restart
  BY <1>1 DEF Restart, RestInv, Undisturbed, At, NoPass, Enqueued
<1>2. ASSUME NEW t \in Services, Requeue(t) \/ DeleteService(t) PROVE RestInv'
  <2>1. UNCHANGED <<uri, routes, news, pass, unaware>> /\ alive' \subseteq alive
        /\ due \subseteq due'
    BY <1>2 DEF Requeue, DeleteService
  <2>2. \A s \in Services : Undisturbed(s)' => Undisturbed(s)
    BY <2>1 DEF Undisturbed
  <2> QED
    BY <2>1, <2>2 DEF RestInv, FoundOut, At, Served, Maintained, Mine
<1>3. ASSUME NEW t \in Services, Start(t) PROVE RestInv'
  <2>1. UNCHANGED <<alive, uri, routes, news, unaware>> /\ due' = due \ {t} /\ pass = NoPass
    BY <1>3 DEF Start
  <2>2. pass' = IF t \notin alive THEN NoPass
                ELSE [NoPass EXCEPT !.svc = t, !.step = IF Rejected(t) THEN "status" ELSE "old"]
    BY <1>3 DEF Start
  <2>3. ~At("update")'
    BY <2>2 DEF At, NoPass
  <2>4. ASSUME NEW s \in Services, Undisturbed(s)'
        PROVE  IF s = pass'.svc THEN ~pass'.failed => FoundOut(s)'
                                ELSE s \notin unaware' => Served(s, uri[s])'
    <3>1. CASE s = t
      <4>1. t \in alive /\ ~Rejected(t)
        BY <2>1, <2>4, <3>1 DEF Undisturbed
      <4>2. pass'.svc = t /\ pass'.step = "old"
        BY <2>2, <4>1 DEF NoPass
      <4> QED
        BY <3>1, <4>2 DEF FoundOut, At
    <3>2. CASE s # t
      <4>1. pass'.svc # s /\ pass.svc # s
        BY <2>1, <2>2, <3>2, NamesAssumption DEF NoPass
      <4>2. Undisturbed(s)
        BY <2>1, <2>4, <3>2 DEF Undisturbed
      <4> QED
        BY <2>1, <2>4, <4>1, <4>2, RestOfOther DEF SameRoutes, Undisturbed
    <3> QED
      BY <3>1, <3>2
  <2> QED
    BY <2>3, <2>4 DEF RestInv
<1> QED
  BY <1>1, <1>2, <1>3

LEMMA RestStep == TypeOK /\ CopiesAreCurrent /\ RestInv /\ [Next]_vars => RestInv'
<1> SUFFICES ASSUME TypeOK, CopiesAreCurrent, RestInv, [Next]_vars PROVE RestInv'
  OBVIOUS
<1>1. CASE UNCHANGED vars
  BY <1>1 DEF vars, RestInv, Undisturbed, FoundOut, At, Served, Maintained, Mine
<1>2. ASSUME NEW n \in Names,
             Admit(n) \/ Collect(n) \/ Evict(n) \/ EditTls(n) \/ Drift(n) \/ CreateByHand(n)
      PROVE  RestInv'
  BY <1>2, RestByOthers DEF Admit, Collect, Evict, EditTls, Drift, CreateByHand
<1> QED
  BY <1>1, <1>2, RestPass, RestDeliver, RestQueue DEF Next, User

\* An UpdateService at rest has a Route that leads to its own policy engine and reports
\* the URI of that Route, for any UpdateServices, even ones that share a Route: whatever
\* happened to the Routes between the reads, the write and the status update of its
\* passes has brought it back to the queue.  Every UpdateService whose Route the API would
\* take is meant, whatever the lengths of the names and of the namespace.
THEOREM RestIsAlwaysReported == Spec => []RestIsReported
<1>1. Init => RestInv
  BY DEF Init, RestInv, Undisturbed, At, NoPass
<1>2. RestInv => RestIsReported
  <2> SUFFICES ASSUME RestInv, NEW s \in Services, AtRest(s) PROVE ServedAndReported(s)
    BY DEF RestIsReported
  <2>1. Undisturbed(s) /\ s # pass.svc /\ s \notin unaware
    BY RejectedIsRefused, MineAreNames, NamesAssumption
       DEF AtRest, Entitled, Undisturbed, Working
  <2> QED
    BY <2>1 DEF RestInv, Served, ServedAndReported
<1> QED
  BY <1>1, <1>2, RestStep, TypeCorrect, CurrentCopies, PTL DEF Spec

-----------------------------------------------------------------------------
(* The collision of names is what exposes the engine of another. *)

\* No name of a Route is one of two UpdateServices ...
DistinctAssumption == \A s, t \in Services : s # t => Mine(s) \cap Mine(t) = {}

\* ... no call fails, and nobody creates Routes by hand.
OwnRoutesAssumption == "fault" \notin Disturbances /\ "create" \notin Disturbances

\* Whoever goes by a Route owns it, hears of all its events and meets no failure.
Owned   == \A n \in Names : routes[n] # None =>
             routes[n].owner \in Services /\ n \in Mine(routes[n].owner)
Heard   == \A n \in Names : news[n] # {} => \E s \in Services : n \in Mine(s) /\ s \in news[n]
Aware   == unaware = {} /\ ~pass.failed
Unnamed == /\ \A s \in Services : Rejected(s) => uri[s] = None
           /\ pass.svc \in Services /\ Rejected(pass.svc) => At("status") /\ pass.uri = None
OwnInv  == Owned /\ Heard /\ Aware /\ Unnamed

\* A Route that is there before or after the change belongs to whom its name belongs to.
LEMMA ChangeHeard ==
  ASSUME TypeOK, Owned, Heard, NEW n \in Names, NEW r, Change(n, r),
         routes[n] # None \/ r # None,
         r # None => r.owner \in Services /\ n \in Mine(r.owner)
  PROVE  Owned' /\ Heard'
<1>1. /\ routes' = [routes EXCEPT ![n] = r]
      /\ news' = [news EXCEPT ![n] = @ \cup {OwnerOf(routes[n]), OwnerOf(r)}]
      /\ routes \in [Names -> Routes \cup {None}]
      /\ news \in [Names -> SUBSET (Services \cup {None})]
  BY DEF Change, TypeOK
<1>2. Owned'
  BY <1>1 DEF Owned, Mine
<1>3. \E s \in Services : n \in Mine(s) /\ s \in {OwnerOf(routes[n]), OwnerOf(r)}
  <2>1. CASE r # None
    BY <2>1 DEF OwnerOf
  <2>2. CASE routes[n] # None
    BY <2>2 DEF OwnerOf, Owned
  <2> QED
    BY <2>1, <2>2
<1>4. ASSUME NEW m \in Names, news'[m] # {}
      PROVE  \E s \in Services : m \in Mine(s) /\ s \in news'[m]
  <2>1. CASE m = n
    <3>1. news'[n] = news[n] \cup {OwnerOf(routes[n]), OwnerOf(r)}
      BY <1>1
    <3> QED
      BY <1>3, <2>1, <3>1
  <2>2. CASE m # n
    <3>1. news'[m] = news[m]
      BY <1>1, <2>2
    <3> QED
      BY <1>4, <3>1 DEF Heard
  <2> QED
    BY <2>1, <2>2
<1>5. Heard'
  BY <1>4 DEF Heard, Mine
<1> QED
  BY <1>2, <1>5

\* What others do to a Route leaves its owner.
LEMMA OwnByOthers ==
  ASSUME OwnRoutesAssumption, TypeOK, OwnInv, NEW n \in Names,
         Admit(n) \/ Collect(n) \/ Evict(n) \/ EditTls(n) \/ Drift(n) \/ CreateByHand(n)
  PROVE  OwnInv'
<1>1. ~CreateByHand(n)
  BY DEF OwnRoutesAssumption, CreateByHand, Disturb
<1>2. routes[n] # None
  BY <1>1 DEF Admit, Collect, Evict, EditTls, Drift
<1>3. routes[n] \in Routes
  BY <1>2 DEF TypeOK
<1>4. PICK r : ChangeByOthers(n, r) /\ (r # None => r.owner = routes[n].owner)
  <2>1. CASE Admit(n)
    <3>1. [routes[n] EXCEPT !.admitted = TRUE].owner = routes[n].owner
      BY <1>3 DEF Routes
    <3> QED
      BY <2>1, <3>1 DEF Admit
  <2>2. CASE Evict(n)
    <3>1. [routes[n] EXCEPT !.admitted = FALSE].owner = routes[n].owner
      BY <1>3 DEF Routes
    <3> QED
      BY <2>2, <3>1 DEF Evict
  <2>3. CASE EditTls(n)
    <3>1. PICK t : ChangeByOthers(n, [routes[n] EXCEPT !.tls = t])
      BY <2>3 DEF EditTls
    <3>2. [routes[n] EXCEPT !.tls = t].owner = routes[n].owner
      BY <1>3 DEF Routes
    <3> QED
      BY <3>1, <3>2
  <2>4. CASE Drift(n)
    <3>1. [routes[n] EXCEPT !.to = None].owner = routes[n].owner
      BY <1>3 DEF Routes
    <3> QED
      BY <2>4, <3>1 DEF Drift
  <2>5. CASE Collect(n)
    BY <2>5 DEF Collect
  <2> QED
    BY <1>1, <2>1, <2>2, <2>3, <2>4, <2>5
<1>5. Change(n, r) /\ pass' = [pass EXCEPT !.current = @ /\ pass.name # n]
  BY <1>4 DEF ChangeByOthers
<1>6. routes[n].owner \in Services /\ n \in Mine(routes[n].owner)
  BY <1>2 DEF OwnInv, Owned
<1>7. Owned' /\ Heard'
  BY <1>2, <1>4, <1>5, <1>6, ChangeHeard DEF OwnInv
<1>8. /\ pass'.svc = pass.svc /\ pass'.step = pass.step /\ pass'.uri = pass.uri
      /\ pass'.failed = pass.failed
  BY <1>5 DEF TypeOK
<1>9. UNCHANGED <<uri, unaware>>
  BY <1>5 DEF Change
<1> QED
  BY <1>7, <1>8, <1>9 DEF OwnInv, Aware, Unnamed, At

\* The steps of a pass: none fails, and a Route that it creates or writes is its own.
LEMMA OwnPass ==
  ASSUME OwnRoutesAssumption, TypeOK, CopiesAreCurrent, OwnInv, Pass
  PROVE  OwnInv'
<1>1. ~RouteFails /\ ~StatusFails
  BY DEF OwnRoutesAssumption, RouteFails, StatusFails, Disturb
<1>2. ~pass.failed /\ unaware = {}
  BY DEF OwnInv, Aware
<1>3. CASE ReadOld \/ ReadNew \/ CreateRoute \/ UpdateRoute
  <2>1. pass.svc \in Services /\ ~At("status")
    BY <1>3 DEF ReadOld, ReadNew, CreateRoute, UpdateRoute, At, TypeOK
  <2>2. ~Rejected(pass.svc)
    BY <2>1 DEF OwnInv, Unnamed
  <2>3. pass'.svc = pass.svc /\ ~pass'.failed
    <3>1. CASE ReadOld
      BY <1>2, <3>1 DEF ReadOld, TypeOK
    <3>2. CASE ReadNew
      BY <1>2, <3>2 DEF ReadNew, TypeOK
    <3>3. CASE CreateRoute
      BY <1>2, <3>3 DEF CreateRoute, TypeOK
    <3>4. CASE UpdateRoute
      BY <1>2, <3>4 DEF UpdateRoute, TypeOK
    <3> QED
      BY <1>3, <3>1, <3>2, <3>3, <3>4
  <2>4. UNCHANGED <<uri, unaware>>
    BY <1>3 DEF ReadOld, ReadNew, CreateRoute, UpdateRoute, Change
  <2>5. Owned' /\ Heard'
    <3>1. CASE UNCHANGED <<routes, news>>
      BY <3>1 DEF OwnInv, Owned, Heard
    <3>2. CASE CreateRoute /\ Change(NewName[pass.svc], NewRoute(pass.svc))
      <4>1. NewName[pass.svc] \in Names /\ NewName[pass.svc] \in Mine(pass.svc)
        BY <2>1, NamesOf DEF Mine
      <4>2. NewRoute(pass.svc).owner = pass.svc
        BY DEF NewRoute
      <4>3. NewRoute(pass.svc) # None
        <5>1. pass.svc \in Services \cup {None} /\ "edge" \in Tls /\ FALSE \in BOOLEAN
          BY <2>1 DEF Tls
        <5>2. NewRoute(pass.svc) \in Routes
          BY <5>1 DEF NewRoute, Routes
        <5> QED
          BY <5>2, RoutesAssumption
      <4> QED
        BY <2>1, <3>2, <4>1, <4>2, <4>3, ChangeHeard DEF OwnInv
    <3>3. CASE UpdateRoute /\ pass.current /\ Change(pass.name, Written(pass.copy))
      <4>1. pass.name \in Names /\ pass.copy = routes[pass.name]
        BY <3>3 DEF UpdateRoute, TypeOK, CopiesAreCurrent
      <4>2. pass.copy \in Routes /\ Written(pass.copy).owner = pass.copy.owner
        BY <3>3 DEF UpdateRoute, TypeOK, Written, Routes
      <4> QED
        BY <3>3, <4>1, <4>2, RoutesAssumption, ChangeHeard DEF OwnInv, Owned
    <3> QED
      BY <1>3, <3>1, <3>2, <3>3 DEF ReadOld, ReadNew, CreateRoute, UpdateRoute, Accepted
  <2> QED
    BY <1>2, <2>2, <2>3, <2>4, <2>5 DEF OwnInv, Aware, Unnamed
<1>4. CASE WriteStatus
  <2>1. pass.svc \in Services /\ unaware' \subseteq unaware /\ pass' = NoPass
        /\ UNCHANGED <<routes, news>>
    BY <1>2, <1>4 DEF WriteStatus, TypeOK, At
  <2>2. \A s \in Services : Rejected(s) => uri'[s] = None
    BY <1>4, <2>1 DEF WriteStatus, StatusOf, OwnInv, Unnamed, TypeOK
  <2>3. pass'.svc = None /\ ~pass'.failed
    BY <2>1 DEF NoPass
  <2>4. Owned' /\ Heard'
    BY <2>1 DEF OwnInv, Owned, Heard
  <2> QED
    BY <1>2, <2>1, <2>2, <2>3, <2>4, NamesAssumption DEF OwnInv, Aware, Unnamed
<1> QED
  BY <1>1, <1>3, <1>4 DEF Pass

\* The informer, the queue, a deletion and a restart.
LEMMA OwnOthers ==
  ASSUME DistinctAssumption, TypeOK, OwnInv,
         \/ Restart \/ \E n \in Names : Deliver(n)
         \/ \E s \in Services : Start(s) \/ Requeue(s) \/ DeleteService(s)
  PROVE  OwnInv'
<1>1. CASE Restart
  BY <1>1, NamesAssumption DEF Restart, OwnInv, Owned, Heard, Aware, Unnamed, NoPass
<1>2. ASSUME NEW n \in Names, Deliver(n) PROVE OwnInv'
  <2>1. PICK s \in Services : n \in Mine(s) /\ s \in news[n]
    BY <1>2 DEF Deliver, OwnInv, Heard
  <2>2. Unheard(n) = {}
    <3>1. SUFFICES ASSUME NEW t \in Services, n \in Mine(t), t \notin news[n] PROVE FALSE
      BY DEF Unheard, Mine
    <3> QED
      BY <2>1, <3>1 DEF DistinctAssumption
  <2>3. unaware' = unaware /\ pass' = [pass EXCEPT !.failed = @ \/ pass.svc \in {}]
    BY <1>2, <2>2 DEF Deliver
  <2>4. pass'.svc = pass.svc /\ pass'.step = pass.step /\ pass'.uri = pass.uri
        /\ (pass'.failed <=> pass.failed)
    BY <2>3 DEF TypeOK
  <2>5. UNCHANGED <<routes, uri>> /\ \A m \in Names : news'[m] \in {news[m], {}}
    BY <1>2 DEF Deliver, TypeOK
  <2>6. Heard'
    BY <2>5 DEF OwnInv, Heard, Mine
  <2> QED
    BY <2>3, <2>4, <2>5, <2>6 DEF OwnInv, Owned, Aware, Unnamed, At
<1>3. ASSUME NEW s \in Services, Start(s) PROVE OwnInv'
  <2>1. ~pass'.failed
    BY <1>3 DEF Start, NoPass
  <2>2. pass'.svc \in Services /\ Rejected(pass'.svc) => pass'.step = "status" /\ pass'.uri = None
    BY <1>3, NamesAssumption DEF Start, NoPass
  <2> QED
    BY <1>3, <2>1, <2>2 DEF Start, OwnInv, Owned, Heard, Aware, Unnamed, At
<1>4. ASSUME NEW s \in Services, Requeue(s) \/ DeleteService(s) PROVE OwnInv'
  BY <1>4 DEF Requeue, DeleteService, OwnInv, Owned, Heard, Aware, Unnamed, At
<1> QED
  BY <1>1, <1>2, <1>3, <1>4

\* Where the names of the Routes of two UpdateServices never meet, calls do not fail and
\* nobody makes Routes by hand, a URI in a status is of a Route that leads to the policy
\* engine of that UpdateService, once nothing is queued: what findExistingRoute finds is
\* then its own, so that the collision of names is the one cause of the finding.
THEOREM OwnNamesExposeOwnEngine ==
  ASSUME DistinctAssumption, OwnRoutesAssumption
  PROVE  Spec => []UriExposesOwnEngine
<1>1. Init => OwnInv
  <2> SUFFICES ASSUME Init PROVE OwnInv
    OBVIOUS
  <2>1. Owned
    BY DEF Init, InitRoutes, Owned, Mine
  <2> QED
    BY <2>1, NamesAssumption DEF Init, OwnInv, Heard, Aware, Unnamed, NoPass
<1>2. TypeOK /\ CopiesAreCurrent /\ OwnInv /\ [Next]_vars => OwnInv'
  <2> SUFFICES ASSUME TypeOK, CopiesAreCurrent, OwnInv, [Next]_vars PROVE OwnInv'
    OBVIOUS
  <2>1. CASE UNCHANGED vars
    BY <2>1 DEF vars, OwnInv, Owned, Heard, Aware, Unnamed, At
  <2> QED
    BY <2>1, OwnPass, OwnByOthers, OwnOthers DEF Next, User
<1>3. TypeOK /\ OwnInv /\ RestIsReported => UriExposesOwnEngine
  <2> SUFFICES ASSUME TypeOK, OwnInv, RestIsReported, pass = NoPass, due = {},
                      \A n \in Names : news[n] = {}, NEW s \in alive,
                      uri[s] # None
               PROVE  routes[uri[s].name] # None /\ routes[uri[s].name].to = s
    BY DEF UriExposesOwnEngine
  <2>1. s \in Services /\ AtRest(s)
    BY DEF TypeOK, AtRest, Entitled, Working, NoPass, OwnInv, Aware, Unnamed
  <2>2. ServedAndReported(s)
    BY <2>1 DEF RestIsReported
  <2>3. uri[s].name = Maintained(s)
    BY <2>2 DEF ServedAndReported, URIOf
  <2> QED
    BY <2>2, <2>3 DEF ServedAndReported
<1> QED
  BY <1>1, <1>2, <1>3, TypeCorrect, CurrentCopies, RestIsAlwaysReported, PTL DEF Spec

=============================================================================
