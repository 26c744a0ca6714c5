---------------------- MODULE OperandConfigurationProofs ----------------------
(***************************************************************************)
(* The NetworkPolicy of OperandConfiguration for every registry and every  *)
(* environment, and its checksum for every ConfigMap.  That what is        *)
(* written can be told from the checksum needs an induction over the keys: *)
(* it is one over a set of numbers, for which a least element is enough.   *)
(***************************************************************************)
EXTENDS OperandConfiguration, TLAPS, SequenceTheorems, WellFoundedInduction

\* The egress rule is a function of two variables that stay in their sets.
Inputs == env \in Environments /\ releases \in Registries

LEMMA InputsStay == Spec => []Inputs
<1>1. Init => Inputs
  BY DEF Init, Inputs
<1>2. Inputs /\ [Next]_vars => Inputs'
  BY DEF Inputs, Next, EditReleases, EditData, vars
<1> QED
  BY <1>1, <1>2, PTL DEF Spec

-----------------------------------------------------------------------------
(* Ports. *)

\* portFromURL returns a port or an error.
LEMMA PortOrError ==
  ASSUME NEW u
  PROVE  PortFromURL(u) \in Ports \cup {0}
<1>1. DefaultPort(u.scheme) \in Ports \cup {0}
  BY DEF DefaultPort, Ports
<1>2. CASE ~u.parses
  BY <1>2 DEF PortFromURL
<1>3. CASE u.parses /\ u.port = None
  BY <1>1, <1>3 DEF PortFromURL
<1>4. CASE u.parses /\ u.port # None
  BY <1>4 DEF PortFromURL
<1> QED
  BY <1>2, <1>3, <1>4

\* What a list of distinct ports is.
PortList(s) == /\ s \in Seq(Ports)
               /\ \A i, j \in DOMAIN s : s[i] = s[j] => i = j

\* The closure of egressPorts keeps such a list, and what it holds.
LEMMA AddKeeps ==
  ASSUME NEW s, PortList(s), NEW p \in Ports \cup {0}
  PROVE  /\ PortList(Add(s, p))
         /\ \A i \in DOMAIN s : i \in DOMAIN Add(s, p) /\ Add(s, p)[i] = s[i]
         /\ p # 0 => \E i \in DOMAIN Add(s, p) : Add(s, p)[i] = p
<1>1. CASE p = 0 \/ \E i \in DOMAIN s : s[i] = p
  BY <1>1 DEF Add
<1>2. CASE p # 0 /\ ~\E i \in DOMAIN s : s[i] = p
  <2>1. Add(s, p) = Append(s, p)
    BY <1>2 DEF Add
  <2>2. s \in Seq(Ports) /\ p \in Ports
    BY <1>2 DEF PortList
  <2>3. DOMAIN s = 1..Len(s) /\ DOMAIN Append(s, p) = 1..(Len(s) + 1)
    BY <2>2
  <2>4. /\ Append(s, p) \in Seq(Ports) /\ Len(s) \in Nat
        /\ Append(s, p)[Len(s) + 1] = p
        /\ \A i \in 1..Len(s) : Append(s, p)[i] = s[i]
    BY <2>2
  <2>5. \A i, j \in 1..(Len(s) + 1) : Append(s, p)[i] = Append(s, p)[j] => i = j
    BY <1>2, <2>3, <2>4 DEF PortList
  <2>6. PortList(Append(s, p))
    BY <2>3, <2>4, <2>5 DEF PortList
  <2> QED
    BY <2>1, <2>3, <2>4, <2>6
<1> QED
  BY <1>1, <1>2

LEMMA NoPorts == PortList(<<>>)
BY DEF PortList

\* The port of the registry, 443 for want of a proper one.
RegistryPort(reg) ==
  IF PortFromURL(RegistryUrl(reg)) = 0 THEN 443 ELSE PortFromURL(RegistryUrl(reg))

LEMMA RegistryPortsAre ==
  ASSUME NEW reg
  PROVE  /\ PortList(RegistryPorts(reg))
         /\ \E i \in DOMAIN RegistryPorts(reg) : RegistryPorts(reg)[i] = RegistryPort(reg)
<1>0. 443 \in Ports
  BY DEF Ports
<1>1. RegistryPort(reg) \in Ports
  BY <1>0, PortOrError DEF RegistryPort
<1>2. RegistryPorts(reg) = Add(<<>>, RegistryPort(reg))
  BY DEF RegistryPorts, RegistryPort
<1>3. 0 \notin Ports
  BY DEF Ports
<1>4. \A p \in Ports \cup {0} :
        /\ PortList(Add(<<>>, p))
        /\ p # 0 => \E i \in DOMAIN Add(<<>>, p) : Add(<<>>, p)[i] = p
  BY NoPorts, AddKeeps
<1> QED
  BY <1>1, <1>2, <1>3, <1>4

\* The ports of the proxies: a list, and that of HTTPS_PROXY is in it unless the
\* registry is exempt.
LEMMA ProxyPortsAre ==
  ASSUME NEW reg, NEW e
  PROVE  /\ PortList(ProxyPorts(reg, e))
         /\ NamespaceOf(reg) = None /\ ~NoProxy(reg, e.no) /\ VariablePort(e.https) # 0
              => \E i \in DOMAIN ProxyPorts(reg, e) :
                   ProxyPorts(reg, e)[i] = VariablePort(e.https)
<1> DEFINE http == VariablePort(e.http)
           https == VariablePort(e.https)
<1>1. http \in Ports \cup {0} /\ https \in Ports \cup {0}
  BY PortOrError DEF VariablePort
<1>2. PortList(Add(<<>>, http))
  BY <1>1, NoPorts, AddKeeps
<1>3. /\ PortList(Add(Add(<<>>, http), https))
      /\ https # 0 => \E i \in DOMAIN Add(Add(<<>>, http), https) :
                        Add(Add(<<>>, http), https)[i] = https
  BY <1>1, <1>2, AddKeeps
<1>4. CASE NamespaceOf(reg) # None \/ NoProxy(reg, e.no)
  BY <1>4, NoPorts DEF ProxyPorts
<1>5. CASE NamespaceOf(reg) = None /\ ~NoProxy(reg, e.no)
  BY <1>3, <1>5 DEF ProxyPorts
<1> QED
  BY <1>4, <1>5

LEMMA ListIsExplicit ==
  ASSUME NEW reg, NEW e
  PROVE  PortList(EgressPorts(reg, e)) /\ EgressPorts(reg, e) # <<>>
<1>1. RegistryPorts(reg) # <<>>
  BY RegistryPortsAre
<1> QED
  BY <1>1, RegistryPortsAre, ProxyPortsAre DEF EgressPorts

\* Whatever the spec and the environment say, the rule names at least one port, each a
\* proper one and once: it never becomes a rule for all ports (egressPorts).
THEOREM PortsAlwaysExplicit == Spec => []PortsAreExplicit
<1>1. PortsAreExplicit
  <2>1. Policy.ports = EgressPorts(releases, env)
    BY DEF Policy, NewNetworkPolicy
  <2>2. EgressPorts(releases, env) \in Seq(Ports)
    BY ListIsExplicit DEF PortList
  <2>3. \A i \in DOMAIN EgressPorts(releases, env) : EgressPorts(releases, env)[i] \in Ports
    BY <2>2
  <2> QED
    BY <2>1, <2>3, ListIsExplicit DEF PortsAreExplicit, PortList
<1> QED
  BY <1>1, PTL

-----------------------------------------------------------------------------
(* Reachability. *)

\* A part of a sequence.
LEMMA SubSeqIs ==
  ASSUME NEW S, NEW s \in Seq(S), NEW m \in 1..(Len(s) + 1), NEW n \in (m - 1)..Len(s)
  PROVE  /\ SubSeq(s, m, n) \in Seq(S) /\ Len(SubSeq(s, m, n)) = n - m + 1
         /\ \A i \in 1..(n - m + 1) : SubSeq(s, m, n)[i] = s[m + i - 1]
<1>1. m \in Int /\ n \in Int /\ \A i \in m..n : s[i] \in S
  OBVIOUS
<1>2. IF m <= n THEN n - m + 1 = n - m + 1 ELSE n - m + 1 = 0
  OBVIOUS
<1> QED
  BY <1>1, <1>2, SubSeqProperties

\* A suffix is what is left after some labels.
LEMMA SuffixIs ==
  ASSUME NEW s \in Seq(Labels), NEW t \in Seq(Labels)
  PROVE  IsSuffix(s, t) <=> Len(s) <= Len(t) /\ SubSeq(t, Len(t) - Len(s) + 1, Len(t)) = s
<1> DEFINE m == Len(s)
           n == Len(t)
<1>1. m \in Nat /\ n \in Nat /\ s = [i \in 1..m |-> s[i]]
  OBVIOUS
<1>2. /\ Reverse(s) \in Seq(Labels) /\ Len(Reverse(s)) = m
      /\ \A i \in 1..m : Reverse(s)[i] = s[m - i + 1]
  BY DEF Reverse
<1>3. /\ Reverse(t) \in Seq(Labels) /\ Len(Reverse(t)) = n
      /\ \A i \in 1..n : Reverse(t)[i] = t[n - i + 1]
  BY DEF Reverse
<1>4. SUFFICES ASSUME m <= n
               PROVE  SubSeq(Reverse(s), 1, m) = SubSeq(Reverse(t), 1, m)
                        <=> SubSeq(t, n - m + 1, n) = s
  BY <1>2, <1>3 DEF IsSuffix, IsPrefix
<1>5. SubSeq(Reverse(s), 1, m) = SubSeq(Reverse(t), 1, m)
        <=> \A i \in 1..m : s[m - i + 1] = t[n - i + 1]
  <2>1. SubSeq(Reverse(s), 1, m) = [i \in 1..m |-> Reverse(s)[i]]
    BY <1>1, <1>2
  <2>2. SubSeq(Reverse(t), 1, m) = [i \in 1..m |-> Reverse(t)[i]]
    BY <1>1, <1>3, <1>4
  <2>3. \A i \in 1..m : i \in 1..n
    BY <1>1, <1>4
  <2> QED
    BY <1>2, <1>3, <2>1, <2>2, <2>3
<1>6. SubSeq(t, n - m + 1, n) = s <=> \A i \in 1..m : t[n - m + i] = s[i]
  <2>1. SubSeq(t, n - m + 1, n) = [i \in 1..m |-> t[n - m + i]]
    BY <1>1, <1>4
  <2> QED
    BY <1>1, <2>1
<1>7. (\A i \in 1..m : s[m - i + 1] = t[n - i + 1]) <=> \A i \in 1..m : t[n - m + i] = s[i]
  <2>1. \A i \in 1..m : /\ m - i + 1 \in 1..m
                        /\ m - (m - i + 1) + 1 = i /\ n - (m - i + 1) + 1 = n - m + i
                        /\ n - m + (m - i + 1) = n - i + 1
    BY <1>1
  <2> QED
    BY <2>1
<1> QED
  BY <1>5, <1>6, <1>7

\* noProxy is right about every registry but an IPv6 address that NO_PROXY names.
LEMMA NoProxyIs ==
  ASSUME NEW reg \in Registries, NEW no \in NoProxies,
         reg.v6 /\ Exempt(reg, no) => \E e \in no : e.kind = "any"
  PROVE  NoProxy(reg, no) <=> Exempt(reg, no)
<1>1. reg.labels \in Seq(Labels)
  BY HostsAssumption
<1>2. ASSUME NEW e \in no, e.kind = "suffix"
      PROVE  IsStrictSuffix(e.labels, reg.labels) <=> Under(reg.labels, e.labels)
  <2> DEFINE t == reg.labels
             s == e.labels
  <2>1. s \in Seq(Labels) /\ s # <<>>
    BY <1>2, HostsAssumption
  <2>2. Len(s) \in Nat \ {0} /\ Len(t) \in Nat
    BY <1>1, <2>1
  <2>3. IsStrictSuffix(s, t) <=> Len(s) <= Len(t) /\ SubSeq(t, Len(t) - Len(s) + 1, Len(t)) = s /\ s # t
    BY <1>1, <2>1, SuffixIs DEF IsStrictSuffix
  <2>4. ASSUME NEW k \in 1..Len(t) - 1, SubSeq(t, k + 1, Len(t)) = s
        PROVE  Len(s) = Len(t) - k /\ s # t
    <3>1. k + 1 \in 1..(Len(t) + 1) /\ Len(t) \in (k + 1 - 1)..Len(t)
      BY <2>2
    <3>2. Len(SubSeq(t, k + 1, Len(t))) = Len(t) - (k + 1) + 1
      BY <1>1, <3>1, SubSeqIs
    <3>3. Len(s) = Len(t) - (k + 1) + 1
      BY <2>4, <3>2, Zenon
    <3> HIDE DEF s, t
    <3> QED
      BY <2>2, <3>3
  <2>5. SubSeq(t, 1, Len(t)) = t
    BY <1>1, SubSeqFull
  <2>6. ASSUME Len(s) <= Len(t), SubSeq(t, Len(t) - Len(s) + 1, Len(t)) = s, s # t
        PROVE  Under(t, s)
    <3>1. Len(s) # Len(t) /\ Len(s) <= Len(t)
      <4> SUFFICES ASSUME Len(s) = Len(t) PROVE FALSE
        BY <2>6
      <4>1. Len(t) - Len(s) + 1 = 1
        BY <2>2
      <4> QED
        BY <2>5, <2>6, <4>1
    <3> HIDE DEF s, t
    <3>2. Len(t) - Len(s) \in 1..Len(t) - 1
      BY <2>2, <3>1
    <3>3. SubSeq(t, (Len(t) - Len(s)) + 1, Len(t)) = s
      BY <2>6
    <3> HIDE DEF s, t
    <3> QED
      BY <3>2, <3>3 DEF Under
  <2>7. ASSUME Under(t, s)
        PROVE  Len(s) <= Len(t) /\ SubSeq(t, Len(t) - Len(s) + 1, Len(t)) = s /\ s # t
    <3>1. PICK k \in 1..Len(t) - 1 : SubSeq(t, k + 1, Len(t)) = s
      BY <2>7 DEF Under
    <3>2. Len(s) = Len(t) - k /\ s # t
      BY <2>4, <3>1
    <3> QED
      BY <2>2, <3>1, <3>2
  <2> QED
    BY <2>3, <2>6, <2>7
<1>3. CASE ~reg.v6
  BY <1>2, <1>3 DEF NoProxy, Bypasses, Exempt
<1>4. CASE reg.v6
  BY <1>4 DEF NoProxy, Bypasses, Exempt
<1> QED
  BY <1>3, <1>4

\* The names of services end in one of these.
LEMMA ServiceDomains ==
  /\ <<"svc">> \in Seq(Labels) /\ Len(<<"svc">>) = 1
  /\ <<"svc", "cluster", "local">> \in Seq(Labels) /\ Len(<<"svc", "cluster", "local">>) = 3
<1>1. "svc" \in Labels /\ "cluster" \in Labels /\ "local" \in Labels
  BY HostsAssumption
<1>2. <<"svc">> \in Seq(Labels) /\ Len(<<"svc">>) = 1
  BY <1>1
<1>3. <<"svc", "cluster", "local">> \in Seq(Labels) /\ Len(<<"svc", "cluster", "local">>) = 3
  BY <1>1
<1> QED
  BY <1>2, <1>3

\* The namespace that is found is the one the service is in.
LEMMA NamespaceIs ==
  ASSUME NEW reg \in Registries, NamespaceOf(reg) # None
  PROVE  \E n \in DOMAIN reg.labels :
           NamespaceOf(reg) = reg.labels[n] /\ ServiceIn(reg.labels, reg.labels[n])
<1> DEFINE t == reg.labels
           parts == ServicePart(t)
<1>1. t \in Seq(Labels) /\ Len(t) \in Nat
  BY HostsAssumption
<1>2. Len(parts) >= 2 /\ NamespaceOf(reg) = parts[Len(parts)]
  <2>1. ServicePart(t) \in Seq(Labels)
    <3>2. IsSuffix(<<"svc", "cluster", "local">>, t) => Len(t) >= 3
      BY <1>1, ServiceDomains, SuffixIs
    <3>3. IsSuffix(<<"svc">>, t) => Len(t) >= 1
      BY <1>1, ServiceDomains, SuffixIs
    <3>4. ASSUME NEW k \in 0..Len(t) PROVE SubSeq(t, 1, Len(t) - k) \in Seq(Labels)
      <4>1. Len(t) - k \in (1 - 1)..Len(t) /\ 1 \in 1..(Len(t) + 1)
        BY <1>1
      <4> QED
        BY <1>1, <4>1, SubSeqIs
    <3>5. (Len(t) >= 3 => 3 \in 0..Len(t)) /\ (Len(t) >= 1 => 1 \in 0..Len(t))
      BY <1>1
    <3>6. <<>> \in Seq(Labels)
      OBVIOUS
    <3> QED
      BY <3>2, <3>3, <3>4, <3>5, <3>6 DEF ServicePart
  <2> QED
    BY <2>1 DEF NamespaceOf
<1>3. ASSUME NEW d \in Seq(Labels), d \in {<<"svc">>, <<"svc", "cluster", "local">>},
             IsSuffix(d, t), parts = SubSeq(t, 1, Len(t) - Len(d))
      PROVE  \E n \in DOMAIN t : NamespaceOf(reg) = t[n] /\ ServiceIn(t, t[n])
  <2>1. Len(d) \in Nat /\ Len(d) <= Len(t) /\ SubSeq(t, Len(t) - Len(d) + 1, Len(t)) = d
    BY <1>1, <1>3, SuffixIs
  <2> DEFINE n == Len(t) - Len(d)
  <2>2. Len(parts) = n /\ n >= 2 /\ n \in 1..Len(t) /\ parts[n] = t[n]
    <3>1. 1 \in 1..(Len(t) + 1) /\ n \in (1 - 1)..Len(t)
      BY <1>1, <2>1
    <3>2. Len(parts) = n - 1 + 1 /\ \A i \in 1..(n - 1 + 1) : parts[i] = t[1 + i - 1]
      BY <1>1, <1>3, <3>1, SubSeqIs
    <3> HIDE DEF parts
    <3> QED
      BY <1>1, <1>2, <2>1, <3>2
  <2>3. n \in 2..Len(t)
    BY <1>1, <2>2
  <2>4. SubSeq(t, n + 1, Len(t)) = d
    BY <2>1
  <2>5. n \in DOMAIN t /\ NamespaceOf(reg) = t[n]
    BY <1>1, <1>2, <2>2
  <2>6. ServiceIn(t, t[n])
    BY <1>3, <2>3, <2>4 DEF ServiceIn
  <2> QED
    BY <2>5, <2>6
<1>4. CASE IsSuffix(<<"svc", "cluster", "local">>, t)
  <2>1. parts = SubSeq(t, 1, Len(t) - 3)
    BY <1>4 DEF ServicePart
  <2> HIDE DEF parts
  <2> QED
    BY <1>3, <1>4, <2>1, ServiceDomains
<1>5. CASE ~IsSuffix(<<"svc", "cluster", "local">>, t) /\ IsSuffix(<<"svc">>, t)
  <2>1. parts = SubSeq(t, 1, Len(t) - 1)
    BY <1>5 DEF ServicePart
  <2> HIDE DEF parts
  <2> QED
    BY <1>3, <1>5, <2>1, ServiceDomains
<1>6. CASE ~IsSuffix(<<"svc", "cluster", "local">>, t) /\ ~IsSuffix(<<"svc">>, t)
  <2>1. parts = <<>>
    BY <1>6 DEF ServicePart
  <2> QED
    BY <1>2, <2>1
<1> QED
  BY <1>4, <1>5, <1>6

\* The rule lets the graph-builder through to its registry or its proxy, for every
\* spec and environment that can work (egressPorts, newNetworkPolicy).
THEOREM EgressAlwaysReaches == Spec => []EgressReachesRegistry
<1>1. Inputs => EgressReachesRegistry
  <2> SUFFICES ASSUME Inputs, Workable PROVE Admits(Policy, Contact)
    BY DEF EgressReachesRegistry
  <2>1. Policy = [ports |-> EgressPorts(releases, env), namespace |-> NamespaceOf(releases)]
    BY DEF Policy, NewNetworkPolicy
  <2>2. NoProxy(releases, env.no) <=> Exempt(releases, env.no)
    BY NoProxyIs DEF Inputs, Environments, Workable
  <2>3. VariablePort(None) = 0
    BY DEF VariablePort
  <2>4. CASE Direct
    <3>1. NamespaceOf(releases) = None \/ ServiceIn(Contact.host, NamespaceOf(releases))
      BY <2>4, NamespaceIs DEF Inputs, Contact
    <3>2. Contact.port = RegistryPort(releases)
      <4>1. /\ Contact.port = IF releases.port = None THEN 443 ELSE releases.port
            /\ releases.parses /\ releases.port \in Ports \cup {None}
        BY <2>4 DEF Contact, Workable
      <4>2. /\ RegistryUrl(releases).parses = releases.parses
            /\ RegistryUrl(releases).port = releases.port
            /\ DefaultPort(RegistryUrl(releases).scheme) = 443
        BY DEF RegistryUrl, DefaultPort
      <4>3. PortFromURL(RegistryUrl(releases)) = Contact.port
        BY <4>1, <4>2 DEF PortFromURL
      <4>4. 443 \in Ports /\ \A p \in Ports : p # 0
        BY DEF Ports
      <4>5. Contact.port \in Ports
        BY <4>1, <4>4
      <4> QED
        BY <4>3, <4>4, <4>5 DEF RegistryPort
    <3>3. ProxyPorts(releases, env) = <<>>
      <4>1. CASE NamespaceOf(releases) # None \/ NoProxy(releases, env.no)
        BY <4>1 DEF ProxyPorts
      <4>2. CASE env.https = None
        <5>1. env.http = None
          BY <4>2 DEF Workable
        <5>2. Add(<<>>, 0) = <<>>
          BY DEF Add
        <5> QED
          BY <4>2, <5>1, <5>2, <2>3 DEF ProxyPorts
      <4> QED
        BY <2>2, <2>4, <4>1, <4>2 DEF Direct
    <3>4. EgressPorts(releases, env) = RegistryPorts(releases)
      BY <3>3 DEF EgressPorts
    <3> QED
      BY <2>1, <3>1, <3>2, <3>4, RegistryPortsAre DEF Admits
  <2>5. CASE ~Direct
    <3>1. env.https # None /\ ~NoProxy(releases, env.no)
      BY <2>2, <2>5 DEF Direct
    <3>2. NamespaceOf(releases) = None
      BY <2>5, NamespaceIs DEF Inputs, Workable
    <3>3. Contact.port = VariablePort(env.https) /\ VariablePort(env.https) # 0
      <4>1. Contact.port = IF env.https.port # None THEN env.https.port
                           ELSE IF env.https.scheme = "https" THEN 443 ELSE 80
        BY <2>5 DEF Contact
      <4>2. VariablePort(env.https) = PortFromURL(env.https)
        BY <3>1 DEF VariablePort
      <4>3. /\ env.https.parses
            /\ \/ env.https.port \in Ports
               \/ env.https.port = None /\ env.https.scheme \in {"http", "https"}
        BY <3>1 DEF Workable
      <4> QED
        <5>1. CASE env.https.port \in Ports
          <6>1. env.https.port # None => PortFromURL(env.https) = env.https.port
            BY <4>3, <5>1 DEF PortFromURL
          <6>2. env.https.port = None => FALSE
            BY <5>1, NoneAssumption
          <6>3. Contact.port \in Ports /\ VariablePort(env.https) = Contact.port
            BY <4>1, <4>2, <5>1, <6>1, <6>2
          <6>4. 0 \notin Ports
            BY DEF Ports
          <6> QED
            BY <6>3, <6>4
        <5>2. CASE env.https.port = None /\ env.https.scheme \in {"http", "https"}
          BY <4>1, <4>2, <4>3, <5>2 DEF PortFromURL, DefaultPort
        <5> QED
          BY <4>3, <5>1, <5>2
    <3>4. \E i \in DOMAIN ProxyPorts(releases, env) :
            ProxyPorts(releases, env)[i] = VariablePort(env.https)
      BY <3>1, <3>2, <3>3, ProxyPortsAre
    <3>5. EgressPorts(releases, env) = ProxyPorts(releases, env)
      BY <3>4 DEF EgressPorts
    <3> QED
      BY <2>1, <3>2, <3>3, <3>4, <3>5 DEF Admits
  <2> QED
    BY <2>4, <2>5
<1> QED
  BY <1>1, InputsStay, PTL

-----------------------------------------------------------------------------
(* Writes. *)

\* What an encoder is in: groups of three bytes or separators, and up to two bytes.
Encoders == [out : Seq(Seq(Bytes)), rest : {r \in Seq(Bytes) : Len(r) <= 2}]

\* The bytes an encoder has been given, a separator counted as three.
Size(enc) == 3 * Len(enc.out) + Len(enc.rest)

\* The parts of an encoder, ...
LEMMA EncoderIs ==
  ASSUME NEW e \in Encoders
  PROVE  /\ e.out \in Seq(Seq(Bytes)) /\ Len(e.out) \in Nat
         /\ e.rest \in Seq(Bytes) /\ Len(e.rest) \in 0..2
<1>1. e.out \in Seq(Seq(Bytes)) /\ e.rest \in Seq(Bytes) /\ Len(e.rest) <= 2
  BY DEF Encoders
<1>2. Len(e.out) \in Nat /\ Len(e.rest) \in Nat
  BY <1>1
<1>3. \A n \in Nat : n <= 2 => n \in 0..2
  OBVIOUS
<1>4. Len(e.rest) \in 0..2
  BY <1>1, <1>2, <1>3
<1> QED
  BY <1>1, <1>2, <1>4

\* ... which make it up, ...
LEMMA SameEncoder ==
  ASSUME NEW e \in Encoders, NEW f \in Encoders, e.out = f.out, e.rest = f.rest
  PROVE  e = f
BY DEF Encoders

\* ... and can be replaced.
LEMMA EncoderWith ==
  ASSUME NEW e \in Encoders, NEW o \in Seq(Seq(Bytes))
  PROVE  /\ [e EXCEPT !.out = o] \in Encoders
         /\ [e EXCEPT !.out = o].out = o /\ [e EXCEPT !.out = o].rest = e.rest
BY DEF Encoders

\* What a write has to deal with, and the groups it passes on.
All(enc, bytes) == enc.rest \o bytes
Groups(enc, bytes) == Len(All(enc, bytes)) \div 3

\* They are as many as fit.
LEMMA GroupsAre ==
  ASSUME NEW e \in Encoders, NEW b \in Seq(Bytes)
  PROVE  /\ All(e, b) \in Seq(Bytes) /\ Len(All(e, b)) = Len(e.rest) + Len(b)
         /\ Groups(e, b) \in Nat
         /\ 3 * Groups(e, b) <= Len(All(e, b)) /\ Len(All(e, b)) <= 3 * Groups(e, b) + 2
<1>1. e.rest \in Seq(Bytes)
  BY DEF Encoders
<1>2. All(e, b) \in Seq(Bytes) /\ Len(All(e, b)) = Len(e.rest) + Len(b)
  BY <1>1 DEF All
<1>3. Len(All(e, b)) \in Nat
  BY <1>2
<1>4. \A n \in Nat : n \div 3 \in Nat /\ 3 * (n \div 3) <= n /\ n <= 3 * (n \div 3) + 2
  OBVIOUS
<1> QED
  BY <1>2, <1>3, <1>4 DEF Groups

\* What a write makes of an encoder: the groups after those there were, and the rest.
LEMMA WriteIs ==
  ASSUME NEW e \in Encoders, NEW b \in Seq(Bytes)
  PROVE  /\ Write(e, b) \in Encoders
         /\ Len(Write(e, b).out) = Len(e.out) + Groups(e, b)
         /\ Len(Write(e, b).rest) = Len(All(e, b)) - 3 * Groups(e, b)
         /\ \A i \in 1..Len(e.out) : Write(e, b).out[i] = e.out[i]
         /\ \A i \in 1..Groups(e, b) :
              Write(e, b).out[Len(e.out) + i] = SubSeq(All(e, b), 3 * i - 2, 3 * i)
         /\ Write(e, b).rest = SubSeq(All(e, b), 3 * Groups(e, b) + 1, Len(All(e, b)))
<1> DEFINE all == All(e, b)
           n   == Groups(e, b)
           w   == Write(e, b)
           group(i) == SubSeq(all, 3 * i - 2, 3 * i)
<1>1. /\ all \in Seq(Bytes) /\ n \in Nat /\ Len(all) \in Nat
      /\ 3 * n <= Len(all) /\ Len(all) <= 3 * n + 2
  BY GroupsAre
<1>2. w = [out  |-> e.out \o [i \in 1..n |-> group(i)],
           rest |-> SubSeq(all, 3 * n + 1, Len(all))]
  BY DEF Write, All, Groups
<1> HIDE DEF all, n, w
<1>3. \A i \in 1..n : group(i) \in Seq(Bytes)
  <2> SUFFICES ASSUME NEW i \in 1..n PROVE group(i) \in Seq(Bytes)
    OBVIOUS
  <2>1. 3 * i - 2 \in 1..(Len(all) + 1) /\ 3 * i \in (3 * i - 2 - 1)..Len(all)
    BY <1>1
  <2> QED
    BY <1>1, <2>1, SubSeqIs
<1>4. /\ SubSeq(all, 3 * n + 1, Len(all)) \in Seq(Bytes)
      /\ Len(SubSeq(all, 3 * n + 1, Len(all))) = Len(all) - 3 * n
  <2> DEFINE m == 3 * n + 1
  <2>1. /\ m \in 1..(Len(all) + 1) /\ Len(all) \in (m - 1)..Len(all)
        /\ Len(all) - m + 1 = Len(all) - 3 * n
    BY <1>1
  <2> HIDE DEF m
  <2>2. SubSeq(all, m, Len(all)) \in Seq(Bytes)
        /\ Len(SubSeq(all, m, Len(all))) = Len(all) - m + 1
    BY <1>1, <2>1, SubSeqIs
  <2> QED
    BY <2>1, <2>2 DEF m
<1> HIDE DEF group
<1> DEFINE groups == [i \in 1..n |-> group(i)]
<1>5. groups \in Seq(Seq(Bytes)) /\ Len(groups) = n /\ \A i \in 1..n : groups[i] = group(i)
  BY <1>1, <1>3
<1>6. e.out \in Seq(Seq(Bytes)) /\ Len(e.out) \in Nat
  BY DEF Encoders
<1> HIDE DEF groups
<1>7. /\ e.out \o groups \in Seq(Seq(Bytes)) /\ Len(e.out \o groups) = Len(e.out) + n
      /\ \A i \in 1..Len(e.out) : (e.out \o groups)[i] = e.out[i]
      /\ \A i \in 1..n : (e.out \o groups)[Len(e.out) + i] = groups[i]
  <2>1. /\ e.out \o groups \in Seq(Seq(Bytes)) /\ Len(e.out \o groups) = Len(e.out) + n
        /\ \A i \in 1..(Len(e.out) + n) :
             (e.out \o groups)[i] = IF i <= Len(e.out) THEN e.out[i] ELSE groups[i - Len(e.out)]
    BY <1>5, <1>6, ConcatProperties
  <2>2. \A i \in 1..Len(e.out) : i \in 1..(Len(e.out) + n) /\ i <= Len(e.out)
    BY <1>1, <1>6
  <2>3. \A i \in 1..n : /\ Len(e.out) + i \in 1..(Len(e.out) + n) /\ ~(Len(e.out) + i <= Len(e.out))
                        /\ Len(e.out) + i - Len(e.out) = i
    BY <1>1, <1>6
  <2>4. \A i \in 1..Len(e.out) : (e.out \o groups)[i] = e.out[i]
    BY <2>1, <2>2
  <2>5. \A i \in 1..n : (e.out \o groups)[Len(e.out) + i] = groups[i]
    BY <2>1, <2>3
  <2> QED
    BY <2>1, <2>4, <2>5
<1>8. w.out = e.out \o groups /\ w.rest = SubSeq(all, 3 * n + 1, Len(all))
  BY <1>2 DEF groups
<1>9. w = [out |-> w.out, rest |-> w.rest]
  BY <1>2
<1>10. w \in Encoders
  <2>1. w.rest \in Seq(Bytes) /\ Len(w.rest) = Len(all) - 3 * n
    BY <1>4, <1>8
  <2>2. Len(all) - 3 * n <= 2
    BY <1>1
  <2>3. w.rest \in {r \in Seq(Bytes) : Len(r) <= 2}
    BY <2>1, <2>2
  <2> QED
    BY <1>7, <1>8, <1>9, <2>3 DEF Encoders
<1>11. /\ Len(w.out) = Len(e.out) + n /\ Len(w.rest) = Len(all) - 3 * n
       /\ \A i \in 1..Len(e.out) : w.out[i] = e.out[i]
       /\ \A i \in 1..n : w.out[Len(e.out) + i] = group(i)
  BY <1>4, <1>5, <1>7, <1>8
<1> QED
  BY <1>8, <1>10, <1>11 DEF all, n, w, group

\* A write adds its length to the size.
LEMMA WriteSize ==
  ASSUME NEW e \in Encoders, NEW b \in Seq(Bytes)
  PROVE  Size(e) \in Nat /\ Size(Write(e, b)) = Size(e) + Len(b)
<1> DEFINE o == Len(e.out)
           r == Len(e.rest)
           a == Len(All(e, b))
           n == Groups(e, b)
           p == Len(Write(e, b).out)
           q == Len(Write(e, b).rest)
           l == Len(b)
<1>1. o \in Nat /\ r \in Nat /\ l \in Nat
  BY DEF Encoders
<1>2. a = r + l /\ n \in Nat
  BY GroupsAre
<1>3. p = o + n /\ q = a - 3 * n
  BY WriteIs
<1>4. Size(e) = 3 * o + r /\ Size(Write(e, b)) = 3 * p + q
  BY DEF Size
<1> HIDE DEF o, r, a, n, p, q, l
<1>5. o \in Nat /\ r \in Nat /\ l \in Nat /\ n \in Nat
  BY <1>1, <1>2
<1>6. a \in Int /\ p \in Int /\ q \in Int
  BY ONLY <1>2, <1>3, <1>5
<1>7. 3 * p + q = 3 * o + r + l /\ 3 * o + r \in Nat
  BY ONLY <1>2, <1>3, <1>5, <1>6
<1> QED
  BY <1>4, <1>7 DEF l

\* Encoders of equal size hold equally many groups, and equally many bytes besides.
LEMMA SizeTells ==
  ASSUME NEW e \in Encoders, NEW f \in Encoders, Size(e) = Size(f)
  PROVE  Len(e.out) = Len(f.out) /\ Len(e.rest) = Len(f.rest)
<1> DEFINE o == Len(e.out)
           r == Len(e.rest)
           p == Len(f.out)
           q == Len(f.rest)
<1>1. o \in Nat /\ r \in 0..2
  BY EncoderIs
<1>2. p \in Nat /\ q \in 0..2
  BY EncoderIs
<1>3. 3 * o + r = 3 * p + q
  BY DEF Size
<1> HIDE DEF o, r, p, q
<1>4. o = p /\ r = q
  BY <1>1, <1>2, <1>3
<1> QED
  BY <1>4 DEF o, r, p, q

\* The byte j of a sequence is in its group (j + 2) \div 3, or past the last group n.
LEMMA GroupsTell ==
  ASSUME NEW s \in Seq(Bytes), NEW t \in Seq(Bytes), Len(s) = Len(t),
         NEW n \in Nat, 3 * n <= Len(s),
         SubSeq(s, 3 * n + 1, Len(s)) = SubSeq(t, 3 * n + 1, Len(s)),
         \A i \in 1..n : SubSeq(s, 3 * i - 2, 3 * i) = SubSeq(t, 3 * i - 2, 3 * i)
  PROVE  s = t
<1>1. Len(s) \in Nat
  OBVIOUS
<1>2. ASSUME NEW m \in Nat, NEW k \in Nat, NEW i \in Nat, 1 <= m, m <= k + 1, k <= Len(s),
             1 <= i, m + i - 1 <= k, SubSeq(s, m, k) = SubSeq(t, m, k)
      PROVE  s[m + i - 1] = t[m + i - 1]
  <2>1. m \in 1..(Len(s) + 1) /\ k \in (m - 1)..Len(s) /\ i \in 1..(k - m + 1)
    BY <1>1, <1>2
  <2>2. SubSeq(s, m, k)[i] = s[m + i - 1]
    BY <2>1, SubSeqIs
  <2>3. SubSeq(t, m, k)[i] = t[m + i - 1]
    BY <2>1, SubSeqIs
  <2> QED
    BY <1>2, <2>2, <2>3
<1>3. ASSUME NEW j \in 1..Len(s) PROVE s[j] = t[j]
  <2>1. CASE j > 3 * n
    <3> DEFINE m == 3 * n + 1
               i == j - 3 * n
               k == Len(s)
    <3>1. /\ m \in Nat /\ i \in Nat /\ k \in Nat /\ 1 <= m /\ m <= k + 1 /\ k <= Len(s)
          /\ 1 <= i /\ m + i - 1 <= k /\ m + i - 1 = j
      BY <1>1, <2>1
    <3>2. SubSeq(s, m, k) = SubSeq(t, m, k)
      OBVIOUS
    <3> HIDE DEF m, i, k
    <3>3. s[m + i - 1] = t[m + i - 1]
      BY <1>2, <3>1, <3>2
    <3> QED
      BY <3>1, <3>3
  <2>2. CASE j <= 3 * n
    <3> DEFINE g == (j + 2) \div 3
    <3>1. j \in Nat /\ g \in Nat /\ 3 * g <= j + 2 /\ j + 2 <= 3 * g + 2
      <4>1. \A x \in Nat : x \div 3 \in Nat /\ 3 * (x \div 3) <= x /\ x <= 3 * (x \div 3) + 2
        OBVIOUS
      <4>2. j \in Nat /\ j + 2 \in Nat
        OBVIOUS
      <4> QED
        BY <4>1, <4>2
    <3> HIDE DEF g
    <3> DEFINE m == 3 * g - 2
               i == j - m + 1
               k == 3 * g
    <3>2. /\ m \in Nat /\ i \in Nat /\ k \in Nat /\ 1 <= m /\ m <= k + 1 /\ k <= Len(s)
          /\ 1 <= i /\ m + i - 1 <= k /\ m + i - 1 = j /\ g \in 1..n
      BY <1>1, <2>2, <3>1
    <3>3. SubSeq(s, m, k) = SubSeq(t, m, k)
      BY <3>2
    <3> HIDE DEF m, i, k
    <3>4. s[m + i - 1] = t[m + i - 1]
      BY <1>2, <3>2, <3>3
    <3> QED
      BY <3>2, <3>4
  <2> QED
    BY <1>1, <2>1, <2>2
<1> QED
  BY <1>3, SeqEqual

\* Of two writes of equal length, the outcome tells what the encoder was in and what was
\* written.
LEMMA WriteTells ==
  ASSUME NEW e \in Encoders, NEW b \in Seq(Bytes), NEW f \in Encoders, NEW c \in Seq(Bytes),
         Len(b) = Len(c), Write(e, b) = Write(f, c)
  PROVE  e = f /\ b = c
<1>1. e.out \in Seq(Seq(Bytes)) /\ e.rest \in Seq(Bytes)
  BY EncoderIs
<1>2. f.out \in Seq(Seq(Bytes)) /\ f.rest \in Seq(Bytes)
  BY EncoderIs
<1>3. Len(e.out) = Len(f.out) /\ Len(e.rest) = Len(f.rest)
  <2>1. Size(e) \in Nat /\ Size(Write(e, b)) = Size(e) + Len(b)
    BY WriteSize
  <2>2. Size(f) \in Nat /\ Size(Write(f, c)) = Size(f) + Len(c)
    BY WriteSize
  <2>3. Len(b) \in Nat
    OBVIOUS
  <2>4. Size(e) = Size(f)
    BY <2>1, <2>2, <2>3
  <2> QED
    BY <2>4, SizeTells
<1> DEFINE s == All(e, b)
           t == All(f, c)
           n == Groups(e, b)
<1>4. s \in Seq(Bytes) /\ Len(s) = Len(e.rest) + Len(b) /\ n \in Nat /\ 3 * n <= Len(s)
  BY GroupsAre
<1>5. t \in Seq(Bytes) /\ Len(t) = Len(f.rest) + Len(c)
  BY GroupsAre
<1>6. Len(s) = Len(t)
  BY <1>3, <1>4, <1>5
<1>7. Groups(f, c) = n
  BY <1>6 DEF Groups
<1>8. /\ \A i \in 1..Len(e.out) : Write(e, b).out[i] = e.out[i]
      /\ \A i \in 1..n : Write(e, b).out[Len(e.out) + i] = SubSeq(s, 3 * i - 2, 3 * i)
      /\ Write(e, b).rest = SubSeq(s, 3 * n + 1, Len(s))
  BY WriteIs
<1>9. /\ \A i \in 1..Len(f.out) : Write(f, c).out[i] = f.out[i]
      /\ \A i \in 1..n : Write(f, c).out[Len(f.out) + i] = SubSeq(t, 3 * i - 2, 3 * i)
      /\ Write(f, c).rest = SubSeq(t, 3 * n + 1, Len(t))
  <2>1. /\ \A i \in 1..Len(f.out) : Write(f, c).out[i] = f.out[i]
        /\ \A i \in 1..Groups(f, c) :
             Write(f, c).out[Len(f.out) + i] = SubSeq(t, 3 * i - 2, 3 * i)
        /\ Write(f, c).rest = SubSeq(t, 3 * Groups(f, c) + 1, Len(t))
    BY WriteIs
  <2> QED
    BY ONLY <1>7, <2>1
<1> HIDE DEF s, t, n
<1>10. s = t
  <2>1. SubSeq(s, 3 * n + 1, Len(s)) = SubSeq(t, 3 * n + 1, Len(s))
    BY <1>6, <1>8, <1>9
  <2>2. \A i \in 1..n : SubSeq(s, 3 * i - 2, 3 * i) = SubSeq(t, 3 * i - 2, 3 * i)
    BY <1>3, <1>8, <1>9
  <2> QED
    BY <1>4, <1>5, <1>6, <2>1, <2>2, GroupsTell
<1>11. e.rest \o b = f.rest \o c
  BY <1>10 DEF s, t, All
<1>12. e.rest = f.rest
  <2>1. \A i \in 1..Len(e.rest) : e.rest[i] = (e.rest \o b)[i]
    BY <1>1
  <2>2. \A i \in 1..Len(f.rest) : f.rest[i] = (f.rest \o c)[i]
    BY <1>2
  <2>3. \A i \in 1..Len(e.rest) : e.rest[i] = f.rest[i]
    BY <1>3, <1>11, <2>1, <2>2
  <2> QED
    BY <1>1, <1>2, <1>3, <2>3, SeqEqual
<1>13. b = c
  <2>1. Len(e.rest) \in Nat /\ Len(b) \in Nat
    BY <1>1
  <2>2. \A i \in 1..Len(b) : b[i] = (e.rest \o b)[Len(e.rest) + i]
    BY <1>1
  <2>3. \A i \in 1..Len(c) : c[i] = (f.rest \o c)[Len(f.rest) + i]
    BY <1>2
  <2>4. \A i \in 1..Len(b) : b[i] = c[i]
    BY <1>3, <1>11, <2>2, <2>3
  <2> QED
    BY <2>4, SeqEqual
<1>14. e.out = f.out
  <2>1. \A i \in 1..Len(e.out) : e.out[i] = f.out[i]
    BY <1>3, <1>8, <1>9
  <2> QED
    BY <1>1, <1>2, <1>3, <2>1, SeqEqual
<1> QED
  BY <1>12, <1>13, <1>14, SameEncoder

-----------------------------------------------------------------------------
(* Entries. *)

\* An encoder between two entries: its last group is a separator.
Separated(enc) == \/ enc.out = <<>> /\ enc.rest = <<>>
                  \/ enc.out # <<>> /\ enc.out[Len(enc.out)] = <<>>

\* A write with its separator, ...
LEMMA SeparatedIs ==
  ASSUME NEW e \in Encoders, NEW b \in Seq(Bytes)
  PROVE  /\ WriteSeparated(e, b) \in Encoders /\ Separated(WriteSeparated(e, b))
         /\ WriteSeparated(e, b).out = Append(Write(e, b).out, <<>>)
         /\ WriteSeparated(e, b).rest = Write(e, b).rest
         /\ Size(WriteSeparated(e, b)) = Size(e) + Len(b) + 3
<1> DEFINE w == Write(e, b)
           v == WriteSeparated(e, b)
           o == Append(w.out, <<>>)
<1>1. w \in Encoders /\ Size(w) = Size(e) + Len(b) /\ Size(e) \in Nat
  BY WriteIs, WriteSize
<1>2. /\ w.out \in Seq(Seq(Bytes)) /\ Len(w.out) \in Nat
      /\ w.rest \in Seq(Bytes) /\ Len(w.rest) \in 0..2
  BY <1>1, EncoderIs
<1>3. v = [w EXCEPT !.out = o]
  BY DEF WriteSeparated
<1> HIDE DEF w, v
<1>4. o \in Seq(Seq(Bytes)) /\ o # <<>> /\ Len(o) = Len(w.out) + 1 /\ o[Len(o)] = <<>>
  <2>1. <<>> \in Seq(Bytes)
    OBVIOUS
  <2>2. o \in Seq(Seq(Bytes)) /\ o # <<>> /\ Len(o) = Len(w.out) + 1 /\ o[Len(w.out) + 1] = <<>>
    BY <1>2, <2>1, AppendProperties
  <2> QED
    BY <2>2
<1> HIDE DEF o
<1>5. v \in Encoders /\ v.out = o /\ v.rest = w.rest
  BY <1>1, <1>3, <1>4, EncoderWith
<1>6. Separated(v)
  BY <1>4, <1>5 DEF Separated
<1>7. Size(v) = Size(w) + 3
  <2>1. Size(v) = 3 * (Len(w.out) + 1) + Len(w.rest)
    BY <1>4, <1>5 DEF Size
  <2>2. Size(w) = 3 * Len(w.out) + Len(w.rest)
    BY DEF Size
  <2>3. \A p \in Nat : \A q \in 0..2 : 3 * (p + 1) + q = 3 * p + q + 3
    OBVIOUS
  <2> QED
    BY <1>2, <2>1, <2>2, <2>3
<1>8. Len(b) \in Nat
  OBVIOUS
<1>9. Size(v) = Size(e) + Len(b) + 3
  BY <1>1, <1>7, <1>8
<1> QED
  BY <1>5, <1>6, <1>9 DEF v, o, w

\* An Append can be undone.
LEMMA AppendTells ==
  ASSUME NEW s \in Seq(Seq(Bytes)), NEW t \in Seq(Seq(Bytes)),
         NEW x \in Seq(Bytes), NEW y \in Seq(Bytes), Append(s, x) = Append(t, y)
  PROVE  s = t /\ x = y
<1>1. Append(s, x) = Append(t, y) <=> s = t /\ x = y
  BY ONLY s \in Seq(Seq(Bytes)), t \in Seq(Seq(Bytes)), x \in Seq(Bytes), y \in Seq(Bytes),
     AppendInjective
<1> QED
  BY <1>1

\* ... which tells as much as the write.
LEMMA SeparatedTells ==
  ASSUME NEW e \in Encoders, NEW b \in Seq(Bytes), NEW f \in Encoders, NEW c \in Seq(Bytes),
         Len(b) = Len(c), WriteSeparated(e, b) = WriteSeparated(f, c)
  PROVE  e = f /\ b = c
<1> DEFINE w == Write(e, b)
           v == Write(f, c)
<1>1. w \in Encoders /\ v \in Encoders
  BY WriteIs
<1>2. w.out \in Seq(Seq(Bytes)) /\ v.out \in Seq(Seq(Bytes)) /\ <<>> \in Seq(Bytes)
  BY <1>1, EncoderIs
<1>3. Append(w.out, <<>>) = WriteSeparated(e, b).out /\ w.rest = WriteSeparated(e, b).rest
  BY SeparatedIs
<1>4. Append(v.out, <<>>) = WriteSeparated(f, c).out /\ v.rest = WriteSeparated(f, c).rest
  BY SeparatedIs
<1> HIDE DEF w, v
<1>5. w.out = v.out
  <2>1. Append(w.out, <<>>) = Append(v.out, <<>>)
    BY <1>3, <1>4
  <2> QED
    BY <1>2, <2>1, AppendTells
<1>6. w = v
  BY <1>1, <1>3, <1>4, <1>5, SameEncoder
<1> QED
  BY <1>6, WriteTells DEF w, v

\* What an entry makes of an encoder.
LEMMA EntryIs ==
  ASSUME NEW e \in Encoders, Separated(e), NEW m, NEW k \in Seq(Bytes),
         k \in DOMAIN m => m[k] \in Seq(Bytes)
  PROVE  /\ WriteEntry(e, m, k) \in Encoders /\ Separated(WriteEntry(e, m, k))
         /\ k \in DOMAIN m => Size(WriteEntry(e, m, k)) = Size(e) + Len(k) + Len(m[k]) + 6
<1>1. CASE k \in DOMAIN m
  <2> DEFINE d == WriteSeparated(e, k)
  <2>1. d \in Encoders /\ Size(d) = Size(e) + Len(k) + 3
    BY SeparatedIs
  <2>2. m[k] \in Seq(Bytes)
    BY <1>1
  <2> HIDE DEF d
  <2>3. /\ WriteSeparated(d, m[k]) \in Encoders /\ Separated(WriteSeparated(d, m[k]))
        /\ Size(WriteSeparated(d, m[k])) = Size(d) + Len(m[k]) + 3
    BY <2>1, <2>2, SeparatedIs
  <2>4. WriteEntry(e, m, k) = WriteSeparated(d, m[k])
    BY <1>1 DEF WriteEntry, d
  <2>5. Len(k) \in Nat /\ Len(m[k]) \in Nat /\ Size(e) \in Nat
    BY <2>2, WriteSize
  <2>6. Size(d) + Len(m[k]) + 3 = Size(e) + Len(k) + Len(m[k]) + 6
    BY <2>1, <2>5
  <2> QED
    BY <2>3, <2>4, <2>6
<1>2. CASE k \notin DOMAIN m
  BY <1>2 DEF WriteEntry
<1> QED
  BY <1>1, <1>2

\* The same entry after different ones leaves a difference.
LEMMA EntryTells ==
  ASSUME NEW e \in Encoders, NEW f \in Encoders, NEW m, NEW l, NEW k \in Seq(Bytes),
         k \in DOMAIN m <=> k \in DOMAIN l,
         k \in DOMAIN m => m[k] \in Seq(Bytes) /\ l[k] = m[k],
         WriteEntry(e, m, k) = WriteEntry(f, l, k)
  PROVE  e = f
<1>1. CASE k \in DOMAIN m
  <2> DEFINE d == WriteSeparated(e, k)
             g == WriteSeparated(f, k)
  <2>1. d \in Encoders /\ g \in Encoders
    BY SeparatedIs
  <2>2. WriteEntry(e, m, k) = WriteSeparated(d, m[k])
    BY <1>1 DEF WriteEntry
  <2>3. WriteEntry(f, l, k) = WriteSeparated(g, m[k])
    BY <1>1 DEF WriteEntry
  <2>4. m[k] \in Seq(Bytes)
    BY <1>1
  <2> HIDE DEF d, g
  <2>5. d = g
    BY <2>1, <2>2, <2>3, <2>4, SeparatedTells
  <2> QED
    BY <2>5, SeparatedTells DEF d, g
<1>2. CASE k \notin DOMAIN m
  BY <1>2 DEF WriteEntry
<1> QED
  BY <1>1, <1>2

\* The entries that m and l have under k.
SameEntry(m, l, k) == /\ k \in DOMAIN m <=> k \in DOMAIN l
                      /\ k \in DOMAIN m => m[k] = l[k]

\* Another entry, or none, after the same ones makes a difference.
LEMMA OtherEntry ==
  ASSUME NEW e \in Encoders, Separated(e), NEW m, NEW l, NEW k \in Seq(Bytes),
         k \in DOMAIN m => m[k] \in Seq(Bytes), k \in DOMAIN l => l[k] \in Seq(Bytes),
         WriteEntry(e, m, k) = WriteEntry(e, l, k)
  PROVE  SameEntry(m, l, k)
<1>0. Len(k) \in Nat /\ Size(e) \in Nat
  BY WriteSize
<1>1. CASE k \in DOMAIN m /\ k \in DOMAIN l
  <2> DEFINE d == WriteSeparated(e, k)
  <2>1. d \in Encoders
    BY SeparatedIs
  <2>2. WriteSeparated(d, m[k]) = WriteSeparated(d, l[k])
    BY <1>1 DEF WriteEntry
  <2>3. m[k] \in Seq(Bytes) /\ l[k] \in Seq(Bytes)
    BY <1>1
  <2>4. Len(m[k]) = Len(l[k])
    <3>1. Size(WriteEntry(e, m, k)) = Size(e) + Len(k) + Len(m[k]) + 6
      BY <1>1, EntryIs
    <3>2. Size(WriteEntry(e, l, k)) = Size(e) + Len(k) + Len(l[k]) + 6
      BY <1>1, EntryIs
    <3>3. Len(m[k]) \in Nat /\ Len(l[k]) \in Nat
      BY <2>3
    <3> QED
      BY <1>0, <3>1, <3>2, <3>3
  <2> HIDE DEF d
  <2>5. m[k] = l[k]
    BY <2>1, <2>2, <2>3, <2>4, SeparatedTells
  <2> QED
    BY <1>1, <2>5 DEF SameEntry
<1>2. CASE k \in DOMAIN m /\ k \notin DOMAIN l
  <2>1. WriteEntry(e, l, k) = e /\ Len(m[k]) \in Nat
    BY <1>2 DEF WriteEntry
  <2>2. Size(WriteEntry(e, m, k)) = Size(e) + Len(k) + Len(m[k]) + 6
    BY <1>2, EntryIs
  <2> QED
    BY <1>0, <2>1, <2>2
<1>3. CASE k \notin DOMAIN m /\ k \in DOMAIN l
  <2>1. WriteEntry(e, m, k) = e /\ Len(l[k]) \in Nat
    BY <1>3 DEF WriteEntry
  <2>2. Size(WriteEntry(e, l, k)) = Size(e) + Len(k) + Len(l[k]) + 6
    BY <1>3, EntryIs
  <2> QED
    BY <1>0, <2>1, <2>2
<1>4. CASE k \notin DOMAIN m /\ k \notin DOMAIN l
  BY <1>4 DEF SameEntry
<1> QED
  BY <1>1, <1>2, <1>3, <1>4

-----------------------------------------------------------------------------
(* Maps. *)

\* A set of numbers has a least one, ...
LEMMA LeastNat ==
  ASSUME NEW T \in SUBSET Nat, T # {}
  PROVE  \E n \in T : \A m \in T : n <= m
<1>1. PICK n \in T : \A m \in T : ~(<<m, n>> \in OpToRel(<, Nat))
  BY NatLessThanWellFounded, WFMin, Zenon
<1>2. ASSUME NEW m \in T PROVE ~(m < n)
  BY <1>1, Zenon DEF OpToRel
<1>3. n \in T /\ \A m \in T : n <= m
  BY <1>2
<1> QED
  BY <1>3

\* ... so that a set with 0 that is closed under the successor has them all.
LEMMA Induction ==
  ASSUME NEW T, 0 \in T, \A n \in Nat : n \in T => n + 1 \in T
  PROVE  Nat \subseteq T
<1> SUFFICES ASSUME Nat \ T # {} PROVE FALSE
  OBVIOUS
<1>1. PICK n \in Nat \ T : \A m \in Nat \ T : n <= m
  BY LeastNat
<1>2. n # 0 /\ n - 1 \in Nat /\ n - 1 \in T
  BY <1>1
<1> QED
  BY <1>1, <1>2

\* base64.NewEncoder
NewEncoder == [out |-> <<>>, rest |-> <<>>]

\* What WriteEntries computes on its way, as far as the key n.
Encoding(m, n, enc) ==
  enc = [i \in 0..n |-> IF i = 0 THEN NewEncoder ELSE WriteEntry(enc[i - 1], m, Keys[i])]

\* The recursion of WriteEntries defines a function.
LEMMA EncodingExists ==
  ASSUME NEW m
  PROVE  \A n \in Nat : \E enc : Encoding(m, n, enc)
<1> DEFINE T == {n \in Nat : \E enc : Encoding(m, n, enc)}
<1>1. 0 \in T
  <2> DEFINE enc == [i \in 0..0 |-> NewEncoder]
  <2>1. Encoding(m, 0, enc)
    <3>1. \A i \in 0..0 : i = 0
      OBVIOUS
    <3> QED
      BY <3>1 DEF Encoding
  <2> QED
    BY <2>1
<1>2. ASSUME NEW n \in Nat, n \in T PROVE n + 1 \in T
  <2>1. PICK enc : Encoding(m, n, enc)
    BY <1>2
  <2> DEFINE next == [i \in 0..(n + 1) |-> IF i = n + 1 THEN WriteEntry(enc[n], m, Keys[n + 1])
                                                        ELSE enc[i]]
  <2>2. ASSUME NEW i \in 0..(n + 1)
        PROVE  next[i] = IF i = 0 THEN NewEncoder ELSE WriteEntry(next[i - 1], m, Keys[i])
    <3>1. CASE i = n + 1
      <4>1. i - 1 = n /\ n \in 0..(n + 1) /\ n # n + 1 /\ i # 0
        BY <3>1
      <4> QED
        BY <3>1, <4>1
    <3>2. CASE i # n + 1 /\ i # 0
      <4>1. i \in 0..n /\ i - 1 \in 0..(n + 1) /\ i - 1 # n + 1
        BY <3>2
      <4>2. next[i] = enc[i] /\ next[i - 1] = enc[i - 1]
        BY <3>2, <4>1
      <4>3. enc[i] = WriteEntry(enc[i - 1], m, Keys[i])
        BY <2>1, <3>2, <4>1 DEF Encoding
      <4> QED
        BY <3>2, <4>2, <4>3
    <3>3. CASE i = 0
      <4>1. 0 \in 0..n /\ 0 # n + 1
        OBVIOUS
      <4>2. enc[0] = NewEncoder
        BY <2>1, <4>1 DEF Encoding
      <4> QED
        BY <3>3, <4>1, <4>2
    <3> QED
      BY <3>1, <3>2, <3>3
  <2>3. Encoding(m, n + 1, next)
    BY <2>2 DEF Encoding
  <2> QED
    BY <2>3
<1> HIDE DEF T
<1>3. Nat \subseteq T
  BY <1>1, <1>2, Induction
<1> QED
  BY <1>3 DEF T

\* WriteEntries goes through the keys one by one.
LEMMA EntriesAre ==
  ASSUME NEW m
  PROVE  \E enc : /\ enc[0] = NewEncoder
                  /\ \A i \in 1..Len(Keys) : enc[i] = WriteEntry(enc[i - 1], m, Keys[i])
                  /\ enc[Len(Keys)] = WriteEntries(m)
<1> DEFINE n == Len(Keys)
           chosen == CHOOSE enc : Encoding(m, n, enc)
<1>1. n \in Nat
  BY KeysAssumption
<1>2. Encoding(m, n, chosen)
  BY <1>1, EncodingExists
<1>3. WriteEntries(m) = chosen[n]
  BY DEF WriteEntries, Encoding, NewEncoder
<1> HIDE DEF n, chosen
<1>4. 0 \in 0..n /\ \A i \in 1..n : i \in 0..n /\ i # 0
  BY <1>1
<1>5. chosen[0] = NewEncoder
  BY <1>2, <1>4 DEF Encoding
<1>6. \A i \in 1..n : chosen[i] = WriteEntry(chosen[i - 1], m, Keys[i])
  BY <1>2, <1>4 DEF Encoding
<1> QED
  BY <1>3, <1>5, <1>6 DEF n

\* Maps that differ under one key are not written alike.
LEMMA EntriesTell ==
  ASSUME NEW m, NEW l, NEW k \in ToSet(Keys),
         \A x \in ToSet(Keys) : /\ x \in DOMAIN m => m[x] \in Values
                                /\ x \in DOMAIN l => l[x] \in Values
                                /\ x # k => SameEntry(m, l, x),
         ~SameEntry(m, l, k)
  PROVE  /\ WriteEntries(m) # WriteEntries(l)
         /\ WriteEntries(m) \in Encoders /\ Separated(WriteEntries(m))
         /\ WriteEntries(l) \in Encoders /\ Separated(WriteEntries(l))
<1>1. Keys \in Seq(Seq(Bytes)) /\ Len(Keys) \in Nat /\ DOMAIN Keys = 1..Len(Keys)
  BY KeysAssumption
<1>2. PICK p \in 1..Len(Keys) : Keys[p] = k
  BY <1>1 DEF ToSet
<1>3. PICK e : /\ e[0] = NewEncoder
               /\ \A i \in 1..Len(Keys) : e[i] = WriteEntry(e[i - 1], m, Keys[i])
               /\ e[Len(Keys)] = WriteEntries(m)
  BY EntriesAre
<1>4. PICK f : /\ f[0] = NewEncoder
               /\ \A i \in 1..Len(Keys) : f[i] = WriteEntry(f[i - 1], l, Keys[i])
               /\ f[Len(Keys)] = WriteEntries(l)
  BY EntriesAre
<1> DEFINE T == {n \in Nat : n <= Len(Keys) =>
                   /\ e[n] \in Encoders /\ Separated(e[n]) /\ f[n] \in Encoders /\ Separated(f[n])
                   /\ IF n < p THEN e[n] = f[n] ELSE e[n] # f[n]}
<1>5. 0 \in T
  <2>1. NewEncoder \in Encoders /\ Separated(NewEncoder)
    <3>1. <<>> \in Seq(Seq(Bytes)) /\ <<>> \in Seq(Bytes) /\ Len(<<>>) <= 2
      OBVIOUS
    <3> QED
      BY <3>1 DEF NewEncoder, Encoders, Separated
  <2> QED
    BY <1>2, <1>3, <1>4, <2>1
<1>6. ASSUME NEW n \in Nat, n \in T PROVE n + 1 \in T
  <2> DEFINE x == Keys[n + 1]
  <2> SUFFICES ASSUME n + 1 <= Len(Keys)
      PROVE  /\ e[n + 1] \in Encoders /\ Separated(e[n + 1])
             /\ f[n + 1] \in Encoders /\ Separated(f[n + 1])
             /\ IF n + 1 < p THEN e[n + 1] = f[n + 1] ELSE e[n + 1] # f[n + 1]
    OBVIOUS
  <2>1. /\ e[n] \in Encoders /\ Separated(e[n]) /\ f[n] \in Encoders /\ Separated(f[n])
        /\ IF n < p THEN e[n] = f[n] ELSE e[n] # f[n]
    BY <1>1, <1>6
  <2>2. n + 1 \in 1..Len(Keys) /\ n + 1 - 1 = n
    BY <1>1
  <2>3. e[n + 1] = WriteEntry(e[n], m, x) /\ f[n + 1] = WriteEntry(f[n], l, x)
    BY <1>3, <1>4, <2>2
  <2>4. x \in ToSet(Keys) /\ x \in Seq(Bytes) /\ (x = k <=> n + 1 = p)
    <3>1. n + 1 \in DOMAIN Keys /\ x \in Seq(Bytes)
      BY <1>1, <2>2
    <3>2. x = k <=> n + 1 = p
      BY <1>1, <1>2, <2>2, KeysAssumption
    <3>3. x \in ToSet(Keys)
      BY <3>1 DEF ToSet
    <3> QED
      BY <3>1, <3>2, <3>3
  <2>5. /\ x \in DOMAIN m => m[x] \in Seq(Bytes)
        /\ x \in DOMAIN l => l[x] \in Seq(Bytes)
    BY <2>4, KeysAssumption
  <2> HIDE DEF x
  <2>6. WriteEntry(e[n], m, x) \in Encoders /\ Separated(WriteEntry(e[n], m, x))
    BY <2>1, <2>4, <2>5, EntryIs
  <2>7. WriteEntry(f[n], l, x) \in Encoders /\ Separated(WriteEntry(f[n], l, x))
    BY <2>1, <2>4, <2>5, EntryIs
  <2>8. CASE n + 1 < p
    <3>1. e[n] = f[n] /\ SameEntry(m, l, x)
      BY <2>1, <2>4, <2>8
    <3>2. WriteEntry(e[n], m, x) = WriteEntry(f[n], l, x)
      BY <3>1 DEF WriteEntry, SameEntry
    <3> QED
      BY <2>3, <2>6, <2>7, <2>8, <3>2
  <2>9. CASE n + 1 = p
    <3>1. e[n] = f[n] /\ x = k
      BY <2>1, <2>4, <2>9
    <3>2. ~SameEntry(m, l, x)
      BY <3>1
    <3>3. WriteEntry(e[n], m, x) # WriteEntry(f[n], l, x)
      BY <2>1, <2>4, <2>5, <3>1, <3>2, OtherEntry
    <3> QED
      BY <2>3, <2>6, <2>7, <2>9, <3>3
  <2>10. CASE n + 1 > p
    <3>1. e[n] # f[n] /\ SameEntry(m, l, x)
      BY <1>2, <2>1, <2>4, <2>10
    <3>2. WriteEntry(e[n], m, x) # WriteEntry(f[n], l, x)
      BY <2>1, <2>4, <2>5, <3>1, EntryTells DEF SameEntry
    <3> QED
      BY <2>3, <2>6, <2>7, <2>10, <3>2
  <2> QED
    BY <1>2, <2>8, <2>9, <2>10
<1> HIDE DEF T
<1>7. Len(Keys) \in T
  BY <1>1, <1>5, <1>6, Induction
<1>8. ~(Len(Keys) < p) /\ Len(Keys) <= Len(Keys)
  BY <1>1, <1>2
<1> QED
  BY <1>3, <1>4, <1>7, <1>8 DEF T

\* Closing an encoder that is between two entries loses nothing.
LEMMA CloseTells ==
  ASSUME NEW e \in Encoders, Separated(e), NEW f \in Encoders, Separated(f),
         (IF e.rest = <<>> THEN e.out ELSE Append(e.out, e.rest))
           = (IF f.rest = <<>> THEN f.out ELSE Append(f.out, f.rest))
  PROVE  e = f
<1>1. e.out \in Seq(Seq(Bytes)) /\ e.rest \in Seq(Bytes)
  BY EncoderIs
<1>2. f.out \in Seq(Seq(Bytes)) /\ f.rest \in Seq(Bytes)
  BY EncoderIs
<1>3. ASSUME NEW s \in Seq(Seq(Bytes)), NEW t \in Seq(Seq(Bytes)), NEW r \in Seq(Bytes),
             r # <<>>, s = <<>> \/ s[Len(s)] = <<>>
      PROVE  s # Append(t, r)
  <2>1. /\ Append(t, r) # <<>> /\ Len(Append(t, r)) = Len(t) + 1
        /\ Append(t, r)[Len(t) + 1] = r
    BY ONLY t \in Seq(Seq(Bytes)), r \in Seq(Bytes), AppendProperties
  <2> QED
    BY <1>3, <2>1
<1>4. CASE e.rest = <<>> /\ f.rest = <<>>
  BY <1>4, SameEncoder
<1>5. CASE e.rest = <<>> /\ f.rest # <<>>
  <2>1. e.out # Append(f.out, f.rest)
    BY <1>1, <1>2, <1>3, <1>5 DEF Separated
  <2> QED
    BY <1>5, <2>1
<1>6. CASE e.rest # <<>> /\ f.rest = <<>>
  <2>1. f.out # Append(e.out, e.rest)
    BY <1>1, <1>2, <1>3, <1>6 DEF Separated
  <2> QED
    BY <1>6, <2>1
<1>7. CASE e.rest # <<>> /\ f.rest # <<>>
  <2>1. Append(e.out, e.rest) = Append(f.out, f.rest)
    BY <1>7
  <2>2. e.out = f.out /\ e.rest = f.rest
    BY <1>1, <1>2, <2>1, AppendTells
  <2> QED
    BY <2>2, SameEncoder
<1> QED
  BY <1>4, <1>5, <1>6, <1>7

\* The Data of a ConfigMap: some of the keys, each with a value.
DataIsMap == /\ data = [x \in DOMAIN data |-> data[x]] /\ DOMAIN data \subseteq ToSet(Keys)
             /\ \A x \in DOMAIN data : data[x] \in Values

\* It never becomes anything else.
LEMMA DataStaysMap == Spec => []DataIsMap
<1>1. Init => DataIsMap
  BY DEF Init, DataIsMap
<1>2. DataIsMap /\ [Next]_vars => DataIsMap'
  <2> SUFFICES ASSUME DataIsMap, [Next]_vars PROVE DataIsMap'
    OBVIOUS
  <2>1. CASE UNCHANGED data
    BY <2>1 DEF DataIsMap
  <2>2. CASE EditData
    <3>1. ASSUME NEW k \in ToSet(Keys), data' = Without(k) PROVE DataIsMap'
      BY <3>1 DEF Without, DataIsMap
    <3>2. ASSUME NEW k \in ToSet(Keys), NEW v \in Values, data' = With(k, v) PROVE DataIsMap'
      BY <3>2 DEF With, DataIsMap
    <3> QED
      BY <2>2, <3>1, <3>2 DEF EditData
  <2> QED
    BY <2>1, <2>2 DEF Next, EditReleases, vars
<1> QED
  BY <1>1, <1>2, PTL DEF Spec

\* An edit changes one entry, and with it the checksum.
LEMMA EditIsSeen ==
  ASSUME DataIsMap, DataIsMap', Next, data' # data
  PROVE  ChecksumMap(data)' # ChecksumMap(data)
<1>1. PICK k \in ToSet(Keys) : data' = Without(k) \/ \E v \in Values : data' = With(k, v)
  BY DEF Next, EditReleases, EditData
<1>2. \A x \in ToSet(Keys) : /\ x \in DOMAIN data => data[x] \in Values
                             /\ x \in DOMAIN data' => data'[x] \in Values
                             /\ x # k => SameEntry(data, data', x)
  <2>1. \A x \in ToSet(Keys) : x # k => SameEntry(data, data', x)
    BY <1>1 DEF Without, With, SameEntry
  <2> QED
    BY <2>1 DEF DataIsMap
<1>3. ~SameEntry(data, data', k)
  <2> SUFFICES ASSUME SameEntry(data, data', k) PROVE FALSE
    OBVIOUS
  <2>1. \A x \in ToSet(Keys) : SameEntry(data, data', x)
    BY <1>2
  <2>2. DOMAIN data = DOMAIN data'
    BY <2>1 DEF DataIsMap, SameEntry
  <2>3. \A x \in DOMAIN data : data[x] = data'[x]
    BY <2>1 DEF DataIsMap, SameEntry
  <2> QED
    BY <2>2, <2>3 DEF DataIsMap
<1>4. /\ WriteEntries(data) # WriteEntries(data')
      /\ WriteEntries(data) \in Encoders /\ Separated(WriteEntries(data))
      /\ WriteEntries(data') \in Encoders /\ Separated(WriteEntries(data'))
  BY <1>2, <1>3, EntriesTell
<1> QED
  BY <1>4, CloseTells DEF ChecksumMap

\* "The checksum can be used to detect when the contents of a ConfigMap have changed"
\* (checksumMap), for every ConfigMap.
THEOREM ChecksumAlwaysNotices == Spec => ChecksumNotices
<1>1. DataIsMap /\ DataIsMap' /\ [Next]_vars
        => [data' # data => ChecksumMap(data') # ChecksumMap(data)]_vars
  BY EditIsSeen DEF vars
<1> QED
  BY <1>1, DataStaysMap, PTL DEF Spec, ChecksumNotices

=============================================================================
