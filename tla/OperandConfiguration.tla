------------------------- MODULE OperandConfiguration -------------------------
(***************************************************************************)
(* What the operator computes for the operand from spec.releases, from its *)
(* environment and from the data of a ConfigMap: the egress rule of the    *)
(* NetworkPolicy (egressPorts, noProxy, portFromURL,                       *)
(* namespaceFromInternalHost, newNetworkPolicy) and the hash that goes     *)
(* into the Pod template (checksumMap).  The environment is fixed when the *)
(* operator starts; users edit the spec, and what is rendered follows.     *)
(*                                                                         *)
(* A host is the sequence of its dot-separated labels, an IP address one   *)
(* label; a URL is what url.Parse makes of it.                             *)
(***************************************************************************)
EXTENDS Integers, Sequences, SequencesExt

CONSTANTS
  None,       \* absent: an unset variable, a URL without port, no namespace
  Labels,     \* the labels of hosts
  Registries, \* the registries users name: [labels, ip, v6, parses, port]
  Proxies,    \* the URLs of proxies: [parses, scheme, port]
  NoProxies,  \* the values of NO_PROXY: sets of entries [kind, labels, range]
  Bytes,      \* the bytes of keys and values
  Keys,       \* the keys of a ConfigMap in their order, each a sequence of bytes
  Values      \* the values of its entries, each a sequence of bytes

Ports == 1..65535

ASSUME NoneAssumption == None \notin Ports

\* A host is a sequence of labels, and so is the domain an entry of NO_PROXY names.
ASSUME HostsAssumption ==
  /\ {"svc", "cluster", "local"} \subseteq Labels
  /\ \A reg \in Registries : reg.labels \in Seq(Labels)
  /\ \A no \in NoProxies : \A e \in no :
       e.labels \in Seq(Labels) /\ (e.kind = "suffix" => e.labels # <<>>)

\* The keys of a map, sorted.
ASSUME KeysAssumption ==
  /\ Keys \in Seq(Seq(Bytes)) /\ Values \subseteq Seq(Bytes)
  /\ \A i, j \in DOMAIN Keys : Keys[i] = Keys[j] => i = j

VARIABLES
  env,      \* HTTP_PROXY, HTTPS_PROXY and NO_PROXY: [http, https, no]
  releases, \* the registry of spec.releases
  data      \* the Data of a ConfigMap: a function from some of Keys to Values

vars == <<env, releases, data>>

-----------------------------------------------------------------------------
(* Egress. *)

DefaultPort(scheme) == IF scheme = "http" THEN 80 ELSE IF scheme = "https" THEN 443 ELSE 0

\* portFromURL, 0 for an error.
PortFromURL(u) ==
  IF ~u.parses THEN 0
  ELSE IF u.port = None THEN DefaultPort(u.scheme)
  ELSE IF u.port \in Ports THEN u.port ELSE 0

\* namespaceFromInternalHost: <service>.<namespace>.svc, with or without the cluster's
\* domain.
ServicePart(labels) ==
  IF IsSuffix(<<"svc", "cluster", "local">>, labels) THEN SubSeq(labels, 1, Len(labels) - 3)
  ELSE IF IsSuffix(<<"svc">>, labels) THEN SubSeq(labels, 1, Len(labels) - 1)
  ELSE <<>>

NamespaceOf(reg) ==
  LET parts == ServicePart(reg.labels) IN IF Len(parts) < 2 THEN None ELSE parts[Len(parts)]

\* Mutant of Bypasses: an entry with a leading dot exempts the domain itself too.
MutBypasses(entry, reg) ==
  \/ entry.kind = "any"
  \/ /\ ~reg.v6
     /\ \/ entry.kind = "name" /\ entry.labels = reg.labels
        \/ entry.kind = "suffix" /\ IsSuffix(entry.labels, reg.labels)
        \/ entry.kind = "range" /\ reg.ip # None /\ reg.ip \in entry.range

\* One entry of NO_PROXY.  Everything from the first colon on is cut off the registry,
\* so that of an IPv6 address nothing is left to compare.
Bypasses(entry, reg) ==
  \/ entry.kind = "any"
  \/ /\ ~reg.v6
     /\ \/ entry.kind = "name" /\ entry.labels = reg.labels
        \/ entry.kind = "suffix" /\ IsStrictSuffix(entry.labels, reg.labels)
        \/ entry.kind = "range" /\ reg.ip # None /\ reg.ip \in entry.range

NoProxy(reg, no) == \E entry \in no : Bypasses(entry, reg)

\* The closure add of egressPorts: no errors, no duplicates.
Add(ports, p) == IF p = 0 \/ (\E i \in DOMAIN ports : ports[i] = p) THEN ports
                                                                   ELSE Append(ports, p)

VariablePort(v) == IF v = None THEN 0 ELSE PortFromURL(v)

\* The ports of the proxies an external registry is reached through.
ProxyPorts(reg, e) ==
  IF NamespaceOf(reg) # None \/ NoProxy(reg, e.no) THEN <<>>
  ELSE Add(Add(<<>>, VariablePort(e.http)), VariablePort(e.https))

RegistryUrl(reg) == [parses |-> reg.parses, scheme |-> "https", port |-> reg.port]

\* Mutant of RegistryPorts: no default when the registry has no proper port.
MutRegistryPorts(reg) == Add(<<>>, PortFromURL(RegistryUrl(reg)))

RegistryPorts(reg) ==
  LET p == PortFromURL(RegistryUrl(reg)) IN Add(<<>>, IF p = 0 THEN 443 ELSE p)

EgressPorts(reg, e) ==
  IF ProxyPorts(reg, e) = <<>> THEN RegistryPorts(reg) ELSE ProxyPorts(reg, e)

\* The rule for the registry; the one for DNS is the same for all.
NewNetworkPolicy(reg, e) == [ports |-> EgressPorts(reg, e), namespace |-> NamespaceOf(reg)]

-----------------------------------------------------------------------------
(* Checksums. *)

\* base64.NewEncoder: Write passes on groups of three bytes and keeps the rest.
Write(enc, bytes) ==
  LET all == enc.rest \o bytes
      n   == Len(all) \div 3
  IN  [out  |-> enc.out \o [i \in 1..n |-> SubSeq(all, 3 * i - 2, 3 * i)],
       rest |-> SubSeq(all, 3 * n + 1, Len(all))]

\* A datum and its ":", which goes to the hash past the encoder.
WriteSeparated(enc, bytes) ==
  LET written == Write(enc, bytes) IN [written EXCEPT !.out = Append(@, <<>>)]

WriteEntry(enc, m, k) ==
  IF k \in DOMAIN m THEN WriteSeparated(WriteSeparated(enc, k), m[k]) ELSE enc

\* All entries of m in the order of the keys.
WriteEntries(m) ==
  LET enc[i \in 0..Len(Keys)] == IF i = 0 THEN [out |-> <<>>, rest |-> <<>>]
                                          ELSE WriteEntry(enc[i - 1], m, Keys[i])
  IN  enc[Len(Keys)]

\* Mutant of ChecksumMap: the encoder is not closed.
MutChecksumMap(m) == WriteEntries(m).out

\* checksumMap: what is hashed stands for its hash; Close flushes the rest.
ChecksumMap(m) ==
  LET enc == WriteEntries(m) IN
  IF enc.rest = <<>> THEN enc.out ELSE Append(enc.out, enc.rest)

-----------------------------------------------------------------------------

Environments == [http : Proxies \cup {None}, https : Proxies \cup {None}, no : NoProxies]

Init == env \in Environments /\ releases \in Registries /\ data = <<>>

\* A user edits spec.releases.
EditReleases ==
  /\ releases' \in Registries
  /\ UNCHANGED <<env, data>>

Without(k) == [x \in DOMAIN data \ {k} |-> data[x]]
With(k, v) == [x \in DOMAIN data \cup {k} |-> IF x = k THEN v ELSE data[x]]

\* One entry of the ConfigMap is added, changed or removed.
EditData ==
  /\ \E k \in ToSet(Keys) : \/ data' = Without(k)
                            \/ \E v \in Values : data' = With(k, v)
  /\ UNCHANGED <<env, releases>>

Next == EditReleases \/ EditData

Spec == Init /\ [][Next]_vars

-----------------------------------------------------------------------------
(* Properties. *)

Policy == NewNetworkPolicy(releases, env)

\* A rule without ports is one for all ports: whatever the spec and the environment
\* say, the rule names at least one port, each a proper one and once ("restricted to
\* the necessary ports", newNetworkPolicy).
PortsAreExplicit ==
  /\ Policy.ports # <<>>
  /\ \A i \in DOMAIN Policy.ports : Policy.ports[i] \in Ports
  /\ \A i, j \in DOMAIN Policy.ports : Policy.ports[i] = Policy.ports[j] => i = j

\* What NO_PROXY means: everything, one host, the hosts under a domain, or the addresses of
\* a range.
Under(labels, domain) ==
  \E n \in 1..Len(labels) - 1 : SubSeq(labels, n + 1, Len(labels)) = domain

Exempt(reg, no) ==
  \/ \E e \in no : e.kind = "any" \/ (e.kind = "name" /\ e.labels = reg.labels)
  \/ \E e \in no : e.kind = "suffix" /\ Under(reg.labels, e.labels)
  \/ \E e \in no : e.kind = "range" /\ reg.ip # None /\ reg.ip \in e.range

\* The host is a service of the namespace, under one of the names the cluster's DNS gives it.
ServiceIn(labels, namespace) ==
  \E n \in 2..Len(labels) :
    /\ labels[n] = namespace
    /\ SubSeq(labels, n + 1, Len(labels)) \in {<<"svc">>, <<"svc", "cluster", "local">>}

\* Where the graph-builder connects to: its scraper speaks https, so HTTPS_PROXY counts
\* unless NO_PROXY exempts the registry.
Direct  == env.https = None \/ Exempt(releases, env.no)
Contact ==
  IF Direct
  THEN [host |-> releases.labels, port |-> IF releases.port = None THEN 443 ELSE releases.port]
  ELSE [host |-> <<>>,
        port |-> IF env.https.port # None THEN env.https.port
                 ELSE IF env.https.scheme = "https" THEN 443 ELSE 80]

\* What a NetworkPolicy lets through.
Admits(policy, dest) ==
  /\ policy.ports = <<>> \/ \E i \in DOMAIN policy.ports : policy.ports[i] = dest.port
  /\ policy.namespace = None \/ ServiceIn(dest.host, policy.namespace)

\* A spec and an environment that can work: proper ports; no proxy for http alone; and
\* for hosts of the cluster the exemption that OpenShift's NO_PROXY always has.  An IPv6
\* registry that NO_PROXY names, or has a range for, is excepted: noProxy does not see it.
Workable ==
  /\ releases.parses /\ releases.port \in Ports \cup {None}
  /\ env.http # None => env.https # None
  /\ env.https # None =>
       /\ env.https.parses
       /\ \/ env.https.port \in Ports
          \/ env.https.port = None /\ env.https.scheme \in {"http", "https"}
  /\ (\E n \in DOMAIN releases.labels : ServiceIn(releases.labels, releases.labels[n])) => Direct
  /\ releases.v6 /\ Exempt(releases, env.no) => \E e \in env.no : e.kind = "any"

\* The operand's own NetworkPolicy never cuts it off from its registry, through a proxy
\* or past it: the ports are the proxy's exactly when NO_PROXY does not exempt the
\* registry, and the namespace is the one the registry is in (egressPorts, noProxy).
EgressReachesRegistry == Workable => Admits(Policy, Contact)

\* "The checksum can be used to detect when the contents of a ConfigMap have changed"
\* (checksumMap): whichever entry is added, changed or removed, the hash is another.
\* Bytes that move from one entry to the next at once may go unnoticed.
ChecksumNotices == [][data' # data => ChecksumMap(data') # ChecksumMap(data)]_vars

=============================================================================
