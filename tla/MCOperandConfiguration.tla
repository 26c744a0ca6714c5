------------------------ MODULE MCOperandConfiguration ------------------------
(***************************************************************************)
(* Small instances of OperandConfiguration for TLC.                        *)
(***************************************************************************)
EXTENDS OperandConfiguration, TLC

Host(labels, ip, v6) == [labels |-> labels, ip |-> ip, v6 |-> v6]

\* External names, one under the other; the two forms of a service, and near misses;
\* addresses.
Hosts == {Host(<<"quay", "io">>, None, FALSE), Host(<<"sub", "quay", "io">>, None, FALSE),
          Host(<<"registry", "ns", "svc">>, None, FALSE),
          Host(<<"registry", "ns", "svc", "cluster", "local">>, None, FALSE),
          Host(<<"registry", "svc">>, None, FALSE),
          Host(<<"my", "svc", "company", "com">>, None, FALSE),
          Host(<<"10-1-0-3">>, 3, FALSE), Host(<<"fd01--5">>, 5, TRUE)}

SomeLabels == UNION {ToSet(h.labels) : h \in Hosts}

\* No port and a proper one; the limits, and a port that is not a number.
SomeRegistries ==
  {h @@ [parses |-> TRUE, port |-> p] : h \in Hosts, p \in {None, 5000}}
  \cup {h @@ [parses |-> TRUE, port |-> p] :
          h \in {x \in Hosts : x.labels = <<"quay", "io">>}, p \in {0, 1, 65535, 65536}}
  \cup {h @@ [parses |-> FALSE, port |-> None] : h \in {x \in Hosts : x.v6}}

Url(scheme, port) == [parses |-> TRUE, scheme |-> scheme, port |-> port]

\* A port, the defaults of both schemes, and what has none.
SomeProxies ==
  {Url("http", 3128), Url("https", None), Url("http", None), Url("other", None),
   Url("http", 80000080)}

Entry(kind, labels, range) == [kind |-> kind, labels |-> labels, range |-> range]

ClusterEntries == {Entry("suffix", <<"svc">>, {}), Entry("suffix", <<"cluster", "local">>, {})}

SomeNoProxies ==
  {{}, {Entry("any", <<>>, {})},
   ClusterEntries \cup {Entry("name", <<"quay", "io">>, {}), Entry("range", <<>>, 1..9)},
   ClusterEntries \cup {Entry("suffix", <<"quay", "io">>, {}), Entry("name", <<"10-1-0-3">>, {})}}

SomeBytes  == {"a", "b"}
SomeKeys   == <<<<"a">>, <<"a", "b">>>>
SomeValues == {<<>>, <<"a">>, <<"b">>, <<"a", "b">>, <<"b", "a">>}

=============================================================================
