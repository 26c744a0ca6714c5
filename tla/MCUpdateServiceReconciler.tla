---------------------- MODULE MCUpdateServiceReconciler ----------------------
(***************************************************************************)
(* Small instances of UpdateServiceReconciler for TLC.                     *)
(***************************************************************************)
EXTENDS UpdateServiceReconciler

CONSTANTS r1, r2, noSlash, digest1, tag1, ps1, ps2, ca1, ca2

\* One replica to two, another repository, and nothing else.
TwoSpecs ==
  {[replicas |-> 1, releases |-> r1, graphData |-> digest1],
   [replicas |-> 2, releases |-> r2, graphData |-> digest1]}

\* A spec whose image has to be resolved, and one nothing can be rendered from.
BrokenSpecs ==
  {[replicas |-> 2, releases |-> r1, graphData |-> tag1],
   [replicas |-> 2, releases |-> noSlash, graphData |-> digest1]}

PlainSources   == {[ps |-> ps1, image |-> "named", caMap |-> ca1]}
VariedSources  == {[ps |-> ps1, image |-> "named", caMap |-> ca1],
                   [ps |-> ps1, image |-> "absent", caMap |-> None]}
MissingSources == {[ps |-> None, image |-> "named", caMap |-> ca1],
                   [ps |-> ps1, image |-> "named", caMap |-> None],
                   [ps |-> ps1, image |-> "named", caMap |-> Foreign]}

=============================================================================
