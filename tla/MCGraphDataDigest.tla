-------------------------- MODULE MCGraphDataDigest --------------------------
(***************************************************************************)
(* Small instances of GraphDataDigest for TLC.                             *)
(***************************************************************************)
EXTENDS GraphDataDigest, TLC

\* UpdateServices are alike.
Symmetry == Permutations(Services)

=============================================================================
