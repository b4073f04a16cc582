----------------------- MODULE MCConnectionController -----------------------
(***************************************************************************)
(* ConnectionController for TLC: the symmetries of the constants.  Nodes,  *)
(* connection ids and secrets are told apart only by equality.             *)
(***************************************************************************)
EXTENDS ConnectionController, TLC

Symmetry == Permutations(Nodes) \cup Permutations(ConnIds)
                \cup Permutations(Secrets)
=============================================================================
