-------------------------- MODULE MCSessionController --------------------------
(* Small instances of SessionController for TLC. *)
EXTENDS SessionController, TLC

\* Guids and texts are only compared for equality.
Symmetry == Permutations(Sessions) \cup Permutations(ConnIds) \cup Permutations(Texts)
================================================================================
