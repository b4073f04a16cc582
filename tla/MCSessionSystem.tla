---------------------------- MODULE MCSessionSystem ----------------------------
(***************************************************************************)
(* SessionSystem for TLC: the symmetries of the constants, and a bound:    *)
(* connections are opened once every node has discovered every other.      *)
(***************************************************************************)
EXTENDS SessionSystem, TLC

Symmetry == Permutations(Nodes) \cup Permutations(ConnIds)
                \cup Permutations(Secrets)

Discovered ==
    (\E c \in ConnIds : initiator[c] # NULL) => \A n \in Nodes : known[n] = Nodes
================================================================================
