----------------------------- MODULE MCPeerstore -----------------------------
(* Small instances of Peerstore for TLC: user names bob and bobby, of which  *)
(* the second begins with the first.                                         *)
EXTENDS Peerstore, TLC

CONSTANTS
    bob, bobby,
    long  \* a guid whose interval cannot be doubled in its width, if it is one of Guids

MCbegins_with == {<<u, u>> : u \in Names} \cup ({<<bobby, bob>>} \cap (Names \X Names))
MCprefix == [g \in Guids |-> <<g>>]
MCprefix_shared == [g \in Guids |-> <<"0203">>]
MCinterval == [g \in Guids |-> IF g = long THEN 2 ELSE 1]

\* Addresses, guids and hosts are only compared for equality, but for the guid
\* that has an interval of its own.
Symmetry == Permutations(Addrs) \cup Permutations(Guids \ {long}) \cup Permutations(Hosts)
=============================================================================
