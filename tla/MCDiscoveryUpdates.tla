-------------------------- MODULE MCDiscoveryUpdates --------------------------
(* Small instances of DiscoveryUpdates for TLC.  What a state allows depends  *)
(* on how long ago things happened, never on when: states that agree on that  *)
(* are one, and the runs go on for as long as anything new happens.           *)
EXTENDS DiscoveryUpdates, TLC

CONSTANTS
    Interval,   \* the interval of every node
    Horizon     \* bound: ages are told apart up to here, later than any property looks back

AllStrategies == {"ask_once", "polling", "broadcast"}
MCinterval == [n \in Nodes |-> Interval]
Symmetry == Permutations(Nodes)

Ago(t) == IF t = 0 THEN -1 ELSE IF now - t > Horizon THEN Horizon + 1 ELSE now - t
RelativeTime ==
    << phase, strategy, requests, thread, sent,
       [n \in Nodes |-> IF Waiting(n) THEN wake[n] - now ELSE 0],
       [n \in Nodes |-> IF thread[n] = "asleep" THEN next_update[n] - now ELSE 0],
       [n \in Nodes |-> Ago(last_updated[n])],
       [n \in Nodes |-> [m \in Nodes |-> Ago(last_seen[n][m])]],
       {[d EXCEPT !.sent = now - @] : d \in network} >>
=============================================================================
