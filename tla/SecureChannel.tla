---------------------------- MODULE SecureChannel ----------------------------
(***************************************************************************)
(* What the connection controllers promise for each connection, without    *)
(* the handshake: one end proposes a key, the other accepts that key and   *)
(* is told so, then the proposer is told, and texts pass between holders   *)
(* of the key.  An end may drop out at any time, and proposals may be      *)
(* lost.  ConnectionController implements this specification.              *)
(***************************************************************************)
CONSTANTS Nodes, ConnIds, Secrets, Texts, NULL, Garbled

VARIABLES
    offer,     \* offer[c]: the key proposed for c and not yet accepted, if any
    key,       \* key[n][c]: the key n holds for c, or NULL
    told,      \* <<n, c>>: n was told that c is complete
    sent,      \* <<n, c, t>>: n sent text t on c
    received   \* <<n, c, t>>: n received t on c

channelVars == <<offer, key, told, sent, received>>

Init ==
    /\ offer = [c \in ConnIds |-> {}]
    /\ key = [n \in Nodes |-> [c \in ConnIds |-> NULL]]
    /\ told = {} /\ sent = {} /\ received = {}

\* c is fresh, so that there is at most one key for it.
Propose(n, c, s) ==
    /\ offer[c] = {}
    /\ \A p \in Nodes : key[p][c] = NULL /\ <<p, c>> \notin told
    /\ offer' = [offer EXCEPT ![c] = {s}]
    /\ key' = [key EXCEPT ![n][c] = s]
    /\ UNCHANGED <<told, sent, received>>

Accept(n, c, s) ==
    /\ s \in offer[c]
    /\ key[n][c] = NULL
    /\ offer' = [offer EXCEPT ![c] = {}]
    /\ key' = [key EXCEPT ![n][c] = s]
    /\ told' = told \cup {<<n, c>>}
    /\ UNCHANGED <<sent, received>>

\* The proposer is told second.
Confirm(n, c) ==
    /\ key[n][c] # NULL
    /\ \E p \in Nodes \ {n} : <<p, c>> \in told
    /\ told' = told \cup {<<n, c>>}
    /\ UNCHANGED <<offer, key, sent, received>>

Lose(lost) ==
    /\ offer' = [c \in ConnIds |-> IF c \in lost THEN {} ELSE offer[c]]
    /\ UNCHANGED <<key, told, sent, received>>

Drop(n, c) ==
    /\ key' = [key EXCEPT ![n][c] = NULL]
    /\ UNCHANGED <<offer, told, sent, received>>

\* Once one end was told of the completion, an end that has the key may send.
Send(n, c, t) ==
    /\ key[n][c] # NULL
    /\ \E p \in Nodes : <<p, c>> \in told
    /\ sent' = sent \cup {<<n, c, t>>}
    /\ UNCHANGED <<offer, key, told, received>>

\* A text is received as another end sent it, or as other bytes.
Receive(n, c, t) ==
    /\ key[n][c] # NULL
    /\ \E p \in Nodes \ {n}, u \in Texts : <<p, c, u>> \in sent /\ t \in {u, Garbled}
    /\ received' = received \cup {<<n, c, t>>}
    /\ UNCHANGED <<offer, key, told, sent>>

Next ==
    \/ \E lost \in SUBSET ConnIds : Lose(lost)
    \/ \E n \in Nodes, c \in ConnIds :
          \/ \E s \in Secrets : Propose(n, c, s) \/ Accept(n, c, s)
          \/ Confirm(n, c)
          \/ Drop(n, c)
          \/ \E t \in Texts : Send(n, c, t)
          \/ \E t \in Texts \cup {Garbled} : Receive(n, c, t)

Spec == Init /\ [][Next]_channelVars
=============================================================================
