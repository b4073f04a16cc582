-------------------------- MODULE SessionSystem_proofs --------------------------
(***************************************************************************)
(* What is proved about the sessions of all nodes over their connections,  *)
(* for every set of nodes, connection ids, secrets and texts.  The proofs  *)
(* about the connections are those of ConnectionController_proofs; what is *)
(* new is the steps that ConnectionController does not have: a text for    *)
(* all connections of a session, and a connection that finds no            *)
(* controller.                                                             *)
(***************************************************************************)
EXTENDS SessionSystem, ConnectionController_proofs

(* A list and its elements. *)
LEMMA ListAppended ==
    ASSUME NEW S, NEW q \in Seq(S), NEW e \in S
    PROVE  Append(q, e) \in Seq(S) /\ ToSet(Append(q, e)) = ToSet(q) \cup {e}
<1>1. /\ Append(q, e) \in Seq(S) /\ Len(Append(q, e)) = Len(q) + 1 /\ Len(q) \in Nat
      /\ DOMAIN q = 1..Len(q) /\ DOMAIN Append(q, e) = 1..(Len(q) + 1)
      /\ \A i \in 1..Len(q) : Append(q, e)[i] = q[i]
      /\ Append(q, e)[Len(q) + 1] = e
  OBVIOUS
<1> QED
  BY <1>1 DEF ToSet

LEMMA EmptyList == ToSet(<<>>) = {}
BY DEF ToSet

LEMMA ListElements == ASSUME NEW S, NEW q \in Seq(S) PROVE ToSet(q) \subseteq S
BY DEF ToSet
-----------------------------------------------------------------------------
(* The steps of a node, by what they do to the sessions.                   *)

(* A connection enters the list of n and its session s. *)
Opened(n, s, c) ==
    /\ status[n] = "running" /\ handle[n]
    /\ state[n][c] = "NONE"
    /\ \E x \in {"E_CRS_INITIAL_CHALLENGE", "E_CRS_CHALLENGE_REPLY"} :
          state' = [state EXCEPT ![n][c] = x]
    /\ session_add_connection(n, s, c)
    /\ \/ s = c /\ session_list' = [session_list EXCEPT ![n] = Append(@, c)]
       \/ s \in ToSet(session_list[n]) /\ session_list' = session_list
    /\ UNCHANGED <<status, sent, received, destroyed, handle, notified>>

(* It enters the list only: the callback finds no controller. *)
Accepted(n, c) ==
    /\ status[n] = "running" /\ ~handle[n]
    /\ state[n][c] = "NONE" /\ responder[c] = n
    /\ state' = [state EXCEPT ![n][c] = "E_CRS_CHALLENGE_REPLY"]
    /\ status' = [status EXCEPT ![n] = "check_scontroller_handle"]
    /\ UNCHANGED <<sent, received, sessionVars>>

(* The handshake of c goes on. *)
Proceeded(n, c) ==
    /\ status[n] = "running"
    /\ state[n][c] \in {"E_CRS_INITIAL_CHALLENGE", "E_CRS_CHALLENGE_REPLY", "E_CRS_SESSION_KEY_SHARE"}
    /\ \E x \in {"E_CRS_SESSION_KEY_SHARE", "E_CRS_COMPLETE"} :
          state' = [state EXCEPT ![n][c] = x]
    /\ UNCHANGED <<status, sent, received, sessionVars>>

(* A text came in on c. *)
Heard(n, c, t) ==
    /\ status[n] = "running"
    /\ Listed(n, c)
    /\ received' = received \cup {<<n, c, t>>}
    /\ notified' = IF handle[n] THEN notified \cup Notifications(n, c, t) ELSE notified
    /\ UNCHANGED <<state, status, sent, listVars>>

(* Nothing happens that the sessions notice. *)
Unnoticed(n) ==
    /\ status[n] = "running"
    /\ \E x \in ({"running"} \cup Exits) \ {"check_scontroller_handle"} :
          status' = [status EXCEPT ![n] = x]
    /\ UNCHANGED <<state, sent, received, sessionVars>>

LEMMA OpeningKind ==
    ASSUME IInv, NEW n \in Nodes, NEW r \in Nodes, NEW c \in ConnIds, NEW s,
           connection_controller_initiation_request(n, r, c), handle[n],
           session_add_connection(n, s, c),
           UNCHANGED <<destroyed, handle, notified>>,
           \/ s = c /\ session_list' = [session_list EXCEPT ![n] = Append(@, c)]
           \/ s \in ToSet(session_list[n]) /\ session_list' = session_list
    PROVE  Opened(n, s, c)
<1>1. initiator[c] = NULL /\ ConnectionInv(c)
  BY DEF connection_controller_initiation_request, IInv, HandshakeInv
<1>2. state[n][c] = "NONE"
  BY <1>1 DEF ConnectionInv
<1> QED
  BY <1>2 DEF Opened, connection_controller_initiation_request, Idle, noteVars,
              connection_controller_add_connection_request

LEMMA IncomingKind ==
    ASSUME IInv, NEW n \in Nodes, NEW m \in inbox, internal_incoming(n, m)
    PROVE  m.id \in ConnIds /\ (Opened(n, m.id, m.id) \/ Accepted(n, m.id))
<1>1. Case(n, m, "CREATE_SESSION")
  BY DEF internal_incoming, CREATE_SESSION
<1>2. /\ m.recipient = n /\ m.sender # n /\ m.action = "CREATE_SESSION"
      /\ status[n] = "running"
  BY <1>1 DEF Case, Popped
<1>3. m.id \in ConnIds /\ state[n][m.id] = "NONE" /\ responder[m.id] = n
  BY <1>2, PoppedInv, StateAtPop DEF MessageInv, FromInitiator
<1>4. CASE handle[n]
  <2>1. CREATE_SESSION(n, m) /\ NewSession(n, m.id) /\ ~Listed(n, m.id)
    BY <1>4 DEF internal_incoming
  <2>2. /\ state' = [state EXCEPT ![n][m.id] = "E_CRS_CHALLENGE_REPLY"]
        /\ UNCHANGED <<status, noteVars>>
    BY <2>1 DEF CREATE_SESSION, connection_controller_add_connection_request
  <2> QED
    BY <1>2, <1>3, <1>4, <2>1, <2>2 DEF Opened, NewSession, noteVars
<1>5. CASE ~handle[n]
  BY <1>2, <1>3, <1>5 DEF internal_incoming, Accepted, noteVars,
     connection_controller_add_connection_request
<1> QED
  BY <1>3, <1>4, <1>5

LEMMA HeardKind ==
    ASSUME IInv, NEW n \in Nodes, NEW m \in inbox, internal_message_received(n, m)
    PROVE  \E c \in ConnIds, t \in Texts \cup {Garbled} : Heard(n, c, t)
<1>1. /\ COMMUNICATING_SESSION(n, m) /\ Listed(n, m.id) /\ secret[n][m.id] # NULL
      /\ UNCHANGED listVars
  BY DEF internal_message_received
<1>2. /\ m.recipient = n /\ m.action = "COMMUNICATING_SESSION" /\ status[n] = "running"
  BY <1>1 DEF COMMUNICATING_SESSION, Case, Popped
<1>3. m.id \in ConnIds /\ symmetrical_decrypt(secret[n][m.id], m.data) \in Texts \cup {Garbled}
  BY <1>1, <1>2, PoppedInv, TextDecrypted
<1>4. /\ received' = received \cup {<<n, m.id, symmetrical_decrypt(secret[n][m.id], m.data)>>}
      /\ UNCHANGED <<state, status, sent>>
  BY <1>1 DEF COMMUNICATING_SESSION, NoSecret, connVars
<1>5. Heard(n, m.id, symmetrical_decrypt(secret[n][m.id], m.data))
  BY <1>1, <1>2, <1>4 DEF Heard, internal_message_received
<1> QED
  BY <1>3, <1>5

(* The cases of the processor that call nothing of the session controller. *)
LEMMA ProcessedKind ==
    ASSUME IInv, NEW n \in Nodes, NEW m \in inbox, UNCHANGED sessionVars,
           \/ message_from_unknown_sender(n, m)
           \/ message_from_this_node(n, m)
           \/ RESPONDING_CREATED_SESSION(n, m)
           \/ SHARING_SESSION_KEY(n, m)
           \/ COMPLETED_SESSION(n, m)
           \/ CREATE_SESSION(n, m) /\ Listed(n, m.id)
           \/ COMMUNICATING_SESSION(n, m) /\ ~(Listed(n, m.id) /\ secret[n][m.id] # NULL)
    PROVE  Unnoticed(n) \/ \E c \in ConnIds : Proceeded(n, c)
<1>1. internal_connnection_message_processor(n, m)
  BY DEF internal_connnection_message_processor
<1>2. /\ status[n] = "running" /\ m.recipient = n /\ m.id \in ConnIds
  BY <1>1, ProcessorPops, PoppedInv DEF Popped
<1>3. ASSUME NEW where \in Exits \ {"check_scontroller_handle"}, Exit(n, where)
      PROVE  Unnoticed(n)
  BY <1>2, <1>3 DEF Exit, Unnoticed, connVars, noteVars
<1>4. CASE message_from_unknown_sender(n, m) \/ message_from_this_node(n, m)
  BY <1>3, <1>4 DEF message_from_unknown_sender, message_from_this_node, Exits
<1>5. CASE RESPONDING_CREATED_SESSION(n, m)
  <2>1. CASE Exit(n, "reply_without_connection")
    BY <1>3, <2>1 DEF Exits
  <2>2. CASE ~Exit(n, "reply_without_connection")
    <3>1. UNCHANGED <<sent, received>>
      BY <1>5, <2>2 DEF RESPONDING_CREATED_SESSION, noteVars
    <3> QED
      BY <1>2, <1>5, <2>2, <3>1, RespondingEffect DEF Proceeded
  <2> QED
    BY <2>1, <2>2
<1>6. CASE SHARING_SESSION_KEY(n, m)
  <2>1. CASE Exit(n, "check_oconnection")
    BY <1>3, <2>1 DEF Exits
  <2>2. CASE ~Exit(n, "check_oconnection")
    <3>1. UNCHANGED <<sent, received>>
      BY <1>6, <2>2 DEF SHARING_SESSION_KEY, Exit, noteVars
    <3> QED
      BY <1>2, <1>6, <2>2, <3>1, SharingEffect DEF Proceeded
  <2> QED
    BY <2>1, <2>2
<1>7. CASE COMPLETED_SESSION(n, m)
  <2>1. CASE Exit(n, "check_oconnection")
    BY <1>3, <2>1 DEF Exits
  <2>2. CASE ~Exit(n, "check_oconnection")
    <3>1. UNCHANGED <<sent, received>>
      BY <1>7, <2>2 DEF COMPLETED_SESSION, NoSecret, Exit, noteVars
    <3> QED
      BY <1>2, <1>7, <2>2, <3>1, CompletedEffect DEF Proceeded
  <2> QED
    BY <2>1, <2>2
<1>8. CASE CREATE_SESSION(n, m) /\ Listed(n, m.id)
  BY <1>8, CreateEffect DEF Listed
<1>9. CASE COMMUNICATING_SESSION(n, m) /\ ~(Listed(n, m.id) /\ secret[n][m.id] # NULL)
  <2>1. Exit(n, "null_oconnection") \/ Exit(n, "null_secret")
    BY <1>9 DEF COMMUNICATING_SESSION, NoSecret
  <2> QED
    BY <1>3, <2>1 DEF Exits
<1> QED
  BY <1>4, <1>5, <1>6, <1>7, <1>8, <1>9

LEMMA UnnoticedKind ==
    ASSUME IInv, NEW n \in Nodes, UNCHANGED sessionVars,
           \/ \E p \in Nodes : handle_peer(n, p)
           \/ wpprotocol_mux_tick(n)
           \/ wpprotocol_mux_pop_nothing(n)
    PROVE  Unnoticed(n)
<1>1. status = [status EXCEPT ![n] = status[n]]
  BY DEF IInv, TypeOK
<1>2. CASE \E p \in Nodes : handle_peer(n, p)
  BY <1>1, <1>2 DEF handle_peer, Unnoticed, connVars, noteVars
<1>3. CASE wpprotocol_mux_tick(n)
  <2>1. status[n] = "running" /\ UNCHANGED <<state, sent, received>>
    BY <1>3 DEF wpprotocol_mux_tick, Idle, connVars, noteVars
  <2>2. status' = status \/ status' = [status EXCEPT ![n] = "null_remote_peer"]
    BY <1>3 DEF wpprotocol_mux_tick, internal_connection_control_emitter
  <2> QED
    BY <1>1, <2>1, <2>2 DEF Unnoticed, Exits
<1>4. CASE wpprotocol_mux_pop_nothing(n)
  BY <1>1, <1>4 DEF wpprotocol_mux_pop_nothing, Unnoticed, connVars, noteVars
<1> QED
  BY <1>2, <1>3, <1>4

(* Every step is one of these, or a call that ConnectionController does not see. *)
Kinds(n) ==
    \/ \E s, c \in ConnIds : Opened(n, s, c)
    \/ \E c \in ConnIds : Accepted(n, c) \/ Proceeded(n, c)
    \/ \E c \in ConnIds, t \in Texts \cup {Garbled} : Heard(n, c, t)
    \/ Unnoticed(n)
    \/ \E s \in ConnIds, t \in Texts : session_controller_session_send_message(n, s, t)
    \/ session_controller_destroy(n)
    \/ session_controller_create(n)

LEMMA StepKinds == ASSUME IInv, NEW n \in Nodes, NodeNext(n) PROVE Kinds(n)
<1>1. ASSUME NEW r \in Nodes, NEW c \in ConnIds, session_controller_session_create(n, r, c)
      PROVE  Opened(n, c, c)
  BY <1>1, OpeningKind DEF session_controller_session_create, NewSession
<1>2. ASSUME NEW r \in Nodes, NEW c \in ConnIds, NEW s \in ConnIds,
             session_controller_session_add_peer(n, s, r, c)
      PROVE  Opened(n, s, c)
  <2>1. s \in ToSet(session_list[n])
    BY <1>2 DEF session_controller_session_add_peer, Contains, ToSet
  <2> QED
    BY <1>2, <2>1, OpeningKind DEF session_controller_session_add_peer
<1>3. ASSUME system_mux_pop(n) PROVE Kinds(n)
  <2>1. ASSUME NEW m \in inbox, internal_incoming(n, m) PROVE Kinds(n)
    BY <2>1, IncomingKind DEF Kinds
  <2>2. ASSUME NEW m \in inbox, internal_message_received(n, m) PROVE Kinds(n)
    BY <2>2, HeardKind DEF Kinds
  <2>3. ASSUME processed_without_session(n) PROVE Kinds(n)
    <3>1. CASE wpprotocol_mux_pop_nothing(n)
      BY <2>3, <3>1, UnnoticedKind DEF processed_without_session, Kinds
    <3>2. CASE ~wpprotocol_mux_pop_nothing(n)
      BY <2>3, <3>2, ProcessedKind DEF processed_without_session, Kinds
    <3> QED
      BY <3>1, <3>2
  <2> QED
    BY <1>3, <2>1, <2>2, <2>3 DEF system_mux_pop
<1>4. ASSUME UNCHANGED sessionVars,
             (\E p \in Nodes : handle_peer(n, p)) \/ wpprotocol_mux_tick(n)
      PROVE  Kinds(n)
  BY <1>4, UnnoticedKind DEF Kinds
<1>5. CASE \E r \in Nodes, c \in ConnIds :
              \/ session_controller_session_create(n, r, c)
              \/ \E s \in ConnIds : session_controller_session_add_peer(n, s, r, c)
  BY <1>1, <1>2, <1>5 DEF Kinds
<1>6. CASE \/ \E s \in ConnIds, t \in Texts : session_controller_session_send_message(n, s, t)
           \/ session_controller_destroy(n)
           \/ session_controller_create(n)
  BY <1>6 DEF Kinds
<1> QED
  BY <1>3, <1>4, <1>5, <1>6 DEF NodeNext
-----------------------------------------------------------------------------
(* The connections below the sessions. *)

(* The steps that ConnectionController has too. *)
LEMMA ConnectionStep ==
    ASSUME NEW n \in Nodes, NodeNext(n)
    PROVE  \/ [Next]_vars
           \/ \E s \in ConnIds, t \in Texts : session_controller_session_send_message(n, s, t)
           \/ \E m \in inbox : ~handle[n] /\ internal_incoming(n, m)
<1>1. ASSUME NEW m \in inbox, internal_connnection_message_processor(n, m) PROVE Next
  BY <1>1 DEF Next, connection_controller_tick, wpprotocol_mux_pop
<1>2. ASSUME NEW r \in Nodes, NEW c \in ConnIds,
             connection_controller_initiation_request(n, r, c)
      PROVE  Next
  BY <1>2 DEF Next, Application
<1>3. CASE \E p \in Nodes : handle_peer(n, p) /\ UNCHANGED sessionVars
  BY <1>3 DEF Next
<1>4. CASE \E r \in Nodes, c \in ConnIds :
              \/ session_controller_session_create(n, r, c)
              \/ \E s \in ConnIds : session_controller_session_add_peer(n, s, r, c)
  BY <1>2, <1>4 DEF session_controller_session_create, session_controller_session_add_peer
<1>5. CASE session_controller_destroy(n) \/ session_controller_create(n)
  BY <1>5 DEF session_controller_destroy, session_controller_create, connectionVars
<1>6. CASE wpprotocol_mux_tick(n) /\ UNCHANGED sessionVars
  BY <1>6 DEF Next, connection_controller_tick
<1>7. CASE system_mux_pop(n)
  <2>1. ASSUME NEW m \in inbox, internal_incoming(n, m)
        PROVE  Next \/ ~handle[n]
    BY <1>1, <2>1 DEF internal_incoming, internal_connnection_message_processor
  <2>2. ASSUME NEW m \in inbox, internal_message_received(n, m) PROVE Next
    BY <1>1, <2>2 DEF internal_message_received, internal_connnection_message_processor
  <2>3. ASSUME processed_without_session(n) PROVE Next
    <3>1. CASE wpprotocol_mux_pop_nothing(n)
      BY <3>1 DEF Next, connection_controller_tick, wpprotocol_mux_pop
    <3>2. CASE ~wpprotocol_mux_pop_nothing(n)
      BY <1>1, <2>3, <3>2 DEF processed_without_session, internal_connnection_message_processor
    <3> QED
      BY <3>1, <3>2
  <2> QED
    BY <1>7, <2>1, <2>2, <2>3 DEF system_mux_pop
<1> QED
  BY <1>3, <1>4, <1>5, <1>6, <1>7 DEF NodeNext

(* A text for a session goes to complete connections of it. *)
Reached(n, s) ==
    LET list == connection_request_list[n][s]
    IN  {list[i] : i \in {k \in DOMAIN list : \A j \in 1..k : Complete(n, list[j])}}

LEMMA SendEffect ==
    ASSUME ListsInv, NEW n \in Nodes, NEW s \in ConnIds, NEW t \in Texts,
           session_controller_session_send_message(n, s, t)
    PROVE  /\ status[n] = "running" /\ handle[n] /\ s \in ToSet(session_list[n])
           /\ Reached(n, s) # {} /\ Reached(n, s) \subseteq Of(n, s)
           /\ Reached(n, s) \in SUBSET ConnIds
           /\ \A c \in Reached(n, s) : state[n][c] = "E_CRS_COMPLETE"
           /\ \A c \in Of(n, s) : <<n, c, t>> \notin sent
           /\ sent' = sent \cup {<<n, c, t>> : c \in Reached(n, s)}
           /\ \E whole \in [Reached(n, s) -> BOOLEAN] :
                 pending' = pending \cup
                    {connection_request_send_message(n, c, remote[n][c], secret[n][c], t, whole[c]) :
                        c \in Reached(n, s)}
           /\ UNCHANGED <<peerVars, originVars, connVars, inbox, ticking, status, completed,
                          received, sessionVars>>
<1>1. connection_request_list[n][s] \in Seq(ConnIds)
  BY DEF ListsInv, ListsTypeOK
<1>2. /\ Reached(n, s) \subseteq Of(n, s) /\ Of(n, s) \subseteq ConnIds
      /\ \A c \in Reached(n, s) : state[n][c] = "E_CRS_COMPLETE"
  <2> DEFINE list == connection_request_list[n][s]
  <2>1. \A k \in DOMAIN list : k \in 1..k
    BY <1>1
  <2> QED
    BY <1>1, <2>1 DEF Reached, Of, ToSet, Complete
<1>3. s \in ToSet(session_list[n])
  BY DEF session_controller_session_send_message, Contains, ToSet
<1> QED
  BY <1>2, <1>3 DEF session_controller_session_send_message, Reached, Idle

(* The connections keep their invariant under the sessions. *)
LEMMA SystemConnections ==
    ASSUME IInv, ListsInv, [SystemNext]_systemVars
    PROVE  IInv'
<1>1. ASSUME NEW n \in Nodes, NEW s \in ConnIds, NEW t \in Texts,
             session_controller_session_send_message(n, s, t)
      PROVE  IInv'
  <2>1. PICK whole \in [Reached(n, s) -> BOOLEAN] :
            pending' = pending \cup
                {connection_request_send_message(n, c, remote[n][c], secret[n][c], t, whole[c]) :
                    c \in Reached(n, s)}
    BY <1>1, SendEffect
  <2>2. /\ Reached(n, s) \in SUBSET ConnIds
        /\ \A c \in Reached(n, s) : state[n][c] = "E_CRS_COMPLETE"
        /\ sent' = sent \cup {<<n, c, t>> : c \in Reached(n, s)}
        /\ UNCHANGED <<peerVars, originVars, connVars, inbox, ticking, status, completed, received>>
    BY <1>1, SendEffect
  <2> QED
    BY <2>1, <2>2, TextsSentInv
<1>2. ASSUME NEW n \in Nodes, NEW m \in inbox, ~handle[n], internal_incoming(n, m)
      PROVE  IInv'
  <2>1. /\ Case(n, m, "CREATE_SESSION")
        /\ connection_request_create(n, m.id, m.sender)
        /\ connection_controller_add_connection_request(n, m.id, "E_CRS_CHALLENGE_REPLY")
        /\ pending' = pending \cup {challenge_reply_message(n, m.id, m.sender)}
        /\ status' = [status EXCEPT ![n] = "check_scontroller_handle"]
        /\ UNCHANGED noteVars
    BY <1>2 DEF internal_incoming
  <2>2. status' \in [Nodes -> {"running", "destroyed"} \cup Exits]
    BY <2>1 DEF IInv, TypeOK, Exits
  <2> QED
    BY <2>1, <2>2, AcceptedInv
<1>3. CASE UNCHANGED systemVars
  <2>1. UNCHANGED vars
    BY <1>3 DEF systemVars, connectionVars
  <2> QED
    BY <2>1, NextInv
<1> QED
  BY <1>1, <1>2, <1>3, ConnectionStep, NextInv DEF SystemNext

(* The ends of a connection stay settled, and texts come from its other end. *)
SystemEnds ==
    \A c \in ConnIds :
        \/ initiator'[c] = initiator[c] /\ responder'[c] = responder[c]
        \/ initiator[c] = NULL /\ responder[c] = NULL

SystemReceives ==
    /\ sent \subseteq sent'
    /\ \/ received' = received
       \/ \E n \in Nodes, c \in ConnIds, t \in Texts \cup {Garbled} :
             Delivers(n, c, t) /\ received' = received \cup {<<n, c, t>>}

LEMMA SystemNotes ==
    ASSUME IInv, ListsInv, [SystemNext]_systemVars
    PROVE  SystemEnds /\ SystemReceives
<1>1. ASSUME [Next]_vars PROVE SystemEnds /\ SystemReceives
  BY <1>1, EndsSettled, ReceivedStep DEF SystemEnds, SystemReceives
<1>2. ASSUME NEW n \in Nodes, NEW s \in ConnIds, NEW t \in Texts,
             session_controller_session_send_message(n, s, t)
      PROVE  SystemEnds /\ SystemReceives
  BY <1>2 DEF session_controller_session_send_message, SystemEnds, SystemReceives, originVars
<1>3. ASSUME NEW n \in Nodes, NEW m \in inbox, ~handle[n], internal_incoming(n, m)
      PROVE  SystemEnds /\ SystemReceives
  BY <1>3 DEF internal_incoming, Case, Popped, SystemEnds, SystemReceives, originVars, noteVars
<1>4. CASE UNCHANGED systemVars
  BY <1>1, <1>4 DEF systemVars, connectionVars
<1> QED
  BY <1>1, <1>2, <1>3, <1>4, ConnectionStep DEF SystemNext

LEMMA SystemIntegrity ==
    ASSUME IInv, ListsInv, MessageIntegrity, [SystemNext]_systemVars
    PROVE  MessageIntegrity'
BY SystemNotes, IntegrityKept DEF SystemEnds, SystemReceives
-----------------------------------------------------------------------------
(* The sessions and their connections.                                     *)

(* What a step at n leaves alone at another node p. *)
LEMMA Bystander ==
    ASSUME IInv, ListsInv, NEW n \in Nodes, Kinds(n), NEW p \in Nodes, p # n
    PROVE  /\ status[n] = "running" /\ status'[p] = status[p]
           /\ state'[p] = state[p]
           /\ session_list'[p] = session_list[p]
           /\ connection_request_list'[p] = connection_request_list[p]
           /\ destroyed'[p] = destroyed[p] /\ handle'[p] = handle[p]
<1> DEFINE Goal == /\ status[n] = "running" /\ status'[p] = status[p]
                   /\ state'[p] = state[p]
                   /\ session_list'[p] = session_list[p]
                   /\ connection_request_list'[p] = connection_request_list[p]
                   /\ destroyed'[p] = destroyed[p] /\ handle'[p] = handle[p]
<1> USE DEF sessionVars, listVars
<1>1. ASSUME NEW s \in ConnIds, NEW c \in ConnIds, Opened(n, s, c) PROVE Goal
  <2>1. state'[p] = state[p]
    BY <1>1 DEF Opened, IInv, TypeOK
  <2>2. connection_request_list'[p] = connection_request_list[p]
    BY <1>1 DEF Opened, session_add_connection, ListsInv, ListsTypeOK
  <2>3. session_list'[p] = session_list[p]
    BY <1>1 DEF Opened, ListsInv, ListsTypeOK
  <2> QED
    BY <1>1, <2>1, <2>2, <2>3 DEF Opened
<1>2. ASSUME NEW c \in ConnIds, Accepted(n, c) \/ Proceeded(n, c) PROVE Goal
  BY <1>2 DEF Accepted, Proceeded, IInv, TypeOK
<1>3. ASSUME NEW c \in ConnIds, NEW t \in Texts \cup {Garbled}, Heard(n, c, t) PROVE Goal
  BY <1>3 DEF Heard
<1>4. ASSUME Unnoticed(n) PROVE Goal
  BY <1>4 DEF Unnoticed, IInv, TypeOK
<1>5. ASSUME NEW s \in ConnIds, NEW t \in Texts, session_controller_session_send_message(n, s, t)
      PROVE  Goal
  BY <1>5 DEF session_controller_session_send_message, Idle, connVars
<1>6. ASSUME session_controller_destroy(n) \/ session_controller_create(n) PROVE Goal
  BY <1>6 DEF session_controller_destroy, session_controller_create, Idle, ListsInv, ListsTypeOK,
              connectionVars, vars, connVars
<1> HIDE DEF Goal
<1>7. Goal
  BY <1>1, <1>2, <1>3, <1>4, <1>5, <1>6 DEF Kinds
<1> QED
  BY <1>7 DEF Goal

(* A connection that enters a session was in none. *)
LEMMA OpenedFacts ==
    ASSUME IInv, ListsInv, NEW n \in Nodes, NEW s \in ConnIds, NEW c \in ConnIds,
           Opened(n, s, c)
    PROVE  /\ connection_request_list' \in [Nodes -> [ConnIds -> Seq(ConnIds)]]
           /\ session_list' \in [Nodes -> Seq(ConnIds)]
           /\ \A q \in ConnIds : c \notin Of(n, q)
           /\ IF s = c THEN Of(n, s) = {} ELSE s \in ToSet(session_list[n])
           /\ s \notin destroyed[n]
           /\ Of(n, s)' = Of(n, s) \cup {c}
           /\ \A p \in Nodes, q \in ConnIds : p # n \/ q # s => Of(p, q)' = Of(p, q)
           /\ \A p \in Nodes, d \in ConnIds : Listed(p, d)' <=> Listed(p, d) \/ (p = n /\ d = c)
           /\ SessionOf(n, c) = {} /\ SessionOf(n, c)' = {s}
           /\ \A p \in Nodes, d \in ConnIds :
                 p # n \/ d # c => SessionOf(p, d)' = SessionOf(p, d)
           /\ \A p \in Nodes : ToSet(session_list'[p]) =
                 ToSet(session_list[p]) \cup (IF p = n THEN {s} ELSE {})
<1>1. ~Listed(n, c) /\ \A q \in ConnIds : c \notin Of(n, q)
  BY DEF Opened, Listed, ListsInv, MembersInv
<1>2. Of(n, c) = {} /\ c \notin ToSet(session_list[n]) /\ c \notin destroyed[n]
  <2>1. Of(n, c) = {}
    BY <1>1 DEF ListsInv, MembersInv
  <2> QED
    BY <2>1 DEF ListsInv, MembersInv, ControllerInv
<1>3. /\ IF s = c THEN session_list' = [session_list EXCEPT ![n] = Append(@, c)]
                  ELSE s \in ToSet(session_list[n]) /\ session_list' = session_list
      /\ s \notin destroyed[n]
  BY <1>2 DEF Opened, ListsInv, ControllerInv
<1>4. connection_request_list[n][s] \in Seq(ConnIds) /\ session_list[n] \in Seq(ConnIds)
  BY DEF ListsInv, ListsTypeOK
<1>5. /\ connection_request_list' \in [Nodes -> [ConnIds -> Seq(ConnIds)]]
      /\ connection_request_list'[n][s] = Append(connection_request_list[n][s], c)
      /\ \A p \in Nodes, q \in ConnIds : p # n \/ q # s =>
            connection_request_list'[p][q] = connection_request_list[p][q]
  BY <1>4, ListAppended DEF Opened, session_add_connection, ListsInv, ListsTypeOK
<1>6. /\ session_list' \in [Nodes -> Seq(ConnIds)]
      /\ \A p \in Nodes : ToSet(session_list'[p]) =
            ToSet(session_list[p]) \cup (IF p = n THEN {s} ELSE {})
  <2>1. CASE s = c
    <3>1. session_list' = [session_list EXCEPT ![n] = Append(@, c)]
      BY <1>3, <2>1
    <3>2. /\ Append(session_list[n], c) \in Seq(ConnIds)
          /\ ToSet(Append(session_list[n], c)) = ToSet(session_list[n]) \cup {s}
      BY <1>4, <2>1, ListAppended
    <3>3. session_list \in [Nodes -> Seq(ConnIds)]
      BY DEF ListsInv, ListsTypeOK
    <3> QED
      BY <3>1, <3>2, <3>3
  <2>2. CASE s # c
    BY <1>3, <2>2 DEF ListsInv, ListsTypeOK
  <2> QED
    BY <2>1, <2>2
<1>7. /\ Of(n, s)' = Of(n, s) \cup {c}
      /\ \A p \in Nodes, q \in ConnIds : p # n \/ q # s => Of(p, q)' = Of(p, q)
  BY <1>4, <1>5, ListAppended DEF Of
<1>8. \A p \in Nodes, d \in ConnIds : Listed(p, d)' <=> Listed(p, d) \/ (p = n /\ d = c)
  BY DEF Opened, Listed, IInv, TypeOK
<1>9. /\ SessionOf(n, c) = {} /\ SessionOf(n, c)' = {s}
      /\ \A p \in Nodes, d \in ConnIds : p # n \/ d # c => SessionOf(p, d)' = SessionOf(p, d)
  BY <1>1, <1>7 DEF SessionOf
<1> QED
  BY <1>1, <1>2, <1>3, <1>5, <1>6, <1>7, <1>8, <1>9

(* The notifications of a text are about the session of its connection. *)
LEMMA NotifiedWithin ==
    ASSUME ListsInv, NEW n \in Nodes, NEW c \in ConnIds, NEW t, NEW x \in Notifications(n, c, t)
    PROVE  \E s \in ToSet(session_list[n]) : \E d \in Of(n, s) :
              /\ c \in Of(n, s) /\ s \in ConnIds /\ d \in ConnIds
              /\ x = <<n, s, d, c, t>>
<1>1. PICK s \in ToSet(session_list[n]) : x \in {<<n, s, d, c, t>> : d \in FoundIn(n, s, c)}
  BY DEF Notifications
<1>2. PICK d \in FoundIn(n, s, c) : x = <<n, s, d, c, t>>
  BY <1>1
<1>3. session_list[n] \in Seq(ConnIds)
  BY DEF ListsInv, ListsTypeOK
<1>4. s \in ConnIds
  BY <1>3, ListElements
<1>5. connection_request_list[n][s] \in Seq(ConnIds)
  BY <1>4 DEF ListsInv, ListsTypeOK
<1>6. d \in Of(n, s) /\ c \in Of(n, s)
  BY <1>5 DEF FoundIn, Of, ToSet
<1>7. d \in ConnIds
  BY <1>5, <1>6, ListElements DEF Of
<1> QED
  BY <1>2, <1>4, <1>6, <1>7

(* The lists stay right when they do not change, if what else changes is about
   the connections in them. *)
LEMMA ListsKept ==
    ASSUME ListsInv, UNCHANGED listVars,
           \A p \in Nodes, d \in ConnIds : Listed(p, d) => Listed(p, d)',
           \A p \in Nodes, d \in ConnIds : Listed(p, d)' /\ SessionOf(p, d) = {} =>
               status'[p] = "check_scontroller_handle" /\ ~handle[p] /\ responder'[d] = p,
           \A x \in sent' : SessionOf(x[1], x[2]) # {},
           notified' \subseteq Nodes \X ConnIds \X ConnIds \X ConnIds \X (Texts \cup {Garbled}),
           \A x \in notified' : x[4] \in Of(x[1], x[2]) /\ <<x[1], x[4], x[5]>> \in received'
    PROVE  ListsInv'
<1>1. /\ \A n, s : Of(n, s)' = Of(n, s)
      /\ \A n, c : SessionOf(n, c)' = SessionOf(n, c)
      /\ session_list' = session_list /\ destroyed' = destroyed /\ handle' = handle
      /\ connection_request_list' = connection_request_list
  BY DEF listVars, Of, SessionOf
<1>2. ListsTypeOK' /\ NotesInv'
  BY <1>1 DEF ListsInv, ListsTypeOK, NotesInv
<1>3. ASSUME NEW n \in Nodes PROVE ControllerInv(n)'
  BY <1>1, <1>3 DEF ListsInv, ControllerInv
<1>4. ASSUME NEW n \in Nodes, NEW s \in ConnIds PROVE MembersInv(n, s)'
  <2>1. Of(n, s) \subseteq ConnIds
    BY ListElements DEF ListsInv, ListsTypeOK, Of
  <2>2. MembersInv(n, s)
    BY DEF ListsInv
  <2> QED
    BY <1>1, <2>1, <2>2 DEF MembersInv
<1> QED
  BY <1>2, <1>3, <1>4 DEF ListsInv

(* What was known of a connection without a session remains so. *)
LEMMA UnheldKept ==
    ASSUME ListsInv, SystemEnds, NEW p \in Nodes, NEW d \in ConnIds,
           Listed(p, d), SessionOf(p, d) = {},
           status[p] = "check_scontroller_handle" => status'[p] = status[p]
    PROVE  status'[p] = "check_scontroller_handle" /\ ~handle[p] /\ responder'[d] = p
BY ConstantsAssumption DEF ListsInv, ControllerInv, SystemEnds

LEMMA ListsStep ==
    ASSUME IInv, ListsInv, SystemEnds, NEW n \in Nodes, Kinds(n)
    PROVE  ListsInv'
<1>1. ASSUME UNCHANGED listVars,
             \A p \in Nodes, d \in ConnIds : Listed(p, d)' <=> Listed(p, d),
             \A p \in Nodes : status[p] = "check_scontroller_handle" => status'[p] = status[p],
             \A x \in sent' : SessionOf(x[1], x[2]) # {},
             notified' \subseteq Nodes \X ConnIds \X ConnIds \X ConnIds \X (Texts \cup {Garbled}),
             \A x \in notified' : x[4] \in Of(x[1], x[2]) /\ <<x[1], x[4], x[5]>> \in received'
      PROVE  ListsInv'
  BY <1>1, ListsKept, UnheldKept
<1>2. ASSUME NEW s \in ConnIds, NEW c \in ConnIds, Opened(n, s, c) PROVE ListsInv'
  <2>1. /\ destroyed' = destroyed /\ handle' = handle /\ notified' = notified
        /\ sent' = sent /\ received' = received /\ status' = status
        /\ handle[n]
    BY <1>2 DEF Opened
  <2>2. ASSUME NEW p \in Nodes, NEW q \in ConnIds
        PROVE  MembersInv(p, q)'
    <3>1. CASE p = n /\ q = s
      <4>1. s \in Of(n, s) \cup {c}
        BY <1>2, OpenedFacts DEF ListsInv, MembersInv, ControllerInv
      <4>2. \A d \in Of(n, s) : Listed(n, d)' /\ SessionOf(n, d)' = {s}
        <5>1. \A d \in Of(n, s) : d \in ConnIds /\ d # c /\ Listed(n, d) /\ SessionOf(n, d) = {s}
          <6>1. Of(n, s) \subseteq ConnIds
            BY ListElements DEF ListsInv, ListsTypeOK, Of
          <6>2. c \notin Of(n, s)
            BY <1>2, OpenedFacts
          <6>3. MembersInv(n, s)
            BY DEF ListsInv
          <6> QED
            BY <6>1, <6>2, <6>3 DEF MembersInv
        <5> QED
          BY <1>2, <5>1, OpenedFacts
      <4>3. Listed(n, c)' /\ SessionOf(n, c)' = {s}
        BY <1>2, OpenedFacts
      <4>4. Of(n, s)' = Of(n, s) \cup {c}
        BY <1>2, OpenedFacts
      <4> QED
        BY <3>1, <4>1, <4>2, <4>3, <4>4 DEF MembersInv
    <3>2. CASE p # n \/ q # s
      <4>1. Of(p, q)' = Of(p, q)
        BY <1>2, <3>2, OpenedFacts
      <4>2. \A d \in Of(p, q) : d \in ConnIds /\ Listed(p, d) /\ SessionOf(p, d) = {q}
        BY ListElements DEF ListsInv, ListsTypeOK, MembersInv, Of
      <4>3. \A d \in Of(p, q) : p # n \/ d # c
        BY <1>2, OpenedFacts
      <4>4. \A d \in Of(p, q) : Listed(p, d)' /\ SessionOf(p, d)' = {q}
        BY <1>2, <4>2, <4>3, OpenedFacts
      <4> QED
        BY <2>1, <4>1, <4>4 DEF ListsInv, MembersInv
    <3> QED
      BY <3>1, <3>2
  <2>3. ASSUME NEW p \in Nodes
        PROVE  ToSet(session_list'[p]) = {q \in ConnIds : Of(p, q)' # {}} \ destroyed'[p]
    <3>1. ToSet(session_list[p]) = {q \in ConnIds : Of(p, q) # {}} \ destroyed[p]
      BY DEF ListsInv, ControllerInv
    <3>2. {q \in ConnIds : Of(p, q)' # {}} =
             {q \in ConnIds : Of(p, q) # {}} \cup (IF p = n THEN {s} ELSE {})
      <4>1. Of(n, s)' # {}
        BY <1>2, OpenedFacts
      <4>2. \A o \in Nodes, q \in ConnIds : o # n \/ q # s => Of(o, q)' = Of(o, q)
        BY <1>2, OpenedFacts
      <4> QED
        BY <4>1, <4>2
    <3>3. \A o \in Nodes : ToSet(session_list'[o]) =
              ToSet(session_list[o]) \cup (IF o = n THEN {s} ELSE {})
      BY <1>2, OpenedFacts
    <3>4. s \notin destroyed[n]
      BY <1>2, OpenedFacts
    <3> QED
      BY <2>1, <3>1, <3>2, <3>3, <3>4
  <2>4. ASSUME NEW p \in Nodes, NEW d \in ConnIds, Listed(p, d)', SessionOf(p, d)' = {}
        PROVE  status'[p] = "check_scontroller_handle" /\ ~handle'[p] /\ responder'[d] = p
    <3>1. p # n \/ d # c
      <4>1. SessionOf(n, c)' = {s}
        BY <1>2, OpenedFacts
      <4> QED
        BY <2>4, <4>1
    <3>2. Listed(p, d)
      <4>1. \A o \in Nodes, e \in ConnIds : Listed(o, e)' <=> Listed(o, e) \/ (o = n /\ e = c)
        BY <1>2, OpenedFacts
      <4> QED
        BY <2>4, <3>1, <4>1
    <3>3. SessionOf(p, d) = {}
      <4>1. \A o \in Nodes, e \in ConnIds : o # n \/ e # c => SessionOf(o, e)' = SessionOf(o, e)
        BY <1>2, OpenedFacts
      <4> QED
        BY <2>4, <3>1, <4>1
    <3> QED
      BY <2>1, <3>2, <3>3, UnheldKept
  <2>5. ASSUME NEW p \in Nodes, ~handle'[p] PROVE session_list'[p] = <<>>
    <3>1. p # n
      BY <2>1, <2>5
    <3>2. session_list'[p] = session_list[p]
      BY <1>2, <3>1, Bystander DEF Kinds
    <3> QED
      BY <2>1, <2>5, <3>2 DEF ListsInv, ControllerInv
  <2>6. \A p \in Nodes, d \in ConnIds : SessionOf(p, d) # {} => SessionOf(p, d)' # {}
    BY <1>2, OpenedFacts
  <2>7. \A x \in sent' : SessionOf(x[1], x[2])' # {}
    <3>1. \A x \in sent : x[1] \in Nodes /\ x[2] \in ConnIds /\ SessionOf(x[1], x[2]) # {}
      BY DEF IInv, TypeOK, ListsInv, NotesInv
    <3> QED
      BY <2>1, <2>6, <3>1
  <2>8. \A x \in notified' : x[4] \in Of(x[1], x[2])' /\ <<x[1], x[4], x[5]>> \in received'
    <3>1. \A x \in notified : /\ x[1] \in Nodes /\ x[2] \in ConnIds /\ x[4] \in Of(x[1], x[2])
                              /\ <<x[1], x[4], x[5]>> \in received
      BY DEF ListsInv, ListsTypeOK, NotesInv
    <3>2. \A p \in Nodes, q \in ConnIds : Of(p, q) \subseteq Of(p, q)'
      BY <1>2, OpenedFacts
    <3> QED
      BY <2>1, <3>1, <3>2
  <2>9. ListsTypeOK'
    BY <1>2, <2>1, OpenedFacts DEF ListsInv, ListsTypeOK
  <2>10. \A p \in Nodes : ControllerInv(p)'
    BY <2>3, <2>4, <2>5 DEF ControllerInv
  <2> QED
    BY <2>2, <2>7, <2>8, <2>9, <2>10 DEF ListsInv, NotesInv
<1>3. ASSUME NEW c \in ConnIds, Accepted(n, c) PROVE ListsInv'
  <2>1. UNCHANGED listVars /\ sent' = sent /\ notified' = notified /\ received' = received
    BY <1>3 DEF Accepted, sessionVars
  <2>2. \A p \in Nodes, d \in ConnIds : Listed(p, d)' <=> Listed(p, d) \/ (p = n /\ d = c)
    BY <1>3 DEF Accepted, Listed, IInv, TypeOK
  <2>3. /\ status'[n] = "check_scontroller_handle" /\ ~handle[n]
        /\ \A p \in Nodes \ {n} : status'[p] = status[p]
        /\ responder'[c] = n
    BY <1>3, ConstantsAssumption DEF Accepted, IInv, TypeOK, SystemEnds
  <2>4. \A p \in Nodes, d \in ConnIds : Listed(p, d)' /\ SessionOf(p, d) = {} =>
            status'[p] = "check_scontroller_handle" /\ ~handle[p] /\ responder'[d] = p
    <3> SUFFICES ASSUME NEW p \in Nodes, NEW d \in ConnIds, Listed(p, d)', SessionOf(p, d) = {}
                 PROVE  status'[p] = "check_scontroller_handle" /\ ~handle[p] /\ responder'[d] = p
      OBVIOUS
    <3>1. CASE p = n /\ d = c
      BY <2>3, <3>1
    <3>2. CASE Listed(p, d)
      BY <1>3, <2>3, <3>2, UnheldKept DEF Accepted
    <3> QED
      BY <2>2, <3>1, <3>2
  <2>5. /\ \A x \in sent : SessionOf(x[1], x[2]) # {}
        /\ notified \subseteq Nodes \X ConnIds \X ConnIds \X ConnIds \X (Texts \cup {Garbled})
        /\ \A x \in notified : x[4] \in Of(x[1], x[2]) /\ <<x[1], x[4], x[5]>> \in received
    BY DEF ListsInv, ListsTypeOK, NotesInv
  <2> QED
    BY <2>1, <2>2, <2>4, <2>5, ListsKept
<1>4. ASSUME NEW c \in ConnIds, Proceeded(n, c) PROVE ListsInv'
  <2>1. UNCHANGED <<listVars, sent, notified, received, status>>
    BY <1>4 DEF Proceeded, sessionVars
  <2>2. \A p \in Nodes, d \in ConnIds : Listed(p, d)' <=> Listed(p, d)
    BY <1>4 DEF Proceeded, Listed, IInv, TypeOK
  <2> QED
    BY <1>1, <2>1, <2>2 DEF ListsInv, ListsTypeOK, NotesInv
<1>5. ASSUME NEW c \in ConnIds, NEW t \in Texts \cup {Garbled}, Heard(n, c, t) PROVE ListsInv'
  <2>1. /\ UNCHANGED <<listVars, sent, state, status>>
        /\ received' = received \cup {<<n, c, t>>}
        /\ notified' \subseteq notified \cup Notifications(n, c, t)
    BY <1>5 DEF Heard
  <2>2. \A p \in Nodes, d \in ConnIds : Listed(p, d)' <=> Listed(p, d)
    BY <2>1 DEF Listed
  <2>3. \A x \in Notifications(n, c, t) :
           /\ x \in Nodes \X ConnIds \X ConnIds \X ConnIds \X (Texts \cup {Garbled})
           /\ x[4] \in Of(x[1], x[2]) /\ <<x[1], x[4], x[5]>> = <<n, c, t>>
    BY NotifiedWithin
  <2>4. /\ notified' \subseteq Nodes \X ConnIds \X ConnIds \X ConnIds \X (Texts \cup {Garbled})
        /\ \A x \in notified' : x[4] \in Of(x[1], x[2]) /\ <<x[1], x[4], x[5]>> \in received'
    BY <2>1, <2>3 DEF ListsInv, ListsTypeOK, NotesInv
  <2>5. \A x \in sent' : SessionOf(x[1], x[2]) # {}
    BY <2>1 DEF ListsInv, NotesInv
  <2> QED
    BY <1>1, <2>1, <2>2, <2>4, <2>5
<1>6. ASSUME Unnoticed(n) PROVE ListsInv'
  <2>1. UNCHANGED <<listVars, sent, notified, received, state>>
    BY <1>6 DEF Unnoticed, sessionVars
  <2>2. \A p \in Nodes, d \in ConnIds : Listed(p, d)' <=> Listed(p, d)
    BY <2>1 DEF Listed
  <2>3. \A p \in Nodes : status[p] = "check_scontroller_handle" => status'[p] = status[p]
    BY <1>6 DEF Unnoticed, IInv, TypeOK
  <2> QED
    BY <1>1, <2>1, <2>2, <2>3 DEF ListsInv, ListsTypeOK, NotesInv
<1>7. ASSUME NEW s \in ConnIds, NEW t \in Texts, session_controller_session_send_message(n, s, t)
      PROVE  ListsInv'
  <2>1. /\ UNCHANGED <<listVars, notified, received, state, status>>
        /\ Reached(n, s) \subseteq Of(n, s)
        /\ sent' = sent \cup {<<n, c, t>> : c \in Reached(n, s)}
    BY <1>7, SendEffect DEF sessionVars, connVars
  <2>2. \A p \in Nodes, d \in ConnIds : Listed(p, d)' <=> Listed(p, d)
    BY <2>1 DEF Listed
  <2>3. \A c \in Of(n, s) : SessionOf(n, c) # {}
    BY DEF SessionOf
  <2>4. \A x \in sent' : SessionOf(x[1], x[2]) # {}
    BY <2>1, <2>3 DEF ListsInv, NotesInv
  <2> QED
    BY <1>1, <2>1, <2>2, <2>4 DEF ListsInv, ListsTypeOK, NotesInv
<1>8. ASSUME session_controller_destroy(n) \/ session_controller_create(n) PROVE ListsInv'
  <2>1. UNCHANGED <<connection_request_list, sent, notified, received, state, status>>
    BY <1>8 DEF session_controller_destroy, session_controller_create, connectionVars, vars,
                connVars, noteVars
  <2>2. /\ \A p, s : Of(p, s)' = Of(p, s)
        /\ \A p, c : SessionOf(p, c)' = SessionOf(p, c) /\ (Listed(p, c)' <=> Listed(p, c))
    BY <2>1 DEF Of, SessionOf, Listed
  <2>3. /\ ListsTypeOK'
        /\ \A p \in Nodes : ToSet(session_list'[p]) =
               {s \in ConnIds : Of(p, s) # {}} \ destroyed'[p]
        /\ \A p \in Nodes, s \in ConnIds : s \in destroyed'[p] => Of(p, s) # {}
        /\ \A p \in Nodes : ~handle'[p] => session_list'[p] = <<>>
        /\ \A p \in Nodes : status[p] = "check_scontroller_handle" => handle'[p] = handle[p]
    <3>1. CASE session_controller_destroy(n)
      <4>1. /\ status[n] = "running"
            /\ destroyed' = [destroyed EXCEPT ![n] = @ \cup ToSet(session_list[n])]
            /\ session_list' = [session_list EXCEPT ![n] = <<>>]
            /\ handle' = [handle EXCEPT ![n] = FALSE]
        BY <3>1 DEF session_controller_destroy, Idle
      <4>2. \A p \in Nodes : /\ ToSet(session_list[p]) = {s \in ConnIds : Of(p, s) # {}} \ destroyed[p]
                             /\ ~handle[p] => session_list[p] = <<>>
                             /\ \A s \in ConnIds : s \in destroyed[p] => Of(p, s) # {}
        BY DEF ListsInv, ControllerInv, MembersInv
      <4>3. ListsTypeOK'
        <5>1. ToSet(session_list[n]) \subseteq ConnIds /\ <<>> \in Seq(ConnIds)
          BY ListElements DEF ListsInv, ListsTypeOK
        <5> QED
          BY <2>1, <4>1, <5>1 DEF ListsInv, ListsTypeOK
      <4>4. /\ session_list'[n] = <<>> /\ destroyed'[n] = destroyed[n] \cup ToSet(session_list[n])
            /\ \A p \in Nodes \ {n} : /\ session_list'[p] = session_list[p]
                                      /\ destroyed'[p] = destroyed[p]
                                      /\ handle'[p] = handle[p]
        BY <4>1 DEF ListsInv, ListsTypeOK
      <4>5. ToSet(session_list'[n]) = {s \in ConnIds : Of(n, s) # {}} \ destroyed'[n]
        <5>1. /\ ToSet(session_list[n]) = {s \in ConnIds : Of(n, s) # {}} \ destroyed[n]
              /\ ToSet(session_list'[n]) = {}
          BY <4>2, <4>4, EmptyList
        <5> QED
          BY <4>4, <5>1
      <4>6. \A s \in ConnIds : s \in destroyed'[n] => Of(n, s) # {}
        <5>1. ToSet(session_list[n]) = {s \in ConnIds : Of(n, s) # {}} \ destroyed[n]
          BY <4>2
        <5> QED
          BY <4>2, <4>4, <5>1
      <4>7. ASSUME NEW p \in Nodes
            PROVE  /\ ToSet(session_list'[p]) = {s \in ConnIds : Of(p, s) # {}} \ destroyed'[p]
                   /\ \A s \in ConnIds : s \in destroyed'[p] => Of(p, s) # {}
                   /\ ~handle'[p] => session_list'[p] = <<>>
        <5>1. CASE p = n
          BY <4>4, <4>5, <4>6, <5>1
        <5>2. CASE p # n
          BY <4>2, <4>4, <5>2
        <5> QED
          BY <5>1, <5>2
      <4>8. \A p \in Nodes : status[p] = "check_scontroller_handle" => handle'[p] = handle[p]
        BY <4>1, <4>4
      <4> QED
        BY <4>3, <4>7, <4>8
    <3>2. CASE session_controller_create(n)
      <4>1. /\ status[n] = "running" /\ handle' = [handle EXCEPT ![n] = TRUE]
            /\ session_list' = session_list /\ destroyed' = destroyed
        BY <3>2 DEF session_controller_create, Idle
      <4> QED
        BY <2>1, <4>1 DEF ListsInv, ListsTypeOK, ControllerInv, MembersInv
    <3> QED
      BY <1>8, <3>1, <3>2
  <2>4. \A p \in Nodes, d \in ConnIds : Listed(p, d) /\ SessionOf(p, d) = {} =>
            status'[p] = "check_scontroller_handle" /\ ~handle'[p] /\ responder'[d] = p
    BY <2>1, <2>3, UnheldKept DEF ListsInv, ControllerInv
  <2>5. \A p \in Nodes : ControllerInv(p)'
    BY <2>2, <2>3, <2>4 DEF ControllerInv
  <2>6. ASSUME NEW p \in Nodes, NEW s \in ConnIds PROVE MembersInv(p, s)'
    <3>1. Of(p, s) \subseteq ConnIds /\ MembersInv(p, s)
      BY ListElements DEF ListsInv, ListsTypeOK, Of
    <3> QED
      BY <2>2, <2>3, <3>1 DEF MembersInv
  <2>7. NotesInv'
    BY <2>1, <2>2 DEF ListsInv, NotesInv
  <2> QED
    BY <2>3, <2>5, <2>6, <2>7 DEF ListsInv
<1> QED
  BY <1>2, <1>3, <1>4, <1>5, <1>6, <1>7, <1>8 DEF Kinds
-----------------------------------------------------------------------------
(* Why a process ends. *)

(* It is ended by the check of the callback. *)
Uncontrolled(p) ==
    /\ status[p] = "check_scontroller_handle" /\ ~handle[p]
    /\ \E c \in ConnIds : responder[c] = p /\ SessionOf(p, c) = {}

LEMMA UncontrolledStays ==
    ASSUME IInv, ListsInv, SystemEnds, NEW n \in Nodes, Kinds(n), NEW p \in Nodes,
           Uncontrolled(p)
    PROVE  Uncontrolled(p)'
<1>1. PICK c \in ConnIds : responder[c] = p /\ SessionOf(p, c) = {}
  BY DEF Uncontrolled
<1>2. p # n
  <2>1. CASE p = n
    <3>1. status[n] = "check_scontroller_handle"
      BY <2>1 DEF Uncontrolled
    <3> QED
      BY <2>1, <3>1 DEF Kinds, Opened, Accepted, Proceeded, Heard, Unnoticed,
         session_controller_session_send_message, session_controller_destroy,
         session_controller_create, Idle
  <2> QED
    BY <2>1
<1>3. /\ status'[p] = status[p] /\ handle'[p] = handle[p]
      /\ connection_request_list'[p] = connection_request_list[p]
  BY <1>2, Bystander
<1>4. SessionOf(p, c)' = SessionOf(p, c)
  BY <1>3 DEF SessionOf, Of
<1>5. responder'[c] = p
  BY <1>1, ConstantsAssumption DEF SystemEnds
<1> QED
  BY <1>1, <1>3, <1>4, <1>5 DEF Uncontrolled

LEMMA SystemExplained ==
    ASSUME IInv, ListsInv, SystemExitsExplained, [SystemNext]_systemVars
    PROVE  SystemExitsExplained'
<1>0. ASSUME NEW p \in Nodes, Explained(p)' \/ Uncontrolled(p)'
      PROVE  (Explained(p) \/ Uncontrolled(p))'
  BY <1>0
<1>1. \A p \in Nodes : Explained(p) \/ Uncontrolled(p)
  BY DEF SystemExitsExplained, Uncontrolled
<1>2. SUFFICES ASSUME NEW p \in Nodes PROVE (Explained(p) \/ Uncontrolled(p))'
  BY <1>2 DEF SystemExitsExplained, Uncontrolled
<1>3. SystemEnds
  BY SystemNotes
<1>4. ASSUME [Next]_vars, Explained(p) PROVE Explained(p)'
  BY <1>4, ExplainedKept
<1>5. ASSUME NEW n \in Nodes, NodeNext(n), Uncontrolled(p) PROVE Uncontrolled(p)'
  BY <1>3, <1>5, StepKinds, UncontrolledStays
<1>6. ASSUME NEW n \in Nodes, NEW s \in ConnIds, NEW t \in Texts,
             session_controller_session_send_message(n, s, t), Explained(p)
      PROVE  Explained(p)'
  <2>1. UNCHANGED <<known, initiator, responder, state, status>>
    BY <1>6 DEF session_controller_session_send_message, peerVars, originVars, connVars
  <2> QED
    BY <1>6, <2>1 DEF Explained
<1>7. ASSUME NEW n \in Nodes, NEW m \in inbox, ~handle[n], internal_incoming(n, m), Explained(p)
      PROVE  Explained(p)' \/ Uncontrolled(p)'
  <2>1. /\ ~handle[n] /\ ~Listed(n, m.id)
        /\ m.recipient = n /\ m.sender # n /\ m.action = "CREATE_SESSION"
        /\ state' = [state EXCEPT ![n][m.id] = "E_CRS_CHALLENGE_REPLY"]
        /\ status' = [status EXCEPT ![n] = "check_scontroller_handle"]
        /\ UNCHANGED <<known, initiator, responder, handle, connection_request_list>>
    BY <1>7 DEF internal_incoming, Case, Popped, peerVars, originVars, sessionVars, listVars,
       connection_controller_add_connection_request
  <2>2. m.id \in ConnIds /\ responder[m.id] = n
    BY <2>1, PoppedInv, StateAtPop DEF MessageInv, FromInitiator
  <2>3. CASE p = n
    <3>1. SessionOf(n, m.id) = {}
      BY <2>1, <2>2 DEF ListsInv, MembersInv, SessionOf
    <3>2. SessionOf(n, m.id)' = SessionOf(n, m.id)
      BY <2>1 DEF SessionOf, Of
    <3>3. status'[n] = "check_scontroller_handle" /\ ~handle'[n] /\ responder'[m.id] = n
      BY <2>1, <2>2 DEF IInv, TypeOK
    <3> QED
      BY <2>2, <2>3, <3>1, <3>2, <3>3 DEF Uncontrolled
  <2>4. CASE p # n
    <3>1. /\ status'[p] = status[p] /\ state'[p] = state[p] /\ known'[p] = known[p]
          /\ initiator' = initiator /\ responder' = responder
      BY <2>1, <2>4 DEF IInv, TypeOK
    <3> QED
      BY <1>7, <3>1 DEF Explained
  <2> QED
    BY <2>3, <2>4
<1>8. CASE UNCHANGED systemVars
  <2>1. /\ UNCHANGED vars /\ status' = status /\ handle' = handle /\ responder' = responder
        /\ connection_request_list' = connection_request_list
    BY <1>8 DEF systemVars, connectionVars, sessionVars, listVars, vars, originVars
  <2>2. Uncontrolled(p) => Uncontrolled(p)'
    BY <2>1 DEF Uncontrolled, SessionOf, Of
  <2> QED
    BY <1>0, <1>1, <1>4, <2>1, <2>2
<1>9. ASSUME NEW n \in Nodes, NodeNext(n), Explained(p)
      PROVE  Explained(p)' \/ Uncontrolled(p)'
  BY <1>4, <1>6, <1>7, <1>9, ConnectionStep
<1> QED
  BY <1>0, <1>1, <1>5, <1>8, <1>9 DEF SystemNext
-----------------------------------------------------------------------------
(* The invariant. *)

LEMMA SystemInvInit == SystemInit => SystemInv
<1> SUFFICES ASSUME SystemInit PROVE SystemInv
  OBVIOUS
<1>1. IInv
  BY InitInv DEF SystemInit
<1>2. \A n \in Nodes, s \in ConnIds : Of(n, s) = {}
  BY EmptyList DEF SystemInit, Of
<1>3. /\ \A n \in Nodes : session_list[n] = <<>> /\ destroyed[n] = {} /\ handle[n] = TRUE
      /\ \A n \in Nodes, c \in ConnIds : ~Listed(n, c)
      /\ sent = {} /\ notified = {}
  BY DEF SystemInit, Init, Listed
<1>4. ListsTypeOK
  <2>1. <<>> \in Seq(ConnIds)
    OBVIOUS
  <2> QED
    BY <2>1 DEF SystemInit, ListsTypeOK
<1>5. \A n \in Nodes : ControllerInv(n) /\ \A s \in ConnIds : MembersInv(n, s)
  BY <1>2, <1>3, EmptyList DEF ControllerInv, MembersInv
<1>6. NotesInv
  BY <1>3 DEF NotesInv
<1>7. MessageIntegrity
  BY DEF SystemInit, Init, MessageIntegrity
<1>8. SystemExitsExplained
  BY DEF SystemInit, Init, SystemExitsExplained, Explained
<1> QED
  BY <1>1, <1>4, <1>5, <1>6, <1>7, <1>8 DEF SystemInv, ListsInv, IInv

LEMMA ListsUnchanged == ASSUME ListsInv, UNCHANGED systemVars PROVE ListsInv'
<1>1. UNCHANGED <<listVars, sent, received, notified, state, status, responder>>
  BY DEF systemVars, connectionVars, sessionVars, vars, connVars, noteVars, originVars
<1>2. \A p \in Nodes, d \in ConnIds : Listed(p, d)' <=> Listed(p, d)
  BY <1>1 DEF Listed
<1>3. \A p \in Nodes, d \in ConnIds : Listed(p, d) /\ SessionOf(p, d) = {} =>
          status[p] = "check_scontroller_handle" /\ ~handle[p] /\ responder[d] = p
  BY DEF ListsInv, ControllerInv
<1>4. /\ \A x \in sent : SessionOf(x[1], x[2]) # {}
      /\ notified \subseteq Nodes \X ConnIds \X ConnIds \X ConnIds \X (Texts \cup {Garbled})
      /\ \A x \in notified : x[4] \in Of(x[1], x[2]) /\ <<x[1], x[4], x[5]>> \in received
  BY DEF ListsInv, ListsTypeOK, NotesInv
<1> QED
  BY <1>1, <1>2, <1>3, <1>4, ListsKept

LEMMA SystemInvStep == SystemInv /\ [SystemNext]_systemVars => SystemInv'
<1> SUFFICES ASSUME SystemInv, [SystemNext]_systemVars PROVE SystemInv'
  OBVIOUS
<1>1. IInv /\ ListsInv /\ MessageIntegrity /\ SystemExitsExplained
  BY DEF SystemInv, IInv
<1>2. IInv'
  BY <1>1, SystemConnections
<1>3. ListsInv'
  <2>1. ASSUME NEW n \in Nodes, NodeNext(n) PROVE ListsInv'
    BY <1>1, <2>1, StepKinds, SystemNotes, ListsStep
  <2> QED
    BY <1>1, <2>1, ListsUnchanged DEF SystemNext
<1>4. MessageIntegrity' /\ SystemExitsExplained'
  BY <1>1, SystemIntegrity, SystemExplained
<1> QED
  BY <1>2, <1>3, <1>4 DEF SystemInv, IInv

(* The handshakes stay in step under the sessions, and the lists of the session
   controllers agree with the connection lists: every connection is in one session
   from the moment that it is listed (session_controller.c:101, :119 and :140), unless
   its node had no controller (:16). *)
THEOREM SystemInvariant == SystemSpec => []SystemInv
BY SystemInvInit, SystemInvStep, PTL DEF SystemSpec

(* The variables of the connections keep their shape under the session controllers. *)
THEOREM SystemTypeCorrectness == SystemSpec => []TypeOK
<1>1. SystemInv => TypeOK
  BY DEF SystemInv
<1> QED
  BY <1>1, SystemInvariant, PTL

(* Only the two ends of a connection hold its secret, and the same one, also when
   sessions are made, extended and destroyed over it. *)
THEOREM SystemKeyAgreement == SystemSpec => []KeyAgreement
<1>1. SystemInv => KeyAgreement
  BY SecretsAgree DEF SystemInv
<1> QED
  BY <1>1, SystemInvariant, PTL

(* Whatever a session sends (session_controller.c:193), to however many of its
   connections, the recipient has the key to read. *)
THEOREM SystemDecryptable == SystemSpec => []DecryptableInFlight
<1>1. SystemInv => DecryptableInFlight
  BY PayloadsDecrypted DEF SystemInv
<1> QED
  BY <1>1, SystemInvariant, PTL

(* A text reaches the callback of one end only if it was sent in a session at the
   other end of the connection. *)
THEOREM SystemMessageIntegrity == SystemSpec => []MessageIntegrity
<1>1. SystemInv => MessageIntegrity
  BY DEF SystemInv
<1> QED
  BY <1>1, SystemInvariant, PTL

(* What the application is told about a text (internal_message_received,
   session_controller.c:25) concerns the one session that has its connection, and
   the text was sent by the application at the other end in a session of its own. *)
THEOREM TextsStayInSessionHolds == SystemSpec => []TextsStayInSession
<1>1. ASSUME SystemInv PROVE TextsStayInSession
  <2> SUFFICES ASSUME NEW x \in notified
               PROVE  /\ SessionOf(x[1], x[4]) = {x[2]}
                      /\ x[5] # Garbled => \E p \in Ends(x[4]) \ {x[1]} : \E q \in ConnIds :
                                               <<q, x[4], x[5]>> \in SentIn(p)
    BY DEF TextsStayInSession
  <2>1. /\ x[1] \in Nodes /\ x[2] \in ConnIds /\ x[4] \in ConnIds
        /\ x[5] \in Texts \cup {Garbled}
        /\ x[4] \in Of(x[1], x[2]) /\ <<x[1], x[4], x[5]>> \in received
    BY <1>1 DEF SystemInv, ListsInv, ListsTypeOK, NotesInv
  <2>2. SessionOf(x[1], x[4]) = {x[2]}
    BY <1>1, <2>1 DEF SystemInv, ListsInv, MembersInv
  <2>3. ASSUME x[5] # Garbled
        PROVE  \E p \in Ends(x[4]) \ {x[1]} : \E q \in ConnIds : <<q, x[4], x[5]>> \in SentIn(p)
    <3>1. PICK p \in Ends(x[4]) \ {x[1]} : <<p, x[4], x[5]>> \in sent
      BY <1>1, <2>1, <2>3 DEF SystemInv, MessageIntegrity, Ends
    <3>2. SessionOf(p, x[4]) # {}
      BY <1>1, <3>1 DEF SystemInv, ListsInv, NotesInv
    <3>3. PICK q \in ConnIds : q \in SessionOf(p, x[4])
      BY <3>2 DEF SessionOf
    <3>4. <<q, x[4], x[5]>> \in SentIn(p)
      BY <3>1, <3>3 DEF SentIn
    <3> QED
      BY <3>1, <3>4
  <2> QED
    BY <2>2, <2>3
<1> QED
  BY <1>1, SystemInvariant, PTL

(* A node's process is ended by its peers only for one of the three reasons that the
   connections have, or because a connection came in when there was no session
   controller (session_controller.c:16). *)
THEOREM SystemExitsExplainedHolds == SystemSpec => []SystemExitsExplained
<1>1. SystemInv => SystemExitsExplained
  BY DEF SystemInv
<1> QED
  BY <1>1, SystemInvariant, PTL
================================================================================
