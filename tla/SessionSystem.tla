----------------------------- MODULE SessionSystem -----------------------------
(***************************************************************************)
(* Sessions over the network: the session controller of every node         *)
(* (src/session) on top of its connection controller (src/net), joined by   *)
(* the calls of the one into the other and by the callbacks ic, nc and cmr  *)
(* that session_controller_create installs.                                *)
(*                                                                         *)
(* A step of ConnectionController and what the callback does to the        *)
(* sessions are one action.  Each session begins with one connection, and   *)
(* is named by it.  Sessions and connections last until their controller is *)
(* destroyed: that they are removed one by one is SessionController's       *)
(* subject.  That each node's part of this system behaves as               *)
(* SessionController does is stated in NodeSessions.                       *)
(***************************************************************************)
EXTENDS ConnectionController, Sequences, SequencesExt

CONSTANT MayDestroy  \* does the application destroy session controllers?

ASSUME DestroyAssumption == MayDestroy \in BOOLEAN

VARIABLES
    session_list,             \* session_list[n]: the sessions in n's controller's list
    connection_request_list,  \* connection_request_list[n][s]: the connections of session s
    destroyed,                \* destroyed[n]: the sessions that went with a controller
    handle,                   \* handle[n]: is scontroller_handle set?
    notified                  \* <<n, s, d, c, t>>: umn was called for s and d, with t from c

listVars == <<session_list, connection_request_list, destroyed, handle>>
sessionVars == <<listVars, notified>>
connectionVars == vars
systemVars == <<connectionVars, sessionVars>>

SystemInit ==
    /\ Init
    /\ session_list = [n \in Nodes |-> <<>>]
    /\ connection_request_list = [n \in Nodes |-> [s \in ConnIds |-> <<>>]]
    /\ destroyed = [n \in Nodes |-> {}]
    /\ handle = [n \in Nodes |-> TRUE]
    /\ notified = {}

Of(n, s) == ToSet(connection_request_list[n][s])

session_add_connection(n, s, c) ==
    connection_request_list' = [connection_request_list EXCEPT ![n][s] = Append(@, c)]

\* Mutant: the session is not added to the list.
session_not_listed(n, c) ==
    /\ session_add_connection(n, c, c)
    /\ UNCHANGED <<session_list, destroyed, handle, notified>>

\* A session of its own for connection c of n.
NewSession(n, c) ==
    /\ session_add_connection(n, c, c)
    /\ session_list' = [session_list EXCEPT ![n] = Append(@, c)]
    /\ UNCHANGED <<destroyed, handle, notified>>
-----------------------------------------------------------------------------
(* What the application calls.                                             *)

session_controller_session_create(n, r, c) ==
    /\ handle[n]
    /\ connection_controller_initiation_request(n, r, c)
    /\ NewSession(n, c)

session_controller_session_add_peer(n, s, r, c) ==
    /\ handle[n] /\ Contains(session_list[n], s)
    /\ connection_controller_initiation_request(n, r, c)
    /\ session_add_connection(n, s, c)
    /\ UNCHANGED <<session_list, destroyed, handle, notified>>

\* Connection by connection, up to one that is not complete; a call that reaches
\* none only logs.  Each text is sent once in a session.
session_controller_session_send_message(n, s, t) ==
    LET list == connection_request_list[n][s]
        reached == {list[i] : i \in
            {k \in DOMAIN list : \A j \in 1..k : Complete(n, list[j])}}
    IN  /\ Idle(n) /\ handle[n] /\ Contains(session_list[n], s)
        /\ reached # {} /\ \A c \in Of(n, s) : <<n, c, t>> \notin sent
        /\ sent' = sent \cup {<<n, c, t>> : c \in reached}
        /\ \E whole \in [reached -> BOOLEAN] :
              pending' = pending \cup
                  {connection_request_send_message(n, c, remote[n][c], secret[n][c], t, whole[c]) :
                      c \in reached}
        /\ UNCHANGED <<peerVars, originVars, connVars, inbox, ticking, status, completed, received,
                       sessionVars>>

\* Mutant: the list of destroyed sessions stays.
destroy_keeps_sessions(n) ==
    /\ MayDestroy
    /\ Idle(n) /\ handle[n]
    /\ destroyed' = [destroyed EXCEPT ![n] = @ \cup ToSet(session_list[n])]
    /\ handle' = [handle EXCEPT ![n] = FALSE]
    /\ UNCHANGED <<connectionVars, session_list, connection_request_list, notified>>

\* The connection controller keeps the callbacks.
session_controller_destroy(n) ==
    /\ MayDestroy
    /\ Idle(n) /\ handle[n]
    /\ destroyed' = [destroyed EXCEPT ![n] = @ \cup ToSet(session_list[n])]
    /\ session_list' = [session_list EXCEPT ![n] = <<>>]
    /\ handle' = [handle EXCEPT ![n] = FALSE]
    /\ UNCHANGED <<connectionVars, connection_request_list, notified>>

session_controller_create(n) ==
    /\ Idle(n) /\ ~handle[n]
    /\ handle' = [handle EXCEPT ![n] = TRUE]
    /\ UNCHANGED <<connectionVars, session_list, connection_request_list, destroyed, notified>>
-----------------------------------------------------------------------------
(* The message processor and the callbacks.                                *)

\* ic: a connection was accepted, and gets a session, if there is a controller.
internal_incoming(n, m) ==
    \/ /\ handle[n]
       /\ CREATE_SESSION(n, m) /\ ~Listed(n, m.id)
       /\ NewSession(n, m.id)
    \/ /\ ~handle[n]
       /\ Case(n, m, "CREATE_SESSION") /\ ~Listed(n, m.id)
       /\ connection_request_create(n, m.id, m.sender)
       /\ connection_controller_add_connection_request(n, m.id, "E_CRS_CHALLENGE_REPLY")
       /\ pending' = pending \cup {challenge_reply_message(n, m.id, m.sender)}
       /\ status' = [status EXCEPT ![n] = "check_scontroller_handle"]
       /\ UNCHANGED <<noteVars, sessionVars>>

\* Mutant: the connection that was found is passed over.
found_after(n, s, c) ==
    LET list == connection_request_list[n][s]
    IN  {list[j] : j \in {k \in DOMAIN list : \E i \in 1..(k - 1) : list[i] = c}}

\* Once found, every later connection of the session is notified too.
FoundIn(n, s, c) ==
    LET list == connection_request_list[n][s]
    IN  {list[j] : j \in {k \in DOMAIN list : \E i \in 1..k : list[i] = c}}

\* Mutant: found is not reset for the next session.
found_in_later_sessions(n, c, t) ==
    UNION {{<<n, session_list[n][k], d, c, t>> : d \in Of(n, session_list[n][k])} :
        k \in {j \in DOMAIN session_list[n] : \E i \in 1..j : c \in Of(n, session_list[n][i])}}

Notifications(n, c, t) ==
    UNION {{<<n, s, d, c, t>> : d \in FoundIn(n, s, c)} : s \in ToSet(session_list[n])}

\* Mutant: the callback does not test scontroller_handle.
message_received_unchecked(n, m) ==
    \/ /\ handle[n]
       /\ COMMUNICATING_SESSION(n, m) /\ Listed(n, m.id) /\ secret[n][m.id] # NULL
       /\ notified' = notified \cup
              Notifications(n, m.id, symmetrical_decrypt(secret[n][m.id], m.data))
       /\ UNCHANGED listVars
    \/ /\ ~handle[n]
       /\ Case(n, m, "COMMUNICATING_SESSION") /\ Listed(n, m.id) /\ secret[n][m.id] # NULL
       /\ Exit(n, "null_scontroller_handle")
       /\ UNCHANGED sessionVars

\* cmr: a text came in on connection m.id, which may be cut short.
internal_message_received(n, m) ==
    /\ COMMUNICATING_SESSION(n, m) /\ Listed(n, m.id) /\ secret[n][m.id] # NULL
    /\ notified' = IF handle[n]
                   THEN notified \cup
                            Notifications(n, m.id, symmetrical_decrypt(secret[n][m.id], m.data))
                   ELSE notified
    /\ UNCHANGED listVars

\* The other cases of the processor, and what ends the process, call nothing or
\* only log (nc).
processed_without_session(n) ==
    /\ \/ wpprotocol_mux_pop_nothing(n)
       \/ \E m \in inbox :
             \/ message_from_unknown_sender(n, m)
             \/ message_from_this_node(n, m)
             \/ RESPONDING_CREATED_SESSION(n, m)
             \/ SHARING_SESSION_KEY(n, m)
             \/ COMPLETED_SESSION(n, m)
             \/ CREATE_SESSION(n, m) /\ Listed(n, m.id)
             \/ COMMUNICATING_SESSION(n, m) /\ ~(Listed(n, m.id) /\ secret[n][m.id] # NULL)
    /\ UNCHANGED sessionVars

system_mux_pop(n) ==
    \/ \E m \in inbox : internal_incoming(n, m) \/ internal_message_received(n, m)
    \/ processed_without_session(n)

\* What node n may do.
NodeNext(n) ==
    \/ \E p \in Nodes : handle_peer(n, p) /\ UNCHANGED sessionVars
    \/ \E r \in Nodes, c \in ConnIds :
          \/ session_controller_session_create(n, r, c)
          \/ \E s \in ConnIds : session_controller_session_add_peer(n, s, r, c)
    \/ \E s \in ConnIds, t \in Texts : session_controller_session_send_message(n, s, t)
    \/ session_controller_destroy(n)
    \/ session_controller_create(n)
    \/ wpprotocol_mux_tick(n) /\ UNCHANGED sessionVars
    \/ system_mux_pop(n)

SystemNext == \E n \in Nodes : NodeNext(n)

SystemSpec == SystemInit /\ [][SystemNext]_systemVars

\* The applications keep calling connection_controller_tick, as the loops of the
\* integration tests do; that messages arrive is the scheduler's and TCP's doing,
\* and nothing retries one that is lost.
FairSystemSpec ==
    /\ SystemSpec
    /\ \A n \in Nodes :
          /\ WF_systemVars(wpprotocol_mux_tick(n) /\ UNCHANGED sessionVars)
          /\ WF_systemVars(system_mux_pop(n))
-----------------------------------------------------------------------------
(* Properties.                                                             *)

\* The session at n that connection c is in.
SessionOf(n, c) == {s \in ConnIds : c \in Of(n, s)}

\* What n sent, and in which session.
SentIn(n) == UNION {{<<s, x[2], x[3]>> : s \in SessionOf(n, x[2])} : x \in {y \in sent : y[1] = n}}

\* The two ends of a connection.
Ends(c) == {initiator[c], responder[c]}

\* The application hears of a text in the one session that has its connection,
\* and only if the application at the other end sent it in a session of its own.
TextsStayInSession ==
    \A x \in notified :
        LET n == x[1]  s == x[2]  c == x[4]  t == x[5]
        IN  /\ SessionOf(n, c) = {s}
            /\ t # Garbled => \E p \in Ends(c) \ {n} : \E q \in ConnIds : <<q, c, t>> \in SentIn(p)

\* Why a process ends, with sessions: besides the reasons of ExitsExplained, only
\* because a peer opened a connection to it after it destroyed its session
\* controller.  Texts and handshakes under way on the connections it has do not
\* end it, though the sessions they belong to are gone.
SystemExitsExplained ==
    \A n \in Nodes :
        \/ Explained(n)
        \/ /\ status[n] = "check_scontroller_handle" /\ ~handle[n]
           /\ \E c \in ConnIds : responder[c] = n /\ SessionOf(n, c) = {}

ListsTypeOK ==
    /\ session_list \in [Nodes -> Seq(ConnIds)]
    /\ connection_request_list \in [Nodes -> [ConnIds -> Seq(ConnIds)]]
    /\ destroyed \in [Nodes -> SUBSET ConnIds]
    /\ handle \in [Nodes -> BOOLEAN]
    /\ notified \subseteq Nodes \X ConnIds \X ConnIds \X ConnIds \X (Texts \cup {Garbled})

\* A session holds the connection it began with; its connections are in the
\* connection controller's list, and in no other session.
MembersInv(n, s) ==
    /\ Of(n, s) # {} => s \in Of(n, s)
    /\ \A c \in Of(n, s) : Listed(n, c) /\ SessionOf(n, c) = {s}
    /\ s \in destroyed[n] => Of(n, s) # {}

\* A controller lists the sessions that did not go with an earlier one, and only a
\* connection whose callback found no controller is in no session.
ControllerInv(n) ==
    /\ ToSet(session_list[n]) = {s \in ConnIds : Of(n, s) # {}} \ destroyed[n]
    /\ ~handle[n] => session_list[n] = <<>>
    /\ \A c \in ConnIds : Listed(n, c) /\ SessionOf(n, c) = {} =>
          status[n] = "check_scontroller_handle" /\ ~handle[n] /\ responder[c] = n

\* What was sent and notified is about connections in sessions.
NotesInv ==
    /\ \A x \in sent : SessionOf(x[1], x[2]) # {}
    /\ \A x \in notified : x[4] \in Of(x[1], x[2]) /\ <<x[1], x[4], x[5]>> \in received

ListsInv ==
    /\ ListsTypeOK
    /\ \A n \in Nodes : ControllerInv(n) /\ \A s \in ConnIds : MembersInv(n, s)
    /\ NotesInv

\* The inductive invariant.
SystemInv == TypeOK /\ HandshakeInv /\ ListsInv /\ MessageIntegrity /\ SystemExitsExplained

\* Both ends of a requested connection become complete, each in a session its
\* controller has, unless one of the processes ends or destroys that session.
Ended(n) == status[n] # "running"
SessionDestroyed(n, c) == \E s \in SessionOf(n, c) : s \in destroyed[n]

SessionsBecomeReady ==
    \A c \in ConnIds, i, r \in Nodes :
        initiator[c] = i /\ responder[c] = r ~>
            \/ \A n \in {i, r} :
                  /\ Complete(n, c)
                  /\ \/ \E s \in SessionOf(n, c) : Contains(session_list[n], s)
                     \/ SessionDestroyed(n, c)
            \/ Ended(i) \/ Ended(r)

\* What is sent in a session arrives: the application at the other end is
\* notified in a session of its own, of the text or, if strlen cut it, of what
\* decrypting the rest gives.
TextsArrive ==
    \A c \in ConnIds, t \in Texts, p, n \in Nodes :
        <<p, c, t>> \in sent /\ n \in Ends(c) \ {p} ~>
            \/ \E q \in ConnIds, u \in {t, Garbled} : <<n, q, c, c, u>> \in notified
            \/ Ended(n) \/ Ended(p) \/ SessionDestroyed(n, c)
================================================================================
