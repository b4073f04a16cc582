------------------------ MODULE ConnectionController ------------------------
(***************************************************************************)
(* The connection controllers of a set of whisper nodes: the four-message  *)
(* handshake of src/net/connection_controller.c and connection_request.c   *)
(* that gives two nodes a shared secret, and the messages then sent under  *)
(* that secret.                                                            *)
(*                                                                         *)
(*   initiator                                   responder                 *)
(*     INITIAL_CHALLENGE   -- CREATE_SESSION, public key -->               *)
(*                         <-- RESPONDING_CREATED_SESSION, public key --   *)
(*                                                 CHALLENGE_REPLY         *)
(*     SESSION_KEY_SHARE   -- SHARING_SESSION_KEY, RSA(secret) -->         *)
(*                         <-- COMPLETED_SESSION, DES("OKAY") --  COMPLETE *)
(*     COMPLETE                                                            *)
(*                                                                         *)
(* A node is one process with one application thread, which calls the API  *)
(* and connection_controller_tick; the discovery thread beside it only     *)
(* adds peers to the peerstore.  The peerstore is the set of peers that    *)
(* peerstore_lookup finds, under a strategy that never expires a peer      *)
(* (always_active, is_active_peer_ask_once).                               *)
(***************************************************************************)
EXTENDS Naturals

CONSTANTS
    Nodes,        \* the nodes; a node also stands for its peer guid
    ConnIds,      \* the guids jnx_guid_create can give a connection
    Secrets,      \* what generate_shared_secret can return
    Texts,        \* application messages; each is sent once per connection end
    OKAY,         \* the text of a completion message
    MaySendFail,  \* may jnx_socket_tcp_send fail? (its result is ignored)
    MayRemove     \* does the application remove connections, destroy controllers?

CONSTANTS NULL, Garbled

ASSUME ConstantsAssumption ==
    /\ NULL \notin Nodes \cup Secrets
    /\ Garbled \notin Texts \cup {OKAY}
    /\ MaySendFail \in BOOLEAN
    /\ MayRemove \in BOOLEAN

INSTANCE Cryptography

\* An encoded secret is never a null pointer.
ASSUME EncodingAssumption == \A s \in Secrets : encode_from_string(s) # NULL

VARIABLES
    known,      \* known[n]: the peers in n's peerstore
    initiator,  \* initiator[c]: the node whose jnx_guid_create returned c, or NULL
    responder,  \* responder[c]: the node the connection was requested from, or NULL
    state,      \* state[n][c]: c's state in n's connection list; see Listed
    remote,     \* remote[n][c]: the peer in c's connection_request at n
    secret,     \* secret[n][c]: its shared_secret
    pending,    \* messages pushed into their sender's mux, not yet emitted
    inbox,      \* messages that reached their recipient's mux, not yet popped
    ticking,    \* ticking[n]: n is between wpprotocol_mux_tick and _pop
    status,     \* status[n]: "running", "destroyed", or what ended the process
    completed,  \* <<n, c>>: n's completion callback nc was called for c
    sent,       \* <<n, c, t>>: n pushed text t on connection c
    received    \* <<n, c, t>>: n's message callback cmr was called with t for c

peerVars   == <<known>>
originVars == <<initiator, responder>>
connVars   == <<state, remote, secret>>
muxVars    == <<pending, inbox>>
noteVars   == <<completed, sent, received>>
vars == <<peerVars, originVars, connVars, muxVars, ticking, status, noteVars>>
-----------------------------------------------------------------------------
(* States and messages.                                                    *)

\* The connection_request states the code assigns, and two for a connection
\* that is not in the list: never added, and removed again.
States == {"NONE", "REMOVED", "E_CRS_INITIAL_CHALLENGE", "E_CRS_CHALLENGE_REPLY",
           "E_CRS_SESSION_KEY_SHARE", "E_CRS_COMPLETE"}

Actions == {"CREATE_SESSION", "RESPONDING_CREATED_SESSION",
            "SHARING_SESSION_KEY", "COMPLETED_SESSION", "COMMUNICATING_SESSION"}

wpprotocol_generate_message(c, from, to, action, data) ==
    [id |-> c, sender |-> from, recipient |-> to, action |-> action, data |-> data]

\* Every connection_request generates a keypair of its own.
Keypair(n, c) == <<n, c>>

\* The head of the connection list search: is there a request with this id?
Listed(n, c) == state[n][c] \notin {"NONE", "REMOVED"}

connection_request_create_initiation_message(n, c, r) ==
    wpprotocol_generate_message(c, n, r, "CREATE_SESSION",
        encode_from_string(asymmetrical_key_to_string(Keypair(n, c))))

\* connection_request_create_exchange_message(req, incoming, s), for each s.
challenge_reply_message(n, c, r) ==
    wpprotocol_generate_message(c, n, r, "RESPONDING_CREATED_SESSION",
        encode_from_string(asymmetrical_key_to_string(Keypair(n, c))))

\* Mutant: the secret that is encrypted is not the one that was stored.
session_key_share_another(n, c, r, remote_keypair, s) ==
    wpprotocol_generate_message(c, n, r, "SHARING_SESSION_KEY",
        asymmetrical_encrypt(remote_keypair, encode_from_string(
            CHOOSE x \in Secrets : x # s)))

\* Mutant: encrypted with the sender's own public key.
session_key_share_own_key(n, c, r, remote_keypair, s) ==
    wpprotocol_generate_message(c, n, r, "SHARING_SESSION_KEY",
        asymmetrical_encrypt(Keypair(n, c), encode_from_string(s)))

session_key_share_message(n, c, r, remote_keypair, s) ==
    wpprotocol_generate_message(c, n, r, "SHARING_SESSION_KEY",
        asymmetrical_encrypt(remote_keypair, encode_from_string(s)))

complete_message(n, c, r, s, whole) ==
    wpprotocol_generate_message(c, n, r, "COMPLETED_SESSION",
        sent_as_c_string(symmetrical_encrypt(s, OKAY), whole))

\* Mutant: sender and recipient are swapped.
connection_request_send_swapped(n, c, r, s, t, whole) ==
    wpprotocol_generate_message(c, r, n, "COMMUNICATING_SESSION",
        sent_as_c_string(symmetrical_encrypt(s, t), whole))

connection_request_send_message(n, c, r, s, t, whole) ==
    wpprotocol_generate_message(c, n, r, "COMMUNICATING_SESSION",
        sent_as_c_string(symmetrical_encrypt(s, t), whole))
-----------------------------------------------------------------------------
Init ==
    /\ known = [n \in Nodes |-> {}]
    /\ initiator = [c \in ConnIds |-> NULL]
    /\ responder = [c \in ConnIds |-> NULL]
    /\ state = [n \in Nodes |-> [c \in ConnIds |-> "NONE"]]
    /\ remote = [n \in Nodes |-> [c \in ConnIds |-> NULL]]
    /\ secret = [n \in Nodes |-> [c \in ConnIds |-> NULL]]
    /\ pending = {} /\ inbox = {}
    /\ ticking = [n \in Nodes |-> FALSE]
    /\ status = [n \in Nodes |-> "running"]
    /\ completed = {} /\ sent = {} /\ received = {}

\* The application thread of n is free to make a call.
Idle(n) == status[n] = "running" /\ ~ticking[n]

\* The connection_request that n makes for c, with r at the other end.
connection_request_create(n, c, r) ==
    /\ remote' = [remote EXCEPT ![n][c] = r]
    /\ secret' = [secret EXCEPT ![n][c] = NULL]

\* It enters n's list in state s.
connection_controller_add_connection_request(n, c, s) ==
    state' = [state EXCEPT ![n][c] = s]

\* The discovery thread stores a peer announced by a PEER datagram.  A node
\* hears its own broadcasts too.
handle_peer(n, p) ==
    /\ status[n] = "running"
    /\ known' = [known EXCEPT ![n] = @ \cup {p}]
    /\ UNCHANGED <<originVars, connVars, muxVars, ticking, status, noteVars>>

connection_controller_initiation_request(n, r, c) ==
    /\ Idle(n)
    /\ r \in known[n]
    /\ initiator[c] = NULL
    /\ initiator' = [initiator EXCEPT ![c] = n]
    /\ responder' = [responder EXCEPT ![c] = r]
    /\ connection_request_create(n, c, r)
    /\ connection_controller_add_connection_request(n, c, "E_CRS_INITIAL_CHALLENGE")
    /\ pending' = pending \cup {connection_request_create_initiation_message(n, c, r)}
    /\ UNCHANGED <<peerVars, inbox, ticking, status, noteVars>>

\* The connections that session_controller_session_send_message sends on.
Complete(n, c) == state[n][c] = "E_CRS_COMPLETE"

\* connection_controller_connection_request_send_message as its only caller calls
\* it; connection_request_send_message fails as long as there is no secret.
\* Mutant: the caller does not look at the state.
session_send_unguarded(n, c, t) ==
    /\ Idle(n)
    /\ Listed(n, c)
    /\ secret[n][c] # NULL
    /\ <<n, c, t>> \notin sent
    /\ sent' = sent \cup {<<n, c, t>>}
    /\ \E whole \in BOOLEAN :
          pending' = pending \cup
              {connection_request_send_message(n, c, remote[n][c], secret[n][c], t, whole)}
    /\ UNCHANGED <<peerVars, originVars, connVars, inbox, ticking, status, completed, received>>

session_send(n, c, t) ==
    /\ Idle(n)
    /\ Complete(n, c)
    /\ secret[n][c] # NULL
    /\ <<n, c, t>> \notin sent
    /\ sent' = sent \cup {<<n, c, t>>}
    /\ \E whole \in BOOLEAN :
          pending' = pending \cup
              {connection_request_send_message(n, c, remote[n][c], secret[n][c], t, whole)}
    /\ UNCHANGED <<peerVars, originVars, connVars, inbox, ticking, status, completed, received>>

connection_controller_remove_connection_request(n, c) ==
    /\ MayRemove
    /\ Idle(n)
    /\ Listed(n, c)
    /\ state' = [state EXCEPT ![n][c] = "REMOVED"]
    /\ remote' = [remote EXCEPT ![n][c] = NULL]
    /\ secret' = [secret EXCEPT ![n][c] = NULL]
    /\ UNCHANGED <<peerVars, originVars, muxVars, ticking, status, noteVars>>

\* The mux goes, with what it had not emitted; the requests are not freed.
connection_controller_destroy(n) ==
    /\ MayRemove
    /\ Idle(n)
    /\ status' = [status EXCEPT ![n] = "destroyed"]
    /\ pending' = {m \in pending : m.sender # n}
    /\ UNCHANGED <<peerVars, originVars, connVars, inbox, ticking, noteVars>>
-----------------------------------------------------------------------------
(* connection_controller_tick: first wpprotocol_mux_tick, then a pop whose *)
(* message, if there is one, goes to the message processor.                *)

\* The emitter looks the recipient up, dereferences the result and ignores
\* whether the send succeeded.  Every message travels on a TCP connection of
\* its own, so that nothing orders two messages to the same node.
\* Mutant: the message stays in the mux after it was sent.
emitter_keeps_message(n, m) ==
    /\ m.recipient \in known[n]
    /\ inbox' = inbox \cup {m}
    /\ UNCHANGED <<pending, status>>

internal_connection_control_emitter(n, m) ==
    /\ pending' = pending \ {m}
    /\ \/ /\ m.recipient \in known[n]
          /\ \/ inbox' = inbox \cup {m}
             \/ MaySendFail /\ UNCHANGED inbox
          /\ UNCHANGED status
       \/ /\ m.recipient \notin known[n]
          /\ status' = [status EXCEPT ![n] = "null_remote_peer"]
          /\ UNCHANGED inbox

wpprotocol_mux_tick(n) ==
    /\ Idle(n)
    /\ ticking' = [ticking EXCEPT ![n] = TRUE]
    /\ \/ \E m \in {x \in pending : x.sender = n} : internal_connection_control_emitter(n, m)
       \/ /\ {x \in pending : x.sender = n} = {}
          /\ UNCHANGED <<muxVars, status>>
    /\ UNCHANGED <<peerVars, originVars, connVars, noteVars>>

\* wpprotocol_mux_pop returns m, and the tick ends once m is processed.
Popped(n, m) ==
    /\ status[n] = "running" /\ ticking[n]
    /\ m.recipient = n
    /\ inbox' = inbox \ {m}
    /\ ticking' = [ticking EXCEPT ![n] = FALSE]
    /\ UNCHANGED <<peerVars, originVars>>

\* The processor reached a statement that ends the process.
Exit(n, where) ==
    /\ status' = [status EXCEPT ![n] = where]
    /\ UNCHANGED <<connVars, pending, noteVars>>

wpprotocol_mux_pop_nothing(n) ==
    /\ status[n] = "running" /\ ticking[n]
    /\ \A m \in inbox : m.recipient # n
    /\ ticking' = [ticking EXCEPT ![n] = FALSE]
    /\ UNCHANGED <<peerVars, originVars, connVars, muxVars, status, noteVars>>

message_from_unknown_sender(n, m) ==
    /\ Popped(n, m)
    /\ m.sender \notin known[n]
    /\ Exit(n, "check_remote")

message_from_this_node(n, m) ==
    /\ Popped(n, m)
    /\ m.sender \in known[n] /\ m.sender = n
    /\ Exit(n, "message_to_itself")

\* m passes both checks and its action is the case of the switch.
Case(n, m, action) ==
    /\ Popped(n, m)
    /\ m.sender \in known[n] /\ m.sender # n
    /\ m.action = action

CREATE_SESSION(n, m) ==
    /\ Case(n, m, "CREATE_SESSION")
    /\ \/ /\ Listed(n, m.id)
          /\ Exit(n, "existing_connection")
       \/ /\ ~Listed(n, m.id)
          /\ connection_request_create(n, m.id, m.sender)
          /\ connection_controller_add_connection_request(n, m.id, "E_CRS_CHALLENGE_REPLY")
          /\ pending' = pending \cup {challenge_reply_message(n, m.id, m.sender)}
          /\ UNCHANGED <<status, noteVars>>

\* Mutant: the initiator does not wait for the completion message.
RESPONDING_completes(n, m) ==
    /\ Case(n, m, "RESPONDING_CREATED_SESSION")
    /\ Listed(n, m.id)
    /\ \E s \in Secrets :
          /\ secret' = [secret EXCEPT ![n][m.id] = s]
          /\ pending' = pending \cup
                {session_key_share_message(n, m.id, remote[n][m.id],
                    asymmetrical_key_from_string(decode_to_string(m.data)), s)}
    /\ state' = [state EXCEPT ![n][m.id] = "E_CRS_COMPLETE"]
    /\ UNCHANGED <<remote, status, noteVars>>

RESPONDING_CREATED_SESSION(n, m) ==
    /\ Case(n, m, "RESPONDING_CREATED_SESSION")
    /\ \/ /\ ~Listed(n, m.id)
          /\ Exit(n, "reply_without_connection")
       \/ /\ Listed(n, m.id)
          /\ state' = [state EXCEPT ![n][m.id] = "E_CRS_SESSION_KEY_SHARE"]
          /\ \E s \in Secrets :
                /\ secret' = [secret EXCEPT ![n][m.id] = s]
                /\ pending' = pending \cup
                      {session_key_share_message(n, m.id, remote[n][m.id],
                          asymmetrical_key_from_string(decode_to_string(m.data)), s)}
          /\ UNCHANGED <<remote, status, noteVars>>

\* Mutants: the secret is used as it was decrypted, still encoded; the
\* completion message is skipped.
SHARING_undecoded(n, m) ==
    /\ Case(n, m, "SHARING_SESSION_KEY")
    /\ Listed(n, m.id)
    /\ LET decrypted == asymmetrical_decrypt(Keypair(n, m.id), m.data)
       IN  /\ secret' = [secret EXCEPT ![n][m.id] = decrypted]
           /\ \E whole \in BOOLEAN : pending' = pending \cup
                 {complete_message(n, m.id, remote[n][m.id], decrypted, whole)}
    /\ state' = [state EXCEPT ![n][m.id] = "E_CRS_COMPLETE"]
    /\ completed' = completed \cup {<<n, m.id>>}
    /\ UNCHANGED <<remote, status, sent, received>>

SHARING_silent(n, m) ==
    /\ Case(n, m, "SHARING_SESSION_KEY")
    /\ Listed(n, m.id)
    /\ secret' = [secret EXCEPT ![n][m.id] =
           decode_to_string(asymmetrical_decrypt(Keypair(n, m.id), m.data))]
    /\ state' = [state EXCEPT ![n][m.id] = "E_CRS_COMPLETE"]
    /\ completed' = completed \cup {<<n, m.id>>}
    /\ UNCHANGED <<remote, pending, status, sent, received>>

SHARING_SESSION_KEY(n, m) ==
    /\ Case(n, m, "SHARING_SESSION_KEY")
    /\ LET decrypted == asymmetrical_decrypt(Keypair(n, m.id), m.data)
       IN  \/ /\ ~Listed(n, m.id)
              /\ Exit(n, "check_oconnection")
           \/ /\ Listed(n, m.id)
              /\ decrypted = NULL
              /\ Exit(n, "null_encoded")
           \/ /\ Listed(n, m.id)
              /\ decrypted # NULL
              /\ state' = [state EXCEPT ![n][m.id] = "E_CRS_COMPLETE"]
              /\ secret' = [secret EXCEPT ![n][m.id] = decode_to_string(decrypted)]
              /\ completed' = completed \cup {<<n, m.id>>}
              /\ \E whole \in BOOLEAN : pending' = pending \cup
                    {complete_message(n, m.id, remote[n][m.id], decode_to_string(decrypted), whole)}
              /\ UNCHANGED <<remote, status, sent, received>>

\* Decrypting needs a connection and its secret.
NoSecret(n, c, missing) ==
    \/ /\ ~Listed(n, c)
       /\ Exit(n, missing)
    \/ /\ Listed(n, c)
       /\ secret[n][c] = NULL
       /\ Exit(n, "null_secret")

COMPLETED_SESSION(n, m) ==
    /\ Case(n, m, "COMPLETED_SESSION")
    /\ \/ NoSecret(n, m.id, "check_oconnection")
       \/ /\ Listed(n, m.id)
          /\ secret[n][m.id] # NULL
          /\ state' = [state EXCEPT ![n][m.id] = "E_CRS_COMPLETE"]
          /\ completed' = IF symmetrical_decrypt(secret[n][m.id], m.data) = OKAY
                            THEN completed \cup {<<n, m.id>>} ELSE completed
          /\ UNCHANGED <<remote, secret, pending, status, sent, received>>

COMMUNICATING_SESSION(n, m) ==
    /\ Case(n, m, "COMMUNICATING_SESSION")
    /\ \/ NoSecret(n, m.id, "null_oconnection")
       \/ /\ Listed(n, m.id)
          /\ secret[n][m.id] # NULL
          /\ received' = received \cup
                {<<n, m.id, symmetrical_decrypt(secret[n][m.id], m.data)>>}
          /\ UNCHANGED <<connVars, pending, status, completed, sent>>

internal_connnection_message_processor(n, m) ==
    \/ message_from_unknown_sender(n, m)
    \/ message_from_this_node(n, m)
    \/ CREATE_SESSION(n, m)
    \/ RESPONDING_CREATED_SESSION(n, m)
    \/ SHARING_SESSION_KEY(n, m)
    \/ COMPLETED_SESSION(n, m)
    \/ COMMUNICATING_SESSION(n, m)

wpprotocol_mux_pop(n) ==
    \/ wpprotocol_mux_pop_nothing(n)
    \/ \E m \in inbox : internal_connnection_message_processor(n, m)

connection_controller_tick(n) == wpprotocol_mux_tick(n) \/ wpprotocol_mux_pop(n)

\* What the application of n may do between two ticks.
Application(n) ==
    \/ \E r \in Nodes, c \in ConnIds : connection_controller_initiation_request(n, r, c)
    \/ \E c \in ConnIds, t \in Texts : session_send(n, c, t)
    \/ \E c \in ConnIds : connection_controller_remove_connection_request(n, c)
    \/ connection_controller_destroy(n)

Next ==
    \E n \in Nodes :
        \/ \E p \in Nodes : handle_peer(n, p)
        \/ Application(n)
        \/ connection_controller_tick(n)

Spec == Init /\ [][Next]_vars
-----------------------------------------------------------------------------
(* Properties.                                                             *)

InFlight == pending \cup inbox

\* Every message is one that the code builds.
Messages ==
    {connection_request_create_initiation_message(n, c, r) :
        n \in Nodes, c \in ConnIds, r \in Nodes}
    \cup {challenge_reply_message(n, c, r) :
             n \in Nodes, c \in ConnIds, r \in Nodes}
    \cup {session_key_share_message(n, c, r, Keypair(r, c), s) :
             n \in Nodes, c \in ConnIds, r \in Nodes, s \in Secrets}
    \cup {complete_message(n, c, r, s, whole) :
             n \in Nodes, c \in ConnIds, r \in Nodes, s \in Secrets, whole \in BOOLEAN}
    \cup {connection_request_send_message(n, c, r, s, t, whole) :
             n \in Nodes, c \in ConnIds, r \in Nodes, s \in Secrets, t \in Texts,
             whole \in BOOLEAN}

\* The last one is the check of the callback ic, which SessionSystem installs.
Exits == {"null_remote_peer", "check_remote",
          "message_to_itself",
          "existing_connection",
          "reply_without_connection",
          "check_oconnection", "null_encoded",
          "null_secret", "null_oconnection",
          "check_scontroller_handle"}

\* The state has the shape the code gives it: in particular a stored secret is
\* one that generate_shared_secret returned, not an encoded or encrypted form.
TypeOK ==
    /\ known \in [Nodes -> SUBSET Nodes]
    /\ initiator \in [ConnIds -> Nodes \cup {NULL}]
    /\ responder \in [ConnIds -> Nodes \cup {NULL}]
    /\ state \in [Nodes -> [ConnIds -> States]]
    /\ remote \in [Nodes -> [ConnIds -> Nodes \cup {NULL}]]
    /\ secret \in [Nodes -> [ConnIds -> Secrets \cup {NULL}]]
    /\ pending \subseteq Messages
    /\ inbox \subseteq Messages
    /\ ticking \in [Nodes -> BOOLEAN]
    /\ status \in [Nodes -> {"running", "destroyed"} \cup Exits]
    /\ completed \subseteq Nodes \X ConnIds
    /\ sent \subseteq Nodes \X ConnIds \X Texts
    /\ received \subseteq Nodes \X ConnIds \X (Texts \cup {Garbled})

\* Only the two ends of a connection ever hold a secret for it, and when both
\* do it is the same one, however the handshake, losses and removals interleave.
KeyAgreement ==
    \A c \in ConnIds : \A a, b \in Nodes :
        secret[a][c] # NULL /\ secret[b][c] # NULL =>
            /\ secret[a][c] = secret[b][c]
            /\ {a, b} \subseteq {initiator[c], responder[c]}

\* The initiator takes a connection for complete, and so sends messages on it,
\* only after the responder got the secret and called its completion callback.
CompletionOrder ==
    \A c \in ConnIds :
        initiator[c] # NULL /\ state[initiator[c]][c] = "E_CRS_COMPLETE" =>
            <<responder[c], c>> \in completed

\* What is under way to a connection can be decrypted by it: the shared key with
\* its private key, the other payloads with its secret.
DecryptableInFlight ==
    \A m \in InFlight :
        Listed(m.recipient, m.id) =>
            /\ m.action = "SHARING_SESSION_KEY" =>
                   asymmetrical_decrypt(Keypair(m.recipient, m.id), m.data) # NULL
            /\ m.action \in {"COMPLETED_SESSION", "COMMUNICATING_SESSION"} =>
                   /\ secret[m.recipient][m.id] # NULL
                   /\ \E whole \in BOOLEAN, t \in Texts \cup {OKAY} :
                         m.data = sent_as_c_string(
                             symmetrical_encrypt(secret[m.recipient][m.id], t), whole)

\* Why the process of n ended, if it did.
Explained(n) ==
    \/ status[n] \in {"running", "destroyed"}
    \/ /\ status[n] = "check_remote"
       /\ \E c \in ConnIds : responder[c] = n /\ initiator[c] \notin known[n]
    \/ /\ status[n] = "message_to_itself"
       /\ \E c \in ConnIds : initiator[c] = n /\ responder[c] = n
    \/ /\ status[n] \in {"reply_without_connection",
                        "check_oconnection", "null_oconnection"}
       /\ \E c \in ConnIds : state[n][c] = "REMOVED"

\* A node's process is ended by its peers only in three ways: a connection
\* request from a peer it has not discovered, a request it made to itself, and a
\* message for a connection it has removed.  The other exit(1), check and null
\* pointer of the processor and of the emitter are never reached.
ExitsExplained == \A n \in Nodes : Explained(n)

\* A text reaches the message callback of one end only if the other end sent it
\* on that connection; what was cut short arrives as other bytes.
MessageIntegrity ==
    \A n \in Nodes, c \in ConnIds, t \in Texts :
        <<n, c, t>> \in received =>
            /\ n \in {initiator[c], responder[c]}
            /\ \E p \in {initiator[c], responder[c]} \ {n} : <<p, c, t>> \in sent

\* How far a connection has come.
Rank(s) == CASE s = "NONE" -> 0
             [] s = "E_CRS_INITIAL_CHALLENGE" -> 1
             [] s = "E_CRS_CHALLENGE_REPLY" -> 2
             [] s = "E_CRS_SESSION_KEY_SHARE" -> 3
             [] s = "E_CRS_COMPLETE" -> 4
             [] s = "REMOVED" -> 5

\* No message takes a connection back in the handshake, restarts one that was
\* removed, or replaces a secret: the assignment of connection_request.c:135
\* happens once per connection.
NoRegression ==
    [][\A n \in Nodes, c \in ConnIds :
          /\ Rank(state'[n][c]) >= Rank(state[n][c])
          /\ secret[n][c] # NULL =>
                 secret'[n][c] = secret[n][c] \/ state'[n][c] = "REMOVED"]_vars

\* When no send fails and nothing is removed, a requested connection completes
\* at both ends unless one of the two processes ends.
HandshakeCompletes ==
    \A c \in ConnIds, i, r \in Nodes :
        initiator[c] = i /\ responder[c] = r ~>
            \/ state[i][c] = "E_CRS_COMPLETE" /\ state[r][c] = "E_CRS_COMPLETE"
            \/ status[i] # "running" \/ status[r] # "running"

\* The controllers implement SecureChannel: the key on offer is the one inside
\* the SHARING_SESSION_KEY message that is under way.
Offered(c) ==
    {s \in Secrets : \E m \in InFlight :
        /\ m.id = c /\ m.action = "SHARING_SESSION_KEY"
        /\ m.data[3] = encode_from_string(s)}

Channel == INSTANCE SecureChannel WITH
    offer <- [c \in ConnIds |-> Offered(c)], key <- secret, told <- completed

\* Every step of the controllers is a step of SecureChannel or changes nothing
\* there: one key per connection, the responder told first, no forged text.
ImplementsSecureChannel == Channel!Spec

-----------------------------------------------------------------------------
(* The inductive invariant behind these properties.                        *)

\* Each connection's two ends and their positions in the handshake.
ConnectionInv(c) ==
    LET i == initiator[c]
        r == responder[c]
    IN  /\ i = NULL => r = NULL /\ \A n \in Nodes : state[n][c] = "NONE"
        /\ \A n \in Nodes :
              /\ secret[n][c] # NULL <=> state[n][c] \in {"E_CRS_SESSION_KEY_SHARE", "E_CRS_COMPLETE"}
              /\ state[n][c] # "NONE" => n \in {i, r}
              /\ Listed(n, c) => remote[n][c] = IF n = i THEN r ELSE i
        /\ i # NULL =>
              /\ i \in Nodes /\ r \in known[i]
              /\ state[i][c] \in {"E_CRS_INITIAL_CHALLENGE", "E_CRS_SESSION_KEY_SHARE",
                                  "E_CRS_COMPLETE", "REMOVED"}
              /\ i = r => state[i][c] \in {"E_CRS_INITIAL_CHALLENGE", "REMOVED"}
              /\ i # r =>
                    /\ state[r][c] \in {"NONE", "E_CRS_CHALLENGE_REPLY", "E_CRS_COMPLETE", "REMOVED"}
                    /\ state[r][c] # "NONE" => i \in known[r]
                    /\ state[r][c] = "E_CRS_COMPLETE" =>
                          <<r, c>> \in completed /\ state[i][c] # "E_CRS_INITIAL_CHALLENGE"
                    /\ state[i][c] = "E_CRS_SESSION_KEY_SHARE" => state[r][c] # "NONE"
                    /\ state[i][c] = "E_CRS_COMPLETE" =>
                          <<r, c>> \in completed /\ state[r][c] \in {"E_CRS_COMPLETE", "REMOVED"}
                    /\ secret[i][c] # NULL /\ secret[r][c] # NULL => secret[i][c] = secret[r][c]

\* The recipient of m, if it still has the connection, holds secret s for it.
HoldsSecret(n, c, s) == secret[n][c] \in {NULL, s}

FromInitiator(m) == m.sender = initiator[m.id] /\ m.recipient = responder[m.id]
FromResponder(m) == m.sender = responder[m.id] /\ m.recipient = initiator[m.id]

\* The positions of the two ends while m is under way.
Positions(m, ofInitiator, ofResponder) ==
    /\ state[initiator[m.id]][m.id] \in ofInitiator
    /\ state[responder[m.id]][m.id] \in ofResponder

\* What a message under way says about the two ends.
MessageInv(m) ==
    /\ initiator[m.id] # NULL
    /\ m.recipient \in known[m.sender]
    /\ m.action # "CREATE_SESSION" => initiator[m.id] # responder[m.id]
    /\ m.action = "CREATE_SESSION" =>
          /\ FromInitiator(m)
          /\ initiator[m.id] # responder[m.id] =>
                Positions(m, {"E_CRS_INITIAL_CHALLENGE", "REMOVED"}, {"NONE"})
    /\ m.action = "RESPONDING_CREATED_SESSION" =>
          /\ FromResponder(m)
          /\ Positions(m, {"E_CRS_INITIAL_CHALLENGE", "REMOVED"}, {"E_CRS_CHALLENGE_REPLY", "REMOVED"})
    /\ m.action = "SHARING_SESSION_KEY" =>
          /\ FromInitiator(m)
          /\ Positions(m, {"E_CRS_SESSION_KEY_SHARE", "REMOVED"}, {"E_CRS_CHALLENGE_REPLY", "REMOVED"})
          /\ \E s \in Secrets :
                /\ m.data = asymmetrical_encrypt(Keypair(m.recipient, m.id), encode_from_string(s))
                /\ HoldsSecret(m.sender, m.id, s)
    /\ m.action = "COMPLETED_SESSION" =>
          /\ FromResponder(m)
          /\ <<m.sender, m.id>> \in completed
          /\ Positions(m, {"E_CRS_SESSION_KEY_SHARE", "REMOVED"}, {"E_CRS_COMPLETE", "REMOVED"})
          /\ \E s \in Secrets, whole \in BOOLEAN :
                /\ m.data = sent_as_c_string(symmetrical_encrypt(s, OKAY), whole)
                /\ HoldsSecret(m.recipient, m.id, s)
    /\ m.action = "COMMUNICATING_SESSION" =>
          /\ FromInitiator(m) \/ FromResponder(m)
          /\ Positions(m, {"E_CRS_SESSION_KEY_SHARE", "E_CRS_COMPLETE", "REMOVED"},
                          {"E_CRS_COMPLETE", "REMOVED"})
          /\ \E s \in Secrets, t \in Texts, whole \in BOOLEAN :
                /\ m.data = sent_as_c_string(symmetrical_encrypt(s, t), whole)
                /\ HoldsSecret(m.recipient, m.id, s)
                /\ <<m.sender, m.id, t>> \in sent

\* At most one handshake message per connection is under way, once.
OneHandshakeMessage ==
    /\ \A m1, m2 \in InFlight :
          /\ m1.id = m2.id
          /\ m1.action # "COMMUNICATING_SESSION"
          /\ m2.action # "COMMUNICATING_SESSION"
          => m1 = m2
    /\ \A m \in pending \cap inbox : m.action = "COMMUNICATING_SESSION"

\* The handshake is in step: whatever is under way, both ends of the connection
\* are where the message that is under way needs them.
HandshakeInv ==
    /\ \A c \in ConnIds : ConnectionInv(c)
    /\ \A m \in InFlight : MessageInv(m)
    /\ OneHandshakeMessage
-----------------------------------------------------------------------------
(* What the header says and the code does not do.                          *)

\* The completion callback is called for every connection that is complete:
\* "Notification of connection completed" (connection_controller.h:15).
CompletionNotified ==
    \A n \in Nodes, c \in ConnIds :
        state[n][c] = "E_CRS_COMPLETE" => <<n, c>> \in completed
=============================================================================
