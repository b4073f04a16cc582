------------------------- MODULE SecureChannel_proofs -------------------------
(***************************************************************************)
(* The connection controllers implement SecureChannel, for every set of    *)
(* nodes, connection ids, secrets and texts.                               *)
(***************************************************************************)
EXTENDS ConnectionController_proofs

(* The messages under way that carry a secret for c, and the secrets in some. *)
Sharing(c) == {m \in InFlight : m.id = c /\ m.action = "SHARING_SESSION_KEY"}
SecretsIn(M) == {s \in Secrets : \E m \in M : m.data[3] = encode_from_string(s)}

LEMMA OfferedSecrets ==
    ASSUME NEW c
    PROVE  Offered(c) = SecretsIn(Sharing(c)) /\ Offered(c)' = SecretsIn(Sharing(c)')
BY DEF Offered, SecretsIn, Sharing

(* There is at most one, with one secret. *)
LEMMA OneOffer ==
    ASSUME IInv, NEW c \in ConnIds, NEW m \in Sharing(c)
    PROVE  /\ Sharing(c) = {m}
           /\ \E s \in Secrets :
                 /\ m.data = asymmetrical_encrypt(Keypair(m.recipient, c), encode_from_string(s))
                 /\ Offered(c) = {s}
<1>1. Sharing(c) = {m}
  BY DEF Sharing, IInv, HandshakeInv, OneHandshakeMessage
<1>2. PICK s \in Secrets :
          m.data = asymmetrical_encrypt(Keypair(m.recipient, c), encode_from_string(s))
  BY DEF Sharing, IInv, HandshakeInv, MessageInv
<1>3. m.data[3] = encode_from_string(s)
  BY <1>2 DEF asymmetrical_encrypt
<1>4. \A x \in Secrets : encode_from_string(x) = encode_from_string(s) => x = s
  BY DecodeInverse
<1>5. Offered(c) = {s}
  BY <1>1, <1>3, <1>4, OfferedSecrets DEF SecretsIn
<1> QED
  BY <1>1, <1>2, <1>5

(* A step of the controllers, as SecureChannel sees it. *)
ChannelStep == [Channel!Next]_(Channel!channelVars)

(* Messages are lost, or popped with no effect: offers are lost at most. *)
LEMMA FewerOffers ==
    ASSUME IInv, \A c \in ConnIds : Sharing(c)' \subseteq Sharing(c),
           UNCHANGED <<secret, completed, sent, received>>
    PROVE  ChannelStep
<1> DEFINE lost == {c \in ConnIds : Sharing(c)' = {}}
<1>1. ASSUME NEW c \in ConnIds
      PROVE  Offered(c)' = IF c \in lost THEN {} ELSE Offered(c)
  <2>1. CASE c \in lost
    BY <2>1, OfferedSecrets DEF SecretsIn
  <2>2. CASE c \notin lost
    <3>1. PICK m \in Sharing(c)' : TRUE
      BY <2>2
    <3>2. m \in Sharing(c)
      BY <3>1
    <3>3. Sharing(c)' = Sharing(c)
      BY <3>1, <3>2, OneOffer
    <3> QED
      BY <2>2, <3>3, OfferedSecrets
  <2> QED
    BY <2>1, <2>2
<1>2. lost \in SUBSET ConnIds
  OBVIOUS
<1> HIDE DEF lost
<1>3. Channel!Lose(lost)
  BY <1>1 DEF Channel!Lose
<1>4. Channel!Next
  BY <1>2, <1>3 DEF Channel!Next
<1> QED
  BY <1>4 DEF ChannelStep

(* The same secrets are under way. *)
LEMMA SameOffers ==
    ASSUME \A c \in ConnIds : Sharing(c)' = Sharing(c)
    PROVE  [c \in ConnIds |-> Offered(c)]' = [c \in ConnIds |-> Offered(c)]
BY OfferedSecrets
-----------------------------------------------------------------------------
(* Who was told that a connection is complete.                             *)

(* Its initiator has gone past its first message, and never goes back: so a   *)
(* secret is proposed before anyone was told.                                 *)
ToldAfterShare ==
    \A x \in completed : initiator[x[2]] # NULL /\ Rank(state[initiator[x[2]]][x[2]]) >= 3

LEMMA NewlyTold ==
    ASSUME IInv, Next, NEW x \in completed' \ completed
    PROVE  /\ x[2] \in ConnIds /\ initiator[x[2]] # NULL
           /\ Rank(state[initiator[x[2]]][x[2]]) >= 3
<1>1. PICK n \in Nodes, m \in inbox :
        /\ SHARING_SESSION_KEY(n, m) \/ COMPLETED_SESSION(n, m)
        /\ completed' = completed \cup {<<n, m.id>>}
  <2>1. PICK n \in Nodes :
          \/ \E p \in Nodes : handle_peer(n, p)
          \/ Application(n)
          \/ connection_controller_tick(n)
    BY DEF Next
  <2>2. PICK m \in inbox : internal_connnection_message_processor(n, m)
    BY <2>1 DEF handle_peer, Application, connection_controller_tick,
       connection_controller_initiation_request, session_send, Complete,
       connection_controller_remove_connection_request, connection_controller_destroy,
       wpprotocol_mux_tick, wpprotocol_mux_pop, wpprotocol_mux_pop_nothing, noteVars
  <2>3. SHARING_SESSION_KEY(n, m) \/ COMPLETED_SESSION(n, m)
    BY <2>2 DEF internal_connnection_message_processor, message_from_unknown_sender,
       message_from_this_node, CREATE_SESSION, RESPONDING_CREATED_SESSION,
       COMMUNICATING_SESSION, NoSecret, Exit, noteVars
  <2> QED
    BY <2>3 DEF SHARING_SESSION_KEY, COMPLETED_SESSION, NoSecret, Exit, noteVars
<1>2. m.recipient = n /\ m.sender # n /\ x = <<n, m.id>>
  BY <1>1 DEF SHARING_SESSION_KEY, COMPLETED_SESSION, Case, Popped
<1>3. m.id \in ConnIds /\ MessageInv(m)
  BY <1>2, PoppedInv
<1>4. m.action \in {"SHARING_SESSION_KEY", "COMPLETED_SESSION"}
  BY <1>1 DEF SHARING_SESSION_KEY, COMPLETED_SESSION, Case
<1>5. /\ initiator[m.id] # NULL
      /\ state[initiator[m.id]][m.id] \in {"E_CRS_SESSION_KEY_SHARE", "REMOVED"}
  BY <1>3, <1>4 DEF MessageInv, Positions
<1> QED
  BY <1>2, <1>3, <1>5, RankOrder

LEMMA ToldStep == IInv /\ ToldAfterShare /\ [Next]_vars => ToldAfterShare'
<1> SUFFICES ASSUME IInv, ToldAfterShare, [Next]_vars, NEW x \in completed'
             PROVE  initiator'[x[2]] # NULL /\ Rank(state'[initiator'[x[2]]][x[2]]) >= 3
  BY DEF ToldAfterShare
<1>1. x[2] \in ConnIds /\ initiator[x[2]] # NULL /\ Rank(state[initiator[x[2]]][x[2]]) >= 3
  <2>1. CASE x \in completed
    BY <2>1 DEF ToldAfterShare, IInv, TypeOK
  <2>2. CASE x \notin completed
    BY <2>2, NewlyTold DEF vars, noteVars
  <2> QED
    BY <2>1, <2>2
<1>2. initiator'[x[2]] = initiator[x[2]]
  BY <1>1, EndsSettled
<1>3. initiator[x[2]] \in Nodes
  BY <1>1 DEF IInv, TypeOK
<1>4. Rank(state'[initiator[x[2]]][x[2]]) >= Rank(state[initiator[x[2]]][x[2]])
  BY <1>1, <1>3, NextAdvances DEF Advances
<1>5. Rank(state'[initiator[x[2]]][x[2]]) \in 0..5 /\ Rank(state[initiator[x[2]]][x[2]]) \in 0..5
  BY <1>1, <1>3, NextInv, RankOrder DEF IInv, TypeOK
<1> QED
  BY <1>1, <1>2, <1>4, <1>5
-----------------------------------------------------------------------------
(* Each step of the controllers is a step of SecureChannel, or none.        *)

(* What is sent carries no secret: no offer is added.                        *)
LEMMA NoNewOffer ==
    ASSUME NEW new, new.action # "SHARING_SESSION_KEY",
           InFlight' \subseteq InFlight \cup {new}
    PROVE  \A c \in ConnIds : Sharing(c)' \subseteq Sharing(c)
BY DEF Sharing

(* Setting a secret to null that is null changes nothing. *)
LEMMA StillNoSecret ==
    ASSUME TypeOK, NEW n \in Nodes, NEW c \in ConnIds, secret[n][c] = NULL,
           secret' = [secret EXCEPT ![n][c] = NULL]
    PROVE  secret' = secret
<1>1. secret \in [Nodes -> [ConnIds -> Secrets \cup {NULL}]]
  BY DEF TypeOK
<1>2. \A p \in Nodes : secret'[p] = secret[p]
  BY <1>1
<1> QED
  BY <1>1, <1>2

LEMMA InitiationChannel ==
    ASSUME IInv, NEW n \in Nodes, NEW r \in Nodes, NEW c \in ConnIds,
           connection_controller_initiation_request(n, r, c)
    PROVE  ChannelStep
<1> DEFINE new == connection_request_create_initiation_message(n, c, r)
<1>1. /\ initiator[c] = NULL
      /\ secret' = [secret EXCEPT ![n][c] = NULL]
      /\ pending' = pending \cup {new} /\ inbox' = inbox
      /\ UNCHANGED <<completed, sent, received>>
  BY DEF connection_controller_initiation_request, connection_request_create, noteVars
<1>2. secret[n][c] = NULL
  BY <1>1 DEF IInv, HandshakeInv, ConnectionInv
<1>3. secret' = secret
  BY <1>1, <1>2, StillNoSecret DEF IInv
<1>4. new.action # "SHARING_SESSION_KEY"
  BY DEF connection_request_create_initiation_message, wpprotocol_generate_message
<1>5. InFlight' \subseteq InFlight \cup {new}
  BY <1>1 DEF InFlight
<1> QED
  BY <1>1, <1>3, <1>4, <1>5, NoNewOffer, FewerOffers

LEMMA SendChannel ==
    ASSUME IInv, NEW n \in Nodes, NEW c \in ConnIds, NEW t \in Texts, session_send(n, c, t)
    PROVE  ChannelStep
<1>1. PICK whole \in BOOLEAN :
        pending' = pending \cup
            {connection_request_send_message(n, c, remote[n][c], secret[n][c], t, whole)}
  BY DEF session_send, Complete
<1>2. /\ state[n][c] = "E_CRS_COMPLETE" /\ secret[n][c] # NULL
      /\ sent' = sent \cup {<<n, c, t>>} /\ inbox' = inbox
      /\ UNCHANGED <<secret, completed, received>>
  BY DEF session_send, Complete, connVars
<1> DEFINE new == connection_request_send_message(n, c, remote[n][c], secret[n][c], t, whole)
<1>3. new.action # "SHARING_SESSION_KEY"
  BY DEF connection_request_send_message, wpprotocol_generate_message
<1>4. \A d \in ConnIds : Sharing(d)' = Sharing(d)
  BY <1>1, <1>2, <1>3 DEF Sharing, InFlight
<1>5. \E p \in Nodes : <<p, c>> \in completed
  <2>1. ConnectionInv(c) /\ completed \subseteq Nodes \X ConnIds
    BY DEF IInv, HandshakeInv, TypeOK
  <2>2. <<responder[c], c>> \in completed
    BY <1>2, <2>1 DEF ConnectionInv
  <2> QED
    BY <2>1, <2>2
<1>6. Channel!Send(n, c, t)
  BY <1>2, <1>4, <1>5, SameOffers DEF Channel!Send
<1>7. Channel!Next
  BY <1>6 DEF Channel!Next
<1> QED
  BY <1>7 DEF ChannelStep

LEMMA RemoveChannel ==
    ASSUME NEW n \in Nodes, NEW c \in ConnIds,
           connection_controller_remove_connection_request(n, c)
    PROVE  ChannelStep
<1>1. /\ secret' = [secret EXCEPT ![n][c] = NULL]
      /\ pending' = pending /\ inbox' = inbox
      /\ UNCHANGED <<completed, sent, received>>
  BY DEF connection_controller_remove_connection_request, muxVars, noteVars
<1>2. \A d \in ConnIds : Sharing(d)' = Sharing(d)
  BY <1>1 DEF Sharing, InFlight
<1>3. Channel!Drop(n, c)
  BY <1>1, <1>2, SameOffers DEF Channel!Drop
<1>4. Channel!Next
  BY <1>3 DEF Channel!Next
<1> QED
  BY <1>4 DEF ChannelStep

(* Messages go, and nothing else of the channel changes. *)
LEMMA LostChannel ==
    ASSUME IInv, InFlight' \subseteq InFlight,
           UNCHANGED <<secret, completed, sent, received>>
    PROVE  ChannelStep
<1>1. \A c \in ConnIds : Sharing(c)' \subseteq Sharing(c)
  BY DEF Sharing
<1> QED
  BY <1>1, FewerOffers

LEMMA TickChannel ==
    ASSUME IInv, NEW n \in Nodes, wpprotocol_mux_tick(n)
    PROVE  ChannelStep
<1>1. InFlight' \subseteq InFlight
  BY DEF wpprotocol_mux_tick, internal_connection_control_emitter, InFlight, muxVars
<1>2. UNCHANGED <<secret, completed, sent, received>>
  BY DEF wpprotocol_mux_tick, connVars, noteVars
<1> QED
  BY <1>1, <1>2, LostChannel

LEMMA ExitChannel ==
    ASSUME IInv, NEW n, NEW m \in inbox, NEW where, Popped(n, m), Exit(n, where)
    PROVE  ChannelStep
<1>1. InFlight' \subseteq InFlight /\ UNCHANGED <<secret, completed, sent, received>>
  BY DEF Popped, Exit, InFlight, connVars, noteVars
<1> QED
  BY <1>1, LostChannel

LEMMA CreateChannel ==
    ASSUME IInv, NEW n \in Nodes, NEW m \in inbox, CREATE_SESSION(n, m)
    PROVE  ChannelStep
<1> DEFINE new == challenge_reply_message(n, m.id, m.sender)
<1>1. /\ m.recipient = n /\ m.sender # n /\ m.action = "CREATE_SESSION"
      /\ inbox' = inbox \ {m}
  BY DEF CREATE_SESSION, Case, Popped
<1>2. ~Listed(n, m.id)
  BY <1>1, StateAtPop DEF Listed
<1>3. pending' = pending \cup {new} /\ UNCHANGED <<completed, sent, received>>
  BY <1>2 DEF CREATE_SESSION, noteVars
<1>4. secret' = secret
  BY <1>1, CreateEffect, PoppedInv, StillNoSecret DEF IInv
<1>5. new.action # "SHARING_SESSION_KEY"
  BY DEF challenge_reply_message, wpprotocol_generate_message
<1>6. InFlight' \subseteq InFlight \cup {new}
  BY <1>1, <1>3 DEF InFlight
<1> QED
  BY <1>3, <1>4, <1>5, <1>6, NoNewOffer, FewerOffers

LEMMA RespondingChannel ==
    ASSUME IInv, ToldAfterShare, NEW n \in Nodes, NEW m \in inbox,
           RESPONDING_CREATED_SESSION(n, m), Listed(n, m.id)
    PROVE  ChannelStep
<1> DEFINE c == m.id
<1>1. /\ m.recipient = n /\ m.sender # n /\ m.action = "RESPONDING_CREATED_SESSION"
      /\ inbox' = inbox \ {m}
  BY DEF RESPONDING_CREATED_SESSION, Case, Popped
<1>2. /\ c \in ConnIds /\ m \in Messages /\ MessageInv(m) /\ ConnectionInv(c)
  BY <1>1, PoppedInv
<1> DEFINE new(s) == session_key_share_message(n, c, remote[n][c],
                         asymmetrical_key_from_string(decode_to_string(m.data)), s)
<1>3. PICK s \in Secrets :
        secret' = [secret EXCEPT ![n][c] = s] /\ pending' = pending \cup {new(s)}
  BY DEF RESPONDING_CREATED_SESSION
<1>4. UNCHANGED <<completed, sent, received>>
  BY DEF RESPONDING_CREATED_SESSION, noteVars
<1>5. n = initiator[c] /\ state[n][c] = "E_CRS_INITIAL_CHALLENGE"
  BY <1>1, <1>2 DEF MessageInv, FromResponder, Positions, Listed
<1>6. \A p \in Nodes : secret[p][c] = NULL /\ <<p, c>> \notin completed
  <2>1. \A p \in Nodes : <<p, c>> \notin completed
    BY <1>5, RankOrder DEF ToldAfterShare
  <2>2. ASSUME NEW p \in Nodes PROVE secret[p][c] = NULL
    <3>1. p = n => state[p][c] = "E_CRS_INITIAL_CHALLENGE"
      BY <1>5
    <3>2. p # n /\ state[p][c] # "NONE" => p = responder[c]
      BY <1>2, <1>5 DEF ConnectionInv
    <3>3. state[responder[c]][c] \in {"E_CRS_CHALLENGE_REPLY", "REMOVED"}
      BY <1>1, <1>2 DEF MessageInv, Positions
    <3>4. state[p][c] \notin {"E_CRS_SESSION_KEY_SHARE", "E_CRS_COMPLETE"}
      BY <3>1, <3>2, <3>3
    <3> QED
      BY <1>2, <3>4 DEF ConnectionInv
  <2> QED
    BY <2>1, <2>2
<1>7. \A x \in InFlight : x.id = c => x.action # "SHARING_SESSION_KEY"
  BY <1>1 DEF IInv, HandshakeInv, OneHandshakeMessage, InFlight
<1>8. Sharing(c) = {}
  BY <1>7 DEF Sharing
<1>9. /\ new(s).id = c /\ new(s).action = "SHARING_SESSION_KEY"
      /\ new(s).data[3] = encode_from_string(s)
  BY DEF session_key_share_message, wpprotocol_generate_message, asymmetrical_encrypt
<1> HIDE DEF new
<1>10. InFlight' = (InFlight \ {m}) \cup {new(s)} \/ InFlight' = InFlight \cup {new(s)}
  BY <1>1, <1>3 DEF InFlight
<1>11. Sharing(c)' = {new(s)}
  BY <1>7, <1>9, <1>10 DEF Sharing
<1>12. \A d \in ConnIds \ {c} : Sharing(d)' = Sharing(d)
  BY <1>1, <1>9, <1>10 DEF Sharing
<1>13. \A x \in Secrets : encode_from_string(x) = encode_from_string(s) => x = s
  BY DecodeInverse
<1>14. Offered(c)' = {s} /\ Offered(c) = {}
  BY <1>8, <1>9, <1>11, <1>13, OfferedSecrets DEF SecretsIn
<1>15. \A d \in ConnIds : Offered(d)' = IF d = c THEN {s} ELSE Offered(d)
  BY <1>12, <1>14, OfferedSecrets
<1>16. [d \in ConnIds |-> Offered(d)]' = [[d \in ConnIds |-> Offered(d)] EXCEPT ![c] = {s}]
  BY <1>15
<1>17. Channel!Propose(n, c, s)
  BY <1>2, <1>3, <1>4, <1>6, <1>14, <1>16 DEF Channel!Propose
<1>18. Channel!Next
  BY <1>2, <1>17 DEF Channel!Next
<1> QED
  BY <1>18 DEF ChannelStep

LEMMA SharingChannel ==
    ASSUME IInv, NEW n \in Nodes, NEW m \in inbox, SHARING_SESSION_KEY(n, m), Listed(n, m.id)
    PROVE  ChannelStep
<1> DEFINE c == m.id
<1>1. /\ m.recipient = n /\ m.sender # n /\ m.action = "SHARING_SESSION_KEY"
      /\ inbox' = inbox \ {m}
  BY DEF SHARING_SESSION_KEY, Case, Popped
<1>2. c \in ConnIds /\ m \in Sharing(c)
  BY <1>1, PoppedInv DEF Sharing, InFlight
<1>3. PICK s \in Secrets :
        /\ m.data = asymmetrical_encrypt(Keypair(n, c), encode_from_string(s))
        /\ Offered(c) = {s}
  BY <1>1, <1>2, OneOffer
<1>4. asymmetrical_decrypt(Keypair(n, c), m.data) = encode_from_string(s)
  BY <1>3, AsymmetricalInverse
<1>5. decode_to_string(asymmetrical_decrypt(Keypair(n, c), m.data)) = s
  BY <1>4, DecodeInverse
<1>6. asymmetrical_decrypt(Keypair(n, c), m.data) # NULL
  BY <1>4, EncodingAssumption
<1>7. /\ secret' = [secret EXCEPT ![n][c] = s]
      /\ completed' = completed \cup {<<n, c>>}
      /\ \E whole \in BOOLEAN :
            pending' = pending \cup {complete_message(n, c, remote[n][c], s, whole)}
      /\ UNCHANGED <<sent, received>>
  BY <1>5, <1>6 DEF SHARING_SESSION_KEY
<1> PICK whole \in BOOLEAN :
       pending' = pending \cup {complete_message(n, c, remote[n][c], s, whole)}
  BY <1>7
<1> DEFINE new == complete_message(n, c, remote[n][c], s, whole)
<1>8. pending' = pending \cup {new} /\ new.action # "SHARING_SESSION_KEY"
  BY DEF complete_message, wpprotocol_generate_message
<1> HIDE DEF new
<1>9. m \notin pending
  BY <1>1 DEF IInv, HandshakeInv, OneHandshakeMessage
<1>10. Sharing(c) = {m}
  BY <1>2, OneOffer
<1>11. Sharing(c)' = {}
  BY <1>1, <1>8, <1>9, <1>10 DEF Sharing, InFlight
<1>12. \A d \in ConnIds \ {c} : Sharing(d)' = Sharing(d)
  BY <1>1, <1>8 DEF Sharing, InFlight
<1>13. ASSUME NEW d \in ConnIds PROVE Offered(d)' = IF d = c THEN {} ELSE Offered(d)
  <2>1. CASE d = c
    BY <1>11, <2>1, OfferedSecrets DEF SecretsIn
  <2>2. CASE d # c
    BY <1>12, <2>2, OfferedSecrets
  <2> QED
    BY <2>1, <2>2
<1>14. [d \in ConnIds |-> Offered(d)]' = [[d \in ConnIds |-> Offered(d)] EXCEPT ![c] = {}]
  BY <1>13
<1>15. secret[n][c] = NULL
  BY <1>1, StateAtPop, SecretAtPop
<1>16. Channel!Accept(n, c, s)
  BY <1>2, <1>3, <1>7, <1>14, <1>15 DEF Channel!Accept
<1>17. Channel!Next
  BY <1>2, <1>16 DEF Channel!Next
<1> QED
  BY <1>17 DEF ChannelStep

LEMMA CompletedChannel ==
    ASSUME IInv, NEW n \in Nodes, NEW m \in inbox, COMPLETED_SESSION(n, m),
           Listed(n, m.id), secret[n][m.id] # NULL
    PROVE  ChannelStep
<1> DEFINE c == m.id
<1>1. /\ m.recipient = n /\ m.sender # n /\ m.action = "COMPLETED_SESSION"
      /\ inbox' = inbox \ {m} /\ pending' = pending
      /\ completed' \in {completed, completed \cup {<<n, c>>}}
      /\ UNCHANGED <<secret, sent, received>>
  BY DEF COMPLETED_SESSION, Case, Popped, NoSecret
<1>2. c \in ConnIds /\ m.sender \in Nodes /\ MessageInv(m)
  BY <1>1, PoppedInv
<1>3. <<m.sender, c>> \in completed
  BY <1>1, <1>2 DEF MessageInv
<1>4. \A d \in ConnIds : Sharing(d)' = Sharing(d)
  BY <1>1 DEF Sharing, InFlight
<1>5. CASE completed' = completed \cup {<<n, c>>}
  <2>1. Channel!Confirm(n, c)
    BY <1>1, <1>2, <1>3, <1>4, <1>5, SameOffers DEF Channel!Confirm
  <2>2. Channel!Next
    BY <1>2, <2>1 DEF Channel!Next
  <2> QED
    BY <2>2 DEF ChannelStep
<1>6. CASE completed' = completed
  BY <1>1, <1>4, <1>6, FewerOffers
<1> QED
  BY <1>1, <1>5, <1>6

LEMMA CommunicatingChannel ==
    ASSUME IInv, NEW n \in Nodes, NEW m \in inbox, COMMUNICATING_SESSION(n, m),
           Listed(n, m.id), secret[n][m.id] # NULL
    PROVE  ChannelStep
<1> DEFINE c == m.id
           x == symmetrical_decrypt(secret[n][c], m.data)
<1>1. /\ m.recipient = n /\ m.sender # n /\ m.action = "COMMUNICATING_SESSION"
      /\ inbox' = inbox \ {m} /\ pending' = pending
      /\ received' = received \cup {<<n, c, x>>}
      /\ UNCHANGED <<secret, completed, sent>>
  BY DEF COMMUNICATING_SESSION, Case, Popped, NoSecret, connVars
<1>2. c \in ConnIds /\ m.sender \in Nodes
  BY <1>1, PoppedInv
<1>3. PICK t \in Texts : <<m.sender, c, t>> \in sent /\ x \in {t, Garbled}
  BY <1>1, TextDecrypted
<1>4. \A d \in ConnIds : Sharing(d)' = Sharing(d)
  BY <1>1 DEF Sharing, InFlight
<1> HIDE DEF x
<1>5. Channel!Receive(n, c, x)
  BY <1>1, <1>2, <1>3, <1>4, SameOffers DEF Channel!Receive
<1>6. Channel!Next
  BY <1>2, <1>3, <1>5 DEF Channel!Next
<1> QED
  BY <1>6 DEF ChannelStep

LEMMA ProcessorChannel ==
    ASSUME IInv, ToldAfterShare, NEW n \in Nodes, NEW m \in inbox,
           internal_connnection_message_processor(n, m)
    PROVE  ChannelStep
<1>1. CASE message_from_unknown_sender(n, m)
  BY <1>1, ExitChannel DEF message_from_unknown_sender
<1>2. CASE message_from_this_node(n, m)
  BY <1>2, ExitChannel DEF message_from_this_node
<1>3. CASE CREATE_SESSION(n, m)
  BY <1>3, CreateChannel
<1>4. CASE RESPONDING_CREATED_SESSION(n, m)
  <2>1. CASE Listed(n, m.id)
    BY <1>4, <2>1, RespondingChannel
  <2>2. CASE ~Listed(n, m.id)
    BY <1>4, <2>2, ExitChannel DEF RESPONDING_CREATED_SESSION, Case
  <2> QED
    BY <2>1, <2>2
<1>5. CASE SHARING_SESSION_KEY(n, m)
  <2>1. CASE Listed(n, m.id)
    BY <1>5, <2>1, SharingChannel
  <2>2. CASE ~Listed(n, m.id)
    BY <1>5, <2>2, ExitChannel DEF SHARING_SESSION_KEY, Case
  <2> QED
    BY <2>1, <2>2
<1>6. CASE COMPLETED_SESSION(n, m)
  <2>1. CASE Listed(n, m.id) /\ secret[n][m.id] # NULL
    BY <1>6, <2>1, CompletedChannel
  <2>2. CASE ~(Listed(n, m.id) /\ secret[n][m.id] # NULL)
    BY <1>6, <2>2, ExitChannel DEF COMPLETED_SESSION, NoSecret, Case
  <2> QED
    BY <2>1, <2>2
<1>7. CASE COMMUNICATING_SESSION(n, m)
  <2>1. CASE Listed(n, m.id) /\ secret[n][m.id] # NULL
    BY <1>7, <2>1, CommunicatingChannel
  <2>2. CASE ~(Listed(n, m.id) /\ secret[n][m.id] # NULL)
    BY <1>7, <2>2, ExitChannel DEF COMMUNICATING_SESSION, NoSecret, Case
  <2> QED
    BY <2>1, <2>2
<1> QED
  BY <1>1, <1>2, <1>3, <1>4, <1>5, <1>6, <1>7 DEF internal_connnection_message_processor

LEMMA NextChannel == IInv /\ ToldAfterShare /\ [Next]_vars => ChannelStep
<1> SUFFICES ASSUME IInv, ToldAfterShare, [Next]_vars PROVE ChannelStep
  OBVIOUS
<1>1. ASSUME NEW n \in Nodes, NEW p \in Nodes, handle_peer(n, p) PROVE ChannelStep
  BY <1>1, LostChannel DEF handle_peer, InFlight, connVars, muxVars, noteVars
<1>2. ASSUME NEW n \in Nodes, Application(n) PROVE ChannelStep
  <2>1. ASSUME NEW r \in Nodes, NEW c \in ConnIds,
               connection_controller_initiation_request(n, r, c)
        PROVE  ChannelStep
    BY <2>1, InitiationChannel
  <2>2. ASSUME NEW c \in ConnIds, NEW t \in Texts, session_send(n, c, t) PROVE ChannelStep
    BY <2>2, SendChannel
  <2>3. ASSUME NEW c \in ConnIds, connection_controller_remove_connection_request(n, c)
        PROVE  ChannelStep
    BY <2>3, RemoveChannel
  <2>4. CASE connection_controller_destroy(n)
    BY <2>4, LostChannel DEF connection_controller_destroy, InFlight, connVars, noteVars
  <2> QED
    BY <1>2, <2>1, <2>2, <2>3, <2>4 DEF Application
<1>3. ASSUME NEW n \in Nodes, connection_controller_tick(n) PROVE ChannelStep
  <2>1. CASE wpprotocol_mux_tick(n)
    BY <2>1, TickChannel
  <2>2. CASE wpprotocol_mux_pop_nothing(n)
    BY <2>2, LostChannel DEF wpprotocol_mux_pop_nothing, InFlight, connVars, muxVars, noteVars
  <2>3. ASSUME NEW m \in inbox, internal_connnection_message_processor(n, m) PROVE ChannelStep
    BY <2>3, ProcessorChannel
  <2> QED
    BY <1>3, <2>1, <2>2, <2>3 DEF connection_controller_tick, wpprotocol_mux_pop
<1>4. CASE UNCHANGED vars
  BY <1>4, LostChannel DEF vars, InFlight, connVars, muxVars, noteVars
<1> QED
  BY <1>1, <1>2, <1>3, <1>4 DEF Next

LEMMA InitChannel == Init => Channel!Init
<1> SUFFICES ASSUME Init PROVE Channel!Init
  OBVIOUS
<1>1. \A c \in ConnIds : Offered(c) = {}
  BY DEF Init, Offered, InFlight
<1> QED
  BY <1>1 DEF Init, Channel!Init

(* For every set of nodes, connection ids, secrets and texts, whatever is lost,
   delayed or removed: a connection gets one key, which its two ends agree on,
   they are told in that order, the one that accepted the key first, and a text
   is received as the other end sent it or garbled (connection_request.c:81-207,
   connection_controller.c:40-176). *)
THEOREM ChannelImplemented == Spec => ImplementsSecureChannel
<1>1. Init => IInv /\ ToldAfterShare
  BY InitInv DEF Init, ToldAfterShare
<1>2. IInv /\ ToldAfterShare /\ [Next]_vars => (IInv /\ ToldAfterShare)' /\ ChannelStep
  BY NextInv, ToldStep, NextChannel
<1> QED
  BY <1>1, <1>2, InitChannel, PTL DEF Spec, ChannelStep, Channel!Spec, ImplementsSecureChannel
===============================================================================
