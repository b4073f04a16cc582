--------------------- MODULE ConnectionController_proofs ---------------------
(***************************************************************************)
(* Proofs about ConnectionController, for every set of nodes, connection   *)
(* ids, secrets and texts.                                                 *)
(***************************************************************************)
EXTENDS ConnectionController, TLAPS

(* A keypair decrypts what was encrypted with it. *)
LEMMA AsymmetricalInverse ==
    ASSUME NEW k, NEW x
    PROVE  asymmetrical_decrypt(k, asymmetrical_encrypt(k, x)) = x
BY DEF asymmetrical_decrypt, asymmetrical_encrypt

(* Decoding inverts encoding. *)
LEMMA DecodeInverse ==
    ASSUME NEW x
    PROVE  decode_to_string(encode_from_string(x)) = x
BY DEF decode_to_string, encode_from_string

(* A public key survives its PEM form. *)
LEMMA KeyStringInverse ==
    ASSUME NEW k
    PROVE  asymmetrical_key_from_string(asymmetrical_key_to_string(k)) = k
BY DEF asymmetrical_key_from_string, asymmetrical_key_to_string

(* The shared secret decrypts a payload, unless strlen cut it short. *)
LEMMA SymmetricalInverse ==
    ASSUME NEW k, NEW x, NEW whole \in BOOLEAN
    PROVE  symmetrical_decrypt(k, sent_as_c_string(symmetrical_encrypt(k, x), whole))
               = IF whole THEN x ELSE Garbled
BY DEF symmetrical_decrypt, sent_as_c_string, symmetrical_encrypt

(* What the fields of a message hold, by its action. *)
LEMMA MessageFields ==
    ASSUME NEW m \in Messages
    PROVE  /\ m.id \in ConnIds /\ m.sender \in Nodes /\ m.recipient \in Nodes
           /\ m.action \in Actions
           /\ m.action = "CREATE_SESSION" =>
                m.data = encode_from_string(asymmetrical_key_to_string(Keypair(m.sender, m.id)))
           /\ m.action = "RESPONDING_CREATED_SESSION" =>
                m.data = encode_from_string(asymmetrical_key_to_string(Keypair(m.sender, m.id)))
BY DEF Messages, Actions, wpprotocol_generate_message,
       connection_request_create_initiation_message, challenge_reply_message,
       session_key_share_message, complete_message, connection_request_send_message
-----------------------------------------------------------------------------
(* The inductive invariant. *)
IInv == TypeOK /\ HandshakeInv

(* Nothing is forgotten about who discovered, completed and sent what. *)
Grows ==
    /\ \A n \in Nodes : known[n] \subseteq known'[n]
    /\ completed \subseteq completed'
    /\ sent \subseteq sent'

(* The step leaves what the nodes hold for connection c alone. *)
SameConnection(c) ==
    /\ initiator'[c] = initiator[c]
    /\ responder'[c] = responder[c]
    /\ \A n \in Nodes : /\ state'[n][c] = state[n][c]
                       /\ remote'[n][c] = remote[n][c]
                       /\ secret'[n][c] = secret[n][c]

(* A step elsewhere does not disturb a connection. *)
LEMMA ConnectionFrame ==
    ASSUME TypeOK, NEW c \in ConnIds, ConnectionInv(c), SameConnection(c), Grows
    PROVE  ConnectionInv(c)'
<1>1. initiator[c] \in Nodes \cup {NULL} /\ responder[c] \in Nodes \cup {NULL}
  BY DEF TypeOK
<1>2. initiator[c] # NULL => initiator[c] \in Nodes /\ responder[c] \in Nodes
  BY <1>1 DEF ConnectionInv, TypeOK
<1>3. \A n \in Nodes : Listed(n, c)' <=> Listed(n, c)
  BY DEF SameConnection, Listed
<1> QED
  BY <1>1, <1>2, <1>3 DEF ConnectionInv, SameConnection, Grows

(* Nor does it disturb what a message under way says. *)
LEMMA MessageFrame ==
    ASSUME TypeOK, NEW m \in Messages, MessageInv(m), ConnectionInv(m.id),
           SameConnection(m.id), Grows
    PROVE  MessageInv(m)'
<1>1. m.id \in ConnIds /\ m.sender \in Nodes /\ m.recipient \in Nodes
  BY MessageFields
<1>2. initiator[m.id] \in Nodes /\ responder[m.id] \in Nodes
  BY <1>1 DEF ConnectionInv, MessageInv, TypeOK
<1> QED
  BY <1>1, <1>2 DEF MessageInv, SameConnection, Grows, FromInitiator, FromResponder,
                     Positions, HoldsSecret

(* Messages that go, or move to their recipient, break nothing. *)
LEMMA FewerMessages ==
    ASSUME TypeOK, HandshakeInv, Grows, \A c \in ConnIds : SameConnection(c),
           InFlight' \subseteq InFlight,
           \A m \in pending' \cap inbox' : m.action = "COMMUNICATING_SESSION"
    PROVE  HandshakeInv'
<1>1. \A c \in ConnIds : ConnectionInv(c)'
  BY ConnectionFrame DEF HandshakeInv
<1>2. \A m \in InFlight' : MessageInv(m)'
  <2> SUFFICES ASSUME NEW m \in InFlight' PROVE MessageInv(m)'
    OBVIOUS
  <2>1. m \in Messages /\ MessageInv(m)
    BY DEF TypeOK, InFlight, HandshakeInv
  <2>2. m.id \in ConnIds
    BY <2>1, MessageFields
  <2> QED
    BY <2>1, <2>2, MessageFrame DEF HandshakeInv
<1>3. OneHandshakeMessage'
  BY DEF HandshakeInv, OneHandshakeMessage, InFlight
<1> QED
  BY <1>1, <1>2, <1>3 DEF HandshakeInv

(* A message taken for processing was the only handshake message of its    *)
(* connection: what remains under way on it are texts.                     *)
LEMMA PoppedAlone ==
    ASSUME HandshakeInv, NEW m \in inbox, m.action # "COMMUNICATING_SESSION",
           NEW x \in pending \cup (inbox \ {m}), x.id = m.id
    PROVE  x.action = "COMMUNICATING_SESSION"
BY DEF HandshakeInv, OneHandshakeMessage, InFlight

(* A step of connection c that sends one message about it.                 *)
LEMMA OneConnectionStep ==
    ASSUME TypeOK, HandshakeInv, NEW c \in ConnIds, NEW new, Grows,
           \A d \in ConnIds \ {c} : SameConnection(d),
           new.id = c,
           pending' \subseteq pending \cup {new}, inbox' \subseteq inbox,
           new \notin inbox' \/ new.action = "COMMUNICATING_SESSION",
           ConnectionInv(c)', MessageInv(new)',
           \A x \in (pending \cup inbox') : x.id = c => MessageInv(x)',
           \A x \in (pending \cup inbox') :
               x.id = c => x.action = "COMMUNICATING_SESSION" \/ new.action = "COMMUNICATING_SESSION"
    PROVE  HandshakeInv'
<1>1. \A d \in ConnIds : ConnectionInv(d)'
  BY ConnectionFrame DEF HandshakeInv
<1>2. \A x \in InFlight' : MessageInv(x)'
  <2> SUFFICES ASSUME NEW x \in InFlight' PROVE MessageInv(x)'
    OBVIOUS
  <2>1. CASE x = new
    BY <2>1
  <2>2. CASE x # new /\ x.id = c
    BY <2>2 DEF InFlight
  <2>3. CASE x # new /\ x.id # c
    <3>1. x \in Messages /\ MessageInv(x)
      BY <2>3 DEF TypeOK, InFlight, HandshakeInv
    <3>2. x.id \in ConnIds
      BY <3>1, MessageFields
    <3> QED
      BY <2>3, <3>1, <3>2, MessageFrame DEF HandshakeInv
  <2> QED
    BY <2>1, <2>2, <2>3
<1>3. OneHandshakeMessage'
  <2>1. ASSUME NEW m1 \in InFlight', NEW m2 \in InFlight', m1.id = m2.id,
               m1.action # "COMMUNICATING_SESSION", m2.action # "COMMUNICATING_SESSION"
        PROVE  m1 = m2
    <3>1. m1 \in InFlight \cup {new} /\ m2 \in InFlight \cup {new}
      BY <2>1 DEF InFlight
    <3>2. CASE m1 # new /\ m2 # new
      BY <2>1, <3>1, <3>2 DEF HandshakeInv, OneHandshakeMessage
    <3>3. CASE m1 = new \/ m2 = new
      BY <2>1, <3>3 DEF InFlight
    <3> QED
      BY <3>2, <3>3
  <2>2. \A m \in pending' \cap inbox' : m.action = "COMMUNICATING_SESSION"
    BY DEF HandshakeInv, OneHandshakeMessage, InFlight
  <2> QED
    BY <2>1, <2>2 DEF OneHandshakeMessage
<1> QED
  BY <1>1, <1>2, <1>3 DEF HandshakeInv
-----------------------------------------------------------------------------
(* The invariant holds initially. *)
LEMMA InitInv == Init => IInv
<1> SUFFICES ASSUME Init PROVE IInv
  OBVIOUS
<1>1. TypeOK
  BY ConstantsAssumption DEF Init, TypeOK, States
<1>2. HandshakeInv
  BY DEF Init, HandshakeInv, ConnectionInv, OneHandshakeMessage, InFlight, Listed
<1> QED
  BY <1>1, <1>2 DEF IInv

LEMMA InitiationInv ==
    ASSUME IInv, NEW n \in Nodes, NEW r \in Nodes, NEW c \in ConnIds,
           connection_controller_initiation_request(n, r, c)
    PROVE  IInv'
<1> DEFINE new == connection_request_create_initiation_message(n, c, r)
<1> USE DEF IInv
<1>a. n # NULL /\ r # NULL
  BY ConstantsAssumption
<1>b. new \in Messages
  BY DEF Messages
<1>c. new.id = c /\ new.sender = n /\ new.recipient = r /\ new.action = "CREATE_SESSION"
  BY DEF connection_request_create_initiation_message, wpprotocol_generate_message
<1>1. TypeOK'
  BY <1>b DEF TypeOK, connection_controller_initiation_request, connection_request_create,
       connection_controller_add_connection_request, States, peerVars, noteVars
<1>2. /\ Grows
      /\ \A d \in ConnIds \ {c} : SameConnection(d)
  BY DEF TypeOK, connection_controller_initiation_request, connection_request_create,
       connection_controller_add_connection_request, Grows, SameConnection, peerVars, noteVars
<1>d. \A p \in Nodes : state[p][c] = "NONE" /\ secret[p][c] = NULL
  <2>1. ConnectionInv(c) /\ initiator[c] = NULL
    BY DEF HandshakeInv, connection_controller_initiation_request
  <2> QED
    BY <2>1 DEF ConnectionInv
<1>3. /\ initiator'[c] = n /\ responder'[c] = r
      /\ state'[n][c] = "E_CRS_INITIAL_CHALLENGE" /\ remote'[n][c] = r /\ secret'[n][c] = NULL
      /\ \A p \in Nodes \ {n} : /\ state'[p][c] = "NONE"
                              /\ secret'[p][c] = NULL
      /\ known' = known /\ r \in known[n]
      /\ pending' = pending \cup {new} /\ inbox' = inbox
  BY <1>d DEF TypeOK, connection_controller_initiation_request, connection_request_create,
       connection_controller_add_connection_request, peerVars
<1>4. \A x \in pending \cup inbox : x.id # c
  BY DEF connection_controller_initiation_request, HandshakeInv, InFlight, MessageInv
<1>5. ConnectionInv(c)'
  BY <1>a, <1>3 DEF ConnectionInv, Listed
<1>6. MessageInv(new)'
  BY <1>a, <1>3, <1>c DEF MessageInv, FromInitiator, Positions
<1>7. HandshakeInv'
  <2> HIDE DEF new, IInv
  <2> QED
    BY <1>2, <1>3, <1>4, <1>5, <1>6, <1>c, OneConnectionStep DEF IInv
<1> QED
  BY <1>1, <1>7

LEMMA HandlePeerInv ==
    ASSUME IInv, NEW n \in Nodes, NEW p \in Nodes, handle_peer(n, p)
    PROVE  IInv'
<1> USE DEF handle_peer, originVars, connVars, muxVars, noteVars
<1>1. TypeOK'
  BY DEF IInv, TypeOK
<1>2. Grows /\ \A c \in ConnIds : SameConnection(c)
  BY DEF IInv, TypeOK, Grows, SameConnection
<1>3. HandshakeInv'
  <2>1. InFlight' \subseteq InFlight
    BY DEF InFlight
  <2>2. \A m \in pending' \cap inbox' : m.action = "COMMUNICATING_SESSION"
    BY DEF IInv, HandshakeInv, OneHandshakeMessage
  <2> QED
    BY <1>2, <2>1, <2>2, FewerMessages DEF IInv
<1> QED
  BY <1>1, <1>3 DEF IInv

LEMMA DestroyInv ==
    ASSUME IInv, NEW n \in Nodes, connection_controller_destroy(n)
    PROVE  IInv'
<1> USE DEF connection_controller_destroy, peerVars, originVars, connVars, noteVars
<1>1. TypeOK'
  BY DEF IInv, TypeOK
<1>2. Grows /\ \A c \in ConnIds : SameConnection(c)
  BY DEF IInv, TypeOK, Grows, SameConnection
<1>3. HandshakeInv'
  <2>1. InFlight' \subseteq InFlight
    BY DEF InFlight
  <2>2. \A m \in pending' \cap inbox' : m.action = "COMMUNICATING_SESSION"
    BY DEF IInv, HandshakeInv, OneHandshakeMessage
  <2> QED
    BY <1>2, <2>1, <2>2, FewerMessages DEF IInv
<1> QED
  BY <1>1, <1>3 DEF IInv

(* The emitter moves a message to its recipient, or loses it. *)
LEMMA EmitInv ==
    ASSUME IInv, NEW n \in Nodes, wpprotocol_mux_tick(n)
    PROVE  IInv'
<1> USE DEF wpprotocol_mux_tick, peerVars, originVars, connVars, noteVars
<1>1. Grows /\ \A c \in ConnIds : SameConnection(c)
  BY DEF IInv, TypeOK, Grows, SameConnection
<1>2. CASE \E m \in {x \in pending : x.sender = n} : internal_connection_control_emitter(n, m)
  <2> PICK m \in pending : internal_connection_control_emitter(n, m)
    BY <1>2
  <2> USE DEF internal_connection_control_emitter
  <2>1. TypeOK'
    BY DEF IInv, TypeOK, Exits
  <2>2. InFlight' \subseteq InFlight
    BY DEF InFlight
  <2>3. \A x \in pending' \cap inbox' : x.action = "COMMUNICATING_SESSION"
    BY DEF IInv, HandshakeInv, OneHandshakeMessage
  <2> QED
    BY <1>1, <2>1, <2>2, <2>3, FewerMessages DEF IInv
<1>3. CASE UNCHANGED <<muxVars, status>>
  <2> USE <1>3 DEF muxVars
  <2>1. TypeOK'
    BY DEF IInv, TypeOK
  <2>2. InFlight' \subseteq InFlight
    BY DEF InFlight
  <2>3. \A x \in pending' \cap inbox' : x.action = "COMMUNICATING_SESSION"
    BY DEF IInv, HandshakeInv, OneHandshakeMessage
  <2> QED
    BY <1>1, <2>1, <2>2, <2>3, FewerMessages DEF IInv
<1> QED
  BY <1>2, <1>3

LEMMA PopNothingInv ==
    ASSUME IInv, NEW n \in Nodes, wpprotocol_mux_pop_nothing(n)
    PROVE  IInv'
<1> USE DEF wpprotocol_mux_pop_nothing, peerVars, originVars, connVars, muxVars, noteVars
<1>1. TypeOK'
  BY DEF IInv, TypeOK
<1>2. Grows /\ \A c \in ConnIds : SameConnection(c)
  BY DEF IInv, TypeOK, Grows, SameConnection
<1>3. HandshakeInv'
  <2>1. InFlight' \subseteq InFlight
    BY DEF InFlight
  <2>2. \A m \in pending' \cap inbox' : m.action = "COMMUNICATING_SESSION"
    BY DEF IInv, HandshakeInv, OneHandshakeMessage
  <2> QED
    BY <1>2, <2>1, <2>2, FewerMessages DEF IInv
<1> QED
  BY <1>1, <1>3 DEF IInv

(* A process that ends takes only the message it was processing with it. *)
LEMMA ExitInv ==
    ASSUME IInv, NEW n \in Nodes, NEW m \in inbox, NEW where \in Exits,
           Popped(n, m), Exit(n, where)
    PROVE  IInv'
<1> USE DEF Popped, Exit, peerVars, originVars, connVars, noteVars
<1>1. TypeOK'
  BY DEF IInv, TypeOK
<1>2. Grows /\ \A c \in ConnIds : SameConnection(c)
  BY DEF IInv, TypeOK, Grows, SameConnection
<1>3. HandshakeInv'
  <2>1. InFlight' \subseteq InFlight
    BY DEF InFlight
  <2>2. \A x \in pending' \cap inbox' : x.action = "COMMUNICATING_SESSION"
    BY DEF IInv, HandshakeInv, OneHandshakeMessage
  <2> QED
    BY <1>2, <2>1, <2>2, FewerMessages DEF IInv
<1> QED
  BY <1>1, <1>3 DEF IInv

(* A text is decrypted with the secret it was encrypted with. *)
LEMMA TextDecrypted ==
    ASSUME IInv, NEW n \in Nodes, NEW m \in inbox, m.action = "COMMUNICATING_SESSION",
           m.recipient = n, secret[n][m.id] # NULL
    PROVE  \E t \in Texts : /\ <<m.sender, m.id, t>> \in sent
                           /\ symmetrical_decrypt(secret[n][m.id], m.data) \in {t, Garbled}
<1>1. MessageInv(m)
  BY DEF IInv, HandshakeInv, InFlight
<1>2. PICK s \in Secrets, t \in Texts, whole \in BOOLEAN :
          /\ m.data = sent_as_c_string(symmetrical_encrypt(s, t), whole)
          /\ HoldsSecret(m.recipient, m.id, s)
          /\ <<m.sender, m.id, t>> \in sent
  BY <1>1 DEF MessageInv
<1>3. secret[n][m.id] = s
  BY <1>2 DEF HoldsSecret
<1> QED
  BY <1>2, <1>3, SymmetricalInverse

LEMMA CommunicatingInv ==
    ASSUME IInv, NEW n \in Nodes, NEW m \in inbox, COMMUNICATING_SESSION(n, m),
           Listed(n, m.id), secret[n][m.id] # NULL
    PROVE  IInv'
<1> DEFINE x == symmetrical_decrypt(secret[n][m.id], m.data)
<1>1. /\ m.recipient = n /\ m.action = "COMMUNICATING_SESSION"
      /\ received' = received \cup {<<n, m.id, x>>}
      /\ inbox' = inbox \ {m} /\ ticking' = [ticking EXCEPT ![n] = FALSE]
      /\ UNCHANGED <<peerVars, originVars, connVars, pending, status, completed, sent>>
  BY DEF COMMUNICATING_SESSION, Case, Popped, NoSecret
<1>2. m \in Messages /\ m.id \in ConnIds
  BY MessageFields DEF IInv, TypeOK
<1>3. x \in Texts \cup {Garbled}
  BY <1>1, TextDecrypted
<1> HIDE DEF x
<1>4. received' \subseteq Nodes \X ConnIds \X (Texts \cup {Garbled})
  <2>1. received \subseteq Nodes \X ConnIds \X (Texts \cup {Garbled})
    BY DEF IInv, TypeOK
  <2>2. <<n, m.id, x>> \in Nodes \X ConnIds \X (Texts \cup {Garbled})
    BY <1>2, <1>3
  <2>3. received' = received \cup {<<n, m.id, x>>}
    BY <1>1
  <2> QED
    BY <2>1, <2>2, <2>3
<1> USE DEF peerVars, originVars, connVars
<1>5. TypeOK'
  BY <1>1, <1>4 DEF IInv, TypeOK
<1>6. Grows /\ \A c \in ConnIds : SameConnection(c)
  BY <1>1 DEF IInv, TypeOK, Grows, SameConnection
<1>7. InFlight' \subseteq InFlight
  BY <1>1 DEF InFlight
<1>8. \A y \in pending' \cap inbox' : y.action = "COMMUNICATING_SESSION"
  BY <1>1 DEF IInv, HandshakeInv, OneHandshakeMessage
<1> QED
  BY <1>5, <1>6, <1>7, <1>8, FewerMessages DEF IInv

LEMMA RemoveInv ==
    ASSUME IInv, NEW n \in Nodes, NEW c \in ConnIds,
           connection_controller_remove_connection_request(n, c)
    PROVE  IInv'
<1>1. /\ Listed(n, c)
      /\ state' = [state EXCEPT ![n][c] = "REMOVED"]
      /\ remote' = [remote EXCEPT ![n][c] = NULL]
      /\ secret' = [secret EXCEPT ![n][c] = NULL]
      /\ UNCHANGED <<peerVars, originVars, muxVars, ticking, status, noteVars>>
  BY DEF connection_controller_remove_connection_request
<1> USE DEF peerVars, originVars, muxVars, noteVars
<1>2. TypeOK'
  BY <1>1 DEF IInv, TypeOK, States
<1>3. Grows /\ \A d \in ConnIds \ {c} : SameConnection(d)
  BY <1>1 DEF IInv, TypeOK, Grows, SameConnection
<1>4. /\ state'[n][c] = "REMOVED" /\ secret'[n][c] = NULL
      /\ \A p \in Nodes \ {n} : /\ state'[p][c] = state[p][c]
                              /\ secret'[p][c] = secret[p][c]
                              /\ remote'[p][c] = remote[p][c]
  BY <1>1 DEF IInv, TypeOK
<1>5. ConnectionInv(c) /\ initiator[c] \in Nodes \cup {NULL} /\ responder[c] \in Nodes \cup {NULL}
  BY DEF IInv, HandshakeInv, TypeOK
<1>6. initiator[c] \in Nodes /\ responder[c] \in Nodes /\ n \in {initiator[c], responder[c]}
  BY <1>1, <1>5 DEF ConnectionInv, Listed, IInv, TypeOK
<1>7. ConnectionInv(c)'
  BY <1>1, <1>4, <1>5, <1>6 DEF ConnectionInv, Listed
<1>8. ASSUME NEW x \in InFlight, x.id = c PROVE MessageInv(x)'
  <2>1. MessageInv(x) /\ x.sender \in Nodes /\ x.recipient \in Nodes
    BY MessageFields DEF IInv, HandshakeInv, TypeOK, InFlight
  <2>2. \A p \in Nodes : /\ state'[p][c] \in {state[p][c], "REMOVED"}
                        /\ state[p][c] = "NONE" => state'[p][c] = "NONE"
    BY <1>1, <1>4 DEF Listed
  <2>3. \A p \in Nodes : \A s : HoldsSecret(p, c, s) => HoldsSecret(p, c, s)'
    BY <1>4 DEF HoldsSecret
  <2>4. /\ FromInitiator(x)' <=> FromInitiator(x)
        /\ FromResponder(x)' <=> FromResponder(x)
    BY <1>1 DEF FromInitiator, FromResponder
  <2>5. ASSUME NEW A, NEW B, Positions(x, A, B), "REMOVED" \in A, "REMOVED" \in B \/ B = {"NONE"}
        PROVE  Positions(x, A, B)'
    BY <1>1, <1>6, <1>8, <2>2, <2>5 DEF Positions
  <2>6. /\ initiator' = initiator /\ responder' = responder /\ known' = known
        /\ completed' = completed /\ sent' = sent
    BY <1>1
  <2>7. CASE x.action = "CREATE_SESSION"
    BY <2>1, <2>4, <2>5, <2>6, <2>7 DEF MessageInv
  <2>8. CASE x.action = "RESPONDING_CREATED_SESSION"
    BY <2>1, <2>4, <2>5, <2>6, <2>8 DEF MessageInv
  <2>9. CASE x.action = "SHARING_SESSION_KEY"
    BY <1>8, <2>1, <2>3, <2>4, <2>5, <2>6, <2>9 DEF MessageInv
  <2>10. CASE x.action = "COMPLETED_SESSION"
    BY <1>8, <2>1, <2>3, <2>4, <2>5, <2>6, <2>10 DEF MessageInv
  <2>11. CASE x.action = "COMMUNICATING_SESSION"
    BY <1>8, <2>1, <2>3, <2>4, <2>5, <2>6, <2>11 DEF MessageInv
  <2>12. x.action \in Actions
    BY MessageFields DEF IInv, TypeOK, InFlight
  <2> QED
    BY <2>7, <2>8, <2>9, <2>10, <2>11, <2>12 DEF Actions
<1>9. \A x \in InFlight' : MessageInv(x)'
  <2> SUFFICES ASSUME NEW x \in InFlight', x.id # c PROVE MessageInv(x)'
    BY <1>1, <1>8 DEF InFlight
  <2>1. x \in Messages /\ x.id \in ConnIds /\ MessageInv(x) /\ ConnectionInv(x.id)
    BY <1>1, MessageFields DEF IInv, HandshakeInv, TypeOK, InFlight
  <2> QED
    BY <1>3, <2>1, MessageFrame DEF IInv
<1>10. OneHandshakeMessage'
  BY <1>1 DEF IInv, HandshakeInv, OneHandshakeMessage, InFlight
<1>11. \A d \in ConnIds : ConnectionInv(d)'
  BY <1>3, <1>7, ConnectionFrame DEF IInv, HandshakeInv
<1> QED
  BY <1>2, <1>9, <1>10, <1>11 DEF IInv, HandshakeInv

(* Texts pushed by one node, on any of its complete connections. *)
LEMMA TextsSentInv ==
    ASSUME IInv, NEW n \in Nodes, NEW t \in Texts,
           NEW R \in SUBSET ConnIds, NEW whole \in [R -> BOOLEAN],
           \A c \in R : state[n][c] = "E_CRS_COMPLETE",
           sent' = sent \cup {<<n, c, t>> : c \in R},
           pending' = pending \cup
               {connection_request_send_message(n, c, remote[n][c], secret[n][c], t, whole[c]) :
                   c \in R},
           UNCHANGED <<peerVars, originVars, connVars, inbox, ticking, status, completed, received>>
    PROVE  IInv'
<1> USE DEF peerVars, originVars, connVars
<1>1. Grows /\ \A d \in ConnIds : SameConnection(d)
  BY DEF IInv, TypeOK, Grows, SameConnection
<1>2. ASSUME NEW c \in R, NEW new,
             new = connection_request_send_message(n, c, remote[n][c], secret[n][c], t, whole[c])
      PROVE  new \in Messages /\ MessageInv(new)' /\ new.action = "COMMUNICATING_SESSION"
  <2> DEFINE i == initiator[c]
             r == responder[c]
             other == IF n = i THEN r ELSE i
  <2>1. c \in ConnIds /\ state[n][c] = "E_CRS_COMPLETE" /\ whole[c] \in BOOLEAN
    BY <1>2
  <2>2. ConnectionInv(c) /\ Listed(n, c)
    BY <2>1 DEF IInv, HandshakeInv, Listed
  <2>3. /\ i \in Nodes /\ r \in Nodes /\ n \in {i, r} /\ i # r
        /\ remote[n][c] = other /\ secret[n][c] \in Secrets
        /\ other \in known[n] /\ other \in Nodes
        /\ state[i][c] \in {"E_CRS_SESSION_KEY_SHARE", "E_CRS_COMPLETE", "REMOVED"}
        /\ state[r][c] \in {"E_CRS_COMPLETE", "REMOVED"}
        /\ secret[other][c] \in {NULL, secret[n][c]}
    BY <2>1, <2>2 DEF IInv, TypeOK, ConnectionInv
  <2>4. new \in Messages
    BY <1>2, <2>1, <2>3 DEF Messages
  <2>5. /\ new.id = c /\ new.sender = n /\ new.recipient = other
        /\ new.action = "COMMUNICATING_SESSION"
        /\ new.data = sent_as_c_string(symmetrical_encrypt(secret[n][c], t), whole[c])
    BY <1>2, <2>3 DEF connection_request_send_message, wpprotocol_generate_message
  <2>6. FromInitiator(new)' \/ FromResponder(new)'
    BY <2>3, <2>5 DEF FromInitiator, FromResponder
  <2>7. Positions(new, {"E_CRS_SESSION_KEY_SHARE", "E_CRS_COMPLETE", "REMOVED"},
                       {"E_CRS_COMPLETE", "REMOVED"})'
    BY <2>3, <2>5 DEF Positions
  <2>8. \E s \in Secrets, u \in Texts, w \in BOOLEAN :
           /\ new.data = sent_as_c_string(symmetrical_encrypt(s, u), w)
           /\ HoldsSecret(new.recipient, new.id, s)'
           /\ <<new.sender, new.id, u>> \in sent'
    <3>1. PICK s \in Secrets : s = secret[n][c]
      BY <2>3
    <3>2. HoldsSecret(new.recipient, new.id, s)' /\ <<new.sender, new.id, t>> \in sent'
      BY <2>3, <2>5, <3>1 DEF HoldsSecret
    <3> QED
      BY <2>1, <2>5, <3>1, <3>2
  <2>9. initiator'[c] # NULL /\ initiator'[c] # responder'[c] /\ other \in known'[n]
    BY <2>3, ConstantsAssumption
  <2> QED
    BY <2>3, <2>4, <2>5, <2>6, <2>7, <2>8, <2>9 DEF MessageInv
<1>3. ASSUME NEW x \in InFlight'
      PROVE  \/ x \in InFlight
             \/ x \in Messages /\ MessageInv(x)' /\ x.action = "COMMUNICATING_SESSION"
  BY <1>2 DEF InFlight
<1>4. TypeOK'
  <2>1. pending' \subseteq Messages
    BY <1>3 DEF IInv, TypeOK, InFlight
  <2>2. sent' \subseteq Nodes \X ConnIds \X Texts
    BY DEF IInv, TypeOK
  <2> QED
    BY <2>1, <2>2 DEF IInv, TypeOK
<1>5. \A c \in ConnIds : ConnectionInv(c)'
  BY <1>1, ConnectionFrame DEF IInv, HandshakeInv
<1>6. \A x \in InFlight' : MessageInv(x)'
  <2> SUFFICES ASSUME NEW x \in InFlight PROVE MessageInv(x)'
    BY <1>3
  <2>1. x \in Messages /\ MessageInv(x) /\ x.id \in ConnIds
    BY MessageFields DEF IInv, TypeOK, HandshakeInv, InFlight
  <2> QED
    BY <1>1, <2>1, MessageFrame DEF IInv, HandshakeInv
<1>7. OneHandshakeMessage'
  <2>1. \A x \in InFlight' \ InFlight : x.action = "COMMUNICATING_SESSION"
    BY <1>3
  <2>2. \A x \in pending' \cap inbox' : x.action = "COMMUNICATING_SESSION"
    BY <1>2 DEF IInv, HandshakeInv, OneHandshakeMessage
  <2> QED
    BY <2>1, <2>2 DEF IInv, HandshakeInv, OneHandshakeMessage
<1> QED
  BY <1>4, <1>5, <1>6, <1>7 DEF IInv, HandshakeInv

LEMMA SendInv ==
    ASSUME IInv, NEW n \in Nodes, NEW c \in ConnIds, NEW t \in Texts, session_send(n, c, t)
    PROVE  IInv'
<1>1. PICK w \in BOOLEAN :
          pending' = pending \cup
              {connection_request_send_message(n, c, remote[n][c], secret[n][c], t, w)}
  BY DEF session_send, Complete
<1>2. PICK whole \in [{c} -> BOOLEAN] : whole[c] = w
  <2>1. [x \in {c} |-> w] \in [{c} -> BOOLEAN] /\ [x \in {c} |-> w][c] = w
    OBVIOUS
  <2> QED
    BY <2>1
<1>3. /\ state[n][c] = "E_CRS_COMPLETE"
      /\ sent' = sent \cup {<<n, d, t>> : d \in {c}}
      /\ pending' = pending \cup
             {connection_request_send_message(n, d, remote[n][d], secret[n][d], t, whole[d]) :
                 d \in {c}}
      /\ UNCHANGED <<peerVars, originVars, connVars, inbox, ticking, status, completed, received>>
  BY <1>1, <1>2 DEF session_send, Complete
<1> QED
  BY <1>3, TextsSentInv

(* The responder's entry into the handshake, whatever becomes of its process. *)
LEMMA AcceptedInv ==
    ASSUME IInv, NEW n \in Nodes, NEW m \in inbox, Case(n, m, "CREATE_SESSION"),
           connection_request_create(n, m.id, m.sender),
           connection_controller_add_connection_request(n, m.id, "E_CRS_CHALLENGE_REPLY"),
           pending' = pending \cup {challenge_reply_message(n, m.id, m.sender)},
           status' \in [Nodes -> {"running", "destroyed"} \cup Exits],
           UNCHANGED noteVars
    PROVE  IInv'
<1> DEFINE c == m.id
           i == m.sender
           new == challenge_reply_message(n, c, i)
<1>1. /\ m.recipient = n /\ m.action = "CREATE_SESSION" /\ i # n /\ i \in known[n]
      /\ inbox' = inbox \ {m} /\ ticking' = [ticking EXCEPT ![n] = FALSE]
      /\ remote' = [remote EXCEPT ![n][c] = i] /\ secret' = [secret EXCEPT ![n][c] = NULL]
      /\ state' = [state EXCEPT ![n][c] = "E_CRS_CHALLENGE_REPLY"]
      /\ pending' = pending \cup {new}
      /\ UNCHANGED <<peerVars, originVars, noteVars>>
  BY DEF Case, Popped, connection_request_create,
         connection_controller_add_connection_request
<1> USE DEF peerVars, originVars, noteVars
<1>2. m \in Messages /\ MessageInv(m) /\ c \in ConnIds /\ i \in Nodes
  BY MessageFields DEF IInv, TypeOK, HandshakeInv, InFlight
<1>3. ConnectionInv(c)
  BY <1>2 DEF IInv, HandshakeInv
<1>4. /\ initiator[c] = i /\ responder[c] = n /\ n \in known[i]
      /\ state[i][c] \in {"E_CRS_INITIAL_CHALLENGE", "REMOVED"} /\ state[n][c] = "NONE"
      /\ i # NULL /\ n # NULL
  BY <1>1, <1>2, ConstantsAssumption DEF MessageInv, FromInitiator, Positions
<1>5. new \in Messages
  BY <1>2 DEF Messages
<1>6. /\ new.id = c /\ new.sender = n /\ new.recipient = i
      /\ new.action = "RESPONDING_CREATED_SESSION"
  BY DEF challenge_reply_message, wpprotocol_generate_message
<1> HIDE DEF new
<1>7. TypeOK'
  BY <1>1, <1>2, <1>5 DEF IInv, TypeOK, States
<1>8. Grows /\ \A d \in ConnIds \ {c} : SameConnection(d)
  BY <1>1, <1>2 DEF IInv, TypeOK, Grows, SameConnection
<1>9. /\ state'[n][c] = "E_CRS_CHALLENGE_REPLY" /\ secret'[n][c] = NULL /\ remote'[n][c] = i
      /\ \A p \in Nodes \ {n} : /\ state'[p][c] = state[p][c]
                              /\ secret'[p][c] = secret[p][c]
                              /\ remote'[p][c] = remote[p][c]
  BY <1>1, <1>2 DEF IInv, TypeOK
<1>10. ConnectionInv(c)'
  BY <1>1, <1>2, <1>3, <1>4, <1>9 DEF ConnectionInv, Listed
<1>11. MessageInv(new)'
  BY <1>1, <1>2, <1>4, <1>6, <1>9 DEF MessageInv, FromResponder, Positions
<1>12. \A x \in pending \cup inbox' : x.id # c
  <2> SUFFICES ASSUME NEW x \in pending \cup inbox', x.id = c PROVE FALSE
    OBVIOUS
  <2>1. x.action = "COMMUNICATING_SESSION" /\ MessageInv(x)
    BY <1>1, PoppedAlone DEF IInv, HandshakeInv, InFlight
  <2> QED
    BY <1>4, <2>1 DEF MessageInv, Positions
<1>13. HandshakeInv'
  <2> HIDE DEF c
  <2> QED
    BY <1>1, <1>2, <1>6, <1>8, <1>10, <1>11, <1>12, OneConnectionStep DEF IInv
<1> QED
  BY <1>7, <1>13 DEF IInv

LEMMA CreateInv ==
    ASSUME IInv, NEW n \in Nodes, NEW m \in inbox, CREATE_SESSION(n, m), ~Listed(n, m.id)
    PROVE  IInv'
<1>1. /\ Case(n, m, "CREATE_SESSION")
      /\ connection_request_create(n, m.id, m.sender)
      /\ connection_controller_add_connection_request(n, m.id, "E_CRS_CHALLENGE_REPLY")
      /\ pending' = pending \cup {challenge_reply_message(n, m.id, m.sender)}
      /\ status' = status /\ UNCHANGED noteVars
  BY DEF CREATE_SESSION
<1>2. status' \in [Nodes -> {"running", "destroyed"} \cup Exits]
  BY <1>1 DEF IInv, TypeOK
<1> QED
  BY <1>1, <1>2, AcceptedInv

(* The initiator makes the secret and shares it with the key it received. *)
LEMMA RespondingInv ==
    ASSUME IInv, NEW n \in Nodes, NEW m \in inbox, RESPONDING_CREATED_SESSION(n, m),
           Listed(n, m.id)
    PROVE  IInv'
<1> DEFINE c == m.id
           r == m.sender
<1>1. PICK s \in Secrets :
          /\ secret' = [secret EXCEPT ![n][c] = s]
          /\ pending' = pending \cup
                {session_key_share_message(n, c, remote[n][c],
                    asymmetrical_key_from_string(decode_to_string(m.data)), s)}
  BY DEF RESPONDING_CREATED_SESSION
<1>2. /\ m.recipient = n /\ m.action = "RESPONDING_CREATED_SESSION" /\ r # n /\ r \in known[n]
      /\ inbox' = inbox \ {m} /\ ticking' = [ticking EXCEPT ![n] = FALSE]
      /\ state' = [state EXCEPT ![n][c] = "E_CRS_SESSION_KEY_SHARE"]
      /\ UNCHANGED <<peerVars, originVars, remote, status, noteVars>>
  BY DEF RESPONDING_CREATED_SESSION, Case, Popped
<1> USE DEF peerVars, originVars, noteVars
<1>3. m \in Messages /\ MessageInv(m) /\ c \in ConnIds /\ r \in Nodes
  BY MessageFields DEF IInv, TypeOK, HandshakeInv, InFlight
<1>4. asymmetrical_key_from_string(decode_to_string(m.data)) = Keypair(r, c)
  BY <1>2, <1>3, MessageFields, DecodeInverse, KeyStringInverse
<1>5. ConnectionInv(c)
  BY <1>3 DEF IInv, HandshakeInv
<1>6. /\ initiator[c] = n /\ responder[c] = r /\ r # NULL /\ n # NULL /\ s # NULL
      /\ state[n][c] = "E_CRS_INITIAL_CHALLENGE"
      /\ state[r][c] \in {"E_CRS_CHALLENGE_REPLY", "REMOVED"}
      /\ remote[n][c] = r
  BY <1>2, <1>3, <1>5, ConstantsAssumption
     DEF MessageInv, FromResponder, Positions, Listed, ConnectionInv
<1>p. PICK new : new = session_key_share_message(n, c, r, Keypair(r, c), s)
  OBVIOUS
<1>7. new \in Messages
  BY <1>p, <1>3 DEF Messages
<1>8. /\ new.id = c /\ new.sender = n /\ new.recipient = r
      /\ new.action = "SHARING_SESSION_KEY"
      /\ new.data = asymmetrical_encrypt(Keypair(r, c), encode_from_string(s))
  BY <1>p DEF session_key_share_message, wpprotocol_generate_message
<1>9. pending' = pending \cup {new}
  BY <1>p, <1>1, <1>4, <1>6
<1>10. TypeOK'
  BY <1>1, <1>2, <1>3, <1>7, <1>9 DEF IInv, TypeOK, States
<1>11. Grows /\ \A d \in ConnIds \ {c} : SameConnection(d)
  BY <1>1, <1>2, <1>3 DEF IInv, TypeOK, Grows, SameConnection
<1>12. /\ state'[n][c] = "E_CRS_SESSION_KEY_SHARE" /\ secret'[n][c] = s
       /\ \A p \in Nodes \ {n} : state'[p][c] = state[p][c] /\ secret'[p][c] = secret[p][c]
  BY <1>1, <1>2, <1>3 DEF IInv, TypeOK
<1>13. ConnectionInv(c)'
  BY <1>2, <1>3, <1>5, <1>6, <1>12 DEF ConnectionInv, Listed
<1>14. MessageInv(new)'
  <2>1. Positions(new, {"E_CRS_SESSION_KEY_SHARE", "REMOVED"}, {"E_CRS_CHALLENGE_REPLY", "REMOVED"})'
    BY <1>2, <1>3, <1>6, <1>8, <1>12 DEF Positions
  <2>2. HoldsSecret(n, c, s)'
    BY <1>12 DEF HoldsSecret
  <2> QED
    BY <1>2, <1>3, <1>6, <1>8, <2>1, <2>2 DEF MessageInv, FromInitiator
<1>15. \A x \in pending \cup inbox' : x.id # c
  <2> SUFFICES ASSUME NEW x \in pending \cup inbox', x.id = c PROVE FALSE
    OBVIOUS
  <2>1. x.action = "COMMUNICATING_SESSION" /\ MessageInv(x)
    BY <1>2, PoppedAlone DEF IInv, HandshakeInv, InFlight
  <2> QED
    BY <1>6, <2>1 DEF MessageInv, Positions
<1>16. HandshakeInv'
  <2> HIDE DEF c
  <2> QED
    BY <1>2, <1>3, <1>8, <1>9, <1>11, <1>13, <1>14, <1>15, OneConnectionStep DEF IInv
<1> QED
  BY <1>10, <1>16 DEF IInv

(* The key that is shared is encrypted for its recipient, and is a secret. *)
LEMMA SharedKeyDecrypted ==
    ASSUME IInv, NEW n \in Nodes, NEW m \in inbox, m.action = "SHARING_SESSION_KEY",
           m.recipient = n
    PROVE  \E s \in Secrets :
              /\ asymmetrical_decrypt(Keypair(n, m.id), m.data) = encode_from_string(s)
              /\ asymmetrical_decrypt(Keypair(n, m.id), m.data) # NULL
              /\ decode_to_string(asymmetrical_decrypt(Keypair(n, m.id), m.data)) = s
              /\ HoldsSecret(m.sender, m.id, s)
<1>1. MessageInv(m)
  BY DEF IInv, HandshakeInv, InFlight
<1>2. PICK s \in Secrets :
          /\ m.data = asymmetrical_encrypt(Keypair(m.recipient, m.id), encode_from_string(s))
          /\ HoldsSecret(m.sender, m.id, s)
  BY <1>1 DEF MessageInv
<1> QED
  BY <1>2, AsymmetricalInverse, DecodeInverse, EncodingAssumption

(* The responder takes the secret and confirms. *)
LEMMA SharingInv ==
    ASSUME IInv, NEW n \in Nodes, NEW m \in inbox, SHARING_SESSION_KEY(n, m), Listed(n, m.id)
    PROVE  IInv'
<1> DEFINE c == m.id
           i == m.sender
<1>1. m.recipient = n /\ m.action = "SHARING_SESSION_KEY" /\ i # n /\ i \in known[n]
  BY DEF SHARING_SESSION_KEY, Case, Popped
<1>2. PICK s \in Secrets :
          /\ asymmetrical_decrypt(Keypair(n, c), m.data) # NULL
          /\ decode_to_string(asymmetrical_decrypt(Keypair(n, c), m.data)) = s
          /\ HoldsSecret(i, c, s)
  BY <1>1, SharedKeyDecrypted
<1>3. PICK whole \in BOOLEAN :
          /\ inbox' = inbox \ {m} /\ ticking' = [ticking EXCEPT ![n] = FALSE]
          /\ state' = [state EXCEPT ![n][c] = "E_CRS_COMPLETE"]
          /\ secret' = [secret EXCEPT ![n][c] = s]
          /\ completed' = completed \cup {<<n, c>>}
          /\ pending' = pending \cup {complete_message(n, c, remote[n][c], s, whole)}
          /\ UNCHANGED <<peerVars, originVars, remote, status, sent, received>>
  BY <1>2 DEF SHARING_SESSION_KEY, Case, Popped
<1> USE DEF peerVars, originVars
<1>4. m \in Messages /\ MessageInv(m) /\ c \in ConnIds /\ i \in Nodes
  BY MessageFields DEF IInv, TypeOK, HandshakeInv, InFlight
<1>5. ConnectionInv(c)
  BY <1>4 DEF IInv, HandshakeInv
<1>6. /\ initiator[c] = i /\ responder[c] = n /\ i # NULL /\ n # NULL /\ s # NULL
      /\ state[n][c] = "E_CRS_CHALLENGE_REPLY"
      /\ state[i][c] \in {"E_CRS_SESSION_KEY_SHARE", "REMOVED"}
      /\ remote[n][c] = i
      /\ secret[i][c] \in {NULL, s}
  BY <1>1, <1>2, <1>4, <1>5, ConstantsAssumption
     DEF MessageInv, FromInitiator, Positions, Listed, ConnectionInv, HoldsSecret
<1>p. PICK new : new = complete_message(n, c, i, s, whole)
  OBVIOUS
<1>7. new \in Messages
  BY <1>p, <1>4 DEF Messages
<1>8. /\ new.id = c /\ new.sender = n /\ new.recipient = i
      /\ new.action = "COMPLETED_SESSION"
      /\ new.data = sent_as_c_string(symmetrical_encrypt(s, OKAY), whole)
  BY <1>p DEF complete_message, wpprotocol_generate_message
<1>9. pending' = pending \cup {new}
  BY <1>p, <1>3, <1>6
<1>10. TypeOK'
  BY <1>3, <1>4, <1>7, <1>9 DEF IInv, TypeOK, States
<1>11. Grows /\ \A d \in ConnIds \ {c} : SameConnection(d)
  BY <1>3, <1>4 DEF IInv, TypeOK, Grows, SameConnection
<1>12. /\ state'[n][c] = "E_CRS_COMPLETE" /\ secret'[n][c] = s /\ <<n, c>> \in completed'
       /\ \A p \in Nodes \ {n} : state'[p][c] = state[p][c] /\ secret'[p][c] = secret[p][c]
  BY <1>3, <1>4 DEF IInv, TypeOK
<1>13. ConnectionInv(c)'
  BY <1>1, <1>3, <1>4, <1>5, <1>6, <1>12 DEF ConnectionInv, Listed
<1>14. MessageInv(new)'
  <2>1. Positions(new, {"E_CRS_SESSION_KEY_SHARE", "REMOVED"}, {"E_CRS_COMPLETE", "REMOVED"})'
    BY <1>1, <1>3, <1>4, <1>6, <1>8, <1>12 DEF Positions
  <2>2. HoldsSecret(i, c, s)'
    BY <1>1, <1>4, <1>6, <1>12 DEF HoldsSecret
  <2> QED
    BY <1>1, <1>3, <1>4, <1>6, <1>8, <1>12, <2>1, <2>2 DEF MessageInv, FromResponder
<1>15. \A x \in pending \cup inbox' : x.id # c
  <2> SUFFICES ASSUME NEW x \in pending \cup inbox', x.id = c PROVE FALSE
    OBVIOUS
  <2>1. x.action = "COMMUNICATING_SESSION" /\ MessageInv(x)
    BY <1>1, <1>3, PoppedAlone DEF IInv, HandshakeInv, InFlight
  <2> QED
    BY <1>6, <2>1 DEF MessageInv, Positions
<1>16. HandshakeInv'
  <2> HIDE DEF c
  <2> QED
    BY <1>3, <1>4, <1>8, <1>9, <1>11, <1>13, <1>14, <1>15, OneConnectionStep DEF IInv
<1> QED
  BY <1>10, <1>16 DEF IInv

(* The initiator is done. *)
LEMMA CompletedInv ==
    ASSUME IInv, NEW n \in Nodes, NEW m \in inbox, COMPLETED_SESSION(n, m),
           Listed(n, m.id), secret[n][m.id] # NULL
    PROVE  IInv'
<1> DEFINE c == m.id
           r == m.sender
<1>1. /\ m.recipient = n /\ m.action = "COMPLETED_SESSION" /\ r # n /\ r \in known[n]
      /\ inbox' = inbox \ {m} /\ ticking' = [ticking EXCEPT ![n] = FALSE]
      /\ state' = [state EXCEPT ![n][c] = "E_CRS_COMPLETE"]
      /\ completed' = completed \cup {<<n, c>>} \/ completed' = completed
      /\ UNCHANGED <<peerVars, originVars, remote, secret, pending, status, sent, received>>
  BY DEF COMPLETED_SESSION, Case, Popped, NoSecret
<1> USE DEF peerVars, originVars
<1>2. m \in Messages /\ MessageInv(m) /\ c \in ConnIds /\ r \in Nodes
  BY MessageFields DEF IInv, TypeOK, HandshakeInv, InFlight
<1>3. ConnectionInv(c)
  BY <1>2 DEF IInv, HandshakeInv
<1>4. /\ initiator[c] = n /\ responder[c] = r /\ n # NULL
      /\ state[n][c] = "E_CRS_SESSION_KEY_SHARE"
      /\ state[r][c] \in {"E_CRS_COMPLETE", "REMOVED"}
      /\ <<r, c>> \in completed
  BY <1>1, <1>2, <1>3, ConstantsAssumption DEF MessageInv, FromResponder, Positions, Listed
<1>5. TypeOK'
  BY <1>1, <1>2 DEF IInv, TypeOK, States
<1>6. Grows /\ \A d \in ConnIds \ {c} : SameConnection(d)
  BY <1>1, <1>2 DEF IInv, TypeOK, Grows, SameConnection
<1>7. /\ state'[n][c] = "E_CRS_COMPLETE" /\ <<r, c>> \in completed'
      /\ \A p \in Nodes \ {n} : state'[p][c] = state[p][c]
  BY <1>1, <1>2, <1>4 DEF IInv, TypeOK
<1>8. ConnectionInv(c)'
  BY <1>1, <1>2, <1>3, <1>4, <1>7 DEF ConnectionInv, Listed
<1>9. \A d \in ConnIds : ConnectionInv(d)'
  BY <1>6, <1>8, ConnectionFrame DEF IInv, HandshakeInv
<1>10. \A x \in InFlight' : MessageInv(x)'
  <2> SUFFICES ASSUME NEW x \in InFlight' PROVE MessageInv(x)'
    OBVIOUS
  <2>1. x \in Messages /\ MessageInv(x) /\ x.id \in ConnIds
    BY <1>1, MessageFields DEF IInv, HandshakeInv, TypeOK, InFlight
  <2>2. CASE x.id = c
    <3>1. x.action = "COMMUNICATING_SESSION"
      BY <1>1, <2>2, PoppedAlone DEF IInv, InFlight
    <3>2. Positions(x, {"E_CRS_SESSION_KEY_SHARE", "E_CRS_COMPLETE", "REMOVED"},
                       {"E_CRS_COMPLETE", "REMOVED"})'
      BY <1>1, <1>4, <1>7, <1>2, <2>2 DEF Positions
    <3> QED
      BY <1>1, <2>1, <3>1, <3>2 DEF MessageInv, FromInitiator, FromResponder, HoldsSecret
  <2>3. CASE x.id # c
    BY <1>6, <2>1, <2>3, MessageFrame DEF IInv, HandshakeInv
  <2> QED
    BY <2>2, <2>3
<1>11. OneHandshakeMessage'
  BY <1>1 DEF IInv, HandshakeInv, OneHandshakeMessage, InFlight
<1> QED
  BY <1>5, <1>9, <1>10, <1>11 DEF IInv, HandshakeInv

(* Every case of the message processor preserves the invariant. *)
LEMMA ProcessorInv ==
    ASSUME IInv, NEW n \in Nodes, NEW m \in inbox, internal_connnection_message_processor(n, m)
    PROVE  IInv'
<1>1. CASE message_from_unknown_sender(n, m)
  BY <1>1, ExitInv DEF message_from_unknown_sender, Exits
<1>2. CASE message_from_this_node(n, m)
  BY <1>2, ExitInv DEF message_from_this_node, Exits
<1>3. CASE CREATE_SESSION(n, m)
  <2>1. CASE ~Listed(n, m.id)
    BY <1>3, <2>1, CreateInv
  <2>2. CASE Listed(n, m.id)
    BY <1>3, <2>2, ExitInv DEF CREATE_SESSION, Case, Exits
  <2> QED
    BY <2>1, <2>2
<1>4. CASE RESPONDING_CREATED_SESSION(n, m)
  <2>1. CASE Listed(n, m.id)
    BY <1>4, <2>1, RespondingInv
  <2>2. CASE ~Listed(n, m.id)
    BY <1>4, <2>2, ExitInv DEF RESPONDING_CREATED_SESSION, Case, Exits
  <2> QED
    BY <2>1, <2>2
<1>5. CASE SHARING_SESSION_KEY(n, m)
  <2>1. CASE Listed(n, m.id)
    BY <1>5, <2>1, SharingInv
  <2>2. CASE ~Listed(n, m.id)
    BY <1>5, <2>2, ExitInv DEF SHARING_SESSION_KEY, Case, Exits
  <2> QED
    BY <2>1, <2>2
<1>6. CASE COMPLETED_SESSION(n, m)
  <2>1. CASE Listed(n, m.id) /\ secret[n][m.id] # NULL
    BY <1>6, <2>1, CompletedInv
  <2>2. CASE ~(Listed(n, m.id) /\ secret[n][m.id] # NULL)
    BY <1>6, <2>2, ExitInv DEF COMPLETED_SESSION, NoSecret, Case, Exits
  <2> QED
    BY <2>1, <2>2
<1>7. CASE COMMUNICATING_SESSION(n, m)
  <2>1. CASE Listed(n, m.id) /\ secret[n][m.id] # NULL
    BY <1>7, <2>1, CommunicatingInv
  <2>2. CASE ~(Listed(n, m.id) /\ secret[n][m.id] # NULL)
    BY <1>7, <2>2, ExitInv DEF COMMUNICATING_SESSION, NoSecret, Case, Exits
  <2> QED
    BY <2>1, <2>2
<1> QED
  BY <1>1, <1>2, <1>3, <1>4, <1>5, <1>6, <1>7 DEF internal_connnection_message_processor

LEMMA NextInv == IInv /\ [Next]_vars => IInv'
<1> SUFFICES ASSUME IInv, [Next]_vars PROVE IInv'
  OBVIOUS
<1>1. ASSUME NEW n \in Nodes, NEW p \in Nodes, handle_peer(n, p) PROVE IInv'
  BY <1>1, HandlePeerInv
<1>2. ASSUME NEW n \in Nodes, Application(n) PROVE IInv'
  <2>1. ASSUME NEW r \in Nodes, NEW c \in ConnIds,
               connection_controller_initiation_request(n, r, c)
        PROVE  IInv'
    BY <2>1, InitiationInv
  <2>2. ASSUME NEW c \in ConnIds, NEW t \in Texts, session_send(n, c, t) PROVE IInv'
    BY <2>2, SendInv
  <2>3. ASSUME NEW c \in ConnIds, connection_controller_remove_connection_request(n, c)
        PROVE  IInv'
    BY <2>3, RemoveInv
  <2>4. CASE connection_controller_destroy(n)
    BY <2>4, DestroyInv
  <2> QED
    BY <1>2, <2>1, <2>2, <2>3, <2>4 DEF Application
<1>3. ASSUME NEW n \in Nodes, connection_controller_tick(n) PROVE IInv'
  <2>1. CASE wpprotocol_mux_tick(n)
    BY <2>1, EmitInv
  <2>2. CASE wpprotocol_mux_pop_nothing(n)
    BY <2>2, PopNothingInv
  <2>3. ASSUME NEW m \in inbox, internal_connnection_message_processor(n, m) PROVE IInv'
    BY <2>3, ProcessorInv
  <2> QED
    BY <1>3, <2>1, <2>2, <2>3 DEF connection_controller_tick, wpprotocol_mux_pop
<1>4. CASE UNCHANGED vars
  <2> USE <1>4 DEF vars, peerVars, originVars, connVars, muxVars, noteVars
  <2>1. TypeOK'
    BY DEF IInv, TypeOK
  <2>2. Grows /\ \A c \in ConnIds : SameConnection(c)
    BY DEF Grows, SameConnection
  <2>3. InFlight' \subseteq InFlight
    BY DEF InFlight
  <2>4. \A x \in pending' \cap inbox' : x.action = "COMMUNICATING_SESSION"
    BY DEF IInv, HandshakeInv, OneHandshakeMessage
  <2> QED
    BY <2>1, <2>2, <2>3, <2>4, FewerMessages DEF IInv
<1> QED
  BY <1>1, <1>2, <1>3, <1>4 DEF Next

(* The handshake stays in step for every number of nodes and connections.  *)
THEOREM InductiveInvariant == Spec => [](TypeOK /\ HandshakeInv)
BY InitInv, NextInv, PTL DEF Spec, IInv

(* Every variable keeps the shape the code gives it; in particular every   *)
(* secret that is stored is one that generate_shared_secret returned.      *)
THEOREM TypeCorrectness == Spec => []TypeOK
BY InductiveInvariant, PTL
-----------------------------------------------------------------------------
(* What follows from the invariant. *)

(* Two secrets of a connection are one, and belong to its ends. *)
LEMMA SecretsAgree == ASSUME TypeOK, HandshakeInv PROVE KeyAgreement
<1> SUFFICES ASSUME NEW c \in ConnIds, NEW a \in Nodes, NEW b \in Nodes,
                    secret[a][c] # NULL, secret[b][c] # NULL
             PROVE  secret[a][c] = secret[b][c] /\ {a, b} \subseteq {initiator[c], responder[c]}
  BY DEF KeyAgreement
<1>1. ConnectionInv(c)
  BY DEF HandshakeInv
<1>2. a \in {initiator[c], responder[c]} /\ b \in {initiator[c], responder[c]}
  BY <1>1 DEF ConnectionInv
<1>3. initiator[c] # NULL
  BY <1>1 DEF ConnectionInv
<1> QED
  BY <1>1, <1>2, <1>3 DEF ConnectionInv

(* In every state, only the two ends of a connection hold a secret for it, and
   the same one: the handshake of connection_request.c:81-207 agrees on keys. *)
THEOREM KeyAgreementHolds == Spec => []KeyAgreement
BY SecretsAgree, InductiveInvariant, PTL

(* The initiator takes a connection for complete only after the responder called
   its completion callback (connection_controller.c:106-156). *)
THEOREM CompletionOrderHolds == Spec => []CompletionOrder
<1>1. ASSUME TypeOK, HandshakeInv PROVE CompletionOrder
  <2> SUFFICES ASSUME NEW c \in ConnIds, initiator[c] # NULL,
                      state[initiator[c]][c] = "E_CRS_COMPLETE"
               PROVE  <<responder[c], c>> \in completed
    BY DEF CompletionOrder
  <2>1. ConnectionInv(c)
    BY <1>1 DEF HandshakeInv
  <2> QED
    BY <2>1 DEF ConnectionInv
<1> QED
  BY <1>1, InductiveInvariant, PTL

(* What is under way matches the keypair or the secret of its recipient. *)
LEMMA PayloadsDecrypted == ASSUME TypeOK, HandshakeInv PROVE DecryptableInFlight
<1> SUFFICES ASSUME NEW m \in InFlight, Listed(m.recipient, m.id)
             PROVE  /\ m.action = "SHARING_SESSION_KEY" =>
                           asymmetrical_decrypt(Keypair(m.recipient, m.id), m.data) # NULL
                    /\ m.action \in {"COMPLETED_SESSION", "COMMUNICATING_SESSION"} =>
                           /\ secret[m.recipient][m.id] # NULL
                           /\ \E whole \in BOOLEAN, t \in Texts \cup {OKAY} :
                                 m.data = sent_as_c_string(
                                   symmetrical_encrypt(secret[m.recipient][m.id], t), whole)
  BY DEF DecryptableInFlight
<1>1. MessageInv(m) /\ m.id \in ConnIds /\ m.recipient \in Nodes /\ m.sender \in Nodes
  BY MessageFields DEF HandshakeInv, TypeOK, InFlight
<1>2. ConnectionInv(m.id)
  BY <1>1 DEF HandshakeInv
<1>3. CASE m.action = "SHARING_SESSION_KEY"
  BY <1>1, <1>3, AsymmetricalInverse, EncodingAssumption DEF MessageInv
<1>4. CASE m.action = "COMPLETED_SESSION"
  <2>1. PICK s \in Secrets, whole \in BOOLEAN :
            /\ m.data = sent_as_c_string(symmetrical_encrypt(s, OKAY), whole)
            /\ HoldsSecret(m.recipient, m.id, s)
    BY <1>1, <1>4 DEF MessageInv
  <2>2. secret[m.recipient][m.id] # NULL
    BY <1>1, <1>2, <1>4 DEF MessageInv, FromResponder, Positions, Listed, ConnectionInv
  <2> QED
    BY <1>4, <2>1, <2>2 DEF HoldsSecret
<1>5. CASE m.action = "COMMUNICATING_SESSION"
  <2>1. PICK s \in Secrets, t \in Texts, whole \in BOOLEAN :
            /\ m.data = sent_as_c_string(symmetrical_encrypt(s, t), whole)
            /\ HoldsSecret(m.recipient, m.id, s)
    BY <1>1, <1>5 DEF MessageInv
  <2>2. secret[m.recipient][m.id] # NULL
    BY <1>1, <1>2, <1>5 DEF MessageInv, FromInitiator, FromResponder, Positions, Listed, ConnectionInv
  <2> QED
    BY <1>5, <2>1, <2>2 DEF HoldsSecret
<1> QED
  BY <1>3, <1>4, <1>5

(* Every message under way to a connection can be decrypted there
   (connection_controller.c:106-172), whatever was removed or lost meanwhile. *)
THEOREM DecryptableHolds == Spec => []DecryptableInFlight
BY PayloadsDecrypted, InductiveInvariant, PTL
-----------------------------------------------------------------------------
(* Where a connection is when a message for it is processed. *)

LEMMA PoppedInv ==
    ASSUME IInv, NEW n \in Nodes, NEW m \in inbox, m.recipient = n
    PROVE  /\ m \in Messages /\ m.id \in ConnIds /\ m.sender \in Nodes /\ m.action \in Actions
           /\ MessageInv(m) /\ ConnectionInv(m.id)
BY MessageFields DEF IInv, TypeOK, HandshakeInv, InFlight

LEMMA StateAtPop ==
    ASSUME IInv, NEW n \in Nodes, NEW m \in inbox, m.recipient = n, m.sender # n
    PROVE  LET before == state[n][m.id] IN
           /\ m.action = "CREATE_SESSION" => before = "NONE"
           /\ m.action = "RESPONDING_CREATED_SESSION" =>
                 before \in {"E_CRS_INITIAL_CHALLENGE", "REMOVED"}
           /\ m.action = "SHARING_SESSION_KEY" => before \in {"E_CRS_CHALLENGE_REPLY", "REMOVED"}
           /\ m.action = "COMPLETED_SESSION" => before \in {"E_CRS_SESSION_KEY_SHARE", "REMOVED"}
           /\ m.action = "COMMUNICATING_SESSION" =>
                 before \in {"E_CRS_SESSION_KEY_SHARE", "E_CRS_COMPLETE", "REMOVED"}
BY PoppedInv DEF MessageInv, FromInitiator, FromResponder, Positions

LEMMA SecretAtPop ==
    ASSUME IInv, NEW n \in Nodes, NEW m \in inbox, m.recipient = n
    PROVE  secret[n][m.id] # NULL <=> state[n][m.id] \in {"E_CRS_SESSION_KEY_SHARE", "E_CRS_COMPLETE"}
BY PoppedInv DEF ConnectionInv

(* What each case does to the connection, when it does not end the process. *)

LEMMA CreateEffect ==
    ASSUME IInv, NEW n \in Nodes, NEW m \in inbox, CREATE_SESSION(n, m)
    PROVE  /\ state[n][m.id] = "NONE" /\ secret[n][m.id] = NULL
           /\ state' = [state EXCEPT ![n][m.id] = "E_CRS_CHALLENGE_REPLY"]
           /\ secret' = [secret EXCEPT ![n][m.id] = NULL]
           /\ status' = status
<1>1. m.recipient = n /\ m.sender # n /\ m.action = "CREATE_SESSION"
  BY DEF CREATE_SESSION, Case, Popped
<1>2. state[n][m.id] = "NONE" /\ secret[n][m.id] = NULL /\ ~Listed(n, m.id)
  BY <1>1, StateAtPop, SecretAtPop DEF Listed
<1> QED
  BY <1>2 DEF CREATE_SESSION, connection_request_create,
              connection_controller_add_connection_request

LEMMA RespondingEffect ==
    ASSUME IInv, NEW n \in Nodes, NEW m \in inbox, RESPONDING_CREATED_SESSION(n, m)
    PROVE  \/ /\ state[n][m.id] = "REMOVED"
              /\ Exit(n, "reply_without_connection")
           \/ /\ state[n][m.id] = "E_CRS_INITIAL_CHALLENGE" /\ secret[n][m.id] = NULL
              /\ state' = [state EXCEPT ![n][m.id] = "E_CRS_SESSION_KEY_SHARE"]
              /\ \E s \in Secrets : secret' = [secret EXCEPT ![n][m.id] = s]
              /\ status' = status
<1>1. m.recipient = n /\ m.sender # n /\ m.action = "RESPONDING_CREATED_SESSION"
  BY DEF RESPONDING_CREATED_SESSION, Case, Popped
<1>2. state[n][m.id] \in {"E_CRS_INITIAL_CHALLENGE", "REMOVED"} /\ secret[n][m.id] = NULL
  BY <1>1, StateAtPop, SecretAtPop
<1> QED
  BY <1>2 DEF RESPONDING_CREATED_SESSION, Listed

LEMMA SharingEffect ==
    ASSUME IInv, NEW n \in Nodes, NEW m \in inbox, SHARING_SESSION_KEY(n, m)
    PROVE  \/ state[n][m.id] = "REMOVED" /\ Exit(n, "check_oconnection")
           \/ /\ state[n][m.id] = "E_CRS_CHALLENGE_REPLY" /\ secret[n][m.id] = NULL
              /\ state' = [state EXCEPT ![n][m.id] = "E_CRS_COMPLETE"]
              /\ \E s \in Secrets : secret' = [secret EXCEPT ![n][m.id] = s]
              /\ status' = status
<1>1. m.recipient = n /\ m.sender # n /\ m.action = "SHARING_SESSION_KEY"
  BY DEF SHARING_SESSION_KEY, Case, Popped
<1>2. state[n][m.id] \in {"E_CRS_CHALLENGE_REPLY", "REMOVED"} /\ secret[n][m.id] = NULL
  BY <1>1, StateAtPop, SecretAtPop
<1>3. PICK s \in Secrets :
          /\ asymmetrical_decrypt(Keypair(n, m.id), m.data) # NULL
          /\ decode_to_string(asymmetrical_decrypt(Keypair(n, m.id), m.data)) = s
  BY <1>1, SharedKeyDecrypted
<1> QED
  BY <1>2, <1>3 DEF SHARING_SESSION_KEY, Listed

LEMMA CompletedEffect ==
    ASSUME IInv, NEW n \in Nodes, NEW m \in inbox, COMPLETED_SESSION(n, m)
    PROVE  \/ state[n][m.id] = "REMOVED" /\ Exit(n, "check_oconnection")
           \/ /\ state[n][m.id] = "E_CRS_SESSION_KEY_SHARE"
              /\ state' = [state EXCEPT ![n][m.id] = "E_CRS_COMPLETE"]
              /\ secret' = secret
              /\ status' = status
<1>1. m.recipient = n /\ m.sender # n /\ m.action = "COMPLETED_SESSION"
  BY DEF COMPLETED_SESSION, Case, Popped
<1>2. /\ state[n][m.id] \in {"E_CRS_SESSION_KEY_SHARE", "REMOVED"}
      /\ state[n][m.id] # "REMOVED" => secret[n][m.id] # NULL
  BY <1>1, StateAtPop, SecretAtPop
<1> QED
  BY <1>2 DEF COMPLETED_SESSION, NoSecret, Listed

LEMMA CommunicatingEffect ==
    ASSUME IInv, NEW n \in Nodes, NEW m \in inbox, COMMUNICATING_SESSION(n, m)
    PROVE  \/ state[n][m.id] = "REMOVED" /\ Exit(n, "null_oconnection")
           \/ /\ secret[n][m.id] # NULL
              /\ received' = received \cup
                    {<<n, m.id, symmetrical_decrypt(secret[n][m.id], m.data)>>}
              /\ state' = state /\ secret' = secret /\ status' = status /\ sent' = sent
<1>1. m.recipient = n /\ m.sender # n /\ m.action = "COMMUNICATING_SESSION"
  BY DEF COMMUNICATING_SESSION, Case, Popped
<1>2. /\ state[n][m.id] \in {"E_CRS_SESSION_KEY_SHARE", "E_CRS_COMPLETE", "REMOVED"}
      /\ state[n][m.id] # "REMOVED" => secret[n][m.id] # NULL
  BY <1>1, StateAtPop, SecretAtPop
<1> QED
  BY <1>2 DEF COMMUNICATING_SESSION, NoSecret, Listed, connVars

(* One connection at one node moves forward and keeps its secret. *)
Advances(n, c) ==
    /\ Rank(state'[n][c]) >= Rank(state[n][c])
    /\ secret[n][c] # NULL => secret'[n][c] = secret[n][c] \/ state'[n][c] = "REMOVED"

LEMMA RankOrder ==
    /\ \A s \in States : Rank(s) \in 0..5
    /\ Rank("NONE") = 0 /\ Rank("E_CRS_INITIAL_CHALLENGE") = 1
    /\ Rank("E_CRS_CHALLENGE_REPLY") = 2 /\ Rank("E_CRS_SESSION_KEY_SHARE") = 3
    /\ Rank("E_CRS_COMPLETE") = 4 /\ Rank("REMOVED") = 5
BY DEF Rank, States

LEMMA Unmoved ==
    ASSUME TypeOK, NEW n \in Nodes, NEW c \in ConnIds,
           state'[n][c] = state[n][c], secret'[n][c] = secret[n][c]
    PROVE  Advances(n, c)
<1>1. state[n][c] \in States
  BY DEF TypeOK
<1>2. Rank(state[n][c]) \in 0..5
  BY <1>1, RankOrder
<1>3. Rank(state[n][c]) >= Rank(state[n][c])
  BY <1>2
<1>4. Rank(state'[n][c]) = Rank(state[n][c])
  BY Zenon
<1> QED
  BY <1>3, <1>4 DEF Advances

LEMMA ProcessorAdvances ==
    ASSUME IInv, NEW n \in Nodes, NEW m \in inbox, internal_connnection_message_processor(n, m),
           NEW p \in Nodes, NEW c \in ConnIds
    PROVE  Advances(p, c)
<1> DEFINE Steps(from, to) ==
             /\ state[n][m.id] = from
             /\ state' = [state EXCEPT ![n][m.id] = to]
             /\ secret[n][m.id] = NULL \/ secret' = secret
             /\ secret' = secret \/ \E s : secret' = [secret EXCEPT ![n][m.id] = s]
<1>1. ASSUME NEW from \in States, NEW to \in States, Steps(from, to), Rank(to) >= Rank(from)
      PROVE  Advances(p, c)
  <2>1. CASE p = n /\ c = m.id
    <3>1. state[n][c] = from /\ state'[n][c] = to
      BY <1>1, <2>1 DEF IInv, TypeOK
    <3> QED
      BY <1>1, <2>1, <3>1 DEF Advances
  <2>2. CASE ~(p = n /\ c = m.id)
    <3>1. state'[p][c] = state[p][c] /\ secret'[p][c] = secret[p][c]
      BY <1>1, <2>2 DEF IInv, TypeOK
    <3> QED
      BY <3>1, Unmoved DEF IInv
  <2> QED
    BY <2>1, <2>2
<1>2. ASSUME NEW where, Exit(n, where) PROVE Advances(p, c)
  BY <1>2, Unmoved DEF Exit, connVars, IInv
<1>3. CASE CREATE_SESSION(n, m)
  <2>1. Steps("NONE", "E_CRS_CHALLENGE_REPLY")
    BY <1>3, CreateEffect
  <2> QED
    BY <1>1, <2>1, RankOrder DEF States
<1>4. CASE RESPONDING_CREATED_SESSION(n, m)
  <2>1. CASE Exit(n, "reply_without_connection")
    BY <1>2, <2>1
  <2>2. CASE ~Exit(n, "reply_without_connection")
    <3>1. /\ state[n][m.id] = "E_CRS_INITIAL_CHALLENGE" /\ secret[n][m.id] = NULL
          /\ state' = [state EXCEPT ![n][m.id] = "E_CRS_SESSION_KEY_SHARE"]
          /\ \E s \in Secrets : secret' = [secret EXCEPT ![n][m.id] = s]
      BY <1>4, <2>2, RespondingEffect
    <3>3. Steps("E_CRS_INITIAL_CHALLENGE", "E_CRS_SESSION_KEY_SHARE")
      BY <3>1
    <3> HIDE DEF Steps
    <3>2. Rank("E_CRS_SESSION_KEY_SHARE") >= Rank("E_CRS_INITIAL_CHALLENGE")
      BY RankOrder
    <3> QED
      BY <1>1, <3>3, <3>2 DEF States
  <2> QED
    BY <2>1, <2>2
<1>5. CASE SHARING_SESSION_KEY(n, m)
  <2>1. Exit(n, "check_oconnection") \/ Steps("E_CRS_CHALLENGE_REPLY", "E_CRS_COMPLETE")
    BY <1>5, SharingEffect
  <2> QED
    BY <1>1, <1>2, <2>1, RankOrder DEF States
<1>6. CASE COMPLETED_SESSION(n, m)
  <2>1. Exit(n, "check_oconnection") \/ Steps("E_CRS_SESSION_KEY_SHARE", "E_CRS_COMPLETE")
    BY <1>6, CompletedEffect
  <2> QED
    BY <1>1, <1>2, <2>1, RankOrder DEF States
<1>7. CASE COMMUNICATING_SESSION(n, m)
  BY <1>2, <1>7, CommunicatingEffect, Unmoved DEF IInv
<1>8. CASE message_from_unknown_sender(n, m) \/ message_from_this_node(n, m)
  BY <1>2, <1>8 DEF message_from_unknown_sender, message_from_this_node
<1> QED
  BY <1>3, <1>4, <1>5, <1>6, <1>7, <1>8 DEF internal_connnection_message_processor

LEMMA NextAdvances ==
    ASSUME IInv, [Next]_vars, NEW p \in Nodes, NEW c \in ConnIds
    PROVE  Advances(p, c)
<1>1. ASSUME UNCHANGED connVars PROVE Advances(p, c)
  BY <1>1, Unmoved DEF connVars, IInv
<1>2. ASSUME NEW n \in Nodes, NEW q \in Nodes, handle_peer(n, q) PROVE Advances(p, c)
  BY <1>1, <1>2 DEF handle_peer
<1>3. ASSUME NEW n \in Nodes, NEW r \in Nodes, NEW d \in ConnIds,
             connection_controller_initiation_request(n, r, d)
      PROVE  Advances(p, c)
  <2>1. ConnectionInv(d) /\ initiator[d] = NULL
    BY <1>3 DEF IInv, HandshakeInv, connection_controller_initiation_request
  <2>2. \A q \in Nodes : state[q][d] = "NONE" /\ secret[q][d] = NULL
    BY <2>1 DEF ConnectionInv
  <2>3. CASE p = n /\ c = d
    <3>1. state'[p][c] = "E_CRS_INITIAL_CHALLENGE"
      BY <1>3, <2>3 DEF connection_controller_initiation_request,
         connection_controller_add_connection_request, IInv, TypeOK
    <3> QED
      BY <2>2, <3>1, <2>3, RankOrder DEF Advances
  <2>4. CASE ~(p = n /\ c = d)
    <3>1. state'[p][c] = state[p][c] /\ secret'[p][c] = secret[p][c]
      BY <1>3, <2>4 DEF connection_controller_initiation_request, connection_request_create,
         connection_controller_add_connection_request, IInv, TypeOK
    <3> QED
      BY <3>1, Unmoved DEF IInv
  <2> QED
    BY <2>3, <2>4
<1>4. ASSUME NEW n \in Nodes, NEW d \in ConnIds, NEW t \in Texts, session_send(n, d, t)
      PROVE  Advances(p, c)
  BY <1>1, <1>4 DEF session_send, Complete
<1>5. ASSUME NEW n \in Nodes, NEW d \in ConnIds,
             connection_controller_remove_connection_request(n, d)
      PROVE  Advances(p, c)
  <2>1. CASE p = n /\ c = d
    <3>1. state'[p][c] = "REMOVED"
      BY <1>5, <2>1 DEF connection_controller_remove_connection_request, IInv, TypeOK
    <3>2. state[p][c] \in States
      BY DEF IInv, TypeOK
    <3>3. Rank(state[p][c]) \in 0..5 /\ Rank("REMOVED") = 5
      BY <3>2, RankOrder
    <3>4. Rank("REMOVED") >= Rank(state[p][c])
      BY <3>3
    <3> QED
      BY <3>1, <3>4 DEF Advances
  <2>2. CASE ~(p = n /\ c = d)
    <3>1. state'[p][c] = state[p][c] /\ secret'[p][c] = secret[p][c]
      BY <1>5, <2>2 DEF connection_controller_remove_connection_request, IInv, TypeOK
    <3> QED
      BY <3>1, Unmoved DEF IInv
  <2> QED
    BY <2>1, <2>2
<1>6. ASSUME NEW n \in Nodes, connection_controller_destroy(n) PROVE Advances(p, c)
  BY <1>1, <1>6 DEF connection_controller_destroy
<1>7. ASSUME NEW n \in Nodes, wpprotocol_mux_tick(n) PROVE Advances(p, c)
  BY <1>1, <1>7 DEF wpprotocol_mux_tick
<1>8. ASSUME NEW n \in Nodes, wpprotocol_mux_pop(n) PROVE Advances(p, c)
  BY <1>1, <1>8, ProcessorAdvances DEF wpprotocol_mux_pop, wpprotocol_mux_pop_nothing
<1>9. CASE UNCHANGED vars
  BY <1>1, <1>9 DEF vars
<1> QED
  BY <1>2, <1>3, <1>4, <1>5, <1>6, <1>7, <1>8, <1>9
     DEF Next, Application, connection_controller_tick

(* No step takes a connection back in the handshake or replaces a secret
   (connection_request.c:81-207, connection_controller.c:257-282). *)
THEOREM NoRegressionHolds == Spec => NoRegression
<1> DEFINE A == \A n \in Nodes, c \in ConnIds :
                  /\ Rank(state'[n][c]) >= Rank(state[n][c])
                  /\ secret[n][c] # NULL =>
                        secret'[n][c] = secret[n][c] \/ state'[n][c] = "REMOVED"
<1>1. TypeOK /\ HandshakeInv /\ [Next]_vars => [A]_vars
  BY NextAdvances DEF Advances, IInv
<1> QED
  BY <1>1, InductiveInvariant, PTL DEF Spec, NoRegression
-----------------------------------------------------------------------------
(* What ends a process. *)

(* Whatever the processor does with a message, it popped it. *)
LEMMA ProcessorPops ==
    ASSUME NEW n, NEW m, internal_connnection_message_processor(n, m)
    PROVE  Popped(n, m)
<1>1. message_from_unknown_sender(n, m) => Popped(n, m)
  BY DEF message_from_unknown_sender
<1>2. message_from_this_node(n, m) => Popped(n, m)
  BY DEF message_from_this_node
<1>3. CREATE_SESSION(n, m) => Popped(n, m)
  BY DEF CREATE_SESSION, Case
<1>4. RESPONDING_CREATED_SESSION(n, m) => Popped(n, m)
  BY DEF RESPONDING_CREATED_SESSION, Case
<1>5. SHARING_SESSION_KEY(n, m) => Popped(n, m)
  BY DEF SHARING_SESSION_KEY, Case
<1>6. COMPLETED_SESSION(n, m) => Popped(n, m)
  BY DEF COMPLETED_SESSION, Case
<1>7. COMMUNICATING_SESSION(n, m) => Popped(n, m)
  BY DEF COMMUNICATING_SESSION, Case
<1> QED
  BY <1>1, <1>2, <1>3, <1>4, <1>5, <1>6, <1>7 DEF internal_connnection_message_processor

(* Once a connection is requested, its two ends are settled. *)
LEMMA EndsSettled ==
    ASSUME IInv, [Next]_vars, NEW c \in ConnIds
    PROVE  \/ initiator'[c] = initiator[c] /\ responder'[c] = responder[c]
           \/ initiator[c] = NULL /\ responder[c] = NULL
<1> DEFINE Requested == \E n \in Nodes, r \in Nodes, d \in ConnIds :
                           connection_controller_initiation_request(n, r, d)
<1>1. UNCHANGED originVars \/ Requested
  <2>1. ASSUME NEW n \in Nodes, NEW p \in Nodes, handle_peer(n, p) PROVE UNCHANGED originVars
    BY <2>1 DEF handle_peer
  <2>2. ASSUME NEW n \in Nodes, Application(n) PROVE UNCHANGED originVars \/ Requested
    <3>1. ASSUME NEW d \in ConnIds, NEW t \in Texts, session_send(n, d, t)
          PROVE  UNCHANGED originVars
      BY <3>1 DEF session_send, Complete
    <3>2. ASSUME NEW d \in ConnIds, connection_controller_remove_connection_request(n, d)
          PROVE  UNCHANGED originVars
      BY <3>2 DEF connection_controller_remove_connection_request
    <3>3. ASSUME connection_controller_destroy(n) PROVE UNCHANGED originVars
      BY <3>3 DEF connection_controller_destroy
    <3> QED
      BY <2>2, <3>1, <3>2, <3>3 DEF Application
  <2>3. ASSUME NEW n \in Nodes, wpprotocol_mux_tick(n) PROVE UNCHANGED originVars
    BY <2>3 DEF wpprotocol_mux_tick
  <2>4. ASSUME NEW n \in Nodes, wpprotocol_mux_pop_nothing(n) PROVE UNCHANGED originVars
    BY <2>4 DEF wpprotocol_mux_pop_nothing
  <2>5. ASSUME NEW n \in Nodes, NEW m \in inbox, internal_connnection_message_processor(n, m)
        PROVE  UNCHANGED originVars
    BY <2>5, ProcessorPops DEF Popped
  <2>6. CASE UNCHANGED vars
    BY <2>6 DEF vars
  <2> HIDE DEF Requested
  <2> QED
    BY <2>1, <2>2, <2>3, <2>4, <2>5, <2>6 DEF Next, connection_controller_tick, wpprotocol_mux_pop
<1>2. CASE UNCHANGED originVars
  BY <1>2 DEF originVars
<1>3. CASE \E n \in Nodes, r \in Nodes, d \in ConnIds :
              connection_controller_initiation_request(n, r, d)
  <2>1. ConnectionInv(c)
    BY DEF IInv, HandshakeInv
  <2> QED
    BY <1>3, <2>1 DEF connection_controller_initiation_request, ConnectionInv, IInv, TypeOK
<1> QED
  BY <1>1, <1>2, <1>3

LEMMA RemovedStays ==
    ASSUME IInv, [Next]_vars, NEW n \in Nodes, NEW c \in ConnIds, state[n][c] = "REMOVED"
    PROVE  state'[n][c] = "REMOVED"
<1>1. Rank(state'[n][c]) >= 5
  BY NextAdvances, RankOrder DEF Advances
<1>2. state'[n][c] \in States
  BY NextInv DEF IInv, TypeOK
<1> QED
  BY <1>1, <1>2, RankOrder DEF States

(* A message comes from a peer its recipient knows, or opens a connection. *)
LEMMA UnknownSender ==
    ASSUME IInv, NEW n \in Nodes, NEW m \in inbox, m.recipient = n, m.sender \notin known[n]
    PROVE  \E c \in ConnIds : responder[c] = n /\ initiator[c] \notin known[n]
<1>1. m.id \in ConnIds /\ MessageInv(m) /\ ConnectionInv(m.id) /\ m.action \in Actions
  BY PoppedInv
<1>2. FromInitiator(m) \/ FromResponder(m)
  BY <1>1 DEF MessageInv, Actions
<1>3. initiator[m.id] # NULL
  BY <1>1 DEF MessageInv
<1>4. CASE FromInitiator(m)
  BY <1>1, <1>4 DEF FromInitiator
<1>5. CASE FromResponder(m)
  BY <1>1, <1>3, <1>5 DEF FromResponder, ConnectionInv
<1> QED
  BY <1>2, <1>4, <1>5

LEMMA OwnMessage ==
    ASSUME IInv, NEW n \in Nodes, NEW m \in inbox, m.recipient = n, m.sender = n
    PROVE  \E c \in ConnIds : initiator[c] = n /\ responder[c] = n
<1>1. m.id \in ConnIds /\ MessageInv(m) /\ m.action \in Actions
  BY PoppedInv
<1>2. FromInitiator(m) \/ FromResponder(m)
  BY <1>1 DEF MessageInv, Actions
<1> QED
  BY <1>1, <1>2 DEF FromInitiator, FromResponder

(* What a step does to the status of a node, and to what a stopped node knows. *)
StatusChange(p) ==
    \/ status'[p] = status[p] /\ (status[p] # "running" => known'[p] = known[p])
    \/ status'[p] = "destroyed"
    \/ /\ known' = known /\ originVars' = originVars /\ connVars' = connVars
       /\ \/ /\ status'[p] = "check_remote"
             /\ \E c \in ConnIds : responder[c] = p /\ initiator[c] \notin known[p]
          \/ /\ status'[p] = "message_to_itself"
             /\ \E c \in ConnIds : initiator[c] = p /\ responder[c] = p
          \/ /\ status'[p] \in {"reply_without_connection",
                                "check_oconnection", "null_oconnection"}
             /\ \E c \in ConnIds : state[p][c] = "REMOVED"

LEMMA StatusStep == ASSUME IInv, [Next]_vars, NEW p \in Nodes PROVE StatusChange(p)
<1> USE DEF StatusChange
<1>0. ASSUME status' = status, known' = known PROVE StatusChange(p)
  BY <1>0
<1>1. ASSUME NEW n \in Nodes, NEW q \in Nodes, handle_peer(n, q) PROVE StatusChange(p)
  BY <1>1 DEF handle_peer, IInv, TypeOK
<1>2. ASSUME NEW n \in Nodes, Application(n) PROVE StatusChange(p)
  <2>1. CASE connection_controller_destroy(n)
    BY <2>1 DEF connection_controller_destroy, peerVars, IInv, TypeOK
  <2>2. CASE ~connection_controller_destroy(n)
    BY <1>0, <1>2, <2>2 DEF Application, connection_controller_initiation_request, session_send, Complete,
       connection_controller_remove_connection_request, peerVars
  <2> QED
    BY <2>1, <2>2
<1>3. ASSUME NEW n \in Nodes, wpprotocol_mux_tick(n) PROVE StatusChange(p)
  <2>1. \A m \in pending : m.sender = n => m.recipient \in known[n]
    BY DEF IInv, HandshakeInv, InFlight, MessageInv
  <2>2. status' = status /\ known' = known
    BY <1>3, <2>1 DEF wpprotocol_mux_tick, internal_connection_control_emitter, peerVars
  <2> QED
    BY <1>0, <2>2
<1>4. ASSUME NEW n \in Nodes, wpprotocol_mux_pop_nothing(n) PROVE StatusChange(p)
  BY <1>0, <1>4 DEF wpprotocol_mux_pop_nothing, peerVars
<1>5. ASSUME NEW n \in Nodes, NEW m \in inbox, internal_connnection_message_processor(n, m)
      PROVE  StatusChange(p)
  <2>1. /\ m.recipient = n /\ m.id \in ConnIds /\ known' = known /\ originVars' = originVars
    BY <1>5, ProcessorPops, MessageFields DEF Popped, peerVars, IInv, TypeOK
  <2>2. ASSUME NEW where, Exit(n, where)
        PROVE  /\ connVars' = connVars
               /\ p # n => status'[p] = status[p]
               /\ p = n => status'[p] = where
    BY <2>2 DEF Exit, IInv, TypeOK
  <2>3. CASE message_from_unknown_sender(n, m)
    BY <2>1, <2>2, <2>3, UnknownSender DEF message_from_unknown_sender
  <2>4. CASE message_from_this_node(n, m)
    BY <2>1, <2>2, <2>4, OwnMessage DEF message_from_this_node
  <2>5. CASE CREATE_SESSION(n, m)
    BY <1>0, <2>1, <2>5, CreateEffect
  <2>6. CASE RESPONDING_CREATED_SESSION(n, m)
    BY <1>0, <2>1, <2>2, <2>6, RespondingEffect
  <2>7. CASE SHARING_SESSION_KEY(n, m)
    BY <1>0, <2>1, <2>2, <2>7, SharingEffect
  <2>8. CASE COMPLETED_SESSION(n, m)
    BY <1>0, <2>1, <2>2, <2>8, CompletedEffect
  <2>9. CASE COMMUNICATING_SESSION(n, m)
    BY <1>0, <2>1, <2>2, <2>9, CommunicatingEffect
  <2> QED
    BY <1>5, <2>3, <2>4, <2>5, <2>6, <2>7, <2>8, <2>9 DEF internal_connnection_message_processor
<1>6. ASSUME UNCHANGED vars PROVE StatusChange(p)
  BY <1>0, <1>6 DEF vars, peerVars
<1> HIDE DEF StatusChange
<1> QED
  BY <1>1, <1>2, <1>3, <1>4, <1>5, <1>6
     DEF Next, connection_controller_tick, wpprotocol_mux_pop

LEMMA ExplainedKept ==
    ASSUME IInv, [Next]_vars, NEW n \in Nodes, Explained(n) \/ status'[n] # status[n]
    PROVE  Explained(n)'
<1>1. CASE status'[n] = status[n] /\ (status[n] # "running" => known'[n] = known[n])
  <2>1. \A c \in ConnIds : responder[c] = n =>
            initiator'[c] = initiator[c] /\ responder'[c] = responder[c]
    BY EndsSettled, ConstantsAssumption
  <2>2. \A c \in ConnIds : state[n][c] = "REMOVED" => state'[n][c] = "REMOVED"
    BY RemovedStays
  <2> QED
    BY <1>1, <2>1, <2>2 DEF Explained
<1>2. CASE status'[n] = "destroyed"
  BY <1>2 DEF Explained
<1>3. CASE ~(status'[n] = status[n] /\ (status[n] # "running" => known'[n] = known[n]))
           /\ status'[n] # "destroyed"
  BY <1>3, StatusStep DEF StatusChange, Explained, originVars, connVars
<1> QED
  BY <1>1, <1>2, <1>3

LEMMA NextExplained == IInv /\ ExitsExplained /\ [Next]_vars => ExitsExplained'
BY ExplainedKept DEF ExitsExplained

(* A process is ended by a message only in the three ways of ExitsExplained; the
   other exits of connection_controller.c:6-172 are never reached. *)
THEOREM ExitsExplainedHolds == Spec => []ExitsExplained
<1>1. Init => ExitsExplained
  BY DEF Init, ExitsExplained, Explained
<1>2. (TypeOK /\ HandshakeInv) /\ ExitsExplained /\ [Next]_vars => ExitsExplained'
  BY NextExplained DEF IInv
<1> QED
  BY <1>1, <1>2, InductiveInvariant, PTL DEF Spec
-----------------------------------------------------------------------------
(* Where a text comes from. *)

(* What a step adds to the texts that came in: one that the other end sent. *)
Delivers(n, c, t) ==
    /\ {initiator[c], responder[c]} \cap {NULL} = {}
    /\ n \in {initiator[c], responder[c]}
    /\ \E p \in {initiator[c], responder[c]} \ {n}, u \in Texts :
          <<p, c, u>> \in sent /\ t \in {u, Garbled}

LEMMA ReceivedStep ==
    ASSUME IInv, [Next]_vars
    PROVE  /\ sent \subseteq sent'
           /\ \/ received' = received
              \/ \E n \in Nodes, c \in ConnIds, t \in Texts \cup {Garbled} :
                    Delivers(n, c, t) /\ received' = received \cup {<<n, c, t>>}
<1> DEFINE Goal == /\ sent \subseteq sent'
                   /\ \/ received' = received
                      \/ \E n \in Nodes, c \in ConnIds, t \in Texts \cup {Garbled} :
                            Delivers(n, c, t) /\ received' = received \cup {<<n, c, t>>}
<1>0. ASSUME sent \subseteq sent', received' = received PROVE Goal
  BY <1>0
<1> HIDE DEF Goal
<1>1. ASSUME NEW n \in Nodes, NEW q \in Nodes, handle_peer(n, q) PROVE Goal
  BY <1>0, <1>1 DEF handle_peer, noteVars
<1>2. ASSUME NEW n \in Nodes, Application(n) PROVE Goal
  BY <1>0, <1>2 DEF Application, connection_controller_initiation_request, session_send, Complete,
     connection_controller_remove_connection_request, connection_controller_destroy, noteVars
<1>3. ASSUME NEW n \in Nodes, wpprotocol_mux_tick(n) PROVE Goal
  BY <1>0, <1>3 DEF wpprotocol_mux_tick, noteVars
<1>4. ASSUME NEW n \in Nodes, wpprotocol_mux_pop_nothing(n) PROVE Goal
  BY <1>0, <1>4 DEF wpprotocol_mux_pop_nothing, noteVars
<1>5. ASSUME NEW n \in Nodes, NEW m \in inbox, internal_connnection_message_processor(n, m)
      PROVE  Goal
  <2>1. CASE COMMUNICATING_SESSION(n, m)
    <3>1. m.recipient = n /\ m.sender # n /\ m.action = "COMMUNICATING_SESSION"
      BY <2>1 DEF COMMUNICATING_SESSION, Case, Popped
    <3>2. m.id \in ConnIds /\ MessageInv(m)
      BY <3>1, PoppedInv
    <3>3. CASE \E where : Exit(n, where)
      BY <1>0, <3>3 DEF Exit, noteVars
    <3>4. CASE ~\E where : Exit(n, where)
      <4>1. /\ secret[n][m.id] # NULL /\ sent' = sent
            /\ received' = received \cup
                  {<<n, m.id, symmetrical_decrypt(secret[n][m.id], m.data)>>}
        BY <2>1, <3>4, CommunicatingEffect
      <4>2. PICK t \in Texts : /\ <<m.sender, m.id, t>> \in sent
                               /\ symmetrical_decrypt(secret[n][m.id], m.data) \in {t, Garbled}
        BY <3>1, <4>1, TextDecrypted
      <4>3. /\ n \in {initiator[m.id], responder[m.id]}
            /\ m.sender \in {initiator[m.id], responder[m.id]} \ {n}
            /\ initiator[m.id] # NULL /\ responder[m.id] # NULL
        <5>1. n # NULL /\ m.sender # NULL
          BY <3>1, PoppedInv, ConstantsAssumption
        <5>2. FromInitiator(m) \/ FromResponder(m)
          BY <3>1, <3>2 DEF MessageInv
        <5> QED
          BY <3>1, <5>1, <5>2 DEF FromInitiator, FromResponder
      <4>4. Delivers(n, m.id, symmetrical_decrypt(secret[n][m.id], m.data))
        BY <4>2, <4>3 DEF Delivers
      <4> QED
        BY <3>2, <4>1, <4>2, <4>4 DEF Goal
    <3> QED
      BY <3>3, <3>4
  <2>2. CASE message_from_unknown_sender(n, m) \/ message_from_this_node(n, m)
    BY <1>0, <2>2 DEF message_from_unknown_sender, message_from_this_node, Exit, noteVars
  <2>3. CASE CREATE_SESSION(n, m)
    BY <1>0, <2>3 DEF CREATE_SESSION, Exit, noteVars
  <2>4. CASE RESPONDING_CREATED_SESSION(n, m)
    BY <1>0, <2>4 DEF RESPONDING_CREATED_SESSION, Exit, noteVars
  <2>5. CASE SHARING_SESSION_KEY(n, m)
    BY <1>0, <2>5 DEF SHARING_SESSION_KEY, Exit, noteVars
  <2>6. CASE COMPLETED_SESSION(n, m)
    BY <1>0, <2>6 DEF COMPLETED_SESSION, NoSecret, Exit, noteVars
  <2> QED
    BY <1>5, <2>1, <2>2, <2>3, <2>4, <2>5, <2>6 DEF internal_connnection_message_processor
<1>6. ASSUME UNCHANGED vars PROVE Goal
  BY <1>0, <1>6 DEF vars, noteVars
<1>7. Goal
  BY <1>1, <1>2, <1>3, <1>4, <1>5, <1>6 DEF Next, connection_controller_tick, wpprotocol_mux_pop
<1> QED
  BY <1>7 DEF Goal

(* Texts come from the other end as long as the ends are settled. *)
LEMMA IntegrityKept ==
    ASSUME MessageIntegrity, sent \subseteq sent',
           \A c \in ConnIds : \/ initiator'[c] = initiator[c] /\ responder'[c] = responder[c]
                              \/ initiator[c] = NULL /\ responder[c] = NULL,
           \/ received' = received
           \/ \E n \in Nodes, c \in ConnIds, t \in Texts \cup {Garbled} :
                 Delivers(n, c, t) /\ received' = received \cup {<<n, c, t>>}
    PROVE  MessageIntegrity'
<1> SUFFICES ASSUME NEW n \in Nodes, NEW c \in ConnIds, NEW t \in Texts,
                    <<n, c, t>> \in received'
             PROVE  /\ n \in {initiator'[c], responder'[c]}
                    /\ \E p \in {initiator'[c], responder'[c]} \ {n} : <<p, c, t>> \in sent'
  BY DEF MessageIntegrity
<1>1. /\ ~(initiator[c] = NULL /\ responder[c] = NULL)
      /\ n \in {initiator[c], responder[c]}
      /\ \E p \in {initiator[c], responder[c]} \ {n} : <<p, c, t>> \in sent
  <2>1. CASE <<n, c, t>> \in received
    <3>1. n \in {initiator[c], responder[c]}
      BY <2>1 DEF MessageIntegrity
    <3>2. PICK p \in {initiator[c], responder[c]} \ {n} : <<p, c, t>> \in sent
      BY <2>1 DEF MessageIntegrity
    <3>3. ~(initiator[c] = NULL /\ responder[c] = NULL)
      BY ONLY <3>1, <3>2
    <3> QED
      BY <3>1, <3>2, <3>3
  <2>2. CASE <<n, c, t>> \notin received
    <3>1. Delivers(n, c, t)
      BY <2>2
    <3> QED
      BY <3>1, ConstantsAssumption DEF Delivers
  <2> QED
    BY <2>1, <2>2
<1>2. initiator'[c] = initiator[c] /\ responder'[c] = responder[c]
  BY <1>1
<1> QED
  BY <1>1, <1>2

(* The application is given a text only if the application at the other end of the
   connection sent it there (connection_controller.c:157-172), whatever else is
   under way; a ciphertext cut short decrypts to other bytes. *)
THEOREM MessageIntegrityHolds == Spec => []MessageIntegrity
<1>1. Init => MessageIntegrity
  BY DEF Init, MessageIntegrity
<1>2. (TypeOK /\ HandshakeInv) /\ MessageIntegrity /\ [Next]_vars => MessageIntegrity'
  BY EndsSettled, ReceivedStep, IntegrityKept DEF IInv
<1> QED
  BY <1>1, <1>2, InductiveInvariant, PTL DEF Spec
=============================================================================
