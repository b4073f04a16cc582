-------------------------- MODULE NodeSessions_proofs --------------------------
(***************************************************************************)
(* That the session controller of every node of SessionSystem behaves as   *)
(* SessionController does, step by step.  Self is any node: what is proved *)
(* of it holds of all.                                                     *)
(***************************************************************************)
EXTENDS NodeSessions, SessionSystem_proofs

(* What SessionController's state consists of. *)
ControllerVars ==
    <<Progress, session_list[Self], connection_request_list[Self], Existing, handle[Self],
      CoarseStatus(status[Self]), SentIn(Self), Tried, Received, Notified>>

LEMMA NoElement == ASSUME NEW S, NEW q \in Seq(S), ToSet(q) = {} PROVE q = <<>>
<1>1. Len(q) \in Nat /\ DOMAIN q = 1..Len(q)
  OBVIOUS
<1>2. ASSUME Len(q) # 0 PROVE q[1] \in ToSet(q)
  <2>1. 1 \in DOMAIN q
    BY <1>1, <1>2
  <2> QED
    BY <2>1 DEF ToSet
<1>3. Len(q) = 0
  BY <1>2
<1> QED
  BY <1>3

LEMMA ProgressStep ==
    ASSUME IInv, NEW c \in ConnIds, NEW x, state' = [state EXCEPT ![Self][c] = x]
    PROVE  Progress' = [Progress EXCEPT ![c] = Coarse(x)]
<1>1. \A d \in ConnIds : state'[Self][d] = IF d = c THEN x ELSE state[Self][d]
  BY SelfAssumption DEF IInv, TypeOK
<1>2. Progress' = [d \in ConnIds |-> Coarse(state'[Self][d])]
  BY DEF Progress
<1>3. Progress' = [d \in ConnIds |-> IF d = c THEN Coarse(x) ELSE Coarse(state[Self][d])]
  BY <1>1, <1>2
<1>4. [Progress EXCEPT ![c] = Coarse(x)] =
          [d \in ConnIds |-> IF d = c THEN Coarse(x) ELSE Coarse(state[Self][d])]
  BY DEF Progress
<1> QED
  BY <1>3, <1>4

(* What n sent in its sessions depends on the sessions that have the connections. *)
LEMMA SentInKept ==
    ASSUME IInv, {y \in sent' : y[1] = Self} = {y \in sent : y[1] = Self},
           \A y \in sent : y[1] = Self => SessionOf(Self, y[2])' = SessionOf(Self, y[2])
    PROVE  SentIn(Self)' = SentIn(Self) /\ Tried' = Tried
<1>1. SentIn(Self)' = SentIn(Self)
  BY DEF SentIn
<1> QED
  BY <1>1 DEF Tried

LEMMA SessionsKept ==
    ASSUME connection_request_list'[Self] = connection_request_list[Self]
    PROVE  /\ \A s : Of(Self, s)' = Of(Self, s)
           /\ \A c : SessionOf(Self, c)' = SessionOf(Self, c)
           /\ destroyed'[Self] = destroyed[Self] => Existing' = Existing
BY DEF Of, SessionOf, Existing

(* Only sessions with connections have sent something. *)
LEMMA TriedInSession ==
    ASSUME NEW s, NEW t, <<s, t>> \in Tried
    PROVE  s \in ConnIds /\ \E x \in sent : x[1] = Self /\ x[2] \in Of(Self, s) /\ x[3] = t
<1>1. PICK z \in SentIn(Self) : <<s, t>> = <<z[1], z[3]>>
  BY DEF Tried
<1>2. PICK x \in {y \in sent : y[1] = Self} :
          z \in {<<q, x[2], x[3]>> : q \in SessionOf(Self, x[2])}
  BY <1>1 DEF SentIn
<1>3. PICK q \in SessionOf(Self, x[2]) : z = <<q, x[2], x[3]>>
  BY <1>2
<1> QED
  BY <1>1, <1>2, <1>3 DEF SessionOf
-----------------------------------------------------------------------------
(* Steps of other nodes. *)

LEMMA Elsewhere ==
    ASSUME IInv, ListsInv, NEW n \in Nodes, n # Self, Kinds(n)
    PROVE  UNCHANGED ControllerVars
<1>1. /\ status'[Self] = status[Self] /\ state'[Self] = state[Self]
      /\ session_list'[Self] = session_list[Self]
      /\ connection_request_list'[Self] = connection_request_list[Self]
      /\ destroyed'[Self] = destroyed[Self] /\ handle'[Self] = handle[Self]
  BY Bystander, SelfAssumption
<1>2. /\ {y \in sent' : y[1] = Self} = {y \in sent : y[1] = Self}
      /\ {y \in received' : y[1] = Self} = {y \in received : y[1] = Self}
      /\ {y \in notified' : y[1] = Self} = {y \in notified : y[1] = Self}
  <2>1. CASE UNCHANGED <<sent, received, notified>>
    BY <2>1
  <2>2. ASSUME NEW c \in ConnIds, NEW t \in Texts \cup {Garbled}, Heard(n, c, t)
        PROVE  <1>2
    <3>1. \A x \in Notifications(n, c, t) : x[1] = n
      BY NotifiedWithin
    <3> QED
      BY <2>2, <3>1 DEF Heard
  <2>3. ASSUME NEW s \in ConnIds, NEW t \in Texts, session_controller_session_send_message(n, s, t)
        PROVE  <1>2
    <3>1. /\ sent' = sent \cup {<<n, c, t>> : c \in Reached(n, s)}
          /\ UNCHANGED <<received, notified>>
      BY <2>3, SendEffect DEF sessionVars
    <3> QED
      BY <3>1
  <2> QED
    BY <2>1, <2>2, <2>3 DEF Kinds, Opened, Accepted, Proceeded, Unnoticed, sessionVars,
       session_controller_destroy, session_controller_create, connectionVars, vars, noteVars
<1>3. SentIn(Self)' = SentIn(Self) /\ Tried' = Tried
  BY <1>1, <1>2, SentInKept, SessionsKept
<1>4. Progress' = Progress /\ Existing' = Existing
  BY <1>1, SessionsKept DEF Progress
<1>5. Received' = Received /\ Notified' = Notified
  BY <1>2 DEF Received, Notified
<1> QED
  BY <1>1, <1>3, <1>4, <1>5 DEF ControllerVars
-----------------------------------------------------------------------------
(* Steps of Self. *)

LEMMA CoarseValues ==
    /\ Coarse("NONE") = "NONE" /\ Coarse("E_CRS_COMPLETE") = "E_CRS_COMPLETE"
    /\ \A x \in {"E_CRS_INITIAL_CHALLENGE", "E_CRS_CHALLENGE_REPLY", "E_CRS_SESSION_KEY_SHARE"} :
          Coarse(x) = "PENDING"
    /\ \A x \in States : /\ x \notin {"NONE", "REMOVED"} => Coarse(x) \in {"PENDING", "E_CRS_COMPLETE"}
                         /\ Coarse(x) = "NONE" => x = "NONE"
BY DEF Coarse, States

LEMMA CoarseRunning ==
    /\ \A x : x # "check_scontroller_handle" => CoarseStatus(x) = "running"
    /\ CoarseStatus("check_scontroller_handle") = "check_scontroller_handle"
BY DEF CoarseStatus

(* An unlisted connection is the name of a session that never was. *)
LEMMA FreshName ==
    ASSUME ListsInv, NEW c \in ConnIds, state[Self][c] = "NONE"
    PROVE  Controller!Fresh(c) /\ SessionOf(Self, c) = {} /\ Of(Self, c) = {}
<1>1. ~Listed(Self, c)
  BY DEF Listed
<1>2. SessionOf(Self, c) = {}
  BY <1>1, SelfAssumption DEF ListsInv, MembersInv, SessionOf
<1>3. Of(Self, c) = {}
  BY <1>2, SelfAssumption DEF ListsInv, MembersInv, SessionOf
<1>4. connection_request_list[Self][c] = <<>>
  <2>1. connection_request_list[Self][c] \in Seq(ConnIds)
    BY SelfAssumption DEF ListsInv, ListsTypeOK
  <2> QED
    BY <1>3, <2>1, NoElement DEF Of
<1>5. c \notin Existing
  BY <1>3 DEF Existing
<1>6. \A t : <<c, t>> \notin Tried
  BY <1>3, TriedInSession
<1> QED
  BY <1>2, <1>3, <1>4, <1>5, <1>6 DEF Controller!Fresh

(* A connection is requested, for a session of its own or one that there is, or
   comes in and gets a session. *)
LEMMA OpenedMaps ==
    ASSUME IInv, ListsInv, NEW s \in ConnIds, NEW c \in ConnIds, Opened(Self, s, c)
    PROVE  Controller!Next
<1>1. /\ status[Self] = "running" /\ status' = status /\ handle[Self] /\ handle' = handle
      /\ state[Self][c] = "NONE"
      /\ UNCHANGED <<sent, received, notified, destroyed>>
  BY DEF Opened
<1>2. Controller!NewConnection(c)
  <2>1. PICK x \in {"E_CRS_INITIAL_CHALLENGE", "E_CRS_CHALLENGE_REPLY"} :
            state' = [state EXCEPT ![Self][c] = x]
    BY DEF Opened
  <2>2. Progress' = [Progress EXCEPT ![c] = "PENDING"]
    <3>1. Progress' = [Progress EXCEPT ![c] = Coarse(x)]
      BY <2>1, ProgressStep
    <3> QED
      BY <3>1, CoarseValues
  <2>3. Progress[c] = "NONE"
    BY <1>1, CoarseValues DEF Progress
  <2> QED
    BY <2>2, <2>3 DEF Controller!NewConnection
<1>3. Controller!session_add_connection(s, c)
  BY SelfAssumption DEF Opened, session_add_connection, Controller!session_add_connection,
     ListsInv, ListsTypeOK
<1>4. Controller!Fresh(c) /\ SessionOf(Self, c) = {} /\ Of(Self, c) = {}
  BY <1>1, FreshName
<1>5. SentIn(Self)' = SentIn(Self) /\ Tried' = Tried
  <2>1. ASSUME NEW y \in sent, y[1] = Self
        PROVE  SessionOf(Self, y[2])' = SessionOf(Self, y[2])
    <3>1. y[2] \in ConnIds /\ y[2] # c
      BY <1>4, <2>1 DEF ListsInv, NotesInv, IInv, TypeOK
    <3> QED
      BY <3>1, OpenedFacts, SelfAssumption
  <2> QED
    BY <1>1, <2>1, SentInKept
<1>6. Received' = Received /\ Notified' = Notified
  BY <1>1 DEF Received, Notified
<1>7. Existing' = Existing \cup {s} /\ s \notin destroyed[Self]
  <2>1. \A q \in ConnIds : q # s => Of(Self, q)' = Of(Self, q)
    BY OpenedFacts, SelfAssumption
  <2>2. s \notin destroyed[Self] /\ Of(Self, s)' # {}
    BY OpenedFacts, SelfAssumption
  <2> QED
    BY <1>1, <2>1, <2>2 DEF Existing
<1>8. CASE s = c /\ session_list' = [session_list EXCEPT ![Self] = Append(@, c)]
  <2>1. session_list'[Self] = Append(session_list[Self], s)
    BY <1>8, SelfAssumption DEF ListsInv, ListsTypeOK
  <2>2. Controller!session_controller_session_create(s, c)
    BY <1>1, <1>2, <1>3, <1>4, <1>5, <1>6, <1>7, <1>8, <2>1, CoarseRunning
       DEF Controller!session_controller_session_create, Controller!noteVars
  <2> QED
    BY <2>2 DEF Controller!Next
<1>9. CASE s \in ToSet(session_list[Self]) /\ session_list' = session_list
  <2>1. s \in Existing
    BY <1>9, SelfAssumption DEF ListsInv, ControllerInv, Existing
  <2>2. Controller!session_controller_session_add_peer(s, c)
    BY <1>1, <1>2, <1>3, <1>5, <1>6, <1>7, <1>9, <2>1, CoarseRunning
       DEF Controller!session_controller_session_add_peer, Controller!noteVars
  <2> QED
    BY <2>2 DEF Controller!Next
<1> QED
  BY <1>8, <1>9 DEF Opened

(* What stays of the mapped state when the lists do. *)
LEMMA ListsMapped ==
    ASSUME IInv, UNCHANGED listVars
    PROVE  /\ Existing' = Existing
           /\ session_list'[Self] = session_list[Self]
           /\ connection_request_list'[Self] = connection_request_list[Self]
           /\ handle'[Self] = handle[Self]
           /\ sent' = sent => SentIn(Self)' = SentIn(Self) /\ Tried' = Tried
<1>1. /\ connection_request_list' = connection_request_list
      /\ session_list' = session_list /\ handle' = handle /\ destroyed' = destroyed
  BY DEF listVars
<1>2. \A c : SessionOf(Self, c)' = SessionOf(Self, c)
  BY <1>1, SessionsKept
<1> QED
  BY <1>1, <1>2, SessionsKept, SentInKept

(* A connection that came in and found no controller. *)
LEMMA AcceptedMaps ==
    ASSUME IInv, ListsInv, NEW c \in ConnIds, Accepted(Self, c)
    PROVE  Controller!Next
<1>1. /\ status[Self] = "running" /\ ~handle[Self]
      /\ state[Self][c] = "NONE"
      /\ state' = [state EXCEPT ![Self][c] = "E_CRS_CHALLENGE_REPLY"]
      /\ status'[Self] = "check_scontroller_handle"
      /\ UNCHANGED <<sent, received, notified, listVars>>
  BY SelfAssumption DEF Accepted, sessionVars, IInv, TypeOK
<1>2. Controller!NewConnection(c)
  <2>1. Progress' = [Progress EXCEPT ![c] = Coarse("E_CRS_CHALLENGE_REPLY")]
    BY <1>1, ProgressStep
  <2>2. Progress[c] = "NONE"
    BY <1>1, CoarseValues DEF Progress
  <2> QED
    BY <2>1, <2>2, CoarseValues DEF Controller!NewConnection
<1>3. Controller!Fresh(c)
  BY <1>1, FreshName
<1>4. Received' = Received /\ Notified' = Notified
  BY <1>1 DEF Received, Notified
<1>5. /\ CoarseStatus(status[Self]) = "running"
      /\ CoarseStatus(status[Self])' = "check_scontroller_handle"
  BY <1>1, CoarseRunning
<1>6. Controller!internal_incoming(c, c)
  BY <1>1, <1>2, <1>3, <1>4, <1>5, ListsMapped
     DEF Controller!internal_incoming, Controller!noteVars, Controller!listVars
<1> QED
  BY <1>6 DEF Controller!Next

(* A handshake that goes on, unseen or to its end. *)
LEMMA ProceededMaps ==
    ASSUME IInv, ListsInv, NEW c \in ConnIds, Proceeded(Self, c)
    PROVE  Controller!Next \/ UNCHANGED ControllerVars
<1>1. /\ status[Self] = "running" /\ status' = status
      /\ UNCHANGED <<sent, received, notified, listVars>>
  BY DEF Proceeded, sessionVars
<1>2. Progress[c] = "PENDING"
  BY CoarseValues DEF Proceeded, Progress
<1>3. Received' = Received /\ Notified' = Notified
  BY <1>1 DEF Received, Notified
<1>4. CASE state' = [state EXCEPT ![Self][c] = "E_CRS_SESSION_KEY_SHARE"]
  <2>1. Progress' = [Progress EXCEPT ![c] = "PENDING"]
    BY <1>4, ProgressStep, CoarseValues
  <2>2. Progress' = Progress
    BY <1>2, <2>1 DEF Progress
  <2> QED
    BY <1>1, <1>3, <2>2, ListsMapped DEF ControllerVars
<1>5. CASE state' = [state EXCEPT ![Self][c] = "E_CRS_COMPLETE"]
  <2>1. Progress' = [Progress EXCEPT ![c] = "E_CRS_COMPLETE"]
    BY <1>5, ProgressStep, CoarseValues
  <2>2. Controller!internal_completed(c)
    BY <1>1, <1>2, <1>3, <2>1, ListsMapped, CoarseRunning
       DEF Controller!internal_completed, Controller!noteVars, Controller!listVars
  <2> QED
    BY <2>2 DEF Controller!Next
<1> QED
  BY <1>4, <1>5 DEF Proceeded

(* A text that came in on c, and whom it is notified to. *)
LEMMA HeardMaps ==
    ASSUME IInv, ListsInv, NEW c \in ConnIds, NEW t \in Texts \cup {Garbled}, Heard(Self, c, t)
    PROVE  Controller!Next
<1>1. /\ status[Self] = "running" /\ Listed(Self, c)
      /\ received' = received \cup {<<Self, c, t>>}
      /\ notified' = IF handle[Self] THEN notified \cup Notifications(Self, c, t) ELSE notified
      /\ UNCHANGED <<state, status, sent, listVars>>
  BY DEF Heard
<1>2. Progress' = Progress
  BY <1>1 DEF Progress
<1>3. Progress[c] \in {"PENDING", "E_CRS_COMPLETE"}
  <2>1. state[Self][c] \in States
    BY SelfAssumption DEF IInv, TypeOK
  <2> QED
    BY <1>1, <2>1, CoarseValues DEF Listed, Progress
<1>4. Received' = Received \cup {<<c, t>>}
  <2>1. {y \in received' : y[1] = Self} = {y \in received : y[1] = Self} \cup {<<Self, c, t>>}
    BY <1>1
  <2>2. Received' = {<<x[2], x[3]>> : x \in {y \in received' : y[1] = Self}}
    BY DEF Received
  <2>3. <<Self, c, t>>[2] = c /\ <<Self, c, t>>[3] = t
    OBVIOUS
  <2>4. ASSUME NEW z PROVE z \in Received' <=> z \in Received \/ z = <<c, t>>
    BY <2>1, <2>2, <2>3 DEF Received
  <2> QED
    BY <2>4
<1>5. {<<x[2], x[3], x[4], x[5]>> : x \in Notifications(Self, c, t)} =
          Controller!Notifications(c, t, {})
  <2>1. /\ \A s : FoundIn(Self, s, c) = Controller!FoundIn(s, c, {})
        /\ ToSet(session_list[Self]) = Controller!ToSet(session_list[Self])
    BY DEF FoundIn, Controller!FoundIn, ToSet, Controller!ToSet
  <2>2. Notifications(Self, c, t) =
            UNION {{<<Self, s, d, c, t>> : d \in FoundIn(Self, s, c)} : s \in ToSet(session_list[Self])}
    BY DEF Notifications
  <2>3. Controller!Notifications(c, t, {}) =
            UNION {{<<s, d, c, t>> : d \in FoundIn(Self, s, c)} : s \in ToSet(session_list[Self])}
    BY <2>1 DEF Controller!Notifications
  <2>4. ASSUME NEW z, z \in {<<x[2], x[3], x[4], x[5]>> : x \in Notifications(Self, c, t)}
        PROVE  z \in Controller!Notifications(c, t, {})
    <3>1. PICK x \in Notifications(Self, c, t) : z = <<x[2], x[3], x[4], x[5]>>
      BY <2>4
    <3>2. PICK s \in ToSet(session_list[Self]) :
              x \in {<<Self, s, d, c, t>> : d \in FoundIn(Self, s, c)}
      BY <2>2
    <3>3. PICK d \in FoundIn(Self, s, c) : x = <<Self, s, d, c, t>>
      BY <3>2
    <3> QED
      BY <2>3, <3>1, <3>3
  <2>5. ASSUME NEW z \in Controller!Notifications(c, t, {})
        PROVE  z \in {<<x[2], x[3], x[4], x[5]>> : x \in Notifications(Self, c, t)}
    <3>1. PICK s \in ToSet(session_list[Self]) :
              z \in {<<s, d, c, t>> : d \in FoundIn(Self, s, c)}
      BY <2>3
    <3>2. PICK d \in FoundIn(Self, s, c) : z = <<s, d, c, t>>
      BY <3>1
    <3>3. <<Self, s, d, c, t>> \in Notifications(Self, c, t)
      BY <2>2
    <3> QED
      BY <3>2, <3>3
  <2> QED
    BY <2>4, <2>5
<1>6. Notified' = IF handle[Self] THEN Notified \cup Controller!Notifications(c, t, {}) ELSE Notified
  <2>1. \A x \in Notifications(Self, c, t) : x[1] = Self
    BY NotifiedWithin, SelfAssumption
  <2> QED
    BY <1>1, <1>5, <2>1 DEF Notified
<1>7. {} \in SUBSET {d \in ConnIds : Controller!Freed(d)}
  OBVIOUS
<1>8. Controller!internal_message_received(c, t)
  BY <1>7, <1>1, <1>2, <1>3, <1>4, <1>6, ListsMapped, CoarseRunning
     DEF Controller!internal_message_received, Controller!listVars
<1> QED
  BY <1>8 DEF Controller!Next

(* What the sessions do not notice. *)
LEMMA UnnoticedMaps ==
    ASSUME IInv, Unnoticed(Self) PROVE UNCHANGED ControllerVars
<1>1. /\ status[Self] = "running" /\ status'[Self] # "check_scontroller_handle"
      /\ UNCHANGED <<state, sent, received, notified, listVars>>
  BY SelfAssumption DEF Unnoticed, sessionVars, IInv, TypeOK
<1>2. Progress' = Progress /\ Received' = Received /\ Notified' = Notified
  BY <1>1 DEF Progress, Received, Notified
<1> QED
  BY <1>1, <1>2, ListsMapped, CoarseRunning DEF ControllerVars

(* A text that a session sends. *)
LEMMA SendMaps ==
    ASSUME IInv, ListsInv, NEW s \in ConnIds, NEW t \in Texts,
           session_controller_session_send_message(Self, s, t)
    PROVE  Controller!Next
<1>1. /\ status[Self] = "running" /\ handle[Self] /\ s \in ToSet(session_list[Self])
      /\ Reached(Self, s) # {} /\ Reached(Self, s) \subseteq Of(Self, s)
      /\ Reached(Self, s) \in SUBSET ConnIds
      /\ \A c \in Of(Self, s) : <<Self, c, t>> \notin sent
      /\ sent' = sent \cup {<<Self, c, t>> : c \in Reached(Self, s)}
      /\ UNCHANGED <<state, status, received, notified, listVars>>
  BY SendEffect, SelfAssumption DEF connVars, sessionVars
<1>2. Progress' = Progress /\ Received' = Received /\ Notified' = Notified
  BY <1>1 DEF Progress, Received, Notified
<1>3. s \in Existing
  BY <1>1, SelfAssumption DEF ListsInv, ControllerInv, Existing
<1>4. <<s, t>> \notin Tried
  <2> SUFFICES ASSUME <<s, t>> \in Tried PROVE FALSE
    OBVIOUS
  <2>1. PICK x \in sent : x[1] = Self /\ x[2] \in Of(Self, s) /\ x[3] = t
    BY TriedInSession
  <2>2. x \in Nodes \X ConnIds \X Texts
    BY DEF IInv, TypeOK
  <2>3. x = <<Self, x[2], t>>
    BY <2>1, <2>2
  <2> QED
    BY <1>1, <2>1, <2>3
<1>5. SentIn(Self)' = SentIn(Self) \cup {<<s, c, t>> : c \in Reached(Self, s)}
  <2>1. \A c : SessionOf(Self, c)' = SessionOf(Self, c)
    BY <1>1 DEF listVars, SessionOf, Of
  <2>2. \A c \in Reached(Self, s) : SessionOf(Self, c) = {s}
    BY <1>1, SelfAssumption DEF ListsInv, MembersInv
  <2>3. {y \in sent' : y[1] = Self} =
            {y \in sent : y[1] = Self} \cup {<<Self, c, t>> : c \in Reached(Self, s)}
    BY <1>1
  <2>4. SentIn(Self)' =
            UNION {{<<q, x[2], x[3]>> : q \in SessionOf(Self, x[2])} :
                x \in {y \in sent' : y[1] = Self}}
    BY <2>1 DEF SentIn
  <2>5. UNION {{<<q, x[2], x[3]>> : q \in SessionOf(Self, x[2])} :
            x \in {<<Self, c, t>> : c \in Reached(Self, s)}} =
            {<<s, c, t>> : c \in Reached(Self, s)}
    <3> DEFINE P(x) == {<<q, x[2], x[3]>> : q \in SessionOf(Self, x[2])}
    <3>1. \A c \in Reached(Self, s) : P(<<Self, c, t>>) = {<<s, c, t>>}
      BY <2>2
    <3> HIDE DEF P
    <3>2. UNION {P(x) : x \in {<<Self, c, t>> : c \in Reached(Self, s)}} =
              UNION {P(<<Self, c, t>>) : c \in Reached(Self, s)}
      OBVIOUS
    <3>3. UNION {P(<<Self, c, t>>) : c \in Reached(Self, s)} = {<<s, c, t>> : c \in Reached(Self, s)}
      BY <3>1
    <3>4. UNION {P(x) : x \in {<<Self, c, t>> : c \in Reached(Self, s)}} =
              {<<s, c, t>> : c \in Reached(Self, s)}
      BY <3>2, <3>3
    <3> QED
      BY <3>4 DEF P
  <2> QED
    BY <2>3, <2>4, <2>5 DEF SentIn
<1>6. Tried' = Tried \cup {<<s, t>>}
  <2>1. Tried' = {<<x[1], x[3]>> : x \in SentIn(Self)'}
    BY DEF Tried
  <2>2. {<<x[1], x[3]>> : x \in {<<s, c, t>> : c \in Reached(Self, s)}} = {<<s, t>>}
    <3>1. \A c : <<s, c, t>>[1] = s /\ <<s, c, t>>[3] = t
      OBVIOUS
    <3>2. ASSUME NEW z
          PROVE  z \in {<<x[1], x[3]>> : x \in {<<s, c, t>> : c \in Reached(Self, s)}} <=>
                     z = <<s, t>>
      BY <1>1, <3>1
    <3> QED
      BY <3>2
  <2>3. ASSUME NEW z PROVE z \in Tried' <=> z \in Tried \/ z = <<s, t>>
    BY <1>5, <2>1, <2>2 DEF Tried
  <2> QED
    BY <2>3
<1>7. Reached(Self, s) =
          {connection_request_list[Self][s][i] : i \in Controller!Reached(s, {})}
  <2>1. connection_request_list[Self][s] \in Seq(ConnIds)
    BY SelfAssumption DEF ListsInv, ListsTypeOK
  <2>2. ASSUME NEW c \in ConnIds PROVE Complete(Self, c) <=> Controller!Complete(c)
    BY CoarseValues DEF Complete, Controller!Complete, Progress, Coarse
  <2>3. ASSUME NEW k \in DOMAIN connection_request_list[Self][s]
        PROVE  /\ 1..k \subseteq DOMAIN connection_request_list[Self][s]
               /\ \A j \in 1..k : connection_request_list[Self][s][j] \in ConnIds
    BY <2>1
  <2> QED
    BY <2>2, <2>3 DEF Reached, Controller!Reached
<1>8. Controller!session_controller_session_send_message(s, t)
  <2>1. SentIn(Self)' = SentIn(Self) \cup
            {<<s, connection_request_list[Self][s][i], t>> : i \in Controller!Reached(s, {})}
    BY <1>5, <1>7
  <2>2. {} \in SUBSET {d \in Controller!Of(s) : Controller!Freed(d)}
    OBVIOUS
  <2> QED
    BY <1>1, <1>2, <1>3, <1>4, <1>6, <2>1, <2>2, ListsMapped, CoarseRunning
       DEF Controller!session_controller_session_send_message, Controller!listVars
<1> QED
  BY <1>8 DEF Controller!Next

(* The controller is destroyed, or made again. *)
LEMMA ControllerMaps ==
    ASSUME IInv, ListsInv, session_controller_destroy(Self) \/ session_controller_create(Self)
    PROVE  Controller!Next
<1>1. /\ status[Self] = "running" /\ status' = status
      /\ UNCHANGED <<state, sent, received, notified, connection_request_list>>
  BY DEF session_controller_destroy, session_controller_create, Idle, connectionVars, vars,
     connVars, noteVars
<1>2. Progress' = Progress /\ Received' = Received /\ Notified' = Notified
  BY <1>1 DEF Progress, Received, Notified
<1>3. /\ SentIn(Self)' = SentIn(Self) /\ Tried' = Tried
      /\ \A s : Of(Self, s)' = Of(Self, s)
  BY <1>1, SentInKept, SessionsKept
<1>4. CASE session_controller_destroy(Self)
  <2>1. /\ handle[Self] /\ ~handle'[Self] /\ handle'[Self] = FALSE
        /\ session_list'[Self] = <<>>
        /\ destroyed'[Self] = destroyed[Self] \cup ToSet(session_list[Self])
    BY <1>4, SelfAssumption DEF session_controller_destroy, ListsInv, ListsTypeOK
  <2>2. Existing' = Existing \ Controller!ToSet(session_list[Self])
    BY <1>3, <2>1 DEF Existing, ToSet, Controller!ToSet
  <2>3. Controller!session_controller_destroy
    BY <1>1, <1>2, <1>3, <2>1, <2>2, CoarseRunning
       DEF Controller!session_controller_destroy, Controller!noteVars
  <2> QED
    BY <2>3 DEF Controller!Next
<1>5. CASE session_controller_create(Self)
  <2>1. /\ ~handle[Self] /\ handle'[Self] = TRUE
        /\ session_list'[Self] = session_list[Self] /\ session_list[Self] = <<>>
        /\ destroyed'[Self] = destroyed[Self]
    BY <1>5, SelfAssumption DEF session_controller_create, ListsInv, ListsTypeOK, ControllerInv
  <2>2. Existing' = Existing
    BY <1>3, <2>1 DEF Existing
  <2>3. Controller!session_controller_create
    BY <1>1, <1>2, <1>3, <2>1, <2>2, CoarseRunning
       DEF Controller!session_controller_create, Controller!noteVars
  <2> QED
    BY <2>3 DEF Controller!Next
<1> QED
  BY <1>4, <1>5
-----------------------------------------------------------------------------
LEMMA SystemInitMaps == SystemInit => Controller!Init
<1> SUFFICES ASSUME SystemInit PROVE Controller!Init
  OBVIOUS
<1>1. Progress = [c \in ConnIds |-> "NONE"]
  BY SelfAssumption, CoarseValues DEF SystemInit, Init, Progress
<1>2. /\ session_list[Self] = <<>> /\ connection_request_list[Self] = [s \in ConnIds |-> <<>>]
      /\ handle[Self] = TRUE
  BY SelfAssumption DEF SystemInit
<1>3. Existing = {}
  BY <1>2, EmptyList DEF Existing, Of
<1>4. CoarseStatus(status[Self]) = "running"
  BY SelfAssumption, CoarseRunning DEF SystemInit, Init
<1>5. SentIn(Self) = {} /\ Tried = {} /\ Received = {} /\ Notified = {}
  <2>1. SentIn(Self) = {}
    BY DEF SystemInit, Init, SentIn
  <2> QED
    BY <2>1 DEF SystemInit, Init, Tried, Received, Notified
<1> QED
  BY <1>1, <1>2, <1>3, <1>4, <1>5 DEF Controller!Init

LEMMA SystemStepMaps ==
    SystemInv /\ [SystemNext]_systemVars => [Controller!Next]_(Controller!vars)
<1> SUFFICES ASSUME SystemInv, [SystemNext]_systemVars
             PROVE  Controller!Next \/ UNCHANGED ControllerVars
  BY DEF ControllerVars, Controller!vars
<1>1. IInv /\ ListsInv
  BY DEF SystemInv, IInv
<1>2. ASSUME NEW n \in Nodes, NodeNext(n), n # Self PROVE UNCHANGED ControllerVars
  BY <1>1, <1>2, StepKinds, Elsewhere
<1>3. ASSUME NodeNext(Self) PROVE Controller!Next \/ UNCHANGED ControllerVars
  <2>1. Kinds(Self)
    BY <1>1, <1>3, StepKinds, SelfAssumption
  <2> QED
    BY <1>1, <2>1, OpenedMaps, AcceptedMaps, ProceededMaps, HeardMaps, UnnoticedMaps, SendMaps,
       ControllerMaps DEF Kinds
<1>4. CASE UNCHANGED systemVars
  <2>1. UNCHANGED <<state, status, sent, received, notified, listVars>>
    BY <1>4 DEF systemVars, connectionVars, sessionVars, vars, connVars, noteVars
  <2>2. Progress' = Progress /\ Received' = Received /\ Notified' = Notified
    BY <2>1 DEF Progress, Received, Notified
  <2> QED
    BY <1>1, <2>1, <2>2, ListsMapped DEF ControllerVars
<1> QED
  BY <1>2, <1>3, <1>4 DEF SystemNext

(* Whatever the other nodes and the network do, the session controller of a node
   (session_controller.c, session.c) goes through the steps of SessionController:
   what is proved there on an assumed connection controller holds of the sessions
   over the real one. *)
THEOREM SystemImplementsSessionController == SystemSpec => ImplementsSessionController
<1>1. SystemSpec => []SystemInv
  BY SystemInvariant
<1> QED
  BY <1>1, SystemInitMaps, SystemStepMaps, PTL
     DEF SystemSpec, ImplementsSessionController, Controller!Spec
-----------------------------------------------------------------------------
(* What the session controllers have from SessionController's theorems. *)

Proved == INSTANCE SessionController_proofs WITH
    Sessions <- ConnIds,
    Texts <- Texts \cup {Garbled},
    state <- Progress,
    session_list <- session_list[Self],
    connection_request_list <- connection_request_list[Self],
    existing <- Existing,
    handle <- handle[Self],
    status <- CoarseStatus(status[Self]),
    sent <- SentIn(Self),
    tried <- Tried,
    received <- Received,
    notified <- Notified

(* The two instances have the same definitions. *)
LEMMA SameSpecification ==
    /\ Controller!Init <=> Proved!Init
    /\ Controller!Next <=> Proved!Next
    /\ UNCHANGED Controller!vars <=> UNCHANGED Proved!vars
<1>1. \A s, c : Controller!session_remove_connection(s, c) <=>
                    Proved!session_remove_connection(s, c)
  BY DEF Controller!session_remove_connection, Proved!session_remove_connection,
         Controller!Of, Proved!Of, Controller!ToSet, Proved!ToSet,
         Controller!noteVars, Proved!noteVars,
         Controller!RemoveFirst, Proved!RemoveFirst, Controller!RemoveAt, Proved!RemoveAt,
         Controller!SelectInSeq, Proved!SelectInSeq, Controller!Min, Proved!Min
<1>2. \A s : Controller!session_controller_remove_session(s) <=>
                 Proved!session_controller_remove_session(s)
  BY DEF Controller!session_controller_remove_session, Proved!session_controller_remove_session,
         Controller!Contains, Proved!Contains, Controller!noteVars, Proved!noteVars,
         Controller!RemoveFirst, Proved!RemoveFirst, Controller!RemoveAt, Proved!RemoveAt,
         Controller!SelectInSeq, Proved!SelectInSeq, Controller!Min, Proved!Min
<1> QED
  BY <1>1, <1>2
     DEF Controller!Init, Proved!Init, Controller!Next, Proved!Next,
         Controller!vars, Proved!vars, Controller!listVars, Proved!listVars,
         Controller!noteVars, Proved!noteVars,
         Controller!Of, Proved!Of, Controller!ToSet, Proved!ToSet,
         Controller!Contains, Proved!Contains, Controller!Complete, Proved!Complete,
         Controller!Freed, Proved!Freed, Controller!Reached, Proved!Reached,
         Controller!Fresh, Proved!Fresh, Controller!NewConnection, Proved!NewConnection,
         Controller!session_add_connection, Proved!session_add_connection,
         Controller!FoundIn, Proved!FoundIn, Controller!Notifications, Proved!Notifications,
         Controller!session_controller_session_create, Proved!session_controller_session_create,
         Controller!session_controller_session_add_peer,
         Proved!session_controller_session_add_peer,
         Controller!internal_incoming, Proved!internal_incoming,
         Controller!internal_completed, Proved!internal_completed,
         Controller!internal_message_received, Proved!internal_message_received,
         Controller!session_controller_session_send_message,
         Proved!session_controller_session_send_message,
         Controller!session_destroy, Proved!session_destroy,
         Controller!connection_controller_remove_connection_request,
         Proved!connection_controller_remove_connection_request,
         Controller!session_controller_destroy, Proved!session_controller_destroy,
         Controller!session_controller_create, Proved!session_controller_create

LEMMA SystemProved == SystemSpec => Proved!Spec
<1>1. SystemInit => Proved!Init
  BY SystemInitMaps, SameSpecification
<1>2. SystemInv /\ [SystemNext]_systemVars => [Proved!Next]_(Proved!vars)
  BY SystemStepMaps, SameSpecification
<1> QED
  BY <1>1, <1>2, SystemInvariant, PTL DEF SystemSpec, Proved!Spec

(* On every node, with all the other nodes and the network below, a session is in
   its controller's list once, and each of its connections is in no other session and
   there once: adding a peer or accepting a connection (session_controller.c:119 and
   :140) never shares one. *)
THEOREM SystemOneSessionEach == SystemSpec => []Controller!OneSessionEach
<1>1. Proved!OneSessionEach <=> Controller!OneSessionEach
  BY DEF Controller!OneSessionEach, Proved!OneSessionEach, Controller!Of, Proved!Of,
         Controller!ToSet, Proved!ToSet, Controller!IsInjective, Proved!IsInjective
<1> QED
  BY <1>1, SystemProved, Proved!OneSessionEachHolds, PTL

(* Whatever the handshakes below do, a peer of a session has each text that a peer
   who joined after it was sent (session_controller.c:185-204). *)
THEOREM SystemServedInOrder == SystemSpec => []Controller!ServedInOrder
<1>1. Proved!ServedInOrder <=> Controller!ServedInOrder
  BY DEF Controller!ServedInOrder, Proved!ServedInOrder
<1> QED
  BY <1>1, SystemProved, Proved!ServedInOrderHolds, PTL

(* A text that the connection controller of a node passes up is notified to the
   session of its connection, if that is still listed, and to no other that keeps no
   freed request (session_controller.c:25-54). *)
THEOREM SystemRightSession == SystemSpec => Controller!RightSession
BY SystemProved, Proved!RightSessionHolds, PTL
   DEF Controller!RightSession, Proved!RightSession, Controller!Of, Proved!Of,
       Controller!HasFreed, Proved!HasFreed, Controller!Freed, Proved!Freed,
       Controller!ToSet, Proved!ToSet, Controller!Contains, Proved!Contains,
       Controller!vars, Proved!vars

(* A peer that a text of a session was sent to is sent all later ones, whichever peers
   are added and however far their handshakes are (session_controller.c:188). *)
THEOREM SystemNoGaps == SystemSpec => Controller!NoGaps
BY SystemProved, Proved!NoGapsHolds, PTL
   DEF Controller!NoGaps, Proved!NoGaps, Controller!Of, Proved!Of,
       Controller!HasFreed, Proved!HasFreed, Controller!Freed, Proved!Freed,
       Controller!ToSet, Proved!ToSet, Controller!vars, Proved!vars
=============================================================================
