-------------------------- MODULE SessionController --------------------------
(***************************************************************************)
(* The session controller of one node, src/session/session_controller.c,   *)
(* and its sessions, session.c: which connections belong to which session, *)
(* what a session sends, and whom the messages of a connection reach.      *)
(*                                                                         *)
(* Below it is the node's connection controller, which ConnectionController *)
(* models in full.  Here only its interface is left: a connection is        *)
(* requested or comes in, completes once and for all (NoRegression there), *)
(* delivers texts, also before it is complete, and is removed.             *)
(*                                                                         *)
(* A session holds pointers to requests that the connection controller owns *)
(* and frees: those it has removed are still walked.  Reading a freed one   *)
(* is undefined; it may read as any request, or as complete or not.        *)
(*                                                                         *)
(* The application destroys a session once it is out of the list, as the   *)
(* integration tests do.                                                   *)
(***************************************************************************)
EXTENDS Naturals, Sequences, SequencesExt

CONSTANTS
    Sessions,   \* the guids jnx_guid_create can give a session
    ConnIds,    \* the guids of the node's connections
    Texts       \* messages; each is sent once per session, and may come in again

VARIABLES
    state,                    \* state[c]: what the connection controller holds of c
    session_list,             \* the sessions in the controller's list
    connection_request_list,  \* connection_request_list[s]: the connections of session s
    existing,                 \* sessions created and not destroyed
    handle,                   \* is scontroller_handle set?
    status,                   \* "running", or what ended the process
    sent,                     \* <<s, c, t>>: session s had text t sent on its connection c
    tried,                    \* <<s, t>>: session_send_message(s, t) was called
    received,                 \* <<c, t>>: text t came in on connection c
    notified                  \* <<s, d, c, t>>: umn was called for session s and
                              \* connection d with the text t that came in on c

vars == <<state, session_list, connection_request_list, existing, handle, status,
          sent, tried, received, notified>>

listVars == <<session_list, connection_request_list, existing>>
noteVars == <<sent, tried, received, notified>>

\* The connections of a session, and whether each is complete.
Of(s) == ToSet(connection_request_list[s])
Complete(c) == state[c] = "E_CRS_COMPLETE"

\* A request that was freed, and a session that has one.
Freed(c) == state[c] = "REMOVED"
HasFreed(s) == \E c \in Of(s) : Freed(c)

\* A guid that no session ever had.
Fresh(s) == s \notin existing /\ connection_request_list[s] = <<>> /\ \A t \in Texts : <<s, t>> \notin tried
-----------------------------------------------------------------------------
\* session_controller_create has been called.
Init ==
    /\ state = [c \in ConnIds |-> "NONE"]
    /\ session_list = <<>>
    /\ connection_request_list = [s \in Sessions |-> <<>>]
    /\ existing = {}
    /\ handle = TRUE
    /\ status = "running"
    /\ sent = {} /\ tried = {} /\ received = {} /\ notified = {}

\* Mutant: the new connection is put before the others.
connection_added_first(s, c) ==
    connection_request_list' =
        [connection_request_list EXCEPT ![s] = <<c>> \o @]

session_add_connection(s, c) ==
    connection_request_list' =
        [connection_request_list EXCEPT ![s] = Append(@, c)]

\* A connection enters the connection controller's list, not yet complete.
NewConnection(c) ==
    /\ state[c] = "NONE"
    /\ state' = [state EXCEPT ![c] = "PENDING"]

session_controller_session_create(s, c) ==
    /\ status = "running" /\ handle
    /\ Fresh(s)
    /\ NewConnection(c)
    /\ session_add_connection(s, c)
    /\ existing' = existing \cup {s}
    /\ session_list' = Append(session_list, s)
    /\ UNCHANGED <<handle, status, noteVars>>

session_controller_session_add_peer(s, c) ==
    /\ status = "running" /\ handle
    /\ s \in existing
    /\ NewConnection(c)
    /\ session_add_connection(s, c)
    /\ UNCHANGED <<session_list, existing, handle, status, noteVars>>

\* Mutant: the session is added by the function that creates it, and again.
incoming_added_twice(s, c) ==
    /\ status = "running"
    /\ Fresh(s)
    /\ NewConnection(c)
    /\ handle
    /\ session_add_connection(s, c)
    /\ existing' = existing \cup {s}
    /\ session_list' = Append(Append(session_list, s), s)
    /\ UNCHANGED <<handle, status, noteVars>>

\* The connection controller's ic callback: a peer opened connection c.
internal_incoming(s, c) ==
    /\ status = "running"
    /\ Fresh(s)
    /\ NewConnection(c)
    /\ \/ /\ handle
          /\ session_add_connection(s, c)
          /\ existing' = existing \cup {s}
          /\ session_list' = Append(session_list, s)
          /\ UNCHANGED status
       \/ /\ ~handle
          /\ status' = "check_scontroller_handle"
          /\ UNCHANGED listVars
    /\ UNCHANGED <<handle, noteVars>>

\* The handshake of c ends; the nc callback only logs.
internal_completed(c) ==
    /\ status = "running"
    /\ state[c] = "PENDING"
    /\ state' = [state EXCEPT ![c] = "E_CRS_COMPLETE"]
    /\ UNCHANGED <<listVars, handle, status, noteVars>>

\* The notifications for a text that came in on c: once found, every later
\* connection of the session is taken for it too.  The requests in misread are
\* freed ones that read as c.
FoundIn(s, c, misread) ==
    {connection_request_list[s][j] : j \in
        {k \in DOMAIN connection_request_list[s] :
            \E i \in 1..k : connection_request_list[s][i] \in {c} \cup misread}}

\* Mutant: found is not reset for the next session either.
found_in_later_sessions(c, t, misread) ==
    UNION {{<<session_list[k], d, c, t>> : d \in Of(session_list[k])} : k \in
        {j \in DOMAIN session_list : \E i \in 1..j : c \in Of(session_list[i])}}

Notifications(c, t, misread) ==
    UNION {{<<s, d, c, t>> : d \in FoundIn(s, c, misread)} : s \in ToSet(session_list)}

\* The connection controller's cmr callback.
internal_message_received(c, t) ==
    /\ status = "running"
    /\ state[c] \in {"PENDING", "E_CRS_COMPLETE"}
    /\ received' = received \cup {<<c, t>>}
    /\ \/ /\ handle
          /\ \E misread \in SUBSET {d \in ConnIds : Freed(d)} :
                notified' = notified \cup Notifications(c, t, misread)
       \/ ~handle /\ UNCHANGED notified
    /\ UNCHANGED <<state, listVars, handle, status, sent, tried>>

\* Mutant: a connection that is not complete is passed over.
passed_over(s, misread) ==
    LET list == connection_request_list[s]
    IN  {i \in DOMAIN list : Complete(list[i]) \/ list[i] \in misread}

\* The positions of the session's list up to the first that is not complete;
\* the requests in misread are freed ones that read as complete.
Reached(s, misread) ==
    LET list == connection_request_list[s]
    IN  {i \in DOMAIN list : \A j \in 1..i : Complete(list[j]) \/ list[j] \in misread}

\* Sending on a freed request, with its keys and peers, may end the process; sent
\* records that it was tried on c, and leaves open where such a text goes.
session_controller_session_send_message(s, t) ==
    /\ status = "running" /\ handle
    /\ s \in existing
    /\ <<s, t>> \notin tried
    /\ tried' = tried \cup {<<s, t>>}
    /\ \E misread \in SUBSET {d \in Of(s) : Freed(d)} :
          LET list == connection_request_list[s]
              reached == Reached(s, misread)
          IN  \/ /\ sent' = sent \cup {<<s, list[i], t>> : i \in reached}
                 /\ UNCHANGED status
              \/ \E last \in reached :
                    /\ Freed(list[last])
                    /\ sent' = sent \cup {<<s, list[i], t>> : i \in reached \cap 1..last}
                    /\ status' = "freed_request"
    /\ UNCHANGED <<state, listVars, handle, received, notified>>

session_controller_remove_session(s) ==
    /\ status = "running" /\ handle
    /\ Contains(session_list, s)
    /\ session_list' = RemoveFirst(session_list, s)
    /\ UNCHANGED <<state, connection_request_list, existing, handle, status, noteVars>>

\* A freed request before c may read as c and go instead of it, which is this
\* action for that one.
session_remove_connection(s, c) ==
    /\ status = "running"
    /\ s \in existing /\ c \in Of(s)
    /\ connection_request_list' =
          [connection_request_list EXCEPT ![s] = RemoveFirst(@, c)]
    /\ UNCHANGED <<state, session_list, existing, handle, status, noteVars>>

session_destroy(s) ==
    /\ status = "running"
    /\ s \in existing /\ ~Contains(session_list, s)
    /\ existing' = existing \ {s}
    /\ UNCHANGED <<state, session_list, connection_request_list, handle, status, noteVars>>

\* The request is freed, whether or not a session still has it.
connection_controller_remove_connection_request(c) ==
    /\ status = "running"
    /\ state[c] \in {"PENDING", "E_CRS_COMPLETE"}
    /\ state' = [state EXCEPT ![c] = "REMOVED"]
    /\ UNCHANGED <<listVars, handle, status, noteVars>>

\* Mutant: the sessions are destroyed and the list of them is kept.
destroy_keeps_list ==
    /\ status = "running" /\ handle
    /\ existing' = existing \ ToSet(session_list)
    /\ handle' = FALSE
    /\ UNCHANGED <<state, session_list, connection_request_list, status, noteVars>>

\* Destroys the sessions still in the list; the callbacks stay installed.
session_controller_destroy ==
    /\ status = "running" /\ handle
    /\ existing' = existing \ ToSet(session_list)
    /\ session_list' = <<>>
    /\ handle' = FALSE
    /\ UNCHANGED <<state, connection_request_list, status, noteVars>>

\* A second controller after the first: it starts with no session.
session_controller_create ==
    /\ status = "running" /\ ~handle
    /\ session_list' = <<>>
    /\ handle' = TRUE
    /\ UNCHANGED <<state, connection_request_list, existing, status, noteVars>>

Next ==
    \/ \E s \in Sessions, c \in ConnIds :
          \/ session_controller_session_create(s, c)
          \/ session_controller_session_add_peer(s, c)
          \/ internal_incoming(s, c)
          \/ session_remove_connection(s, c)
    \/ \E s \in Sessions :
          \/ session_controller_remove_session(s)
          \/ session_destroy(s)
    \/ \E s \in Sessions, t \in Texts : session_controller_session_send_message(s, t)
    \/ \E c \in ConnIds :
          \/ internal_completed(c)
          \/ connection_controller_remove_connection_request(c)
    \/ \E c \in ConnIds, t \in Texts : internal_message_received(c, t)
    \/ session_controller_destroy
    \/ session_controller_create

Spec == Init /\ [][Next]_vars
-----------------------------------------------------------------------------
(* Properties.                                                             *)

States == {"NONE", "PENDING", "E_CRS_COMPLETE", "REMOVED"}

TypeOK ==
    /\ state \in [ConnIds -> States]
    /\ session_list \in Seq(Sessions) /\ ToSet(session_list) \subseteq existing
    /\ connection_request_list \in [Sessions -> Seq(ConnIds)]
    /\ existing \subseteq Sessions
    /\ handle \in BOOLEAN
    /\ status \in {"running", "check_scontroller_handle", "freed_request"}
    /\ sent \subseteq Sessions \X ConnIds \X Texts
    /\ tried \subseteq Sessions \X Texts
    /\ received \subseteq ConnIds \X Texts
    /\ notified \subseteq Sessions \X ConnIds \X ConnIds \X Texts

\* A session is in the list once; a connection that was opened for one session is
\* in no other and there once, so that no message has two sessions, and none is
\* sent twice to one peer.
OneSessionEach ==
    /\ IsInjective(session_list)
    /\ \A s \in existing :
          /\ IsInjective(connection_request_list[s])
          /\ \A c \in Of(s) : state[c] # "NONE"
          /\ \A other \in existing \ {s} : Of(s) \cap Of(other) = {}

\* Whoever is left in a session has had every text that was sent to a peer who
\* joined it later: a send that stops halfway leaves out the latest only, and no
\* connection that comes, completes or goes between two sends changes that.
ServedInOrder ==
    \A s \in existing : \A i \in DOMAIN connection_request_list[s], t \in Texts :
        <<s, connection_request_list[s][i], t>> \in sent =>
            \A j \in 1..i : <<s, connection_request_list[s][j], t>> \in sent

\* What the proofs need besides: a text was sent on connections that were complete,
\* and tried before; it was notified after it came in; and there are sessions in
\* the list only while there is a controller.
SentOnComplete ==
    \A x \in sent :
        state[x[2]] \in {"E_CRS_COMPLETE", "REMOVED"} /\ <<x[1], x[3]>> \in tried
NotifiedAfterReceipt == \A n \in notified : <<n[3], n[4]>> \in received
ListedUnderHandle == ~handle => session_list = <<>>

\* The inductive invariant.
SessionInv ==
    /\ TypeOK /\ OneSessionEach /\ ServedInOrder
    /\ SentOnComplete /\ NotifiedAfterReceipt /\ ListedUnderHandle

\* A text is notified to the session of its connection if that is still listed,
\* for connections of it.  It reaches another session only if that one has kept
\* a request that was freed.
RightSession ==
    [][\A c \in ConnIds, t \in Texts : <<c, t>> \in received' \ received =>
          /\ \A s \in ToSet(session_list) : c \in Of(s) => <<s, c, c, t>> \in notified'
          /\ \A s \in Sessions, d \in ConnIds :
                <<s, d, c, t>> \in notified' =>
                    /\ Contains(session_list, s) /\ d \in Of(s)
                    /\ c \in Of(s) \/ HasFreed(s)]_vars

\* A peer that one text of a session was sent to is sent all later ones as long as
\* it is in the session: a peer who is invited later, and is not complete, stops
\* none of them.  The session must not have kept a request that was freed.
NoGaps ==
    [][\A s \in Sessions, c \in ConnIds, t \in Texts :
          /\ <<s, t>> \in tried' \ tried
          /\ c \in Of(s) /\ \E u \in Texts : <<s, c, u>> \in sent
          /\ ~HasFreed(s)
          => <<s, c, t>> \in sent']_vars
-----------------------------------------------------------------------------
(* What a comment says and the code does not do.                           *)

\* The connection that umn is called for is the one the text came in on: "find
\* the associated session for this connection_request" (session_controller.c:29).
NotifiedForItsConnection == \A n \in notified : n[2] = n[3]
=============================================================================
