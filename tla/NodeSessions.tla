----------------------------- MODULE NodeSessions -----------------------------
(***************************************************************************)
(* The session controller of one node of SessionSystem, as                 *)
(* SessionController describes it: the interface that is assumed there is  *)
(* the one that the connection controllers offer.                          *)
(***************************************************************************)
EXTENDS SessionSystem

CONSTANT Self  \* the node that is looked at

ASSUME SelfAssumption == Self \in Nodes

\* What is left of a connection's state, and of the reason for a process to end:
\* every other one lies below the sessions.
Coarse(s) == IF s \in {"NONE", "E_CRS_COMPLETE", "REMOVED"} THEN s ELSE "PENDING"
CoarseStatus(s) == IF s = "check_scontroller_handle" THEN s ELSE "running"

Progress == [c \in ConnIds |-> Coarse(state[Self][c])]

\* The sessions of Self, and what concerns it of what was sent, came in and was
\* notified.
Existing == {s \in ConnIds : Of(Self, s) # {}} \ destroyed[Self]
Tried == {<<x[1], x[3]>> : x \in SentIn(Self)}
Received == {<<x[2], x[3]>> : x \in {y \in received : y[1] = Self}}
Notified == {<<x[2], x[3], x[4], x[5]>> : x \in {y \in notified : y[1] = Self}}

Controller == INSTANCE SessionController WITH
    Sessions <- ConnIds,
    Texts <- Texts \cup {Garbled},
    state <- Progress,
    session_list <- session_list[Self],
    connection_request_list <- connection_request_list[Self],
    existing <- Existing,
    handle <- handle[Self],
    status <- CoarseStatus(status[Self]),
    sent <- SentIn(Self),
    tried <- Tried,
    received <- Received,
    notified <- Notified

\* Whatever the connection controllers do to each other, each session controller
\* finds the interface that SessionController assumes: every step of the system is
\* a step of it or changes nothing there.
ImplementsSessionController == Controller!Spec
===============================================================================
