# A TLA+ verification of whisper-core

whisper-core is a C library for chat between the nodes of one network. Nodes find
each other by UDP broadcast (*discovery*), remember each other (*peerstore*), open
TCP connections with a four-message handshake that ends in a shared DES key
(*connection controller*), and group connections into *sessions* for the
application. This directory holds TLA+ models of those parts, TLC runs over small
instances, and theorems that the TLAPS proof system checks for all instances.
Paths below are relative to the repository; `src/net/...` is the library's code.

## 1. The system

| Component | State it keeps | Operations |
|---|---|---|
| Discovery service (`src/net/discovery.c`) | `isrunning`, sockets, listening and update thread, `last_updated` under `update_time_lock` | create, start, stop, cleanup, the listener's LIST/PEER/STOP handling |
| Discovery strategies (`src/net/discovery.c`) | the update thread's `next_update` | ask once, the polling and the broadcast loop; who counts as active |
| Peerstore (`src/data/peerstore.c`) | guid → peer record, user name → guid string, `last_update`, all under `store_lock` | store (with reconnection and unique names), lookup by guid or name (both drop an inactive peer), set update time, destroy |
| Peer (`src/data/peer.c`) | a record; protobuf packing | pure |
| Connection controller (`src/net/connection_controller.c`) | list of connection requests, the mux, four callbacks | initiation request, tick (emit, pop, process), send, remove, destroy |
| Connection request (`src/net/connection_request.c`) | id, peers, keypair, shared secret, state | builds the messages of each state |
| Cryptography, encoding (`src/crypto`, `src/integrity`) | none | RSA, DES-CFB, PEM, Base64, random secret |
| Session controller, session (`src/session`) | list of sessions, each with its connections; a global handle for the callbacks | create, add peer, incoming, send, ready?, remove, destroy |
| Utilities, generated protobuf code, plug-in header | none | printing; generated; not compiled in |

**Who runs and who calls whom.** One application thread calls the session
controller, which calls the connection controller; `connection_controller_tick`
calls back (`ic`, `nc`, `cmr`) into the session controller, and that into the
application. Two discovery threads run beside it: the listener stores the peers it
hears of and answers LIST, the update thread sends LIST or PEER. They meet the
application thread in the peerstore (`store_lock`), in the time of the last update
(`update_time_lock` → `store_lock`), and in `isrunning`, which is not locked. Nodes
meet in UDP datagrams and in TCP messages; the mux library `whisper_protocol` queues
messages on both sides.

**What is hard here.**
- Two nodes' handshakes interleave, and a text can overtake the handshake message
  before it. The processor sets a connection's state without looking at the old one,
  so that only the order of messages keeps it going forward.
- Nothing is retried: one lost message strands a handshake, and the rest must remain
  consistent. A removal is told to nobody.
- The peerstore returns pointers into itself and frees records under them; it keeps
  pointers to guid strings that it has freed.
- Stop has to end two threads, one asleep and one in a blocking receive, and free
  what they use only then.
- Whether a peer counts as active depends on when two nodes, each with its own loop,
  interval and delays, sent and handled what.
- Sessions hold raw pointers to connection requests that belong to the controller,
  which frees them without looking whether a session still walks them.
- A session sends to its peers one by one and stops at the first that is not ready.

`PROJECT.json` lists each hazard at its line, with the properties aimed at it.

**What makes each component correct**, in one sentence: *connection controller* –
both ends hold the same key, the initiator is complete last, nothing goes backward,
every text comes from the other end; *peerstore* – each stored peer is found under
its own name and lives until it is silent, replaced or the store ends; *sessions* –
each connection is in one session, the texts that come in reach that session, and
those that go out reach its peers in the order in which they joined, without gaps;
*discovery* – no lock is orphaned, nothing is freed in use, a stop returns, and a peer
counts as active while it runs and no longer once it has long been silent.

## 2. The modules

| Module | Models | Lines up with the code as |
|---|---|---|
| `Cryptography` | `cryptography.c`, `encoding.c` | each function is a term constructor or its inverse; a ciphertext cut by `strlen` is a term of its own |
| `ConnectionController` | `connection_controller.c`, `connection_request.c`, the mux | all nodes at once; one action per API call; a tick is two actions, `wpprotocol_mux_tick` (emits) and `wpprotocol_mux_pop` (processes), with a disjunct per `switch` case and per exit |
| `SecureChannel` | nothing: the abstract specification | offer, accept, confirm, send, receive; `ConnectionController` implements it (`ImplementsSecureChannel`) |
| `SessionController` | `session_controller.c`, `session.c` | one node; one action per function and callback; the connection controller only as an interface |
| `SessionSystem` | the session controllers of all nodes over `ConnectionController` | one action is a step of the connection controller with what its callback (`ic`, `nc`, `cmr`) does to the sessions |
| `NodeSessions` | the session controller of one node, `Self`, of `SessionSystem` | maps that node's part to the variables of `SessionController`, which it implements (`ImplementsSessionController`) |
| `Peerstore` | `peerstore.c`, the two `is_active_peer` strategies | one action per function, as each holds `store_lock` throughout; guid strings have heap addresses that `free` and `malloc` recycle |
| `DiscoveryService` | `discovery.c` | three threads with program counters; `safely_update_last_update_time` is split at each write; cancellation, joins, sockets, datagrams |
| `DiscoveryUpdates` | `discovery.c` by the clock, all nodes at once | start, first requests, each turn of the polling and broadcast loops, handling of LIST and PEER, stop; `is_active_peer` of the strategies |
| `MC…` | – | values and symmetries for TLC |
| `…_proofs` | – | the theorems of section 5 |

The map in `PROJECT.json` gives the lines of every definition. Definitions keep the
code's names. Operators called *mutant* are altered forms of the definition that
follows them; no specification uses them; each makes one property fail.

**Abstractions.** A node stands for its peer guid; guids, user names, hosts and texts
are model values. In `ConnectionController` the mux queues are sets, so messages
arrive in any order; they are never duplicated, as they travel over TCP. Its
peerstore never expires a peer (`always_active`, `ask_once`): expiry is `Peerstore`'s
subject. Where the C code has undefined behaviour – it reads a freed string –
`Peerstore` allows the old value, another, or reuse of the address; freeing twice ends
the process, as glibc does. Intervals have the width they are doubled in (`uint32`).
`SessionController` assumes of the application only that it destroys a session once
that is out of the list, as the integration tests do. It may remove a connection at any
time, as `connection_controller.c:271-282` lets it: a session that still has the request
then walks a freed one. That reads as any request, as complete or not, and sending on it
may end the process; `sent` says on which connection of the session a text was sent, and
leaves open where one that was sent on a freed request went. `SessionSystem` names a session by its first connection and leaves removal one by one to
`SessionController`; session controllers are destroyed and created there.

Discovery has two models of the same code. `DiscoveryService` is one node's threads
with each statement that can interleave, and leaves open when a sleep ends.
`DiscoveryUpdates` is several nodes with a clock in seconds; there a node's two
sleeping threads share a timer, since at most one of them has a sleep to end, a packet
is sent and its time noted at once, and the listener is what handles a datagram. Main's
last step creates the update thread, has it read the time of the last update
(`discovery.c:206`) and take its first turn; a stop before that turn exists only in
`DiscoveryService`. A
thread is at most `MaxLate` late, a datagram at most `MaxDelay` under way, and it is
lost only if its recipient is down. `PTHREAD_CANCEL_ASYNCHRONOUS`, which the
loops pass as a *state*, has the value of `PTHREAD_CANCEL_DISABLE` in glibc; so
`pthread_cancel` has no effect, and stop waits for the loop to see `isrunning`.

## 3. The runs

`tlc -config X.cfg MCModule.tla` (`NodeSessions.tla` for `sessions_ready`). Passing runs:

| Run | Instance | Shows |
|---|---|---|
| `concurrent` | `SessionSystem`: 2 nodes that know each other, 2 connections in one session or two, 2 secrets, 1 text | keys agree, all under way is decryptable, texts come from the other end and stay in their session, whoever opens first and however both interleave; the inductive invariant |
| `unreliable` | 2 nodes, 1 connection, a text, lost sends, removals | the initiator completes last; a process ends only for the three listed reasons; no connection goes back or changes its secret; the inductive invariant; refinement of `SecureChannel` |
| `sessions_ready` | `NodeSessions`: 2 nodes, 1 connection, a text, no loss, session controllers destroyed and created | a requested handshake completes, sessions become ready and texts, whole or cut short, reach the other application, unless a process ends or a session is destroyed; why a process ends; the inductive invariant; refinement of `SessionController` by one node |
| `peerstore_names` | 2 peers whose guids begin alike, names bob and bobby, 2 hosts, 4 addresses | every stored peer with a name of its own is found, whatever is freed and reused |
| `peerstore_expiry` | 3 peers of one name, 2 hosts, 4 addresses, time 0..3, interval 1, for one peer 2 in a width of 4 | the inductive invariant; a record is freed for the known reasons only |
| `session_sessions` | 2 sessions, 2 connections, 2 texts | one session per connection; the right session notified, or one that kept a freed request; peers served in the order they joined, and no gaps later |
| `discovery_threads` | 2 starts, 1 initial LIST, socket of 2, time 1..3, any strategy, no loss | locks, lifetimes, update times; the inductive invariant; a stop returns |
| `updates` | 2 nodes, any strategies, interval 2, lateness 1, no delay, 1 first request; stops and restarts | no sleep is negative; who runs counts as active, who is silent does not; the inductive invariants |

Violation runs, each a disagreement between the code and a text of the repository:

| Run | What the code does | What the text says |
|---|---|---|
| `notified` | a completion cut short by `strlen` sets the state and skips the callback | `connection_controller.h:15` |
| `peerstore_prefix` | bobby renamed to bob stays bobby | `peerstore.c:99` |
| `peerstore_gone` | two lookups of a peer that is gone free one string twice | `test_peerstore.c:102` |
| `session_notified` | a text is notified for connections it did not come from | `session_controller.c:29` |

**Why the bounds are enough.** Every handshake has two ends, and connections meet
only in the list search and in the mux: two nodes with two connections give every
pair of interleaved handshakes, from one side or both. Two secrets tell a wrong key
from the right one. In `concurrent` connections are opened once both nodes have found
each other (`CONSTRAINT Discovered`); `unreliable` and `sessions_ready` also open them
before. In the peerstore the shortest stories – clash, reconnection, rename, expiry –
take two peers and two hosts, and three peers make a reconnection meet a clash; an
operation allocates at most two strings, so that four addresses leave malloc a choice,
and two force the reuse that `peerstore_gone` is about. With interval 1, a peer heard
of at 0 is still there after exactly two intervals, at 2, and expires at 3, the last
second of the run; the peer whose interval is 2 in a width of 4 stands for those whose
doubled interval wraps, to 0. Two sessions leave a
connection a wrong one, two connections in one session an order, and the second of two
texts a gap; longer sessions are left to the theorems. Two starts are a restart; a socket of two datagrams can be empty,
full or between.

`updates` runs for as long as anything new happens. States that differ only in when
they happen, not in how long ago things happened, are one (`VIEW RelativeTime`); ages
are told apart up to `Horizon`, 8 seconds, and no property looks back further than 7;
`MaxTime`, 200, is never reached. A lateness of 1 under an interval of 2 is the most
that `TimingAssumption` admits there. The assumption fits the default interval of ten
seconds; the one second that `test_discovery.c:175` and `:182` set is shorter than the
three first requests, and nothing is claimed for it. That run has no delayed datagrams: `MaxDelay`
above 0 needs longer intervals and more first requests, and is left to the theorems.

The bound constants `Addrs`, `MaxTime`, `InboxSize`, `MaxStarts`, `MaxDelay` and
`MaxLate` are named as such in the modules; the theorems hold for all their values,
the last two within `TimingAssumption`.

**Deadlock** is not checked where the system may stop: a process that ended, a store
that was destroyed, a service that was cleaned up. It is checked in `updates`, where
a node can always start again.

## 4. Fairness

`SessionSystem!FairSystemSpec`: each node's tick, in both halves, is weakly fair.
The integration tests call it in a loop until the session is ready. Nothing is
assumed of the order of messages or of API calls, and nothing else is fair.

`DiscoveryService!FairSpec`: each thread goes on as long as it can. Calls of the
application, other nodes and the network are not fair. That the update thread wakes
up supposes that it never sleeps for a negative time, which `sleep` takes for a huge
one (`discovery.c:215`): `DiscoveryUpdates` shows that of threads that are late by less
than an interval (`SleepsEnd`). No fairness is needed for the lock: once `isrunning` is false, each
thread takes it at most once more.

## 5. The theorems

All are of the form `Spec => …` for every value of the constants under the named
assumptions, which TLC evaluates in the runs.

**`ConnectionController_proofs`** – any set of nodes, connection ids, secrets and
texts; with or without lost sends and removals. Assumes `ConstantsAssumption` (null
and garbled are not data) and `EncodingAssumption` (an encoded secret is not null).
`InductiveInvariant` proves `HandshakeInv`, from which `KeyAgreement`,
`CompletionOrder`, `DecryptableInFlight` and `ExitsExplained` follow; `TypeCorrectness`,
`NoRegression` and `MessageIntegrity` beside it. None of these is inductive alone: that the keys agree
when SHARING_SESSION_KEY arrives depends on what that message carries and for whom.
`HandshakeInv` therefore says, of each connection, where both ends can be, and of
each message under way, what its recipient must hold and be waiting for; and that a
connection has at most one handshake message under way, so that no handler runs
twice.

**`SecureChannel_proofs`** – the same controllers, the same assumptions.
`ChannelImplemented` proves the refinement of `SecureChannel`: initial states and
steps, with one lemma per action. Two facts carry it. A connection has at most one
SHARING_SESSION_KEY under way, so that there is one key on offer (`HandshakeInv`); and
when a key is proposed nobody was told of a completion, because the initiator of a
connection that somebody was told of is past its proposal and does not go back
(`ToldAfterShare`, with the lemmas of `NoRegression`).

**`Peerstore_proofs`** – any peers, names, hosts, intervals, width and heap, both kinds
of strategy, guids that begin alike or not. Assumes `PeerstoreAssumption`.
`StoreInvariant` proves `StoreInv`: the name of every stored peer, if it is its own,
leads to a live string with its guid; a suffix is made of the peer's guid; and the last
update is not in the future. A name is a peer's own if it was announced, or made with
four characters that no other guid begins with. The suffix is what makes it inductive:
when a name is taken, the name made from it is nobody else's. `StoredPeersFoundHolds`,
`RecordsKeptHolds` and `TypeCorrectness` follow.

**`SessionController_proofs`** – any sessions, connections and texts. `SessionInvariant`
proves `SessionInv`: types; that an existing session's connections are in no other
(`OneSessionEach`); that its peers were served in order (`ServedInOrder`); that texts
were sent on connections that were complete then, and are complete or freed now
(`SentOnComplete`); that what was notified was received before; and that sessions are
listed only while there is a controller. `ServedInOrder` is why the rest is there: a peer
that is added is not complete, so that nothing was sent to it, and it comes last.
`RightSessionHolds` and `NoGapsHolds` are about steps: the first needs that a connection
is found in one session, once; the second that all peers before one that a text was sent
to were sent it too, so that they are complete, and a send does not stop at them.

**`SessionSystem_proofs`** – the sessions of all nodes over their connections; any
nodes, ids, secrets and texts, controllers destroyed and created or not; the
assumptions of `ConnectionController`. `SystemInvariant` proves `SystemInv`. Its first
part is the invariant of the connections, which two steps that `ConnectionController`
lacks must keep as well: a text for every connection of a session up to one that is
not complete, and a connection that is accepted and then finds no controller. The lemmas
about sending and accepting are stated generally enough for both (`TextsSentInv`,
`AcceptedInv`). Its second part ties the lists together: a session's connections are
listed by the connection controller and in no other session (`MembersInv`); a controller
lists exactly the sessions that no earlier one took with it, and only a node whose
process that check ended has a connection in no session (`ControllerInv`); what was
sent or notified belongs to a session (`NotesInv`). The last is why texts stay in
their session: the sender's session is known from the connection it sent on only if
every connection has one at both ends. The steps of a node are first sorted by what
they do to the sessions (`StepKinds`), and the invariant is proved kind by kind.
`TextsStayInSessionHolds`, `SystemExitsExplainedHolds` and, for the composition,
`SystemKeyAgreement`, `SystemDecryptable`, `SystemMessageIntegrity` follow.

**`NodeSessions_proofs`** – `SystemImplementsSessionController` proves that the session
controller of `Self` refines `SessionController`, one lemma per kind of step; the only
assumption on `Self` is that it is a node, so the theorem is about all of them, while
the run looks at one. Every step of another node changes nothing (`Elsewhere`).
`SystemOneSessionEach`, `SystemServedInOrder`, `SystemRightSession` and `SystemNoGaps` carry the theorems of
`SessionController_proofs` over to the composition, as what was assumed of the connection
controller there is now proved of it.

**`DiscoveryService_proofs`** – any strategies and bounds, with or without loss.
Assumes `DiscoveryAssumption`. `LifeInvariant` proves `LifeInv`, which says where the
listener and the update thread can be by where main is, that the lock is held exactly
between the two writes, and that only then may the two times differ. Orphaned locks,
things freed in use and differing times are excluded from it by one step each.

**`DiscoveryUpdates_proofs`** – any number of nodes, strategies, intervals, delays and
lateness, under `UpdatesAssumption` and `TimingAssumption` (a thread and a question
with its answer are together late by less than an interval, and the first requests fit
into one). `UpdateInvariant` proves `UpdateInv`, which bounds each node's timer and
its last update from both sides: so no loop sleeps for a negative time
(`SleepsEndHolds`) and whoever is silent for long enough is dropped
(`SilentPeersInactiveHolds`). `LiveInvariant` proves `LiveInv`, on top of it: for each
pair of nodes that are up, a PEER recent enough was handled, or is under way, or its
LIST is. This is what links the turns of a loop to the last time another node heard of
its node, whoever started first; `LivePeersActiveHolds` follows.

**Only model-checked:** liveness (`HandshakeCompletes`, `SessionsBecomeReady`,
`TextsArrive`, `StopReturns`), since the prover handles neither fairness nor `ENABLED`.
Every invariant and every action property of the passing runs is proved. Induction over
data and `RECURSIVE` operators are out of the prover's reach as well; no module here
needs them.

**What proving changed.** The refinement proof asked for a step in which a text comes
in that had come in before: two texts cut short arrive as the same garbled one.
`SessionController` had excluded it with a guard that no code has; the guard is gone, and
its theorems hold without it. `ConnectionController`'s exits now include the check of
the callback `ic`, which ends the process just as its own checks do. `SessionController`
also let a connection be removed only when no session had it; the proof that a ready
session stays ready rested on that guard, which the code does not have either. Without
it, what can still be said of a send that stops halfway is that its session is served in
order and without gaps.

## 6. Not modelled

Generated protobuf code, printing and the interface enumeration (no state); the
plug-in header (no source includes it); bytes and lengths of ciphers, and guid
collisions; `handle_stop` and `peerstore_peer_no_longer_active`, which no code
reaches; misuse of the API such as stopping a service twice; announced user names that
are empty (`peer.c:76`) or look like names made unique (`peerstore.c:83`), and datagrams
that do not unpack (`discovery.c:94`).

Two things that the models show and no property forbids: as nothing orders messages, a
text may be delivered before the handshake is over at the end that receives it; and a
node under `ask_once` among nodes that broadcast is taken for inactive, as nobody asks
it (`LivePeersActive` says for whom that cannot happen).

## 7. Plan

Done, in this order: `ConnectionController` with `SecureChannel`; `Peerstore`,
`SessionController`, `DiscoveryService`; `DiscoveryUpdates` and `SessionSystem`; the
theorems about each of them, `SessionSystem` and its refinement last. What is left:

1. The lifetime of peers in `ConnectionController`: `Peerstore`'s expiry and reconnection
   together with the lookups of the emitter and the processor
   (`connection_controller.c:14`), which end the process when a peer has expired
   meanwhile.
2. `Peers`: `peers_compare`, empty user names and the round trip through protobuf;
   `strlen` and the lengths of `symmetrical_encrypt`, as operators checked over bounded
   inputs.
