--------------------------- MODULE DiscoveryUpdates ---------------------------
(***************************************************************************)
(* The discovery services of a network and time, src/net/discovery.c: when *)
(* each node sends LIST and PEER, when the others hear it, and whom they    *)
(* take to be active.                                                      *)
(*                                                                         *)
(* DiscoveryService has the threads of one node in detail; here a node's    *)
(* main thread and its update thread, of which at most one has a sleep to   *)
(* end at a time, share one timer, and a packet is sent and its time noted  *)
(* in one step.  Time is that of time(0), in seconds.  A thread goes on at  *)
(* most MaxLate seconds after its sleep should end: time(0) drops fractions *)
(* and the scheduler has its say.  A datagram is handled at most MaxDelay   *)
(* seconds after it was sent, or was sent to a node that is down.           *)
(***************************************************************************)
EXTENDS Integers

CONSTANTS
    Nodes,
    Strategies,      \* those the applications start with: "ask_once", "polling", "broadcast"
    interval,        \* interval[n]: n's peer_update_interval, and the one it announces;
                     \* twice it fits its 32 bits (Peerstore has the one that does not)
    INITIAL_DISCOVERY_REQS,
    MaxDelay,        \* bound: on the way of a datagram
    MaxLate,         \* bound: on the lateness of a thread
    MaxTime          \* bound: the last value of time(0)

ASSUME UpdatesAssumption ==
    /\ Strategies \subseteq {"ask_once", "polling", "broadcast"}
    /\ interval \in [Nodes -> Nat]
    /\ INITIAL_DISCOVERY_REQS \in Nat
    /\ MaxDelay \in Nat /\ MaxLate \in Nat /\ MaxTime \in Nat \ {0}

\* A thread and a question with its answer are late by less than an interval in
\* all, the first requests take no longer than one, and the first is answered
\* before they end: so for the code's 10 seconds, 3 requests, and a second each.
ASSUME TimingAssumption ==
    /\ \A n \in Nodes :
          /\ MaxLate + 2 * MaxDelay < interval[n]
          /\ INITIAL_DISCOVERY_REQS * (MaxLate + 1) <= interval[n]
    /\ 2 * MaxDelay < INITIAL_DISCOVERY_REQS

VARIABLES
    phase,         \* phase[n]: what n's main thread is at
    strategy,      \* strategy[n]: that of the last start
    requests,      \* requests[n]: LIST packets initiate_discovery has yet to send
    thread,        \* thread[n]: is there an update thread, and does its sleep end?
    wake,          \* wake[n]: when the sleep of n's main or update thread should end
    next_update,   \* next_update[n]: the update thread's
    sent,          \* sent[n]: how many packets the update thread sent, counted up to two
    last_updated,  \* last_updated[n]: when n last sent PEER
    last_seen,     \* last_seen[n][m]: when n last handled a PEER of m; 0 for never
    network,       \* the datagrams under way
    now

vars == <<phase, strategy, requests, thread, wake, next_update, sent, last_updated, last_seen, network, now>>

loopVars == <<thread, wake, next_update, sent>>

Phases == {"down", "opening", "requesting", "running", "stopping", "deaf"}
Datagrams == [packet : {"LIST", "PEER"}, from : Nodes, to : Nodes, sent : 1..MaxTime]

\* In every phase but these two a listening thread takes datagrams.
Listening(n) == phase[n] \notin {"down", "deaf"}

\* A packet to the broadcast address reaches its sender too.  PEER makes it store
\* itself, which nobody asks about and is left out.  Equal datagrams of one second
\* count as one.
Copies(packet, n, others) ==
    {[packet |-> packet, from |-> n, to |-> m, sent |-> now] :
        m \in {x \in others : Listening(x) /\ (packet = "PEER" => x # n)}}

Send(n, packet) == network' = network \cup Copies(packet, n, Nodes)

\* The listening thread of n ends, with what it has not received.
StopListening(n) == network' = {d \in network : d.to # n}

Init ==
    /\ phase = [n \in Nodes |-> "down"]
    /\ strategy = [n \in Nodes |-> "none"]
    /\ requests = [n \in Nodes |-> 0]
    /\ thread = [n \in Nodes |-> "none"]
    /\ wake = [n \in Nodes |-> 0] /\ next_update = [n \in Nodes |-> 0]
    /\ sent = [n \in Nodes |-> 0]
    /\ last_updated = [n \in Nodes |-> 0]
    /\ last_seen = [n \in Nodes |-> [m \in Nodes |-> 0]]
    /\ network = {}
    /\ now = 1
-----------------------------------------------------------------------------
(* The update thread.                                                      *)

\* sleep(until - time(0)) takes an unsigned number: a negative one is for ever.
Sleep(n, until) ==
    /\ wake' = [wake EXCEPT ![n] = until]
    /\ thread' = [thread EXCEPT ![n] = IF until < now THEN "stuck" ELSE "asleep"]

CountSent(n) == sent' = [sent EXCEPT ![n] = IF @ = 2 THEN 2 ELSE @ + 1]

\* Mutant: next_update does not move on.
PollingTurn_stays(n, next) ==
    /\ \/ next <= now /\ Send(n, "LIST") /\ CountSent(n)
       \/ next > now /\ UNCHANGED <<network, sent>>
    /\ next_update' = [next_update EXCEPT ![n] = next]
    /\ Sleep(n, next)
    /\ UNCHANGED last_updated

\* One turn of the polling loop, with LIST if it is time.
PollingTurn(n, next) ==
    /\ \/ next <= now /\ Send(n, "LIST") /\ CountSent(n)
       \/ next > now /\ UNCHANGED <<network, sent>>
    /\ next_update' = [next_update EXCEPT ![n] = next + interval[n]]
    /\ Sleep(n, next + interval[n])
    /\ UNCHANGED last_updated

\* Mutant: the packet is sent and its time not noted.
BroadcastTurn_unrecorded(n, next) ==
    /\ Send(n, "PEER") /\ CountSent(n)
    /\ Sleep(n, next)
    /\ next_update' = [next_update EXCEPT ![n] = next + interval[n]]
    /\ UNCHANGED last_updated

\* One turn of the broadcast loop: send_peer_packet.
BroadcastTurn(n, next) ==
    /\ Send(n, "PEER") /\ CountSent(n)
    /\ last_updated' = [last_updated EXCEPT ![n] = now]
    /\ Sleep(n, next)
    /\ next_update' = [next_update EXCEPT ![n] = next + interval[n]]

\* The sleep of the update thread ends.
Awake(n) == thread[n] = "asleep" /\ now >= wake[n]

polling_update_loop(n) ==
    /\ phase[n] = "running" /\ strategy[n] = "polling" /\ Awake(n)
    /\ PollingTurn(n, next_update[n])
    /\ UNCHANGED <<phase, strategy, requests, last_seen, now>>

broadcast_update_loop(n) ==
    /\ phase[n] = "running" /\ strategy[n] = "broadcast" /\ Awake(n)
    /\ BroadcastTurn(n, next_update[n])
    /\ UNCHANGED <<phase, strategy, requests, last_seen, now>>

\* Either loop finds isrunning unset.
update_loop_returns(n) ==
    /\ phase[n] \in {"stopping", "deaf"} /\ Awake(n)
    /\ thread' = [thread EXCEPT ![n] = "none"]
    /\ UNCHANGED <<phase, strategy, requests, wake, next_update, sent, last_updated, last_seen, network, now>>
-----------------------------------------------------------------------------
(* The main thread.                                                        *)

\* The listening thread starts, and ensure_listening_on_port sleeps.
discovery_service_start(n) ==
    /\ phase[n] = "down"
    /\ phase' = [phase EXCEPT ![n] = "opening"]
    /\ \E s \in Strategies : strategy' = [strategy EXCEPT ![n] = s]
    /\ wake' = [wake EXCEPT ![n] = now + 1]
    /\ sent' = [sent EXCEPT ![n] = 0]
    /\ UNCHANGED <<requests, thread, next_update, last_updated, last_seen, network, now>>

\* Mutant: the node only asks and does not announce itself.
initiate_unannounced(n) ==
    /\ phase[n] = "opening" /\ now >= wake[n]
    /\ phase' = [phase EXCEPT ![n] = "requesting"]
    /\ last_updated' = [last_updated EXCEPT ![n] = now]
    /\ requests' = [requests EXCEPT ![n] = INITIAL_DISCOVERY_REQS]
    /\ UNCHANGED <<strategy, loopVars, last_seen, network, now>>

\* send_peer_packet, before the loop over the requests.
initiate_discovery(n) ==
    /\ phase[n] = "opening" /\ now >= wake[n]
    /\ phase' = [phase EXCEPT ![n] = "requesting"]
    /\ Send(n, "PEER")
    /\ last_updated' = [last_updated EXCEPT ![n] = now]
    /\ requests' = [requests EXCEPT ![n] = INITIAL_DISCOVERY_REQS]
    /\ UNCHANGED <<strategy, loopVars, last_seen, now>>

\* Mutant: one request too many.
request_once_more(n) ==
    /\ phase[n] = "requesting" /\ now >= wake[n]
    /\ Send(n, "LIST")
    /\ requests' = [requests EXCEPT ![n] = @ - 1]
    /\ wake' = [wake EXCEPT ![n] = now + 1]
    /\ UNCHANGED <<phase, strategy, thread, next_update, sent, last_updated, last_seen, now>>

\* One turn of that loop, and its second of sleep.
send_discovery_request(n) ==
    /\ phase[n] = "requesting" /\ requests[n] > 0 /\ now >= wake[n]
    /\ Send(n, "LIST")
    /\ requests' = [requests EXCEPT ![n] = @ - 1]
    /\ wake' = [wake EXCEPT ![n] = now + 1]
    /\ UNCHANGED <<phase, strategy, thread, next_update, sent, last_updated, last_seen, now>>

\* One LIST more, or the update thread and its first turn.  That the thread is
\* created, reads the time of the last update and has its first turn is one step
\* here; a stop before that turn exists in DiscoveryService only.
start_strategy(n) ==
    /\ phase[n] = "requesting" /\ requests[n] = 0 /\ now >= wake[n]
    /\ phase' = [phase EXCEPT ![n] = "running"]
    /\ \/ /\ strategy[n] = "ask_once"
          /\ Send(n, "LIST")
          /\ UNCHANGED <<loopVars, last_updated>>
       \/ /\ strategy[n] = "polling"
          /\ PollingTurn(n, last_updated[n] + interval[n])
       \/ /\ strategy[n] = "broadcast"
          /\ BroadcastTurn(n, now + interval[n])
    /\ UNCHANGED <<strategy, requests, last_seen, now>>

\* isrunning is unset; main waits for the update thread.
discovery_service_stop(n) ==
    /\ phase[n] = "running"
    /\ phase' = [phase EXCEPT ![n] = "stopping"]
    /\ UNCHANGED <<strategy, requests, loopVars, last_updated, last_seen, network, now>>

\* The update thread is joined; STOP, which the others ignore, ends the
\* listening thread, and the sockets go.
stop_returns(n) ==
    /\ phase[n] \in {"stopping", "deaf"} /\ thread[n] = "none"
    /\ phase' = [phase EXCEPT ![n] = "down"]
    /\ StopListening(n)
    /\ UNCHANGED <<strategy, requests, loopVars, last_updated, last_seen, now>>
-----------------------------------------------------------------------------
(* The listening thread.  Once isrunning is unset it handles one more        *)
(* datagram and ends.                                                      *)

\* What is under way without d, and with the answer of a node that was sent LIST.
Handled(d, answers) ==
    {x \in network \ {d} : phase[d.to] = "stopping" => x.to # d.to} \cup answers

AfterHandling(n) ==
    phase' = [phase EXCEPT ![n] = IF @ = "stopping" THEN "deaf" ELSE @]

\* Mutant: the answer is sent and its time not noted.
handle_list_unrecorded(d) ==
    /\ d.packet = "LIST" /\ Listening(d.to)
    /\ network' = Handled(d, Copies("PEER", d.to, Nodes))
    /\ AfterHandling(d.to)
    /\ UNCHANGED <<strategy, requests, loopVars, last_updated, last_seen, now>>

handle_list(d) ==
    /\ d.packet = "LIST" /\ Listening(d.to)
    /\ network' = Handled(d, Copies("PEER", d.to, Nodes))
    /\ last_updated' = [last_updated EXCEPT ![d.to] = now]
    /\ AfterHandling(d.to)
    /\ UNCHANGED <<strategy, requests, loopVars, last_seen, now>>

handle_peer(d) ==
    /\ d.packet = "PEER" /\ Listening(d.to)
    /\ network' = Handled(d, {})
    /\ last_seen' = [last_seen EXCEPT ![d.to][d.from] = now]
    /\ AfterHandling(d.to)
    /\ UNCHANGED <<strategy, requests, loopVars, last_updated, now>>

\* Does n wait for its timer?
Waiting(n) == phase[n] \in {"opening", "requesting"} \/ thread[n] = "asleep"

\* A second passes, unless something would be later than its bound.
Tick ==
    /\ now < MaxTime
    /\ \A n \in Nodes : Waiting(n) => now < wake[n] + MaxLate
    /\ \A d \in network : now < d.sent + MaxDelay
    /\ now' = now + 1
    /\ UNCHANGED <<phase, strategy, requests, loopVars, last_updated, last_seen, network>>

Next ==
    \/ \E n \in Nodes :
          \/ discovery_service_start(n) \/ initiate_discovery(n) \/ send_discovery_request(n)
          \/ start_strategy(n) \/ discovery_service_stop(n) \/ stop_returns(n)
          \/ polling_update_loop(n) \/ broadcast_update_loop(n) \/ update_loop_returns(n)
    \/ \E d \in network : handle_list(d) \/ handle_peer(d)
    \/ Tick

Spec == Init /\ [][Next]_vars
-----------------------------------------------------------------------------
(* Properties.                                                             *)

Running(n) == phase[n] = "running"

\* Mutant: one interval of silence is too many.
is_active_peer_once(n, m) ==
    strategy[n] = "ask_once" \/ last_seen[n][m] + interval[m] >= last_updated[n]

\* The strategy's is_active_peer, at n, of a peer in its store.
is_active_peer(n, m) ==
    strategy[n] = "ask_once" \/ last_seen[n][m] + 2 * interval[m] >= last_updated[n]

TypeOK ==
    /\ phase \in [Nodes -> Phases]
    /\ strategy \in [Nodes -> Strategies \cup {"none"}]
    /\ requests \in [Nodes -> 0..INITIAL_DISCOVERY_REQS]
    /\ thread \in [Nodes -> {"none", "asleep", "stuck"}]
    /\ wake \in [Nodes -> Int] /\ next_update \in [Nodes -> Int]
    /\ last_updated \in [Nodes -> 0..MaxTime]
    /\ last_seen \in [Nodes -> [Nodes -> 0..MaxTime]]
    /\ sent \in [Nodes -> 0..2]
    /\ network \subseteq Datagrams
    /\ now \in 1..MaxTime

\* No update thread sleeps for a negative time: it would not wake up again, its
\* node would fall silent, and a stop would not return.
SleepsEnd == \A n \in Nodes : thread[n] # "stuck"

\* Has n's loop come far enough for the others to rely on it?  The first turn of a
\* polling loop only sleeps, so that two intervals pass before its first packet;
\* with the second one, all that the first led to has arrived.
Settled(n) == Running(n) /\ strategy[n] # "ask_once" /\ sent[n] = 2

\* Does n ask for PEER packets as often as m promises them?
Asks(n, m) == strategy[n] = "polling" /\ Settled(n) /\ interval[n] <= interval[m]

\* Whoever runs is known to whoever runs; and active, if it sends updates itself
\* or the other asks for them.
LivePeersActive ==
    \A n \in Nodes : \A m \in Nodes \ {n} :
        Running(n) /\ Running(m) =>
            /\ last_seen[n][m] > 0
            /\ Settled(m) \/ Asks(n, m) => is_active_peer(n, m)

\* A peer that has been silent for long enough is not active.
SilentPeersInactive ==
    \A n \in Nodes : \A m \in Nodes \ {n} :
        /\ Settled(n)
        /\ now > last_updated[m] + 2 * interval[m] + interval[n] + MaxLate + 2 * MaxDelay
        => ~is_active_peer(n, m)

\* What makes SleepsEnd inductive: no timer is overdue, and each was set from the
\* time the update before was due.
Timely(n) ==
    /\ Waiting(n) => now <= wake[n] + MaxLate
    /\ last_updated[n] <= now
    /\ phase[n] = "opening" => wake[n] <= now + 1
    /\ phase[n] = "requesting" =>
          wake[n] <= last_updated[n] + (INITIAL_DISCOVERY_REQS - requests[n]) * (MaxLate + 1)
    /\ phase[n] \in {"down", "opening", "requesting"} => thread[n] = "none"
    /\ phase[n] \in {"opening", "requesting"} => sent[n] = 0 /\ strategy[n] # "none"
    /\ thread[n] = "asleep" => \/ strategy[n] = "polling" /\ next_update[n] = wake[n]
                               \/ strategy[n] = "broadcast" /\ next_update[n] = wake[n] + interval[n]
    /\ Running(n) /\ strategy[n] # "ask_once" => thread[n] = "asleep"
    /\ Running(n) /\ sent[n] > 0 => strategy[n] # "ask_once" /\ wake[n] <= now + interval[n]

TimerInv == \A n \in Nodes : Timely(n)

\* What n has heard and is about to hear was sent, and is as old as it may be.
PacketInv ==
    /\ \A d \in network :
          /\ d.sent <= now /\ now <= d.sent + MaxDelay
          /\ d.packet = "PEER" => d.sent <= last_updated[d.from]
    /\ \A n, m \in Nodes : last_seen[n][m] <= last_updated[m] + MaxDelay /\ last_seen[n][m] <= now

\* The node n was sent LIST in the slot of its loop that began at t.
AskedAt(n, t) ==
    \E d \in network : d.packet = "LIST" /\ d.to = n /\ d.sent \in t..(t + MaxLate)

\* A loop updates the time of its own node in each slot, in the end.
OwnUpdate(n) ==
    LET slot == wake[n] - interval[n]
    IN  Running(n) =>
          /\ strategy[n] = "broadcast" => last_updated[n] >= slot
          /\ strategy[n] = "polling" /\ sent[n] > 0 => last_updated[n] >= slot \/ AskedAt(n, slot)
          /\ strategy[n] = "polling" /\ sent[n] = 2 => last_updated[n] >= slot - interval[n]

OwnUpdateInv == \A n \in Nodes : OwnUpdate(n)

UpdateInv == SleepsEnd /\ TimerInv /\ PacketInv /\ OwnUpdateInv

\* What makes LivePeersActive inductive.  A PEER of m that n handles at t or later
\* was handled, or is under way, or is the answer to a LIST that is; the LIST was
\* sent from t to t + w.
Due(n, m, t, w) ==
    \/ last_seen[n][m] >= t
    \/ \E d \in network :
          d.packet = "PEER" /\ d.from = m /\ d.to = n /\ t <= d.sent /\ d.sent <= t + w + MaxDelay
    \/ \E d \in network : d.packet = "LIST" /\ d.to = m /\ t <= d.sent /\ d.sent <= t + w

\* While it starts, n's first LIST was sent at t, or m's first PEER.
Asked(n) == phase[n] = "requesting" /\ requests[n] < INITIAL_DISCOVERY_REQS
Announced(m) == phase[m] \in {"requesting", "running"}
Up(n) == Asked(n) \/ Running(n)

Since(n, t) == wake[n] >= t + INITIAL_DISCOVERY_REQS - requests[n]
ByRequest(n, m, t) == Asked(n) /\ Since(n, t) /\ Due(n, m, t, 0)
ByAnnouncement(n, m, t) ==
    phase[m] = "requesting" /\ (Asked(m) => Since(m, t)) /\ Due(n, m, t, 0)

\* By the time both run, n has heard of m at t or later.
Heard(n, m, t) ==
    \/ last_seen[n][m] >= t
    \/ \E u \in t..now : ByRequest(n, m, u) \/ ByAnnouncement(n, m, u)

\* Where t is when the slot of r's loop began; r is n or m.
LoopHeard(n, m, r) ==
    \A t \in {wake[r] - interval[r]} : sent[r] > 0 =>
        /\ Due(n, m, t, MaxLate) \/ Heard(n, m, t)
        /\ sent[r] = 2 => Heard(n, m, t - interval[r])

LiveInv ==
    \A n \in Nodes : \A m \in Nodes \ {n} :
        /\ Up(n) /\ Announced(m) => Heard(n, m, 1)
        /\ Up(n) /\ Running(m) => LoopHeard(n, m, m)
        /\ Running(n) /\ strategy[n] = "polling" /\ Announced(m) => LoopHeard(n, m, n)
=============================================================================
