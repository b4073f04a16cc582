------------------------- MODULE DiscoveryUpdates_proofs -------------------------
(* Theorems about DiscoveryUpdates, for any nodes, intervals and bounds that *)
(* satisfy TimingAssumption.                                                *)
EXTENDS DiscoveryUpdates, TLAPS

\* How an action that sends changes the network.
LEMMA CopiesType ==
    ASSUME TypeOK, NEW n \in Nodes, NEW packet \in {"LIST", "PEER"}
    PROVE  Copies(packet, n, Nodes) \subseteq Datagrams
BY DEF Copies, Datagrams, TypeOK

\* What a turn of either loop, also the first, leaves in the variables it changes.
LoopTypes ==
    /\ wake \in [Nodes -> Int] /\ next_update \in [Nodes -> Int]
    /\ thread \in [Nodes -> {"none", "asleep", "stuck"}]
    /\ sent \in [Nodes -> 0..2]
    /\ last_updated \in [Nodes -> 0..MaxTime]
    /\ network \subseteq Datagrams

LEMMA TurnTypes ==
    ASSUME TypeOK, NEW n \in Nodes, NEW next \in Int,
           PollingTurn(n, next) \/ BroadcastTurn(n, next)
    PROVE  LoopTypes'
<1> USE UpdatesAssumption
<1>1. interval[n] \in Int /\ next + interval[n] \in Int /\ now \in 0..MaxTime
    BY DEF TypeOK
<1>2. network' \subseteq Datagrams
    BY CopiesType DEF PollingTurn, BroadcastTurn, Send, TypeOK
<1>3. wake' \in [Nodes -> Int] /\ next_update' \in [Nodes -> Int]
    BY <1>1 DEF PollingTurn, BroadcastTurn, Sleep, TypeOK
<1>4. thread' \in [Nodes -> {"none", "asleep", "stuck"}]
    BY DEF PollingTurn, BroadcastTurn, Sleep, TypeOK
<1>5. sent' \in [Nodes -> 0..2]
    BY DEF PollingTurn, BroadcastTurn, CountSent, TypeOK
<1>6. last_updated' \in [Nodes -> 0..MaxTime]
    BY <1>1 DEF PollingTurn, BroadcastTurn, TypeOK
<1>7. QED BY <1>2, <1>3, <1>4, <1>5, <1>6 DEF LoopTypes

LEMMA TypeStep == TypeOK /\ [Next]_vars => TypeOK'
<1> SUFFICES ASSUME TypeOK, [Next]_vars PROVE TypeOK'
    OBVIOUS
<1> USE UpdatesAssumption
<1>1. CASE UNCHANGED vars
    BY <1>1 DEF vars, TypeOK
<1>2. ASSUME NEW n \in Nodes, polling_update_loop(n) PROVE TypeOK'
    <2>1. LoopTypes'
        BY <1>2, TurnTypes DEF polling_update_loop, TypeOK
    <2>2. QED BY <1>2, <2>1 DEF polling_update_loop, LoopTypes, TypeOK
<1>3. ASSUME NEW n \in Nodes, broadcast_update_loop(n) PROVE TypeOK'
    <2>1. LoopTypes'
        BY <1>3, TurnTypes DEF broadcast_update_loop, TypeOK
    <2>2. QED BY <1>3, <2>1 DEF broadcast_update_loop, LoopTypes, TypeOK
<1>4. ASSUME NEW n \in Nodes, update_loop_returns(n) PROVE TypeOK'
    BY <1>4 DEF update_loop_returns, TypeOK
<1>5. ASSUME NEW n \in Nodes, discovery_service_start(n) PROVE TypeOK'
    BY <1>5 DEF discovery_service_start, TypeOK, Phases
<1>6. ASSUME NEW n \in Nodes, initiate_discovery(n) PROVE TypeOK'
    <2>1. network' \subseteq Datagrams
        BY <1>6, CopiesType DEF initiate_discovery, Send, TypeOK
    <2>2. QED BY <1>6, <2>1 DEF initiate_discovery, loopVars, TypeOK, Phases
<1>7. ASSUME NEW n \in Nodes, send_discovery_request(n) PROVE TypeOK'
    <2>1. network' \subseteq Datagrams
        BY <1>7, CopiesType DEF send_discovery_request, Send, TypeOK
    <2>2. now + 1 \in Int /\ requests[n] - 1 \in 0..INITIAL_DISCOVERY_REQS
        BY <1>7 DEF send_discovery_request, TypeOK
    <2>3. QED BY <1>7, <2>1, <2>2 DEF send_discovery_request, TypeOK
<1>8. ASSUME NEW n \in Nodes, start_strategy(n) PROVE TypeOK'
    <2>1. last_updated[n] + interval[n] \in Int /\ now + interval[n] \in Int
        BY DEF TypeOK
    <2>2. LoopTypes'
        BY <1>8, <2>1, CopiesType, TurnTypes DEF start_strategy, Send, loopVars, LoopTypes, TypeOK
    <2>3. QED BY <1>8, <2>2 DEF start_strategy, LoopTypes, TypeOK, Phases
<1>9. ASSUME NEW n \in Nodes, discovery_service_stop(n) PROVE TypeOK'
    BY <1>9 DEF discovery_service_stop, loopVars, TypeOK, Phases
<1>10. ASSUME NEW n \in Nodes, stop_returns(n) PROVE TypeOK'
    BY <1>10 DEF stop_returns, StopListening, loopVars, TypeOK, Phases
<1>11. ASSUME NEW d \in network, handle_list(d) PROVE TypeOK'
    BY <1>11, CopiesType DEF handle_list, Handled, AfterHandling, Datagrams, loopVars, TypeOK, Phases
<1>12. ASSUME NEW d \in network, handle_peer(d) PROVE TypeOK'
    BY <1>12 DEF handle_peer, Handled, AfterHandling, Datagrams, loopVars, TypeOK, Phases
<1>13. CASE Tick
    BY <1>13 DEF Tick, loopVars, TypeOK
<1>14. QED
    BY <1>1, <1>2, <1>3, <1>4, <1>5, <1>6, <1>7, <1>8, <1>9, <1>10, <1>11, <1>12, <1>13 DEF Next

-----------------------------------------------------------------------------
(* Timers.                                                                 *)

\* Nothing about node n changes, but for what it has seen and is sent.
SameNode(n) ==
    /\ phase'[n] = phase[n] /\ strategy'[n] = strategy[n] /\ requests'[n] = requests[n]
    /\ thread'[n] = thread[n] /\ wake'[n] = wake[n] /\ next_update'[n] = next_update[n]
    /\ sent'[n] = sent[n] /\ last_updated'[n] = last_updated[n]
    /\ now' = now

LEMMA TimelyFrame ==
    ASSUME NEW n \in Nodes, Timely(n), SameNode(n)
    PROVE  Timely(n)'
BY DEF Timely, SameNode, Waiting, Running

\* The actions of node a, and what they leave alone at the others.
NodeStep(a) ==
    \/ discovery_service_start(a) \/ initiate_discovery(a) \/ send_discovery_request(a)
    \/ start_strategy(a) \/ discovery_service_stop(a) \/ stop_returns(a)
    \/ polling_update_loop(a) \/ broadcast_update_loop(a) \/ update_loop_returns(a)

LEMMA NodeStepFrame ==
    ASSUME TypeOK, NEW a \in Nodes, NEW n \in Nodes \ {a}, NodeStep(a)
    PROVE  SameNode(n) /\ last_seen' = last_seen
BY DEF NodeStep, discovery_service_start, initiate_discovery, send_discovery_request,
       start_strategy, discovery_service_stop, stop_returns, polling_update_loop,
       broadcast_update_loop, update_loop_returns, PollingTurn, BroadcastTurn, Sleep, CountSent,
       loopVars, SameNode, TypeOK

LEMMA HandleFrame ==
    ASSUME TypeOK, NEW d \in network, handle_list(d) \/ handle_peer(d), NEW n \in Nodes \ {d.to}
    PROVE  SameNode(n)
BY DEF handle_list, handle_peer, AfterHandling, loopVars, SameNode, TypeOK

\* One more request takes a second, and is late by at most MaxLate.
LEMMA OneRequestMore ==
    ASSUME NEW k \in Int
    PROVE  (INITIAL_DISCOVERY_REQS - (k - 1)) * (MaxLate + 1)
               = (INITIAL_DISCOVERY_REQS - k) * (MaxLate + 1) + MaxLate + 1
<1> DEFINE q == INITIAL_DISCOVERY_REQS - k
<1>1. q \in Int /\ MaxLate + 1 \in Int /\ INITIAL_DISCOVERY_REQS - (k - 1) = q + 1
    BY UpdatesAssumption
<1>2. \A x, y \in Int : (x + 1) * y = x * y + y
    OBVIOUS
<1>3. (q + 1) * (MaxLate + 1) = q * (MaxLate + 1) + (MaxLate + 1)
    BY <1>1, <1>2
<1> HIDE DEF q
<1>4. QED BY <1>1, <1>3, UpdatesAssumption

\* A turn of a loop at the time it was due, or up to MaxLate later.
LEMMA PollingTurnTimely ==
    ASSUME TypeOK, NEW n \in Nodes, NEW next \in Int, PollingTurn(n, next),
           now <= next + interval[n]
    PROVE  /\ thread'[n] = "asleep" /\ wake'[n] = next + interval[n]
           /\ next_update'[n] = wake'[n] /\ last_updated'[n] = last_updated[n]
           /\ next <= now \/ sent'[n] = sent[n]
<1>1. now \in Int /\ interval[n] \in Int /\ next + interval[n] \in Int
    BY UpdatesAssumption DEF TypeOK
<1>2. ~(next + interval[n] < now)
    BY <1>1
<1>3. next <= now \/ sent' = sent
    BY DEF PollingTurn
<1>4. QED BY <1>2, <1>3 DEF PollingTurn, Sleep, TypeOK

LEMMA BroadcastTurnTimely ==
    ASSUME TypeOK, NEW n \in Nodes, NEW next \in Int, BroadcastTurn(n, next),
           now <= next
    PROVE  /\ thread'[n] = "asleep" /\ wake'[n] = next
           /\ next_update'[n] = wake'[n] + interval[n] /\ last_updated'[n] = now
BY UpdatesAssumption DEF BroadcastTurn, Sleep, TypeOK

\* What is known of the two bounds and n's interval.
LEMMA Bounds ==
    ASSUME NEW n \in Nodes
    PROVE  /\ interval[n] \in Nat /\ MaxLate \in Nat /\ MaxDelay \in Nat
           /\ INITIAL_DISCOVERY_REQS \in Nat
           /\ MaxLate + 2 * MaxDelay < interval[n]
           /\ (INITIAL_DISCOVERY_REQS - 0) * (MaxLate + 1) <= interval[n]
BY UpdatesAssumption, TimingAssumption

Awaited(n) == thread[n] # "stuck" /\ Timely(n)

LEMMA NodeStepTimely ==
    ASSUME TypeOK, NEW n \in Nodes, Awaited(n), NodeStep(n)
    PROVE  Awaited(n)'
<1> USE DEF Awaited
<1>0. /\ now \in Int /\ wake[n] \in Int /\ next_update[n] \in Int /\ last_updated[n] \in Int
      /\ requests[n] \in Int
    BY DEF TypeOK
<1>1. CASE discovery_service_start(n)
    BY <1>0, <1>1, Bounds, UpdatesAssumption
       DEF discovery_service_start, Timely, Waiting, Running, TypeOK
<1>2. CASE initiate_discovery(n)
    <2>1. (INITIAL_DISCOVERY_REQS - INITIAL_DISCOVERY_REQS) * (MaxLate + 1) = 0
        BY UpdatesAssumption
    <2>2. QED
        BY <1>0, <1>2, <2>1, Bounds
           DEF initiate_discovery, loopVars, Timely, Waiting, Running, TypeOK
<1>3. CASE send_discovery_request(n)
    <2>1. /\ wake'[n] = now + 1 /\ requests'[n] = requests[n] - 1 /\ now <= wake[n] + MaxLate
          /\ phase[n] = "requesting" /\ UNCHANGED <<phase, strategy, thread, next_update, sent, last_updated, now>>
        BY <1>3 DEF send_discovery_request, Timely, Waiting, TypeOK
    <2> DEFINE k == requests[n]
    <2>2. wake'[n] <= last_updated[n] + (INITIAL_DISCOVERY_REQS - (k - 1)) * (MaxLate + 1)
        <3> DEFINE q == (INITIAL_DISCOVERY_REQS - k) * (MaxLate + 1)
        <3>1. wake[n] <= last_updated[n] + q
            BY <2>1 DEF Timely
        <3>2. (INITIAL_DISCOVERY_REQS - (k - 1)) * (MaxLate + 1) = q + MaxLate + 1
            BY <1>0, OneRequestMore
        <3>3. q \in Int
            BY <1>0, UpdatesAssumption
        <3> HIDE DEF q
        <3>4. QED BY <1>0, <2>1, <3>1, <3>2, <3>3, Bounds
    <2>3. QED BY <1>0, <2>1, <2>2, Bounds DEF Timely, Waiting, Running
<1>4. CASE start_strategy(n)
    <2>1. /\ phase[n] = "requesting" /\ requests[n] = 0 /\ phase'[n] = "running"
          /\ strategy'[n] = strategy[n] /\ strategy[n] # "none" /\ now' = now /\ thread[n] = "none"
          /\ sent[n] = 0
        BY <1>4 DEF start_strategy, Timely, TypeOK
    <2>2. now <= last_updated[n] + interval[n] + MaxLate
        <3> DEFINE q == (INITIAL_DISCOVERY_REQS - 0) * (MaxLate + 1)
        <3>1. now <= wake[n] + MaxLate /\ wake[n] <= last_updated[n] + q
            BY <2>1 DEF Timely, Waiting
        <3>2. q \in Int /\ q <= interval[n]
            BY Bounds
        <3> HIDE DEF q
        <3>3. QED BY <1>0, <3>1, <3>2, Bounds
    <2>3. CASE strategy[n] = "ask_once"
        BY <1>0, <1>4, <2>1, <2>3 DEF start_strategy, loopVars, Timely, Waiting, Running, TypeOK
    <2>4. CASE strategy[n] = "polling"
        <3>1. PollingTurn(n, last_updated[n] + interval[n])
            BY <1>4, <2>4 DEF start_strategy
        <3>2. /\ thread'[n] = "asleep" /\ wake'[n] = last_updated[n] + 2 * interval[n]
              /\ next_update'[n] = wake'[n] /\ last_updated'[n] = last_updated[n]
              /\ last_updated[n] + interval[n] <= now \/ sent'[n] = 0
            BY <1>0, <2>1, <2>2, <3>1, PollingTurnTimely, Bounds
        <3>3. QED BY <1>0, <2>1, <2>2, <2>4, <3>2, Bounds DEF Timely, Waiting, Running
    <2>5. CASE strategy[n] = "broadcast"
        <3>1. BroadcastTurn(n, now + interval[n])
            BY <1>4, <2>5 DEF start_strategy
        <3>2. /\ thread'[n] = "asleep" /\ wake'[n] = now + interval[n]
              /\ next_update'[n] = wake'[n] + interval[n] /\ last_updated'[n] = now
            BY <1>0, <3>1, BroadcastTurnTimely, Bounds
        <3>3. QED BY <1>0, <2>1, <2>5, <3>2, Bounds DEF Timely, Waiting, Running
    <2>6. QED BY <1>4, <2>3, <2>4, <2>5 DEF start_strategy
<1>5. CASE discovery_service_stop(n)
    BY <1>0, <1>5, Bounds DEF discovery_service_stop, loopVars, Timely, Waiting, Running, TypeOK
<1>6. CASE stop_returns(n)
    BY <1>0, <1>6, Bounds DEF stop_returns, loopVars, Timely, Waiting, Running, TypeOK
<1>7. CASE polling_update_loop(n)
    <2>1. /\ phase[n] = "running" /\ phase' = phase /\ strategy' = strategy /\ now' = now
          /\ strategy[n] = "polling" /\ thread[n] = "asleep" /\ PollingTurn(n, next_update[n])
          /\ next_update[n] = wake[n] /\ wake[n] <= now /\ now <= wake[n] + MaxLate
        BY <1>7 DEF polling_update_loop, Awake, Timely, Waiting
    <2>2. /\ thread'[n] = "asleep" /\ wake'[n] = next_update[n] + interval[n]
          /\ next_update'[n] = wake'[n] /\ last_updated'[n] = last_updated[n]
        BY <1>0, <2>1, PollingTurnTimely, Bounds
    <2>3. QED BY <1>0, <2>1, <2>2, Bounds DEF Timely, Waiting, Running
<1>8. CASE broadcast_update_loop(n)
    <2>1. /\ phase[n] = "running" /\ phase' = phase /\ strategy' = strategy /\ now' = now
          /\ strategy[n] = "broadcast" /\ thread[n] = "asleep" /\ BroadcastTurn(n, next_update[n])
          /\ next_update[n] = wake[n] + interval[n] /\ wake[n] <= now /\ now <= wake[n] + MaxLate
        BY <1>8 DEF broadcast_update_loop, Awake, Timely, Waiting
    <2>2. /\ thread'[n] = "asleep" /\ wake'[n] = next_update[n]
          /\ next_update'[n] = wake'[n] + interval[n] /\ last_updated'[n] = now
        BY <1>0, <2>1, BroadcastTurnTimely, Bounds
    <2>3. QED BY <1>0, <2>1, <2>2, Bounds DEF Timely, Waiting, Running
<1>9. CASE update_loop_returns(n)
    BY <1>0, <1>9, Bounds DEF update_loop_returns, Timely, Waiting, Running, TypeOK
<1>10. QED
    BY <1>1, <1>2, <1>3, <1>4, <1>5, <1>6, <1>7, <1>8, <1>9 DEF NodeStep

LEMMA TimerStep ==
    ASSUME TypeOK, SleepsEnd, TimerInv, [Next]_vars
    PROVE  SleepsEnd' /\ TimerInv'
<1> SUFFICES ASSUME NEW n \in Nodes PROVE Awaited(n)'
    BY DEF SleepsEnd, TimerInv, Awaited
<1>0. Awaited(n)
    BY DEF SleepsEnd, TimerInv, Awaited
<1>1. CASE UNCHANGED vars
    BY <1>0, <1>1 DEF vars, Awaited, Timely, Waiting, Running
<1>2. ASSUME NEW a \in Nodes, NodeStep(a) PROVE Awaited(n)'
    <2>1. CASE a = n
        BY <1>0, <1>2, <2>1, NodeStepTimely
    <2>2. CASE a # n
        BY <1>0, <1>2, <2>2, NodeStepFrame, TimelyFrame DEF Awaited, SameNode
    <2>3. QED BY <2>1, <2>2
<1>3. ASSUME NEW d \in network, handle_list(d) \/ handle_peer(d) PROVE Awaited(n)'
    <2>1. CASE d.to = n
        <3>1. /\ strategy' = strategy /\ requests' = requests /\ thread' = thread /\ wake' = wake
              /\ next_update' = next_update /\ sent' = sent /\ now' = now
              /\ last_updated'[n] \in {last_updated[n], now}
              /\ \/ phase'[n] = phase[n]
                 \/ phase[n] = "stopping" /\ phase'[n] = "deaf"
            BY <1>3, <2>1 DEF handle_list, handle_peer, AfterHandling, loopVars, TypeOK
        <3>2. last_updated[n] \in Int /\ now \in Int /\ last_updated[n] <= now /\ wake[n] \in Int
            BY <1>0 DEF Awaited, Timely, TypeOK
        <3> DEFINE q == (INITIAL_DISCOVERY_REQS - requests[n]) * (MaxLate + 1)
        <3>3. q \in Int
            BY UpdatesAssumption DEF TypeOK
        <3>4. wake[n] <= last_updated[n] + q => wake[n] <= last_updated'[n] + q
            <4> HIDE DEF q
            <4>1. QED BY <3>1, <3>2, <3>3
        <3>5. phase'[n] = "requesting" => wake'[n] <= last_updated'[n] +
                  (INITIAL_DISCOVERY_REQS - requests'[n]) * (MaxLate + 1)
            BY <1>0, <3>1, <3>4 DEF Awaited, Timely
        <3>6. QED BY <1>0, <3>1, <3>2, <3>5 DEF Awaited, Timely, Waiting, Running
    <2>2. CASE d.to # n
        BY <1>0, <1>3, <2>2, HandleFrame, TimelyFrame DEF Awaited, SameNode
    <2>3. QED BY <2>1, <2>2
<1>4. CASE Tick
    BY <1>0, <1>4, UpdatesAssumption DEF Tick, loopVars, Awaited, Timely, Waiting, Running, TypeOK
<1>5. QED
    BY <1>1, <1>2, <1>3, <1>4 DEF Next, NodeStep
-----------------------------------------------------------------------------
(* Packets.                                                                *)

LEMMA UpdatesGrow ==
    ASSUME TypeOK, TimerInv, [Next]_vars, NEW n \in Nodes
    PROVE  last_updated'[n] \in Int /\ last_updated[n] <= last_updated'[n]
<1>1. last_updated[n] \in Int /\ now \in Int /\ last_updated[n] <= now
    BY DEF TypeOK, TimerInv, Timely
<1>2. last_updated'[n] \in {last_updated[n], now}
    <2>1. CASE UNCHANGED vars \/ Tick
        BY <2>1 DEF vars, Tick
    <2>2. ASSUME NEW a \in Nodes, NodeStep(a) PROVE last_updated'[n] \in {last_updated[n], now}
        BY <2>2 DEF NodeStep, discovery_service_start, initiate_discovery, send_discovery_request,
               start_strategy, discovery_service_stop, stop_returns, polling_update_loop,
               broadcast_update_loop, update_loop_returns, PollingTurn, BroadcastTurn, TypeOK
    <2>3. ASSUME NEW d \in network, handle_list(d) \/ handle_peer(d)
          PROVE  last_updated'[n] \in {last_updated[n], now}
        BY <2>3 DEF handle_list, handle_peer, TypeOK
    <2>4. QED BY <2>1, <2>2, <2>3 DEF Next, NodeStep
<1>3. QED BY <1>1, <1>2

LEMMA NowGrows ==
    ASSUME TypeOK, [Next]_vars
    PROVE  now \in Int /\ now' \in {now, now + 1}
<1>1. CASE Tick
    BY <1>1 DEF Tick, TypeOK
<1>2. CASE UNCHANGED now
    BY <1>2 DEF TypeOK
<1>3. QED
    BY <1>1, <1>2 DEF Next, vars, discovery_service_start, initiate_discovery, send_discovery_request,
       start_strategy, discovery_service_stop, stop_returns, polling_update_loop,
       broadcast_update_loop, update_loop_returns, handle_list, handle_peer

\* A datagram that was not there before was sent just now, and a PEER together
\* with the time of its sender's last update.
JustSent(d) ==
    d.sent = now /\ (d.packet = "PEER" => last_updated'[d.from] = now)

LEMMA CopiesSent ==
    ASSUME NEW n \in Nodes, NEW packet, NEW d \in Copies(packet, n, Nodes)
    PROVE  d.sent = now /\ d.packet = packet /\ d.from = n
BY DEF Copies

LEMMA NodeStepSends ==
    ASSUME TypeOK, NEW a \in Nodes, NodeStep(a), NEW d \in network' \ network
    PROVE  JustSent(d)
<1>1. CASE \/ discovery_service_start(a) \/ discovery_service_stop(a) \/ stop_returns(a)
           \/ update_loop_returns(a)
    BY <1>1 DEF discovery_service_start, discovery_service_stop, stop_returns, StopListening,
                update_loop_returns
<1>2. CASE Send(a, "LIST")
    BY <1>2, CopiesSent DEF Send, JustSent
<1>3. CASE Send(a, "PEER") /\ last_updated' = [last_updated EXCEPT ![a] = now]
    BY <1>3, CopiesSent DEF Send, JustSent, TypeOK
<1>4. CASE UNCHANGED network
    BY <1>4
<1>5. QED
    BY <1>1, <1>2, <1>3, <1>4
       DEF NodeStep, initiate_discovery, send_discovery_request, start_strategy,
           polling_update_loop, broadcast_update_loop, PollingTurn, BroadcastTurn

LEMMA HandleSends ==
    ASSUME TypeOK, NEW e \in network, handle_list(e) \/ handle_peer(e), NEW d \in network' \ network
    PROVE  JustSent(d)
<1>1. CASE handle_list(e)
    <2>1. e.to \in Nodes
        BY DEF TypeOK, Datagrams
    <2>2. d \in Copies("PEER", e.to, Nodes)
        BY <1>1 DEF handle_list, Handled
    <2>3. d.sent = now /\ d.from = e.to
        BY <2>1, <2>2, CopiesSent
    <2>4. QED BY <1>1, <2>1, <2>3 DEF handle_list, JustSent, TypeOK
<1>2. CASE handle_peer(e)
    BY <1>2 DEF handle_peer, Handled
<1>3. QED BY <1>1, <1>2

\* What n has seen of m changes only when n handles a PEER of m.
LEMMA SeenOnly ==
    ASSUME TypeOK, [Next]_vars, NEW n \in Nodes, NEW m \in Nodes
    PROVE  \/ last_seen'[n][m] = last_seen[n][m]
           \/ \E d \in network : handle_peer(d) /\ d.to = n /\ d.from = m
<1>1. ASSUME NEW d \in network, handle_peer(d), ~(d.to = n /\ d.from = m)
      PROVE  last_seen'[n][m] = last_seen[n][m]
    BY <1>1 DEF handle_peer, TypeOK
<1>2. CASE UNCHANGED last_seen
    BY <1>2
<1>3. QED
    BY <1>1, <1>2 DEF Next, vars, discovery_service_start, initiate_discovery, send_discovery_request,
       start_strategy, discovery_service_stop, stop_returns, polling_update_loop,
       broadcast_update_loop, update_loop_returns, handle_list, Tick

LEMMA PacketStep ==
    ASSUME TypeOK, TypeOK', TimerInv, PacketInv, [Next]_vars
    PROVE  PacketInv'
<1> USE UpdatesAssumption
<1>1. ASSUME NEW d \in network'
      PROVE  /\ d.sent <= now' /\ now' <= d.sent + MaxDelay
             /\ d.packet = "PEER" => d.sent <= last_updated'[d.from]
    <2>0. now \in Int /\ now' \in Int /\ d.sent \in Int /\ d.from \in Nodes
        BY DEF TypeOK, Datagrams
    <2>1. CASE d \in network
        <3>1. /\ d.sent <= now /\ now <= d.sent + MaxDelay
              /\ d.packet = "PEER" => d.sent <= last_updated[d.from]
            BY <2>1 DEF PacketInv
        <3>2. d.packet = "PEER" => d.sent <= last_updated'[d.from]
            BY <2>0, <3>1, UpdatesGrow DEF TypeOK
        <3>3. now' = now \/ (now' = now + 1 /\ now < d.sent + MaxDelay)
            <4>1. CASE Tick
                BY <2>1, <4>1 DEF Tick
            <4>2. CASE UNCHANGED vars
                BY <4>2 DEF vars
            <4>3. QED
                BY <4>1, <4>2 DEF Next, discovery_service_start, initiate_discovery, send_discovery_request,
                   start_strategy, discovery_service_stop, stop_returns, polling_update_loop,
                   broadcast_update_loop, update_loop_returns, handle_list, handle_peer
        <3>4. QED BY <2>0, <3>1, <3>2, <3>3
    <2>2. CASE d \notin network
        <3>1. JustSent(d) /\ now' = now
            <4>1. CASE UNCHANGED vars \/ Tick
                BY <2>2, <4>1 DEF vars, Tick
            <4>2. ASSUME NEW a \in Nodes, NodeStep(a) PROVE JustSent(d) /\ now' = now
                BY <2>2, <4>2, NodeStepSends DEF NodeStep, discovery_service_start, initiate_discovery,
                   send_discovery_request, start_strategy, discovery_service_stop, stop_returns,
                   polling_update_loop, broadcast_update_loop, update_loop_returns
            <4>3. ASSUME NEW e \in network, handle_list(e) \/ handle_peer(e) PROVE JustSent(d) /\ now' = now
                BY <2>2, <4>3, HandleSends DEF handle_list, handle_peer
            <4>4. QED BY <4>1, <4>2, <4>3 DEF Next, NodeStep
        <3>2. QED BY <2>0, <3>1 DEF JustSent
    <2>3. QED BY <2>1, <2>2
<1>2. ASSUME NEW n \in Nodes, NEW m \in Nodes
      PROVE  last_seen'[n][m] <= last_updated'[m] + MaxDelay /\ last_seen'[n][m] <= now'
    <2>1. /\ last_seen[n][m] \in Int /\ last_updated[m] \in Int
          /\ last_seen[n][m] <= last_updated[m] + MaxDelay /\ last_seen[n][m] <= now
        BY DEF TypeOK, PacketInv
    <2>2. /\ last_updated'[m] \in Int /\ last_updated[m] <= last_updated'[m]
          /\ now \in Int /\ now' \in {now, now + 1}
        BY UpdatesGrow, NowGrows
    <2>3. CASE last_seen'[n][m] = last_seen[n][m]
        BY <2>1, <2>2, <2>3
    <2>4. CASE \E d \in network : handle_peer(d) /\ d.to = n /\ d.from = m
        <3>1. PICK d \in network : handle_peer(d) /\ d.to = n /\ d.from = m
            BY <2>4
        <3>2. last_seen'[n][m] = now
            BY <3>1 DEF handle_peer, TypeOK
        <3>3. d.packet = "PEER" /\ now <= d.sent + MaxDelay /\ d.sent <= last_updated[m] /\ d.sent \in Int
            BY <3>1 DEF handle_peer, PacketInv, TypeOK, Datagrams
        <3>4. QED BY <2>1, <2>2, <3>2, <3>3
    <2>5. QED
        BY <2>3, <2>4, SeenOnly
<1>3. QED BY <1>1, <1>2 DEF PacketInv
-----------------------------------------------------------------------------
(* The update of a node by its own loop.                                   *)

\* What is on its way to a node stays so while others act, and while its own loop
\* runs: only stopping drops it.
LEMMA NodeStepKeeps ==
    ASSUME TypeOK, NEW a \in Nodes, NodeStep(a), NEW d \in network,
           d.to # a \/ phase[a] \notin {"stopping", "deaf"}
    PROVE  d \in network'
BY DEF NodeStep, discovery_service_start, initiate_discovery, send_discovery_request,
       start_strategy, discovery_service_stop, stop_returns, StopListening, polling_update_loop,
       broadcast_update_loop, update_loop_returns, PollingTurn, BroadcastTurn, Send

LEMMA HandleKeeps ==
    ASSUME TypeOK, NEW e \in network, handle_list(e) \/ handle_peer(e), NEW d \in network,
           d # e, d.to # e.to \/ phase[e.to] # "stopping"
    PROVE  d \in network'
BY DEF handle_list, handle_peer, Handled

LEMMA OwnUpdateFrame ==
    ASSUME NEW n \in Nodes, SameNode(n), OwnUpdate(n),
           \A d \in network : d.packet = "LIST" /\ d.to = n => d \in network'
    PROVE  OwnUpdate(n)'
<1>1. \A t : AskedAt(n, t) => AskedAt(n, t)'
    BY DEF AskedAt
<1>2. QED BY <1>1 DEF OwnUpdate, SameNode, Running

\* AskedAt in the next state, of a time in this one.
AskedNext(n, t) ==
    \E d \in network' : d.packet = "LIST" /\ d.to = n /\ d.sent \in t..(t + MaxLate)

\* A turn of the polling loop that sends asks its own node too.
LEMMA PollingTurnAsks ==
    ASSUME TypeOK, NEW n \in Nodes, NEW next \in Int, PollingTurn(n, next),
           Listening(n), next <= now, now <= next + MaxLate
    PROVE  AskedNext(n, next)
<1> DEFINE d == [packet |-> "LIST", from |-> n, to |-> n, sent |-> now]
<1>1. Send(n, "LIST")
    BY DEF PollingTurn, TypeOK
<1>2. d \in Copies("LIST", n, Nodes)
    BY DEF Copies
<1>3. d \in network'
    BY <1>1, <1>2 DEF Send
<1>4. d.sent \in next..(next + MaxLate)
    BY UpdatesAssumption DEF TypeOK
<1>5. QED BY <1>3, <1>4 DEF AskedNext

LEMMA NodeStepOwnUpdate ==
    ASSUME TypeOK, NEW n \in Nodes, Awaited(n), PacketInv, OwnUpdate(n), NodeStep(n)
    PROVE  OwnUpdate(n)'
<1>0. /\ now \in Int /\ wake[n] \in Int /\ next_update[n] \in Int /\ last_updated[n] \in Int
      /\ sent[n] \in 0..2
    BY DEF TypeOK
<1>1. CASE \/ discovery_service_start(n) \/ initiate_discovery(n) \/ send_discovery_request(n)
           \/ discovery_service_stop(n) \/ stop_returns(n) \/ update_loop_returns(n)
    <2>1. ~Running(n)'
        BY <1>1 DEF discovery_service_start, initiate_discovery, send_discovery_request,
              discovery_service_stop, stop_returns, update_loop_returns, Running, TypeOK
    <2>2. QED BY <2>1 DEF OwnUpdate
<1>2. CASE start_strategy(n)
    <2>1. /\ sent[n] = 0 /\ now <= last_updated[n] + interval[n] + MaxLate
          /\ strategy'[n] = strategy[n] /\ phase[n] = "requesting"
        <3> DEFINE q == (INITIAL_DISCOVERY_REQS - 0) * (MaxLate + 1)
        <3>1. /\ sent[n] = 0 /\ now <= wake[n] + MaxLate /\ wake[n] <= last_updated[n] + q
              /\ strategy'[n] = strategy[n] /\ phase[n] = "requesting"
            BY <1>2 DEF start_strategy, Awaited, Timely, Waiting
        <3>2. q \in Int /\ q <= interval[n]
            BY Bounds
        <3> HIDE DEF q
        <3>3. QED BY <1>0, <3>1, <3>2, Bounds
    <2>2. CASE strategy[n] = "polling"
        <3> DEFINE next == last_updated[n] + interval[n]
        <3>1. PollingTurn(n, next) /\ next \in Int
            BY <1>0, <1>2, <2>2, Bounds DEF start_strategy
        <3>2. /\ wake'[n] = next + interval[n] /\ last_updated'[n] = last_updated[n]
            BY <1>0, <2>1, <3>1, PollingTurnTimely, Bounds
        <3>3. sent'[n] \in {0, 1} /\ (sent'[n] = 1 => next <= now)
            BY <2>1, <3>1 DEF PollingTurn, CountSent, TypeOK
        <3>4. sent'[n] = 1 => AskedNext(n, next)
            BY <1>0, <2>1, <3>1, <3>3, PollingTurnAsks DEF Listening
        <3>5. wake'[n] - interval[n] = next
            BY <1>0, <3>1, <3>2, Bounds
        <3>6. sent'[n] = 1 => AskedAt(n, wake[n] - interval[n])'
            BY <3>4, <3>5 DEF AskedAt, AskedNext
        <3>7. QED BY <2>1, <2>2, <3>3, <3>6 DEF OwnUpdate, Running
    <2>3. CASE strategy[n] = "broadcast"
        <3>1. wake'[n] = now + interval[n] /\ last_updated'[n] = now
            BY <1>0, <1>2, <2>3, BroadcastTurnTimely, Bounds DEF start_strategy
        <3>2. QED BY <1>0, <2>1, <2>3, <3>1, Bounds DEF OwnUpdate
    <2>4. CASE strategy[n] \notin {"polling", "broadcast"}
        BY <2>1, <2>4 DEF OwnUpdate
    <2>5. QED BY <2>2, <2>3, <2>4
<1>3. CASE polling_update_loop(n)
    <2> DEFINE slot == wake[n] - interval[n]
    <2>1. /\ phase[n] = "running" /\ strategy[n] = "polling" /\ PollingTurn(n, wake[n])
          /\ strategy'[n] = strategy[n] /\ wake[n] <= now /\ now <= wake[n] + MaxLate
        BY <1>3 DEF polling_update_loop, Awake, Awaited, Timely, Waiting
    <2>2. /\ wake'[n] = wake[n] + interval[n] /\ last_updated'[n] = last_updated[n]
        BY <1>0, <2>1, PollingTurnTimely, Bounds
    <2>3. AskedNext(n, wake[n])
        BY <1>0, <2>1, PollingTurnAsks DEF Listening
    <2>4. sent[n] > 0 => last_updated[n] >= slot
        <3>1. SUFFICES ASSUME AskedAt(n, slot) PROVE FALSE
            BY <2>1 DEF OwnUpdate, Running
        <3>2. PICK d \in network : d.sent \in slot..(slot + MaxLate)
            BY <3>1 DEF AskedAt
        <3>3. now <= d.sent + MaxDelay
            BY DEF PacketInv
        <3>4. QED BY <1>0, <2>1, <3>2, <3>3, Bounds
    <2>5. sent'[n] = 2 => sent[n] > 0
        BY <1>0, <2>1 DEF PollingTurn, CountSent, TypeOK
    <2>6. /\ wake'[n] - interval[n] = wake[n]
          /\ wake'[n] - interval[n] - interval[n] = slot
        BY <1>0, <2>2, Bounds
    <2>7. AskedAt(n, wake[n] - interval[n])'
        BY <2>3, <2>6 DEF AskedAt, AskedNext
    <2>8. sent'[n] = 2 => last_updated'[n] >= wake'[n] - interval[n] - interval[n]
        BY <2>2, <2>4, <2>5, <2>6
    <2>9. QED BY <2>1, <2>7, <2>8 DEF OwnUpdate
<1>4. CASE broadcast_update_loop(n)
    <2>1. /\ strategy[n] = "broadcast" /\ BroadcastTurn(n, wake[n] + interval[n])
          /\ strategy'[n] = strategy[n] /\ wake[n] <= now /\ now <= wake[n] + MaxLate
        BY <1>4 DEF broadcast_update_loop, Awake, Awaited, Timely, Waiting
    <2>2. wake'[n] = wake[n] + interval[n] /\ last_updated'[n] = now
        BY <1>0, <2>1, BroadcastTurnTimely, Bounds
    <2>3. QED BY <1>0, <2>1, <2>2, Bounds DEF OwnUpdate
<1>5. QED
    BY <1>1, <1>2, <1>3, <1>4 DEF NodeStep

LEMMA OwnUpdateStep ==
    ASSUME TypeOK, SleepsEnd, TimerInv, PacketInv, OwnUpdateInv, [Next]_vars
    PROVE  OwnUpdateInv'
<1> SUFFICES ASSUME NEW n \in Nodes PROVE OwnUpdate(n)'
    BY DEF OwnUpdateInv
<1>0. Awaited(n) /\ OwnUpdate(n)
    BY DEF SleepsEnd, TimerInv, Awaited, OwnUpdateInv
<1>1. CASE UNCHANGED vars \/ Tick
    BY <1>0, <1>1 DEF vars, Tick, loopVars, OwnUpdate, AskedAt, Running
<1>2. ASSUME NEW a \in Nodes, NodeStep(a) PROVE OwnUpdate(n)'
    <2>1. CASE a = n
        BY <1>0, <1>2, <2>1, NodeStepOwnUpdate
    <2>2. CASE a # n
        BY <1>0, <1>2, <2>2, NodeStepFrame, NodeStepKeeps, OwnUpdateFrame
    <2>3. QED BY <2>1, <2>2
<1>3. ASSUME NEW e \in network, handle_list(e) \/ handle_peer(e) PROVE OwnUpdate(n)'
    <2>1. CASE e.to # n
        BY <1>0, <1>3, <2>1, HandleFrame, HandleKeeps, OwnUpdateFrame
    <2>2. CASE e.to = n
        <3>1. SUFFICES ASSUME Running(n)' PROVE OwnUpdate(n)'
            BY DEF OwnUpdate
        <3>2. /\ phase[n] = "running"
              /\ strategy' = strategy /\ wake' = wake /\ sent' = sent
              /\ last_updated'[n] \in {last_updated[n], now}
              /\ e.packet = "LIST" => last_updated'[n] = now
            BY <1>3, <2>2, <3>1 DEF handle_list, handle_peer, AfterHandling, loopVars, Running, TypeOK
        <3>3. /\ last_updated[n] <= last_updated'[n] /\ last_updated[n] \in Int /\ last_updated'[n] \in Int
              /\ now \in Int /\ wake[n] \in Int /\ interval[n] \in Int
            BY <1>0, <3>2, Bounds DEF Awaited, Timely, TypeOK
        <3> DEFINE slot == wake[n] - interval[n]
        <3>4. AskedAt(n, slot) => last_updated'[n] >= slot \/ AskedAt(n, slot)'
            <4>1. SUFFICES ASSUME AskedAt(n, slot) PROVE last_updated'[n] >= slot \/ AskedAt(n, slot)'
                OBVIOUS
            <4>2. PICK d \in network : d.packet = "LIST" /\ d.to = n /\ d.sent \in slot..(slot + MaxLate)
                BY <4>1 DEF AskedAt
            <4>3. CASE d = e
                BY <3>2, <3>3, <4>2, <4>3, UpdatesAssumption DEF PacketInv
            <4>4. CASE d # e
                <5>1. d \in network'
                    BY <1>3, <2>2, <3>2, <4>4, HandleKeeps
                <5>2. slot' = slot
                    BY <3>2
                <5>3. AskedAt(n, slot)'
                    BY <4>2, <5>1, <5>2 DEF AskedAt
                <5>4. QED BY <5>3
            <4>5. QED BY <4>3, <4>4
        <3>5. QED
            BY <1>0, <3>2, <3>3, <3>4 DEF OwnUpdate, Running
    <2>3. QED BY <2>1, <2>2
<1>4. QED
    BY <1>1, <1>2, <1>3 DEF Next, NodeStep
-----------------------------------------------------------------------------
(* The theorems.                                                           *)

\* Types, for any nodes and bounds.
THEOREM TypeCorrectness == Spec => []TypeOK
<1>1. Init => TypeOK
    BY UpdatesAssumption DEF Init, TypeOK, Phases
<1>2. QED BY <1>1, TypeStep, PTL DEF Spec

\* The inductive invariant.
THEOREM UpdateInvariant == Spec => []UpdateInv
<1>1. Init => UpdateInv
    <2> SUFFICES ASSUME Init PROVE UpdateInv
        OBVIOUS
    <2>1. SleepsEnd /\ OwnUpdateInv
        BY DEF Init, SleepsEnd, OwnUpdateInv, OwnUpdate, Running
    <2>2. TimerInv
        <3> SUFFICES ASSUME NEW n \in Nodes PROVE Timely(n)
            BY DEF TimerInv
        <3>1. phase[n] = "down" /\ thread[n] = "none" /\ last_updated[n] <= now
            BY DEF Init
        <3>2. QED BY <3>1 DEF Timely, Waiting, Running
    <2>3. PacketInv
        BY UpdatesAssumption DEF Init, PacketInv
    <2>4. QED BY <2>1, <2>2, <2>3 DEF UpdateInv
<1>2. TypeOK /\ TypeOK' /\ UpdateInv /\ [Next]_vars => UpdateInv'
    BY TimerStep, PacketStep, OwnUpdateStep DEF UpdateInv
<1>3. QED BY <1>1, <1>2, TypeCorrectness, PTL DEF Spec

\* No update thread is ever asleep for good: its sleeps are not negative
\* (discovery.c:215, :236), however late it wakes up within TimingAssumption.
THEOREM SleepsEndHolds == Spec => []SleepsEnd
BY UpdateInvariant, PTL DEF UpdateInv

\* A node that updates drops whoever has been silent for two of the peer's
\* intervals, one of its own, and the time a datagram and a thread may take.
THEOREM SilentPeersInactiveHolds == Spec => []SilentPeersInactive
<1>1. TypeOK /\ UpdateInv => SilentPeersInactive
    <2> SUFFICES ASSUME TypeOK, UpdateInv, NEW n \in Nodes, NEW m \in Nodes \ {n}, Settled(n),
                        now > last_updated[m] + 2 * interval[m] + interval[n] + MaxLate + 2 * MaxDelay
                 PROVE  ~is_active_peer(n, m)
        BY DEF SilentPeersInactive
    <2> DEFINE slot == wake[n] - interval[n]
    <2>0. /\ now \in Int /\ wake[n] \in Int /\ last_updated[n] \in Int /\ last_updated[m] \in Int
          /\ last_seen[n][m] \in Int /\ interval[m] \in Nat
        BY UpdatesAssumption DEF TypeOK
    <2>1. /\ last_seen[n][m] <= last_updated[m] + MaxDelay
          /\ now <= wake[n] + MaxLate
        BY DEF UpdateInv, PacketInv, TimerInv, Timely, Settled, Running, Waiting
    <2>2. last_updated[n] >= now - interval[n] - MaxLate - MaxDelay
        <3>1. CASE last_updated[n] >= slot
            BY <2>0, <2>1, <3>1, Bounds
        <3>2. CASE last_updated[n] >= slot - interval[n] /\ AskedAt(n, slot)
            <4>1. PICK d \in network : d.sent \in slot..(slot + MaxLate)
                BY <3>2 DEF AskedAt
            <4>2. now <= d.sent + MaxDelay
                BY DEF UpdateInv, PacketInv
            <4>3. QED BY <2>0, <3>2, <4>1, <4>2, Bounds
        <3>3. strategy[n] \in {"polling", "broadcast"}
            BY DEF UpdateInv, TimerInv, Timely, Settled, Running
        <3>4. QED
            BY <3>1, <3>2, <3>3 DEF UpdateInv, OwnUpdateInv, OwnUpdate, Settled, Running
    <2>3. last_seen[n][m] + 2 * interval[m] < last_updated[n]
        BY <2>0, <2>1, <2>2, Bounds
    <2>4. QED BY <2>0, <2>3 DEF is_active_peer, Settled
<1>2. QED BY <1>1, TypeCorrectness, UpdateInvariant, PTL
-----------------------------------------------------------------------------
(* Live peers.                                                             *)

\* By this time, what was due is there.
LEMMA DueArrived ==
    ASSUME TypeOK, PacketInv, NEW n \in Nodes, NEW m \in Nodes, NEW t \in Int, NEW w \in Nat,
           Due(n, m, t, w), now > t + w + 2 * MaxDelay
    PROVE  last_seen[n][m] >= t
<1>1. ASSUME NEW d \in network PROVE now <= d.sent + MaxDelay /\ d.sent \in Int
    BY DEF PacketInv, TypeOK, Datagrams
<1>2. now \in Int /\ MaxDelay \in Nat
    BY UpdatesAssumption DEF TypeOK
<1>3. QED BY <1>1, <1>2 DEF Due

LEMMA SeenGrows ==
    ASSUME TypeOK, PacketInv, [Next]_vars, NEW n \in Nodes, NEW m \in Nodes
    PROVE  /\ last_seen[n][m] \in Int /\ last_seen'[n][m] \in Int
           /\ last_seen[n][m] <= last_seen'[n][m]
<1>1. last_seen[n][m] \in Int /\ last_seen[n][m] <= now /\ now \in Int
    BY DEF TypeOK, PacketInv
<1>2. CASE \E d \in network : handle_peer(d) /\ d.to = n /\ d.from = m
    BY <1>1, <1>2 DEF handle_peer, TypeOK
<1>3. QED BY <1>1, <1>2, SeenOnly

\* The datagrams of a listening node leave the network one by one.
LEMMA StepKeeps ==
    ASSUME TypeOK, [Next]_vars, NEW d \in network,
           phase[d.to] \in {"requesting", "running"}
    PROVE  d \in network' \/ handle_list(d) \/ handle_peer(d)
<1>1. CASE UNCHANGED vars \/ Tick
    BY <1>1 DEF vars, Tick
<1>2. ASSUME NEW a \in Nodes, NodeStep(a) PROVE d \in network'
    BY <1>2, NodeStepKeeps
<1>3. ASSUME NEW e \in network, handle_list(e) \/ handle_peer(e), e # d PROVE d \in network'
    BY <1>3, HandleKeeps
<1>4. QED BY <1>1, <1>2, <1>3 DEF Next, NodeStep

LEMMA DueStep ==
    ASSUME TypeOK, PacketInv, [Next]_vars, NEW n \in Nodes, NEW m \in Nodes \ {n},
           NEW t \in Int, NEW w \in Nat,
           Due(n, m, t, w), Up(n), Announced(m), Announced(m)'
    PROVE  Due(n, m, t, w)'
<1>0. now \in Int /\ MaxDelay \in Nat
    BY UpdatesAssumption DEF TypeOK
<1>1. CASE last_seen[n][m] >= t
    BY <1>1, SeenGrows DEF Due
<1>2. ASSUME NEW d \in network, d.packet = "PEER", d.from = m, d.to = n,
             t <= d.sent, d.sent <= t + w + MaxDelay
      PROVE  Due(n, m, t, w)'
    <2>1. CASE d \in network'
        BY <1>2, <2>1 DEF Due
    <2>2. CASE handle_peer(d)
        <3>1. last_seen'[n][m] = now
            BY <1>2, <2>2 DEF handle_peer, TypeOK
        <3>2. d.sent <= now /\ d.sent \in Int
            BY DEF PacketInv, TypeOK, Datagrams
        <3>3. last_seen'[n][m] >= t
            BY <1>0, <1>2, <3>1, <3>2
        <3>4. QED BY <3>3 DEF Due
    <2>3. ~handle_list(d)
        BY <1>2 DEF handle_list
    <2>4. QED BY <1>2, <2>1, <2>2, <2>3, StepKeeps DEF Up, Asked, Running
<1>3. ASSUME NEW d \in network, d.packet = "LIST", d.to = m, t <= d.sent, d.sent <= t + w
      PROVE  Due(n, m, t, w)'
    <2>1. CASE d \in network'
        BY <1>3, <2>1 DEF Due
    <2>2. CASE handle_list(d)
        <3> DEFINE answer == [packet |-> "PEER", from |-> m, to |-> n, sent |-> now]
        <3>1. answer \in network'
            BY <1>3, <2>2 DEF handle_list, Handled, Copies, Listening, Up, Asked, Running
        <3>2. d.sent <= now /\ now <= d.sent + MaxDelay /\ d.sent \in Int
            BY DEF PacketInv, TypeOK, Datagrams
        <3>3. t <= now /\ now <= t + w + MaxDelay
            BY <1>0, <1>3, <3>2
        <3>4. QED BY <3>1, <3>3 DEF Due
    <2>3. ~handle_peer(d)
        BY <1>3 DEF handle_peer
    <2>4. QED BY <1>3, <2>1, <2>2, <2>3, StepKeeps DEF Announced
<1>4. QED BY <1>1, <1>2, <1>3 DEF Due

\* A requesting node goes on requesting or starts its strategy.
LEMMA RequestingStep ==
    ASSUME TypeOK, [Next]_vars, NEW n \in Nodes, phase[n] = "requesting"
    PROVE  \/ /\ phase'[n] = "requesting"
              /\ wake'[n] = wake[n] /\ requests'[n] = requests[n]
           \/ /\ phase'[n] = "requesting" /\ send_discovery_request(n)
              /\ wake'[n] = now + 1 /\ requests'[n] = requests[n] - 1 /\ now >= wake[n]
           \/ phase'[n] = "running" /\ start_strategy(n)
<1>1. CASE UNCHANGED vars \/ Tick
    BY <1>1 DEF vars, Tick, loopVars
<1>2. ASSUME NEW a \in Nodes, NodeStep(a), a # n
      PROVE  phase'[n] = phase[n] /\ wake'[n] = wake[n] /\ requests'[n] = requests[n]
    BY <1>2, NodeStepFrame DEF SameNode
<1>3. ASSUME NEW e \in network, handle_list(e) \/ handle_peer(e)
      PROVE  phase'[n] = phase[n] /\ wake'[n] = wake[n] /\ requests'[n] = requests[n]
    BY <1>3 DEF handle_list, handle_peer, AfterHandling, loopVars, TypeOK
<1>4. CASE send_discovery_request(n)
    BY <1>4 DEF send_discovery_request, TypeOK
<1>5. CASE start_strategy(n)
    BY <1>5 DEF start_strategy, TypeOK
<1>6. CASE \/ discovery_service_start(n) \/ initiate_discovery(n) \/ discovery_service_stop(n)
           \/ stop_returns(n) \/ polling_update_loop(n) \/ broadcast_update_loop(n)
           \/ update_loop_returns(n)
    BY <1>6 DEF discovery_service_start, initiate_discovery, discovery_service_stop, stop_returns,
                polling_update_loop, broadcast_update_loop, update_loop_returns
<1>7. QED
    BY <1>1, <1>2, <1>3, <1>4, <1>5, <1>6 DEF Next, NodeStep

\* Since holds until the requests end, and by then the first was answered.
LEMMA SinceStep ==
    ASSUME TypeOK, [Next]_vars, NEW n \in Nodes, NEW u \in Int, Asked(n), Since(n, u)
    PROVE  \/ Asked(n)' /\ Since(n, u)'
           \/ phase'[n] = "running" /\ now > u + 0 + 2 * MaxDelay
<1>0. /\ now \in Int /\ wake[n] \in Int /\ requests[n] \in Int /\ INITIAL_DISCOVERY_REQS \in Nat
      /\ MaxDelay \in Nat /\ 2 * MaxDelay < INITIAL_DISCOVERY_REQS
    BY UpdatesAssumption, TimingAssumption DEF TypeOK
<1>1. CASE start_strategy(n) /\ phase'[n] = "running"
    BY <1>0, <1>1 DEF start_strategy, Since
<1>2. CASE /\ phase'[n] = "requesting"
           /\ \/ wake'[n] = wake[n] /\ requests'[n] = requests[n]
              \/ wake'[n] = now + 1 /\ requests'[n] = requests[n] - 1 /\ now >= wake[n]
    BY <1>0, <1>2 DEF Asked, Since
<1>3. QED BY <1>1, <1>2, RequestingStep DEF Asked

LEMMA HeardStep ==
    ASSUME TypeOK, PacketInv, [Next]_vars, NEW n \in Nodes, NEW m \in Nodes \ {n}, NEW t \in Int,
           Heard(n, m, t), Up(n), Up(n)', Announced(m), Announced(m)'
    PROVE  Heard(n, m, t)'
<1>0. now \in Int /\ now' \in {now, now + 1}
    BY NowGrows
<1>1. CASE last_seen[n][m] >= t
    BY <1>1, SeenGrows DEF Heard
<1>2. ASSUME NEW u \in t..now, ByRequest(n, m, u) \/ ByAnnouncement(n, m, u)
      PROVE  Heard(n, m, t)'
    <2>0. u \in Int /\ u \in t..now'
        BY <1>0
    <2>1. Due(n, m, u, 0) /\ Due(n, m, u, 0)'
        BY <1>2, <2>0, DueStep DEF ByRequest, ByAnnouncement
    <2>2. CASE now > u + 0 + 2 * MaxDelay
        BY <2>0, <2>1, <2>2, DueArrived, SeenGrows DEF Heard
    <2>3. CASE ByRequest(n, m, u) /\ ~(now > u + 0 + 2 * MaxDelay)
        <3>1. Asked(n)' /\ Since(n, u)'
            BY <2>0, <2>3, SinceStep DEF ByRequest
        <3>2. ByRequest(n, m, u)'
            BY <2>1, <3>1 DEF ByRequest
        <3>3. QED BY <2>0, <3>2 DEF Heard
    <2>4. CASE ByAnnouncement(n, m, u) /\ ~(now > u + 0 + 2 * MaxDelay)
        <3>1. CASE Asked(m)
            <4>1. Asked(m)' /\ Since(m, u)'
                BY <2>0, <2>4, <3>1, SinceStep DEF ByAnnouncement
            <4>2. ByAnnouncement(n, m, u)'
                BY <2>1, <4>1 DEF ByAnnouncement, Asked
            <4>3. QED BY <2>0, <4>2 DEF Heard
        <3>2. CASE ~Asked(m)
            <4>0. /\ requests[m] \in 0..INITIAL_DISCOVERY_REQS /\ INITIAL_DISCOVERY_REQS \in Nat
                  /\ INITIAL_DISCOVERY_REQS > 0
                BY UpdatesAssumption, TimingAssumption DEF TypeOK
            <4>1. phase[m] = "requesting" /\ requests[m] = INITIAL_DISCOVERY_REQS
                BY <2>4, <3>2, <4>0 DEF ByAnnouncement, Asked
            <4>2. ~start_strategy(m)
                BY <4>0, <4>1 DEF start_strategy
            <4>3. /\ phase'[m] = "requesting"
                  /\ \/ requests'[m] = INITIAL_DISCOVERY_REQS
                     \/ wake'[m] = now + 1 /\ requests'[m] = INITIAL_DISCOVERY_REQS - 1
                BY <4>1, <4>2, RequestingStep
            <4>4. Asked(m)' => Since(m, u)'
                BY <1>0, <2>0, <4>0, <4>3 DEF Asked, Since
            <4>5. ByAnnouncement(n, m, u)'
                BY <2>1, <4>3, <4>4 DEF ByAnnouncement
            <4>6. QED BY <2>0, <4>5 DEF Heard
        <3>3. QED BY <3>1, <3>2
    <2>5. QED BY <1>2, <2>2, <2>3, <2>4
<1>3. QED BY <1>1, <1>2 DEF Heard

\* A new one of two that are up hears of the other as it asks or announces itself.
LEMMA FirstRequest ==
    ASSUME TypeOK, NEW n \in Nodes, NEW m \in Nodes \ {n}, NEW t \in Int, t <= now,
           send_discovery_request(n), ~Asked(n), Announced(m)
    PROVE  Heard(n, m, t)'
<1>0. /\ now \in Int /\ requests[n] \in 0..INITIAL_DISCOVERY_REQS /\ INITIAL_DISCOVERY_REQS \in Nat
    BY UpdatesAssumption DEF TypeOK
<1>1. PICK u \in Int : u = now
    BY <1>0
<1>2. now' = u /\ u \in t..u
    BY <1>0, <1>1 DEF send_discovery_request
<1>3. requests[n] = INITIAL_DISCOVERY_REQS /\ requests[n] > 0
    BY <1>0 DEF send_discovery_request, Asked
<1>4. /\ phase'[n] = "requesting" /\ requests'[n] = INITIAL_DISCOVERY_REQS - 1
      /\ wake'[n] = u + 1
    BY <1>1, <1>3 DEF send_discovery_request, TypeOK
<1>5. Asked(n)' /\ Since(n, u)'
    BY <1>0, <1>1, <1>4 DEF Asked, Since
<1>6. [packet |-> "LIST", from |-> n, to |-> m, sent |-> u] \in network'
    BY <1>1 DEF send_discovery_request, Send, Copies, Listening, Announced
<1>7. Due(n, m, u, 0)'
    BY <1>6 DEF Due
<1>8. QED BY <1>2, <1>5, <1>7 DEF Heard, ByRequest

LEMMA FirstAnnouncement ==
    ASSUME TypeOK, NEW n \in Nodes, NEW m \in Nodes \ {n}, NEW t \in Int, t <= now,
           initiate_discovery(m), Up(n)
    PROVE  Heard(n, m, t)'
<1>0. now \in Int /\ INITIAL_DISCOVERY_REQS \in Nat /\ MaxDelay \in Nat
    BY UpdatesAssumption DEF TypeOK
<1>1. PICK u \in Int : u = now
    BY <1>0
<1>2. now' = u /\ u \in t..u
    BY <1>0, <1>1 DEF initiate_discovery
<1>3. phase'[m] = "requesting" /\ requests'[m] = INITIAL_DISCOVERY_REQS
    BY DEF initiate_discovery, TypeOK
<1>4. ~Asked(m)'
    BY <1>0, <1>3 DEF Asked
<1>5. [packet |-> "PEER", from |-> m, to |-> n, sent |-> u] \in network'
    BY <1>1 DEF initiate_discovery, Send, Copies, Listening, Up, Asked, Running
<1>6. Due(n, m, u, 0)'
    BY <1>0, <1>5 DEF Due
<1>7. QED BY <1>2, <1>3, <1>4, <1>6 DEF Heard, ByAnnouncement

\* How a node comes up, and how it comes to be announced.
LEMMA PhaseStep ==
    ASSUME TypeOK, [Next]_vars, NEW n \in Nodes
    PROVE  /\ Up(n)' => Up(n) \/ (send_discovery_request(n) /\ ~Asked(n))
           /\ Announced(n)' => Announced(n) \/ initiate_discovery(n)
<1>0. /\ requests[n] \in 0..INITIAL_DISCOVERY_REQS /\ INITIAL_DISCOVERY_REQS \in Nat
      /\ INITIAL_DISCOVERY_REQS > 0
    BY UpdatesAssumption, TimingAssumption DEF TypeOK
<1>1. CASE UNCHANGED vars \/ Tick
    BY <1>1 DEF vars, Tick, Up, Asked, Running, Announced
<1>2. ASSUME NEW a \in Nodes, NodeStep(a), a # n
      PROVE  phase'[n] = phase[n] /\ requests'[n] = requests[n]
    BY <1>2, NodeStepFrame DEF SameNode
<1>3. ASSUME NEW e \in network, handle_list(e) \/ handle_peer(e)
      PROVE  (phase'[n] = phase[n] \/ phase'[n] = "deaf") /\ requests'[n] = requests[n]
    BY <1>3 DEF handle_list, handle_peer, AfterHandling, loopVars, TypeOK
<1>4. CASE start_strategy(n)
    BY <1>0, <1>4 DEF start_strategy, Up, Asked, Announced
<1>5. CASE initiate_discovery(n)
    BY <1>0, <1>5 DEF initiate_discovery, TypeOK, Up, Asked, Running
<1>6. CASE send_discovery_request(n)
    BY <1>6 DEF send_discovery_request, Up, Announced
<1>7. CASE \/ discovery_service_start(n) \/ discovery_service_stop(n) \/ stop_returns(n)
           \/ polling_update_loop(n) \/ broadcast_update_loop(n) \/ update_loop_returns(n)
    BY <1>7 DEF discovery_service_start, discovery_service_stop, stop_returns, polling_update_loop,
                broadcast_update_loop, update_loop_returns, TypeOK, Up, Asked, Running, Announced
<1>8. QED
    BY <1>1, <1>2, <1>3, <1>4, <1>5, <1>6, <1>7 DEF Next, NodeStep, Up, Asked, Running, Announced

LEMMA HeardNext ==
    ASSUME TypeOK, PacketInv, [Next]_vars, NEW n \in Nodes, NEW m \in Nodes \ {n},
           NEW t \in Int, t <= now, Up(n)', Announced(m)',
           Up(n) /\ Announced(m) => Heard(n, m, t)
    PROVE  Heard(n, m, t)'
<1>1. CASE Up(n) /\ Announced(m)
    BY <1>1, HeardStep
<1>2. CASE ~Up(n)
    <2>1. send_discovery_request(n) /\ ~Asked(n)
        BY <1>2, PhaseStep
    <2>2. phase'[m] = phase[m]
        BY <2>1 DEF send_discovery_request
    <2>3. QED BY <2>1, <2>2, FirstRequest DEF Announced
<1>3. CASE Up(n) /\ ~Announced(m)
    BY <1>3, PhaseStep, FirstAnnouncement
<1>4. QED BY <1>1, <1>2, <1>3

\* The turns of r's loop, the first included, are all that changes its slot.
TurnStep(r) == start_strategy(r) \/ polling_update_loop(r) \/ broadcast_update_loop(r)

LEMMA RunningStep ==
    ASSUME TypeOK, [Next]_vars, NEW r \in Nodes, Running(r)', ~TurnStep(r)
    PROVE  /\ Running(r) /\ wake'[r] = wake[r] /\ sent'[r] = sent[r]
           /\ strategy'[r] = strategy[r]
<1>1. CASE UNCHANGED vars \/ Tick
    BY <1>1 DEF vars, Tick, Running, loopVars
<1>2. ASSUME NEW a \in Nodes, NodeStep(a), a # r
      PROVE  SameNode(r)
    BY <1>2, NodeStepFrame
<1>3. ASSUME NEW e \in network, handle_list(e) \/ handle_peer(e)
      PROVE  /\ Running(r) /\ wake'[r] = wake[r] /\ sent'[r] = sent[r]
             /\ strategy'[r] = strategy[r]
    BY <1>3 DEF handle_list, handle_peer, AfterHandling, loopVars, TypeOK, Running
<1>4. CASE \/ discovery_service_start(r) \/ initiate_discovery(r) \/ send_discovery_request(r)
           \/ discovery_service_stop(r) \/ stop_returns(r) \/ update_loop_returns(r)
    BY <1>4 DEF discovery_service_start, initiate_discovery, send_discovery_request,
                discovery_service_stop, stop_returns, update_loop_returns, TypeOK, Running
<1>5. QED
    BY <1>1, <1>2, <1>3, <1>4 DEF Next, NodeStep, TurnStep, SameNode, Running

\* What a turn of r leaves: a packet sent in the slot that begins at t.
Turned(r, t) ==
    /\ wake'[r] - interval[r] = t /\ t <= now /\ now <= t + MaxLate /\ now' = now
    /\ Up(r) /\ Announced(r)
    /\ \/ strategy'[r] = "polling" /\ Send(r, "LIST")
       \/ strategy'[r] = "broadcast" /\ Send(r, "PEER")
    /\ sent'[r] = 2 => Running(r) /\ sent[r] > 0 /\ wake[r] = t /\ strategy'[r] = strategy[r]

LEMMA FirstTurn ==
    ASSUME TypeOK, NEW r \in Nodes, Timely(r), start_strategy(r), sent'[r] > 0
    PROVE  \E t \in Int : Turned(r, t)
<1>0. /\ now \in Int /\ wake[r] \in Int /\ interval[r] \in Nat /\ last_updated[r] \in Int
      /\ MaxLate \in Nat /\ INITIAL_DISCOVERY_REQS \in Nat /\ INITIAL_DISCOVERY_REQS > 0
      /\ MaxLate + 2 * MaxDelay < interval[r]
      /\ (INITIAL_DISCOVERY_REQS - 0) * (MaxLate + 1) <= interval[r]
    BY Bounds, UpdatesAssumption, TimingAssumption DEF TypeOK
<1>1. /\ phase[r] = "requesting" /\ requests[r] = 0 /\ now >= wake[r]
      /\ strategy' = strategy
    BY DEF start_strategy
<1>2. /\ sent[r] = 0 /\ now <= wake[r] + MaxLate /\ last_updated[r] <= now
      /\ wake[r] <= last_updated[r] + (INITIAL_DISCOVERY_REQS - 0) * (MaxLate + 1)
    BY <1>1 DEF Timely, Waiting
<1>3. Up(r) /\ Announced(r)
    BY <1>0, <1>1 DEF Up, Asked, Announced
<1>4. now' = now
    BY DEF start_strategy
<1>5. strategy[r] # "ask_once"
    <2>1. CASE sent'[r] = sent[r]
        BY <1>2, <2>1
    <2>2. CASE sent' # sent
        BY <2>2 DEF start_strategy, loopVars
    <2>3. QED BY <2>1, <2>2
<1>6. CASE strategy[r] = "polling" /\ PollingTurn(r, last_updated[r] + interval[r])
    <2> DEFINE t == last_updated[r] + interval[r]
    <2>0. (INITIAL_DISCOVERY_REQS - 0) * (MaxLate + 1) \in Int
        BY <1>0
    <2>1. t \in Int /\ now <= t + MaxLate /\ now <= t + interval[r]
        <3> DEFINE q == (INITIAL_DISCOVERY_REQS - 0) * (MaxLate + 1)
        <3>1. q \in Int /\ q <= interval[r] /\ wake[r] <= last_updated[r] + q
            BY <1>0, <1>2, <2>0
        <3> HIDE DEF q
        <3>2. QED BY <1>0, <1>2, <3>1, UpdatesAssumption
    <2>2. wake'[r] = t + interval[r] /\ (t <= now \/ sent'[r] = sent[r])
        BY <1>6, <2>1, PollingTurnTimely
    <2>3. t <= now
        BY <1>2, <2>2
    <2>4. Send(r, "LIST") /\ sent'[r] = 1
        BY <1>0, <1>2, <1>6, <2>1, <2>3 DEF PollingTurn, CountSent, TypeOK
    <2>5. wake'[r] - interval[r] = t
        BY <1>0, <2>1, <2>2
    <2>6. Turned(r, t)
        BY <1>1, <1>3, <1>4, <1>6, <2>1, <2>3, <2>4, <2>5 DEF Turned
    <2>7. QED BY <2>1, <2>6
<1>7. CASE strategy[r] = "broadcast" /\ BroadcastTurn(r, now + interval[r])
    <2>1. wake'[r] = now + interval[r]
        BY <1>0, <1>7, BroadcastTurnTimely
    <2>2. Send(r, "PEER") /\ sent'[r] = 1
        BY <1>2, <1>7 DEF BroadcastTurn, CountSent, TypeOK
    <2>3. wake'[r] - interval[r] = now
        BY <1>0, <2>1
    <2>4. Turned(r, now)
        BY <1>0, <1>1, <1>3, <1>4, <1>7, <2>2, <2>3 DEF Turned
    <2>5. QED BY <1>0, <2>4
<1>8. QED BY <1>5, <1>6, <1>7 DEF start_strategy

LEMMA LaterTurn ==
    ASSUME TypeOK, NEW r \in Nodes, Timely(r),
           polling_update_loop(r) \/ broadcast_update_loop(r), sent'[r] > 0
    PROVE  \E t \in Int : Turned(r, t)
<1>0. /\ now \in Int /\ wake[r] \in Int /\ interval[r] \in Nat /\ next_update[r] \in Int
      /\ MaxLate \in Nat /\ MaxLate < interval[r] /\ sent[r] \in 0..2
    BY Bounds DEF TypeOK
<1>1. /\ phase[r] = "running" /\ thread[r] = "asleep" /\ now >= wake[r]
      /\ strategy' = strategy /\ now' = now
    BY DEF polling_update_loop, broadcast_update_loop, Awake
<1>2. now <= wake[r] + MaxLate
    BY <1>1 DEF Timely, Waiting
<1>3. Up(r) /\ Announced(r) /\ Running(r)
    BY <1>1 DEF Up, Announced, Running
<1>4. CASE polling_update_loop(r)
    <2>1. strategy[r] = "polling" /\ next_update[r] = wake[r] /\ PollingTurn(r, wake[r])
        BY <1>1, <1>4 DEF polling_update_loop, Timely
    <2>2. wake'[r] = wake[r] + interval[r]
        BY <1>0, <1>2, <2>1, PollingTurnTimely
    <2>3. Send(r, "LIST") /\ CountSent(r)
        BY <1>0, <1>1, <2>1 DEF PollingTurn
    <2>4. sent'[r] = 2 => sent[r] > 0
        BY <1>0, <2>3 DEF CountSent, TypeOK
    <2>5. wake'[r] - interval[r] = wake[r]
        BY <1>0, <2>2
    <2>6. Turned(r, wake[r])
        BY <1>0, <1>1, <1>2, <1>3, <2>1, <2>3, <2>4, <2>5 DEF Turned
    <2>7. QED BY <1>0, <2>6
<1>5. CASE broadcast_update_loop(r)
    <2>1. /\ strategy[r] = "broadcast" /\ next_update[r] = wake[r] + interval[r]
          /\ BroadcastTurn(r, wake[r] + interval[r])
        BY <1>1, <1>5 DEF broadcast_update_loop, Timely
    <2>2. wake'[r] = wake[r] + interval[r]
        BY <1>0, <1>2, <2>1, BroadcastTurnTimely
    <2>3. Send(r, "PEER") /\ CountSent(r)
        BY <2>1 DEF BroadcastTurn
    <2>4. sent'[r] = 2 => sent[r] > 0
        BY <1>0, <2>3 DEF CountSent, TypeOK
    <2>5. wake'[r] - interval[r] = wake[r]
        BY <1>0, <2>2
    <2>6. Turned(r, wake[r])
        BY <1>0, <1>1, <1>2, <1>3, <2>1, <2>3, <2>4, <2>5 DEF Turned
    <2>7. QED BY <1>0, <2>6
<1>6. QED BY <1>4, <1>5

\* A slot of r's loop, whose packet makes n hear m: r is m, or n that polls.
TurnsFor(n, m, r) == r = m \/ (r = n /\ strategy[n] = "polling")

LEMMA TurnLeadsTo ==
    ASSUME TypeOK, TypeOK', NEW n \in Nodes, NEW m \in Nodes \ {n}, NEW r \in {n, m}, NEW t \in Int,
           Turned(r, t), TurnsFor(n, m, r)', Up(n), Announced(m)
    PROVE  Due(n, m, t, MaxLate)'
<1>0. now \in Int /\ MaxLate \in Nat /\ MaxDelay \in Nat
    BY UpdatesAssumption DEF TypeOK
<1>1. t <= now /\ now <= t + MaxLate
    BY DEF Turned
<1>2. CASE Send(r, "LIST")
    <2>1. [packet |-> "LIST", from |-> r, to |-> m, sent |-> now] \in network'
        BY <1>2 DEF Send, Copies, Listening, Announced
    <2>2. QED BY <1>1, <2>1 DEF Due
<1>3. CASE strategy'[r] = "broadcast" /\ Send(r, "PEER")
    <2>1. r = m
        BY <1>3 DEF TurnsFor
    <2>2. [packet |-> "PEER", from |-> m, to |-> n, sent |-> now] \in network'
        BY <1>3, <2>1 DEF Send, Copies, Listening, Up, Asked, Running
    <2>3. QED BY <1>0, <1>1, <2>2 DEF Due
<1>4. QED BY <1>2, <1>3 DEF Turned

LEMMA LoopHeardStep ==
    ASSUME TypeOK, TypeOK', TimerInv, PacketInv, [Next]_vars,
           NEW n \in Nodes, NEW m \in Nodes \ {n}, NEW r \in {n, m},
           Up(n)', Announced(m)', Running(r)', TurnsFor(n, m, r)',
           Up(n) /\ Announced(m) /\ Running(r) /\ TurnsFor(n, m, r) => LoopHeard(n, m, r)
    PROVE  LoopHeard(n, m, r)'
<1>0. /\ now \in Int /\ wake[r] \in Int /\ wake'[r] \in Int /\ interval[r] \in Nat
      /\ MaxLate \in Nat /\ MaxDelay \in Nat /\ MaxLate + 2 * MaxDelay < interval[r]
    BY Bounds DEF TypeOK
<1>1. SUFFICES ASSUME sent'[r] > 0
      PROVE  LoopHeard(n, m, r)'
    BY DEF LoopHeard
<1>2. PICK t \in Int : t = wake'[r] - interval[r]
    BY <1>0
<1>3. PICK s \in Int : s = t - interval[r]
    BY <1>0
<1>4. SUFFICES /\ Due(n, m, t, MaxLate)' \/ Heard(n, m, t)'
               /\ sent'[r] = 2 => Heard(n, m, s)'
    BY <1>2, <1>3 DEF LoopHeard
<1>5. CASE TurnStep(r)
    <2>1. Timely(r)
        BY DEF TimerInv
    <2>2. PICK v \in Int : Turned(r, v)
        BY <1>1, <1>5, <2>1, FirstTurn, LaterTurn DEF TurnStep
    <2>3. v = t
        BY <1>2, <2>2 DEF Turned
    <2>4. Turned(r, t) /\ Up(r) /\ Announced(r)
        BY <2>2, <2>3 DEF Turned
    <2>5. ASSUME NEW x \in {n, m}, x # r PROVE SameNode(x)
        BY <1>5, <2>5, NodeStepFrame DEF TurnStep, NodeStep
    <2>6. Up(n) /\ Announced(m)
        BY <2>4, <2>5 DEF SameNode, Up, Asked, Running, Announced
    <2>7. Due(n, m, t, MaxLate)'
        BY <2>4, <2>6, TurnLeadsTo
    <2>8. ASSUME sent'[r] = 2 PROVE Heard(n, m, s)'
        <3>1. /\ Running(r) /\ sent[r] > 0 /\ wake[r] = t /\ strategy'[r] = strategy[r]
              /\ t <= now
            BY <2>4, <2>8 DEF Turned
        <3>2. TurnsFor(n, m, r)
            BY <3>1 DEF TurnsFor
        <3>3. Due(n, m, s, MaxLate) \/ Heard(n, m, s)
            BY <1>3, <2>6, <3>1, <3>2 DEF LoopHeard
        <3>4. now > s + MaxLate + 2 * MaxDelay
            BY <1>0, <1>3, <3>1
        <3>5. Heard(n, m, s)
            BY <1>0, <3>3, <3>4, DueArrived DEF Heard
        <3>6. QED BY <2>6, <3>5, HeardStep
    <2>9. QED BY <2>7, <2>8
<1>6. CASE ~TurnStep(r)
    <2>1. /\ Running(r) /\ wake'[r] = wake[r] /\ sent'[r] = sent[r]
          /\ strategy'[r] = strategy[r]
        BY <1>6, RunningStep
    <2>2. TurnsFor(n, m, r)
        BY <2>1 DEF TurnsFor
    <2>3. t <= now /\ s <= now
        BY <1>0, <1>1, <1>2, <1>3, <2>1 DEF TimerInv, Timely
    <2>4. Up(n) /\ Announced(m) =>
              /\ Due(n, m, t, MaxLate) \/ Heard(n, m, t)
              /\ sent[r] = 2 => Heard(n, m, s)
        BY <1>1, <1>2, <1>3, <2>1, <2>2 DEF LoopHeard
    <2>5. sent'[r] = 2 => Heard(n, m, s)'
        BY <2>1, <2>3, <2>4, HeardNext
    <2>6. CASE Up(n) /\ Announced(m) /\ Due(n, m, t, MaxLate)
        BY <1>0, <2>5, <2>6, DueStep
    <2>7. CASE Up(n) /\ Announced(m) => Heard(n, m, t)
        BY <2>3, <2>5, <2>7, HeardNext
    <2>8. QED BY <2>4, <2>6, <2>7
<1>7. QED BY <1>5, <1>6

LEMMA LiveStep ==
    ASSUME TypeOK, TypeOK', TimerInv, PacketInv, LiveInv, [Next]_vars
    PROVE  LiveInv'
<1> SUFFICES ASSUME NEW n \in Nodes, NEW m \in Nodes \ {n}
    PROVE  /\ Up(n)' /\ Announced(m)' => Heard(n, m, 1)'
           /\ Up(n)' /\ Running(m)' => LoopHeard(n, m, m)'
           /\ Running(n)' /\ strategy'[n] = "polling" /\ Announced(m)' => LoopHeard(n, m, n)'
    BY DEF LiveInv
<1>1. /\ Up(n) /\ Announced(m) => Heard(n, m, 1)
      /\ Up(n) /\ Running(m) => LoopHeard(n, m, m)
      /\ Running(n) /\ strategy[n] = "polling" /\ Announced(m) => LoopHeard(n, m, n)
    BY DEF LiveInv
<1>2. 1 \in Int /\ 1 <= now
    BY DEF TypeOK
<1>3. Up(n)' /\ Announced(m)' => Heard(n, m, 1)'
    BY <1>1, <1>2, HeardNext
<1>4. ASSUME Up(n)', Running(m)' PROVE LoopHeard(n, m, m)'
    <2>1. Announced(m)' /\ TurnsFor(n, m, m)'
        BY <1>4 DEF Announced, Running, TurnsFor
    <2>2. QED BY <1>1, <1>4, <2>1, LoopHeardStep
<1>5. ASSUME Running(n)', strategy'[n] = "polling", Announced(m)' PROVE LoopHeard(n, m, n)'
    <2>1. Up(n)' /\ TurnsFor(n, m, n)'
        BY <1>5 DEF Up, TurnsFor
    <2>2. TurnsFor(n, m, n) => strategy[n] = "polling"
        BY DEF TurnsFor
    <2>3. QED BY <1>1, <1>5, <2>1, <2>2, LoopHeardStep
<1>6. QED BY <1>3, <1>4, <1>5

\* Between two that are up, whatever should have been heard was heard, is under
\* way, or was asked for, whoever started first and whatever was delayed.
THEOREM LiveInvariant == Spec => []LiveInv
<1>1. Init => LiveInv
    BY DEF Init, LiveInv, Up, Asked, Running
<1>2. TypeOK /\ TypeOK' /\ UpdateInv /\ LiveInv /\ [Next]_vars => LiveInv'
    BY LiveStep DEF UpdateInv
<1>3. QED BY <1>1, <1>2, TypeCorrectness, UpdateInvariant, PTL DEF Spec

\* No node that runs takes another that runs for inactive, once the loop that
\* brings its updates has made two turns: is_active_peer_periodic_update allows
\* for two intervals, and the packets of the loops are never that far apart.
THEOREM LivePeersActiveHolds == Spec => []LivePeersActive
<1>1. TypeOK /\ UpdateInv /\ LiveInv => LivePeersActive
    <2> SUFFICES ASSUME TypeOK, UpdateInv, LiveInv, NEW n \in Nodes, NEW m \in Nodes \ {n},
                        Running(n), Running(m)
        PROVE  /\ last_seen[n][m] > 0
               /\ Settled(m) \/ Asks(n, m) => is_active_peer(n, m)
        BY DEF LivePeersActive
    <2>0. /\ last_seen[n][m] \in Int /\ last_updated[n] \in Int /\ now \in Int
          /\ PacketInv /\ TimerInv
        BY DEF TypeOK, UpdateInv
    <2>1. \A t : Heard(n, m, t) => last_seen[n][m] >= t
        BY DEF Heard, ByRequest, ByAnnouncement, Asked, Running
    <2>2. Up(n) /\ Announced(m)
        BY DEF Up, Announced, Running
    <2>3. last_seen[n][m] > 0
        BY <2>0, <2>1, <2>2 DEF LiveInv
    <2>4. ASSUME NEW r \in {n, m}, Settled(r), LoopHeard(n, m, r), interval[r] <= interval[m]
          PROVE  is_active_peer(n, m)
        <3>0. /\ wake[r] \in Int /\ interval[r] \in Nat /\ interval[m] \in Nat
              /\ MaxLate \in Nat /\ MaxDelay \in Nat /\ MaxLate + 2 * MaxDelay < interval[r]
            BY Bounds DEF TypeOK
        <3>1. sent[r] = 2 /\ strategy[r] # "ask_once"
            BY <2>4 DEF Settled
        <3>2. now <= wake[r] + MaxLate /\ last_updated[n] <= now
            BY <2>0, <2>4 DEF TimerInv, Timely, Settled, Waiting
        <3>3. PICK t \in Int : t = wake[r] - interval[r]
            BY <3>0
        <3>4. PICK s \in Int : s = t - interval[r]
            BY <3>0
        <3>5. /\ Due(n, m, t, MaxLate) \/ last_seen[n][m] >= t
              /\ last_seen[n][m] >= s
            BY <2>1, <2>4, <3>1, <3>3, <3>4 DEF LoopHeard
        <3>6. last_seen[n][m] >= t \/ now <= t + MaxLate + 2 * MaxDelay
            BY <2>0, <3>0, <3>5, DueArrived
        <3>7. last_seen[n][m] + 2 * interval[m] >= last_updated[n]
            BY <2>0, <2>4, <3>0, <3>2, <3>3, <3>4, <3>5, <3>6
        <3>8. QED BY <3>7 DEF is_active_peer
    <2>5. CASE Settled(m)
        <3>1. LoopHeard(n, m, m) /\ interval[m] <= interval[m]
            BY <2>2, Bounds DEF LiveInv
        <3>2. QED BY <2>3, <2>4, <2>5, <3>1
    <2>6. CASE Asks(n, m)
        <3>1. LoopHeard(n, m, n) /\ interval[n] <= interval[m] /\ Settled(n)
            BY <2>2, <2>6 DEF LiveInv, Asks
        <3>2. QED BY <2>3, <2>4, <3>1
    <2>7. QED BY <2>3, <2>5, <2>6
<1>2. QED BY <1>1, TypeCorrectness, UpdateInvariant, LiveInvariant, PTL

=============================================================================
