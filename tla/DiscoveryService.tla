--------------------------- MODULE DiscoveryService ---------------------------
(***************************************************************************)
(* The discovery service of one node, src/net/discovery.c: how its three    *)
(* threads start, work and end.                                            *)
(*                                                                         *)
(*   main      the application: starts, stops, restarts, cleans up;        *)
(*   listener  handles the datagrams that reach the node's port;           *)
(*   update    sends LIST or PEER once per interval, if the strategy says. *)
(*                                                                         *)
(* They share the service, its sockets and the peerstore, which Peerstore   *)
(* models; each call into it is one step, as it holds store_lock.  When an  *)
(* update is due is left open: a sleep ends at some time.                   *)
(***************************************************************************)
EXTENDS Naturals, Sequences

CONSTANTS
    Strategies,  \* those the application starts with: "ask_once", "polling", "broadcast"
    INITIAL_DISCOVERY_REQS,
    lossy,       \* may the network lose what this node sends to itself?
    InboxSize,   \* bound: datagrams the listener's socket holds
    MaxStarts,   \* bound: how often the application starts the service
    MaxTime,     \* bound: the last value of time(0)
    NULL

Threads == {"main", "listener", "update"}
Packets == {"LIST", "PEER", "STOP"}

ASSUME DiscoveryAssumption ==
    /\ Strategies \subseteq {"ask_once", "polling", "broadcast"}
    /\ INITIAL_DISCOVERY_REQS \in Nat /\ InboxSize \in Nat
    /\ MaxStarts \in Nat /\ MaxTime \in Nat \ {0}
    /\ lossy \in BOOLEAN
    /\ NULL \notin Threads

VARIABLES
    pc,                 \* pc[t]: what thread t does next
    isrunning,
    strategy,           \* the strategy of the last start
    requests,           \* LIST packets initiate_discovery has yet to send
    cancelability,      \* the update thread's: "deferred", as it starts, or "disabled"
    update_time_lock,   \* the thread that holds it, or NULL
    last_updated,       \* the service's
    peers_last_update,  \* the peerstore's last_update
    sockets,            \* "none", "open", or "destroyed"
    inbox,              \* what waits at the listener's socket
    store,              \* "live", or "destroyed" with the service
    cleaning,           \* was the stop under way called by discovery_service_cleanup?
    starts, now

vars == <<pc, isrunning, strategy, requests, cancelability, update_time_lock, last_updated,
          peers_last_update, sockets, inbox, store, cleaning, starts, now>>

timeVars == <<update_time_lock, last_updated, peers_last_update, now>>
lifeVars == <<sockets, store, cleaning, starts>>

Goto(t, label) == pc' = [pc EXCEPT ![t] = label]
Ended(t) == pc[t] \in {"none", "ended"}

\* A datagram to the broadcast address reaches this node too, unless its socket
\* is full or the network loses it.
Send(packet) ==
    \/ Len(inbox) < InboxSize /\ inbox' = Append(inbox, packet)
    \/ (lossy \/ Len(inbox) = InboxSize) /\ UNCHANGED inbox

\* peerstore_init and discovery_service_create have been called, in that order.
Init ==
    /\ pc = [t \in Threads |-> IF t = "main" THEN "stopped" ELSE "none"]
    /\ isrunning = FALSE
    /\ strategy = NULL /\ requests = 0 /\ cancelability = "deferred"
    /\ update_time_lock = NULL
    /\ last_updated = 1 /\ peers_last_update \in 0..1 /\ now = 1
    /\ sockets = "none" /\ inbox = <<>> /\ store = "live"
    /\ cleaning = FALSE /\ starts = 0
-----------------------------------------------------------------------------
(* send_peer_packet, on any thread.                                        *)

\* Where a thread goes on when its packet is out.
Return(t) == CASE t = "main" -> "request" [] t = "listener" -> "loop" [] t = "update" -> "sleep"

send_peer_packet(t) ==
    /\ pc[t] = "send_peer"
    /\ Send("PEER")
    /\ Goto(t, "lock")
    /\ UNCHANGED <<isrunning, strategy, requests, cancelability, timeVars, lifeVars>>

\* Mutant: the lock is not taken.
no_update_time_lock(t) ==
    /\ pc[t] = "lock"
    /\ Goto(t, "set_time")
    /\ UNCHANGED <<isrunning, strategy, requests, cancelability, timeVars, inbox, lifeVars>>

lock_update_time(t) ==
    /\ pc[t] = "lock"
    /\ update_time_lock = NULL
    /\ update_time_lock' = t
    /\ Goto(t, "set_time")
    /\ UNCHANGED <<isrunning, strategy, requests, cancelability, last_updated,
                   peers_last_update, now, inbox, lifeVars>>

set_last_updated(t) ==
    /\ pc[t] = "set_time"
    /\ last_updated' = now
    /\ Goto(t, "set_store_time")
    /\ UNCHANGED <<isrunning, strategy, requests, cancelability, update_time_lock,
                   peers_last_update, now, inbox, lifeVars>>

\* peerstore_set_last_update_time, and the unlock after it.
set_store_time_and_unlock(t) ==
    /\ pc[t] = "set_store_time"
    /\ peers_last_update' = last_updated
    /\ update_time_lock' = NULL
    /\ Goto(t, Return(t))
    /\ UNCHANGED <<isrunning, strategy, requests, cancelability, last_updated, now, inbox, lifeVars>>

safely_update_last_update_time(t) ==
    lock_update_time(t) \/ set_last_updated(t) \/ set_store_time_and_unlock(t)
-----------------------------------------------------------------------------
(* The listening thread.                                                   *)

discovery_loop ==
    /\ pc["listener"] = "loop"
    /\ Goto("listener", IF isrunning THEN "receive" ELSE "ended")
    /\ UNCHANGED <<isrunning, strategy, requests, cancelability, timeVars, inbox, lifeVars>>

\* LIST is answered; PEER is stored; STOP, like anything else, is ignored.
discovery_receive_handler ==
    /\ pc["listener"] = "receive"
    /\ inbox # <<>>
    /\ inbox' = Tail(inbox)
    /\ Goto("listener", CASE Head(inbox) = "LIST" -> "send_peer"
                          [] Head(inbox) = "PEER" -> "handle_peer"
                          [] Head(inbox) = "STOP" -> "loop")
    /\ UNCHANGED <<isrunning, strategy, requests, cancelability, timeVars, lifeVars>>

handle_peer ==
    /\ pc["listener"] = "handle_peer"
    /\ Goto("listener", "loop")
    /\ UNCHANGED <<isrunning, strategy, requests, cancelability, timeVars, inbox, lifeVars>>
-----------------------------------------------------------------------------
(* The update thread.                                                      *)

\* Mutant: the thread may be cancelled wherever it is.
pthread_setcanceltype == "asynchronous"

\* PTHREAD_CANCEL_ASYNCHRONOUS is the name of a type, and its value as a state
\* is PTHREAD_CANCEL_DISABLE.
pthread_setcancelstate == "disabled"

update_thread_starts ==
    /\ pc["update"] = "start"
    /\ cancelability' = pthread_setcancelstate
    /\ Goto("update", IF strategy = "polling" THEN "get_time" ELSE "check")
    /\ UNCHANGED <<isrunning, strategy, requests, timeVars, inbox, lifeVars>>

\* The polling loop reads last_updated once.
get_last_update_time ==
    /\ pc["update"] = "get_time"
    /\ update_time_lock = NULL
    /\ Goto("update", "check")
    /\ UNCHANGED <<isrunning, strategy, requests, cancelability, timeVars, inbox, lifeVars>>

update_loop_check ==
    /\ pc["update"] = "check"
    /\ Goto("update", CASE ~isrunning -> "ended"
                        [] isrunning /\ strategy = "polling" -> "poll"
                        [] OTHER -> "send_peer")
    /\ UNCHANGED <<isrunning, strategy, requests, cancelability, timeVars, inbox, lifeVars>>

\* A LIST goes out if it is time.
polling_update_loop ==
    /\ pc["update"] = "poll"
    /\ Send("LIST") \/ UNCHANGED inbox
    /\ Goto("update", "sleep")
    /\ UNCHANGED <<isrunning, strategy, requests, cancelability, timeVars, lifeVars>>

update_thread_wakes ==
    /\ pc["update"] = "sleep"
    /\ Goto("update", "check")
    /\ UNCHANGED <<isrunning, strategy, requests, cancelability, timeVars, inbox, lifeVars>>
-----------------------------------------------------------------------------
(* The main thread.                                                        *)

\* Up to initiate_discovery: sockets and listener.
discovery_service_start(s) ==
    /\ pc["main"] = "stopped"
    /\ starts < MaxStarts
    /\ starts' = starts + 1
    /\ sockets' = "open" /\ inbox' = <<>>
    /\ isrunning' = TRUE
    /\ pc' = [pc EXCEPT !["main"] = "send_peer", !["listener"] = "loop"]
    /\ strategy' = s
    /\ requests' = INITIAL_DISCOVERY_REQS
    /\ UNCHANGED <<cancelability, timeVars, store, cleaning>>

\* The rest of initiate_discovery, then one LIST more or the update thread.
send_discovery_request ==
    /\ pc["main"] = "request" /\ requests > 0
    /\ requests' = requests - 1
    /\ Send("LIST")
    /\ UNCHANGED <<pc, isrunning, strategy, cancelability, timeVars, lifeVars>>

start_strategy ==
    /\ pc["main"] = "request" /\ requests = 0
    /\ IF strategy = "ask_once"
       THEN /\ Send("LIST")
            /\ Goto("main", "started")
            /\ UNCHANGED cancelability
       ELSE /\ pc' = [pc EXCEPT !["main"] = "started", !["update"] = "start"]
            /\ cancelability' = "deferred"
            /\ UNCHANGED inbox
    /\ UNCHANGED <<isrunning, strategy, requests, timeVars, lifeVars>>

\* While it runs, a STOP may also be sent alone.
discovery_notify_peers_of_shutdown ==
    /\ pc["main"] = "started"
    /\ Send("STOP")
    /\ UNCHANGED <<pc, isrunning, strategy, requests, cancelability, timeVars, lifeVars>>

\* discovery_service_stop, called by the application or by the cleanup.
discovery_service_stop(c) ==
    /\ pc["main"] = "started"
    /\ isrunning' = FALSE
    /\ cleaning' = c
    /\ Goto("main", IF pc["update"] = "none" THEN "send_stop" ELSE "cancel")
    /\ UNCHANGED <<strategy, requests, cancelability, timeVars, inbox, sockets, store, starts>>

\* A thread whose cancelability is disabled, or deferred with no cancellation
\* point before it is disabled, is not ended by pthread_cancel.
pthread_cancel ==
    /\ pc["main"] = "cancel"
    /\ pc' = [pc EXCEPT !["main"] = "join",
                        !["update"] = IF cancelability = "asynchronous" THEN "ended" ELSE @]
    /\ UNCHANGED <<isrunning, strategy, requests, cancelability, timeVars, inbox, lifeVars>>

\* The join of cancel_thread, and update_thread = NULL.
cancel_thread ==
    /\ pc["main"] = "join" /\ Ended("update")
    /\ pc' = [pc EXCEPT !["main"] = "send_stop", !["update"] = "none"]
    /\ UNCHANGED <<isrunning, strategy, requests, cancelability, timeVars, inbox, lifeVars>>

\* Mutant: the listener is not woken.
no_stop_packet ==
    /\ pc["main"] = "send_stop"
    /\ Goto("main", "join_listener")
    /\ UNCHANGED <<isrunning, strategy, requests, cancelability, timeVars, inbox, lifeVars>>

send_stop_packet ==
    /\ pc["main"] = "send_stop"
    /\ Send("STOP")
    /\ Goto("main", "join_listener")
    /\ UNCHANGED <<isrunning, strategy, requests, cancelability, timeVars, lifeVars>>

\* Mutant: the sockets go while the listener may still use them.
listener_not_joined ==
    /\ pc["main"] = "join_listener"
    /\ sockets' = "destroyed" /\ inbox' = <<>>
    /\ Goto("main", IF cleaning THEN "cleanup" ELSE "stopped")
    /\ UNCHANGED <<isrunning, strategy, requests, cancelability, timeVars, store, cleaning, starts>>

join_listener_and_destroy_sockets ==
    /\ pc["main"] = "join_listener" /\ Ended("listener")
    /\ sockets' = "destroyed" /\ inbox' = <<>>
    /\ Goto("main", IF cleaning THEN "cleanup" ELSE "stopped")
    /\ UNCHANGED <<isrunning, strategy, requests, cancelability, timeVars, store, cleaning, starts>>

\* After the stop, or at once when the service is not running.
discovery_service_cleanup ==
    /\ pc["main"] \in {"cleanup", "stopped"}
    /\ store' = "destroyed"
    /\ Goto("main", "ended")
    /\ UNCHANGED <<isrunning, strategy, requests, cancelability, timeVars, inbox,
                   sockets, cleaning, starts>>
-----------------------------------------------------------------------------
(* The other nodes, and time.                                              *)

Arrives(packet) ==
    /\ sockets = "open"
    /\ Len(inbox) < InboxSize
    /\ inbox' = Append(inbox, packet)
    /\ UNCHANGED <<pc, isrunning, strategy, requests, cancelability, timeVars, lifeVars>>

Tick ==
    /\ now < MaxTime
    /\ now' = now + 1
    /\ UNCHANGED <<pc, isrunning, strategy, requests, cancelability, update_time_lock,
                   last_updated, peers_last_update, inbox, lifeVars>>

Sends(t) == send_peer_packet(t) \/ safely_update_last_update_time(t)

ListenerStep == discovery_loop \/ discovery_receive_handler \/ handle_peer \/ Sends("listener")

UpdateStep ==
    \/ update_thread_starts \/ get_last_update_time \/ update_loop_check
    \/ polling_update_loop \/ update_thread_wakes \/ Sends("update")

\* What main does on its own once a start or a stop is called.
MainStep ==
    \/ Sends("main") \/ send_discovery_request \/ start_strategy
    \/ pthread_cancel \/ cancel_thread \/ send_stop_packet
    \/ join_listener_and_destroy_sockets

Next ==
    \/ MainStep \/ ListenerStep \/ UpdateStep
    \/ \E s \in Strategies : discovery_service_start(s)
    \/ discovery_notify_peers_of_shutdown
    \/ \E c \in BOOLEAN : discovery_service_stop(c)
    \/ discovery_service_cleanup
    \/ \E packet \in Packets : Arrives(packet)
    \/ Tick

Spec == Init /\ [][Next]_vars

\* Each thread goes on as long as it can.  That an update thread wakes up holds
\* while it is not late by an interval, so that it never sleeps for a negative time.
FairSpec == Spec /\ WF_vars(MainStep) /\ WF_vars(ListenerStep) /\ WF_vars(UpdateStep)
-----------------------------------------------------------------------------
(* Properties.                                                             *)

Sending == {"send_peer", "lock", "set_time", "set_store_time"}

TypeOK ==
    /\ DOMAIN pc = Threads
    /\ pc["main"] \in Sending \cup {"stopped", "request", "started", "cancel", "join", "send_stop",
                                    "join_listener", "cleanup", "ended"}
    /\ pc["listener"] \in Sending \cup {"none", "loop", "receive", "handle_peer", "ended"}
    /\ pc["update"] \in Sending \cup {"none", "start", "get_time", "check", "poll", "sleep", "ended"}
    /\ isrunning \in BOOLEAN /\ cleaning \in BOOLEAN
    /\ strategy \in Strategies \cup {NULL}
    /\ requests \in 0..INITIAL_DISCOVERY_REQS
    /\ cancelability \in {"deferred", "disabled"}
    /\ update_time_lock \in Threads \cup {NULL}
    /\ {last_updated, peers_last_update, now} \subseteq 0..MaxTime
    /\ sockets \in {"none", "open", "destroyed"}
    /\ inbox \in Seq(Packets) /\ Len(inbox) <= InboxSize
    /\ store \in {"live", "destroyed"}
    /\ starts \in 0..MaxStarts

\* Whoever holds update_time_lock is alive and about to release it: no thread was
\* cancelled with it, which would block the listener, and so every later stop.
LockNotOrphaned ==
    \A t \in Threads : update_time_lock = t <=> pc[t] \in {"set_time", "set_store_time"}

\* As long as the listener or the update thread has not ended, its sockets are
\* open and the peerstore is there: neither stop nor cleanup frees what a thread
\* still uses, and a restart begins with no thread of the run before.
NothingFreedInUse ==
    \A t \in {"listener", "update"} :
        ~Ended(t) => sockets = "open" /\ store = "live"

\* Whenever the lock is free, the peerstore compares its peers with the time of
\* the service's last update, whichever threads sent it; apart from the time
\* between the creation of the two and the first packet.
UpdateTimesAgree ==
    update_time_lock = NULL => peers_last_update = last_updated \/ last_updated = 1

\* Where the listener and the update thread can be, by where main is.
Phases ==
    /\ pc["main"] \in {"stopped", "cleanup", "ended"} => Ended("listener")
    /\ pc["main"] \notin {"started", "cancel", "join"} => pc["update"] = "none"
    /\ pc["main"] \notin {"stopped", "cleanup", "ended"} => sockets = "open"
    /\ pc["main"] # "ended" => store = "live"

\* Between the two writes the lock is held.
TimesInStep ==
    \/ \E t \in Threads : pc[t] = "set_store_time"
    \/ peers_last_update = last_updated
    \/ last_updated = 1

\* The inductive invariant.
LifeInv == TypeOK /\ LockNotOrphaned /\ Phases /\ TimesInStep

\* A stop returns, whether or not an update thread has to be joined first: no
\* thread waits for another that waits in turn.
StopReturns ==
    pc["main"] \in {"cancel", "send_stop"} ~> pc["main"] \in {"stopped", "cleanup"}
===============================================================================
