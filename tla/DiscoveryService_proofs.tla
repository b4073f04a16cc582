----------------------- MODULE DiscoveryService_proofs -----------------------
(* What is proved about the threads of the discovery service, for every set of *)
(* strategies and every bound, and whether or not datagrams are lost.          *)
EXTENDS DiscoveryService, TLAPS

(* What a socket holds after a datagram was sent. *)
LEMMA SendType ==
    ASSUME inbox \in Seq(Packets), Len(inbox) <= InboxSize, NEW packet \in Packets, Send(packet)
    PROVE  inbox' \in Seq(Packets) /\ Len(inbox') <= InboxSize
BY DiscoveryAssumption DEF Send

(* Every step keeps the invariant. *)
LEMMA Step ==
    ASSUME LifeInv, [Next]_vars PROVE LifeInv'
<1> USE DiscoveryAssumption DEF LifeInv, TypeOK, LockNotOrphaned, Phases, TimesInStep, Goto, Ended,
        Threads, Packets, Sending, lifeVars, timeVars
<1>2. ASSUME NEW t \in Threads, send_peer_packet(t)
      PROVE  LifeInv'
  BY <1>2, SendType DEF send_peer_packet
<1>3. ASSUME NEW t \in Threads, lock_update_time(t)
      PROVE  LifeInv'
  BY <1>3 DEF lock_update_time
<1>4. ASSUME NEW t \in Threads, set_last_updated(t)
      PROVE  LifeInv'
  BY <1>4 DEF set_last_updated
<1>5. ASSUME NEW t \in Threads, set_store_time_and_unlock(t)
      PROVE  LifeInv'
  BY <1>5 DEF set_store_time_and_unlock, Return
<1>6. ASSUME discovery_loop
      PROVE  LifeInv'
  BY <1>6 DEF discovery_loop
<1>7. ASSUME discovery_receive_handler
      PROVE  LifeInv'
  BY <1>7 DEF discovery_receive_handler
<1>8. ASSUME handle_peer
      PROVE  LifeInv'
  BY <1>8 DEF handle_peer
<1>9. ASSUME update_thread_starts
      PROVE  LifeInv'
  BY <1>9 DEF update_thread_starts, pthread_setcancelstate
<1>10. ASSUME get_last_update_time
      PROVE  LifeInv'
  BY <1>10 DEF get_last_update_time
<1>11. ASSUME update_loop_check
      PROVE  LifeInv'
  BY <1>11 DEF update_loop_check
<1>12. ASSUME polling_update_loop
      PROVE  LifeInv'
  BY <1>12, SendType DEF polling_update_loop
<1>13. ASSUME update_thread_wakes
      PROVE  LifeInv'
  BY <1>13 DEF update_thread_wakes
<1>14. ASSUME NEW s \in Strategies, discovery_service_start(s)
      PROVE  LifeInv'
  BY <1>14 DEF discovery_service_start
<1>15. ASSUME send_discovery_request
      PROVE  LifeInv'
  BY <1>15, SendType DEF send_discovery_request
<1>16. ASSUME start_strategy
      PROVE  LifeInv'
  BY <1>16, SendType DEF start_strategy
<1>17. ASSUME discovery_notify_peers_of_shutdown
      PROVE  LifeInv'
  BY <1>17, SendType DEF discovery_notify_peers_of_shutdown
<1>18. ASSUME NEW c \in BOOLEAN, discovery_service_stop(c)
      PROVE  LifeInv'
  <2>1. pc' = [pc EXCEPT !["main"] = IF pc["update"] = "none" THEN "send_stop" ELSE "cancel"]
    BY <1>18 DEF discovery_service_stop
  <2>2. cleaning' \in BOOLEAN /\ isrunning' \in BOOLEAN
    BY <1>18, Zenon DEF discovery_service_stop
  <2>3. UNCHANGED <<strategy, requests, cancelability, timeVars, inbox, sockets, store, starts>>
    BY <1>18 DEF discovery_service_stop
  <2>4. pc["main"] = "started"
    BY <1>18 DEF discovery_service_stop
  <2> QED
    BY <2>1, <2>2, <2>3, <2>4
<1>19. ASSUME pthread_cancel
      PROVE  LifeInv'
  BY <1>19 DEF pthread_cancel
<1>20. ASSUME cancel_thread
      PROVE  LifeInv'
  BY <1>20 DEF cancel_thread
<1>21. ASSUME send_stop_packet
      PROVE  LifeInv'
  BY <1>21, SendType DEF send_stop_packet
<1>22. ASSUME join_listener_and_destroy_sockets
      PROVE  LifeInv'
  BY <1>22 DEF join_listener_and_destroy_sockets
<1>23. ASSUME discovery_service_cleanup
      PROVE  LifeInv'
  BY <1>23 DEF discovery_service_cleanup
<1>24. ASSUME NEW packet \in Packets, Arrives(packet)
      PROVE  LifeInv'
  BY <1>24 DEF Arrives
<1>25. ASSUME Tick
      PROVE  LifeInv'
  BY <1>25 DEF Tick
<1>26. CASE UNCHANGED vars
  BY <1>26 DEF vars
<1> QED
  BY <1>2, <1>3, <1>4, <1>5, <1>6, <1>7, <1>8, <1>9, <1>10, <1>11, <1>12, <1>13,
     <1>14, <1>15, <1>16, <1>17, <1>18, <1>19, <1>20, <1>21, <1>22, <1>23, <1>24, <1>25,
     <1>26
     DEF Next, MainStep, ListenerStep, UpdateStep, Sends, safely_update_last_update_time

-----------------------------------------------------------------------------
(* From the creation of the service on, through any number of stops and        *)
(* restarts, the listener and the update thread are only where main's progress *)
(* allows, and update_time_lock is held only between its two writes.           *)
THEOREM LifeInvariant == Spec => []LifeInv
<1>1. Init => LifeInv
  <2> SUFFICES ASSUME Init PROVE LifeInv
    OBVIOUS
  <2>1. /\ DOMAIN pc = Threads
        /\ pc["main"] = "stopped" /\ pc["listener"] = "none" /\ pc["update"] = "none"
    BY DEF Init, Threads
  <2>2. {last_updated, peers_last_update, now} \subseteq 0..MaxTime
    BY DiscoveryAssumption DEF Init
  <2>3. TypeOK
    <3>1. isrunning \in BOOLEAN /\ cleaning \in BOOLEAN
      BY Zenon DEF Init
    <3>2. requests \in 0..INITIAL_DISCOVERY_REQS /\ starts \in 0..MaxStarts
      BY DiscoveryAssumption DEF Init
    <3>3. inbox \in Seq(Packets) /\ Len(inbox) <= InboxSize
      BY DiscoveryAssumption DEF Init
    <3>4. /\ strategy = NULL /\ cancelability = "deferred" /\ update_time_lock = NULL
          /\ sockets = "none" /\ store = "live"
      BY DEF Init
    <3> QED
      BY <2>1, <2>2, <3>1, <3>2, <3>3, <3>4 DEF TypeOK, Sending
  <2>4. LockNotOrphaned
    BY <2>1, DiscoveryAssumption DEF Init, LockNotOrphaned, Threads
  <2>5. Phases /\ TimesInStep
    BY <2>1 DEF Init, Phases, TimesInStep, Ended
  <2> QED
    BY <2>3, <2>4, <2>5 DEF LifeInv
<1> QED
  BY <1>1, Step, PTL DEF Spec

(* Each thread is where its program lets it be, the socket holds at most what it *)
(* can, and the times are times of this run.                                   *)
THEOREM TypeCorrectness == Spec => []TypeOK
<1>1. LifeInv => TypeOK
  BY DEF LifeInv
<1> QED
  BY <1>1, LifeInvariant, PTL

(* No thread ends, cancelled or not, while it holds update_time_lock *)
(* (cancel_thread, discovery.c:294).                                *)
THEOREM LockNotOrphanedHolds == Spec => []LockNotOrphaned
<1>1. LifeInv => LockNotOrphaned
  BY DEF LifeInv
<1> QED
  BY <1>1, LifeInvariant, PTL

(* Neither discovery_service_stop nor discovery_service_cleanup destroys the *)
(* sockets or the peerstore before the threads that use them have ended.    *)
THEOREM NothingFreedInUseHolds == Spec => []NothingFreedInUse
<1>1. LifeInv => NothingFreedInUse
  BY DEF LifeInv, Phases, NothingFreedInUse, Ended
<1> QED
  BY <1>1, LifeInvariant, PTL

(* Threads that update the time at once leave the service's and the peerstore's *)
(* equal (safely_update_last_update_time, discovery.c:44).                      *)
THEOREM UpdateTimesAgreeHolds == Spec => []UpdateTimesAgree
<1>1. LifeInv => UpdateTimesAgree
  <2> SUFFICES ASSUME LifeInv, update_time_lock = NULL
               PROVE  peers_last_update = last_updated \/ last_updated = 1
    BY DEF UpdateTimesAgree
  <2>1. ASSUME NEW t \in Threads PROVE pc[t] # "set_store_time"
    BY <2>1, DiscoveryAssumption DEF LifeInv, LockNotOrphaned
  <2> QED
    BY <2>1 DEF LifeInv, TimesInStep
<1> QED
  BY <1>1, LifeInvariant, PTL
==============================================================================
