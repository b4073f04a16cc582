--------------------------- MODULE Peerstore_proofs ---------------------------
(* What is proved about the peerstore, for every set of peers, user names and  *)
(* hosts, under every strategy, and whatever the heap does with freed strings. *)
EXTENDS Peerstore, TLAPS

Inv == TypeOK /\ StoreInv

(* The heap after an operation. *)
LEMMA HeapFacts ==
    ASSUME NEW L, NEW s, Heap(L, s), NEW n \in UserNames,
           namestore'[n] \in Addrs, namestore'[n] \in L
    PROVE  namestore'[n] \in live' /\ string'[namestore'[n]] = s[namestore'[n]]
BY DEF Heap

LEMMA HeapType ==
    ASSUME NEW L \in SUBSET Addrs, NEW s \in [Addrs -> Guids \cup {Garbage}], Heap(L, s)
    PROVE  live' \subseteq Addrs /\ string' \in [Addrs -> Guids \cup {Garbage}]
BY DEF Heap

(* An operation that changes neither records nor names, and frees nothing a
   stored peer is found by, keeps every stored peer found. *)
LEMMA FoundKept ==
    ASSUME TypeOK, NEW g \in Guids, Stored(g), FoundUnderName(g),
           Stored(g)', peers'[g].user_name = peers[g].user_name,
           namestore'[peers[g].user_name] = namestore[peers[g].user_name],
           NEW L, NEW s, Heap(L, s),
           namestore[peers[g].user_name] \in L, s[namestore[peers[g].user_name]] = g
    PROVE  FoundUnderName(g)'
<1>1. peers[g].user_name \in UserNames
  BY DEF TypeOK, Stored, Peers
<1>2. namestore[peers[g].user_name] \in Addrs
  BY <1>1 DEF TypeOK, FoundUnderName
<1>3. FoundUnderName(g)' = /\ namestore'[peers'[g].user_name] # NULL
                           /\ namestore'[peers'[g].user_name] \in live'
                           /\ string'[namestore'[peers'[g].user_name]] = g
  BY DEF FoundUnderName
<1> QED
  BY <1>1, <1>2, <1>3, HeapFacts DEF FoundUnderName

(* The same when the heap is left alone. *)
LEMMA FoundUnchanged ==
    ASSUME NEW g \in Guids, Stored(g), FoundUnderName(g),
           peers'[g].user_name = peers[g].user_name, UNCHANGED <<namestore, string, live>>
    PROVE  FoundUnderName(g)'
BY DEF FoundUnderName

-----------------------------------------------------------------------------
(* peerstore_store_peer. *)

(* A stored peer whose name is its own does not lose it to another. *)
LEMMA NameOfItsOwn ==
    ASSUME Inv, NEW g \in Guids, NEW u \in Names, NEW q \in Guids \ {g}, Stored(q),
           NameIsItsOwn(q), peers[q].user_name = ensure_username_unique(g, u)
    PROVE  FALSE
<1>1. peers[q].user_name \in UserNames /\ FoundUnderName(q)
      /\ peers[q].user_name[2] \in {NULL, prefix[q]}
  BY DEF Inv, TypeOK, StoreInv, StoredPeersFound, OwnSuffix, Stored, Peers
<1>2. CASE namestore[Plain(u)] = NULL
  BY <1>1, <1>2 DEF ensure_username_unique, FoundUnderName
<1>3. CASE namestore[Plain(u)] # NULL
  <2>1. peers[q].user_name[2] = prefix[g]
    BY <1>3 DEF ensure_username_unique
  <2> QED
    BY <1>1, <2>1, PeerstoreAssumption DEF Prefixes, NameIsItsOwn
<1> QED
  BY <1>2, <1>3

LEMMA UniqueName ==
    ASSUME NEW g \in Guids, NEW u \in Names
    PROVE  /\ ensure_username_unique(g, u) \in UserNames
           /\ ensure_username_unique(g, u)[1] = u
           /\ ensure_username_unique(g, u)[2] \in {NULL, prefix[g]}
BY DEF ensure_username_unique, Plain, UserNames, Prefixes

(* What StoreUnder leaves of the records and names. *)
LEMMA StoreEffect ==
    ASSUME Inv, NEW g \in Guids, NEW u \in Names, NEW h \in Hosts, NEW b \in Addrs,
           StoreUnder(g, u, h, handle_peer_reconnection(g, u, h), b)
    PROVE  /\ peers' \in [Guids -> Peers \cup {NoPeer}]
           /\ namestore' \in [UserNames -> Addrs \cup {NULL}]
           /\ Stored(g)' /\ peers'[g].last_seen = now /\ peers'[g].host_address = h
           /\ peers'[g].user_name[2] \in {NULL, prefix[g]}
           /\ Renamed(g, u) => namestore'[peers'[g].user_name] = b
           /\ ~Renamed(g, u) => /\ Stored(g) /\ peers'[g].user_name = peers[g].user_name
                                /\ namestore' = namestore
           /\ \A q \in Guids \ {g} :
                 /\ Stored(q)' => Stored(q) /\ q \notin Replaced(g, u, h) /\ peers'[q] = peers[q]
                 /\ Stored(q) /\ ~Stored(q)' => q \in Replaced(g, u, h)
                 /\ Stored(q) /\ NameIsItsOwn(q) =>
                       namestore'[peers[q].user_name] = namestore[peers[q].user_name]
<1> DEFINE name == IF Renamed(g, u) THEN ensure_username_unique(g, u) ELSE peers[g].user_name
<1>1. ~Renamed(g, u) => Stored(g)
  BY DEF Renamed
<1>2. name \in UserNames /\ name[2] \in {NULL, prefix[g]}
  BY <1>1, UniqueName DEF Inv, StoreInv, OwnSuffix, TypeOK, Peers, Stored
<1>3. now \in 0..MaxTime
  BY DEF Inv, TypeOK
<1>4. /\ peers' = [handle_peer_reconnection(g, u, h) EXCEPT ![g] =
               [host_address |-> h, user_name |-> name, last_seen |-> now]]
      /\ namestore' = IF ~Renamed(g, u) THEN namestore
                        ELSE [n \in UserNames |->
                                 CASE n = name -> b
                                   [] Stored(g) /\ n = peers[g].user_name -> NULL
                                   [] OTHER -> namestore[n]]
  BY DEF StoreUnder
<1>5. /\ handle_peer_reconnection(g, u, h) \in [Guids -> Peers \cup {NoPeer}]
      /\ \A q \in Guids : handle_peer_reconnection(g, u, h)[q] =
            IF q \in Replaced(g, u, h) THEN NoPeer ELSE peers[q]
  BY DEF handle_peer_reconnection, Inv, TypeOK
<1> HIDE DEF name
<1>6. [host_address |-> h, user_name |-> name, last_seen |-> now] \in Peers
  BY <1>2, <1>3 DEF Peers
<1>7. /\ peers' \in [Guids -> Peers \cup {NoPeer}]
      /\ peers'[g] = [host_address |-> h, user_name |-> name, last_seen |-> now]
      /\ \A q \in Guids \ {g} : peers'[q] =
            IF q \in Replaced(g, u, h) THEN NoPeer ELSE peers[q]
  BY <1>4, <1>5, <1>6
<1>8. [host_address |-> h, user_name |-> name, last_seen |-> now] # NoPeer
  BY DEF NoPeer
<1>9. namestore \in [UserNames -> Addrs \cup {NULL}]
  BY DEF Inv, TypeOK
<1>10. namestore' \in [UserNames -> Addrs \cup {NULL}]
  BY <1>4, <1>9
<1>11. ASSUME Renamed(g, u)
       PROVE  /\ namestore'[name] = b
              /\ \A n \in UserNames :
                    n # name /\ ~(Stored(g) /\ n = peers[g].user_name) =>
                       namestore'[n] = namestore[n]
  <2>1. namestore' = [n \in UserNames |-> CASE n = name -> b
                                          [] Stored(g) /\ n = peers[g].user_name -> NULL
                                          [] OTHER -> namestore[n]]
    BY <1>4, <1>11
  <2>2. namestore'[name] = CASE name = name -> b
                             [] Stored(g) /\ name = peers[g].user_name -> NULL
                             [] OTHER -> namestore[name]
    BY <1>2, <2>1
  <2>3. ~(Stored(g) /\ name = peers[g].user_name)
    <3>1. name[1] = u
      BY <1>11, UniqueName DEF name
    <3> QED
      BY <1>11, <3>1, PeerstoreAssumption DEF Renamed
  <2>4. namestore'[name] = b
    BY <2>2, <2>3
  <2>5. ASSUME NEW n \in UserNames, n # name, ~(Stored(g) /\ n = peers[g].user_name)
        PROVE  namestore'[n] = namestore[n]
    BY <2>1, <2>5
  <2> QED
    BY <2>4, <2>5
<1>12. ASSUME NEW q \in Guids \ {g}, Stored(q), NameIsItsOwn(q)
       PROVE  namestore'[peers[q].user_name] = namestore[peers[q].user_name]
  <2>1. CASE ~Renamed(g, u)
    BY <1>4, <2>1
  <2>2. CASE Renamed(g, u)
    <3>1. peers[q].user_name \in UserNames /\ FoundUnderName(q)
      BY <1>12 DEF Inv, TypeOK, StoreInv, StoredPeersFound, Stored, Peers
    <3>2. peers[q].user_name # name
      BY <1>12, <2>2, NameOfItsOwn DEF name
    <3>3. ASSUME Stored(g), peers[q].user_name = peers[g].user_name PROVE FALSE
      <4>1. CASE NameIsItsOwn(g)
        BY <3>1, <3>3, <4>1 DEF Inv, StoreInv, StoredPeersFound, FoundUnderName
      <4>2. CASE ~NameIsItsOwn(g)
        <5>1. peers[g].user_name[2] # NULL
          BY <4>2 DEF NameIsItsOwn
        <5>2. peers[g].user_name[2] = prefix[g] /\ peers[q].user_name[2] = prefix[q]
          BY <1>12, <3>3, <5>1 DEF Inv, StoreInv, OwnSuffix
        <5> QED
          BY <1>12, <3>3, <5>1, <5>2 DEF NameIsItsOwn
      <4> QED
        BY <4>1, <4>2
    <3> QED
      BY <1>11, <2>2, <3>1, <3>2, <3>3
  <2> QED
    BY <2>1, <2>2
<1>13. /\ Stored(g)' /\ peers'[g].last_seen = now /\ peers'[g].host_address = h
       /\ peers'[g].user_name = name
  BY <1>7, <1>8 DEF Stored
<1>14. \A q \in Guids \ {g} :
          /\ Stored(q)' => Stored(q) /\ q \notin Replaced(g, u, h) /\ peers'[q] = peers[q]
          /\ Stored(q) /\ ~Stored(q)' => q \in Replaced(g, u, h)
  BY <1>7 DEF Stored
<1>15. ~Renamed(g, u) => /\ Stored(g) /\ name = peers[g].user_name
                         /\ namestore' = namestore
  BY <1>1, <1>4 DEF name
<1> QED
  BY <1>2, <1>7, <1>10, <1>11, <1>12, <1>13, <1>14, <1>15

(* Storing a peer keeps the invariant. *)
LEMMA StoreStep ==
    ASSUME Inv, NEW g \in Guids, NEW u \in Names, NEW h \in Hosts,
           peerstore_store_peer(g, u, h)
    PROVE  Inv'
<1> DEFINE a == namestore[Plain(u)]
           freed == IF Replaced(g, u, h) = {} THEN {} ELSE {a}
<1>1. CASE DoubleFree
  BY <1>1 DEF DoubleFree, Inv, TypeOK, StoreInv, StoredPeersFound, OwnSuffix, LastUpdatePast,
     FoundUnderName, NameIsItsOwn, Stored
<1>2. CASE ~DoubleFree
  <2>0. PICK first \in IF a = NULL THEN {{}} ELSE {{c} : c \in Addrs \ live} :
           \E b \in Addrs \ ((live \cup first) \ freed) :
           \E old \in {Garbage} \cup (UNION {Freed(y) : y \in freed}) :
             /\ StoreUnder(g, u, h, handle_peer_reconnection(g, u, h), b)
             /\ Heap(((live \cup first) \ freed) \cup {b},
                     [y \in Addrs |-> IF y \in first \cup {b} THEN g
                                      ELSE IF y \in freed THEN old ELSE string[y]])
    BY <1>2 DEF peerstore_store_peer
  <2>1. PICK b \in Addrs \ ((live \cup first) \ freed) :
        \E old \in {Garbage} \cup (UNION {Freed(y) : y \in freed}) :
             /\ StoreUnder(g, u, h, handle_peer_reconnection(g, u, h), b)
             /\ Heap(((live \cup first) \ freed) \cup {b},
                     [y \in Addrs |-> IF y \in first \cup {b} THEN g
                                      ELSE IF y \in freed THEN old ELSE string[y]])
    BY <2>0
  <2>1a. PICK old \in {Garbage} \cup (UNION {Freed(y) : y \in freed}) :
             /\ StoreUnder(g, u, h, handle_peer_reconnection(g, u, h), b)
             /\ Heap(((live \cup first) \ freed) \cup {b},
                     [y \in Addrs |-> IF y \in first \cup {b} THEN g
                                      ELSE IF y \in freed THEN old ELSE string[y]])
    BY <2>1
  <2>2. UNCHANGED <<last_update, now, status>>
    BY <1>2 DEF peerstore_store_peer
  <2> DEFINE L == ((live \cup first) \ freed) \cup {b}
             s == [y \in Addrs |-> IF y \in first \cup {b} THEN g
                                   ELSE IF y \in freed THEN old ELSE string[y]]
  <2>3. first \subseteq Addrs \ live
    BY <2>0
  <2>4. live \subseteq Addrs /\ string \in [Addrs -> Guids \cup {Garbage}]
    BY DEF Inv, TypeOK
  <2>5. \A y \in freed : \E q \in Replaced(g, u, h) : q # g /\ string[y] = q
    BY DEF Replaced
  <2>6. freed # {} => a \in Addrs
    BY DEF Replaced, Inv, TypeOK, UserNames, Plain
  <2>7. old \in Guids \cup {Garbage}
    BY <2>1a, <2>4, <2>6 DEF Freed
  <2>8. L \in SUBSET Addrs /\ s \in [Addrs -> Guids \cup {Garbage}]
    BY <2>1, <2>3, <2>4, <2>7
  <2>9. Heap(L, s) /\ StoreUnder(g, u, h, handle_peer_reconnection(g, u, h), b)
    BY <2>1a
  <2>10. b \in L /\ s[b] = g
    OBVIOUS
  <2>11. \A y \in Addrs : y \in live /\ y \notin freed => y \in L /\ s[y] = string[y]
    BY <2>1, <2>3
  <2>12. \A q \in Guids : Stored(q) /\ NameIsItsOwn(q) =>
            FoundUnderName(q) /\ peers[q].user_name \in UserNames
    BY DEF Inv, StoreInv, StoredPeersFound, TypeOK, Stored, Peers
  <2>13. \A q \in Guids, y \in freed : string[y] = q => q \in Replaced(g, u, h) /\ q # g
    BY <2>5
  <2> HIDE DEF L, s, freed
  <2>14. TypeOK'
    BY <2>2, <2>8, <2>9, HeapType, StoreEffect DEF Inv, TypeOK
  <2>15. ASSUME NameIsItsOwn(g)' PROVE FoundUnderName(g)'
    <3>1. CASE Renamed(g, u)
      <4>1. peers'[g].user_name \in UserNames /\ namestore'[peers'[g].user_name] = b
        BY <2>9, <2>14, <3>1, StoreEffect DEF TypeOK, Stored, Peers
      <4>2. b \in Addrs /\ b # NULL
        BY <2>1, PeerstoreAssumption
      <4> QED
        BY <2>9, <2>10, <4>1, <4>2, HeapFacts DEF FoundUnderName
    <3>2. CASE ~Renamed(g, u)
      <4>1. /\ Stored(g) /\ Stored(g)' /\ peers'[g].user_name = peers[g].user_name
            /\ namestore' = namestore
        BY <2>9, <3>2, StoreEffect
      <4>2. FoundUnderName(g) /\ namestore[peers[g].user_name] \in live \ freed
        BY <2>12, <2>13, <2>15, <4>1 DEF FoundUnderName, NameIsItsOwn
      <4>3. /\ namestore[peers[g].user_name] \in L
            /\ s[namestore[peers[g].user_name]] = g
        BY <2>4, <2>11, <4>2 DEF FoundUnderName
      <4> QED
        BY <2>9, <4>1, <4>2, <4>3, FoundKept DEF Inv
    <3> QED
      BY <3>1, <3>2
  <2>16. ASSUME NEW q \in Guids \ {g}, Stored(q)', NameIsItsOwn(q)' PROVE FoundUnderName(q)'
    <3>0. /\ Stored(q) /\ q \notin Replaced(g, u, h) /\ peers'[q] = peers[q]
          /\ NameIsItsOwn(q)
      BY <2>9, <2>16, StoreEffect DEF NameIsItsOwn
    <3>1. /\ Stored(q) /\ NameIsItsOwn(q) /\ q \notin Replaced(g, u, h) /\ peers'[q] = peers[q]
          /\ namestore'[peers[q].user_name] = namestore[peers[q].user_name]
      BY <2>9, <3>0, StoreEffect
    <3>2. FoundUnderName(q) /\ namestore[peers[q].user_name] \in live \ freed
      BY <2>12, <2>13, <3>1 DEF FoundUnderName
    <3>3. /\ namestore[peers[q].user_name] \in L
          /\ s[namestore[peers[q].user_name]] = q
      BY <2>4, <2>11, <3>2 DEF FoundUnderName
    <3> QED
      BY <2>9, <2>16, <3>1, <3>2, <3>3, FoundKept DEF Inv
  <2>17. StoredPeersFound'
    BY <2>15, <2>16 DEF StoredPeersFound
  <2>18. OwnSuffix'
    <3>1. ASSUME NEW q \in Guids, Stored(q)' PROVE peers'[q].user_name[2] \in {NULL, prefix[q]}
      <4>1. CASE q = g
        BY <2>9, <4>1, StoreEffect
      <4>2. CASE q # g
        BY <2>9, <3>1, <4>2, StoreEffect DEF Inv, StoreInv, OwnSuffix
      <4> QED
        BY <4>1, <4>2
    <3> QED
      BY <3>1 DEF OwnSuffix
  <2> QED
    BY <2>2, <2>14, <2>17, <2>18 DEF Inv, StoreInv, LastUpdatePast
<1> QED
  BY <1>1, <1>2
-----------------------------------------------------------------------------
(* The other operations. *)

(* The guid string of a lookup lies where no stored peer's does. *)
LEMMA LookupStep == ASSUME Inv, NEW g \in Guids, peerstore_lookup(g) PROVE Inv'
<1>1. PICK b \in Addrs \ live, x \in {g, Garbage} : Heap(live, [string EXCEPT ![b] = x])
  BY DEF peerstore_lookup
<1>2. UNCHANGED <<namestore, last_update, now, status>> /\ DropInactive(g)
  BY DEF peerstore_lookup
<1>3. live \in SUBSET Addrs /\ [string EXCEPT ![b] = x] \in [Addrs -> Guids \cup {Garbage}]
  BY DEF Inv, TypeOK
<1>4. /\ peers' \in [Guids -> Peers \cup {NoPeer}]
      /\ \A q \in Guids : Stored(q)' => Stored(q) /\ peers'[q] = peers[q]
  BY <1>2 DEF DropInactive, Inv, TypeOK, Stored
<1>5. TypeOK'
  BY <1>1, <1>2, <1>3, <1>4, HeapType DEF Inv, TypeOK
<1>6. ASSUME NEW q \in Guids, Stored(q)', NameIsItsOwn(q)' PROVE FoundUnderName(q)'
  <2>1. Stored(q) /\ FoundUnderName(q) /\ peers'[q] = peers[q]
    BY <1>4, <1>6 DEF Inv, StoreInv, StoredPeersFound, NameIsItsOwn
  <2>2. /\ namestore[peers[q].user_name] \in live
        /\ [string EXCEPT ![b] = x][namestore[peers[q].user_name]] = q
    BY <1>1, <2>1 DEF FoundUnderName, Inv, TypeOK
  <2> QED
    BY <1>1, <1>2, <1>6, <2>1, <2>2, FoundKept DEF Inv
<1>7. OwnSuffix'
  BY <1>4 DEF Inv, StoreInv, OwnSuffix
<1> QED
  BY <1>2, <1>5, <1>6, <1>7 DEF Inv, StoreInv, StoredPeersFound, LastUpdatePast

(* A name whose peer is gone is not the name of a stored peer. *)
LEMMA LookupByNameStep ==
    ASSUME Inv, NEW n \in UserNames, peerstore_lookup_by_username(n) PROVE Inv'
<1> DEFINE a == namestore[n]
           found == {g \in Guids : string[a] = g /\ Stored(g)}
<1>1. CASE DoubleFree
  BY <1>1 DEF DoubleFree, Inv, TypeOK, StoreInv, StoredPeersFound, OwnSuffix, LastUpdatePast,
     FoundUnderName, NameIsItsOwn, Stored
<1>2. CASE /\ found = {} /\ a \in live
           /\ namestore' = [namestore EXCEPT ![n] = NULL]
           /\ \E x \in Freed(a) : Heap(live \ {a}, [string EXCEPT ![a] = x])
           /\ UNCHANGED <<peers, last_update, now, status>>
  <2>1. PICK x \in Freed(a) : Heap(live \ {a}, [string EXCEPT ![a] = x])
    BY <1>2
  <2>2. x \in Guids \cup {Garbage}
    BY <1>2, <2>1 DEF Freed, Inv, TypeOK
  <2>3. /\ live \ {a} \in SUBSET Addrs
        /\ [string EXCEPT ![a] = x] \in [Addrs -> Guids \cup {Garbage}]
    BY <2>2 DEF Inv, TypeOK
  <2>4. namestore' \in [UserNames -> Addrs \cup {NULL}]
    BY <1>2 DEF Inv, TypeOK
  <2>5. TypeOK'
    BY <1>2, <2>1, <2>3, <2>4, HeapType DEF Inv, TypeOK
  <2>6. ASSUME NEW q \in Guids, Stored(q)', NameIsItsOwn(q)' PROVE FoundUnderName(q)'
    <3>1. Stored(q) /\ FoundUnderName(q) /\ peers'[q] = peers[q]
          /\ peers[q].user_name \in UserNames
      BY <1>2, <2>6 DEF Inv, StoreInv, StoredPeersFound, NameIsItsOwn, Stored, TypeOK, Peers
    <3>2. namestore[peers[q].user_name] # a
      BY <1>2, <3>1 DEF FoundUnderName
    <3>3. /\ namestore[peers[q].user_name] \in live \ {a}
          /\ [string EXCEPT ![a] = x][namestore[peers[q].user_name]] = q
      BY <3>1, <3>2 DEF FoundUnderName, Inv, TypeOK
    <3>4. namestore'[peers[q].user_name] = namestore[peers[q].user_name]
      BY <1>2, <3>1, <3>2 DEF Inv, TypeOK
    <3> QED
      BY <2>1, <2>6, <3>1, <3>3, <3>4, FoundKept DEF Inv
  <2> QED
    BY <1>2, <2>5, <2>6 DEF Inv, StoreInv, StoredPeersFound, OwnSuffix, LastUpdatePast, Stored
<1>3. CASE /\ \E g \in found : DropInactive(g)
           /\ UNCHANGED <<namestore, string, live, last_update, now, status>>
  <2>1. /\ peers' \in [Guids -> Peers \cup {NoPeer}]
        /\ \A q \in Guids : Stored(q)' => Stored(q) /\ peers'[q] = peers[q]
    BY <1>3 DEF DropInactive, Inv, TypeOK, Stored
  <2>2. StoredPeersFound'
    BY <1>3, <2>1, FoundUnchanged DEF Inv, StoreInv, StoredPeersFound, NameIsItsOwn
  <2>3. OwnSuffix' /\ LastUpdatePast'
    BY <1>3, <2>1 DEF Inv, StoreInv, OwnSuffix, LastUpdatePast
  <2> QED
    BY <1>3, <2>1, <2>2, <2>3 DEF Inv, TypeOK, StoreInv
<1> QED
  BY <1>1, <1>2, <1>3 DEF peerstore_lookup_by_username

LEMMA ClockStep == ASSUME Inv, peerstore_set_last_update_time \/ Tick PROVE Inv'
<1>1. UNCHANGED <<peers, namestore, string, live, status>>
  BY DEF peerstore_set_last_update_time, Tick
<1>2. last_update' \in 0..MaxTime /\ now' \in 0..MaxTime /\ last_update' <= now'
  BY PeerstoreAssumption
     DEF peerstore_set_last_update_time, Tick, Inv, TypeOK, StoreInv, LastUpdatePast
<1>3. StoredPeersFound' /\ OwnSuffix'
  BY <1>1 DEF Inv, StoreInv, StoredPeersFound, OwnSuffix, FoundUnderName, NameIsItsOwn, Stored
<1> QED
  BY <1>1, <1>2, <1>3 DEF Inv, TypeOK, StoreInv, LastUpdatePast

LEMMA DestroyStep == ASSUME Inv, peerstore_destroy PROVE Inv'
<1>1. Heap(live, string) /\ live \in SUBSET Addrs /\ string \in [Addrs -> Guids \cup {Garbage}]
  BY DEF peerstore_destroy, Inv, TypeOK
<1>2. live' \subseteq Addrs /\ string' \in [Addrs -> Guids \cup {Garbage}]
  BY <1>1, HeapType
<1>3. \A g \in Guids : ~Stored(g)'
  BY DEF peerstore_destroy, Stored
<1>4. TypeOK'
  BY <1>2 DEF peerstore_destroy, Inv, TypeOK
<1> QED
  BY <1>3, <1>4 DEF peerstore_destroy, Inv, StoreInv, StoredPeersFound, OwnSuffix, LastUpdatePast
-----------------------------------------------------------------------------
LEMMA InitStore == Init => Inv
BY PeerstoreAssumption
   DEF Init, Inv, TypeOK, StoreInv, StoredPeersFound, OwnSuffix, LastUpdatePast, Stored

LEMMA NextStore == Inv /\ [Next]_vars => Inv'
<1>1. ASSUME Inv, UNCHANGED vars PROVE Inv'
  BY <1>1 DEF vars, Inv, TypeOK, StoreInv, StoredPeersFound, OwnSuffix, LastUpdatePast,
     FoundUnderName, NameIsItsOwn, Stored
<1> QED
  BY <1>1, StoreStep, LookupStep, LookupByNameStep, ClockStep, DestroyStep DEF Next

(* The store's invariant holds for every set of peers, names and hosts. *)
THEOREM StoreInvariant == Spec => [](TypeOK /\ StoreInv)
BY InitStore, NextStore, PTL DEF Spec, Inv

(* Records, names and strings keep their shape: what a name leads to is an
   address or nothing, and a freed string holds a guid or garbage. *)
THEOREM TypeCorrectness == Spec => []TypeOK
BY StoreInvariant, PTL

(* Every stored peer is found by peerstore_lookup_by_username under the name in
   its record, through a string nobody freed (peerstore.c:55-181), although other
   names may lead to freed strings; only a name made unique by four characters
   that are not (line 81) may lead to another peer. *)
THEOREM StoredPeersFoundHolds == Spec => []StoredPeersFound
<1>1. TypeOK /\ StoreInv => StoredPeersFound
  BY DEF StoreInv
<1> QED
  BY <1>1, StoreInvariant, PTL

(* An interval that can be doubled in its width is. *)
LEMMA TwoIntervals ==
    ASSUME NEW g \in Guids
    PROVE  two_intervals(g) = 2 * discovery_interval[g] \/ 2 * discovery_interval[g] >= uint32
<1>1. uint32 \in Nat \ {0} /\ discovery_interval[g] \in Nat
  BY PeerstoreAssumption
<1>2. \A x \in Nat : x < uint32 => x % uint32 = x
  BY <1>1
<1> QED
  BY <1>1, <1>2 DEF two_intervals

(* A record is freed only by peerstore_destroy, after two silent intervals or an
   interval too long to be doubled, or for another peer on the same host
   (peerstore.c:55-70, 143-181, discovery.c:174-179). *)
THEOREM RecordsKeptHolds == Spec => RecordsKept
<1> DEFINE Kept(g) ==
        Stored(g) /\ ~Stored(g)' =>
              \/ status' = "destroyed"
              \/ periodic /\ peers[g].last_seen + 2 * discovery_interval[g] < now
              \/ periodic /\ 2 * discovery_interval[g] >= uint32
              \/ \E new \in Guids \ {g} :
                    /\ Stored(new)'
                    /\ peers'[new].host_address = peers[g].host_address
                    /\ peers'[new].last_seen = now
<1>1. ASSUME Inv, [Next]_vars, NEW g \in Guids PROVE Kept(g)
  <2>1. ASSUME NEW q \in Guids, NEW u \in Names, NEW h \in Hosts, peerstore_store_peer(q, u, h)
        PROVE  Kept(g)
    <3>1. CASE DoubleFree
      BY <3>1 DEF DoubleFree, Stored
    <3>2. CASE ~DoubleFree
      <4>1. PICK b \in Addrs : StoreUnder(q, u, h, handle_peer_reconnection(q, u, h), b)
        BY <2>1, <3>2 DEF peerstore_store_peer
      <4>2. Stored(q)' /\ peers'[q].last_seen = now /\ peers'[q].host_address = h
        BY <1>1, <4>1, StoreEffect
      <4>3. g # q /\ Stored(g) /\ ~Stored(g)' => g \in Replaced(q, u, h)
        BY <1>1, <4>1, StoreEffect
      <4>4. g \in Replaced(q, u, h) => peers[g].host_address = h
        BY DEF Replaced
      <4> QED
        BY <4>2, <4>3, <4>4
    <3> QED
      BY <3>1, <3>2
  <2>2. ASSUME NEW q \in Guids, DropInactive(q) PROVE Kept(g)
    <3>1. Stored(g) /\ ~Stored(g)' => ~is_peer_active(g)
      BY <1>1, <2>2 DEF DropInactive, Stored, Inv, TypeOK
    <3>2. Stored(g) => peers[g].last_seen \in Nat
      BY <1>1, PeerstoreAssumption DEF Inv, TypeOK, Stored, Peers
    <3>3. /\ discovery_interval[g] \in Nat /\ now \in Nat /\ last_update \in Nat
          /\ last_update <= now
      BY <1>1, PeerstoreAssumption DEF Inv, TypeOK, StoreInv, LastUpdatePast
    <3> QED
      BY <3>1, <3>2, <3>3, TwoIntervals DEF is_peer_active
  <2>3. ASSUME peers' = peers PROVE Kept(g)
    BY <2>3 DEF Stored
  <2>4. ASSUME NEW q \in Guids, peerstore_lookup(q) PROVE Kept(g)
    BY <2>2, <2>4 DEF peerstore_lookup
  <2>5. ASSUME NEW n \in UserNames, peerstore_lookup_by_username(n) PROVE Kept(g)
    BY <2>2, <2>3, <2>5 DEF peerstore_lookup_by_username, DoubleFree
  <2>6. ASSUME peerstore_set_last_update_time \/ Tick \/ UNCHANGED vars PROVE Kept(g)
    BY <2>3, <2>6 DEF peerstore_set_last_update_time, Tick, vars
  <2>7. ASSUME peerstore_destroy PROVE Kept(g)
    BY <2>7 DEF peerstore_destroy
  <2> HIDE DEF Kept
  <2> QED
    BY <1>1, <2>1, <2>4, <2>5, <2>6, <2>7 DEF Next
<1>2. TypeOK /\ StoreInv /\ [Next]_vars => [\A g \in Guids : Kept(g)]_vars
  BY <1>1 DEF Inv
<1> QED
  BY <1>2, StoreInvariant, PTL DEF Spec, RecordsKept
=============================================================================
