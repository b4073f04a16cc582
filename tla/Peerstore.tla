------------------------------ MODULE Peerstore ------------------------------
(***************************************************************************)
(* The peerstore of one node, src/data/peerstore.c: the peers it has heard *)
(* of, found by guid (peers) or by user name (namestore), and dropped when *)
(* they are looked up too long after they were last heard of.              *)
(*                                                                         *)
(* Every operation holds store_lock from its first access to its last, so  *)
(* each is one action.  The discovery thread stores, the application looks *)
(* up, and both update threads set last_update.                            *)
(*                                                                         *)
(* The namestore maps a user name to a pointer: a guid string on the heap, *)
(* which the code frees at lines 66 and 170.  Freed memory is undefined to *)
(* read, and malloc may return it again; so the pointers are modelled.     *)
(***************************************************************************)
EXTENDS Naturals

CONSTANTS
    Guids,               \* the guids of the peers
    Names,               \* the user names peers announce
    Hosts,               \* their host addresses
    begins_with,         \* pairs <<u, v>> of Names: v is a prefix of u
    prefix,              \* the first four characters of a guid string
    discovery_interval,  \* the interval each peer announces
    uint32,              \* how many values a jnx_uint32 has: 2^32
    periodic,            \* is_active_peer_periodic_update, or a strategy that expires nobody?
    Addrs,               \* bound: addresses at which a guid string may lie
    MaxTime              \* bound: the last value of time(0)

CONSTANTS NULL, Garbage

Prefixes == {prefix[g] : g \in Guids}

ASSUME PeerstoreAssumption ==
    /\ NULL \notin Addrs \cup Prefixes
    /\ Garbage \notin Guids
    /\ begins_with \subseteq Names \X Names
    /\ \A u \in Names : <<u, u>> \in begins_with
    /\ prefix \in [Guids -> Prefixes]
    /\ uint32 \in Nat \ {0}
    /\ discovery_interval \in [Guids -> 0..(uint32 - 1)]
    /\ periodic \in BOOLEAN
    /\ MaxTime \in Nat

VARIABLES
    peers,        \* peers[g]: the record of peer g, or NoPeer
    namestore,    \* namestore[n]: the address stored under user name n, or NULL
    string,       \* string[a]: what a read at address a finds
    live,         \* the addresses that hold a string nobody has freed
    last_update,  \* the store's last_update
    now,          \* time(0)
    status        \* "running", "destroyed", or "double_free": aborted by free

vars == <<peers, namestore, string, live, last_update, now, status>>

\* A stored user name: an announced one, and the suffix that made it unique.
UserNames == Names \X (Prefixes \cup {NULL})
Plain(u) == <<u, NULL>>

Peers == [host_address : Hosts, user_name : UserNames, last_seen : 0..MaxTime]
NoPeer == [host_address |-> NULL]

Stored(g) == peers[g] # NoPeer

\* 2 * p->discovery_interval, computed without sign in the width of the interval.
two_intervals(g) == (2 * discovery_interval[g]) % uint32

is_peer_active(g) ==
    periodic => peers[g].last_seen + two_intervals(g) >= last_update
-----------------------------------------------------------------------------
(* The heap.                                                               *)

\* The heap after an operation that left the strings s of which L are not
\* freed.  A string that no user name leads to is leaked, and left out.
Heap(L, s) ==
    LET pointed == {namestore'[n] : n \in UserNames}
    IN  /\ live' = L \cap pointed
        /\ string' = [a \in Addrs |-> IF a \in pointed THEN s[a] ELSE Garbage]

\* What may be read at a once it is freed.
Freed(a) == {string[a], Garbage}

\* free was called on an address that is not allocated.
DoubleFree ==
    /\ status' = "double_free"
    /\ UNCHANGED <<peers, namestore, string, live, last_update, now>>
-----------------------------------------------------------------------------
Init ==
    /\ peers = [g \in Guids |-> NoPeer]
    /\ namestore = [n \in UserNames |-> NULL]
    /\ string = [a \in Addrs |-> Garbage]
    /\ live = {}
    /\ last_update = 0 /\ now = 0
    /\ status = "running"

\* Mutant: every user of the same name is taken for a reconnection.
Replaced_any_host(g, u, h) ==
    LET a == namestore[Plain(u)]
    IN  {old \in Guids \ {g} : a # NULL /\ string[a] = old /\ Stored(old)}

\* The peer that handle_peer_reconnection takes for an earlier one of the same
\* user on the same host, and frees together with the string that led to it.
Replaced(g, u, h) ==
    LET a == namestore[Plain(u)]
    IN  {old \in Guids \ {g} :
            a # NULL /\ string[a] = old /\ Stored(old) /\ peers[old].host_address = h}

handle_peer_reconnection(g, u, h) ==
    [x \in Guids |-> IF x \in Replaced(g, u, h) THEN NoPeer ELSE peers[x]]

\* Mutants: a name that is taken is used all the same; the whole guid string is
\* appended.
username_not_unique(g, u) == Plain(u)

username_with_guid(g, u) == IF namestore[Plain(u)] # NULL THEN <<u, g>> ELSE Plain(u)

ensure_username_unique(g, u) ==
    IF namestore[Plain(u)] # NULL THEN <<u, prefix[g]>> ELSE Plain(u)

\* A known peer whose stored name begins with the name it announces keeps it;
\* otherwise, as for a new peer, a name is made unique and leads to address b.
Renamed(g, u) == Stored(g) => <<peers[g].user_name[1], u>> \notin begins_with

StoreUnder(g, u, h, before, b) ==
    LET name == IF Renamed(g, u) THEN ensure_username_unique(g, u) ELSE peers[g].user_name
    IN  /\ peers' = [before EXCEPT ![g] =
               [host_address |-> h, user_name |-> name, last_seen |-> now]]
        /\ namestore' = IF ~Renamed(g, u) THEN namestore
                        ELSE [n \in UserNames |->
                                 CASE n = name -> b
                                   [] Stored(g) /\ n = peers[g].user_name -> NULL
                                   [] OTHER -> namestore[n]]

\* Peer g announced itself as user u at host h.  If the name was known its guid
\* is written to a string of its own (line 59) before anything is freed; then
\* to one at b (line 92), which may be the address just freed.
peerstore_store_peer(g, u, h) ==
    LET a == namestore[Plain(u)]
        freed == IF Replaced(g, u, h) = {} THEN {} ELSE {a}
    IN  /\ status = "running"
        /\ \/ /\ ~(freed \subseteq live)
              /\ DoubleFree
           \/ /\ freed \subseteq live
              /\ \E first \in IF a = NULL THEN {{}} ELSE {{b} : b \in Addrs \ live} :
                 \E b \in Addrs \ ((live \cup first) \ freed) :
                 \E old \in {Garbage} \cup (UNION {Freed(y) : y \in freed}) :
                    /\ StoreUnder(g, u, h, handle_peer_reconnection(g, u, h), b)
                    /\ Heap(((live \cup first) \ freed) \cup {b},
                            [y \in Addrs |-> IF y \in first \cup {b} THEN g
                                             ELSE IF y \in freed THEN old ELSE string[y]])
              /\ UNCHANGED <<last_update, now, status>>

\* The record of an inactive peer is dropped when it is looked up.
DropInactive(g) ==
    peers' = IF Stored(g) /\ ~is_peer_active(g) THEN [peers EXCEPT ![g] = NoPeer] ELSE peers

\* The guid's own string is freed again before the lock is released.
peerstore_lookup(g) ==
    /\ status = "running"
    /\ DropInactive(g)
    /\ UNCHANGED <<namestore, last_update, now, status>>
    /\ \E b \in Addrs \ live, x \in {g, Garbage} : Heap(live, [string EXCEPT ![b] = x])

\* Mutant: the string goes although the peer is there.
lookup_frees_string(n) ==
    /\ status = "running"
    /\ namestore[n] \in live
    /\ namestore' = [namestore EXCEPT ![n] = NULL]
    /\ Heap(live \ {namestore[n]}, string)
    /\ UNCHANGED <<peers, last_update, now, status>>

peerstore_lookup_by_username(n) ==
    LET a == namestore[n]
        found == {g \in Guids : string[a] = g /\ Stored(g)}
    IN  /\ status = "running"
        /\ a # NULL
        /\ \/ /\ found = {} /\ a \notin live
              /\ DoubleFree
           \/ /\ found = {} /\ a \in live
              /\ namestore' = [namestore EXCEPT ![n] = NULL]
              /\ \E x \in Freed(a) : Heap(live \ {a}, [string EXCEPT ![a] = x])
              /\ UNCHANGED <<peers, last_update, now, status>>
           \/ /\ \E g \in found : DropInactive(g)
              /\ UNCHANGED <<namestore, string, live, last_update, now, status>>

peerstore_set_last_update_time ==
    /\ status = "running"
    /\ last_update' = now
    /\ UNCHANGED <<peers, namestore, string, live, now, status>>

\* Frees every record; the strings are leaked.
peerstore_destroy ==
    /\ status = "running"
    /\ status' = "destroyed"
    /\ peers' = [g \in Guids |-> NoPeer]
    /\ namestore' = [n \in UserNames |-> NULL]
    /\ Heap(live, string)
    /\ UNCHANGED <<last_update, now>>

Tick ==
    /\ status = "running"
    /\ now < MaxTime
    /\ now' = now + 1
    /\ UNCHANGED <<peers, namestore, string, live, last_update, status>>

Next ==
    \/ \E g \in Guids, u \in Names, h \in Hosts : peerstore_store_peer(g, u, h)
    \/ \E g \in Guids : peerstore_lookup(g)
    \/ \E n \in UserNames : peerstore_lookup_by_username(n)
    \/ peerstore_set_last_update_time
    \/ peerstore_destroy
    \/ Tick

Spec == Init /\ [][Next]_vars
-----------------------------------------------------------------------------
(* Properties.                                                             *)

TypeOK ==
    /\ peers \in [Guids -> Peers \cup {NoPeer}]
    /\ namestore \in [UserNames -> Addrs \cup {NULL}]
    /\ string \in [Addrs -> Guids \cup {Garbage}]
    /\ live \subseteq Addrs
    /\ last_update \in 0..MaxTime
    /\ now \in 0..MaxTime
    /\ status \in {"running", "destroyed", "double_free"}

\* Every peer in the store is found under its own user name: the name leads to
\* a string that was not freed and holds the peer's guid.  So no two stored
\* peers share a name, and whatever was freed belonged to no stored peer.  Only
\* a peer whose name was made unique by four characters that another guid begins
\* with too may be lost; and it is the only one that such a clash harms.
FoundUnderName(g) ==
    LET a == namestore[peers[g].user_name]
    IN  a # NULL /\ a \in live /\ string[a] = g

NameIsItsOwn(g) ==
    \/ peers[g].user_name[2] = NULL
    \/ \A h \in Guids \ {g} : prefix[h] # prefix[g]

StoredPeersFound ==
    \A g \in Guids : Stored(g) /\ NameIsItsOwn(g) => FoundUnderName(g)

\* A record is freed, with every pointer to it that a lookup returned, only when
\* the store is destroyed, when the peer was silent for two intervals or announced
\* one too long to be doubled, or when another peer announces itself from its host.
RecordsKept ==
    [][\A g \in Guids :
          Stored(g) /\ ~Stored(g)' =>
              \/ status' = "destroyed"
              \/ periodic /\ peers[g].last_seen + 2 * discovery_interval[g] < now
              \/ periodic /\ 2 * discovery_interval[g] >= uint32
              \/ \E new \in Guids \ {g} :
                    /\ Stored(new)'
                    /\ peers'[new].host_address = peers[g].host_address
                    /\ peers'[new].last_seen = now]_vars

\* What makes StoredPeersFound inductive: a suffix is the peer's own, and time
\* does not run backwards.
OwnSuffix ==
    \A g \in Guids : Stored(g) =>
        peers[g].user_name[2] \in {NULL, prefix[g]}

LastUpdatePast == last_update <= now

StoreInv == StoredPeersFound /\ OwnSuffix /\ LastUpdatePast
-----------------------------------------------------------------------------
(* What comments and tests say and the code does not do.                   *)

\* A known peer is stored under the name it announced last, but for the suffix:
\* "compare with unique username - possibly 5 extra characters appended"
\* (line 99).
NameFollows ==
    [][\A g \in Guids, u \in Names, h \in Hosts :
          peerstore_store_peer(g, u, h) /\ status' = "running" =>
              peers'[g].user_name[1] = u]_vars

\* Looking up the name of a peer that is gone returns NULL:
\* "JNXCHECK(NULL == other)" (test_peerstore.c:102).
LookupsReturn == status # "double_free"
=============================================================================
