----------------------- MODULE SessionController_proofs -----------------------
(* What is proved about the session controller, for every set of sessions,    *)
(* connections and texts.                                                     *)
EXTENDS SessionController, SequenceTheorems, TLAPS

(* The sequence operators on a list with no element twice. *)
LEMMA AppendFacts ==
    ASSUME NEW S, NEW q \in Seq(S), NEW e \in S
    PROVE  /\ Append(q, e) \in Seq(S) /\ Append(q, e) # <<>>
           /\ ToSet(Append(q, e)) = ToSet(q) \cup {e}
           /\ IsInjective(q) /\ e \notin ToSet(q) => IsInjective(Append(q, e))
<1>1. /\ Append(q, e) \in Seq(S) /\ Len(Append(q, e)) = Len(q) + 1 /\ Len(q) \in Nat
      /\ DOMAIN q = 1..Len(q) /\ DOMAIN Append(q, e) = 1..(Len(q) + 1)
      /\ \A i \in 1..Len(q) : Append(q, e)[i] = q[i]
      /\ Append(q, e)[Len(q) + 1] = e
  OBVIOUS
<1>2. Append(q, e) # <<>>
  BY <1>1
<1>3. ToSet(Append(q, e)) = ToSet(q) \cup {e}
  BY <1>1 DEF ToSet
<1>4. ASSUME IsInjective(q), e \notin ToSet(q) PROVE IsInjective(Append(q, e))
  <2>1. \A i \in 1..Len(q) : q[i] # e
    BY <1>1, <1>4 DEF ToSet
  <2>2. \A i, j \in 1..Len(q) : q[i] = q[j] => i = j
    BY <1>1, <1>4 DEF IsInjective
  <2>3. ASSUME NEW i \in 1..(Len(q) + 1), NEW j \in 1..(Len(q) + 1),
               Append(q, e)[i] = Append(q, e)[j]
        PROVE  i = j
    BY <1>1, <2>1, <2>2, <2>3
  <2> QED
    BY <1>1, <2>3 DEF IsInjective
<1> QED
  BY <1>1, <1>2, <1>3, <1>4

(* Where one element of r is before another, it is in q as well. *)
InOrder(r, q) ==
    \A i \in DOMAIN r : \A j \in 1..i :
        \E k \in DOMAIN q : \E m \in 1..k : r[i] = q[k] /\ r[j] = q[m]

LEMMA RemoveFacts ==
    ASSUME NEW S, NEW q \in Seq(S), IsInjective(q), NEW e, e \in ToSet(q)
    PROVE  /\ RemoveFirst(q, e) \in Seq(S)
           /\ ToSet(RemoveFirst(q, e)) = ToSet(q) \ {e}
           /\ IsInjective(RemoveFirst(q, e))
           /\ InOrder(RemoveFirst(q, e), q)
<1>1. DOMAIN q = 1..Len(q) /\ Len(q) \in Nat
  OBVIOUS
<1>2. PICK k \in 1..Len(q) : q[k] = e
  BY <1>1 DEF ToSet
<1>3. \A i, j \in 1..Len(q) : q[i] = q[j] => i = j
  BY <1>1 DEF IsInjective
<1>4. {i \in 1..Len(q) : q[i] = e} = {k}
  BY <1>2, <1>3
<1>5. SelectInSeq(q, LAMBDA v : v = e) = k
  <2>1. SelectInSeq(q, LAMBDA v : v = e) = IF {k} # {} THEN Min({k}) ELSE 0
    BY <1>4 DEF SelectInSeq
  <2>2. Min({k}) = k
    BY <1>2 DEF Min
  <2> QED
    BY <2>1, <2>2
<1>6. RemoveFirst(q, e) = RemoveAt(q, k)
  BY <1>2, <1>5 DEF RemoveFirst
<1> DEFINE r == RemoveAt(q, k)
<1>7. /\ r \in Seq(S) /\ Len(r) = Len(q) - 1
      /\ \A i \in 1..(Len(q) - 1) : r[i] = IF i < k THEN q[i] ELSE q[i + 1]
  <2> DEFINE a == SubSeq(q, 1, k - 1)
             b == SubSeq(q, k + 1, Len(q))
  <2>1. k - 1 \in 0..Len(q) /\ k + 1 \in 1..(Len(q) + 1)
    BY <1>1, <1>2
  <2>2. a \in Seq(S) /\ Len(a) = k - 1 /\ \A i \in 1..(k - 1) : a[i] = q[i]
    BY <1>1, <1>2, <2>1, SubSeqProperties
  <2>3. /\ b \in Seq(S) /\ Len(b) = Len(q) - k
        /\ \A i \in 1..(Len(q) - k) : b[i] = q[k + i]
    <3>1. b \in Seq(S) /\ Len(b) = (IF k + 1 <= Len(q) THEN Len(q) - (k + 1) + 1 ELSE 0)
      BY <1>1, <1>2, <2>1, SubSeqProperties
    <3>2. Len(b) = Len(q) - k
      <4> HIDE DEF b
      <4>1. CASE k + 1 <= Len(q)
        BY <1>1, <1>2, <3>1, <4>1
      <4>2. CASE k = Len(q)
        BY <1>1, <1>2, <3>1, <4>2
      <4>3. k + 1 <= Len(q) \/ k = Len(q)
        <5>1. k \in Nat /\ k <= Len(q) /\ Len(q) \in Nat
          BY <1>1, <1>2
        <5> HIDE DEF a, r
        <5> QED
          BY ONLY <5>1
      <4> QED
        BY <4>1, <4>2, <4>3
    <3>3. ASSUME NEW i \in 1..(Len(q) - k) PROVE b[i] = q[k + i]
      <4>1. i \in 1..(Len(q) - (k + 1) + 1) /\ (k + 1) + i - 1 = k + i
        BY <1>1, <1>2
      <4>2. b[i] = q[(k + 1) + i - 1]
        BY <1>1, <1>2, <2>1, <4>1
      <4> QED
        BY <4>1, <4>2
    <3> QED
      BY <3>1, <3>2, <3>3
  <2>4. r = a \o b
    BY DEF RemoveAt
  <2> HIDE DEF a, b, r
  <2>5. r \in Seq(S) /\ Len(r) = Len(q) - 1
    <3>1. r \in Seq(S) /\ Len(r) = Len(a) + Len(b)
      BY <2>2, <2>3, <2>4, ConcatProperties
    <3> QED
      BY <1>1, <1>2, <2>2, <2>3, <3>1
  <2>6. ASSUME NEW i \in 1..(Len(q) - 1) PROVE r[i] = IF i < k THEN q[i] ELSE q[i + 1]
    <3>1. r[i] = IF i <= k - 1 THEN a[i] ELSE b[i - (k - 1)]
      BY <1>1, <1>2, <2>2, <2>3, <2>4, ConcatProperties
    <3>2. CASE i < k
      BY <1>2, <2>2, <3>1, <3>2
    <3>3. CASE ~(i < k)
      <4>1. i - (k - 1) \in 1..(Len(q) - k) /\ k + (i - (k - 1)) = i + 1
        BY <1>1, <1>2, <3>3
      <4> QED
        BY <1>2, <2>3, <3>1, <3>3, <4>1
    <3> QED
      BY <3>2, <3>3
  <2> QED
    BY <2>5, <2>6
<1>8. DOMAIN r = 1..(Len(q) - 1)
  BY <1>7
<1> HIDE DEF r
<1>9. ToSet(r) = ToSet(q) \ {e}
  <2>1. ASSUME NEW i \in DOMAIN r PROVE r[i] \in ToSet(q) \ {e}
    BY <1>1, <1>2, <1>3, <1>7, <1>8 DEF ToSet
  <2>2. ASSUME NEW x \in ToSet(q) \ {e} PROVE x \in ToSet(r)
    <3>1. PICK j \in 1..Len(q) : q[j] = x
      BY <1>1 DEF ToSet
    <3>2. CASE j < k
      BY <1>2, <1>7, <1>8, <3>1, <3>2 DEF ToSet
    <3>3. CASE j > k
      <4>1. j - 1 \in 1..(Len(q) - 1) /\ r[j - 1] = q[j]
        BY <1>1, <1>2, <1>7, <3>3
      <4> QED
        BY <1>8, <3>1, <4>1 DEF ToSet
    <3> QED
      BY <1>2, <3>1, <3>2, <3>3
  <2> QED
    BY <2>1, <2>2 DEF ToSet
<1>10. IsInjective(r)
  BY <1>1, <1>2, <1>3, <1>7, <1>8 DEF IsInjective
<1>11. ASSUME NEW i \in DOMAIN r, NEW j \in 1..i
       PROVE  \E l \in DOMAIN q : \E m \in 1..l : r[i] = q[l] /\ r[j] = q[m]
  <2> DEFINE At(x) == IF x < k THEN x ELSE x + 1
  <2>1. i \in 1..(Len(q) - 1) /\ j \in 1..(Len(q) - 1) /\ j <= i
    BY <1>1, <1>8
  <2>2. At(i) \in DOMAIN q /\ At(j) \in 1..At(i)
    BY <1>1, <1>2, <2>1
  <2>3. r[i] = q[At(i)] /\ r[j] = q[At(j)]
    BY <1>7, <2>1
  <2> HIDE DEF At
  <2> QED
    BY <2>2, <2>3
<1>12. InOrder(r, q)
  BY <1>11 DEF InOrder
<1> QED
  BY <1>6, <1>7, <1>9, <1>10, <1>12 DEF r
-----------------------------------------------------------------------------
(* The invariant. *)

LEMMA InitEstablishes == Init => SessionInv
<1> SUFFICES ASSUME Init PROVE SessionInv
  OBVIOUS
<1>1. TypeOK
  BY DEF Init, TypeOK, States, ToSet
<1>2. OneSessionEach
  BY DEF Init, OneSessionEach, IsInjective
<1>3. ServedInOrder /\ SentOnComplete /\ NotifiedAfterReceipt /\ ListedUnderHandle
  BY DEF Init, ServedInOrder, SentOnComplete, NotifiedAfterReceipt, ListedUnderHandle
<1> QED
  BY <1>1, <1>2, <1>3 DEF SessionInv

(* What OneSessionEach and TypeOK say of lists, in a form each action uses. *)
LEMMA NewConnectionIsFree ==
    ASSUME SessionInv, NEW c \in ConnIds, NewConnection(c), NEW s \in existing
    PROVE  c \notin Of(s)
BY DEF SessionInv, OneSessionEach, NewConnection

(* A connection enters session s, which is listed already or is listed now. *)
LEMMA ConnectionAdded ==
    ASSUME SessionInv, NEW s \in Sessions, NEW c \in ConnIds,
           handle, NewConnection(c), session_add_connection(s, c),
           \/ Fresh(s) /\ existing' = existing \cup {s} /\ session_list' = Append(session_list, s)
           \/ s \in existing /\ UNCHANGED <<existing, session_list>>,
           UNCHANGED <<handle, status, noteVars>>
    PROVE  SessionInv'
<1>1. /\ state' \in [ConnIds -> States]
      /\ \A d \in ConnIds : state'[d] = IF d = c THEN "PENDING" ELSE state[d]
  BY DEF SessionInv, TypeOK, NewConnection, States
<1> DEFINE l == connection_request_list[s]
<1>2. /\ l \in Seq(ConnIds)
      /\ connection_request_list' \in [Sessions -> Seq(ConnIds)]
      /\ connection_request_list'[s] = Append(l, c)
      /\ \A x \in Sessions \ {s} : connection_request_list'[x] = connection_request_list[x]
  BY DEF SessionInv, TypeOK, session_add_connection
<1>3. IsInjective(l) /\ c \notin ToSet(l)
  <2>1. CASE Fresh(s)
    BY <2>1 DEF Fresh, IsInjective, ToSet
  <2>2. CASE s \in existing
    BY <2>2, NewConnectionIsFree DEF SessionInv, OneSessionEach, Of
  <2> QED
    BY <2>1, <2>2
<1>4. /\ IsInjective(connection_request_list'[s])
      /\ ToSet(connection_request_list'[s]) = ToSet(l) \cup {c}
  BY <1>2, <1>3, AppendFacts
<1>5. /\ session_list' \in Seq(Sessions) /\ IsInjective(session_list')
      /\ ToSet(session_list') \subseteq existing'
      /\ existing' \subseteq Sessions /\ existing' \ {s} = existing \ {s} /\ s \in existing'
  <2>1. CASE Fresh(s) /\ existing' = existing \cup {s} /\ session_list' = Append(session_list, s)
    <3>1. s \notin ToSet(session_list)
      BY <2>1 DEF Fresh, SessionInv, TypeOK
    <3> QED
      BY <2>1, <3>1, AppendFacts DEF SessionInv, TypeOK, OneSessionEach
  <2>2. CASE s \in existing /\ UNCHANGED <<existing, session_list>>
    BY <2>2 DEF SessionInv, TypeOK, OneSessionEach
  <2> QED
    BY <2>1, <2>2
<1>6. TypeOK'
  BY <1>1, <1>2, <1>5 DEF SessionInv, TypeOK, noteVars
<1>7. \A x \in existing' \ {s} :
        /\ Of(x)' = Of(x) /\ x \in existing
        /\ connection_request_list'[x] = connection_request_list[x]
  BY <1>2, <1>5 DEF Of
<1>8. Of(s)' = ToSet(l) \cup {c}
  BY <1>4 DEF Of
<1>9. \A x \in existing \ {s} : Of(x) \cap ToSet(l) = {}
  <2>1. CASE Fresh(s)
    BY <2>1 DEF Fresh, ToSet
  <2>2. CASE s \in existing
    BY <2>2 DEF SessionInv, OneSessionEach, Of
  <2> QED
    BY <2>1, <2>2
<1>10. \A x \in existing' : IsInjective(connection_request_list'[x])
  BY <1>4, <1>7 DEF SessionInv, OneSessionEach
<1>11. \A x \in existing' : \A d \in Of(x)' : state'[d] # "NONE"
  <2>1. ASSUME NEW x \in existing' \ {s}, NEW d \in Of(x)' PROVE state'[d] # "NONE"
    <3>1. state[d] # "NONE" /\ d \in ConnIds
      BY <1>7, <2>1 DEF SessionInv, OneSessionEach, TypeOK, Of, ToSet
    <3> QED
      BY <1>1, <3>1
  <2>2. ASSUME NEW d \in Of(s)' PROVE state'[d] # "NONE"
    <3>1. CASE d = c
      BY <1>1, <3>1
    <3>2. CASE d \in ToSet(l)
      <4>1. s \in existing
        BY <3>2 DEF Fresh, ToSet
      <4>2. state[d] # "NONE" /\ d \in ConnIds
        BY <1>2, <3>2, <4>1 DEF SessionInv, OneSessionEach, Of, ToSet
      <4> QED
        BY <1>1, <4>2
    <3> QED
      BY <1>8, <2>2, <3>1, <3>2
  <2> QED
    BY <2>1, <2>2
<1>12. ASSUME NEW x \in existing', NEW y \in existing' \ {x} PROVE Of(x)' \cap Of(y)' = {}
  <2>1. \A z \in existing \ {s} : Of(z) \cap (ToSet(l) \cup {c}) = {}
    BY <1>9, NewConnectionIsFree
  <2>2. CASE x = s
    BY <1>7, <1>8, <2>1, <2>2
  <2>3. CASE y = s
    BY <1>7, <1>8, <2>1, <2>3
  <2>4. CASE x # s /\ y # s
    BY <1>7, <2>4 DEF SessionInv, OneSessionEach
  <2> QED
    BY <2>2, <2>3, <2>4
<1>13. OneSessionEach'
  BY <1>5, <1>10, <1>11, <1>12 DEF OneSessionEach
<1>14. SentOnComplete' /\ NotifiedAfterReceipt' /\ ListedUnderHandle'
  <2>1. SentOnComplete'
    <3>1. ASSUME NEW x \in sent PROVE state'[x[2]] = state[x[2]]
      BY <1>1, <3>1 DEF SessionInv, TypeOK, SentOnComplete, NewConnection
    <3> QED
      BY <3>1 DEF SessionInv, SentOnComplete, noteVars
  <2> QED
    BY <2>1 DEF SessionInv, NotifiedAfterReceipt, ListedUnderHandle, noteVars
<1>15. ServedInOrder'
  <2> SUFFICES ASSUME NEW x \in existing', NEW i \in DOMAIN connection_request_list'[x],
                      NEW t \in Texts, <<x, connection_request_list'[x][i], t>> \in sent,
                      NEW j \in 1..i
               PROVE  <<x, connection_request_list'[x][j], t>> \in sent
    BY DEF ServedInOrder, noteVars
  <2>1. CASE x # s
    BY <1>7, <2>1 DEF SessionInv, ServedInOrder
  <2>2. CASE x = s
    <3>1. /\ i \in 1..(Len(l) + 1) /\ Len(l) \in Nat
          /\ \A k \in 1..Len(l) : connection_request_list'[s][k] = l[k]
          /\ connection_request_list'[s][Len(l) + 1] = c
      BY <1>2, <2>2
    <3>2. \A u \in Texts : <<s, c, u>> \notin sent
      BY DEF SessionInv, SentOnComplete, NewConnection
    <3>3. i \in 1..Len(l) /\ j \in 1..Len(l)
      BY <2>2, <3>1, <3>2
    <3>4. s \in existing
      BY <3>3 DEF Fresh
    <3>5. i \in DOMAIN l /\ <<s, l[i], t>> \in sent
      <4>1. connection_request_list'[x][i] = l[i]
        BY <2>2, <3>1, <3>3
      <4>2. DOMAIN l = 1..Len(l)
        BY <1>2
      <4> HIDE DEF l
      <4> QED
        BY <2>2, <3>3, <4>1, <4>2
    <3>6. <<s, l[j], t>> \in sent
      BY <3>4, <3>5 DEF SessionInv, ServedInOrder
    <3> QED
      BY <2>2, <3>1, <3>3, <3>6
  <2> QED
    BY <2>1, <2>2
<1> QED
  BY <1>6, <1>13, <1>14, <1>15 DEF SessionInv

LEMMA ConnectionOfSession ==
    ASSUME SessionInv, NEW s \in existing, NEW c \in Of(s)
    PROVE  c \in ConnIds /\ state[c] # "NONE"
BY DEF SessionInv, OneSessionEach, TypeOK, Of, ToSet

(* The steps that touch no list of a session. *)
LEMMA ListsUntouched ==
    ASSUME SessionInv, UNCHANGED listVars,
           state' \in [ConnIds -> States],
           status' \in {"running", "check_scontroller_handle", "freed_request"},
           UNCHANGED handle,
           sent' \subseteq Sessions \X ConnIds \X Texts,
           tried' \subseteq Sessions \X Texts,
           received' \subseteq ConnIds \X Texts,
           notified' \subseteq Sessions \X ConnIds \X ConnIds \X Texts,
           \A c \in ConnIds : state[c] # "NONE" => state'[c] # "NONE",
           ServedInOrder', SentOnComplete', NotifiedAfterReceipt'
    PROVE  SessionInv'
<1>1. TypeOK'
  BY DEF SessionInv, TypeOK, listVars
<1>2. \A s \in existing : \A c \in Of(s) : state'[c] # "NONE"
  BY ConnectionOfSession
<1>3. OneSessionEach' /\ ListedUnderHandle'
  BY <1>2 DEF SessionInv, OneSessionEach, ListedUnderHandle, listVars, Of
<1> QED
  BY <1>1, <1>3 DEF SessionInv

(* A step that only takes away: sessions from the list or from those that     *)
(* exist, or one connection from a session.                                   *)
LEMMA TakenAway ==
    ASSUME SessionInv,
           existing' \subseteq existing,
           session_list' \in Seq(Sessions), IsInjective(session_list'),
           ToSet(session_list') \subseteq existing',
           connection_request_list' \in [Sessions -> Seq(ConnIds)],
           \A s \in existing' :
               /\ IsInjective(connection_request_list'[s]) /\ Of(s)' \subseteq Of(s)
               /\ InOrder(connection_request_list'[s], connection_request_list[s]),
           handle' \in BOOLEAN, ~handle' => session_list' = <<>>,
           UNCHANGED <<state, status, noteVars>>
    PROVE  SessionInv'
<1>1. TypeOK'
  BY DEF SessionInv, TypeOK, noteVars
<1>2. OneSessionEach'
  <2>1. ASSUME NEW s \in existing', NEW c \in Of(s)'
        PROVE  state'[c] # "NONE"
    BY <2>1, ConnectionOfSession
  <2>2. ASSUME NEW s \in existing', NEW o \in existing' \ {s} PROVE Of(s)' \cap Of(o)' = {}
    BY <2>2 DEF SessionInv, OneSessionEach
  <2> QED
    BY <2>1, <2>2 DEF OneSessionEach
<1>3. SentOnComplete' /\ NotifiedAfterReceipt' /\ ListedUnderHandle'
  BY DEF SessionInv, SentOnComplete, NotifiedAfterReceipt, ListedUnderHandle, noteVars
<1>4. ServedInOrder'
  <2> SUFFICES ASSUME NEW s \in existing', NEW i \in DOMAIN connection_request_list'[s],
                      NEW t \in Texts, <<s, connection_request_list'[s][i], t>> \in sent,
                      NEW j \in 1..i
               PROVE  <<s, connection_request_list'[s][j], t>> \in sent
    BY DEF ServedInOrder, noteVars
  <2>1. PICK k \in DOMAIN connection_request_list[s] : \E m \in 1..k :
            /\ connection_request_list'[s][i] = connection_request_list[s][k]
            /\ connection_request_list'[s][j] = connection_request_list[s][m]
    BY DEF InOrder
  <2> QED
    BY <2>1 DEF SessionInv, ServedInOrder
<1> QED
  BY <1>1, <1>2, <1>3, <1>4 DEF SessionInv

LEMMA SameOrder ==
    ASSUME NEW S, NEW q \in Seq(S) PROVE InOrder(q, q)
BY DEF InOrder

(* Whom a text is notified to: sessions of the list that have its connection,  *)
(* or one that was freed and is taken for it.                                 *)
LEMMA NotificationsFacts ==
    ASSUME SessionInv, NEW c \in ConnIds, NEW t \in Texts,
           NEW misread \in SUBSET ConnIds, NEW n \in Notifications(c, t, misread)
    PROVE  /\ n \in Sessions \X ConnIds \X ConnIds \X Texts
           /\ n[3] = c /\ n[4] = t
           /\ n[1] \in ToSet(session_list) /\ n[2] \in Of(n[1])
           /\ \E e \in {c} \cup misread : e \in Of(n[1])
<1>1. PICK s \in ToSet(session_list) : \E d \in FoundIn(s, c, misread) : n = <<s, d, c, t>>
  BY DEF Notifications
<1>2. PICK d \in FoundIn(s, c, misread) : n = <<s, d, c, t>>
  BY <1>1
<1>3. s \in Sessions /\ connection_request_list[s] \in Seq(ConnIds)
  BY DEF SessionInv, TypeOK
<1>4. PICK k \in DOMAIN connection_request_list[s] :
        /\ \E i \in 1..k : connection_request_list[s][i] \in {c} \cup misread
        /\ d = connection_request_list[s][k]
  BY DEF FoundIn
<1>5. d \in Of(s) /\ d \in ConnIds /\ \E e \in {c} \cup misread : e \in Of(s)
  BY <1>3, <1>4 DEF Of, ToSet
<1> QED
  BY <1>2, <1>3, <1>5

(* How far a text gets in session s: what it is sent on is the list up to some *)
(* position, complete or freed; all of the list up to what is not complete     *)
(* unless one of them was freed.                                               *)
LEMMA SendEffect ==
    ASSUME SessionInv, NEW s \in Sessions, NEW t \in Texts,
           session_controller_session_send_message(s, t)
    PROVE  \E reached \in SUBSET DOMAIN connection_request_list[s] :
             /\ sent' = sent \cup {<<s, connection_request_list[s][i], t>> : i \in reached}
             /\ \A i \in reached : \A j \in 1..i :
                   /\ j \in reached
                   /\ state[connection_request_list[s][j]] \in {"E_CRS_COMPLETE", "REMOVED"}
             /\ ~HasFreed(s) =>
                   \A i \in DOMAIN connection_request_list[s] :
                       (\A j \in 1..i : Complete(connection_request_list[s][j])) => i \in reached
<1> DEFINE list == connection_request_list[s]
<1>1. list \in Seq(ConnIds) /\ DOMAIN list \subseteq Nat
  BY DEF SessionInv, TypeOK
<1>2. PICK misread \in SUBSET {d \in Of(s) : Freed(d)} :
        \/ sent' = sent \cup {<<s, list[i], t>> : i \in Reached(s, misread)}
        \/ \E last \in Reached(s, misread) :
              /\ Freed(list[last])
              /\ sent' = sent \cup {<<s, list[i], t>> : i \in Reached(s, misread) \cap 1..last}
  BY DEF session_controller_session_send_message
<1> DEFINE full == Reached(s, misread)
<1>3. /\ full \in SUBSET DOMAIN list
      /\ \A i \in full : \A j \in 1..i : Complete(list[j]) \/ list[j] \in misread
      /\ \A i \in DOMAIN list : (\A j \in 1..i : Complete(list[j])) => i \in full
  BY DEF Reached
<1>4. \A i \in full : \A j \in 1..i : j \in DOMAIN list /\ 1..j \subseteq 1..i
  BY <1>1, <1>3
<1>5. \A i \in full : \A j \in 1..i : j \in full /\ state[list[j]] \in {"E_CRS_COMPLETE", "REMOVED"}
  <2>1. ASSUME NEW i \in full, NEW j \in 1..i PROVE j \in full
    BY <1>3, <1>4 DEF Reached
  <2>2. ASSUME NEW i \in full, NEW j \in 1..i
        PROVE  state[list[j]] \in {"E_CRS_COMPLETE", "REMOVED"}
    BY <1>3 DEF Complete, Freed
  <2> QED
    BY <2>1, <2>2
<1> HIDE DEF full, list
<1>6. CASE sent' = sent \cup {<<s, list[i], t>> : i \in full}
  BY <1>3, <1>5, <1>6 DEF list
<1>7. ASSUME NEW last \in full, Freed(list[last]),
             sent' = sent \cup {<<s, list[i], t>> : i \in full \cap 1..last}
      PROVE  \E reached \in SUBSET DOMAIN list :
             /\ sent' = sent \cup {<<s, list[i], t>> : i \in reached}
             /\ \A i \in reached : \A j \in 1..i :
                   j \in reached /\ state[list[j]] \in {"E_CRS_COMPLETE", "REMOVED"}
             /\ HasFreed(s)
  <2>1. HasFreed(s)
    BY <1>3, <1>7 DEF HasFreed, Of, ToSet, list
  <2>2. \A i \in full \cap 1..last : \A j \in 1..i :
            j \in full \cap 1..last /\ state[list[j]] \in {"E_CRS_COMPLETE", "REMOVED"}
    BY <1>1, <1>3, <1>5
  <2>3. full \cap 1..last \in SUBSET DOMAIN list
    BY <1>3
  <2> QED
    BY <1>7, <2>1, <2>2, <2>3
<1> QED
  BY <1>2, <1>6, <1>7 DEF full, list

(* Every step of the controller keeps the invariant. *)
LEMMA StepPreserves == SessionInv /\ [Next]_vars => SessionInv'
<1> SUFFICES ASSUME SessionInv, [Next]_vars PROVE SessionInv'
  OBVIOUS
<1> USE DEF noteVars
<1>1. ASSUME NEW s \in Sessions, NEW c \in ConnIds, session_controller_session_create(s, c)
      PROVE  SessionInv'
  BY <1>1, ConnectionAdded DEF session_controller_session_create
<1>2. ASSUME NEW s \in Sessions, NEW c \in ConnIds, session_controller_session_add_peer(s, c)
      PROVE  SessionInv'
  BY <1>2, ConnectionAdded DEF session_controller_session_add_peer
<1>3. ASSUME NEW s \in Sessions, NEW c \in ConnIds, internal_incoming(s, c)
      PROVE  SessionInv'
  <2>1. CASE handle
    BY <1>3, <2>1, ConnectionAdded DEF internal_incoming
  <2>2. CASE ~handle
    <3>1. /\ NewConnection(c) /\ status' = "check_scontroller_handle"
          /\ UNCHANGED <<listVars, handle, noteVars>>
      BY <1>3, <2>2 DEF internal_incoming
    <3>2. state' \in [ConnIds -> States]
      BY <3>1 DEF NewConnection, SessionInv, TypeOK, States
    <3>3. \A d \in ConnIds : state'[d] = IF d = c THEN "PENDING" ELSE state[d]
      BY <3>1 DEF NewConnection, SessionInv, TypeOK
    <3>4. SentOnComplete'
      BY <3>1, <3>3 DEF NewConnection, SessionInv, TypeOK, SentOnComplete
    <3>5. ServedInOrder'
      BY <3>1 DEF SessionInv, ServedInOrder, listVars
    <3>6. /\ state' \in [ConnIds -> States] /\ NotifiedAfterReceipt'
          /\ \A d \in ConnIds : state[d] # "NONE" => state'[d] # "NONE"
      BY <3>1, <3>2, <3>3 DEF SessionInv, NotifiedAfterReceipt
    <3> QED
      BY <3>1, <3>4, <3>5, <3>6, ListsUntouched DEF SessionInv, TypeOK
  <2> QED
    BY <2>1, <2>2
<1>4. ASSUME NEW s \in Sessions, NEW c \in ConnIds, session_remove_connection(s, c)
      PROVE  SessionInv'
  <2>1. /\ s \in existing /\ c \in ToSet(connection_request_list[s])
        /\ connection_request_list' =
              [connection_request_list EXCEPT ![s] = RemoveFirst(@, c)]
        /\ UNCHANGED <<state, session_list, existing, handle, status, noteVars>>
    BY <1>4 DEF session_remove_connection, Of
  <2>2. /\ connection_request_list[s] \in Seq(ConnIds)
        /\ IsInjective(connection_request_list[s])
    BY <2>1 DEF SessionInv, TypeOK, OneSessionEach
  <2>3. /\ connection_request_list'[s] \in Seq(ConnIds)
        /\ IsInjective(connection_request_list'[s])
        /\ Of(s)' = Of(s) \ {c}
        /\ InOrder(connection_request_list'[s], connection_request_list[s])
    BY <2>1, <2>2, RemoveFacts DEF SessionInv, TypeOK, Of
  <2>4. \A x \in Sessions \ {s} : connection_request_list'[x] = connection_request_list[x]
    BY <2>1 DEF SessionInv, TypeOK
  <2>5. connection_request_list' \in [Sessions -> Seq(ConnIds)]
    BY <2>1, <2>3 DEF SessionInv, TypeOK
  <2>6. \A x \in existing' :
          /\ IsInjective(connection_request_list'[x]) /\ Of(x)' \subseteq Of(x)
          /\ InOrder(connection_request_list'[x], connection_request_list[x])
    BY <2>1, <2>3, <2>4, SameOrder DEF SessionInv, TypeOK, OneSessionEach, Of
  <2> QED
    BY <2>1, <2>5, <2>6, TakenAway DEF SessionInv, TypeOK, OneSessionEach, ListedUnderHandle
<1>5. ASSUME NEW s \in Sessions, session_controller_remove_session(s) PROVE SessionInv'
  <2>1. s \in ToSet(session_list)
    BY <1>5 DEF session_controller_remove_session, Contains, ToSet
  <2>2. /\ session_list' \in Seq(Sessions)
        /\ IsInjective(session_list')
        /\ ToSet(session_list') = ToSet(session_list) \ {s}
    BY <1>5, <2>1, RemoveFacts
       DEF session_controller_remove_session, SessionInv, TypeOK, OneSessionEach
  <2>3. \A x \in existing : InOrder(connection_request_list[x], connection_request_list[x])
    BY SameOrder DEF SessionInv, TypeOK
  <2> QED
    BY <1>5, <2>2, <2>3, TakenAway
       DEF session_controller_remove_session, SessionInv, TypeOK, OneSessionEach, Of
<1>6. ASSUME NEW s \in Sessions, session_destroy(s) PROVE SessionInv'
  <2>1. s \notin ToSet(session_list)
    BY <1>6 DEF session_destroy, Contains, ToSet
  <2>2. \A x \in existing : InOrder(connection_request_list[x], connection_request_list[x])
    BY SameOrder DEF SessionInv, TypeOK
  <2> QED
    BY <1>6, <2>1, <2>2, TakenAway
       DEF session_destroy, SessionInv, TypeOK, OneSessionEach, ListedUnderHandle, Of
<1>7. ASSUME NEW s \in Sessions, NEW t \in Texts, session_controller_session_send_message(s, t)
      PROVE  SessionInv'
  <2> DEFINE list == connection_request_list[s]
  <2>1. /\ s \in existing /\ <<s, t>> \notin tried
        /\ tried' = tried \cup {<<s, t>>}
        /\ status' \in {"running", "freed_request"}
        /\ UNCHANGED <<state, listVars, handle, received, notified>>
    BY <1>7 DEF session_controller_session_send_message
  <2>2. PICK reached \in SUBSET DOMAIN list :
          /\ sent' = sent \cup {<<s, list[i], t>> : i \in reached}
          /\ \A i \in reached : \A j \in 1..i :
                j \in reached /\ state[list[j]] \in {"E_CRS_COMPLETE", "REMOVED"}
    BY <1>7, SendEffect
  <2>3. /\ list \in Seq(ConnIds) /\ IsInjective(list)
        /\ \A i \in reached : list[i] \in ConnIds /\ i \in 1..i
    BY <2>1 DEF SessionInv, TypeOK, OneSessionEach
  <2> HIDE DEF list
  <2>4. sent' \subseteq Sessions \X ConnIds \X Texts /\ tried' \subseteq Sessions \X Texts
    BY <2>1, <2>2, <2>3 DEF SessionInv, TypeOK
  <2>5. SentOnComplete'
    <3>1. ASSUME NEW x \in sent'
          PROVE  state'[x[2]] \in {"E_CRS_COMPLETE", "REMOVED"} /\ <<x[1], x[3]>> \in tried'
      <4>1. CASE x \in sent
        BY <2>1, <4>1 DEF SessionInv, SentOnComplete
      <4>2. CASE x \in {<<s, list[i], t>> : i \in reached}
        BY <2>1, <2>2, <2>3, <4>2
      <4> QED
        BY <2>2, <3>1, <4>1, <4>2
    <3> QED
      BY <3>1 DEF SentOnComplete
  <2>6. ServedInOrder'
    <3> SUFFICES ASSUME NEW x \in existing, NEW i \in DOMAIN connection_request_list[x],
                        NEW u \in Texts, <<x, connection_request_list[x][i], u>> \in sent',
                        NEW j \in 1..i
                 PROVE  <<x, connection_request_list[x][j], u>> \in sent'
      BY <2>1 DEF ServedInOrder, listVars
    <3>1. CASE <<x, connection_request_list[x][i], u>> \in sent
      BY <2>2, <3>1 DEF SessionInv, ServedInOrder
    <3>2. CASE <<x, connection_request_list[x][i], u>> \notin sent
      <4>1. PICK k \in reached : <<x, connection_request_list[x][i], u>> = <<s, list[k], t>>
        BY <2>2, <3>2
      <4>2. x = s /\ u = t /\ list[i] = list[k]
        BY <4>1 DEF list
      <4>3. i = k
        BY <2>3, <4>2 DEF IsInjective, list
      <4> QED
        BY <2>2, <4>2, <4>3 DEF list
    <3> QED
      BY <3>1, <3>2
  <2>7. NotifiedAfterReceipt'
    BY <2>1 DEF SessionInv, NotifiedAfterReceipt
  <2> QED
    BY <2>1, <2>4, <2>5, <2>6, <2>7, ListsUntouched DEF SessionInv, TypeOK
<1>8. ASSUME NEW c \in ConnIds,
             internal_completed(c) \/ connection_controller_remove_connection_request(c)
      PROVE  SessionInv'
  <2>1. PICK new \in {"E_CRS_COMPLETE", "REMOVED"} :
          /\ new = "E_CRS_COMPLETE" => state[c] = "PENDING"
          /\ state' = [state EXCEPT ![c] = new]
          /\ UNCHANGED <<listVars, handle, status, noteVars>>
    BY <1>8 DEF internal_completed, connection_controller_remove_connection_request
  <2>2. /\ state' \in [ConnIds -> States]
        /\ \A d \in ConnIds : state'[d] = IF d = c THEN new ELSE state[d]
    BY <2>1 DEF SessionInv, TypeOK, States
  <2>3. SentOnComplete'
    BY <2>1, <2>2 DEF SessionInv, TypeOK, SentOnComplete
  <2>4. ServedInOrder' /\ NotifiedAfterReceipt'
    BY <2>1 DEF SessionInv, ServedInOrder, NotifiedAfterReceipt, listVars
  <2>5. \A d \in ConnIds : state[d] # "NONE" => state'[d] # "NONE"
    BY <2>2
  <2> QED
    BY <2>1, <2>2, <2>3, <2>4, <2>5, ListsUntouched DEF SessionInv, TypeOK
<1>9. ASSUME NEW c \in ConnIds, NEW t \in Texts, internal_message_received(c, t)
       PROVE  SessionInv'
  <2>1. PICK misread \in SUBSET ConnIds :
          /\ received' = received \cup {<<c, t>>}
          /\ notified' \subseteq notified \cup Notifications(c, t, misread)
          /\ UNCHANGED <<state, listVars, handle, status, sent, tried>>
    BY <1>9 DEF internal_message_received
  <2>2. NotifiedAfterReceipt'
    <3>1. ASSUME NEW n \in notified' PROVE <<n[3], n[4]>> \in received'
      <4>1. CASE n \in notified
        BY <2>1, <4>1 DEF SessionInv, NotifiedAfterReceipt
      <4>2. CASE n \in Notifications(c, t, misread)
        BY <2>1, <4>2, NotificationsFacts
      <4> QED
        BY <2>1, <3>1, <4>1, <4>2
    <3> QED
      BY <3>1 DEF NotifiedAfterReceipt
  <2>3. notified' \subseteq Sessions \X ConnIds \X ConnIds \X Texts
    BY <2>1, NotificationsFacts DEF SessionInv, TypeOK
  <2>4. received' \subseteq ConnIds \X Texts
    BY <2>1 DEF SessionInv, TypeOK
  <2>5. SentOnComplete' /\ ServedInOrder'
    BY <2>1 DEF SessionInv, SentOnComplete, ServedInOrder, listVars
  <2> QED
    BY <2>1, <2>2, <2>3, <2>4, <2>5, ListsUntouched DEF SessionInv, TypeOK
<1>10. ASSUME session_controller_destroy PROVE SessionInv'
  <2>1. session_list' = <<>> /\ existing' \subseteq existing /\ handle' \in BOOLEAN
        /\ UNCHANGED <<state, connection_request_list, status, noteVars>>
    BY <1>10 DEF session_controller_destroy
  <2>2. session_list' \in Seq(Sessions) /\ IsInjective(session_list') /\ ToSet(session_list') = {}
    BY <2>1 DEF IsInjective, ToSet
  <2>3. connection_request_list' \in [Sessions -> Seq(ConnIds)]
    BY <2>1 DEF SessionInv, TypeOK
  <2>4. \A s \in existing' :
          /\ IsInjective(connection_request_list'[s]) /\ Of(s)' \subseteq Of(s)
          /\ InOrder(connection_request_list'[s], connection_request_list[s])
    BY <2>1, SameOrder DEF SessionInv, TypeOK, OneSessionEach, Of
  <2> QED
    BY <2>1, <2>2, <2>3, <2>4, TakenAway
<1>11. ASSUME session_controller_create PROVE SessionInv'
  <2>1. session_list' = <<>> /\ existing' \subseteq existing /\ handle' \in BOOLEAN
        /\ UNCHANGED <<state, connection_request_list, status, noteVars>>
    BY <1>11 DEF session_controller_create
  <2>2. session_list' \in Seq(Sessions) /\ IsInjective(session_list') /\ ToSet(session_list') = {}
    BY <2>1 DEF IsInjective, ToSet
  <2>3. connection_request_list' \in [Sessions -> Seq(ConnIds)]
    BY <2>1 DEF SessionInv, TypeOK
  <2>4. \A s \in existing' :
          /\ IsInjective(connection_request_list'[s]) /\ Of(s)' \subseteq Of(s)
          /\ InOrder(connection_request_list'[s], connection_request_list[s])
    BY <2>1, SameOrder DEF SessionInv, TypeOK, OneSessionEach, Of
  <2> QED
    BY <2>1, <2>2, <2>3, <2>4, TakenAway
<1>12. ASSUME UNCHANGED vars PROVE SessionInv'
  BY <1>12 DEF vars, SessionInv, TypeOK, OneSessionEach, ServedInOrder, SentOnComplete,
     NotifiedAfterReceipt, ListedUnderHandle, Of
<1> QED
  BY <1>1, <1>2, <1>3, <1>4, <1>5, <1>6, <1>7, <1>8, <1>9, <1>10, <1>11, <1>12
     DEF Next
-----------------------------------------------------------------------------
(* The theorems. *)

(* At every moment, whatever the node's connections do. *)
THEOREM SessionInvariant == Spec => []SessionInv
BY InitEstablishes, StepPreserves, PTL DEF Spec

(* The variables of the session controller always have the values they are    *)
(* declared for, and the controller's list holds existing sessions only.      *)
THEOREM TypeCorrectness == Spec => []TypeOK
<1>1. SessionInv => TypeOK
  BY DEF SessionInv
<1> QED
  BY <1>1, SessionInvariant, PTL

(* A session is listed once, and a connection belongs to one session and is   *)
(* there once, whatever is added, accepted, destroyed and removed.            *)
THEOREM OneSessionEachHolds == Spec => []OneSessionEach
<1>1. SessionInv => OneSessionEach
  BY DEF SessionInv
<1> QED
  BY <1>1, SessionInvariant, PTL

(* However often session_controller_session_send_message stops at a connection *)
(* that is not complete, or at a freed one that does not look so, the peers    *)
(* left before the one who has a text have it too.                             *)
THEOREM ServedInOrderHolds == Spec => []ServedInOrder
<1>1. SessionInv => ServedInOrder
  BY DEF SessionInv
<1> QED
  BY <1>1, SessionInvariant, PTL

(* A text that comes in is notified to the listed session of its connection,  *)
(* and to no other that keeps no freed request: the walk over all sessions    *)
(* goes on after the match, and would notify others were `found` not reset.   *)
THEOREM RightSessionHolds == Spec => RightSession
<1> DEFINE Right ==
      \A c \in ConnIds, t \in Texts : <<c, t>> \in received' \ received =>
          /\ \A s \in ToSet(session_list) : c \in Of(s) => <<s, c, c, t>> \in notified'
          /\ \A s \in Sessions, d \in ConnIds :
                <<s, d, c, t>> \in notified' =>
                    /\ Contains(session_list, s) /\ d \in Of(s)
                    /\ c \in Of(s) \/ HasFreed(s)
<1>1. SessionInv /\ [Next]_vars => [Right]_vars
  <2> SUFFICES ASSUME SessionInv, Next,
                      NEW c \in ConnIds, NEW t \in Texts, <<c, t>> \in received' \ received
               PROVE  /\ \A s \in ToSet(session_list) :
                            c \in Of(s) => <<s, c, c, t>> \in notified'
                      /\ \A s \in Sessions, d \in ConnIds :
                            <<s, d, c, t>> \in notified' =>
                                /\ Contains(session_list, s) /\ d \in Of(s)
                                /\ c \in Of(s) \/ HasFreed(s)
    BY DEF vars
  <2>1. internal_message_received(c, t)
    <3>1. \/ received' = received
          \/ \E d \in ConnIds, u \in Texts : internal_message_received(d, u)
      BY DEF Next, noteVars, session_controller_session_create,
         session_controller_session_add_peer, internal_incoming, session_remove_connection,
         session_controller_remove_session, session_destroy,
         session_controller_session_send_message, internal_completed,
         connection_controller_remove_connection_request,
         session_controller_destroy, session_controller_create
    <3>2. PICK d \in ConnIds, u \in Texts : internal_message_received(d, u)
      BY <3>1
    <3>3. received' = received \cup {<<d, u>>}
      BY <3>2 DEF internal_message_received
    <3>4. d = c /\ u = t
      BY <3>3
    <3> QED
      BY <3>2, <3>4
  <2>2. PICK misread \in SUBSET {d \in ConnIds : Freed(d)} :
          /\ handle => notified' = notified \cup Notifications(c, t, misread)
          /\ ~handle => notified' = notified
    BY <2>1 DEF internal_message_received
  <2>3. ASSUME NEW s \in ToSet(session_list), c \in Of(s)
        PROVE  <<s, c, c, t>> \in notified'
    <3>1. handle
      BY DEF SessionInv, ListedUnderHandle, ToSet
    <3>2. PICK i \in DOMAIN connection_request_list[s] : connection_request_list[s][i] = c
      BY <2>3 DEF Of, ToSet
    <3>3. i \in 1..i
      BY DEF SessionInv, TypeOK
    <3>4. c \in FoundIn(s, c, misread)
      BY <3>2, <3>3 DEF FoundIn
    <3> QED
      BY <2>2, <3>1, <3>4 DEF Notifications
  <2>4. ASSUME NEW s \in Sessions, NEW d \in ConnIds, <<s, d, c, t>> \in notified'
        PROVE  Contains(session_list, s) /\ d \in Of(s) /\ (c \in Of(s) \/ HasFreed(s))
    <3>1. <<s, d, c, t>> \notin notified
      BY DEF SessionInv, NotifiedAfterReceipt
    <3>2. <<s, d, c, t>> \in Notifications(c, t, misread)
      BY <2>2, <2>4, <3>1
    <3>3. /\ s \in ToSet(session_list) /\ d \in Of(s)
          /\ \E e \in {c} \cup misread : e \in Of(s)
      BY <3>2, NotificationsFacts
    <3> QED
      BY <3>3 DEF Contains, ToSet, HasFreed
  <2> QED
    BY <2>3, <2>4
<1> QED
  BY <1>1, SessionInvariant, PTL DEF Spec, RightSession

(* A peer that one text was sent to is sent all later texts of the session:    *)
(* those before it in the list had that text as well (ServedInOrder), so that  *)
(* they were complete, and still are unless they were removed.                 *)
THEOREM NoGapsHolds == Spec => NoGaps
<1> DEFINE Served(s, c, t) ==
      /\ <<s, t>> \in tried' \ tried
      /\ c \in Of(s) /\ \E u \in Texts : <<s, c, u>> \in sent
      /\ ~HasFreed(s)
      => <<s, c, t>> \in sent'
<1>1. ASSUME SessionInv, Next, NEW s \in Sessions, NEW c \in ConnIds, NEW t \in Texts,
             <<s, t>> \in tried' \ tried, c \in Of(s),
             NEW u \in Texts, <<s, c, u>> \in sent, ~HasFreed(s)
      PROVE  <<s, c, t>> \in sent'
  <2> DEFINE list == connection_request_list[s]
  <2>1. session_controller_session_send_message(s, t)
    <3>1. \/ tried' = tried
          \/ \E x \in Sessions, y \in Texts : session_controller_session_send_message(x, y)
      BY <1>1 DEF Next, noteVars, session_controller_session_create,
         session_controller_session_add_peer, internal_incoming, session_remove_connection,
         session_controller_remove_session, session_destroy,
         internal_message_received, internal_completed,
         connection_controller_remove_connection_request,
         session_controller_destroy, session_controller_create
    <3>2. PICK x \in Sessions, y \in Texts : session_controller_session_send_message(x, y)
      BY <1>1, <3>1
    <3>3. tried' = tried \cup {<<x, y>>}
      BY <3>2 DEF session_controller_session_send_message
    <3>4. x = s /\ y = t
      BY <1>1, <3>3
    <3> QED
      BY <3>2, <3>4
  <2>2. s \in existing /\ list \in Seq(ConnIds)
    BY <1>1, <2>1 DEF session_controller_session_send_message, SessionInv, TypeOK
  <2>3. PICK i \in DOMAIN list : list[i] = c
    BY <1>1 DEF Of, ToSet
  <2>4. ASSUME NEW j \in 1..i PROVE Complete(list[j])
    <3>1. <<s, list[j], u>> \in sent
      BY <1>1, <2>2, <2>3 DEF SessionInv, ServedInOrder
    <3>2. state[list[j]] \in {"E_CRS_COMPLETE", "REMOVED"}
      BY <1>1, <3>1 DEF SessionInv, SentOnComplete
    <3>3. list[j] \in Of(s)
      BY <2>2, <2>3 DEF Of, ToSet
    <3> QED
      BY <1>1, <3>2, <3>3 DEF Complete, HasFreed, Freed
  <2>5. PICK reached \in SUBSET DOMAIN list :
          /\ sent' = sent \cup {<<s, list[k], t>> : k \in reached}
          /\ \A k \in DOMAIN list : (\A j \in 1..k : Complete(list[j])) => k \in reached
    BY <1>1, <2>1, SendEffect
  <2> QED
    BY <2>3, <2>4, <2>5
<1>2. SessionInv /\ [Next]_vars =>
        [\A s \in Sessions, c \in ConnIds, t \in Texts : Served(s, c, t)]_vars
  BY <1>1
<1> QED
  BY <1>2, SessionInvariant, PTL DEF Spec, NoGaps
=============================================================================
