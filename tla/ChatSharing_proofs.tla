--------------------------- MODULE ChatSharing_proofs --------------------------
(***************************************************************************)
(* What the two pages that send photos promise, for every number of        *)
(* messages, listeners, taps and families.  The chat: its list is in order *)
(* and without repetitions, holds what its listeners reported, and shows   *)
(* only what was sent.  Both: what is saved with a photo has its photo in  *)
(* the storage first.                                                      *)
(***************************************************************************)
EXTENDS Chat, SharedPosts, FiniteSetTheorems, TLAPS

-------------------------------------------------------------------------------
(* Sorting *)

\* The element i of ms comes before the element j once ms is sorted.
Before(ms, i, j) == ms[i] < ms[j] \/ (ms[i] = ms[j] /\ i < j)

\* Place counts the elements that come before and the element itself: it is a
\* place of the list, and an earlier element has a smaller one.
LEMMA PlaceOrder ==
  ASSUME NEW ms \in Seq(Nat)
  PROVE  /\ \A i \in DOMAIN ms : Place(ms, i) \in DOMAIN ms
         /\ \A i, j \in DOMAIN ms : Before(ms, i, j) => Place(ms, i) < Place(ms, j)
<1> DEFINE UpTo(i) == {j \in DOMAIN ms : ms[j] < ms[i] \/ (ms[j] = ms[i] /\ j <= i)}
<1>1. Len(ms) \in Nat /\ DOMAIN ms = 1..Len(ms) /\ \A i \in DOMAIN ms : ms[i] \in Nat
  OBVIOUS
<1>2. IsFiniteSet(DOMAIN ms) /\ Cardinality(DOMAIN ms) = Len(ms)
  <2>1. /\ IsFiniteSet(1..Len(ms))
        /\ Cardinality(1..Len(ms)) =
             IF 1 > Len(ms) THEN 0 ELSE Len(ms) - 1 + 1
    BY <1>1, FS_Interval
  <2> QED
    BY <1>1, <2>1
<1>3. ASSUME NEW i \in DOMAIN ms
      PROVE  /\ IsFiniteSet(UpTo(i))
             /\ Cardinality(UpTo(i)) \in 1..Len(ms)
             /\ i \in UpTo(i)
  <2>1. i \in UpTo(i)
    BY <1>1
  <2>2. IsFiniteSet(UpTo(i)) /\ Cardinality(UpTo(i)) <= Len(ms)
    BY <1>2, FS_Subset
  <2>3. Cardinality(UpTo(i)) \in Nat /\ Cardinality(UpTo(i)) # 0
    BY <2>1, <2>2, FS_CardinalityType, FS_EmptySet
  <2> QED
    BY <1>1, <2>1, <2>2, <2>3
<1>4. ASSUME NEW i \in DOMAIN ms, NEW j \in DOMAIN ms, Before(ms, i, j)
      PROVE  Cardinality(UpTo(i)) < Cardinality(UpTo(j))
  <2>1. UpTo(i) \in SUBSET UpTo(j) /\ j \notin UpTo(i)
    BY <1>1, <1>4 DEF Before
  <2>2. UpTo(i) # UpTo(j)
    BY <2>1, <1>3
  <2>3. IsFiniteSet(UpTo(j))
    BY <1>3
  <2>4. /\ Cardinality(UpTo(i)) <= Cardinality(UpTo(j))
        /\ Cardinality(UpTo(i)) # Cardinality(UpTo(j))
    BY <2>1, <2>2, <2>3, FS_Subset
  <2> HIDE DEF UpTo
  <2>5. Cardinality(UpTo(i)) \in Nat /\ Cardinality(UpTo(j)) \in Nat
    BY <1>1, <1>3
  <2> QED
    BY <2>4, <2>5
<1> QED
  BY <1>1, <1>3, <1>4 DEF Place

\* Every place is the place of one element.
LEMMA PlaceOnto ==
  ASSUME NEW ms \in Seq(Nat), NEW k \in DOMAIN ms
  PROVE  \E i \in DOMAIN ms : Place(ms, i) = k
<1> DEFINE D == DOMAIN ms
           f == [i \in D |-> Place(ms, i)]
<1>1. Len(ms) \in Nat /\ D = 1..Len(ms) /\ \A i \in D : ms[i] \in Nat
  OBVIOUS
<1>2. f \in [D -> D] /\ \A i \in D : f[i] = Place(ms, i)
  BY PlaceOrder
<1>3. ASSUME NEW i \in D, NEW j \in D, i # j
      PROVE  f[i] # f[j]
  <2>1. Before(ms, i, j) \/ Before(ms, j, i)
    BY <1>1, <1>3 DEF Before
  <2>2. f[i] < f[j] \/ f[j] < f[i]
    BY <2>1, <1>2, PlaceOrder
  <2>3. f[i] \in Nat /\ f[j] \in Nat
    BY <1>1, <1>2
  <2> QED
    BY <2>2, <2>3
<1> HIDE DEF f
<1>4. f \in Injection(D, D)
  BY <1>2, <1>3 DEF Injection, IsInjective
<1>5. IsFiniteSet(D)
  BY <1>1, FS_Interval
<1>6. f \in Surjection(D, D)
  BY <1>4, <1>5, FS_Injection
<1> QED
  BY <1>2, <1>6 DEF Surjection

\* sort(): the sorted list is in order, and is the list with its elements at
\* other places, each once.
THEOREM SortedSorts ==
  ASSUME NEW ms \in Seq(Nat)
  PROVE  /\ \A k, l \in DOMAIN ms : k < l => Sorted(ms)[k] <= Sorted(ms)[l]
         /\ \E p \in [DOMAIN ms -> DOMAIN ms] :
              /\ \A k, l \in DOMAIN ms : k # l => p[k] # p[l]
              /\ \A i \in DOMAIN ms : \E k \in DOMAIN ms : p[k] = i
              /\ Sorted(ms) = [k \in DOMAIN ms |-> ms[p[k]]]
<1> DEFINE D == DOMAIN ms
           At(k) == CHOOSE i \in D : Place(ms, i) = k
           p == [k \in D |-> At(k)]
<1>1. Len(ms) \in Nat /\ D = 1..Len(ms) /\ \A i \in D : ms[i] \in Nat
  OBVIOUS
<1>2. \A k \in D : At(k) \in D /\ Place(ms, At(k)) = k
  BY PlaceOnto
<1>3. p \in [D -> D] /\ \A k \in D : p[k] = At(k)
  BY <1>2
<1>4. Sorted(ms) = [k \in D |-> ms[p[k]]]
  BY <1>3 DEF Sorted
<1>5. \A k \in D : p[k] \in D /\ Place(ms, p[k]) = k
  BY <1>2, <1>3
<1> HIDE DEF At, p
<1>6. ASSUME NEW k \in D, NEW l \in D, k < l
      PROVE  ms[p[k]] <= ms[p[l]]
  <2>1. p[k] \in D /\ p[l] \in D /\ Place(ms, p[k]) = k /\ Place(ms, p[l]) = l
    BY <1>5
  <2>2. ~Before(ms, p[l], p[k])
    BY <2>1, <1>1, <1>6, PlaceOrder
  <2> QED
    BY <1>1, <2>1, <2>2 DEF Before
<1>7. \A k, l \in D : k # l => p[k] # p[l]
  BY <1>5
<1>8. ASSUME NEW i \in D
      PROVE  \E k \in D : p[k] = i
  <2>1. Place(ms, i) \in D
    BY PlaceOrder
  <2>2. p[Place(ms, i)] \in D /\ Place(ms, p[Place(ms, i)]) = Place(ms, i)
    BY <1>5, <2>1
  <2>3. ASSUME NEW j \in D, Place(ms, j) = Place(ms, i)
        PROVE  j = i
    <3>1. Before(ms, i, j) \/ Before(ms, j, i) \/ i = j
      BY <1>1 DEF Before
    <3>2. ~(Place(ms, i) < Place(ms, j)) /\ ~(Place(ms, j) < Place(ms, i))
      BY <2>1, <2>3, <1>1
    <3>3. ~Before(ms, i, j) /\ ~Before(ms, j, i)
      BY <3>2, PlaceOrder
    <3> QED
      BY <3>1, <3>3
  <2> QED
    BY <2>1, <2>2, <2>3
<1> QED
  BY <1>3, <1>4, <1>6, <1>7, <1>8

-------------------------------------------------------------------------------
(* The list on show *)

Increasing(ms) == \A i, j \in DOMAIN ms : i < j => ms[i] < ms[j]

\* insertNewMessage adds the message, unless it is there, and keeps the order.
LEMMA InsertedAdds ==
  ASSUME NEW ms \in Seq(Msg), NEW m \in Msg, Increasing(ms)
  PROVE  /\ Inserted(ms, m) \in Seq(Msg)
         /\ Increasing(Inserted(ms, m))
         /\ Range(Inserted(ms, m)) = Range(ms) \cup {m}
<1>1. CASE m \in Range(ms)
  BY <1>1 DEF Inserted
<1>2. CASE m \notin Range(ms)
  <2> DEFINE a == Append(ms, m)
             n == Len(ms) + 1
  <2>1. /\ a \in Seq(Msg) /\ Len(ms) \in Nat /\ DOMAIN a = 1..n
        /\ \A i \in 1..Len(ms) : a[i] = ms[i] /\ ms[i] \in Msg /\ ms[i] \in Range(ms)
        /\ a[n] = m
    BY DEF Range
  <2>2. a \in Seq(Nat) /\ \A i \in 1..n : a[i] \in Nat /\ a[i] \in Msg
    <3>1. n \in Nat /\ \A i \in 1..n : a[i] \in Msg
      BY <2>1
    <3> HIDE DEF a, n
    <3>2. \A i \in 1..n : a[i] \in Nat
      BY <3>1, MsgAssumption
    <3>3. a = [i \in 1..n |-> a[i]]
      BY <2>1
    <3> QED
      BY <3>1, <3>2, <3>3
  <2>3. \A i, j \in 1..n : i # j => a[i] # a[j]
    <3>1. \A i, j \in 1..Len(ms) : i < j => ms[i] < ms[j]
      BY DEF Increasing
    <3>2. \A i, j \in 1..Len(ms) : i # j => ms[i] # ms[j]
      BY <2>1, <2>2, <3>1
    <3> QED
      BY <1>2, <2>1, <3>2
  <2>4. \A x : x \in Range(ms) \cup {m} <=> \E i \in 1..n : a[i] = x
    BY <2>1 DEF Range
  <2>5. Inserted(ms, m) = Sorted(a)
    BY <1>2 DEF Inserted
  <2> HIDE DEF a, n
  <2>6. PICK p \in [DOMAIN a -> DOMAIN a] :
          /\ \A k, l \in DOMAIN a : k # l => p[k] # p[l]
          /\ \A i \in DOMAIN a : \E k \in DOMAIN a : p[k] = i
          /\ Sorted(a) = [k \in DOMAIN a |-> a[p[k]]]
    BY <2>2, SortedSorts
  <2>7. \A k, l \in 1..n : k < l => Sorted(a)[k] <= Sorted(a)[l]
    BY <2>1, <2>2, SortedSorts
  <2>8. /\ DOMAIN Sorted(a) = 1..n
        /\ \A k \in 1..n : p[k] \in 1..n /\ Sorted(a)[k] = a[p[k]]
    BY <2>1, <2>6
  <2>9. Sorted(a) \in Seq(Msg)
    <3>1. n \in Nat /\ \A k \in 1..n : a[p[k]] \in Msg
      BY <2>1, <2>2, <2>8 DEF n
    <3>2. Sorted(a) = [k \in 1..n |-> a[p[k]]]
      BY <2>1, <2>6
    <3> QED
      BY <3>1, <3>2
  <2>10. Increasing(Sorted(a))
    <3> SUFFICES ASSUME NEW k \in 1..n, NEW l \in 1..n, k < l
                 PROVE  Sorted(a)[k] < Sorted(a)[l]
      BY <2>8 DEF Increasing
    <3>1. Sorted(a)[k] <= Sorted(a)[l] /\ p[k] # p[l]
      BY <2>1, <2>6, <2>7
    <3>2. Sorted(a)[k] # Sorted(a)[l] /\ Sorted(a)[k] \in Nat /\ Sorted(a)[l] \in Nat
      <4>1. p[k] \in 1..n /\ p[l] \in 1..n
        BY <2>8
      <4>2. a[p[k]] # a[p[l]] /\ a[p[k]] \in Nat /\ a[p[l]] \in Nat
        BY <2>2, <2>3, <3>1, <4>1
      <4> QED
        BY <2>8, <4>2
    <3> QED
      BY <3>1, <3>2
  <2>11. Range(Sorted(a)) = Range(ms) \cup {m}
    <3>1. \A x : x \in Range(Sorted(a)) <=> \E k \in 1..n : a[p[k]] = x
      BY <2>8 DEF Range
    <3>2. \A x : (\E k \in 1..n : a[p[k]] = x) <=> \E i \in 1..n : a[i] = x
      BY <2>1, <2>6, <2>8
    <3> QED
      BY <2>4, <3>1, <3>2
  <2> QED
    BY <2>5, <2>9, <2>10, <2>11
<1> QED
  BY <1>1, <1>2

\* A message appended to a queue is its last, and one that leaves it the first.
LEMMA Queue ==
  ASSUME NEW S, NEW q \in Seq(S)
  PROVE  /\ \A m \in S : /\ Append(q, m) \in Seq(S)
                         /\ Range(Append(q, m)) = Range(q) \cup {m}
         /\ q # <<>> => /\ Head(q) \in S
                        /\ Tail(q) \in Seq(S)
                        /\ Range(q) = {Head(q)} \cup Range(Tail(q))
<1>1. ASSUME NEW m \in S
      PROVE  Append(q, m) \in Seq(S) /\ Range(Append(q, m)) = Range(q) \cup {m}
  <2>1. /\ Append(q, m) \in Seq(S) /\ DOMAIN Append(q, m) = 1..(Len(q) + 1)
        /\ \A i \in 1..Len(q) : Append(q, m)[i] = q[i]
        /\ Append(q, m)[Len(q) + 1] = m /\ Len(q) \in Nat /\ DOMAIN q = 1..Len(q)
    OBVIOUS
  <2> QED
    BY <2>1 DEF Range
<1>2. ASSUME q # <<>>
      PROVE  /\ Head(q) \in S
             /\ Tail(q) \in Seq(S)
             /\ Range(q) = {Head(q)} \cup Range(Tail(q))
  <2>1. /\ Len(q) \in Nat \ {0} /\ DOMAIN q = 1..Len(q) /\ Head(q) = q[1]
        /\ Head(q) \in S /\ Tail(q) \in Seq(S)
        /\ DOMAIN Tail(q) = 1..(Len(q) - 1)
        /\ \A i \in 1..(Len(q) - 1) : Tail(q)[i] = q[i + 1]
    BY <1>2
  <2>2. ASSUME NEW x
        PROVE  x \in Range(q) <=> x = Head(q) \/ x \in Range(Tail(q))
    <3>1. x \in Range(q) <=> \E i \in 1..Len(q) : q[i] = x
      BY <2>1 DEF Range
    <3>2. x \in Range(Tail(q)) <=> \E i \in 1..(Len(q) - 1) : q[i + 1] = x
      BY <2>1 DEF Range
    <3>3. \A i \in 1..Len(q) : i = 1 \/ (i - 1 \in 1..(Len(q) - 1) /\ (i - 1) + 1 = i)
      BY <2>1
    <3>4. \A i \in 1..(Len(q) - 1) : i + 1 \in 1..Len(q)
      BY <2>1
    <3>5. 1 \in 1..Len(q)
      BY <2>1
    <3> QED
      BY <2>1, <3>1, <3>2, <3>3, <3>4, <3>5
  <2> QED
    BY <2>1, <2>2
<1> QED
  BY <1>1, <1>2

-------------------------------------------------------------------------------
(* The invariant of the chat *)

\* What a listener has reported is on show, loading, failed, or left to handle.
Handled ==
  \A k \in DOMAIN listeners : \A m \in listeners[k].reported :
    Shown(m) \/ downloads[m] > 0 \/ m \in broken \/ m \in changes

\* What the user sends after its photo: the URL that is asked for.
LinkedStored == linking \subseteq images

\* Whatever the page was told of was sent: it is in the thread, or was refused.
Sent == Thread \cup gone
ToldWasSent ==
  /\ \A k \in DOMAIN listeners : listeners[k].reported \subseteq Sent
  /\ changes \subseteq Sent
  /\ \A m \in Msg : downloads[m] > 0 => m \in Photo \cap Sent
  /\ \A m \in Msg : Shown(m) => m \in Sent /\ (m \in Photo => m \in images)

ChatInv == /\ TypeOK
           /\ InOrder
           /\ Handled
           /\ LinkedStored
           /\ PhotosStored
           /\ ToldWasSent

LEMMA ChatInit == Init => ChatInv
<1> SUFFICES ASSUME Init PROVE ChatInv
  OBVIOUS
<1>1. Range(outbox) = {}
  BY DEF Init, Range
<1>2. /\ listeners = <<[limit |-> PageSize, reported |-> {}, live |-> TRUE]>>
      /\ listeners \in Seq(Listener)
  BY BoundsAssumption DEF Init, Listener
<1>3. DOMAIN listeners = {1} /\ listeners[1].reported = {}
  BY <1>2
<1>4. messages \in Seq(Msg) /\ outbox \in Seq(Mine)
  BY DEF Init
<1>5. TypeOK
  BY <1>2, <1>4, MsgAssumption DEF Init, TypeOK
<1> QED
  BY <1>1, <1>3, <1>5
     DEF Init, ChatInv, InOrder, Handled, LinkedStored, PhotosStored, ToldWasSent,
         Thread, Pending, Shown

\* What a snapshot brings is in the thread or was reported before.
LEMMA ChangedSent ==
  ASSUME TypeOK, NEW k \in DOMAIN listeners
  PROVE  /\ View(k) \subseteq Thread
         /\ View(k) \in SUBSET Msg
         /\ listeners[k].reported \in SUBSET Msg
         /\ listeners[k].limit \in Nat
         /\ Changed(k) \subseteq Thread \cup listeners[k].reported
<1>1. Thread \subseteq Msg
  <2>1. \A i \in DOMAIN outbox : outbox[i] \in Mine
    BY DEF TypeOK
  <2>2. Pending \subseteq Mine
    BY <2>1 DEF Pending, Range
  <2> QED
    BY <2>2, MsgAssumption DEF TypeOK, Thread
<1>2. listeners[k] \in Listener
  BY DEF TypeOK
<1> QED
  BY <1>1, <1>2 DEF View, Newest, Changed, Listener

\* The list on show after an insertion.
LEMMA ShownAfter ==
  ASSUME TypeOK, InOrder, NEW m \in Msg, messages' = Inserted(messages, m)
  PROVE  /\ messages' \in Seq(Msg)
         /\ InOrder'
         /\ \A o \in Msg : Shown(o)' <=> (Shown(o) \/ o = m)
<1>1. Increasing(messages) /\ messages \in Seq(Msg)
  BY DEF TypeOK, InOrder, Increasing
<1>2. /\ Inserted(messages, m) \in Seq(Msg)
      /\ Increasing(Inserted(messages, m))
      /\ Range(Inserted(messages, m)) = Range(messages) \cup {m}
  BY <1>1, InsertedAdds
<1>3. \A o : Shown(o) <=> o \in Range(messages)
  BY DEF Shown, Range
<1>4. \A o : Shown(o)' <=> o \in Range(messages')
  BY DEF Shown, Range
<1>5. InOrder'
  BY <1>2 DEF InOrder, Increasing
<1> QED
  BY <1>2, <1>3, <1>4, <1>5

\* The steps that touch neither the listeners nor the list on show, nor take a
\* message away or a photo: what was said of those stays true.
LEMMA ListKept ==
  ASSUME TypeOK, Handled, ToldWasSent, InOrder,
         UNCHANGED <<listeners, changes, listVars>>,
         Sent \subseteq Sent', images \subseteq images'
  PROVE  Handled' /\ ToldWasSent' /\ InOrder'
<1>1. \A m : Shown(m)' <=> Shown(m)
  BY DEF Shown, listVars
<1>2. Handled'
  BY <1>1 DEF Handled, listVars
<1>3. ToldWasSent'
  BY <1>1 DEF ToldWasSent, listVars
<1> QED
  BY <1>2, <1>3 DEF InOrder, listVars

LEMMA ChatPull == ChatInv /\ Pull => ChatInv'
<1> SUFFICES ASSUME ChatInv, Pull PROVE ChatInv'
  OBVIOUS
<1> USE DEF ChatInv, listVars, photoVars
<1> DEFINE new == [limit |-> (Len(listeners) + 1) * PageSize, reported |-> {},
                   live |-> TRUE]
<1>1. /\ listeners \in Seq(Listener) /\ Len(listeners) \in Nat
      /\ listeners' = Append(listeners, new)
  BY DEF TypeOK, Pull
<1>2. (Len(listeners) + 1) * PageSize \in Nat
  <2>1. Len(listeners) + 1 \in Nat /\ PageSize \in Nat
    BY <1>1, BoundsAssumption
  <2> HIDE DEF new
  <2> QED
    BY <2>1
<1>3. new \in Listener
  BY <1>2 DEF Listener
<1> HIDE DEF new
<1>4. /\ listeners' \in Seq(Listener)
      /\ DOMAIN listeners' = 1..(Len(listeners) + 1)
      /\ \A k \in DOMAIN listeners : listeners'[k] = listeners[k]
      /\ listeners'[Len(listeners) + 1].reported = {}
  BY <1>1, <1>3 DEF new
<1>5. \A k \in DOMAIN listeners' : k \in DOMAIN listeners \/ k = Len(listeners) + 1
  BY <1>1, <1>4
<1>6. /\ UNCHANGED <<stored, outbox, photoVars, changes, listVars, gone>>
      /\ \A m : Shown(m)' <=> Shown(m)
      /\ Sent' = Sent
  BY DEF Pull, Shown, Sent, Thread, Pending
<1>7. TypeOK'
  BY <1>4, <1>6 DEF TypeOK
<1>8. Handled' /\ ToldWasSent'
  BY <1>4, <1>5, <1>6 DEF Handled, ToldWasSent
<1> QED
  BY <1>6, <1>7, <1>8 DEF InOrder, LinkedStored, PhotosStored, Thread, Pending

LEMMA ChatSnapshot ==
  ASSUME ChatInv, NEW k \in 1..(MaxPulls + 1), Snapshot(k)
  PROVE  ChatInv'
<1> USE DEF ChatInv, listVars, photoVars
<1>1. /\ Free /\ k \in DOMAIN listeners
      /\ listeners' = [listeners EXCEPT ![k].reported = View(k)]
      /\ changes' = Changed(k)
      /\ UNCHANGED <<stored, outbox, photoVars, listVars, gone>>
  BY DEF Snapshot
<1>2. /\ View(k) \subseteq Thread
      /\ View(k) \in SUBSET Msg
      /\ listeners[k].reported \in SUBSET Msg
      /\ listeners[k].limit \in Nat
      /\ Changed(k) \subseteq Thread \cup listeners[k].reported
  BY <1>1, ChangedSent
<1>3. listeners \in Seq(Listener)
  BY DEF TypeOK
<1>4. /\ DOMAIN listeners' = DOMAIN listeners
      /\ \A j \in DOMAIN listeners : listeners'[j].reported =
           IF j = k THEN View(k) ELSE listeners[j].reported
  BY <1>1, <1>3 DEF Listener
<1>5. listeners' \in Seq(Listener)
  <2>1. [listeners[k] EXCEPT !.reported = View(k)] \in Listener
    <3>1. listeners[k] \in Listener /\ View(k) \in SUBSET Msg
      BY <1>1, <1>2, <1>3
    <3> QED
      BY <3>1 DEF Listener
  <2>2. listeners' = [listeners EXCEPT ![k] = [listeners[k] EXCEPT !.reported = View(k)]]
    BY <1>1
  <2> QED
    BY <1>1, <1>3, <2>1, <2>2
<1>6. \A m : Shown(m)' <=> Shown(m)
  BY <1>1 DEF Shown
<1>7. Sent' = Sent /\ Thread' = Thread
  BY <1>1 DEF Sent, Thread, Pending
<1>8. TypeOK'
  BY <1>1, <1>2, <1>5 DEF TypeOK, Changed
<1>9. Handled'
  <2> SUFFICES ASSUME NEW j \in DOMAIN listeners, NEW m \in listeners'[j].reported
               PROVE  Shown(m) \/ downloads[m] > 0 \/ m \in broken \/ m \in Changed(k)
    BY <1>1, <1>4, <1>6 DEF Handled
  <2>1. m \in listeners[j].reported \/ m \in Changed(k)
    BY <1>4 DEF Changed
  <2> QED
    BY <1>1, <2>1 DEF Handled, Free
<1>10. ToldWasSent'
  <2>1. Changed(k) \subseteq Sent /\ View(k) \subseteq Sent
    BY <1>1, <1>2 DEF ToldWasSent, Sent
  <2> QED
    BY <1>1, <1>4, <1>6, <1>7, <2>1 DEF ToldWasSent
<1> QED
  BY <1>1, <1>7, <1>8, <1>9, <1>10 DEF InOrder, LinkedStored, PhotosStored

LEMMA ChatListenerFails ==
  ASSUME ChatInv, NEW k \in 1..(MaxPulls + 1), ListenerFails(k)
  PROVE  ChatInv'
<1> USE DEF ChatInv, listVars, photoVars
<1>1. /\ k \in DOMAIN listeners /\ listeners \in Seq(Listener)
      /\ listeners' = [listeners EXCEPT ![k].live = FALSE]
      /\ UNCHANGED <<stored, outbox, photoVars, changes, listVars, gone>>
  BY DEF ListenerFails, TypeOK
<1>2. /\ DOMAIN listeners' = DOMAIN listeners
      /\ \A j \in DOMAIN listeners :
           listeners'[j].reported = listeners[j].reported
  BY <1>1 DEF Listener
<1>3. listeners' \in Seq(Listener)
  <2>1. [listeners[k] EXCEPT !.live = FALSE] \in Listener
    <3>1. listeners[k] \in Listener
      BY <1>1
    <3> QED
      BY <3>1 DEF Listener
  <2>2. listeners' = [listeners EXCEPT ![k] = [listeners[k] EXCEPT !.live = FALSE]]
    BY <1>1
  <2> QED
    BY <1>1, <2>1, <2>2
<1>4. /\ \A m : Shown(m)' <=> Shown(m)
      /\ Sent' = Sent /\ Thread' = Thread
  BY <1>1 DEF Shown, Sent, Thread, Pending
<1>5. TypeOK'
  BY <1>1, <1>3 DEF TypeOK
<1>6. Handled' /\ ToldWasSent'
  BY <1>1, <1>2, <1>4 DEF Handled, ToldWasSent
<1> QED
  BY <1>1, <1>4, <1>5, <1>6 DEF InOrder, LinkedStored, PhotosStored

LEMMA ChatHandle ==
  ASSUME ChatInv, NEW m \in Msg, HandleDocumentChange(m)
  PROVE  ChatInv'
<1> USE DEF ChatInv, listVars, photoVars
<1>1. /\ m \in changes
      /\ changes' = changes \ {m}
      /\ UNCHANGED <<stored, outbox, photoVars, listeners, broken, gone>>
  BY DEF HandleDocumentChange
<1>2. Sent' = Sent /\ Thread' = Thread /\ m \in Sent
  BY <1>1 DEF Sent, Thread, Pending, ToldWasSent
<1>3. downloads \in [Msg -> Nat]
  BY DEF TypeOK
<1>4. CASE m \in Photo
  <2>1. /\ downloads' = [downloads EXCEPT ![m] = @ + 1]
        /\ messages' = messages
    BY <1>4 DEF HandleDocumentChange
  <2>2. /\ downloads' \in [Msg -> Nat]
        /\ \A o \in Msg : downloads'[o] = IF o = m THEN downloads[m] + 1 ELSE downloads[o]
        /\ downloads'[m] > 0
    BY <1>3, <2>1
  <2>3. \A o : Shown(o)' <=> Shown(o)
    BY <2>1 DEF Shown
  <2>4. TypeOK'
    BY <1>1, <2>1, <2>2 DEF TypeOK
  <2>5. Handled'
    <3> SUFFICES ASSUME NEW k \in DOMAIN listeners, NEW o \in listeners[k].reported
                 PROVE  (Shown(o) \/ downloads[o] > 0 \/ o \in broken \/ o \in changes)'
      BY <1>1 DEF Handled
    <3>1. o \in Msg
      BY ChangedSent
    <3> QED
      BY <1>1, <2>2, <2>3, <3>1 DEF Handled
  <2>6. ToldWasSent'
    BY <1>1, <1>2, <1>4, <2>2, <2>3 DEF ToldWasSent
  <2> QED
    BY <1>1, <1>2, <2>1, <2>4, <2>5, <2>6 DEF InOrder, LinkedStored, PhotosStored
<1>5. CASE m \notin Photo
  <2>1. messages' = Inserted(messages, m) /\ downloads' = downloads
    BY <1>5 DEF HandleDocumentChange
  <2>2. /\ messages' \in Seq(Msg)
        /\ InOrder'
        /\ \A o \in Msg : Shown(o)' <=> (Shown(o) \/ o = m)
    BY <2>1, ShownAfter
  <2>3. TypeOK'
    BY <1>1, <2>1, <2>2 DEF TypeOK
  <2>4. Handled'
    <3> SUFFICES ASSUME NEW k \in DOMAIN listeners, NEW o \in listeners[k].reported
                 PROVE  (Shown(o) \/ downloads[o] > 0 \/ o \in broken \/ o \in changes)'
      BY <1>1 DEF Handled
    <3>1. o \in Msg
      BY ChangedSent
    <3> QED
      BY <1>1, <2>1, <2>2, <3>1 DEF Handled
  <2>5. ToldWasSent'
    BY <1>1, <1>2, <1>5, <2>1, <2>2 DEF ToldWasSent
  <2> QED
    BY <1>1, <1>2, <2>2, <2>3, <2>4, <2>5 DEF LinkedStored, PhotosStored
<1> QED
  BY <1>4, <1>5

LEMMA ChatDownloaded ==
  ASSUME ChatInv, NEW m \in Msg, Downloaded(m)
  PROVE  ChatInv'
<1> USE DEF ChatInv, listVars, photoVars
<1>1. /\ downloads[m] > 0
      /\ m \in images
      /\ downloads' = [downloads EXCEPT ![m] = @ - 1]
      /\ messages' = Inserted(messages, m)
      /\ UNCHANGED <<stored, outbox, photoVars, listeners, changes, broken, gone>>
  BY DEF Downloaded
<1>2. Sent' = Sent /\ Thread' = Thread
  BY <1>1 DEF Sent, Thread, Pending
<1>3. /\ downloads' \in [Msg -> Nat]
      /\ \A o \in Msg : o # m => downloads'[o] = downloads[o]
      /\ \A o \in Msg : downloads'[o] > 0 => downloads[o] > 0
  BY <1>1 DEF TypeOK
<1>4. /\ messages' \in Seq(Msg)
      /\ InOrder'
      /\ \A o \in Msg : Shown(o)' <=> (Shown(o) \/ o = m)
  BY <1>1, ShownAfter
<1>5. TypeOK'
  BY <1>1, <1>3, <1>4 DEF TypeOK
<1>6. Handled'
  <2> SUFFICES ASSUME NEW k \in DOMAIN listeners, NEW o \in listeners[k].reported
               PROVE  (Shown(o) \/ downloads[o] > 0 \/ o \in broken \/ o \in changes)'
    BY <1>1 DEF Handled
  <2>1. o \in Msg
    BY ChangedSent
  <2> QED
    BY <1>1, <1>3, <1>4, <2>1 DEF Handled
<1>7. ToldWasSent'
  <2>1. m \in Sent
    BY <1>1 DEF ToldWasSent
  <2> QED
    BY <1>1, <1>2, <1>3, <1>4, <2>1 DEF ToldWasSent
<1> QED
  BY <1>1, <1>2, <1>4, <1>5, <1>6, <1>7 DEF LinkedStored, PhotosStored

LEMMA ChatNotDownloaded ==
  ASSUME ChatInv, NEW m \in Msg, NotDownloaded(m)
  PROVE  ChatInv'
<1> USE DEF ChatInv, listVars, photoVars
<1>1. /\ downloads[m] > 0
      /\ downloads' = [downloads EXCEPT ![m] = @ - 1]
      /\ broken' = broken \cup {m}
      /\ UNCHANGED <<stored, outbox, photoVars, listeners, changes, messages, gone>>
  BY DEF NotDownloaded
<1>2. /\ Sent' = Sent /\ Thread' = Thread
      /\ \A o : Shown(o)' <=> Shown(o)
  BY <1>1 DEF Sent, Thread, Pending, Shown
<1>3. /\ downloads' \in [Msg -> Nat]
      /\ \A o \in Msg : o # m => downloads'[o] = downloads[o]
      /\ \A o \in Msg : downloads'[o] > 0 => downloads[o] > 0
  BY <1>1 DEF TypeOK
<1>4. m \in Photo
  BY <1>1 DEF ToldWasSent
<1>5. TypeOK'
  BY <1>1, <1>3, <1>4 DEF TypeOK
<1>6. Handled'
  <2> SUFFICES ASSUME NEW k \in DOMAIN listeners, NEW o \in listeners[k].reported
               PROVE  (Shown(o) \/ downloads[o] > 0 \/ o \in broken \/ o \in changes)'
    BY <1>1 DEF Handled
  <2>1. o \in Msg
    BY ChangedSent
  <2> QED
    BY <1>1, <1>2, <1>3, <2>1 DEF Handled
<1>7. ToldWasSent'
  BY <1>1, <1>2, <1>3 DEF ToldWasSent
<1> QED
  BY <1>1, <1>2, <1>5, <1>6, <1>7 DEF InOrder, LinkedStored, PhotosStored

\* Sending, the server and the relatives leave the listeners and the list alone.
LEMMA ChatSends ==
  ASSUME ChatInv,
         NEW m \in Msg,
         \/ SendText(m) \/ PickPhoto(m) \/ PhotoUploaded(m) \/ PhotoLinked(m)
         \/ PhotoDropped(m) \/ OthersSend(m)
  PROVE  ChatInv'
<1> USE DEF ChatInv, photoVars
<1>1. ASSUME m \in Mine, Save(m)
      PROVE  outbox' \in Seq(Mine) /\ Pending' = Pending \cup {m}
  <2>1. outbox \in Seq(Mine)
    BY DEF TypeOK
  <2> QED
    BY <1>1, <2>1, Queue DEF Save, Pending
<1>2. outbox' = outbox => Pending' = Pending
  BY DEF Pending
<1>3. UNCHANGED <<listeners, changes, listVars>>
  BY DEF SendText, PickPhoto, PhotoUploaded, PhotoLinked, PhotoDropped, OthersSend
<1>4. /\ TypeOK' /\ LinkedStored' /\ PhotosStored'
      /\ Sent \subseteq Sent' /\ images \subseteq images'
  <2> USE DEF TypeOK, LinkedStored, PhotosStored, Sent, Thread
  <2>1. CASE SendText(m)
    <3>1. /\ m \in Mine /\ m \notin Photo
          /\ outbox' \in Seq(Mine) /\ Pending' = Pending \cup {m}
      BY <1>1, <2>1 DEF SendText
    <3> QED
      BY <1>3, <2>1, <3>1 DEF SendText, listVars
  <2>2. CASE PickPhoto(m)
    BY <1>2, <1>3, <2>2 DEF PickPhoto, listVars
  <2>3. CASE PhotoUploaded(m)
    BY <1>2, <1>3, <2>3 DEF PhotoUploaded, listVars
  <2>4. CASE PhotoLinked(m)
    <3>1. /\ m \in Mine /\ m \in images
          /\ outbox' \in Seq(Mine) /\ Pending' = Pending \cup {m}
      BY <1>1, <2>4 DEF PhotoLinked
    <3> QED
      BY <1>3, <2>4, <3>1 DEF PhotoLinked, listVars
  <2>5. CASE PhotoDropped(m)
    BY <1>2, <1>3, <2>5 DEF PhotoDropped, listVars
  <2>6. CASE OthersSend(m)
    BY <1>2, <1>3, <2>6 DEF OthersSend, listVars
  <2> QED
    BY <2>1, <2>2, <2>3, <2>4, <2>5, <2>6
<1> QED
  BY <1>3, <1>4, ListKept

LEMMA ChatAnswers ==
  ASSUME ChatInv, Accept \/ Refuse
  PROVE  ChatInv'
<1> USE DEF ChatInv, photoVars
<1>1. outbox \in Seq(Mine) /\ outbox # <<>> /\ outbox' = Tail(outbox)
  BY DEF TypeOK, Accept, Refuse
<1>2. /\ Head(outbox) \in Mine /\ outbox' \in Seq(Mine)
      /\ Pending = {Head(outbox)} \cup Pending'
  BY <1>1, Queue DEF Pending
<1>3. UNCHANGED <<photoVars, listeners, changes, listVars>>
  BY DEF Accept, Refuse
<1>4. /\ stored' \cup gone' = stored \cup gone \cup {Head(outbox)}
      /\ stored' \in SUBSET Msg /\ gone' \in SUBSET Mine
      /\ stored' \subseteq stored \cup {Head(outbox)}
  BY <1>2, MsgAssumption DEF TypeOK, Accept, Refuse
<1>5. TypeOK'
  BY <1>2, <1>3, <1>4 DEF TypeOK, listVars
<1>6. Sent' = Sent /\ Thread' \subseteq Thread
  BY <1>2, <1>4 DEF Sent, Thread
<1>7. LinkedStored' /\ PhotosStored'
  BY <1>3, <1>6 DEF LinkedStored, PhotosStored
<1> QED
  BY <1>3, <1>5, <1>6, <1>7, ListKept

LEMMA ChatNext == ChatInv /\ [Next]_vars => ChatInv'
<1> SUFFICES ASSUME ChatInv, [Next]_vars PROVE ChatInv'
  OBVIOUS
<1>1. CASE UNCHANGED vars
  <2>1. UNCHANGED <<stored, outbox, photoVars, listeners, changes, listVars, gone>>
    BY <1>1 DEF vars
  <2>2. Sent' = Sent /\ Thread' = Thread
    BY <2>1 DEF Sent, Thread, Pending
  <2>3. TypeOK' /\ LinkedStored' /\ PhotosStored'
    BY <2>1, <2>2
       DEF ChatInv, TypeOK, LinkedStored, PhotosStored, photoVars, listVars
  <2> QED
    BY <2>1, <2>2, <2>3, ListKept DEF ChatInv, photoVars
<1> QED
  BY <1>1, ChatPull, ChatSnapshot, ChatListenerFails, ChatHandle,
     ChatDownloaded, ChatNotDownloaded, ChatSends, ChatAnswers DEF Next

LEMMA ChatInvariant == Spec => []ChatInv
BY ChatInit, ChatNext, PTL DEF Spec

\* Every variable of the chat keeps its type, whatever the callbacks answer.
THEOREM ChatTypeCorrect == Spec => []TypeOK
<1>1. ChatInv => TypeOK
  BY DEF ChatInv
<1> QED
  BY ChatInvariant, <1>1, PTL

\* However many listeners overlap, and however late a photo arrives, the list is
\* in the order of the dates and shows no message twice.
THEOREM AlwaysInOrder == Spec => []InOrder
<1>1. ChatInv => InOrder
  BY DEF ChatInv
<1> QED
  BY ChatInvariant, <1>1, PTL

\* When a listener has nothing to report and the forEach is over, the messages it
\* asked for are on show, loading, or failed to.
THEOREM NewestAlwaysShown == Spec => []NewestShown
<1>1. ChatInv => NewestShown
  <2> SUFFICES ASSUME ChatInv, Free, NEW k \in DOMAIN listeners, Changed(k) = {},
                      NEW m \in View(k)
               PROVE  Shown(m) \/ downloads[m] > 0 \/ m \in broken
    BY DEF NewestShown
  <2>1. m \in listeners[k].reported
    BY DEF Changed
  <2> QED
    BY <2>1 DEF ChatInv, Handled, Free
<1> QED
  BY ChatInvariant, <1>1, PTL

\* A photo message is not saved before its photo is in the storage.
THEOREM PhotosAlwaysStored == Spec => []PhotosStored
<1>1. ChatInv => PhotosStored
  BY DEF ChatInv
<1> QED
  BY ChatInvariant, <1>1, PTL

\* The page shows only messages that were sent, by whomever, and of a photo
\* message the photo that is in the storage.
THEOREM ShownWasSent ==
  Spec => [](\A m \in Msg : Shown(m) => m \in Sent /\ (m \in Photo => m \in images))
<1>1. ChatInv => \A m \in Msg : Shown(m) => m \in Sent /\ (m \in Photo => m \in images)
  BY DEF ChatInv, ToldWasSent
<1> QED
  BY ChatInvariant, <1>1, PTL

-------------------------------------------------------------------------------
(* What becomes of a message *)

\* A message is at one place only: being uploaded, waiting for its URL, in the
\* queue and there once, in the thread, or gone.
OnePlace ==
  /\ \A i, j \in DOMAIN outbox : outbox[i] = outbox[j] => i = j
  /\ uploading \cap linking = {}
  /\ (uploading \cup linking) \cap Sent = {}
  /\ Pending \cap (stored \cup gone) = {}
  /\ stored \cap gone = {}

\* No step makes a message vanish without a trace, nor takes one off the list.
Places == uploading \cup linking \cup Sent
Traced == /\ Places \subseteq Places'
          /\ \A m \in Msg : Shown(m) => Shown(m)'

LEMMA QueueOnce ==
  ASSUME NEW S, NEW q \in Seq(S), \A i, j \in DOMAIN q : q[i] = q[j] => i = j
  PROVE  /\ \A m \in S \ Range(q) : \A i, j \in DOMAIN Append(q, m) :
              Append(q, m)[i] = Append(q, m)[j] => i = j
         /\ q # <<>> => /\ Head(q) \notin Range(Tail(q))
                        /\ \A i, j \in DOMAIN Tail(q) :
                             Tail(q)[i] = Tail(q)[j] => i = j
<1>1. Len(q) \in Nat /\ DOMAIN q = 1..Len(q) /\ \A i \in 1..Len(q) : q[i] \in Range(q)
  BY DEF Range
<1>2. ASSUME NEW m \in S \ Range(q)
      PROVE  \A i, j \in DOMAIN Append(q, m) :
               Append(q, m)[i] = Append(q, m)[j] => i = j
  <2>1. /\ DOMAIN Append(q, m) = 1..(Len(q) + 1)
        /\ \A i \in 1..Len(q) : Append(q, m)[i] = q[i]
        /\ Append(q, m)[Len(q) + 1] = m
    OBVIOUS
  <2>2. \A i \in 1..(Len(q) + 1) : i \in 1..Len(q) \/ i = Len(q) + 1
    BY <1>1
  <2> QED
    BY <1>1, <2>1, <2>2
<1>3. ASSUME q # <<>>
      PROVE  /\ Head(q) \notin Range(Tail(q))
             /\ \A i, j \in DOMAIN Tail(q) : Tail(q)[i] = Tail(q)[j] => i = j
  <2>1. /\ Len(q) \in Nat \ {0} /\ Head(q) = q[1]
        /\ DOMAIN Tail(q) = 1..(Len(q) - 1)
        /\ \A i \in 1..(Len(q) - 1) : Tail(q)[i] = q[i + 1]
    BY <1>3
  <2>2. \A i \in 1..(Len(q) - 1) : i + 1 \in DOMAIN q /\ i + 1 # 1
    BY <1>1, <2>1
  <2>3. 1 \in DOMAIN q
    BY <1>1, <2>1
  <2>4. ASSUME NEW i \in 1..(Len(q) - 1), NEW j \in 1..(Len(q) - 1),
               Tail(q)[i] = Tail(q)[j]
        PROVE  i = j
    <3>1. i + 1 = j + 1
      BY <2>1, <2>2, <2>4
    <3> QED
      BY <2>1, <3>1
  <2>5. \A i \in 1..(Len(q) - 1) : Tail(q)[i] # Head(q)
    BY <2>1, <2>2, <2>3
  <2> QED
    BY <2>1, <2>4, <2>5 DEF Range
<1> QED
  BY <1>2, <1>3

LEMMA MessageStep ==
  ASSUME TypeOK, OnePlace, [Next]_vars
  PROVE  OnePlace' /\ Places \subseteq Places'
<1> USE DEF OnePlace, Places, Sent, Thread
<1>1. outbox \in Seq(Mine) /\ stored \subseteq Msg /\ gone \subseteq Mine
  BY DEF TypeOK
<1>2. ASSUME NEW m \in Mine, m \notin Pending, Save(m)
      PROVE  /\ Pending' = Pending \cup {m}
             /\ \A i, j \in DOMAIN outbox' : outbox'[i] = outbox'[j] => i = j
  BY <1>1, <1>2, Queue, QueueOnce DEF Save, Pending
<1>3. outbox' = outbox =>
        /\ Pending' = Pending
        /\ \A i, j \in DOMAIN outbox' : outbox'[i] = outbox'[j] => i = j
  BY DEF Pending
<1>4. ASSUME NEW m \in Msg, SendText(m)
      PROVE  OnePlace' /\ Places \subseteq Places'
  BY <1>2, <1>4 DEF SendText, Unused, photoVars
<1>5. ASSUME NEW m \in Msg, PickPhoto(m)
      PROVE  OnePlace' /\ Places \subseteq Places'
  BY <1>3, <1>5 DEF PickPhoto, Unused
<1>6. ASSUME NEW m \in Msg, PhotoUploaded(m)
      PROVE  OnePlace' /\ Places \subseteq Places'
  BY <1>3, <1>6 DEF PhotoUploaded
<1>7. ASSUME NEW m \in Msg, PhotoLinked(m)
      PROVE  OnePlace' /\ Places \subseteq Places'
  <2>1. m \in Mine /\ m \notin Pending
    BY <1>7 DEF TypeOK, PhotoLinked
  <2> QED
    BY <1>2, <1>7, <2>1 DEF PhotoLinked
<1>8. ASSUME NEW m \in Msg, PhotoDropped(m)
      PROVE  OnePlace' /\ Places \subseteq Places'
  BY <1>3, <1>8 DEF PhotoDropped
<1>9. ASSUME NEW m \in Msg, OthersSend(m)
      PROVE  OnePlace' /\ Places \subseteq Places'
  <2>1. m \notin uploading \cup linking \cup Pending \cup gone
    <3>1. \A i \in DOMAIN outbox : outbox[i] \in Mine
      BY <1>1
    <3>2. Pending \subseteq Mine
      BY <3>1 DEF Pending, Range
    <3> QED
      BY <1>9, <3>2 DEF TypeOK, OthersSend
  <2> QED
    BY <1>3, <1>9, <2>1 DEF OthersSend
<1>10. CASE Accept \/ Refuse
  <2>1. outbox # <<>> /\ outbox' = Tail(outbox)
    BY <1>10 DEF Accept, Refuse
  <2>2. /\ Pending = {Head(outbox)} \cup Pending'
        /\ Head(outbox) \notin Pending'
        /\ \A i, j \in DOMAIN outbox' : outbox'[i] = outbox'[j] => i = j
    BY <1>1, <2>1, Queue, QueueOnce DEF Pending
  <2> QED
    BY <1>10, <2>2 DEF Accept, Refuse, photoVars
<1>11. CASE UNCHANGED <<stored, outbox, photoVars, gone>>
  BY <1>3, <1>11 DEF photoVars
<1>12. ASSUME \/ Pull \/ UNCHANGED vars
              \/ \E k \in 1..(MaxPulls + 1) : Snapshot(k) \/ ListenerFails(k)
              \/ \E m \in Msg : HandleDocumentChange(m) \/ Downloaded(m)
                                  \/ NotDownloaded(m)
       PROVE  UNCHANGED <<stored, outbox, photoVars, gone>>
  BY <1>12
     DEF Pull, Snapshot, ListenerFails, HandleDocumentChange, Downloaded,
         NotDownloaded, vars
<1> QED
  BY <1>4, <1>5, <1>6, <1>7, <1>8, <1>9, <1>10, <1>11, <1>12 DEF Next

\* What the user sends is nowhere twice, and no message is saved again.
THEOREM NothingSentTwice == Spec => []OnePlace
<1>1. Init => OnePlace
  <2> SUFFICES ASSUME Init PROVE OnePlace
    OBVIOUS
  <2>1. DOMAIN outbox = {} /\ Pending = {}
    BY DEF Init, Pending, Range
  <2> QED
    BY <2>1 DEF Init, OnePlace, Sent, Thread
<1>2. TypeOK /\ OnePlace /\ [Next]_vars => OnePlace'
  BY MessageStep
<1> QED
  BY <1>1, <1>2, ChatTypeCorrect, PTL DEF Spec

\* A message that was sent is being uploaded, queued, in the thread or gone ever
\* after, and one on show stays on show, even if the server refuses it.
THEOREM NothingLost == Spec => [][Traced]_vars
<1>1. ChatInv /\ OnePlace /\ [Next]_vars => [Traced]_vars
  <2> SUFFICES ASSUME ChatInv, OnePlace, [Next]_vars
               PROVE  Traced
    OBVIOUS
  <2>1. Places \subseteq Places'
    BY MessageStep DEF ChatInv
  <2>2. \A m \in Msg : Shown(m) => Shown(m)'
    <3>1. \/ messages' = messages
          \/ \E m \in Msg : messages' = Inserted(messages, m)
      BY DEF Next, Pull, Snapshot, ListenerFails, HandleDocumentChange, Downloaded,
             NotDownloaded, SendText, PickPhoto, PhotoUploaded, PhotoLinked, PhotoDropped, Accept,
             Refuse, OthersSend, listVars, vars
    <3> QED
      BY <3>1, ShownAfter DEF ChatInv, Shown
  <2> QED
    BY <2>1, <2>2 DEF Traced
<1> QED
  BY <1>1, ChatInvariant, NothingSentTwice, PTL DEF Spec

-------------------------------------------------------------------------------
(* Sharing a photo *)

CONSTANTS NoFamily, EncodingFails, RecognitionFails, MaxSwitches, MaxTimers

\* The variables of Sharing that SharedPosts does not declare; left is its gone.
VARIABLES current, stage, target, hud, left, switches

S == INSTANCE Sharing WITH gone <- left

\* A share that is past the upload has its photo; one that is past the read
\* was given a family that was current since its tap; one that is being read
\* knows the family that is current; and one is given up only for its photo.
Progress ==
  \A s \in Share :
    /\ stage[s] \in {"linking", "saving", "saved", "done"} => s \in photos
    /\ stage[s] \in {"uploading", "linking", "saving"} =>
         target[s] \in Family /\ target[s] \in since[s]
    /\ stage[s] # "idle" => current \in since[s]
    /\ stage[s] = "stuck" => EncodingFails \/ RecognitionFails

\* A share has its post when it was saved, and then one.
SavedHavePosts ==
  /\ \A s \in Share : stage[s] \in {"saved", "done"} <=> \E p \in posts : p.share = s
  /\ \A p, q \in posts : p.share = q.share => p = q

\* A panel that blocks is taken away by a timer that is due, or an operation is
\* under way that will start one, but for a share that was given up.
GivenUp == \E s \in Share : stage[s] = "stuck"
SomethingDue ==
  \/ hud.timers > 0
  \/ \E s \in Share : stage[s] \in {"uploading", "linking", "saving"}
PanelEnds == hud.blocks => SomethingDue \/ GivenUp

\* TypeOK of Sharing without the bound on the switches.
SharesTyped ==
  /\ current \in Family
  /\ stage \in [Share -> S!Stage]
  /\ target \in [Share -> Family \cup {NoFamily}]
  /\ photos \in SUBSET Share
  /\ posts \in SUBSET Post
  /\ hud \in S!Panel
  /\ since \in [Share -> SUBSET Family]

ShareInv == /\ SharesTyped
            /\ Progress
            /\ FamilyTimely
            /\ PhotosFirst
            /\ SavedHavePosts
            /\ PanelEnds

LEMMA ShareInit == S!Init => ShareInv
<1> SUFFICES ASSUME S!Init PROVE ShareInv
  OBVIOUS
<1>0. hud \in S!Panel /\ hud.blocks = FALSE
  <2>1. hud \in [up : BOOLEAN, blocks : {FALSE}, over : {0}, timers : 0..MaxTimers]
    BY DEF S!Init, S!PanelsLeft
  <2>2. 0 \in Nat /\ \A n \in 0..MaxTimers : n \in Nat
    OBVIOUS
  <2>3. /\ hud = [up |-> hud.up, blocks |-> hud.blocks, over |-> hud.over,
                  timers |-> hud.timers]
        /\ hud.up \in BOOLEAN /\ hud.blocks = FALSE /\ hud.over = 0
        /\ hud.timers \in 0..MaxTimers
    BY <2>1, Zenon
  <2>4. hud.blocks \in BOOLEAN /\ hud.over \in Nat /\ hud.timers \in Nat
    BY <2>2, <2>3, Zenon
  <2> QED
    BY <2>3, <2>4, Zenon DEF S!Panel
<1>1. SharesTyped
  <2>1. /\ stage \in [Share -> S!Stage]
        /\ target \in [Share -> Family \cup {NoFamily}]
        /\ since \in [Share -> SUBSET Family]
    BY DEF S!Init, S!Stage
  <2>2. current \in Family /\ photos = {} /\ posts = {}
    BY DEF S!Init
  <2>3. hud \in S!Panel
    BY <1>0
  <2> QED
    BY <2>1, <2>2, <2>3 DEF SharesTyped
<1>2. Progress
  BY DEF S!Init, Progress
<1>3. posts = {}
  BY DEF S!Init
<1>4. PanelEnds
  BY <1>0 DEF PanelEnds
<1>5. SavedHavePosts
  BY DEF S!Init, SavedHavePosts
<1> QED
  BY <1>1, <1>2, <1>3, <1>4, <1>5 DEF ShareInv, FamilyTimely, PhotosFirst

\* What the operations of the panel do to its timers and to what it blocks.
LEMMA SharePanel ==
  ASSUME NEW h \in S!Panel
  PROVE  /\ S!Show(h, FALSE) \in S!Panel
         /\ S!ShowError(h) \in S!Panel /\ S!ShowError(h).timers > 0
         /\ S!ShowSuccess(h, FALSE) \in S!Panel /\ S!ShowSuccess(h, FALSE).timers > 0
         /\ h.timers > 0 => S!Hidden(h) \in S!Panel /\ S!Hidden(h).blocks = FALSE
         /\ S!Buried(h) \in S!Panel /\ S!Buried(h).blocks = FALSE
<1>1. \A g \in S!Panel, n \in Nat, b, c \in BOOLEAN :
        /\ [g EXCEPT !.timers = n] \in S!Panel
        /\ [g EXCEPT !.blocks = b, !.over = n] \in S!Panel
        /\ [g EXCEPT !.up = b, !.blocks = c] \in S!Panel
        /\ g.timers \in Nat
  BY DEF S!Panel
<1>2. \A j \in BOOLEAN : S!Show(h, j) \in S!Panel
  BY <1>1 DEF S!Show
<1>3. \A j \in BOOLEAN : S!TimedShow(h, j) \in S!Panel /\ S!TimedShow(h, j).timers > 0
  <2> TAKE j \in BOOLEAN
  <2>1. S!Show(h, j) \in S!Panel /\ S!Show(h, j).timers \in Nat
    BY <1>1, <1>2
  <2>2. \A g \in S!Panel, n \in Nat : [g EXCEPT !.timers = n].timers = n
    BY DEF S!Panel
  <2>3. S!Show(h, j).timers + 1 \in Nat /\ S!Show(h, j).timers + 1 > 0
    BY <2>1
  <2> HIDE DEF S!Show
  <2>4. S!TimedShow(h, j) =
          [S!Show(h, j) EXCEPT !.timers = S!Show(h, j).timers + 1]
    BY DEF S!TimedShow
  <2>5. \A g \in S!Panel, n \in Nat : n > 0 =>
          [g EXCEPT !.timers = n] \in S!Panel /\ [g EXCEPT !.timers = n].timers > 0
    BY <1>1, <2>2
  <2> QED
    BY <2>1, <2>3, <2>4, <2>5
<1>4. h.timers > 0 => S!Hidden(h) \in S!Panel /\ S!Hidden(h).blocks = FALSE
  <2>1. S!NoPanel \in S!Panel /\ S!NoPanel.blocks = FALSE
    BY DEF S!NoPanel, S!Panel
  <2>2. h.timers > 0 => h.timers - 1 \in Nat
    BY DEF S!Panel
  <2>3. \A n : [S!NoPanel EXCEPT !.timers = n].blocks = FALSE
    BY DEF S!NoPanel
  <2> QED
    BY <1>1, <2>1, <2>2, <2>3 DEF S!Hidden
<1>5. S!Buried(h) \in S!Panel /\ S!Buried(h).blocks = FALSE
  <2>1. [h EXCEPT !.blocks = FALSE, !.over = 0].blocks = FALSE
    BY DEF S!Panel
  <2> QED
    BY <1>1, <2>1 DEF S!Buried
<1> QED
  BY <1>2, <1>3, <1>4, <1>5 DEF S!ShowError, S!ShowSuccess

\* A step of one share that writes no post keeps SavedHavePosts, if the share is
\* not saved by it nor was before, or is done after it was saved.
LEMMA StageOnly ==
  ASSUME SavedHavePosts, stage \in [Share -> S!Stage], posts' = posts,
         NEW s \in Share, NEW to, stage' = [stage EXCEPT ![s] = to],
         stage[s] \in {"saved", "done"} <=> to \in {"saved", "done"}
  PROVE  SavedHavePosts'
<1>1. \A o \in Share : stage'[o] \in {"saved", "done"} <=> stage[o] \in {"saved", "done"}
  OBVIOUS
<1> QED
  BY <1>1 DEF SavedHavePosts

LEMMA ShareNext == ShareInv /\ [S!Next]_S!vars => ShareInv'
<1> SUFFICES ASSUME ShareInv, [S!Next]_S!vars PROVE ShareInv'
  OBVIOUS
<1> USE DEF ShareInv
<1> DEFINE ShareStep == SharesTyped' /\ Progress' /\ FamilyTimely' /\ PhotosFirst'
<1>1. ASSUME NEW s \in Share,
             \/ S!ShareTapped(s) \/ S!FamilyRead(s) \/ S!FamilyNotRead(s)
             \/ S!NotEncoded(s)
             \/ S!PhotoUploaded(s) \/ S!Failed(s) \/ S!Recognised(s)
             \/ S!NotRecognised(s) \/ S!PostSaved(s) \/ S!Moved(s)
      PROVE  ShareInv'
  <2> USE DEF SharesTyped, Progress, FamilyTimely, PhotosFirst, S!Stage, Post,
              S!Step
  <2>1. CASE S!ShareTapped(s)
    <3>1. ShareStep
      <4>1. /\ stage[s] = "idle" /\ stage' = [stage EXCEPT ![s] = "reading"]
            /\ since' = [since EXCEPT ![s] = {current}]
            /\ UNCHANGED <<current, target, photos, posts, hud>>
        BY <2>1 DEF S!ShareTapped
      <4>2. SharesTyped' /\ Progress' /\ PhotosFirst'
        BY <4>1
      <4>3. \A p \in posts : p.share \in Share /\ p.share # s
        BY <4>1 DEF SavedHavePosts
      <4>4. FamilyTimely'
        BY <4>1, <4>3
      <4> QED
        BY <4>2, <4>4
    <3>2. SavedHavePosts'
      BY <2>1, StageOnly DEF S!ShareTapped
    <3>3. PanelEnds'
      BY <2>1 DEF PanelEnds, SomethingDue, GivenUp, S!ShareTapped
    <3> QED
      BY <3>1, <3>2, <3>3
  <2>2. CASE S!FamilyRead(s)
    <3>1. ShareStep
      <4>1. hud' \in S!Panel /\ target' = [target EXCEPT ![s] = current]
        BY <2>2, SharePanel DEF S!FamilyRead
      <4>2. current \in Family /\ current \in since[s]
        BY <2>2 DEF S!FamilyRead
      <4>3. SharesTyped'
        BY <2>2, <4>1, <4>2 DEF S!FamilyRead
      <4> QED
        BY <2>2, <4>1, <4>2, <4>3 DEF S!FamilyRead
    <3>2. SavedHavePosts'
      BY <2>2, StageOnly DEF S!FamilyRead
    <3>3. PanelEnds'
      BY <2>2 DEF PanelEnds, SomethingDue, GivenUp, S!FamilyRead
    <3> QED
      BY <3>1, <3>2, <3>3
  <2>10. CASE S!NotEncoded(s)
    <3>1. ShareStep
      <4>1. hud' \in S!Panel /\ target' = [target EXCEPT ![s] = current]
        BY <2>10, SharePanel DEF S!NotEncoded
      <4>2. SharesTyped'
        BY <2>10, <4>1 DEF S!NotEncoded
      <4> QED
        BY <2>10, <4>1, <4>2 DEF S!NotEncoded
    <3>2. SavedHavePosts'
      BY <2>10, StageOnly DEF S!NotEncoded
    <3>3. PanelEnds'
      BY <2>10 DEF PanelEnds, GivenUp, S!NotEncoded
    <3> QED
      BY <3>1, <3>2, <3>3
  <2>3. CASE S!FamilyNotRead(s)
    <3>1. ShareStep
      BY <2>3 DEF S!FamilyNotRead
    <3>2. SavedHavePosts'
      BY <2>3, StageOnly DEF S!FamilyNotRead
    <3>3. PanelEnds'
      BY <2>3 DEF PanelEnds, SomethingDue, GivenUp, S!FamilyNotRead
    <3> QED
      BY <3>1, <3>2, <3>3
  <2>4. CASE S!PhotoUploaded(s)
    <3>1. ShareStep
      BY <2>4 DEF S!PhotoUploaded
    <3>2. SavedHavePosts'
      BY <2>4, StageOnly DEF S!PhotoUploaded
    <3>3. PanelEnds'
      BY <2>4 DEF PanelEnds, SomethingDue, GivenUp, S!PhotoUploaded
    <3> QED
      BY <3>1, <3>2, <3>3
  <2>5. CASE S!Failed(s)
    <3>1. ShareStep
      BY <2>5, SharePanel DEF S!Failed
    <3>2. SavedHavePosts'
      BY <2>5, StageOnly DEF S!Failed
    <3>3. PanelEnds'
      BY <2>5, SharePanel DEF PanelEnds, SomethingDue, GivenUp, S!Failed
    <3> QED
      BY <3>1, <3>2, <3>3
  <2>6. CASE S!Recognised(s)
    <3>1. ShareStep
      BY <2>6 DEF S!Recognised
    <3>2. SavedHavePosts'
      BY <2>6, StageOnly DEF S!Recognised
    <3>3. PanelEnds'
      BY <2>6 DEF PanelEnds, SomethingDue, GivenUp, S!Recognised
    <3> QED
      BY <3>1, <3>2, <3>3
  <2>7. CASE S!NotRecognised(s)
    <3>1. ShareStep
      BY <2>7 DEF S!NotRecognised
    <3>2. SavedHavePosts'
      BY <2>7, StageOnly DEF S!NotRecognised
    <3>3. PanelEnds'
      BY <2>7 DEF PanelEnds, SomethingDue, GivenUp, S!NotRecognised
    <3> QED
      BY <3>1, <3>2, <3>3
  <2>8. CASE S!PostSaved(s)
    <3> DEFINE new == [share |-> s, family |-> target[s]]
    <3>1. /\ stage[s] = "saving" /\ stage' = [stage EXCEPT ![s] = "saved"]
          /\ posts' = posts \cup {new}
          /\ \A p \in posts : p.share # s
      BY <2>8 DEF S!PostSaved, SavedHavePosts
    <3>2. ShareStep
      <4>1. hud' \in S!Panel /\ UNCHANGED <<current, target, photos, since>>
        BY <2>8, SharePanel DEF S!PostSaved
      <4>2. new \in Post /\ new.share \in photos /\ new.family \in since[new.share]
        BY <3>1
      <4> HIDE DEF new
      <4>3. FamilyTimely' /\ PhotosFirst'
        BY <3>1, <4>1, <4>2
      <4>4. Progress' /\ SharesTyped'
        BY <3>1, <4>1, <4>2
      <4> QED
        BY <4>3, <4>4
    <3>3. SavedHavePosts'
      <4>1. new.share = s
        OBVIOUS
      <4>2. \A o \in Share : stage'[o] \in {"saved", "done"} <=>
                               (o = s \/ stage[o] \in {"saved", "done"})
        BY <3>1
      <4> HIDE DEF new
      <4> QED
        BY <3>1, <4>1, <4>2 DEF SavedHavePosts
    <3>4. PanelEnds'
      BY <2>8, SharePanel DEF PanelEnds, SomethingDue, GivenUp, S!PostSaved
    <3> QED
      BY <3>2, <3>3, <3>4
  <2>9. CASE S!Moved(s)
    <3>1. ShareStep
      BY <2>9, SharePanel DEF S!Moved
    <3>2. SavedHavePosts'
      BY <2>9, StageOnly DEF S!Moved
    <3>3. PanelEnds'
      BY <2>9, SharePanel DEF PanelEnds, SomethingDue, GivenUp, S!Moved
    <3> QED
      BY <3>1, <3>2, <3>3
  <2> QED
    BY <1>1, <2>1, <2>2, <2>3, <2>4, <2>5, <2>6, <2>7, <2>8, <2>9,
       <2>10
<1>2. ASSUME NEW f \in Family, S!SwitchFamily(f)
      PROVE  ShareInv'
  <2>1. UNCHANGED <<stage, target, photos, posts, hud>> /\ current' = f
    BY <1>2 DEF S!SwitchFamily
  <2>2. /\ since' \in [Share -> SUBSET Family]
        /\ \A s \in Share : stage[s] # "idle" => since'[s] = since[s] \cup {f}
    BY <1>2 DEF S!SwitchFamily, SharesTyped
  <2>3. SharesTyped' /\ Progress' /\ PhotosFirst'
    BY <2>1, <2>2 DEF SharesTyped, Progress, PhotosFirst
  <2>4. FamilyTimely'
    <3> SUFFICES ASSUME NEW p \in posts
                 PROVE  p.family \in since'[p.share]
      BY <2>1 DEF FamilyTimely
    <3>1. p.share \in Share /\ stage[p.share] # "idle"
      BY DEF SharesTyped, SavedHavePosts, Post
    <3> QED
      BY <2>2, <3>1 DEF FamilyTimely
  <2> QED
    BY <2>1, <2>3, <2>4 DEF SavedHavePosts, PanelEnds,
           SomethingDue, GivenUp
<1>3. CASE S!ShareRefused \/ S!PanelTimer
  <2>1. /\ UNCHANGED <<current, stage, target, photos, posts, since>>
        /\ hud' = S!ShowError(hud) \/ (hud.timers > 0 /\ hud' = S!Hidden(hud))
    BY <1>3 DEF S!ShareRefused, S!PanelTimer
  <2>2. hud' \in S!Panel /\ (hud'.timers > 0 \/ hud'.blocks = FALSE)
    BY <2>1, SharePanel DEF SharesTyped
  <2> QED
    BY <2>1, <2>2
       DEF SharesTyped, Progress, FamilyTimely, PhotosFirst, SavedHavePosts, PanelEnds,
           SomethingDue, GivenUp
<1>4. CASE S!Closed \/ UNCHANGED S!vars
  <2>1. UNCHANGED <<current, stage, target, photos, posts, hud, since>>
    BY <1>4 DEF S!Closed, S!vars
  <2> QED
    BY <2>1
       DEF SharesTyped, Progress, FamilyTimely, PhotosFirst, SavedHavePosts, PanelEnds,
           SomethingDue, GivenUp
<1> QED
  BY <1>1, <1>2, <1>3, <1>4 DEF S!Next

LEMMA ShareInvariant == S!Spec => []ShareInv
BY ShareInit, ShareNext, PTL DEF S!Spec

\* However long the read of the family took, and whatever was shared or
\* switched meanwhile, a post is in a family that was current after its tap.
THEOREM PostsTimely == S!Spec => []FamilyTimely
<1>1. ShareInv => FamilyTimely
  BY DEF ShareInv
<1> QED
  BY ShareInvariant, <1>1, PTL

\* The post is written after its photo is in the storage.
THEOREM PostsHavePhotos == S!Spec => []PhotosFirst
<1>1. ShareInv => PhotosFirst
  BY DEF ShareInv
<1> QED
  BY ShareInvariant, <1>1, PTL

\* A share that was shown as a success has its post, one that failed has none,
\* and no tap leads to two posts.
THEOREM SharedOnce == S!Spec => []SavedHavePosts
<1>1. ShareInv => SavedHavePosts
  BY DEF ShareInv
<1> QED
  BY ShareInvariant, <1>1, PTL

\* The safety half of Unblocked: while a panel keeps the user from the page, a
\* timer or a share is under way that ends it, unless a share was given up
\* because its photo could not be encoded or was not recognised.
THEOREM NobodyWaitsForNothing ==
  S!Spec => [](S!Blocks(hud) =>
                 \/ SomethingDue
                 \/ GivenUp /\ (EncodingFails \/ RecognitionFails))
<1>1. ShareInv => (S!Blocks(hud) =>
                     \/ SomethingDue
                     \/ GivenUp /\ (EncodingFails \/ RecognitionFails))
  BY DEF ShareInv, PanelEnds, GivenUp, Progress, S!Blocks
<1> QED
  BY ShareInvariant, <1>1, PTL

===============================================================================
