----------------------------- MODULE Channels_proofs ----------------------------
(***************************************************************************)
(* What the list of chats promises for every number of channels, families  *)
(* and pages: a family has one row, a row stands for a channel that is     *)
(* reported, and a reported channel has its row, but for the removal of    *)
(* another channel of its family.  The rows are a sequence that changes by *)
(* one insertion or removal at a time: the first lemmas say what these     *)
(* leave in place.                                                         *)
(***************************************************************************)
EXTENDS Channels, SequenceTheorems, TLAPS

-------------------------------------------------------------------------------
(* Insertions and removals *)

LEMMA Inserted ==
  ASSUME rows \in Seq(Doc), NEW c \in Doc, NEW k \in 1..(Len(rows) + 1)
  PROVE  /\ InsertedAt(k, c) \in Seq(Doc)
         /\ Len(InsertedAt(k, c)) = Len(rows) + 1
         /\ \A i \in 1..(Len(rows) + 1) :
              InsertedAt(k, c)[i] = IF i < k THEN rows[i]
                                    ELSE IF i = k THEN c ELSE rows[i - 1]
<1> DEFINE a == SubSeq(rows, 1, k - 1)
           b == SubSeq(rows, k, Len(rows))
<1>1. /\ a \in Seq(Doc) /\ Len(a) = k - 1
      /\ \A i \in 1..(k - 1) : a[i] = rows[i]
  BY SubSeqProperties
<1>2. /\ b \in Seq(Doc) /\ Len(b) = Len(rows) - k + 1
      /\ \A i \in 1..(Len(rows) - k + 1) : b[i] = rows[k + i - 1]
  BY SubSeqProperties
<1>3. <<c>> \in Seq(Doc) /\ Len(<<c>>) = 1 /\ <<c>>[1] = c
  OBVIOUS
<1> HIDE DEF a, b
<1>4. /\ a \o <<c>> \in Seq(Doc) /\ Len(a \o <<c>>) = k
      /\ \A i \in 1..k : (a \o <<c>>)[i] = IF i < k THEN rows[i] ELSE c
  BY <1>1, <1>3, ConcatProperties
<1> DEFINE d == a \o <<c>>
<1> HIDE DEF d
<1>5. /\ d \o b \in Seq(Doc) /\ Len(d \o b) = Len(rows) + 1
      /\ \A i \in 1..(Len(rows) + 1) :
           (d \o b)[i] = IF i <= k THEN d[i] ELSE b[i - k]
  <2>1. d \in Seq(Doc) /\ Len(d) = k
    BY <1>4 DEF d
  <2>2. /\ d \o b \in Seq(Doc) /\ Len(d \o b) = Len(d) + Len(b)
        /\ \A i \in 1..(Len(d) + Len(b)) :
             (d \o b)[i] = IF i <= Len(d) THEN d[i] ELSE b[i - Len(d)]
    BY <1>2, <2>1, ConcatProperties
  <2>3. Len(d) + Len(b) = Len(rows) + 1
    BY <1>2, <2>1
  <2> QED
    BY <2>1, <2>2, <2>3
<1>6. InsertedAt(k, c) = d \o b
  BY DEF InsertedAt, a, b, d
<1>7. \A i \in 1..(Len(rows) + 1) :
        (d \o b)[i] = IF i < k THEN rows[i] ELSE IF i = k THEN c ELSE rows[i - 1]
  BY <1>2, <1>4, <1>5 DEF d
<1> QED
  BY <1>5, <1>6, <1>7

LEMMA Taken ==
  ASSUME rows \in Seq(Doc), NEW k \in DOMAIN rows
  PROVE  /\ RemovedAt(k) \in Seq(Doc)
         /\ Len(RemovedAt(k)) = Len(rows) - 1
         /\ \A i \in 1..(Len(rows) - 1) :
              RemovedAt(k)[i] = IF i < k THEN rows[i] ELSE rows[i + 1]
<1> DEFINE a == SubSeq(rows, 1, k - 1)
           b == SubSeq(rows, k + 1, Len(rows))
<1>0. k \in 1..Len(rows) /\ Len(rows) \in Nat
  OBVIOUS
<1>1. /\ a \in Seq(Doc) /\ Len(a) = k - 1
      /\ \A i \in 1..(k - 1) : a[i] = rows[i]
  BY <1>0, SubSeqProperties
<1>2. /\ b \in Seq(Doc) /\ Len(b) = Len(rows) - k
      /\ \A i \in 1..(Len(rows) - k) : b[i] = rows[k + i]
  BY <1>0, SubSeqProperties
<1> HIDE DEF a, b
<1>3. /\ a \o b \in Seq(Doc) /\ Len(a \o b) = Len(rows) - 1
      /\ \A i \in 1..(Len(rows) - 1) :
           (a \o b)[i] = IF i < k THEN a[i] ELSE b[i - k + 1]
  BY <1>0, <1>1, <1>2, ConcatProperties
<1>4. \A i \in 1..(Len(rows) - 1) :
        (a \o b)[i] = IF i < k THEN rows[i] ELSE rows[i + 1]
  <2> TAKE i \in 1..(Len(rows) - 1)
  <2>0. (a \o b)[i] = IF i < k THEN a[i] ELSE b[i - k + 1]
    BY <1>3
  <2>1. CASE i < k
    BY <1>0, <1>1, <2>0, <2>1
  <2>2. CASE i >= k
    <3>1. (a \o b)[i] = b[i - k + 1]
      BY <1>0, <2>0, <2>2
    <3>2. i - k + 1 \in 1..(Len(rows) - k) /\ k + (i - k + 1) = i + 1
      BY <1>0, <2>2
    <3>3. b[i - k + 1] = rows[k + (i - k + 1)]
      BY <1>2, <3>2
    <3> QED
      BY <1>0, <2>2, <3>1, <3>2, <3>3
  <2>3. i < k \/ i >= k
    BY <1>0
  <2> QED
    BY <2>1, <2>2, <2>3
<1> QED
  BY <1>3, <1>4 DEF RemovedAt, a, b

\* A row is a new one or an old one; the old ones and the new one are there.
LEMMA InsertedRows ==
  ASSUME rows \in Seq(Doc), NEW c \in Doc, NEW k \in 1..(Len(rows) + 1),
         rows' = InsertedAt(k, c)
  PROVE  /\ rows' \in Seq(Doc)
         /\ \A i \in DOMAIN rows' : i # k => \E j \in DOMAIN rows : rows'[i] = rows[j]
         /\ \A i, j \in DOMAIN rows' :
              i # j /\ i # k /\ j # k
                => \E m, n \in DOMAIN rows :
                     m # n /\ rows'[i] = rows[m] /\ rows'[j] = rows[n]
         /\ \A j \in DOMAIN rows : \E i \in DOMAIN rows' : rows'[i] = rows[j]
         /\ k \in DOMAIN rows' /\ rows'[k] = c
<1>1. /\ rows' \in Seq(Doc) /\ Len(rows') = Len(rows) + 1
      /\ \A i \in 1..(Len(rows) + 1) :
           rows'[i] = IF i < k THEN rows[i] ELSE IF i = k THEN c ELSE rows[i - 1]
  BY Inserted
<1>2. DOMAIN rows = 1..Len(rows) /\ DOMAIN rows' = 1..(Len(rows) + 1) /\ Len(rows) \in Nat
  BY <1>1
<1> DEFINE old(i) == IF i < k THEN i ELSE i - 1
<1>3. \A i \in DOMAIN rows' :
        i # k => old(i) \in DOMAIN rows /\ rows'[i] = rows[old(i)]
  BY <1>1, <1>2
<1>4. \A i, j \in DOMAIN rows' : i # j /\ i # k /\ j # k => old(i) # old(j)
  BY <1>2
<1>5. \A j \in DOMAIN rows : \E i \in DOMAIN rows' : rows'[i] = rows[j]
  <2> TAKE j \in DOMAIN rows
  <2>1. CASE j < k
    BY <1>1, <1>2, <2>1
  <2>2. CASE j >= k
    <3>1. j + 1 \in DOMAIN rows' /\ rows'[j + 1] = rows[j]
      BY <1>1, <1>2, <2>2
    <3> QED
      BY <3>1
  <2> QED
    BY <1>2, <2>1, <2>2
<1>6. k \in DOMAIN rows' /\ rows'[k] = c
  BY <1>1, <1>2
<1> HIDE DEF old
<1> QED
  BY <1>1, <1>3, <1>4, <1>5, <1>6

\* A row is one of the others, in their order.
LEMMA TakenRows ==
  ASSUME rows \in Seq(Doc), NEW k \in DOMAIN rows, rows' = RemovedAt(k)
  PROVE  /\ rows' \in Seq(Doc)
         /\ \A i, j \in DOMAIN rows' :
              i < j => \E m, n \in DOMAIN rows :
                         /\ m < n /\ m # k /\ n # k
                         /\ rows'[i] = rows[m] /\ rows'[j] = rows[n]
         /\ \A i \in DOMAIN rows' :
              \E m \in DOMAIN rows : m # k /\ rows'[i] = rows[m]
         /\ \A j \in DOMAIN rows : j # k => \E i \in DOMAIN rows' : rows'[i] = rows[j]
<1>1. /\ rows' \in Seq(Doc) /\ Len(rows') = Len(rows) - 1
      /\ \A i \in 1..(Len(rows) - 1) :
           rows'[i] = IF i < k THEN rows[i] ELSE rows[i + 1]
  BY Taken
<1>2. /\ DOMAIN rows = 1..Len(rows) /\ DOMAIN rows' = 1..(Len(rows) - 1)
      /\ Len(rows) \in Nat /\ k \in 1..Len(rows)
  BY <1>1
<1> DEFINE old(i) == IF i < k THEN i ELSE i + 1
<1>3. \A i \in DOMAIN rows' : /\ old(i) \in DOMAIN rows /\ old(i) # k
                              /\ rows'[i] = rows[old(i)]
  BY <1>1, <1>2
<1>4. \A i, j \in DOMAIN rows' : i < j => old(i) < old(j)
  BY <1>2
<1>5. \A j \in DOMAIN rows : j # k => \E i \in DOMAIN rows' : rows'[i] = rows[j]
  <2> TAKE j \in DOMAIN rows
  <2>1. CASE j < k
    BY <1>1, <1>2, <2>1
  <2>2. CASE j > k
    <3>1. j - 1 \in DOMAIN rows' /\ rows'[j - 1] = rows[j]
      BY <1>1, <1>2, <2>2
    <3> QED
      BY <3>1
  <2> QED
    BY <1>2, <2>1, <2>2
<1> HIDE DEF old
<1> QED
  BY <1>1, <1>3, <1>4, <1>5

-------------------------------------------------------------------------------
(* The invariant *)

\* Documents do not leave the collection but by a refusal.
Reports == /\ adding \subseteq reported
           /\ removing \subseteq refused
           /\ reported \subseteq stored \cup pending \cup refused
           /\ status = "reading" => /\ rows = <<>> /\ reported = {}
                                    /\ removing = {} /\ adding = {}

\* What the listener reported and the list was told of has its row.
Settled == \A c \in reported \ adding : \/ FamilyOf[c] \notin known
                                        \/ Row(FamilyOf[c])
                                        \/ RowDropped(FamilyOf[c])

Inv == TypeOK /\ Reports /\ OneRowEach /\ RowsReported /\ Settled

LEMMA InvInit == Init => Inv
<1> SUFFICES ASSUME Init PROVE Inv
  OBVIOUS
<1>1. TypeOK
  BY BoundsAssumption DEF Init, TypeOK
<1>2. rows = <<>> /\ reported = {}
  BY DEF Init
<1> QED
  BY <1>1, <1>2 DEF Init, Inv, Reports, OneRowEach, RowsReported, Settled

\* The list stays as it is, and what was reported, too.
LEMMA ListUnchanged ==
  ASSUME Inv, TypeOK', Reports',
         UNCHANGED <<rows, dropped, known, reported, removing, adding>>
  PROVE  Inv'
<1>1. OneRowEach'
  BY DEF Inv, OneRowEach
<1>2. RowsReported'
  BY DEF Inv, RowsReported
<1>3. Settled'
  BY DEF Inv, Settled, Row, RowDropped
<1> QED
  BY <1>1, <1>2, <1>3 DEF Inv

\* A page without rows that has been told nothing.
LEMMA NoList ==
  ASSUME TypeOK', Reports', rows' = <<>>, reported' = {}
  PROVE  Inv'
BY DEF Inv, OneRowEach, RowsReported, Settled

LEMMA InvAdded ==
  ASSUME Inv, TypeOK', Reports', NEW c \in Doc, Added(c)
  PROVE  Inv'
<1>0. rows \in Seq(Doc) /\ c \in reported /\ c \in adding
  BY DEF Inv, TypeOK, Reports, Added
<1>1. /\ UNCHANGED <<known, reported, removing, dropped>> /\ adding' = adding \ {c}
      /\ AddChannelToTable(c)
  BY DEF Added, storeVars
<1>2. CASE FamilyOf[c] \in known /\ ~Row(FamilyOf[c])
  <2>1. PICK k \in 1..(Len(rows) + 1) : rows' = InsertedAt(k, c) /\ Sorted(rows')
    BY <1>1, <1>2 DEF AddChannelToTable
  <2>2. /\ rows' \in Seq(Doc)
        /\ \A i \in DOMAIN rows' : i # k => \E j \in DOMAIN rows : rows'[i] = rows[j]
        /\ \A i, j \in DOMAIN rows' :
             i # j /\ i # k /\ j # k
               => \E m, n \in DOMAIN rows :
                    m # n /\ rows'[i] = rows[m] /\ rows'[j] = rows[n]
        /\ \A j \in DOMAIN rows : \E i \in DOMAIN rows' : rows'[i] = rows[j]
        /\ k \in DOMAIN rows' /\ rows'[k] = c
    BY <1>0, <2>1, InsertedRows
  <2>3. \A i \in DOMAIN rows' : i # k => FamilyOf[rows'[i]] # FamilyOf[c]
    BY <1>2, <2>2 DEF Row
  <2>4. \A m, n \in DOMAIN rows : m # n => FamilyOf[rows[m]] # FamilyOf[rows[n]]
    <3> TAKE m, n \in DOMAIN rows
    <3>1. m \in Nat /\ n \in Nat
      BY <1>0
    <3>2. m # n => m < n \/ n < m
      BY <3>1
    <3> QED
      BY <3>2 DEF Inv, OneRowEach
  <2>5. \A i, j \in DOMAIN rows' : i # j => FamilyOf[rows'[i]] # FamilyOf[rows'[j]]
    BY <2>2, <2>3, <2>4
  <2>6. OneRowEach'
    <3>1. \A i, j \in DOMAIN rows' : i < j => i # j
      BY <2>2
    <3> QED
      BY <2>1, <2>5, <3>1 DEF OneRowEach, Sorted
  <2>7. RowsReported'
    <3> SUFFICES ASSUME NEW i \in DOMAIN rows'
                 PROVE  /\ FamilyOf[rows'[i]] \in known'
                        /\ rows'[i] \in reported' \cup removing'
      BY DEF RowsReported
    <3>1. CASE i = k
      BY <1>0, <1>1, <1>2, <2>2, <3>1
    <3>2. CASE i # k
      <4>1. PICK j \in DOMAIN rows : rows'[i] = rows[j]
        BY <2>2, <3>2
      <4>2. FamilyOf[rows[j]] \in known /\ rows[j] \in reported \cup removing
        BY DEF Inv, RowsReported
      <4> QED
        BY <1>1, <4>1, <4>2
    <3> QED
      BY <3>1, <3>2
  <2>8. Row(FamilyOf[c])' /\ \A f : Row(f) => Row(f)'
    BY <2>2 DEF Row
  <2>9. Settled'
    <3> SUFFICES ASSUME NEW d \in reported' \ adding'
                 PROVE  \/ FamilyOf[d] \notin known'
                        \/ Row(FamilyOf[d])'
                        \/ RowDropped(FamilyOf[d])'
      BY DEF Settled
    <3>1. CASE d = c
      BY <2>8, <3>1
    <3>2. CASE d # c
      <4>1. d \in reported \ adding
        BY <1>1, <3>2
      <4>2. \/ FamilyOf[d] \notin known
            \/ Row(FamilyOf[d])
            \/ RowDropped(FamilyOf[d])
        BY <4>1 DEF Inv, Settled
      <4> QED
        BY <1>1, <2>8, <4>2 DEF RowDropped
    <3> QED
      BY <3>1, <3>2
  <2> QED
    BY <2>6, <2>7, <2>9 DEF Inv
<1>3. CASE ~(FamilyOf[c] \in known /\ ~Row(FamilyOf[c]))
  <2>1. rows' = rows
    BY <1>1, <1>3 DEF AddChannelToTable
  <2>2. OneRowEach' /\ RowsReported'
    BY <1>1, <2>1 DEF Inv, OneRowEach, RowsReported
  <2>3. Settled'
    BY <1>1, <1>3, <2>1 DEF Inv, Settled, Row, RowDropped
  <2> QED
    BY <2>2, <2>3 DEF Inv
<1> QED
  BY <1>2, <1>3

LEMMA InvRemoved ==
  ASSUME Inv, TypeOK', Reports', NEW c \in Doc, Removed(c)
  PROVE  Inv'
<1>0. rows \in Seq(Doc) /\ c \in removing
  BY DEF Inv, TypeOK, Reports, Removed
<1>1. /\ UNCHANGED <<known, reported, adding>> /\ removing' = removing \ {c}
      /\ dropped' = dropped \cup {c}
      /\ RemoveChannelFromTable(c)
  BY DEF Removed, storeVars
<1>2. CASE Row(FamilyOf[c])
  <2>1. PICK k \in DOMAIN rows : FamilyOf[rows[k]] = FamilyOf[c] /\ rows' = RemovedAt(k)
    BY <1>1, <1>2 DEF RemoveChannelFromTable
  <2>2. /\ rows' \in Seq(Doc)
        /\ \A i, j \in DOMAIN rows' :
             i < j => \E m, n \in DOMAIN rows :
                        /\ m < n /\ m # k /\ n # k
                        /\ rows'[i] = rows[m] /\ rows'[j] = rows[n]
        /\ \A i \in DOMAIN rows' :
             \E m \in DOMAIN rows : m # k /\ rows'[i] = rows[m]
        /\ \A j \in DOMAIN rows : j # k => \E i \in DOMAIN rows' : rows'[i] = rows[j]
    BY <1>0, <2>1, TakenRows
  <2>3. OneRowEach'
    <3> SUFFICES ASSUME NEW i \in DOMAIN rows', NEW j \in DOMAIN rows', i < j
                 PROVE  /\ FamilyOf[rows'[i]] # FamilyOf[rows'[j]]
                        /\ Name[rows'[i]] <= Name[rows'[j]]
      BY DEF OneRowEach
    <3>1. PICK m, n \in DOMAIN rows : m < n /\ rows'[i] = rows[m] /\ rows'[j] = rows[n]
      BY <2>2
    <3> QED
      BY <3>1 DEF Inv, OneRowEach
  <2>4. \A m \in DOMAIN rows : m # k => FamilyOf[rows[m]] # FamilyOf[c]
    <3> TAKE m \in DOMAIN rows
    <3>1. m \in Nat /\ k \in Nat
      BY <1>0
    <3>2. m # k => m < k \/ k < m
      BY <3>1
    <3> QED
      BY <2>1, <3>2 DEF Inv, OneRowEach
  <2>5. RowsReported'
    <3> SUFFICES ASSUME NEW i \in DOMAIN rows'
                 PROVE  /\ FamilyOf[rows'[i]] \in known'
                        /\ rows'[i] \in reported' \cup removing'
      BY DEF RowsReported
    <3>1. PICK m \in DOMAIN rows : m # k /\ rows'[i] = rows[m]
      BY <2>2
    <3>2. FamilyOf[rows[m]] \in known /\ rows[m] \in reported \cup removing
      BY DEF Inv, RowsReported
    <3>3. rows[m] # c
      BY <2>4, <3>1
    <3> QED
      BY <1>1, <3>1, <3>2, <3>3
  <2>6. \A f : f # FamilyOf[c] /\ Row(f) => Row(f)'
    <3> SUFFICES ASSUME NEW f, f # FamilyOf[c], Row(f) PROVE Row(f)'
      OBVIOUS
    <3>1. PICK j \in DOMAIN rows : FamilyOf[rows[j]] = f
      BY DEF Row
    <3>2. j # k
      BY <2>1, <3>1
    <3>3. PICK i \in DOMAIN rows' : rows'[i] = rows[j]
      BY <2>2, <3>2
    <3> QED
      BY <3>1, <3>3 DEF Row
  <2>7. Settled'
    <3> SUFFICES ASSUME NEW d \in reported' \ adding'
                 PROVE  \/ FamilyOf[d] \notin known'
                        \/ Row(FamilyOf[d])'
                        \/ RowDropped(FamilyOf[d])'
      BY DEF Settled
    <3>1. \/ FamilyOf[d] \notin known
          \/ Row(FamilyOf[d])
          \/ RowDropped(FamilyOf[d])
      BY <1>1 DEF Inv, Settled
    <3> QED
      BY <1>0, <1>1, <2>6, <3>1 DEF RowDropped
  <2> QED
    BY <2>3, <2>5, <2>7 DEF Inv
<1>3. CASE ~Row(FamilyOf[c])
  <2>1. rows' = rows
    BY <1>1, <1>3 DEF RemoveChannelFromTable
  <2>2. \A k \in DOMAIN rows : rows[k] # c
    BY <1>3 DEF Row
  <2>3. OneRowEach'
    BY <2>1 DEF Inv, OneRowEach
  <2>4. RowsReported'
    BY <1>1, <2>1, <2>2 DEF Inv, RowsReported
  <2>5. Settled'
    BY <1>1, <2>1 DEF Inv, Settled, Row, RowDropped
  <2> QED
    BY <2>3, <2>4, <2>5 DEF Inv
<1> QED
  BY <1>2, <1>3

LEMMA InvSnapshot ==
  ASSUME Inv, TypeOK', Reports', Snapshot
  PROVE  Inv'
<1>1. /\ UNCHANGED <<known, rows, dropped>> /\ removing = {} /\ adding = {}
      /\ removing' = reported \ View /\ adding' = View \ reported /\ reported' = View
  BY DEF Snapshot, storeVars, Free
<1>2. OneRowEach'
  BY <1>1 DEF Inv, OneRowEach
<1>3. RowsReported'
  <2> SUFFICES ASSUME NEW k \in DOMAIN rows
               PROVE  /\ FamilyOf[rows[k]] \in known
                      /\ rows[k] \in View \cup (reported \ View)
    BY <1>1 DEF RowsReported
  <2> QED
    BY <1>1 DEF Inv, RowsReported
<1>4. \A c \in reported' \ adding' : c \in reported \ adding
  BY <1>1
<1>5. Settled'
  BY <1>1, <1>4 DEF Inv, Settled, Row, RowDropped
<1> QED
  BY <1>2, <1>3, <1>5 DEF Inv

-------------------------------------------------------------------------------
(* Types and reports, action by action *)

LEMMA Typed == Inv /\ [Next]_vars => TypeOK' /\ Reports'
<1> SUFFICES ASSUME Inv, [Next]_vars PROVE TypeOK' /\ Reports'
  OBVIOUS
<1> USE BoundsAssumption DEF Inv, TypeOK, Reports, storeVars, pageVars, View, Free
<1>1. CASE Reopen
  BY <1>1 DEF Reopen, Load
<1>2. CASE UserRead \/ UserNotRead \/ ListenerFails
  BY <1>2 DEF UserRead, UserNotRead, ListenerFails
<1>3. CASE Snapshot
  BY <1>3 DEF Snapshot
<1>4. ASSUME NEW c \in Doc, Removed(c) PROVE TypeOK' /\ Reports'
  <2>1. rows' \in Seq(Doc)
    BY <1>4, TakenRows DEF Removed, RemoveChannelFromTable
  <2> QED
    BY <1>4, <2>1 DEF Removed
<1>5. ASSUME NEW c \in Doc, Added(c) PROVE TypeOK' /\ Reports'
  <2>1. rows' \in Seq(Doc)
    BY <1>5, InsertedRows DEF Added, AddChannelToTable
  <2> QED
    BY <1>5, <2>1 DEF Added
<1>6. ASSUME NEW c \in Doc, SaveChannel(c) \/ Accept(c) \/ Refuse(c) \/ OthersSave(c)
      PROVE  TypeOK' /\ Reports'
  BY <1>6 DEF SaveChannel, Accept, Refuse, OthersSave
<1>7. ASSUME NEW f \in Family, ChangeFamilies(f) PROVE TypeOK' /\ Reports'
  BY <1>7 DEF ChangeFamilies
<1>8. CASE UNCHANGED vars
  BY <1>8 DEF vars
<1> QED
  BY <1>1, <1>2, <1>3, <1>4, <1>5, <1>6, <1>7, <1>8 DEF Next

LEMMA InvNext == Inv /\ [Next]_vars => Inv'
<1> SUFFICES ASSUME Inv, [Next]_vars PROVE Inv'
  OBVIOUS
<1>0. TypeOK' /\ Reports'
  BY Typed
<1>1. CASE Reopen
  BY <1>0, <1>1, NoList DEF Reopen, Load
<1>2. CASE UserRead
  <2>1. rows' = <<>> /\ reported' = {}
    BY <1>2 DEF UserRead, Inv, Reports
  <2> QED
    BY <1>0, <2>1, NoList
<1>3. CASE UserNotRead \/ ListenerFails
  BY <1>0, <1>3, ListUnchanged DEF UserNotRead, ListenerFails, storeVars
<1>4. CASE Snapshot
  BY <1>0, <1>4, InvSnapshot
<1>5. ASSUME NEW c \in Doc, Removed(c) PROVE Inv'
  BY <1>0, <1>5, InvRemoved
<1>6. ASSUME NEW c \in Doc, Added(c) PROVE Inv'
  BY <1>0, <1>6, InvAdded
<1>7. ASSUME NEW c \in Doc, SaveChannel(c) \/ Accept(c) \/ Refuse(c) \/ OthersSave(c)
      PROVE  Inv'
  <2>1. UNCHANGED <<rows, dropped, known, reported, removing, adding>>
    BY <1>7 DEF SaveChannel, Accept, Refuse, OthersSave, pageVars
  <2> QED
    BY <1>0, <2>1, ListUnchanged
<1>8. ASSUME NEW f \in Family, ChangeFamilies(f) PROVE Inv'
  BY <1>0, <1>8, ListUnchanged DEF ChangeFamilies, pageVars
<1>9. CASE UNCHANGED vars
  BY <1>0, <1>9, ListUnchanged DEF vars, storeVars, pageVars
<1> QED
  BY <1>1, <1>2, <1>3, <1>4, <1>5, <1>6, <1>7, <1>8, <1>9 DEF Next

\* addChannelToTable looks for an equal channel and sorts: a family never has two
\* rows, in whatever order channels are reported, refused and removed.
THEOREM AlwaysOneRowEach == Spec => []OneRowEach
<1>1. Inv => OneRowEach
  BY DEF Inv
<1> QED
  BY InvInit, InvNext, <1>1, PTL DEF Spec

\* A row stands for a channel of a family of the user that the listener reports
\* or is about to take away, although a removal goes by the family.
THEOREM AlwaysReported == Spec => []RowsReported
<1>1. Inv => RowsReported
  BY DEF Inv
<1> QED
  BY InvInit, InvNext, <1>1, PTL DEF Spec

\* A reported channel has its row, and only the removal of another channel of
\* the family, on this very page, can have taken it away.
THEOREM AlwaysHaveRows == Spec => []ReportedHaveRows
<1>1. Inv => ReportedHaveRows
  BY DEF Inv, Settled, ReportedHaveRows, Free
<1> QED
  BY InvInit, InvNext, <1>1, PTL DEF Spec
===============================================================================
