--------------------------- MODULE AuthoredRows_proofs --------------------------
(***************************************************************************)
(* The two lists of AuthoredRows stay aligned and up to date whatever the  *)
(* page that uses them does: each operation of the module keeps RowsInv.   *)
(* Timeline_proofs and Comments_proofs use the lemmas.                     *)
(***************************************************************************)
EXTENDS AuthoredRows, TLAPS

\* No listener is ahead of the document it listens to.
NoneAhead ==
  \A i \in Item, v \in Version : listening[i][v] > 0 => v <= version[Author[i]]

UpToDate(i) == \E k \in DOMAIN rows : /\ rows[k] = i
                                       /\ authors[k].version = version[Author[i]]

\* A listener that is level with the document has left a row that is, too; and
\* what is on show has an author with a document.
Level == \A i \in Item :
           Shown(i) => /\ version[Author[i]] > 0
                       /\ listening[i][version[Author[i]]] > 0 => UpToDate(i)

RowsInv == /\ RowsTypeOK
           /\ Aligned
           /\ NoneAhead
           /\ Level

\* An item that was loaded is on show, or a new listener waits for its author,
\* or one has failed before its first report.
Promised(i) == \/ Shown(i)
               \/ listening[i][0] > 0
               \/ i \in lost

\* A listener that is alive has something to report, or is level.
LEMMA RowsInvLatest == RowsInv => LatestShown
<1> SUFFICES ASSUME RowsInv, NEW i \in Item, Shown(i), Heard(i)
             PROVE  UpToDate(i) \/ \E v \in Version : Reportable(i, v)
  BY DEF LatestShown, UpToDate
<1>1. PICK v \in Version : listening[i][v] > 0
  BY DEF Heard
<1>2. version[Author[i]] > 0 /\ version[Author[i]] \in Nat
  BY AuthorAssumption, MaxVersionAssumption
     DEF RowsInv, RowsTypeOK, Level, Version
<1>3. CASE v = version[Author[i]]
  BY <1>1, <1>3 DEF RowsInv, Level
<1>4. CASE v # version[Author[i]]
  BY <1>1, <1>2, <1>4 DEF Reportable
<1> QED
  BY <1>3, <1>4

\* What is promised has a row, or a report on its way, or was lost.
LEMMA PromiseMeans ==
  ASSUME RowsInv, NEW i \in Item, Promised(i)
  PROVE  \/ Shown(i)
         \/ version[Author[i]] = 0
         \/ i \in lost
         \/ \E v \in Version : Reportable(i, v)
BY MaxVersionAssumption DEF Promised, Reportable, Version

LEMMA RowsInvNone ==
  ASSUME NoRows, version \in [User -> Version]
  PROVE  RowsInv
<1>1. RowsTypeOK
  BY MaxErrorsAssumption DEF NoRows, RowsTypeOK
<1> QED
  BY <1>1, AuthorAssumption, MaxVersionAssumption
     DEF NoRows, RowsInv, Aligned, NoneAhead, Shown, Level, Version

LEMMA RowsInvUnchanged ==
  ASSUME RowsInv, UNCHANGED <<version, rowVars>>
  PROVE  RowsInv'
BY DEF RowsInv, RowsTypeOK, Aligned, NoneAhead, Level, UpToDate, Shown,
       rowVars, Version, AuthorRow

\* An empty list shows nothing.
LEMMA RowsInvClear ==
  ASSUME RowsInv, ClearRows, UNCHANGED <<version, listening, errors>>
  PROVE  RowsInv'
BY DEF RowsInv, RowsTypeOK, Aligned, NoneAhead, Level, Shown, ClearRows, Version

\* More listeners that have reported nothing.
LEMMA RowsInvListen ==
  ASSUME RowsInv, NEW s \in SUBSET Item, listening' = ListeningTo(s),
         UNCHANGED <<version, rows, authors, lost, errors>>
  PROVE  RowsInv'
<1> USE MaxVersionAssumption, AuthorAssumption DEF RowsInv
<1>1. listening' \in [Item -> [Version -> Nat]]
  BY DEF RowsTypeOK, ListeningTo, Version
<1>2. \A i \in Item, v \in Version :
        listening[i][v] > 0 => listening'[i][v] > 0
  BY DEF RowsTypeOK, ListeningTo, Version
<1>3. NoneAhead'
  BY DEF RowsTypeOK, ListeningTo, Version, NoneAhead
<1>4. \A i \in Item, v \in Version :
        v # 0 => listening'[i][v] = listening[i][v]
  BY DEF RowsTypeOK, ListeningTo, Version
<1>5. Level'
  <2> SUFFICES ASSUME NEW i \in Item, Shown(i)
               PROVE  /\ version[Author[i]] > 0
                      /\ listening'[i][version[Author[i]]] > 0 => UpToDate(i)
    BY DEF Level, Shown, UpToDate
  <2>1. version[Author[i]] > 0 /\ version[Author[i]] \in Version
    BY DEF Level, RowsTypeOK
  <2> QED
    BY <2>1, <1>4 DEF Level, Version
<1> QED
  BY <1>1, <1>3, <1>5 DEF RowsTypeOK, Aligned

\* The event of a listener.
LEMMA RowsInvReport ==
  ASSUME RowsInv, NEW i \in Item, NEW v \in Version, Report(i, v),
         UNCHANGED version
  PROVE  RowsInv'
<1> USE MaxVersionAssumption, AuthorAssumption DEF RowsInv
<1> DEFINE now == version[Author[i]]
<1>1. now \in Version /\ Author[i] \in User /\ now # v
  BY DEF RowsTypeOK, Report, Reportable
<1>2. /\ listening' \in [Item -> [Version -> Nat]]
      /\ listening'[i][now] > 0
      /\ \A w \in Version : w # now => listening'[i][w] <= listening[i][w]
      /\ \A j \in Item : j # i => listening'[j] = listening[j]
  BY <1>1 DEF RowsTypeOK, Report, Reportable, Reported, Version
<1>3. /\ rows' \in Seq(Item) /\ authors' \in Seq(AuthorRow)
      /\ Len(rows') = Len(rows) + 1 /\ Len(authors') = Len(authors) + 1
      /\ \A k \in DOMAIN rows : rows'[k] = rows[k]
      /\ \A k \in DOMAIN authors : authors'[k] = authors[k]
      /\ rows'[Len(rows) + 1] = i
      /\ authors'[Len(authors) + 1] = [user |-> Author[i], version |-> now]
  <2>1. [user |-> Author[i], version |-> now] \in AuthorRow
    BY <1>1 DEF AuthorRow
  <2>2. /\ rows \in Seq(Item) /\ authors \in Seq(AuthorRow)
        /\ rows' = Append(rows, i)
        /\ authors' = Append(authors, [user |-> Author[i], version |-> now])
    BY DEF RowsTypeOK, Report
  <2> HIDE DEF now
  <2> QED
    BY <2>1, <2>2
<1>4. /\ DOMAIN rows = 1..Len(rows) /\ DOMAIN rows' = 1..(Len(rows) + 1)
      /\ DOMAIN authors = DOMAIN rows
      /\ Len(rows) = Len(authors) /\ Len(rows) \in Nat
  BY <1>3 DEF RowsTypeOK, Aligned
<1>5. RowsTypeOK'
  <2>1. UNCHANGED <<version, lost, errors>>
    BY DEF Report
  <2> QED
    BY <1>2, <1>3, <2>1 DEF RowsTypeOK
<1>6. Aligned'
  BY <1>3, <1>4 DEF Aligned
<1>7. NoneAhead'
  <2> SUFFICES ASSUME NEW j \in Item, NEW w \in Version, listening'[j][w] > 0
               PROVE  w <= version[Author[j]]
    BY DEF NoneAhead
  <2>1. CASE j = i /\ w = now
    BY <1>1, <2>1 DEF RowsTypeOK, Version
  <2>2. CASE j = i /\ w # now
    <3>1. /\ listening'[i][w] \in Nat /\ listening[i][w] \in Nat
          /\ listening'[i][w] <= listening[i][w]
      BY <1>2, <2>2 DEF RowsTypeOK
    <3> QED
      BY <2>2, <3>1 DEF NoneAhead
  <2>3. CASE j # i
    BY <1>2, <2>3 DEF NoneAhead
  <2> QED
    BY <2>1, <2>2, <2>3
<1>8. Level'
  <2> SUFFICES ASSUME NEW j \in Item, Shown(j)'
               PROVE  /\ version[Author[j]] > 0
                      /\ listening'[j][version[Author[j]]] > 0 => UpToDate(j)'
    BY DEF Level
  <2>1. CASE j = i
    <3>1. Len(rows) + 1 \in DOMAIN rows'
      BY <1>4
    <3>2. authors'[Len(rows) + 1].version = version'[Author[j]]
      BY <1>3, <1>4, <2>1
    <3>3. UpToDate(j)'
      BY <3>1, <3>2, <1>3, <2>1 DEF UpToDate
    <3>4. version[Author[i]] > 0
      BY <1>1 DEF Report, Reportable, Version
    <3> QED
      BY <3>3, <3>4, <2>1
  <2>2. CASE j # i
    <3>1. Shown(j)
      BY <1>3, <1>4, <2>2 DEF Shown
    <3>2. listening'[j] = listening[j]
      BY <1>2, <2>2
    <3>3. UpToDate(j) => UpToDate(j)'
      BY <1>3, <1>4 DEF UpToDate
    <3> QED
      BY <3>1, <3>2, <3>3 DEF Level
  <2> QED
    BY <2>1, <2>2
<1> QED
  BY <1>5, <1>6, <1>7, <1>8

\* A listener less: the rows stay, and what is left is still level.
LEMMA RowsInvFails ==
  ASSUME RowsInv, NEW i \in Item, NEW v \in Version, ListenerFails(i, v),
         UNCHANGED version
  PROVE  RowsInv'
<1> USE MaxVersionAssumption, AuthorAssumption, MaxErrorsAssumption DEF RowsInv
<1>1. /\ listening' \in [Item -> [Version -> Nat]]
      /\ \A j \in Item, w \in Version :
           listening'[j][w] > 0 => listening[j][w] > 0
  <2>1. /\ listening \in [Item -> [Version -> Nat]]
        /\ listening[i][v] > 0
        /\ listening' = [listening EXCEPT ![i][v] = @ - 1]
    BY DEF RowsTypeOK, ListenerFails
  <2>2. listening[i][v] - 1 \in Nat
    BY <2>1
  <2>3. listening' \in [Item -> [Version -> Nat]]
    BY <2>1, <2>2
  <2>4. \A j \in Item, w \in Version :
          listening'[j][w] = IF j = i /\ w = v THEN listening[i][v] - 1
                             ELSE listening[j][w]
    BY <2>1
  <2> QED
    BY <2>1, <2>3, <2>4
<1>2. RowsTypeOK' /\ UNCHANGED <<rows, authors>>
  BY <1>1 DEF RowsTypeOK, ListenerFails
<1>3. NoneAhead' /\ Aligned'
  BY <1>1, <1>2 DEF NoneAhead, Aligned
<1>4. Level'
  BY <1>1, <1>2 DEF Level, Shown, UpToDate, RowsTypeOK
<1> QED
  BY <1>2, <1>3, <1>4

\* A new version of a document: its listeners have it to report.
LEMMA RowsInvWrite ==
  ASSUME RowsInv, NEW u \in User, WriteProfile(u)
  PROVE  RowsInv'
<1> USE MaxVersionAssumption, AuthorAssumption DEF RowsInv, WriteProfile, rowVars
<1>1. /\ version' \in [User -> Version]
      /\ \A w \in User : version[w] <= version'[w]
      /\ version'[u] = version[u] + 1
      /\ \A w \in User : w # u => version'[w] = version[w]
  BY DEF RowsTypeOK, Version
<1>2. NoneAhead'
  BY <1>1 DEF NoneAhead, RowsTypeOK, Version
<1>3. Level'
  <2> SUFFICES ASSUME NEW j \in Item, Shown(j)
               PROVE  /\ version'[Author[j]] > 0
                      /\ listening[j][version'[Author[j]]] > 0 => UpToDate(j)'
    BY DEF Level, Shown
  <2>1. CASE Author[j] = u
    <3>1. version'[Author[j]] > 0 /\ version'[Author[j]] \in Version
      BY <1>1, <2>1 DEF RowsTypeOK, Version
    <3>2. ~(version'[Author[j]] <= version[Author[j]])
      BY <1>1, <2>1 DEF RowsTypeOK, Version
    <3> QED
      BY <3>1, <3>2 DEF NoneAhead
  <2>2. CASE Author[j] # u
    BY <1>1, <2>2 DEF Level, UpToDate
  <2> QED
    BY <2>1, <2>2
<1> QED
  BY <1>1, <1>2, <1>3 DEF RowsTypeOK, Aligned

\* Loading promises the items that were loaded, and breaks no promise.
LEMMA PromisedListen ==
  ASSUME RowsInv, NEW s \in SUBSET Item, listening' = ListeningTo(s),
         UNCHANGED <<rows, lost>>,
         NEW i \in Item, Promised(i) \/ i \in s
  PROVE  Promised(i)'
BY MaxVersionAssumption
   DEF RowsInv, RowsTypeOK, ListeningTo, Version, Promised, Shown

\* An event shows the item, or leaves its new listener waiting.
LEMMA PromisedReport ==
  ASSUME RowsInv, NEW j \in Item, NEW v \in Version, Report(j, v),
         NEW i \in Item, Promised(i)
  PROVE  Promised(i)'
<1> USE MaxVersionAssumption, AuthorAssumption DEF RowsInv, RowsTypeOK
<1>1. /\ rows' = Append(rows, j)
      /\ \A k \in DOMAIN rows : k \in DOMAIN rows' /\ rows'[k] = rows[k]
      /\ Len(rows) + 1 \in DOMAIN rows' /\ rows'[Len(rows) + 1] = j
  <2>1. rows \in Seq(Item) /\ rows' = Append(rows, j)
    BY DEF Report
  <2>2. /\ Len(rows) \in Nat /\ Len(rows') = Len(rows) + 1
        /\ DOMAIN rows = 1..Len(rows) /\ DOMAIN rows' = 1..Len(rows')
        /\ \A k \in 1..Len(rows) : rows'[k] = rows[k]
        /\ rows'[Len(rows) + 1] = j
    BY <2>1
  <2> QED
    BY <2>1, <2>2
<1>2. CASE i = j
  BY <1>1, <1>2 DEF Shown, Promised
<1>3. CASE i # j
  <2>1. listening'[i] = listening[i] /\ lost' = lost
    BY <1>3 DEF Report, Reportable, Reported, Version
  <2>2. Shown(i) => Shown(i)'
    BY <1>1 DEF Shown
  <2> QED
    BY <2>1, <2>2 DEF Promised
<1> QED
  BY <1>2, <1>3

\* A listener that fails before its first report is recorded as lost.
LEMMA PromisedFails ==
  ASSUME RowsInv, NEW j \in Item, NEW v \in Version, ListenerFails(j, v),
         NEW i \in Item, Promised(i)
  PROVE  Promised(i)'
BY MaxVersionAssumption
   DEF RowsInv, RowsTypeOK, ListenerFails, Version, Promised, Shown

\* What leaves the rows and the listeners alone keeps every promise.
LEMMA PromisedUnchanged ==
  ASSUME NEW i \in Item, Promised(i), UNCHANGED <<rows, listening, lost>>
  PROVE  Promised(i)'
BY DEF Promised, Shown
===============================================================================
