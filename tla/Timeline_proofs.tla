----------------------------- MODULE Timeline_proofs ----------------------------
(***************************************************************************)
(* What the timeline promises for every number of users, posts, families,  *)
(* loads and changes: a row has the author of its post in his latest       *)
(* version, or an event on the way that will add it, and no overlap of     *)
(* loads drops a post.                                                     *)
(***************************************************************************)
EXTENDS Timeline, AuthoredRows_proofs

PageTypeOK == /\ posts \in SUBSET Item
              /\ current \in Family
              /\ reads \in Nat
              /\ queries \in [Family -> Nat]
              /\ fetched \in SUBSET Item
              /\ failed \in BOOLEAN
              /\ loads \in 0..MaxLoads
              /\ changes \in 0..MaxChanges

Inv == /\ RowsInv
       /\ PageTypeOK
       /\ \A p \in fetched : Promised(p)

LEMMA InvInit == Init => Inv
<1> SUFFICES ASSUME Init PROVE Inv
  OBVIOUS
<1>1. RowsInv
  BY RowsInvNone DEF Init
<1>2. queries \in [Family -> Nat] /\ loads \in 0..MaxLoads /\ changes \in 0..MaxChanges
  BY BoundsAssumption DEF Init
<1>3. PageTypeOK
  BY <1>2 DEF Init, PageTypeOK
<1> QED
  BY <1>1, <1>3 DEF Inv, Init

\* What leaves the rows and the listeners alone keeps every promise.
LEMMA InvRowsUnchanged ==
  ASSUME Inv, PageTypeOK', UNCHANGED <<version, rowVars, fetched>>
  PROVE  Inv'
<1>1. RowsInv'
  BY RowsInvUnchanged DEF Inv
<1>2. \A p \in fetched' : Promised(p)'
  BY PromisedUnchanged DEF Inv, PageTypeOK, rowVars
<1> QED
  BY <1>1, <1>2 DEF Inv

LEMMA InvNext == Inv /\ [Next]_vars => Inv'
<1> SUFFICES ASSUME Inv, [Next]_vars PROVE Inv'
  OBVIOUS
<1> USE BoundsAssumption DEF pageVars, storeVars
<1>1. CASE Refresh
  <2>1. PageTypeOK'
    BY <1>1 DEF Refresh, Inv, PageTypeOK
  <2>2. RowsInv'
    BY <1>1, RowsInvClear DEF Refresh, Inv
  <2> QED
    BY <1>1, <2>1, <2>2 DEF Refresh, Inv
<1>2. CASE UserRead
  <2>1. PageTypeOK'
    BY <1>2 DEF UserRead, Inv, PageTypeOK
  <2> QED
    BY <1>2, <2>1, InvRowsUnchanged DEF UserRead
<1>3. CASE UserNotRead
  <2>1. PageTypeOK'
    BY <1>3 DEF UserNotRead, Inv, PageTypeOK
  <2> QED
    BY <1>3, <2>1, InvRowsUnchanged DEF UserNotRead
<1>4. ASSUME NEW f \in Family, PostsRead(f) PROVE Inv'
  <2>1. PostsOf(f) \in SUBSET Item
    BY DEF PostsOf, Inv, PageTypeOK
  <2>2. PageTypeOK'
    BY <1>4, <2>1 DEF PostsRead, Inv, PageTypeOK
  <2>3. RowsInv'
    BY <1>4, <2>1, RowsInvListen DEF PostsRead, Inv
  <2>4. ASSUME NEW p \in fetched' PROVE Promised(p)'
    <3>1. p \in Item /\ (Promised(p) \/ p \in PostsOf(f))
      BY <1>4, <2>1, <2>2, <2>4 DEF PostsRead, Inv, PageTypeOK
    <3> QED
      BY <1>4, <2>1, <3>1, PromisedListen DEF PostsRead, Inv
  <2> QED
    BY <2>2, <2>3, <2>4 DEF Inv
<1>5. ASSUME NEW f \in Family, PostsNotRead(f) PROVE Inv'
  <2>1. PageTypeOK'
    BY <1>5 DEF PostsNotRead, Inv, PageTypeOK
  <2> QED
    BY <1>5, <2>1, InvRowsUnchanged DEF PostsNotRead
<1>6. ASSUME NEW p \in Item, NEW v \in Version, AuthorReported(p, v) PROVE Inv'
  <2>1. PageTypeOK'
    BY <1>6 DEF AuthorReported, Inv, PageTypeOK
  <2>2. RowsInv'
    BY <1>6, RowsInvReport DEF AuthorReported, Inv
  <2>3. \A q \in fetched' : Promised(q)'
    BY <1>6, PromisedReport DEF AuthorReported, Inv, PageTypeOK
  <2> QED
    BY <2>1, <2>2, <2>3 DEF Inv
<1>11. ASSUME NEW p \in Item, NEW v \in Version, AuthorLost(p, v) PROVE Inv'
  <2>1. PageTypeOK'
    BY <1>11 DEF AuthorLost, Inv, PageTypeOK
  <2>2. RowsInv'
    BY <1>11, RowsInvFails DEF AuthorLost, Inv
  <2>3. \A q \in fetched' : Promised(q)'
    BY <1>11, PromisedFails DEF AuthorLost, Inv, PageTypeOK
  <2> QED
    BY <2>1, <2>2, <2>3 DEF Inv
<1>7. ASSUME NEW p \in Item, AddPost(p) \/ DeletePost(p) PROVE Inv'
  <2>1. PageTypeOK'
    BY <1>7 DEF AddPost, DeletePost, Change, Inv, PageTypeOK
  <2> QED
    BY <1>7, <2>1, InvRowsUnchanged DEF AddPost, DeletePost
<1>8. ASSUME NEW f \in Family, SwitchFamily(f) PROVE Inv'
  <2>1. PageTypeOK'
    BY <1>8 DEF SwitchFamily, Change, Inv, PageTypeOK
  <2> QED
    BY <1>8, <2>1, InvRowsUnchanged DEF SwitchFamily
<1>9. ASSUME NEW u \in User, EditProfile(u) PROVE Inv'
  <2>1. PageTypeOK'
    BY <1>9 DEF EditProfile, Inv, PageTypeOK
  <2>2. RowsInv'
    BY <1>9, RowsInvWrite DEF EditProfile, Inv
  <2>3. \A q \in fetched' : Promised(q)'
    BY <1>9, PromisedUnchanged
       DEF EditProfile, WriteProfile, rowVars, Inv, PageTypeOK
  <2> QED
    BY <2>1, <2>2, <2>3 DEF Inv
<1>10. CASE UNCHANGED vars
  <2>1. PageTypeOK'
    BY <1>10 DEF vars, Inv, PageTypeOK
  <2> QED
    BY <1>10, <2>1, InvRowsUnchanged DEF vars
<1> QED
  BY <1>1, <1>2, <1>3, <1>4, <1>5, <1>6, <1>7, <1>8, <1>9, <1>10, <1>11
     DEF Next, Answers, Changes

\* The variables have their types.
THEOREM TypeCorrect == Spec => []TypeOK
<1>1. Inv => TypeOK
  BY DEF Inv, RowsInv, PageTypeOK, TypeOK
<1> QED
  BY InvInit, InvNext, <1>1, PTL DEF Spec

\* The table never reads beyond the list of users, nor the user of another
\* post, however the events of the listeners and the loads interleave.
THEOREM RowsAligned == Spec => []Aligned
<1>1. Inv => Aligned
  BY DEF Inv, RowsInv
<1> QED
  BY InvInit, InvNext, <1>1, PTL DEF Spec

\* A row is up to date, or an event on the way adds one that is, as long as a
\* listener of its post is alive.
THEOREM RowsLatest == Spec => []LatestShown
<1>1. Inv => LatestShown
  BY RowsInvLatest DEF Inv
<1> QED
  BY InvInit, InvNext, <1>1, PTL DEF Spec

\* A post that was answered since the last refresh is shown or about to be,
\* unless its listener failed before it reported the author.
THEOREM NoneDropped == Spec => []NothingDropped
<1>1. Inv => NothingDropped
  BY PromiseMeans DEF Inv, PageTypeOK, NothingDropped
<1> QED
  BY InvInit, InvNext, <1>1, PTL DEF Spec

-------------------------------------------------------------------------------
(* The first load, while nobody edits a profile *)

\* Nothing was fetched that is on show or may come to be.
NothingYet == /\ rows = <<>>
              /\ \A p \in Item : \A v \in Version : listening[p][v] = 0

NoQueries == \A f \in Family : queries[f] = 0

\* A post on show, or with a listener that has not reported.
Present(p) == Shown(p) \/ listening[p][0] > 0

\* There is one read, then one query, then one listener for each post of one
\* family; a listener that has reported has nothing new to report.
FirstLoad ==
  /\ loads = 0 => reads = 0 /\ NoQueries /\ NothingYet
  /\ reads \in {0, 1}
  /\ reads = 1 => NoQueries /\ NothingYet
  /\ \A f \in Family :
       queries[f] > 0 => /\ queries[f] = 1 /\ reads = 0 /\ NothingYet
                         /\ \A g \in Family : g # f => queries[g] = 0
  /\ \A p \in Item : /\ listening[p][0] \in {0, 1}
                     /\ \A v \in Version : v > 1 => listening[p][v] = 0
                     /\ listening[p][0] = 1 => ~Shown(p)
  /\ \A p, q \in Item : Present(p) /\ Present(q) => FamilyOf[p] = FamilyOf[q]
  /\ NoRepeats

\* The condition of CleanFirstLoad.
Early == loads <= 1 /\ \A u \in User : version[u] <= 1

FirstInv == Inv /\ (Early => FirstLoad)

LEMMA FirstInit == Init => FirstInv
<1> SUFFICES ASSUME Init PROVE FirstInv
  OBVIOUS
<1>1. Inv
  BY InvInit
<1>2. 0 \in Version
  BY MaxVersionAssumption DEF Version
<1>3. rows = <<>> /\ \A p \in Item, v \in Version : listening[p][v] = 0
  BY DEF Init, NoRows
<1>4. NothingYet /\ NoQueries /\ NoRepeats /\ \A p \in Item : ~Present(p)
  BY <1>2, <1>3 DEF Init, NothingYet, NoQueries, NoRepeats, Present, Shown
<1>5. FirstLoad
  BY <1>2, <1>3, <1>4 DEF Init, FirstLoad, NoQueries
<1> QED
  BY <1>1, <1>5 DEF FirstInv

\* Steps that touch neither the rows nor what will add to them.
LEMMA FirstUnchanged ==
  ASSUME FirstLoad,
         UNCHANGED <<rows, listening, loads, reads, queries>>
  PROVE  FirstLoad'
BY DEF FirstLoad, NothingYet, NoQueries, Present, Shown, NoRepeats, Version

LEMMA FirstNext == FirstInv /\ [Next]_vars => FirstInv'
<1> SUFFICES ASSUME Inv, Early => FirstLoad, [Next]_vars, Early' PROVE FirstLoad'
  BY InvNext DEF FirstInv
<1>0. /\ rows \in Seq(Item) /\ loads \in Nat /\ reads \in Nat
      /\ queries \in [Family -> Nat] /\ version \in [User -> Version]
      /\ listening \in [Item -> [Version -> Nat]] /\ 0 \in Version
      /\ \A v \in Version : v \in Nat
  BY MaxVersionAssumption, BoundsAssumption
     DEF Inv, RowsInv, RowsTypeOK, PageTypeOK, Version
<1>1. CASE Refresh
  <2>1. loads = 0 /\ loads' = 1
    BY <1>0, <1>1 DEF Refresh, Early
  <2>2. Early
    BY <1>1, <2>1 DEF Refresh, Early
  <2>3. reads = 0 /\ NoQueries /\ NothingYet
    BY <2>1, <2>2 DEF FirstLoad
  <2>4. reads' = 1 /\ rows' = <<>> /\ UNCHANGED <<listening, queries>>
    BY <1>1, <2>3 DEF Refresh, ClearRows
  <2>5. NoQueries' /\ NothingYet' /\ NoRepeats' /\ \A p \in Item : ~Present(p)'
    BY <1>0, <2>3, <2>4
       DEF NothingYet, NoQueries, NoRepeats, Present, Shown, Version
  <2> QED
    BY <1>0, <2>1, <2>3, <2>4, <2>5 DEF FirstLoad, NoQueries, NothingYet
<1>2. CASE UserRead
  <2>1. Early /\ UNCHANGED <<rows, listening, loads>>
    BY <1>2 DEF UserRead, Early, rowVars
  <2>2. reads = 1 /\ reads' = 0 /\ NoQueries /\ NothingYet
    BY <1>0, <1>2, <2>1 DEF UserRead, FirstLoad
  <2>3. queries' = [queries EXCEPT ![current] = @ + 1] /\ current \in Family
    BY <1>2 DEF UserRead, Inv, PageTypeOK
  <2>4. NothingYet'
    BY <2>1, <2>2 DEF NothingYet, Version
  <2>5. \A f \in Family : queries'[f] = IF f = current THEN 1 ELSE 0
    BY <1>0, <2>2, <2>3 DEF NoQueries
  <2>6. loads # 0
    BY <2>1, <2>2 DEF FirstLoad
  <2>7. UNCHANGED <<rows, listening>> /\ FirstLoad
    BY <2>1
  <2>8. /\ \A p \in Item : Shown(p)' = Shown(p) /\ Present(p)' = Present(p)
        /\ NoRepeats' = NoRepeats
    BY <2>7 DEF Shown, Present, NoRepeats
  <2>9. /\ \A p \in Item : /\ listening'[p][0] \in {0, 1}
                           /\ \A v \in Version' : v > 1 => listening'[p][v] = 0
                           /\ listening'[p][0] = 1 => ~Shown(p)'
        /\ \A p, q \in Item : Present(p)' /\ Present(q)' => FamilyOf[p] = FamilyOf[q]
        /\ NoRepeats'
    BY <2>7, <2>8 DEF FirstLoad, Version
  <2> QED
    BY <2>1, <2>2, <2>4, <2>5, <2>6, <2>9 DEF FirstLoad
<1>3. CASE UserNotRead
  <2>1. Early /\ UNCHANGED <<rows, listening, loads, queries>> /\ reads' = reads - 1
    BY <1>3 DEF UserNotRead, Early, rowVars
  <2>2. reads = 1 /\ reads' = 0 /\ NoQueries /\ NothingYet /\ FirstLoad
    BY <1>0, <1>3, <2>1 DEF UserNotRead, FirstLoad
  <2>3. NoQueries' /\ NothingYet'
    BY <2>1, <2>2 DEF NoQueries, NothingYet, Version
  <2>8. /\ \A p \in Item : Shown(p)' = Shown(p) /\ Present(p)' = Present(p)
        /\ NoRepeats' = NoRepeats
    BY <2>1 DEF Shown, Present, NoRepeats
  <2>9. /\ \A p \in Item : /\ listening'[p][0] \in {0, 1}
                           /\ \A v \in Version' : v > 1 => listening'[p][v] = 0
                           /\ listening'[p][0] = 1 => ~Shown(p)'
        /\ \A p, q \in Item : Present(p)' /\ Present(q)' => FamilyOf[p] = FamilyOf[q]
        /\ NoRepeats'
    BY <2>1, <2>2, <2>8 DEF FirstLoad, Version
  <2>10. \A f \in Family : queries'[f] = 0
    BY <2>3 DEF NoQueries
  <2> QED
    BY <2>1, <2>2, <2>3, <2>9, <2>10 DEF FirstLoad
<1>4. ASSUME NEW f \in Family, PostsRead(f) PROVE FirstLoad'
  <2>1. Early /\ FirstLoad /\ UNCHANGED <<rows, loads, reads>>
    BY <1>4 DEF PostsRead, Early
  <2>2. queries[f] = 1 /\ reads = 0 /\ NothingYet /\ loads # 0
    BY <1>0, <1>4, <2>1 DEF PostsRead, FirstLoad, NoQueries
  <2>3. queries' = [queries EXCEPT ![f] = @ - 1]
    BY <1>4 DEF PostsRead
  <2>4. \A g \in Family : queries'[g] = 0
    <3>1. \A g \in Family : g # f => queries[g] = 0
      BY <2>1, <2>2 DEF FirstLoad
    <3> QED
      BY <1>0, <2>2, <2>3, <3>1
  <2>5. \A p \in Item, v \in Version :
          listening'[p][v] = IF p \in PostsOf(f) /\ v = 0 THEN 1 ELSE 0
    <3>1. listening' = [p \in Item |-> IF p \in PostsOf(f)
                                       THEN [listening[p] EXCEPT ![0] = @ + 1]
                                       ELSE listening[p]]
      BY <1>4 DEF PostsRead, ListeningTo
    <3>2. \A p \in Item, v \in Version : listening[p][v] = 0
      BY <2>2 DEF NothingYet
    <3> HIDE DEF PostsOf
    <3> QED
      BY <1>0, <3>1, <3>2
  <2>6. rows' = <<>>
    BY <2>1, <2>2 DEF NothingYet
  <2>7. \A p \in Item : ~Shown(p)' /\ (Present(p)' => p \in PostsOf(f))
    BY <1>0, <2>5, <2>6 DEF Shown, Present
  <2>8. NoRepeats'
    BY <2>6 DEF NoRepeats
  <2>9. NoQueries'
    BY <2>4 DEF NoQueries
  <2>10. \A p \in Item : p \in PostsOf(f) => FamilyOf[p] = f
    BY DEF PostsOf
  <2> QED
    BY <1>0, <2>1, <2>2, <2>4, <2>5, <2>7, <2>8, <2>9, <2>10
       DEF FirstLoad, Version
<1>5. ASSUME NEW f \in Family, PostsNotRead(f) PROVE FirstLoad'
  <2>1. Early /\ FirstLoad /\ UNCHANGED <<rows, listening, loads, reads>>
    BY <1>5 DEF PostsNotRead, Early, rowVars
  <2>2. queries[f] = 1 /\ reads = 0 /\ loads # 0
    BY <1>0, <1>5, <2>1 DEF PostsNotRead, FirstLoad, NoQueries
  <2>3. queries' = [queries EXCEPT ![f] = @ - 1]
    BY <1>5 DEF PostsNotRead
  <2>4. \A g \in Family : queries'[g] = 0
    <3>1. \A g \in Family : g # f => queries[g] = 0
      BY <2>1, <2>2 DEF FirstLoad
    <3> QED
      BY <1>0, <2>2, <2>3, <3>1
  <2>8. /\ \A p \in Item : Shown(p)' = Shown(p) /\ Present(p)' = Present(p)
        /\ NoRepeats' = NoRepeats
    BY <2>1 DEF Shown, Present, NoRepeats
  <2>9. /\ \A p \in Item : /\ listening'[p][0] \in {0, 1}
                           /\ \A v \in Version' : v > 1 => listening'[p][v] = 0
                           /\ listening'[p][0] = 1 => ~Shown(p)'
        /\ \A p, q \in Item : Present(p)' /\ Present(q)' => FamilyOf[p] = FamilyOf[q]
        /\ NoRepeats'
    BY <2>1, <2>8 DEF FirstLoad, Version
  <2> QED
    BY <2>1, <2>2, <2>4, <2>9 DEF FirstLoad
<1>6. ASSUME NEW p \in Item, NEW v \in Version, AuthorReported(p, v) PROVE FirstLoad'
  <2>1. Early /\ FirstLoad /\ UNCHANGED <<loads, reads, queries, version>>
    BY <1>6 DEF AuthorReported, Early, pageVars
  <2>2. listening[p][v] > 0 /\ version[Author[p]] \notin {0, v}
    BY <1>6 DEF AuthorReported, Report, Reportable
  <2>3. version[Author[p]] = 1 /\ 1 \in Version
    BY <1>0, <2>1, <2>2, AuthorAssumption DEF Early, Version
  <2>4. v = 0
    <3>1. v > 1 => listening[p][v] = 0
      BY <2>1 DEF FirstLoad
    <3>2. v \in Nat /\ v # 1
      BY <1>0, <2>2, <2>3
    <3>3. ~(listening[p][v] = 0)
      BY <2>2
    <3> QED
      BY <3>1, <3>2, <3>3
  <2>5. listening[p][0] = 1 /\ ~Shown(p) /\ Present(p)
    <3>1. listening[p][0] > 0 /\ listening[p][0] \in {0, 1}
      BY <2>1, <2>2, <2>4 DEF FirstLoad
    <3>2. listening[p][0] = 1
      BY <3>1
    <3> QED
      BY <2>1, <3>1, <3>2 DEF FirstLoad, Present
  <2>6. reads = 0 /\ loads # 0 /\ \A f \in Family : queries[f] = 0
    BY <1>0, <2>1, <2>5 DEF FirstLoad, NothingYet
  <2>7. rows' = Append(rows, p)
    BY <1>6 DEF AuthorReported, Report
  <2>8. \A q \in Item, w \in Version :
          listening'[q][w] = IF q = p /\ w = 0 THEN 0
                             ELSE IF q = p /\ w = 1 THEN listening[p][1] + 1
                             ELSE listening[q][w]
    <3>1. listening' = [listening EXCEPT ![p][0] = @ - 1, ![p][1] = @ + 1]
      BY <1>6, <2>3, <2>4 DEF AuthorReported, Report, Reported
    <3> QED
      BY <1>0, <2>3, <2>5, <3>1
  <2>9. \A k \in DOMAIN rows' : \/ k \in DOMAIN rows /\ rows'[k] = rows[k]
                                \/ k = Len(rows) + 1 /\ rows'[k] = p
    BY <1>0, <2>7
  <2>10. \A k \in DOMAIN rows : rows[k] # p
    BY <2>5 DEF Shown
  <2>11. NoRepeats'
    BY <2>1, <2>9, <2>10 DEF FirstLoad, NoRepeats
  <2>12. \A q \in Item : Shown(q)' => q = p \/ Shown(q)
    BY <2>9 DEF Shown
  <2>13. \A q \in Item : Present(q)' => Present(q)
    BY <1>0, <2>5, <2>8, <2>12 DEF Present
  <2>14. \A q, r \in Item : Present(q)' /\ Present(r)' => FamilyOf[q] = FamilyOf[r]
    BY <2>1, <2>13 DEF FirstLoad
  <2>15. \A q \in Item : /\ listening'[q][0] \in {0, 1}
                         /\ \A w \in Version : w > 1 => listening'[q][w] = 0
                         /\ listening'[q][0] = 1 => ~Shown(q)'
    BY <1>0, <2>1, <2>8, <2>12 DEF FirstLoad
  <2>16. reads' = 0 /\ loads' # 0 /\ \A f \in Family : queries'[f] = 0
    BY <2>1, <2>6
  <2> QED
    BY <2>11, <2>14, <2>15, <2>16 DEF FirstLoad, Version
<1>9. ASSUME NEW p \in Item, NEW v \in Version, AuthorLost(p, v) PROVE FirstLoad'
  <2>1. Early /\ FirstLoad /\ UNCHANGED <<rows, loads, reads, queries, version>>
    BY <1>9 DEF AuthorLost, ListenerFails, Early, pageVars
  <2>2. listening[p][v] > 0 /\ listening' = [listening EXCEPT ![p][v] = @ - 1]
    BY <1>9 DEF AuthorLost, ListenerFails
  <2>3. \A q \in Item, w \in Version :
          listening'[q][w] = IF q = p /\ w = v THEN listening[p][v] - 1
                             ELSE listening[q][w]
    BY <1>0, <2>2
  <2>4. reads = 0 /\ loads # 0 /\ \A f \in Family : queries[f] = 0
    BY <1>0, <2>1, <2>2 DEF FirstLoad, NothingYet
  <2>5. \A q \in Item : Shown(q)' = Shown(q)
    BY <2>1 DEF Shown
  <2>6. \A q \in Item : Present(q)' => Present(q)
    BY <1>0, <2>2, <2>3, <2>5 DEF Present
  <2>7. \A q, r \in Item : Present(q)' /\ Present(r)' => FamilyOf[q] = FamilyOf[r]
    BY <2>1, <2>6 DEF FirstLoad
  <2>8. \A q \in Item : /\ listening'[q][0] \in {0, 1}
                        /\ \A w \in Version : w > 1 => listening'[q][w] = 0
                        /\ listening'[q][0] = 1 => ~Shown(q)'
    <3> TAKE q \in Item
    <3>1. /\ listening[q][0] \in {0, 1}
          /\ \A w \in Version : w > 1 => listening[q][w] = 0
          /\ listening[q][0] = 1 => ~Shown(q)
      BY <2>1 DEF FirstLoad
    <3> QED
      BY <1>0, <2>2, <2>3, <2>5, <3>1
  <2>9. NoRepeats'
    BY <2>1 DEF FirstLoad, NoRepeats
  <2> QED
    BY <2>1, <2>4, <2>7, <2>8, <2>9 DEF FirstLoad, Version
<1>7. CASE \/ \E p \in Item : AddPost(p) \/ DeletePost(p)
           \/ \E f \in Family : SwitchFamily(f)
           \/ UNCHANGED vars
  <2>1. UNCHANGED <<version, rows, listening, loads, reads, queries>>
    BY <1>7 DEF AddPost, DeletePost, SwitchFamily, vars, rowVars, pageVars
  <2> QED
    BY <2>1, FirstUnchanged DEF Early
<1>8. ASSUME NEW u \in User, EditProfile(u) PROVE FirstLoad'
  <2>1. UNCHANGED <<rows, listening, loads, reads, queries>>
    BY <1>8 DEF EditProfile, WriteProfile, rowVars, pageVars
  <2>2. \A w \in User : version[w] <= version'[w] /\ version'[w] \in Nat
    BY <1>0, <1>8 DEF EditProfile, WriteProfile
  <2>3. Early
    <3>1. \A w \in User : version[w] <= 1
      <4> TAKE w \in User
      <4>1. version'[w] <= 1 /\ version[w] \in Nat
        BY <1>0 DEF Early, Version
      <4> QED
        BY <2>2, <4>1
    <3> QED
      BY <2>1, <3>1 DEF Early
  <2> QED
    BY <2>1, <2>3, FirstUnchanged
<1> QED
  BY <1>1, <1>2, <1>3, <1>4, <1>5, <1>6, <1>7, <1>8, <1>9
     DEF Next, Answers, Changes

\* The first load of a page repeats no row and mixes no families, until a
\* profile is edited, whatever is posted, deleted or switched meanwhile.
THEOREM FirstLoadClean == Spec => []CleanFirstLoad
<1>1. FirstInv => CleanFirstLoad
  <2> SUFFICES ASSUME FirstInv, Early PROVE NoRepeats /\ OneFamily
    BY DEF CleanFirstLoad, Early
  <2>1. FirstLoad /\ rows \in Seq(Item)
    BY DEF FirstInv, Inv, RowsInv, RowsTypeOK
  <2>2. \A k \in DOMAIN rows : rows[k] \in Item /\ Present(rows[k])
    BY <2>1 DEF Present, Shown
  <2> QED
    BY <2>1, <2>2 DEF FirstLoad, OneFamily
<1> QED
  BY FirstInit, FirstNext, <1>1, PTL DEF Spec

-------------------------------------------------------------------------------
(* The labels: the chain of assignments to timeText *)

\* The label of a post or a comment is its age in the largest unit, rounded
\* down, and it is never empty (updateView).
LEMMA TimeTextRight == \A a \in Int : TimeText(a) = LargestUnit(a)
  BY DEF TimeText, LargestUnit, Parts, Minute, Hour, Day, Week, Text, Now, Empty

\* LargestUnit in seconds: rounding an age down never moves it past a later age.
LEMMA Rounded ==
  ASSUME NEW a \in Int
  PROVE  Seconds(LargestUnit(a)) =
           IF a <= 0 THEN 0
           ELSE IF a < Minute THEN a
           ELSE IF a < Hour THEN (a \div Minute) * Minute
           ELSE IF a < Day THEN (a \div Hour) * Hour
           ELSE IF a < Week THEN (a \div Day) * Day
           ELSE (a \div Week) * Week
  BY DEF Seconds, LargestUnit, Text, Now

\* A cell shown again later does not claim to be younger than before.
LEMMA NeverYounger ==
  ASSUME NEW a \in Int, NEW b \in Int, a <= b
  PROVE  Seconds(TimeText(a)) <= Seconds(TimeText(b))
<1>1. /\ TimeText(a) = LargestUnit(a)
      /\ TimeText(b) = LargestUnit(b)
  BY TimeTextRight
<1>2. Seconds(LargestUnit(a)) <= Seconds(LargestUnit(b))
  BY Rounded DEF Minute, Hour, Day, Week
<1> QED
  BY <1>1, <1>2

\* A row is never labelled wrong: the last of the six assignments that holds is
\* the right one at every age, and an older post never claims to be younger.
THEOREM LabelsAlwaysRight == Spec => []RowsLabelled
<1>1. LabelsRight
  BY AgeAssumption, TimeTextRight, NeverYounger DEF LabelsRight
<1>2. Inv => RowsLabelled
  BY <1>1 DEF RowsLabelled
<1> QED
  BY InvInit, InvNext, <1>2, PTL DEF Spec
===============================================================================
