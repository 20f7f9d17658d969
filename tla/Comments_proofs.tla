----------------------------- MODULE Comments_proofs ----------------------------
(***************************************************************************)
(* What the page with the comments promises for every number of users and  *)
(* comments: its lists stay aligned, its table disagrees with them only    *)
(* until a load that is on its way has brought the comments back, and a    *)
(* comment that was sent is on its way to be shown.                        *)
(***************************************************************************)
EXTENDS Comments, AuthoredRows_proofs

PageTypeOK == /\ stored \in SUBSET Item
              /\ outbox \in Seq(Item)
              /\ refused \in SUBSET Item
              /\ sent \in SUBSET Item
              /\ reads \in Nat
              /\ queries \in Nat
              /\ failed \in BOOLEAN
              /\ tableRows \in Nat

\* A comment that is in the thread, or waits to be, is promised a row, unless
\* a load that will see it is under way, or a load failed.
Remembered(c) ==
  c \in stored \cup Pending =>
    Promised(c) \/ reads + queries > 0 \/ failed

\* A comment that was sent is stored, or waits to be, or was refused.
Kept == sent \subseteq stored \cup Pending \cup refused

\* Nothing is queried before the document of the user was read.
Documented ==
  (queries > 0 \/ \E c \in Item : Heard(c)) => version[Me] > 0

\* Only a send empties the lists under the table.
Window == tableRows = Len(rows) \/ (rows = <<>> /\ sent # {})

Inv == /\ RowsInv
       /\ PageTypeOK
       /\ \A c \in sent : Author[c] = Me /\ Remembered(c)
       /\ Kept
       /\ Documented
       /\ Window

LEMMA InvInit == Init => Inv
<1> SUFFICES ASSUME Init PROVE Inv
  OBVIOUS
<1>1. RowsInv
  BY RowsInvNone DEF Init
<1>2. outbox \in Seq(Item)
  BY DEF Init
<1>3. PageTypeOK
  BY <1>2 DEF Init, PageTypeOK
<1>4. Kept /\ Documented /\ Window
  BY DEF Init, NoRows, Window, Kept, Documented, Heard
<1> QED
  BY <1>1, <1>3, <1>4 DEF Inv, Init

LEMMA KeptNext == Inv /\ [Next]_vars => Kept'
<1> SUFFICES ASSUME Inv, [Next]_vars PROVE Kept'
  OBVIOUS
<1> USE DEF Inv, PageTypeOK, Kept, pageVars, storeVars
<1>1. ASSUME NEW c \in Item, SendComment(c) PROVE Kept'
  <2>1. /\ outbox' = Append(outbox, c) /\ sent' = sent \cup {c}
        /\ UNCHANGED <<stored, refused>>
    BY <1>1 DEF SendComment
  <2>2. Pending' = Pending \cup {c}
    BY <2>1 DEF Pending
  <2> QED
    BY <2>1, <2>2
<1>2. CASE Accept \/ Refuse
  <2>1. Pending = {Head(outbox)} \cup Pending' /\ sent' = sent
    <3>1. outbox \in Seq(Item) /\ outbox # <<>> /\ outbox' = Tail(outbox)
      BY <1>2 DEF Accept, Refuse
    <3>2. /\ Len(outbox) \in Nat /\ Len(outbox) > 0
          /\ DOMAIN outbox = 1..Len(outbox)
          /\ DOMAIN outbox' = 1..(Len(outbox) - 1)
          /\ Head(outbox) = outbox[1]
          /\ \A k \in 1..(Len(outbox) - 1) : outbox'[k] = outbox[k + 1]
      BY <3>1
    <3>3. \A k \in DOMAIN outbox :
            k = 1 \/ (k - 1 \in DOMAIN outbox' /\ outbox'[k - 1] = outbox[k])
      BY <3>2
    <3>4. \A k \in DOMAIN outbox' : k + 1 \in DOMAIN outbox
      BY <3>2
    <3> QED
      BY <1>2, <3>2, <3>3, <3>4 DEF Accept, Refuse, Pending
  <2> QED
    BY <1>2, <2>1 DEF Accept, Refuse
<1>3. ASSUME NEW c \in Item, OthersComment(c) PROVE Kept'
  BY <1>3 DEF OthersComment, Pending
<1>4. CASE UNCHANGED <<sent, storeVars>>
  BY <1>4 DEF Pending
<1> QED
  BY <1>1, <1>2, <1>3, <1>4
     DEF Next, UserRead, UserNotRead, CommentsRead, CommentsNotRead,
         AuthorReported, AuthorLost, EditProfile, vars

LEMMA DocumentedNext == Inv /\ [Next]_vars => Documented'
<1> SUFFICES ASSUME Inv, [Next]_vars PROVE Documented'
  OBVIOUS
<1> USE MeAssumption, AuthorAssumption, MaxVersionAssumption
    DEF Inv, PageTypeOK, RowsInv, RowsTypeOK, Documented, Version, pageVars,
        storeVars, rowVars
<1>1. CASE UserRead
  BY <1>1 DEF UserRead
<1>2. CASE CommentsRead
  BY <1>2 DEF CommentsRead
<1>3. ASSUME NEW c \in Item, NEW v \in Version, AuthorReported(c, v) PROVE Documented'
  <2>1. Heard(c) /\ UNCHANGED <<version, queries>>
    BY <1>3 DEF AuthorReported, Report, Reportable, Heard
  <2> QED
    BY <2>1
<1>4. ASSUME NEW c \in Item, NEW v \in Version, AuthorLost(c, v) PROVE Documented'
  <2>1. Heard(c) /\ UNCHANGED <<version, queries>>
    BY <1>4 DEF AuthorLost, ListenerFails, Heard
  <2> QED
    BY <2>1
<1>5. ASSUME NEW u \in User, EditProfile(u) PROVE Documented'
  <2>1. /\ version[Me] > 0 => version'[Me] > 0
        /\ UNCHANGED <<listening, queries>>
    BY <1>5 DEF EditProfile, WriteProfile
  <2> QED
    BY <2>1 DEF Heard
<1>6. CASE \/ UNCHANGED <<version, queries, listening>>
           \/ CommentsNotRead
  <2>1. /\ UNCHANGED <<version, listening>>
        /\ queries' > 0 => queries > 0
    BY <1>6 DEF CommentsNotRead
  <2> QED
    BY <2>1 DEF Heard
<1> QED
  BY <1>1, <1>2, <1>3, <1>4, <1>5, <1>6
     DEF Next, SendComment, UserNotRead, Accept, Refuse, OthersComment, vars

LEMMA InvNext == Inv /\ [Next]_vars => Inv'
<1> SUFFICES ASSUME Inv, [Next]_vars PROVE Inv'
  OBVIOUS
<1> DEFINE Rest == (\A c \in sent : Author[c] = Me /\ Remembered(c))'
<1> USE DEF pageVars, storeVars
<1>0. Kept' /\ Documented'
  BY KeptNext, DocumentedNext
<1> USE <1>0
<1>1. ASSUME NEW c \in Item, SendComment(c) PROVE Inv'
  <2>5. outbox' \in Seq(Item)
    BY <1>1 DEF SendComment, Inv, PageTypeOK
  <2>6. reads' \in Nat
    BY <1>1 DEF SendComment, Inv, PageTypeOK
  <2>7. failed' = FALSE /\ sent' = sent \cup {c}
    BY <1>1 DEF SendComment
  <2>8. UNCHANGED <<stored, refused, queries, tableRows>>
    BY <1>1 DEF SendComment
  <2>1. PageTypeOK'
    BY <2>5, <2>6, <2>7, <2>8 DEF Inv, PageTypeOK
  <2>2. RowsInv'
    BY <1>1, RowsInvClear DEF SendComment, Inv
  <2>3. Rest
    BY <1>1, <2>1 DEF SendComment, Inv, PageTypeOK, Remembered
  <2>4. rows' = <<>>
    BY <1>1 DEF SendComment, ClearRows
  <2> QED
    BY <2>1, <2>2, <2>3, <2>4, <2>7 DEF Inv, Window
<1>2. CASE UserRead
  <2>1. PageTypeOK'
    BY <1>2 DEF UserRead, Inv, PageTypeOK
  <2>2. RowsInv'
    BY <1>2, RowsInvUnchanged DEF UserRead, Inv
  <2>3. Rest
    BY <1>2, <2>1 DEF UserRead, Inv, PageTypeOK, Remembered
  <2> QED
    BY <1>2, <2>1, <2>2, <2>3 DEF UserRead, Inv, Window, rowVars
<1>3. CASE UserNotRead
  <2>1. PageTypeOK'
    BY <1>3 DEF UserNotRead, Inv, PageTypeOK
  <2>2. RowsInv'
    BY <1>3, RowsInvUnchanged DEF UserNotRead, Inv
  <2>3. Rest
    BY <1>3 DEF UserNotRead, Inv, Remembered
  <2> QED
    BY <1>3, <2>1, <2>2, <2>3 DEF UserNotRead, Inv, Window, rowVars
<1>4. CASE CommentsRead
  <2>1. stored \cup Pending \in SUBSET Item
    BY DEF Inv, PageTypeOK, Pending
  <2>2. PageTypeOK'
    BY <1>4 DEF CommentsRead, Inv, PageTypeOK
  <2>3. RowsInv'
    BY <1>4, <2>1, RowsInvListen DEF CommentsRead, Inv
  <2>4. ASSUME NEW c \in sent', c \in (stored \cup Pending)' PROVE Promised(c)'
    <3>1. c \in stored \cup Pending /\ c \in Item
      BY <1>4, <2>1, <2>4 DEF CommentsRead, Pending
    <3> QED
      BY <1>4, <2>1, <3>1, PromisedListen DEF CommentsRead, Inv
  <2>5. Rest
    BY <1>4, <2>4 DEF CommentsRead, Inv, Remembered
  <2> QED
    BY <1>4, <2>2, <2>3, <2>5 DEF CommentsRead, Inv, Window
<1>5. CASE CommentsNotRead
  <2>1. PageTypeOK'
    BY <1>5 DEF CommentsNotRead, Inv, PageTypeOK
  <2>2. RowsInv'
    BY <1>5, RowsInvUnchanged DEF CommentsNotRead, Inv
  <2>3. Rest
    BY <1>5 DEF CommentsNotRead, Inv, Remembered
  <2> QED
    BY <1>5, <2>1, <2>2, <2>3 DEF CommentsNotRead, Inv, Window, rowVars
<1>6. ASSUME NEW c \in Item, NEW v \in Version, AuthorReported(c, v) PROVE Inv'
  <2>1. RowsInv'
    BY <1>6, RowsInvReport DEF AuthorReported, ReloadData, Inv
  <2>2. Len(rows') \in Nat
    BY <2>1 DEF RowsInv, RowsTypeOK
  <2>3. PageTypeOK'
    BY <1>6, <2>2 DEF AuthorReported, ReloadData, Inv, PageTypeOK
  <2>4. \A d \in Item : Promised(d) => Promised(d)'
    BY <1>6, PromisedReport DEF AuthorReported, Inv
  <2>5. Rest
    BY <1>6, <2>4 DEF AuthorReported, ReloadData, Inv, PageTypeOK, Remembered, Pending
  <2> QED
    BY <1>6, <2>1, <2>3, <2>5 DEF AuthorReported, ReloadData, Inv, Window
<1>12. ASSUME NEW c \in Item, NEW v \in Version, AuthorLost(c, v) PROVE Inv'
  <2>1. RowsInv'
    BY <1>12, RowsInvFails DEF AuthorLost, Inv
  <2>2. PageTypeOK'
    BY <1>12 DEF AuthorLost, Inv, PageTypeOK
  <2>3. \A d \in Item : Promised(d) => Promised(d)'
    BY <1>12, PromisedFails DEF AuthorLost, Inv
  <2>4. Rest
    BY <1>12, <2>3 DEF AuthorLost, Inv, PageTypeOK, Remembered, Pending
  <2> QED
    BY <1>12, <2>1, <2>2, <2>4 DEF AuthorLost, ListenerFails, Inv, Window
<1>7. CASE Accept
  <2>1. /\ Head(outbox) \in Pending
        /\ Head(outbox) \in Item
        /\ Tail(outbox) \in Seq(Item)
        /\ (stored \cup Pending)' \subseteq stored \cup Pending
    BY <1>7 DEF Accept, Inv, PageTypeOK, Pending
  <2>2. PageTypeOK'
    BY <1>7, <2>1 DEF Accept, Inv, PageTypeOK
  <2>3. RowsInv'
    BY <1>7, RowsInvUnchanged DEF Accept, Inv
  <2>4. \A d \in Item : Promised(d) => Promised(d)'
    BY <1>7, PromisedUnchanged DEF Accept, rowVars
  <2>5. Rest
    BY <1>7, <2>1, <2>4 DEF Accept, Inv, PageTypeOK, Remembered
  <2> QED
    BY <1>7, <2>2, <2>3, <2>5 DEF Accept, Inv, Window, rowVars
<1>8. CASE Refuse
  <2>1. /\ Head(outbox) \in Item
        /\ Tail(outbox) \in Seq(Item)
        /\ (stored \cup Pending)' \subseteq stored \cup Pending
    BY <1>8 DEF Refuse, Inv, PageTypeOK, Pending
  <2>2. PageTypeOK'
    BY <1>8, <2>1 DEF Refuse, Inv, PageTypeOK
  <2>3. RowsInv'
    BY <1>8, RowsInvUnchanged DEF Refuse, Inv
  <2>4. \A d \in Item : Promised(d) => Promised(d)'
    BY <1>8, PromisedUnchanged DEF Refuse, rowVars
  <2>5. Rest
    BY <1>8, <2>1, <2>4 DEF Refuse, Inv, PageTypeOK, Remembered
  <2> QED
    BY <1>8, <2>2, <2>3, <2>5 DEF Refuse, Inv, Window, rowVars
<1>9. ASSUME NEW c \in Item, OthersComment(c) PROVE Inv'
  <2>1. PageTypeOK'
    BY <1>9 DEF OthersComment, Inv, PageTypeOK
  <2>2. RowsInv'
    BY <1>9, RowsInvUnchanged DEF OthersComment, Inv
  <2>3. \A d \in Item : Promised(d) => Promised(d)'
    BY <1>9, PromisedUnchanged DEF OthersComment, rowVars
  <2>4. Rest
    BY <1>9, <2>3 DEF OthersComment, Inv, PageTypeOK, Remembered, Pending
  <2> QED
    BY <1>9, <2>1, <2>2, <2>4 DEF OthersComment, Inv, Window, rowVars
<1>10. ASSUME NEW u \in User, EditProfile(u) PROVE Inv'
  <2>1. PageTypeOK'
    BY <1>10 DEF EditProfile, Inv, PageTypeOK
  <2>2. RowsInv'
    BY <1>10, RowsInvWrite DEF EditProfile, Inv
  <2>3. \A d \in Item : Promised(d) => Promised(d)'
    BY <1>10, PromisedUnchanged DEF EditProfile, WriteProfile, rowVars
  <2>4. Rest
    BY <1>10, <2>3 DEF EditProfile, Inv, PageTypeOK, Remembered, Pending
  <2> QED
    BY <1>10, <2>1, <2>2, <2>4
       DEF EditProfile, WriteProfile, Inv, Window, rowVars
<1>11. CASE UNCHANGED vars
  <2>1. PageTypeOK'
    BY <1>11 DEF vars, Inv, PageTypeOK
  <2>2. RowsInv'
    BY <1>11, RowsInvUnchanged DEF vars, Inv
  <2>3. \A d \in Item : Promised(d) => Promised(d)'
    BY <1>11, PromisedUnchanged DEF vars, rowVars
  <2>4. Rest
    BY <1>11, <2>3 DEF vars, Inv, PageTypeOK, Remembered, Pending
  <2> QED
    BY <1>11, <2>1, <2>2, <2>4 DEF vars, Inv, Window, rowVars
<1> QED
  BY <1>1, <1>2, <1>3, <1>4, <1>5, <1>6, <1>7, <1>8, <1>9, <1>10, <1>11,
     <1>12
     DEF Next

\* The table never reads a user beyond the end of the list of users, nor the
\* user of another comment.
THEOREM CommentsAligned == Spec => []Aligned
<1>1. Inv => Aligned
  BY DEF Inv, RowsInv
<1> QED
  BY InvInit, InvNext, <1>1, PTL DEF Spec

\* What the invariant says of a comment that was sent and not refused.
LEMMA InvSent == Inv => SentNotForgotten
<1> SUFFICES ASSUME Inv, NEW c \in sent \cap (stored \cup Pending),
                    ~Shown(c), ~(reads + queries > 0), ~failed, c \notin lost
             PROVE  \E v \in Version : Reportable(c, v)
  BY DEF SentNotForgotten
<1>1. c \in Item /\ Author[c] = Me /\ Promised(c)
  BY DEF Inv, Remembered, PageTypeOK
<1>2. listening[c][0] > 0 /\ 0 \in Version
  BY <1>1, MaxVersionAssumption DEF Promised, Version
<1>3. version[Me] > 0
  BY <1>1, <1>2 DEF Inv, Documented, Heard
<1> QED
  BY <1>1, <1>2, <1>3 DEF Reportable

\* A comment that was sent is shown or about to be, whatever overtakes it,
\* unless a read or its listener failed.
THEOREM CommentsNotForgotten == Spec => []SentNotForgotten
BY InvInit, InvNext, InvSent, PTL DEF Spec

\* Only an empty list differs from the rows of the table, and only until a load
\* that is on its way fills it, unless that load failed.
THEOREM TableAlwaysFollows == Spec => []TableFollows
<1>1. Inv => TableFollows
  <2> SUFFICES ASSUME Inv, tableRows # Len(rows) PROVE TableFollows
    BY DEF TableFollows
  <2>1. rows = <<>> /\ sent # {} /\ \A c \in Item : ~Shown(c)
    BY DEF Inv, Window, Shown
  <2>2. CASE sent \subseteq refused
    BY <2>1, <2>2 DEF TableFollows
  <2>3. CASE ~(sent \subseteq refused)
    <3>1. PICK c \in sent : c \notin refused
      BY <2>3
    <3>2. c \in sent \cap (stored \cup Pending) /\ c \in Item
      BY <3>1 DEF Inv, Kept, PageTypeOK
    <3> QED
      BY <2>1, <3>2, InvSent DEF SentNotForgotten, TableFollows
  <2> QED
    BY <2>2, <2>3
<1> QED
  BY InvInit, InvNext, <1>1, PTL DEF Spec
===============================================================================
