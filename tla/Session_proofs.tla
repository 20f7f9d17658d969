----------------------------- MODULE Session_proofs -----------------------------
(***************************************************************************)
(* What Session promises for every set of accounts and any number of       *)
(* operations under way: the pages that unwrap the current user are on top *)
(* only when there is one, whoever the timeline has checked has a family   *)
(* or no document, and no account loses its family.  Inv adds to these     *)
(* what they rest on: where an operation may still present a page, what    *)
(* lies under the page on top, and that a document that waits to be        *)
(* written has no predecessor.                                             *)
(*                                                                         *)
(* PanelInv, which rests on Inv, is about waiting: that a write somebody   *)
(* waits for is still to be answered, that a panel which blocks has what   *)
(* will take it away, and which pages may lie under which.                 *)
(***************************************************************************)
EXTENDS Session, TLAPS

\* The pages that unwrap the current user.
Inside == {"family", "main", "profile", "edit"}

\* An operation has an account, and presents a page only from the page it began
\* on.
OperationsFit(o) ==
  \A t \in Task :
    /\ o[t].stage \notin {"idle", "resetting"} => o[t].account \in Account
    /\ o[t].stage \in {"uploading", "saved"} => o[t].page \in {"edit", "gone"}
    /\ o[t].stage = "querying" /\ o[t].page # "gone" => signedIn # Nobody

OperationInv == OperationsFit(op)

\* Somebody is signed in where the current user is unwrapped, and wherever the
\* program may still go there.
SignedInInv ==
  /\ \A q \in below \cup {page} : q \in Inside => signedIn # Nobody
  /\ check \in {"asked", "done"} => asker # Nobody
  /\ check = "asked" => signedIn # Nobody
  /\ signedIn \in registered \cup {Nobody}
  /\ asker \in registered \cup {Nobody}

\* Documents belong to accounts; one that is not written yet is the first.
DocumentInv ==
  /\ \A a \in Account : doc[a] # "none" => a \in registered
  /\ \A a \in unwritten : a \in registered /\ doc[a] = "none"

CheckedInv == check = "done" => SeenDoc(asker) \in {"none", "family"}

Inv == TypeOK /\ OperationInv /\ SignedInInv /\ DocumentInv /\ CheckedInv

LEMMA InvInit == Init => Inv
<1> SUFFICES ASSUME Init PROVE Inv
  OBVIOUS
<1>1. Idle \in Operation
  BY DEF Idle, Operation, Stage
<1>2. NoPanel \in Panel
  BY DEF NoPanel, Panel
<1>3. TypeOK
  BY <1>1, <1>2 DEF Init, TypeOK, Page, Check
<1>4. OperationInv
  BY DEF Init, Idle, OperationInv, OperationsFit
<1>5. SignedInInv
  BY DEF Init, SignedInInv, Inside
<1>6. DocumentInv
  BY DEF Init, DocumentInv
<1>7. CheckedInv
  BY DEF Init, CheckedInv
<1> QED
  BY <1>3, <1>4, <1>5, <1>6, <1>7 DEF Inv

\* The operators on the panel keep its type.
LEMMA PanelType ==
  ASSUME NEW h \in Panel, NEW i \in BOOLEAN
  PROVE  /\ Show(h, i) \in Panel /\ ShowSuccess(h, i) \in Panel
         /\ ShowError(h) \in Panel /\ NoPanel \in Panel
         /\ Covered(h) \in Panel /\ Uncovered(h) \in Panel
         /\ Buried(h) \in Panel
         /\ h.timers > 0 => Hidden(h) \in Panel
<1>1. \A g \in Panel, k, n \in Nat, b, c \in BOOLEAN :
        /\ [g EXCEPT !.timers = n] \in Panel
        /\ [g EXCEPT !.over = n] \in Panel
        /\ [g EXCEPT !.blocks = b, !.over = n] \in Panel
        /\ [g EXCEPT !.up = b, !.blocks = c] \in Panel
        /\ g.timers \in Nat /\ g.over \in Nat /\ g.blocks \in BOOLEAN
  BY DEF Panel
<1>2. NoPanel \in Panel
  BY DEF NoPanel, Panel
<1>3. \A j \in BOOLEAN : Show(h, j) \in Panel
  BY <1>1 DEF Show
<1>4. \A n \in Nat : n + 1 \in Nat /\ (n > 0 => n - 1 \in Nat)
  OBVIOUS
<1>5. ShowSuccess(h, i) \in Panel /\ ShowError(h) \in Panel
  <2>1. \A j \in BOOLEAN : TimedShow(h, j) \in Panel
    <3> TAKE j \in BOOLEAN
    <3>1. Show(h, j) \in Panel /\ Show(h, j).timers + 1 \in Nat
      BY <1>1, <1>3, <1>4
    <3> HIDE DEF Show
    <3> QED
      BY <1>1, <3>1 DEF TimedShow
  <2> QED
    BY <2>1 DEF ShowSuccess, ShowError
<1>6. Covered(h) \in Panel /\ Uncovered(h) \in Panel
  <2>1. h.over + 1 \in Nat /\ (h.over > 0 => h.over - 1 \in Nat)
    BY <1>1, <1>4
  <2> QED
    BY <1>1, <2>1 DEF Covered, Uncovered
<1>7. Buried(h) \in Panel
  BY <1>1 DEF Buried
<1>8. h.timers > 0 => Hidden(h) \in Panel
  <2>1. h.timers > 0 => h.timers - 1 \in Nat
    BY <1>1, <1>4
  <2> QED
    BY <1>1, <1>2, <2>1 DEF Hidden
<1> QED
  BY <1>2, <1>3, <1>5, <1>6, <1>7, <1>8

\* What Present does: the operations go on, and those under a page that stays
\* present nothing any more.
LEMMA Presented ==
  ASSUME TypeOK, NEW p \in Page, NEW o \in [Task -> Operation], NEW h \in Panel,
         Present(p, o, h)
  PROVE  /\ page' = p /\ hud' \in Panel /\ check' \in Check
         /\ below' \subseteq below \cup {page}
         /\ op' \in [Task -> Operation]
         /\ \A t \in Task : /\ op'[t].stage = o[t].stage
                            /\ op'[t].account = o[t].account
                            /\ op'[t].page \in {o[t].page, "gone"}
         /\ \/ check' = check /\ asker' = asker
            \/ check' = "asked" /\ asker' = signedIn /\ p = "main"
            \/ check' = "unloaded" /\ asker' = Nobody
         /\ p \notin Dismissible => /\ \A t \in Task : op'[t].page = "gone"
                                    /\ below' = {}
                                    /\ check' # "asked" \/ p = "main"
                                    /\ check' # "done"
<1>1. Covered(h) \in Panel /\ Buried(h) \in Panel
  BY PanelType
<1>2. CASE p \in Dismissible
  BY <1>1, <1>2 DEF Present, TypeOK
<1>3. CASE p \notin Dismissible
  <2>1. op' = [t \in Task |-> [o[t] EXCEPT !.page = "gone"]]
    BY <1>3 DEF Present
  <2>2. \A t \in Task : /\ [o[t] EXCEPT !.page = "gone"] \in Operation
                        /\ [o[t] EXCEPT !.page = "gone"].stage = o[t].stage
                        /\ [o[t] EXCEPT !.page = "gone"].account = o[t].account
                        /\ [o[t] EXCEPT !.page = "gone"].page = "gone"
    BY DEF Operation
  <2>3. /\ op' \in [Task -> Operation]
        /\ \A t \in Task : /\ op'[t].stage = o[t].stage
                           /\ op'[t].account = o[t].account
                           /\ op'[t].page = "gone"
    BY <2>1, <2>2
  <2> QED
    BY <1>1, <1>3, <2>3 DEF Present, TypeOK, Check
<1> QED
  BY <1>2, <1>3

\* Operations that begin or end have the type and the account they need.
LEMMA OperationType ==
  ASSUME TypeOK, NEW t \in Task
  PROVE  /\ Ended(t) \in [Task -> Operation] /\ Ended(t)[t] = Idle
         /\ \A u \in Task \ {t} : Ended(t)[u] = op[u]
         /\ \A s \in Stage, a \in Account \cup {Nobody} :
              /\ Started(t, s, a) \in [Task -> Operation]
              /\ Started(t, s, a)[t] = [stage |-> s, account |-> a, page |-> page]
              /\ \A u \in Task \ {t} : Started(t, s, a)[u] = op[u]
         /\ \A s \in Stage : GoTo(t, s) =>
              /\ op' \in [Task -> Operation] 
              /\ op'[t].stage = s /\ op'[t].account = op[t].account
              /\ op'[t].page = op[t].page
              /\ \A u \in Task \ {t} : op'[u] = op[u]
<1> USE DEF TypeOK, Operation
<1>1. Ended(t) \in [Task -> Operation] /\ Ended(t)[t] = Idle
      /\ \A u \in Task \ {t} : Ended(t)[u] = op[u]
  BY DEF Ended, Idle, Stage
<1>2. ASSUME NEW s \in Stage, NEW a \in Account \cup {Nobody}
      PROVE  /\ Started(t, s, a) \in [Task -> Operation]
             /\ Started(t, s, a)[t] = [stage |-> s, account |-> a, page |-> page]
             /\ \A u \in Task \ {t} : Started(t, s, a)[u] = op[u]
  BY DEF Started
<1>3. ASSUME NEW s \in Stage, GoTo(t, s)
      PROVE  /\ op' \in [Task -> Operation] 
             /\ op'[t].stage = s /\ op'[t].account = op[t].account
             /\ op'[t].page = op[t].page
             /\ \A u \in Task \ {t} : op'[u] = op[u]
  BY <1>3 DEF GoTo
<1> QED
  BY <1>1, <1>2, <1>3

\* A page that comes up keeps the invariant, if it does not unwrap the current
\* user or there is one.
LEMMA PresentInv ==
  ASSUME Inv, NEW p \in Page, NEW o \in [Task -> Operation], OperationsFit(o),
         NEW h \in Panel, Present(p, o, h), UNCHANGED <<accounts, signedIn>>,
         p \in Inside => signedIn # Nobody
  PROVE  Inv'
<1>1. TypeOK /\ SignedInInv /\ DocumentInv /\ CheckedInv
  BY DEF Inv
<1>2. /\ page' = p /\ hud' \in Panel /\ check' \in Check
      /\ below' \subseteq below \cup {page}
      /\ op' \in [Task -> Operation]
      /\ \A t \in Task : /\ op'[t].stage = o[t].stage
                         /\ op'[t].account = o[t].account
                         /\ op'[t].page \in {o[t].page, "gone"}
      /\ \/ check' = check /\ asker' = asker
         \/ check' = "asked" /\ asker' = signedIn /\ p = "main"
         \/ check' = "unloaded" /\ asker' = Nobody
  BY <1>1, Presented
<1>3. TypeOK'
  BY <1>1, <1>2 DEF TypeOK, accounts
<1>4. OperationInv'
  BY <1>2 DEF OperationInv, OperationsFit
<1>5. SignedInInv'
  BY <1>1, <1>2 DEF SignedInInv, Inside, accounts
<1>6. DocumentInv' /\ CheckedInv'
  BY <1>1, <1>2 DEF DocumentInv, CheckedInv, SeenDoc, accounts
<1> QED
  BY <1>3, <1>4, <1>5, <1>6 DEF Inv

\* An operation that tries to present a page ends.
LEMMA PresentFromInv ==
  ASSUME Inv, NEW t \in Task, NEW p \in Page, PresentFrom(t, p),
         UNCHANGED <<accounts, signedIn>>,
         op[t].page = page /\ p \in Inside => signedIn # Nobody
  PROVE  Inv'
<1>1. TypeOK /\ OperationInv /\ SignedInInv /\ DocumentInv /\ CheckedInv
  BY DEF Inv
<1>2. /\ Ended(t) \in [Task -> Operation] /\ Ended(t)[t] = Idle
      /\ \A u \in Task \ {t} : Ended(t)[u] = op[u]
  BY <1>1, OperationType
<1>3. OperationsFit(Ended(t))
  BY <1>1, <1>2 DEF OperationInv, OperationsFit, Idle
<1>4. CASE op[t].page = page /\ Present(p, Ended(t), hud)
  <2>1. hud \in Panel
    BY <1>1 DEF TypeOK
  <2> QED
    BY <1>2, <1>3, <1>4, <2>1, PresentInv
<1>5. CASE op' = Ended(t) /\ UNCHANGED <<pages, hud>>
  <2>1. TypeOK'
    BY <1>1, <1>2, <1>5 DEF TypeOK, accounts, pages
  <2>2. OperationInv'
    BY <1>3, <1>5 DEF OperationInv, OperationsFit
  <2>3. SignedInInv' /\ DocumentInv' /\ CheckedInv'
    BY <1>1, <1>5 DEF SignedInInv, DocumentInv, CheckedInv, SeenDoc, accounts, pages
  <2> QED
    BY <2>1, <2>2, <2>3 DEF Inv
<1> QED
  BY <1>4, <1>5 DEF PresentFrom

\* Where the pages and the documents stay, the invariant holds if the operations
\* fit: those that begin, go on or end without presenting a page.
LEMMA StayInv ==
  ASSUME Inv, op' \in [Task -> Operation], OperationInv', hud' \in Panel,
         UNCHANGED <<accounts, signedIn, pages>>
  PROVE  Inv'
<1>1. TypeOK /\ SignedInInv /\ DocumentInv /\ CheckedInv
  BY DEF Inv
<1>2. TypeOK'
  BY <1>1 DEF TypeOK, accounts, pages
<1>3. SignedInInv' /\ DocumentInv' /\ CheckedInv'
  BY <1>1 DEF SignedInInv, DocumentInv, CheckedInv, SeenDoc, accounts, pages
<1> QED
  BY <1>2, <1>3 DEF Inv

\* Launching, moving between pages, and the main page.
LEMMA InvMoves ==
  ASSUME Inv,
         \/ Restart \/ LaunchTimer \/ PanelTimer
         \/ \E q \in Page : Move(q) \/ Dismiss(q)
         \/ ProfileTapped \/ TimelineTapped \/ FieldsRefused
         \/ FamilyChecked \/ FamilyUnread \/ FamilyEntered \/ LogoutTapped
  PROVE  Inv'
<1> USE NobodyAssumption
<1>t. TypeOK /\ OperationInv /\ SignedInInv /\ DocumentInv /\ CheckedInv
  BY DEF Inv
<1>h. hud \in Panel /\ op \in [Task -> Operation] /\ OperationsFit(op)
  BY <1>t DEF TypeOK, OperationInv
<1>1. CASE Restart
  <2>1. Idle \in Operation
    BY DEF Idle, Operation, Stage
  <2>2. TypeOK'
    BY <1>t, <1>1, <2>1, PanelType, <1>h DEF TypeOK, Restart, Page, Check, accounts
  <2>3. OperationInv'
    BY <1>1 DEF Restart, OperationInv, OperationsFit, Idle
  <2>4. SignedInInv' /\ DocumentInv' /\ CheckedInv'
    BY <1>t, <1>1 DEF Restart, SignedInInv, Inside, DocumentInv, CheckedInv, accounts
  <2> QED
    BY <2>2, <2>3, <2>4 DEF Inv
<1>2. CASE LaunchTimer
  BY <1>h, <1>2, PresentInv DEF LaunchTimer, Page, Inside
<1>3. CASE PanelTimer
  BY <1>t, <1>h, <1>3, PanelType, StayInv
     DEF PanelTimer, OperationInv, OperationsFit
<1>4. ASSUME NEW q \in Page, Move(q) PROVE Inv'
  <2>1. q \in Inside => signedIn # Nobody
    BY <1>t, <1>4 DEF Move, Moves, Inside, SignedInInv
  <2> QED
    BY <1>h, <1>4, <2>1, PresentInv DEF Move
<1>5. ASSUME NEW q \in Page, Dismiss(q) PROVE Inv'
  <2>1. /\ op' \in [Task -> Operation]
        /\ \A t \in Task : /\ op'[t].stage = op[t].stage
                           /\ op'[t].account = op[t].account
                           /\ op'[t].page \in {op[t].page, "gone"}
    <3>1. \A t \in Task : /\ [op[t] EXCEPT !.page = "gone"] \in Operation
                          /\ [op[t] EXCEPT !.page = "gone"].stage = op[t].stage
                          /\ [op[t] EXCEPT !.page = "gone"].account = op[t].account
                          /\ [op[t] EXCEPT !.page = "gone"].page = "gone"
      BY <1>h DEF Operation
    <3> QED
      BY <1>h, <1>5, <3>1 DEF Dismiss
  <2>2. TypeOK'
    BY <1>t, <1>h, <1>5, <2>1, PanelType DEF Dismiss, TypeOK, accounts
  <2>3. OperationInv'
    BY <1>t, <1>5, <2>1 DEF Dismiss, OperationInv, OperationsFit
  <2>4. SignedInInv' /\ DocumentInv' /\ CheckedInv'
    BY <1>t, <1>5 DEF Dismiss, SignedInInv, DocumentInv, CheckedInv, SeenDoc, accounts
  <2> QED
    BY <2>2, <2>3, <2>4 DEF Inv
<1>6. CASE ProfileTapped \/ TimelineTapped
  <2>1. TypeOK'
    BY <1>t, <1>6 DEF TypeOK, ProfileTapped, TimelineTapped, Page, Check, accounts
  <2>2. OperationInv'
    BY <1>t, <1>6 DEF OperationInv, OperationsFit, ProfileTapped, TimelineTapped
  <2>3. SignedInInv' /\ DocumentInv' /\ CheckedInv'
    BY <1>t, <1>6 DEF ProfileTapped, TimelineTapped, SignedInInv, Inside,
                      DocumentInv, CheckedInv, SeenDoc, accounts
  <2> QED
    BY <2>1, <2>2, <2>3 DEF Inv
<1>7. CASE FieldsRefused
  <2>1. hud' \in Panel
    <3>1. Show(hud, FALSE) \in Panel /\ ShowError(hud) \in Panel
      BY <1>h, PanelType
    <3>2. ShowError(Show(hud, FALSE)) \in Panel
      BY <3>1, PanelType
    <3> QED
      BY <1>7, <3>1, <3>2 DEF FieldsRefused
  <2> QED
    BY <1>t, <1>h, <1>7, <2>1, StayInv DEF FieldsRefused, OperationInv, OperationsFit
<1>8. CASE FamilyChecked
  <2>1. CASE SeenDoc(asker) # "noFamily" /\ check' = "done"
             /\ UNCHANGED <<page, below, asker, op, hud>>
    <3>1. SeenDoc(asker) \in {"none", "family"}
      BY <1>t, <1>8, <2>1 DEF FamilyChecked, SeenDoc, SignedInInv, TypeOK, Doc
    <3>2. TypeOK'
      BY <1>t, <1>8, <2>1 DEF FamilyChecked, TypeOK, Check, accounts
    <3>3. OperationInv' /\ SignedInInv' /\ DocumentInv' /\ CheckedInv'
      BY <1>t, <1>8, <2>1, <3>1
         DEF FamilyChecked, OperationInv, OperationsFit, SignedInInv, DocumentInv,
             CheckedInv, SeenDoc, accounts
    <3> QED
      BY <3>2, <3>3 DEF Inv
  <2>2. CASE Present("family", op, hud)
    <3>1. "family" \in Page /\ signedIn # Nobody /\ UNCHANGED <<accounts, signedIn>>
      BY <1>t, <1>8 DEF FamilyChecked, SignedInInv, Page
    <3> QED
      BY <1>h, <2>2, <3>1, PresentInv
  <2>3. CASE check' = "lost" /\ UNCHANGED <<page, below, asker, op, hud>>
    <3>1. TypeOK'
      BY <1>t, <1>8, <2>3 DEF FamilyChecked, TypeOK, Check, accounts
    <3>2. OperationInv' /\ SignedInInv' /\ DocumentInv' /\ CheckedInv'
      BY <1>t, <1>8, <2>3
         DEF FamilyChecked, OperationInv, OperationsFit, SignedInInv, DocumentInv,
             CheckedInv, accounts
    <3> QED
      BY <3>1, <3>2 DEF Inv
  <2> QED
    BY <1>8, <2>1, <2>2, <2>3 DEF FamilyChecked
<1>9. CASE FamilyEntered
  <2>1. signedIn \in Account
    BY <1>t, <1>9 DEF FamilyEntered, SignedInInv, Inside, TypeOK
  <2>2. ShowSuccess(hud, FALSE) \in Panel
    BY <1>h, PanelType
  <2>3. Present("main", op, ShowSuccess(hud, FALSE))
    BY <1>9 DEF FamilyEntered
  <2>4. /\ page' = "main" /\ hud' \in Panel /\ check' \in Check
        /\ op' \in [Task -> Operation]
        /\ \A t \in Task : /\ op'[t].stage = op[t].stage
                           /\ op'[t].account = op[t].account
                           /\ op'[t].page = "gone"
        /\ check' # "done" /\ below' = {}
        /\ \/ check' = check /\ asker' = asker
           \/ check' = "asked" /\ asker' = signedIn
           \/ check' = "unloaded" /\ asker' = Nobody
    <3>1. "main" \in Page /\ "main" \notin Dismissible
      BY DEF Page, Dismissible
    <3> HIDE DEF Page, Dismissible
    <3> QED
      BY <1>t, <1>h, <2>2, <2>3, <3>1, Presented
  <2>5. TypeOK'
    BY <1>t, <1>9, <2>1, <2>4 DEF FamilyEntered, TypeOK, Doc, Page
  <2>6. OperationInv'
    BY <1>t, <1>9, <2>4 DEF FamilyEntered, OperationInv, OperationsFit
  <2>7. SignedInInv'
    BY <1>t, <1>9, <2>1, <2>4 DEF FamilyEntered, SignedInInv
  <2>8. DocumentInv' /\ CheckedInv'
    BY <1>t, <1>9, <2>1, <2>4 DEF FamilyEntered, TypeOK, DocumentInv, CheckedInv
  <2> QED
    BY <2>5, <2>6, <2>7, <2>8 DEF Inv
<1>10. CASE FamilyUnread
  <2>1. TypeOK'
    BY <1>t, <1>10 DEF FamilyUnread, TypeOK, Check, accounts
  <2>2. OperationInv' /\ SignedInInv' /\ DocumentInv' /\ CheckedInv'
    BY <1>t, <1>10
       DEF FamilyUnread, OperationInv, OperationsFit, SignedInInv, DocumentInv,
           CheckedInv, accounts
  <2> QED
    BY <2>1, <2>2 DEF Inv
<1>11. CASE LogoutTapped
  <2>1. /\ page' = "welcome" /\ hud' \in Panel /\ check' \in Check
        /\ op' \in [Task -> Operation]
        /\ \A t \in Task : /\ op'[t].stage = op[t].stage
                           /\ op'[t].account = op[t].account
                           /\ op'[t].page = "gone"
        /\ check' \notin {"asked", "done"} /\ below' = {}
        /\ asker' \in {asker, Nobody}
    <3>1. "welcome" \in Page /\ "welcome" \notin Dismissible /\ "welcome" # "main"
          /\ Present("welcome", op, hud)
      BY <1>11 DEF LogoutTapped, Page, Dismissible
    <3> QED
      BY <1>t, <1>h, <3>1, Presented
  <2>2. signedIn' \in {signedIn, Nobody} /\ UNCHANGED accounts
    BY <1>11 DEF LogoutTapped
  <2>3. TypeOK'
    BY <1>t, <2>1, <2>2 DEF TypeOK, Page, accounts
  <2>4. OperationInv'
    BY <1>t, <2>1 DEF OperationInv, OperationsFit
  <2>5. SignedInInv' /\ DocumentInv' /\ CheckedInv'
    BY <1>t, <2>1, <2>2 DEF SignedInInv, Inside, DocumentInv, CheckedInv, accounts
  <2> QED
    BY <2>3, <2>4, <2>5 DEF Inv
<1> QED
  BY <1>1, <1>2, <1>3, <1>4, <1>5, <1>6, <1>7, <1>8, <1>9, <1>10, <1>11

\* Operations that begin.
LEMMA InvGesture == ASSUME Inv, NEW t \in Task, Gesture(t) PROVE Inv'
<1> USE NobodyAssumption
<1>t. TypeOK /\ OperationInv /\ SignedInInv
  BY DEF Inv
<1>h. hud \in Panel /\ op \in [Task -> Operation] /\ OperationsFit(op)
  BY <1>t DEF TypeOK, OperationInv
<1>s. \A s \in Stage, a \in Account \cup {Nobody} :
        /\ Started(t, s, a) \in [Task -> Operation]
        /\ Started(t, s, a)[t] = [stage |-> s, account |-> a, page |-> page]
        /\ \A u \in Task \ {t} : Started(t, s, a)[u] = op[u]
  BY <1>t, OperationType
<1>f. ASSUME NEW s \in Stage, NEW a \in Account \cup {Nobody}, s # "querying",
             s \notin {"idle", "resetting"} => a \in Account,
             s \in {"uploading", "saved"} => page = "edit"
      PROVE  OperationsFit(Started(t, s, a))
  <2> DEFINE o == Started(t, s, a)
  <2>1. /\ o[t].stage = s /\ o[t].account = a /\ o[t].page = page
        /\ \A u \in Task \ {t} : o[u] = op[u]
    <3>1. /\ o[t] = [stage |-> s, account |-> a, page |-> page]
          /\ \A u \in Task \ {t} : o[u] = op[u]
      BY <1>f, <1>s
    <3> HIDE DEF o
    <3> QED
      BY <3>1
  <2> HIDE DEF o
  <2>2. OperationsFit(o)
    BY <1>h, <1>f, <2>1 DEF OperationsFit
  <2> QED
    BY <2>2 DEF o
<1>1. ASSUME NEW a \in Account, SignUpTapped(t, a) \/ LogInTapped(t, a) PROVE Inv'
  <2>1. PICK s \in {"creating", "signing"} : op' = Started(t, s, a)
    BY <1>1 DEF SignUpTapped, LogInTapped
  <2>2. op' \in [Task -> Operation] /\ OperationInv'
    <3>1. op' \in [Task -> Operation] /\ OperationsFit(op')
      BY <1>s, <1>f, <2>1 DEF Stage
    <3>2. signedIn' = signedIn
      BY <1>1 DEF SignUpTapped, LogInTapped
    <3> QED
      BY <3>1, <3>2 DEF OperationInv, OperationsFit
  <2>3. hud' \in Panel
    BY <1>h, <1>1, PanelType DEF SignUpTapped, LogInTapped
  <2> QED
    BY <1>1, <2>2, <2>3, StayInv DEF SignUpTapped, LogInTapped
<1>2. CASE ResetTapped(t)
  <2>1. /\ Started(t, "resetting", Nobody) \in [Task -> Operation]
        /\ OperationsFit(Started(t, "resetting", Nobody))
    BY <1>s, <1>f DEF Stage
  <2> QED
    BY <1>h, <1>2, <2>1, PresentInv DEF ResetTapped, Page, Inside
<1>3. CASE PictureSaved(t) \/ TextSaved(t)
  <2>1. signedIn \in Account /\ page = "edit"
    BY <1>t, <1>3 DEF PictureSaved, TextSaved, SignedInInv, Inside, TypeOK
  <2>2. PICK s \in {"uploading", "saved"} : op' = Started(t, s, signedIn)
    BY <1>3 DEF PictureSaved, TextSaved
  <2>3. op' \in [Task -> Operation] /\ OperationInv'
    <3>1. op' \in [Task -> Operation] /\ OperationsFit(op')
      BY <1>s, <1>f, <2>1, <2>2 DEF Stage
    <3>2. signedIn' = signedIn
      BY <1>3 DEF PictureSaved, TextSaved
    <3> QED
      BY <3>1, <3>2 DEF OperationInv, OperationsFit
  <2>4. hud' \in Panel
    <3>1. Show(hud, TRUE) \in Panel
      BY <1>h, PanelType
    <3>2. Show(Show(hud, TRUE), FALSE) \in Panel
          /\ ShowSuccess(Show(hud, TRUE), FALSE) \in Panel
      BY <3>1, PanelType
    <3> QED
      BY <1>3, <3>2 DEF PictureSaved, TextSaved
  <2> QED
    BY <1>3, <2>3, <2>4, StayInv DEF PictureSaved, TextSaved
<1> QED
  BY <1>1, <1>2, <1>3 DEF Gesture

\* The answers to operations.
LEMMA InvCallback == ASSUME Inv, NEW t \in Task, Callback(t) PROVE Inv'
<1> USE NobodyAssumption
<1>t. TypeOK /\ OperationInv /\ SignedInInv /\ DocumentInv /\ CheckedInv
  BY DEF Inv
<1>h. hud \in Panel /\ op \in [Task -> Operation] /\ OperationsFit(op)
  BY <1>t DEF TypeOK, OperationInv
<1>e. /\ Ended(t) \in [Task -> Operation] /\ OperationsFit(Ended(t))
  <2>1. /\ Ended(t) \in [Task -> Operation] /\ Ended(t)[t] = Idle
        /\ \A u \in Task \ {t} : Ended(t)[u] = op[u]
    BY <1>t, OperationType
  <2> QED
    BY <1>h, <2>1 DEF OperationsFit, Idle
<1>g. \A s \in Stage : GoTo(t, s) =>
        /\ op' \in [Task -> Operation]
        /\ op'[t].stage = s /\ op'[t].account = op[t].account
        /\ op'[t].page = op[t].page
        /\ \A u \in Task \ {t} : op'[u] = op[u]
  BY <1>t, OperationType
<1>1. CASE Created(t)
  <2>1. op[t].account \in Account
    BY <1>h, <1>1 DEF Created, At, OperationsFit
  <2>2. /\ op' \in [Task -> Operation]
        /\ op'[t].stage = "writing" /\ op'[t].account = op[t].account
        /\ \A u \in Task \ {t} : op'[u] = op[u]
    BY <1>g, <1>1 DEF Created, Stage
  <2>3. TypeOK'
    BY <1>t, <1>1, <2>1, <2>2 DEF Created, TypeOK, pages
  <2>4. OperationInv'
    BY <1>h, <1>1, <2>1, <2>2 DEF Created, OperationInv, OperationsFit
  <2>5. SignedInInv'
    BY <1>t, <1>1, <2>1 DEF Created, SignedInInv, pages
  <2>6. DocumentInv' /\ CheckedInv'
    BY <1>t, <1>1, <2>1
       DEF Created, DocumentInv, CheckedInv, SignedInInv, SeenDoc, pages, TypeOK
  <2> QED
    BY <2>3, <2>4, <2>5, <2>6 DEF Inv
<1>2. CASE NotCreated(t) \/ NotLoggedIn(t) \/ UserNotFound(t) \/ PictureLost(t)
           \/ ResetAnswered(t)
  <2>1. op' = Ended(t) /\ hud' \in {hud, ShowError(hud)}
        /\ UNCHANGED <<accounts, signedIn, pages>>
    BY <1>2 DEF NotCreated, NotLoggedIn, UserNotFound, PictureLost, ResetAnswered
  <2>2. hud' \in Panel
    BY <1>h, <2>1, PanelType
  <2>3. OperationInv'
    BY <1>e, <2>1 DEF OperationInv, OperationsFit
  <2> QED
    BY <1>e, <2>1, <2>2, <2>3, StayInv
<1>3. CASE SignedUp(t)
  BY <1>3, PresentFromInv DEF SignedUp, Page, Inside
<1>4. CASE LoggedIn(t)
  <2>1. op[t].account \in Account /\ op[t].account \in registered
        /\ op[t].account # Nobody
    BY <1>h, <1>4 DEF LoggedIn, At, OperationsFit
  <2>2. /\ op' \in [Task -> Operation]
        /\ op'[t].stage = "querying" /\ op'[t].account = op[t].account
        /\ \A u \in Task \ {t} : op'[u] = op[u]
    BY <1>g, <1>4 DEF LoggedIn, Stage
  <2>3. TypeOK'
    BY <1>t, <1>4, <2>1, <2>2 DEF LoggedIn, TypeOK, accounts, pages
  <2>4. OperationInv'
    BY <1>h, <1>4, <2>1, <2>2 DEF LoggedIn, OperationInv, OperationsFit
  <2>5. SignedInInv' /\ DocumentInv' /\ CheckedInv'
    BY <1>t, <1>4, <2>1
       DEF LoggedIn, SignedInInv, DocumentInv, CheckedInv, SeenDoc, accounts, pages
  <2> QED
    BY <2>3, <2>4, <2>5 DEF Inv
<1>5. CASE UserFound(t)
  <2>1. PICK p \in {"main", "family"} : PresentFrom(t, p)
    BY <1>5 DEF UserFound
  <2>2. op[t].page = page => signedIn # Nobody
    <3>1. page # "gone"
      BY <1>t DEF TypeOK, Page
    <3> QED
      BY <1>h, <1>5, <3>1 DEF UserFound, At, OperationsFit
  <2> QED
    BY <1>5, <2>1, <2>2, PresentFromInv DEF UserFound, Page
<1>6. CASE PictureUploaded(t)
  <2>1. /\ op' \in [Task -> Operation]
        /\ op'[t].stage = "saved" /\ op'[t].account = op[t].account
        /\ op'[t].page = op[t].page
        /\ \A u \in Task \ {t} : op'[u] = op[u]
    BY <1>g, <1>6 DEF PictureUploaded, Stage
  <2>2. TypeOK'
    <3>1. hud' \in Panel
      BY <1>h, <1>6, PanelType DEF PictureUploaded
    <3>2. mixed' \in SUBSET Account
      BY <1>t, <1>6 DEF PictureUploaded, HasProfile, TypeOK
    <3> QED
      BY <1>t, <1>6, <2>1, <3>1, <3>2 DEF PictureUploaded, TypeOK, pages
  <2>3. OperationInv'
    BY <1>h, <1>6, <2>1 DEF PictureUploaded, At, OperationInv, OperationsFit
  <2>4. SignedInInv' /\ DocumentInv' /\ CheckedInv'
    BY <1>t, <1>6
       DEF PictureUploaded, SignedInInv, DocumentInv, CheckedInv, SeenDoc, pages
  <2> QED
    BY <2>2, <2>3, <2>4 DEF Inv
<1>7. CASE Saved(t)
  <2>1. op[t].page = page => signedIn # Nobody
    BY <1>t, <1>h, <1>7 DEF Saved, At, OperationsFit, SignedInInv, Inside, TypeOK, Page
  <2> QED
    BY <1>7, <2>1, PresentFromInv DEF Saved, Page
<1> QED
  BY <1>1, <1>2, <1>3, <1>4, <1>5, <1>6, <1>7 DEF Callback

\* The answers to the first write of a document.
LEMMA InvServer == ASSUME Inv, NEW a \in Account, Server(a) PROVE Inv'
<1>t. TypeOK /\ OperationInv /\ SignedInInv /\ DocumentInv /\ CheckedInv
  BY DEF Inv
<1>h. hud \in Panel /\ op \in [Task -> Operation]
  BY <1>t DEF TypeOK
<1>1. PICK h \in Panel : Answered(a, h)
  <2>1. ShowError(hud) \in Panel
    BY <1>h, PanelType
  <2> QED
    BY <1>h, <2>1 DEF Server, Written, NotWritten
<1>2. hud' \in Panel
  BY <1>h, <1>1, PanelType DEF Answered
<1>3. op' \in [Task -> Operation] /\ OperationInv'
  <2>1. \A t \in Task : /\ [op[t] EXCEPT !.stage = "success"] \in Operation
                        /\ [op[t] EXCEPT !.stage = "success"].stage = "success"
                        /\ [op[t] EXCEPT !.stage = "success"].account = op[t].account
    BY <1>h DEF Operation, Stage
  <2>2. op' = [t \in Task |-> IF t \in Waiting(a)
                              THEN [op[t] EXCEPT !.stage = "success"] ELSE op[t]]
    BY <1>1 DEF Answered
  <2>3. /\ op' \in [Task -> Operation]
        /\ \A t \in Task :
             \/ op'[t] = op[t]
             \/ /\ op[t].stage = "writing" /\ op'[t].stage = "success"
                /\ op'[t].account = op[t].account
    BY <1>h, <2>1, <2>2 DEF Waiting, At
  <2>4. signedIn' = signedIn
    BY DEF Server, Written, NotWritten
  <2>5. OperationInv'
    BY <1>t, <2>3, <2>4 DEF OperationInv, OperationsFit
  <2> QED
    BY <2>3, <2>5
<1>4. TypeOK'
  BY <1>t, <1>2, <1>3 DEF Server, Written, NotWritten, TypeOK, Doc, pages
<1>5. SignedInInv' /\ DocumentInv'
  BY <1>t DEF Server, Written, NotWritten, SignedInInv, DocumentInv, TypeOK, pages
<1>6. CheckedInv'
  BY <1>t DEF Server, Written, NotWritten, CheckedInv, SeenDoc, DocumentInv,
              SignedInInv, TypeOK, pages
<1> QED
  BY <1>3, <1>4, <1>5, <1>6 DEF Inv

LEMMA InvNext == Inv /\ [Next]_vars => Inv'
<1> SUFFICES ASSUME Inv, [Next]_vars PROVE Inv'
  OBVIOUS
<1>1. CASE \E t \in Task : Gesture(t) \/ Callback(t)
  BY <1>1, InvGesture, InvCallback
<1>2. CASE \E a \in Account : Server(a)
  BY <1>2, InvServer
<1>3. CASE UNCHANGED vars
  BY <1>3 DEF vars, accounts, pages, Inv, TypeOK, OperationInv, OperationsFit,
              SignedInInv, DocumentInv, CheckedInv, SeenDoc
<1> QED
  BY <1>1, <1>2, <1>3, InvMoves DEF Next

\* The pages behind the log in unwrap the current user: there is one whenever
\* they are up, through restarts, pages dismissed under way, log outs that fail,
\* and operations and checks that end late.
THEOREM AlwaysSomebody == Spec => []SomebodySignedIn
<1>1. Inv => SomebodySignedIn
  BY DEF Inv, SignedInInv, Inside, SomebodySignedIn
<1> QED
  BY InvInit, InvNext, <1>1, PTL DEF Spec

\* Signing up never overwrites the document of an account that has a family,
\* although its write may be answered long after and on another run of the app.
THEOREM FamiliesKept == Spec => FamilyKept
<1>1. Inv /\ [Next]_vars =>
        [\A a \in Account : doc[a] = "family" => doc'[a] = "family"]_doc
  <2> SUFFICES ASSUME Inv, Next
               PROVE  \A a \in Account : doc[a] = "family" => doc'[a] = "family"
    BY DEF vars, accounts
  <2>1. ASSUME NEW b \in Account, Server(b)
        PROVE  \A a \in Account : doc[a] = "family" => doc'[a] = "family"
    BY <2>1 DEF Inv, DocumentInv, TypeOK, Server, Written, NotWritten
  <2>2. CASE FamilyEntered
    BY <2>2 DEF Inv, TypeOK, FamilyEntered
  <2>3. ASSUME NEW t \in Task, Gesture(t) \/ Callback(t) PROVE doc' = doc
    BY <2>3 DEF Gesture, Callback, SignUpTapped, LogInTapped, ResetTapped,
                PictureSaved, TextSaved, Created, NotCreated, SignedUp, LoggedIn,
                NotLoggedIn, UserFound, UserNotFound, PictureUploaded, PictureLost,
                Saved, ResetAnswered, accounts
  <2> QED
    BY <2>1, <2>2, <2>3 DEF Next, Restart, LaunchTimer, PanelTimer, Move, Dismiss,
       ProfileTapped, TimelineTapped, FieldsRefused, FamilyChecked, FamilyUnread,
       LogoutTapped, accounts
<1> QED
  BY InvInit, InvNext, <1>1, PTL DEF Spec, FamilyKept

-------------------------------------------------------------------------------
(* The pages under the page on top, and the panel *)

\* The set of the pages below stands for a stack: the pages a dismissible page
\* may have been presented from.  The timeline that is on top has been loaded.
StackInv ==
  /\ page \notin Dismissible => below = {}
  /\ page = "signUp" => below = {"welcome"}
  /\ page = "logIn" => below \in {{"welcome"}, {"welcome", "signUp"}, {"reset"}}
  /\ page = "edit" => below = {"profile"}
  /\ page = "main" => check # "unloaded"

\* Signing up begins on its page, and logging in on its page.
PlacesFit(o) ==
  \A t \in Task :
    /\ o[t].stage \in {"creating", "writing", "success"} => o[t].page \in {"signUp", "gone"}
    /\ o[t].stage \in {"signing", "querying"} => o[t].page \in {"logIn", "gone"}

\* Who waits for a write waits for one the server has not answered.
WriteDue(o) ==
  \A t \in Task : o[t].stage = "writing" => o[t].account \in unwritten

\* Only a panel that is up blocks, and only one that blocks is covered.
PanelFits(h) == (h.blocks => h.up) /\ (h.over > 0 => h.blocks)

\* A panel that blocks is taken away by a timer that is due, or is that of the
\* log in page, or that of a sign up under way, which may lie under the log in
\* page when another sign up has presented it.
PanelDue(h, p, b, o) ==
  \/ h.timers > 0
  \/ h.over = 0 /\ p = "logIn"
  \/ /\ \/ h.over = 0 /\ p = "signUp"
        \/ h.over = 1 /\ p = "logIn" /\ "signUp" \in b
     /\ \E t \in Task : o[t].stage \in {"creating", "writing"}

PanelInv == /\ StackInv
            /\ PlacesFit(op)
            /\ WriteDue(op)
            /\ PanelFits(hud)
            /\ hud.blocks => PanelDue(hud, page, below, op)

\* The fields of a panel after an assignment to some.
LEMMA PanelFields ==
  ASSUME NEW h \in Panel, NEW n \in Nat, NEW b \in BOOLEAN, NEW c \in BOOLEAN
  PROVE  /\ [h EXCEPT !.timers = n].up = h.up
         /\ [h EXCEPT !.timers = n].blocks = h.blocks
         /\ [h EXCEPT !.timers = n].over = h.over
         /\ [h EXCEPT !.timers = n].timers = n
         /\ [h EXCEPT !.over = n].up = h.up
         /\ [h EXCEPT !.over = n].blocks = h.blocks
         /\ [h EXCEPT !.over = n].over = n
         /\ [h EXCEPT !.over = n].timers = h.timers
         /\ [h EXCEPT !.blocks = b, !.over = n].up = h.up
         /\ [h EXCEPT !.blocks = b, !.over = n].blocks = b
         /\ [h EXCEPT !.blocks = b, !.over = n].over = n
         /\ [h EXCEPT !.blocks = b, !.over = n].timers = h.timers
         /\ [h EXCEPT !.up = c, !.blocks = b].up = c
         /\ [h EXCEPT !.up = c, !.blocks = b].blocks = b
         /\ [h EXCEPT !.up = c, !.blocks = b].over = h.over
         /\ [h EXCEPT !.up = c, !.blocks = b].timers = h.timers
BY DEF Panel

\* What the operators on the panel do to what it blocks and to its timers.
LEMMA PanelSteps ==
  ASSUME NEW h \in Panel, NEW i \in BOOLEAN, PanelFits(h)
  PROVE  /\ PanelFits(Show(h, i)) /\ Show(h, i).timers = h.timers
         /\ h.blocks => Show(h, i) = h
         /\ ~h.blocks /\ Show(h, i).blocks => Show(h, i).over = 0 /\ ~i
         /\ PanelFits(ShowSuccess(h, i)) /\ ShowSuccess(h, i).timers > 0
         /\ PanelFits(ShowError(h)) /\ ShowError(h).timers > 0
         /\ PanelFits(NoPanel) /\ ~NoPanel.blocks
         /\ h.timers > 0 => PanelFits(Hidden(h)) /\ ~Hidden(h).blocks
         /\ PanelFits(Buried(h)) /\ ~Buried(h).blocks
         /\ PanelFits(Covered(h)) /\ Covered(h).timers = h.timers
         /\ Covered(h).blocks = h.blocks
         /\ h.blocks => Covered(h).over = h.over + 1
         /\ PanelFits(Uncovered(h)) /\ Uncovered(h).timers = h.timers
         /\ Uncovered(h).blocks = h.blocks
         /\ h.over > 0 => Uncovered(h).over = h.over - 1
<1>h. /\ h.up \in BOOLEAN /\ h.blocks \in BOOLEAN /\ h.over \in Nat /\ h.timers \in Nat
  BY DEF Panel
<1>1. \A j \in BOOLEAN :
        /\ PanelFits(Show(h, j)) /\ Show(h, j).timers = h.timers
        /\ h.blocks => Show(h, j) = h
        /\ ~h.blocks /\ Show(h, j).blocks => Show(h, j).over = 0 /\ ~j
  <2> TAKE j \in BOOLEAN
  <2>1. CASE h.up
    BY <2>1 DEF Show, PanelFits
  <2>2. CASE ~h.up
    <3>1. Show(h, j) = [h EXCEPT !.up = TRUE, !.blocks = ~j]
      BY <2>2 DEF Show
    <3>2. /\ Show(h, j).up = TRUE /\ Show(h, j).blocks = ~j
          /\ Show(h, j).over = h.over /\ Show(h, j).timers = h.timers
      <4>1. (~j) \in BOOLEAN /\ TRUE \in BOOLEAN
        OBVIOUS
      <4> QED
        BY <3>1, <4>1, PanelFields
    <3>3. ~h.blocks /\ h.over = 0
      BY <1>h, <2>2 DEF PanelFits
    <3>4. ~(Show(h, j).over > 0)
      BY <3>2, <3>3
    <3> HIDE DEF Show
    <3> QED
      BY <3>2, <3>3, <3>4 DEF PanelFits
  <2> QED
    BY <2>1, <2>2
<1>2. \A j \in BOOLEAN : PanelFits(TimedShow(h, j)) /\ TimedShow(h, j).timers > 0
  <2> TAKE j \in BOOLEAN
  <2>1. Show(h, j) \in Panel /\ PanelFits(Show(h, j))
    BY <1>1, PanelType
  <2>2. /\ Show(h, j).timers + 1 \in Nat /\ Show(h, j).timers + 1 > 0
    BY <1>h, <1>1
  <2>3. TimedShow(h, j) = [Show(h, j) EXCEPT !.timers = Show(h, j).timers + 1]
    BY DEF TimedShow
  <2> HIDE DEF Show
  <2>4. /\ TimedShow(h, j).up = Show(h, j).up
        /\ TimedShow(h, j).blocks = Show(h, j).blocks
        /\ TimedShow(h, j).over = Show(h, j).over
        /\ TimedShow(h, j).timers = Show(h, j).timers + 1
    BY <2>1, <2>2, <2>3, PanelFields
  <2> QED
    BY <2>1, <2>2, <2>4 DEF PanelFits
<1>3. PanelFits(NoPanel) /\ ~NoPanel.blocks
  BY DEF NoPanel, PanelFits
<1>4. h.timers > 0 => PanelFits(Hidden(h)) /\ ~Hidden(h).blocks
  <2>1. \A n : /\ ~[NoPanel EXCEPT !.timers = n].blocks
               /\ [NoPanel EXCEPT !.timers = n].over = 0
    BY DEF NoPanel
  <2> QED
    BY <2>1 DEF Hidden, PanelFits
<1>5. PanelFits(Buried(h)) /\ ~Buried(h).blocks
  <2>1. Buried(h).blocks = FALSE /\ Buried(h).over = 0
    BY PanelFields DEF Buried
  <2>2. ~(Buried(h).over > 0)
    BY <2>1
  <2> HIDE DEF Buried
  <2> QED
    BY <2>1, <2>2 DEF PanelFits
<1>6. /\ PanelFits(Covered(h)) /\ Covered(h).timers = h.timers
      /\ Covered(h).blocks = h.blocks
      /\ h.blocks => Covered(h).over = h.over + 1
  <2>1. CASE h.blocks
    <3>1. Covered(h) = [h EXCEPT !.over = h.over + 1]
      BY <2>1 DEF Covered
    <3>2. /\ Covered(h).up = h.up /\ Covered(h).blocks = h.blocks
          /\ Covered(h).over = h.over + 1 /\ Covered(h).timers = h.timers
      BY <1>h, <3>1, PanelFields
    <3> HIDE DEF Covered
    <3> QED
      BY <2>1, <3>2 DEF PanelFits
  <2>2. CASE ~h.blocks
    BY <2>2 DEF Covered
  <2> QED
    BY <2>1, <2>2
<1>7. /\ PanelFits(Uncovered(h)) /\ Uncovered(h).timers = h.timers
      /\ Uncovered(h).blocks = h.blocks
      /\ h.over > 0 => Uncovered(h).over = h.over - 1
  <2>1. CASE h.over > 0
    <3>1. Uncovered(h) = [h EXCEPT !.over = h.over - 1] /\ h.over - 1 \in Nat
      BY <1>h, <2>1 DEF Uncovered
    <3>2. /\ Uncovered(h).up = h.up /\ Uncovered(h).blocks = h.blocks
          /\ Uncovered(h).over = h.over - 1 /\ Uncovered(h).timers = h.timers
      BY <3>1, PanelFields
    <3>3. h.blocks /\ h.up
      BY <2>1 DEF PanelFits
    <3> HIDE DEF Uncovered
    <3> QED
      BY <3>2, <3>3 DEF PanelFits
  <2>2. CASE ~(h.over > 0)
    BY <2>2 DEF Uncovered
  <2> QED
    BY <2>1, <2>2
<1> QED
  BY <1>1, <1>2, <1>3, <1>4, <1>5, <1>6, <1>7 DEF ShowSuccess, ShowError

LEMMA PanelInvInit == Init => PanelInv
<1>1. PanelFits(NoPanel) /\ ~NoPanel.blocks
  BY DEF NoPanel, PanelFits
<1> QED
  BY <1>1 DEF Init, PanelInv, StackInv, PlacesFit, WriteDue, Idle, Dismissible

\* A page that comes up keeps PanelInv, if it comes up from where it may and over
\* no panel whose end is lost.
LEMMA PresentPanel ==
  ASSUME TypeOK, PanelInv, NEW p \in Page, NEW o \in [Task -> Operation],
         NEW h \in Panel, Present(p, o, h), PlacesFit(o), PanelFits(h),
         p = "signUp" => page = "welcome", p = "edit" => page = "profile",
         p = "logIn" => page \in {"welcome", "signUp", "reset"},
         WriteDue(o), unwritten' = unwritten,
         p \in Dismissible /\ h.blocks =>
           \/ h.timers > 0
           \/ /\ h.over = 0 /\ p = "logIn" /\ page = "signUp"
              /\ \E t \in Task : o[t].stage \in {"creating", "writing"}
  PROVE  PanelInv'
<1>1. /\ page' = p
      /\ op' \in [Task -> Operation]
      /\ \A t \in Task : /\ op'[t].stage = o[t].stage
                         /\ op'[t].account = o[t].account
                         /\ op'[t].page \in {o[t].page, "gone"}
  BY Presented
<1>2. PlacesFit(op)' /\ WriteDue(op)'
  BY <1>1 DEF PlacesFit, WriteDue
<1>3. StackInv'
  BY <1>1 DEF PanelInv, StackInv, Present, Dismissible
<1>4. CASE p \in Dismissible
  <2>1. hud' = Covered(h) /\ below' = below \cup {page}
    BY <1>4 DEF Present
  <2>2. /\ PanelFits(Covered(h)) /\ Covered(h).timers = h.timers
        /\ Covered(h).blocks = h.blocks
        /\ h.blocks => Covered(h).over = h.over + 1
    BY PanelSteps
  <2>3. PanelFits(hud)' /\ hud'.blocks = h.blocks /\ hud'.timers = h.timers
        /\ (h.blocks => hud'.over = h.over + 1)
    BY <2>1, <2>2 DEF PanelFits
  <2>4. ASSUME h.blocks PROVE PanelDue(hud, page, below, op)'
    BY <1>1, <1>4, <2>1, <2>3, <2>4 DEF PanelDue
  <2> QED
    BY <1>2, <1>3, <2>3, <2>4 DEF PanelInv
<1>5. CASE p \notin Dismissible
  <2>1. hud' = Buried(h)
    BY <1>5 DEF Present
  <2>2. PanelFits(hud)' /\ ~hud'.blocks
    BY <2>1, PanelSteps DEF PanelFits
  <2> QED
    BY <1>2, <1>3, <2>2 DEF PanelInv
<1> QED
  BY <1>4, <1>5

\* The end of an operation that tries to present a page.
LEMMA PresentFromPanel ==
  ASSUME TypeOK, PanelInv, NEW t \in Task, NEW p \in Page, PresentFrom(t, p),
         UNCHANGED <<accounts, signedIn>>,
         \/ p \in {"main", "family", "profile"}
         \/ p = "logIn" /\ op[t].page = page /\ page = "signUp"
         \/ p = "logIn" /\ op[t].page # page,
         ~(op[t].stage \in {"creating", "writing"})
  PROVE  PanelInv'
<1>1. /\ Ended(t) \in [Task -> Operation] /\ Ended(t)[t] = Idle
      /\ \A u \in Task \ {t} : Ended(t)[u] = op[u]
  BY OperationType
<1>2. PlacesFit(Ended(t)) /\ WriteDue(Ended(t))
  BY <1>1 DEF PanelInv, PlacesFit, WriteDue, Idle
<1>3. hud \in Panel /\ PanelFits(hud) /\ unwritten' = unwritten
  BY DEF TypeOK, PanelInv, accounts
<1>4. ASSUME PanelDue(hud, page, below, op)
      PROVE  PanelDue(hud, page, below, Ended(t))
  BY <1>1, <1>4 DEF PanelDue
<1>5. CASE op[t].page = page /\ Present(p, Ended(t), hud)
  <2>1. CASE p \in {"main", "family", "profile"}
    BY <1>1, <1>2, <1>3, <1>5, <2>1, PresentPanel DEF Dismissible
  <2>2. CASE p = "logIn" /\ page = "signUp"
    <3>1. hud.blocks => \/ hud.timers > 0
                        \/ /\ hud.over = 0
                           /\ \E u \in Task : Ended(t)[u].stage \in {"creating", "writing"}
      BY <1>4, <2>2 DEF PanelInv, PanelDue
    <3> QED
      BY <1>1, <1>2, <1>3, <1>5, <2>2, <3>1, PresentPanel
  <2> QED
    BY <1>5, <2>1, <2>2
<1>6. CASE op' = Ended(t) /\ UNCHANGED <<pages, hud>>
  <2>1. hud.blocks => PanelDue(hud, page, below, op)'
    BY <1>4, <1>6 DEF PanelInv, pages, PanelDue
  <2> QED
    BY <1>2, <1>3, <1>6, <2>1 DEF PanelInv, StackInv, PlacesFit, WriteDue, PanelFits, pages
<1> QED
  BY <1>5, <1>6 DEF PresentFrom

\* Where the pages stay, PanelInv holds if the operations fit, and the panel stays,
\* or does not block, or has a timer.
LEMMA StayPanel ==
  ASSUME PanelInv, PlacesFit(op)', WriteDue(op)', PanelFits(hud)',
         UNCHANGED pages,
         hud'.blocks => PanelDue(hud', page, below, op')
  PROVE  PanelInv'
BY DEF PanelInv, StackInv, PanelDue, pages

LEMMA PanelMoves ==
  ASSUME Inv, PanelInv,
         \/ Restart \/ LaunchTimer \/ PanelTimer
         \/ \E q \in Page : Move(q) \/ Dismiss(q)
         \/ ProfileTapped \/ TimelineTapped \/ FieldsRefused
         \/ FamilyChecked \/ FamilyUnread \/ FamilyEntered \/ LogoutTapped
  PROVE  PanelInv'
<1>t. /\ TypeOK /\ hud \in Panel /\ op \in [Task -> Operation]
      /\ hud.over \in Nat /\ hud.timers \in Nat
  BY DEF Inv, TypeOK, Panel
<1>p. /\ StackInv /\ PlacesFit(op) /\ WriteDue(op) /\ PanelFits(hud)
      /\ hud.blocks => PanelDue(hud, page, below, op)
  BY DEF PanelInv
<1>1. CASE Restart
  <2>1. PanelFits(hud)' /\ ~hud'.blocks
    BY <1>1, <1>t, <1>p, PanelSteps DEF Restart, PanelFits
  <2> QED
    BY <1>1, <2>1 DEF Restart, PanelInv, StackInv, PlacesFit, WriteDue, Idle, Dismissible
<1>2. CASE LaunchTimer
  BY <1>2, <1>t, <1>p, PresentPanel DEF LaunchTimer, accounts, Page, Dismissible
<1>3. CASE PanelTimer
  <2>1. PanelFits(hud)' /\ ~hud'.blocks
    BY <1>3, <1>t, <1>p, PanelSteps DEF PanelTimer, PanelFits
  <2> QED
    BY <1>3, <1>p, <2>1, StayPanel DEF PanelTimer, PlacesFit, WriteDue, accounts
\* A page with a button to another: a panel that blocks on it has a timer.
<1>4. ASSUME NEW q \in Page, Move(q) PROVE PanelInv'
  <2>1. /\ Present(q, op, hud) /\ ~(hud.blocks /\ hud.over = 0)
        /\ <<page, q>> \in Moves /\ UNCHANGED accounts
    BY <1>4 DEF Move, MayTap, Blocks
  <2>2. \/ page = "logIn" /\ q = "reset"
        \/ page = "welcome" /\ q \in {"signUp", "logIn"}
        \/ page = "reset" /\ q = "welcome"
        \/ page = "profile" /\ q = "edit"
        \/ page = "edit" /\ q = "family"
    BY <2>1 DEF Moves
  <2>3. q \in Dismissible /\ hud.blocks => hud.timers > 0
    BY <1>p, <2>1, <2>2 DEF PanelDue, Dismissible
  <2> QED
    BY <1>t, <1>p, <2>1, <2>2, <2>3, PresentPanel DEF accounts
<1>5. ASSUME NEW q \in Page, Dismiss(q) PROVE PanelInv'
  <2>1. /\ hud' = Uncovered(hud) /\ page' = q /\ below' = below \ {q}
        /\ ~(hud.blocks /\ hud.over = 0) /\ q \in below /\ unwritten' = unwritten
        /\ q = "welcome" => "signUp" \notin below
        /\ page \in Dismissible
    BY <1>5 DEF Dismiss, MayTap, Blocks, accounts
  <2>2. \A t \in Task : /\ op'[t].stage = op[t].stage
                        /\ op'[t].account = op[t].account
                        /\ op'[t].page \in {op[t].page, "gone"}
    <3>1. \A t \in Task : /\ [op[t] EXCEPT !.page = "gone"].stage = op[t].stage
                          /\ [op[t] EXCEPT !.page = "gone"].account = op[t].account
                          /\ [op[t] EXCEPT !.page = "gone"].page = "gone"
      BY <1>t DEF Operation
    <3> QED
      BY <1>5, <3>1 DEF Dismiss
  <2>3. PlacesFit(op)' /\ WriteDue(op)'
    BY <1>p, <2>1, <2>2 DEF PlacesFit, WriteDue
  <2>4. StackInv'
    BY <1>p, <2>1 DEF StackInv, Dismissible
  <2>5. /\ PanelFits(hud)' /\ hud'.timers = hud.timers /\ hud'.blocks = hud.blocks
        /\ hud.over > 0 => hud'.over = hud.over - 1
    BY <1>t, <1>p, <2>1, PanelSteps DEF PanelFits
  <2>6. ASSUME hud.blocks PROVE PanelDue(hud, page, below, op)'
    <3>1. CASE hud.timers > 0
      BY <2>5, <3>1 DEF PanelDue
    <3>2. CASE /\ hud.over = 1 /\ page = "logIn" /\ "signUp" \in below
               /\ \E t \in Task : op[t].stage \in {"creating", "writing"}
      <4>1. page' = "signUp" /\ hud'.over = 0
        BY <1>p, <2>1, <2>5, <3>2 DEF StackInv
      <4>2. \E t \in Task : op'[t].stage \in {"creating", "writing"}
        BY <2>2, <3>2
      <4> QED
        BY <4>1, <4>2 DEF PanelDue
    <3>3. hud.over # 0
      BY <2>1, <2>6
    <3>4. PanelDue(hud, page, below, op)
      BY <1>p, <2>6
    <3> QED
      BY <3>1, <3>2, <3>3, <3>4 DEF PanelDue
  <2> QED
    BY <2>3, <2>4, <2>5, <2>6 DEF PanelInv
<1>6. CASE ProfileTapped \/ TimelineTapped
  <2>1. /\ page \in {"main", "profile"} /\ page' \in {"main", "profile"}
        /\ page' = "main" => check' # "unloaded"
        /\ UNCHANGED <<below, op, hud, unwritten>>
    BY <1>6 DEF ProfileTapped, TimelineTapped, accounts
  <2> QED
    BY <1>p, <2>1
       DEF PanelInv, StackInv, PlacesFit, WriteDue, PanelFits, PanelDue, Dismissible
<1>7. CASE FieldsRefused
  <2>1. Show(hud, FALSE) \in Panel /\ PanelFits(Show(hud, FALSE))
    BY <1>t, <1>p, PanelType, PanelSteps
  <2>2. PanelFits(hud)' /\ hud'.timers > 0
    <3>1. \A h \in {hud, Show(hud, FALSE)} :
            PanelFits(ShowError(h)) /\ ShowError(h).timers > 0
      BY <1>t, <1>p, <2>1, PanelSteps
    <3>2. hud' \in {ShowError(hud), ShowError(Show(hud, FALSE))}
      BY <1>7 DEF FieldsRefused
    <3> HIDE DEF ShowError, Show
    <3> QED
      BY <3>1, <3>2 DEF PanelFits
  <2> QED
    BY <1>7, <1>p, <2>2, StayPanel
       DEF FieldsRefused, PlacesFit, WriteDue, PanelDue, accounts
<1>8. CASE FamilyChecked
  <2>1. CASE Present("family", op, hud)
    BY <1>8, <2>1, <1>t, <1>p, PresentPanel DEF FamilyChecked, accounts, Page, Dismissible
  <2>2. CASE check' # "unloaded" /\ UNCHANGED <<page, below, op, hud>>
    BY <1>8, <1>p, <2>2
       DEF FamilyChecked, PanelInv, StackInv, PlacesFit, WriteDue, PanelFits, PanelDue,
           accounts
  <2> QED
    BY <1>8, <2>1, <2>2 DEF FamilyChecked
<1>9. CASE FamilyEntered
  <2>1. ShowSuccess(hud, FALSE) \in Panel /\ PanelFits(ShowSuccess(hud, FALSE))
    BY <1>t, <1>p, PanelType, PanelSteps
  <2> QED
    BY <1>9, <1>t, <1>p, <2>1, PresentPanel DEF FamilyEntered, Page, Dismissible
<1>10. CASE FamilyUnread
  BY <1>10, <1>p
     DEF FamilyUnread, PanelInv, StackInv, PlacesFit, WriteDue, PanelFits, PanelDue,
         accounts
<1>11. CASE LogoutTapped
  BY <1>11, <1>t, <1>p, PresentPanel DEF LogoutTapped, accounts, Page, Dismissible
<1> QED
  BY <1>1, <1>2, <1>3, <1>4, <1>5, <1>6, <1>7, <1>8, <1>9, <1>10, <1>11

LEMMA PanelGesture ==
  ASSUME Inv, PanelInv, NEW t \in Task, Gesture(t) PROVE PanelInv'
<1>t. /\ TypeOK /\ hud \in Panel /\ op \in [Task -> Operation]
      /\ hud.over \in Nat /\ hud.timers \in Nat
  BY DEF Inv, TypeOK, Panel
<1>p. /\ StackInv /\ PlacesFit(op) /\ WriteDue(op) /\ PanelFits(hud)
      /\ hud.blocks => PanelDue(hud, page, below, op)
  BY DEF PanelInv
<1>s. \A s \in Stage, a \in Account \cup {Nobody} :
        /\ Started(t, s, a) \in [Task -> Operation]
        /\ Started(t, s, a)[t] = [stage |-> s, account |-> a, page |-> page]
        /\ \A u \in Task \ {t} : Started(t, s, a)[u] = op[u]
  BY <1>t, OperationType
\* A stage of its own page fits there, and an idle task takes part in no sign up.
<1>f. ASSUME NEW s \in Stage, NEW a \in Account \cup {Nobody}, op[t].stage = "idle",
             s \notin {"writing", "success", "querying"},
             s = "creating" => page = "signUp", s = "signing" => page = "logIn"
      PROVE  LET o == Started(t, s, a)
             IN  /\ o \in [Task -> Operation] /\ PlacesFit(o) /\ WriteDue(o)
                 /\ o[t].stage = s
                 /\ PanelDue(hud, page, below, op) => PanelDue(hud, page, below, o)
  <2> DEFINE o == Started(t, s, a)
  <2>1. /\ o[t].stage = s /\ o[t].account = a /\ o[t].page = page
        /\ \A u \in Task \ {t} : o[u] = op[u]
        /\ o \in [Task -> Operation]
    <3>1. /\ o[t] = [stage |-> s, account |-> a, page |-> page]
          /\ \A u \in Task \ {t} : o[u] = op[u]
          /\ o \in [Task -> Operation]
      BY <1>f, <1>s
    <3> HIDE DEF o
    <3> QED
      BY <3>1
  <2> HIDE DEF o
  <2>2. PlacesFit(o) /\ WriteDue(o)
    BY <1>p, <1>f, <2>1 DEF PlacesFit, WriteDue
  <2>3. ASSUME NEW u \in Task, op[u].stage \in {"creating", "writing"}
        PROVE  o[u].stage \in {"creating", "writing"}
    BY <1>f, <2>1, <2>3
  <2>4. PanelDue(hud, page, below, op) => PanelDue(hud, page, below, o)
    BY <2>3 DEF PanelDue
  <2> QED
    BY <2>1, <2>2, <2>4 DEF o
<1>1. ASSUME NEW a \in Account, SignUpTapped(t, a) PROVE PanelInv'
  <2>1. /\ op[t].stage = "idle" /\ page = "signUp" /\ op' = Started(t, "creating", a)
        /\ hud' = Show(hud, FALSE) /\ UNCHANGED <<unwritten, pages>>
    BY <1>1 DEF SignUpTapped, At, accounts
  <2>2. /\ PlacesFit(op)' /\ WriteDue(op)' /\ op'[t].stage = "creating"
        /\ PanelDue(hud, page, below, op) => PanelDue(hud, page, below, op')
    <3>1. LET o == Started(t, "creating", a)
          IN  /\ PlacesFit(o) /\ WriteDue(o) /\ o[t].stage = "creating"
              /\ PanelDue(hud, page, below, op) => PanelDue(hud, page, below, o)
      BY <1>f, <2>1 DEF Stage
    <3> HIDE DEF Started
    <3> QED
      BY <2>1, <3>1 DEF PlacesFit, WriteDue
  <2>3. /\ PanelFits(hud)' /\ (hud.blocks => hud' = hud)
        /\ ~hud.blocks /\ hud'.blocks => hud'.over = 0
    BY <1>t, <1>p, <2>1, PanelSteps DEF PanelFits
  <2>4. ASSUME hud'.blocks PROVE PanelDue(hud', page, below, op')
    <3>1. CASE hud.blocks
      BY <1>p, <2>2, <2>3, <3>1
    <3>2. CASE ~hud.blocks
      BY <2>1, <2>2, <2>3, <2>4, <3>2 DEF PanelDue
    <3> QED
      BY <3>1, <3>2
  <2> QED
    BY <2>1, <2>2, <2>3, <2>4, StayPanel
<1>2. ASSUME NEW a \in Account, LogInTapped(t, a) PROVE PanelInv'
  <2>1. /\ op[t].stage = "idle" /\ page = "logIn" /\ op' = Started(t, "signing", a)
        /\ hud' = Show(hud, FALSE) /\ UNCHANGED <<unwritten, pages>>
    BY <1>2 DEF LogInTapped, At, accounts
  <2>2. /\ PlacesFit(op)' /\ WriteDue(op)'
        /\ PanelDue(hud, page, below, op) => PanelDue(hud, page, below, op')
    <3>1. LET o == Started(t, "signing", a)
          IN  /\ PlacesFit(o) /\ WriteDue(o)
              /\ PanelDue(hud, page, below, op) => PanelDue(hud, page, below, o)
      BY <1>f, <2>1 DEF Stage
    <3> HIDE DEF Started
    <3> QED
      BY <2>1, <3>1 DEF PlacesFit, WriteDue
  <2>3. /\ PanelFits(hud)' /\ (hud.blocks => hud' = hud)
        /\ ~hud.blocks /\ hud'.blocks => hud'.over = 0
    BY <1>t, <1>p, <2>1, PanelSteps DEF PanelFits
  <2>4. ASSUME hud'.blocks PROVE PanelDue(hud', page, below, op')
    <3>1. CASE hud.blocks
      BY <1>p, <2>2, <2>3, <3>1
    <3>2. CASE ~hud.blocks
      BY <2>1, <2>3, <2>4, <3>2 DEF PanelDue
    <3> QED
      BY <3>1, <3>2
  <2> QED
    BY <2>1, <2>2, <2>3, <2>4, StayPanel
<1>3. CASE ResetTapped(t)
  <2> DEFINE o == Started(t, "resetting", Nobody)
  <2>1. /\ op[t].stage = "idle" /\ page = "reset" /\ Present("logIn", o, hud)
        /\ unwritten' = unwritten
    BY <1>3 DEF ResetTapped, At, accounts
  <2>2. o \in [Task -> Operation] /\ PlacesFit(o) /\ WriteDue(o)
    BY <1>f, <2>1 DEF Stage
  <2>3. hud.blocks => hud.timers > 0
    BY <1>p, <2>1 DEF PanelDue
  <2> HIDE DEF o
  <2> QED
    BY <1>t, <1>p, <2>1, <2>2, <2>3, PresentPanel DEF Page
<1>4. CASE PictureSaved(t)
  <2>1. /\ op[t].stage = "idle" /\ page = "edit"
        /\ op' = Started(t, "uploading", signedIn)
        /\ hud' = Show(Show(hud, TRUE), FALSE) /\ UNCHANGED <<unwritten, pages>>
        /\ signedIn \in Account \cup {Nobody}
    BY <1>4, <1>t DEF PictureSaved, At, accounts, TypeOK
  <2>2. /\ PlacesFit(op)' /\ WriteDue(op)'
        /\ PanelDue(hud, page, below, op) => PanelDue(hud, page, below, op')
    <3>1. LET o == Started(t, "uploading", signedIn)
          IN  /\ PlacesFit(o) /\ WriteDue(o)
              /\ PanelDue(hud, page, below, op) => PanelDue(hud, page, below, o)
      BY <1>f, <2>1 DEF Stage
    <3> HIDE DEF Started
    <3> QED
      BY <2>1, <3>1 DEF PlacesFit, WriteDue
  \* Showing twice blocks no more than showing once: the first panel does not.
  <2>3. PanelFits(hud)' /\ (hud'.blocks => hud.blocks /\ hud' = hud)
    <3> DEFINE h == Show(hud, TRUE)
    <3>1. h \in Panel /\ PanelFits(h) /\ h.up /\ (hud.blocks => h = hud)
          /\ ~(~hud.blocks /\ h.blocks)
      <4>1. h.up
        BY <1>t DEF Show, Panel
      <4> HIDE DEF Show
      <4> QED
        BY <1>t, <1>p, <4>1, PanelType, PanelSteps
    <3>2. Show(h, FALSE) = h
      BY <3>1 DEF Show
    <3>3. hud' = h
      BY <2>1, <3>2
    <3> HIDE DEF h
    <3> QED
      BY <3>1, <3>3 DEF PanelFits
  <2> QED
    BY <1>p, <2>1, <2>2, <2>3, StayPanel
<1>5. CASE TextSaved(t)
  <2>1. /\ op[t].stage = "idle" /\ page = "edit"
        /\ op' = Started(t, "saved", signedIn)
        /\ hud' = ShowSuccess(Show(hud, TRUE), FALSE) /\ UNCHANGED <<unwritten, pages>>
        /\ signedIn \in Account \cup {Nobody}
    BY <1>5, <1>t DEF TextSaved, At, accounts, TypeOK
  <2>2. PlacesFit(op)' /\ WriteDue(op)'
    <3>1. PlacesFit(Started(t, "saved", signedIn)) /\ WriteDue(Started(t, "saved", signedIn))
      BY <1>f, <2>1 DEF Stage
    <3> HIDE DEF Started
    <3> QED
      BY <2>1, <3>1 DEF PlacesFit, WriteDue
  <2>3. PanelFits(hud)' /\ hud'.timers > 0
    <3>1. Show(hud, TRUE) \in Panel /\ PanelFits(Show(hud, TRUE))
      BY <1>t, <1>p, PanelType, PanelSteps
    <3> HIDE DEF Show
    <3> QED
      BY <2>1, <3>1, PanelSteps DEF PanelFits
  <2> QED
    BY <2>1, <2>2, <2>3, StayPanel DEF PanelDue
<1> QED
  BY <1>1, <1>2, <1>3, <1>4, <1>5 DEF Gesture

LEMMA PanelCallback ==
  ASSUME Inv, PanelInv, NEW t \in Task, Callback(t) PROVE PanelInv'
<1>t. /\ TypeOK /\ hud \in Panel /\ op \in [Task -> Operation]
      /\ hud.over \in Nat /\ hud.timers \in Nat
  BY DEF Inv, TypeOK, Panel
<1>p. /\ StackInv /\ PlacesFit(op) /\ WriteDue(op) /\ PanelFits(hud)
      /\ hud.blocks => PanelDue(hud, page, below, op)
  BY DEF PanelInv
<1>e. /\ Ended(t)[t] = Idle
      /\ \A u \in Task \ {t} : Ended(t)[u] = op[u]
      /\ PlacesFit(Ended(t)) /\ WriteDue(Ended(t))
  <2>1. /\ Ended(t)[t] = Idle
        /\ \A u \in Task \ {t} : Ended(t)[u] = op[u]
    BY <1>t, OperationType
  <2> HIDE DEF Ended
  <2> QED
    BY <1>p, <2>1 DEF PlacesFit, WriteDue, Idle
<1>g. \A s \in Stage : GoTo(t, s) =>
        /\ op'[t].stage = s /\ op'[t].account = op[t].account
        /\ op'[t].page = op[t].page
        /\ \A u \in Task \ {t} : op'[u] = op[u]
  BY <1>t, OperationType
<1>1. CASE Created(t)
  <2>1. /\ op[t].stage = "creating" /\ unwritten' = unwritten \cup {op[t].account}
        /\ op'[t].stage = "writing" /\ op'[t].account = op[t].account
        /\ op'[t].page = op[t].page
        /\ \A u \in Task \ {t} : op'[u] = op[u]
        /\ UNCHANGED <<pages, hud>>
    BY <1>1, <1>g DEF Created, At, Stage
  <2>2. PlacesFit(op)' /\ WriteDue(op)'
    BY <1>p, <2>1 DEF PlacesFit, WriteDue
  <2>3. hud.blocks => PanelDue(hud, page, below, op')
    BY <1>p, <2>1 DEF PanelDue
  <2> QED
    BY <1>p, <2>1, <2>2, <2>3, StayPanel DEF PanelFits
<1>2. CASE NotCreated(t) \/ NotLoggedIn(t)
  <2>1. op' = Ended(t) /\ hud' = ShowError(hud) /\ UNCHANGED <<unwritten, pages>>
    BY <1>2 DEF NotCreated, NotLoggedIn, accounts
  <2>2. PanelFits(hud)' /\ hud'.timers > 0
    BY <1>t, <1>p, <2>1, PanelSteps DEF PanelFits
  <2> QED
    BY <1>e, <2>1, <2>2, StayPanel DEF PanelDue, PlacesFit, WriteDue
\* The panel of a log in that found no document stays, and so does the page.
<1>3. CASE UserNotFound(t) \/ PictureLost(t) \/ ResetAnswered(t)
  <2>1. /\ op' = Ended(t) /\ hud' \in {hud, ShowError(hud)}
        /\ op[t].stage \notin {"creating", "writing"} /\ UNCHANGED <<unwritten, pages>>
    BY <1>3 DEF UserNotFound, PictureLost, ResetAnswered, At, accounts
  <2>2. PlacesFit(op)' /\ WriteDue(op)'
    BY <1>e, <2>1 DEF PlacesFit, WriteDue
  <2>3. PanelDue(hud, page, below, op) => PanelDue(hud, page, below, op')
    <3>1. \A u \in Task : op[u].stage \in {"creating", "writing"} => op'[u] = op[u]
      BY <1>e, <2>1
    <3> QED
      BY <3>1 DEF PanelDue
  <2>4. CASE hud' = hud
    BY <1>p, <2>1, <2>2, <2>3, <2>4, StayPanel
  <2>5. CASE hud' = ShowError(hud)
    <3>1. PanelFits(hud)' /\ hud'.timers > 0
      BY <1>t, <1>p, <2>5, PanelSteps DEF PanelFits
    <3> QED
      BY <2>1, <2>2, <3>1, StayPanel DEF PanelDue
  <2> QED
    BY <2>1, <2>4, <2>5
<1>4. CASE SignedUp(t)
  <2>1. op[t].page = page => page = "signUp"
    BY <1>4, <1>p, <1>t DEF SignedUp, At, PlacesFit, TypeOK, Page
  <2> QED
    BY <1>4, <1>t, <2>1, PresentFromPanel DEF SignedUp, At, Page
<1>5. CASE LoggedIn(t)
  <2>1. /\ op[t].stage = "signing" /\ op'[t].stage = "querying"
        /\ op'[t].page = op[t].page
        /\ \A u \in Task \ {t} : op'[u] = op[u]
        /\ UNCHANGED <<unwritten, pages, hud>>
    BY <1>5, <1>g DEF LoggedIn, At, Stage, accounts
  <2>2. PlacesFit(op)' /\ WriteDue(op)'
    BY <1>p, <2>1 DEF PlacesFit, WriteDue
  <2>3. hud.blocks => PanelDue(hud, page, below, op')
    <3>1. \A u \in Task : op[u].stage \in {"creating", "writing"} => op'[u] = op[u]
      BY <2>1
    <3> QED
      BY <1>p, <3>1 DEF PanelDue
  <2> QED
    BY <1>p, <2>1, <2>2, <2>3, StayPanel DEF PanelFits
<1>6. CASE UserFound(t)
  <2>1. PICK p \in {"main", "family"} : PresentFrom(t, p)
    BY <1>6 DEF UserFound
  <2> QED
    BY <1>6, <1>t, <2>1, PresentFromPanel DEF UserFound, At, Page
<1>7. CASE PictureUploaded(t)
  <2>1. /\ op[t].stage = "uploading" /\ op'[t].stage = "saved"
        /\ \A u \in Task \ {t} : op'[u] = op[u]
        /\ hud' = ShowSuccess(hud, FALSE) /\ UNCHANGED <<unwritten, pages>>
    BY <1>7, <1>g DEF PictureUploaded, At, Stage
  <2>2. PlacesFit(op)' /\ WriteDue(op)'
    BY <1>p, <2>1 DEF PlacesFit, WriteDue
  <2>3. PanelFits(hud)' /\ hud'.timers > 0
    BY <1>t, <1>p, <2>1, PanelSteps DEF PanelFits
  <2> QED
    BY <2>1, <2>2, <2>3, StayPanel DEF PanelDue
<1>8. CASE Saved(t)
  BY <1>8, <1>t, PresentFromPanel DEF Saved, At, Page
<1> QED
  BY <1>1, <1>2, <1>3, <1>4, <1>5, <1>6, <1>7, <1>8 DEF Callback

\* The answer to a write wakes all who wait for it, and shows them a success.
LEMMA PanelServer ==
  ASSUME Inv, PanelInv, NEW a \in Account, Server(a) PROVE PanelInv'
<1>t. /\ TypeOK /\ hud \in Panel /\ op \in [Task -> Operation]
      /\ hud.over \in Nat /\ hud.timers \in Nat
  BY DEF Inv, TypeOK, Panel
<1>p. /\ StackInv /\ PlacesFit(op) /\ WriteDue(op) /\ PanelFits(hud)
      /\ hud.blocks => PanelDue(hud, page, below, op)
  BY DEF PanelInv
<1>1. PICK h \in Panel : Answered(a, h) /\ PanelFits(h)
  <2>1. ShowError(hud) \in Panel /\ PanelFits(ShowError(hud))
    BY <1>t, <1>p, PanelType, PanelSteps
  <2> QED
    BY <1>t, <1>p, <2>1 DEF Server, Written, NotWritten
<1>2. unwritten' = unwritten \ {a} /\ UNCHANGED pages
  BY DEF Server, Written, NotWritten
<1>3. \A t \in Task :
        IF t \in Waiting(a)
        THEN /\ op[t].stage = "writing" /\ op'[t].stage = "success"
             /\ op'[t].page = op[t].page
        ELSE op'[t] = op[t]
  <2>1. \A t \in Task : /\ [op[t] EXCEPT !.stage = "success"].stage = "success"
                        /\ [op[t] EXCEPT !.stage = "success"].page = op[t].page
    BY <1>t DEF Operation
  <2> QED
    BY <1>1, <2>1 DEF Answered, Waiting, At
<1>4. PlacesFit(op)' /\ WriteDue(op)'
  BY <1>p, <1>2, <1>3 DEF PlacesFit, WriteDue, Waiting, At
<1>5. CASE Waiting(a) = {}
  <2>1. hud' = hud /\ op' = [t \in Task |-> op[t]]
    BY <1>1, <1>5 DEF Answered
  <2>2. hud.blocks => PanelDue(hud, page, below, op')
    BY <1>p, <1>3, <1>5 DEF PanelDue
  <2> QED
    BY <1>2, <1>4, <1>p, <2>1, <2>2, StayPanel DEF PanelFits
<1>6. CASE Waiting(a) # {}
  <2>1. PanelFits(hud)' /\ hud'.timers > 0
    BY <1>1, <1>6, PanelSteps DEF Answered, PanelFits
  <2> QED
    BY <1>2, <1>4, <2>1, StayPanel DEF PanelDue
<1> QED
  BY <1>5, <1>6

LEMMA PanelInvNext == Inv /\ PanelInv /\ [Next]_vars => PanelInv'
<1> SUFFICES ASSUME Inv, PanelInv, [Next]_vars PROVE PanelInv'
  OBVIOUS
<1>1. CASE \E t \in Task : Gesture(t) \/ Callback(t)
  BY <1>1, PanelGesture, PanelCallback
<1>2. CASE \E a \in Account : Server(a)
  BY <1>2, PanelServer
<1>3. CASE UNCHANGED vars
  BY <1>3 DEF vars, accounts, pages, PanelInv, StackInv, PlacesFit, WriteDue, PanelFits,
              PanelDue
<1> QED
  BY <1>1, <1>2, <1>3, PanelMoves DEF Next

LEMMA SessionInvariant == Spec => [](Inv /\ PanelInv)
BY InvInit, InvNext, PanelInvInit, PanelInvNext, PTL DEF Spec

\* Who is on the timeline without a family waits for its check, or its answer was
\* an error, or came when the family page could not be shown: a check that is over
\* in any other way found a family or no document, and no timeline is on top that
\* has not asked.
THEOREM AlwaysFamilyOnMain == Spec => []FamilyOnMain
<1>1. Inv /\ PanelInv => FamilyOnMain
  <2> SUFFICES ASSUME Inv, PanelInv, page = "main", SeenDoc(asker) = "noFamily"
               PROVE  check \in {"asked", "lost", "unread"}
    BY DEF FamilyOnMain
  <2>1. check \in Check /\ check # "done"
    BY DEF Inv, TypeOK, CheckedInv
  <2>2. check # "unloaded"
    BY DEF PanelInv, StackInv
  <2> QED
    BY <2>1, <2>2 DEF Check
<1> QED
  BY SessionInvariant, <1>1, PTL

\* A sign up that waits for its document has its write still to be answered, and
\* the server has not seen that document: no answer passes it by, however many
\* operations are under way and whichever pages were left.
THEOREM EveryWaitAnswered ==
  Spec => [](\A t \in Task : At(t, "writing") => /\ op[t].account \in unwritten
                                                 /\ op[t].account \in registered
                                                 /\ doc[op[t].account] = "none")
<1>1. Inv /\ PanelInv =>
        \A t \in Task : At(t, "writing") => /\ op[t].account \in unwritten
                                            /\ op[t].account \in registered
                                            /\ doc[op[t].account] = "none"
  BY DEF PanelInv, WriteDue, At, Inv, DocumentInv
<1> QED
  BY SessionInvariant, <1>1, PTL

\* The safety half of Unblocked: whenever a panel keeps the user from the page, a
\* timer is due that takes it away, or the page is that of a sign up which is
\* under way and will start one, or it is the log in page.
THEOREM NobodyBlockedForNothing ==
  Spec => [](Blocks(hud) =>
               \/ hud.timers > 0
               \/ page = "logIn"
               \/ /\ page = "signUp"
                  /\ \E t \in Task : At(t, "creating") \/ At(t, "writing"))
<1>1. Inv /\ PanelInv => (Blocks(hud) =>
               \/ hud.timers > 0
               \/ page = "logIn"
               \/ /\ page = "signUp"
                  /\ \E t \in Task : At(t, "creating") \/ At(t, "writing"))
  BY DEF Inv, TypeOK, Panel, PanelInv, PanelDue, Blocks, At
<1> QED
  BY SessionInvariant, <1>1, PTL

\* Dismissing a page leads back to one page only, so that the set of the pages
\* below it says as much as the stack UIKit keeps.
THEOREM OneWayBack ==
  Spec => [](\A q, r \in below : /\ q = "welcome" => "signUp" \notin below
                                 /\ r = "welcome" => "signUp" \notin below
                                 => q = r)
<1>1. Inv /\ PanelInv =>
        \A q, r \in below : /\ q = "welcome" => "signUp" \notin below
                            /\ r = "welcome" => "signUp" \notin below
                            => q = r
  BY DEF Inv, TypeOK, Page, PanelInv, StackInv, Dismissible
<1> QED
  BY SessionInvariant, <1>1, PTL
===============================================================================
