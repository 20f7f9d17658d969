-------------------------------- MODULE Session -------------------------------
(***************************************************************************)
(* Which page of the app is up and who is signed in, on one device:        *)
(* LaunchScreen, the welcome page, SignUp, LogIn, ResetPassword, the       *)
(* family pages, two tabs of the main page (the timeline and the profile), *)
(* and EditProfile, where a picture is uploaded and users log out.         *)
(*                                                                         *)
(* Firebase Auth keeps the signed-in account across restarts; createUser   *)
(* signs the new account in.  The document of a new account is a write     *)
(* that survives a restart while the server has not answered it, and that  *)
(* the device's own reads see.                                             *)
(*                                                                         *)
(* An operation goes on when its page is left: only the panel keeps the    *)
(* user there, and it does not always block (module ProgressHUD).  A page  *)
(* that is covered by another, or was dismissed, cannot present a page.    *)
(*                                                                         *)
(* Left out: which fields and e-mails are accepted; the name, date and     *)
(* text of a profile (see WriteProfile of AuthoredRows); the tab of the    *)
(* channels; the panels of the family pages but for that of a success.     *)
(***************************************************************************)
EXTENDS ProgressHUD

CONSTANTS Account, Nobody,
          Task,        \* bound: the operations that may be under way at a time
          MaxTimers,   \* bound: nobody taps with so many timers of panels due
          Fails        \* whether requests may fail and a write be refused

ASSUME NobodyAssumption == Nobody \notin Account
ASSUME FailsAssumption == Fails \in BOOLEAN
ASSUME MaxTimersAssumption == MaxTimers \in Nat

VARIABLES
  registered,   \* the accounts Firebase Auth knows
  doc,          \* doc[a]: the document Users/a: none, or with or without family
  unwritten,    \* the accounts whose first document the server has not answered
  mixed,        \* the accounts whose profile shows the avatar of another
  signedIn,     \* the current user of Auth, or Nobody
  page,         \* the page on top
  below,        \* the pages under it that are there again when it is dismissed
  check,        \* the check of the family by the timeline of the main page
  asker,        \* the account that was signed in when it was asked, or Nobody
  op,           \* op[t]: a sign up, log in, reset or save in progress
  hud           \* the panel

accounts == <<registered, doc, unwritten, mixed>>
pages == <<page, below, check, asker>>
vars == <<accounts, signedIn, pages, op, hud>>

\* main: the tab of the timeline; profile: that of the user's profile.
Page == {"launch", "welcome", "signUp", "logIn", "reset", "family", "main",
         "profile", "edit"}
\* The pages with a button that dismisses them.
Dismissible == {"signUp", "logIn", "edit"}
Doc == {"none", "noFamily", "family"}
Stage == {"idle", "creating", "writing", "success", "signing", "querying",
          "resetting", "uploading", "saved"}
\* The timeline asks once it is loaded, when its tab is first selected.  lost:
\* the family page should have come and was not shown; unread: the answer was an
\* error.
Check == {"unloaded", "asked", "done", "lost", "unread"}
\* page: where the operation began, or gone once that page has been dismissed or
\* lies under a page that stays.
Operation == [stage : Stage, account : Account \cup {Nobody},
              page : Page \cup {"gone"}]

Idle == [stage |-> "idle", account |-> Nobody, page |-> "gone"]

TypeOK == /\ registered \in SUBSET Account
          /\ doc \in [Account -> Doc]
          /\ unwritten \in SUBSET Account
          /\ mixed \in SUBSET Account
          /\ signedIn \in Account \cup {Nobody}
          /\ page \in Page
          /\ below \in SUBSET Page
          /\ check \in Check
          /\ asker \in Account \cup {Nobody}
          /\ op \in [Task -> Operation]
          /\ hud \in Panel

\* The app is used for the first time on this device; accounts may have been
\* made on other devices.
Init == /\ registered \in SUBSET Account
        /\ doc \in {d \in [Account -> Doc] :
                      \A a \in Account : d[a] # "none" => a \in registered}
        /\ unwritten = {}
        /\ mixed = {}
        /\ signedIn = Nobody
        /\ page = "launch"
        /\ below = {}
        /\ check = "unloaded"
        /\ asker = Nobody
        /\ op = [t \in Task |-> Idle]
        /\ hud = NoPanel

At(t, s) == op[t].stage = s
GoTo(t, s) == op' = [op EXCEPT ![t].stage = s]
Started(t, s, a) == [op EXCEPT ![t] = [stage |-> s, account |-> a, page |-> page]]
Ended(t) == [op EXCEPT ![t] = Idle]

\* The document of a as the device reads it.
SeenDoc(a) == IF a \in unwritten THEN "noFamily" ELSE doc[a]

\* The page p comes up, when the operations are o and the panel is h.  Under a
\* page that stays nothing is ever seen again.  A main page asks for the family
\* of the user when its timeline is loaded.
Present(p, o, h) ==
  /\ page' = p
  /\ IF p \in Dismissible
     THEN /\ below' = below \cup {page}
          /\ op' = o
          /\ hud' = Covered(h)
          /\ UNCHANGED <<check, asker>>
     ELSE /\ below' = {}
          /\ op' = [t \in Task |-> [o[t] EXCEPT !.page = "gone"]]
          /\ hud' = Buried(h)
          /\ check' = IF p = "main" THEN "asked" ELSE "unloaded"
          /\ asker' = IF p = "main" THEN signedIn ELSE Nobody

\* The end of an operation presents p, which UIKit refuses unless the page it
\* began on is the one on top.
PresentFrom(t, p) ==
  \/ /\ op[t].page = page
     /\ Present(p, Ended(t), hud)
  \/ /\ op[t].page # page
     /\ op' = Ended(t)
     /\ UNCHANGED <<pages, hud>>

\* The user can tap: no panel blocks the page.
MayTap == ~Blocks(hud) /\ hud.timers < MaxTimers

-------------------------------------------------------------------------------
(* Launching, and the timers of the panel *)

\* The app ends at any time and is started again.
Restart == /\ page' = "launch"
           /\ below' = {}
           /\ check' = "unloaded"
           /\ asker' = Nobody
           /\ op' = [t \in Task |-> Idle]
           /\ hud' = NoPanel
           /\ UNCHANGED <<accounts, signedIn>>

\* A second after the launch screen has appeared; nothing changes the current
\* user meanwhile.
LaunchTimer ==
  /\ page = "launch"
  /\ Present(IF signedIn # Nobody THEN "main" ELSE "welcome", op, hud)
  /\ UNCHANGED <<accounts, signedIn>>

PanelTimer == /\ hud.timers > 0
              /\ hud' = Hidden(hud)
              /\ UNCHANGED <<accounts, signedIn, pages, op>>

-------------------------------------------------------------------------------
(* Moving between the pages of the storyboard *)

Moves == {<<"welcome", "signUp">>, <<"welcome", "logIn">>,
          <<"logIn", "reset">>, <<"reset", "welcome">>,
          <<"profile", "edit">>, <<"edit", "family">>}

\* A button with a segue, or two of them (the list of families is passed over).
Move(q) == /\ <<page, q>> \in Moves
           /\ MayTap
           /\ Present(q, op, hud)
           /\ UNCHANGED <<accounts, signedIn>>

\* dismissPopup: the page and what began on it are gone.
Dismiss(q) ==
  /\ q \in below
  /\ MayTap
  /\ page \in Dismissible
  /\ (q = "welcome" => "signUp" \notin below)
  /\ page' = q
  /\ below' = below \ {q}
  /\ op' = [t \in Task |-> IF op[t].page = page
                           THEN [op[t] EXCEPT !.page = "gone"] ELSE op[t]]
  /\ hud' = Uncovered(hud)
  /\ UNCHANGED <<accounts, signedIn, check, asker>>

ProfileTapped ==
  /\ MayTap
  /\ page = "main"
  /\ page' = "profile"
  /\ UNCHANGED <<accounts, signedIn, below, check, asker, op, hud>>

\* The timeline is loaded when its tab is first selected.
TimelineTapped ==
  /\ MayTap
  /\ page = "profile"
  /\ page' = "main"
  /\ \/ check = "unloaded" /\ check' = "asked" /\ asker' = signedIn
     \/ check # "unloaded" /\ UNCHANGED <<check, asker>>
  /\ UNCHANGED <<accounts, signedIn, below, op, hud>>

\* Fields that are not accepted, by the pages to sign up and to reset.
FieldsRefused ==
  /\ MayTap
  /\ \/ page = "signUp" /\ hud' = ShowError(Show(hud, FALSE))
     \/ page = "reset" /\ hud' = ShowError(hud)
  /\ UNCHANGED <<accounts, signedIn, pages, op>>

\* The page to log in comes up at once, while the request is under way.
ResetTapped(t) ==
  /\ MayTap
  /\ page = "reset"
  /\ At(t, "idle")
  /\ Present("logIn", Started(t, "resetting", Nobody), hud)
  /\ UNCHANGED <<accounts, signedIn>>

ResetAnswered(t) ==
  /\ At(t, "resetting")
  /\ op' = Ended(t)
  /\ hud' \in {hud, ShowError(hud)}
  /\ UNCHANGED <<accounts, signedIn, pages>>

-------------------------------------------------------------------------------
(* Signing up *)

SignUpTapped(t, a) ==
  /\ MayTap
  /\ page = "signUp"
  /\ At(t, "idle")
  /\ op' = Started(t, "creating", a)
  /\ hud' = Show(hud, FALSE)
  /\ UNCHANGED <<accounts, signedIn, pages>>

\* Mutation of Created: the error of createUser is ignored, so that the
\* document of an account that exists is written anew.
CreatedAnyway(t) ==
  /\ At(t, "creating")
  /\ registered' = registered \cup {op[t].account}
  /\ signedIn' = op[t].account
  /\ unwritten' = unwritten \cup {op[t].account}
  /\ GoTo(t, "writing")
  /\ UNCHANGED <<doc, mixed, pages, hud>>

\* createUser signs the account in; its document is then written.
Created(t) ==
  /\ At(t, "creating")
  /\ op[t].account \notin registered
  /\ registered' = registered \cup {op[t].account}
  /\ signedIn' = op[t].account
  /\ unwritten' = unwritten \cup {op[t].account}
  /\ GoTo(t, "writing")
  /\ UNCHANGED <<doc, mixed, pages, hud>>

\* Mutation of NotCreated: no error is shown, and the panel stays.
NotCreatedQuietly(t) ==
  /\ At(t, "creating")
  /\ Fails \/ op[t].account \in registered
  /\ op' = Ended(t)
  /\ UNCHANGED <<accounts, signedIn, pages, hud>>

NotCreated(t) ==
  /\ At(t, "creating")
  /\ Fails \/ op[t].account \in registered
  /\ op' = Ended(t)
  /\ hud' = ShowError(hud)
  /\ UNCHANGED <<accounts, signedIn, pages>>

\* Who waits for the document of a: nobody after a restart.
Waiting(a) == {t \in Task : At(t, "writing") /\ op[t].account = a}

\* Mutation of Answered: the success is only told if the document was there.
AnsweredIfThere(a, h) ==
  /\ op' = [t \in Task |-> IF t \in Waiting(a) /\ doc[a] # "none"
                           THEN [op[t] EXCEPT !.stage = "success"] ELSE op[t]]
  /\ hud' = IF Waiting(a) = {} THEN hud ELSE ShowSuccess(h, FALSE)

\* The completion block of setData, with the panel in state h.
Answered(a, h) ==
  /\ op' = [t \in Task |-> IF t \in Waiting(a)
                           THEN [op[t] EXCEPT !.stage = "success"] ELSE op[t]]
  /\ hud' = IF Waiting(a) = {} THEN hud ELSE ShowSuccess(h, FALSE)

Written(a) ==
  /\ a \in unwritten
  /\ unwritten' = unwritten \ {a}
  /\ doc' = [doc EXCEPT ![a] = "noFamily"]
  /\ Answered(a, hud)
  /\ UNCHANGED <<registered, mixed, signedIn, pages>>

\* An error is shown, and then the success as well.
NotWritten(a) ==
  /\ Fails
  /\ a \in unwritten
  /\ unwritten' = unwritten \ {a}
  /\ mixed' = mixed \ {a}
  /\ Answered(a, ShowError(hud))
  /\ UNCHANGED <<registered, doc, signedIn, pages>>

\* A second after the success.
SignedUp(t) ==
  /\ At(t, "success")
  /\ PresentFrom(t, "logIn")
  /\ UNCHANGED <<accounts, signedIn>>

-------------------------------------------------------------------------------
(* Logging in *)

LogInTapped(t, a) ==
  /\ MayTap
  /\ page = "logIn"
  /\ At(t, "idle")
  /\ op' = Started(t, "signing", a)
  /\ hud' = Show(hud, FALSE)
  /\ UNCHANGED <<accounts, signedIn, pages>>

LoggedIn(t) ==
  /\ At(t, "signing")
  /\ op[t].account \in registered
  /\ signedIn' = op[t].account
  /\ GoTo(t, "querying")
  /\ UNCHANGED <<accounts, pages, hud>>

\* No such account, a wrong password, no network.
NotLoggedIn(t) ==
  /\ At(t, "signing")
  /\ op' = Ended(t)
  /\ hud' = ShowError(hud)
  /\ UNCHANGED <<accounts, signedIn, pages>>

\* The query of Users by the e-mail found the document.  The panel stays up,
\* under the page that is presented.
UserFound(t) ==
  /\ At(t, "querying")
  /\ \/ SeenDoc(op[t].account) = "family" /\ PresentFrom(t, "main")
     \/ SeenDoc(op[t].account) = "noFamily" /\ PresentFrom(t, "family")
  /\ UNCHANGED <<accounts, signedIn>>

\* There is none, the e-mail was typed in other letters than in the document, or
\* the query failed: the panel stays and nothing is presented.
UserNotFound(t) ==
  /\ At(t, "querying")
  /\ op' = Ended(t)
  /\ UNCHANGED <<accounts, signedIn, pages, hud>>

-------------------------------------------------------------------------------
(* The main page *)

\* Mutation of FamilyChecked: nobody is sent to the family page.
FamilyNotChecked ==
  /\ check = "asked"
  /\ check' = "done"
  /\ UNCHANGED <<accounts, signedIn, page, below, asker, op, hud>>

\* getFamilyId of the timeline: a user without a family is sent to the family
\* page.  Behind EditProfile the timeline cannot present it; behind the tab of
\* the profile UIKit need not show it.
FamilyChecked ==
  /\ check = "asked"
  /\ \/ /\ SeenDoc(asker) # "noFamily"
        /\ check' = "done"
        /\ UNCHANGED <<page, below, asker, op, hud>>
     \/ /\ SeenDoc(asker) = "noFamily"
        /\ page # "edit"
        /\ Present("family", op, hud)
     \/ /\ SeenDoc(asker) = "noFamily"
        /\ page # "main"
        /\ check' = "lost"
        /\ UNCHANGED <<page, below, asker, op, hud>>
  /\ UNCHANGED <<accounts, signedIn>>

\* The document could not be read: nothing happens, and nothing asks again.
FamilyUnread ==
  /\ Fails
  /\ check = "asked"
  /\ check' = "unread"
  /\ UNCHANGED <<accounts, signedIn, page, below, asker, op, hud>>

\* The family page has created or joined a family (module FamilyPages).
FamilyEntered ==
  /\ MayTap
  /\ page = "family"
  /\ doc[signedIn] # "none"
  /\ doc' = [doc EXCEPT ![signedIn] = "family"]
  /\ Present("main", op, ShowSuccess(hud, FALSE))
  /\ UNCHANGED <<registered, unwritten, mixed, signedIn>>

-------------------------------------------------------------------------------
(* EditProfile *)

\* A picked picture is uploaded to Avatar/<uid>, then its URL is asked for.
\* The first panel lets the user go on, so that the second does not block.
PictureSaved(t) ==
  /\ MayTap
  /\ page = "edit"
  /\ At(t, "idle")
  /\ op' = Started(t, "uploading", signedIn)
  /\ hud' = Show(Show(hud, TRUE), FALSE)
  /\ UNCHANGED <<accounts, signedIn, pages>>

\* Without a picture, success is shown at once.
TextSaved(t) ==
  /\ MayTap
  /\ page = "edit"
  /\ At(t, "idle")
  /\ op' = Started(t, "saved", signedIn)
  /\ hud' = ShowSuccess(Show(hud, TRUE), FALSE)
  /\ UNCHANGED <<accounts, signedIn, pages>>

\* setCurrentUser: updating a missing document has no effect.
HasProfile == signedIn # Nobody /\ SeenDoc(signedIn) # "none"

\* The URL is written to the profile of whoever is signed in by now.  Success is
\* shown whether or not the write has an effect.
PictureUploaded(t) ==
  /\ At(t, "uploading")
  /\ \/ /\ HasProfile
        /\ mixed' = IF signedIn = op[t].account THEN mixed \ {signedIn}
                    ELSE mixed \cup {signedIn}
     \/ (~HasProfile \/ Fails) /\ UNCHANGED mixed
  /\ GoTo(t, "saved")
  /\ hud' = ShowSuccess(hud, FALSE)
  /\ UNCHANGED <<registered, doc, unwritten, signedIn, pages>>

\* The upload or the request for its URL fails: the panel stays.
PictureLost(t) ==
  /\ Fails
  /\ At(t, "uploading")
  /\ op' = Ended(t)
  /\ UNCHANGED <<accounts, signedIn, pages, hud>>

\* A second after the success: a new main page on the tab of the profile.
Saved(t) ==
  /\ At(t, "saved")
  /\ PresentFrom(t, "profile")
  /\ UNCHANGED <<accounts, signedIn>>

\* Mutation of LogoutTapped: the page stays up.
LogoutStaying ==
  /\ MayTap
  /\ page = "edit"
  /\ signedIn' = Nobody
  /\ UNCHANGED <<accounts, pages, op, hud>>

\* The welcome page is presented, even if signing out failed.
LogoutTapped ==
  /\ MayTap
  /\ page = "edit"
  /\ \/ signedIn' = Nobody
     \/ Fails /\ UNCHANGED signedIn
  /\ Present("welcome", op, hud)
  /\ UNCHANGED accounts

-------------------------------------------------------------------------------

\* The answer an operation waits for, unless it waits for its write.
Callback(t) == \/ Created(t) \/ NotCreated(t) \/ SignedUp(t)
               \/ LoggedIn(t) \/ NotLoggedIn(t) \/ UserFound(t) \/ UserNotFound(t)
               \/ PictureUploaded(t) \/ PictureLost(t) \/ Saved(t)
               \/ ResetAnswered(t)

Server(a) == Written(a) \/ NotWritten(a)

Gesture(t) == \/ \E a \in Account : SignUpTapped(t, a) \/ LogInTapped(t, a)
              \/ ResetTapped(t) \/ PictureSaved(t) \/ TextSaved(t)

Next == \/ Restart \/ LaunchTimer \/ PanelTimer
        \/ \E q \in Page : Move(q) \/ Dismiss(q)
        \/ ProfileTapped \/ TimelineTapped \/ FieldsRefused
        \/ FamilyChecked \/ FamilyUnread \/ FamilyEntered \/ LogoutTapped
        \/ \E t \in Task : Gesture(t) \/ Callback(t)
        \/ \E a \in Account : Server(a)

Spec == Init /\ [][Next]_vars

\* Timers fire and Firebase answers: the app is not ended for ever before they
\* do.  Nobody has to tap or to restart.
FairSpec == /\ Spec
            /\ WF_vars(LaunchTimer) /\ WF_vars(PanelTimer)
            /\ WF_vars(FamilyChecked \/ FamilyUnread)
            /\ \A t \in Task : WF_vars(Callback(t))
            /\ \A a \in Account : WF_vars(Server(a))

-------------------------------------------------------------------------------
(* Properties *)

\* The pages that unwrap the current user (TimelineViewController.swift:22, the
\* profile, EditProfileViewController.swift:170 and the family pages) are on top
\* only when somebody is signed in.
SomebodySignedIn ==
  page \in {"family", "main", "profile", "edit"} => signedIn # Nobody

\* TimelineViewController.swift:56-64, nobody without a family stays on the
\* timeline: whoever is there and has none waits for the check, or its answer was
\* an error, or the family page it asked for could not be shown.
FamilyOnMain ==
  page = "main" /\ SeenDoc(asker) = "noFamily" => check \in {"asked", "lost", "unread"}

\* User.swift:14, "the url of user's profile image in fire base": a profile never
\* shows the avatar of another account.
OwnPicture == mixed = {}

\* An account never loses its family, however signing up, restarting and the
\* late write of its first document interleave.
FamilyKept == [][\A a \in Account : doc[a] = "family" => doc'[a] = "family"]_doc

\* Signing up, logging in, resetting and saving end, also when their page is left.
OperationEnds == \A t \in Task : ~At(t, "idle") ~> At(t, "idle")

\* No page but LogIn blocks the user for ever: every other panel that blocks is
\* followed by a success or an error, whose timer takes it away.
Unblocked == Blocks(hud) ~> (~Blocks(hud) \/ page = "logIn")

\* LogInViewController.swift:32, "if success then sign in and move to the
\* timeline page": who signed in and stayed on the page gets to the timeline (or
\* the family page, or ends the app).
LogInMoves ==
  \A t \in Task : At(t, "querying") ~> page \in {"main", "family", "launch"}
===============================================================================
