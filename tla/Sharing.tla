-------------------------------- MODULE Sharing -------------------------------
(***************************************************************************)
(* Sharing a photo (MainPage/TimeLine/UploadViewController): a tap reads   *)
(* the current family of the user, then uploads the photo, asks for its    *)
(* URL, has the photo recognised, and saves the post.  The panel that is   *)
(* to keep the user from tapping again comes up only when the family was   *)
(* read, and blocks only if no other panel is up then (module              *)
(* ProgressHUD), so several shares may be under way.                       *)
(*                                                                         *)
(* Left out: picking the photo and writing the description; the author of  *)
(* the post, which is whoever is signed in when the photo is recognised:   *)
(* here the account stays the same.  (Session has what happens to an       *)
(* upload whose page is left by logging out.)                              *)
(***************************************************************************)
EXTENDS ProgressHUD, SharedPosts, FiniteSets

CONSTANTS NoFamily,         \* stands for a family that was not read yet
          Fails,            \* whether a read, an upload or a write may fail
          EncodingFails,    \* whether a photo may have no JPEG data
          RecognitionFails, \* whether Vision may come back without a result
          MaxSwitches,      \* bound: how often the user switches the family
          MaxTimers         \* bound: nobody taps with so many timers of panels due

ASSUME NoFamilyAssumption == NoFamily \notin Family
ASSUME FailsAssumption ==
  {Fails, EncodingFails, RecognitionFails} \subseteq BOOLEAN
ASSUME MaxSwitchesAssumption == MaxSwitches \in Nat
ASSUME MaxTimersAssumption == MaxTimers \in Nat

VARIABLES
  current,    \* the field familyId of the user
  stage,      \* stage[s]: how far the share s is
  target,     \* target[s]: the family the share s was given
  hud,        \* the panel
  gone,       \* the shares whose page was closed or lies under a page that stays
  switches    \* how often the family was switched

vars == <<current, stage, target, photos, posts, hud, gone, since, switches>>

Stage == {"idle", "reading", "uploading", "linking", "saving", "saved",
          "failed", "silent", "stuck", "done"}

TypeOK == /\ current \in Family
          /\ stage \in [Share -> Stage]
          /\ target \in [Share -> Family \cup {NoFamily}]
          /\ photos \in SUBSET Share
          /\ posts \in SUBSET Post
          /\ hud \in Panel
          /\ gone \in SUBSET Share
          /\ since \in [Share -> SUBSET Family]
          /\ switches \in 0..MaxSwitches

\* What earlier pages leave: LogIn its panel, up under the main page, and others the
\* timers of theirs.
PanelsLeft ==
  [up : BOOLEAN, blocks : {FALSE}, over : {0}, timers : 0..MaxTimers]

Init == /\ current \in Family
        /\ stage = [s \in Share |-> "idle"]
        /\ target = [s \in Share |-> NoFamily]
        /\ photos = {}
        /\ posts = {}
        /\ hud \in PanelsLeft
        /\ gone = {}
        /\ since = [s \in Share |-> {}]
        /\ switches = 0

Step(s, from, to) == /\ stage[s] = from
                     /\ stage' = [stage EXCEPT ![s] = to]

\* The user can tap: no panel blocks the page.
MayTap == ~Blocks(hud) /\ hud.timers < MaxTimers

ShareTapped(s) ==
  /\ MayTap
  /\ Step(s, "idle", "reading")
  /\ since' = [since EXCEPT ![s] = {current}]
  /\ UNCHANGED <<current, target, photos, posts, hud, gone, switches>>

\* No photo was picked, or the description is missing.
ShareRefused ==
  /\ MayTap
  /\ hud' = ShowError(hud)
  /\ UNCHANGED <<current, stage, target, photos, posts, gone, since, switches>>

\* The shares that were tapped: those of a page that is left.
Tapped == {s \in Share : stage[s] # "idle"}

\* dismissPopup; a photo that is shared later has a page of its own.
Closed ==
  /\ MayTap
  /\ gone' = Tapped
  /\ UNCHANGED <<current, stage, target, photos, posts, hud, since, switches>>

PanelTimer ==
  /\ hud.timers > 0
  /\ hud' = Hidden(hud)
  /\ UNCHANGED <<current, stage, target, photos, posts, gone, since, switches>>

\* Mutation of FamilyRead: the family read by an earlier share is kept.
FamilyReadOnce(s) ==
  /\ Step(s, "reading", "uploading")
  /\ LET read == {target[o] : o \in Share} \ {NoFamily}
     IN \E f \in IF read = {} THEN {current} ELSE read :
          target' = [target EXCEPT ![s] = f]
  /\ hud' = Show(hud, FALSE)
  /\ UNCHANGED <<current, photos, posts, gone, since, switches>>

\* The panel comes up and the photo is put into the storage.
FamilyRead(s) ==
  /\ Step(s, "reading", "uploading")
  /\ target' = [target EXCEPT ![s] = current]
  /\ hud' = Show(hud, FALSE)
  /\ UNCHANGED <<current, photos, posts, gone, since, switches>>

\* The panel comes up, but the photo cannot be encoded: the block just ends, and
\* nothing takes the panel away.
NotEncoded(s) ==
  /\ EncodingFails
  /\ Step(s, "reading", "stuck")
  /\ target' = [target EXCEPT ![s] = current]
  /\ hud' = Show(hud, FALSE)
  /\ UNCHANGED <<current, photos, posts, gone, since, switches>>

\* No document, or an error: nothing happens and nothing is said.
FamilyNotRead(s) ==
  /\ Fails
  /\ Step(s, "reading", "silent")
  /\ UNCHANGED <<current, target, photos, posts, hud, gone, since, switches>>

PhotoUploaded(s) ==
  /\ Step(s, "uploading", "linking")
  /\ photos' = photos \cup {s}
  /\ UNCHANGED <<current, target, posts, hud, gone, since, switches>>

\* Mutation of Failed: the error is not shown.
FailedQuietly(s) ==
  /\ Fails
  /\ stage[s] \in {"uploading", "linking", "saving"}
  /\ stage' = [stage EXCEPT ![s] = "failed"]
  /\ UNCHANGED <<current, target, photos, posts, hud, gone, since, switches>>

\* "Failed to upload": the timer of the error takes the panel away.
Failed(s) ==
  /\ Fails
  /\ stage[s] \in {"uploading", "linking", "saving"}
  /\ stage' = [stage EXCEPT ![s] = "failed"]
  /\ hud' = ShowError(hud)
  /\ UNCHANGED <<current, target, photos, posts, gone, since, switches>>

\* Mutation of Recognised: the photo is recognised while it is uploaded.
RecognisedEarly(s) ==
  /\ Step(s, "uploading", "saving")
  /\ UNCHANGED <<current, target, photos, posts, hud, gone, since, switches>>

\* The URL arrived and Vision has a result: the post is written.
Recognised(s) ==
  /\ Step(s, "linking", "saving")
  /\ UNCHANGED <<current, target, photos, posts, hud, gone, since, switches>>

\* Vision has none (try? perform, or no first result): the block just ends.
NotRecognised(s) ==
  /\ RecognitionFails
  /\ Step(s, "linking", "stuck")
  /\ UNCHANGED <<current, target, photos, posts, hud, gone, since, switches>>

PostSaved(s) ==
  /\ Step(s, "saving", "saved")
  /\ posts' = posts \cup {[share |-> s, family |-> target[s]]}
  /\ hud' = ShowSuccess(hud, FALSE)
  /\ UNCHANGED <<current, target, photos, gone, since, switches>>

\* Mutation of Moved: the timeline is presented only while the panel is up.
MovedWhileUp(s) ==
  /\ hud.up
  /\ Step(s, "saved", "done")
  /\ UNCHANGED <<current, target, photos, posts, hud, gone, since, switches>>

\* Half a second later the timeline is presented over the panel, which UIKit
\* refuses if the page of the share is not the one on top.
Moved(s) ==
  /\ Step(s, "saved", "done")
  /\ \/ s \notin gone /\ gone' = Tapped /\ hud' = Buried(hud)
     \/ s \in gone /\ UNCHANGED <<hud, gone>>
  /\ UNCHANGED <<current, target, photos, posts, since, switches>>

\* On another device, or on this one while no panel blocks.
SwitchFamily(f) ==
  /\ switches < MaxSwitches
  /\ switches' = switches + 1
  /\ f # current
  /\ current' = f
  /\ since' = [s \in Share |-> IF stage[s] = "idle" THEN {}
                               ELSE since[s] \cup {f}]
  /\ UNCHANGED <<stage, target, photos, posts, hud, gone>>

Next == \/ \E s \in Share : \/ ShareTapped(s) \/ FamilyRead(s)
                            \/ NotEncoded(s) \/ FamilyNotRead(s)
                            \/ PhotoUploaded(s) \/ Failed(s)
                            \/ Recognised(s) \/ NotRecognised(s)
                            \/ PostSaved(s) \/ Moved(s)
        \/ ShareRefused \/ Closed \/ PanelTimer
        \/ \E f \in Family : SwitchFamily(f)

Spec == Init /\ [][Next]_vars

\* Firebase ends every operation, Vision comes back and timers fire; nobody has
\* to tap.
FairSpec ==
  /\ Spec
  /\ WF_vars(PanelTimer)
  /\ \A s \in Share :
       WF_vars(\/ FamilyRead(s) \/ NotEncoded(s) \/ FamilyNotRead(s)
               \/ PhotoUploaded(s) \/ Failed(s) \/ Recognised(s)
               \/ NotRecognised(s) \/ PostSaved(s) \/ Moved(s))

-------------------------------------------------------------------------------
(* Properties: besides FamilyTimely and PhotosFirst of SharedPosts *)

\* The one way to stay blocked: a share was given up without a word, because
\* its photo could not be encoded or was not recognised, and no timer and no
\* other share is left that would take its panel away.
Stranded ==
  /\ \E s \in Share : stage[s] = "stuck"
  /\ hud.timers = 0
  /\ \A s \in Share : stage[s] \in {"idle", "failed", "silent", "stuck", "done"}

\* No share blocks the user for ever, however the panels of several shares and
\* their timers overlap, unless it comes to be Stranded.
Unblocked == Blocks(hud) ~> (~Blocks(hud) \/ Stranded)

\* Every share ends: the post is saved, an error is shown, the user has no
\* document, or the share is given up without a word ("stuck": the photo has
\* no JPEG data, or Vision no result).
Ends == \A s \in Share :
          stage[s] # "idle" ~> stage[s] \in {"done", "failed", "silent", "stuck"}
===============================================================================
