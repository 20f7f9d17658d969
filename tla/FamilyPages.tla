------------------------------ MODULE FamilyPages -----------------------------
(***************************************************************************)
(* The pages that found, join and switch families (LogInPage/              *)
(* CreateFamilyViewController, LogInPage/JoinFamilyViewController,         *)
(* MainPage/ProfilePage/SwitchFamilyViewController and its cell), on       *)
(* several devices, over the shared Firestore collections Users, Family    *)
(* and channels.                                                           *)
(*                                                                         *)
(* A page runs on the main thread of its device: a tap and every callback  *)
(* is one action.  Firestore is modelled as the code uses it: a write goes *)
(* into the device's queue of pending writes, which survives a restart of  *)
(* the app, without the callback that waits for it; the server accepts or  *)
(* refuses the writes of a device in order; a read answers what the server *)
(* holds with the device's own pending writes laid over it, and its        *)
(* callback runs later.                                                    *)
(*                                                                         *)
(* The panel of an operation keeps the user from starting another only if  *)
(* no other panel was up before (module ProgressHUD), and the page of log  *)
(* in leaves one up: as many operations of a device may overlap as it has  *)
(* tasks.                                                                  *)
(*                                                                         *)
(* Left out: names, dates and pictures; the validation of an empty text    *)
(* field, which only shows an error; answers served from the cache of a    *)
(* device that is offline; signing in and out (a device has one owner).    *)
(***************************************************************************)
EXTENDS Naturals, Sequences

CONSTANTS User, Device, FamilyId, NoFamily,
          Owner,       \* Owner[d]: the account signed in on device d
          Task, Nobody,
          On,          \* On[t]: the device of task t; bound: the operations of
                       \* a device that may overlap
          Refusable,   \* the kinds of write the server may refuse
          MaxTaps      \* bound: how often the user of a device taps

WriteKind == {"family", "channel", "user", "switch"}

ASSUME OwnerAssumption == Owner \in [Device -> User]
ASSUME OnAssumption == On \in [Task -> Device]
ASSUME NobodyAssumption == Nobody \notin Task
ASSUME NoFamilyAssumption == NoFamily \notin FamilyId
ASSUME RefusableAssumption == Refusable \subseteq WriteKind
ASSUME MaxTapsAssumption == MaxTaps \in Nat

VARIABLES
  users,      \* users[u]: the document Users/u
  family,     \* the ids of the documents of the collection Family
  channels,   \* channels[f]: how many documents of channels carry the id f
  outbox,     \* outbox[d]: the writes of d the server has not answered
  op,         \* op[t]: the create or join operation in progress
  listed,     \* listed[d]: the rows of the list of families open on d
  taps,       \* taps[d]: how many operations were started on d
  overlapped, \* the devices on which operations have overlapped
  confirmed   \* confirmed[u]: the families u was told to be a member of

vars == <<users, family, channels, outbox, op, listed, taps, overlapped, confirmed>>

Stage == {"idle", "creating", "founded", "notFounded", "listing", "reading",
          "read", "saving", "saved", "notSaved", "stuck"}

UserDoc == [exists : BOOLEAN, familyId : FamilyId \cup {NoFamily},
            families : SUBSET FamilyId]
\* by: the task whose callback waits for the answer, or Nobody.
Write == [kind : WriteKind, fid : FamilyId, fams : SUBSET FamilyId,
          by : Task \cup {Nobody}]
\* seen: the families of the user as they were read.
Operation == [stage : Stage, fid : FamilyId \cup {NoFamily}, seen : SUBSET FamilyId]

Idle == [stage |-> "idle", fid |-> NoFamily, seen |-> {}]

TypeOK == /\ users \in [User -> UserDoc]
          /\ family \in SUBSET FamilyId
          /\ channels \in [FamilyId -> Nat]
          /\ outbox \in [Device -> Seq(Write)]
          /\ op \in [Task -> Operation]
          /\ listed \in [Device -> SUBSET FamilyId]
          /\ taps \in [Device -> 0..MaxTaps]
          /\ overlapped \in SUBSET Device
          /\ confirmed \in [User -> SUBSET FamilyId]

\* Signing up writes a document without families; an account whose document
\* was not written (SignUpViewController goes on after that error) has none.
Init == /\ \E e \in [User -> BOOLEAN] :
             users = [u \in User |-> [exists |-> e[u], familyId |-> NoFamily,
                                      families |-> {}]]
        /\ family = {}
        /\ channels = [f \in FamilyId |-> 0]
        /\ outbox = [d \in Device |-> <<>>]
        /\ op = [t \in Task |-> Idle]
        /\ listed = [d \in Device |-> {}]
        /\ taps = [d \in Device |-> 0]
        /\ overlapped = {}
        /\ confirmed = [u \in User |-> {}]

-------------------------------------------------------------------------------
(* What a device reads *)

\* Mutation of Sees: the pending writes of the device are not laid over.
SeesServer(d, fams) == fams = users[Owner[d]].families

\* fams is the "families" field as device d reads it: that of its latest
\* pending write of the field, or else that of the server.
Sees(d, fams) ==
  \/ /\ \A i \in DOMAIN outbox[d] : outbox[d][i].kind # "user"
     /\ fams = users[Owner[d]].families
  \/ \E i \in DOMAIN outbox[d] :
       /\ outbox[d][i].kind = "user"
       /\ \A j \in DOMAIN outbox[d] : j > i => outbox[d][j].kind # "user"
       /\ fams = outbox[d][i].fams

\* Mutation of SeenFamilies: joinTapped does not look for the family.
AllFamilies(d) == FamilyId

\* The Family documents as device d reads them.
SeenFamilies(d) ==
  family \cup {f \in FamilyId : \E i \in DOMAIN outbox[d] :
                 outbox[d][i].kind = "family" /\ outbox[d][i].fid = f}

Enqueue(d, w) == outbox' = [outbox EXCEPT ![d] = Append(@, w)]

FamilyWrite(t, f) == [kind |-> "family", fid |-> f, fams |-> {}, by |-> t]
ChannelWrite(f) == [kind |-> "channel", fid |-> f, fams |-> {}, by |-> Nobody]
UserWrite(t, f, fams) == [kind |-> "user", fid |-> f, fams |-> fams, by |-> t]
\* Mutation of SwitchWrite: the cell was never given a family id.
UnsetSwitchWrite(f) ==
  [kind |-> "switch", fid |-> NoFamily, fams |-> {}, by |-> Nobody]
SwitchWrite(f) == [kind |-> "switch", fid |-> f, fams |-> {}, by |-> Nobody]

At(t, s) == op[t].stage = s
GoTo(t, s) == op' = [op EXCEPT ![t].stage = s]
Finish(t) == op' = [op EXCEPT ![t] = Idle]

\* An operation is under way: it waits for an answer or a callback.
UnderWay(t) == op[t].stage \notin {"idle", "stuck"}

TapOn(d) == /\ taps[d] < MaxTaps
            /\ taps' = [taps EXCEPT ![d] = @ + 1]

\* A tap that shows the "Waiting..." panel and starts an operation.
Tap(t) ==
  /\ At(t, "idle")
  /\ TapOn(On[t])
  /\ overlapped' = IF \E o \in Task : On[o] = On[t] /\ UnderWay(o)
                   THEN overlapped \cup {On[t]} ELSE overlapped

-------------------------------------------------------------------------------
(* Creating a family: the id on the page is random, and can be edited *)

CreateTapped(t, f) ==
  /\ Tap(t)
  /\ Enqueue(On[t], FamilyWrite(t, f))
  /\ op' = [op EXCEPT ![t] = [stage |-> "creating", fid |-> f, seen |-> {}]]
  /\ UNCHANGED <<users, family, channels, listed, confirmed>>

\* setData succeeded: the channel is added and nobody waits for it, then the
\* document of the user is read.
FamilySaved(t) ==
  /\ At(t, "founded")
  /\ Enqueue(On[t], ChannelWrite(op[t].fid))
  /\ GoTo(t, "reading")
  /\ UNCHANGED <<users, family, channels, listed, taps, overlapped, confirmed>>

FamilyFailed(t) ==
  /\ At(t, "notFounded")
  /\ Finish(t)
  /\ UNCHANGED <<users, family, channels, outbox, listed, taps, overlapped, confirmed>>

-------------------------------------------------------------------------------
(* Joining a family *)

JoinTapped(t, f) ==
  /\ Tap(t)
  /\ op' = [op EXCEPT ![t] = [stage |-> "listing", fid |-> f, seen |-> {}]]
  /\ UNCHANGED <<users, family, channels, outbox, listed, confirmed>>

FamiliesRead(t) ==
  /\ At(t, "listing")
  /\ IF op[t].fid \in SeenFamilies(On[t]) THEN GoTo(t, "reading") ELSE Finish(t)
  /\ UNCHANGED <<users, family, channels, outbox, listed, taps, overlapped, confirmed>>

\* The error is only printed: the panel stays.
FamiliesNotRead(t) ==
  /\ At(t, "listing")
  /\ GoTo(t, "stuck")
  /\ UNCHANGED <<users, family, channels, outbox, listed, taps, overlapped, confirmed>>

-------------------------------------------------------------------------------
(* The end of both: append the family to what was read and write it back *)

\* The document of the user is there; the main thread has yet to be told.
UserAnswered(t) ==
  /\ At(t, "reading")
  /\ users[Owner[On[t]]].exists
  /\ \E fams \in SUBSET FamilyId :
       /\ Sees(On[t], fams)
       /\ op' = [op EXCEPT ![t].stage = "read", ![t].seen = fams]
  /\ UNCHANGED <<users, family, channels, outbox, listed, taps, overlapped, confirmed>>

\* Mutation of Appended: what was read is dropped.
OnlyNew(fams, f) == {f}
Appended(fams, f) == fams \cup {f}

UserRead(t) ==
  /\ At(t, "read")
  /\ Enqueue(On[t], UserWrite(t, op[t].fid, Appended(op[t].seen, op[t].fid)))
  /\ op' = [op EXCEPT ![t].stage = "saving", ![t].seen = {}]
  /\ UNCHANGED <<users, family, channels, listed, taps, overlapped, confirmed>>

\* There is no document, or the read failed.
UserNotRead(t) ==
  /\ At(t, "reading")
  /\ Finish(t)
  /\ UNCHANGED <<users, family, channels, outbox, listed, taps, overlapped, confirmed>>

\* Success is shown and a new timeline presented over every page, unless the
\* page of the operation was left meanwhile.
UserSaved(t) ==
  /\ At(t, "saved")
  /\ Finish(t)
  /\ listed' \in {listed, [listed EXCEPT ![On[t]] = {}]}
  /\ confirmed' = [confirmed EXCEPT ![Owner[On[t]]] = @ \cup {op[t].fid}]
  /\ UNCHANGED <<users, family, channels, outbox, taps, overlapped>>

UserNotSaved(t) ==
  /\ At(t, "notSaved")
  /\ Finish(t)
  /\ UNCHANGED <<users, family, channels, outbox, listed, taps, overlapped, confirmed>>

-------------------------------------------------------------------------------
(* The list of families *)

\* An event of the listener on the user's document and of those on the
\* families it names: rows are appended, none is ever removed.  A family
\* without a document would end the app (data()! of nil): that is Restart.
FamiliesListed(d) ==
  /\ \E fams \in SUBSET FamilyId :
       /\ Sees(d, fams)
       /\ fams \subseteq SeenFamilies(d)
       /\ listed' = [listed EXCEPT ![d] = @ \cup fams]
  /\ UNCHANGED <<users, family, channels, outbox, op, taps, overlapped, confirmed>>

\* The current family is written and nobody waits for it; a timeline is presented.
FamilyTapped(d, f) ==
  /\ TapOn(d)
  /\ f \in listed[d]
  /\ Enqueue(d, SwitchWrite(f))
  /\ listed' = [listed EXCEPT ![d] = {}]
  /\ UNCHANGED <<users, family, channels, op, overlapped, confirmed>>

\* The app is ended and started again, in any state; Firestore keeps the
\* pending writes of the device.
Restart(d) ==
  /\ op' = [t \in Task |-> IF On[t] = d THEN Idle ELSE op[t]]
  /\ listed' = [listed EXCEPT ![d] = {}]
  /\ outbox' = [outbox EXCEPT ![d] =
                  [i \in DOMAIN @ |-> [@[i] EXCEPT !.by = Nobody]]]
  /\ UNCHANGED <<users, family, channels, taps, overlapped, confirmed>>

-------------------------------------------------------------------------------
(* The server *)

\* What the callback of a write is told.
Result(kind, yes) ==
  IF kind = "family" THEN IF yes THEN "founded" ELSE "notFounded"
  ELSE IF yes THEN "saved" ELSE "notSaved"

\* Mutations of Answer: the error is not looked at; it is not reported.
AnswerIgnored(w, yes) ==
  IF w.by = Nobody THEN op' = op ELSE GoTo(w.by, Result(w.kind, TRUE))
AnswerLost(w, yes) ==
  IF w.by = Nobody \/ ~yes THEN op' = op ELSE GoTo(w.by, Result(w.kind, yes))

\* The write w is answered: its callback goes on.
Answer(w, yes) ==
  IF w.by = Nobody THEN op' = op ELSE GoTo(w.by, Result(w.kind, yes))

\* updateData of a document that does not exist is always refused.
OfMissingUser(d) ==
  Head(outbox[d]).kind \in {"user", "switch"} /\ ~users[Owner[d]].exists

WriteUser(d, w) ==
  users' = CASE w.kind = "user" ->
                  [users EXCEPT ![Owner[d]].familyId = w.fid,
                                ![Owner[d]].families = w.fams]
             [] w.kind = "switch" -> [users EXCEPT ![Owner[d]].familyId = w.fid]
             [] OTHER -> users

Accept(d) ==
  /\ outbox[d] # <<>> /\ ~OfMissingUser(d)
  /\ LET w == Head(outbox[d]) IN
       /\ family' = IF w.kind = "family" THEN family \cup {w.fid} ELSE family
       /\ channels' = IF w.kind = "channel"
                        THEN [channels EXCEPT ![w.fid] = @ + 1] ELSE channels
       /\ WriteUser(d, w)
       /\ Answer(w, TRUE)
  /\ outbox' = [outbox EXCEPT ![d] = Tail(@)]
  /\ UNCHANGED <<listed, taps, overlapped, confirmed>>

Refuse(d) ==
  /\ outbox[d] # <<>>
  /\ Head(outbox[d]).kind \in Refusable \/ OfMissingUser(d)
  /\ Answer(Head(outbox[d]), FALSE)
  /\ outbox' = [outbox EXCEPT ![d] = Tail(@)]
  /\ UNCHANGED <<users, family, channels, listed, taps, overlapped, confirmed>>

-------------------------------------------------------------------------------

Callback(t) == \/ FamilySaved(t) \/ FamilyFailed(t)
               \/ FamiliesRead(t) \/ FamiliesNotRead(t)
               \/ UserAnswered(t) \/ UserRead(t) \/ UserNotRead(t)
               \/ UserSaved(t) \/ UserNotSaved(t)

Server(d) == Accept(d) \/ Refuse(d)

Next == \/ \E t \in Task : \/ Callback(t)
                           \/ \E f \in FamilyId : CreateTapped(t, f) \/ JoinTapped(t, f)
        \/ \E d \in Device : \/ FamiliesListed(d) \/ Restart(d) \/ Server(d)
                             \/ \E f \in FamilyId : FamilyTapped(d, f)

Spec == Init /\ [][Next]_vars

\* A device that is connected gets its answers, and its main thread runs the
\* callbacks; nobody has to tap, and the app need not be restarted.
Fairness == /\ \A t \in Task : WF_vars(Callback(t))
            /\ \A d \in Device : WF_vars(Server(d))

FairSpec == Spec /\ Fairness
===============================================================================
