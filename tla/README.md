# Familog in TLA+

Specifications, model-checking runs and proofs for the Familog client
(`src/monologue/monologue`), an iOS app in which the members of a family share
photos on a timeline, comment on them, chat, and keep a profile.

The app has no server code of its own. Every device talks to Firebase: Auth
holds the accounts, Firestore the documents, Storage the pictures. What makes
the code hard to test is that all of it is callbacks: a page asks Firestore
for something, goes on, and is called back in an order nobody chose, while
other devices of the same family write the same documents.

Source paths below are relative to `src/monologue/monologue`. `MainPage/` and
`LogInPage/` hold the pages; the other files of that directory the data types,
the cells, and the thin wrappers (`UserApi`, `PostApi`, ...) over Firestore.

## 1. The system

### Stores the devices share

| Store | Written by | Read by |
|---|---|---|
| Auth: accounts, the current user of a device | SignUp, LogIn, EditProfile (log out) | every page |
| `Users/<uid>`: e-mail, name, picture, `familyId` (the current family), `families` (all joined) | SignUp, the family pages, EditProfile | nearly every page |
| `Family/<id>`: name, introduction | CreateFamily | the family and profile pages |
| `Post`, images of posts | Upload, deletion by DetailViewCell | Timeline, Profile, Detail |
| `Comment` | CommentViewController | the same |
| `channels`, `channels/<id>/thread`, photos of messages | CreateFamily, Chat | Channels, Chat |

There is no transaction anywhere. A write goes into a queue of the device that
survives a restart of the app; the server accepts or refuses it later; reads
and listeners of the same device see it at once.

### Components

| Component | State it keeps | Operations | What is hard | What makes it correct |
|---|---|---|---|---|
| Family pages (`CreateFamily`, `JoinFamily`, `SwitchFamily` and its cell) | the operations under way, the list of families | create, join, list, switch | three dependent writes; a list read, changed and written back whole; restarts in between; a second device, or a second operation on one | a user told to be a member stays one; families and channels on record exist; every operation ends |
| Timeline | `posts`, `users` side by side, a listener per row | refresh (again while one is running), events | loads overlap, listeners are never removed, profiles change | rows and authors aligned, nothing dropped, latest profile shown |
| Comments | the same two lists, the rows of the table | send, refresh, events | the lists are emptied under the table; the query races the write | what is sent is shown; the table never asks for too much for long |
| Chat | `messages`, several listeners, downloads | pull for more, send text or photo | photos arrive late; a second listener repeats the first; refusals | ordered, no repetition, the newest are shown |
| Sharing (`Upload`) | the stages of each share, the panel | tap, read family, upload, recognise, save, close | the family is switched meanwhile; two shares at a time, whose panels and timers mix; the page is left | photo before post; the right family; an end; nobody blocked for ever |
| Session (`LaunchScreen`, `Welcome`, `SignUp`, `LogIn`, `ResetPassword`, tabs) | the page on top, the signed-in account | launch, sign up, log in, reset, check the family, change tabs, dismiss, log out | the document of an account is written after the account; operations go on when their page is left and overlap; restarts | nobody reaches a page that unwraps a missing user; no family is overwritten; operations end |
| List of chats (`Channels`) | the families read once, the rows | load, listen, insert, remove | channels are equal by family, not by document | one row per family, none missing |
| Profile pages, page of a post | the grid, its cells, reads under way | appear, read, open, delete | a page appears again while it loads; a deletion waits for the server | a deleted post is not shown; no repetition |
| Time labels (three cells) | none | the age as text | six assignments, the last one wins | right at every boundary |
| Editing the profile | three fields, a picture | save, upload, close, log out | the picture is linked to whoever is signed in when its upload ends, and the panel does not block | no profile shows the avatar of another account; a save ends |
| The panel (`ProgressHUD`, one for the whole app) | whether it is up, blocks, is covered; timers that are due | show, success, error, hide | what blocks depends on what was up before; timers are never cancelled | nobody is blocked for ever (stated by the pages that use it) |
| Store wrappers, visual helpers, unused pages, tests | none | | | not modelled, see section 7 |

Components meet in the stores, and by presenting each other: Session presents
the tabs or the family pages, those present the tabs, Timeline opens Comments
and Upload, Channels opens Chat, Profile opens the page of a post.

## 2. Modules

| Module | Models |
|---|---|
| `Membership` | what the family pages promise: found, join, switch, each in one step |
| `FamilyPages` | the family pages on several devices, several operations at a time, over `Users`, `Family`, `channels`; `FamilyPagesProperties` states what they should guarantee, and that they implement `Membership` |
| `ProgressHUD` | the panel as operators on a record, which the modules that show it keep in `hud` |
| `AuthoredRows` | the code Timeline and Comments share: items beside authors, a listener on each author |
| `Timeline`, `Comments` | extend `AuthoredRows` with the loads of each page and what changes under it |
| `Chat`, `Sharing`, `Channels`, `ProfilePages` | one component each |
| `SharedPosts` | the posts and photos of Sharing and what they promise; extended by `Sharing` and by the proofs |
| `Session` | Session and EditProfile, which share the page on top, the panel and the signed-in account; extends `ProgressHUD`, as `Sharing` does |
| `RelativeTime` | the label of an age as the cells compute it, and the reference it is compared with; extended by `Timeline`, whose rows carry it |
| `MC*` | the instances for TLC, where a constant is a function |
| `*_proofs` | theorems |

Reading a module: an action is one tap, one callback, one step of the server
or of another device. Callbacks run on the main thread of the device, so each
is atomic; between any two of them anything else may happen. A request that
waits for its answer is a counter, a queue or a stage; the answer is an action
of its own that reads the store at that moment. `Restart` in FamilyPages and
Session forgets the memory of the app and keeps the queue of writes.

Definitions keep the names of the code where they model a function
(`CreateTapped`, `JoinTapped`, `AddChannelToTable`); where a closure has no
name they are named for what has come back (`FamilySaved`, `UserRead`,
`PostsNotRead`). The comment before a definition that starts with "Mutation
of" introduces a variant with a plausible mistake in it. No specification
uses these; each shows that some property would notice the mistake.

Modelling decisions that matter:

- *Pending writes.* A device reads the server's data with its own queue laid
  over it (`Sees`, `SeenFamilies`, `View`, `SeenDoc`). In FamilyPages the queue is
  explicit, because the order in which creates, joins and switches reach the
  server is what the properties are about.
- *Waiting for a write.* A write carries the task whose callback waits for its
  answer (`by`), or `Nobody`: for a channel and a switch, which nobody waits
  for, and for every write of an app that was ended.
- *A read and its callback* are two steps where other callbacks may come
  between them (`UserAnswered` and `UserRead` of FamilyPages): what was read is
  kept and may be stale when it is used.
- *Failure.* `Fails` (`Refusable` in FamilyPages) switches on failing reads and
  refused writes. A write refused is one the security rules reject or a
  document that is missing; a read that fails reports an error. In Session a
  failed check of the family (`FamilyUnread`) and in Sharing a photo without
  JPEG data (`EncodingFails`, `NotEncoded`) are alternatives of their own,
  because the code has no branch for them.
- *Listeners* report the present state some time after it changed; several
  changes may be reported as one. `Channels` and `Chat` split a snapshot into its
  changes, because the list is changed by one after the other; meanwhile
  `status`, `removing` and `adding` in `Channels`, and `Free` in `Chat`
  (`Snapshot`, then a `HandleDocumentChange` for each of `changes`), keep other
  code of the page from running.
- *Listeners may fail*, before their first snapshot or after any other, and
  then report nothing more (`ListenerFails` in AuthoredRows, Chat and Channels).
  A page has many listeners and each fails alone: the listener of an item in
  AuthoredRows is removed (`MaxErrors` bounds how often), and `lost` keeps the
  items whose listener failed before it had reported; a listener of the chat is
  no longer `live`; the list of chats has only one.
- *The panel* is modelled from `Pods/ProgressHUD/ProgressHUD/ProgressHUD/ProgressHUD.m`,
  because what the pages ask for is not what they get. The view that takes
  every tap is made only when no panel is up (`hudCreate`), so that a
  "Waiting..." that should block does not block when an earlier panel, even one that
  does not block, is still there; LogIn leaves its panel up under the page it
  presents. Timers of errors and successes are never cancelled and take away
  whatever is up when they fire. Hence no operation may rely on being alone:
  Session, Sharing and FamilyPages let operations overlap (`Task`, `Share`,
  `On`), Session and Sharing exactly when the panel lets them, FamilyPages at
  any time, with `overlapped` to tell.
- *Presenting.* A page presents another only when it is the one on top;
  an operation whose page was dismissed or covered goes on, and its end
  presents nothing (`PresentFrom` in Session, `gone` in Sharing).

## 3. Runs

Every run finishes within three minutes with two workers.

| Run | Instance | Question |
|---|---|---|
| `family_sole` | 1 user, 1 device, 2 families, 3 taps, 2 operations at a time, any write refused | does a user with one device ever lose a family, is a channel ever without one, and does every operation end? |
| `family_refines` | 2 users, a device each, 2 taps each, writes of channels refused | do the pages implement `Membership`, and does every family on record exist? |
| `family_lost_join` | 1 user, 2 devices, 1 operation each, nothing refused | does a confirmed join last? (No: finding 1.) |
| `timeline` | 2 users, 3 posts, 2 families, 2 loads, 4 changes, 3 versions of a profile, 2 listeners that fail, ages around every boundary | do overlapping loads keep the lists aligned and complete, what does the failure of a listener cost, and are the labels right? |
| `comments` | 2 users, 3 comments, two of the user of the device, 1 listener that fails | does all that is sent come to be on show, and when does the table disagree with the lists? |
| `chat` | 4 messages, 2 of them photos, 2 of them own (a text and a photo), 2 listeners, either of which may fail | is the list ordered and complete, and is what is sent shown? |
| `sharing` | 2 shares, 2 families, 2 switches, 2 timers, any panel left by earlier pages, photos that cannot be encoded or recognised | is the post in the right family, after its photo, does every share end, and is nobody blocked for ever? |
| `session` | 1 account, 2 operations at a time, 2 timers, restarts at any time, failures (also of the check of the family) | is there always a user where one is unwrapped, is no family overwritten, does every operation end, and who is blocked for ever? |
| `session_stuck` | 2 accounts, 1 operation, requests that do not fail | does a log in that succeeded lead somewhere? (Not always: finding 2.) |
| `session_picture` | 2 accounts, 2 operations, requests that do not fail | does a picture reach the right profile? (Not always: finding 3.) |
| `channels` | 3 families, 4 channels (two of one family), 2 pages, 1 change of families | one row per family, and one for each? |
| `profile_pages` | 2 users, 3 posts, 2 appearances, 3 pages | is a deleted post gone, the grid complete, and the page of a post the right one? |

### Bounds, and why they are enough

Every bound is a constant that a guard names. `MaxTaps`, `Task`, `Share`,
`MaxLoads`, `MaxPulls`, `MaxPages`, `MaxAppears`: the hazards are overlaps of
two operations, so two of a kind are the least that shows them; three taps on
one device let an operation follow a pair that failed or overlapped.
`MaxTimers` is 2 where liveness is checked: a timer takes away the panel of an
operation that is not its own. `MaxChanges`, `MaxVersion`, `MaxSwitches`: a
change between the read and its use, and one more after it. `MaxErrors` is 2 in
`timeline`, where two loads may leave an item two listeners that both fail, and
1 in `comments`, where an item beside the failed one goes on. Two families
suffice for "the wrong one"; the list of chats has a third, so that a row is
inserted before, between and after others. `PageSize` is 1 in `chat` instead of
15: two listeners ask for 1 and 2 of 4 messages, so messages fall off the page.
`Boundaries` in `MCTimeline` are the ages just before, at and just after
multiples of each unit, and negative ones.

Where the proofs apply (section 5), they remove the bounds on the sets: the
theorems hold for every value of the constants.

### Deadlock

`CHECK_DEADLOCK FALSE` stands where the bounds let the system come to rest (all
posts loaded, nothing left to change). FamilyPages and Session can always
restart the app, and their runs check deadlock.

### Symmetry

`family_refines` permutes the two families. They are interchangeable in the
module and the properties, the permutation only renames values the abstract
specification shares, and the run checks no liveness (`Membership` has no
fairness).

## 4. Fairness

Weak fairness is on callbacks and on the server only: an answer that stays due
comes. The Firestore client calls every completion block once, when the server
has answered or refused or the read has failed, and a snapshot listener
reports until it fails; timers of the pages and of the panel fire. Where an
answer may be a failure, the fairness is on the answer and the failure is never
forced: a liveness property that allows for a failure (`failed`, `lost`, "unread",
"stuck") names one that has happened. Nothing is
assumed of users, of other devices, or of the operating system, which may end
the app whenever it likes. `family_sole` and `session` include restarts; their
liveness properties then say that an operation ends or the app is started
again, because a restart ends it as well. A device that never gets its network
back is not covered: its operations wait for ever, and so does the code.

## 5. Proofs

| Module | Theorems |
|---|---|
| `FamilyPages_proofs` | `TypeCorrect`, `ChannelsHaveFamilies`, `FamiliesExist`, `SoleUserKeepsFamilies`, `SoleUserNeverLeaves`, `PagesImplementMembership`; `WaitingIsAnswered`, `ConfirmedExist` |
| `Session_proofs` | `AlwaysSomebody`, `AlwaysFamilyOnMain`, `FamiliesKept`; `EveryWaitAnswered`, `NobodyBlockedForNothing`, `OneWayBack` |
| `Timeline_proofs` | `TypeCorrect`, `RowsAligned`, `RowsLatest`, `NoneDropped`, `FirstLoadClean`, `LabelsAlwaysRight` |
| `Comments_proofs` | `CommentsAligned`, `CommentsNotForgotten`, `TableAlwaysFollows` |
| `AuthoredRows_proofs` | the lemmas of the two above |
| `ChatSharing_proofs` | of Chat `ChatTypeCorrect`, `AlwaysInOrder`, `NewestAlwaysShown`, `PhotosAlwaysStored`; `SortedSorts`, `ShownWasSent`, `NothingSentTwice`, `NothingLost`; of Sharing `PostsTimely`, `PostsHavePhotos`; `SharedOnce`, `NobodyWaitsForNothing` |
| `Channels_proofs` | `AlwaysOneRowEach`, `AlwaysReported`, `AlwaysHaveRows` |
| `ProfilePages_proofs` | `AlwaysHidden`, `FirstGridClean`, `CellsAlwaysFollow`; `OwnPostsOnly`, `PromisesKept` |

The theorems after a semicolon state what no run checks as a property: facts
the invariants of the others lead to, and the safety halves of liveness
properties (below).

The assumptions are those on the constants in the modules (a function has its
domain, a bound is a number, `NoFamily` is not a family); TLC evaluates them in
the runs. Three theorems assume more, and say so in their ASSUME:

- `FamiliesExist`, `ConfirmedExist`: the server refuses no Family document. A refused one that
  the device has already laid over its own reads may be joined from that device.
- `PagesImplementMembership`: a device for each user, an operation at a time on
  each, and no refusals but those of channels. Each is needed: two devices or
  two operations lose a join (finding 1), and a switch that is tapped on a list
  read before a join was refused would be to a family the user is not in.

The arguments:

- *Families, types.* An answer goes to the task its write names, so a task that
  waits has one write in the queue of its device, of the kind it waits for, and
  an idle one has none (`Tagged`): an answer never wakes a task that does not
  wait, although operations overlap. `AnswersDue` is the converse: an operation
  that waits still has its write in that queue, since adding a write moves none
  and the one at the head is answered to the task that waits for it.
- *Families, existence.* An operation whose family was saved has a family that
  exists (`FoundedExists`), and a channel in a queue is of one that does
  (`PendingChannels`), which gives `ChannelOfFamily`. For `FamilyKnown` the
  invariant follows every place a family can be read from: a family on record,
  in a queue, in an operation, in what was read and not yet used, or in the
  list exists, or the write of its document is ahead in the same queue
  (`KnownBy`, `DeviceKnown`). `ToldExists` adds that the family an operation is
  about to confirm exists: its document went before the list, in one queue.
- *Families, one device.* While no operations have overlapped, one is under way
  at most (`Alone`). The lists in the queue only grow, from the record of the
  server on (`Growing`), because each was read with the queue laid over the
  server, and what was read is still the newest when it is written back
  (`Fresh`): so no write drops a family, and what is about to be confirmed is on
  record (`SavedKept`). `Fresh` is where two devices, or two operations, break
  the property.
- *Families, refinement.* A step of the server must be a step of `Membership`,
  so each pending write has to be it: `PendingExact` says that a list in the
  queue is the record with the families of the joins up to it, no more and no
  less, and that a switch is to a family that is on record by then;
  `ListedTaken` and `ReadTaken` say the same of what was listed and read
  (`ExactInv`). Then accepting a family document is `Found`, a user document
  `Join`, a switch `Switch`; all else is a stutter.
- *Session.* An operation that may still present a page has the account it
  needs, and a query that began on the log in page has one signed in
  (`OperationInv`); what lies under the page on top is counted with it
  (`SignedInInv`), because closing EditProfile brings it back; a document that
  waits to be written is the first of its account (`DocumentInv`), without
  which the late write of a sign-up could overwrite a document with a family.
- *Session, waiting.* `PanelInv` rests on that: which pages may lie under which
  (`StackInv`), where an operation began (`PlacesFit`), that an account whose
  document is awaited still has it to be written (`WriteDue`), and what will
  take away a panel that blocks (`PanelDue`). The last is the reason for the
  others: the panel of a sign up may be covered by the log in page another
  sign up has presented, and must be accounted for when that page is left.
- *Session, family.* A timeline on top has asked (`StackInv`), and a check that is
  over without an error has found a family or nobody's document (`CheckedInv`);
  `AlwaysFamilyOnMain` follows, and names the two answers that are left.
- *Rows.* No listener is ahead of the document it listens to (`NoneAhead`). The
  listeners of an item have heard of different versions and fail one by one, so
  the argument is about those that are left: each has a row with the version it
  reported last, or something to report (`Level`). A failure takes away one of
  them and says nothing of the others, which is why `LatestShown` holds as
  long as one is alive (`Heard`), whichever that is (`UpToDate`). `Promised` is
  the same for an item that was loaded and is not on show yet; `lost` is the
  exception, for an item whose listener failed before it had reported. Timeline
  and Comments cite one lemma per operation of AuthoredRows.
- *The table of the comments.* The lists are emptied under the table only when a
  comment is sent, and until the load this starts is over, it is under way or
  its comment is stored or refused (`Kept`, `Documented`); so an empty list with
  rows on the screen has a reason that is named (`Window`).
- *First load.* Until the second refresh and the first edited profile there is
  one read, then one query and nothing on show, then at most one listener that
  has yet to report for each post of one family (`FirstLoad`); a listener that
  has reported has nothing new.
- *List of chats.* Two lemmas say which rows an insertion and a removal leave
  where. What is removed was refused, and what is reported is stored, pending
  or refused (`Reports`); a channel the list was told of has its row, unless
  this page has handled the removal of another of its family (`Settled`, where
  `dropped` has the removals since the page was made). A removal takes the row
  of the family, which is the only one (`OneRowEach`), so it takes that of the
  document if there is one.
- *Chat, the sort.* The place of an element is the number of those that come
  before it or are it. Different elements have different places of the list, so
  by the pigeonhole principle every place is taken (`PlaceOnto`), `CHOOSE` finds
  an element for each, and the sorted list is a permutation in order
  (`SortedSorts`). What is inserted was not there, so the order is strict.
- *Chat, completeness.* What a listener has reported is on show, in the
  `forEach`, in a download, or failed (`Handled`), with any number of listeners;
  when nothing is left to report, that is all it asked for. What the page was
  told of was sent, for a removed message too (`ToldWasSent`); a photo whose URL
  is asked for is stored (`LinkedStored`). What the user sends is in one place
  (`OnePlace`), which makes each step of it a move (`Traced`).
- *Sharing.* A share past the read of the family has a target that was current
  since its tap, and past the upload it has its photo (`Progress`). A post is
  written by the step that makes its share a success (`SavedHavePosts`). A panel
  that blocks has a timer, or a share that will start one, although timers of
  other shares take panels away at any time (`PanelEnds`). A share that is given
  up starts none: `NobodyWaitsForNothing` names it as the only exception, and
  that it takes a photo that cannot be encoded or is not recognised.
- *Profile.* A deletion is in the queue or done, and what is done does not come
  back, so what the device reads is not deleted. On the first appearance a
  query leads to at most one read of each post, and a read to one cell. A page
  that appears again empties the grid but asks again in the same step, so a post
  that is promised stays so (`Promised` there); every read under way is of the
  user of the page (`OwnPosts`), because a new page starts with none. A cell on
  the screen is of a post that was in the answer to a query (`Listed`): while
  the grid is empty, it is asked for, or a read has failed, or the post is gone
  (`CellsPromised`).
- *Labels.* A calculation with the remainders of an age, for every integer.

Model-checked only: every liveness property (`Answered`, `RefreshShows`,
`SentShown` of Comments and of Chat, `Ends`, `Unblocked` of both modules,
`OperationEnds`, `ChannelShown`, `PostShown`, `DetailShown`), because fairness
and ENABLED are out of the prover's reach. Every safety property the passing
runs check is a theorem. Of several liveness properties the safety half is one
too: whoever waits has something that will answer, for any number of waiters.

| Liveness property (TLC) | Its safety half (TLAPS) |
|---|---|
| `Answered` | `WaitingIsAnswered` |
| `OperationEnds` of Session | `EveryWaitAnswered`, for the write of a sign up |
| `Unblocked` of Session | `NobodyBlockedForNothing` |
| `Unblocked` of Sharing | `NobodyWaitsForNothing` |
| `SentShown` of Chat | `NothingLost`, `NewestAlwaysShown` |
| `SentShown` of Comments | `CommentsNotForgotten` |
| `RefreshShows` | `NoneDropped` |
| `ChannelShown` | `AlwaysReported`, `AlwaysHaveRows` |
| `PostShown` | `PromisesKept` |

What is left to TLC there is that the answer comes, which is the fairness of
section 4.

## 6. Findings

1. **A confirmed join is lost** (`family_lost_join`, `ConfirmedKept`).
   `JoinFamilyViewController.swift:50-55` (and `CreateFamilyViewController`
   alike) reads the list of families, appends, and writes the list back. Two
   devices of one user that read before either has written leave the list of
   the later one. The user was shown a success on both. `User.swift:26` calls
   the field "all family user joined". The theorem `SoleUserKeepsFamilies`
   says that this needs a second device, or a second operation begun on the same
   one because the panel of the first did not block.
2. **A log in that succeeds leads nowhere** (`session_stuck`, `LogInMoves`).
   `LogInViewController.swift:41` chooses the page in a loop over the documents
   whose e-mail equals the text that was typed. Auth compares e-mails without
   regard to capitals, the query does not; and an account may have no document
   (SignUp goes on when writing it fails). Then the loop is empty, no page is
   presented and the panel stays. Line 32 says "if success then sign in and
   move to the timeline page".
3. **A profile gets the avatar of another account** (`session_picture`,
   `OwnPicture`). `EditProfileViewController.swift:181` writes the URL of the
   picture to the profile of whoever is signed in when the upload ends. The
   panel that should keep the user on the page does not block: line 117 shows
   it with interaction before line 169 asks for none, and
   `ProgressHUD.m:191-201` makes the blocking view only when no panel is up.
   `User.swift:14` calls the field "the url of user's profile image in fire
   base".

Behaviour met while modelling that contradicts nothing the repository says,
and is described by the properties as it is:

- A join that the server refuses has been listed from the device's own queue,
  and the row stays until the list is closed.
- Trying a create again after its last write failed adds a second channel; the
  list of chats shows one row (`OneRowEach`), and loses it when the server
  refuses the second channel (the exception in `ReportedHaveRows`).
- A family whose document is still in the queue passes the check of
  `joinTapped` on the device that creates it; when the server then refuses it, a
  family that does not exist stays on record (`FamilyKnown` is checked, and
  proved, without such refusals).
- An error of the query of `joinTapped` is printed and the panel stays
  (`FamiliesNotRead`).
- A refresh while another is running repeats rows, and after a switch mixes
  two families (`CleanFirstLoad` says when this cannot happen). Listeners are
  never removed, and each appends a row when a profile is edited: rows and
  listeners grow with every refresh and every edit. A grid that appears again
  while it loads repeats posts likewise (`CleanFirstGrid`: not the first time).
- The listener of an author that reports an error (`UserApi.swift:32-35`) is
  gone. If it was the only one, its row keeps the profile it has
  (`LatestShown`), or the post or comment never gets a row (`lost` in
  `NothingDropped`, `SentNotForgotten`) and nothing says so.
- After a comment is sent, the table may ask for cells of the emptied lists, and
  the grid of the own profile likewise when it appears again. `TableFollows` and
  `CellsFollow` bound the window: a load or read that ends it is under way, or it
  stays open because one has failed, or because everything that was sent was
  refused, or everything on the screen deleted.
- The chat shows a refused message until the page is closed. Messages that
  arrive by more than a page at a time leave a gap. A listener that has failed
  (`ChatViewController.swift:111-114`) shows nothing more, not even what is sent
  from the page, until the user pulls for older messages, which starts another.
- A family joined after the list of chats has read its user has no row until
  the page is made anew (`ChannelShown`).
- The page of a post stays empty when the read of its author fails
  (`DetailAuthorNotRead`), although the post itself was read.
- The answer to the check of the family may find the timeline behind another
  tab or behind EditProfile (`check = "lost"` in Session): a user without a
  family then stays on the main page, and nothing asks again until the app or
  the main page is started anew. The same when the check fails, whose error
  `TimelineViewController.swift:57` passes over (`check = "unread"`). A signed-in
  account without a document stays there too: the check looks for a document
  that has no family.
- A failed upload in EditProfile leaves its panel up, which does not block, and
  a save whose writes are refused is shown as a success (`PictureLost` and
  `PictureUploaded` in Session). Of these
  pages only LogIn blocks for ever (`Unblocked`).
- A share whose photo has no JPEG data (`UploadViewController.swift:82` has no
  else) or whose recognition has no result neither ends nor fails ("stuck" in
  `Ends`), and its panel blocks the page for ever when no other share and no
  timer is left to take it away (`Stranded`, the one exception in `Unblocked`).
  The timer of one share takes the panel away from another.

## 7. Not modelled

- *The three texts of EditProfile:* they are written without waiting, and
  their effect, a new version of a document, is an action of Timeline and
  Comments; what Session has of a save is the picture and the page.
- *The tab of the channels in Session,* which neither asks for the family nor
  leads to another page of Session.
- *Labels of the profile pages* (id and name of the family, two reads that may
  answer in any order): they meet no other state of the page, and each read
  under way would multiply the states of the grid.
- *The author of a post in Sharing:* the account is left out there; finding 3
  is the same interleaving where the repository says what should hold.
- *Multiplicity of the rows in the list of families*: `listed` is a set, the
  code appends a row for each event; which row is tapped makes no difference
  to the write.
- *The fields of a Family document:* creating a family under an id that is
  taken replaces its name and introduction; families are told apart by id.
- *Answers from the cache of a device that is offline.* A read is answered by
  the server or fails. Offline, Firestore may answer from its cache, older
  than what the model reads.
- *A removed message that stays on show* in the chat: it is what the code does
  (`HandleDocumentChange`), and nothing in the repository says otherwise.
- *Contents:* names, texts, pictures, dates (but for their order in the chat),
  the rules for fields, which return with an error before any state changes.
- *Store wrappers* (`Api`, `UserApi`, ...): a call is part of the action that
  makes it. Functions nobody calls are left out, as is the branch of the list
  of chats for modified documents, since nothing modifies a channel.
- *Visual helpers, earlier pages no storyboard uses, test templates, and Pods*
  but for ProgressHUD. Firebase is modelled by how the pages use it.
- *Guards no document reaches.* `TimelineViewController.swift:81-83` and
  `DetailViewController.swift:32-34` return when a post has no author; every post
  is written with one (`UploadViewController.swift:136-141`). An author without
  a document is passed over by the listener (`version = 0` in AuthoredRows); no
  document of a user is ever deleted.
- *Messages of the same date* in the chat: a message and its date are one
  number, so the order among equal dates is not covered.
- *Daylight saving* in `RelativeTime`: a day is 24 hours.

## 8. What could follow

1. The account in Sharing, so that the author of a post is related to who
   tapped; the labels of the profile pages as a module of their own.
2. The three texts of EditProfile as writes that may be refused one by one, with
   the weaker promise a save keeps.
3. Session as an implementation of an abstract specification of who may be on
   which page, with the refinement proved as that of `Membership` is.
4. A composition of Session with FamilyPages, so that the family page a user is
   sent to is the one that is modelled in detail.
