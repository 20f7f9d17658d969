--------------------------------- MODULE Chat ---------------------------------
(***************************************************************************)
(* The chat of a family (MainPage/Notification/ChatViewController) on one  *)
(* device.  The page listens to the newest messages of the thread; pulling *)
(* the page down listens once more, to more of them.  Every change that a  *)
(* listener reports inserts the message into the list on show; a photo is  *)
(* downloaded first.  A text is sent by one write; a photo is uploaded     *)
(* before.                                                                 *)
(*                                                                         *)
(* The forEach over the changes of a snapshot is one HandleDocumentChange  *)
(* at a time: while any is left no other code of the page runs.  They are  *)
(* taken in any order: the list is sorted after each.                      *)
(*                                                                         *)
(* A message is a number, its date: dates come from the clocks of the      *)
(* senders, so messages may arrive in any order of their dates.  Left out: *)
(* avatars and layout; answers from the cache of a device that is offline; *)
(* isSendingPhoto, which nothing reads.                                    *)
(***************************************************************************)
EXTENDS Naturals, Sequences, FiniteSets, Functions

CONSTANTS Msg,         \* the messages, as their dates
          Mine,        \* those the user of the device sends
          Photo,       \* those that are photos
          PageSize,    \* by how much massageNumber grows (15 in the code)
          Fails,       \* whether uploads, downloads, writes and listeners
                       \* may fail
          MaxPulls     \* bound: how often the page is pulled down

ASSUME MsgAssumption == Msg \subseteq Nat /\ Mine \subseteq Msg /\ Photo \subseteq Msg
ASSUME FailsAssumption == Fails \in BOOLEAN
ASSUME BoundsAssumption == PageSize \in Nat \ {0} /\ MaxPulls \in Nat

VARIABLES
  stored,      \* the messages of channels/id/thread
  outbox,      \* the messages sent that the server has not answered, in order
  images,      \* the photos in the storage
  uploading,   \* the photos of the user that are being uploaded
  linking,     \* those uploaded that wait for their URL
  listeners,   \* listeners[k]: how many messages it asks for, those it has
               \* reported, and whether it has not failed
  changes,     \* the changes of a snapshot that are not handled yet
  downloads,   \* downloads[m]: how many downloads of the photo m are going on
  messages,    \* the list on show
  broken,      \* the photos a download of which failed
  gone         \* the messages of the user that failed to be uploaded or sent

photoVars == <<images, uploading, linking>>
listVars == <<downloads, messages, broken>>
vars == <<stored, outbox, photoVars, listeners, changes, listVars, gone>>

Listener == [limit : Nat, reported : SUBSET Msg, live : BOOLEAN]

TypeOK == /\ stored \in SUBSET Msg
          /\ outbox \in Seq(Mine)
          /\ images \in SUBSET Photo
          /\ uploading \in SUBSET (Mine \cap Photo)
          /\ linking \in SUBSET (Mine \cap Photo)
          /\ listeners \in Seq(Listener)
          /\ changes \in SUBSET Msg
          /\ downloads \in [Msg -> Nat]
          /\ messages \in Seq(Msg)
          /\ broken \in SUBSET Photo
          /\ gone \in SUBSET Mine

Pending == Range(outbox)
Thread == stored \cup Pending
Shown(m) == \E i \in DOMAIN messages : messages[i] = m

\* The n messages of s with the latest dates.
Newest(n, s) == {m \in s : Cardinality({o \in s : o > m}) < n}

View(k) == Newest(listeners[k].limit, Thread)

\* The page opens on a thread that may have messages already.
Init == /\ stored \in SUBSET (Msg \ Mine)
        /\ outbox = <<>>
        /\ images = stored \cap Photo
        /\ uploading = {}
        /\ linking = {}
        /\ listeners = <<[limit |-> PageSize, reported |-> {}, live |-> TRUE]>>
        /\ changes = {}
        /\ downloads = [m \in Msg |-> 0]
        /\ messages = <<>>
        /\ broken = {}
        /\ gone = {}

Unused(m) == m \notin Thread \cup uploading \cup linking \cup gone

\* The main thread is not in the forEach over a snapshot.
Free == changes = {}

-------------------------------------------------------------------------------
(* Listening *)

\* refresh(): one listener more; the earlier ones are not removed.
Pull == /\ Free
        /\ Len(listeners) <= MaxPulls
        /\ listeners' = Append(listeners,
                               [limit |-> (Len(listeners) + 1) * PageSize,
                                reported |-> {}, live |-> TRUE])
        /\ UNCHANGED <<stored, outbox, photoVars, changes, listVars, gone>>

\* The documentChanges of listener k: added and removed messages alike.
Changed(k) == (View(k) \ listeners[k].reported)
                 \cup (listeners[k].reported \ View(k))

\* Mutation of Snapshot: a removed message is taken out of the list.
SnapshotRemoving(k) ==
  /\ Free
  /\ k \in DOMAIN listeners
  /\ listeners[k].live
  /\ Changed(k) # {}
  /\ listeners' = [listeners EXCEPT ![k].reported = View(k)]
  /\ changes' = View(k) \ listeners[k].reported
  /\ messages' = SelectSeq(messages, LAMBDA m : m \notin Changed(k))
  /\ UNCHANGED <<stored, outbox, photoVars, downloads, broken, gone>>

\* Listener k reports what has changed in its window.
Snapshot(k) ==
  /\ Free
  /\ k \in DOMAIN listeners
  /\ listeners[k].live
  /\ Changed(k) # {}
  /\ listeners' = [listeners EXCEPT ![k].reported = View(k)]
  /\ changes' = Changed(k)
  /\ UNCHANGED <<stored, outbox, photoVars, listVars, gone>>

\* "Error listening for channel updates": the error is printed, and the listener
\* reports nothing more.  Nobody adds another one until the page is pulled.
ListenerFails(k) ==
  /\ Fails
  /\ Free
  /\ k \in DOMAIN listeners
  /\ listeners[k].live
  /\ listeners' = [listeners EXCEPT ![k].live = FALSE]
  /\ UNCHANGED <<stored, outbox, photoVars, changes, listVars, gone>>

\* The place of the i-th element of ms once ms is sorted.
Place(ms, i) ==
  Cardinality({j \in DOMAIN ms : ms[j] < ms[i] \/ (ms[j] = ms[i] /\ j <= i)})

\* sort(): Message compares by the dates.
Sorted(ms) ==
  [k \in DOMAIN ms |-> ms[CHOOSE i \in DOMAIN ms : Place(ms, i) = k]]

\* Mutation of Inserted: the list is not sorted.
InsertedLast(ms, m) == IF m \in Range(ms) THEN ms ELSE Append(ms, m)

\* insertNewMessage: unless it is there, append the message and sort.
Inserted(ms, m) == IF m \in Range(ms) THEN ms ELSE Sorted(Append(ms, m))

\* Every change, whatever its type: a text is inserted, a photo is asked for.
HandleDocumentChange(m) ==
  /\ m \in changes
  /\ changes' = changes \ {m}
  /\ IF m \in Photo
     THEN downloads' = [downloads EXCEPT ![m] = @ + 1] /\ UNCHANGED messages
     ELSE messages' = Inserted(messages, m) /\ UNCHANGED downloads
  /\ UNCHANGED <<stored, outbox, photoVars, listeners, broken, gone>>

\* Mutation of Downloaded: the block runs twice for one download.
DownloadedTwice(m) ==
  /\ Free
  /\ m \in images
  /\ downloads' = [downloads EXCEPT ![m] = @ - 1]
  /\ messages' = Inserted(messages, m)
  /\ UNCHANGED <<stored, outbox, photoVars, listeners, changes, broken, gone>>

Downloaded(m) ==
  /\ Free
  /\ downloads[m] > 0
  /\ m \in images
  /\ downloads' = [downloads EXCEPT ![m] = @ - 1]
  /\ messages' = Inserted(messages, m)
  /\ UNCHANGED <<stored, outbox, photoVars, listeners, changes, broken, gone>>

\* No data: the message is not inserted, and nobody tries again.
NotDownloaded(m) ==
  /\ Free
  /\ downloads[m] > 0
  /\ Fails \/ m \notin images
  /\ downloads' = [downloads EXCEPT ![m] = @ - 1]
  /\ broken' = broken \cup {m}
  /\ UNCHANGED <<stored, outbox, photoVars, listeners, changes, messages, gone>>

-------------------------------------------------------------------------------
(* Sending *)

Save(m) == outbox' = Append(outbox, m)

SendText(m) ==
  /\ Free
  /\ m \in Mine \ Photo
  /\ Unused(m)
  /\ Save(m)
  /\ UNCHANGED <<stored, photoVars, listeners, changes, listVars, gone>>

\* Mutation of PickPhoto: the message is saved before the photo is uploaded.
PickAndSave(m) ==
  /\ Free
  /\ m \in Mine \cap Photo
  /\ Unused(m)
  /\ uploading' = uploading \cup {m}
  /\ Save(m)
  /\ UNCHANGED <<stored, images, linking, listeners, changes, listVars, gone>>

PickPhoto(m) ==
  /\ Free
  /\ m \in Mine \cap Photo
  /\ Unused(m)
  /\ uploading' = uploading \cup {m}
  /\ UNCHANGED <<stored, outbox, images, linking, listeners, changes, listVars,
                 gone>>

PhotoUploaded(m) ==
  /\ Free
  /\ m \in uploading
  /\ uploading' = uploading \ {m}
  /\ linking' = linking \cup {m}
  /\ images' = images \cup {m}
  /\ UNCHANGED <<stored, outbox, listeners, changes, listVars, gone>>

\* Mutation of PhotoLinked: no message while another one waits for the server.
PhotoLinkedUnlessBusy(m) ==
  /\ Free
  /\ m \in linking
  /\ linking' = linking \ {m}
  /\ IF outbox = <<>> THEN Save(m) ELSE UNCHANGED outbox
  /\ UNCHANGED <<stored, images, uploading, listeners, changes, listVars, gone>>

PhotoLinked(m) ==
  /\ Free
  /\ m \in linking
  /\ linking' = linking \ {m}
  /\ Save(m)
  /\ UNCHANGED <<stored, images, uploading, listeners, changes, listVars, gone>>

\* The upload or its URL failed: the photo is dropped without a word.
PhotoDropped(m) ==
  /\ Fails
  /\ Free
  /\ m \in uploading \cup linking
  /\ uploading' = uploading \ {m}
  /\ linking' = linking \ {m}
  /\ gone' = gone \cup {m}
  /\ UNCHANGED <<stored, outbox, images, listeners, changes, listVars>>

-------------------------------------------------------------------------------
(* The server and the relatives *)

Accept == /\ outbox # <<>>
          /\ stored' = stored \cup {Head(outbox)}
          /\ outbox' = Tail(outbox)
          /\ UNCHANGED <<photoVars, listeners, changes, listVars, gone>>

Refuse == /\ Fails
          /\ outbox # <<>>
          /\ gone' = gone \cup {Head(outbox)}
          /\ outbox' = Tail(outbox)
          /\ UNCHANGED <<stored, photoVars, listeners, changes, listVars>>

\* A relative's device uploads a photo before it saves the message.
OthersSend(m) ==
  /\ m \notin Mine \cup stored
  /\ stored' = stored \cup {m}
  /\ images' = images \cup ({m} \cap Photo)
  /\ UNCHANGED <<outbox, uploading, linking, listeners, changes, listVars, gone>>

Next == \/ Pull
        \/ \E k \in 1..(MaxPulls + 1) : Snapshot(k) \/ ListenerFails(k)
        \/ \E m \in Msg : \/ HandleDocumentChange(m)
                          \/ Downloaded(m) \/ NotDownloaded(m)
                          \/ SendText(m) \/ PickPhoto(m)
                          \/ PhotoUploaded(m) \/ PhotoLinked(m)
                          \/ PhotoDropped(m)
                          \/ OthersSend(m)
        \/ Accept \/ Refuse

Spec == Init /\ [][Next]_vars

\* Firestore reports every change to a listener, and a forEach ends; uploads and
\* downloads end.
FairSpec ==
  /\ Spec
  /\ \A k \in 1..(MaxPulls + 1) : WF_vars(Snapshot(k))
  /\ WF_vars(\E m \in Msg : HandleDocumentChange(m))
  /\ \A m \in Msg : /\ WF_vars(Downloaded(m) \/ NotDownloaded(m))
                    /\ WF_vars(PhotoUploaded(m) \/ PhotoLinked(m)
                                 \/ PhotoDropped(m))

-------------------------------------------------------------------------------
(* Properties *)

\* The list on show is in the order of the dates and shows no message twice,
\* whatever listeners overlap and however late a photo arrives.
InOrder == \A i, j \in DOMAIN messages : i < j => messages[i] < messages[j]

\* Once a listener has reported and its changes are handled, the newest messages
\* it asked for are on show, but for the photos that are still loading or failed
\* to.
NewestShown ==
  \A k \in DOMAIN listeners :
    Free /\ Changed(k) = {} =>
      \A m \in View(k) : Shown(m) \/ downloads[m] > 0 \/ m \in broken

\* A message of the thread that is a photo has its photo in the storage: it is
\* not saved before the upload has ended.
PhotosStored == Thread \cap Photo \subseteq images

\* What listener k may still report: nothing once it has failed, and nothing
\* older than the newest messages it asks for.
InReach(m, k) == listeners[k].live /\ m \in View(k)

\* What the user sends, a text or a photo, comes to be shown.  The exceptions: an
\* upload, its URL, the write or the download failed; or it is in the thread,
\* but each listener of the page has failed or asks only for newer messages.
SentShown ==
  \A m \in Mine :
    (m \in Pending \cup uploading \cup linking) ~>
       \/ Shown(m)
       \/ m \in gone \cup broken
       \/ m \in Thread /\ \A k \in DOMAIN listeners : ~InReach(m, k)
===============================================================================
