-------------------------------- MODULE Channels -------------------------------
(***************************************************************************)
(* The list of chats (MainPage/Notification/ChannelsViewController) on one *)
(* device.  When it loads, the page reads the document of the user once,   *)
(* then listens to the whole collection of channels and keeps a row for    *)
(* each family the user was in.  Two channels are equal when they are of   *)
(* the same family (Channel.swift), whatever documents they came from.     *)
(*                                                                         *)
(* The forEach over the changes of a snapshot is one Change at a time:     *)
(* while any is left no other code of the page runs.  Channels are only    *)
(* ever added (createTapped), so a change is an addition, or the removal   *)
(* of an addition of this device that the server refused; the branch for   *)
(* modified documents is unreachable and left out.                         *)
(***************************************************************************)
EXTENDS Naturals, Sequences

CONSTANTS Family,
          Doc,          \* the documents of the collection channels
          FamilyOf,     \* FamilyOf[c]: the field id of the document c
          Name,         \* Name[c]: its name, as its place in the order of names
          Mine,         \* the documents this device adds
          Fails,        \* whether reads and listeners may fail, writes be refused
          MaxPages,     \* bound: how often the page is made
          MaxSwitches   \* bound: how often the families of the user change

ASSUME FamilyOfAssumption == FamilyOf \in [Doc -> Family]
ASSUME NameAssumption == Name \in [Doc -> Nat]
ASSUME MineAssumption == Mine \subseteq Doc
ASSUME FailsAssumption == Fails \in BOOLEAN
ASSUME BoundsAssumption == MaxPages \in Nat \ {0} /\ MaxSwitches \in Nat

VARIABLES
  families,    \* the field families of the user
  stored,      \* the documents in the collection
  pending,     \* the documents this device added that are not answered
  refused,     \* the documents the server refused
  status,      \* what the page does: "reading", "listening" or "dead"
  known,       \* the families in currentUser: those that were read
  reported,    \* the documents the listener has reported
  removing,    \* the changes of its last snapshot that are not handled yet:
  adding,      \*   documents that are gone, documents that are new
  rows,        \* channels: the rows of the table
  dropped,     \* the documents whose removal this page has handled
  pages,       \* how often the page was made
  switches     \* how often the families changed

storeVars == <<families, stored, pending, refused, switches>>
pageVars == <<status, known, reported, removing, adding, rows, dropped, pages>>
vars == <<storeVars, pageVars>>

TypeOK == /\ families \in SUBSET Family
          /\ {stored, pending, refused} \subseteq SUBSET Doc
          /\ status \in {"reading", "listening", "dead"}
          /\ known \in SUBSET Family
          /\ {reported, removing, adding, dropped} \subseteq SUBSET Doc
          /\ rows \in Seq(Doc)
          /\ pages \in 1..MaxPages
          /\ switches \in 0..MaxSwitches

\* viewDidLoad of a new page.
Load == /\ status' = "reading"
        /\ known' = {}
        /\ reported' = {}
        /\ removing' = {}
        /\ adding' = {}
        /\ rows' = <<>>
        /\ dropped' = {}

Init == /\ families \in SUBSET Family
        /\ stored \in SUBSET (Doc \ Mine)
        /\ pending = {}
        /\ refused = {}
        /\ status = "reading"
        /\ known = {}
        /\ reported = {}
        /\ removing = {}
        /\ adding = {}
        /\ rows = <<>>
        /\ dropped = {}
        /\ pages = 1
        /\ switches = 0

\* The documents as this device sees them.
View == stored \cup pending

\* The main thread is not in the forEach over a snapshot.
Free == removing \cup adding = {}

Row(f) == \E k \in DOMAIN rows : FamilyOf[rows[k]] = f

-------------------------------------------------------------------------------
(* The page *)

\* The tabs are presented anew; this page is covered for good.
Reopen == /\ Free
          /\ pages < MaxPages
          /\ pages' = pages + 1
          /\ Load
          /\ UNCHANGED storeVars

UserRead == /\ status = "reading"
            /\ known' = families
            /\ status' = "listening"
            /\ UNCHANGED <<storeVars, reported, removing, adding, rows, dropped, pages>>

\* "User not found": the page stays empty.
UserNotRead == /\ Fails
               /\ status = "reading"
               /\ status' = "dead"
               /\ UNCHANGED <<storeVars, known, reported, removing, adding,
                              rows, dropped, pages>>

\* Mutation of Snapshot: the collection is read once and not listened to.
SnapshotOnce == /\ status = "listening"
                /\ Free
                /\ reported = {}
                /\ View # {}
                /\ adding' = View
                /\ reported' = View
                /\ UNCHANGED <<storeVars, status, known, removing, rows, dropped, pages>>

Snapshot == /\ status = "listening"
            /\ Free
            /\ View # reported
            /\ removing' = reported \ View
            /\ adding' = View \ reported
            /\ reported' = View
            /\ UNCHANGED <<storeVars, status, known, rows, dropped, pages>>

\* A listener that reports an error reports nothing more.
ListenerFails == /\ Fails
                 /\ status = "listening"
                 /\ Free
                 /\ status' = "dead"
                 /\ UNCHANGED <<storeVars, known, reported, removing, adding,
                                rows, dropped, pages>>

Sorted(s) == \A j, k \in DOMAIN s : j < k => Name[s[j]] <= Name[s[k]]

InsertedAt(k, c) == SubSeq(rows, 1, k - 1) \o <<c>> \o SubSeq(rows, k, Len(rows))
RemovedAt(k) == SubSeq(rows, 1, k - 1) \o SubSeq(rows, k + 1, Len(rows))

\* Mutation of AddChannelToTable: no look for a row of the same family.
AddAlways(c) ==
  IF FamilyOf[c] \in known
  THEN \E k \in 1..(Len(rows) + 1) : /\ rows' = InsertedAt(k, c)
                                     /\ Sorted(rows')
  ELSE UNCHANGED rows

\* Mutation of AddChannelToTable: channels of the same name are equal.
AddUnlessNamed(c) ==
  IF FamilyOf[c] \in known /\ \A k \in DOMAIN rows : Name[rows[k]] # Name[c]
  THEN \E k \in 1..(Len(rows) + 1) : /\ rows' = InsertedAt(k, c)
                                     /\ Sorted(rows')
  ELSE UNCHANGED rows

\* Unless there is an equal channel: append it if the user is in its family (a
\* user whose document has no list of them is in none), and sort.
AddChannelToTable(c) ==
  IF FamilyOf[c] \in known /\ ~Row(FamilyOf[c])
  THEN \E k \in 1..(Len(rows) + 1) : /\ rows' = InsertedAt(k, c)
                                     /\ Sorted(rows')
  ELSE UNCHANGED rows

\* Mutation of RemoveChannelFromTable: nothing is removed.
RemoveNothing(c) == UNCHANGED rows

\* The row that equals c, which may have come from another document.
RemoveChannelFromTable(c) ==
  IF Row(FamilyOf[c])
  THEN \E k \in DOMAIN rows : FamilyOf[rows[k]] = FamilyOf[c] /\ rows' = RemovedAt(k)
  ELSE UNCHANGED rows

\* A snapshot lists the documents that are gone before those that are new.
Removed(c) == /\ c \in removing
              /\ removing' = removing \ {c}
              /\ dropped' = dropped \cup {c}
              /\ RemoveChannelFromTable(c)
              /\ UNCHANGED <<storeVars, status, known, reported, adding, pages>>

Added(c) == /\ removing = {}
            /\ c \in adding
            /\ adding' = adding \ {c}
            /\ AddChannelToTable(c)
            /\ UNCHANGED <<storeVars, status, known, reported, removing, dropped,
                           pages>>

-------------------------------------------------------------------------------
(* The rest of the app, and other devices *)

Unused(c) == c \notin stored \cup pending \cup refused

\* createTapped on this device: nobody waits for the answer.
SaveChannel(c) == /\ c \in Mine
                  /\ Unused(c)
                  /\ Free
                  /\ pending' = pending \cup {c}
                  /\ UNCHANGED <<families, stored, refused, switches, pageVars>>

Accept(c) == /\ c \in pending
             /\ pending' = pending \ {c}
             /\ stored' = stored \cup {c}
             /\ UNCHANGED <<families, refused, switches, pageVars>>

Refuse(c) == /\ Fails
             /\ c \in pending
             /\ pending' = pending \ {c}
             /\ refused' = refused \cup {c}
             /\ UNCHANGED <<families, stored, switches, pageVars>>

OthersSave(c) == /\ c \notin Mine \cup stored
                 /\ stored' = stored \cup {c}
                 /\ UNCHANGED <<families, pending, refused, switches, pageVars>>

\* The user joins a family, or a write of another device drops one.
ChangeFamilies(f) == /\ switches < MaxSwitches
                     /\ switches' = switches + 1
                     /\ families' = IF f \in families THEN families \ {f}
                                    ELSE families \cup {f}
                     /\ UNCHANGED <<stored, pending, refused, pageVars>>

Next == \/ Reopen \/ UserRead \/ UserNotRead \/ Snapshot \/ ListenerFails
        \/ \E c \in Doc : \/ Removed(c) \/ Added(c)
                          \/ SaveChannel(c) \/ Accept(c) \/ Refuse(c)
                          \/ OthersSave(c)
        \/ \E f \in Family : ChangeFamilies(f)

Spec == Init /\ [][Next]_vars

\* Firestore answers the read and reports every change, and a forEach ends.
FairSpec == /\ Spec
            /\ WF_vars(UserRead \/ UserNotRead)
            /\ WF_vars(Snapshot)
            /\ WF_vars(\E c \in Doc : Removed(c) \/ Added(c))

-------------------------------------------------------------------------------
(* Properties *)

\* A family has one row at most, although it may have several channels, and
\* the rows are sorted by name.
OneRowEach ==
  \A j, k \in DOMAIN rows :
    j < k => /\ FamilyOf[rows[j]] # FamilyOf[rows[k]]
             /\ Name[rows[j]] <= Name[rows[k]]

\* A row is one of a family the user was in when the page loaded, and its
\* document is one the listener still reports, or is about to be removed.
RowsReported ==
  \A k \in DOMAIN rows : /\ FamilyOf[rows[k]] \in known
                         /\ rows[k] \in reported \cup removing

\* The removal of another channel of the family, which this page has handled, may
\* have taken the row away.
RowDropped(f) == \E r \in dropped : FamilyOf[r] = f

\* When the changes are handled, every reported channel of a family that was
\* read has its row, unless this page has seen another channel of the family
\* removed: the removal of that one takes away the row of this one.
ReportedHaveRows ==
  Free => \A c \in reported :
            FamilyOf[c] \in known => Row(FamilyOf[c]) \/ RowDropped(FamilyOf[c])

\* A channel of a family the user is in while the page reads its user, or that
\* was read, gets its row, also when the page is made anew: unless the page has
\* failed, has seen another channel of the family removed, or has read its user
\* when the user was not in the family.
ChannelShown ==
  \A c \in Doc :
    (/\ c \in stored
     /\ \/ status = "reading" /\ FamilyOf[c] \in families
        \/ status = "listening" /\ FamilyOf[c] \in known)
    ~> \/ Row(FamilyOf[c])
       \/ status = "dead"
       \/ RowDropped(FamilyOf[c])
       \/ FamilyOf[c] \notin families \cup known
===============================================================================
