----------------------------- MODULE AuthoredRows -----------------------------
(***************************************************************************)
(* The part TimelineViewController and CommentViewController share: a list *)
(* of items kept beside a list of their authors.  Each item of a loaded    *)
(* list is given a snapshot listener on the document of its author         *)
(* (fetchUser, over UserApi.observeUser(withId:)); every event of the      *)
(* listener appends to both lists.  A listener is never removed: neither   *)
(* reloading the lists nor leaving the page stops it; only an error does.  *)
(***************************************************************************)
EXTENDS Naturals, Sequences

CONSTANTS User, Item,
          Author,      \* Author[i]: the user who wrote the item i
          Fails,       \* whether a read, a listener or a write may fail
          MaxVersion,  \* bound: the versions of a document in Users
          MaxErrors    \* bound: the listeners that fail

ASSUME AuthorAssumption == Author \in [Item -> User]
ASSUME FailsAssumption == Fails \in BOOLEAN
ASSUME MaxVersionAssumption == MaxVersion \in Nat
ASSUME MaxErrorsAssumption == MaxErrors \in Nat

VARIABLES
  version,    \* version[u]: which version of Users/u there is, 0 for none
  rows,       \* the list of items (posts, comments)
  authors,    \* the list of users beside it
  listening,  \* listening[i][v]: how many listeners of the item i are alive
              \* and have last reported version v (0: nothing yet)
  lost,       \* history: the items with a listener that failed before its
              \* first report, since the lists were last emptied
  errors      \* how many listeners have failed

rowVars == <<rows, authors, listening, lost, errors>>

Version == 0..MaxVersion
AuthorRow == [user : User, version : Version]

RowsTypeOK == /\ version \in [User -> Version]
              /\ rows \in Seq(Item)
              /\ authors \in Seq(AuthorRow)
              /\ listening \in [Item -> [Version -> Nat]]
              /\ lost \in SUBSET Item
              /\ errors \in 0..MaxErrors

NoRows == /\ rows = <<>>
          /\ authors = <<>>
          /\ listening = [i \in Item |-> [v \in Version |-> 0]]
          /\ lost = {}
          /\ errors = 0

Shown(i) == \E k \in DOMAIN rows : rows[k] = i

\* Some listener of i is alive.
Heard(i) == \E v \in Version : listening[i][v] > 0

\* The listeners of i that have something to report: the first snapshot, or
\* a version after the one they reported.  A missing document reports nothing.
Reportable(i, v) == /\ listening[i][v] > 0
                    /\ version[Author[i]] \notin {0, v}

\* Mutation of ClearRows: the list of users is forgotten.
ClearItems == /\ rows' = <<>>
              /\ lost' = {}
              /\ UNCHANGED authors

\* refresh() empties both lists; the table view is not reloaded.
ClearRows == /\ rows' = <<>>
             /\ authors' = <<>>
             /\ lost' = {}

\* One more listener for each item of s.
ListeningTo(s) ==
  [i \in Item |-> IF i \in s THEN [listening[i] EXCEPT ![0] = @ + 1]
                             ELSE listening[i]]

Reported(i, v) == [listening EXCEPT ![i][v] = @ - 1,
                                    ![i][version[Author[i]]] = @ + 1]

\* Mutation of Report: the document of the author is only read once.
ReportOnce(i, v) ==
  /\ Reportable(i, v)
  /\ listening' = Reported(i, v)
  /\ IF v = 0
     THEN /\ authors' = Append(authors, [user |-> Author[i],
                                         version |-> version[Author[i]]])
          /\ rows' = Append(rows, i)
     ELSE UNCHANGED <<rows, authors>>
  /\ UNCHANGED <<lost, errors>>

\* Mutation of Report: the snapshot of a missing document is reported too.
ReportNobody(i, v) ==
  /\ listening[i][v] > 0
  /\ v # version[Author[i]]
  /\ listening' = Reported(i, v)
  /\ authors' = Append(authors, [version |-> version[Author[i]]])
  /\ rows' = Append(rows, i)
  /\ UNCHANGED <<lost, errors>>

\* The event of a listener: the user, then the item it was fetched for.
Report(i, v) ==
  /\ Reportable(i, v)
  /\ listening' = Reported(i, v)
  /\ authors' = Append(authors, [user |-> Author[i],
                                 version |-> version[Author[i]]])
  /\ rows' = Append(rows, i)
  /\ UNCHANGED <<lost, errors>>

\* The event is an error: it is printed and the block returns.  Firestore calls
\* the listener no more; what it reported stays in the lists.
ListenerFails(i, v) ==
  /\ Fails
  /\ errors < MaxErrors
  /\ errors' = errors + 1
  /\ listening[i][v] > 0
  /\ listening' = [listening EXCEPT ![i][v] = @ - 1]
  /\ lost' = IF v = 0 THEN lost \cup {i} ELSE lost
  /\ UNCHANGED <<rows, authors>>

\* The document of a user is written: at sign up, or by EditProfile.
WriteProfile(u) == /\ version[u] < MaxVersion
                   /\ version' = [version EXCEPT ![u] = @ + 1]
                   /\ UNCHANGED rowVars

-------------------------------------------------------------------------------
(* What the two lists promise the table *)

\* The table reads both lists at the index of a row (cellForRowAt): they have
\* the same length and the user of a row is the author of its item, whatever
\* loads and events interleave.
Aligned == /\ Len(rows) = Len(authors)
           /\ \A k \in DOMAIN rows : authors[k].user = Author[rows[k]]

\* As long as one of the listeners of an item on show is alive, the item has a
\* row with the latest version of its author, or a listener is about to add it.
\* (Once the last one has failed, the rows keep the version they have.)
LatestShown ==
  \A i \in Item :
    Shown(i) /\ Heard(i) =>
      \/ \E k \in DOMAIN rows : /\ rows[k] = i
                                /\ authors[k].version = version[Author[i]]
      \/ \E v \in Version : Reportable(i, v)
===============================================================================
