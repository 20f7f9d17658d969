------------------------------- MODULE Comments -------------------------------
(***************************************************************************)
(* The page with the comments of one post (MainPage/TimeLine/              *)
(* CommentViewController).  The lists are filled as on the timeline; in    *)
(* addition the page sends comments, and its table asks for the cell of a  *)
(* row without looking how long the lists are.                             *)
(*                                                                         *)
(* A comment that is sent waits in the device's queue of writes; a query   *)
(* of the device sees it there; the server accepts it or refuses it.       *)
(***************************************************************************)
EXTENDS AuthoredRows

CONSTANT Me            \* the user who is signed in

ASSUME MeAssumption == Me \in User

VARIABLES
  stored,      \* the comments of the post in the collection Comment
  outbox,      \* the comments sent that the server has not answered, in order
  refused,     \* the comments the server refused
  sent,        \* the comments sent from this page
  reads,       \* how many reads of Users/Me are not answered
  queries,     \* how many queries of the comments are not answered
  failed,      \* whether a read failed since the last comment was sent
  tableRows    \* how many rows the table view believes it has

pageVars == <<sent, reads, queries, failed, tableRows>>
storeVars == <<stored, outbox, refused>>
vars == <<version, rowVars, pageVars, storeVars>>

Pending == {outbox[k] : k \in DOMAIN outbox}

TypeOK == /\ RowsTypeOK
          /\ stored \in SUBSET Item
          /\ outbox \in Seq(Item)
          /\ refused \in SUBSET Item
          /\ sent \in SUBSET Item
          /\ reads \in Nat
          /\ queries \in Nat
          /\ failed \in BOOLEAN
          /\ tableRows \in Nat

\* viewDidLoad has asked for the first load.
Init == /\ version \in [User -> {0, 1} \cap Version]
        /\ NoRows
        /\ stored = {}
        /\ outbox = <<>>
        /\ refused = {}
        /\ sent = {}
        /\ reads = 1
        /\ queries = 0
        /\ failed = FALSE
        /\ tableRows = 0

Unused(c) == c \notin stored \cup Pending \cup refused

-------------------------------------------------------------------------------
(* The page *)

\* setData, then refresh(): the lists are emptied, the table keeps its rows.
SendComment(c) == /\ Author[c] = Me
                  /\ Unused(c)
                  /\ outbox' = Append(outbox, c)
                  /\ sent' = sent \cup {c}
                  /\ failed' = FALSE
                  /\ ClearRows
                  /\ reads' = reads + 1
                  /\ UNCHANGED <<version, listening, errors, stored, refused,
                                 queries, tableRows>>

UserRead == /\ reads > 0
            /\ version[Me] > 0
            /\ reads' = reads - 1
            /\ queries' = queries + 1
            /\ UNCHANGED <<version, rowVars, sent, failed, tableRows,
                           storeVars>>

UserNotRead == /\ reads > 0
               /\ Fails \/ version[Me] = 0
               /\ reads' = reads - 1
               /\ failed' = TRUE
               /\ UNCHANGED <<version, rowVars, sent, queries, tableRows,
                              storeVars>>

\* Mutation of CommentsRead: the comments not yet accepted are not seen.
CommentsReadStored ==
  /\ queries > 0
  /\ queries' = queries - 1
  /\ listening' = ListeningTo(stored)
  /\ UNCHANGED <<version, rows, authors, lost, errors, sent, reads, failed,
                 tableRows, storeVars>>

\* Mutation of CommentsRead: the block returns when the list is not empty.
CommentsReadOnce ==
  /\ queries > 0
  /\ queries' = queries - 1
  /\ listening' = IF rows = <<>> THEN ListeningTo(stored \cup Pending)
                                 ELSE listening
  /\ UNCHANGED <<version, rows, authors, lost, errors, sent, reads, failed,
                 tableRows, storeVars>>

CommentsRead == /\ queries > 0
                /\ queries' = queries - 1
                /\ listening' = ListeningTo(stored \cup Pending)
                /\ UNCHANGED <<version, rows, authors, lost, errors, sent, reads,
                               failed, tableRows, storeVars>>

CommentsNotRead == /\ Fails
                   /\ queries > 0
                   /\ queries' = queries - 1
                   /\ failed' = TRUE
                   /\ UNCHANGED <<version, rowVars, sent, reads, tableRows,
                                  storeVars>>

\* Mutation of AuthorReported: the table is not reloaded.
ReportedSilently(c, v) == /\ Report(c, v)
                          /\ UNCHANGED <<version, pageVars, storeVars>>

\* The table view asks the data source for the number of comments; it then has a
\* row, with a comment and its author, for each.
ReloadData == tableRows' = Len(rows')

\* Both lists grow, then the table is reloaded.
AuthorReported(c, v) == /\ Report(c, v)
                        /\ ReloadData
                        /\ UNCHANGED <<version, sent, reads, queries, failed,
                                       storeVars>>

AuthorLost(c, v) == /\ ListenerFails(c, v)
                    /\ UNCHANGED <<version, pageVars, storeVars>>

-------------------------------------------------------------------------------
(* The server and the relatives *)

Accept == /\ outbox # <<>>
          /\ stored' = stored \cup {Head(outbox)}
          /\ outbox' = Tail(outbox)
          /\ UNCHANGED <<version, rowVars, pageVars, refused>>

Refuse == /\ Fails
          /\ outbox # <<>>
          /\ refused' = refused \cup {Head(outbox)}
          /\ outbox' = Tail(outbox)
          /\ UNCHANGED <<version, rowVars, pageVars, stored>>

OthersComment(c) == /\ Author[c] # Me
                    /\ Unused(c)
                    /\ stored' = stored \cup {c}
                    /\ UNCHANGED <<version, rowVars, pageVars, outbox, refused>>

EditProfile(u) == WriteProfile(u) /\ UNCHANGED <<pageVars, storeVars>>

Next == \/ \E c \in Item : SendComment(c) \/ OthersComment(c)
        \/ UserRead \/ UserNotRead
        \/ CommentsRead \/ CommentsNotRead
        \/ \E c \in Item, v \in Version : AuthorReported(c, v) \/ AuthorLost(c, v)
        \/ Accept \/ Refuse
        \/ \E u \in User : EditProfile(u)

Spec == Init /\ [][Next]_vars

\* The Firestore client answers every read and reports to every listener.
FairSpec == /\ Spec
            /\ WF_vars(UserRead \/ UserNotRead)
            /\ WF_vars(CommentsRead \/ CommentsNotRead)
            /\ \A c \in Item : WF_vars(\E v \in Version : AuthorReported(c, v))

-------------------------------------------------------------------------------
(* Properties *)

\* A comment sent from the page and not refused is on show, or is on its way
\* to be: unless a read failed (or the document of the user is missing), or a
\* listener of it failed before its first report.
SentNotForgotten ==
  \A c \in sent \cap (stored \cup Pending) :
    \/ Shown(c)
    \/ reads + queries > 0
    \/ failed
    \/ c \in lost
    \/ \E v \in Version : Reportable(c, v)

\* The table and the lists disagree only while the lists are empty, and they
\* are empty only until the load that a send has started brings the comment
\* back: that load is under way, or it failed, or every comment that was sent
\* was refused.  (Until then a cell the table asks for reads beyond the lists.)
TableFollows ==
  \/ tableRows = Len(rows)
  \/ /\ rows = <<>>
     /\ \/ reads + queries > 0
        \/ failed
        \/ \E c \in sent : c \in lost \/ \E v \in Version : Reportable(c, v)
        \/ sent \subseteq refused

\* After a send the comments sent from the page come to be on show, all of them
\* at once, although each send empties the lists while the loads of the earlier
\* ones are under way: but for those that are refused, those with a listener
\* that fails before its first report, and after a read that fails.
SentShown ==
  (version[Me] > 0 /\ reads > 0) ~>
     \A c \in sent : Shown(c) \/ c \in refused \/ failed \/ c \in lost
===============================================================================
