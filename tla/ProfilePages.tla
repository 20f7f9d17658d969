------------------------------ MODULE ProfilePages -----------------------------
(***************************************************************************)
(* The page of a user with the grid of the posts (ProfileViewController    *)
(* for the user of the device, OthersProfileViewController for the others, *)
(* with the same code for the grid), the page of one post it opens         *)
(* (DetailViewController), and deleting the post there (DetailViewCell).   *)
(*                                                                         *)
(* Every appearance of the page empties the grid, queries the posts of the *)
(* user, and then reads each post on its own.  A deletion waits in the     *)
(* device's queue of writes, and the reads of the device see it there.     *)
(*                                                                         *)
(* Left out: the labels and the avatar (the profile itself changes in      *)
(* Timeline and Comments); pages opened from the page of the post.         *)
(***************************************************************************)
EXTENDS Naturals, Sequences

CONSTANTS User, Post, NoPost,
          Author,       \* Author[p]: the user who shared the post p
          Me,           \* the user who is signed in
          Fails,        \* whether a read may fail and a deletion be refused
          MaxAppears,   \* bound: how often one page appears
          MaxPages      \* bound: how many pages are made

ASSUME NoPostAssumption == NoPost \notin Post
ASSUME AuthorAssumption == Author \in [Post -> User]
ASSUME MeAssumption == Me \in User
ASSUME FailsAssumption == Fails \in BOOLEAN
ASSUME BoundsAssumption == MaxAppears \in Nat \ {0} /\ MaxPages \in Nat \ {0}

VARIABLES
  stored,      \* the documents of the collection Post
  gone,        \* the posts that were deleted
  deleting,    \* the deletions of this device the server has not answered
  deleted,     \* the posts deleted here, but for those it refused to delete
  subject,     \* the user whose page is up
  grid,        \* posts: the list of the page
  cells,       \* the posts of the cells on the screen
  queries,     \* how many queries of the page are not answered
  gets,        \* gets[p]: how many reads of the post p are not answered
  failed,      \* whether a read has failed, or found no author
  detail,      \* the page of a post, when it is up
  appears,     \* how often the page has appeared
  pages        \* how many pages were made

storeVars == <<stored, gone, deleting, deleted>>
gridVars == <<subject, grid, cells, queries, gets, appears, pages>>
vars == <<storeVars, gridVars, failed, detail>>

Stage == {"none", "loading", "author", "shown", "blank"}

TypeOK == /\ {stored, gone, deleting, deleted} \subseteq SUBSET Post
          /\ subject \in User
          /\ {grid, cells} \subseteq Seq(Post)
          /\ queries \in Nat
          /\ gets \in [Post -> Nat]
          /\ failed \in BOOLEAN
          /\ detail \in [stage : Stage, post : Post \cup {NoPost}]
          /\ appears \in 1..MaxAppears
          /\ pages \in 1..MaxPages

NoDetail == [stage |-> "none", post |-> NoPost]

Init == /\ stored \in SUBSET Post
        /\ gone = {}
        /\ deleting = {}
        /\ deleted = {}
        /\ subject \in User
        /\ grid = <<>>
        /\ cells = <<>>
        /\ queries = 1
        /\ gets = [p \in Post |-> 0]
        /\ failed = FALSE
        /\ detail = NoDetail
        /\ appears = 1
        /\ pages = 1

\* The posts as this device reads them.
View == stored \ deleting
PostsOf(u) == {p \in View : Author[p] = u}

-------------------------------------------------------------------------------
(* The grid *)

\* Mutation of Make: the posts are fetched by viewDidLoad as well.
MakeAndLoad(u) == /\ pages < MaxPages
                  /\ pages' = pages + 1
                  /\ subject' = u
                  /\ grid' = <<>>
                  /\ cells' = <<>>
                  /\ queries' = 2
                  /\ gets' = [p \in Post |-> 0]
                  /\ appears' = 1
                  /\ detail' = NoDetail

\* A new page appears; the answers that are under way go to the old ones.
Make(u) == /\ pages < MaxPages
           /\ pages' = pages + 1
           /\ subject' = u
           /\ grid' = <<>>
           /\ cells' = <<>>
           /\ queries' = 1
           /\ gets' = [p \in Post |-> 0]
           /\ appears' = 1
           /\ detail' = NoDetail

Reopen(u) == Make(u) /\ UNCHANGED <<storeVars, failed>>

\* viewDidAppear again, the page of a post or another tab having covered this
\* one: the list is emptied, the cells stay.
Appear == /\ appears < MaxAppears
          /\ appears' = appears + 1
          /\ detail' = NoDetail
          /\ grid' = <<>>
          /\ queries' = queries + 1
          /\ UNCHANGED <<storeVars, subject, cells, gets, failed, pages>>

Reading(s) == [p \in Post |-> IF p \in s THEN gets[p] + 1 ELSE gets[p]]

\* Mutation of PostsRead: an answer for a grid that is filled is ignored.
PostsReadOnce ==
  /\ queries > 0
  /\ queries' = queries - 1
  /\ gets' = IF grid = <<>> THEN Reading(PostsOf(subject)) ELSE gets
  /\ UNCHANGED <<storeVars, subject, grid, cells, failed, detail, appears, pages>>

PostsRead ==
  /\ queries > 0
  /\ queries' = queries - 1
  /\ gets' = Reading(PostsOf(subject))
  /\ UNCHANGED <<storeVars, subject, grid, cells, failed, detail, appears, pages>>

PostsNotRead ==
  /\ Fails
  /\ queries > 0
  /\ queries' = queries - 1
  /\ failed' = TRUE
  /\ UNCHANGED <<storeVars, subject, grid, cells, gets, detail, appears, pages>>

\* Mutation of PostRead: the grid is not reloaded.
PostReadSilently(p) ==
  /\ gets[p] > 0
  /\ p \in View
  /\ gets' = [gets EXCEPT ![p] = @ - 1]
  /\ grid' = Append(grid, p)
  /\ UNCHANGED <<storeVars, subject, cells, queries, failed, detail, appears,
                 pages>>

\* The collection view asks for the number of posts and for the cell of each.
ReloadData == cells' = grid'

\* The list grows, and the collection view is reloaded.
PostRead(p) ==
  /\ gets[p] > 0
  /\ p \in View
  /\ gets' = [gets EXCEPT ![p] = @ - 1]
  /\ grid' = Append(grid, p)
  /\ ReloadData
  /\ UNCHANGED <<storeVars, subject, queries, failed, detail, appears, pages>>

\* "Post not found": it was deleted meanwhile, or the read failed.
PostNotRead(p) ==
  /\ gets[p] > 0
  /\ Fails \/ p \notin View
  /\ gets' = [gets EXCEPT ![p] = @ - 1]
  /\ failed' = (failed \/ p \in View)
  /\ UNCHANGED <<storeVars, subject, grid, cells, queries, detail, appears,
                 pages>>

-------------------------------------------------------------------------------
(* The page of a post *)

\* A cell keeps its post, also when the list is empty again.
CellTapped(p) ==
  /\ detail.stage = "none"
  /\ \E k \in DOMAIN cells : cells[k] = p
  /\ detail' = [stage |-> "loading", post |-> p]
  /\ UNCHANGED <<storeVars, gridVars, failed>>

DetailRead ==
  /\ detail.stage = "loading"
  /\ detail.post \in View
  /\ detail' = [detail EXCEPT !.stage = "author"]
  /\ UNCHANGED <<storeVars, gridVars, failed>>

\* The page stays empty, with the button to delete hidden.
DetailNotRead ==
  /\ detail.stage = "loading"
  /\ Fails \/ detail.post \notin View
  /\ detail' = [detail EXCEPT !.stage = "blank"]
  /\ failed' = (failed \/ detail.post \in View)
  /\ UNCHANGED <<storeVars, gridVars>>

\* Mutation of DetailAuthor: the post is set only if it is one of the user of the
\* device; the page of another's stays empty.
DetailOwner ==
  /\ detail.stage = "author"
  /\ detail' = [detail EXCEPT !.stage = IF Author[detail.post] = Me THEN "shown"
                                        ELSE "blank"]
  /\ UNCHANGED <<storeVars, gridVars, failed>>

\* The author and the post are set together, and the page reloaded.  Every post
\* names its author (uploadToFirebase), so that loadPost does not return early.
DetailAuthor ==
  /\ detail.stage = "author"
  /\ detail' = [detail EXCEPT !.stage = "shown"]
  /\ UNCHANGED <<storeVars, gridVars, failed>>

\* "User not found": the listener of the author reports an error, or there is no
\* document.  The page stays as empty as if the post had not been found.
DetailAuthorNotRead ==
  /\ Fails
  /\ detail.stage = "author"
  /\ detail' = [detail EXCEPT !.stage = "blank"]
  /\ failed' = TRUE
  /\ UNCHANGED <<storeVars, gridVars>>

\* setupUserInfo: the button to delete is shown to the author only.
CanDelete == Author[detail.post] = Me

\* Mutation of DeleteTapped: the page of the post is closed, not a new
\* profile page presented.
DeleteAndClose ==
  /\ detail.stage = "shown"
  /\ CanDelete
  /\ deleting' = deleting \cup {detail.post}
  /\ deleted' = deleted \cup {detail.post}
  /\ detail' = NoDetail
  /\ UNCHANGED <<stored, gone, gridVars, failed>>

\* New tabs are presented, with the own profile on top, before the server
\* answers.
DeleteTapped ==
  /\ detail.stage = "shown"
  /\ CanDelete
  /\ deleting' = deleting \cup {detail.post}
  /\ deleted' = deleted \cup {detail.post}
  /\ Make(Me)
  /\ UNCHANGED <<stored, gone, failed>>

-------------------------------------------------------------------------------
(* The server and other devices *)

Accept(p) == /\ p \in deleting
             /\ deleting' = deleting \ {p}
             /\ stored' = stored \ {p}
             /\ gone' = gone \cup {p}
             /\ UNCHANGED <<deleted, gridVars, failed, detail>>

\* The error is printed.
Refuse(p) == /\ Fails
             /\ p \in deleting
             /\ deleting' = deleting \ {p}
             /\ deleted' = deleted \ {p}
             /\ UNCHANGED <<stored, gone, gridVars, failed, detail>>

Share(p) == /\ p \notin stored \cup gone
            /\ stored' = stored \cup {p}
            /\ UNCHANGED <<gone, deleting, deleted, gridVars, failed, detail>>

OthersDelete(p) == /\ p \in stored
                   /\ stored' = stored \ {p}
                   /\ gone' = gone \cup {p}
                   /\ UNCHANGED <<deleting, deleted, gridVars, failed, detail>>

Next == \/ \E u \in User : Reopen(u)
        \/ Appear \/ PostsRead \/ PostsNotRead
        \/ DetailRead \/ DetailNotRead \/ DetailAuthor \/ DetailAuthorNotRead
        \/ DeleteTapped
        \/ \E p \in Post : \/ PostRead(p) \/ PostNotRead(p) \/ CellTapped(p)
                           \/ Accept(p) \/ Refuse(p)
                           \/ Share(p) \/ OthersDelete(p)

Spec == Init /\ [][Next]_vars

\* Firestore answers every read; nobody has to tap.
FairSpec == /\ Spec
            /\ WF_vars(PostsRead \/ PostsNotRead)
            /\ \A p \in Post : WF_vars(PostRead(p) \/ PostNotRead(p))
            /\ WF_vars(DetailRead \/ DetailNotRead)
            /\ WF_vars(DetailAuthor \/ DetailAuthorNotRead)

-------------------------------------------------------------------------------
(* Properties *)

\* A post the user has deleted is not in the grid any more, although the
\* server has not answered and reads were under way; unless it is refused.
DeletedHidden == \A k \in DOMAIN grid : grid[k] \notin deleted

\* The first load of a page shows a post once; a second appearance while the
\* reads of the first are under way may repeat it.
CleanFirstGrid ==
  appears = 1 => \A j, k \in DOMAIN grid : grid[j] = grid[k] => j = k

\* The cells on the screen are those of the list, or the list is empty: the
\* window in which cellForItemAt reads beyond the end (ProfileViewController
\* does not look at the length).  It closes with the first post that is read, so
\* that it stays open only while an answer is under way, or if a read has failed,
\* or if every post on the screen was deleted by others.
CellsFollow ==
  \/ cells = grid
  \/ /\ grid = <<>>
     /\ \/ queries > 0
        \/ \E p \in Post : gets[p] > 0
        \/ failed
        \/ \A k \in DOMAIN cells : cells[k] \in gone

\* A post of the user is shown, unless it is deleted, a read fails, or the
\* page of another user is opened.
PostShown ==
  \A p \in Post :
    (queries > 0 /\ p \in PostsOf(subject))
    ~> \/ \E k \in DOMAIN grid : grid[k] = p
       \/ p \notin PostsOf(subject)
       \/ failed

\* The page of a post that is tapped shows this post, unless the page is left; it
\* stays empty only if the post is deleted or a read fails.
DetailShown ==
  \A p \in Post :
    detail = [stage |-> "loading", post |-> p]
    ~> \/ detail = [stage |-> "shown", post |-> p]
       \/ detail.post # p
       \/ detail.stage = "blank" /\ (p \notin View \/ failed)
===============================================================================
