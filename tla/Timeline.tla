------------------------------- MODULE Timeline -------------------------------
(***************************************************************************)
(* The timeline of a user (MainPage/TimeLine/TimelineViewController): a    *)
(* refresh reads the document of the user for the current family, then     *)
(* queries the posts of that family, then listens to the author of each.   *)
(* Every answer is an action of its own, so that any number of loads may   *)
(* overlap.  The posts, the current family and the profiles change under   *)
(* the page: the user posts and switches on other pages, relatives on      *)
(* other devices.  The label of a row is that of RelativeTime.             *)
(***************************************************************************)
EXTENDS AuthoredRows, RelativeTime

CONSTANTS Family,
          FamilyOf,    \* FamilyOf[p]: the family the post p was made for
          Me,          \* the user who is signed in
          MaxLoads,    \* bound: the refreshes of a page
          MaxChanges   \* bound: posts added and deleted, families switched

ASSUME FamilyOfAssumption == FamilyOf \in [Item -> Family]
ASSUME MeAssumption == Me \in User
ASSUME BoundsAssumption == MaxLoads \in Nat /\ MaxChanges \in Nat

VARIABLES
  posts,     \* the documents of the collection Post
  current,   \* the field familyId of Users/Me
  reads,     \* how many reads of Users/Me are not answered
  queries,   \* queries[f]: how many queries of the posts of f are not answered
  fetched,   \* the posts that were answered since the last refresh
  failed,    \* whether a read has failed
  loads,     \* how many refreshes there were
  changes    \* how many changes there were

pageVars == <<reads, queries, fetched, failed, loads>>
storeVars == <<posts, current, changes>>
vars == <<version, rowVars, pageVars, storeVars>>

TypeOK == /\ RowsTypeOK
          /\ posts \in SUBSET Item
          /\ current \in Family
          /\ reads \in Nat
          /\ queries \in [Family -> Nat]
          /\ fetched \in SUBSET Item
          /\ failed \in BOOLEAN
          /\ loads \in 0..MaxLoads
          /\ changes \in 0..MaxChanges

Init == /\ version \in [User -> {0, 1} \cap Version]
        /\ NoRows
        /\ posts = {}
        /\ current \in Family
        /\ reads = 0
        /\ queries = [f \in Family |-> 0]
        /\ fetched = {}
        /\ failed = FALSE
        /\ loads = 0
        /\ changes = 0

-------------------------------------------------------------------------------
(* The page *)

\* viewDidAppear, or the user pulls the table down.
Refresh == /\ loads < MaxLoads
           /\ loads' = loads + 1
           /\ ClearRows
           /\ fetched' = {}
           /\ reads' = reads + 1
           /\ UNCHANGED <<version, listening, errors, queries, failed,
                          storeVars>>

\* Mutation of UserRead: the posts of every family are queried.
UserReadForAll ==
  /\ reads > 0
  /\ version[Me] > 0
  /\ reads' = reads - 1
  /\ queries' = [f \in Family |-> queries[f] + 1]
  /\ UNCHANGED <<version, rowVars, fetched, failed, loads, storeVars>>

\* Mutation of UserRead: no query while another one is not answered.
UserReadUnlessBusy ==
  /\ reads > 0
  /\ version[Me] > 0
  /\ reads' = reads - 1
  /\ queries' = IF \E f \in Family : queries[f] > 0 THEN queries
                ELSE [queries EXCEPT ![current] = @ + 1]
  /\ UNCHANGED <<version, rowVars, fetched, failed, loads, storeVars>>

UserRead == /\ reads > 0
            /\ version[Me] > 0
            /\ reads' = reads - 1
            /\ queries' = [queries EXCEPT ![current] = @ + 1]
            /\ UNCHANGED <<version, rowVars, fetched, failed, loads, storeVars>>

\* "User not found": the document is missing, or the read failed.
UserNotRead == /\ reads > 0
               /\ Fails \/ version[Me] = 0
               /\ reads' = reads - 1
               /\ failed' = TRUE
               /\ UNCHANGED <<version, rowVars, queries, fetched, loads,
                              storeVars>>

PostsOf(f) == {p \in posts : FamilyOf[p] = f}

\* Mutation of PostsRead: the lists are emptied by the answer as well.
PostsReadClearing(f) ==
  /\ queries[f] > 0
  /\ queries' = [queries EXCEPT ![f] = @ - 1]
  /\ listening' = ListeningTo(PostsOf(f))
  /\ fetched' = fetched \cup PostsOf(f)
  /\ ClearRows
  /\ UNCHANGED <<version, errors, reads, failed, loads, storeVars>>

\* Every post is written with its userId, so the block never returns at a post
\* without one before the end of the list.
PostsRead(f) == /\ queries[f] > 0
                /\ queries' = [queries EXCEPT ![f] = @ - 1]
                /\ listening' = ListeningTo(PostsOf(f))
                /\ fetched' = fetched \cup PostsOf(f)
                /\ UNCHANGED <<version, rows, authors, lost, errors, reads,
                               failed, loads, storeVars>>

PostsNotRead(f) == /\ Fails
                   /\ queries[f] > 0
                   /\ queries' = [queries EXCEPT ![f] = @ - 1]
                   /\ failed' = TRUE
                   /\ UNCHANGED <<version, rowVars, reads, fetched, loads,
                                  storeVars>>

AuthorReported(p, v) == Report(p, v) /\ UNCHANGED <<version, pageVars, storeVars>>

AuthorLost(p, v) == ListenerFails(p, v) /\ UNCHANGED <<version, pageVars, storeVars>>

-------------------------------------------------------------------------------
(* What happens on other pages and other devices *)

Change == /\ changes < MaxChanges
          /\ changes' = changes + 1

AddPost(p) == /\ Change
              /\ p \notin posts
              /\ version[Author[p]] > 0
              /\ posts' = posts \cup {p}
              /\ UNCHANGED <<version, rowVars, pageVars, current>>

DeletePost(p) == /\ Change
                 /\ p \in posts
                 /\ posts' = posts \ {p}
                 /\ UNCHANGED <<version, rowVars, pageVars, current>>

SwitchFamily(f) == /\ Change
                   /\ f # current
                   /\ current' = f
                   /\ UNCHANGED <<version, rowVars, pageVars, posts>>

EditProfile(u) == WriteProfile(u) /\ UNCHANGED <<pageVars, storeVars>>

Answers == \/ UserRead
           \/ UserNotRead
           \/ \E f \in Family : PostsRead(f) \/ PostsNotRead(f)
           \/ \E p \in Item, v \in Version : AuthorReported(p, v) \/ AuthorLost(p, v)

Changes == \/ \E p \in Item : AddPost(p) \/ DeletePost(p)
           \/ \E f \in Family : SwitchFamily(f)
           \/ \E u \in User : EditProfile(u)

Next == Refresh \/ Answers \/ Changes

Spec == Init /\ [][Next]_vars

\* The Firestore client calls every completion block and reports every change
\* to a listener; nobody is obliged to refresh or to change anything.
FairSpec == /\ Spec
            /\ WF_vars(UserRead \/ UserNotRead)
            /\ \A f \in Family : WF_vars(PostsRead(f) \/ PostsNotRead(f))
            /\ \A p \in Item, v \in Version : WF_vars(AuthorReported(p, v))

-------------------------------------------------------------------------------
(* Properties *)

\* A post that was answered since the lists were emptied has a row, or a
\* listener will add it: no overlap of loads drops a post.  (A post whose
\* author has no document is not shown, nor one whose listener failed first.)
NothingDropped ==
  \A p \in fetched : \/ Shown(p)
                     \/ version[Author[p]] = 0
                     \/ p \in lost
                     \/ \E v \in Version : Reportable(p, v)

NoRepeats == \A j, k \in DOMAIN rows : rows[j] = rows[k] => j = k

OneFamily == \A j, k \in DOMAIN rows : FamilyOf[rows[j]] = FamilyOf[rows[k]]

\* A later load, or an event of a listener nobody removed, repeats rows and
\* mixes families; nothing else does: the first load of a page shows every
\* post once ("The Cell for every post of a family", TimelineTableViewCell:7)
\* and the posts of one family only.
CleanFirstLoad ==
  (loads <= 1 /\ \A u \in User : version[u] <= 1) => NoRepeats /\ OneFamily

\* A row on show is labelled right, whatever the age of its post and also when
\* the clock is behind: see LabelsRight.
RowsLabelled == rows # <<>> => LabelsRight

\* A post of the current family is shown by a refresh, unless it is deleted,
\* the family is switched before it is, a read fails, or a listener of the
\* post fails before it has reported the author.
RefreshShows ==
  \A p \in Item :
    ( /\ reads > 0
      /\ version[Me] > 0
      /\ p \in PostsOf(current)
      /\ version[Author[p]] > 0 )
    ~> (Shown(p) \/ p \notin PostsOf(current) \/ failed \/ p \in lost)
===============================================================================
