--------------------------- MODULE ProfilePages_proofs --------------------------
(***************************************************************************)
(* What the grid of a profile promises for every number of users, posts,   *)
(* pages and appearances: no post that was deleted, on the first           *)
(* appearance none twice, posts of its own user only, and, once a post is  *)
(* on its way to the grid, that it is not lost when the page appears again;*)
(* and why cells outlive a list that was emptied only for a while.         *)
(***************************************************************************)
EXTENDS ProfilePages, TLAPS

StoreTypeOK == /\ stored \in SUBSET Post
               /\ gone \in SUBSET Post
               /\ deleting \in SUBSET Post
               /\ deleted \in SUBSET Post
               /\ detail \in [stage : Stage, post : Post \cup {NoPost}]
               /\ detail.stage # "none" => detail.post \in Post

GridTypeOK == /\ grid \in Seq(Post)
              /\ cells \in Seq(Post)
              /\ queries \in Nat
              /\ gets \in [Post -> Nat]
              /\ appears \in Nat \ {0}

InGrid(p) == \E k \in DOMAIN grid : grid[k] = p

\* What this device reads has not been deleted: a deletion waits in its queue,
\* or the server has done it, for good.
DeletionInv == /\ deleted \subseteq deleting \cup gone
               /\ stored \cap gone = {}
               /\ DeletedHidden

\* On the first appearance, one query leads to one read of each post, and one
\* read to one cell.
FirstLoad == /\ queries <= 1
             /\ queries = 1 => grid = <<>> /\ \A p \in Post : gets[p] = 0
             /\ \A p \in Post : gets[p] <= 1
             /\ \A p \in Post : InGrid(p) => gets[p] = 0
             /\ \A j, k \in DOMAIN grid : grid[j] = grid[k] => j = k

\* Only Appear parts the cells from the list, which it empties.
CellsFill == cells = grid \/ grid = <<>>

Inv == /\ StoreTypeOK
       /\ GridTypeOK
       /\ DeletionInv
       /\ appears = 1 => FirstLoad
       /\ CellsFill

LEMMA InvInit == Init => Inv
<1> SUFFICES ASSUME Init PROVE Inv
  OBVIOUS
<1>1. StoreTypeOK
  BY DEF Init, StoreTypeOK, NoDetail, Stage
<1>2. GridTypeOK
  BY DEF Init, GridTypeOK
<1>3. DeletionInv
  BY DEF Init, DeletionInv, DeletedHidden
<1>4. FirstLoad
  BY DEF Init, FirstLoad, InGrid
<1> QED
  BY <1>1, <1>2, <1>3, <1>4 DEF Inv, Init, CellsFill

\* A new page has an empty grid and one query.
LEMMA InvMake ==
  ASSUME Inv, NEW u \in User, Make(u), StoreTypeOK',
         deleted' \subseteq deleting' \cup gone', stored' \cap gone' = {}
  PROVE  Inv'
<1>1. GridTypeOK'
  BY DEF Make, GridTypeOK
<1>2. DeletionInv'
  BY DEF Make, DeletionInv, DeletedHidden
<1>3. FirstLoad'
  BY DEF Make, FirstLoad, InGrid
<1>4. CellsFill'
  BY DEF Make, CellsFill
<1> QED
  BY <1>1, <1>2, <1>3, <1>4 DEF Inv

\* What happens to the documents does not touch the grid.
LEMMA InvStore ==
  ASSUME Inv, UNCHANGED gridVars, StoreTypeOK',
         deleted' \subseteq deleting' \cup gone', stored' \cap gone' = {},
         deleted' \subseteq deleted
  PROVE  Inv'
<1>1. DeletionInv'
  BY DEF Inv, DeletionInv, DeletedHidden, gridVars
<1> QED
  BY <1>1 DEF Inv, GridTypeOK, FirstLoad, InGrid, CellsFill, gridVars

\* A post that is read is one this device has not deleted; its read was the
\* only one if the page appears for the first time.
LEMMA InvPostRead ==
  ASSUME Inv, NEW p \in Post, PostRead(p)
  PROVE  Inv'
<1> USE DEF Inv, StoreTypeOK, GridTypeOK
<1>1. /\ grid \in Seq(Post) /\ grid' = Append(grid, p)
      /\ gets[p] \in Nat /\ gets[p] > 0
      /\ UNCHANGED <<storeVars, detail, queries, appears>>
      /\ gets' = [gets EXCEPT ![p] = @ - 1]
      /\ cells' = grid'
  BY DEF PostRead, ReloadData
<1>2. /\ Len(grid) \in Nat /\ Len(grid') = Len(grid) + 1
      /\ DOMAIN grid = 1..Len(grid) /\ DOMAIN grid' = 1..(Len(grid) + 1)
      /\ \A k \in 1..Len(grid) : grid'[k] = grid[k]
      /\ grid'[Len(grid) + 1] = p
      /\ grid' \in Seq(Post)
  BY <1>1
<1>3. GridTypeOK' /\ StoreTypeOK'
  BY <1>1, <1>2 DEF storeVars
<1>4. p \notin deleted
  BY DEF PostRead, ReloadData, View, DeletionInv
<1>5. DeletionInv'
  <2>1. UNCHANGED <<stored, gone, deleting, deleted>>
    BY <1>1 DEF storeVars
  <2>2. \A k \in DOMAIN grid' : grid'[k] \notin deleted
    <3> SUFFICES ASSUME NEW k \in DOMAIN grid' PROVE grid'[k] \notin deleted
      OBVIOUS
    <3>1. CASE k \in 1..Len(grid)
      BY <3>1, <1>2 DEF DeletionInv, DeletedHidden
    <3>2. CASE k = Len(grid) + 1
      BY <3>2, <1>2, <1>4
    <3> QED
      BY <3>1, <3>2, <1>2
  <2> QED
    BY <2>1, <2>2 DEF DeletionInv, DeletedHidden
<1>6. ASSUME appears' = 1 PROVE FirstLoad'
  <2>1. FirstLoad
    BY <1>1, <1>6
  <2>2. gets'[p] = 0 /\ \A q \in Post : q # p => gets'[q] = gets[q]
    BY <1>1, <2>1 DEF FirstLoad
  <2>3. queries' # 1
    BY <1>1, <2>1 DEF FirstLoad
  <2>4. ~InGrid(p)
    BY <1>1, <2>1 DEF FirstLoad
  <2>5. \A q \in Post : InGrid(q)' => q = p \/ InGrid(q)
    <3> SUFFICES ASSUME NEW q \in Post, NEW k \in DOMAIN grid', grid'[k] = q,
                        q # p
                 PROVE  InGrid(q)
      BY DEF InGrid
    <3>1. k \in 1..Len(grid)
      BY <1>2
    <3> QED
      BY <3>1, <1>2 DEF InGrid
  <2>6. \A j, k \in DOMAIN grid' : grid'[j] = grid'[k] => j = k
    <3> SUFFICES ASSUME NEW j \in DOMAIN grid', NEW k \in DOMAIN grid',
                        grid'[j] = grid'[k], j # k
                 PROVE  FALSE
      OBVIOUS
    <3>1. CASE j \in 1..Len(grid) /\ k \in 1..Len(grid)
      BY <3>1, <1>2, <2>1 DEF FirstLoad
    <3>2. CASE j = Len(grid) + 1
      <4>1. k \in 1..Len(grid)
        BY <3>2, <1>2
      <4> QED
        BY <3>2, <4>1, <1>2, <2>4 DEF InGrid
    <3>3. CASE k = Len(grid) + 1
      <4>1. j \in 1..Len(grid)
        BY <3>3, <1>2
      <4> QED
        BY <3>3, <4>1, <1>2, <2>4 DEF InGrid
    <3> QED
      BY <3>1, <3>2, <3>3, <1>2
  <2> QED
    BY <1>1, <2>1, <2>2, <2>3, <2>5, <2>6 DEF FirstLoad
<1> QED
  BY <1>1, <1>3, <1>5, <1>6 DEF CellsFill

LEMMA InvNext == Inv /\ [Next]_vars => Inv'
<1> SUFFICES ASSUME Inv, [Next]_vars PROVE Inv'
  OBVIOUS
<1> USE DEF storeVars
<1>1. ASSUME NEW u \in User, Reopen(u) PROVE Inv'
  BY <1>1, InvMake DEF Reopen, Make, Inv, StoreTypeOK, DeletionInv, NoDetail, Stage
<1>2. CASE Appear
  <2>1. appears' # 1 /\ GridTypeOK'
    BY <1>2 DEF Appear, Inv, GridTypeOK
  <2>2. StoreTypeOK' /\ DeletionInv' /\ CellsFill'
    BY <1>2 DEF Appear, Inv, StoreTypeOK, DeletionInv, DeletedHidden,
                CellsFill, NoDetail, Stage
  <2> QED
    BY <2>1, <2>2 DEF Inv
<1>3. CASE PostsRead
  <2>1. GridTypeOK'
    BY <1>3 DEF PostsRead, Reading, Inv, GridTypeOK
  <2>2. StoreTypeOK' /\ DeletionInv' /\ CellsFill'
    BY <1>3 DEF PostsRead, Inv, StoreTypeOK, DeletionInv, DeletedHidden,
                CellsFill
  <2>3. appears' = 1 => FirstLoad'
    BY <1>3 DEF PostsRead, Reading, Inv, GridTypeOK, FirstLoad, InGrid
  <2> QED
    BY <2>1, <2>2, <2>3 DEF Inv
<1>4. CASE PostsNotRead
  <2>1. GridTypeOK'
    BY <1>4 DEF PostsNotRead, Inv, GridTypeOK
  <2>2. StoreTypeOK' /\ DeletionInv' /\ CellsFill'
    BY <1>4 DEF PostsNotRead, Inv, StoreTypeOK, DeletionInv, DeletedHidden,
                CellsFill
  <2>3. appears' = 1 => FirstLoad'
    BY <1>4 DEF PostsNotRead, Inv, GridTypeOK, FirstLoad, InGrid
  <2> QED
    BY <2>1, <2>2, <2>3 DEF Inv
<1>5. ASSUME NEW p \in Post, PostRead(p) PROVE Inv'
  BY <1>5, InvPostRead
<1>6. ASSUME NEW p \in Post, PostNotRead(p) PROVE Inv'
  <2>1. GridTypeOK' /\ gets'[p] <= gets[p]
    BY <1>6 DEF PostNotRead, Inv, GridTypeOK
  <2>2. StoreTypeOK' /\ DeletionInv' /\ CellsFill'
    BY <1>6 DEF PostNotRead, Inv, StoreTypeOK, DeletionInv, DeletedHidden,
                CellsFill
  <2>3. appears' = 1 => FirstLoad'
    BY <1>6 DEF PostNotRead, Inv, GridTypeOK, FirstLoad, InGrid
  <2> QED
    BY <2>1, <2>2, <2>3 DEF Inv
<1>7. ASSUME NEW p \in Post, CellTapped(p) PROVE Inv'
  <2>1. StoreTypeOK'
    BY <1>7 DEF CellTapped, Inv, StoreTypeOK, Stage
  <2> QED
    BY <1>7, <2>1, InvStore DEF CellTapped, Inv, DeletionInv
<1>8. CASE DetailRead \/ DetailNotRead \/ DetailAuthor \/ DetailAuthorNotRead
  <2>1. StoreTypeOK'
    BY <1>8 DEF DetailRead, DetailNotRead, DetailAuthor, DetailAuthorNotRead, Inv, StoreTypeOK,
            Stage
  <2> QED
    BY <1>8, <2>1, InvStore
       DEF DetailRead, DetailNotRead, DetailAuthor, DetailAuthorNotRead, Inv, DeletionInv
<1>9. CASE DeleteTapped
  <2>1. StoreTypeOK'
    BY <1>9 DEF DeleteTapped, Make, NoDetail, Stage, Inv, StoreTypeOK
  <2>2. deleted' \subseteq deleting' \cup gone' /\ stored' \cap gone' = {}
    BY <1>9 DEF DeleteTapped, Inv, DeletionInv
  <2> QED
    BY <1>9, <2>1, <2>2, InvMake, MeAssumption DEF DeleteTapped
<1>10. ASSUME NEW p \in Post,
              Accept(p) \/ Refuse(p) \/ Share(p) \/ OthersDelete(p)
       PROVE  Inv'
  <2>1. StoreTypeOK'
    BY <1>10 DEF Accept, Refuse, Share, OthersDelete, Inv, StoreTypeOK
  <2>2. /\ deleted' \subseteq deleting' \cup gone' /\ stored' \cap gone' = {}
        /\ deleted' \subseteq deleted
    BY <1>10 DEF Accept, Refuse, Share, OthersDelete, Inv, DeletionInv
  <2> QED
    BY <1>10, <2>1, <2>2, InvStore DEF Accept, Refuse, Share, OthersDelete
<1>11. CASE UNCHANGED vars
  <2>1. StoreTypeOK'
    BY <1>11 DEF vars, Inv, StoreTypeOK
  <2> QED
    BY <1>11, <2>1, InvStore DEF vars, Inv, DeletionInv
<1> QED
  BY <1>1, <1>2, <1>3, <1>4, <1>5, <1>6, <1>7, <1>8, <1>9, <1>10, <1>11
     DEF Next

\* A deletion that waits for the server is not undone by a read on its way.
THEOREM AlwaysHidden == Spec => []DeletedHidden
<1>1. Inv => DeletedHidden
  BY DEF Inv, DeletionInv
<1> QED
  BY InvInit, InvNext, <1>1, PTL DEF Spec

\* The first load of a page shows every post once.
THEOREM FirstGridClean == Spec => []CleanFirstGrid
<1>1. Inv => CleanFirstGrid
  BY DEF Inv, FirstLoad, CleanFirstGrid
<1> QED
  BY InvInit, InvNext, <1>1, PTL DEF Spec

-------------------------------------------------------------------------------
(* Whose posts a page shows, and what it has promised to show *)

\* What is read, listed and opened is of the user whose page is up; what is
\* deleted is of the user who is signed in.
OwnPosts == /\ \A p \in Post : gets[p] > 0 => Author[p] = subject
            /\ \A k \in DOMAIN grid : Author[grid[k]] = subject
            /\ \A k \in DOMAIN cells : Author[cells[k]] = subject
            /\ detail.stage # "none" => Author[detail.post] = subject
            /\ \A p \in deleting \cup deleted : Author[p] = Me

LEMMA OwnPostsNext == Inv /\ OwnPosts /\ [Next]_vars => OwnPosts'
<1> SUFFICES ASSUME Inv, OwnPosts, [Next]_vars PROVE OwnPosts'
  OBVIOUS
<1>t. StoreTypeOK /\ GridTypeOK
  BY DEF Inv
<1>1. ASSUME NEW u \in User, Make(u), \A p \in deleting' \cup deleted' : Author[p] = Me
      PROVE  OwnPosts'
  BY <1>1 DEF Make, NoDetail, OwnPosts
<1>2. CASE \E u \in User : Reopen(u)
  BY <1>1, <1>2 DEF Reopen, storeVars, OwnPosts
<1>3. CASE Appear \/ PostsNotRead
  BY <1>3 DEF Appear, PostsNotRead, NoDetail, storeVars, OwnPosts
<1>4. CASE PostsRead
  BY <1>4, <1>t DEF PostsRead, Reading, PostsOf, storeVars, GridTypeOK, OwnPosts
<1>5. ASSUME NEW p \in Post, PostRead(p) PROVE OwnPosts'
  <2>1. /\ Author[p] = subject /\ subject' = subject
        /\ \A q \in Post : gets'[q] > 0 => gets[q] > 0
    BY <1>5, <1>t DEF PostRead, GridTypeOK, OwnPosts
  <2>2. \A k \in DOMAIN grid' : Author[grid'[k]] = subject
    <3>1. /\ DOMAIN grid' = 1..(Len(grid) + 1) /\ DOMAIN grid = 1..Len(grid)
          /\ Len(grid) \in Nat /\ grid'[Len(grid) + 1] = p
          /\ \A k \in 1..Len(grid) : grid'[k] = grid[k]
      BY <1>5, <1>t DEF PostRead, GridTypeOK
    <3> QED
      BY <2>1, <3>1 DEF OwnPosts
  <2> QED
    BY <1>5, <2>1, <2>2 DEF PostRead, ReloadData, storeVars, OwnPosts
<1>6. ASSUME NEW p \in Post, PostNotRead(p) PROVE OwnPosts'
  BY <1>6, <1>t DEF PostNotRead, storeVars, GridTypeOK, OwnPosts
<1>7. ASSUME NEW p \in Post, CellTapped(p) PROVE OwnPosts'
  BY <1>7 DEF CellTapped, storeVars, gridVars, OwnPosts
<1>8. CASE DetailRead \/ DetailNotRead \/ DetailAuthor \/ DetailAuthorNotRead
  <2>1. detail'.stage # "none" => detail.stage # "none" /\ detail'.post = detail.post
    BY <1>8, <1>t DEF DetailRead, DetailNotRead, DetailAuthor, DetailAuthorNotRead, StoreTypeOK
  <2> QED
    BY <1>8, <2>1 DEF DetailRead, DetailNotRead, DetailAuthor, DetailAuthorNotRead, storeVars, gridVars, OwnPosts
<1>9. CASE DeleteTapped
  BY <1>1, <1>9, MeAssumption DEF DeleteTapped, CanDelete, OwnPosts
<1>10. ASSUME NEW p \in Post,
              Accept(p) \/ Refuse(p) \/ Share(p) \/ OthersDelete(p)
       PROVE  OwnPosts'
  BY <1>10 DEF Accept, Refuse, Share, OthersDelete, gridVars, OwnPosts
<1>11. CASE UNCHANGED vars
  BY <1>11 DEF vars, storeVars, gridVars, OwnPosts
<1> QED
  BY <1>2, <1>3, <1>4, <1>5, <1>6, <1>7, <1>8, <1>9, <1>10, <1>11 DEF Next

\* However answers and appearances interleave, a page lists posts of its own user
\* only, the page of a post is opened for one of them, and no post of another
\* user is ever deleted from this device.
THEOREM OwnPostsOnly == Spec => []OwnPosts
<1>1. Init => OwnPosts
  BY DEF Init, NoDetail, OwnPosts
<1> QED
  BY InvInit, InvNext, OwnPostsNext, <1>1, PTL DEF Spec

\* A query that will find the post, a read of it, or the post itself.
Promised(p) == queries > 0 \/ gets[p] > 0 \/ InGrid(p)

\* A step keeps what is promised on the page, or shows it, or loses the post.
LEMMA PromiseStep ==
  ASSUME Inv, Next, pages' = pages, NEW p \in PostsOf(subject), Promised(p),
         p \in View', ~failed'
  PROVE  Promised(p)'
<1>t. StoreTypeOK /\ GridTypeOK /\ p \in Post
  BY DEF Inv, PostsOf, View, StoreTypeOK
<1>1. ASSUME NEW u \in User, Make(u) PROVE Promised(p)'
  BY <1>1 DEF Make, Promised
<1>2. CASE Appear
  BY <1>2, <1>t DEF Appear, GridTypeOK, Promised
<1>3. CASE PostsRead \/ PostsNotRead
  BY <1>3, <1>t DEF PostsRead, PostsNotRead, Reading, GridTypeOK, Promised
<1>4. ASSUME NEW q \in Post, PostRead(q) PROVE Promised(p)'
  <2>1. /\ DOMAIN grid' = 1..(Len(grid) + 1) /\ DOMAIN grid = 1..Len(grid)
        /\ Len(grid) \in Nat /\ grid'[Len(grid) + 1] = q
        /\ \A k \in 1..Len(grid) : grid'[k] = grid[k]
    BY <1>4, <1>t DEF PostRead, GridTypeOK
  <2>2. \A k \in DOMAIN grid : k \in DOMAIN grid' /\ grid'[k] = grid[k]
    BY <2>1
  <2>3. Len(grid) + 1 \in DOMAIN grid'
    BY <2>1
  <2>4. InGrid(q)'
    BY <2>1, <2>3 DEF InGrid
  <2>5. CASE p = q
    BY <2>4, <2>5 DEF Promised
  <2>6. CASE p # q
    <3>1. gets'[p] = gets[p] /\ queries' = queries /\ (InGrid(p) => InGrid(p)')
      BY <1>4, <1>t, <2>2, <2>6 DEF PostRead, GridTypeOK, InGrid
    <3> QED
      BY <3>1 DEF Promised
  <2> QED
    BY <2>5, <2>6
<1>5. ASSUME NEW q \in Post, PostNotRead(q) PROVE Promised(p)'
  <2>1. q # p
    BY <1>5, <1>t DEF PostNotRead, storeVars, View
  <2>2. gets'[p] = gets[p] /\ queries' = queries /\ grid' = grid
    BY <1>5, <1>t, <2>1 DEF PostNotRead, GridTypeOK
  <2> QED
    BY <2>2 DEF Promised, InGrid
<1>6. ASSUME UNCHANGED <<queries, gets, grid>> PROVE Promised(p)'
  BY <1>6 DEF Promised, InGrid
<1>7. ASSUME NEW q \in Post, \/ CellTapped(q) \/ Accept(q) \/ Refuse(q)
                             \/ Share(q) \/ OthersDelete(q)
      PROVE  Promised(p)'
  BY <1>6, <1>7 DEF CellTapped, Accept, Refuse, Share, OthersDelete, gridVars
<1>8. CASE DetailRead \/ DetailNotRead \/ DetailAuthor \/ DetailAuthorNotRead
  BY <1>6, <1>8 DEF DetailRead, DetailNotRead, DetailAuthor, DetailAuthorNotRead, gridVars
<1> QED
  BY <1>1, <1>2, <1>3, <1>4, <1>5, <1>7, <1>8, MeAssumption
     DEF Next, Reopen, DeleteTapped

\* The safety half of PostShown: what is promised on a page stays promised on it
\* or is shown, unless the post is deleted or a read fails; in particular when
\* the page appears again and empties the grid before its reads are answered.
THEOREM PromisesKept ==
  Spec => [][\/ pages' # pages
             \/ \A p \in PostsOf(subject) :
                  Promised(p) => Promised(p)' \/ p \notin View' \/ failed']_vars
<1>1. Inv /\ [Next]_vars =>
        [\/ pages' # pages
         \/ \A p \in PostsOf(subject) :
              Promised(p) => Promised(p)' \/ p \notin View' \/ failed']_vars
  BY PromiseStep
<1> QED
  BY InvInit, InvNext, <1>1, PTL DEF Spec

-------------------------------------------------------------------------------
(* The cells of a list that was emptied *)

\* Where a post that is listed or on the screen is now: a post this device deletes
\* is on no page that is up.
Listed == /\ \A k \in DOMAIN grid : grid[k] \in View \cup gone
          /\ \A k \in DOMAIN cells : cells[k] \in View \cup gone

\* A cell goes on standing for a post that is promised, if its post is not gone
\* and no read has failed.
CellsPromised ==
  \A k \in DOMAIN cells : cells[k] \in gone \/ Promised(cells[k]) \/ failed

LEMMA ListedNext == Inv /\ Listed /\ [Next]_vars => Listed'
<1> SUFFICES ASSUME Inv, Listed, [Next]_vars PROVE Listed'
  OBVIOUS
<1>1. ASSUME NEW u \in User, Make(u) PROVE Listed'
  BY <1>1 DEF Make, Listed
<1>2. CASE \E u \in User : Reopen(u)
  BY <1>1, <1>2 DEF Reopen
<1>3. CASE Appear \/ PostsRead \/ PostsNotRead
  BY <1>3 DEF Appear, PostsRead, PostsNotRead, storeVars, View, Listed
<1>4. ASSUME NEW p \in Post, PostRead(p) PROVE Listed'
  <2>1. /\ DOMAIN grid' = 1..(Len(grid) + 1) /\ DOMAIN grid = 1..Len(grid)
        /\ Len(grid) \in Nat /\ grid'[Len(grid) + 1] = p
        /\ \A k \in 1..Len(grid) : grid'[k] = grid[k]
    BY <1>4 DEF PostRead, Inv, GridTypeOK
  <2>2. p \in View /\ cells' = grid' /\ View' = View /\ gone' = gone
    BY <1>4 DEF PostRead, ReloadData, storeVars, View
  <2> QED
    BY <2>1, <2>2 DEF Listed
<1>5. ASSUME NEW p \in Post, PostNotRead(p) \/ CellTapped(p) PROVE Listed'
  BY <1>5 DEF PostNotRead, CellTapped, storeVars, gridVars, View, Listed
<1>6. CASE DetailRead \/ DetailNotRead \/ DetailAuthor \/ DetailAuthorNotRead
  BY <1>6 DEF DetailRead, DetailNotRead, DetailAuthor, DetailAuthorNotRead, storeVars,
              gridVars, View, Listed
<1>7. CASE DeleteTapped
  BY <1>1, <1>7, MeAssumption DEF DeleteTapped
<1>8. ASSUME NEW p \in Post,
             Accept(p) \/ Refuse(p) \/ Share(p) \/ OthersDelete(p)
      PROVE  Listed'
  <2>1. View \cup gone \subseteq View' \cup gone'
    BY <1>8 DEF Accept, Refuse, Share, OthersDelete, View
  <2> QED
    BY <1>8, <2>1 DEF Accept, Refuse, Share, OthersDelete, gridVars, Listed
<1>9. CASE UNCHANGED vars
  BY <1>9 DEF vars, storeVars, gridVars, View, Listed
<1> QED
  BY <1>2, <1>3, <1>4, <1>5, <1>6, <1>7, <1>8, <1>9 DEF Next

LEMMA CellsPromisedNext ==
  Inv /\ OwnPosts /\ Listed /\ CellsPromised /\ [Next]_vars => CellsPromised'
<1> SUFFICES ASSUME Inv, OwnPosts, Listed, CellsPromised, [Next]_vars
             PROVE  CellsPromised'
  OBVIOUS
<1>1. CASE UNCHANGED vars
  BY <1>1 DEF vars, storeVars, gridVars, CellsPromised, Promised, InGrid
<1>2. ASSUME NEW u \in User, Make(u) PROVE CellsPromised'
  BY <1>2 DEF Make, CellsPromised
<1>3. ASSUME NEW p \in Post, PostRead(p) PROVE CellsPromised'
  BY <1>3 DEF PostRead, ReloadData, CellsPromised, Promised, InGrid
\* Every other step leaves the cells alone.
<1>4. ASSUME Next, ~(\E u \in User : Make(u)), ~(\E p \in Post : PostRead(p))
      PROVE  CellsPromised'
  <2>1. /\ cells' = cells /\ pages' = pages
        /\ gone \subseteq gone' /\ (failed => failed')
    <3>1. CASE Appear \/ PostsRead \/ PostsNotRead
      BY <3>1 DEF Appear, PostsRead, PostsNotRead, storeVars
    <3>2. ASSUME NEW p \in Post, PostNotRead(p)
          PROVE  cells' = cells /\ pages' = pages /\ gone \subseteq gone' /\ (failed => failed')
      <4>1. cells' = cells /\ pages' = pages /\ gone' = gone
        BY <3>2 DEF PostNotRead, storeVars
      <4>2. failed => failed'
        BY <3>2, Zenon DEF PostNotRead
      <4> QED
        BY <4>1, <4>2
    <3>3. CASE DetailRead \/ DetailNotRead \/ DetailAuthor \/ DetailAuthorNotRead
      <4>1. cells' = cells /\ pages' = pages /\ gone' = gone
        BY <3>3 DEF DetailRead, DetailNotRead, DetailAuthor, DetailAuthorNotRead,
                    storeVars, gridVars
      <4>2. failed => failed'
        BY <3>3, Zenon DEF DetailRead, DetailNotRead, DetailAuthor, DetailAuthorNotRead
      <4> QED
        BY <4>1, <4>2
    <3>4. ASSUME NEW p \in Post,
                 \/ CellTapped(p) \/ Accept(p) \/ Refuse(p) \/ Share(p)
                 \/ OthersDelete(p)
          PROVE  cells' = cells /\ pages' = pages /\ gone \subseteq gone' /\ (failed => failed')
      BY <3>4 DEF CellTapped, Accept, Refuse, Share, OthersDelete, storeVars, gridVars
    <3>5. ~DeleteTapped /\ ~(\E u \in User : Reopen(u))
      BY <1>4, MeAssumption DEF DeleteTapped, Reopen
    <3> QED
      BY <1>4, <3>1, <3>3, <3>4, <3>5, <3>2 DEF Next
  <2> SUFFICES ASSUME NEW k \in DOMAIN cells, cells[k] \notin gone', ~failed'
               PROVE  Promised(cells[k])'
    BY <2>1 DEF CellsPromised
  <2>2. Listed' /\ cells[k] \notin gone /\ ~failed
    BY <1>4, <2>1, ListedNext
  <2>3. cells[k] \in View /\ cells[k] \in View'
    BY <2>1, <2>2 DEF Listed
  <2>4. cells[k] \in PostsOf(subject)
    BY <2>3 DEF PostsOf, OwnPosts
  <2>5. Promised(cells[k])
    BY <2>2 DEF CellsPromised
  <2> QED
    BY <1>4, <2>1, <2>3, <2>4, <2>5, PromiseStep
<1> QED
  BY <1>1, <1>2, <1>3, <1>4

\* The cells are those of the list, or the list is empty and will be filled, or a
\* read failed, or nothing that is on the screen exists any more: a page that
\* appears again is not left with cells of posts it has forgotten.
THEOREM CellsAlwaysFollow == Spec => []CellsFollow
<1>1. Init => OwnPosts /\ Listed /\ CellsPromised
  BY DEF Init, NoDetail, OwnPosts, Listed, CellsPromised
<1>2. Inv /\ CellsPromised => CellsFollow
  <2> SUFFICES ASSUME Inv, CellsPromised, grid = <<>>, ~(queries > 0), ~failed,
                      ~(\E p \in Post : gets[p] > 0),
                      NEW k \in DOMAIN cells
               PROVE  cells[k] \in gone
    BY DEF Inv, CellsFill, CellsFollow
  <2>1. cells[k] \in Post /\ ~InGrid(cells[k])
    BY DEF Inv, GridTypeOK, InGrid
  <2> QED
    BY <2>1 DEF CellsPromised, Promised
<1> QED
  BY InvInit, InvNext, OwnPostsNext, ListedNext, CellsPromisedNext, <1>1, <1>2, PTL
     DEF Spec
===============================================================================
