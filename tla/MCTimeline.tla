------------------------------ MODULE MCTimeline ------------------------------
(* Small timelines: ana is signed in, her relative is ben. *)
EXTENDS Timeline, TLC

CONSTANTS ana, ben, home, other

BothAuthors == 1 :> ana @@ 2 :> ben @@ 3 :> ben
TwoHomes == 1 :> home @@ 2 :> other @@ 3 :> home

-------------------------------------------------------------------------------
(* The ages of posts: around the boundaries between two units *)

Around(n) == {n - 1, n, n + 1, n + 59, n + 61}
Boundaries == UNION {Around(k * u) : k \in {-1, 0, 1, 2, 5, 23, 24, 59},
                                     u \in {Minute, Hour, Day, Week}}
===============================================================================
