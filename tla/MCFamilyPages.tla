----------------------------- MODULE MCFamilyPages ----------------------------
(* Instances of FamilyPages for TLC.                                         *)
EXTENDS FamilyPagesProperties, TLC

CONSTANTS u1, u2, d1, d2, t1, t2, f1, f2

One == d1 :> u1                     \* one user with one device
OneEach == d1 :> u1 @@ d2 :> u2      \* two users, a device each
Shared == d1 :> u1 @@ d2 :> u1       \* one user with two devices

Overlapping == t1 :> d1 @@ t2 :> d1  \* two operations at a time on one device
Separate == t1 :> d1 @@ t2 :> d2     \* one on each of two devices

Families == Permutations({f1, f2})
===============================================================================
