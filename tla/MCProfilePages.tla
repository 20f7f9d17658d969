---------------------------- MODULE MCProfilePages ----------------------------
(* ana is signed in and has two posts; her relative ben has one. *)
EXTENDS ProfilePages, TLC

CONSTANTS ana, ben

TwoOfAna == 1 :> ana @@ 2 :> ana @@ 3 :> ben
===============================================================================
