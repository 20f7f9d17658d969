------------------------------ MODULE MCComments ------------------------------
(* A small page of comments: ana is signed in, her relative is ben. *)
EXTENDS Comments, TLC

CONSTANTS ana, ben

OneOfBen == 1 :> ana @@ 2 :> ana @@ 3 :> ben
===============================================================================
