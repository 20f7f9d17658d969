------------------------------ MODULE MCChannels ------------------------------
(* Three families: home has two channels, one added by this device; the name *)
(* of the second differs, as the user may type another one when trying again. *)
EXTENDS Channels, TLC

CONSTANTS home, work, club, c1, c2, c3, c4

Families == c1 :> home @@ c2 :> home @@ c3 :> work @@ c4 :> club
Names == c1 :> 2 @@ c2 :> 3 @@ c3 :> 1 @@ c4 :> 2
===============================================================================
