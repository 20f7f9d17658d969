------------------------------ MODULE ProgressHUD -----------------------------
(***************************************************************************)
(* The panel of the app ("Waiting...", errors, successes): the one         *)
(* instance of ProgressHUD 2.60, as the pages use it.  It has no state     *)
(* variables: a module that shows the panel keeps a record in Panel and    *)
(* changes it with the operators below.                                    *)
(*                                                                         *)
(* What a page asks for is not always what it gets.  hudCreate makes the   *)
(* view that blocks the screen only while no panel is up: a later show     *)
(* changes the text, not whether the screen is blocked.  A timer that was  *)
(* started by a success or an error is never cancelled, and takes away     *)
(* whatever panel is up when it fires.  The panel is a view of the window, *)
(* so that a page presented later lies over it.                            *)
(*                                                                         *)
(* Left out: texts, images and sizes.  The animation of hudHide and the    *)
(* hudDestroy at its end are one step with the timer: a panel shown while  *)
(* another fades is destroyed with it, as by a timer that fires then.      *)
(***************************************************************************)
EXTENDS Naturals

\* up: the toolbar has a superview.  blocks: so has the background that takes
\* every tap.  over: how many pages that can be dismissed lie over it.
\* timers: the calls of hudHide that are due.
Panel == [up : BOOLEAN, blocks : BOOLEAN, over : Nat, timers : Nat]

NoPanel == [up |-> FALSE, blocks |-> FALSE, over |-> 0, timers |-> 0]

\* Whether the panel keeps taps from the page on top.
Blocks(h) == h.blocks /\ h.over = 0

\* show:Interaction:, in hudCreate.
Show(h, interaction) ==
  IF h.up THEN h ELSE [h EXCEPT !.up = TRUE, !.blocks = ~interaction]

TimedShow(h, interaction) == [Show(h, interaction) EXCEPT !.timers = @ + 1]

ShowSuccess(h, interaction) == TimedShow(h, interaction)

\* Without an argument for it, errors leave the screen to the user.
ShowError(h) == TimedShow(h, TRUE)

\* A timer that is due calls hudHide, and the panel is destroyed.
Hidden(h) == [NoPanel EXCEPT !.timers = h.timers - 1]

\* A page that can be dismissed is presented over the panel, or dismissed.
Covered(h) == IF h.blocks THEN [h EXCEPT !.over = @ + 1] ELSE h
Uncovered(h) == IF h.over > 0 THEN [h EXCEPT !.over = @ - 1] ELSE h

\* A page that stays is presented over the panel: it is up and cannot be seen.
Buried(h) == [h EXCEPT !.blocks = FALSE, !.over = 0]
===============================================================================
