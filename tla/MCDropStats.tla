----------------------------- MODULE MCDropStats -----------------------------
(* DropStats on a small instance.                                            *)
EXTENDS DropStats, TLC

CONSTANTS p1, p2, p3

\* Two callers at levels with a counter, one at a level without.
TwoLevelsAndCustom == p1 :> 0 @@ p2 :> 1 @@ p3 :> 2
=============================================================================
