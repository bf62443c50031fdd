---------------------------- MODULE MCDoltServer ----------------------------
(* Values for the constants of DoltServer. *)
EXTENDS DoltServer, TLC
CONSTANTS c1, c2, hub, copy, p1, p2

Either == {c1 :> hub @@ c2 :> hub, c1 :> hub @@ c2 :> copy}
TwoAndOne == c1 :> 2 @@ c2 :> 1
CopiedHub == {<<hub, copy>>}
=============================================================================
