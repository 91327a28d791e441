---------------------------- MODULE MCCategories ----------------------------
(***************************************************************************)
(* Small worlds for Categories: one worker that serves every operation,    *)
(* or two that move categories.                                            *)
(***************************************************************************)
EXTENDS Categories, TLC

CONSTANTS a, b, c, w1, w2

All == {"create", "update", "delete", "file"}
OneServesAll == w1 :> All
TwoMovers == w1 :> {"update"} @@ w2 :> {"update"}
Chain == a :> Root @@ b :> a
Roots == a :> Root @@ b :> Root
=============================================================================
