--------------------------- MODULE MCBaobabChart ---------------------------
(***************************************************************************)
(* A tree of four levels: a folder with a large and a small one in it, and *)
(* one more below each of the large ones.                                  *)
(***************************************************************************)
EXTENDS BaobabChart

CONSTANTS usr, large, small, inner

ChartFolders == {usr, large, small, inner}
ChartAbove ==
  [x \in ChartFolders |->
     CASE x = usr   -> {usr}
       [] x = large -> {usr, large}
       [] x = small -> {usr, small}
       [] x = inner -> {usr, large, inner}]
=============================================================================
