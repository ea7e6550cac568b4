----------------------------- MODULE MCListView -----------------------------
(* A small instance of ListView for TLC.  Lists are longer than the largest *)
(* terminal, which has both an odd and an even number of rows, and the      *)
(* largest scrolloff is cut to half of it.                                  *)
EXTENDS ListView

SmallHeights == 0 .. 4
SmallCounts == {0, 1, 2, 4, 6}
SmallLines == {0, 2, 5}
SmallScrolloffs == {0, 1, 9}
=============================================================================
