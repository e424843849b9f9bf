----------------------------- MODULE MCDataArea -----------------------------
(***************************************************************************)
(* Small instances of DataArea.  A header is 2 cells, so a table of 2 (4)  *)
(* cells makes a slot of 4 (6).  A chunk carries at most 3 cells of plain  *)
(* text and 1 of overhead, so it can straddle a gap of 1 to 4 cells.       *)
(***************************************************************************)
EXTENDS DataArea

\* Every two neighbouring slots have data cells between them.
ApartContainers ==
  [size : 24 .. 31, max_table_size : {2}] \cup [size : 32 .. 34, max_table_size : {4}]

\* A gap before the third slot, none between the third and the fourth.
GapThenTouching == [size : {20}, max_table_size : {2}]

MCPlainSizes == {0, 1, 3, 5}
MCTotals == {0, 2, 4, 6, 7, 8, 10, 13}
=============================================================================
