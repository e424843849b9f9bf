---------------------------- MODULE MCSlotCommit ----------------------------
(***************************************************************************)
(* Small instances of SlotCommit.                                          *)
(***************************************************************************)
EXTENDS SlotCommit

CONSTANTS a, b

OneFile == {<<a>>, <<b>>}
\* More than any run has room for: refused.
OneFileOrTooMany == OneFile \cup {<<a, b, a, b>>}
aThenTwoFiles == {<<a>>, <<a, b>>}
OneOrTwoFiles == {<<a>>, <<b>>, <<a, b>>}
\* Every file adds as much to the table as any other.
ByCount(entries) == 1 + Cardinality(entries)

\* Names so different in length that no two tables are equally long.
RECURSIVE ByName(_)
ByName(entries) ==
  IF entries = {}
  THEN 1
  ELSE LET e == CHOOSE x \in entries : TRUE
       IN  (IF e.file = a THEN 1 ELSE 2) * 3^(e.unit - 1) + ByName(entries \ {e})
=============================================================================
