----------------------------- MODULE FileTable -----------------------------
(***************************************************************************)
(* FileTable: entries in the order they were made, and how a name is       *)
(* found for a new one.  A name is a stem and the numbers in parentheses   *)
(* put behind it; the extension is left out, no decision depends on it.    *)
(***************************************************************************)
EXTENDS Integers, Sequences

Names == [stem : STRING, numbers : Seq(Nat)]

Named(stem) == [stem |-> stem, numbers |-> <<>>]

Entries == [name : Names, file : Nat, offset : Nat, size : Nat]

NamesIn(table) == {table[k].name : k \in 1 .. Len(table)}

\* Mutated: the second file of a name and the third both become number 2.
freeNameTwo(table, name) ==
  IF name \in NamesIn(table) THEN [name EXCEPT !.numbers = Append(@, 2)] ELSE name

\* The file's own name, or the first of "name (2)", "name (3)", ... not in use.
freeName(table, name) ==
  LET numbered(n) == [name EXCEPT !.numbers = Append(@, n)]
      free == {n \in 2 .. Len(table) + 1 : numbered(n) \notin NamesIn(table)}
  IN  IF name \in NamesIn(table)
      THEN numbered(CHOOSE n \in free : \A m \in free : n <= m)
      ELSE name

\* "file" and "size" stand for the checksum too: it is that of the first "size"
\* cells of the input, taken as they were read.
addFileEntry(table, path, file, offset, size) ==
  Append(table, [name |-> freeName(table, path), file |-> file, offset |-> offset, size |-> size])

\* The first entry of that name.
getFileInfoByName(table, name) ==
  LET places == {k \in 1 .. Len(table) : table[k].name = name}
  IN  table[CHOOSE k \in places : \A j \in places : k <= j]
=============================================================================
