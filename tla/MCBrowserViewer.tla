--------------------------- MODULE MCBrowserViewer ---------------------------
(* Two containers: the first with any damage to its first slot, before a slot    *)
(* that is whole or missing, the second without damage; more slots behave as two  *)
(* do, for a slot only looks at the one before it.  Three files chosen: only a    *)
(* file that cannot be opened brings the file section back while a list is shown. *)
EXTENDS BrowserViewer

MCContainers == {1, 2}

Damages == {"whole", "magic", "salt", "kdf", "huge", "body", "table"}
MCChunks == [c \in MCContainers |-> IF c = 1 THEN 2 ELSE 1]
Whole(c) == [supported |-> TRUE, data |-> [k \in 1 .. MCChunks[c] |-> "own"],
             slots |-> [i \in Slots |-> "whole"]]

\* any damage to the first slot, or to both; with some of it a chunk that is damaged or
\* another file's; or an unsupported cipher
Chunk(d) == CASE d = "magic" -> <<"damaged", "own">> [] d = "salt" -> <<"own", "other">>
              [] OTHER -> <<"own", "own">>
FirstFound ==
    {[Whole(1) EXCEPT !.slots[1] = d, !.data = Chunk(d)] : d \in Damages}
        \cup {[Whole(1) EXCEPT !.slots = [i \in Slots |-> "magic"]],
              [Whole(1) EXCEPT !.supported = FALSE]}

MCFindings == {[c \in MCContainers |-> IF c = 1 THEN f ELSE Whole(c)] : f \in FirstFound}
=============================================================================
