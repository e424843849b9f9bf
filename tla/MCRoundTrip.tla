---------------------------- MODULE MCRoundTrip ----------------------------
(***************************************************************************)
(* Small instances of RoundTrip: blocks of 2 cells.                        *)
(***************************************************************************)
EXTENDS RoundTrip

CONSTANTS w1, w2

File(stem, size) == [name |-> Named(stem), size |-> size, length |-> size, fault |-> "none"]
Numbered(stem, n) == [Named(stem) EXCEPT !.numbers = <<n>>]

Sound(size) == File("a", size)
Grown(size) == [Sound(size) EXCEPT !.length = size + 3]
Shrunk(size) == [Sound(size) EXCEPT !.length = size - 2]
CannotOpen == [Sound(2) EXCEPT !.fault = "open"]
Unreadable(size) == [Sound(size) EXCEPT !.length = size - 2, !.fault = "read"]
InParts(size) == [Sound(size) EXCEPT !.fault = "short"]

\* Files of no, one, two and three chunks, in lists long enough to fill both
\* queues; files of one name, and one that has the name another would be given;
\* one that grows while it is read; one that cannot be opened.
SteadyLists ==
  { <<Sound(0), [Sound(3) EXCEPT !.name = Numbered("a", 2)], Sound(0), Sound(2)>>,
    <<File("b", 6), Sound(0)>>,
    <<Grown(3), Sound(4)>>,
    <<Sound(5), CannotOpen, Sound(2)>>,
    <<CannotOpen>> }

\* Whatever may happen to a file while it is read.
UnsteadyLists ==
  { <<InParts(2), Shrunk(4), Sound(1)>>,
    <<Grown(2), Unreadable(4), Sound(1)>>,
    <<Shrunk(2), Sound(0), CannotOpen>> }

MCFileLists == SteadyLists \cup UnsteadyLists

\* All entries, one of them, one of them twice in a row (more chunks than the queues
\* and workers hold), one that is not there.
MCRequests ==
  { <<>>, <<Numbered("a", 2)>>, <<Named("b"), Named("b"), Named("a")>>, <<Named("c")>> }

MCOutputOf(name) == name

ShrunkLists == {<<Shrunk(4), Sound(2)>>}
=============================================================================
