----------------------------- MODULE MCReadMeta -----------------------------
(***************************************************************************)
(* Scaled down: a MiB is 4 KiB, at most 32 KiB, 2 passes, 2 lanes; the     *)
(* bounds, one below and one above each, and the place where the           *)
(* product with MIB wraps are among the arguments.                         *)
(***************************************************************************)
EXTENDS ReadMeta

Kdf(m, t, p) == [m |-> m, t |-> t, p |-> p]

MCProfiles ==
  [name \in {"browser", "default"} |-> IF name = "browser" THEN Kdf(4, 1, 2) ELSE Kdf(16, 1, 2)]

MCArgs ==
  [profile : {None}, m : {0, 1, 9, 16, 17}, t : {0, 3}, p : {0, 3}]
    \cup [profile : {"browser", "default", "other"}, m : {0, 1}, t : {0}, p : {0}]

MCGuiParams == {Kdf(4, 0, 3)}

\* Where salt or parameters differ from what was written, those are the bytes
\* damaged; "other" asks for more memory than there is for certain.
MCDamages(kdf) ==
  LET whole == Whole(kdf)
      other == [kdf EXCEPT !.m = 32]
  IN  { whole,
        [whole EXCEPT !.readable = FALSE],
        [whole EXCEPT !.body = FALSE],
        [whole EXCEPT !.table = FALSE],
        [whole EXCEPT !.salt = "salt1"],
        [whole EXCEPT !.salt = "salt2", !.body = FALSE],
        [whole EXCEPT !.kdf = other],
        [whole EXCEPT !.kdf = Kdf(48, 1, 1)],
        [whole EXCEPT !.cipherKnown = FALSE, !.salt = "salt1"] }
=============================================================================
