--------------------------- MODULE MCBoundedQueue ---------------------------
(***************************************************************************)
(* Small instances of BoundedQueue.                                        *)
(***************************************************************************)
EXTENDS BoundedQueue

CONSTANTS p1, p2, c1, c2, x, y
=============================================================================
