----------------------------- MODULE MCFrontEnds -----------------------------
(* Two names, the second of a container that is there; room for two files, two *)
(* operations of the window and one command: enough for a container opened and *)
(* extended from both sides, and for a create under the overlay of another.    *)
EXTENDS FrontEnds

MCPrograms == {"gui", "cli"}
=============================================================================
