---------------------------- MODULE DurableTable ----------------------------
(***************************************************************************)
(* What a container promises about its file table across interrupted       *)
(* updates, with no slot in sight: an open sees a table that holds every   *)
(* entry of the last completed update; only when as many updates in a row  *)
(* as there are slots were begun and none completed may it see nothing.    *)
(*                                                                         *)
(* SlotCommit implements it with four copies rewritten one after another.  *)
(***************************************************************************)
EXTENDS Naturals

CONSTANTS COPIES,   \* updates in a row that may destroy the container
          None      \* no table: never completed, or nothing to open

VARIABLES
  committed,    \* the table of the last update that completed, or None
  visible,      \* the table an open would return, or None
  unfinished    \* updates begun since the last one that completed

vars == <<committed, visible, unfinished>>

\* What an open may return.
Keeps(table) ==
  IF table = None
  THEN committed = None \/ unfinished >= COPIES
  ELSE committed # None => committed.entries \subseteq table.entries

Init ==
  /\ committed = None
  /\ visible = None
  /\ unfinished = 0

\* An update has its table ready.
Begin ==
  /\ unfinished' = unfinished + 1
  /\ UNCHANGED <<committed, visible>>

\* While updates are unfinished, a write or a crash changes what opens.
Waver ==
  /\ committed = None \/ unfinished > 0
  /\ Keeps(visible')
  /\ UNCHANGED <<committed, unfinished>>

\* The update completes: from now on its entries are there to stay.
Complete ==
  /\ unfinished > 0
  /\ visible' # None
  /\ committed # None => committed.entries \subseteq visible'.entries
  /\ committed' = visible'
  /\ unfinished' = 0

Next == Begin \/ Waver \/ Complete

Spec == Init /\ [][Next]_vars
=============================================================================
