----------------------------- MODULE SlotCommit -----------------------------
(***************************************************************************)
(* The four header+table slots of one container: how create and add        *)
(* rewrite them (FileManager::writeAllSlots, writeFileTableToAllSlots),    *)
(* how an open picks one (readMeta), and what is left when the process     *)
(* dies, a call fails or the machine loses power between any two writes.   *)
(*                                                                         *)
(* A file occupies one unit of the data area, entries name the unit.  A    *)
(* header authenticates itself, not the table behind it: any table of the  *)
(* container decrypts under it whose length is its file_table_size, since  *)
(* both are sealed with the same key and no additional data.               *)
(*                                                                         *)
(* EncryptPipeline is about how the files are written, DataArea about      *)
(* where; here a file is written in one step or not.                       *)
(***************************************************************************)
EXTENDS Integers, FiniteSets, Sequences

CONSTANTS Files,          \* contents that can be added
          Calls,          \* file lists a call is given
          UNITS,          \* capacity of the data area
          MAX_ENTRIES,    \* entries max_table_size has room for
          MAX_CALLS,      \* bound: create and add calls
          KEEP_ON_ERROR,  \* a failed add leaves the session open (GUI)
          POWER_LOSS,     \* power may fail (else only the process dies)
          TableLength(_), \* encrypted size of a table with given entries
          None            \* no session, no table, blank unit, torn slot part

SLOT_COUNT == 4
Slots == 1 .. SLOT_COUNT
Units == 1 .. UNITS

Entries == [file : Files, unit : Units]

ASSUME SlotCommitAssumption ==
  /\ Calls \subseteq Seq(Files)
  /\ UNITS \in Nat
  /\ MAX_ENTRIES \in Nat
  /\ MAX_CALLS \in Nat
  /\ KEEP_ON_ERROR \in BOOLEAN /\ POWER_LOSS \in BOOLEAN
  /\ \A entries \in SUBSET Entries : TableLength(entries) \in Nat \ {0}

VARIABLES
  hdr,         \* header of each slot, None when blank or torn
  tbl,         \* table area of each slot, None when blank or torn
  data,        \* content of each unit
  mayHdr,      \* what each of these may be after a power loss: the values
  mayTbl,      \*   written since the last fsync, the one before, or a torn one
  mayData,
  exists,      \* the container file is there
  pc,          \* what the process at work does
  slot,        \* slot being written
  adding,      \* the running call is add, not create
  session,     \* header_version, table and next_write_offset in memory
  todo,        \* files of the running call not yet written
  cursor,      \* units taken, the pipeline's currentOffset
  calls,       \* calls made (for the bound)
  committed,   \* history: the table of the last update that completed
  unfinished   \* history: updates begun since then

disk == <<hdr, tbl, data>>
may == <<mayHdr, mayTbl, mayData>>
history == <<committed, unfinished>>
vars == <<disk, may, exists, pc, slot, adding, session, cursor, todo, calls, history>>

Header == [version : Nat, size : Nat]
Session == [version : Nat, entries : SUBSET Entries, next : Nat]
Table == [entries : SUBSET Entries, next : Nat]

ASSUME NoneAssumption ==
  /\ None \notin Files
  /\ None \notin Header
  /\ None \notin Table
  /\ None \notin Session

-----------------------------------------------------------------------------
(***************************************************************************)
(* readMeta: the first slot whose header authenticates and whose table     *)
(* decrypts.  A header with file_table_size 0 is followed by no table.     *)
(***************************************************************************)
Accepts(h, t) ==
  /\ h # None
  /\ h.size # 0 => t # None /\ TableLength(t.entries) = h.size

readFilesTable(h, t) ==
  IF h.size = 0 THEN [entries |-> {}, next |-> 0] ELSE t

ValidIn(h, t) == {i \in Slots : Accepts(h[i], t[i])}

FirstIn(S) == CHOOSE i \in S : \A j \in S : i <= j

VisibleIn(h, t) ==
  IF ValidIn(h, t) = {}
  THEN None
  ELSE LET i == FirstIn(ValidIn(h, t)) IN readFilesTable(h[i], t[i])

ValidSlots == ValidIn(hdr, tbl)
ActiveSlot == FirstIn(ValidSlots)
TableOf(i) == readFilesTable(hdr[i], tbl[i])

\* The table an open returns now.
visible == VisibleIn(hdr, tbl)

\* What writeFileTableToAllSlots puts into every slot.
newHeader == [version |-> session.version, size |-> TableLength(session.entries)]
newTable == [entries |-> session.entries, next |-> session.next]

-----------------------------------------------------------------------------
Init ==
  /\ hdr = [i \in Slots |-> None]
  /\ tbl = [i \in Slots |-> None]
  /\ data = [u \in Units |-> None]
  /\ mayHdr = [i \in Slots |-> {None}]
  /\ mayTbl = [i \in Slots |-> {None}]
  /\ mayData = [u \in Units |-> {None}]
  /\ exists = FALSE
  /\ pc = "closed"
  /\ slot = 1
  /\ adding = FALSE
  /\ session = None
  /\ todo = <<>>
  /\ cursor = 0
  /\ calls = 0
  /\ committed = None
  /\ unfinished = 0

\* Mutated: the table of the slot is not loaded.
OpenWithoutTable ==
  /\ pc = "closed"
  /\ ValidSlots # {}
  /\ pc' = "ready"
  /\ session' = [version |-> hdr[ActiveSlot].version,
                 entries |-> {},
                 next    |-> TableOf(ActiveSlot).next]
  /\ UNCHANGED <<disk, may, exists, slot, adding, cursor, todo, calls, history>>

\* A new command or an openContainer of the GUI.  Nothing is repaired.
Open ==
  /\ pc = "closed"
  /\ ValidSlots # {}
  /\ pc' = "ready"
  /\ session' = [version |-> hdr[ActiveSlot].version,
                 entries |-> TableOf(ActiveSlot).entries,
                 next    |-> TableOf(ActiveSlot).next]
  /\ UNCHANGED <<disk, may, exists, slot, adding, cursor, todo, calls, history>>

\* The command ends, or closeContainer.
Close ==
  /\ pc = "ready"
  /\ pc' = "closed"
  /\ session' = None
  /\ UNCHANGED <<disk, may, exists, slot, adding, cursor, todo, calls, history>>

-----------------------------------------------------------------------------
(***************************************************************************)
(* create: FileManager::write().  The file is created before the capacity  *)
(* is looked at.  A path whose create never completed may be tried again:  *)
(* the truncation is taken to reach the device before any later write.     *)
(***************************************************************************)
Create(files) ==
  /\ pc = "closed"
  /\ committed = None
  /\ calls < MAX_CALLS
  /\ calls' = calls + 1
  /\ exists' = TRUE
  /\ hdr' = [i \in Slots |-> None]
  /\ tbl' = [i \in Slots |-> None]
  /\ data' = [u \in Units |-> None]
  /\ mayHdr' = [i \in Slots |-> {None}]
  /\ mayTbl' = [i \in Slots |-> {None}]
  /\ mayData' = [u \in Units |-> {None}]
  /\ pc' = "check"
  /\ session' = [version |-> 0, entries |-> {}, next |-> 0]
  /\ slot' = 1
  /\ adding' = FALSE
  /\ todo' = files
  /\ cursor' = 0
  /\ UNCHANGED history

CheckCapacity ==
  /\ pc = "check"
  /\ Len(todo) <= UNITS
  /\ pc' = "init"
  /\ UNCHANGED <<disk, may, exists, slot, adding, session, cursor, todo, calls, history>>

\* "Files too large for container": the command fails.
RefuseCreate ==
  /\ pc = "check"
  /\ Len(todo) > UNITS
  /\ pc' = "refused"
  /\ session' = None
  /\ todo' = <<>>
  /\ UNCHANGED <<disk, may, exists, slot, adding, cursor, calls, history>>

AfterRefusal ==
  /\ pc = "refused"
  /\ pc' = "closed"
  /\ UNCHANGED <<disk, may, exists, slot, adding, session, cursor, todo, calls, history>>

\* writeHeaderAt: the header of the slot in turn, not yet on the device.
PutHeader(h) ==
  /\ hdr' = [hdr EXCEPT ![slot] = h]
  /\ mayHdr' = [mayHdr EXCEPT ![slot] = @ \cup {h, None}]

\* Mutated: the file data is not flushed.
SyncWithoutData ==
  /\ mayHdr' = [i \in Slots |-> {hdr[i]}]
  /\ mayTbl' = [i \in Slots |-> {tbl[i]}]
  /\ UNCHANGED mayData

\* syncToDevice: fsync of the container file, all of it.
Sync ==
  /\ mayHdr' = [i \in Slots |-> {hdr[i]}]
  /\ mayTbl' = [i \in Slots |-> {tbl[i]}]
  /\ mayData' = [u \in Units |-> {data[u]}]

\* writeAllSlots: headers with file_table_size 0, one fsync each.
InitHeader ==
  /\ pc = "init"
  /\ PutHeader([version |-> session.version, size |-> 0])
  /\ pc' = "initsync"
  /\ UNCHANGED <<tbl, data, mayTbl, mayData, exists, slot, adding, session, cursor, todo, calls, history>>

InitSync ==
  /\ pc = "initsync"
  /\ Sync
  /\ slot' = IF slot < SLOT_COUNT THEN slot + 1 ELSE 1
  /\ pc' = IF slot < SLOT_COUNT THEN "init" ELSE "data"
  /\ UNCHANGED <<disk, exists, adding, session, cursor, todo, calls, history>>

-----------------------------------------------------------------------------
\* add(): refused, without a trace, when the units after next are too few.
Add(files) ==
  /\ pc = "ready"
  /\ calls < MAX_CALLS
  /\ session.next + Len(files) <= UNITS
  /\ calls' = calls + 1
  /\ pc' = "data"
  /\ adding' = TRUE
  /\ todo' = files
  /\ cursor' = session.next
  /\ UNCHANGED <<disk, may, exists, slot, session, history>>

\* The pipeline writes a file and enters it into the table in memory.  The
\* position is the pipeline's: next_write_offset follows when all are written.
WriteFile ==
  /\ pc = "data"
  /\ todo # <<>>
  /\ cursor < UNITS
  /\ data' = [data EXCEPT ![cursor + 1] = Head(todo)]
  /\ mayData' = [mayData EXCEPT ![cursor + 1] = @ \cup {Head(todo), None}]
  /\ session' = [session EXCEPT
       !.entries = @ \cup {[file |-> Head(todo), unit |-> cursor + 1]}]
  /\ cursor' = cursor + 1
  /\ todo' = Tail(todo)
  /\ UNCHANGED <<hdr, tbl, mayHdr, mayTbl, exists, pc, slot, adding, calls, history>>

\* Mutated: setNextWriteOffset is forgotten.
PrepareTableOldOffset ==
  /\ pc = "data"
  /\ todo = <<>>
  /\ Cardinality(session.entries) <= MAX_ENTRIES
  /\ session' = [session EXCEPT !.version = @ + 1]
  /\ pc' = "header"
  /\ slot' = 1
  /\ unfinished' = unfinished + 1
  /\ UNCHANGED <<disk, may, exists, adding, cursor, todo, calls, committed>>

\* Mutated: the loop over the slots begins at the second one.
PrepareTableSecondSlot ==
  /\ pc = "data"
  /\ todo = <<>>
  /\ Cardinality(session.entries) <= MAX_ENTRIES
  /\ session' = [session EXCEPT !.next = cursor, !.version = @ + 1]
  /\ pc' = "header"
  /\ slot' = 2
  /\ unfinished' = unfinished + 1
  /\ UNCHANGED <<disk, may, exists, adding, cursor, todo, calls, committed>>

\* All files written: setNextWriteOffset, then writeFileTableToAllSlots checks
\* the size and makes the header that all slots will get.
PrepareTable ==
  /\ pc = "data"
  /\ todo = <<>>
  /\ Cardinality(session.entries) <= MAX_ENTRIES
  /\ session' = [session EXCEPT !.next = cursor, !.version = @ + 1]
  /\ pc' = "header"
  /\ slot' = 1
  /\ unfinished' = unfinished + 1
  /\ UNCHANGED <<disk, may, exists, adding, cursor, todo, calls, committed>>

WriteHeader ==
  /\ pc = "header"
  /\ PutHeader(newHeader)
  /\ pc' = "table"
  /\ UNCHANGED <<tbl, data, mayTbl, mayData, exists, slot, adding, session, cursor, todo, calls, history>>

\* Mutated: the table goes behind the first header each time.
WriteTableFirstSlot ==
  /\ pc = "table"
  /\ tbl' = [tbl EXCEPT ![1] = newTable]
  /\ mayTbl' = [mayTbl EXCEPT ![1] = @ \cup {newTable, None}]
  /\ pc' = "sync"
  /\ UNCHANGED <<hdr, data, mayHdr, mayData, exists, slot, adding, session, cursor, todo, calls,
                 history>>

\* writeFileTableAt: the encrypted table, then zeros up to max_table_size.
WriteTable ==
  /\ pc = "table"
  /\ tbl' = [tbl EXCEPT ![slot] = newTable]
  /\ mayTbl' = [mayTbl EXCEPT ![slot] = @ \cup {newTable, None}]
  /\ pc' = "sync"
  /\ UNCHANGED <<hdr, data, mayHdr, mayData, exists, slot, adding, session, cursor, todo, calls,
                 history>>

\* Mutated: no fsync between the slots.
SyncSlotWithoutFsync ==
  /\ pc = "sync"
  /\ slot < SLOT_COUNT
  /\ slot' = slot + 1
  /\ pc' = "header"
  /\ UNCHANGED <<disk, may, exists, adding, session, cursor, todo, calls, history>>

\* Mutated: the loop runs past the last slot.
SyncSlotPastEnd ==
  /\ pc = "sync"
  /\ Sync
  /\ slot' = slot + 1
  /\ pc' = "header"
  /\ UNCHANGED <<disk, exists, adding, session, cursor, todo, calls, history>>

SyncSlot ==
  /\ pc = "sync"
  /\ slot < SLOT_COUNT
  /\ Sync
  /\ slot' = slot + 1
  /\ pc' = "header"
  /\ UNCHANGED <<disk, exists, adding, session, cursor, todo, calls, history>>

\* The fourth fsync returns: the update is complete.
Complete ==
  /\ pc = "sync"
  /\ slot = SLOT_COUNT
  /\ Sync
  /\ slot' = 1
  /\ pc' = "ready"
  /\ committed' = newTable
  /\ unfinished' = 0
  /\ UNCHANGED <<disk, exists, adding, session, cursor, todo, calls>>

-----------------------------------------------------------------------------
(***************************************************************************)
(* Interruptions.                                                          *)
(***************************************************************************)
Working == pc \in {"init", "initsync", "data", "header", "table", "sync"}

\* A write in progress may leave neither the old nor the new content.
TearHeader ==
  /\ pc \in {"init", "header"}
  /\ hdr' = [hdr EXCEPT ![slot] = None]
  /\ mayHdr' = [mayHdr EXCEPT ![slot] = @ \cup {None}]
  /\ UNCHANGED <<tbl, data, mayTbl, mayData>>

TearTable ==
  /\ pc = "table"
  /\ tbl' = [tbl EXCEPT ![slot] = None]
  /\ mayTbl' = [mayTbl EXCEPT ![slot] = @ \cup {None}]
  /\ UNCHANGED <<hdr, data, mayHdr, mayData>>

TearData ==
  /\ pc = "data"
  /\ todo # <<>>
  /\ cursor < UNITS
  /\ data' = [data EXCEPT ![cursor + 1] = None]
  /\ mayData' = [mayData EXCEPT ![cursor + 1] = @ \cup {None}]
  /\ UNCHANGED <<hdr, tbl, mayHdr, mayTbl>>

Stop == TearHeader \/ TearTable \/ TearData \/ UNCHANGED <<disk, may>>

\* The process is killed.
Kill ==
  /\ Working
  /\ Stop
  /\ pc' = "closed"
  /\ slot' = 1
  /\ session' = None
  /\ todo' = <<>>
  /\ UNCHANGED <<exists, adding, cursor, calls, history>>

\* A call ends in an exception.  The command line ends with it; the GUI, when
\* the call was add, gives the FileManager back to the controller with the
\* table, the version and the offset it has by then (runAsync).
EndInError(memory) ==
  /\ IF KEEP_ON_ERROR /\ adding
     THEN pc' = "ready" /\ session' = memory
     ELSE pc' = "closed" /\ session' = None
  /\ slot' = 1
  /\ todo' = <<>>
  /\ UNCHANGED <<exists, adding, cursor, calls, history>>

\* An input cannot be read or the medium fails.
Fail ==
  /\ Working
  /\ pc = "data" => todo # <<>>
  /\ Stop
  /\ EndInError(session)

\* writeFileTableToAllSlots throws: the table has outgrown max_table_size.
TableTooLarge ==
  /\ pc = "data"
  /\ todo = <<>>
  /\ Cardinality(session.entries) > MAX_ENTRIES
  /\ UNCHANGED <<disk, may>>
  /\ EndInError([session EXCEPT !.next = cursor])

\* Every part written since the last fsync may have reached the device or not.
PowerLoss ==
  /\ POWER_LOSS
  /\ exists
  /\ hdr' \in {h \in [Slots -> UNION {mayHdr[i] : i \in Slots}] : \A i \in Slots : h[i] \in mayHdr[i]}
  /\ tbl' \in {t \in [Slots -> UNION {mayTbl[i] : i \in Slots}] : \A i \in Slots : t[i] \in mayTbl[i]}
  /\ data' \in {d \in [Units -> UNION {mayData[u] : u \in Units}] : \A u \in Units : d[u] \in mayData[u]}
  /\ mayHdr' = [i \in Slots |-> {hdr'[i]}]
  /\ mayTbl' = [i \in Slots |-> {tbl'[i]}]
  /\ mayData' = [u \in Units |-> {data'[u]}]
  /\ pc' = "closed"
  /\ slot' = 1
  /\ session' = None
  /\ todo' = <<>>
  /\ UNCHANGED <<exists, adding, cursor, calls, history>>

-----------------------------------------------------------------------------
Next ==
  \/ \E files \in Calls : Create(files) \/ Add(files)
  \/ Open \/ Close
  \/ CheckCapacity \/ RefuseCreate \/ AfterRefusal
  \/ InitHeader \/ InitSync
  \/ WriteFile \/ PrepareTable
  \/ WriteHeader \/ WriteTable \/ SyncSlot \/ Complete
  \/ Kill \/ Fail \/ TableTooLarge \/ PowerLoss

Spec == Init /\ [][Next]_vars

-----------------------------------------------------------------------------
(***************************************************************************)
(* Properties.                                                             *)
(***************************************************************************)
OrNone(S) == S \cup {None}

\* Every variable has its type; what is in the page cache is one of the
\* possible survivors of a power loss; a call at work has a session.
TypeOK ==
  /\ hdr \in [Slots -> OrNone(Header)]
  /\ tbl \in [Slots -> OrNone(Table)]
  /\ data \in [Units -> OrNone(Files)]
  /\ mayHdr \in [Slots -> SUBSET OrNone(Header)]
  /\ mayTbl \in [Slots -> SUBSET OrNone(Table)]
  /\ mayData \in [Units -> SUBSET OrNone(Files)]
  /\ \A i \in Slots : hdr[i] \in mayHdr[i] /\ tbl[i] \in mayTbl[i]
  /\ exists \in BOOLEAN /\ adding \in BOOLEAN
  /\ pc \in {"closed", "ready", "check", "refused"} \/ Working
  /\ slot \in Slots
  /\ session \in OrNone(Session)
  /\ pc \in {"ready", "check"} \/ Working => session # None
  /\ todo \in Seq(Files)
  /\ cursor \in Nat /\ calls \in Nat /\ unfinished \in Nat
  /\ committed \in OrNone(Table)

\* Four copies survive three interrupted updates in a row: an interruption
\* spoils one slot, the slots before it are already good again.
ThreeInterruptionsOpen ==
  committed # None /\ unfinished < SLOT_COUNT => ValidSlots # {}

\* An update that completed is never lost again: whichever slot an open picks
\* now or after any further interruption, its table has all those entries.
CompletedUpdateKept ==
  committed # None =>
    \A i \in ValidSlots : committed.entries \subseteq TableOf(i).entries

Readable(entries) == \A e \in entries : data[e.unit] = e.file

\* ... and what such an entry points to is never written again, though failed
\* calls leave data behind that later calls do overwrite.  Where a session
\* outlives a failed add (GUI), only up to next_write_offset: the entries the
\* failed add left behind it are committed by the next add, and the data of
\* those overwritten by the one after.
CompletedDataStays ==
  [][committed # None =>
       \A e \in committed.entries :
         /\ data[e.unit] = e.file
         /\ KEEP_ON_ERROR => e.unit <= committed.next
         => data'[e.unit] = e.file]_vars

\* Every file an open shows can be extracted: offsets name the file's own data.
VisibleFilesReadable == visible # None => Readable(visible.entries)

\* readMeta takes the first valid slot and never compares: still no valid slot
\* behind it holds more files than the one it takes.
FirstValidHoldsMost ==
  \A i, j \in ValidSlots :
    i < j => Cardinality(TableOf(j).entries) <= Cardinality(TableOf(i).entries)

-----------------------------------------------------------------------------
(***************************************************************************)
(* The inductive invariant: each interrupted update leaves at most the     *)
(* slot it stopped in unsettled, and nothing that may be in a slot is      *)
(* older than the last completed update.                                   *)
(***************************************************************************)
Writing == pc \in {"header", "table", "sync"}

\* Valid, and out of reach of a power loss.
Settled(i) ==
  /\ mayHdr[i] = {hdr[i]}
  /\ mayTbl[i] = {tbl[i]}
  /\ Accepts(hdr[i], tbl[i])

Unsettled == {i \in Slots : ~ Settled(i)}

\* The slots before the current one carry the update, the current one as far
\* as it has come.
UpdateInSlots ==
  /\ Writing => \A i \in Slots : i < slot => Settled(i) /\ hdr[i] = newHeader /\ tbl[i] = newTable
  /\ pc \in {"table", "sync"} => hdr[slot] = newHeader
  /\ pc = "sync" => tbl[slot] = newTable

DamageBounded ==
  /\ Writing => unfinished > 0
  /\ committed # None =>
       IF Writing
       THEN Cardinality(Unsettled \ {slot}) < unfinished
       ELSE Cardinality(Unsettled) <= unfinished

NothingOlder ==
  committed # None =>
    /\ pc \notin {"check", "init", "initsync"}
    /\ \A i \in Slots :
         /\ \A h \in mayHdr[i] : h # None => h.size # 0
         /\ \A t \in mayTbl[i] : t # None => committed.entries \subseteq t.entries
    /\ session # None => committed.entries \subseteq session.entries

CommitInv == TypeOK /\ UpdateInSlots /\ DamageBounded /\ NothingOlder

-----------------------------------------------------------------------------
\* Whatever is interrupted when, the four slots behave as one table.
Store == INSTANCE DurableTable WITH COPIES <- SLOT_COUNT
ImplementsDurableTable == Store!Spec

=============================================================================
