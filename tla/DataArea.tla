------------------------------ MODULE DataArea ------------------------------
(***************************************************************************)
(* The data area of one container across create, add and extract: the      *)
(* capacity checks of FileManager::write and FileManager::add, the chunk   *)
(* placement of EncryptPipeline::writerLoop, the segment loop of           *)
(* FileManager::writeFragmented, and the mirror image of both when         *)
(* DecryptPipeline reads a file back through readFragmented.               *)
(*                                                                         *)
(* Chunks arrive here in order: that they do is what EncryptPipeline (the  *)
(* module) is about.  What the slots hold and how they are rewritten is    *)
(* SlotCommit's concern.  Here a slot is a range nothing else may touch.   *)
(*                                                                         *)
(* The list of files of one call is represented by the total that          *)
(* computeRequiredDataBytes returns for it: the files are drawn one at a   *)
(* time, in any way that adds up to that total.                            *)
(***************************************************************************)
EXTENDS SlotLayout, FiniteSets

CONSTANTS Containers,   \* the [size, max_table_size] pairs create is given
          PlainSizes,   \* plaintext sizes of input files
          Totals,       \* values of computeRequiredDataBytes
          MAX_FILES     \* bound: files ever written to the container

ASSUME InputsAssumption ==
  /\ Containers \subseteq [size : Nat, max_table_size : Nat]
  /\ PlainSizes \subseteq Nat
  /\ Totals \subseteq Nat
  /\ MAX_FILES \in Nat

VARIABLES
  container,          \* the layout, fixed by create
  pc,                 \* what the one FileManager is doing
  next_write_offset,  \* persisted end of data
  table,              \* file table: set of [file, size, offset]
  file_count,         \* entries made so far, those of a running call included
  persisted,          \* entries in the table on disk
  demand,             \* required bytes of the running call not yet drawn
  plainSize,          \* fileBytesRead: plaintext size of the current file
  plainLeft,          \* plaintext of the current file not yet in a chunk
  chunkLeft,          \* bytes of the current chunk not yet transferred
  cursor,             \* currentOffset / readOffset
  streamed,           \* encrypted bytes of the current file already transferred
  fileStart,          \* currentFileStartOffset
  current,            \* the file being read back
  written,            \* segments of the file data on the medium
  readBack            \* segments read by the extract that is running or was last

vars == <<container, pc, next_write_offset, table, file_count, persisted, demand,
          plainSize, plainLeft, chunkLeft, cursor, streamed, fileStart, current, written, readBack>>

call == <<demand, plainSize, plainLeft, chunkLeft, cursor, streamed, fileStart>>
book == <<next_write_offset, table, file_count, persisted>>

\* len cells at pos hold the bytes from "at" on of the encrypted stream of a file.
Segment(file, at, pos, len) == [file |-> file, at |-> at, pos |-> pos, len |-> len]

\* The encrypted size of the next chunk cut from "plain" bytes; the zero-size
\* sentinel of an empty file carries nothing.
ChunkOf(plain) ==
  IF plain = 0 THEN 0 ELSE LesserOf(plain, BLOCK_SIZE) + OVERHEAD

Init ==
  /\ \E k \in Containers :
       /\ Accepted(k.size, k.max_table_size)
       /\ container = Layout(k.size, k.max_table_size)
  /\ pc = "new"
  /\ next_write_offset = 0
  /\ table = {}
  /\ file_count = 0
  /\ persisted = 0
  /\ demand = 0
  /\ plainSize = 0
  /\ plainLeft = 0
  /\ chunkLeft = 0
  /\ cursor = 0
  /\ streamed = 0
  /\ fileStart = 0
  /\ current = 0
  /\ written = {}
  /\ readBack = {}

-----------------------------------------------------------------------------
(***************************************************************************)
(* write(): the capacity check, then the data from the end of slot 0.      *)
(* EncryptPipeline::run skips the slots from there before anything else.   *)
(***************************************************************************)
Create(required) ==
  /\ pc = "new"
  /\ required <= computeAvailableDataCapacity(container)
  /\ pc' = "files"
  /\ demand' = required
  /\ cursor' = skipSlots(container, container.reserved)
  /\ UNCHANGED <<container, book, plainSize, plainLeft, chunkLeft, streamed, fileStart, current,
                 written, readBack>>

\* add(): refused when the data already reaches the end of the container, or
\* when the free cells after it cannot hold the files.
Add(required) ==
  /\ pc = "idle"
  /\ next_write_offset < container.size
  /\ required <= freeCapacity(container, next_write_offset)
  /\ pc' = "files"
  /\ demand' = required
  /\ cursor' = skipSlots(container, next_write_offset)
  /\ UNCHANGED <<container, book, plainSize, plainLeft, chunkLeft, streamed, fileStart, current,
                 written, readBack>>

\* Mutated: the start of the first file of all is kept for the others.
StartFileStaleStart(plain) ==
  /\ pc = "files"
  /\ file_count < MAX_FILES
  /\ encryptedSizeCalc(plain) <= demand
  /\ pc' = "write"
  /\ demand' = demand - encryptedSizeCalc(plain)
  /\ fileStart' = IF fileStart = 0 THEN skipSlots(container, cursor) ELSE fileStart
  /\ cursor' = skipSlots(container, cursor)
  /\ streamed' = 0
  /\ chunkLeft' = ChunkOf(plain)
  /\ plainSize' = plain
  /\ plainLeft' = plain - LesserOf(plain, BLOCK_SIZE)
  /\ UNCHANGED <<container, book, current, written, readBack>>

\* The first chunk of a file reaches writerLoop: its start is the current
\* position, moved past a slot once more.
StartFile(plain) ==
  /\ pc = "files"
  /\ file_count < MAX_FILES
  /\ encryptedSizeCalc(plain) <= demand
  /\ pc' = "write"
  /\ demand' = demand - encryptedSizeCalc(plain)
  /\ fileStart' = skipSlots(container, cursor)
  /\ cursor' = skipSlots(container, cursor)
  /\ streamed' = 0
  /\ chunkLeft' = ChunkOf(plain)
  /\ plainSize' = plain
  /\ plainLeft' = plain - LesserOf(plain, BLOCK_SIZE)
  /\ UNCHANGED <<container, book, current, written, readBack>>

\* One turn of the loop of writeFragmented.
WriteSegment ==
  LET pos == skipSlots(container, cursor)
      len == bytesUntilNextSlot(container, pos, chunkLeft)
  IN  /\ pc = "write"
      /\ chunkLeft > 0
      /\ written' = written \cup {Segment(file_count + 1, streamed, pos, len)}
      /\ cursor' = pos + len
      /\ chunkLeft' = chunkLeft - len
      /\ streamed' = streamed + len
      /\ UNCHANGED <<container, pc, book, demand, plainSize, plainLeft, fileStart, current, readBack>>

\* The next chunk of the same file.
NextChunk ==
  /\ pc = "write"
  /\ chunkLeft = 0
  /\ plainLeft > 0
  /\ chunkLeft' = ChunkOf(plainLeft)
  /\ plainLeft' = plainLeft - LesserOf(plainLeft, BLOCK_SIZE)
  /\ UNCHANGED <<container, pc, book, demand, plainSize, cursor, streamed,
                 fileStart, current, written, readBack>>

\* end_of_file: addFileEntry with the recorded start; the size is the plain
\* text that went into the chunks.
EndFile ==
  /\ pc = "write"
  /\ chunkLeft = 0
  /\ plainLeft = 0
  /\ pc' = "files"
  /\ file_count' = file_count + 1
  /\ table' = table \cup
       {[file |-> file_count + 1, size |-> plainSize, offset |-> fileStart]}
  /\ UNCHANGED <<container, next_write_offset, persisted, call, current, written, readBack>>

\* Mutated: the start of the last file is persisted for the end of the data.
EndCallAtFileStart ==
  /\ pc = "files"
  /\ demand = 0
  /\ file_count > persisted
  /\ pc' = "idle"
  /\ next_write_offset' = fileStart
  /\ persisted' = file_count
  /\ UNCHANGED <<container, table, file_count, call, current, written, readBack>>

\* All files written: setNextWriteOffset(endOffset), the table goes to disk.
EndCall ==
  /\ pc = "files"
  /\ demand = 0
  /\ file_count > persisted
  /\ pc' = "idle"
  /\ next_write_offset' = cursor
  /\ persisted' = file_count
  /\ UNCHANGED <<container, table, file_count, call, current, written, readBack>>

\* The pipeline throws (an input cannot be opened, the medium fails).  The
\* command ends; the next one reads the table on disk.  A failed create leaves
\* headers without a table (writeAllSlots), which opens as an empty container
\* with next_write_offset 0.  The bytes already written stay, and are free.
Abort ==
  /\ pc \in {"files", "write"}
  /\ pc' = "idle"
  /\ file_count' = persisted
  /\ table' = {e \in table : e.file <= persisted}
  /\ written' = {s \in written : s.file <= persisted}
  /\ chunkLeft' = 0
  /\ plainLeft' = 0
  /\ UNCHANGED <<container, next_write_offset, persisted, demand, plainSize, cursor,
                 streamed, fileStart, current, readBack>>

-----------------------------------------------------------------------------
(***************************************************************************)
(* extract(): DecryptPipeline::readerTask starts at the recorded offset    *)
(* and reads chunk after chunk through readFragmented.                     *)
(***************************************************************************)
Extract(e) ==
  /\ pc = "idle"
  /\ pc' = "read"
  /\ current' = e.file
  /\ cursor' = e.offset
  /\ plainLeft' = e.size - LesserOf(e.size, BLOCK_SIZE)
  /\ chunkLeft' = ChunkOf(e.size)
  /\ streamed' = 0
  /\ readBack' = {}
  /\ UNCHANGED <<container, book, demand, plainSize, fileStart, written>>

ReadSegment ==
  LET pos == skipSlots(container, cursor)
      len == bytesUntilNextSlot(container, pos, chunkLeft)
  IN  /\ pc = "read"
      /\ chunkLeft > 0
      /\ readBack' = readBack \cup {Segment(current, streamed, pos, len)}
      /\ cursor' = pos + len
      /\ chunkLeft' = chunkLeft - len
      /\ streamed' = streamed + len
      /\ UNCHANGED <<container, pc, book, demand, plainSize, plainLeft, fileStart, current, written>>

ReadNextChunk ==
  /\ pc = "read"
  /\ chunkLeft = 0
  /\ plainLeft > 0
  /\ chunkLeft' = ChunkOf(plainLeft)
  /\ plainLeft' = plainLeft - LesserOf(plainLeft, BLOCK_SIZE)
  /\ UNCHANGED <<container, pc, book, demand, plainSize, cursor, streamed,
                 fileStart, current, written, readBack>>

EndExtract ==
  /\ pc = "read"
  /\ chunkLeft = 0
  /\ plainLeft = 0
  /\ pc' = "idle"
  /\ UNCHANGED <<container, book, call, current, written, readBack>>

-----------------------------------------------------------------------------
Next ==
  \/ \E required \in Totals : Create(required) \/ Add(required)
  \/ \E plain \in PlainSizes : StartFile(plain)
  \/ EndFile
  \/ WriteSegment
  \/ NextChunk
  \/ EndCall
  \/ Abort
  \/ \E e \in table : Extract(e)
  \/ ReadSegment
  \/ ReadNextChunk
  \/ EndExtract

Spec == Init /\ [][Next]_vars

-----------------------------------------------------------------------------
(***************************************************************************)
(* Properties.                                                             *)
(***************************************************************************)

\* Every variable has its type; what is left to transfer never goes negative.
TypeOK ==
  /\ container \in [size : Nat, reserved : Nat, slots : [Slots -> Nat]]
  /\ pc \in {"new", "idle", "files", "write", "read"}
  /\ next_write_offset \in Nat
  /\ \A e \in table : e \in [file : 1 .. file_count, size : Nat, offset : Nat]
  /\ file_count \in Nat
  /\ persisted \in 0 .. file_count
  /\ demand \in Nat
  /\ plainSize \in Nat
  /\ plainLeft \in Nat
  /\ chunkLeft \in Nat
  /\ cursor \in Nat
  /\ streamed \in Nat
  /\ fileStart \in Nat
  /\ current \in Nat
  /\ \A s \in written \cup readBack :
       s \in [file : Nat, at : Nat, pos : Nat, len : Nat \ {0}]

Overlap(pos, len, otherPos, otherLen) ==
  pos < otherPos + otherLen /\ otherPos < pos + len

\* writeFragmented never writes file data into a header+table slot, however the
\* chunks fall relative to the slots and wherever an earlier call stopped.
SlotsUntouched ==
  \A s \in written, i \in Slots :
    ~ Overlap(s.pos, s.len, container.slots[i], container.reserved)

\* No byte of a file is written over a byte of another or of the same file:
\* next_write_offset, the start of each file and the skips agree.
SegmentsDisjoint ==
  \A s, t \in written : s # t => ~ Overlap(s.pos, s.len, t.pos, t.len)

\* What the capacity checks of write() and add() let through ends inside the
\* container: a file that grew past it would move every slot that readMeta
\* looks for (it computes them from the file size).
InsideContainer == \A s \in written : s.pos + s.len <= container.size

\* Extraction walks exactly the segments the writer produced, although it
\* starts from the recorded offset and the writer from where it stopped.
ReadsBackWhatWasWritten ==
  /\ readBack \subseteq written
  /\ pc = "read" /\ chunkLeft = 0 /\ plainLeft = 0
       => readBack = {s \in written : s.file = current}

\* add() counts the free cells exactly: it neither refuses files that fit nor
\* counts a slot cell as free.
CapacityExact ==
  pc = "idle" /\ next_write_offset < container.size =>
    freeCapacity(container, next_write_offset)
      = Cardinality({p \in next_write_offset .. container.size - 1 :
                       SlotsAt(container, p) = {}})

-----------------------------------------------------------------------------
(***************************************************************************)
(* The inductive invariant behind SlotsUntouched, SegmentsDisjoint and     *)
(* InsideContainer: data grows upwards only, and what is still to be       *)
(* written fits into the free cells above the cursor.                      *)
(***************************************************************************)

\* Segments belong to files that are persisted, or to the running call.
SegmentOwners ==
  /\ \A s \in written : s.file <= IF pc = "write" THEN file_count + 1 ELSE file_count
  /\ pc \in {"new", "idle", "read"} => file_count = persisted

\* Everything on the medium lies below the position writing continues from.
DataBelowCursor ==
  /\ \A s \in written : s.file <= persisted => s.pos + s.len <= next_write_offset
  /\ pc \in {"files", "write"} =>
       /\ next_write_offset <= cursor
       /\ \A s \in written : s.pos + s.len <= cursor

\* The check made when the call began still covers what is left of it.
DemandFits ==
  pc \in {"files", "write"} =>
    demand + chunkLeft + encryptedSizeCalc(plainLeft) <= freeCapacity(container, cursor)

\* Between two files, and between two calls, nothing of a chunk is pending.
NothingPending ==
  /\ pc \in {"new", "idle", "files"} => chunkLeft = 0 /\ plainLeft = 0
  /\ pc = "new" => next_write_offset = 0

PlacementInv ==
  /\ TypeOK
  /\ SlotsApart(container)
  /\ SegmentOwners
  /\ DataBelowCursor
  /\ DemandFits
  /\ NothingPending
  /\ SlotsUntouched
  /\ SegmentsDisjoint
  /\ InsideContainer
=============================================================================
