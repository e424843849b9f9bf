--------------------------- MODULE EncryptPipeline ---------------------------
(***************************************************************************)
(* EncryptPipeline::run: one reader cuts the input files into chunks,      *)
(* several workers encrypt them, and the calling thread (the writer) puts  *)
(* them back in order, writes them to the container and enters the files   *)
(* into the table.  Two bounded queues lie between; QueueOps says what     *)
(* they do, BoundedQueue (the module) why.                                 *)
(*                                                                         *)
(* Where on the medium a chunk lands is DataArea's concern: here the       *)
(* medium is the sequence of the chunks written.  The cancel flag is left  *)
(* out: both callers pass one that is never set.                           *)
(***************************************************************************)
EXTENDS QueueOps, FileTable, FiniteSets

CONSTANTS Workers,        \* threads of the pool that encrypt
          CAPACITY,       \* config.queue_capacity
          BLOCK_SIZE,     \* plaintext cells of a full chunk
          FileLists,      \* lists of input files a run may be given
          MAY_FAIL,       \* encrypting a chunk, writing one and a worker's memory may fail
          None

\* An input file: its name without the folders, the size found when it is
\* opened, the cells that can really be read (the file may change), and what
\* goes wrong with it, if anything: it cannot be opened, a read fails, a read
\* returns less than there is.
Input ==
  [name : Names, size : Nat, length : Nat, fault : {"none", "open", "read", "short"}]

ASSUME PipelineAssumption ==
  /\ IsFiniteSet(Workers) /\ Workers # {}
  /\ CAPACITY \in Nat \ {0}
  /\ BLOCK_SIZE \in Nat \ {0}
  /\ FileLists \subseteq Seq(Input)
  /\ MAY_FAIL \in BOOLEAN

\* "len" cells of a file, from "at" on.
Piece(f, at, len) == [file |-> f, at |-> at, len |-> len]
Pieces == [file : Nat, at : Nat, len : Nat]

\* total is file_plain_size, set on the last chunk only.
Chunk(seq, piece, last, total) ==
  [seq |-> seq, piece |-> piece, last |-> last, total |-> total, error |-> FALSE]
ErrorChunk(seq) ==
  [seq |-> seq, piece |-> None, last |-> FALSE, total |-> 0, error |-> TRUE]

CutChunks == [seq : Nat, piece : Pieces, last : BOOLEAN, total : Nat, error : BOOLEAN]
ErrorChunks == [seq : Nat, piece : {None}, last : {FALSE}, total : {0}, error : {TRUE}]
Chunks == CutChunks \cup ErrorChunks

ASSUME NothingAssumption == None \notin Nat /\ None \notin Pieces /\ None \notin Chunks

VARIABLES
  files,          \* the list of this run
  rpc,            \* what the reader does next
  file,           \* index of the file being read
  readOffset,     \* cells of it already read, fileBytesRead too
  seqNo,
  task,           \* the chunk the reader is about to push, or None
  readQueue_,
  writeQueue_,
  result,         \* the chunk each worker is about to push, or None
  ended,          \* workers that have left workerTask: activeWorkers_ counts the others
  stage,          \* of each worker: "start" without its CryptoContext, "loop", or "died"
  wpc,            \* what the writer does next
  nextExpected,
  reorderBuf,     \* chunks that came too early
  fileStart,      \* currentFileStartOffset, None while it is not recorded
  medium,         \* chunks written, in the order of their positions
  table           \* entries made, in order

reader == <<rpc, file, readOffset, seqNo, task>>
workers == <<result, ended, stage>>
writer == <<wpc, nextExpected, reorderBuf, fileStart, medium, table>>
vars == <<files, reader, readQueue_, writeQueue_, workers, writer>>

WriteCapacity == CAPACITY * 2

Init ==
  /\ files \in FileLists
  /\ rpc = "open"
  /\ file = 1
  /\ readOffset = 0
  /\ seqNo = 0
  /\ task = None
  /\ readQueue_ = EmptyQueue
  /\ writeQueue_ = EmptyQueue
  /\ result = [w \in Workers |-> None]
  /\ ended = {}
  /\ stage = [w \in Workers |-> "start"]
  /\ wpc = "loop"
  /\ nextExpected = 0
  /\ reorderBuf = {}
  /\ fileStart = None
  /\ medium = <<>>
  /\ table = <<>>

-----------------------------------------------------------------------------
(***************************************************************************)
(* readerTask.                                                             *)
(***************************************************************************)
AtFile == rpc = "open" /\ file <= Len(files)

\* Mutated: the reader stops without a word.
OpenFailsQuietly ==
  /\ AtFile
  /\ files[file].fault = "open"
  /\ rpc' = "close"
  /\ UNCHANGED <<files, file, readOffset, seqNo, task, readQueue_, writeQueue_, workers, writer>>

\* The file cannot be opened: an error takes its turn in the sequence, and no
\* other file is read.
OpenFails ==
  /\ AtFile
  /\ files[file].fault = "open"
  /\ MayPush(writeQueue_, WriteCapacity)
  /\ writeQueue_' = Pushed(writeQueue_, ErrorChunk(seqNo))
  /\ seqNo' = seqNo + 1
  /\ rpc' = "close"
  /\ UNCHANGED <<files, file, readOffset, task, readQueue_, workers, writer>>

\* An empty file has no chunk to encrypt: its sentinel bypasses the workers.
EmptyFile ==
  /\ AtFile
  /\ files[file].fault # "open"
  /\ files[file].size = 0
  /\ MayPush(writeQueue_, WriteCapacity)
  /\ writeQueue_' = Pushed(writeQueue_, Chunk(seqNo, Piece(file, 0, 0), TRUE, 0))
  /\ seqNo' = seqNo + 1
  /\ file' = file + 1
  /\ UNCHANGED <<files, rpc, readOffset, task, readQueue_, workers, writer>>

OpenFile ==
  /\ AtFile
  /\ files[file].fault # "open"
  /\ files[file].size > 0
  /\ rpc' = "read"
  /\ readOffset' = 0
  /\ UNCHANGED <<files, file, seqNo, task, readQueue_, writeQueue_, workers, writer>>

\* readSome: a block, or what is left of the file, or less.
Reads(f) ==
  LET left == f.length - readOffset
      most == IF left < BLOCK_SIZE THEN left ELSE BLOCK_SIZE
  IN  IF f.fault = "short" THEN 1 .. most ELSE {most}

\* The chunk that reaches the size the file had when it was opened is the last.
ReadBlock ==
  /\ rpc = "read"
  /\ readOffset < files[file].length
  /\ \E got \in Reads(files[file]) :
       LET end  == readOffset + got
           last == end >= files[file].size
       IN  /\ task' = Chunk(seqNo, Piece(file, readOffset, got), last, IF last THEN end ELSE 0)
           /\ readOffset' = end
  /\ seqNo' = seqNo + 1
  /\ rpc' = "push"
  /\ UNCHANGED <<files, file, readQueue_, writeQueue_, workers, writer>>

\* Nothing more to read, though the file has become shorter than it was.
EndOfInput ==
  /\ rpc = "read"
  /\ readOffset >= files[file].length
  /\ files[file].fault # "read"
  /\ rpc' = "open"
  /\ file' = file + 1
  /\ UNCHANGED <<files, readOffset, seqNo, task, readQueue_, writeQueue_, workers, writer>>

\* readSome throws.  Nothing in readerTask catches it and the pool drops it
\* with the task: readQueue_ stays open.
ReadThrows ==
  /\ rpc = "read"
  /\ readOffset >= files[file].length
  /\ files[file].fault = "read"
  /\ rpc' = "end"
  /\ UNCHANGED <<files, file, readOffset, seqNo, task, readQueue_, writeQueue_, workers, writer>>

\* A refused push ends this file only.
PushTask ==
  /\ rpc = "push"
  /\ MayPush(readQueue_, CAPACITY)
  /\ readQueue_' = Pushed(readQueue_, task)
  /\ task' = None
  /\ IF readQueue_.closed \/ task.last
     THEN rpc' = "open" /\ file' = file + 1
     ELSE rpc' = "read" /\ file' = file
  /\ UNCHANGED <<files, readOffset, seqNo, writeQueue_, workers, writer>>

ReaderEnds ==
  /\ rpc = "close" \/ (rpc = "open" /\ file > Len(files))
  /\ readQueue_' = Closed(readQueue_)
  /\ rpc' = "end"
  /\ UNCHANGED <<files, file, readOffset, seqNo, task, writeQueue_, workers, writer>>

Reader ==
  \/ OpenFails \/ EmptyFile \/ OpenFile
  \/ ReadBlock \/ EndOfInput \/ ReadThrows \/ PushTask
  \/ ReaderEnds

-----------------------------------------------------------------------------
(***************************************************************************)
(* workerTask.                                                             *)
(***************************************************************************)
Idle(w) == w \notin ended /\ stage[w] # "died" /\ result[w] = None

\* An idle worker takes the next chunk.
Takes(w, fails) ==
  /\ Idle(w)
  /\ readQueue_.items # <<>>
  /\ result' = [result EXCEPT ![w] = [Head(readQueue_.items) EXCEPT !.error = fails]]
  /\ readQueue_' = Popped(readQueue_)
  /\ UNCHANGED <<files, reader, writeQueue_, ended, writer>>

Encrypt(w) ==
  /\ \E fails \in IF MAY_FAIL THEN BOOLEAN ELSE {FALSE} : Takes(w, fails)
  /\ stage' = [stage EXCEPT ![w] = "loop"]

\* The buffer for the result cannot be had.  Nothing in workerTask catches it and the pool
\* drops it with the task: the chunk is gone and fetch_sub is skipped.
DiesOverChunk(w) ==
  /\ MAY_FAIL /\ Takes(w, TRUE)
  /\ stage' = [stage EXCEPT ![w] = "died"]

\* makeEncryptor throws before the loop, with the same end.
DiesAtStart(w) ==
  /\ MAY_FAIL /\ w \notin ended /\ stage[w] = "start"
  /\ stage' = [stage EXCEPT ![w] = "died"]
  /\ UNCHANGED <<files, reader, readQueue_, writeQueue_, result, ended, writer>>

PushResult(w) ==
  /\ stage[w] # "died" /\ result[w] # None
  /\ MayPush(writeQueue_, WriteCapacity)
  /\ writeQueue_' = Pushed(writeQueue_, result[w])
  /\ result' = [result EXCEPT ![w] = None]
  /\ UNCHANGED <<files, reader, readQueue_, ended, stage, writer>>

\* Mutated: the first worker to end closes writeQueue_.
FirstWorkerCloses(w) ==
  /\ Idle(w)
  /\ readQueue_.closed /\ readQueue_.items = <<>>
  /\ ended' = ended \cup {w}
  /\ stage' = [stage EXCEPT ![w] = "loop"]
  /\ writeQueue_' = Closed(writeQueue_)
  /\ UNCHANGED <<files, reader, readQueue_, result, writer>>

\* Mutated: fetch_sub is compared with 0, which it does not return, and nobody closes.
NoWorkerCloses(w) ==
  /\ Idle(w)
  /\ readQueue_.closed /\ readQueue_.items = <<>>
  /\ ended' = ended \cup {w}
  /\ stage' = [stage EXCEPT ![w] = "loop"]
  /\ UNCHANGED <<files, reader, readQueue_, writeQueue_, result, writer>>

\* readQueue_ is closed and drained; the last worker to count itself out of
\* activeWorkers_ closes writeQueue_, which nobody else pushes to by then.
WorkerEnds(w) ==
  /\ Idle(w)
  /\ readQueue_.closed /\ readQueue_.items = <<>>
  /\ ended' = ended \cup {w}
  /\ stage' = [stage EXCEPT ![w] = "loop"]
  /\ writeQueue_' = IF ended' = Workers THEN Closed(writeQueue_) ELSE writeQueue_
  /\ UNCHANGED <<files, reader, readQueue_, result, writer>>

Worker(w) ==
  Encrypt(w) \/ DiesOverChunk(w) \/ DiesAtStart(w) \/ PushResult(w) \/ WorkerEnds(w)

-----------------------------------------------------------------------------
(***************************************************************************)
(* writerLoop, and what run() does when it throws.                         *)
(***************************************************************************)

\* Mutated: the start of the first file stands for all.
WriteWithoutReset(c) ==
  LET start == IF fileStart = None THEN Len(medium) ELSE fileStart
  IN  /\ medium' = IF c.piece.len > 0 THEN Append(medium, c.piece) ELSE medium
      /\ fileStart' = start
      /\ table' = IF c.last
                  THEN addFileEntry(table, files[c.piece.file].name, c.piece.file, start, c.total)
                  ELSE table

\* processChunk: the first chunk of a file records where it starts, the last
\* one enters the file into the table.
Write(c) ==
  LET start == IF fileStart = None THEN Len(medium) ELSE fileStart
  IN  /\ medium' = IF c.piece.len > 0 THEN Append(medium, c.piece) ELSE medium
      /\ fileStart' = IF c.last THEN None ELSE start
      /\ table' = IF c.last
                  THEN addFileEntry(table, files[c.piece.file].name, c.piece.file, start, c.total)
                  ELSE table

Process(c) ==
  \/ /\ ~ c.error
     /\ Write(c)
     /\ nextExpected' = nextExpected + 1
     /\ wpc' = "loop"
  \/ /\ c.error \/ MAY_FAIL
     /\ wpc' = "failed"
     /\ UNCHANGED <<nextExpected, fileStart, medium, table>>

Due == {c \in reorderBuf : c.seq = nextExpected}

ProcessNext ==
  /\ wpc = "loop" /\ Due = {}
  /\ writeQueue_.items # <<>>
  /\ Head(writeQueue_.items).seq = nextExpected
  /\ Process(Head(writeQueue_.items))
  /\ writeQueue_' = Popped(writeQueue_)
  /\ UNCHANGED <<files, reader, readQueue_, workers, reorderBuf>>

\* Mutated: a chunk that came too early is dropped.
DropEarly ==
  /\ wpc = "loop" /\ Due = {}
  /\ writeQueue_.items # <<>>
  /\ Head(writeQueue_.items).seq # nextExpected
  /\ writeQueue_' = Popped(writeQueue_)
  /\ UNCHANGED <<files, reader, readQueue_, workers, writer>>

\* Mutated: chunks are written as they come.
WriteEarly ==
  /\ wpc = "loop" /\ Due = {}
  /\ writeQueue_.items # <<>>
  /\ Head(writeQueue_.items).seq # nextExpected
  /\ Process(Head(writeQueue_.items))
  /\ writeQueue_' = Popped(writeQueue_)
  /\ UNCHANGED <<files, reader, readQueue_, workers, reorderBuf>>

StashEarly ==
  /\ wpc = "loop" /\ Due = {}
  /\ writeQueue_.items # <<>>
  /\ Head(writeQueue_.items).seq # nextExpected
  /\ reorderBuf' = reorderBuf \cup {Head(writeQueue_.items)}
  /\ writeQueue_' = Popped(writeQueue_)
  /\ UNCHANGED <<files, reader, readQueue_, workers, wpc, nextExpected, fileStart, medium, table>>

ProcessStashed ==
  /\ wpc = "loop"
  /\ \E c \in Due : Process(c) /\ reorderBuf' = reorderBuf \ {c}
  /\ UNCHANGED <<files, reader, readQueue_, writeQueue_, workers>>

LoopEnds ==
  /\ wpc = "loop" /\ Due = {}
  /\ writeQueue_.closed /\ writeQueue_.items = <<>>
  /\ wpc' = "wait"
  /\ UNCHANGED <<files, reader, readQueue_, writeQueue_, workers, nextExpected, reorderBuf,
                 fileStart, medium, table>>

\* writerLoop has thrown: whoever blocks on a push is released.
CloseReadQueue ==
  /\ wpc = "failed"
  /\ readQueue_' = Closed(readQueue_)
  /\ wpc' = "close"
  /\ UNCHANGED <<files, reader, writeQueue_, workers, nextExpected, reorderBuf,
                 fileStart, medium, table>>

CloseWriteQueue ==
  /\ wpc = "close"
  /\ writeQueue_' = Closed(writeQueue_)
  /\ wpc' = "drain"
  /\ UNCHANGED <<files, reader, readQueue_, workers, nextExpected, reorderBuf,
                 fileStart, medium, table>>

Died == {w \in Workers : stage[w] = "died"}

\* pool_.wait(), for which a task that threw is done too, then run() returns or rethrows.
PoolIdle == rpc = "end" /\ ended \cup Died = Workers

RunEnds ==
  /\ PoolIdle
  /\ \/ wpc = "wait"  /\ wpc' = "returned"
     \/ wpc = "drain" /\ wpc' = "threw"
  /\ UNCHANGED <<files, reader, readQueue_, writeQueue_, workers, nextExpected, reorderBuf,
                 fileStart, medium, table>>

Writer ==
  \/ ProcessNext \/ StashEarly \/ ProcessStashed \/ LoopEnds
  \/ CloseReadQueue \/ CloseWriteQueue \/ RunEnds

-----------------------------------------------------------------------------
Over == wpc \in {"returned", "threw"}

Finished == Over /\ UNCHANGED vars

Next == Reader \/ (\E w \in Workers : Worker(w)) \/ Writer \/ Finished

\* The pool has a thread for every task and the writer is the calling thread.
Spec ==
  /\ Init /\ [][Next]_vars
  /\ WF_vars(Reader)
  /\ \A w \in Workers : WF_vars(Worker(w))
  /\ WF_vars(Writer)

-----------------------------------------------------------------------------
(***************************************************************************)
(* Properties.                                                             *)
(***************************************************************************)
Busy == {w \in Workers : result[w] # None}

ChunksUnderWay ==
  {readQueue_.items[i] : i \in 1 .. Len(readQueue_.items)}
    \cup {writeQueue_.items[i] : i \in 1 .. Len(writeQueue_.items)}
    \cup {result[w] : w \in Busy}
    \cup reorderBuf
    \cup (IF task = None THEN {} ELSE {task})

PlacesTaken ==
  Len(readQueue_.items) + Len(writeQueue_.items) + Cardinality(Busy)
    + Cardinality(reorderBuf) + (IF task = None THEN 0 ELSE 1)

\* Until the writer fails, every chunk cut and not yet written is under way in
\* exactly one place, with the worker that died over it at worst: no queue is
\* closed on a thread with a chunk in its hands, and no run returns without it.
NoChunkLost ==
  wpc \in {"loop", "wait", "returned"} =>
    /\ {c.seq : c \in ChunksUnderWay} = nextExpected .. seqNo - 1
    /\ PlacesTaken = seqNo - nextExpected

\* Chunks reach the medium in the order they were cut, short, cut off or not.
WrittenInOrder ==
  \A i \in 1 .. Len(medium) - 1 :
    LET this == medium[i]
        next == medium[i + 1]
    IN  \/ next.file = this.file /\ next.at = this.at + this.len
        \/ next.file > this.file /\ next.at = 0

\* Files of a size have these chunks, for addFileEntry and for DecryptPipeline.
ChunkCount(size) == (size + BLOCK_SIZE - 1) \div BLOCK_SIZE
ChunkAt(f, size, i) ==
  LET at == (i - 1) * BLOCK_SIZE
  IN  Piece(f, at, IF size - at < BLOCK_SIZE THEN size - at ELSE BLOCK_SIZE)

\* "Container byte offset of the first encrypted chunk of this file": what
\* DecryptPipeline will read for an entry, from its offset on and cut by its
\* size, is that file's content from its first cell to its last.
EntriesReadable ==
  \A k \in 1 .. Len(table) :
    LET e == table[k]
    IN  \A i \in 1 .. ChunkCount(e.size) :
          /\ e.offset + i <= Len(medium)
          /\ medium[e.offset + i] = ChunkAt(e.file, e.size, i)

\* No input of this run shrinks, fails while it is read, or is read in parts.
InputsSteady ==
  \A k \in 1 .. Len(files) :
    files[k].length >= files[k].size /\ files[k].fault \notin {"read", "short"}

\* With such inputs entries are readable whatever order the workers finish in,
\* whichever chunks fail and whatever else is in the list.
SteadyEntriesReadable == InputsSteady => EntriesReadable

\* ... and a run that returns has entered every file of the list, in its order
\* and in full: no failure of a thread goes unreported.
SuccessMeansAll ==
  wpc = "returned" /\ InputsSteady =>
    /\ Len(table) = Len(files)
    /\ \A k \in 1 .. Len(table) :
         table[k].file = k /\ table[k].size >= files[k].size

\* run() ends, whichever chunks and writes fail and whichever queue is full at
\* the time.  One thing alone keeps it from ending: the reader or a worker has
\* died of an exception and the writer, still in its loop, waits for chunks.
\* Once the writer has thrown it ends whatever died.
ReaderDied == rpc = "end" /\ ~ readQueue_.closed
WriterWaits == wpc = "loop" /\ (ReaderDied \/ Died # {})
EndsOrWaits == <>Over \/ <>[]WriterWaits
=============================================================================
