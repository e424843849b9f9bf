--------------------------- MODULE DecryptPipeline ---------------------------
(***************************************************************************)
(* FileManager::extract and DecryptPipeline::run: one reader fetches the   *)
(* chunks of the entries asked for, several workers decrypt them, and the  *)
(* calling thread (the writer) puts them in order and writes the output    *)
(* files.  The container, medium and table, is what EncryptPipeline        *)
(* leaves; a chunk of it may have been damaged since, or be unreadable.    *)
(***************************************************************************)
EXTENDS QueueOps, FileTable, FiniteSets, SequencesExt

CONSTANTS Workers, CAPACITY, BLOCK_SIZE, MAY_FAIL, None,
          Requests,       \* lists of names extract may be given; <<>> asks for all
          OutputOf(_)     \* the file an entry of that name is written to

VARIABLES
  medium, table,  \* the container, as EncryptPipeline wrote it
  damaged,        \* places of the medium whose chunk does not authenticate
  unreadable,     \* places of the medium whose read fails
  entries,        \* of this extract, in order
  rpc,            \* what the reader does next
  entry,          \* index of the entry being read
  chunk,          \* number of its next chunk, from 1
  seqNo,
  task,           \* the chunk the reader is about to push, or None
  readQueue_,
  writeQueue_,
  result,         \* the chunk each worker is about to push, or None
  ended,          \* workers that have left workerTask
  stage,          \* of each worker: "start" without its CryptoContext, "loop", or "died"
  wpc,            \* what the writer does next
  nextExpected,
  reorderBuf,
  current,        \* currentFileName, None when it is empty
  hashed,         \* what the hasher has seen since it was cleared
  outputs,        \* output files made, and what is in them
  checksumFailures_

container == <<medium, table, damaged, unreadable>>
reader == <<rpc, entry, chunk, seqNo, task>>
workers == <<result, ended, stage>>
files == <<current, hashed, outputs, checksumFailures_>>
writer == <<wpc, nextExpected, reorderBuf, files>>
vars == <<container, entries, reader, readQueue_, writeQueue_, workers, writer>>

WriteCapacity == CAPACITY * 2

\* The chunks of a file of that size, all of BLOCK_SIZE but the last.
ChunkCount(size) == (size + BLOCK_SIZE - 1) \div BLOCK_SIZE
ChunkLen(size, i) ==
  LET left == size - (i - 1) * BLOCK_SIZE
  IN  IF left < BLOCK_SIZE THEN left ELSE BLOCK_SIZE

\* What the checksum of the entry was taken of.
Content(e) ==
  [i \in 1 .. ChunkCount(e.size) |->
     [file |-> e.file, at |-> (i - 1) * BLOCK_SIZE, len |-> ChunkLen(e.size, i)]]

\* Reading goes on from the entry's offset in pieces of these lengths.  It gets
\* a chunk of the medium while it keeps in step with how they were written, and
\* bytes that authenticate as nothing otherwise.
InStep(e, i) ==
  \A j \in 1 .. i :
    /\ e.offset + j \in 1 .. Len(medium)
    /\ medium[e.offset + j].len = ChunkLen(e.size, j)
Stored(e, i) ==
  IF InStep(e, i) /\ e.offset + i \notin damaged THEN medium[e.offset + i] ELSE None

\* end_of_file comes with the checksum, here the entry itself.
Chunk(seq, e, piece, last) ==
  [seq |-> seq, name |-> e.name, piece |-> piece, last |-> last, sum |-> e, error |-> FALSE]
EmptyPiece == [file |-> 0, at |-> 0, len |-> 0]

Init ==
  /\ damaged = {}
  /\ unreadable = {}
  /\ entries = <<>>
  /\ rpc = "idle"
  /\ entry = 1
  /\ chunk = 1
  /\ seqNo = 0
  /\ task = None
  /\ readQueue_ = EmptyQueue
  /\ writeQueue_ = EmptyQueue
  /\ result = [w \in Workers |-> None]
  /\ ended = {}
  /\ stage = [w \in Workers |-> "start"]
  /\ wpc = "idle"
  /\ nextExpected = 0
  /\ reorderBuf = {}
  /\ current = None
  /\ hashed = <<>>
  /\ outputs = <<>>
  /\ checksumFailures_ = {}

-----------------------------------------------------------------------------
(***************************************************************************)
(* FileManager::extract.                                                   *)
(***************************************************************************)

\* At most one chunk has gone bad, in either way, since the container was written.
Age ==
  \/ UNCHANGED <<damaged, unreadable>>
  \/ \E i \in 1 .. Len(medium) :
       \/ damaged' = {i} /\ UNCHANGED unreadable
       \/ unreadable' = {i} /\ UNCHANGED damaged

Extract(request) ==
  /\ wpc = "idle"
  /\ \A k \in 1 .. Len(request) : request[k] \in NamesIn(table)
  /\ entries' = IF request = <<>> THEN table
                ELSE [k \in 1 .. Len(request) |-> getFileInfoByName(table, request[k])]
  /\ Age
  /\ rpc' = "next"
  /\ wpc' = "loop"
  /\ UNCHANGED <<medium, table, entry, chunk, seqNo, task, readQueue_, writeQueue_, workers,
                 nextExpected, reorderBuf, files>>

\* getFileInfoByName throws before any file is made.
UnknownName(request) ==
  /\ wpc = "idle"
  /\ \E k \in 1 .. Len(request) : request[k] \notin NamesIn(table)
  /\ wpc' = "refused"
  /\ UNCHANGED <<container, entries, reader, readQueue_, writeQueue_, workers,
                 nextExpected, reorderBuf, files>>

-----------------------------------------------------------------------------
(***************************************************************************)
(* readerTask.                                                             *)
(***************************************************************************)
AtEntry == rpc = "next" /\ entry <= Len(entries)

\* An entry without chunks: its sentinel bypasses the workers.
EmptyEntry ==
  /\ AtEntry
  /\ entries[entry].size = 0
  /\ MayPush(writeQueue_, WriteCapacity)
  /\ writeQueue_' = Pushed(writeQueue_, Chunk(seqNo, entries[entry], EmptyPiece, TRUE))
  /\ seqNo' = seqNo + 1
  /\ entry' = entry + 1
  /\ UNCHANGED <<container, entries, rpc, chunk, task, readQueue_, workers, writer>>

FirstChunk ==
  /\ AtEntry
  /\ entries[entry].size > 0
  /\ chunk' = 1
  /\ rpc' = "read"
  /\ UNCHANGED <<container, entries, entry, seqNo, task, readQueue_, writeQueue_, workers, writer>>

ReadChunk ==
  /\ rpc = "read"
  /\ LET e == entries[entry]
     IN  /\ e.offset + chunk \notin unreadable
         /\ task' = Chunk(seqNo, e, Stored(e, chunk), chunk = ChunkCount(e.size))
  /\ seqNo' = seqNo + 1
  /\ rpc' = "push"
  /\ UNCHANGED <<container, entries, entry, chunk, readQueue_, writeQueue_, workers, writer>>

\* io.read throws.  Nothing in readerTask catches it: readQueue_ stays open.
ReadThrows ==
  /\ rpc = "read"
  /\ entries[entry].offset + chunk \in unreadable
  /\ rpc' = "end"
  /\ UNCHANGED <<container, entries, entry, chunk, seqNo, task, readQueue_, writeQueue_,
                 workers, writer>>

\* A refused push ends this entry only.
PushTask ==
  /\ rpc = "push"
  /\ MayPush(readQueue_, CAPACITY)
  /\ readQueue_' = Pushed(readQueue_, task)
  /\ task' = None
  /\ IF readQueue_.closed \/ task.last
     THEN rpc' = "next" /\ entry' = entry + 1 /\ chunk' = chunk
     ELSE rpc' = "read" /\ chunk' = chunk + 1 /\ entry' = entry
  /\ UNCHANGED <<container, entries, seqNo, writeQueue_, workers, writer>>

ReaderEnds ==
  /\ rpc = "next" /\ entry > Len(entries)
  /\ readQueue_' = Closed(readQueue_)
  /\ rpc' = "end"
  /\ UNCHANGED <<container, entries, entry, chunk, seqNo, task, writeQueue_, workers, writer>>

Reader ==
  EmptyEntry \/ FirstChunk \/ ReadChunk \/ ReadThrows \/ PushTask \/ ReaderEnds

-----------------------------------------------------------------------------
(***************************************************************************)
(* workerTask.                                                             *)
(***************************************************************************)
Idle(w) == rpc # "idle" /\ w \notin ended /\ stage[w] # "died" /\ result[w] = None

\* An idle worker takes the next chunk.
Takes(w, fails) ==
  /\ Idle(w)
  /\ readQueue_.items # <<>>
  /\ result' = [result EXCEPT ![w] = [Head(readQueue_.items) EXCEPT !.error = fails]]
  /\ readQueue_' = Popped(readQueue_)
  /\ UNCHANGED <<container, entries, reader, writeQueue_, ended, writer>>

\* Mutated: bytes that do not authenticate are passed on.
DecryptUnchecked(w) ==
  /\ Takes(w, FALSE)
  /\ stage' = [stage EXCEPT ![w] = "loop"]

\* What does not authenticate becomes an error that takes its turn.
Decrypt(w) ==
  /\ Takes(w, Head(readQueue_.items).piece = None)
  /\ stage' = [stage EXCEPT ![w] = "loop"]

\* The buffer for the result cannot be had, and nothing catches it: see EncryptPipeline.
DiesOverChunk(w) ==
  /\ MAY_FAIL /\ Takes(w, TRUE)
  /\ stage' = [stage EXCEPT ![w] = "died"]

\* makeDecryptor throws before the loop, with the same end.
DiesAtStart(w) ==
  /\ MAY_FAIL /\ rpc # "idle" /\ w \notin ended /\ stage[w] = "start"
  /\ stage' = [stage EXCEPT ![w] = "died"]
  /\ UNCHANGED <<container, entries, reader, readQueue_, writeQueue_, result, ended, writer>>

PushResult(w) ==
  /\ stage[w] # "died" /\ result[w] # None
  /\ MayPush(writeQueue_, WriteCapacity)
  /\ writeQueue_' = Pushed(writeQueue_, result[w])
  /\ result' = [result EXCEPT ![w] = None]
  /\ UNCHANGED <<container, entries, reader, readQueue_, ended, stage, writer>>

\* Mutated: a worker that finds readQueue_ closed leaves what is still in it.
WorkerEndsEarly(w) ==
  /\ Idle(w)
  /\ readQueue_.closed
  /\ ended' = ended \cup {w}
  /\ stage' = [stage EXCEPT ![w] = "loop"]
  /\ writeQueue_' = IF ended' = Workers THEN Closed(writeQueue_) ELSE writeQueue_
  /\ UNCHANGED <<container, entries, reader, readQueue_, result, writer>>

\* The last one to count itself out of activeWorkers_ closes writeQueue_.
WorkerEnds(w) ==
  /\ Idle(w)
  /\ readQueue_.closed /\ readQueue_.items = <<>>
  /\ ended' = ended \cup {w}
  /\ stage' = [stage EXCEPT ![w] = "loop"]
  /\ writeQueue_' = IF ended' = Workers THEN Closed(writeQueue_) ELSE writeQueue_
  /\ UNCHANGED <<container, entries, reader, readQueue_, result, writer>>

Worker(w) ==
  Decrypt(w) \/ DiesOverChunk(w) \/ DiesAtStart(w) \/ PushResult(w) \/ WorkerEnds(w)

-----------------------------------------------------------------------------
(***************************************************************************)
(* writerLoop, and what run() does when it throws.                         *)
(***************************************************************************)

\* A chunk of another file than the last one: that output is closed, a new one
\* made or cut to nothing, and the hasher cleared.
Switch(c) == current # c.name

\* The outputs once that one holds these pieces.
Holding(out, pieces) ==
  [o \in DOMAIN outputs \cup {out} |-> IF o = out THEN pieces ELSE outputs[o]]

\* Mutated: a new output goes on with the hash of the last one.
WriteWithoutClear(c) ==
  LET out     == OutputOf(c.name)
      before  == IF Switch(c) THEN <<>> ELSE outputs[out]
      data    == IF c.piece.len > 0 THEN <<c.piece>> ELSE <<>>
      allHash == hashed \o data
  IN  /\ outputs' = Holding(out, before \o data)
      /\ hashed' = allHash
      /\ current' = IF c.last THEN None ELSE c.name
      /\ checksumFailures_' = IF c.last /\ allHash # Content(c.sum)
                              THEN checksumFailures_ \cup {c.name}
                              ELSE checksumFailures_

\* processChunk: a checksum that differs is noted, and the file stays.
Write(c) ==
  LET out     == OutputOf(c.name)
      before  == IF Switch(c) THEN <<>> ELSE outputs[out]
      data    == IF c.piece.len > 0 THEN <<c.piece>> ELSE <<>>
      allHash == (IF Switch(c) THEN <<>> ELSE hashed) \o data
  IN  /\ outputs' = Holding(out, before \o data)
      /\ hashed' = IF c.last THEN <<>> ELSE allHash
      /\ current' = IF c.last THEN None ELSE c.name
      /\ checksumFailures_' = IF c.last /\ allHash # Content(c.sum)
                              THEN checksumFailures_ \cup {c.name}
                              ELSE checksumFailures_

\* The output cannot be made, or only made empty, or not be written.
WriteFails(c) ==
  /\ MAY_FAIL
  /\ \/ UNCHANGED outputs
     \/ Switch(c) /\ outputs' = Holding(OutputOf(c.name), <<>>)
  /\ UNCHANGED <<current, hashed, checksumFailures_>>

Process(c) ==
  \/ /\ ~ c.error
     /\ Write(c)
     /\ nextExpected' = nextExpected + 1
     /\ wpc' = "loop"
  \/ /\ IF c.error THEN UNCHANGED files ELSE WriteFails(c)
     /\ wpc' = "failed"
     /\ UNCHANGED nextExpected

Due == {c \in reorderBuf : c.seq = nextExpected}

ProcessNext ==
  /\ wpc = "loop" /\ Due = {}
  /\ writeQueue_.items # <<>>
  /\ Head(writeQueue_.items).seq = nextExpected
  /\ Process(Head(writeQueue_.items))
  /\ writeQueue_' = Popped(writeQueue_)
  /\ UNCHANGED <<container, entries, reader, readQueue_, workers, reorderBuf>>

\* Mutated: chunks are written as they come.
WriteEarly ==
  /\ wpc = "loop" /\ Due = {}
  /\ writeQueue_.items # <<>>
  /\ Head(writeQueue_.items).seq # nextExpected
  /\ Process(Head(writeQueue_.items))
  /\ writeQueue_' = Popped(writeQueue_)
  /\ UNCHANGED <<container, entries, reader, readQueue_, workers, reorderBuf>>

StashEarly ==
  /\ wpc = "loop" /\ Due = {}
  /\ writeQueue_.items # <<>>
  /\ Head(writeQueue_.items).seq # nextExpected
  /\ reorderBuf' = reorderBuf \cup {Head(writeQueue_.items)}
  /\ writeQueue_' = Popped(writeQueue_)
  /\ UNCHANGED <<container, entries, reader, readQueue_, workers, wpc, nextExpected, files>>

ProcessStashed ==
  /\ wpc = "loop"
  /\ \E c \in Due : Process(c) /\ reorderBuf' = reorderBuf \ {c}
  /\ UNCHANGED <<container, entries, reader, readQueue_, writeQueue_, workers>>

LoopEnds ==
  /\ wpc = "loop" /\ Due = {}
  /\ writeQueue_.closed /\ writeQueue_.items = <<>>
  /\ wpc' = "wait"
  /\ UNCHANGED <<container, entries, reader, readQueue_, writeQueue_, workers,
                 nextExpected, reorderBuf, files>>

CloseReadQueue ==
  /\ wpc = "failed"
  /\ readQueue_' = Closed(readQueue_)
  /\ wpc' = "close"
  /\ UNCHANGED <<container, entries, reader, writeQueue_, workers,
                 nextExpected, reorderBuf, files>>

CloseWriteQueue ==
  /\ wpc = "close"
  /\ writeQueue_' = Closed(writeQueue_)
  /\ wpc' = "drain"
  /\ UNCHANGED <<container, entries, reader, readQueue_, workers,
                 nextExpected, reorderBuf, files>>

Died == {w \in Workers : stage[w] = "died"}

\* pool_.wait(), for which a task that threw is done too, then run() returns or rethrows.
PoolIdle == rpc = "end" /\ ended \cup Died = Workers

RunEnds ==
  /\ PoolIdle
  /\ \/ wpc = "wait"  /\ wpc' = "returned"
     \/ wpc = "drain" /\ wpc' = "threw"
  /\ UNCHANGED <<container, entries, reader, readQueue_, writeQueue_, workers,
                 nextExpected, reorderBuf, files>>

Writer ==
  \/ ProcessNext \/ StashEarly \/ ProcessStashed \/ LoopEnds
  \/ CloseReadQueue \/ CloseWriteQueue \/ RunEnds

-----------------------------------------------------------------------------
Begin == \E request \in Requests : Extract(request) \/ UnknownName(request)

Over == wpc \in {"returned", "threw", "refused"}

Next == Begin \/ Reader \/ (\E w \in Workers : Worker(w)) \/ Writer

\* The pool has a thread for every task and the writer is the calling thread.
Fairness ==
  /\ WF_vars(Reader)
  /\ \A w \in Workers : WF_vars(Worker(w))
  /\ WF_vars(Writer)

-----------------------------------------------------------------------------
(***************************************************************************)
(* Properties.                                                             *)
(***************************************************************************)

\* The last entry of the request that is written to a file stays there.
LastOf(out) ==
  LET writers == {k \in 1 .. Len(entries) : OutputOf(entries[k].name) = out}
  IN  entries[CHOOSE k \in writers : \A j \in writers : j <= k]

StoredContent(e) == [i \in 1 .. ChunkCount(e.size) |-> Stored(e, i)]

\* No output ever mixes two files, skips a chunk or holds one that did not
\* authenticate: at any time, and after a failure for good, it is the
\* beginning of what the container stores for one of the entries asked for.
OutputsHoldOneFile ==
  \A out \in DOMAIN outputs :
    \E k \in 1 .. Len(entries) :
      /\ OutputOf(entries[k].name) = out
      /\ IsPrefix(outputs[out], StoredContent(entries[k]))
      /\ None \notin {outputs[out][i] : i \in 1 .. Len(outputs[out])}

\* A run that returns has written every entry asked for in full, and noted just
\* those whose content is not what was hashed when they were added.
ReturnMeansExtracted ==
  wpc = "returned" =>
    \A k \in 1 .. Len(entries) :
      LET e   == entries[k]
          out == OutputOf(e.name)
      IN  /\ out \in DOMAIN outputs
          /\ outputs[out] = StoredContent(LastOf(out))
          /\ e.name \in checksumFailures_ <=> StoredContent(e) # Content(e)

\* run() ends, or its writer waits for ever on the chunks of a task that has
\* died of an exception: see EndsOrWaits of EncryptPipeline.
ReaderDied == rpc = "end" /\ ~ readQueue_.closed
WriterWaits == wpc = "loop" /\ (ReaderDied \/ Died # {})
ExtractEndsOrWaits == (wpc = "loop" ~> Over) \/ <>[]WriterWaits
=============================================================================
