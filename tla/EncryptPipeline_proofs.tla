----------------------- MODULE EncryptPipeline_proofs -----------------------
(***************************************************************************)
(* For any number of workers, any queue capacity and block size, and any   *)
(* lists of input files: no chunk is lost between the threads, chunks      *)
(* reach the medium in the order they were cut, and what a run that        *)
(* returns has entered into the table can be read back.                    *)
(***************************************************************************)
EXTENDS EncryptPipeline, FiniteSetTheorems, SequenceTheorems, WellFoundedInduction, TLAPS

-----------------------------------------------------------------------------
(***************************************************************************)
(* The invariant, in three parts: where the chunks under way are, how they *)
(* follow one another, and what has become of the files.                   *)
(***************************************************************************)
Positions == [file : Nat, at : Nat]
QueuesOf(S) == [items : Seq(S), closed : BOOLEAN]

Types ==
  /\ files \in FileLists
  /\ rpc \in {"open", "read", "push", "close", "end"}
  /\ file \in Nat \ {0}
  /\ readOffset \in Nat
  /\ seqNo \in Nat
  /\ task \in CutChunks \cup {None}
  /\ readQueue_ \in QueuesOf(CutChunks)
  /\ writeQueue_ \in QueuesOf(Chunks)
  /\ result \in [Workers -> CutChunks \cup {None}]
  /\ ended \in SUBSET Workers
  /\ wpc \in {"loop", "failed", "close", "drain", "wait", "returned", "threw"}
  /\ nextExpected \in Nat
  /\ reorderBuf \in SUBSET Chunks
  /\ IsFiniteSet(reorderBuf)
  /\ fileStart \in Nat \cup {None}
  /\ medium \in Seq(Pieces)

\* The threads' counters and what they hold agree.
Threads ==
  /\ rpc = "push" <=> task # None
  /\ rpc \in {"read", "push"} => file <= Len(files)
  /\ file <= Len(files) + 1
  /\ \A w \in ended : result[w] = None
  /\ ended # {} => readQueue_.closed /\ readQueue_.items = <<>>
  /\ nextExpected <= seqNo

\* The writer has not failed.
Unfailed == wpc \in {"loop", "wait", "returned"}

\* Until it does, a queue is closed by those who push to it, when they have
\* nothing left to push.
ClosedByPushers ==
  /\ readQueue_.closed => rpc = "end"
  /\ writeQueue_.closed => ended = Workers
  /\ wpc \in {"wait", "returned"} => rpc = "end" /\ ended = Workers /\ nextExpected = seqNo

\* The sequence numbers in each place.
SeqsOf(items) == {items[i].seq : i \in 1 .. Len(items)}
ReadSeqs == SeqsOf(readQueue_.items)
WriteSeqs == SeqsOf(writeQueue_.items)
ResultSeqs == {result[w].seq : w \in Busy}
StashSeqs == {c.seq : c \in reorderBuf}
TaskSeqs == IF task = None THEN {} ELSE {task.seq}

Distinct(items) ==
  \A i, j \in 1 .. Len(items) : items[i].seq = items[j].seq => i = j

NoneTwice ==
  /\ Distinct(readQueue_.items)
  /\ Distinct(writeQueue_.items)
  /\ \A v, w \in Busy : result[v].seq = result[w].seq => v = w
  /\ \A c, d \in reorderBuf : c.seq = d.seq => c = d

Apart(R, W, B, S, T) ==
  /\ R \cap W = {} /\ R \cap B = {} /\ R \cap S = {} /\ R \cap T = {}
  /\ W \cap B = {} /\ W \cap S = {} /\ W \cap T = {}
  /\ B \cap S = {} /\ B \cap T = {}
  /\ S \cap T = {}

EachInOnePlace ==
  /\ NoneTwice
  /\ Apart(ReadSeqs, WriteSeqs, ResultSeqs, StashSeqs, TaskSeqs)
  /\ ReadSeqs \cup WriteSeqs \cup ResultSeqs \cup StashSeqs \cup TaskSeqs
       = nextExpected .. seqNo - 1

PlacesInv ==
  /\ Types
  /\ Threads
  /\ Unfailed => ClosedByPushers /\ EachInOnePlace

-----------------------------------------------------------------------------
\* Pieces and entries are of files of the list, and no name is given twice.
OfTheList ==
  \A c \in ChunksUnderWay : c.piece # None => c.piece.file \in 1 .. Len(files)

NamesDiffer(t) == \A j, k \in 1 .. Len(t) : t[j].name = t[k].name => j = k

ListInv ==
  /\ PlacesInv
  /\ OfTheList
  /\ table \in Seq(Entries)
  /\ NamesDiffer(table)

-----------------------------------------------------------------------------
\* q comes next after the piece p, in the same file or at the start of a later one.
Ahead(p, q) ==
  \/ q.file = p.file /\ q.at = p.at + p.len
  \/ q.file > p.file /\ q.at = 0

Position(f, at) == [file |-> f, at |-> at]

\* Where the reader will cut next, if it does.
ReaderAt ==
  IF rpc = "read" \/ (rpc = "push" /\ ~ task.last)
  THEN Position(file, readOffset)
  ELSE Position(IF rpc = "push" THEN file + 1 ELSE file, 0)

Cutting == rpc \in {"open", "read", "push"}

\* What was written last, what is under way in the order of its numbers and
\* what the reader will cut next lie ahead of one another.
InOrder ==
  /\ \A c \in ChunksUnderWay : c.piece # None =>
       /\ c.seq = nextExpected /\ medium # <<>> => Ahead(medium[Len(medium)], c.piece)
       /\ c.seq = seqNo - 1 /\ Cutting => Ahead(c.piece, ReaderAt)
       /\ c.piece.len = 0 => c.piece.at = 0
  /\ \A c, d \in ChunksUnderWay :
       c.piece # None /\ d.piece # None /\ d.seq = c.seq + 1 => Ahead(c.piece, d.piece)
  /\ nextExpected = seqNo /\ medium # <<>> /\ Cutting => Ahead(medium[Len(medium)], ReaderAt)

OrderInv ==
  /\ PlacesInv
  /\ \A i \in 1 .. Len(medium) : medium[i].len > 0
  /\ Unfailed => InOrder
  /\ WrittenInOrder

-----------------------------------------------------------------------------
\* Where the chunk after c is cut from, when nothing has shrunk.
After(c) ==
  IF c.last
  THEN Position(c.piece.file + 1, 0)
  ELSE Position(c.piece.file, c.piece.at + c.piece.len)

\* Where the next chunk to be written must have been cut from.
WriterAt ==
  Position(Len(table) + 1,
           IF fileStart = None THEN 0 ELSE (Len(medium) - fileStart) * BLOCK_SIZE)

\* The last chunk reaches the size found and tells how much was read; the ones
\* before it are whole blocks.
WellCut(c) ==
  /\ c.piece.file \in 1 .. Len(files)
  /\ IF c.last
     THEN /\ c.total = c.piece.at + c.piece.len
          /\ c.total >= files[c.piece.file].size
          /\ c.piece.len <= BLOCK_SIZE
          /\ c.piece.len = 0 => c.piece.at = 0
     ELSE c.piece.len = BLOCK_SIZE

\* The reader has not given up at a file that cannot be opened.
NotGivenUp == Cutting \/ file > Len(files)

Seamless ==
  /\ \A c \in ChunksUnderWay : c.piece # None =>
       /\ WellCut(c)
       /\ c.seq = nextExpected => Position(c.piece.file, c.piece.at) = WriterAt
       /\ c.seq = seqNo - 1 /\ NotGivenUp => After(c) = ReaderAt
  /\ \A c, d \in ChunksUnderWay :
       c.piece # None /\ d.piece # None /\ d.seq = c.seq + 1 =>
         After(c) = Position(d.piece.file, d.piece.at)
  /\ nextExpected = seqNo /\ NotGivenUp => WriterAt = ReaderAt
  /\ ~ NotGivenUp =>
       /\ nextExpected < seqNo
       /\ \A c \in ChunksUnderWay : c.seq = seqNo - 1 => c.piece = None
  /\ rpc = "read" \/ (rpc = "push" /\ ~ task.last) => readOffset < files[file].size

\* The pieces of the file being written lie behind fileStart, whole blocks all.
OpenFileStored ==
  fileStart # None =>
    /\ fileStart < Len(medium)
    /\ \A i \in 1 .. Len(medium) - fileStart :
         medium[fileStart + i] = Piece(Len(table) + 1, (i - 1) * BLOCK_SIZE, BLOCK_SIZE)

EntriesOfFiles ==
  \A k \in 1 .. Len(table) :
    table[k].file = k /\ k <= Len(files) /\ table[k].size >= files[k].size

SteadyInv ==
  /\ ListInv
  /\ InputsSteady =>
       /\ Unfailed => Seamless /\ OpenFileStored
       /\ EntriesReadable /\ EntriesOfFiles

-----------------------------------------------------------------------------
(***************************************************************************)
(* Queues.                                                                 *)
(***************************************************************************)
LEMMA PushedQueue ==
  ASSUME NEW S, NEW q \in QueuesOf(S), NEW c \in S
  PROVE  /\ Pushed(q, c) \in QueuesOf(S)
         /\ Pushed(q, c).closed = q.closed
         /\ q.closed => Pushed(q, c) = q
         /\ ~ q.closed => Pushed(q, c).items = Append(q.items, c)
BY DEF QueuesOf, Pushed

LEMMA PoppedQueue ==
  ASSUME NEW S, NEW q \in QueuesOf(S), q.items # <<>>
  PROVE  /\ Popped(q) \in QueuesOf(S)
         /\ Head(q.items) \in S
         /\ Popped(q).closed = q.closed
         /\ Popped(q).items = Tail(q.items)
BY DEF QueuesOf, Popped

LEMMA ClosedQueue ==
  ASSUME NEW S, NEW q \in QueuesOf(S)
  PROVE  /\ Closed(q) \in QueuesOf(S)
         /\ Closed(q).closed
         /\ Closed(q).items = q.items
BY DEF QueuesOf, Closed

\* What a push adds to the numbers of a queue, and a pop takes away.
LEMMA AppendedSeqs ==
  ASSUME NEW S, NEW s \in Seq(S), NEW c \in S
  PROVE  /\ SeqsOf(Append(s, c)) = SeqsOf(s) \cup {c.seq}
         /\ Distinct(s) /\ c.seq \notin SeqsOf(s) => Distinct(Append(s, c))
<1> DEFINE t == Append(s, c)
<1>1. /\ Len(t) = Len(s) + 1 /\ Len(s) \in Nat
      /\ \A i \in 1 .. Len(s) : t[i] = s[i]
      /\ t[Len(s) + 1] = c
  OBVIOUS
<1>2. 1 .. Len(t) = 1 .. Len(s) \cup {Len(s) + 1}
  BY <1>1
<1> HIDE DEF t
<1>3. SeqsOf(t) = SeqsOf(s) \cup {c.seq}
  BY <1>1, <1>2 DEF SeqsOf
<1>4. Distinct(s) /\ c.seq \notin SeqsOf(s) => Distinct(t)
  BY <1>1, <1>2 DEF Distinct, SeqsOf
<1> QED BY <1>3, <1>4 DEF t

LEMMA TailSeqs ==
  ASSUME NEW S, NEW s \in Seq(S), s # <<>>
  PROVE  /\ Head(s).seq \in SeqsOf(s)
         /\ SeqsOf(Tail(s)) \subseteq SeqsOf(s)
         /\ SeqsOf(s) \ {Head(s).seq} \subseteq SeqsOf(Tail(s))
         /\ Distinct(s) => Distinct(Tail(s)) /\ Head(s).seq \notin SeqsOf(Tail(s))
<1> DEFINE t == Tail(s)
<1>1. /\ Len(s) \in Nat \ {0} /\ Len(t) = Len(s) - 1 /\ Head(s) = s[1]
      /\ \A i \in 1 .. Len(t) : t[i] = s[i + 1]
  OBVIOUS
<1> HIDE DEF t
<1>2. Head(s).seq \in SeqsOf(s)
  BY <1>1 DEF SeqsOf
<1>3. SeqsOf(t) \subseteq SeqsOf(s)
  BY <1>1 DEF SeqsOf
<1>4. SeqsOf(s) \ {Head(s).seq} \subseteq SeqsOf(t)
  <2> SUFFICES ASSUME NEW i \in 1 .. Len(s), s[i].seq # Head(s).seq
               PROVE  s[i].seq \in SeqsOf(t)
    BY DEF SeqsOf
  <2>1. i - 1 \in 1 .. Len(t) /\ t[i - 1] = s[i]
    BY <1>1
  <2> QED BY <2>1 DEF SeqsOf
<1>5. Distinct(s) => Distinct(t) /\ Head(s).seq \notin SeqsOf(t)
  <2> SUFFICES ASSUME Distinct(s) PROVE Distinct(t) /\ Head(s).seq \notin SeqsOf(t)
    OBVIOUS
  <2>1. ASSUME NEW i \in 1 .. Len(t), NEW j \in 1 .. Len(t), t[i].seq = t[j].seq
        PROVE  i = j
    <3>1. i + 1 \in 1 .. Len(s) /\ j + 1 \in 1 .. Len(s) /\ s[i + 1].seq = s[j + 1].seq
      BY <1>1, <2>1
    <3>2. i + 1 = j + 1
      BY <3>1 DEF Distinct
    <3> QED BY <3>2
  <2>2. ASSUME NEW i \in 1 .. Len(t), t[i].seq = s[1].seq
        PROVE  FALSE
    <3>1. i + 1 \in 1 .. Len(s) /\ 1 \in 1 .. Len(s) /\ s[i + 1].seq = s[1].seq
      BY <1>1, <2>2
    <3>2. i + 1 = 1
      BY <3>1 DEF Distinct
    <3> QED BY <3>2
  <2> QED BY <1>1, <2>1, <2>2 DEF Distinct, SeqsOf
<1> QED BY <1>2, <1>3, <1>4, <1>5 DEF t

-----------------------------------------------------------------------------
(***************************************************************************)
(* Workers and what they hold.                                             *)
(***************************************************************************)
LEMMA NoneIsNoChunk == None \notin CutChunks /\ None \notin Chunks /\ None \notin Pieces
BY NothingAssumption DEF Chunks

LEMMA ResultTaken ==
  ASSUME result \in [Workers -> CutChunks \cup {None}], NEW w \in Workers, result[w] = None,
         NEW c \in CutChunks, result' = [result EXCEPT ![w] = c]
  PROVE  /\ result' \in [Workers -> CutChunks \cup {None}]
         /\ \A v \in Workers : result'[v] = IF v = w THEN c ELSE result[v]
         /\ Busy' = Busy \cup {w} /\ w \notin Busy
         /\ ResultSeqs' = ResultSeqs \cup {c.seq}
<1>1. \A v \in Workers : result'[v] = IF v = w THEN c ELSE result[v]
  OBVIOUS
<1>2. Busy' = Busy \cup {w} /\ w \notin Busy
  BY <1>1, NoneIsNoChunk DEF Busy
<1>3. ResultSeqs' = ResultSeqs \cup {c.seq}
  BY <1>1, <1>2 DEF ResultSeqs, Busy
<1> QED BY <1>1, <1>2, <1>3

LEMMA ResultGiven ==
  ASSUME result \in [Workers -> CutChunks \cup {None}], NEW w \in Workers, result[w] # None,
         result' = [result EXCEPT ![w] = None]
  PROVE  /\ result' \in [Workers -> CutChunks \cup {None}]
         /\ \A v \in Workers : result'[v] = IF v = w THEN None ELSE result[v]
         /\ Busy' = Busy \ {w} /\ w \in Busy
         /\ result[w].seq \in ResultSeqs
         /\ ResultSeqs' \cup {result[w].seq} = ResultSeqs
<1>1. \A v \in Workers : result'[v] = IF v = w THEN None ELSE result[v]
  OBVIOUS
<1>2. Busy' = Busy \ {w} /\ w \in Busy
  BY <1>1 DEF Busy
<1>3. result[w].seq \in ResultSeqs /\ ResultSeqs' \cup {result[w].seq} = ResultSeqs
  BY <1>1, <1>2 DEF ResultSeqs, Busy
<1> QED BY <1>1, <1>2, <1>3

-----------------------------------------------------------------------------
(***************************************************************************)
(* PlacesInv: the reader.                                                  *)
(***************************************************************************)
LEMMA NewChunks ==
  ASSUME NEW seq \in Nat
  PROVE  /\ ErrorChunk(seq) \in Chunks
         /\ \A piece \in Pieces, last \in BOOLEAN, total \in Nat :
              Chunk(seq, piece, last, total) \in CutChunks
BY DEF ErrorChunk, Chunk, Chunks, CutChunks, ErrorChunks

LEMMA FileTypes ==
  ASSUME Types, NEW k \in 1 .. Len(files)
  PROVE  /\ files[k].name \in Names /\ files[k].size \in Nat /\ files[k].length \in Nat
         /\ Len(files) \in Nat
<1>1. files \in Seq(Input)
  BY PipelineAssumption DEF Types
<1>2. files[k] \in Input /\ Len(files) \in Nat
  BY <1>1
<1> QED BY <1>2 DEF Input

\* A chunk that the reader sends past the workers.
LEMMA BypassKeepsPlaces ==
  ASSUME PlacesInv, NEW c \in Chunks, c.seq = seqNo, rpc = "open",
         writeQueue_' = Pushed(writeQueue_, c), seqNo' = seqNo + 1,
         rpc' \in {"open", "close"}, file' \in Nat \ {0}, file' <= Len(files) + 1,
         UNCHANGED <<files, readOffset, task, readQueue_, workers, writer>>
  PROVE  PlacesInv'
<1>1. Types /\ Threads /\ task = None
  BY DEF PlacesInv, Threads
<1>2. /\ writeQueue_' \in QueuesOf(Chunks)
      /\ writeQueue_'.closed = writeQueue_.closed
      /\ ~ writeQueue_.closed => writeQueue_'.items = Append(writeQueue_.items, c)
  BY <1>1, PushedQueue DEF Types
<1>3. Types'
  BY <1>1, <1>2 DEF Types, workers, writer
<1>4. Threads'
  BY <1>1 DEF Types, Threads, workers, writer
<1>5. ASSUME Unfailed' PROVE ClosedByPushers' /\ EachInOnePlace'
  <2>1. Unfailed /\ ClosedByPushers /\ EachInOnePlace
    BY <1>5 DEF PlacesInv, Unfailed, writer
  <2>2. ~ readQueue_.closed /\ ~ writeQueue_.closed /\ wpc = "loop"
    <3>1. ended = {}
      BY <2>1, <1>1 DEF ClosedByPushers, Threads
    <3> QED BY <2>1, <3>1, PipelineAssumption DEF ClosedByPushers, Unfailed
  <2>3. ClosedByPushers'
    BY <1>2, <2>2 DEF ClosedByPushers, writer
  <2>4. writeQueue_.items \in Seq(Chunks) /\ writeQueue_'.items = Append(writeQueue_.items, c)
    BY <1>1, <1>2, <2>2 DEF Types, QueuesOf
  <2>5. /\ WriteSeqs' = WriteSeqs \cup {seqNo}
        /\ Distinct(writeQueue_.items) /\ seqNo \notin WriteSeqs => Distinct(writeQueue_'.items)
    BY <2>4, AppendedSeqs DEF WriteSeqs
  <2>6. UNCHANGED <<ReadSeqs, ResultSeqs, StashSeqs, TaskSeqs>>
    BY DEF ReadSeqs, ResultSeqs, StashSeqs, TaskSeqs, Busy, workers, writer
  <2>7. /\ nextExpected' .. seqNo' - 1 = (nextExpected .. seqNo - 1) \cup {seqNo}
        /\ seqNo \notin nextExpected .. seqNo - 1
    <3>1. nextExpected <= seqNo /\ nextExpected' = nextExpected
      BY <1>1 DEF Threads, writer
    <3> QED BY <1>1, <3>1 DEF Types
  <2>8. NoneTwice'
    BY <2>1, <2>5, <2>7 DEF NoneTwice, EachInOnePlace, Busy, workers, writer
  <2> QED BY <2>1, <2>3, <2>5, <2>6, <2>7, <2>8 DEF EachInOnePlace, Apart
<1> QED BY <1>3, <1>4, <1>5 DEF PlacesInv

\* Steps that move no chunk.
LEMMA NothingMoved ==
  ASSUME readQueue_'.items = readQueue_.items, writeQueue_'.items = writeQueue_.items,
         UNCHANGED <<result, reorderBuf, task, seqNo, nextExpected>>
  PROVE  EachInOnePlace' <=> EachInOnePlace
BY DEF EachInOnePlace, NoneTwice, Distinct, ReadSeqs, WriteSeqs, ResultSeqs, StashSeqs, TaskSeqs,
       SeqsOf, Busy, Apart

LEMMA WalkKeepsPlaces ==
  ASSUME PlacesInv, OpenFile \/ EndOfInput \/ ReadThrows \/ ReaderEnds
  PROVE  PlacesInv'
<1>1. Types /\ Threads /\ task = None
  BY DEF PlacesInv, Threads, OpenFile, EndOfInput, ReadThrows, ReaderEnds, AtFile
<1>2. /\ readQueue_' \in QueuesOf(CutChunks)
      /\ readQueue_'.items = readQueue_.items
      /\ readQueue_'.closed => readQueue_.closed \/ rpc' = "end"
      /\ readQueue_.closed => readQueue_'.closed
  BY <1>1, ClosedQueue DEF Types, OpenFile, EndOfInput, ReadThrows, ReaderEnds
<1>3. /\ UNCHANGED <<files, seqNo, task, writeQueue_, workers, writer>>
      /\ rpc' \in {"open", "read", "end"}
      /\ rpc' = "end" \/ rpc # "end"
      /\ readOffset' \in Nat
      /\ file' \in Nat \ {0} /\ file' <= Len(files) + 1
      /\ rpc' = "read" => file' <= Len(files)
  <2>1. Len(files) \in Nat
    BY <1>1, PipelineAssumption DEF Types
  <2> QED BY <1>1, <2>1 DEF Types, Threads, OpenFile, EndOfInput, ReadThrows, ReaderEnds, AtFile
<1>4. Types'
  BY <1>1, <1>2, <1>3 DEF Types, workers, writer
<1>5. Threads'
  BY <1>1, <1>2, <1>3 DEF Types, Threads, workers, writer
<1>6. ASSUME Unfailed' PROVE ClosedByPushers' /\ EachInOnePlace'
  <2>1. Unfailed /\ ClosedByPushers /\ EachInOnePlace
    BY <1>3, <1>6 DEF PlacesInv, Unfailed, writer
  <2>2. ClosedByPushers'
    BY <2>1, <1>2, <1>3 DEF ClosedByPushers, workers, writer,
       OpenFile, EndOfInput, ReadThrows, ReaderEnds, AtFile
  <2> QED BY <2>1, <2>2, <1>2, <1>3, NothingMoved DEF workers, writer
<1> QED BY <1>4, <1>5, <1>6 DEF PlacesInv

\* What readSome may return lies within the file and within a block.
LEMMA SomeRead ==
  ASSUME Types, Threads, rpc = "read", readOffset < files[file].length,
         NEW got \in Reads(files[file])
  PROVE  /\ got \in Nat \ {0} /\ got <= BLOCK_SIZE
         /\ readOffset + got <= files[file].length
         /\ files[file].fault # "short" =>
              got = BLOCK_SIZE \/ readOffset + got = files[file].length
<1>1. file \in 1 .. Len(files) /\ readOffset \in Nat
  <2>1. Len(files) \in Nat
    BY PipelineAssumption DEF Types
  <2> QED BY <2>1 DEF Types, Threads
<1>2. files[file].length \in Nat
  BY <1>1, FileTypes
<1> DEFINE left == files[file].length - readOffset
           most == IF left < BLOCK_SIZE THEN left ELSE BLOCK_SIZE
<1>3. /\ most \in Nat \ {0} /\ most <= BLOCK_SIZE /\ readOffset + most <= files[file].length
      /\ most = BLOCK_SIZE \/ readOffset + most = files[file].length
  BY <1>1, <1>2, PipelineAssumption
<1>4. got \in 1 .. most \/ got = most
  BY DEF Reads
<1>5. files[file].fault # "short" => got = most
  BY DEF Reads
<1> HIDE DEF most
<1> QED BY <1>1, <1>2, <1>3, <1>4, <1>5, PipelineAssumption

\* The chunk that ReadBlock cuts.
LEMMA CutBlock ==
  ASSUME Types, Threads, ReadBlock
  PROVE  \E got \in Reads(files[file]) :
           LET end  == readOffset + got
               last == end >= files[file].size
           IN  /\ task' = Chunk(seqNo, Piece(file, readOffset, got), last, IF last THEN end ELSE 0)
               /\ task' \in CutChunks
               /\ readOffset' = end
               /\ end \in Nat
<1>1. PICK got \in Reads(files[file]) :
        LET end  == readOffset + got
            last == end >= files[file].size
        IN  /\ task' = Chunk(seqNo, Piece(file, readOffset, got), last, IF last THEN end ELSE 0)
            /\ readOffset' = end
  BY DEF ReadBlock
<1>2. got \in Nat \ {0} /\ readOffset \in Nat /\ file \in Nat /\ seqNo \in Nat
  BY SomeRead DEF ReadBlock, Types
<1>3. Piece(file, readOffset, got) \in Pieces /\ readOffset + got \in Nat
  BY <1>2 DEF Piece, Pieces
<1> DEFINE last == readOffset + got >= files[file].size
<1>4. (IF last THEN readOffset + got ELSE 0) \in Nat /\ last \in BOOLEAN
  BY <1>3
<1>5. task' \in CutChunks
  <2> HIDE DEF last
  <2>1. Chunk(seqNo, Piece(file, readOffset, got), last, IF last THEN readOffset + got ELSE 0)
          \in CutChunks
    BY <1>2, <1>3, <1>4, NewChunks
  <2> QED BY <2>1, <1>1 DEF last
<1> QED BY <1>1, <1>3, <1>5

LEMMA ReadBlockKeepsPlaces ==
  ASSUME PlacesInv, ReadBlock
  PROVE  PlacesInv'
<1>1. Types /\ Threads /\ task = None /\ rpc = "read" /\ rpc' = "push"
  BY DEF PlacesInv, Threads, ReadBlock
<1>2. task' \in CutChunks /\ readOffset' \in Nat /\ task'.seq = seqNo /\ task' # None
  BY <1>1, CutBlock, NoneIsNoChunk DEF Chunk
<1>3. /\ seqNo' = seqNo + 1
      /\ UNCHANGED <<files, file, readQueue_, writeQueue_, workers, writer>>
  BY DEF ReadBlock
<1>4. Types'
  BY <1>1, <1>2, <1>3 DEF Types, workers, writer
<1>5. Threads'
  BY <1>1, <1>2, <1>3 DEF Types, Threads, workers, writer
<1>6. ASSUME Unfailed' PROVE ClosedByPushers' /\ EachInOnePlace'
  <2>1. Unfailed /\ ClosedByPushers /\ EachInOnePlace
    BY <1>3, <1>6 DEF PlacesInv, Unfailed, writer
  <2>2. ClosedByPushers'
    BY <2>1, <1>1, <1>3 DEF ClosedByPushers, workers, writer
  <2>3. TaskSeqs = {} /\ TaskSeqs' = {seqNo}
    BY <1>1, <1>2 DEF TaskSeqs
  <2>4. UNCHANGED <<ReadSeqs, WriteSeqs, ResultSeqs, StashSeqs>>
    BY <1>3 DEF ReadSeqs, WriteSeqs, ResultSeqs, StashSeqs, Busy, workers, writer
  <2>5. /\ nextExpected' .. seqNo' - 1 = (nextExpected .. seqNo - 1) \cup {seqNo}
        /\ seqNo \notin nextExpected .. seqNo - 1
    BY <1>1, <1>3 DEF Types, Threads, writer
  <2>6. NoneTwice'
    BY <2>1, <1>3 DEF NoneTwice, EachInOnePlace, Distinct, Busy, workers, writer
  <2> QED BY <2>1, <2>2, <2>3, <2>4, <2>5, <2>6 DEF EachInOnePlace, Apart
<1> QED BY <1>4, <1>5, <1>6 DEF PlacesInv

LEMMA PushTaskKeepsPlaces ==
  ASSUME PlacesInv, PushTask
  PROVE  PlacesInv'
<1>1. /\ Types /\ Threads /\ rpc = "push" /\ task \in CutChunks /\ task # None
      /\ file <= Len(files) /\ Len(files) \in Nat
  BY PipelineAssumption DEF PlacesInv, Types, Threads, PushTask
<1>2. /\ readQueue_' = Pushed(readQueue_, task)
      /\ task' = None
      /\ rpc' \in {"open", "read"}
      /\ rpc' = "read" => file' = file
      /\ file' \in {file, file + 1}
      /\ UNCHANGED <<files, readOffset, seqNo, writeQueue_, workers, writer>>
  BY DEF PushTask
<1>3. /\ readQueue_' \in QueuesOf(CutChunks)
      /\ readQueue_'.closed = readQueue_.closed
      /\ readQueue_.closed => readQueue_' = readQueue_
      /\ ~ readQueue_.closed => readQueue_'.items = Append(readQueue_.items, task)
  BY <1>1, <1>2, PushedQueue DEF Types
<1>4. Types'
  BY <1>1, <1>2, <1>3 DEF Types, workers, writer
<1>5. Threads'
  BY <1>1, <1>2, <1>3 DEF Types, Threads, workers, writer
<1>6. ASSUME Unfailed' PROVE ClosedByPushers' /\ EachInOnePlace'
  <2>1. Unfailed /\ ClosedByPushers /\ EachInOnePlace
    BY <1>2, <1>6 DEF PlacesInv, Unfailed, writer
  <2>2. ~ readQueue_.closed /\ wpc = "loop"
    BY <2>1, <1>1 DEF ClosedByPushers, Unfailed
  <2>3. ClosedByPushers'
    BY <2>1, <2>2, <1>2, <1>3 DEF ClosedByPushers, workers, writer
  <2>4. readQueue_.items \in Seq(CutChunks) /\ readQueue_'.items = Append(readQueue_.items, task)
    BY <1>1, <1>3, <2>2 DEF Types, QueuesOf
  <2>5. /\ ReadSeqs' = ReadSeqs \cup {task.seq}
        /\ Distinct(readQueue_.items) /\ task.seq \notin ReadSeqs => Distinct(readQueue_'.items)
    BY <2>4, <1>1, AppendedSeqs DEF ReadSeqs
  <2>6. TaskSeqs = {task.seq} /\ TaskSeqs' = {}
    BY <1>1, <1>2 DEF TaskSeqs
  <2>7. UNCHANGED <<WriteSeqs, ResultSeqs, StashSeqs>>
    BY <1>2 DEF WriteSeqs, ResultSeqs, StashSeqs, Busy, workers, writer
  <2>8. NoneTwice'
    BY <2>1, <2>5, <2>6, <1>2 DEF NoneTwice, EachInOnePlace, Apart, Busy, workers, writer
  <2> QED BY <2>1, <2>3, <2>5, <2>6, <2>7, <2>8, <1>2 DEF EachInOnePlace, Apart, writer
<1> QED BY <1>4, <1>5, <1>6 DEF PlacesInv

LEMMA ReaderKeepsPlaces ==
  ASSUME PlacesInv, Reader
  PROVE  PlacesInv'
<1>1. Types /\ Len(files) \in Nat /\ file \in Nat \ {0} /\ seqNo \in Nat
  BY PipelineAssumption DEF PlacesInv, Types
<1>2. CASE OpenFails
  <2>1. ErrorChunk(seqNo) \in Chunks /\ ErrorChunk(seqNo).seq = seqNo
    BY <1>1, NewChunks DEF ErrorChunk
  <2>2. /\ rpc = "open" /\ rpc' = "close" /\ file' = file /\ file <= Len(files)
        /\ writeQueue_' = Pushed(writeQueue_, ErrorChunk(seqNo)) /\ seqNo' = seqNo + 1
        /\ UNCHANGED <<files, readOffset, task, readQueue_, workers, writer>>
    BY <1>2 DEF OpenFails, AtFile
  <2> QED BY <1>1, <2>1, <2>2, BypassKeepsPlaces
<1>3. CASE EmptyFile
  <2> DEFINE c == Chunk(seqNo, Piece(file, 0, 0), TRUE, 0)
  <2>1. c \in Chunks /\ c.seq = seqNo
    <3>1. Piece(file, 0, 0) \in Pieces
      BY <1>1 DEF Piece, Pieces
    <3>2. c \in CutChunks
      BY <1>1, <3>1, NewChunks
    <3> QED BY <3>2 DEF Chunk, Chunks
  <2>2. /\ rpc = "open" /\ rpc' = "open" /\ file' = file + 1 /\ file <= Len(files)
        /\ writeQueue_' = Pushed(writeQueue_, c) /\ seqNo' = seqNo + 1
        /\ UNCHANGED <<files, readOffset, task, readQueue_, workers, writer>>
    BY <1>3 DEF EmptyFile, AtFile
  <2> HIDE DEF c
  <2> QED BY <1>1, <2>1, <2>2, BypassKeepsPlaces
<1> QED
  BY <1>2, <1>3, WalkKeepsPlaces, ReadBlockKeepsPlaces, PushTaskKeepsPlaces DEF Reader

-----------------------------------------------------------------------------
(***************************************************************************)
(* PlacesInv: the workers.                                                 *)
(***************************************************************************)

\* Encrypting a chunk and dying over it look the same to everyone but the worker.
Seen == <<files, reader, readQueue_, writeQueue_, result, ended, writer>>

LEMMA WorkerDoes ==
  ASSUME NEW w \in Workers, Worker(w)
  PROVE  \/ \E fails \in BOOLEAN : Takes(w, fails)
         \/ PushResult(w)
         \/ WorkerEnds(w)
         \/ UNCHANGED Seen
BY DEF Worker, Encrypt, DiesOverChunk, DiesAtStart, Seen

\* What is taken: the chunk itself, sound or marked as failed.
LEMMA Taken ==
  ASSUME Types, NEW w \in Workers, NEW error \in BOOLEAN, Takes(w, error)
  PROVE  /\ readQueue_.items \in Seq(CutChunks) /\ readQueue_.items # <<>>
         /\ Head(readQueue_.items) \in CutChunks
         /\ \E fails \in BOOLEAN :
              LET c == [Head(readQueue_.items) EXCEPT !.error = fails]
              IN  c \in CutChunks /\ result' = [result EXCEPT ![w] = c]
         /\ readQueue_' \in QueuesOf(CutChunks)
         /\ readQueue_'.closed = readQueue_.closed
         /\ readQueue_'.items = Tail(readQueue_.items)
<1>1. readQueue_ \in QueuesOf(CutChunks) /\ readQueue_.items # <<>>
  BY DEF Types, Takes
<1>2. /\ Head(readQueue_.items) \in CutChunks
      /\ readQueue_' \in QueuesOf(CutChunks)
      /\ readQueue_'.closed = readQueue_.closed
      /\ readQueue_'.items = Tail(readQueue_.items)
  BY <1>1, PoppedQueue DEF Takes
<1>3. PICK fails \in BOOLEAN :
        result' = [result EXCEPT ![w] = [Head(readQueue_.items) EXCEPT !.error = fails]]
  BY DEF Takes
<1>4. [Head(readQueue_.items) EXCEPT !.error = fails] \in CutChunks
  BY <1>2 DEF CutChunks
<1> QED BY <1>1, <1>2, <1>3, <1>4 DEF QueuesOf

LEMMA TakesKeepsPlaces ==
  ASSUME PlacesInv, NEW w \in Workers, NEW error \in BOOLEAN, Takes(w, error)
  PROVE  PlacesInv'
<1> DEFINE head == Head(readQueue_.items)
<1>1. Types /\ Threads /\ w \notin ended /\ result[w] = None
  BY DEF PlacesInv, Takes, Idle
<1>2. PICK fails \in BOOLEAN :
        LET c == [head EXCEPT !.error = fails]
        IN  c \in CutChunks /\ result' = [result EXCEPT ![w] = c]
  BY <1>1, Taken
<1> DEFINE c == [head EXCEPT !.error = fails]
<1>3. /\ readQueue_.items \in Seq(CutChunks) /\ readQueue_.items # <<>> /\ head \in CutChunks
      /\ readQueue_' \in QueuesOf(CutChunks)
      /\ readQueue_'.closed = readQueue_.closed
      /\ readQueue_'.items = Tail(readQueue_.items)
      /\ UNCHANGED <<files, reader, writeQueue_, ended, writer>>
  BY <1>1, Taken DEF Takes
<1>4. c \in CutChunks /\ c.seq = head.seq
  BY <1>2, <1>3 DEF CutChunks
<1>5. result' = [result EXCEPT ![w] = c]
  BY <1>2
<1> HIDE DEF head, c
<1>6. /\ result' \in [Workers -> CutChunks \cup {None}]
      /\ \A v \in Workers : result'[v] = IF v = w THEN c ELSE result[v]
      /\ Busy' = Busy \cup {w} /\ w \notin Busy
      /\ ResultSeqs' = ResultSeqs \cup {c.seq}
  BY <1>1, <1>4, <1>5, ResultTaken DEF Types
<1>7. Types'
  BY <1>1, <1>3, <1>6 DEF Types, reader, writer
<1>8. Threads'
  <2>1. ended = {}
    BY <1>1, <1>3 DEF Threads
  <2> QED BY <1>1, <1>3, <2>1 DEF Types, Threads, reader, writer
<1>9. ASSUME Unfailed' PROVE ClosedByPushers' /\ EachInOnePlace'
  <2>1. Unfailed /\ ClosedByPushers /\ EachInOnePlace
    BY <1>3, <1>9 DEF PlacesInv, Unfailed, writer
  <2>2. ClosedByPushers'
    BY <2>1, <1>3 DEF ClosedByPushers, reader, writer
  <2>3. /\ head.seq \in ReadSeqs /\ ReadSeqs' = ReadSeqs \ {head.seq}
        /\ Distinct(readQueue_'.items)
    BY <2>1, <1>3, TailSeqs DEF ReadSeqs, head, EachInOnePlace, NoneTwice
  <2>4. UNCHANGED <<WriteSeqs, StashSeqs, TaskSeqs>>
    BY <1>3 DEF WriteSeqs, StashSeqs, TaskSeqs, reader, writer
  <2>5. \A v \in Busy : result[v].seq # head.seq
    BY <2>1, <2>3 DEF EachInOnePlace, Apart, ResultSeqs
  <2>6. NoneTwice'
    BY <2>1, <2>3, <2>5, <1>3, <1>4, <1>6 DEF NoneTwice, EachInOnePlace, Busy, writer
  <2> QED BY <2>1, <2>2, <2>3, <2>4, <2>6, <1>3, <1>4, <1>6
          DEF EachInOnePlace, Apart, reader, writer
<1> QED BY <1>7, <1>8, <1>9 DEF PlacesInv

LEMMA PushResultKeepsPlaces ==
  ASSUME PlacesInv, NEW w \in Workers, PushResult(w)
  PROVE  PlacesInv'
<1> DEFINE c == result[w]
<1>1. Types /\ Threads /\ c \in CutChunks /\ c # None /\ c \in Chunks
  BY DEF PlacesInv, Types, PushResult, Chunks
<1>2. /\ writeQueue_' = Pushed(writeQueue_, c)
      /\ result' = [result EXCEPT ![w] = None]
      /\ UNCHANGED <<files, reader, readQueue_, ended, writer>>
  BY DEF PushResult
<1>3. /\ result' \in [Workers -> CutChunks \cup {None}]
      /\ \A v \in Workers : result'[v] = IF v = w THEN None ELSE result[v]
      /\ Busy' = Busy \ {w} /\ w \in Busy
      /\ c.seq \in ResultSeqs
      /\ ResultSeqs' \cup {c.seq} = ResultSeqs
  BY <1>1, <1>2, ResultGiven DEF Types
<1>4. /\ writeQueue_' \in QueuesOf(Chunks)
      /\ writeQueue_'.closed = writeQueue_.closed
      /\ ~ writeQueue_.closed => writeQueue_'.items = Append(writeQueue_.items, c)
  BY <1>1, <1>2, PushedQueue DEF Types
<1>5. Types'
  BY <1>1, <1>2, <1>3, <1>4 DEF Types, reader, writer
<1>6. Threads'
  BY <1>1, <1>2, <1>3 DEF Types, Threads, reader, writer
<1>7. ASSUME Unfailed' PROVE ClosedByPushers' /\ EachInOnePlace'
  <2>1. Unfailed /\ ClosedByPushers /\ EachInOnePlace
    BY <1>2, <1>7 DEF PlacesInv, Unfailed, writer
  <2>2. ~ writeQueue_.closed
    BY <2>1, <1>1 DEF ClosedByPushers, Threads
  <2>3. ClosedByPushers'
    BY <2>1, <1>2, <1>4 DEF ClosedByPushers, reader, writer
  <2>4. writeQueue_.items \in Seq(Chunks) /\ writeQueue_'.items = Append(writeQueue_.items, c)
    BY <1>1, <1>4, <2>2 DEF Types, QueuesOf
  <2>5. /\ WriteSeqs' = WriteSeqs \cup {c.seq}
        /\ Distinct(writeQueue_.items) /\ c.seq \notin WriteSeqs => Distinct(writeQueue_'.items)
    BY <2>4, <1>1, AppendedSeqs DEF WriteSeqs
  <2>6. UNCHANGED <<ReadSeqs, StashSeqs, TaskSeqs>>
    BY <1>2 DEF ReadSeqs, StashSeqs, TaskSeqs, reader, writer
  <2>7. ResultSeqs' = ResultSeqs \ {c.seq}
    <3>1. \A v \in Busy' : result'[v].seq # c.seq
      BY <2>1, <1>3 DEF EachInOnePlace, NoneTwice, Busy
    <3> QED BY <3>1, <1>3 DEF ResultSeqs
  <2>8. NoneTwice'
    BY <2>1, <2>5, <1>2, <1>3 DEF NoneTwice, EachInOnePlace, Apart, Busy, reader, writer
  <2> QED BY <2>1, <2>3, <2>5, <2>6, <2>7, <2>8, <1>2, <1>3
          DEF EachInOnePlace, Apart, reader, writer
<1> QED BY <1>5, <1>6, <1>7 DEF PlacesInv

LEMMA WorkerEndsKeepsPlaces ==
  ASSUME PlacesInv, NEW w \in Workers, WorkerEnds(w)
  PROVE  PlacesInv'
<1>1. Types /\ Threads
  BY DEF PlacesInv
<1>2. /\ ended' = ended \cup {w} /\ result[w] = None
      /\ readQueue_.closed /\ readQueue_.items = <<>>
      /\ UNCHANGED <<files, reader, readQueue_, result, writer>>
  BY DEF WorkerEnds, Idle
<1>3. /\ writeQueue_' \in QueuesOf(Chunks)
      /\ writeQueue_'.items = writeQueue_.items
      /\ writeQueue_'.closed => writeQueue_.closed \/ ended' = Workers
  BY <1>1, ClosedQueue DEF Types, WorkerEnds
<1>4. Types'
  BY <1>1, <1>2, <1>3 DEF Types, reader, writer
<1>5. Threads'
  BY <1>1, <1>2 DEF Types, Threads, reader, writer
<1>6. ASSUME Unfailed' PROVE ClosedByPushers' /\ EachInOnePlace'
  <2>1. Unfailed /\ ClosedByPushers /\ EachInOnePlace
    BY <1>2, <1>6 DEF PlacesInv, Unfailed, writer
  <2>2. ClosedByPushers'
    BY <2>1, <1>1, <1>2, <1>3 DEF Types, ClosedByPushers, reader, writer
  <2> QED BY <2>1, <2>2, <1>2, <1>3, NothingMoved DEF reader, writer
<1> QED BY <1>4, <1>5, <1>6 DEF PlacesInv

-----------------------------------------------------------------------------
(***************************************************************************)
(* PlacesInv: the writer.                                                  *)
(***************************************************************************)

\* What processChunk leaves behind: the chunk written, or a failure.
LEMMA Processed ==
  ASSUME Types, NEW c \in Chunks, Process(c)
  PROVE  /\ fileStart' \in Nat \cup {None}
         /\ medium' \in Seq(Pieces)
         /\ \/ /\ ~ c.error /\ c \in CutChunks /\ Write(c)
               /\ nextExpected' = nextExpected + 1 /\ wpc' = "loop"
            \/ /\ wpc' = "failed"
               /\ UNCHANGED <<nextExpected, fileStart, medium, table>>
<1>1. CASE /\ ~ c.error /\ Write(c)
           /\ nextExpected' = nextExpected + 1 /\ wpc' = "loop"
  <2>1. c \in CutChunks /\ c.piece \in Pieces
    BY <1>1 DEF Chunks, CutChunks, ErrorChunks
  <2>2. medium' \in Seq(Pieces)
    BY <1>1, <2>1 DEF Write, Types
  <2>3. fileStart' \in Nat \cup {None}
    BY <1>1 DEF Write, Types
  <2> QED BY <1>1, <2>1, <2>2, <2>3
<1>2. CASE wpc' = "failed" /\ UNCHANGED <<nextExpected, fileStart, medium, table>>
  BY <1>2 DEF Types
<1> QED BY <1>1, <1>2 DEF Process

LEMMA ProcessNextKeepsPlaces ==
  ASSUME PlacesInv, ProcessNext
  PROVE  PlacesInv'
<1> DEFINE head == Head(writeQueue_.items)
<1>1. /\ Types /\ Threads /\ wpc = "loop"
      /\ writeQueue_ \in QueuesOf(Chunks) /\ writeQueue_.items # <<>>
      /\ writeQueue_.items \in Seq(Chunks)
      /\ head.seq = nextExpected /\ Process(head)
      /\ writeQueue_' = Popped(writeQueue_)
      /\ UNCHANGED <<files, reader, readQueue_, workers, reorderBuf>>
  BY DEF PlacesInv, Types, ProcessNext, QueuesOf
<1>2. /\ writeQueue_' \in QueuesOf(Chunks) /\ head \in Chunks
      /\ writeQueue_'.closed = writeQueue_.closed
      /\ writeQueue_'.items = Tail(writeQueue_.items)
  BY <1>1, PoppedQueue
<1> HIDE DEF head
<1>3. /\ fileStart' \in Nat \cup {None}
      /\ medium' \in Seq(Pieces)
      /\ \/ nextExpected' = nextExpected + 1 /\ wpc' = "loop"
         \/ nextExpected' = nextExpected /\ wpc' = "failed"
  BY <1>1, <1>2, Processed
<1>4. Types'
  BY <1>1, <1>2, <1>3 DEF Types, reader, workers
<1>5. nextExpected' <= seqNo' /\ (wpc' = "loop" => nextExpected < seqNo)
  <2>1. CASE wpc' = "failed"
    BY <1>1, <1>3, <2>1 DEF Threads, reader
  <2>2. CASE wpc' = "loop"
    <3>1. EachInOnePlace /\ head.seq \in WriteSeqs
      BY <1>1, TailSeqs DEF PlacesInv, Unfailed, WriteSeqs, head
    <3>2. nextExpected \in nextExpected .. seqNo - 1
      BY <1>1, <3>1 DEF EachInOnePlace
    <3> QED BY <1>1, <1>3, <2>2, <3>2 DEF Types, reader
  <2> QED BY <1>3, <2>1, <2>2
<1>6. Threads'
  BY <1>1, <1>5 DEF Threads, reader, workers
<1>7. ASSUME Unfailed' PROVE ClosedByPushers' /\ EachInOnePlace'
  <2>1. Unfailed /\ ClosedByPushers /\ EachInOnePlace /\ wpc' = "loop"
    BY <1>1, <1>3, <1>7 DEF PlacesInv, Unfailed
  <2>2. ClosedByPushers'
    BY <2>1, <1>1, <1>2 DEF ClosedByPushers, reader, workers
  <2>3. /\ nextExpected \in WriteSeqs
        /\ WriteSeqs' = WriteSeqs \ {nextExpected}
        /\ Distinct(writeQueue_'.items)
    BY <2>1, <1>1, <1>2, TailSeqs DEF WriteSeqs, EachInOnePlace, NoneTwice, head
  <2>4. UNCHANGED <<ReadSeqs, ResultSeqs, StashSeqs, TaskSeqs>>
    BY <1>1 DEF ReadSeqs, ResultSeqs, StashSeqs, TaskSeqs, Busy, reader, workers
  <2>5. nextExpected' .. seqNo' - 1 = (nextExpected .. seqNo - 1) \ {nextExpected}
    BY <2>1, <1>1, <1>3 DEF Types, reader
  <2>6. NoneTwice'
    BY <2>1, <2>3, <1>1 DEF NoneTwice, EachInOnePlace, Busy, reader, workers
  <2> QED BY <2>1, <2>2, <2>3, <2>4, <2>5, <2>6 DEF EachInOnePlace, Apart
<1> QED BY <1>4, <1>6, <1>7 DEF PlacesInv

LEMMA StashEarlyKeepsPlaces ==
  ASSUME PlacesInv, StashEarly
  PROVE  PlacesInv'
<1> DEFINE head == Head(writeQueue_.items)
<1>1. /\ Types /\ Threads /\ wpc = "loop"
      /\ writeQueue_ \in QueuesOf(Chunks) /\ writeQueue_.items # <<>>
      /\ writeQueue_.items \in Seq(Chunks)
      /\ reorderBuf' = reorderBuf \cup {head}
      /\ writeQueue_' = Popped(writeQueue_)
      /\ UNCHANGED <<files, reader, readQueue_, workers, wpc, nextExpected, fileStart, medium,
                     table>>
  BY DEF PlacesInv, Types, StashEarly, QueuesOf
<1>2. /\ writeQueue_' \in QueuesOf(Chunks) /\ head \in Chunks
      /\ writeQueue_'.closed = writeQueue_.closed
      /\ writeQueue_'.items = Tail(writeQueue_.items)
  BY <1>1, PoppedQueue
<1>3. IsFiniteSet(reorderBuf')
  BY <1>1, FS_AddElement DEF Types
<1> HIDE DEF head
<1>4. Types'
  BY <1>1, <1>2, <1>3 DEF Types, reader, workers
<1>5. Threads'
  BY <1>1 DEF Threads, reader, workers
<1>6. Unfailed /\ ClosedByPushers /\ EachInOnePlace
  BY <1>1 DEF PlacesInv, Unfailed
<1>7. ClosedByPushers'
  BY <1>1, <1>2, <1>6 DEF ClosedByPushers, reader, workers
<1>8. /\ head.seq \in WriteSeqs
      /\ WriteSeqs' = WriteSeqs \ {head.seq}
      /\ Distinct(writeQueue_'.items)
  BY <1>1, <1>2, <1>6, TailSeqs DEF WriteSeqs, EachInOnePlace, NoneTwice, head
<1>9. StashSeqs' = StashSeqs \cup {head.seq}
  BY <1>1 DEF StashSeqs
<1>10. UNCHANGED <<ReadSeqs, ResultSeqs, TaskSeqs>>
  BY <1>1 DEF ReadSeqs, ResultSeqs, TaskSeqs, Busy, reader, workers
<1>11. \A c \in reorderBuf : c.seq # head.seq
  BY <1>6, <1>8 DEF EachInOnePlace, Apart, StashSeqs
<1>12. NoneTwice'
  BY <1>1, <1>6, <1>8, <1>11 DEF NoneTwice, EachInOnePlace, Busy, reader, workers
<1>13. EachInOnePlace'
  BY <1>1, <1>6, <1>8, <1>9, <1>10, <1>12 DEF EachInOnePlace, Apart, reader
<1> QED BY <1>4, <1>5, <1>7, <1>13 DEF PlacesInv

LEMMA ProcessStashedKeepsPlaces ==
  ASSUME PlacesInv, ProcessStashed
  PROVE  PlacesInv'
<1>1. Types /\ Threads /\ wpc = "loop"
  BY DEF PlacesInv, ProcessStashed
<1>2. PICK c \in Due : Process(c) /\ reorderBuf' = reorderBuf \ {c}
  BY DEF ProcessStashed
<1>3. /\ c \in reorderBuf /\ c \in Chunks /\ c.seq = nextExpected
      /\ UNCHANGED <<files, reader, readQueue_, writeQueue_, workers>>
  BY <1>1, <1>2 DEF Due, Types, ProcessStashed
<1>4. /\ fileStart' \in Nat \cup {None}
      /\ medium' \in Seq(Pieces)
      /\ \/ nextExpected' = nextExpected + 1 /\ wpc' = "loop"
         \/ nextExpected' = nextExpected /\ wpc' = "failed"
  BY <1>1, <1>2, <1>3, Processed
<1>5. IsFiniteSet(reorderBuf')
  BY <1>1, <1>2, FS_RemoveElement DEF Types
<1>6. Types'
  BY <1>1, <1>2, <1>3, <1>4, <1>5 DEF Types, reader, workers
<1>7. nextExpected' <= seqNo' /\ (wpc' = "loop" => nextExpected < seqNo)
  <2>1. CASE wpc' = "failed"
    BY <1>1, <1>3, <1>4, <2>1 DEF Threads, reader
  <2>2. CASE wpc' = "loop"
    <3>1. EachInOnePlace /\ nextExpected \in StashSeqs
      BY <1>1, <1>3 DEF PlacesInv, Unfailed, StashSeqs
    <3>2. nextExpected \in nextExpected .. seqNo - 1
      BY <3>1 DEF EachInOnePlace
    <3> QED BY <1>1, <1>3, <1>4, <2>2, <3>2 DEF Types, reader
  <2> QED BY <1>4, <2>1, <2>2
<1>8. Threads'
  BY <1>1, <1>3, <1>7 DEF Threads, reader, workers
<1>9. ASSUME Unfailed' PROVE ClosedByPushers' /\ EachInOnePlace'
  <2>1. Unfailed /\ ClosedByPushers /\ EachInOnePlace /\ wpc' = "loop"
    BY <1>1, <1>4, <1>9 DEF PlacesInv, Unfailed
  <2>2. ClosedByPushers'
    BY <2>1, <1>1, <1>3 DEF ClosedByPushers, reader, workers
  <2>3. nextExpected \in StashSeqs /\ StashSeqs' = StashSeqs \ {nextExpected}
    BY <2>1, <1>2, <1>3 DEF StashSeqs, EachInOnePlace, NoneTwice
  <2>4. UNCHANGED <<ReadSeqs, WriteSeqs, ResultSeqs, TaskSeqs>>
    BY <1>3 DEF ReadSeqs, WriteSeqs, ResultSeqs, TaskSeqs, Busy, reader, workers
  <2>5. nextExpected' .. seqNo' - 1 = (nextExpected .. seqNo - 1) \ {nextExpected}
    BY <2>1, <1>1, <1>3, <1>4 DEF Types, reader
  <2>6. NoneTwice'
    BY <2>1, <1>2, <1>3 DEF NoneTwice, EachInOnePlace, Busy, reader, workers
  <2> QED BY <2>1, <2>2, <2>3, <2>4, <2>5, <2>6 DEF EachInOnePlace, Apart
<1> QED BY <1>6, <1>8, <1>9 DEF PlacesInv

\* When the loop ends every thread has ended before it, so nothing is under way
\* but what the writer holds, and of that nothing is due.
LEMMA LoopEndsKeepsPlaces ==
  ASSUME PlacesInv, LoopEnds
  PROVE  PlacesInv'
<1>1. /\ Types /\ Threads /\ wpc = "loop" /\ wpc' = "wait" /\ Due = {}
      /\ writeQueue_.closed /\ writeQueue_.items = <<>>
      /\ UNCHANGED <<files, reader, readQueue_, writeQueue_, workers, nextExpected, reorderBuf,
                     fileStart, medium, table>>
  BY DEF PlacesInv, LoopEnds
<1>2. Types'
  BY <1>1 DEF Types, reader, workers
<1>3. Threads'
  BY <1>1 DEF Threads, reader, workers
<1>4. ClosedByPushers /\ EachInOnePlace
  BY <1>1 DEF PlacesInv, Unfailed
<1>5. ended = Workers /\ readQueue_.closed /\ readQueue_.items = <<>> /\ rpc = "end" /\ task = None
  BY <1>1, <1>4, PipelineAssumption DEF ClosedByPushers, Threads
<1>6. ReadSeqs = {} /\ WriteSeqs = {} /\ ResultSeqs = {} /\ TaskSeqs = {}
  BY <1>1, <1>5 DEF ReadSeqs, WriteSeqs, SeqsOf, ResultSeqs, TaskSeqs, Busy, Threads
<1>7. nextExpected \notin StashSeqs
  BY <1>1 DEF Due, StashSeqs
<1>8. nextExpected = seqNo
  <2>1. nextExpected \notin nextExpected .. seqNo - 1
    BY <1>4, <1>6, <1>7 DEF EachInOnePlace
  <2> QED BY <1>1, <2>1 DEF Types, Threads
<1>9. ClosedByPushers'
  BY <1>1, <1>4, <1>5, <1>8 DEF ClosedByPushers, reader, workers
<1>10. EachInOnePlace'
  BY <1>1, <1>4, NothingMoved DEF reader, workers
<1> QED BY <1>2, <1>3, <1>9, <1>10 DEF PlacesInv

LEMMA EndingKeepsPlaces ==
  ASSUME PlacesInv, CloseReadQueue \/ CloseWriteQueue \/ RunEnds
  PROVE  PlacesInv'
<1>1. Types /\ Threads
  BY DEF PlacesInv
<1>2. /\ readQueue_' \in QueuesOf(CutChunks) /\ writeQueue_' \in QueuesOf(Chunks)
      /\ readQueue_'.items = readQueue_.items /\ writeQueue_'.items = writeQueue_.items
      /\ readQueue_.closed => readQueue_'.closed
      /\ UNCHANGED <<files, reader, workers, nextExpected, reorderBuf, fileStart, medium, table>>
      /\ wpc' \in {"close", "drain", "returned", "threw"}
  BY <1>1, ClosedQueue DEF Types, CloseReadQueue, CloseWriteQueue, RunEnds
<1>3. Types'
  BY <1>1, <1>2 DEF Types, reader, workers
<1>4. Threads'
  BY <1>1, <1>2 DEF Threads, reader, workers
<1>5. ASSUME Unfailed' PROVE ClosedByPushers' /\ EachInOnePlace'
  <2>1. RunEnds /\ wpc = "wait"
    BY <1>5 DEF Unfailed, CloseReadQueue, CloseWriteQueue, RunEnds
  <2>2. Unfailed /\ ClosedByPushers /\ EachInOnePlace
    BY <2>1 DEF PlacesInv, Unfailed
  <2>3. ClosedByPushers'
    BY <2>1, <2>2 DEF ClosedByPushers, RunEnds, reader, workers
  <2> QED BY <1>2, <2>2, <2>3, NothingMoved DEF reader, workers
<1> QED BY <1>3, <1>4, <1>5 DEF PlacesInv

-----------------------------------------------------------------------------
(***************************************************************************)
(* PlacesInv holds from the start and in every step.                       *)
(***************************************************************************)
LEMMA InitPlaces == Init => PlacesInv
<1> SUFFICES ASSUME Init PROVE PlacesInv
  OBVIOUS
<1>1. files \in Seq(Input) /\ files \in FileLists
  BY PipelineAssumption DEF Init
<1>2. Types
  BY <1>1, FS_EmptySet DEF Init, Types, QueuesOf, EmptyQueue
<1>3. Threads
  BY <1>1 DEF Init, Threads, EmptyQueue
<1>4. ClosedByPushers
  BY DEF Init, ClosedByPushers, EmptyQueue
<1>5. EachInOnePlace
  BY DEF Init, EachInOnePlace, NoneTwice, Distinct, Apart, ReadSeqs, WriteSeqs, ResultSeqs,
         StashSeqs, TaskSeqs, SeqsOf, Busy, EmptyQueue
<1> QED BY <1>2, <1>3, <1>4, <1>5 DEF PlacesInv

LEMMA StutterKeepsPlaces ==
  ASSUME PlacesInv, UNCHANGED Seen
  PROVE  PlacesInv'
<1>1. Types' /\ Threads'
  BY DEF PlacesInv, Types, Threads, Seen, reader, writer
<1>2. EachInOnePlace' <=> EachInOnePlace
  BY NothingMoved DEF Seen, reader, writer
<1>3. (Unfailed' <=> Unfailed) /\ (ClosedByPushers' <=> ClosedByPushers)
  BY DEF Unfailed, ClosedByPushers, Seen, reader, writer
<1> QED BY <1>1, <1>2, <1>3 DEF PlacesInv

LEMMA NextKeepsPlaces == PlacesInv /\ [Next]_vars => PlacesInv'
<1> SUFFICES ASSUME PlacesInv, [Next]_vars PROVE PlacesInv'
  OBVIOUS
<1>1. CASE Reader
  BY <1>1, ReaderKeepsPlaces
<1>2. ASSUME NEW w \in Workers, Worker(w) PROVE PlacesInv'
  BY <1>2, WorkerDoes, TakesKeepsPlaces, PushResultKeepsPlaces, WorkerEndsKeepsPlaces,
     StutterKeepsPlaces
<1>3. CASE Writer
  BY <1>3, ProcessNextKeepsPlaces, StashEarlyKeepsPlaces, ProcessStashedKeepsPlaces,
     LoopEndsKeepsPlaces, EndingKeepsPlaces DEF Writer
<1>4. CASE UNCHANGED vars
  BY <1>4, StutterKeepsPlaces DEF vars, workers, Seen
<1> QED BY <1>1, <1>2, <1>3, <1>4 DEF Next, Finished

\* In every reachable state of run() the threads, the closed flags and both queues agree, and
\* until the writer fails every chunk number given out is in exactly one place.
THEOREM PlacesInvariant == Spec => []PlacesInv
BY InitPlaces, NextKeepsPlaces, PTL DEF Spec

-----------------------------------------------------------------------------
(***************************************************************************)
(* NoChunkLost: counting the places.                                       *)
(***************************************************************************)

\* A set and the values a one-to-one function takes on it.
LEMMA SameCount ==
  ASSUME NEW S, IsFiniteSet(S), NEW f, f = [x \in S |-> f[x]],
         \A x, y \in S : f[x] = f[y] => x = y
  PROVE  LET T == {f[x] : x \in S}
         IN  IsFiniteSet(T) /\ Cardinality(T) = Cardinality(S)
<1> DEFINE T == {f[x] : x \in S}
<1>1. f \in [S -> T]
  OBVIOUS
<1>2. f \in Injection(S, T)
  BY <1>1 DEF Injection, IsInjective
<1>3. f \in Surjection(S, T)
  BY <1>1 DEF Surjection
<1>4. ExistsBijection(S, T)
  BY <1>2, <1>3 DEF ExistsBijection, Bijection
<1> HIDE DEF T
<1>5. IsFiniteSet(T) /\ Cardinality(T) = Cardinality(S)
  BY <1>4, FS_Bijection
<1> QED BY <1>5 DEF T

LEMMA QueueCount ==
  ASSUME NEW s, Len(s) \in Nat, Distinct(s)
  PROVE  IsFiniteSet(SeqsOf(s)) /\ Cardinality(SeqsOf(s)) = Len(s)
<1> DEFINE S == 1 .. Len(s)
           f == [i \in S |-> s[i].seq]
<1>1. IsFiniteSet(S) /\ Cardinality(S) = Len(s)
  <2>1. \A n \in Nat : IsFiniteSet(1 .. n) /\ Cardinality(1 .. n) = IF 1 > n THEN 0 ELSE n - 1 + 1
    BY FS_Interval
  <2> QED BY <2>1
<1>2. \A i, j \in S : f[i] = f[j] => i = j
  BY DEF Distinct
<1>3. SeqsOf(s) = {f[i] : i \in S}
  BY DEF SeqsOf
<1> HIDE DEF S
<1>4. f = [i \in S |-> f[i]]
  OBVIOUS
<1> HIDE DEF f
<1>5. LET T == {f[x] : x \in S} IN IsFiniteSet(T) /\ Cardinality(T) = Cardinality(S)
  BY <1>1, <1>2, <1>4, SameCount
<1> QED BY <1>1, <1>3, <1>5

LEMMA DisjointCount ==
  ASSUME NEW S, NEW T, IsFiniteSet(S), IsFiniteSet(T), S \cap T = {}
  PROVE  IsFiniteSet(S \cup T) /\ Cardinality(S \cup T) = Cardinality(S) + Cardinality(T)
BY FS_Union, FS_EmptySet, FS_CardinalityType

\* As many chunks in the workers' hands and in the reorder buffer as numbers.
LEMMA HeldCount ==
  ASSUME Types, NoneTwice
  PROVE  /\ IsFiniteSet(ResultSeqs) /\ Cardinality(ResultSeqs) = Cardinality(Busy)
         /\ IsFiniteSet(StashSeqs) /\ Cardinality(StashSeqs) = Cardinality(reorderBuf)
<1> DEFINE f == [w \in Busy |-> result[w].seq]
           g == [c \in reorderBuf |-> c.seq]
<1>1. IsFiniteSet(Busy)
  BY PipelineAssumption, FS_Subset DEF Busy
<1>2. /\ f = [w \in Busy |-> f[w]]
      /\ \A v, w \in Busy : f[v] = f[w] => v = w
      /\ ResultSeqs = {f[w] : w \in Busy}
  BY DEF NoneTwice, ResultSeqs
<1>3. /\ g = [c \in reorderBuf |-> g[c]]
      /\ \A c, d \in reorderBuf : g[c] = g[d] => c = d
      /\ StashSeqs = {g[c] : c \in reorderBuf}
  BY DEF NoneTwice, StashSeqs
<1> HIDE DEF f, g
<1>4. LET T == {f[w] : w \in Busy} IN IsFiniteSet(T) /\ Cardinality(T) = Cardinality(Busy)
  BY <1>1, <1>2, SameCount
<1>5. LET T == {g[c] : c \in reorderBuf}
      IN  IsFiniteSet(T) /\ Cardinality(T) = Cardinality(reorderBuf)
  BY <1>3, SameCount DEF Types
<1> QED BY <1>2, <1>3, <1>4, <1>5

LEMMA SeqsUnderWay ==
  {c.seq : c \in ChunksUnderWay}
    = ReadSeqs \cup WriteSeqs \cup ResultSeqs \cup StashSeqs \cup TaskSeqs
BY DEF ChunksUnderWay, ReadSeqs, WriteSeqs, ResultSeqs, StashSeqs, TaskSeqs, SeqsOf

LEMMA PlacesCount ==
  ASSUME Types, Threads, EachInOnePlace
  PROVE  PlacesTaken = seqNo - nextExpected
<1>1. /\ Len(readQueue_.items) \in Nat /\ Len(writeQueue_.items) \in Nat
      /\ nextExpected \in Nat /\ seqNo \in Nat /\ nextExpected <= seqNo
  BY DEF Types, QueuesOf, Threads
<1>2. /\ IsFiniteSet(ReadSeqs) /\ Cardinality(ReadSeqs) = Len(readQueue_.items)
      /\ IsFiniteSet(WriteSeqs) /\ Cardinality(WriteSeqs) = Len(writeQueue_.items)
  BY <1>1, QueueCount DEF EachInOnePlace, NoneTwice, ReadSeqs, WriteSeqs
<1>3. /\ IsFiniteSet(ResultSeqs) /\ Cardinality(ResultSeqs) = Cardinality(Busy)
      /\ IsFiniteSet(StashSeqs) /\ Cardinality(StashSeqs) = Cardinality(reorderBuf)
  BY HeldCount DEF EachInOnePlace
<1>4. IsFiniteSet(TaskSeqs) /\ Cardinality(TaskSeqs) = IF task = None THEN 0 ELSE 1
  BY FS_EmptySet, FS_Singleton DEF TaskSeqs
<1>5. Apart(ReadSeqs, WriteSeqs, ResultSeqs, StashSeqs, TaskSeqs)
  BY DEF EachInOnePlace
<1> DEFINE A == ReadSeqs \cup WriteSeqs
           B == A \cup ResultSeqs
           C == B \cup StashSeqs
           D == C \cup TaskSeqs
<1>6. IsFiniteSet(A) /\ Cardinality(A) = Cardinality(ReadSeqs) + Cardinality(WriteSeqs)
  BY <1>2, <1>5, DisjointCount DEF Apart
<1>7. IsFiniteSet(B) /\ Cardinality(B) = Cardinality(A) + Cardinality(ResultSeqs)
  <2>1. A \cap ResultSeqs = {}
    BY <1>5 DEF Apart
  <2> HIDE DEF A
  <2> QED BY <1>3, <1>6, <2>1, DisjointCount
<1>8. IsFiniteSet(C) /\ Cardinality(C) = Cardinality(B) + Cardinality(StashSeqs)
  <2>1. B \cap StashSeqs = {}
    BY <1>5 DEF Apart
  <2> HIDE DEF B
  <2> QED BY <1>3, <1>7, <2>1, DisjointCount
<1>9. IsFiniteSet(D) /\ Cardinality(D) = Cardinality(C) + Cardinality(TaskSeqs)
  <2>1. C \cap TaskSeqs = {}
    BY <1>5 DEF Apart
  <2> HIDE DEF C
  <2> QED BY <1>4, <1>8, <2>1, DisjointCount
<1>10. D = nextExpected .. seqNo - 1
  BY DEF EachInOnePlace
<1>11. Cardinality(nextExpected .. seqNo - 1) = seqNo - nextExpected
  <2>1. nextExpected \in Int /\ seqNo - 1 \in Int
    BY <1>1
  <2>2. Cardinality(nextExpected .. seqNo - 1)
          = IF nextExpected > seqNo - 1 THEN 0 ELSE seqNo - 1 - nextExpected + 1
    BY <2>1, FS_Interval
  <2> QED BY <1>1, <2>2
<1> HIDE DEF A, B, C, D
<1>12. Cardinality(D) = Cardinality(ReadSeqs) + Cardinality(WriteSeqs) + Cardinality(ResultSeqs)
                         + Cardinality(StashSeqs) + Cardinality(TaskSeqs)
  BY <1>6, <1>7, <1>8, <1>9
<1> QED BY <1>2, <1>3, <1>4, <1>10, <1>11, <1>12 DEF PlacesTaken

\* Until the writer fails, every chunk cut and not yet written is in exactly one
\* place, whatever the order in which the threads push, pop and end, and
\* whichever queue is full.
THEOREM ChunksStayUnderWay == Spec => []NoChunkLost
<1>1. PlacesInv => NoChunkLost
  BY SeqsUnderWay, PlacesCount DEF PlacesInv, Unfailed, EachInOnePlace, NoChunkLost
<1> QED BY <1>1, PlacesInvariant, PTL

-----------------------------------------------------------------------------
(***************************************************************************)
(* What a step does to the chunks under way, wherever they are: the reader *)
(* adds one, the writer takes one away, and all else leaves them what they *)
(* are, but for the error flag.                                            *)
(***************************************************************************)
ItemsOf(s) == {s[i] : i \in 1 .. Len(s)}
Tasks == IF task = None THEN {} ELSE {task}
Results == {result[w] : w \in Busy}

Like(c, d) == c.seq = d.seq /\ c.piece = d.piece /\ c.last = d.last /\ c.total = d.total

Kept == \A c \in ChunksUnderWay' : \E d \in ChunksUnderWay : Like(c, d)

LEMMA AppendedItems ==
  ASSUME NEW S, NEW s \in Seq(S), NEW c \in S
  PROVE  ItemsOf(Append(s, c)) = ItemsOf(s) \cup {c}
<1> DEFINE t == Append(s, c)
<1>1. /\ 1 .. Len(t) = 1 .. Len(s) \cup {Len(s) + 1}
      /\ \A i \in 1 .. Len(s) : t[i] = s[i]
      /\ t[Len(s) + 1] = c
  OBVIOUS
<1> HIDE DEF t
<1>2. ItemsOf(t) = ItemsOf(s) \cup {c}
  BY <1>1 DEF ItemsOf
<1> QED BY <1>2 DEF t

LEMMA TailItems ==
  ASSUME NEW S, NEW s \in Seq(S), s # <<>>
  PROVE  /\ ItemsOf(Tail(s)) \subseteq ItemsOf(s)
         /\ Head(s) \in ItemsOf(s)
<1> DEFINE t == Tail(s)
<1>1. /\ Len(s) \in Nat \ {0} /\ Len(t) = Len(s) - 1 /\ Head(s) = s[1]
      /\ \A i \in 1 .. Len(t) : t[i] = s[i + 1] /\ i + 1 \in 1 .. Len(s)
  OBVIOUS
<1> HIDE DEF t
<1>2. ItemsOf(t) \subseteq ItemsOf(s) /\ Head(s) \in ItemsOf(s)
  BY <1>1 DEF ItemsOf
<1> QED BY <1>2 DEF t

LEMMA PushedItems ==
  ASSUME NEW S, NEW q \in QueuesOf(S), NEW c \in S
  PROVE  ItemsOf(Pushed(q, c).items) \subseteq ItemsOf(q.items) \cup {c}
<1>1. q.items \in Seq(S)
  BY DEF QueuesOf
<1>2. Pushed(q, c).items = q.items \/ Pushed(q, c).items = Append(q.items, c)
  BY PushedQueue
<1>3. ItemsOf(Append(q.items, c)) = ItemsOf(q.items) \cup {c}
  BY <1>1, AppendedItems
<1> QED BY <1>2, <1>3

LEMMA PoppedItems ==
  ASSUME NEW S, NEW q \in QueuesOf(S), q.items # <<>>
  PROVE  /\ ItemsOf(Popped(q).items) \subseteq ItemsOf(q.items)
         /\ Head(q.items) \in ItemsOf(q.items)
<1>1. q.items \in Seq(S)
  BY DEF QueuesOf
<1> QED BY <1>1, PoppedQueue, TailItems

Everywhere ==
  ItemsOf(readQueue_.items) \cup ItemsOf(writeQueue_.items) \cup Results \cup reorderBuf
    \cup Tasks

LEMMA UnderWay == ChunksUnderWay = Everywhere /\ ChunksUnderWay' = Everywhere'
BY DEF ChunksUnderWay, Everywhere, ItemsOf, Results, Tasks

LEMMA ChunksTyped ==
  ASSUME Types
  PROVE  ChunksUnderWay \subseteq Chunks
BY DEF Types, QueuesOf, ChunksUnderWay, Busy, Chunks

\* Numbers of chunks under way.
LEMMA SeqsInRange ==
  ASSUME PlacesInv, Unfailed, NEW c \in ChunksUnderWay
  PROVE  c.seq \in nextExpected .. seqNo - 1
BY SeqsUnderWay DEF PlacesInv, EachInOnePlace

LEMMA SubsetKept ==
  ASSUME ChunksUnderWay' \subseteq ChunksUnderWay
  PROVE  Kept
BY DEF Kept, Like

LEMMA ReaderWalks ==
  ASSUME Types, OpenFile \/ EndOfInput \/ ReadThrows \/ ReaderEnds
  PROVE  Kept /\ UNCHANGED <<files, seqNo, task, writer>>
<1>1. UNCHANGED <<files, seqNo, task, writeQueue_, workers, writer>>
  BY DEF OpenFile, EndOfInput, ReadThrows, ReaderEnds
<1>2. readQueue_'.items = readQueue_.items
  BY ClosedQueue DEF Types, OpenFile, EndOfInput, ReadThrows, ReaderEnds
<1>3. ChunksUnderWay' \subseteq ChunksUnderWay
  BY <1>1, <1>2 DEF ChunksUnderWay, Busy, workers, writer
<1> QED BY <1>1, <1>3, SubsetKept

LEMMA TaskMoves ==
  ASSUME Types, Threads, PushTask
  PROVE  Kept /\ UNCHANGED <<files, seqNo, writer>>
<1>1. task \in CutChunks /\ readQueue_ \in QueuesOf(CutChunks) /\ task # None
  BY DEF Types, Threads, PushTask
<1>2. /\ readQueue_' = Pushed(readQueue_, task) /\ task' = None
      /\ UNCHANGED <<files, seqNo, writeQueue_, workers, writer>>
  BY DEF PushTask
<1>3. ItemsOf(readQueue_'.items) \subseteq ItemsOf(readQueue_.items) \cup {task}
  BY <1>1, <1>2, PushedItems
<1>4. Tasks = {task} /\ Tasks' = {}
  BY <1>1, <1>2 DEF Tasks
<1>5. UNCHANGED <<ItemsOf(writeQueue_.items), Results, reorderBuf>>
  BY <1>2 DEF ItemsOf, Results, Busy, workers, writer
<1>6. ChunksUnderWay' \subseteq ChunksUnderWay
  BY <1>3, <1>4, <1>5, UnderWay DEF Everywhere
<1> QED BY <1>2, <1>6, SubsetKept

LEMMA WorkersMove ==
  ASSUME Types, NEW w \in Workers, Worker(w)
  PROVE  Kept /\ UNCHANGED <<files, reader, writer>>
<1>1. UNCHANGED <<files, reader, writer>>
  BY WorkerDoes DEF Takes, PushResult, WorkerEnds, Seen
<1>2. UNCHANGED <<Tasks, reorderBuf>>
  BY <1>1 DEF Tasks, reader, writer
<1>3. ASSUME NEW error \in BOOLEAN, Takes(w, error) PROVE Kept
  <2> DEFINE head == Head(readQueue_.items)
  <2>1. PICK fails \in BOOLEAN :
          LET c == [head EXCEPT !.error = fails]
          IN  c \in CutChunks /\ result' = [result EXCEPT ![w] = c]
    BY <1>3, Taken
  <2> DEFINE c == [head EXCEPT !.error = fails]
  <2>2. head \in CutChunks /\ c \in CutChunks /\ Like(c, head)
    BY <1>3, <2>1, Taken DEF CutChunks, Like
  <2>3. result' = [result EXCEPT ![w] = c]
    BY <2>1
  <2>4. /\ ItemsOf(readQueue_'.items) \subseteq ItemsOf(readQueue_.items)
        /\ head \in ItemsOf(readQueue_.items)
    BY <1>3, PoppedItems DEF Types, Takes
  <2> HIDE DEF c, head
  <2>5. Results' \subseteq Results \cup {c}
    BY <1>3, <2>2, <2>3, ResultTaken DEF Types, Takes, Idle, Results, Busy
  <2>6. UNCHANGED ItemsOf(writeQueue_.items)
    BY <1>3 DEF Takes
  <2>7. ChunksUnderWay' \subseteq ChunksUnderWay \cup {c} /\ head \in ChunksUnderWay
    BY <1>2, <2>4, <2>5, <2>6, UnderWay DEF Everywhere
  <2>8. \A d : Like(d, d)
    BY DEF Like
  <2> QED BY <1>1, <2>2, <2>7, <2>8 DEF Kept
<1>4. CASE PushResult(w)
  <2>1. /\ result[w] \in Chunks /\ result[w] \in Results
        /\ writeQueue_ \in QueuesOf(Chunks)
    BY <1>4 DEF Types, PushResult, Results, Busy, Chunks
  <2>2. ItemsOf(writeQueue_'.items) \subseteq ItemsOf(writeQueue_.items) \cup {result[w]}
    BY <1>4, <2>1, PushedItems DEF PushResult
  <2>3. Results' \subseteq Results
    BY <1>4, ResultGiven DEF Types, PushResult, Results, Busy
  <2>4. UNCHANGED ItemsOf(readQueue_.items)
    BY <1>4 DEF PushResult
  <2>5. ChunksUnderWay' \subseteq ChunksUnderWay
    BY <1>2, <2>1, <2>2, <2>3, <2>4, UnderWay DEF Everywhere
  <2> QED BY <1>1, <2>5, SubsetKept
<1>5. CASE WorkerEnds(w)
  <2>1. writeQueue_'.items = writeQueue_.items /\ UNCHANGED <<readQueue_, result>>
    BY <1>5, ClosedQueue DEF Types, WorkerEnds
  <2>2. ChunksUnderWay' \subseteq ChunksUnderWay
    BY <1>2, <2>1, UnderWay DEF Everywhere, Results, Busy
  <2> QED BY <1>1, <2>2, SubsetKept
<1>6. CASE UNCHANGED Seen
  <2>1. ChunksUnderWay' \subseteq ChunksUnderWay
    BY <1>6 DEF ChunksUnderWay, Busy, Seen, reader, writer
  <2> QED BY <1>1, <2>1, SubsetKept
<1> QED BY <1>1, <1>3, <1>4, <1>5, <1>6, WorkerDoes

LEMMA WriterMoves ==
  ASSUME Types, StashEarly \/ LoopEnds \/ CloseReadQueue \/ CloseWriteQueue \/ RunEnds
  PROVE  Kept /\ UNCHANGED <<files, reader, nextExpected, fileStart, medium, table>>
<1>1. UNCHANGED <<files, reader, workers, nextExpected, fileStart, medium, table>>
  BY DEF StashEarly, LoopEnds, CloseReadQueue, CloseWriteQueue, RunEnds
<1>2. UNCHANGED <<Tasks, Results>>
  BY <1>1 DEF Tasks, Results, Busy, reader, workers
<1>3. CASE StashEarly
  <2>1. /\ ItemsOf(writeQueue_'.items) \subseteq ItemsOf(writeQueue_.items)
        /\ Head(writeQueue_.items) \in ItemsOf(writeQueue_.items)
    BY <1>3, PoppedItems DEF Types, StashEarly
  <2>2. /\ reorderBuf' = reorderBuf \cup {Head(writeQueue_.items)}
        /\ UNCHANGED ItemsOf(readQueue_.items)
    BY <1>3 DEF StashEarly
  <2>3. ChunksUnderWay' \subseteq ChunksUnderWay
    BY <1>2, <2>1, <2>2, UnderWay DEF Everywhere
  <2> QED BY <1>1, <2>3, SubsetKept
<1>4. CASE LoopEnds \/ CloseReadQueue \/ CloseWriteQueue \/ RunEnds
  <2>1. readQueue_'.items = readQueue_.items /\ writeQueue_'.items = writeQueue_.items
    BY <1>4, ClosedQueue DEF Types, LoopEnds, CloseReadQueue, CloseWriteQueue, RunEnds
  <2>2. UNCHANGED reorderBuf
    BY <1>4 DEF LoopEnds, CloseReadQueue, CloseWriteQueue, RunEnds
  <2>3. ChunksUnderWay' \subseteq ChunksUnderWay
    BY <1>2, <2>1, <2>2, UnderWay DEF Everywhere
  <2> QED BY <1>1, <2>3, SubsetKept
<1> QED BY <1>3, <1>4

LEMMA WriterTakes ==
  ASSUME Types, ProcessNext \/ ProcessStashed
  PROVE  \E c \in ChunksUnderWay :
           /\ c \in Chunks /\ c.seq = nextExpected /\ Process(c) /\ Unfailed
           /\ ChunksUnderWay' \subseteq ChunksUnderWay
           /\ UNCHANGED <<files, reader>>
<1>1. UNCHANGED <<files, reader, readQueue_, workers>> /\ Unfailed
  BY DEF ProcessNext, ProcessStashed, Unfailed
<1>2. UNCHANGED <<Tasks, Results, ItemsOf(readQueue_.items)>>
  BY <1>1 DEF Tasks, Results, Busy, reader, workers
<1>3. CASE ProcessNext
  <2> DEFINE head == Head(writeQueue_.items)
  <2>1. /\ ItemsOf(writeQueue_'.items) \subseteq ItemsOf(writeQueue_.items)
        /\ head \in ItemsOf(writeQueue_.items)
    BY <1>3, PoppedItems DEF Types, ProcessNext
  <2>2. reorderBuf' = reorderBuf /\ head.seq = nextExpected /\ Process(head)
    BY <1>3 DEF ProcessNext
  <2>3. ChunksUnderWay' \subseteq ChunksUnderWay /\ head \in ChunksUnderWay
    BY <1>2, <2>1, <2>2, UnderWay DEF Everywhere
  <2> QED BY <1>1, <2>2, <2>3, ChunksTyped
<1>4. CASE ProcessStashed
  <2>1. PICK c \in Due : Process(c) /\ reorderBuf' = reorderBuf \ {c}
    BY <1>4 DEF ProcessStashed
  <2>2. c \in reorderBuf /\ c.seq = nextExpected /\ writeQueue_' = writeQueue_
    BY <1>4, <2>1 DEF Due, ProcessStashed
  <2>3. ChunksUnderWay' \subseteq ChunksUnderWay /\ c \in ChunksUnderWay
    BY <1>2, <2>1, <2>2, UnderWay DEF Everywhere
  <2> QED BY <1>1, <2>1, <2>2, <2>3, ChunksTyped
<1> QED BY <1>3, <1>4

\* The reader's next chunk, however it goes on its way.
LEMMA BypassAdds ==
  ASSUME Types, NEW c \in Chunks, writeQueue_' = Pushed(writeQueue_, c),
         UNCHANGED <<task, readQueue_, workers, writer>>
  PROVE  ChunksUnderWay' \subseteq ChunksUnderWay \cup {c}
<1>1. ItemsOf(writeQueue_'.items) \subseteq ItemsOf(writeQueue_.items) \cup {c}
  BY PushedItems DEF Types
<1>2. UNCHANGED <<ItemsOf(readQueue_.items), Results, reorderBuf, Tasks>>
  BY DEF Results, Busy, Tasks, workers, writer
<1> QED BY <1>1, <1>2, UnderWay DEF Everywhere

LEMMA TaskAdds ==
  ASSUME Types, ReadBlock
  PROVE  ChunksUnderWay' \subseteq ChunksUnderWay \cup {task'}
<1>1. UNCHANGED <<ItemsOf(readQueue_.items), ItemsOf(writeQueue_.items), Results, reorderBuf>>
  BY DEF ReadBlock, Results, Busy, workers, writer
<1>2. Tasks' \subseteq {task'}
  BY DEF Tasks
<1> QED BY <1>1, <1>2, UnderWay DEF Everywhere

-----------------------------------------------------------------------------
(***************************************************************************)
(* Names in the table.                                                     *)
(***************************************************************************)
LEMMA LeastOne ==
  ASSUME NEW S \in SUBSET Nat, S # {}
  PROVE  \E n \in S : \A m \in S : n <= m
<1>1. \E n \in S : \A m \in S : ~ (<<m, n>> \in OpToRel(<, Nat))
  BY NatLessThanWellFounded, WFMin
<1>2. \A m, n \in Nat : m < n => <<m, n>> \in OpToRel(<, Nat)
  BY DEF OpToRel
<1>3. PICK n \in S : \A m \in S : ~ (<<m, n>> \in OpToRel(<, Nat))
  BY <1>1
<1>4. ASSUME NEW m \in S PROVE n <= m
  <2>1. m \in Nat /\ n \in Nat /\ ~ (m < n)
    BY <1>2, <1>3
  <2> QED BY <2>1
<1> QED BY <1>4

Numbered(name, n) == [name EXCEPT !.numbers = Append(@, n)]

LEMMA NumberedNames ==
  ASSUME NEW name \in Names, NEW n \in Nat
  PROVE  /\ Numbered(name, n) \in Names
         /\ Numbered(name, n) # name
         /\ \A m \in Nat : Numbered(name, m) = Numbered(name, n) => m = n
<1>1. /\ name.numbers \in Seq(Nat) /\ Append(name.numbers, n) \in Seq(Nat)
      /\ Append(name.numbers, n) # name.numbers
      /\ \A m \in Nat : Append(name.numbers, m) = Append(name.numbers, n) => m = n
  <2>1. name.numbers \in Seq(Nat)
    BY DEF Names
  <2>2. Append(name.numbers, n)[Len(name.numbers) + 1] = n
    BY <2>1
  <2>3. \A m \in Nat : Append(name.numbers, m)[Len(name.numbers) + 1] = m
    BY <2>1
  <2>4. Len(Append(name.numbers, n)) # Len(name.numbers)
    BY <2>1
  <2> QED BY <2>1, <2>2, <2>3, <2>4
<1>2. \A m \in Nat : Numbered(name, m).numbers = Append(name.numbers, m)
  BY DEF Numbered, Names
<1>3. Numbered(name, n) \in Names
  BY <1>1 DEF Numbered, Names
<1> QED BY <1>1, <1>2, <1>3

\* Among as many numbers as the table has entries, one is free when the name
\* itself is taken.
LEMMA SomeNumberFree ==
  ASSUME NEW t, Len(t) \in Nat, NEW name \in Names, name \in NamesIn(t)
  PROVE  \E n \in 2 .. Len(t) + 1 : Numbered(name, n) \notin NamesIn(t)
<1> SUFFICES ASSUME \A n \in 2 .. Len(t) + 1 : Numbered(name, n) \in NamesIn(t)
             PROVE  FALSE
  OBVIOUS
<1> DEFINE Tried(n) == IF n = 1 THEN name ELSE Numbered(name, n)
           where == [n \in 1 .. Len(t) + 1 |-> CHOOSE k \in 1 .. Len(t) : t[k].name = Tried(n)]
<1>1. \A n \in 1 .. Len(t) + 1 : \E k \in 1 .. Len(t) : t[k].name = Tried(n)
  BY DEF NamesIn
<1>2. \A n, m \in 1 .. Len(t) + 1 : Tried(n) = Tried(m) => n = m
  BY NumberedNames
<1> HIDE DEF Tried
<1>3. \A n \in 1 .. Len(t) + 1 : where[n] \in 1 .. Len(t) /\ t[where[n]].name = Tried(n)
  BY <1>1
<1>4. where \in [1 .. Len(t) + 1 -> 1 .. Len(t)]
  BY <1>3
<1> HIDE DEF where
<1>5. /\ IsFiniteSet(1 .. Len(t)) /\ Cardinality(1 .. Len(t)) = Len(t)
      /\ IsFiniteSet(1 .. Len(t) + 1) /\ Cardinality(1 .. Len(t) + 1) = Len(t) + 1
  <2>1. \A n \in Nat : IsFiniteSet(1 .. n) /\ Cardinality(1 .. n) = IF 1 > n THEN 0 ELSE n - 1 + 1
    BY FS_Interval
  <2> QED BY <2>1
<1>6. PICK n, m \in 1 .. Len(t) + 1 : n # m /\ where[n] = where[m]
  <2>1. Cardinality(1 .. Len(t)) < Cardinality(1 .. Len(t) + 1)
    BY <1>5
  <2> QED BY <1>4, <1>5, <2>1, FS_PigeonHole
<1> QED BY <1>2, <1>3, <1>6

LEMMA FreeNames ==
  ASSUME NEW t, Len(t) \in Nat, NEW name \in Names
  PROVE  freeName(t, name) \in Names /\ freeName(t, name) \notin NamesIn(t)
<1> DEFINE free == {n \in 2 .. Len(t) + 1 : Numbered(name, n) \notin NamesIn(t)}
           first == CHOOSE n \in free : \A m \in free : n <= m
<1>1. freeName(t, name) = IF name \in NamesIn(t) THEN Numbered(name, first) ELSE name
  BY DEF freeName, Numbered
<1>2. CASE name \notin NamesIn(t)
  BY <1>1, <1>2
<1>3. CASE name \in NamesIn(t)
  <2>1. free # {} /\ free \in SUBSET Nat
    BY <1>3, SomeNumberFree
  <2>2. \E n \in free : \A m \in free : n <= m
    <3> HIDE DEF free
    <3> QED BY <2>1, LeastOne
  <2>3. first \in free
    BY <2>2
  <2>4. first \in Nat /\ Numbered(name, first) \notin NamesIn(t)
    BY <2>3
  <2> HIDE DEF first
  <2> QED BY <1>1, <1>3, <2>4, NumberedNames
<1> QED BY <1>2, <1>3

\* The entry that the last chunk of a file makes.
EntryOf(c, start) ==
  [name |-> freeName(table, files[c.piece.file].name), file |-> c.piece.file, offset |-> start,
   size |-> c.total]

Start == IF fileStart = None THEN Len(medium) ELSE fileStart

LEMMA Entered ==
  ASSUME Types, table \in Seq(Entries), NEW c \in CutChunks,
         c.piece.file \in 1 .. Len(files), Write(c)
  PROVE  /\ medium' = IF c.piece.len > 0 THEN Append(medium, c.piece) ELSE medium
         /\ fileStart' = IF c.last THEN None ELSE Start
         /\ table' = IF c.last THEN Append(table, EntryOf(c, Start)) ELSE table
         /\ EntryOf(c, Start) \in Entries
         /\ EntryOf(c, Start).name \notin NamesIn(table)
<1>1. Start \in Nat /\ c.total \in Nat /\ c.piece.file \in Nat
  BY DEF Types, Start, CutChunks, Pieces
<1>2. files[c.piece.file].name \in Names
  BY FileTypes
<1>3. Len(table) \in Nat
  OBVIOUS
<1>4. /\ freeName(table, files[c.piece.file].name) \in Names
      /\ freeName(table, files[c.piece.file].name) \notin NamesIn(table)
  BY <1>2, <1>3, FreeNames
<1>5. /\ EntryOf(c, Start) \in Entries
      /\ EntryOf(c, Start).name \notin NamesIn(table)
  BY <1>1, <1>4 DEF EntryOf, Entries
<1>6. /\ medium' = IF c.piece.len > 0 THEN Append(medium, c.piece) ELSE medium
      /\ fileStart' = IF c.last THEN None ELSE Start
      /\ table' = IF c.last THEN Append(table, EntryOf(c, Start)) ELSE table
  BY DEF Write, addFileEntry, EntryOf, Start
<1> QED BY <1>5, <1>6

LEMMA EnteredNames ==
  ASSUME NEW t \in Seq(Entries), NEW e \in Entries, e.name \notin NamesIn(t), NamesDiffer(t)
  PROVE  NamesDiffer(Append(t, e))
<1>1. /\ Len(t) \in Nat /\ Len(Append(t, e)) = Len(t) + 1
      /\ \A k \in 1 .. Len(t) : Append(t, e)[k] = t[k]
      /\ Append(t, e)[Len(t) + 1] = e
  OBVIOUS
<1> QED BY <1>1 DEF NamesDiffer, NamesIn

\* The chunk the reader sends on its way: an error, an empty file's sentinel or
\* what it has read.
CutNow(c) ==
  \/ OpenFails /\ c = ErrorChunk(seqNo)
  \/ EmptyFile /\ c = Chunk(seqNo, Piece(file, 0, 0), TRUE, 0)
  \/ /\ ReadBlock
     /\ task' = c
     /\ \E got \in Reads(files[file]) :
          LET end  == readOffset + got
              last == end >= files[file].size
          IN  /\ c = Chunk(seqNo, Piece(file, readOffset, got), last, IF last THEN end ELSE 0)
              /\ readOffset' = end

LEMMA ReaderCuts ==
  ASSUME Types, Threads, OpenFails \/ EmptyFile \/ ReadBlock
  PROVE  \E c \in Chunks :
           /\ CutNow(c)
           /\ c.seq = seqNo /\ seqNo' = seqNo + 1
           /\ c.piece # None => c \in CutChunks /\ c.piece.file = file
           /\ file \in 1 .. Len(files)
           /\ ChunksUnderWay' \subseteq ChunksUnderWay \cup {c}
           /\ UNCHANGED <<files, writer>>
<1>1. file \in 1 .. Len(files) /\ seqNo' = seqNo + 1 /\ UNCHANGED <<files, writer>>
  <2>1. seqNo' = seqNo + 1 /\ UNCHANGED <<files, writer>>
    BY DEF OpenFails, EmptyFile, ReadBlock
  <2>2. file <= Len(files)
    BY DEF Threads, OpenFails, EmptyFile, ReadBlock, AtFile
  <2>3. Len(files) \in Nat /\ file \in Nat \ {0}
    BY PipelineAssumption DEF Types
  <2> QED BY <2>1, <2>2, <2>3
<1>2. file \in Nat /\ seqNo \in Nat
  BY DEF Types
<1>3. CASE OpenFails
  <2> DEFINE c == ErrorChunk(seqNo)
  <2>1. c \in Chunks /\ c.seq = seqNo /\ c.piece = None
    BY <1>2, NewChunks DEF ErrorChunk
  <2>2. ChunksUnderWay' \subseteq ChunksUnderWay \cup {c}
    BY <1>3, <2>1, BypassAdds DEF OpenFails
  <2> QED BY <1>1, <1>3, <2>1, <2>2 DEF CutNow
<1>4. CASE EmptyFile
  <2> DEFINE c == Chunk(seqNo, Piece(file, 0, 0), TRUE, 0)
  <2>1. c \in CutChunks /\ c \in Chunks
    <3>1. Piece(file, 0, 0) \in Pieces
      BY <1>2 DEF Piece, Pieces
    <3> QED BY <1>2, <3>1, NewChunks DEF Chunks
  <2>2. c.seq = seqNo /\ c.piece.file = file
    BY DEF Chunk, Piece
  <2>3. ChunksUnderWay' \subseteq ChunksUnderWay \cup {c}
    BY <1>4, <2>1, BypassAdds DEF EmptyFile
  <2>4. CutNow(c)
    BY <1>4 DEF CutNow
  <2> HIDE DEF c
  <2> QED BY <1>1, <2>1, <2>2, <2>3, <2>4
<1>5. CASE ReadBlock
  <2>1. PICK got \in Reads(files[file]) :
          LET end  == readOffset + got
              last == end >= files[file].size
          IN  /\ task' = Chunk(seqNo, Piece(file, readOffset, got), last, IF last THEN end ELSE 0)
              /\ task' \in CutChunks
              /\ readOffset' = end
              /\ end \in Nat
    BY <1>5, CutBlock
  <2>2. /\ task' \in CutChunks /\ task' \in Chunks
        /\ task'.seq = seqNo /\ task'.piece.file = file
    BY <2>1 DEF Chunk, Piece, Chunks
  <2>3. ChunksUnderWay' \subseteq ChunksUnderWay \cup {task'}
    BY <1>5, TaskAdds
  <2>4. CutNow(task')
    BY <1>5, <2>1 DEF CutNow
  <2> QED BY <1>1, <2>2, <2>3, <2>4
<1> QED BY <1>3, <1>4, <1>5

-----------------------------------------------------------------------------
(***************************************************************************)
(* ListInv: chunks and entries are of files of the list.                   *)
(***************************************************************************)
LEMMA KeptOfTheList ==
  ASSUME OfTheList, Kept, UNCHANGED files
  PROVE  OfTheList'
BY DEF OfTheList, Kept, Like

LEMMA NextKeepsList == ListInv /\ [Next]_vars => ListInv'
<1> SUFFICES ASSUME ListInv, [Next]_vars PROVE ListInv'
  OBVIOUS
<1>1. PlacesInv /\ PlacesInv' /\ Types /\ Threads
  BY NextKeepsPlaces DEF ListInv, PlacesInv
<1>2. SUFFICES OfTheList' /\ table' \in Seq(Entries) /\ NamesDiffer(table)'
  BY <1>1 DEF ListInv
<1>3. CASE OpenFails \/ EmptyFile \/ ReadBlock
  <2>1. PICK c \in Chunks :
          /\ c.piece # None => c.piece.file = file
          /\ file \in 1 .. Len(files)
          /\ ChunksUnderWay' \subseteq ChunksUnderWay \cup {c}
          /\ UNCHANGED <<files, writer>>
    BY <1>1, <1>3, ReaderCuts
  <2>2. OfTheList'
    BY <2>1 DEF ListInv, OfTheList
  <2> QED BY <2>1, <2>2 DEF ListInv, writer
<1>4. CASE OpenFile \/ EndOfInput \/ ReadThrows \/ ReaderEnds \/ PushTask
  <2>1. Kept /\ UNCHANGED <<files, writer>>
    BY <1>1, <1>4, ReaderWalks, TaskMoves
  <2> QED BY <2>1, KeptOfTheList DEF ListInv, writer
<1>5. ASSUME NEW w \in Workers, Worker(w)
      PROVE  OfTheList' /\ table' \in Seq(Entries) /\ NamesDiffer(table)'
  <2>1. Kept /\ UNCHANGED <<files, writer>>
    BY <1>1, <1>5, WorkersMove
  <2> QED BY <2>1, KeptOfTheList DEF ListInv, writer
<1>6. CASE StashEarly \/ LoopEnds \/ CloseReadQueue \/ CloseWriteQueue \/ RunEnds
  <2>1. Kept /\ UNCHANGED <<files, table>>
    BY <1>1, <1>6, WriterMoves
  <2> QED BY <2>1, KeptOfTheList DEF ListInv
<1>7. CASE ProcessNext \/ ProcessStashed
  <2>1. PICK c \in ChunksUnderWay :
          /\ c \in Chunks /\ Process(c)
          /\ ChunksUnderWay' \subseteq ChunksUnderWay
          /\ UNCHANGED files
    BY <1>1, <1>7, WriterTakes
  <2>2. OfTheList'
    BY <2>1, SubsetKept, KeptOfTheList DEF ListInv
  <2>3. CASE UNCHANGED table
    BY <2>2, <2>3 DEF ListInv
  <2>4. CASE c \in CutChunks /\ Write(c)
    <3>1. c.piece.file \in 1 .. Len(files)
      BY <2>1, <2>4, NoneIsNoChunk DEF ListInv, OfTheList, CutChunks
    <3>2. /\ table' = IF c.last THEN Append(table, EntryOf(c, Start)) ELSE table
          /\ EntryOf(c, Start) \in Entries
          /\ EntryOf(c, Start).name \notin NamesIn(table)
      BY <1>1, <2>4, <3>1, Entered DEF ListInv
    <3>3. table \in Seq(Entries) /\ NamesDiffer(table)
      BY DEF ListInv
    <3>4. table' \in Seq(Entries)
      BY <3>2, <3>3
    <3>5. NamesDiffer(table')
      BY <3>2, <3>3, EnteredNames
    <3> QED BY <2>2, <3>4, <3>5 DEF NamesDiffer
  <2> QED BY <1>1, <2>1, <2>3, <2>4, Processed
<1>8. CASE UNCHANGED vars
  <2>1. UNCHANGED <<ChunksUnderWay, files, table>>
    BY <1>8 DEF ChunksUnderWay, Busy, vars, reader, workers, writer
  <2> QED BY <2>1 DEF ListInv, OfTheList
<1> QED BY <1>3, <1>4, <1>5, <1>6, <1>7, <1>8 DEF Next, Reader, Writer, Finished

\* No two entries ever bear the same name, however many of the input files do.
THEOREM ListInvariant == Spec => []ListInv
<1>1. Init => ListInv
  <2> SUFFICES ASSUME Init PROVE ListInv
    OBVIOUS
  <2>1. ChunksUnderWay = {} /\ table = <<>>
    BY DEF Init, ChunksUnderWay, Busy, EmptyQueue
  <2> QED BY <2>1, InitPlaces DEF ListInv, OfTheList, NamesDiffer
<1> QED BY <1>1, NextKeepsList, PTL DEF Spec

-----------------------------------------------------------------------------
(***************************************************************************)
(* OrderInv: what is written, under way and still to be cut follow one     *)
(* another.                                                                *)
(***************************************************************************)
LEMMA PiecesTyped ==
  ASSUME Types
  PROVE  /\ \A c \in ChunksUnderWay : c.piece # None => c.piece \in Pieces /\ c \in CutChunks
         /\ medium # <<>> => medium[Len(medium)] \in Pieces
<1>1. \A c \in ChunksUnderWay : c.piece # None => c.piece \in Pieces /\ c \in CutChunks
  BY ChunksTyped DEF Chunks, CutChunks, ErrorChunks
<1>2. medium # <<>> => medium[Len(medium)] \in Pieces
  BY DEF Types
<1> QED BY <1>1, <1>2

LEMMA SeqsTyped ==
  ASSUME Types, NEW c \in ChunksUnderWay
  PROVE  c.seq \in Nat
BY ChunksTyped DEF Chunks, CutChunks, ErrorChunks

\* Nothing comes between p and what follows an empty piece.
LEMMA AheadOfEmpty ==
  ASSUME NEW p \in Pieces, NEW q \in Pieces, NEW r, r.file \in Nat, r.at \in Nat,
         Ahead(p, q), Ahead(q, r), q.len = 0, q.at = 0
  PROVE  Ahead(p, r)
BY DEF Ahead, Pieces

LEMMA KeptInOrder ==
  ASSUME Types, InOrder, Kept, UNCHANGED <<nextExpected, seqNo, medium>>,
         Cutting' => /\ Cutting
                     /\ \A p \in Pieces : Ahead(p, ReaderAt) => Ahead(p, ReaderAt')
  PROVE  InOrder'
<1>1. ASSUME NEW c \in ChunksUnderWay', c.piece # None
      PROVE  /\ c.seq = nextExpected /\ medium # <<>> => Ahead(medium[Len(medium)], c.piece)
             /\ c.seq = seqNo - 1 /\ Cutting' => Ahead(c.piece, ReaderAt')
             /\ c.piece.len = 0 => c.piece.at = 0
  <2>1. PICK d \in ChunksUnderWay : c.seq = d.seq /\ c.piece = d.piece
    BY DEF Kept, Like
  <2>2. d.piece \in Pieces
    BY <1>1, <2>1, PiecesTyped
  <2> QED BY <1>1, <2>1, <2>2 DEF InOrder
<1>2. ASSUME NEW c \in ChunksUnderWay', NEW d \in ChunksUnderWay',
             c.piece # None, d.piece # None, d.seq = c.seq + 1
      PROVE  Ahead(c.piece, d.piece)
  <2>1. PICK b \in ChunksUnderWay : c.seq = b.seq /\ c.piece = b.piece
    BY DEF Kept, Like
  <2>2. PICK e \in ChunksUnderWay : d.seq = e.seq /\ d.piece = e.piece
    BY DEF Kept, Like
  <2> QED BY <1>2, <2>1, <2>2 DEF InOrder
<1>3. nextExpected = seqNo /\ medium # <<>> /\ Cutting' => Ahead(medium[Len(medium)], ReaderAt')
  BY PiecesTyped DEF InOrder
<1> QED BY <1>1, <1>2, <1>3 DEF InOrder

\* The reader walking on stays behind everything it has cut.
LEMMA WalkStaysBehind ==
  ASSUME Types, Threads,
         OpenFile \/ EndOfInput \/ ReadThrows \/ ReaderEnds \/ PushTask,
         Cutting'
  PROVE  Cutting /\ \A p \in Pieces : Ahead(p, ReaderAt) => Ahead(p, ReaderAt')
<1>1. file \in Nat /\ (rpc = "push" => task \in CutChunks /\ task # None)
  BY DEF Types, Threads
<1>2. CASE OpenFile
  BY <1>1, <1>2 DEF OpenFile, AtFile, Cutting, ReaderAt, Position, Ahead, Pieces
<1>3. CASE EndOfInput
  BY <1>1, <1>3 DEF EndOfInput, Cutting, ReaderAt, Position, Ahead, Pieces
<1>4. CASE ReadThrows \/ ReaderEnds
  BY <1>4 DEF ReadThrows, ReaderEnds, Cutting
<1>5. CASE PushTask
  <2>1. /\ rpc = "push" /\ readOffset' = readOffset
        /\ \/ rpc' = "open" /\ file' = file + 1
           \/ rpc' = "read" /\ file' = file /\ ~ task.last
    BY <1>5 DEF PushTask
  <2>2. /\ ReaderAt.file = (IF task.last THEN file + 1 ELSE file)
        /\ ReaderAt.at = (IF task.last THEN 0 ELSE readOffset)
    BY <2>1 DEF ReaderAt, Position
  <2>3. CASE rpc' = "open" /\ file' = file + 1
    <3>1. ReaderAt'.file = file + 1 /\ ReaderAt'.at = 0
      BY <2>3 DEF ReaderAt, Position
    <3>2. ReaderAt.file \in {file, file + 1} /\ (ReaderAt.file = file + 1 => ReaderAt.at = 0)
      BY <1>1, <2>2
    <3> QED BY <1>1, <2>1, <3>1, <3>2 DEF Cutting, Ahead, Pieces
  <2>4. CASE rpc' = "read" /\ file' = file /\ ~ task.last
    <3>1. ReaderAt'.file = file /\ ReaderAt'.at = readOffset
      BY <2>1, <2>4 DEF ReaderAt, Position
    <3> QED BY <2>1, <2>2, <2>4, <3>1 DEF Cutting, Ahead
  <2> QED BY <2>1, <2>3, <2>4
<1> QED BY <1>2, <1>3, <1>4, <1>5

\* What the reader cuts is cut from where it stands, and it goes on behind it.
LEMMA CutAtReader ==
  ASSUME Types, Threads, NEW c, CutNow(c)
  PROVE  /\ c.piece # None =>
              /\ Cutting /\ c.piece.file = ReaderAt.file /\ c.piece.at = ReaderAt.at
              /\ Ahead(c.piece, ReaderAt')
              /\ c.piece.len = 0 => c.piece.at = 0
         /\ c.piece = None => ~ Cutting'
<1>1. CASE OpenFails /\ c = ErrorChunk(seqNo)
  BY <1>1 DEF OpenFails, ErrorChunk, Cutting
<1>2. CASE EmptyFile /\ c = Chunk(seqNo, Piece(file, 0, 0), TRUE, 0)
  <2>1. /\ rpc = "open" /\ rpc' = "open" /\ file' = file + 1 /\ file \in Nat
        /\ c.piece = Piece(file, 0, 0)
    BY <1>2 DEF EmptyFile, AtFile, Chunk, Types
  <2>2. c.piece # None
    BY <2>1, NoneIsNoChunk DEF Piece, Pieces
  <2> QED BY <2>1, <2>2 DEF Piece, Cutting, ReaderAt, Position, Ahead
<1>3. ASSUME ReadBlock, task' = c,
             NEW got \in Reads(files[file]),
             LET end  == readOffset + got
                 last == end >= files[file].size
             IN  /\ c = Chunk(seqNo, Piece(file, readOffset, got), last, IF last THEN end ELSE 0)
                 /\ readOffset' = end
      PROVE  /\ c.piece # None /\ Cutting
             /\ c.piece.file = ReaderAt.file /\ c.piece.at = ReaderAt.at
             /\ Ahead(c.piece, ReaderAt')
             /\ c.piece.len = 0 => c.piece.at = 0
  <2>1. /\ rpc = "read" /\ rpc' = "push" /\ file' = file /\ file \in Nat /\ readOffset \in Nat
        /\ c.piece = Piece(file, readOffset, got) /\ readOffset' = readOffset + got
    BY <1>3 DEF ReadBlock, Chunk, Types
  <2>2. got \in Nat \ {0}
    BY <1>3, SomeRead DEF ReadBlock
  <2>3. c.piece # None
    BY <2>1, <2>2, NoneIsNoChunk DEF Piece, Pieces
  <2>4. /\ ReaderAt'.file = (IF c.last THEN file + 1 ELSE file)
        /\ ReaderAt'.at = (IF c.last THEN 0 ELSE readOffset + got)
    BY <1>3, <2>1 DEF ReaderAt, Position
  <2>5. ReaderAt.file = file /\ ReaderAt.at = readOffset
    BY <2>1 DEF ReaderAt, Position
  <2>6. c.piece.file = file /\ c.piece.at = readOffset /\ c.piece.len = got
    BY <2>1 DEF Piece
  <2> HIDE DEF CutNow
  <2> QED BY <2>1, <2>2, <2>3, <2>4, <2>5, <2>6 DEF Cutting, Ahead
<1> QED BY <1>1, <1>2, <1>3 DEF CutNow

LEMMA CutInOrder ==
  ASSUME PlacesInv, Unfailed, InOrder, OpenFails \/ EmptyFile \/ ReadBlock
  PROVE  InOrder'
<1>1. Types /\ Threads
  BY DEF PlacesInv
<1>2. PICK n \in Chunks :
        /\ CutNow(n)
        /\ n.seq = seqNo /\ seqNo' = seqNo + 1
        /\ n.piece # None => n \in CutChunks /\ n.piece.file = file
        /\ ChunksUnderWay' \subseteq ChunksUnderWay \cup {n}
        /\ UNCHANGED <<files, writer>>
  BY <1>1, ReaderCuts
<1>3. /\ n.piece # None =>
           /\ Cutting /\ n.piece.file = ReaderAt.file /\ n.piece.at = ReaderAt.at
           /\ Ahead(n.piece, ReaderAt')
           /\ n.piece.len = 0 => n.piece.at = 0
      /\ n.piece = None => ~ Cutting'
  BY <1>1, <1>2, CutAtReader
<1>4. \A c \in ChunksUnderWay : c.seq \in nextExpected .. seqNo - 1
  BY SeqsInRange
<1>5. seqNo \in Nat /\ nextExpected \in Nat /\ nextExpected <= seqNo
  BY <1>1 DEF Types, Threads
<1>6. nextExpected' = nextExpected /\ medium' = medium
  BY <1>2 DEF writer
<1>7. \A p : n.piece # None /\ Ahead(p, ReaderAt) => Ahead(p, n.piece)
  BY <1>3 DEF Ahead
<1>8. ASSUME NEW c \in ChunksUnderWay', c.piece # None
      PROVE  /\ c.seq = nextExpected /\ medium # <<>> => Ahead(medium[Len(medium)], c.piece)
             /\ c.seq = seqNo' - 1 /\ Cutting' => Ahead(c.piece, ReaderAt')
             /\ c.piece.len = 0 => c.piece.at = 0
  <2>1. CASE c = n
    <3>1. c.seq = nextExpected /\ medium # <<>> => Ahead(medium[Len(medium)], ReaderAt)
      BY <1>2, <1>3, <1>8, <2>1 DEF InOrder
    <3> QED BY <1>3, <1>7, <1>8, <2>1, <3>1
  <2>2. CASE c \in ChunksUnderWay
    <3>1. c.seq # seqNo' - 1
      BY <1>2, <1>4, <1>5, <2>2
    <3> QED BY <1>8, <2>2, <3>1 DEF InOrder
  <2> QED BY <1>2, <2>1, <2>2
<1>9. ASSUME NEW c \in ChunksUnderWay', NEW d \in ChunksUnderWay',
             c.piece # None, d.piece # None, d.seq = c.seq + 1
      PROVE  Ahead(c.piece, d.piece)
  <2>1. c \in ChunksUnderWay
    <3> SUFFICES ASSUME c = n PROVE FALSE
      BY <1>2
    <3>1. d.seq = seqNo + 1
      BY <1>2, <1>9
    <3> QED BY <1>2, <1>4, <1>5, <3>1
  <2>2. CASE d = n
    <3>1. c.seq = seqNo - 1
      BY <1>2, <1>4, <1>5, <1>9, <2>1, <2>2
    <3>2. Ahead(c.piece, ReaderAt)
      BY <1>3, <1>9, <2>1, <2>2, <3>1 DEF InOrder
    <3> QED BY <1>7, <1>9, <2>2, <3>2
  <2>3. CASE d \in ChunksUnderWay
    BY <1>9, <2>1, <2>3 DEF InOrder
  <2> QED BY <1>2, <2>2, <2>3
<1>10. nextExpected # seqNo'
  BY <1>2, <1>5
<1> QED BY <1>6, <1>8, <1>9, <1>10 DEF InOrder

\* The writer's step: c is written, or not when it is the sentinel of an empty file.
LEMMA WriteInOrder ==
  ASSUME Types, OrderInv, Unfailed, NEW c \in ChunksUnderWay, c.seq = nextExpected,
         c \in CutChunks, c.piece # None,
         medium' = IF c.piece.len > 0 THEN Append(medium, c.piece) ELSE medium,
         nextExpected' = nextExpected + 1,
         ChunksUnderWay' \subseteq ChunksUnderWay, UNCHANGED reader
  PROVE  /\ \A i \in 1 .. Len(medium') : medium'[i].len > 0
         /\ InOrder'
         /\ WrittenInOrder'
<1>1. /\ c.piece \in Pieces /\ medium \in Seq(Pieces) /\ Len(medium) \in Nat
      /\ InOrder /\ WrittenInOrder
      /\ nextExpected \in Nat /\ seqNo \in Nat
      /\ seqNo' = seqNo /\ (Cutting' <=> Cutting) /\ ReaderAt' = ReaderAt
  BY DEF Types, OrderInv, CutChunks, reader, Cutting, ReaderAt
<1>2. medium # <<>> => Ahead(medium[Len(medium)], c.piece)
  BY <1>1 DEF InOrder
<1>3. c.piece.len = 0 => c.piece.at = 0
  BY <1>1 DEF InOrder
<1>4. \A i \in 1 .. Len(medium) : medium[i].len > 0
  BY DEF OrderInv
\* Whatever follows c is ahead of all that is now written.
<1>5. ASSUME NEW r, r.file \in Nat, r.at \in Nat, Ahead(c.piece, r), medium' # <<>>
      PROVE  Ahead(medium'[Len(medium')], r)
  <2>1. CASE c.piece.len > 0
    <3>1. medium'[Len(medium')] = c.piece
      BY <1>1, <2>1
    <3> QED BY <1>5, <3>1
  <2>2. CASE ~ (c.piece.len > 0)
    <3>1. c.piece.len = 0 /\ c.piece.at = 0
      BY <1>1, <1>3, <2>2 DEF Pieces
    <3>2. medium' = medium /\ medium[Len(medium)] \in Pieces
      BY <1>1, <1>5, <2>2
    <3> QED BY <1>1, <1>2, <1>5, <3>1, <3>2, AheadOfEmpty
  <2> QED BY <2>1, <2>2
<1>6. ASSUME NEW d \in ChunksUnderWay', d.piece # None
      PROVE  /\ d.seq = nextExpected' /\ medium' # <<>> => Ahead(medium'[Len(medium')], d.piece)
             /\ d.seq = seqNo' - 1 /\ Cutting' => Ahead(d.piece, ReaderAt')
             /\ d.piece.len = 0 => d.piece.at = 0
  <2>1. d \in ChunksUnderWay /\ d.piece.file \in Nat /\ d.piece.at \in Nat
    BY <1>6, PiecesTyped DEF Pieces
  <2>2. d.seq = nextExpected' => Ahead(c.piece, d.piece)
    BY <1>1, <1>6, <2>1 DEF InOrder
  <2> QED BY <1>1, <1>5, <1>6, <2>1, <2>2 DEF InOrder
<1>7. nextExpected' = seqNo' /\ medium' # <<>> /\ Cutting' => Ahead(medium'[Len(medium')], ReaderAt')
  <2> SUFFICES ASSUME nextExpected' = seqNo', medium' # <<>>, Cutting'
               PROVE  Ahead(medium'[Len(medium')], ReaderAt)
    BY <1>1
  <2>1. c.seq = seqNo - 1
    BY <1>1
  <2>2. Ahead(c.piece, ReaderAt)
    BY <1>1, <2>1 DEF InOrder
  <2>3. ReaderAt.file \in Nat /\ ReaderAt.at \in Nat
    BY DEF Types, ReaderAt, Position
  <2> QED BY <1>5, <2>2, <2>3
<1>8. InOrder'
  <2>1. \A b, d \in ChunksUnderWay' :
          b.piece # None /\ d.piece # None /\ d.seq = b.seq + 1 => Ahead(b.piece, d.piece)
    BY <1>1 DEF InOrder
  <2> QED BY <1>6, <1>7, <2>1 DEF InOrder
<1>9. (\A i \in 1 .. Len(medium') : medium'[i].len > 0) /\ WrittenInOrder'
  <2>1. CASE c.piece.len > 0
    <3>1. /\ Len(medium') = Len(medium) + 1
          /\ \A i \in 1 .. Len(medium) : medium'[i] = medium[i]
          /\ medium'[Len(medium) + 1] = c.piece
      BY <1>1, <2>1
    <3>2. ASSUME NEW i \in 1 .. Len(medium') - 1
          PROVE  Ahead(medium'[i], medium'[i + 1])
      <4>1. CASE i < Len(medium)
        <5>1. i \in 1 .. Len(medium) - 1 /\ i \in 1 .. Len(medium) /\ i + 1 \in 1 .. Len(medium)
          BY <1>1, <3>1, <4>1
        <5> QED BY <1>1, <3>1, <5>1 DEF WrittenInOrder, Ahead
      <4>2. CASE i = Len(medium)
        <5>1. medium # <<>> /\ i \in 1 .. Len(medium)
          BY <1>1, <3>2, <4>2
        <5> QED BY <1>2, <3>1, <4>2, <5>1
      <4> QED BY <1>1, <3>1, <4>1, <4>2
    <3>3. WrittenInOrder'
      BY <3>2 DEF WrittenInOrder, Ahead
    <3>4. \A i \in 1 .. Len(medium') : medium'[i].len > 0
      BY <1>1, <1>4, <2>1, <3>1
    <3> QED BY <3>3, <3>4
  <2>2. CASE ~ (c.piece.len > 0)
    BY <1>1, <1>4, <2>2 DEF WrittenInOrder
  <2> QED BY <2>1, <2>2
<1> QED BY <1>8, <1>9

LEMMA NextKeepsOrder == OrderInv /\ [Next]_vars => OrderInv'
<1> SUFFICES ASSUME OrderInv, [Next]_vars PROVE OrderInv'
  OBVIOUS
<1>1. PlacesInv /\ PlacesInv' /\ Types /\ Threads
  BY NextKeepsPlaces DEF OrderInv, PlacesInv
<1> DEFINE Goal == /\ \A i \in 1 .. Len(medium') : medium'[i].len > 0
                   /\ Unfailed' => InOrder'
                   /\ WrittenInOrder'
<1>2. SUFFICES Goal
  BY <1>1 DEF OrderInv
<1>3. UNCHANGED medium => (\A i \in 1 .. Len(medium') : medium'[i].len > 0) /\ WrittenInOrder'
  BY DEF OrderInv, WrittenInOrder
<1>4. CASE OpenFails \/ EmptyFile \/ ReadBlock
  <2>1. UNCHANGED medium /\ (Unfailed' <=> Unfailed)
    BY <1>4 DEF OpenFails, EmptyFile, ReadBlock, writer, Unfailed
  <2>2. Unfailed' => InOrder'
    BY <1>1, <1>4, <2>1, CutInOrder DEF OrderInv
  <2> QED BY <1>3, <2>1, <2>2
<1>5. CASE OpenFile \/ EndOfInput \/ ReadThrows \/ ReaderEnds \/ PushTask
  <2>1. Kept /\ UNCHANGED <<seqNo, writer>>
    BY <1>1, <1>5, ReaderWalks, TaskMoves
  <2>2. Unfailed' => InOrder'
    BY <1>1, <1>5, <2>1, WalkStaysBehind, KeptInOrder DEF OrderInv, writer, Unfailed
  <2> QED BY <1>3, <2>1, <2>2 DEF writer
<1>6. ASSUME NEW w \in Workers, Worker(w) PROVE Goal
  <2>1. Kept /\ UNCHANGED <<reader, writer>>
    BY <1>1, <1>6, WorkersMove
  <2>2. (Cutting' <=> Cutting) /\ ReaderAt' = ReaderAt
    BY <2>1 DEF reader, Cutting, ReaderAt
  <2>3. Unfailed' => InOrder'
    BY <1>1, <2>1, <2>2, KeptInOrder DEF OrderInv, reader, writer, Unfailed
  <2> QED BY <1>3, <2>1, <2>3 DEF writer
<1>7. CASE StashEarly \/ LoopEnds \/ CloseReadQueue \/ CloseWriteQueue \/ RunEnds
  <2>1. Kept /\ UNCHANGED <<reader, nextExpected, medium>>
    BY <1>1, <1>7, WriterMoves
  <2>2. (Cutting' <=> Cutting) /\ ReaderAt' = ReaderAt
    BY <2>1 DEF reader, Cutting, ReaderAt
  <2>3. Unfailed' => Unfailed
    BY <1>7 DEF StashEarly, LoopEnds, CloseReadQueue, CloseWriteQueue, RunEnds, Unfailed
  <2>4. Unfailed' => InOrder'
    BY <1>1, <2>1, <2>2, <2>3, KeptInOrder DEF OrderInv, reader
  <2> QED BY <1>3, <2>1, <2>4
<1>8. CASE ProcessNext \/ ProcessStashed
  <2>1. PICK c \in ChunksUnderWay :
          /\ c \in Chunks /\ c.seq = nextExpected /\ Process(c) /\ Unfailed
          /\ ChunksUnderWay' \subseteq ChunksUnderWay
          /\ UNCHANGED <<files, reader>>
    BY <1>1, <1>8, WriterTakes
  <2>2. CASE wpc' = "failed" /\ UNCHANGED medium
    BY <1>3, <2>2 DEF Unfailed
  <2>3. CASE c \in CutChunks /\ Write(c) /\ nextExpected' = nextExpected + 1
    <3>1. c.piece # None
      BY <2>3, NoneIsNoChunk DEF CutChunks
    <3>2. medium' = IF c.piece.len > 0 THEN Append(medium, c.piece) ELSE medium
      BY <2>3 DEF Write
    <3> QED BY <1>1, <2>1, <2>3, <3>1, <3>2, WriteInOrder
  <2> QED BY <1>1, <2>1, <2>2, <2>3, Processed
<1>9. CASE UNCHANGED vars
  <2>1. UNCHANGED <<ChunksUnderWay, medium, nextExpected, seqNo>> /\ ReaderAt' = ReaderAt
        /\ (Cutting' <=> Cutting) /\ (Unfailed' <=> Unfailed)
    BY <1>9 DEF ChunksUnderWay, Busy, ReaderAt, Cutting, Unfailed, vars, reader, workers, writer
  <2>2. InOrder' <=> InOrder
    BY <2>1 DEF InOrder
  <2> QED BY <1>3, <2>1, <2>2 DEF OrderInv
<1> QED BY <1>4, <1>5, <1>6, <1>7, <1>8, <1>9 DEF Next, Reader, Writer, Finished

\* Chunks reach the medium in the order they were cut, in whatever order the
\* workers finish, whichever fail and however the inputs change meanwhile.
THEOREM ChunksWrittenInOrder == Spec => []WrittenInOrder
<1>1. Init => OrderInv
  <2> SUFFICES ASSUME Init PROVE OrderInv
    OBVIOUS
  <2>1. ChunksUnderWay = {} /\ medium = <<>>
    BY DEF Init, ChunksUnderWay, Busy, EmptyQueue
  <2> QED BY <2>1, InitPlaces DEF OrderInv, InOrder, WrittenInOrder
<1>2. OrderInv => WrittenInOrder
  BY DEF OrderInv
<1> QED BY <1>1, <1>2, NextKeepsOrder, PTL DEF Spec

-----------------------------------------------------------------------------
(***************************************************************************)
(* Reading an entry back.                                                  *)
(***************************************************************************)
LEMMA Blocks ==
  ASSUME NEW B \in Nat \ {0}, NEW n \in Nat, NEW len \in 1 .. B
  PROVE  /\ (n * B + len + B - 1) \div B = n + 1
         /\ n * B \in Nat
         /\ (n + 1) * B = n * B + B
         /\ \A i \in 1 .. n : (i - 1) * B \in Nat /\ (i - 1) * B + B <= n * B
<1> DEFINE x == n * B + len + B - 1
           q == x \div B
<1>1. n * B \in Nat /\ (n + 1) * B = n * B + B
  OBVIOUS
<1>2. \A i \in 1 .. n : (i - 1) * B \in Nat /\ (i - 1) * B + B <= n * B
  <2> SUFFICES ASSUME NEW i \in 1 .. n
               PROVE  (i - 1) * B \in Nat /\ (i - 1) * B + B <= n * B
    OBVIOUS
  <2>1. i - 1 \in Nat /\ n - i \in Nat
    OBVIOUS
  <2>2. (i - 1) * B \in Nat /\ (n - i) * B \in Nat
    BY <2>1
  <2>3. n * B = (i - 1) * B + B + (n - i) * B
    BY <2>1
  <2> QED BY <2>2, <2>3, <1>1
<1>3. x \in Nat /\ x = (n + 1) * B + (len - 1)
  BY <1>1
<1>4. q \in Int /\ q * B <= x /\ x < q * B + B
  <2>1. x = B * q + (x % B) /\ x % B \in 0 .. (B - 1) /\ q \in Int
    BY <1>3
  <2>2. q * B = B * q /\ q * B \in Int
    BY <2>1
  <2> HIDE DEF x, q
  <2> QED BY <1>3, <2>1, <2>2
<1> HIDE DEF x, q
<1>5. q = n + 1
  <2>1. CASE q < n + 1
    <3>1. n - q \in Nat
      BY <1>4, <2>1
    <3>2. (n - q) * B \in Nat /\ (n + 1) * B = q * B + B + (n - q) * B
      BY <3>1, <1>4
    <3> QED BY <1>1, <1>3, <1>4, <3>2
  <2>2. CASE q > n + 1
    <3>1. q - n - 2 \in Nat
      BY <1>4, <2>2
    <3>2. (q - n - 2) * B \in Nat /\ q * B = (n + 1) * B + B + (q - n - 2) * B
      BY <3>1, <1>4
    <3> QED BY <1>1, <1>3, <1>4, <3>2
  <2> QED BY <1>4, <2>1, <2>2
<1> QED BY <1>1, <1>2, <1>5 DEF q, x

ReadableEntry(e, m) ==
  \A i \in 1 .. ChunkCount(e.size) :
    /\ e.offset + i <= Len(m)
    /\ m[e.offset + i] = ChunkAt(e.file, e.size, i)

\* What is written later does not disturb it.
LEMMA StillReadable ==
  ASSUME NEW t \in Seq(Entries), NEW m, NEW n, Len(m) \in Nat, Len(n) \in Nat, Len(n) >= Len(m),
         \A i \in 1 .. Len(m) : n[i] = m[i],
         \A k \in 1 .. Len(t) : ReadableEntry(t[k], m)
  PROVE  \A k \in 1 .. Len(t) : ReadableEntry(t[k], n)
<1> SUFFICES ASSUME NEW k \in 1 .. Len(t), NEW i \in 1 .. ChunkCount(t[k].size)
             PROVE  /\ t[k].offset + i <= Len(n)
                    /\ n[t[k].offset + i] = ChunkAt(t[k].file, t[k].size, i)
  BY DEF ReadableEntry
<1>1. t[k].offset + i <= Len(m) /\ m[t[k].offset + i] = ChunkAt(t[k].file, t[k].size, i)
  BY DEF ReadableEntry
<1>2. t[k].offset \in Nat /\ i \in Nat \ {0}
  <2>1. t[k] \in Entries
    OBVIOUS
  <2>2. t[k].offset \in Nat
    BY <2>1 DEF Entries
  <2> QED BY <2>2
<1>3. t[k].offset + i \in 1 .. Len(m)
  BY <1>1, <1>2
<1> QED BY <1>1, <1>2, <1>3

LEMMA ReadableStays ==
  ASSUME table \in Seq(Entries), table' = table, EntriesReadable,
         Len(medium) \in Nat, Len(medium') \in Nat, Len(medium') >= Len(medium),
         \A i \in 1 .. Len(medium) : medium'[i] = medium[i]
  PROVE  EntriesReadable'
<1>1. \A k \in 1 .. Len(table) : ReadableEntry(table[k], medium)
  BY DEF EntriesReadable, ReadableEntry
<1>2. \A k \in 1 .. Len(table) : ReadableEntry(table[k], medium')
  BY <1>1, StillReadable
<1> QED BY <1>2 DEF EntriesReadable, ReadableEntry

-----------------------------------------------------------------------------
(***************************************************************************)
(* SteadyInv: of inputs that do not shrink, nothing is missing between     *)
(* what is in the table, on the medium, under way and still to be cut.     *)
(***************************************************************************)
ReaderInFile ==
  rpc = "read" \/ (rpc = "push" /\ ~ task.last) => readOffset < files[file].size

LEMMA KeptSeamless ==
  ASSUME Seamless, Kept, UNCHANGED <<files, nextExpected, seqNo>>,
         WriterAt' = WriterAt, ReaderAt' = ReaderAt, NotGivenUp' <=> NotGivenUp, ReaderInFile'
  PROVE  Seamless'
<1>1. ASSUME NEW c \in ChunksUnderWay', c.piece # None
      PROVE  /\ WellCut(c)'
             /\ c.seq = nextExpected => Position(c.piece.file, c.piece.at) = WriterAt
             /\ c.seq = seqNo - 1 /\ NotGivenUp => After(c) = ReaderAt
  <2>1. PICK d \in ChunksUnderWay : Like(c, d)
    BY DEF Kept
  <2>2. d.piece # None /\ WellCut(d) /\ After(c) = After(d)
    BY <1>1, <2>1 DEF Seamless, Like, After
  <2>3. WellCut(c)'
    BY <2>1, <2>2 DEF WellCut, Like
  <2> QED BY <2>1, <2>2, <2>3 DEF Seamless, Like
<1>2. ASSUME NEW c \in ChunksUnderWay', NEW d \in ChunksUnderWay',
             c.piece # None, d.piece # None, d.seq = c.seq + 1
      PROVE  After(c) = Position(d.piece.file, d.piece.at)
  <2>1. PICK b \in ChunksUnderWay : Like(c, b)
    BY DEF Kept
  <2>2. PICK e \in ChunksUnderWay : Like(d, e)
    BY DEF Kept
  <2>3. After(b) = Position(e.piece.file, e.piece.at)
    BY <1>2, <2>1, <2>2 DEF Seamless, Like
  <2> QED BY <2>1, <2>2, <2>3 DEF Like, After
<1>3. ASSUME ~ NotGivenUp
      PROVE  /\ nextExpected < seqNo
             /\ \A c \in ChunksUnderWay' : c.seq = seqNo - 1 => c.piece = None
  BY <1>3 DEF Seamless, Kept, Like
<1>4. nextExpected = seqNo /\ NotGivenUp => WriterAt = ReaderAt
  BY DEF Seamless
<1> QED BY <1>1, <1>2, <1>3, <1>4 DEF Seamless, ReaderInFile

\* Walking on, the reader skips nothing.
LEMMA WalkSkipsNothing ==
  ASSUME ListInv, InputsSteady, Unfailed, Seamless,
         OpenFile \/ EndOfInput \/ ReadThrows \/ ReaderEnds \/ PushTask
  PROVE  ReaderAt' = ReaderAt /\ (NotGivenUp' <=> NotGivenUp) /\ ReaderInFile'
<1>1. Types /\ Threads /\ ClosedByPushers /\ ReaderInFile
  BY DEF ListInv, PlacesInv, Seamless, ReaderInFile
<1>2. Len(files) \in Nat /\ file \in Nat \ {0} /\ (rpc = "push" => task # None /\ task \in CutChunks)
  BY <1>1, PipelineAssumption DEF Types, Threads
<1>3. CASE OpenFile
  BY <1>2, <1>3 DEF OpenFile, AtFile, ReaderAt, NotGivenUp, Cutting, ReaderInFile
<1>4. CASE EndOfInput \/ ReadThrows
  <2>1. rpc = "read" /\ readOffset >= files[file].length
    BY <1>4 DEF EndOfInput, ReadThrows
  <2>2. file \in 1 .. Len(files)
    BY <1>1, <1>2, <2>1 DEF Threads
  <2>3. files[file].length >= files[file].size /\ readOffset < files[file].size
    BY <1>1, <2>1, <2>2 DEF InputsSteady, ReaderInFile
  <2>4. files[file].length \in Nat /\ files[file].size \in Nat /\ readOffset \in Nat
    BY <1>1, <2>2, FileTypes DEF Types
  <2> QED BY <2>1, <2>3, <2>4
<1>5. CASE ReaderEnds
  <2>1. /\ rpc = "close" \/ (rpc = "open" /\ file > Len(files))
        /\ rpc' = "end" /\ file' = file /\ files' = files
    BY <1>5 DEF ReaderEnds
  <2>2. ReaderAt' = ReaderAt
    BY <2>1 DEF ReaderAt
  <2> QED BY <2>1, <2>2 DEF NotGivenUp, Cutting, ReaderInFile
<1>6. CASE PushTask
  <2>1. ~ readQueue_.closed
    BY <1>1, <1>6 DEF ClosedByPushers, PushTask
  <2>2. /\ rpc = "push" /\ files' = files /\ readOffset' = readOffset
        /\ IF task.last THEN rpc' = "open" /\ file' = file + 1
                        ELSE rpc' = "read" /\ file' = file
    BY <1>6, <2>1 DEF PushTask
  <2>3. ReaderAt' = ReaderAt
    BY <2>2 DEF ReaderAt
  <2>4. NotGivenUp' /\ NotGivenUp
    BY <2>2 DEF NotGivenUp, Cutting
  <2>5. ReaderInFile'
    BY <1>1, <2>2 DEF ReaderInFile
  <2> QED BY <2>3, <2>4, <2>5
<1> QED BY <1>3, <1>4, <1>5, <1>6

\* What the reader cuts starts where it stands, and it stands behind it after.
LEMMA CutWell ==
  ASSUME Types, Threads, InputsSteady, NEW c, CutNow(c)
  PROVE  /\ c.piece # None =>
              /\ NotGivenUp /\ Position(c.piece.file, c.piece.at) = ReaderAt
              /\ WellCut(c)
              /\ NotGivenUp' /\ After(c) = ReaderAt'
         /\ c.piece = None => ~ NotGivenUp'
         /\ ReaderInFile'
<1>1. Len(files) \in Nat /\ file \in Nat \ {0} /\ readOffset \in Nat
  BY PipelineAssumption DEF Types
<1>2. CASE OpenFails /\ c = ErrorChunk(seqNo)
  <2>1. rpc' = "close" /\ file' = file /\ files' = files /\ file <= Len(files) /\ c.piece = None
    BY <1>2 DEF OpenFails, AtFile, ErrorChunk
  <2> QED BY <1>1, <2>1 DEF NotGivenUp, Cutting, ReaderInFile
<1>3. CASE EmptyFile /\ c = Chunk(seqNo, Piece(file, 0, 0), TRUE, 0)
  <2>1. /\ rpc = "open" /\ rpc' = "open" /\ file' = file + 1 /\ file \in 1 .. Len(files)
        /\ files[file].size = 0
    BY <1>1, <1>3 DEF EmptyFile, AtFile
  <2>2. /\ c.piece = Piece(file, 0, 0) /\ c.last /\ c.total = 0
        /\ c.piece.file = file /\ c.piece.at = 0 /\ c.piece.len = 0
    BY <1>3 DEF Chunk, Piece
  <2>3. c.piece # None
    BY <1>1, <2>2, NoneIsNoChunk DEF Piece, Pieces
  <2>4. WellCut(c)
    BY <2>1, <2>2, PipelineAssumption DEF WellCut
  <2>5. Position(c.piece.file, c.piece.at) = ReaderAt /\ After(c) = ReaderAt'
    BY <2>1, <2>2 DEF ReaderAt, After
  <2> QED BY <2>1, <2>3, <2>4, <2>5 DEF NotGivenUp, Cutting, ReaderInFile
<1>4. ASSUME ReadBlock, task' = c,
             NEW got \in Reads(files[file]),
             LET end  == readOffset + got
                 last == end >= files[file].size
             IN  /\ c = Chunk(seqNo, Piece(file, readOffset, got), last, IF last THEN end ELSE 0)
                 /\ readOffset' = end
      PROVE  /\ c.piece # None
             /\ NotGivenUp /\ Position(c.piece.file, c.piece.at) = ReaderAt
             /\ WellCut(c)
             /\ NotGivenUp' /\ After(c) = ReaderAt'
             /\ ReaderInFile'
  <2>1. /\ rpc = "read" /\ rpc' = "push" /\ file' = file /\ files' = files
        /\ file \in 1 .. Len(files) /\ readOffset < files[file].length
    BY <1>1, <1>4 DEF ReadBlock, Threads
  <2>2. /\ c.piece = Piece(file, readOffset, got) /\ readOffset' = readOffset + got
        /\ c.piece.file = file /\ c.piece.at = readOffset /\ c.piece.len = got
        /\ c.last <=> readOffset + got >= files[file].size
        /\ c.total = IF c.last THEN readOffset + got ELSE 0
    BY <1>4 DEF Chunk, Piece
  <2>3. /\ got \in Nat \ {0} /\ got <= BLOCK_SIZE /\ readOffset + got <= files[file].length
        /\ got = BLOCK_SIZE \/ readOffset + got = files[file].length
    BY <1>4, <2>1, SomeRead DEF InputsSteady
  <2>4. /\ files[file].length \in Nat /\ files[file].size \in Nat
        /\ files[file].length >= files[file].size
    BY <2>1, FileTypes DEF InputsSteady
  <2>5. c.piece # None
    BY <1>1, <2>2, <2>3, NoneIsNoChunk DEF Piece, Pieces
  <2>6. ~ c.last => got = BLOCK_SIZE /\ readOffset + got < files[file].size
    BY <1>1, <2>2, <2>3, <2>4
  <2>7. WellCut(c)
    BY <1>1, <2>1, <2>2, <2>3, <2>4, <2>6 DEF WellCut
  <2>8. Position(c.piece.file, c.piece.at) = ReaderAt /\ After(c) = ReaderAt'
    BY <1>4, <2>1, <2>2 DEF ReaderAt, After
  <2>9. ReaderInFile'
    BY <1>4, <2>1, <2>2, <2>6 DEF ReaderInFile
  <2> QED BY <2>1, <2>5, <2>7, <2>8, <2>9 DEF NotGivenUp, Cutting
<1> QED BY <1>2, <1>3, <1>4 DEF CutNow

LEMMA CutSeamless ==
  ASSUME ListInv, InputsSteady, Unfailed, Seamless, OpenFails \/ EmptyFile \/ ReadBlock
  PROVE  Seamless'
<1>1. Types /\ Threads /\ PlacesInv
  BY DEF ListInv, PlacesInv
<1>2. PICK n \in Chunks :
        /\ CutNow(n)
        /\ n.seq = seqNo /\ seqNo' = seqNo + 1
        /\ n.piece # None => n \in CutChunks /\ n.piece.file = file
        /\ ChunksUnderWay' \subseteq ChunksUnderWay \cup {n}
        /\ UNCHANGED <<files, writer>>
  BY <1>1, ReaderCuts
<1>3. /\ n.piece # None =>
           /\ NotGivenUp /\ Position(n.piece.file, n.piece.at) = ReaderAt
           /\ WellCut(n)
           /\ NotGivenUp' /\ After(n) = ReaderAt'
      /\ n.piece = None => ~ NotGivenUp'
      /\ ReaderInFile'
  BY <1>1, <1>2, CutWell
<1>4. \A c \in ChunksUnderWay : c.seq \in nextExpected .. seqNo - 1
  BY <1>1, SeqsInRange
<1>5. /\ seqNo \in Nat /\ nextExpected \in Nat /\ nextExpected <= seqNo
      /\ nextExpected' = nextExpected /\ WriterAt' = WriterAt /\ files' = files
  BY <1>1, <1>2 DEF Types, Threads, WriterAt, writer
<1>6. ASSUME NEW c \in ChunksUnderWay', c.piece # None
      PROVE  /\ WellCut(c)'
             /\ c.seq = nextExpected => Position(c.piece.file, c.piece.at) = WriterAt
             /\ c.seq = seqNo' - 1 /\ NotGivenUp' => After(c) = ReaderAt'
  <2>1. CASE c = n
    <3>1. c.seq = nextExpected => ReaderAt = WriterAt
      BY <1>2, <1>3, <1>6, <2>1 DEF Seamless
    <3>2. WellCut(c)'
      BY <1>3, <1>5, <1>6, <2>1 DEF WellCut
    <3> QED BY <1>3, <1>6, <2>1, <3>1, <3>2
  <2>2. CASE c \in ChunksUnderWay
    <3>1. c.seq # seqNo' - 1
      BY <1>2, <1>4, <1>5, <2>2
    <3>2. WellCut(c)'
      BY <1>5, <1>6, <2>2 DEF Seamless, WellCut
    <3> QED BY <1>6, <2>2, <3>1, <3>2 DEF Seamless
  <2> QED BY <1>2, <2>1, <2>2
<1>7. ASSUME NEW c \in ChunksUnderWay', NEW d \in ChunksUnderWay',
             c.piece # None, d.piece # None, d.seq = c.seq + 1
      PROVE  After(c) = Position(d.piece.file, d.piece.at)
  <2>1. c \in ChunksUnderWay
    <3> SUFFICES ASSUME c = n PROVE FALSE
      BY <1>2
    <3>1. d.seq = seqNo + 1
      BY <1>2, <1>7
    <3> QED BY <1>2, <1>4, <1>5, <3>1
  <2>2. CASE d = n
    <3>1. c.seq = seqNo - 1
      BY <1>2, <1>4, <1>5, <1>7, <2>1, <2>2
    <3> QED BY <1>3, <1>7, <2>1, <2>2, <3>1 DEF Seamless
  <2>3. CASE d \in ChunksUnderWay
    BY <1>7, <2>1, <2>3 DEF Seamless
  <2> QED BY <1>2, <2>2, <2>3
<1>8. ASSUME ~ NotGivenUp'
      PROVE  /\ nextExpected < seqNo'
             /\ \A c \in ChunksUnderWay' : c.seq = seqNo' - 1 => c.piece = None
  <2>1. n.piece = None
    BY <1>3, <1>8
  <2>2. \A c \in ChunksUnderWay : c.seq # seqNo' - 1
    BY <1>2, <1>4, <1>5
  <2> QED BY <1>2, <1>5, <2>1, <2>2
<1>9. nextExpected # seqNo'
  BY <1>2, <1>5
<1> QED BY <1>3, <1>5, <1>6, <1>7, <1>8, <1>9 DEF Seamless, ReaderInFile

\* Where the writer stands once c is written: behind it.
LEMMA WriteMovesOn ==
  ASSUME ListInv, Unfailed, Seamless, OpenFileStored,
         NEW c \in ChunksUnderWay, c \in CutChunks, c.piece # None, c.seq = nextExpected, Write(c)
  PROVE  /\ WriterAt' = After(c)
         /\ c.piece.file = Len(table) + 1
         /\ c.piece.at = (Len(medium) - Start) * BLOCK_SIZE
         /\ Start \in Nat /\ Start <= Len(medium)
         /\ c.last /\ c.piece.len = 0 => fileStart = None
<1>1. Types /\ table \in Seq(Entries) /\ c.piece.file \in 1 .. Len(files)
  BY DEF ListInv, PlacesInv, OfTheList
<1>2. /\ medium' = IF c.piece.len > 0 THEN Append(medium, c.piece) ELSE medium
      /\ fileStart' = IF c.last THEN None ELSE Start
      /\ table' = IF c.last THEN Append(table, EntryOf(c, Start)) ELSE table
  BY <1>1, Entered
<1>3. /\ Len(table) \in Nat /\ Len(medium) \in Nat /\ c.piece \in Pieces
      /\ medium \in Seq(Pieces) /\ fileStart \in Nat \cup {None} /\ None \notin Nat
      /\ BLOCK_SIZE \in Nat \ {0}
  BY <1>1, PipelineAssumption, NothingAssumption DEF Types, CutChunks
<1>4. WellCut(c) /\ Position(c.piece.file, c.piece.at) = WriterAt
  BY DEF Seamless
<1>5. /\ c.piece.file = Len(table) + 1
      /\ c.piece.at = IF fileStart = None THEN 0 ELSE (Len(medium) - fileStart) * BLOCK_SIZE
  BY <1>4 DEF WriterAt, Position
<1>6. fileStart # None => fileStart < Len(medium)
  BY DEF OpenFileStored
<1>7. Start \in Nat /\ Start <= Len(medium) /\ c.piece.at = (Len(medium) - Start) * BLOCK_SIZE
  BY <1>3, <1>5, <1>6 DEF Start
<1>8. CASE c.last
  <2>1. WriterAt' = Position(Len(table) + 2, 0)
    BY <1>2, <1>3, <1>8 DEF WriterAt
  <2>2. After(c) = Position(Len(table) + 2, 0)
    BY <1>3, <1>5, <1>8 DEF After
  <2>3. c.piece.len = 0 => fileStart = None
    <3> SUFFICES ASSUME c.piece.len = 0, fileStart # None PROVE FALSE
      OBVIOUS
    <3>1. (Len(medium) - fileStart) * BLOCK_SIZE = 0
      BY <1>4, <1>5, <1>8 DEF WellCut
    <3>2. Len(medium) - fileStart \in Nat \ {0}
      BY <1>3, <1>6
    <3> QED BY <1>3, <3>1, <3>2
  <2> QED BY <1>5, <1>7, <2>1, <2>2, <2>3
<1>9. CASE ~ c.last
  <2>1. c.piece.len = BLOCK_SIZE
    BY <1>4, <1>9 DEF WellCut
  <2>2. medium' = Append(medium, c.piece) /\ Len(medium') = Len(medium) + 1
    BY <1>2, <1>3, <2>1
  <2>3. fileStart' = Start /\ table' = table
    BY <1>2, <1>9
  <2>4. WriterAt' = Position(Len(table) + 1, (Len(medium) + 1 - Start) * BLOCK_SIZE)
    <3>1. fileStart' # None /\ Len(medium') - fileStart' = Len(medium) + 1 - Start
      BY <1>3, <1>7, <2>2, <2>3
    <3>2. WriterAt' = Position(Len(table') + 1, (Len(medium') - fileStart') * BLOCK_SIZE)
      BY <3>1 DEF WriterAt
    <3> QED BY <2>3, <3>1, <3>2
  <2>5. After(c) = Position(Len(table) + 1, (Len(medium) - Start) * BLOCK_SIZE + BLOCK_SIZE)
    BY <1>5, <1>7, <1>9, <2>1 DEF After
  <2>6. (Len(medium) + 1 - Start) * BLOCK_SIZE = (Len(medium) - Start) * BLOCK_SIZE + BLOCK_SIZE
    <3>1. Len(medium) - Start \in Nat /\ Len(medium) + 1 - Start = (Len(medium) - Start) + 1
      BY <1>3, <1>7
    <3> QED BY <1>3, <3>1, SMT
  <2> QED BY <1>5, <1>7, <1>9, <2>4, <2>5, <2>6
<1> QED BY <1>8, <1>9

LEMMA WriteSeamless ==
  ASSUME ListInv, InputsSteady, Unfailed, Seamless, OpenFileStored,
         NEW c \in ChunksUnderWay, c \in CutChunks, c.piece # None, c.seq = nextExpected, Write(c),
         nextExpected' = nextExpected + 1,
         ChunksUnderWay' \subseteq ChunksUnderWay, UNCHANGED <<files, reader>>
  PROVE  Seamless'
<1>1. /\ Types /\ nextExpected \in Nat /\ seqNo \in Nat /\ nextExpected <= seqNo /\ seqNo' = seqNo
      /\ \A d \in ChunksUnderWay : d.seq \in nextExpected .. seqNo - 1
  BY SeqsInRange DEF ListInv, PlacesInv, Types, Threads, reader
<1>2. ReaderAt' = ReaderAt /\ (NotGivenUp' <=> NotGivenUp) /\ ReaderInFile'
  BY DEF Seamless, ReaderAt, NotGivenUp, Cutting, ReaderInFile, reader
<1>3. WriterAt' = After(c)
  BY WriteMovesOn
<1>4. ASSUME NEW d \in ChunksUnderWay', d.piece # None
      PROVE  /\ WellCut(d)'
             /\ d.seq = nextExpected' => Position(d.piece.file, d.piece.at) = WriterAt'
             /\ d.seq = seqNo' - 1 /\ NotGivenUp' => After(d) = ReaderAt'
  <2>1. WellCut(d)'
    BY <1>4 DEF Seamless, WellCut
  <2> QED BY <1>1, <1>2, <1>3, <1>4, <2>1 DEF Seamless
<1>5. \A b, d \in ChunksUnderWay' :
        b.piece # None /\ d.piece # None /\ d.seq = b.seq + 1 =>
          After(b) = Position(d.piece.file, d.piece.at)
  BY DEF Seamless
<1>6. nextExpected' = seqNo' /\ NotGivenUp' => WriterAt' = ReaderAt'
  <2> SUFFICES ASSUME nextExpected' = seqNo', NotGivenUp PROVE WriterAt' = ReaderAt
    BY <1>2
  <2>1. c.seq = seqNo - 1
    BY <1>1
  <2> QED BY <1>3, <2>1 DEF Seamless
<1>7. ASSUME ~ NotGivenUp'
      PROVE  /\ nextExpected' < seqNo'
             /\ \A d \in ChunksUnderWay' : d.seq = seqNo' - 1 => d.piece = None
  <2>1. \A d \in ChunksUnderWay : d.seq = seqNo - 1 => d.piece = None
    BY <1>2, <1>7 DEF Seamless
  <2>2. c.seq # seqNo - 1
    BY <2>1
  <2> QED BY <1>1, <2>1, <2>2
<1> QED BY <1>2, <1>4, <1>5, <1>6, <1>7 DEF Seamless, ReaderInFile

\* A whole block joins the ones of its file.
LEMMA BlockStored ==
  ASSUME ListInv, Unfailed, Seamless, OpenFileStored, EntriesReadable,
         NEW c \in ChunksUnderWay, c \in CutChunks, c.piece # None, c.seq = nextExpected, Write(c),
         ~ c.last
  PROVE  OpenFileStored' /\ EntriesReadable' /\ table' = table
<1>1. /\ Types /\ table \in Seq(Entries) /\ c.piece.file \in 1 .. Len(files)
      /\ c.piece \in Pieces /\ medium \in Seq(Pieces) /\ BLOCK_SIZE \in Nat \ {0}
  BY PipelineAssumption DEF ListInv, PlacesInv, OfTheList, Types, CutChunks
<1>2. c.piece.len = BLOCK_SIZE
  BY DEF Seamless, WellCut
<1>3. medium' = Append(medium, c.piece) /\ fileStart' = Start /\ table' = table
  BY <1>1, <1>2, Entered
<1>4. /\ c.piece.file = Len(table) + 1
      /\ c.piece.at = (Len(medium) - Start) * BLOCK_SIZE
      /\ Start \in Nat /\ Start <= Len(medium)
  BY WriteMovesOn
<1>5. /\ Len(medium) \in Nat /\ Len(medium') = Len(medium) + 1
      /\ \A i \in 1 .. Len(medium) : medium'[i] = medium[i]
      /\ medium'[Len(medium) + 1] = c.piece
  BY <1>1, <1>3
<1>6. c.piece = Piece(Len(table) + 1, (Len(medium) - Start) * BLOCK_SIZE, BLOCK_SIZE)
  BY <1>1, <1>2, <1>4 DEF Piece, Pieces
<1>7. ASSUME NEW i \in 1 .. Len(medium') - Start
      PROVE  medium'[Start + i] = Piece(Len(table) + 1, (i - 1) * BLOCK_SIZE, BLOCK_SIZE)
  <2>1. CASE i = Len(medium) + 1 - Start
    <3>1. Start + i = Len(medium) + 1 /\ i - 1 = Len(medium) - Start
      BY <1>4, <1>5, <2>1
    <3> QED BY <1>5, <1>6, <3>1
  <2>2. CASE i # Len(medium) + 1 - Start
    <3>1. i \in 1 .. Len(medium) - Start /\ Start + i \in 1 .. Len(medium)
      BY <1>4, <1>5, <2>2
    <3>2. fileStart # None /\ fileStart = Start
      BY <1>5, <3>1 DEF Start
    <3> QED BY <1>5, <3>1, <3>2 DEF OpenFileStored
  <2> QED BY <2>1, <2>2
<1>8. OpenFileStored'
  BY <1>3, <1>4, <1>5, <1>7 DEF OpenFileStored
<1>9. EntriesReadable'
  BY <1>1, <1>3, <1>5, ReadableStays DEF Entries
<1> QED BY <1>3, <1>8, <1>9

\* The last chunk of a file enters it into the table.
LEMMA FileEntered ==
  ASSUME ListInv, Unfailed, Seamless, OpenFileStored, EntriesReadable, EntriesOfFiles,
         NEW c \in ChunksUnderWay, c \in CutChunks, c.piece # None, c.seq = nextExpected, Write(c),
         c.last, UNCHANGED files
  PROVE  OpenFileStored' /\ EntriesReadable' /\ EntriesOfFiles'
<1>1. /\ Types /\ table \in Seq(Entries) /\ c.piece.file \in 1 .. Len(files)
      /\ c.piece \in Pieces /\ medium \in Seq(Pieces) /\ BLOCK_SIZE \in Nat \ {0}
  BY PipelineAssumption DEF ListInv, PlacesInv, OfTheList, Types, CutChunks
<1>2. /\ c.total = c.piece.at + c.piece.len
      /\ c.total >= files[c.piece.file].size
      /\ c.piece.len <= BLOCK_SIZE /\ c.piece.len \in Nat
  BY <1>1 DEF Seamless, WellCut, Pieces
<1> DEFINE e == EntryOf(c, Start)
<1>3. /\ medium' = IF c.piece.len > 0 THEN Append(medium, c.piece) ELSE medium
      /\ fileStart' = None
      /\ table' = Append(table, e)
  BY <1>1, Entered
<1>4. e.file = c.piece.file /\ e.offset = Start /\ e.size = c.total
  BY DEF EntryOf
<1>5. /\ c.piece.file = Len(table) + 1
      /\ c.piece.at = (Len(medium) - Start) * BLOCK_SIZE
      /\ Start \in Nat /\ Start <= Len(medium)
      /\ c.piece.len = 0 => fileStart = None
  BY WriteMovesOn
<1> HIDE DEF e
<1>6. /\ Len(table) \in Nat /\ Len(table') = Len(table) + 1
      /\ \A k \in 1 .. Len(table) : table'[k] = table[k]
      /\ table'[Len(table) + 1] = e
  BY <1>1, <1>3
<1>7. /\ Len(medium) \in Nat
      /\ Len(medium') = IF c.piece.len > 0 THEN Len(medium) + 1 ELSE Len(medium)
      /\ \A i \in 1 .. Len(medium) : medium'[i] = medium[i]
      /\ c.piece.len > 0 => medium'[Len(medium) + 1] = c.piece
  BY <1>1, <1>3
<1>8. OpenFileStored'
  BY <1>3 DEF OpenFileStored
<1>9. EntriesOfFiles'
  BY <1>1, <1>2, <1>4, <1>5, <1>6 DEF EntriesOfFiles
<1>10. ReadableEntry(e, medium')
  <2>1. CASE c.piece.len = 0
    <3>1. Len(medium) - Start = 0
      BY <1>5, <1>7, <2>1 DEF Start
    <3>2. e.size = 0
      BY <1>1, <1>2, <1>4, <1>5, <2>1, <3>1
    <3>3. ChunkCount(e.size) = 0
      BY <1>1, <3>2 DEF ChunkCount
    <3> QED BY <3>3 DEF ReadableEntry
  <2>2. CASE c.piece.len > 0
    <3> DEFINE n == Len(medium) - Start
    <3>1. n \in Nat /\ c.piece.len \in 1 .. BLOCK_SIZE /\ e.size = n * BLOCK_SIZE + c.piece.len
      BY <1>1, <1>2, <1>4, <1>5, <1>7, <2>2
    <3>2. /\ (n * BLOCK_SIZE + c.piece.len + BLOCK_SIZE - 1) \div BLOCK_SIZE = n + 1
          /\ n * BLOCK_SIZE \in Nat
          /\ \A i \in 1 .. n : /\ (i - 1) * BLOCK_SIZE \in Nat
                               /\ (i - 1) * BLOCK_SIZE + BLOCK_SIZE <= n * BLOCK_SIZE
      <4>1. n \in Nat /\ BLOCK_SIZE \in Nat \ {0} /\ c.piece.len \in 1 .. BLOCK_SIZE
        BY <1>1, <3>1
      <4> HIDE DEF n
      <4> QED BY <4>1, Blocks
    <3>3. ChunkCount(e.size) = n + 1
      BY <3>1, <3>2 DEF ChunkCount
    <3>4. ASSUME NEW i \in 1 .. n
          PROVE  /\ e.offset + i <= Len(medium')
                 /\ medium'[e.offset + i] = ChunkAt(e.file, e.size, i)
      <4>1. e.offset + i \in 1 .. Len(medium)
        BY <1>4, <1>5, <1>7, <3>1
      <4>2. fileStart # None /\ fileStart = Start
        BY <1>7, <3>4 DEF Start
      <4>3. medium[Start + i] = Piece(Len(table) + 1, (i - 1) * BLOCK_SIZE, BLOCK_SIZE)
        BY <4>2 DEF OpenFileStored
      <4>4. ~ (e.size - (i - 1) * BLOCK_SIZE < BLOCK_SIZE)
        <5> DEFINE before == (i - 1) * BLOCK_SIZE
                   all == n * BLOCK_SIZE
        <5>1. /\ before \in Nat /\ all \in Nat /\ before + BLOCK_SIZE <= all
              /\ e.size = all + c.piece.len /\ c.piece.len \in Nat /\ BLOCK_SIZE \in Nat
          BY <1>1, <1>2, <3>1, <3>2
        <5> HIDE DEF before, all
        <5>2. ~ (e.size - before < BLOCK_SIZE)
          BY <5>1
        <5> QED BY <5>2 DEF before
      <4>5. ChunkAt(e.file, e.size, i) = Piece(e.file, (i - 1) * BLOCK_SIZE, BLOCK_SIZE)
        BY <4>4 DEF ChunkAt
      <4> QED BY <1>4, <1>5, <1>7, <4>1, <4>3, <4>5
    <3>5. /\ e.offset + (n + 1) <= Len(medium')
          /\ medium'[e.offset + (n + 1)] = ChunkAt(e.file, e.size, n + 1)
      <4>1. e.offset + (n + 1) = Len(medium) + 1
        BY <1>4, <1>5, <1>7
      <4>2. ChunkAt(e.file, e.size, n + 1) = Piece(e.file, n * BLOCK_SIZE, c.piece.len)
        <5> HIDE DEF n
        <5>1. (n + 1) - 1 = n
          BY <3>1
        <5>2. e.size - n * BLOCK_SIZE = c.piece.len
          BY <1>2, <3>1, <3>2
        <5>3. (IF c.piece.len < BLOCK_SIZE THEN c.piece.len ELSE BLOCK_SIZE) = c.piece.len
          BY <1>1, <3>1
        <5> QED BY <5>1, <5>2, <5>3 DEF ChunkAt
      <4>3. c.piece = Piece(e.file, n * BLOCK_SIZE, c.piece.len)
        BY <1>1, <1>4, <1>5 DEF Piece, Pieces
      <4> QED BY <1>7, <2>2, <4>1, <4>2, <4>3
    <3>6. \A i \in 1 .. n + 1 : i \in 1 .. n \/ i = n + 1
      BY <3>1
    <3> HIDE DEF n
    <3> QED BY <3>3, <3>4, <3>5, <3>6 DEF ReadableEntry
  <2> QED BY <1>2, <2>1, <2>2
<1>11. \A k \in 1 .. Len(table) : ReadableEntry(table[k], medium')
  <2>1. \A k \in 1 .. Len(table) : ReadableEntry(table[k], medium)
    BY DEF EntriesReadable, ReadableEntry
  <2>2. Len(medium') \in Nat /\ Len(medium') >= Len(medium)
    BY <1>7
  <2> QED BY <1>1, <1>7, <2>1, <2>2, StillReadable
<1>12. EntriesReadable'
  BY <1>6, <1>10, <1>11 DEF EntriesReadable, ReadableEntry
<1> QED BY <1>8, <1>9, <1>12

LEMMA NextKeepsSteady == SteadyInv /\ [Next]_vars => SteadyInv'
<1> SUFFICES ASSUME SteadyInv, [Next]_vars PROVE SteadyInv'
  OBVIOUS
<1>1. ListInv /\ ListInv' /\ PlacesInv /\ Types /\ Threads
  BY NextKeepsList DEF SteadyInv, ListInv, PlacesInv
<1>2. files' = files
  BY DEF Next, Reader, OpenFails, EmptyFile, OpenFile, ReadBlock, EndOfInput, ReadThrows, PushTask,
     ReaderEnds, Worker, Encrypt, Takes, DiesOverChunk, DiesAtStart, PushResult, WorkerEnds, Writer, ProcessNext, StashEarly,
     ProcessStashed, LoopEnds, CloseReadQueue, CloseWriteQueue, RunEnds, Finished, vars
<1> DEFINE Goal == /\ Unfailed' => Seamless' /\ OpenFileStored'
                   /\ EntriesReadable' /\ EntriesOfFiles'
<1>3. SUFFICES ASSUME InputsSteady PROVE Goal
  BY <1>1, <1>2 DEF SteadyInv, InputsSteady
<1>4. (Unfailed => Seamless /\ OpenFileStored) /\ EntriesReadable /\ EntriesOfFiles
  BY <1>3 DEF SteadyInv
<1>5. UNCHANGED <<fileStart, medium, table>> =>
        /\ OpenFileStored' <=> OpenFileStored
        /\ EntriesReadable' /\ EntriesOfFiles'
        /\ WriterAt' = WriterAt
  BY <1>2, <1>4 DEF OpenFileStored, EntriesReadable, EntriesOfFiles, WriterAt
<1>6. CASE OpenFails \/ EmptyFile \/ ReadBlock
  <2>1. UNCHANGED writer /\ (Unfailed' <=> Unfailed)
    BY <1>6 DEF OpenFails, EmptyFile, ReadBlock, writer, Unfailed
  <2>2. Unfailed' => Seamless'
    BY <1>1, <1>3, <1>4, <1>6, <2>1, CutSeamless
  <2> QED BY <1>4, <1>5, <2>1, <2>2 DEF writer
<1>7. CASE OpenFile \/ EndOfInput \/ ReadThrows \/ ReaderEnds \/ PushTask
  <2>1. Kept /\ UNCHANGED <<files, seqNo, writer>>
    BY <1>1, <1>7, ReaderWalks, TaskMoves
  <2>2. UNCHANGED <<fileStart, medium, table, nextExpected>> /\ (Unfailed' <=> Unfailed)
    BY <2>1 DEF writer, Unfailed
  <2>3. Unfailed' => Seamless'
    BY <1>1, <1>3, <1>4, <1>5, <1>7, <2>1, <2>2, WalkSkipsNothing, KeptSeamless
  <2> QED BY <1>4, <1>5, <2>2, <2>3
<1>8. ASSUME UNCHANGED reader
      PROVE  /\ ReaderAt' = ReaderAt /\ (NotGivenUp' <=> NotGivenUp) /\ seqNo' = seqNo
             /\ ReaderInFile' <=> ReaderInFile
  BY <1>2, <1>8 DEF reader, ReaderAt, NotGivenUp, Cutting, ReaderInFile
<1>9. Unfailed => ReaderInFile
  BY <1>4 DEF Seamless, ReaderInFile
<1>10. ASSUME NEW w \in Workers, Worker(w) PROVE Goal
  <2>1. Kept /\ UNCHANGED <<reader, writer>>
    BY <1>1, <1>10, WorkersMove
  <2>2. UNCHANGED <<fileStart, medium, table, nextExpected>> /\ (Unfailed' <=> Unfailed)
    BY <2>1 DEF writer, Unfailed
  <2>3. Unfailed' => Seamless'
    BY <1>2, <1>4, <1>5, <1>8, <1>9, <2>1, <2>2, KeptSeamless
  <2> QED BY <1>4, <1>5, <2>2, <2>3
<1>11. CASE StashEarly \/ LoopEnds \/ CloseReadQueue \/ CloseWriteQueue \/ RunEnds
  <2>1. Kept /\ UNCHANGED <<reader, nextExpected, fileStart, medium, table>>
    BY <1>1, <1>11, WriterMoves
  <2>2. Unfailed' => Unfailed
    BY <1>11 DEF StashEarly, LoopEnds, CloseReadQueue, CloseWriteQueue, RunEnds, Unfailed
  <2>3. Unfailed' => Seamless'
    BY <1>2, <1>4, <1>5, <1>8, <1>9, <2>1, <2>2, KeptSeamless
  <2> QED BY <1>4, <1>5, <2>1, <2>2, <2>3
<1>12. CASE ProcessNext \/ ProcessStashed
  <2>1. PICK c \in ChunksUnderWay :
          /\ c \in Chunks /\ c.seq = nextExpected /\ Process(c) /\ Unfailed
          /\ ChunksUnderWay' \subseteq ChunksUnderWay
          /\ UNCHANGED <<files, reader>>
    BY <1>1, <1>12, WriterTakes
  <2>2. CASE wpc' = "failed" /\ UNCHANGED <<fileStart, medium, table>>
    BY <1>5, <2>2 DEF Unfailed
  <2>3. CASE c \in CutChunks /\ Write(c) /\ nextExpected' = nextExpected + 1
    <3>1. c.piece # None
      BY <2>3, NoneIsNoChunk DEF CutChunks
    <3>2. Seamless /\ OpenFileStored
      BY <1>4, <2>1
    <3>3. Seamless'
      BY <1>1, <1>3, <2>1, <2>3, <3>1, <3>2, WriteSeamless
    <3>4. OpenFileStored' /\ EntriesReadable' /\ EntriesOfFiles'
      <4>1. CASE c.last
        BY <1>1, <1>4, <2>1, <2>3, <3>1, <3>2, <4>1, FileEntered
      <4>2. CASE ~ c.last
        <5>1. OpenFileStored' /\ EntriesReadable' /\ table' = table
          BY <1>1, <1>4, <2>1, <2>3, <3>1, <3>2, <4>2, BlockStored
        <5> QED BY <1>2, <1>4, <5>1 DEF EntriesOfFiles
      <4> QED BY <4>1, <4>2
    <3> QED BY <3>3, <3>4
  <2> QED BY <1>1, <2>1, <2>2, <2>3, Processed
<1>13. CASE UNCHANGED vars
  <2>1. /\ UNCHANGED <<ChunksUnderWay, reader, nextExpected, fileStart, medium, table>>
        /\ Unfailed' <=> Unfailed
    BY <1>13 DEF ChunksUnderWay, Busy, Unfailed, vars, reader, workers, writer
  <2>2. Unfailed' => Seamless'
    BY <1>2, <1>4, <1>5, <1>8, <1>9, <2>1, SubsetKept, KeptSeamless
  <2> QED BY <1>4, <1>5, <2>1, <2>2
<1> QED BY <1>6, <1>7, <1>10, <1>11, <1>12, <1>13 DEF Next, Reader, Writer, Finished

LEMMA InitSteady == Init => SteadyInv
<1> SUFFICES ASSUME Init PROVE SteadyInv
  OBVIOUS
<1>1. ChunksUnderWay = {} /\ table = <<>> /\ medium = <<>> /\ fileStart = None
  BY DEF Init, ChunksUnderWay, Busy, EmptyQueue
<1>2. ListInv
  BY <1>1, InitPlaces DEF Init, ListInv, OfTheList, NamesDiffer
<1>3. Seamless
  BY <1>1 DEF Init, Seamless, NotGivenUp, Cutting, WriterAt, ReaderAt
<1>4. OpenFileStored /\ EntriesReadable /\ EntriesOfFiles
  BY <1>1 DEF OpenFileStored, EntriesReadable, EntriesOfFiles
<1> QED BY <1>2, <1>3, <1>4 DEF SteadyInv

\* With inputs that keep their size (readerTask reads what size() said), the pieces cut follow
\* one another without a gap and the writer's start of the open file is that file's.
THEOREM SteadyInvariant == Spec => []SteadyInv
BY InitSteady, NextKeepsSteady, PTL DEF Spec

\* With inputs that keep their size, what DecryptPipeline reads for an entry is
\* that file's content from its first cell to its last: at every moment, and
\* though the run fails.
THEOREM SteadyEntriesAlwaysReadable == Spec => []SteadyEntriesReadable
<1>1. SteadyInv => SteadyEntriesReadable
  BY DEF SteadyInv, SteadyEntriesReadable
<1> QED BY <1>1, SteadyInvariant, PTL

\* ... and when run() returns, every file of the list is in the table, in order
\* and in full: a thread that gave up would have made it throw.
THEOREM ReturnMeansAllFiles == Spec => []SuccessMeansAll
<1>1. SteadyInv => SuccessMeansAll
  <2> SUFFICES ASSUME SteadyInv, wpc = "returned", InputsSteady
               PROVE  /\ Len(table) = Len(files)
                      /\ \A k \in 1 .. Len(table) :
                           table[k].file = k /\ table[k].size >= files[k].size
    BY DEF SuccessMeansAll
  <2>1. /\ Types /\ Threads /\ ClosedByPushers /\ Seamless /\ EntriesOfFiles
        /\ table \in Seq(Entries)
    BY DEF SteadyInv, ListInv, PlacesInv, Unfailed
  <2>2. rpc = "end" /\ nextExpected = seqNo /\ seqNo \in Nat /\ file \in Nat /\ Len(files) \in Nat
    BY <2>1, PipelineAssumption DEF ClosedByPushers, Types
  <2>3. NotGivenUp
    BY <2>1, <2>2 DEF Seamless
  <2>4. file = Len(files) + 1
    BY <2>1, <2>2, <2>3 DEF NotGivenUp, Cutting, Threads
  <2>5. ReaderAt.file = file
    BY <2>2 DEF ReaderAt, Position
  <2>6. WriterAt.file = Len(table) + 1 /\ WriterAt = ReaderAt
    BY <2>1, <2>2, <2>3 DEF WriterAt, Position, Seamless
  <2>7. Len(table) = Len(files)
    BY <2>1, <2>2, <2>4, <2>5, <2>6
  <2> QED BY <2>1, <2>7 DEF EntriesOfFiles
<1> QED BY <1>1, SteadyInvariant, PTL
=============================================================================
