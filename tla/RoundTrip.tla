----------------------------- MODULE RoundTrip -----------------------------
(***************************************************************************)
(* EncryptPipeline fills a container, then DecryptPipeline takes files out *)
(* of it.  Between the two the table has been committed, which SlotCommit  *)
(* is about, and a chunk may have gone bad.                                *)
(***************************************************************************)
EXTENDS EncryptPipeline

CONSTANTS Requests, OutputOf(_)

\* The chunks of DecryptPipeline.
ReadBackChunks ==
  [seq : Nat, name : Names, piece : Pieces \cup {None}, last : BOOLEAN, sum : Entries,
   error : BOOLEAN]

\* No file has an empty name, so None can stand for the empty currentFileName.
ASSUME ExtractAssumption ==
  /\ Requests \subseteq Seq(Names)
  /\ None \notin Names /\ None \notin ReadBackChunks

VARIABLES damaged, unreadable, entries, xrpc, entry, chunk, xSeqNo, xTask, xReadQueue,
          xWriteQueue, xResult, xEnded, xStage, xwpc, xNextExpected, xReorderBuf, current, hashed,
          outputs, checksumFailures_

Dec == INSTANCE DecryptPipeline WITH
         rpc <- xrpc, seqNo <- xSeqNo, task <- xTask, readQueue_ <- xReadQueue,
         writeQueue_ <- xWriteQueue, result <- xResult, ended <- xEnded, stage <- xStage, wpc <- xwpc,
         nextExpected <- xNextExpected, reorderBuf <- xReorderBuf

extraction ==
  <<damaged, unreadable, entries, xrpc, entry, chunk, xSeqNo, xTask, xReadQueue, xWriteQueue,
    xResult, xEnded, xStage, xwpc, xNextExpected, xReorderBuf, current, hashed, outputs,
    checksumFailures_>>

RTInit == Init /\ Dec!Init

Encrypting == ~ Over /\ Next /\ UNCHANGED extraction

\* A container that could not be filled has no table to extract from.
Extracting == wpc = "returned" /\ Dec!Next /\ UNCHANGED vars

RTNext == Encrypting \/ Extracting

RTSpec ==
  /\ RTInit /\ [][RTNext]_<<vars, extraction>>
  /\ WF_vars(Reader)
  /\ \A w \in Workers : WF_vars(Worker(w))
  /\ WF_vars(Writer)
  /\ Dec!Fairness

-----------------------------------------------------------------------------
\* No output mixes two files or holds what did not authenticate, and a run that returns
\* has extracted all it was asked for: see DecryptPipeline.
OutputsHoldOneFile == Dec!OutputsHoldOneFile
ReturnMeansExtracted == Dec!ReturnMeansExtracted

\* Both runs end, whichever chunks and writes fail and whichever queue is full at the
\* time.  Nothing but one thing keeps them from it: a pool task has died of an exception,
\* the reader on a read that fails or a worker on its CryptoContext or the buffer of a
\* result, and the writer waits in its loop on writeQueue_, which nobody closes now.
RunsEnd == EndsOrWaits /\ Dec!ExtractEndsOrWaits

\* What was put in comes out: when both runs return, the inputs did not change
\* and no chunk has gone bad, every output is what its input file was, under a
\* name no other entry has, and none is reported.
PutInComesOut ==
  InputsSteady /\ damaged = {} /\ xwpc = "returned" =>
    /\ checksumFailures_ = {}
    /\ DOMAIN outputs = {OutputOf(entries[k].name) : k \in 1 .. Len(entries)}
    /\ \A j, k \in 1 .. Len(table) : table[j].name = table[k].name => j = k
    /\ \A k \in 1 .. Len(entries) :
         /\ files[entries[k].file].name.stem = entries[k].name.stem
         /\ files[entries[k].file].size <= entries[k].size
         /\ outputs[OutputOf(entries[k].name)] = Dec!Content(entries[k])
=============================================================================
