-------------------------- MODULE RoundTrip_proofs --------------------------
(***************************************************************************)
(* For any number of workers, any queue capacity and block size, any lists *)
(* of input files and any requests: an output never mixes two files, a     *)
(* run that returns has extracted all it was asked for, and what was put   *)
(* in comes out.  EncryptPipeline_proofs is about the first half.          *)
(***************************************************************************)
EXTENDS RoundTrip, EncryptPipeline_proofs

-----------------------------------------------------------------------------
(***************************************************************************)
(* The plan: which chunk of which entry each sequence number stands for.   *)
(* Chunks carry neither, so the invariant says that there is a plan they   *)
(* all follow, from the reader to the outputs.                             *)
(***************************************************************************)
Places == [entry : Nat \ {0}, chunk : Nat \ {0}]
Place(k, i) == [entry |-> k, chunk |-> i]

Count(k) == Dec!ChunkCount(entries[k].size)
IsLast(p) == p.chunk >= Count(p.entry)

\* The place after p: the next chunk, or the first one of the next entry.
NextPlace(p) == IF IsLast(p) THEN Place(p.entry + 1, 1) ELSE Place(p.entry, p.chunk + 1)
Following(plan) == IF plan = <<>> THEN Place(1, 1) ELSE NextPlace(plan[Len(plan)])

Earlier(p, q) == p.entry < q.entry \/ (p.entry = q.entry /\ p.chunk < q.chunk)

\* Every chunk of every entry in turn, one place for an entry without chunks.
IsPlan(plan) ==
  \A m \in 1 .. Len(plan) :
    /\ plan[m].entry <= Len(entries)
    /\ plan[m].chunk = 1 \/ plan[m].chunk <= Count(plan[m].entry)
    /\ plan[m] = IF m = 1 THEN Place(1, 1) ELSE NextPlace(plan[m - 1])
    /\ \A l \in 1 .. m - 1 : Earlier(plan[l], plan[m])
    /\ \A k \in 1 .. plan[m].entry - 1 :
         \E l \in 1 .. m - 1 : plan[l].entry = k /\ IsLast(plan[l])

EntryAt(plan, m) == entries[plan[m].entry]
OutputAt(plan, m) == OutputOf(EntryAt(plan, m).name)

-----------------------------------------------------------------------------
\* Chunks not yet decrypted, and those that have been.
Fetched ==
  ItemsOf(xReadQueue.items) \cup (IF xTask = None THEN {} ELSE {xTask})
InHand == {xResult[w] : w \in Workers} \ {None}
Decrypted == ItemsOf(xWriteQueue.items) \cup InHand \cup xReorderBuf

\* c is the chunk its number stands for.
FollowsPlan(c, plan) ==
  LET e == EntryAt(plan, c.seq + 1)
      p == plan[c.seq + 1]
  IN  /\ c.seq < Len(plan)
      /\ c.name = e.name
      /\ c.sum = e
      /\ c.last <=> IsLast(p)
      /\ c.piece = IF e.size = 0 THEN Dec!EmptyPiece ELSE Dec!Stored(e, p.chunk)

\* All chunks under way.
InTransit == Fetched \cup Decrypted

\* What does not authenticate has been made an error.
Checked(c) == c.error \/ c.piece # None

\* Where the reader goes on, unless an exception has ended it.
FetchAt ==
  IF xrpc = "read" THEN Place(entry, chunk)
  ELSE IF xrpc = "push" THEN NextPlace(Place(entry, chunk))
  ELSE Place(entry, 1)

StoredUpTo(p) ==
  LET e == entries[p.entry]
  IN  [i \in 1 .. (IF e.size = 0 THEN 0 ELSE p.chunk) |-> Dec!Stored(e, i)]

Intact(e) == Dec!StoredContent(e) = Dec!Content(e)

\* The writer's state after the first n chunks of the plan.
WrittenAs(plan, n, open, hash, outs, failures) ==
  /\ n = 0 \/ IsLast(plan[n]) => open = None /\ hash = <<>>
  /\ n # 0 /\ ~ IsLast(plan[n]) =>
       open = EntryAt(plan, n).name /\ hash = StoredUpTo(plan[n])
  /\ DOMAIN outs = {OutputAt(plan, m) : m \in 1 .. n}
  /\ \A out \in DOMAIN outs :
       \E m \in 1 .. n :
         /\ OutputAt(plan, m) = out
         /\ \A l \in m + 1 .. n : OutputAt(plan, l) # out
         /\ outs[out] = StoredUpTo(plan[m])
  /\ failures =
       {EntryAt(plan, m).name :
          m \in {l \in 1 .. n : IsLast(plan[l]) /\ ~ Intact(EntryAt(plan, l))}}

Written(plan, n) == WrittenAs(plan, n, current, hashed, outputs, checksumFailures_)

Follows(plan) ==
  /\ Len(plan) = xSeqNo
  /\ IsPlan(plan)
  /\ xrpc # "end" \/ entry > Len(entries) => Following(plan) = FetchAt
  /\ \A c \in InTransit : FollowsPlan(c, plan)
  /\ Written(plan, xNextExpected)

-----------------------------------------------------------------------------
(***************************************************************************)
(* The invariant.                                                          *)
(***************************************************************************)
ExtractTypes ==
  /\ entries \in Seq(Entries)
  /\ xrpc \in {"idle", "next", "read", "push", "end"}
  /\ entry \in Nat \ {0}
  /\ chunk \in Nat \ {0}
  /\ xSeqNo \in Nat
  /\ xTask \in ReadBackChunks \cup {None}
  /\ xReadQueue \in QueuesOf(ReadBackChunks)
  /\ xWriteQueue \in QueuesOf(ReadBackChunks)
  /\ xResult \in [Workers -> ReadBackChunks \cup {None}]
  /\ xEnded \in SUBSET Workers
  /\ xwpc \in {"idle", "refused", "loop", "failed", "close", "drain", "wait", "returned", "threw"}
  /\ xNextExpected \in Nat
  /\ xReorderBuf \in SUBSET ReadBackChunks

\* Before extract, or when it has refused a name, nothing has happened.
Untouched ==
  /\ entries = <<>>
  /\ xrpc = "idle" /\ entry = 1 /\ chunk = 1 /\ xSeqNo = 0 /\ xTask = None
  /\ xReadQueue = EmptyQueue /\ xWriteQueue = EmptyQueue
  /\ xResult = [w \in Workers |-> None] /\ xEnded = {}
  /\ xNextExpected = 0 /\ xReorderBuf = {}
  /\ current = None /\ hashed = <<>> /\ outputs = <<>> /\ checksumFailures_ = {}

ExtractThreads ==
  /\ xwpc \in {"idle", "refused"} => Untouched
  /\ xrpc = "push" <=> xTask # None
  /\ entry <= Len(entries) + 1
  /\ xrpc \in {"read", "push"} => entry <= Len(entries) /\ chunk <= Count(entry)
  /\ xrpc = "push" => (xTask.last <=> IsLast(Place(entry, chunk)))
  /\ \A w \in xEnded : xResult[w] = None
  /\ xEnded # {} => xReadQueue.closed /\ xReadQueue.items = <<>>
  /\ xNextExpected <= xSeqNo

\* The entries asked for are entries of the table.
OfTheTable ==
  \A k \in 1 .. Len(entries) : \E j \in 1 .. Len(table) : entries[k] = table[j]

ExtractUnfailed == xwpc \in {"idle", "refused", "loop", "wait", "returned"}

\* Until the writer fails, a queue is closed by those who push to it, when they
\* have nothing left to push.
ClosedInTurn ==
  /\ xReadQueue.closed => xrpc = "end" /\ entry > Len(entries)
  /\ xWriteQueue.closed => xEnded = Workers
  /\ xwpc \in {"wait", "returned"} => xReadQueue.closed /\ xNextExpected = xSeqNo

\* ... and every number given out and not yet written is under way.
NoneMissing ==
  \A s \in xNextExpected .. xSeqNo - 1 : \E c \in InTransit : c.seq = s

ExtractInv ==
  /\ ExtractTypes
  /\ ExtractThreads
  /\ OfTheTable
  /\ \A c \in Decrypted : Checked(c)
  /\ OutputsHoldOneFile
  /\ ExtractUnfailed =>
       ClosedInTurn /\ NoneMissing /\ \E plan \in Seq(Places) : Follows(plan)

\* An entry is named after its input file.
StemsKept ==
  \A k \in 1 .. Len(table) : table[k].name.stem = files[table[k].file].name.stem

RoundTripInv ==
  /\ SteadyInv
  /\ StemsKept
  /\ wpc # "returned" => xwpc = "idle"
  /\ ExtractInv

-----------------------------------------------------------------------------
(***************************************************************************)
(* Queues, sizes and places.                                               *)
(***************************************************************************)

\* Both pipelines use their queues alike.
LEMMA SameQueues ==
  ASSUME NEW q, NEW c
  PROVE  Dec!Pushed(q, c) = Pushed(q, c) /\ Dec!Popped(q) = Popped(q) /\ Dec!Closed(q) = Closed(q)
BY DEF Dec!Pushed, Pushed, Dec!Popped, Popped, Dec!Closed, Closed

\* A file of some size has a chunk, and none of its chunks is empty.
LEMMA CountOfSize ==
  ASSUME NEW size \in Nat
  PROVE  /\ Dec!ChunkCount(size) \in Nat
         /\ Dec!ChunkCount(size) = 0 <=> size = 0
         /\ \A i \in 1 .. Dec!ChunkCount(size) : Dec!ChunkLen(size, i) \in Nat \ {0}
<1> DEFINE B == BLOCK_SIZE
           x == size + B - 1
           q == x \div B
<1>1. B \in Nat \ {0} /\ x \in Nat
  BY PipelineAssumption
<1>2. q \in Int /\ q * B \in Int /\ q * B <= x /\ x < q * B + B
  <2>1. x = B * q + (x % B) /\ x % B \in 0 .. (B - 1) /\ q \in Int
    BY <1>1
  <2>2. q * B = B * q /\ q * B \in Int
    BY <1>1, <2>1
  <2> HIDE DEF x, q
  <2> QED BY <1>1, <2>1, <2>2
<1>3. Dec!ChunkCount(size) = q
  BY DEF Dec!ChunkCount
<1>4. x = size + B - 1
  OBVIOUS
<1> HIDE DEF x, q
<1>5. q \in Nat
  <2> SUFFICES ASSUME q < 0 PROVE FALSE
    BY <1>2
  <2>1. -1 - q \in Nat
    BY <1>2
  <2>2. (-1 - q) * B \in Nat /\ (-1 - q) * B = - B - q * B
    BY <1>1, <1>2, <2>1
  <2> QED BY <1>1, <1>2, <2>2
<1>6. size = 0 => q = 0
  <2> SUFFICES ASSUME size = 0, q >= 1 PROVE FALSE
    BY <1>5
  <2>1. q - 1 \in Nat
    BY <1>5
  <2>2. (q - 1) * B \in Nat /\ (q - 1) * B = q * B - B
    BY <1>1, <1>2, <2>1
  <2> QED BY <1>1, <1>2, <1>4, <2>2
<1>7. q = 0 => size = 0
  <2> SUFFICES ASSUME q = 0 PROVE size = 0
    OBVIOUS
  <2>1. q * B = 0
    BY <1>1
  <2> QED BY <1>1, <1>2, <1>4, <2>1
<1>8. ASSUME NEW i \in 1 .. q PROVE Dec!ChunkLen(size, i) \in Nat \ {0}
  <2>1. q - i \in Nat /\ i - 1 \in Nat
    BY <1>5
  <2>2. /\ (q - i) * B \in Nat /\ (i - 1) * B \in Nat
        /\ q * B = (q - i) * B + (i - 1) * B + B
    <3>1. \A j, k \in Nat : j * B \in Nat /\ (j + k + 1) * B = j * B + k * B + B
      BY <1>1
    <3>2. q = (q - i) + (i - 1) + 1
      BY <1>5
    <3> QED BY <2>1, <3>1, <3>2
  <2>3. size - (i - 1) * B \in Nat \ {0}
    BY <1>1, <1>2, <1>4, <2>2
  <2> DEFINE left == size - (i - 1) * B
  <2>4. Dec!ChunkLen(size, i) = IF left < B THEN left ELSE B
    BY DEF Dec!ChunkLen
  <2>5. left \in Nat \ {0}
    BY <2>3
  <2> HIDE DEF left
  <2> QED BY <1>1, <2>4, <2>5
<1> QED BY <1>3, <1>5, <1>6, <1>7, <1>8

LEMMA EntryTypes ==
  ASSUME ExtractTypes, NEW k \in 1 .. Len(entries)
  PROVE  /\ entries[k] \in Entries
         /\ entries[k].size \in Nat /\ entries[k].offset \in Nat /\ entries[k].name \in Names
         /\ Count(k) \in Nat
         /\ Count(k) = 0 <=> entries[k].size = 0
<1>1. entries[k] \in Entries
  BY DEF ExtractTypes
<1> QED BY <1>1, CountOfSize DEF Entries, Count

\* What a chunk of the medium reads back as.
LEMMA StoredPiece ==
  ASSUME medium \in Seq(Pieces), NEW e \in Entries, NEW i \in Nat \ {0}
  PROVE  /\ Dec!Stored(e, i) \in Pieces \cup {None}
         /\ Dec!Stored(e, i) # None => Dec!Stored(e, i).len = Dec!ChunkLen(e.size, i)
<1>1. CASE Dec!InStep(e, i) /\ e.offset + i \notin damaged
  <2>1. /\ e.offset + i \in 1 .. Len(medium)
        /\ medium[e.offset + i].len = Dec!ChunkLen(e.size, i)
    BY <1>1 DEF Dec!InStep
  <2>2. Dec!Stored(e, i) = medium[e.offset + i]
    BY <1>1 DEF Dec!Stored
  <2>3. medium[e.offset + i] \in Pieces
    BY <2>1
  <2> QED BY <2>1, <2>2, <2>3
<1>2. CASE ~ (Dec!InStep(e, i) /\ e.offset + i \notin damaged)
  BY <1>2 DEF Dec!Stored
<1> QED BY <1>1, <1>2

LEMMA EmptyPieceIsPiece == Dec!EmptyPiece \in Pieces /\ Dec!EmptyPiece # None /\ Dec!EmptyPiece.len = 0
BY NoneIsNoChunk DEF Dec!EmptyPiece, Pieces

LEMMA NextPlaceTyped ==
  ASSUME NEW p \in Places
  PROVE  NextPlace(p) \in Places /\ Earlier(p, NextPlace(p))
BY DEF NextPlace, Place, Places, Earlier

LEMMA EarlierIsTransitive ==
  ASSUME NEW p \in Places, NEW q \in Places, NEW r \in Places, Earlier(p, q), Earlier(q, r)
  PROVE  Earlier(p, r)
BY DEF Places, Earlier

-----------------------------------------------------------------------------
(***************************************************************************)
(* Chunks on their way.                                                    *)
(***************************************************************************)
LEMMA Pushes ==
  ASSUME NEW q \in QueuesOf(ReadBackChunks), NEW c \in ReadBackChunks
  PROVE  /\ Dec!Pushed(q, c) \in QueuesOf(ReadBackChunks)
         /\ Dec!Pushed(q, c).closed = q.closed
         /\ q.closed => Dec!Pushed(q, c) = q
         /\ ItemsOf(Dec!Pushed(q, c).items) \subseteq ItemsOf(q.items) \cup {c}
         /\ ~ q.closed => ItemsOf(Dec!Pushed(q, c).items) = ItemsOf(q.items) \cup {c}
<1>1. q.items \in Seq(ReadBackChunks)
  BY DEF QueuesOf
<1>2. ItemsOf(Append(q.items, c)) = ItemsOf(q.items) \cup {c}
  BY <1>1, AppendedItems
<1>3. /\ Pushed(q, c) \in QueuesOf(ReadBackChunks)
      /\ Pushed(q, c).closed = q.closed
      /\ q.closed => Pushed(q, c) = q
      /\ ~ q.closed => Pushed(q, c).items = Append(q.items, c)
  BY PushedQueue
<1>4. ItemsOf(Pushed(q, c).items) \subseteq ItemsOf(q.items) \cup {c}
  BY PushedItems
<1>5. Dec!Pushed(q, c) = Pushed(q, c)
  BY SameQueues
<1> QED BY <1>2, <1>3, <1>4, <1>5

LEMMA Pops ==
  ASSUME NEW q \in QueuesOf(ReadBackChunks), q.items # <<>>
  PROVE  /\ Dec!Popped(q) \in QueuesOf(ReadBackChunks)
         /\ Head(q.items) \in ReadBackChunks
         /\ Dec!Popped(q).closed = q.closed
         /\ ItemsOf(q.items) = ItemsOf(Dec!Popped(q).items) \cup {Head(q.items)}
<1> DEFINE s == q.items
           t == Tail(q.items)
<1>1. /\ Dec!Popped(q) \in QueuesOf(ReadBackChunks)
      /\ Head(q.items) \in ReadBackChunks
      /\ Dec!Popped(q).closed = q.closed
      /\ Dec!Popped(q).items = t
  BY SameQueues, PoppedQueue
<1>2. s \in Seq(ReadBackChunks) /\ s # <<>>
  BY DEF QueuesOf
<1>3. /\ Len(s) \in Nat \ {0} /\ Len(t) = Len(s) - 1 /\ Head(s) = s[1]
      /\ \A i \in 1 .. Len(t) : t[i] = s[i + 1]
  BY <1>2
<1> HIDE DEF s, t
<1>4. ItemsOf(t) \cup {Head(s)} \subseteq ItemsOf(s)
  BY <1>3 DEF ItemsOf
<1>5. ASSUME NEW i \in 1 .. Len(s) PROVE s[i] \in ItemsOf(t) \cup {Head(s)}
  <2>1. CASE i = 1
    BY <1>3, <2>1
  <2>2. CASE i # 1
    <3>1. i - 1 \in 1 .. Len(t) /\ t[i - 1] = s[i]
      BY <1>3, <2>2
    <3> QED BY <3>1 DEF ItemsOf
  <2> QED BY <2>1, <2>2
<1>6. ItemsOf(s) \subseteq ItemsOf(t) \cup {Head(s)}
  BY <1>5 DEF ItemsOf
<1> QED BY <1>1, <1>4, <1>6 DEF s

LEMMA Closes ==
  ASSUME NEW q \in QueuesOf(ReadBackChunks)
  PROVE  /\ Dec!Closed(q) \in QueuesOf(ReadBackChunks)
         /\ Dec!Closed(q).closed
         /\ Dec!Closed(q).items = q.items
BY SameQueues, ClosedQueue

LEMMA NoItems == ItemsOf(<<>>) = {}
BY DEF ItemsOf

\* What a worker takes into its hands, and gives out of them.
LEMMA Handed ==
  ASSUME ExtractTypes, NEW w \in Workers, xResult[w] = None, NEW c \in ReadBackChunks,
         xResult' = [xResult EXCEPT ![w] = c]
  PROVE  /\ xResult' \in [Workers -> ReadBackChunks \cup {None}]
         /\ \A v \in Workers : xResult'[v] = IF v = w THEN c ELSE xResult[v]
         /\ InHand' = InHand \cup {c}
<1>1. /\ xResult' \in [Workers -> ReadBackChunks \cup {None}]
      /\ \A v \in Workers : xResult'[v] = IF v = w THEN c ELSE xResult[v]
  BY DEF ExtractTypes
<1>2. c # None
  BY ExtractAssumption
<1> QED BY <1>1, <1>2 DEF InHand

LEMMA Gives ==
  ASSUME ExtractTypes, NEW w \in Workers, xResult[w] # None,
         xResult' = [xResult EXCEPT ![w] = None]
  PROVE  /\ xResult' \in [Workers -> ReadBackChunks \cup {None}]
         /\ \A v \in Workers : xResult'[v] = IF v = w THEN None ELSE xResult[v]
         /\ xResult[w] \in ReadBackChunks
         /\ InHand = InHand' \cup {xResult[w]}
<1>1. /\ xResult' \in [Workers -> ReadBackChunks \cup {None}]
      /\ \A v \in Workers : xResult'[v] = IF v = w THEN None ELSE xResult[v]
      /\ xResult[w] \in ReadBackChunks
  BY DEF ExtractTypes
<1>2. InHand = InHand' \cup {xResult[w]}
  BY <1>1 DEF InHand
<1> QED BY <1>1, <1>2

LEMMA TransitTyped ==
  ASSUME ExtractTypes, NEW c \in InTransit
  PROVE  c \in ReadBackChunks /\ c.seq \in Nat
<1>1. /\ xReadQueue.items \in Seq(ReadBackChunks) /\ xWriteQueue.items \in Seq(ReadBackChunks)
  BY DEF ExtractTypes, QueuesOf
<1>2. /\ ItemsOf(xReadQueue.items) \subseteq ReadBackChunks
      /\ ItemsOf(xWriteQueue.items) \subseteq ReadBackChunks
  BY <1>1 DEF ItemsOf
<1>3. c \in ReadBackChunks
  BY <1>2 DEF InTransit, Fetched, Decrypted, InHand, ExtractTypes
<1> QED BY <1>3 DEF ReadBackChunks

\* Chunks that stay what they are, wherever they are now: none is lost, none is new.
Same(c, d) ==
  c.seq = d.seq /\ c.name = d.name /\ c.piece = d.piece /\ c.last = d.last /\ c.sum = d.sum

Moved ==
  /\ \A c \in InTransit' : \E d \in InTransit : Same(c, d)
  /\ \A d \in InTransit : \E c \in InTransit' : c.seq = d.seq

LEMMA NoneMoved ==
  ASSUME InTransit' = InTransit
  PROVE  Moved
BY DEF Moved, Same

\* What is read, decrypted and written depends on these alone.
stored == <<medium, table, damaged, entries>>

LEMMA PlacesStay ==
  ASSUME UNCHANGED stored
  PROVE  /\ \A e, i : Dec!Stored(e, i)' = Dec!Stored(e, i)
         /\ \A e : Dec!StoredContent(e)' = Dec!StoredContent(e)
         /\ \A e : Intact(e)' <=> Intact(e)
         /\ \A k : Count(k)' = Count(k)
         /\ \A p : (IsLast(p)' <=> IsLast(p)) /\ NextPlace(p)' = NextPlace(p)
         /\ \A p : StoredUpTo(p)' = StoredUpTo(p)
         /\ \A plan : (IsPlan(plan)' <=> IsPlan(plan)) /\ Following(plan)' = Following(plan)
         /\ \A plan, m : EntryAt(plan, m)' = EntryAt(plan, m)
         /\ \A plan, m : OutputAt(plan, m)' = OutputAt(plan, m)
<1>1. medium' = medium /\ damaged' = damaged /\ entries' = entries
  BY DEF stored
<1>2. \A e, i : Dec!Stored(e, i)' = Dec!Stored(e, i)
  BY <1>1 DEF Dec!Stored, Dec!InStep
<1>3. \A e : Dec!StoredContent(e)' = Dec!StoredContent(e)
  BY <1>2 DEF Dec!StoredContent
<1>4. \A e : Intact(e)' <=> Intact(e)
  BY <1>3 DEF Intact, Dec!Content
<1>5. \A k : Count(k)' = Count(k)
  BY <1>1 DEF Count
<1>6. \A p : (IsLast(p)' <=> IsLast(p)) /\ NextPlace(p)' = NextPlace(p)
  BY <1>5 DEF IsLast, NextPlace
<1>7. \A p : StoredUpTo(p)' = StoredUpTo(p)
  BY <1>1, <1>2 DEF StoredUpTo
<1>8. \A plan : (IsPlan(plan)' <=> IsPlan(plan)) /\ Following(plan)' = Following(plan)
  BY <1>1, <1>5, <1>6 DEF IsPlan, Following
<1>9. /\ \A plan, m : EntryAt(plan, m)' = EntryAt(plan, m)
      /\ \A plan, m : OutputAt(plan, m)' = OutputAt(plan, m)
  BY <1>1 DEF EntryAt, OutputAt
<1> QED BY <1>2, <1>3, <1>4, <1>5, <1>6, <1>7, <1>8, <1>9

-----------------------------------------------------------------------------
(***************************************************************************)
(* The plan, as the reader goes on and as chunks move.                     *)
(***************************************************************************)
LEMMA PlanGrows ==
  ASSUME NEW plan \in Seq(Places), IsPlan(plan), NEW p \in Places, p = Following(plan),
         p.entry <= Len(entries), p.chunk = 1 \/ p.chunk <= Count(p.entry)
  PROVE  /\ Append(plan, p) \in Seq(Places)
         /\ IsPlan(Append(plan, p))
         /\ Following(Append(plan, p)) = NextPlace(p)
<1> DEFINE new == Append(plan, p)
           n == Len(plan)
<1>1. /\ new \in Seq(Places) /\ n \in Nat /\ Len(new) = n + 1 /\ new # <<>>
      /\ \A m \in 1 .. n : new[m] = plan[m] /\ plan[m] \in Places
      /\ new[n + 1] = p
  OBVIOUS
<1> HIDE DEF new, n
<1>2. p = IF n = 0 THEN Place(1, 1) ELSE NextPlace(plan[n])
  BY <1>1 DEF Following, n
<1>3. ASSUME NEW l \in 1 .. n PROVE Earlier(plan[l], p)
  <2>1. Earlier(plan[n], p) /\ n \in 1 .. n
    BY <1>1, <1>2, NextPlaceTyped
  <2>2. CASE l = n
    BY <2>1, <2>2
  <2>3. CASE l # n
    <3>1. l \in 1 .. n - 1
      BY <1>1, <2>3
    <3>2. Earlier(plan[l], plan[n])
      BY <2>1, <3>1 DEF IsPlan, n
    <3> QED BY <1>1, <2>1, <3>2, EarlierIsTransitive
  <2> QED BY <2>2, <2>3
<1>4. ASSUME NEW k \in 1 .. p.entry - 1
      PROVE  \E l \in 1 .. n : plan[l].entry = k /\ IsLast(plan[l])
  <2>1. n # 0
    BY <1>2 DEF Place
  <2>2. plan[n] \in Places /\ n \in 1 .. n /\ p = NextPlace(plan[n])
    BY <1>1, <1>2, <2>1
  <2>3. \A j \in 1 .. plan[n].entry - 1 :
          \E l \in 1 .. n - 1 : plan[l].entry = j /\ IsLast(plan[l])
    BY <2>2 DEF IsPlan, n
  <2>4. CASE k \in 1 .. plan[n].entry - 1
    BY <1>1, <2>3, <2>4
  <2>5. CASE k \notin 1 .. plan[n].entry - 1
    <3>1. IsLast(plan[n]) /\ plan[n].entry = k
      BY <2>2, <2>5 DEF NextPlace, Place, Places
    <3> QED BY <2>2, <3>1
  <2> QED BY <2>4, <2>5
<1>5. ASSUME NEW m \in 1 .. n + 1
      PROVE  /\ new[m].entry <= Len(entries)
             /\ new[m].chunk = 1 \/ new[m].chunk <= Count(new[m].entry)
             /\ new[m] = IF m = 1 THEN Place(1, 1) ELSE NextPlace(new[m - 1])
             /\ \A l \in 1 .. m - 1 : Earlier(new[l], new[m])
             /\ \A k \in 1 .. new[m].entry - 1 :
                  \E l \in 1 .. m - 1 : new[l].entry = k /\ IsLast(new[l])
  <2>1. CASE m = n + 1
    <3>1. new[m] = p /\ m - 1 = n /\ \A l \in 1 .. m - 1 : new[l] = plan[l]
      BY <1>1, <2>1
    <3>2. n # 0 => n \in 1 .. m - 1
      BY <1>1, <2>1
    <3> QED BY <1>2, <1>3, <1>4, <2>1, <3>1, <3>2
  <2>2. CASE m # n + 1
    <3>1. m \in 1 .. n /\ new[m] = plan[m] /\ \A l \in 1 .. m - 1 : new[l] = plan[l]
      BY <1>1, <2>2
    <3>2. m # 1 => new[m - 1] = plan[m - 1]
      BY <3>1
    <3> QED BY <3>1, <3>2 DEF IsPlan, n
  <2> QED BY <2>1, <2>2
<1>6. IsPlan(new)
  BY <1>1, <1>5 DEF IsPlan
<1>7. Following(new) = NextPlace(p)
  BY <1>1 DEF Following
<1> QED BY <1>1, <1>6, <1>7 DEF new

\* A chunk is what it was, for the longer plan too.
LEMMA FollowsLonger ==
  ASSUME NEW plan \in Seq(Places), NEW p \in Places, NEW c, c.seq \in Nat, FollowsPlan(c, plan)
  PROVE  FollowsPlan(c, Append(plan, p))
<1>1. /\ c.seq + 1 \in 1 .. Len(plan) /\ Len(Append(plan, p)) = Len(plan) + 1
      /\ Append(plan, p)[c.seq + 1] = plan[c.seq + 1]
  BY DEF FollowsPlan
<1> DEFINE new == Append(plan, p)
<1> HIDE DEF new
<1>2. new[c.seq + 1] = plan[c.seq + 1] /\ c.seq < Len(new)
  BY <1>1 DEF new
<1>3. FollowsPlan(c, new)
  BY <1>2 DEF FollowsPlan, EntryAt
<1> QED BY <1>3 DEF new

\* So is what has been written.
LEMMA WrittenLonger ==
  ASSUME NEW plan \in Seq(Places), NEW p \in Places, NEW n \in 0 .. Len(plan), Written(plan, n)
  PROVE  Written(Append(plan, p), n)
<1> DEFINE new == Append(plan, p)
<1>1. \A m \in 1 .. n : new[m] = plan[m]
  OBVIOUS
<1>2. n \in Nat
  OBVIOUS
<1> HIDE DEF new
<1>3. \A m \in 1 .. n : EntryAt(new, m) = EntryAt(plan, m) /\ OutputAt(new, m) = OutputAt(plan, m)
  BY <1>1 DEF EntryAt, OutputAt
<1>4. n # 0 => new[n] = plan[n] /\ EntryAt(new, n) = EntryAt(plan, n)
  BY <1>1, <1>2, <1>3
<1>5. {OutputAt(new, m) : m \in 1 .. n} = {OutputAt(plan, m) : m \in 1 .. n}
  BY <1>3
<1>6. {EntryAt(new, m).name : m \in {l \in 1 .. n : IsLast(new[l]) /\ ~ Intact(EntryAt(new, l))}}
        = {EntryAt(plan, m).name :
             m \in {l \in 1 .. n : IsLast(plan[l]) /\ ~ Intact(EntryAt(plan, l))}}
  BY <1>1, <1>3
<1>7. ASSUME NEW out \in DOMAIN outputs
      PROVE  \E m \in 1 .. n :
               /\ OutputAt(new, m) = out
               /\ \A l \in m + 1 .. n : OutputAt(new, l) # out
               /\ outputs[out] = StoredUpTo(new[m])
  <2>1. PICK m \in 1 .. n :
               /\ OutputAt(plan, m) = out
               /\ \A l \in m + 1 .. n : OutputAt(plan, l) # out
               /\ outputs[out] = StoredUpTo(plan[m])
    BY DEF Written, WrittenAs
  <2>2. \A l \in m + 1 .. n : l \in 1 .. n
    BY <1>2
  <2> QED BY <1>1, <1>3, <2>1, <2>2
<1>8. Written(new, n)
  BY <1>4, <1>5, <1>6, <1>7 DEF Written, WrittenAs
<1> QED BY <1>8 DEF new

output == <<current, hashed, outputs, checksumFailures_>>

\* What is written is judged by a plan that stays.
LEMMA WrittenAfter ==
  ASSUME UNCHANGED stored, NEW plan, NEW n
  PROVE  Written(plan, n)' <=>
           WrittenAs(plan, n, current', hashed', outputs', checksumFailures_')
<1> DEFINE mine == {OutputAt(plan, m) : m \in 1 .. n}
           bad == {EntryAt(plan, m).name :
                     m \in {l \in 1 .. n : IsLast(plan[l]) /\ ~ Intact(EntryAt(plan, l))}}
           Behind(out, m) ==
             OutputAt(plan, m) = out /\ \A l \in m + 1 .. n : OutputAt(plan, l) # out
<1>1. /\ \A e : Intact(e)' <=> Intact(e)
      /\ \A p : (IsLast(p)' <=> IsLast(p))
      /\ \A p : StoredUpTo(p)' = StoredUpTo(p)
      /\ \A m : EntryAt(plan, m)' = EntryAt(plan, m)
      /\ \A m : OutputAt(plan, m)' = OutputAt(plan, m)
  BY PlacesStay
<1>2. mine' = mine
  BY <1>1
<1>3. bad' = bad
  BY <1>1
<1>4. \A out, m : Behind(out, m)' <=> Behind(out, m)
  BY <1>1
<1>5. Written(plan, n)' <=>
        /\ n = 0 \/ IsLast(plan[n])' => current' = None /\ hashed' = <<>>
        /\ n # 0 /\ ~ IsLast(plan[n])' =>
             current' = EntryAt(plan, n)'.name /\ hashed' = StoredUpTo(plan[n])'
        /\ DOMAIN outputs' = mine'
        /\ \A out \in DOMAIN outputs' :
             \E m \in 1 .. n : Behind(out, m)' /\ outputs'[out] = StoredUpTo(plan[m])'
        /\ checksumFailures_' = bad'
  BY DEF Written, WrittenAs
<1> HIDE DEF mine, bad, Behind
<1>6. Written(plan, n)' <=>
        /\ n = 0 \/ IsLast(plan[n]) => current' = None /\ hashed' = <<>>
        /\ n # 0 /\ ~ IsLast(plan[n]) =>
             current' = EntryAt(plan, n).name /\ hashed' = StoredUpTo(plan[n])
        /\ DOMAIN outputs' = mine
        /\ \A out \in DOMAIN outputs' :
             \E m \in 1 .. n : Behind(out, m) /\ outputs'[out] = StoredUpTo(plan[m])
        /\ checksumFailures_' = bad
  BY <1>1, <1>2, <1>3, <1>4, <1>5
<1> QED BY <1>6 DEF mine, bad, Behind, WrittenAs

LEMMA WrittenStays ==
  ASSUME UNCHANGED <<stored, output>>, NEW plan, NEW n
  PROVE  Written(plan, n)' <=> Written(plan, n)
<1>1. current' = current /\ hashed' = hashed /\ outputs' = outputs
      /\ checksumFailures_' = checksumFailures_
  BY DEF output
<1> QED BY <1>1, WrittenAfter DEF Written

\* The reader goes on in the plan.
GoesOn ==
  xrpc' # "end" \/ entry' > Len(entries') =>
    (xrpc # "end" \/ entry > Len(entries)) /\ FetchAt' = FetchAt

LEMMA MovedFollows ==
  ASSUME NEW plan, Follows(plan), Moved, GoesOn,
         UNCHANGED <<stored, output, xSeqNo, xNextExpected>>
  PROVE  Follows(plan)'
<1>1. /\ IsPlan(plan)' /\ Following(plan)' = Following(plan)
      /\ \A m : EntryAt(plan, m)' = EntryAt(plan, m)
      /\ \A p : (IsLast(p)' <=> IsLast(p))
      /\ \A e, i : Dec!Stored(e, i)' = Dec!Stored(e, i)
  BY PlacesStay DEF Follows
<1>2. ASSUME NEW c \in InTransit' PROVE FollowsPlan(c, plan)'
  <2>1. PICK d \in InTransit : Same(c, d)
    BY DEF Moved
  <2>2. FollowsPlan(d, plan)
    BY DEF Follows
  <2> QED BY <1>1, <2>1, <2>2 DEF FollowsPlan, Same
<1>3. Written(plan, xNextExpected)'
  BY WrittenStays DEF Follows
<1> QED BY <1>1, <1>2, <1>3 DEF Follows, GoesOn

-----------------------------------------------------------------------------
(***************************************************************************)
(* Steps that move chunks on, or move none.                                *)
(***************************************************************************)
ContainerTyped == medium \in Seq(Pieces) /\ table \in Seq(Entries)

LEMMA QuietKeeps ==
  ASSUME UNCHANGED <<stored, outputs>>, OfTheTable, OutputsHoldOneFile
  PROVE  OfTheTable' /\ OutputsHoldOneFile'
<1>1. table' = table /\ entries' = entries /\ outputs' = outputs
  BY DEF stored
<1>2. \A e : Dec!StoredContent(e)' = Dec!StoredContent(e)
  BY PlacesStay
<1> QED BY <1>1, <1>2 DEF OfTheTable, OutputsHoldOneFile, Dec!OutputsHoldOneFile

LEMMA MoveKeeps ==
  ASSUME ExtractInv, UNCHANGED <<stored, output, xSeqNo, xNextExpected>>,
         ExtractTypes', ExtractThreads',
         \A c \in Decrypted' : Checked(c),
         ExtractUnfailed' => ExtractUnfailed /\ ClosedInTurn' /\ Moved /\ GoesOn
  PROVE  ExtractInv'
<1>1. OfTheTable' /\ OutputsHoldOneFile'
  BY QuietKeeps DEF ExtractInv, output
<1>2. ASSUME ExtractUnfailed' PROVE ClosedInTurn' /\ NoneMissing' /\ \E plan \in Seq(Places) : Follows(plan)'
  <2>1. ClosedInTurn' /\ Moved /\ GoesOn /\ NoneMissing
    BY <1>2 DEF ExtractInv
  <2>2. PICK plan \in Seq(Places) : Follows(plan)
    BY <1>2 DEF ExtractInv
  <2>3. Follows(plan)'
    BY <2>1, <2>2, MovedFollows
  <2>4. NoneMissing'
    BY <2>1 DEF NoneMissing, Moved
  <2> QED BY <2>1, <2>3, <2>4
<1> QED BY <1>1, <1>2 DEF ExtractInv

\* What the reader leaves alone.
LEMMA ReaderLeaves ==
  ASSUME Dec!Reader
  PROVE  /\ UNCHANGED <<stored, output, xResult, xEnded, xwpc, xNextExpected, xReorderBuf>>
         /\ xrpc # "idle"
BY DEF Dec!Reader, Dec!EmptyEntry, Dec!FirstChunk, Dec!ReadChunk, Dec!ReadThrows, Dec!PushTask,
       Dec!ReaderEnds, Dec!AtEntry, Dec!container, Dec!workers, Dec!writer, Dec!files, stored, output

LEMMA ReaderTurns ==
  ASSUME ExtractInv, Dec!FirstChunk \/ Dec!ReadThrows \/ Dec!ReaderEnds
  PROVE  ExtractInv'
<1>1. /\ UNCHANGED <<stored, output, xResult, xEnded, xwpc, xNextExpected, xReorderBuf>>
      /\ xrpc # "idle"
  BY ReaderLeaves DEF Dec!Reader
<1>2. UNCHANGED <<entries, entry, xSeqNo, xTask, xWriteQueue>>
  BY DEF Dec!FirstChunk, Dec!ReadThrows, Dec!ReaderEnds
<1>3. ExtractTypes /\ ExtractThreads
  BY DEF ExtractInv
<1>4. /\ \/ xrpc = "next" /\ xrpc' = "read" /\ chunk' = 1 /\ entry <= Len(entries)
            /\ entries[entry].size > 0
         \/ xrpc = "read" /\ xrpc' = "end" /\ chunk' = chunk /\ entry <= Len(entries)
         \/ xrpc = "next" /\ xrpc' = "end" /\ chunk' = chunk /\ entry > Len(entries)
      /\ xReadQueue' \in QueuesOf(ReadBackChunks) /\ xReadQueue'.items = xReadQueue.items
      /\ xReadQueue.closed => xReadQueue'.closed
      /\ xReadQueue' # xReadQueue => xrpc' = "end" /\ entry > Len(entries)
  <2>1. xReadQueue \in QueuesOf(ReadBackChunks)
    BY <1>3 DEF ExtractTypes
  <2>2. /\ Dec!Closed(xReadQueue) \in QueuesOf(ReadBackChunks)
        /\ Dec!Closed(xReadQueue).items = xReadQueue.items
        /\ Dec!Closed(xReadQueue).closed
    BY <2>1, Closes
  <2>3. entry <= Len(entries) \/ xrpc # "read"
    BY <1>3 DEF ExtractThreads
  <2> QED BY <2>1, <2>2, <2>3 DEF Dec!FirstChunk, Dec!ReadThrows, Dec!ReaderEnds, Dec!AtEntry
<1>5. InTransit' = InTransit /\ Decrypted' = Decrypted
  BY <1>1, <1>2, <1>4 DEF InTransit, Fetched, Decrypted, InHand
<1>6. entry <= Len(entries) => Count(entry) \in Nat /\ (Count(entry) = 0 <=> entries[entry].size = 0)
  <2>1. entry \in Nat \ {0} /\ Len(entries) \in Nat
    BY <1>3 DEF ExtractTypes
  <2> QED BY <1>3, <2>1, EntryTypes
<1>7. ExtractTypes'
  BY <1>1, <1>2, <1>3, <1>4 DEF ExtractTypes
<1>9. ExtractThreads'
  <2>1. xwpc' \notin {"idle", "refused"}
    BY <1>1, <1>3 DEF ExtractThreads, Untouched
  <2>2. xrpc' # "push" /\ xTask' = None
    BY <1>2, <1>3, <1>4 DEF ExtractThreads
  <2>3. xrpc' = "read" => entry' <= Len(entries') /\ chunk' <= Count(entry)'
    <3>1. Count(entry)' = Count(entry)
      BY <1>2 DEF Count
    <3>2. entry \in Nat \ {0} /\ entry <= Len(entries) =>
            (entries[entry].size > 0 => Count(entry) \in Nat \ {0})
      BY <1>6
    <3>3. entry \in Nat \ {0}
      BY <1>3 DEF ExtractTypes
    <3> QED BY <1>2, <1>4, <3>1, <3>2, <3>3
  <2>4. entry' <= Len(entries') + 1 /\ xNextExpected' <= xSeqNo'
    BY <1>1, <1>2, <1>3 DEF ExtractThreads
  <2>5. /\ \A w \in xEnded' : xResult'[w] = None
        /\ xEnded' # {} => xReadQueue'.closed /\ xReadQueue'.items = <<>>
    BY <1>1, <1>3, <1>4 DEF ExtractThreads
  <2> QED BY <2>1, <2>2, <2>3, <2>4, <2>5 DEF ExtractThreads
<1>10. ASSUME ExtractUnfailed' PROVE ExtractUnfailed /\ ClosedInTurn' /\ Moved /\ GoesOn
  <2>1. ExtractUnfailed
    BY <1>1, <1>10 DEF ExtractUnfailed
  <2>2. ClosedInTurn
    BY <2>1 DEF ExtractInv
  <2>3. xrpc # "end" /\ ~ xReadQueue.closed
    BY <1>4, <2>2 DEF ClosedInTurn
  <2>4. ClosedInTurn'
    BY <1>1, <1>2, <1>4, <2>2, <2>3 DEF ClosedInTurn
  <2>5. GoesOn
    <3>1. entry \in Nat /\ Len(entries) \in Nat
      BY <1>3 DEF ExtractTypes
    <3> QED BY <1>2, <1>4, <3>1 DEF GoesOn, FetchAt, Place
  <2> QED BY <1>5, <2>1, <2>4, <2>5, NoneMoved
<1> QED
  <2>1. \A c \in Decrypted' : Checked(c)
    BY <1>5 DEF ExtractInv
  <2> QED BY <1>1, <1>2, <1>7, <1>9, <1>10, <2>1, MoveKeeps

LEMMA TaskPushed ==
  ASSUME ExtractInv, Dec!PushTask
  PROVE  ExtractInv'
<1>1. UNCHANGED <<stored, output, xResult, xEnded, xwpc, xNextExpected, xReorderBuf>>
  BY ReaderLeaves DEF Dec!Reader
<1>2. ExtractTypes /\ ExtractThreads
  BY DEF ExtractInv
<1>3. /\ UNCHANGED <<entries, xSeqNo, xWriteQueue>>
      /\ xrpc = "push" /\ xTask' = None
      /\ xReadQueue' = Dec!Pushed(xReadQueue, xTask)
      /\ IF xReadQueue.closed \/ xTask.last
         THEN xrpc' = "next" /\ entry' = entry + 1 /\ chunk' = chunk
         ELSE xrpc' = "read" /\ chunk' = chunk + 1 /\ entry' = entry
  BY DEF Dec!PushTask
<1>4. /\ xTask \in ReadBackChunks /\ xReadQueue \in QueuesOf(ReadBackChunks)
      /\ entry \in Nat \ {0} /\ chunk \in Nat \ {0} /\ Len(entries) \in Nat
      /\ entry <= Len(entries) /\ chunk <= Count(entry)
      /\ xTask.last <=> IsLast(Place(entry, chunk))
  BY <1>2, <1>3 DEF ExtractTypes, ExtractThreads
<1>5. /\ xReadQueue' \in QueuesOf(ReadBackChunks)
      /\ xReadQueue'.closed = xReadQueue.closed
      /\ xReadQueue.closed => xReadQueue' = xReadQueue
      /\ ~ xReadQueue.closed => ItemsOf(xReadQueue'.items) = ItemsOf(xReadQueue.items) \cup {xTask}
  BY <1>3, <1>4, Pushes
<1>6. Decrypted' = Decrypted
  BY <1>1, <1>3 DEF Decrypted, InHand
<1>7. ExtractTypes'
  BY <1>1, <1>2, <1>3, <1>4, <1>5 DEF ExtractTypes
<1>8. Count(entry) \in Nat
  BY <1>2, <1>4, EntryTypes
<1>9. xrpc' = "read" => Count(entry)' = Count(entry) /\ chunk' <= Count(entry)
  <2>1. xrpc' = "read" => entry' = entry /\ chunk' = chunk + 1 /\ ~ IsLast(Place(entry, chunk))
    BY <1>3, <1>4
  <2>2. ~ IsLast(Place(entry, chunk)) => chunk < Count(entry)
    BY <1>4, <1>8 DEF IsLast, Place
  <2> QED BY <1>3, <1>4, <1>8, <2>1, <2>2 DEF Count
<1>10. ExtractThreads'
  <2>1. xwpc' \notin {"idle", "refused"}
    BY <1>1, <1>2, <1>3 DEF ExtractThreads, Untouched
  <2>2. xrpc' # "push" /\ xTask' = None
    BY <1>3
  <2>3. xrpc' = "read" => entry' <= Len(entries') /\ chunk' <= Count(entry)'
    BY <1>3, <1>4, <1>9
  <2>4. entry' <= Len(entries') + 1 /\ xNextExpected' <= xSeqNo'
    BY <1>1, <1>2, <1>3, <1>4 DEF ExtractThreads
  <2>5. /\ \A w \in xEnded' : xResult'[w] = None
        /\ xEnded' # {} => xReadQueue'.closed /\ xReadQueue'.items = <<>>
    BY <1>1, <1>2, <1>5 DEF ExtractThreads
  <2> QED BY <2>1, <2>2, <2>3, <2>4, <2>5 DEF ExtractThreads
<1>11. ASSUME ExtractUnfailed' PROVE ExtractUnfailed /\ ClosedInTurn' /\ Moved /\ GoesOn
  <2>1. ExtractUnfailed
    BY <1>1, <1>11 DEF ExtractUnfailed
  <2>2. ClosedInTurn
    BY <2>1 DEF ExtractInv
  <2>3. ~ xReadQueue.closed
    BY <1>3, <2>2 DEF ClosedInTurn
  <2>4. ClosedInTurn'
    BY <1>1, <1>3, <1>5, <2>2, <2>3 DEF ClosedInTurn
  <2>5. GoesOn
    <3>1. FetchAt = NextPlace(Place(entry, chunk))
      BY <1>3 DEF FetchAt
    <3>2. CASE xTask.last
      <4>1. NextPlace(Place(entry, chunk)) = Place(entry + 1, 1)
        BY <1>4, <3>2 DEF NextPlace, Place
      <4>2. FetchAt' = Place(entry + 1, 1)
        BY <1>3, <3>2 DEF FetchAt, Place
      <4> QED BY <1>3, <3>1, <4>1, <4>2 DEF GoesOn
    <3>3. CASE ~ xTask.last
      <4>1. NextPlace(Place(entry, chunk)) = Place(entry, chunk + 1)
        BY <1>4, <3>3 DEF NextPlace, Place
      <4>2. FetchAt' = Place(entry, chunk + 1)
        BY <1>3, <2>3, <3>3 DEF FetchAt, Place
      <4> QED BY <1>3, <3>1, <4>1, <4>2 DEF GoesOn
    <3> QED BY <3>2, <3>3
  <2>6. InTransit' = InTransit
    <3>1. xTask # None
      BY <1>4, ExtractAssumption
    <3>2. Fetched' = Fetched
      BY <1>3, <1>5, <2>3, <3>1 DEF Fetched
    <3> QED BY <1>6, <3>2 DEF InTransit
  <2> QED BY <2>1, <2>4, <2>5, <2>6, NoneMoved
<1>12. \A c \in Decrypted' : Checked(c)
  BY <1>6 DEF ExtractInv
<1> QED BY <1>1, <1>3, <1>7, <1>10, <1>11, <1>12, MoveKeeps

-----------------------------------------------------------------------------
\* What the workers leave alone.
LEMMA WorkerLeaves ==
  ASSUME NEW w \in Workers, Dec!Worker(w)
  PROVE  UNCHANGED <<stored, output, xrpc, entry, chunk, xSeqNo, xTask, xwpc, xNextExpected,
                     xReorderBuf>>
BY DEF Dec!Worker, Dec!Decrypt, Dec!DiesOverChunk, Dec!DiesAtStart, Dec!Takes, Dec!PushResult,
       Dec!WorkerEnds, Dec!container, Dec!reader, Dec!writer, Dec!files, stored, output

\* Threads and plan are as they were, for the reader.
LEMMA WorkerKeeps ==
  ASSUME ExtractInv, NEW w \in Workers, Dec!Worker(w),
         ExtractTypes', xwpc \notin {"idle", "refused"},
         \A v \in xEnded' : xResult'[v] = None,
         xEnded' # {} => xReadQueue'.closed /\ xReadQueue'.items = <<>>,
         \A c \in Decrypted' : Checked(c),
         ExtractUnfailed =>
           /\ ClosedInTurn => ClosedInTurn'
           /\ Moved
  PROVE  ExtractInv'
<1>1. UNCHANGED <<stored, output, xrpc, entry, chunk, xSeqNo, xTask, xwpc, xNextExpected,
                  xReorderBuf>>
  BY WorkerLeaves
<1>2. ExtractTypes /\ ExtractThreads
  BY DEF ExtractInv
<1>3. entries' = entries
  BY <1>1 DEF stored
<1>4. Count(entry)' = Count(entry) /\ (IsLast(Place(entry, chunk))' <=> IsLast(Place(entry, chunk)))
  BY <1>1, <1>3 DEF IsLast, Count, Place
<1>5. ExtractThreads'
  BY <1>1, <1>2, <1>3, <1>4 DEF ExtractThreads
<1>6. GoesOn
  <2>1. NextPlace(Place(entry, chunk))' = NextPlace(Place(entry, chunk))
    BY <1>1, <1>3, <1>4 DEF NextPlace, Place
  <2>2. FetchAt' = FetchAt
    BY <1>1, <2>1 DEF FetchAt, Place
  <2> QED BY <1>1, <1>3, <2>2 DEF GoesOn
<1>7. ExtractUnfailed' => ExtractUnfailed /\ ClosedInTurn' /\ Moved /\ GoesOn
  BY <1>1, <1>6 DEF ExtractUnfailed, ExtractInv
<1> QED BY <1>1, <1>5, <1>7, MoveKeeps

\* Before extract there is nothing to take.
LEMMA UntouchedIsIdle ==
  ASSUME ExtractInv, xwpc \in {"idle", "refused"}
  PROVE  /\ Untouched
         /\ xReadQueue.items = <<>> /\ xWriteQueue.items = <<>> /\ ~ xReadQueue.closed
         /\ \A w \in Workers : xResult[w] = None
BY DEF ExtractInv, ExtractThreads, Untouched, EmptyQueue

\* A chunk that is decrypted, or that a worker dies over.
LEMMA ChunkTaken ==
  ASSUME ExtractInv, NEW w \in Workers, NEW error \in BOOLEAN, Dec!Worker(w), Dec!Takes(w, error),
         Head(xReadQueue.items).piece = None => error
  PROVE  ExtractInv'
<1> DEFINE c == Head(xReadQueue.items)
           d == [c EXCEPT !.error = error]
<1>1. UNCHANGED <<stored, output, xrpc, entry, chunk, xSeqNo, xTask, xwpc, xNextExpected,
                  xReorderBuf>>
  BY WorkerLeaves DEF Dec!Worker
<1>2. ExtractTypes /\ ExtractThreads
  BY DEF ExtractInv
<1>3. /\ w \notin xEnded /\ xResult[w] = None /\ xReadQueue.items # <<>>
      /\ xResult' = [xResult EXCEPT ![w] = d]
      /\ xReadQueue' = Dec!Popped(xReadQueue)
      /\ UNCHANGED <<xEnded, xWriteQueue>>
  BY DEF Dec!Takes, Dec!Idle
<1>4. xReadQueue \in QueuesOf(ReadBackChunks)
  BY <1>2 DEF ExtractTypes
<1>5. /\ xReadQueue' \in QueuesOf(ReadBackChunks)
      /\ c \in ReadBackChunks
      /\ xReadQueue'.closed = xReadQueue.closed
      /\ ItemsOf(xReadQueue.items) = ItemsOf(xReadQueue'.items) \cup {c}
  BY <1>3, <1>4, Pops
<1>6. d \in ReadBackChunks /\ Same(d, c) /\ Checked(d)
  BY <1>5 DEF ReadBackChunks, Same, Checked
<1> HIDE DEF c, d
<1>7. /\ xResult' \in [Workers -> ReadBackChunks \cup {None}]
      /\ \A v \in Workers : xResult'[v] = IF v = w THEN d ELSE xResult[v]
      /\ InHand' = InHand \cup {d}
  BY <1>2, <1>3, <1>6, Handed
<1>8. ExtractTypes'
  BY <1>1, <1>2, <1>3, <1>5, <1>7 DEF ExtractTypes, stored
<1>9. xEnded = {}
  BY <1>2, <1>3 DEF ExtractThreads
<1>10. Decrypted' = Decrypted \cup {d}
  BY <1>1, <1>3, <1>7 DEF Decrypted
<1>11. Moved
  <2>1. InTransit' \subseteq InTransit \cup {d} /\ c \in InTransit /\ d \in InTransit'
        /\ InTransit \subseteq InTransit' \cup {c}
    BY <1>1, <1>5, <1>10 DEF InTransit, Fetched
  <2>2. \A b : Same(b, b)
    BY DEF Same
  <2> QED BY <1>6, <2>1, <2>2 DEF Moved, Same
<1>12. ClosedInTurn => ClosedInTurn'
  <2>1. entries' = entries
    BY <1>1 DEF stored
  <2> QED BY <1>1, <1>3, <1>5, <2>1 DEF ClosedInTurn
<1>13. \A b \in Decrypted' : Checked(b)
  BY <1>6, <1>10 DEF ExtractInv
<1>14. xwpc \notin {"idle", "refused"}
  BY <1>3, UntouchedIsIdle
<1> QED BY <1>3, <1>8, <1>9, <1>11, <1>12, <1>13, <1>14, WorkerKeeps DEF Dec!Worker

LEMMA ResultPushed ==
  ASSUME ExtractInv, NEW w \in Workers, Dec!PushResult(w)
  PROVE  ExtractInv'
<1> DEFINE c == xResult[w]
<1>1. UNCHANGED <<stored, output, xrpc, entry, chunk, xSeqNo, xTask, xwpc, xNextExpected,
                  xReorderBuf>>
  BY WorkerLeaves DEF Dec!Worker
<1>2. ExtractTypes /\ ExtractThreads
  BY DEF ExtractInv
<1>3. /\ c # None
      /\ xResult' = [xResult EXCEPT ![w] = None]
      /\ xWriteQueue' = Dec!Pushed(xWriteQueue, c)
      /\ UNCHANGED <<xEnded, xReadQueue>>
  BY DEF Dec!PushResult
<1>4. xWriteQueue \in QueuesOf(ReadBackChunks)
  BY <1>2 DEF ExtractTypes
<1>5. /\ xResult' \in [Workers -> ReadBackChunks \cup {None}]
      /\ \A v \in Workers : xResult'[v] = IF v = w THEN None ELSE xResult[v]
      /\ c \in ReadBackChunks
      /\ InHand = InHand' \cup {c}
  BY <1>2, <1>3, Gives
<1>6. /\ xWriteQueue' \in QueuesOf(ReadBackChunks)
      /\ xWriteQueue'.closed = xWriteQueue.closed
      /\ ItemsOf(xWriteQueue'.items) \subseteq ItemsOf(xWriteQueue.items) \cup {c}
      /\ ~ xWriteQueue.closed =>
           ItemsOf(xWriteQueue'.items) = ItemsOf(xWriteQueue.items) \cup {c}
  BY <1>3, <1>4, <1>5, Pushes
<1> HIDE DEF c
<1>7. ExtractTypes'
  BY <1>1, <1>2, <1>3, <1>5, <1>6 DEF ExtractTypes, stored
<1>8. Decrypted' \subseteq Decrypted /\ (~ xWriteQueue.closed => Decrypted' = Decrypted)
  BY <1>1, <1>5, <1>6 DEF Decrypted
<1>9. /\ \A v \in xEnded' : xResult'[v] = None
      /\ xEnded' # {} => xReadQueue'.closed /\ xReadQueue'.items = <<>>
  <2>1. xEnded \subseteq Workers
    BY <1>2 DEF ExtractTypes
  <2> QED BY <1>2, <1>3, <1>5, <2>1 DEF ExtractThreads
<1>10. ClosedInTurn => ~ xWriteQueue.closed
  BY <1>2, <1>3 DEF ClosedInTurn, ExtractThreads, c
<1>11. ClosedInTurn => ClosedInTurn' /\ Moved
  <2>1. entries' = entries
    BY <1>1 DEF stored
  <2>2. ClosedInTurn => InTransit' = InTransit
    BY <1>1, <1>3, <1>8, <1>10 DEF InTransit, Fetched
  <2> QED BY <1>1, <1>3, <1>6, <2>1, <2>2, NoneMoved DEF ClosedInTurn
<1>12. \A b \in Decrypted' : Checked(b)
  BY <1>8 DEF ExtractInv
<1>13. xwpc \notin {"idle", "refused"}
  BY <1>3, UntouchedIsIdle DEF c
<1>14. ExtractUnfailed => ClosedInTurn
  BY DEF ExtractInv
<1> QED BY <1>7, <1>9, <1>11, <1>12, <1>13, <1>14, WorkerKeeps DEF Dec!Worker

LEMMA WorkerLeft ==
  ASSUME ExtractInv, NEW w \in Workers, Dec!WorkerEnds(w)
  PROVE  ExtractInv'
<1>1. UNCHANGED <<stored, output, xrpc, entry, chunk, xSeqNo, xTask, xwpc, xNextExpected,
                  xReorderBuf>>
  BY WorkerLeaves DEF Dec!Worker
<1>2. ExtractTypes /\ ExtractThreads
  BY DEF ExtractInv
<1>3. /\ xResult[w] = None /\ xReadQueue.closed /\ xReadQueue.items = <<>>
      /\ xEnded' = xEnded \cup {w}
      /\ xWriteQueue' = IF xEnded' = Workers THEN Dec!Closed(xWriteQueue) ELSE xWriteQueue
      /\ UNCHANGED <<xResult, xReadQueue>>
  BY DEF Dec!WorkerEnds, Dec!Idle
<1>4. xWriteQueue \in QueuesOf(ReadBackChunks)
  BY <1>2 DEF ExtractTypes
<1>5. /\ xWriteQueue' \in QueuesOf(ReadBackChunks)
      /\ xWriteQueue'.items = xWriteQueue.items
      /\ xWriteQueue' # xWriteQueue => xEnded' = Workers
  BY <1>3, <1>4, Closes
<1>6. ExtractTypes'
  BY <1>1, <1>2, <1>3, <1>5 DEF ExtractTypes, stored
<1>7. InTransit' = InTransit /\ Decrypted' = Decrypted
  BY <1>1, <1>3, <1>5 DEF InTransit, Fetched, Decrypted, InHand
<1>8. /\ \A v \in xEnded' : xResult'[v] = None
      /\ xEnded' # {} => xReadQueue'.closed /\ xReadQueue'.items = <<>>
  BY <1>2, <1>3 DEF ExtractThreads
<1>9. ClosedInTurn => ClosedInTurn'
  <2>1. entries' = entries /\ xEnded \subseteq Workers
    BY <1>1, <1>2 DEF stored, ExtractTypes
  <2> QED BY <1>1, <1>3, <1>5, <2>1 DEF ClosedInTurn
<1>10. \A b \in Decrypted' : Checked(b)
  BY <1>7 DEF ExtractInv
<1>11. xwpc \notin {"idle", "refused"}
  BY <1>3, UntouchedIsIdle
<1> QED BY <1>6, <1>7, <1>8, <1>9, <1>10, <1>11, NoneMoved, WorkerKeeps DEF Dec!Worker

LEMMA WorkerGone ==
  ASSUME ExtractInv, NEW w \in Workers, Dec!DiesAtStart(w)
  PROVE  ExtractInv'
<1>1. UNCHANGED <<stored, output, xrpc, entry, chunk, xSeqNo, xTask, xwpc, xNextExpected,
                  xReorderBuf, xReadQueue, xWriteQueue, xResult, xEnded>>
  BY WorkerLeaves DEF Dec!Worker, Dec!DiesAtStart
<1>2. ExtractTypes /\ ExtractThreads
  BY DEF ExtractInv
<1>3. ExtractTypes'
  BY <1>1, <1>2 DEF ExtractTypes, stored
<1>4. InTransit' = InTransit /\ Decrypted' = Decrypted
  BY <1>1 DEF InTransit, Fetched, Decrypted, InHand
<1>5. ClosedInTurn => ClosedInTurn'
  BY <1>1 DEF ClosedInTurn, stored
<1>6. /\ \A v \in xEnded' : xResult'[v] = None
      /\ xEnded' # {} => xReadQueue'.closed /\ xReadQueue'.items = <<>>
  BY <1>1, <1>2 DEF ExtractThreads
<1>7. \A b \in Decrypted' : Checked(b)
  BY <1>4 DEF ExtractInv
<1>8. xwpc \notin {"idle", "refused"}
  BY UntouchedIsIdle DEF Dec!DiesAtStart, Untouched
<1> QED BY <1>3, <1>4, <1>5, <1>6, <1>7, <1>8, NoneMoved, WorkerKeeps DEF Dec!Worker

LEMMA WorkersKeep ==
  ASSUME ExtractInv, NEW w \in Workers, Dec!Worker(w)
  PROVE  ExtractInv'
<1>1. CASE Dec!Decrypt(w) \/ Dec!DiesOverChunk(w)
  <2>1. PICK error \in BOOLEAN :
          Dec!Takes(w, error) /\ (Head(xReadQueue.items).piece = None => error)
    BY <1>1 DEF Dec!Decrypt, Dec!DiesOverChunk
  <2> QED BY <2>1, ChunkTaken
<1>2. CASE Dec!DiesAtStart(w)
  BY <1>2, WorkerGone
<1> QED BY <1>1, <1>2, ResultPushed, WorkerLeft DEF Dec!Worker

-----------------------------------------------------------------------------
LEMMA WriterKeeps ==
  ASSUME ExtractInv,
         UNCHANGED <<stored, output, xrpc, entry, chunk, xSeqNo, xTask, xResult, xEnded,
                     xNextExpected>>,
         ExtractTypes', xwpc' \notin {"idle", "refused"},
         xReadQueue.closed => xReadQueue'.closed, xReadQueue'.items = xReadQueue.items,
         Decrypted' = Decrypted,
         ExtractUnfailed' => ExtractUnfailed /\ (ClosedInTurn /\ NoneMissing => ClosedInTurn')
  PROVE  ExtractInv'
<1>1. ExtractTypes /\ ExtractThreads
  BY DEF ExtractInv
<1>2. entries' = entries
  BY DEF stored
<1>3. Count(entry)' = Count(entry) /\ (IsLast(Place(entry, chunk))' <=> IsLast(Place(entry, chunk)))
  BY <1>2 DEF IsLast, Count, Place
<1>4. ExtractThreads'
  BY <1>1, <1>2, <1>3 DEF ExtractThreads
<1>5. GoesOn
  <2>1. NextPlace(Place(entry, chunk))' = NextPlace(Place(entry, chunk))
    BY <1>2, <1>3 DEF NextPlace, Place
  <2>2. FetchAt' = FetchAt
    BY <2>1 DEF FetchAt, Place
  <2> QED BY <1>2, <2>2 DEF GoesOn
<1>6. Moved
  <2>1. InTransit' = InTransit
    BY DEF InTransit, Fetched
  <2> QED BY <2>1, NoneMoved
<1>7. ExtractUnfailed' => ExtractUnfailed /\ ClosedInTurn' /\ Moved /\ GoesOn
  BY <1>5, <1>6 DEF ExtractInv
<1>8. \A c \in Decrypted' : Checked(c)
  BY DEF ExtractInv
<1> QED BY <1>4, <1>7, <1>8, MoveKeeps

LEMMA EarlyStashed ==
  ASSUME ExtractInv, Dec!StashEarly
  PROVE  ExtractInv'
<1> DEFINE c == Head(xWriteQueue.items)
<1>1. /\ UNCHANGED <<stored, output, xrpc, entry, chunk, xSeqNo, xTask, xResult, xEnded,
                     xNextExpected, xwpc, xReadQueue>>
      /\ xwpc = "loop" /\ xWriteQueue.items # <<>>
      /\ xReorderBuf' = xReorderBuf \cup {c}
      /\ xWriteQueue' = Dec!Popped(xWriteQueue)
  BY DEF Dec!StashEarly, Dec!container, Dec!reader, Dec!workers, Dec!files, stored, output
<1>2. ExtractTypes
  BY DEF ExtractInv
<1>3. xWriteQueue \in QueuesOf(ReadBackChunks)
  BY <1>2 DEF ExtractTypes
<1>4. /\ xWriteQueue' \in QueuesOf(ReadBackChunks)
      /\ c \in ReadBackChunks
      /\ xWriteQueue'.closed = xWriteQueue.closed
      /\ ItemsOf(xWriteQueue.items) = ItemsOf(xWriteQueue'.items) \cup {c}
  BY <1>1, <1>3, Pops
<1> HIDE DEF c
<1>5. ExtractTypes'
  BY <1>1, <1>2, <1>4 DEF ExtractTypes, stored
<1>6. Decrypted' = Decrypted
  BY <1>1, <1>4 DEF Decrypted, InHand
<1>7. ClosedInTurn => ClosedInTurn'
  <2>1. entries' = entries
    BY <1>1 DEF stored
  <2> QED BY <1>1, <1>4, <2>1 DEF ClosedInTurn
<1> QED BY <1>1, <1>5, <1>6, <1>7, WriterKeeps DEF ExtractUnfailed

\* When the loop ends there is nothing under way and nothing left to fetch.
LEMMA LoopEnded ==
  ASSUME ExtractInv, Dec!LoopEnds
  PROVE  ExtractInv'
<1>1. /\ UNCHANGED <<stored, output, xrpc, entry, chunk, xSeqNo, xTask, xResult, xEnded,
                     xNextExpected, xReadQueue, xWriteQueue, xReorderBuf>>
      /\ xwpc = "loop" /\ xwpc' = "wait"
      /\ xWriteQueue.closed /\ xWriteQueue.items = <<>>
      /\ ~ \E c \in xReorderBuf : c.seq = xNextExpected
  BY DEF Dec!LoopEnds, Dec!Due, Dec!container, Dec!reader, Dec!workers, Dec!files, stored, output
<1>2. ExtractTypes /\ ExtractThreads
  BY DEF ExtractInv
<1>3. ExtractTypes'
  BY <1>1, <1>2 DEF ExtractTypes, stored
<1>4. Decrypted' = Decrypted
  BY <1>1 DEF Decrypted, InHand
<1>5. ASSUME ClosedInTurn, NoneMissing PROVE ClosedInTurn'
  <2>1. xEnded = Workers /\ Workers # {}
    BY <1>1, <1>5, PipelineAssumption DEF ClosedInTurn
  <2>2. xReadQueue.closed /\ xReadQueue.items = <<>> /\ \A w \in Workers : xResult[w] = None
    BY <1>2, <2>1 DEF ExtractThreads
  <2>3. xrpc = "end" /\ entry > Len(entries) /\ xTask = None
    BY <1>2, <1>5, <2>2 DEF ClosedInTurn, ExtractThreads
  <2>4. InTransit = xReorderBuf
    BY <1>1, <2>2, <2>3, NoItems DEF InTransit, Fetched, Decrypted, InHand
  <2>5. xNextExpected = xSeqNo
    <3>1. xNextExpected \in Nat /\ xSeqNo \in Nat /\ xNextExpected <= xSeqNo
      BY <1>2 DEF ExtractTypes, ExtractThreads
    <3>2. xNextExpected \notin xNextExpected .. xSeqNo - 1
      BY <1>1, <1>5, <2>4 DEF NoneMissing
    <3> QED BY <3>1, <3>2
  <2>6. entries' = entries
    BY <1>1 DEF stored
  <2> QED BY <1>1, <2>1, <2>2, <2>3, <2>5, <2>6 DEF ClosedInTurn
<1> QED BY <1>1, <1>3, <1>4, <1>5, WriterKeeps DEF ExtractUnfailed

LEMMA WriterCleansUp ==
  ASSUME ExtractInv, Dec!CloseReadQueue \/ Dec!CloseWriteQueue \/ Dec!RunEnds
  PROVE  ExtractInv'
<1>1. /\ UNCHANGED <<stored, output, xrpc, entry, chunk, xSeqNo, xTask, xResult, xEnded,
                     xNextExpected, xReorderBuf>>
      /\ \/ xwpc' \in {"close", "drain", "threw"}
         \/ xwpc = "wait" /\ xwpc' = "returned" /\ UNCHANGED <<xReadQueue, xWriteQueue>>
      /\ xReadQueue' \in {xReadQueue, Dec!Closed(xReadQueue)}
      /\ xWriteQueue' \in {xWriteQueue, Dec!Closed(xWriteQueue)}
  BY DEF Dec!CloseReadQueue, Dec!CloseWriteQueue, Dec!RunEnds, Dec!container, Dec!reader,
         Dec!workers, Dec!files, stored, output
<1>2. ExtractTypes
  BY DEF ExtractInv
<1>3. /\ xReadQueue \in QueuesOf(ReadBackChunks) /\ xWriteQueue \in QueuesOf(ReadBackChunks)
  BY <1>2 DEF ExtractTypes
<1>4. /\ xReadQueue' \in QueuesOf(ReadBackChunks) /\ xWriteQueue' \in QueuesOf(ReadBackChunks)
      /\ xReadQueue'.items = xReadQueue.items /\ xWriteQueue'.items = xWriteQueue.items
      /\ xReadQueue.closed => xReadQueue'.closed
  BY <1>1, <1>3, Closes
<1>5. ExtractTypes'
  BY <1>1, <1>2, <1>4 DEF ExtractTypes, stored
<1>6. Decrypted' = Decrypted
  BY <1>1, <1>4 DEF Decrypted, InHand
<1>7. ExtractUnfailed' => ExtractUnfailed /\ (ClosedInTurn => ClosedInTurn')
  <2>1. entries' = entries
    BY <1>1 DEF stored
  <2> QED BY <1>1, <2>1 DEF ExtractUnfailed, ClosedInTurn
<1> QED BY <1>1, <1>4, <1>5, <1>6, <1>7, WriterKeeps

LEMMA NameRefused ==
  ASSUME ExtractInv, NEW request, Dec!UnknownName(request)
  PROVE  ExtractInv'
<1>1. /\ UNCHANGED <<stored, output, xrpc, entry, chunk, xSeqNo, xTask, xResult, xEnded,
                     xNextExpected, xReorderBuf, xReadQueue, xWriteQueue>>
      /\ xwpc = "idle" /\ xwpc' = "refused"
  BY DEF Dec!UnknownName, Dec!container, Dec!reader, Dec!workers, Dec!files, stored, output
<1>2. ExtractTypes /\ ExtractThreads /\ Untouched
  BY <1>1 DEF ExtractInv, ExtractThreads
<1>3. ExtractTypes'
  BY <1>1, <1>2 DEF ExtractTypes, stored
<1>4. Untouched'
  BY <1>1, <1>2 DEF Untouched, stored, output
<1>5. ExtractThreads'
  BY <1>2, <1>4, <1>1 DEF ExtractThreads, Untouched
<1>6. InTransit' = InTransit /\ Decrypted' = Decrypted
  BY <1>1 DEF InTransit, Fetched, Decrypted, InHand
<1>7. ExtractUnfailed' => ExtractUnfailed /\ ClosedInTurn' /\ Moved /\ GoesOn
  <2>1. ClosedInTurn' /\ GoesOn
    BY <1>1, <1>2, <1>4 DEF ClosedInTurn, Untouched, GoesOn, FetchAt, EmptyQueue, Place
  <2> QED BY <1>1, <1>6, <2>1, NoneMoved DEF ExtractUnfailed
<1>8. \A c \in Decrypted' : Checked(c)
  BY <1>6 DEF ExtractInv
<1> QED BY <1>1, <1>3, <1>5, <1>7, <1>8, MoveKeeps

-----------------------------------------------------------------------------
(***************************************************************************)
(* The reader cuts the next chunk, and the plan grows by its place.        *)
(***************************************************************************)
LEMMA FollowsStays ==
  ASSUME UNCHANGED stored, NEW plan, NEW c, FollowsPlan(c, plan)
  PROVE  FollowsPlan(c, plan)'
<1>1. /\ \A m : EntryAt(plan, m)' = EntryAt(plan, m)
      /\ \A p : (IsLast(p)' <=> IsLast(p))
      /\ \A e, i : Dec!Stored(e, i)' = Dec!Stored(e, i)
  BY PlacesStay
<1> QED BY <1>1 DEF FollowsPlan

LEMMA CutFollows ==
  ASSUME ExtractTypes, ExtractThreads, NEW plan \in Seq(Places), Follows(plan), xrpc # "end",
         UNCHANGED <<stored, output, xNextExpected>>,
         xSeqNo' = xSeqNo + 1, NEW p \in Places, p = FetchAt,
         p.entry <= Len(entries), p.chunk = 1 \/ p.chunk <= Count(p.entry),
         xrpc' # "end", FetchAt' = NextPlace(p),
         NEW c, c.seq = xSeqNo, c.name = entries[p.entry].name, c.sum = entries[p.entry],
         c.last <=> IsLast(p),
         c.piece = IF entries[p.entry].size = 0 THEN Dec!EmptyPiece
                   ELSE Dec!Stored(entries[p.entry], p.chunk),
         InTransit' \subseteq InTransit \cup {c}
  PROVE  Append(plan, p) \in Seq(Places) /\ Follows(Append(plan, p))'
<1> DEFINE new == Append(plan, p)
<1>1. /\ Len(plan) = xSeqNo /\ IsPlan(plan) /\ p = Following(plan)
      /\ Written(plan, xNextExpected) /\ xNextExpected \in 0 .. Len(plan) /\ xSeqNo \in Nat
  BY DEF Follows, ExtractTypes, ExtractThreads
<1>2. new \in Seq(Places) /\ IsPlan(new) /\ Following(new) = NextPlace(p)
  BY <1>1, PlanGrows
<1>3. Len(new) = xSeqNo + 1 /\ new[xSeqNo + 1] = p
  BY <1>1
<1>4. Written(new, xNextExpected)
  BY <1>1, WrittenLonger
<1>5. \A d \in InTransit : FollowsPlan(d, new)
  <2> SUFFICES ASSUME NEW d \in InTransit PROVE FollowsPlan(d, new)
    OBVIOUS
  <2>1. d.seq \in Nat
    BY TransitTyped
  <2>2. FollowsPlan(d, plan)
    BY DEF Follows
  <2> QED BY <2>1, <2>2, FollowsLonger
<1> HIDE DEF new
<1>6. FollowsPlan(c, new)
  BY <1>1, <1>3 DEF FollowsPlan, EntryAt
<1>7. \A d \in InTransit' : FollowsPlan(d, new)'
  BY <1>5, <1>6, FollowsStays
<1>8. Written(new, xNextExpected)'
  BY <1>4, WrittenStays
<1>9. IsPlan(new)' /\ Following(new)' = FetchAt'
  <2>1. (IsPlan(new)' <=> IsPlan(new)) /\ Following(new)' = Following(new)
    BY PlacesStay
  <2> QED BY <1>2, <2>1
<1>10. Follows(new)'
  BY <1>3, <1>7, <1>8, <1>9 DEF Follows
<1> QED BY <1>2, <1>10 DEF new

LEMMA CutKeeps ==
  ASSUME ExtractInv, xrpc # "end",
         UNCHANGED <<stored, output, xEnded, xwpc, xNextExpected>>,
         ExtractTypes', ExtractThreads',
         xSeqNo' = xSeqNo + 1, NEW p \in Places, p = FetchAt,
         p.entry <= Len(entries), p.chunk = 1 \/ p.chunk <= Count(p.entry),
         xrpc' # "end", FetchAt' = NextPlace(p),
         NEW c, c.seq = xSeqNo, c.name = entries[p.entry].name, c.sum = entries[p.entry],
         c.last <=> IsLast(p),
         c.piece = IF entries[p.entry].size = 0 THEN Dec!EmptyPiece
                   ELSE Dec!Stored(entries[p.entry], p.chunk),
         \A d \in Decrypted' : Checked(d),
         ExtractUnfailed =>
           InTransit' = InTransit \cup {c} /\ (ClosedInTurn => ClosedInTurn')
  PROVE  ExtractInv'
<1>1. OfTheTable' /\ OutputsHoldOneFile'
  BY QuietKeeps DEF ExtractInv, output
<1>2. ASSUME ExtractUnfailed' PROVE ClosedInTurn' /\ NoneMissing' /\ \E plan \in Seq(Places) : Follows(plan)'
  <2>1. ExtractUnfailed
    BY <1>2 DEF ExtractUnfailed
  <2>2. PICK plan \in Seq(Places) : Follows(plan)
    BY <2>1 DEF ExtractInv
  <2>3. ExtractTypes /\ ExtractThreads /\ NoneMissing /\ ClosedInTurn'
    BY <2>1 DEF ExtractInv
  <2>4. InTransit' = InTransit \cup {c}
    BY <2>1
  <2>5. Append(plan, p) \in Seq(Places) /\ Follows(Append(plan, p))'
    BY <2>2, <2>3, <2>4, CutFollows
  <2>6. NoneMissing'
    <3> SUFFICES ASSUME NEW s \in xNextExpected .. xSeqNo' - 1
                 PROVE  \E d \in InTransit' : d.seq = s
      BY DEF NoneMissing
    <3>1. xSeqNo \in Nat /\ xNextExpected \in Nat
      BY <2>3 DEF ExtractTypes
    <3>2. CASE s = xSeqNo
      BY <2>4, <3>2
    <3>3. CASE s # xSeqNo
      <4>1. s \in xNextExpected .. xSeqNo - 1
        BY <3>1, <3>3
      <4> QED BY <2>3, <2>4, <4>1 DEF NoneMissing
    <3> QED BY <3>2, <3>3
  <2> QED BY <2>3, <2>5, <2>6
<1> QED BY <1>1, <1>2 DEF ExtractInv

LEMMA ChunkMade ==
  ASSUME ExtractTypes, ContainerTyped, NEW k \in 1 .. Len(entries), NEW i \in Nat \ {0},
         NEW last \in BOOLEAN
  PROVE  /\ Dec!Chunk(xSeqNo, entries[k], Dec!EmptyPiece, last) \in ReadBackChunks
         /\ Dec!Chunk(xSeqNo, entries[k], Dec!Stored(entries[k], i), last) \in ReadBackChunks
<1>1. /\ entries[k] \in Entries /\ entries[k].name \in Names /\ xSeqNo \in Nat
      /\ Dec!Stored(entries[k], i) \in Pieces \cup {None}
  BY EntryTypes, StoredPiece DEF ContainerTyped, ExtractTypes
<1>2. Dec!EmptyPiece \in Pieces
  BY EmptyPieceIsPiece
<1> QED BY <1>1, <1>2 DEF Dec!Chunk, ReadBackChunks

LEMMA EmptyEntrySent ==
  ASSUME ExtractInv, ContainerTyped, Dec!EmptyEntry
  PROVE  ExtractInv'
<1> DEFINE c == Dec!Chunk(xSeqNo, entries[entry], Dec!EmptyPiece, TRUE)
           p == Place(entry, 1)
<1>1. /\ UNCHANGED <<stored, output, xResult, xEnded, xwpc, xNextExpected, xReorderBuf>>
      /\ xwpc \notin {"idle", "refused"}
  <2>1. UNCHANGED <<stored, output, xResult, xEnded, xwpc, xNextExpected, xReorderBuf>>
        /\ xrpc # "idle"
    BY ReaderLeaves DEF Dec!Reader
  <2>2. xwpc \in {"idle", "refused"} => xrpc = "idle"
    BY UntouchedIsIdle DEF Untouched
  <2> QED BY <2>1, <2>2
<1>2. ExtractTypes /\ ExtractThreads
  BY DEF ExtractInv
<1>3. /\ UNCHANGED <<entries, xrpc, chunk, xTask, xReadQueue>>
      /\ xrpc = "next" /\ entry <= Len(entries) /\ entries[entry].size = 0
      /\ xWriteQueue' = Dec!Pushed(xWriteQueue, c)
      /\ xSeqNo' = xSeqNo + 1 /\ entry' = entry + 1
  BY DEF Dec!EmptyEntry, Dec!AtEntry
<1>4. /\ entry \in 1 .. Len(entries) /\ entry \in Nat \ {0} /\ Len(entries) \in Nat
      /\ xSeqNo \in Nat /\ xNextExpected \in Nat /\ xNextExpected <= xSeqNo
      /\ xWriteQueue \in QueuesOf(ReadBackChunks)
  BY <1>2, <1>3 DEF ExtractTypes, ExtractThreads
<1>5. c \in ReadBackChunks
  BY <1>2, <1>4, ChunkMade
<1>6. /\ c.seq = xSeqNo /\ c.name = entries[entry].name /\ c.sum = entries[entry]
      /\ c.last = TRUE /\ c.piece = Dec!EmptyPiece
  BY DEF Dec!Chunk
<1> HIDE DEF c
<1>7. /\ xWriteQueue' \in QueuesOf(ReadBackChunks)
      /\ xWriteQueue'.closed = xWriteQueue.closed
      /\ ItemsOf(xWriteQueue'.items) \subseteq ItemsOf(xWriteQueue.items) \cup {c}
      /\ ~ xWriteQueue.closed =>
           ItemsOf(xWriteQueue'.items) = ItemsOf(xWriteQueue.items) \cup {c}
  BY <1>3, <1>4, <1>5, Pushes
<1>8. ExtractTypes'
  BY <1>1, <1>2, <1>3, <1>4, <1>7 DEF ExtractTypes
<1>9. ExtractThreads'
  <2>1. xTask' = None /\ xrpc' = "next"
    BY <1>2, <1>3 DEF ExtractThreads
  <2>2. entry' <= Len(entries') + 1 /\ xNextExpected' <= xSeqNo'
    BY <1>1, <1>3, <1>4
  <2>3. /\ \A w \in xEnded' : xResult'[w] = None
        /\ xEnded' # {} => xReadQueue'.closed /\ xReadQueue'.items = <<>>
    BY <1>1, <1>2, <1>3 DEF ExtractThreads
  <2> QED BY <1>1, <2>1, <2>2, <2>3 DEF ExtractThreads
<1>10. /\ p \in Places /\ p = FetchAt /\ p.entry = entry /\ p.chunk = 1
       /\ Count(entry) = 0 /\ IsLast(p) /\ FetchAt' = NextPlace(p)
  <2>1. p \in Places /\ p.entry = entry /\ p.chunk = 1
    BY <1>4 DEF Place, Places
  <2>2. Count(entry) = 0
    BY <1>2, <1>3, <1>4, EntryTypes
  <2>3. IsLast(p) /\ NextPlace(p) = Place(entry + 1, 1)
    BY <2>1, <2>2 DEF IsLast, NextPlace
  <2>4. p = FetchAt /\ FetchAt' = Place(entry + 1, 1)
    BY <1>3 DEF FetchAt, Place
  <2> QED BY <2>1, <2>2, <2>3, <2>4
<1>11. \A d \in Decrypted' : Checked(d)
  <2>1. Decrypted' \subseteq Decrypted \cup {c}
    BY <1>1, <1>7 DEF Decrypted, InHand
  <2> QED BY <1>6, <2>1, EmptyPieceIsPiece DEF ExtractInv, Checked
<1>12. ASSUME ExtractUnfailed PROVE InTransit' = InTransit \cup {c} /\ (ClosedInTurn => ClosedInTurn')
  <2>1. ClosedInTurn
    BY <1>12 DEF ExtractInv
  <2>2. ~ xReadQueue.closed /\ ~ xWriteQueue.closed
    BY <1>2, <1>3, <2>1, PipelineAssumption DEF ClosedInTurn, ExtractThreads
  <2>3. InTransit' = InTransit \cup {c}
    BY <1>1, <1>3, <1>7, <2>2 DEF InTransit, Fetched, Decrypted, InHand
  <2> QED BY <1>1, <1>3, <1>7, <2>1, <2>2, <2>3 DEF ClosedInTurn
<1> HIDE DEF p
<1> QED BY <1>1, <1>3, <1>6, <1>8, <1>9, <1>10, <1>11, <1>12, <1>4, CutKeeps

LEMMA ChunkRead ==
  ASSUME ExtractInv, ContainerTyped, Dec!ReadChunk
  PROVE  ExtractInv'
<1> DEFINE e == entries[entry]
           c == Dec!Chunk(xSeqNo, e, Dec!Stored(e, chunk), chunk = Dec!ChunkCount(e.size))
           p == Place(entry, chunk)
<1>1. /\ UNCHANGED <<stored, output, xResult, xEnded, xwpc, xNextExpected, xReorderBuf>>
      /\ xwpc \notin {"idle", "refused"}
  <2>1. UNCHANGED <<stored, output, xResult, xEnded, xwpc, xNextExpected, xReorderBuf>>
        /\ xrpc # "idle"
    BY ReaderLeaves DEF Dec!Reader
  <2>2. xwpc \in {"idle", "refused"} => xrpc = "idle"
    BY UntouchedIsIdle DEF Untouched
  <2> QED BY <2>1, <2>2
<1>2. ExtractTypes /\ ExtractThreads
  BY DEF ExtractInv
<1>3. /\ UNCHANGED <<entries, entry, chunk, xReadQueue, xWriteQueue>>
      /\ xrpc = "read" /\ xrpc' = "push"
      /\ xTask' = c
      /\ xSeqNo' = xSeqNo + 1
  BY DEF Dec!ReadChunk
<1>4. /\ entry \in 1 .. Len(entries) /\ entry \in Nat \ {0} /\ chunk \in Nat \ {0}
      /\ chunk <= Count(entry) /\ xTask = None
      /\ xSeqNo \in Nat /\ xNextExpected \in Nat /\ xNextExpected <= xSeqNo
  BY <1>2, <1>3 DEF ExtractTypes, ExtractThreads
<1>5. Count(entry) \in Nat /\ e.size # 0 /\ Count(entry) = Dec!ChunkCount(e.size)
  BY <1>2, <1>4, EntryTypes DEF Count
<1>6. c \in ReadBackChunks
  BY <1>2, <1>4, ChunkMade
<1>7. /\ c.seq = xSeqNo /\ c.name = e.name /\ c.sum = e
      /\ c.last <=> chunk = Count(entry)
      /\ c.piece = Dec!Stored(e, chunk)
  BY <1>5 DEF Dec!Chunk
<1> HIDE DEF c
<1>8. ExtractTypes'
  BY <1>1, <1>2, <1>3, <1>4, <1>6 DEF ExtractTypes
<1>9. /\ p \in Places /\ p = FetchAt /\ p.entry = entry /\ p.chunk = chunk
      /\ IsLast(p) <=> c.last
  <2>1. p \in Places /\ p.entry = entry /\ p.chunk = chunk
    BY <1>4 DEF Place, Places
  <2>2. p = FetchAt
    BY <1>3 DEF FetchAt
  <2>3. IsLast(p) <=> chunk >= Count(entry)
    BY <2>1 DEF IsLast
  <2> QED BY <1>4, <1>5, <1>7, <2>1, <2>2, <2>3
<1>10. Count(entry)' = Count(entry) /\ (IsLast(p)' <=> IsLast(p)) /\ FetchAt' = NextPlace(p)
  <2>1. Count(entry)' = Count(entry)
    BY <1>3 DEF Count
  <2>2. IsLast(p)' <=> IsLast(p)
    BY <1>3, <2>1 DEF IsLast, Place
  <2>3. NextPlace(p)' = NextPlace(p)
    BY <1>3, <2>2 DEF NextPlace, Place
  <2> QED BY <1>3, <2>1, <2>2, <2>3 DEF FetchAt
<1>11. ExtractThreads'
  <2>1. xTask' # None /\ xrpc' = "push" /\ (xTask'.last <=> IsLast(p)')
    BY <1>3, <1>6, <1>9, <1>10, ExtractAssumption
  <2>2. /\ entry' <= Len(entries') /\ chunk' <= Count(entry)' /\ entry' <= Len(entries') + 1
        /\ xNextExpected' <= xSeqNo'
    BY <1>1, <1>3, <1>4, <1>10
  <2>3. /\ \A w \in xEnded' : xResult'[w] = None
        /\ xEnded' # {} => xReadQueue'.closed /\ xReadQueue'.items = <<>>
    BY <1>1, <1>2, <1>3 DEF ExtractThreads
  <2> QED BY <1>1, <2>1, <2>2, <2>3 DEF ExtractThreads
<1>12. Decrypted' = Decrypted
  BY <1>1, <1>3 DEF Decrypted, InHand
<1>13. InTransit' = InTransit \cup {c}
  BY <1>3, <1>4, <1>6, <1>12, ExtractAssumption DEF InTransit, Fetched
<1>14. ExtractUnfailed /\ ClosedInTurn => ClosedInTurn'
  BY <1>1, <1>3 DEF ClosedInTurn
<1>15. \A d \in Decrypted' : Checked(d)
  BY <1>12 DEF ExtractInv
<1> HIDE DEF p, e
<1>16. /\ p.entry <= Len(entries) /\ p.chunk <= Count(p.entry)
       /\ c.name = entries[p.entry].name /\ c.sum = entries[p.entry]
       /\ c.piece = Dec!Stored(entries[p.entry], p.chunk) /\ entries[p.entry].size # 0
  BY <1>4, <1>5, <1>7, <1>9 DEF e
<1>17. xrpc # "end" /\ xrpc' # "end"
  BY <1>3
<1> QED BY <1>1, <1>3, <1>7, <1>8, <1>9, <1>10, <1>11, <1>13, <1>14, <1>15, <1>16, <1>17, CutKeeps

LEMMA ReaderKeeps ==
  ASSUME ExtractInv, ContainerTyped, Dec!Reader
  PROVE  ExtractInv'
BY ReaderTurns, TaskPushed, EmptyEntrySent, ChunkRead DEF Dec!Reader

-----------------------------------------------------------------------------
(***************************************************************************)
(* The writer takes the chunk that is due.                                 *)
(***************************************************************************)
LEMMA Prefixes ==
  ASSUME NEW S, NEW s \in Seq(S), NEW T, NEW t \in Seq(T), Len(s) <= Len(t),
         \A i \in 1 .. Len(s) : s[i] = t[i]
  PROVE  Dec!IsPrefix(s, t)
<1>1. SubSeq(s, 1, Len(s)) = s
  OBVIOUS
<1>2. SubSeq(t, 1, Len(s)) = s
  OBVIOUS
<1> QED BY <1>1, <1>2 DEF Dec!IsPrefix

LEMMA OneMore ==
  ASSUME NEW S, NEW k \in Nat, NEW f \in [1 .. k + 1 -> S]
  PROVE  [i \in 1 .. k |-> f[i]] \o <<f[k + 1]>> = f
<1> DEFINE s == [i \in 1 .. k |-> f[i]]
<1>1. s \in Seq(S) /\ Len(s) = k /\ \A i \in 1 .. k : s[i] = f[i]
  <2>1. s \in [1 .. k -> S]
    OBVIOUS
  <2> QED BY <2>1
<1>2. f \in Seq(S) /\ Len(f) = k + 1 /\ f[k + 1] \in S
  OBVIOUS
<1> HIDE DEF s
<1>3. s \o <<f[k + 1]>> = Append(s, f[k + 1])
  BY <1>1, <1>2
<1>4. Append(s, f[k + 1]) = f
  BY <1>1, <1>2
<1> QED BY <1>3, <1>4 DEF s

\* Where a place of the plan is, and that the last one of an entry is its last chunk.
LEMMA PlaceTypes ==
  ASSUME ExtractTypes, NEW plan \in Seq(Places), IsPlan(plan), NEW m \in 1 .. Len(plan)
  PROVE  /\ plan[m] \in Places
         /\ plan[m].entry \in 1 .. Len(entries)
         /\ plan[m].chunk \in Nat \ {0}
         /\ EntryAt(plan, m) \in Entries
         /\ EntryAt(plan, m).name \in Names
         /\ IsLast(plan[m]) => StoredUpTo(plan[m]) = Dec!StoredContent(EntryAt(plan, m))
         /\ \A i \in 1 .. plan[m].chunk :
              EntryAt(plan, m).size # 0 => i <= Dec!ChunkCount(EntryAt(plan, m).size)
<1> DEFINE p == plan[m]
           e == EntryAt(plan, m)
<1>1. p \in Places /\ p.entry \in Nat \ {0} /\ p.chunk \in Nat \ {0}
  <2>1. p \in Places
    OBVIOUS
  <2> QED BY <2>1 DEF Places
<1>2. p.entry <= Len(entries) /\ (p.chunk = 1 \/ p.chunk <= Count(p.entry))
  BY DEF IsPlan
<1>3. p.entry \in 1 .. Len(entries)
  BY <1>1, <1>2 DEF ExtractTypes
<1>4. /\ e \in Entries /\ e.name \in Names /\ e.size \in Nat
      /\ Count(p.entry) = Dec!ChunkCount(e.size)
      /\ Count(p.entry) \in Nat /\ (Count(p.entry) = 0 <=> e.size = 0)
  BY <1>3, EntryTypes DEF EntryAt, Count
<1>5. IsLast(p) => (IF e.size = 0 THEN 0 ELSE p.chunk) = Count(p.entry)
  BY <1>1, <1>2, <1>4 DEF IsLast
<1>6. StoredUpTo(p) = [i \in 1 .. (IF e.size = 0 THEN 0 ELSE p.chunk) |-> Dec!Stored(e, i)]
  BY DEF StoredUpTo, EntryAt
<1>7. Dec!StoredContent(e) = [i \in 1 .. Count(p.entry) |-> Dec!Stored(e, i)]
  BY <1>4 DEF Dec!StoredContent
<1>8. \A i \in 1 .. p.chunk : e.size # 0 => i <= Count(p.entry)
  BY <1>1, <1>2, <1>4
<1> HIDE DEF p, e
<1>9. IsLast(p) => StoredUpTo(p) = Dec!StoredContent(e)
  BY <1>5, <1>6, <1>7
<1> QED BY <1>1, <1>3, <1>4, <1>8, <1>9 DEF p, e

\* What a chunk adds to the chunks before it.
Data(c) == IF c.piece.len > 0 THEN <<c.piece>> ELSE <<>>

LEMMA FirstOfEntry ==
  ASSUME ExtractTypes, ContainerTyped, NEW plan \in Seq(Places), IsPlan(plan),
         NEW m \in 1 .. Len(plan), plan[m].chunk = 1,
         NEW c, c.piece # None,
         c.piece = IF EntryAt(plan, m).size = 0 THEN Dec!EmptyPiece
                   ELSE Dec!Stored(EntryAt(plan, m), 1)
  PROVE  Data(c) = StoredUpTo(plan[m])
<1> DEFINE e == EntryAt(plan, m)
<1>1. /\ e \in Entries /\ e.size \in Nat
      /\ e.size # 0 => 1 <= Dec!ChunkCount(e.size)
  BY PlaceTypes DEF Entries
<1>2. StoredUpTo(plan[m]) = [i \in 1 .. (IF e.size = 0 THEN 0 ELSE 1) |-> Dec!Stored(e, i)]
  BY DEF StoredUpTo, EntryAt
<1> HIDE DEF e
<1>3. CASE e.size = 0
  <2>1. c.piece.len = 0
    BY <1>3, EmptyPieceIsPiece DEF e
  <2>2. StoredUpTo(plan[m]) = <<>>
    BY <1>2, <1>3
  <2> QED BY <2>1, <2>2 DEF Data
<1>4. CASE e.size # 0
  <2>1. c.piece = Dec!Stored(e, 1)
    BY <1>4 DEF e
  <2>2. c.piece.len = Dec!ChunkLen(e.size, 1)
    BY <1>1, <2>1, StoredPiece DEF ContainerTyped
  <2>3. Dec!ChunkLen(e.size, 1) \in Nat \ {0}
    BY <1>1, <1>4, CountOfSize
  <2>4. Data(c) = <<Dec!Stored(e, 1)>>
    BY <2>1, <2>2, <2>3 DEF Data
  <2>5. StoredUpTo(plan[m]) = <<Dec!Stored(e, 1)>>
    BY <1>2, <1>4
  <2> QED BY <2>4, <2>5
<1> QED BY <1>3, <1>4

LEMMA LaterOfEntry ==
  ASSUME ExtractTypes, ContainerTyped, NEW plan \in Seq(Places), IsPlan(plan),
         NEW n \in Nat \ {0}, n + 1 \in 1 .. Len(plan),
         plan[n + 1] = Place(plan[n].entry, plan[n].chunk + 1),
         NEW c, c.piece # None,
         c.piece = IF EntryAt(plan, n + 1).size = 0 THEN Dec!EmptyPiece
                   ELSE Dec!Stored(EntryAt(plan, n + 1), plan[n + 1].chunk)
  PROVE  StoredUpTo(plan[n]) \o Data(c) = StoredUpTo(plan[n + 1])
<1> DEFINE e == EntryAt(plan, n + 1)
           k == plan[n].chunk
<1>1. n \in 1 .. Len(plan) /\ k \in Nat \ {0} /\ plan[n] \in Places
  BY PlaceTypes
<1>2. plan[n + 1].chunk = k + 1 /\ plan[n + 1].entry = plan[n].entry
  BY DEF Place
<1>3. e.size # 0
  <2>1. plan[n + 1].chunk <= Count(plan[n + 1].entry)
    BY <1>1, <1>2 DEF IsPlan
  <2>2. plan[n + 1].entry \in 1 .. Len(entries)
    BY PlaceTypes
  <2> QED BY <1>1, <1>2, <2>1, <2>2, EntryTypes DEF EntryAt
<1>4. e \in Entries /\ e.size \in Nat /\ k + 1 \in 1 .. Dec!ChunkCount(e.size)
  <2>1. e \in Entries /\ \A i \in 1 .. k + 1 : i <= Dec!ChunkCount(e.size)
    BY <1>2, <1>3, PlaceTypes
  <2>2. e.size \in Nat
    BY <2>1 DEF Entries
  <2>3. Dec!ChunkCount(e.size) \in Nat
    BY <2>2, CountOfSize
  <2> QED BY <1>1, <2>1, <2>2, <2>3
<1>5. c.piece = Dec!Stored(e, k + 1)
  BY <1>2, <1>3
<1>6. /\ StoredUpTo(plan[n]) = [i \in 1 .. k |-> Dec!Stored(e, i)]
      /\ StoredUpTo(plan[n + 1]) = [i \in 1 .. k + 1 |-> Dec!Stored(e, i)]
  BY <1>2, <1>3 DEF StoredUpTo, EntryAt
<1> HIDE DEF e, k
<1>7. Data(c) = <<Dec!Stored(e, k + 1)>>
  <2>1. c.piece.len = Dec!ChunkLen(e.size, k + 1)
    BY <1>1, <1>4, <1>5, StoredPiece DEF ContainerTyped
  <2>2. Dec!ChunkLen(e.size, k + 1) \in Nat \ {0}
    BY <1>4, CountOfSize
  <2> QED BY <1>5, <2>1, <2>2 DEF Data
<1>8. [i \in 1 .. k |-> Dec!Stored(e, i)] \o <<Dec!Stored(e, k + 1)>>
        = [i \in 1 .. k + 1 |-> Dec!Stored(e, i)]
  <2> DEFINE f == [i \in 1 .. k + 1 |-> Dec!Stored(e, i)]
  <2>1. k \in Nat
    BY <1>1
  <2>2. \A i \in 1 .. k + 1 : Dec!Stored(e, i) \in Pieces \cup {None}
    BY <1>4, <2>1, StoredPiece DEF ContainerTyped
  <2>3. f \in [1 .. k + 1 -> Pieces \cup {None}]
    BY <2>2
  <2>4. /\ [i \in 1 .. k |-> f[i]] = [i \in 1 .. k |-> Dec!Stored(e, i)]
        /\ f[k + 1] = Dec!Stored(e, k + 1)
    BY <2>1
  <2> HIDE DEF f
  <2>5. [i \in 1 .. k |-> f[i]] \o <<f[k + 1]>> = f
    BY <2>1, <2>3, OneMore
  <2> QED BY <2>4, <2>5 DEF f
<1> QED BY <1>6, <1>7, <1>8

\* The chunk that is due belongs to what the writer has open, or starts anew.
LEMMA DueChunk ==
  ASSUME ExtractTypes, ExtractThreads, ContainerTyped, NEW plan \in Seq(Places), Follows(plan),
         NEW c \in InTransit, c.seq = xNextExpected, c.piece # None
  PROVE  LET m == xNextExpected + 1
             out == OutputOf(c.name)
         IN  /\ xNextExpected \in Nat /\ m \in 1 .. Len(plan)
             /\ c.name = EntryAt(plan, m).name /\ c.sum = EntryAt(plan, m)
             /\ c.last <=> IsLast(plan[m])
             /\ (IF Dec!Switch(c) THEN <<>> ELSE outputs[out]) \o Data(c) = StoredUpTo(plan[m])
             /\ (IF Dec!Switch(c) THEN <<>> ELSE hashed) \o Data(c) = StoredUpTo(plan[m])
             /\ ~ Dec!Switch(c) => out \in DOMAIN outputs
             /\ Data(c) \in Seq(Pieces)
<1> DEFINE n == xNextExpected
           m == n + 1
           p == plan[m]
           e == EntryAt(plan, m)
           out == OutputOf(c.name)
<1>1. /\ IsPlan(plan) /\ FollowsPlan(c, plan) /\ Written(plan, n) /\ n \in Nat
      /\ c \in ReadBackChunks
  BY TransitTyped DEF Follows, ExtractTypes
<1>2. /\ m \in 1 .. Len(plan) /\ c.name = e.name /\ c.sum = e /\ (c.last <=> IsLast(p))
      /\ c.piece = IF e.size = 0 THEN Dec!EmptyPiece ELSE Dec!Stored(e, p.chunk)
  BY <1>1 DEF FollowsPlan
<1>3. c.name \in Names /\ c.name # None
  BY <1>1, ExtractAssumption DEF ReadBackChunks
<1>4. Data(c) \in Seq(Pieces)
  BY <1>1 DEF Data, ReadBackChunks
<1>5. p = IF m = 1 THEN Place(1, 1) ELSE NextPlace(plan[n])
  BY <1>1, <1>2 DEF IsPlan
<1>6. CASE n = 0 \/ IsLast(plan[n])
  <2>1. p.chunk = 1
    BY <1>1, <1>5, <1>6 DEF NextPlace, Place
  <2>2. current = None
    BY <1>1, <1>6 DEF Written, WrittenAs
  <2>3. Dec!Switch(c)
    BY <1>3, <2>2 DEF Dec!Switch
  <2>4. Data(c) = StoredUpTo(p)
    BY <1>1, <1>2, <2>1, FirstOfEntry
  <2>5. <<>> \o Data(c) = Data(c)
    BY <1>4
  <2> QED BY <1>1, <1>2, <1>4, <2>3, <2>4, <2>5
<1>7. CASE n # 0 /\ ~ IsLast(plan[n])
  <2>1. p = Place(plan[n].entry, plan[n].chunk + 1) /\ n \in Nat \ {0}
    BY <1>1, <1>5, <1>7 DEF NextPlace
  <2>2. EntryAt(plan, n) = e /\ OutputAt(plan, n) = out
    BY <1>2, <2>1 DEF EntryAt, OutputAt, Place
  <2>3. current = c.name /\ hashed = StoredUpTo(plan[n])
    BY <1>1, <1>2, <1>7, <2>2 DEF Written, WrittenAs
  <2>4. ~ Dec!Switch(c)
    BY <2>3 DEF Dec!Switch
  <2>5. out \in DOMAIN outputs /\ outputs[out] = StoredUpTo(plan[n])
    <3>1. n \in 1 .. n
      BY <2>1
    <3>2. out \in DOMAIN outputs
      BY <1>1, <2>2, <3>1 DEF Written, WrittenAs
    <3>3. PICK l \in 1 .. n :
            /\ OutputAt(plan, l) = out
            /\ \A j \in l + 1 .. n : OutputAt(plan, j) # out
            /\ outputs[out] = StoredUpTo(plan[l])
      BY <1>1, <3>2 DEF Written, WrittenAs
    <3>4. l = n
      <4>1. l # n => n \in l + 1 .. n
        BY <3>1, <3>3
      <4> QED BY <2>2, <3>3, <4>1
    <3> QED BY <3>2, <3>3, <3>4
  <2>6. StoredUpTo(plan[n]) \o Data(c) = StoredUpTo(p)
    BY <1>1, <1>2, <2>1, LaterOfEntry
  <2> QED BY <1>1, <1>2, <1>4, <2>3, <2>4, <2>5, <2>6
<1> QED BY <1>6, <1>7

LEMMA ChunkWritten ==
  ASSUME ExtractTypes, ExtractThreads, ContainerTyped, NEW plan \in Seq(Places), Follows(plan),
         NEW c \in InTransit, c.seq = xNextExpected, c.piece # None,
         Dec!Write(c), UNCHANGED stored, xNextExpected' = xNextExpected + 1
  PROVE  Written(plan, xNextExpected)'
<1> DEFINE n == xNextExpected
           m == n + 1
           p == plan[m]
           e == EntryAt(plan, m)
           out == OutputOf(c.name)
           all == StoredUpTo(p)
<1>1. /\ n \in Nat /\ m \in 1 .. Len(plan) /\ c.name = e.name /\ c.sum = e
      /\ c.last <=> IsLast(p)
      /\ (IF Dec!Switch(c) THEN <<>> ELSE outputs[out]) \o Data(c) = all
      /\ (IF Dec!Switch(c) THEN <<>> ELSE hashed) \o Data(c) = all
  BY DueChunk
<1>2. /\ outputs' = Dec!Holding(out, all)
      /\ hashed' = IF c.last THEN <<>> ELSE all
      /\ current' = IF c.last THEN None ELSE c.name
      /\ checksumFailures_' = IF c.last /\ all # Dec!Content(c.sum)
                              THEN checksumFailures_ \cup {c.name}
                              ELSE checksumFailures_
  BY <1>1 DEF Dec!Write, Data
<1>3. IsPlan(plan) /\ Written(plan, n)
  BY DEF Follows
<1>4. IsLast(p) => (all # Dec!Content(e) <=> ~ Intact(e))
  BY <1>1, <1>3, PlaceTypes DEF Intact
<1>5. OutputAt(plan, m) = out
  BY <1>1 DEF OutputAt
<1> HIDE DEF p, e, out, all, m
<1>6. /\ 1 .. m = 1 .. n \cup {m} /\ m # 0 /\ m \notin 1 .. n /\ m \in Nat
  BY <1>1 DEF m
<1>7. {OutputAt(plan, l) : l \in 1 .. m} = DOMAIN outputs \cup {out}
  <2>1. DOMAIN outputs = {OutputAt(plan, l) : l \in 1 .. n}
    BY <1>3 DEF Written, WrittenAs
  <2> QED BY <1>5, <1>6, <2>1
<1>8. DOMAIN outputs' = DOMAIN outputs \cup {out}
  BY <1>2 DEF Dec!Holding
<1>9. ASSUME NEW o \in DOMAIN outputs'
       PROVE  \E k \in 1 .. m :
                /\ OutputAt(plan, k) = o
                /\ \A l \in k + 1 .. m : OutputAt(plan, l) # o
                /\ outputs'[o] = StoredUpTo(plan[k])
  <2>1. CASE o = out
    <3>1. outputs'[o] = all
      BY <1>2, <1>8, <2>1 DEF Dec!Holding
    <3>2. m \in 1 .. m /\ m + 1 .. m = {}
      BY <1>6
    <3> QED BY <1>5, <2>1, <3>1, <3>2 DEF all, p
  <2>2. CASE o # out
    <3>1. o \in DOMAIN outputs /\ outputs'[o] = outputs[o]
      BY <1>2, <1>8, <2>2 DEF Dec!Holding
    <3>2. PICK k \in 1 .. n :
            /\ OutputAt(plan, k) = o
            /\ \A l \in k + 1 .. n : OutputAt(plan, l) # o
            /\ outputs[o] = StoredUpTo(plan[k])
      BY <1>3, <3>1 DEF Written, WrittenAs
    <3>3. \A l \in k + 1 .. m : l = m \/ l \in k + 1 .. n
      BY <1>1, <1>6 DEF m
    <3>4. k \in 1 .. m
      BY <1>6
    <3> QED BY <1>5, <2>2, <3>1, <3>2, <3>3, <3>4
  <2> QED BY <2>1, <2>2
<1>10. checksumFailures_' =
         {EntryAt(plan, k).name :
            k \in {l \in 1 .. m : IsLast(plan[l]) /\ ~ Intact(EntryAt(plan, l))}}
  <2> DEFINE Bad(l) == IsLast(plan[l]) /\ ~ Intact(EntryAt(plan, l))
  <2>1. checksumFailures_ = {EntryAt(plan, k).name : k \in {l \in 1 .. n : Bad(l)}}
    BY <1>3 DEF Written, WrittenAs
  <2>2. Bad(m) <=> c.last /\ all # Dec!Content(c.sum)
    BY <1>1, <1>4 DEF p, e
  <2>3. EntryAt(plan, m).name = c.name
    BY <1>1 DEF e
  <2> HIDE DEF Bad
  <2>4. {l \in 1 .. m : Bad(l)} =
          IF Bad(m) THEN {l \in 1 .. n : Bad(l)} \cup {m} ELSE {l \in 1 .. n : Bad(l)}
    BY <1>6
  <2>5. checksumFailures_' = {EntryAt(plan, k).name : k \in {l \in 1 .. m : Bad(l)}}
    BY <1>2, <2>1, <2>2, <2>3, <2>4
  <2> QED BY <2>5 DEF Bad
<1>11. /\ IsLast(plan[m]) => current' = None /\ hashed' = <<>>
       /\ ~ IsLast(plan[m]) =>
            current' = EntryAt(plan, m).name /\ hashed' = StoredUpTo(plan[m])
  BY <1>1, <1>2 DEF p, e, all
<1>12. WrittenAs(plan, m, current', hashed', outputs', checksumFailures_')
  BY <1>6, <1>7, <1>8, <1>9, <1>10, <1>11 DEF WrittenAs
<1>13. xNextExpected' = m
  BY DEF m
<1> QED BY <1>12, <1>13, WrittenAfter

LEMMA StoredPrefix ==
  ASSUME ExtractTypes, ContainerTyped, NEW plan \in Seq(Places), IsPlan(plan),
         NEW m \in 1 .. Len(plan)
  PROVE  /\ StoredUpTo(plan[m]) \in Seq(Pieces \cup {None})
         /\ Dec!StoredContent(EntryAt(plan, m)) \in Seq(Pieces \cup {None})
         /\ Dec!IsPrefix(StoredUpTo(plan[m]), Dec!StoredContent(EntryAt(plan, m)))
         /\ Dec!IsPrefix(<<>>, Dec!StoredContent(EntryAt(plan, m)))
<1> DEFINE e == EntryAt(plan, m)
           k == IF e.size = 0 THEN 0 ELSE plan[m].chunk
           n == Dec!ChunkCount(e.size)
           s == [i \in 1 .. k |-> Dec!Stored(e, i)]
           t == [i \in 1 .. n |-> Dec!Stored(e, i)]
           S == Pieces \cup {None}
<1>1. /\ plan[m].chunk \in Nat \ {0} /\ e \in Entries
      /\ \A i \in 1 .. plan[m].chunk : e.size # 0 => i <= n
  BY PlaceTypes
<1>2. e.size \in Nat /\ n \in Nat /\ k \in Nat /\ k <= n
  <2>1. e.size \in Nat
    BY <1>1 DEF Entries
  <2>2. n \in Nat
    BY <2>1, CountOfSize
  <2>3. plan[m].chunk \in 1 .. plan[m].chunk
    BY <1>1
  <2> QED BY <1>1, <2>1, <2>2, <2>3
<1>3. StoredUpTo(plan[m]) = s /\ Dec!StoredContent(e) = t
  BY DEF StoredUpTo, EntryAt, Dec!StoredContent
<1>4. \A i \in Nat \ {0} : Dec!Stored(e, i) \in S
  BY <1>1, StoredPiece DEF ContainerTyped
<1> HIDE DEF e, k, n
<1>5. s \in [1 .. k -> S] /\ t \in [1 .. n -> S]
  BY <1>2, <1>4
<1>6. /\ s \in Seq(S) /\ Len(s) = k /\ t \in Seq(S) /\ Len(t) = n
      /\ \A i \in 1 .. k : s[i] = t[i]
  BY <1>2, <1>5
<1> HIDE DEF s, t, S
<1>7. Dec!IsPrefix(s, t)
  BY <1>2, <1>6, Prefixes
<1>8. Dec!IsPrefix(<<>>, t)
  <2>1. Len(<<>>) = 0 /\ SubSeq(<<>>, 1, 0) = <<>>
    OBVIOUS
  <2>2. SubSeq(t, 1, 0) = <<>> /\ 0 <= Len(t)
    BY <1>2, <1>6
  <2> QED BY <2>1, <2>2 DEF Dec!IsPrefix
<1> QED BY <1>3, <1>6, <1>7, <1>8 DEF e, S

\* What holds of an output, whichever file it is of.
HoldsOne(out, pieces) ==
  \E k \in 1 .. Len(entries) :
    /\ OutputOf(entries[k].name) = out
    /\ Dec!IsPrefix(pieces, Dec!StoredContent(entries[k]))
    /\ None \notin {pieces[i] : i \in 1 .. Len(pieces)}

LEMMA HoldsOneFile ==
  /\ OutputsHoldOneFile <=> \A out \in DOMAIN outputs : HoldsOne(out, outputs[out])
  /\ UNCHANGED stored =>
       (OutputsHoldOneFile' <=> \A out \in DOMAIN outputs' : HoldsOne(out, outputs'[out]))
<1>1. OutputsHoldOneFile <=> \A out \in DOMAIN outputs : HoldsOne(out, outputs[out])
  BY DEF OutputsHoldOneFile, Dec!OutputsHoldOneFile, HoldsOne
<1>2. ASSUME UNCHANGED stored
      PROVE  OutputsHoldOneFile' <=> \A out \in DOMAIN outputs' : HoldsOne(out, outputs'[out])
  <2>1. entries' = entries /\ \A e : Dec!StoredContent(e)' = Dec!StoredContent(e)
    BY <1>2, PlacesStay DEF stored
  <2> QED BY <2>1 DEF OutputsHoldOneFile, Dec!OutputsHoldOneFile, HoldsOne
<1> QED BY <1>1, <1>2

LEMMA OutputGrows ==
  ASSUME ExtractTypes, ExtractThreads, ContainerTyped, NEW plan \in Seq(Places), Follows(plan),
         NEW c \in InTransit, c.seq = xNextExpected, c.piece # None,
         Dec!Write(c), UNCHANGED stored, OutputsHoldOneFile
  PROVE  OutputsHoldOneFile'
<1> DEFINE m == xNextExpected + 1
           e == EntryAt(plan, m)
           out == OutputOf(c.name)
           before == IF Dec!Switch(c) THEN <<>> ELSE outputs[out]
           all == StoredUpTo(plan[m])
           S == Pieces \cup {None}
<1>1. /\ m \in 1 .. Len(plan) /\ c.name = e.name
      /\ before \o Data(c) = all
      /\ ~ Dec!Switch(c) => out \in DOMAIN outputs
      /\ Data(c) \in Seq(Pieces)
  BY DueChunk
<1>2. outputs' = Dec!Holding(out, all)
  BY <1>1 DEF Dec!Write, Data
<1>3. IsPlan(plan) /\ Written(plan, xNextExpected) /\ xNextExpected \in Nat
  BY DEF Follows, ExtractTypes
<1>4. before \in Seq(S) /\ None \notin {before[i] : i \in 1 .. Len(before)}
  <2>1. CASE Dec!Switch(c)
    <3>1. before = <<>>
      BY <2>1
    <3>2. <<>> \in Seq(S) /\ Len(<<>>) = 0 /\ 1 .. 0 = {}
      OBVIOUS
    <3> HIDE DEF before, S
    <3> QED BY <3>1, <3>2
  <2>2. CASE ~ Dec!Switch(c)
    <3>1. out \in DOMAIN outputs /\ before = outputs[out]
      BY <1>1, <2>2
    <3>2. PICK l \in 1 .. xNextExpected : outputs[out] = StoredUpTo(plan[l])
      BY <1>3, <3>1 DEF Written, WrittenAs
    <3>3. l \in 1 .. Len(plan)
      BY <1>1, <1>3
    <3>4. before \in Seq(S)
      BY <1>3, <3>1, <3>2, <3>3, StoredPrefix
    <3>5. HoldsOne(out, before)
      BY <3>1, HoldsOneFile
    <3> QED BY <3>4, <3>5 DEF HoldsOne
  <2> QED BY <2>1, <2>2
<1> HIDE DEF before
<1>5. None \notin {all[i] : i \in 1 .. Len(all)}
  <2> SUFFICES ASSUME NEW i \in 1 .. Len(all) PROVE all[i] # None
    OBVIOUS
  <2> DEFINE d == Data(c)
  <2>1. Len(before) \in Nat /\ d \in Seq(Pieces) /\ Len(d) \in Nat /\ d \in Seq(S)
    BY <1>1, <1>4
  <2> HIDE DEF d, all, S
  <2>2. all = before \o d
    BY <1>1 DEF d
  <2>3. Len(all) = Len(before) + Len(d)
    BY <1>4, <2>1, <2>2
  <2>4. CASE i <= Len(before)
    <3>1. all[i] = before[i] /\ i \in 1 .. Len(before)
      BY <1>4, <2>1, <2>2, <2>4
    <3> QED BY <1>4, <3>1
  <2>5. CASE ~ i <= Len(before)
    <3>1. i - Len(before) \in 1 .. Len(d) /\ all[i] = d[i - Len(before)]
      BY <1>4, <2>1, <2>2, <2>3, <2>5
    <3>2. d[i - Len(before)] \in Pieces
      BY <2>1, <3>1
    <3> QED BY <3>1, <3>2, NoneIsNoChunk
  <2> QED BY <2>4, <2>5
<1>6. HoldsOne(out, all)
  <2>1. /\ plan[m].entry \in 1 .. Len(entries) /\ e = entries[plan[m].entry]
        /\ Dec!IsPrefix(all, Dec!StoredContent(e))
    BY <1>1, <1>3, PlaceTypes, StoredPrefix DEF EntryAt
  <2> HIDE DEF e, all
  <2> QED BY <1>1, <1>5, <2>1 DEF HoldsOne
<1>7. ASSUME NEW o \in DOMAIN outputs' PROVE HoldsOne(o, outputs'[o])
  <2>1. CASE o = out
    BY <1>2, <1>6, <2>1 DEF Dec!Holding
  <2>2. CASE o # out
    <3>1. o \in DOMAIN outputs /\ outputs'[o] = outputs[o]
      BY <1>2, <2>2 DEF Dec!Holding
    <3> QED BY <3>1, HoldsOneFile
  <2> QED BY <2>1, <2>2
<1> QED BY <1>7, HoldsOneFile

LEMMA OutputCut ==
  ASSUME ExtractTypes, ExtractThreads, ContainerTyped, NEW plan \in Seq(Places), Follows(plan),
         NEW c \in InTransit, c.seq = xNextExpected, Dec!WriteFails(c),
         UNCHANGED stored, OutputsHoldOneFile
  PROVE  OutputsHoldOneFile'
<1> DEFINE m == xNextExpected + 1
           out == OutputOf(c.name)
<1>1. outputs' = outputs \/ outputs' = Dec!Holding(out, <<>>)
  BY DEF Dec!WriteFails
<1>2. /\ IsPlan(plan) /\ m \in 1 .. Len(plan) /\ c.name = EntryAt(plan, m).name
  BY TransitTyped DEF Follows, FollowsPlan, ExtractTypes
<1>3. HoldsOne(out, <<>>)
  <2>1. /\ plan[m].entry \in 1 .. Len(entries) /\ EntryAt(plan, m) = entries[plan[m].entry]
        /\ Dec!IsPrefix(<<>>, Dec!StoredContent(EntryAt(plan, m)))
    BY <1>2, PlaceTypes, StoredPrefix DEF EntryAt
  <2> QED BY <1>2, <2>1 DEF HoldsOne
<1>4. ASSUME NEW o \in DOMAIN outputs' PROVE HoldsOne(o, outputs'[o])
  <2>1. CASE outputs' = outputs
    BY <2>1, HoldsOneFile
  <2>2. CASE outputs' = Dec!Holding(out, <<>>)
    <3>1. CASE o = out
      BY <1>3, <2>2, <3>1 DEF Dec!Holding
    <3>2. CASE o # out
      <4>1. o \in DOMAIN outputs /\ outputs'[o] = outputs[o]
        BY <2>2, <3>2 DEF Dec!Holding
      <4> QED BY <4>1, HoldsOneFile
    <3> QED BY <3>1, <3>2
  <2> QED BY <1>1, <2>1, <2>2
<1> QED BY <1>4, HoldsOneFile

LEMMA ChunkProcessed ==
  ASSUME ExtractInv, ContainerTyped, xwpc = "loop", NEW c \in Decrypted, c.seq = xNextExpected,
         Dec!Process(c),
         UNCHANGED <<stored, xrpc, entry, chunk, xSeqNo, xTask, xResult, xEnded, xReadQueue>>,
         xWriteQueue' \in QueuesOf(ReadBackChunks), xReorderBuf' \in SUBSET ReadBackChunks,
         xWriteQueue'.closed = xWriteQueue.closed,
         Decrypted' \subseteq Decrypted, Decrypted \subseteq Decrypted' \cup {c}
  PROVE  ExtractInv'
<1>1. ExtractTypes /\ ExtractThreads /\ OfTheTable /\ OutputsHoldOneFile /\ Checked(c)
  BY DEF ExtractInv
<1>2. ClosedInTurn /\ NoneMissing
  BY DEF ExtractInv, ExtractUnfailed
<1>3. PICK plan \in Seq(Places) : Follows(plan)
  BY DEF ExtractInv, ExtractUnfailed
<1>4. /\ c \in InTransit /\ c \in ReadBackChunks
      /\ xNextExpected \in Nat /\ xSeqNo \in Nat /\ xNextExpected + 1 <= xSeqNo
  <2>1. c \in InTransit
    BY DEF InTransit
  <2>2. FollowsPlan(c, plan) /\ Len(plan) = xSeqNo
    BY <1>3, <2>1 DEF Follows
  <2>3. xNextExpected \in Nat /\ xSeqNo \in Nat
    BY <1>1 DEF ExtractTypes
  <2> QED BY <1>1, <2>1, <2>2, <2>3, TransitTyped DEF FollowsPlan
<1>5. entries' = entries
  BY DEF stored
<1>6. Count(entry)' = Count(entry) /\ (IsLast(Place(entry, chunk))' <=> IsLast(Place(entry, chunk)))
  BY <1>5 DEF IsLast, Count, Place
<1>7. \/ /\ ~ c.error /\ Dec!Write(c) /\ xNextExpected' = xNextExpected + 1 /\ xwpc' = "loop"
      \/ /\ outputs' = outputs \/ Dec!WriteFails(c)
         /\ xNextExpected' = xNextExpected /\ xwpc' = "failed"
  BY DEF Dec!Process, Dec!files
<1>8. ExtractTypes'
  BY <1>1, <1>4, <1>5, <1>7 DEF ExtractTypes
<1>9. ExtractThreads'
  <2>1. xwpc' \notin {"idle", "refused"} /\ xNextExpected' <= xSeqNo'
    BY <1>1, <1>4, <1>7 DEF ExtractThreads
  <2> QED BY <1>1, <1>5, <1>6, <2>1 DEF ExtractThreads
<1>10. OfTheTable'
  BY <1>1, <1>5 DEF OfTheTable, stored
<1>11. \A d \in Decrypted' : Checked(d)
  BY DEF ExtractInv
<1>12. CASE /\ ~ c.error /\ Dec!Write(c) /\ xNextExpected' = xNextExpected + 1 /\ xwpc' = "loop"
  <2>1. c.piece # None
    BY <1>1, <1>12 DEF Checked
  <2>2. OutputsHoldOneFile'
    BY <1>1, <1>3, <1>4, <1>12, <2>1, OutputGrows
  <2>3. Written(plan, xNextExpected)'
    BY <1>1, <1>3, <1>4, <1>12, <2>1, ChunkWritten
  <2>4. ClosedInTurn'
    BY <1>2, <1>5, <1>12 DEF ClosedInTurn
  <2>5. /\ InTransit' \subseteq InTransit /\ InTransit \subseteq InTransit' \cup {c}
    BY DEF InTransit, Fetched
  <2>6. NoneMissing'
    <3> SUFFICES ASSUME NEW s \in xNextExpected' .. xSeqNo' - 1
                 PROVE  \E d \in InTransit' : d.seq = s
      BY DEF NoneMissing
    <3>1. s \in xNextExpected .. xSeqNo - 1 /\ s # xNextExpected
      BY <1>4, <1>12
    <3>2. PICK d \in InTransit : d.seq = s
      BY <1>2, <3>1 DEF NoneMissing
    <3> QED BY <2>5, <3>1, <3>2
  <2>7. \A d \in InTransit' : FollowsPlan(d, plan)'
    BY <1>3, <2>5, FollowsStays DEF Follows
  <2>8. IsPlan(plan)' /\ Following(plan)' = Following(plan)
    BY <1>3, PlacesStay DEF Follows
  <2>9. FetchAt' = FetchAt
    <3>1. NextPlace(Place(entry, chunk))' = NextPlace(Place(entry, chunk))
      BY <1>5, <1>6 DEF NextPlace, Place
    <3> QED BY <3>1 DEF FetchAt, Place
  <2>10. Follows(plan)'
    BY <1>3, <1>5, <2>3, <2>7, <2>8, <2>9 DEF Follows
  <2> QED BY <1>8, <1>9, <1>10, <1>11, <2>2, <2>4, <2>6, <2>10 DEF ExtractInv
<1>13. CASE /\ outputs' = outputs \/ Dec!WriteFails(c)
            /\ xNextExpected' = xNextExpected /\ xwpc' = "failed"
  <2>1. OutputsHoldOneFile'
    <3>1. CASE outputs' = outputs
      BY <1>1, <3>1, QuietKeeps
    <3>2. CASE Dec!WriteFails(c)
      BY <1>1, <1>3, <1>4, <3>2, OutputCut
    <3> QED BY <1>13, <3>1, <3>2
  <2>2. ~ ExtractUnfailed'
    BY <1>13 DEF ExtractUnfailed
  <2> QED BY <1>8, <1>9, <1>10, <1>11, <2>1, <2>2 DEF ExtractInv
<1> QED BY <1>7, <1>12, <1>13

LEMMA NextProcessed ==
  ASSUME ExtractInv, ContainerTyped, Dec!ProcessNext
  PROVE  ExtractInv'
<1> DEFINE c == Head(xWriteQueue.items)
<1>1. /\ UNCHANGED <<stored, xrpc, entry, chunk, xSeqNo, xTask, xResult, xEnded, xReadQueue,
                     xReorderBuf>>
      /\ xwpc = "loop" /\ xWriteQueue.items # <<>> /\ c.seq = xNextExpected /\ Dec!Process(c)
      /\ xWriteQueue' = Dec!Popped(xWriteQueue)
  BY DEF Dec!ProcessNext, Dec!container, Dec!reader, Dec!workers, stored
<1>2. xWriteQueue \in QueuesOf(ReadBackChunks) /\ xReorderBuf \in SUBSET ReadBackChunks
  BY DEF ExtractInv, ExtractTypes
<1>3. /\ xWriteQueue' \in QueuesOf(ReadBackChunks)
      /\ xWriteQueue'.closed = xWriteQueue.closed
      /\ ItemsOf(xWriteQueue.items) = ItemsOf(xWriteQueue'.items) \cup {c}
  BY <1>1, <1>2, Pops
<1> HIDE DEF c
<1>4. Decrypted' \subseteq Decrypted /\ Decrypted \subseteq Decrypted' \cup {c} /\ c \in Decrypted
  BY <1>1, <1>3 DEF Decrypted, InHand
<1> QED BY <1>1, <1>2, <1>3, <1>4, ChunkProcessed

LEMMA StashedProcessed ==
  ASSUME ExtractInv, ContainerTyped, Dec!ProcessStashed
  PROVE  ExtractInv'
<1>1. UNCHANGED <<stored, xrpc, entry, chunk, xSeqNo, xTask, xResult, xEnded, xReadQueue,
                  xWriteQueue>>
      /\ xwpc = "loop"
  BY DEF Dec!ProcessStashed, Dec!container, Dec!reader, Dec!workers, stored
<1>2. PICK c \in xReorderBuf : /\ c.seq = xNextExpected /\ Dec!Process(c)
                               /\ xReorderBuf' = xReorderBuf \ {c}
  BY DEF Dec!ProcessStashed, Dec!Due
<1>3. xWriteQueue \in QueuesOf(ReadBackChunks) /\ xReorderBuf \in SUBSET ReadBackChunks
  BY DEF ExtractInv, ExtractTypes
<1>4. Decrypted' \subseteq Decrypted /\ Decrypted \subseteq Decrypted' \cup {c} /\ c \in Decrypted
  BY <1>1, <1>2 DEF Decrypted, InHand
<1>5. xWriteQueue' \in QueuesOf(ReadBackChunks) /\ xReorderBuf' \in SUBSET ReadBackChunks
  BY <1>1, <1>2, <1>3
<1> QED BY <1>1, <1>2, <1>4, <1>5, ChunkProcessed

-----------------------------------------------------------------------------
\* What a name asks for is in the table.
LEMMA Found ==
  ASSUME table \in Seq(Entries), NEW name \in NamesIn(table)
  PROVE  \E j \in 1 .. Len(table) : Dec!getFileInfoByName(table, name) = table[j]
<1> DEFINE places == {k \in 1 .. Len(table) : table[k].name = name}
<1>1. places \in SUBSET Nat /\ places # {} /\ places \subseteq 1 .. Len(table)
  BY DEF NamesIn
<1>2. \E k \in places : \A j \in places : k <= j
  BY <1>1, LeastOne
<1> DEFINE first == CHOOSE k \in places : \A j \in places : k <= j
<1>3. first \in places
  BY <1>2
<1>4. Dec!getFileInfoByName(table, name) = table[first]
  BY DEF Dec!getFileInfoByName
<1> HIDE DEF first, places
<1> QED BY <1>1, <1>3, <1>4

LEMMA ExtractBegins ==
  ASSUME ExtractInv, ContainerTyped, NEW request \in Requests, Dec!Extract(request)
  PROVE  ExtractInv'
<1>1. /\ UNCHANGED <<medium, table, entry, chunk, xSeqNo, xTask, xResult, xEnded, xNextExpected,
                     xReorderBuf, xReadQueue, xWriteQueue, output>>
      /\ xwpc = "idle" /\ xwpc' = "loop" /\ xrpc' = "next"
      /\ entries' = IF request = <<>> THEN table
                    ELSE [k \in 1 .. Len(request) |-> Dec!getFileInfoByName(table, request[k])]
      /\ \A k \in 1 .. Len(request) : request[k] \in Dec!NamesIn(table)
  BY DEF Dec!Extract, Dec!workers, Dec!files, output
<1>2. ExtractTypes /\ Untouched
  BY <1>1 DEF ExtractInv, ExtractThreads
<1>3. table \in Seq(Entries) /\ Len(request) \in Nat
  BY ExtractAssumption DEF ContainerTyped
<1>4. /\ entries' \in Seq(Entries)
      /\ \A k \in 1 .. Len(entries') : \E j \in 1 .. Len(table) : entries'[k] = table[j]
  <2>1. CASE request = <<>>
    BY <1>1, <1>3, <2>1
  <2>2. CASE request # <<>>
    <3> DEFINE E(k) == Dec!getFileInfoByName(table, request[k])
    <3>1. \A k \in 1 .. Len(request) : \E j \in 1 .. Len(table) : E(k) = table[j]
      BY <1>1, <1>3, Found DEF Dec!NamesIn, NamesIn
    <3>2. \A k \in 1 .. Len(request) : E(k) \in Entries
      BY <1>3, <3>1
    <3>3. entries' = [k \in 1 .. Len(request) |-> E(k)]
      BY <1>1, <2>2
    <3> HIDE DEF E
    <3>4. entries' \in [1 .. Len(request) -> Entries]
      BY <3>2, <3>3
    <3>5. entries' \in Seq(Entries) /\ Len(entries') = Len(request)
      BY <1>3, <3>4
    <3> QED BY <3>1, <3>3, <3>5
  <2> QED BY <2>1, <2>2
<1>5. /\ current' = None /\ hashed' = <<>> /\ outputs' = <<>> /\ checksumFailures_' = {}
      /\ xTask' = None /\ xSeqNo' = 0 /\ xNextExpected' = 0 /\ entry' = 1
      /\ xReadQueue' = EmptyQueue /\ xWriteQueue' = EmptyQueue
      /\ xResult' = [w \in Workers |-> None] /\ xEnded' = {} /\ xReorderBuf' = {}
  BY <1>1, <1>2 DEF Untouched, output
<1>6. ExtractTypes'
  BY <1>1, <1>2, <1>4 DEF ExtractTypes
<1>7. ExtractThreads'
  <2>1. Len(entries') \in Nat
    BY <1>4
  <2> QED BY <1>1, <1>5, <2>1 DEF ExtractThreads
<1>8. OfTheTable'
  BY <1>1, <1>4 DEF OfTheTable
<1>9. Fetched' = {} /\ Decrypted' = {} /\ InTransit' = {}
  <2>1. EmptyQueue.items = <<>>
    BY DEF EmptyQueue
  <2> QED BY <1>5, <2>1, NoItems DEF InTransit, Fetched, Decrypted, InHand
<1>10. OutputsHoldOneFile'
  BY <1>5 DEF OutputsHoldOneFile, Dec!OutputsHoldOneFile
<1>11. ClosedInTurn' /\ NoneMissing'
  BY <1>1, <1>5 DEF ClosedInTurn, NoneMissing, EmptyQueue
<1>12. <<>> \in Seq(Places) /\ Follows(<<>>)'
  <2>1. <<>> \in Seq(Places) /\ Len(<<>>) = 0
    OBVIOUS
  <2>2. IsPlan(<<>>)'
    BY <2>1 DEF IsPlan
  <2>3. Following(<<>>)' = Place(1, 1)
    BY DEF Following, Place
  <2>4. FetchAt' = Place(1, 1)
    BY <1>1, <1>5 DEF FetchAt, Place
  <2>5. Written(<<>>, xNextExpected)'
    BY <1>5 DEF Written, WrittenAs
  <2> QED BY <1>5, <1>9, <2>1, <2>2, <2>3, <2>4, <2>5 DEF Follows
<1> QED BY <1>6, <1>7, <1>8, <1>9, <1>10, <1>11, <1>12 DEF ExtractInv

LEMMA ExtractingKeeps ==
  ASSUME ExtractInv, ContainerTyped, Dec!Next
  PROVE  ExtractInv'
<1>1. CASE Dec!Begin
  BY <1>1, ExtractBegins, NameRefused DEF Dec!Begin
<1>2. CASE Dec!Writer
  BY <1>2, NextProcessed, EarlyStashed, StashedProcessed, LoopEnded, WriterCleansUp DEF Dec!Writer
<1> QED BY <1>1, <1>2, ReaderKeeps, WorkersKeep DEF Dec!Next

-----------------------------------------------------------------------------
(***************************************************************************)
(* The container is filled, and then taken from.                           *)
(***************************************************************************)
LEMMA FreeNameKeepsStem ==
  ASSUME NEW t, NEW name \in Names
  PROVE  freeName(t, name).stem = name.stem
BY DEF freeName, Names

LEMMA NextKeepsStems ==
  ASSUME ListInv, StemsKept, [Next]_vars
  PROVE  StemsKept'
<1>1. Types /\ Threads /\ table \in Seq(Entries)
  BY DEF ListInv, PlacesInv
<1>2. CASE UNCHANGED <<files, table>>
  BY <1>2 DEF StemsKept
<1>3. CASE OpenFails \/ EmptyFile \/ ReadBlock
  BY <1>1, <1>2, <1>3, ReaderCuts DEF writer
<1>4. CASE OpenFile \/ EndOfInput \/ ReadThrows \/ ReaderEnds \/ PushTask
  BY <1>1, <1>2, <1>4, ReaderWalks, TaskMoves DEF writer
<1>5. ASSUME NEW w \in Workers, Worker(w) PROVE StemsKept'
  BY <1>1, <1>2, <1>5, WorkersMove DEF writer
<1>6. CASE StashEarly \/ LoopEnds \/ CloseReadQueue \/ CloseWriteQueue \/ RunEnds
  BY <1>1, <1>2, <1>6, WriterMoves
<1>7. CASE ProcessNext \/ ProcessStashed
  <2>1. PICK c \in ChunksUnderWay : c \in Chunks /\ Process(c) /\ UNCHANGED files
    BY <1>1, <1>7, WriterTakes
  <2>2. CASE UNCHANGED table
    BY <1>2, <2>1, <2>2
  <2>3. CASE c \in CutChunks /\ Write(c)
    <3>1. c.piece.file \in 1 .. Len(files)
      BY <2>1, <2>3, NoneIsNoChunk DEF ListInv, OfTheList, CutChunks
    <3>2. table' = IF c.last THEN Append(table, EntryOf(c, Start)) ELSE table
      BY <1>1, <2>3, <3>1, Entered
    <3>3. /\ EntryOf(c, Start).file = c.piece.file
          /\ EntryOf(c, Start).name.stem = files[c.piece.file].name.stem
      BY <1>1, <3>1, FileTypes, FreeNameKeepsStem DEF EntryOf
    <3>4. CASE c.last
      <4> DEFINE e == EntryOf(c, Start)
      <4> HIDE DEF e
      <4>1. table' = Append(table, e) /\ e.name.stem = files[e.file].name.stem
        BY <3>2, <3>3, <3>4 DEF e
      <4>2. /\ Len(table) \in Nat /\ Len(table') = Len(table) + 1 /\ table'[Len(table) + 1] = e
            /\ \A k \in 1 .. Len(table) : table'[k] = table[k]
        BY <1>1, <4>1
      <4>3. \A k \in 1 .. Len(table') : k = Len(table) + 1 \/ k \in 1 .. Len(table)
        BY <4>2
      <4> QED BY <2>1, <4>1, <4>2, <4>3 DEF StemsKept
    <3>5. CASE ~ c.last
      BY <1>2, <2>1, <3>2, <3>5
    <3> QED BY <3>4, <3>5
  <2> QED BY <1>1, <2>1, <2>2, <2>3, Processed
<1>8. CASE UNCHANGED vars
  BY <1>2, <1>8 DEF vars, writer
<1> QED BY <1>3, <1>4, <1>5, <1>6, <1>7, <1>8 DEF Next, Reader, Writer, Finished

NotBegun == xwpc \in {"idle", "refused"} /\ Untouched

LEMMA NotBegunKeeps == NotBegun => ExtractInv
<1> SUFFICES ASSUME NotBegun PROVE ExtractInv
  OBVIOUS
<1>1. Untouched /\ xwpc \in {"idle", "refused"}
  BY DEF NotBegun
<1>2. ExtractTypes
  BY <1>1 DEF ExtractTypes, Untouched, EmptyQueue, QueuesOf
<1>3. Len(entries) = 0
  BY <1>1 DEF Untouched
<1>4. ExtractThreads
  BY <1>1, <1>3 DEF ExtractThreads, Untouched
<1>5. OfTheTable /\ OutputsHoldOneFile
  BY <1>1, <1>3 DEF OfTheTable, OutputsHoldOneFile, Dec!OutputsHoldOneFile, Untouched
<1>6. Fetched = {} /\ Decrypted = {} /\ InTransit = {}
  <2>1. EmptyQueue.items = <<>>
    BY DEF EmptyQueue
  <2> QED BY <1>1, <2>1, NoItems DEF InTransit, Fetched, Decrypted, InHand, Untouched
<1>7. ClosedInTurn /\ NoneMissing
  BY <1>1 DEF ClosedInTurn, NoneMissing, Untouched, EmptyQueue
<1>8. <<>> \in Seq(Places) /\ Follows(<<>>)
  <2>1. <<>> \in Seq(Places) /\ Len(<<>>) = 0
    OBVIOUS
  <2>2. IsPlan(<<>>)
    BY <2>1 DEF IsPlan
  <2>3. Following(<<>>) = FetchAt
    BY <1>1 DEF Following, FetchAt, Untouched
  <2>4. Written(<<>>, xNextExpected)
    BY <1>1 DEF Written, WrittenAs, Untouched
  <2> QED BY <1>1, <1>6, <2>1, <2>2, <2>3, <2>4 DEF Follows, Untouched
<1> QED BY <1>2, <1>4, <1>5, <1>6, <1>7, <1>8 DEF ExtractInv

LEMMA RTNextKeeps == RoundTripInv /\ [RTNext]_<<vars, extraction>> => RoundTripInv'
<1> SUFFICES ASSUME RoundTripInv, [RTNext]_<<vars, extraction>> PROVE RoundTripInv'
  OBVIOUS
<1>1. SteadyInv /\ ListInv /\ StemsKept /\ ExtractInv /\ (wpc # "returned" => xwpc = "idle")
  BY DEF RoundTripInv, SteadyInv
<1>2. [Next]_vars
  BY DEF RTNext, Encrypting, Extracting
<1>3. SteadyInv' /\ StemsKept'
  BY <1>1, <1>2, NextKeepsSteady, NextKeepsStems
<1>4. CASE wpc # "returned" /\ UNCHANGED extraction
  <2>1. NotBegun
    BY <1>1, <1>4, UntouchedIsIdle DEF NotBegun
  <2>2. NotBegun'
    BY <1>4, <2>1 DEF NotBegun, Untouched, extraction
  <2>3. ExtractInv'
    BY <2>2, NotBegunKeeps, PTL
  <2>4. xwpc' = "idle"
    BY <1>1, <1>4 DEF extraction
  <2> QED BY <1>3, <2>3, <2>4 DEF RoundTripInv
<1>5. CASE wpc = "returned" /\ UNCHANGED <<vars, extraction>>
  <2>1. ExtractInv'
    <3>1. CASE xwpc \in {"idle", "refused"}
      <4>1. NotBegun
        BY <1>1, <3>1, UntouchedIsIdle DEF NotBegun
      <4>2. NotBegun'
        BY <1>5, <4>1 DEF NotBegun, Untouched, extraction
      <4> QED BY <4>2, NotBegunKeeps, PTL
    <3>2. CASE xwpc \notin {"idle", "refused"}
      <4>1. /\ UNCHANGED <<stored, output, xrpc, entry, chunk, xSeqNo, xTask, xResult, xEnded,
                           xNextExpected, xwpc, xReadQueue, xWriteQueue, xReorderBuf>>
            /\ ExtractTypes
        BY <1>1, <1>5 DEF extraction, vars, writer, stored, output, ExtractInv
      <4>2. ExtractTypes' /\ Decrypted' = Decrypted
        BY <4>1 DEF ExtractTypes, stored, Decrypted, InHand
      <4>3. ExtractUnfailed' => ExtractUnfailed /\ (ClosedInTurn => ClosedInTurn')
        BY <4>1 DEF ExtractUnfailed, ClosedInTurn, stored
      <4> QED BY <1>1, <3>2, <4>1, <4>2, <4>3, WriterKeeps
    <3> QED BY <3>1, <3>2
  <2>2. wpc' # "returned" => xwpc' = "idle"
    BY <1>5 DEF vars, writer
  <2> QED BY <1>3, <2>1, <2>2 DEF RoundTripInv
<1>6. CASE Extracting
  <2>1. ContainerTyped
    BY <1>1 DEF ContainerTyped, ListInv, PlacesInv, Types
  <2>2. ExtractInv' /\ wpc' = "returned"
    BY <1>1, <1>6, <2>1, ExtractingKeeps DEF Extracting, vars, writer
  <2> QED BY <1>3, <2>2 DEF RoundTripInv
<1> QED BY <1>4, <1>5, <1>6 DEF RTNext, Encrypting, Over

-----------------------------------------------------------------------------
(***************************************************************************)
(* The two halves follow one another.                                      *)
(***************************************************************************)

\* Seen from the filling side a round trip is a run of EncryptPipeline, fairness included,
\* so what EncryptPipeline_proofs states of Spec holds of RTSpec.
THEOREM FillingIsEncryptPipeline == RTSpec => Spec
<1>1. RTInit => Init
  BY DEF RTInit
<1>2. [RTNext]_<<vars, extraction>> => [Next]_vars
  <2> SUFFICES ASSUME [RTNext]_<<vars, extraction>> PROVE [Next]_vars
    OBVIOUS
  <2>1. CASE Encrypting
    BY <2>1 DEF Encrypting
  <2>2. CASE Extracting
    BY <2>2 DEF Extracting
  <2>3. CASE UNCHANGED <<vars, extraction>>
    BY <2>3
  <2> QED BY <2>1, <2>2, <2>3 DEF RTNext
<1> QED BY <1>1, <1>2, PTL DEF RTSpec, Spec

-----------------------------------------------------------------------------
(***************************************************************************)
(* What the invariant says of the outputs.                                 *)
(***************************************************************************)

\* FileManager::extract after FileManager::addFiles: from the first file read to the last
\* output written, chunks stay what they were cut as and reach the outputs in their turn.
THEOREM RoundTripInvariant == RTSpec => []RoundTripInv
<1>1. RTInit => RoundTripInv
  <2> SUFFICES ASSUME RTInit PROVE RoundTripInv
    OBVIOUS
  <2>1. Init /\ Dec!Init
    BY DEF RTInit
  <2>2. SteadyInv
    BY <2>1, InitSteady
  <2>3. StemsKept
    BY <2>1 DEF Init, StemsKept
  <2>4. NotBegun
    BY <2>1 DEF Dec!Init, NotBegun, Untouched, Dec!EmptyQueue, EmptyQueue
  <2>5. xwpc = "idle"
    BY <2>1 DEF Dec!Init
  <2> QED BY <2>2, <2>3, <2>4, <2>5, NotBegunKeeps DEF RoundTripInv
<1> QED BY <1>1, RTNextKeeps, PTL DEF RTSpec

\* processChunk: whatever fails and whichever worker is slow, an output is never anything but
\* the beginning of what the container holds of one file, and all of it has authenticated.
THEOREM OutputsAlwaysHoldOneFile == RTSpec => []OutputsHoldOneFile
<1>1. RoundTripInv => OutputsHoldOneFile
  BY DEF RoundTripInv, ExtractInv
<1> QED BY <1>1, RoundTripInvariant, PTL

\* When run() returns, the plan ends with the last chunk of the last entry.
LEMMA PlanComplete ==
  ASSUME RoundTripInv, xwpc = "returned"
  PROVE  \E plan \in Seq(Places) :
           /\ IsPlan(plan) /\ Written(plan, Len(plan))
           /\ \A k \in 1 .. Len(entries) :
                \E l \in 1 .. Len(plan) : plan[l].entry = k /\ IsLast(plan[l])
<1>1. ExtractTypes /\ ExtractThreads /\ ClosedInTurn
  BY DEF RoundTripInv, ExtractInv, ExtractUnfailed
<1>2. PICK plan \in Seq(Places) : Follows(plan)
  BY DEF RoundTripInv, ExtractInv, ExtractUnfailed
<1>3. /\ xrpc = "end" /\ entry > Len(entries) /\ xNextExpected = xSeqNo
      /\ entry \in Nat /\ Len(entries) \in Nat /\ entry <= Len(entries) + 1
  BY <1>1 DEF ClosedInTurn, ExtractTypes, ExtractThreads
<1>4. IsPlan(plan) /\ Written(plan, Len(plan)) /\ Following(plan) = Place(Len(entries) + 1, 1)
  <2>1. entry = Len(entries) + 1
    BY <1>3
  <2>2. FetchAt = Place(entry, 1)
    BY <1>3 DEF FetchAt
  <2> QED BY <1>2, <1>3, <2>1, <2>2 DEF Follows
<1>5. ASSUME NEW k \in 1 .. Len(entries)
      PROVE  \E l \in 1 .. Len(plan) : plan[l].entry = k /\ IsLast(plan[l])
  <2> DEFINE n == Len(plan)
             p == plan[n]
  <2>1. plan # <<>>
    BY <1>3, <1>4 DEF Following, Place
  <2>2. n \in 1 .. n /\ p \in Places
    BY <2>1
  <2>3. NextPlace(p) = Place(Len(entries) + 1, 1)
    BY <1>4, <2>1 DEF Following
  <2>4. IsLast(p) /\ p.entry = Len(entries)
    <3>1. p.entry \in Nat /\ p.chunk \in Nat \ {0}
      BY <2>2 DEF Places
    <3> HIDE DEF p
    <3> QED BY <1>3, <2>3, <3>1 DEF NextPlace, Place
  <2>5. CASE k = p.entry
    BY <2>2, <2>4, <2>5
  <2>6. CASE k # p.entry
    <3>1. k \in 1 .. p.entry - 1
      BY <1>3, <2>4, <2>6
    <3>2. \E l \in 1 .. n - 1 : plan[l].entry = k /\ IsLast(plan[l])
      BY <1>4, <2>2, <3>1 DEF IsPlan
    <3> QED BY <2>2, <3>2
  <2> QED BY <2>5, <2>6
<1> QED BY <1>4, <1>5

\* What is last written to an output is the last chunk of an entry, and of the last one.
LEMMA LastIsWhole ==
  ASSUME ExtractTypes, NEW plan \in Seq(Places), IsPlan(plan),
         \A k \in 1 .. Len(entries) :
           \E l \in 1 .. Len(plan) : plan[l].entry = k /\ IsLast(plan[l]),
         NEW out, NEW m \in 1 .. Len(plan), OutputAt(plan, m) = out,
         \A l \in m + 1 .. Len(plan) : OutputAt(plan, l) # out
  PROVE  IsLast(plan[m]) /\ EntryAt(plan, m) = Dec!LastOf(out)
<1> DEFINE K == plan[m].entry
           writers == {k \in 1 .. Len(entries) : OutputOf(entries[k].name) = out}
<1>1. K \in 1 .. Len(entries) /\ K \in writers
  BY PlaceTypes DEF OutputAt, EntryAt
<1>2. ASSUME NEW k \in writers, NEW l \in 1 .. Len(plan), plan[l].entry = k
      PROVE  l <= m
  <2>1. OutputAt(plan, l) = out
    BY <1>2 DEF OutputAt, EntryAt
  <2> QED BY <2>1
<1>3. ASSUME NEW l \in 1 .. Len(plan), l < m
      PROVE  Earlier(plan[l], plan[m])
  BY <1>3 DEF IsPlan
<1>4. IsLast(plan[m])
  <2>1. PICK l \in 1 .. Len(plan) : plan[l].entry = K /\ IsLast(plan[l])
    BY <1>1
  <2>2. l <= m
    BY <1>1, <1>2, <2>1
  <2>3. CASE l < m
    <3>1. plan[l].chunk < plan[m].chunk
      BY <1>3, <2>1, <2>3, PlaceTypes DEF Earlier
    <3>2. plan[m].chunk = 1 \/ plan[m].chunk <= Count(K)
      BY DEF IsPlan
    <3>3. /\ plan[l].chunk \in Nat \ {0} /\ plan[m].chunk \in Nat /\ Count(K) \in Nat
          /\ plan[l].chunk >= Count(K)
      BY <1>1, <2>1, PlaceTypes, EntryTypes DEF IsLast
    <3> QED BY <3>1, <3>2, <3>3
  <2> QED BY <2>1, <2>2, <2>3
<1>5. \A j \in writers : j <= K
  <2> SUFFICES ASSUME NEW j \in writers PROVE j <= K
    OBVIOUS
  <2>1. PICK l \in 1 .. Len(plan) : plan[l].entry = j
    OBVIOUS
  <2>2. l <= m
    BY <1>2, <2>1
  <2>3. l < m => j < K \/ j = K
    BY <1>3, <2>1 DEF Earlier
  <2> QED BY <1>1, <2>1, <2>2, <2>3
<1>6. (CHOOSE k \in writers : \A j \in writers : j <= k) = K
  <2>1. writers \subseteq Nat
    OBVIOUS
  <2> HIDE DEF writers, K
  <2>2. \A k \in writers : (\A j \in writers : j <= k) => k = K
    BY <1>1, <1>5, <2>1
  <2> QED BY <1>1, <1>5, <2>2
<1>7. Dec!LastOf(out) = entries[K]
  BY <1>6 DEF Dec!LastOf
<1> QED BY <1>4, <1>7 DEF EntryAt

LEMMA SameNameSameEntry ==
  ASSUME OfTheTable, NamesDiffer(table), NEW j \in 1 .. Len(entries), NEW k \in 1 .. Len(entries),
         entries[j].name = entries[k].name
  PROVE  entries[j] = entries[k]
<1>1. PICK i \in 1 .. Len(table), l \in 1 .. Len(table) :
        entries[j] = table[i] /\ entries[k] = table[l]
  BY DEF OfTheTable
<1> QED BY <1>1 DEF NamesDiffer

\* Every entry asked for is in its output, unless a later one took its place there.
LEMMA AllExtracted ==
  ASSUME RoundTripInv, xwpc = "returned"
  PROVE  /\ DOMAIN outputs = {OutputOf(entries[k].name) : k \in 1 .. Len(entries)}
         /\ \A k \in 1 .. Len(entries) :
              outputs[OutputOf(entries[k].name)]
                = Dec!StoredContent(Dec!LastOf(OutputOf(entries[k].name)))
         /\ \A k \in 1 .. Len(entries) :
              entries[k].name \in checksumFailures_ <=> ~ Intact(entries[k])
         /\ checksumFailures_ \subseteq {entries[k].name : k \in 1 .. Len(entries)}
<1>1. ExtractTypes /\ OfTheTable /\ NamesDiffer(table)
  BY DEF RoundTripInv, ExtractInv, SteadyInv, ListInv
<1>2. PICK plan \in Seq(Places) :
           /\ IsPlan(plan) /\ Written(plan, Len(plan))
           /\ \A k \in 1 .. Len(entries) :
                \E l \in 1 .. Len(plan) : plan[l].entry = k /\ IsLast(plan[l])
  BY PlanComplete
<1> DEFINE n == Len(plan)
<1>3. /\ DOMAIN outputs = {OutputAt(plan, m) : m \in 1 .. n}
      /\ \A out \in DOMAIN outputs :
           \E m \in 1 .. n :
             /\ OutputAt(plan, m) = out
             /\ \A l \in m + 1 .. n : OutputAt(plan, l) # out
             /\ outputs[out] = StoredUpTo(plan[m])
      /\ checksumFailures_ =
           {EntryAt(plan, m).name :
              m \in {l \in 1 .. n : IsLast(plan[l]) /\ ~ Intact(EntryAt(plan, l))}}
  BY <1>2 DEF Written, WrittenAs
<1>4. \A m \in 1 .. n : /\ plan[m].entry \in 1 .. Len(entries)
                        /\ EntryAt(plan, m) = entries[plan[m].entry]
  BY <1>1, <1>2, PlaceTypes DEF EntryAt
<1>5. DOMAIN outputs = {OutputOf(entries[k].name) : k \in 1 .. Len(entries)}
  <2>1. \A k \in 1 .. Len(entries) : \E m \in 1 .. n : plan[m].entry = k
    BY <1>2
  <2> QED BY <1>3, <1>4, <2>1 DEF OutputAt
<1>6. ASSUME NEW k \in 1 .. Len(entries)
      PROVE  outputs[OutputOf(entries[k].name)]
               = Dec!StoredContent(Dec!LastOf(OutputOf(entries[k].name)))
  <2> DEFINE out == OutputOf(entries[k].name)
  <2>1. PICK m \in 1 .. n :
          /\ OutputAt(plan, m) = out
          /\ \A l \in m + 1 .. n : OutputAt(plan, l) # out
          /\ outputs[out] = StoredUpTo(plan[m])
    BY <1>3, <1>5
  <2>2. IsLast(plan[m]) /\ EntryAt(plan, m) = Dec!LastOf(out)
    BY <1>1, <1>2, <2>1, LastIsWhole
  <2>3. StoredUpTo(plan[m]) = Dec!StoredContent(EntryAt(plan, m))
    BY <1>1, <1>2, <2>2, PlaceTypes
  <2> QED BY <2>1, <2>2, <2>3
<1>7. ASSUME NEW k \in 1 .. Len(entries)
      PROVE  entries[k].name \in checksumFailures_ <=> ~ Intact(entries[k])
  <2>1. ASSUME ~ Intact(entries[k]) PROVE entries[k].name \in checksumFailures_
    <3>1. PICK l \in 1 .. n : plan[l].entry = k /\ IsLast(plan[l])
      BY <1>2
    <3>2. EntryAt(plan, l) = entries[k]
      BY <3>1 DEF EntryAt
    <3> QED BY <1>3, <2>1, <3>1, <3>2
  <2>2. ASSUME entries[k].name \in checksumFailures_ PROVE ~ Intact(entries[k])
    <3>1. PICK m \in 1 .. n :
            EntryAt(plan, m).name = entries[k].name /\ ~ Intact(EntryAt(plan, m))
      BY <1>3, <2>2
    <3>2. EntryAt(plan, m) = entries[k]
      BY <1>1, <1>4, <3>1, SameNameSameEntry
    <3> QED BY <3>1, <3>2
  <2> QED BY <2>1, <2>2
<1>8. checksumFailures_ \subseteq {entries[k].name : k \in 1 .. Len(entries)}
  BY <1>3, <1>4
<1> QED BY <1>5, <1>6, <1>7, <1>8

\* FileManager::extract: when run() returns, every file asked for has its output, which is the
\* whole of what the container holds of it, and is reported when that is not what was added.
THEOREM ReturnMeansAllExtracted == RTSpec => []ReturnMeansExtracted
<1>1. RoundTripInv => ReturnMeansExtracted
  <2> SUFFICES ASSUME RoundTripInv, xwpc = "returned", NEW k \in 1 .. Len(entries)
               PROVE  LET e   == entries[k]
                          out == OutputOf(e.name)
                      IN  /\ out \in DOMAIN outputs
                          /\ outputs[out] = Dec!StoredContent(Dec!LastOf(out))
                          /\ e.name \in checksumFailures_ <=> Dec!StoredContent(e) # Dec!Content(e)
    BY DEF ReturnMeansExtracted, Dec!ReturnMeansExtracted
  <2> QED BY AllExtracted DEF Intact
<1> QED BY <1>1, RoundTripInvariant, PTL

-----------------------------------------------------------------------------
\* A readable entry of an undamaged container reads back as what it was made of.
LEMMA ReadableIsIntact ==
  ASSUME EntriesReadable, damaged = {}, table \in Seq(Entries), medium \in Seq(Pieces),
         NEW j \in 1 .. Len(table)
  PROVE  Intact(table[j])
<1> DEFINE e == table[j]
           n == Dec!ChunkCount(e.size)
<1>1. e \in Entries /\ e.size \in Nat /\ e.offset \in Nat /\ n \in Nat /\ n = ChunkCount(e.size)
  <2>1. e \in Entries
    OBVIOUS
  <2>2. e.size \in Nat /\ e.offset \in Nat
    BY <2>1 DEF Entries
  <2> QED BY <2>1, <2>2, CountOfSize DEF Dec!ChunkCount, ChunkCount
<1>2. ASSUME NEW i \in 1 .. n
      PROVE  /\ e.offset + i \in 1 .. Len(medium)
             /\ medium[e.offset + i] = [file |-> e.file, at |-> (i - 1) * BLOCK_SIZE,
                                        len |-> Dec!ChunkLen(e.size, i)]
  <2>1. /\ e.offset + i <= Len(medium)
        /\ medium[e.offset + i] = ChunkAt(e.file, e.size, i)
    BY <1>1 DEF EntriesReadable
  <2>2. ChunkAt(e.file, e.size, i) = [file |-> e.file, at |-> (i - 1) * BLOCK_SIZE,
                                      len |-> Dec!ChunkLen(e.size, i)]
    BY DEF ChunkAt, Piece, Dec!ChunkLen
  <2> QED BY <1>1, <2>1, <2>2
<1> HIDE DEF e, n
<1>3. ASSUME NEW i \in 1 .. n
      PROVE  Dec!Stored(e, i) = [file |-> e.file, at |-> (i - 1) * BLOCK_SIZE,
                                 len |-> Dec!ChunkLen(e.size, i)]
  <2>1. \A l \in 1 .. i : l \in 1 .. n
    BY <1>1
  <2>2. Dec!InStep(e, i)
    <3> SUFFICES ASSUME NEW l \in 1 .. i
                 PROVE  /\ e.offset + l \in 1 .. Len(medium)
                        /\ medium[e.offset + l].len = Dec!ChunkLen(e.size, l)
      BY DEF Dec!InStep
    <3> DEFINE at == (l - 1) * BLOCK_SIZE
               m == medium[e.offset + l]
    <3>1. /\ e.offset + l \in 1 .. Len(medium)
          /\ m = [file |-> e.file, at |-> at, len |-> Dec!ChunkLen(e.size, l)]
      BY <1>2, <2>1
    <3> HIDE DEF at, m
    <3>2. m.len = Dec!ChunkLen(e.size, l)
      BY <3>1
    <3> QED BY <3>1, <3>2 DEF m
  <2> QED BY <1>2, <2>2 DEF Dec!Stored
<1>4. Dec!StoredContent(e) = Dec!Content(e)
  BY <1>3 DEF Dec!StoredContent, Dec!Content, n
<1> QED BY <1>4 DEF Intact, e

LEMMA GreatestOne ==
  ASSUME NEW n \in Nat, NEW S \in SUBSET (1 .. n), S # {}
  PROVE  \E i \in S : \A j \in S : j <= i
<1> DEFINE Left == {n - i : i \in S}
<1>1. Left \in SUBSET Nat /\ Left # {}
  <2>1. \A i \in S : n - i \in Nat
    <3>1. \A i \in 1 .. n : n - i \in Nat
      OBVIOUS
    <3> QED BY <3>1
  <2> QED BY <2>1
<1>2. PICK m \in Left : \A l \in Left : m <= l
  BY <1>1, LeastOne
<1>3. PICK i \in S : m = n - i
  BY <1>2
<1>4. ASSUME NEW j \in S PROVE j <= i
  <2>1. n - j \in Left
    OBVIOUS
  <2>2. n - i <= n - j /\ i \in 1 .. n /\ j \in 1 .. n
    BY <1>2, <1>3, <2>1
  <2> QED BY <2>2
<1> QED BY <1>3, <1>4

\* Two entries of different names are written to different files.
OutputsDiffer == \A a, b \in Names : OutputOf(a) = OutputOf(b) => a = b

LEMMA InvPutInComesOut == OutputsDiffer /\ RoundTripInv => PutInComesOut
<1> SUFFICES ASSUME OutputsDiffer, RoundTripInv, InputsSteady, damaged = {}, xwpc = "returned"
             PROVE  /\ checksumFailures_ = {}
                    /\ DOMAIN outputs = {OutputOf(entries[k].name) : k \in 1 .. Len(entries)}
                    /\ \A j, k \in 1 .. Len(table) : table[j].name = table[k].name => j = k
                    /\ \A k \in 1 .. Len(entries) :
                         /\ files[entries[k].file].name.stem = entries[k].name.stem
                         /\ files[entries[k].file].size <= entries[k].size
                         /\ outputs[OutputOf(entries[k].name)] = Dec!Content(entries[k])
  BY DEF PutInComesOut
<1>1. /\ table \in Seq(Entries) /\ medium \in Seq(Pieces) /\ NamesDiffer(table)
      /\ EntriesReadable /\ EntriesOfFiles /\ StemsKept
      /\ ExtractTypes /\ OfTheTable
  BY DEF RoundTripInv, SteadyInv, ListInv, PlacesInv, Types, ExtractInv
<1>2. \A k \in 1 .. Len(entries) : Intact(entries[k])
  BY <1>1, ReadableIsIntact DEF OfTheTable
<1>3. checksumFailures_ = {}
  BY <1>2, AllExtracted
<1>4. ASSUME NEW k \in 1 .. Len(entries)
      PROVE  outputs[OutputOf(entries[k].name)] = Dec!Content(entries[k])
  <2> DEFINE out == OutputOf(entries[k].name)
             writers == {j \in 1 .. Len(entries) : OutputOf(entries[j].name) = out}
             last == CHOOSE i \in writers : \A j \in writers : j <= i
  <2>1. \A j \in writers : entries[j] = entries[k]
    <3> SUFFICES ASSUME NEW j \in 1 .. Len(entries), OutputOf(entries[j].name) = out
                 PROVE  entries[j] = entries[k]
      OBVIOUS
    <3>1. entries[j].name = entries[k].name
      BY <1>1, EntryTypes DEF OutputsDiffer
    <3> QED BY <1>1, <3>1, SameNameSameEntry
  <2>2. \E i \in writers : \A j \in writers : j <= i
    <3>1. k \in writers /\ writers \subseteq 1 .. Len(entries) /\ Len(entries) \in Nat
      BY <1>1 DEF ExtractTypes
    <3> HIDE DEF writers
    <3> QED BY <3>1, GreatestOne
  <2>3. last \in writers
    BY <2>2
  <2>4. Dec!LastOf(out) = entries[last]
    BY DEF Dec!LastOf
  <2>5. Dec!LastOf(out) = entries[k]
    <3> HIDE DEF last, writers, out
    <3> QED BY <2>1, <2>3, <2>4
  <2>6. outputs[out] = Dec!StoredContent(entries[k])
    BY <2>5, AllExtracted
  <2> QED BY <1>2, <2>6 DEF Intact
<1>5. ASSUME NEW k \in 1 .. Len(entries)
      PROVE  /\ files[entries[k].file].name.stem = entries[k].name.stem
             /\ files[entries[k].file].size <= entries[k].size
  <2>1. PICK j \in 1 .. Len(table) : entries[k] = table[j]
    BY <1>1 DEF OfTheTable
  <2>2. table[j].file = j /\ table[j].size >= files[j].size
    BY <1>1 DEF EntriesOfFiles
  <2>3. table[j].size \in Nat /\ j \in 1 .. Len(files)
    <3>1. table[j] \in Entries
      BY <1>1
    <3>2. j <= Len(files) /\ Len(files) \in Nat
      BY <1>1, PipelineAssumption DEF EntriesOfFiles, RoundTripInv, SteadyInv, ListInv, PlacesInv, Types
    <3> QED BY <3>1, <3>2 DEF Entries
  <2>4. files[j].size \in Nat
    BY <2>3, FileTypes DEF RoundTripInv, SteadyInv, ListInv, PlacesInv
  <2>5. files[table[j].file].name.stem = table[j].name.stem
    BY <1>1 DEF StemsKept
  <2> QED BY <2>1, <2>2, <2>3, <2>4, <2>5
<1> QED BY <1>1, <1>3, <1>4, <1>5, AllExtracted DEF NamesDiffer

\* FileManager::addFiles and FileManager::extract: inputs that keep their size come out of an
\* undamaged container as they went in, under names no two of them share, and none is
\* reported.  extract writes an entry to a file of its name, hence OutputsDiffer.
THEOREM RoundTripComesOut ==
  ASSUME OutputsDiffer
  PROVE  RTSpec => []PutInComesOut
<1>1. RoundTripInv => PutInComesOut
  BY InvPutInComesOut
<1> QED BY <1>1, RoundTripInvariant, PTL
=============================================================================
