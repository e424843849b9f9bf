-------------------------- MODULE SlotCommit_proofs --------------------------
(***************************************************************************)
(* For every number and order of create and add calls, errors, kills and   *)
(* power losses, whatever the lengths of tables: CommitInv, and from it    *)
(* that three interrupted updates in a row leave the container openable,   *)
(* that no completed update is lost, and that the four slots implement     *)
(* DurableTable.                                                           *)
(***************************************************************************)
EXTENDS SlotCommit, FiniteSetTheorems, TLAPS

-----------------------------------------------------------------------------
(***************************************************************************)
(* Counting slots.                                                         *)
(***************************************************************************)
LEMMA FourSlots == IsFiniteSet(Slots) /\ Cardinality(Slots) = SLOT_COUNT
<1>1. IsFiniteSet({}) /\ Cardinality({}) = 0
  BY FS_EmptySet
<1>2. IsFiniteSet({1}) /\ Cardinality({1}) = 1
  BY FS_Singleton
<1>3. IsFiniteSet({1, 2}) /\ Cardinality({1, 2}) = 2
  <2>1. {1, 2} = {1} \cup {2} /\ 2 \notin {1}
    OBVIOUS
  <2> QED BY <1>2, <2>1, FS_AddElement
<1>4. IsFiniteSet({1, 2, 3}) /\ Cardinality({1, 2, 3}) = 3
  <2>1. {1, 2, 3} = {1, 2} \cup {3} /\ 3 \notin {1, 2}
    OBVIOUS
  <2> QED BY <1>3, <2>1, FS_AddElement
<1>5. IsFiniteSet({1, 2, 3, 4}) /\ Cardinality({1, 2, 3, 4}) = 4
  <2>1. {1, 2, 3, 4} = {1, 2, 3} \cup {4} /\ 4 \notin {1, 2, 3}
    OBVIOUS
  <2> QED BY <1>4, <2>1, FS_AddElement
<1>6. Slots = {1, 2, 3, 4}
  BY DEF Slots, SLOT_COUNT
<1> QED BY <1>5, <1>6 DEF SLOT_COUNT

LEMMA SlotSets ==
  ASSUME NEW S \in SUBSET Slots
  PROVE  IsFiniteSet(S) /\ Cardinality(S) \in Nat
BY FourSlots, FS_Subset, FS_CardinalityType

LEMMA FewerSlots ==
  ASSUME NEW T \in SUBSET Slots, NEW S \in SUBSET T
  PROVE  Cardinality(S) <= Cardinality(T)
BY SlotSets, FS_Subset

\* Leaving one slot out lowers the count by one at most.
LEMMA AllButOne ==
  ASSUME NEW S \in SUBSET Slots, NEW i
  PROVE  Cardinality(S) <= Cardinality(S \ {i}) + 1
<1>1. IsFiniteSet(S) /\ Cardinality(S) \in Nat
  BY SlotSets
<1>2. CASE i \in S
  <2>1. Cardinality(S \ {i}) = Cardinality(S) - 1
    BY <1>1, <1>2, FS_RemoveElement
  <2> QED BY <1>1, <2>1
<1>3. CASE i \notin S
  <2>1. S \ {i} = S
    BY <1>3
  <2> QED BY <1>1, <2>1
<1> QED BY <1>2, <1>3

-----------------------------------------------------------------------------
LEMMA CommitInit ==
  ASSUME Init
  PROVE  CommitInv
<1>1. TypeOK
  <2>1. 1 \in Slots /\ <<>> \in Seq(Files)
    BY DEF Slots, SLOT_COUNT
  <2>2. mayHdr \in [Slots -> SUBSET OrNone(Header)] /\ mayTbl \in [Slots -> SUBSET OrNone(Table)]
    BY DEF Init, OrNone
  <2>3. mayData \in [Units -> SUBSET OrNone(Files)] /\ data \in [Units -> OrNone(Files)]
    BY DEF Init, OrNone
  <2>4. \A i \in Slots : hdr[i] \in mayHdr[i] /\ tbl[i] \in mayTbl[i]
    BY DEF Init
  <2> QED BY <2>1, <2>2, <2>3, <2>4 DEF Init, TypeOK, OrNone, Working
<1> QED
  BY <1>1 DEF Init, CommitInv, UpdateInSlots, DamageBounded, NothingOlder, Writing

\* A step that writes nothing into the slots leaves them as settled as they were.
LEMMA SlotsAlone ==
  ASSUME UNCHANGED <<hdr, tbl, mayHdr, mayTbl>>
  PROVE  /\ \A i \in Slots : Settled(i)' = Settled(i)
         /\ Unsettled' = Unsettled
<1>1. \A i \in Slots : Settled(i)' = Settled(i)
  BY DEF Settled, Accepts
<1> QED BY <1>1 DEF Unsettled

\* A step that touches one slot leaves the others as settled as they were.
LEMMA OneSlotWritten ==
  ASSUME NEW s \in Slots,
         \A i \in Slots \ {s} :
            /\ hdr'[i] = hdr[i] /\ tbl'[i] = tbl[i]
            /\ mayHdr'[i] = mayHdr[i] /\ mayTbl'[i] = mayTbl[i]
  PROVE  /\ \A i \in Slots \ {s} : Settled(i)' = Settled(i)
         /\ Unsettled' \ {s} = Unsettled \ {s}
<1>1. \A i \in Slots \ {s} : Settled(i)' = Settled(i)
  BY DEF Settled, Accepts
<1> QED BY <1>1 DEF Unsettled

-----------------------------------------------------------------------------
(***************************************************************************)
(* Steps outside the slot loop.                                            *)
(***************************************************************************)

\* The slot an open takes is a valid one.
LEMMA FirstInIsMember ==
  ASSUME NEW S \in SUBSET Slots, S # {}
  PROVE  FirstIn(S) \in S /\ \A j \in S : FirstIn(S) <= j
<1>1. \E i \in S : \A j \in S : i <= j
  <2>1. Slots = {1, 2, 3, 4}
    BY DEF Slots, SLOT_COUNT
  <2>2. CASE 1 \in S                           BY <2>1, <2>2
  <2>3. CASE 1 \notin S /\ 2 \in S             BY <2>1, <2>3
  <2>4. CASE 1 \notin S /\ 2 \notin S /\ 3 \in S
    BY <2>1, <2>4
  <2>5. CASE 1 \notin S /\ 2 \notin S /\ 3 \notin S
    <3>1. S = {4}
      BY <2>1, <2>5
    <3> QED BY <3>1
  <2> QED BY <2>2, <2>3, <2>4, <2>5
<1> QED BY <1>1 DEF FirstIn

\* Any valid slot, whichever survivors of a power loss it is made of, shows
\* the last completed update.
LEMMA ValidSlotKeeps ==
  ASSUME TypeOK, NothingOlder,
         NEW i \in Slots, NEW h \in mayHdr[i], NEW t \in mayTbl[i], Accepts(h, t)
  PROVE  /\ readFilesTable(h, t) \in Table
         /\ h \in Header
         /\ committed # None => committed.entries \subseteq readFilesTable(h, t).entries
<1>1. h \in OrNone(Header) /\ t \in OrNone(Table)
  BY DEF TypeOK
<1>2. h \in Header /\ (h.size # 0 => t \in Table)
  BY <1>1 DEF Accepts, OrNone
<1>3. [entries |-> {}, next |-> 0] \in Table
  BY DEF Table
<1>4. readFilesTable(h, t) \in Table
  BY <1>2, <1>3 DEF readFilesTable
<1>5. committed # None => h.size # 0 /\ committed.entries \subseteq t.entries
  BY <1>2 DEF NothingOlder, Accepts
<1>6. h.size # 0 => readFilesTable(h, t) = t
  BY DEF readFilesTable
<1> QED BY <1>2, <1>4, <1>5, <1>6

LEMMA OpenKeepsInv ==
  ASSUME CommitInv, Open
  PROVE  CommitInv'
<1> DEFINE i == ActiveSlot
<1>1. i \in ValidSlots /\ i \in Slots /\ Accepts(hdr[i], tbl[i])
  BY FirstInIsMember DEF Open, ActiveSlot, ValidSlots, ValidIn
<1> HIDE DEF i
<1>2. TypeOK /\ NothingOlder /\ hdr[i] \in mayHdr[i] /\ tbl[i] \in mayTbl[i]
  BY <1>1 DEF CommitInv, TypeOK
<1>3. /\ TableOf(i) \in Table /\ hdr[i] \in Header
      /\ committed # None => committed.entries \subseteq TableOf(i).entries
  BY <1>1, <1>2, ValidSlotKeeps DEF TableOf
<1>4. session' = [version |-> hdr[i].version, entries |-> TableOf(i).entries, next |-> TableOf(i).next]
  BY DEF Open, i
<1>5. session' \in Session /\ session'.entries = TableOf(i).entries
  BY <1>3, <1>4 DEF Session, Table, Header
<1>6. TypeOK'
  BY <1>2, <1>5, NoneAssumption DEF Open, TypeOK, OrNone, Working, disk, may, history
<1>7. NothingOlder'
  BY <1>2, <1>3, <1>5 DEF Open, NothingOlder, disk, may, history
<1>8. Unsettled' = Unsettled
  BY SlotsAlone DEF Open, disk, may
<1>9. UpdateInSlots' /\ DamageBounded'
  BY <1>8 DEF Open, CommitInv, UpdateInSlots, DamageBounded, Writing, history
<1> QED BY <1>6, <1>7, <1>9 DEF CommitInv

\* Close, the capacity check, its refusal, and the start of an add.
LEMMA IdleStepsKeepInv ==
  ASSUME CommitInv,
         Close \/ CheckCapacity \/ RefuseCreate \/ AfterRefusal \/ \E files \in Calls : Add(files)
  PROVE  CommitInv'
<1>1. UNCHANGED <<disk, may, exists, slot, history>> /\ session' \in {session, None}
  BY DEF Close, CheckCapacity, RefuseCreate, AfterRefusal, Add
<1>2. ~ Writing /\ ~ Writing'
  BY DEF Close, CheckCapacity, RefuseCreate, AfterRefusal, Add, Writing
<1>3. Unsettled' = Unsettled
  BY <1>1, SlotsAlone DEF disk, may
<1>4. UpdateInSlots' /\ DamageBounded'
  BY <1>1, <1>2, <1>3 DEF CommitInv, UpdateInSlots, DamageBounded, Writing, history
<1>5. NothingOlder'
  BY <1>1 DEF CommitInv, NothingOlder, disk, may, history,
              Close, CheckCapacity, RefuseCreate, AfterRefusal, Add
<1>6. TypeOK'
  <2>1. TypeOK
    BY DEF CommitInv
  <2>2. todo' \in Seq(Files)
    <3>1. CASE \E files \in Calls : Add(files)
      BY <3>1, SlotCommitAssumption DEF Add
    <3>2. CASE RefuseCreate
      BY <3>2 DEF RefuseCreate
    <3> QED BY <2>1, <3>1, <3>2 DEF TypeOK, Close, CheckCapacity, AfterRefusal
  <2>3. cursor' \in Nat
    BY <2>1 DEF TypeOK, OrNone, Session, Close, CheckCapacity, RefuseCreate, AfterRefusal, Add
  <2>4. calls' \in Nat
    BY <2>1 DEF TypeOK, Close, CheckCapacity, RefuseCreate, AfterRefusal, Add
  <2>7. adding' \in BOOLEAN
    BY <2>1, Zenon DEF TypeOK, Close, CheckCapacity, RefuseCreate, AfterRefusal, Add
  <2>5. session' \in OrNone(Session)
    BY <1>1, <2>1 DEF TypeOK, OrNone
  <2>6. /\ pc' \in {"closed", "ready", "check", "refused"} \/ Working'
        /\ pc' \in {"ready", "check"} \/ Working' => session' # None
    BY <2>1 DEF TypeOK, Working, Close, CheckCapacity, RefuseCreate, AfterRefusal, Add
  <2> QED BY <1>1, <2>1, <2>2, <2>3, <2>4, <2>5, <2>6, <2>7 DEF TypeOK, disk, may, history
<1> QED BY <1>4, <1>5, <1>6 DEF CommitInv

\* Until a create has completed there is nothing to lose.
LEMMA CreateStepsKeepInv ==
  ASSUME CommitInv, (\E files \in Calls : Create(files)) \/ InitHeader \/ InitSync
  PROVE  CommitInv'
<1>1. TypeOK /\ committed = None /\ committed' = None /\ ~ Writing /\ ~ Writing'
  BY DEF CommitInv, NothingOlder, Create, InitHeader, InitSync, history, Writing
<1>2. UpdateInSlots' /\ DamageBounded' /\ NothingOlder'
  BY <1>1 DEF UpdateInSlots, DamageBounded, NothingOlder, Writing
<1>3. ASSUME NEW files \in Calls, Create(files)
      PROVE  TypeOK'
  <2>1. /\ hdr' \in [Slots -> OrNone(Header)] /\ tbl' \in [Slots -> OrNone(Table)]
        /\ data' \in [Units -> OrNone(Files)]
    BY <1>3 DEF Create, OrNone
  <2>2. /\ mayHdr' \in [Slots -> SUBSET OrNone(Header)] /\ mayTbl' \in [Slots -> SUBSET OrNone(Table)]
        /\ mayData' \in [Units -> SUBSET OrNone(Files)]
    BY <1>3 DEF Create, OrNone
  <2>3. \A i \in Slots : hdr'[i] \in mayHdr'[i] /\ tbl'[i] \in mayTbl'[i]
    BY <1>3 DEF Create
  <2>4. session' \in Session
    BY <1>3 DEF Create, Session
  <2>5. todo' \in Seq(Files) /\ slot' \in Slots /\ calls' \in Nat
    BY <1>1, <1>3, SlotCommitAssumption DEF Create, TypeOK, Slots, SLOT_COUNT
  <2> QED
    BY <1>1, <1>3, <2>1, <2>2, <2>3, <2>4, <2>5, NoneAssumption
       DEF Create, TypeOK, OrNone, Working, history
<1>4. CASE InitHeader
  <2> DEFINE h == [version |-> session.version, size |-> 0]
  <2>1. h \in Header /\ slot \in Slots
    BY <1>1, <1>4 DEF InitHeader, TypeOK, OrNone, Session, Header, Working
  <2>2. /\ hdr' = [hdr EXCEPT ![slot] = h]
        /\ mayHdr' = [mayHdr EXCEPT ![slot] = @ \cup {h, None}]
    BY <1>4 DEF InitHeader, PutHeader
  <2> HIDE DEF h
  <2>3. hdr' \in [Slots -> OrNone(Header)] /\ mayHdr' \in [Slots -> SUBSET OrNone(Header)]
    BY <1>1, <2>1, <2>2 DEF TypeOK, OrNone
  <2>4. \A i \in Slots : hdr'[i] \in mayHdr'[i]
    BY <1>1, <2>1, <2>2 DEF TypeOK
  <2>5. TypeOK'
    BY <1>1, <1>4, <2>3, <2>4 DEF InitHeader, TypeOK, Working, history
  <2> QED BY <1>2, <2>5 DEF CommitInv
<1>5. CASE InitSync
  <2>1. /\ mayHdr' \in [Slots -> SUBSET OrNone(Header)] /\ mayTbl' \in [Slots -> SUBSET OrNone(Table)]
        /\ mayData' \in [Units -> SUBSET OrNone(Files)]
    BY <1>1, <1>5 DEF InitSync, Sync, TypeOK
  <2>2. \A i \in Slots : hdr'[i] \in mayHdr'[i] /\ tbl'[i] \in mayTbl'[i]
    BY <1>5 DEF InitSync, Sync, disk
  <2>3. slot' \in Slots
    BY <1>1, <1>5 DEF InitSync, TypeOK, Slots, SLOT_COUNT
  <2>4. TypeOK'
    BY <1>1, <1>5, <2>1, <2>2, <2>3 DEF InitSync, TypeOK, Working, disk, history
  <2> QED BY <1>2, <2>4 DEF CommitInv
<1> QED BY <1>1, <1>2, <1>3, <1>4, <1>5 DEF CommitInv

\* Writing data and growing the table in memory touches no slot.
LEMMA WriteFileKeepsInv ==
  ASSUME CommitInv, WriteFile
  PROVE  CommitInv'
<1> DEFINE entry == [file |-> Head(todo), unit |-> cursor + 1]
<1>1. TypeOK /\ session \in Session /\ cursor \in Nat /\ cursor + 1 \in Units /\ UNITS \in Nat
  BY SlotCommitAssumption DEF CommitInv, TypeOK, OrNone, Working, WriteFile, Units
<1>2. Head(todo) \in Files /\ Tail(todo) \in Seq(Files)
  BY <1>1 DEF TypeOK, WriteFile
<1>3. entry \in Entries
  BY <1>1, <1>2 DEF Entries
<1>4. session' = [session EXCEPT !.entries = @ \cup {entry}]
  BY DEF WriteFile
<1> HIDE DEF entry
<1>5. session' \in Session /\ session.entries \subseteq session'.entries
  BY <1>1, <1>3, <1>4 DEF Session
<1>6. data' \in [Units -> OrNone(Files)] /\ mayData' \in [Units -> SUBSET OrNone(Files)]
  BY <1>1, <1>2 DEF WriteFile, TypeOK, OrNone
<1>7. UNCHANGED <<hdr, tbl, mayHdr, mayTbl, exists, pc, slot, adding, calls, history>> /\ ~ Writing
  BY DEF WriteFile, Writing
<1>8. TypeOK'
  <2>1. cursor' = cursor + 1 /\ todo' = Tail(todo)
    BY DEF WriteFile
  <2>2. cursor' \in Nat /\ todo' \in Seq(Files)
    BY <1>1, <1>2, <2>1
  <2>3. session' \in OrNone(Session) /\ session' # None
    BY <1>5, NoneAssumption DEF OrNone
  <2> QED BY <1>1, <1>6, <1>7, <2>2, <2>3 DEF TypeOK, Working, history
<1>9. Unsettled' = Unsettled
  BY <1>7, SlotsAlone
<1>10. UpdateInSlots' /\ DamageBounded'
  BY <1>7, <1>9 DEF CommitInv, UpdateInSlots, DamageBounded, Writing, history
<1>11. NothingOlder'
  BY <1>1, <1>5, <1>7, NoneAssumption DEF CommitInv, NothingOlder, history
<1> QED BY <1>8, <1>10, <1>11 DEF CommitInv

\* The table is ready: one more unfinished update, no slot written yet.
LEMMA PrepareTableKeepsInv ==
  ASSUME CommitInv, PrepareTable
  PROVE  CommitInv'
<1>1. TypeOK /\ session \in Session /\ cursor \in Nat /\ unfinished \in Nat
  BY DEF CommitInv, TypeOK, OrNone, Working, PrepareTable
<1>2. session' \in Session /\ session'.entries = session.entries
  <2>1. session.version + 1 \in Nat /\ session.entries \in SUBSET Entries
    BY <1>1 DEF Session
  <2>2. session' = [session EXCEPT !.next = cursor, !.version = session.version + 1]
    BY DEF PrepareTable
  <2>3. session' = [version |-> session.version + 1, entries |-> session.entries, next |-> cursor]
    BY <1>1, <2>2 DEF Session
  <2> QED BY <1>1, <2>1, <2>3 DEF Session
<1>3. /\ UNCHANGED <<disk, may, committed>> /\ pc = "data" /\ pc' = "header" /\ slot' = 1
      /\ unfinished' = unfinished + 1
  BY DEF PrepareTable
<1>4. 1 \in Slots /\ \A i \in Slots : ~ (i < 1)
  BY DEF Slots, SLOT_COUNT
<1>5. TypeOK'
  BY <1>1, <1>2, <1>3, <1>4, NoneAssumption DEF PrepareTable, TypeOK, OrNone, Working, disk, may
<1>6. UpdateInSlots'
  BY <1>3, <1>4 DEF UpdateInSlots
<1>7. DamageBounded'
  <2>1. Unsettled' = Unsettled /\ Unsettled \in SUBSET Slots /\ Unsettled \ {1} \in SUBSET Unsettled
    BY <1>3, SlotsAlone DEF disk, may, Unsettled
  <2>2. Cardinality(Unsettled \ {1}) <= Cardinality(Unsettled)
    BY <2>1, FewerSlots
  <2>3. Cardinality(Unsettled) \in Nat /\ Cardinality(Unsettled \ {1}) \in Nat
    BY <2>1, SlotSets
  <2>4. committed # None => Cardinality(Unsettled) <= unfinished
    BY <1>3 DEF CommitInv, DamageBounded, Writing
  <2> QED
    BY <1>1, <1>3, <2>1, <2>2, <2>3, <2>4 DEF DamageBounded, Writing
<1>8. NothingOlder'
  BY <1>1, <1>2, <1>3, NoneAssumption DEF CommitInv, NothingOlder, disk, may
<1> QED BY <1>5, <1>6, <1>7, <1>8 DEF CommitInv

-----------------------------------------------------------------------------
(***************************************************************************)
(* The slot loop.                                                          *)
(***************************************************************************)

\* What the loop writes is well formed, is no mark of a torn part, holds the
\* last completed update and belongs together.
LEMMA UpdateIsSound ==
  ASSUME CommitInv, session # None
  PROVE  /\ session \in Session
         /\ newHeader \in Header /\ newHeader # None /\ newHeader.size # 0
         /\ newTable \in Table /\ newTable # None /\ newTable.entries = session.entries
         /\ Accepts(newHeader, newTable)
         /\ committed # None => committed.entries \subseteq newTable.entries
<1>1. session \in Session
  BY DEF CommitInv, TypeOK, OrNone
<1>2. TableLength(session.entries) \in Nat \ {0}
  BY <1>1, SlotCommitAssumption DEF Session
<1>3. newHeader \in Header /\ newHeader.size = TableLength(session.entries)
  BY <1>1, <1>2 DEF Session, Header, newHeader
<1>4. newTable \in Table /\ newTable.entries = session.entries
  BY <1>1 DEF Session, Table, newTable
<1>5. newHeader # None /\ newTable # None
  BY <1>3, <1>4, NoneAssumption
<1>6. committed # None => committed.entries \subseteq session.entries
  BY DEF CommitInv, NothingOlder
<1> QED BY <1>1, <1>2, <1>3, <1>4, <1>5, <1>6 DEF Accepts

\* Writing one part of slot s: what all such steps share.
LEMMA SlotWriteKeepsBounds ==
  ASSUME CommitInv, Writing, Writing',
         UNCHANGED <<slot, session, history>>,
         \A i \in Slots \ {slot} :
            /\ hdr'[i] = hdr[i] /\ tbl'[i] = tbl[i]
            /\ mayHdr'[i] = mayHdr[i] /\ mayTbl'[i] = mayTbl[i]
  PROVE  /\ DamageBounded'
         /\ \A i \in Slots :
              i < slot' => Settled(i)' /\ hdr'[i] = newHeader' /\ tbl'[i] = newTable'
<1>1. slot \in Slots /\ Slots \subseteq Int
  BY DEF CommitInv, TypeOK, Slots, SLOT_COUNT
<1>2. /\ \A i \in Slots \ {slot} : Settled(i)' = Settled(i)
      /\ Unsettled' \ {slot} = Unsettled \ {slot}
  BY <1>1, OneSlotWritten
<1>3. DamageBounded'
  BY <1>2 DEF CommitInv, DamageBounded, Writing, history
<1>4. newHeader' = newHeader /\ newTable' = newTable
  BY DEF newHeader, newTable
<1>5. \A i \in Slots : i < slot => Settled(i) /\ hdr[i] = newHeader /\ tbl[i] = newTable
  BY DEF CommitInv, UpdateInSlots
<1>6. \A i \in Slots : i < slot => i \in Slots \ {slot}
  BY <1>1
<1> QED BY <1>2, <1>3, <1>4, <1>5, <1>6

LEMMA WriteHeaderKeepsInv ==
  ASSUME CommitInv, WriteHeader
  PROVE  CommitInv'
<1>1. TypeOK /\ session # None /\ slot \in Slots /\ Writing /\ Writing' /\ pc = "header" /\ pc' = "table"
  BY DEF CommitInv, TypeOK, WriteHeader, Working, Writing
<1>2. /\ newHeader \in Header /\ newHeader # None /\ newHeader.size # 0
  BY <1>1, UpdateIsSound
<1>3. /\ hdr' = [hdr EXCEPT ![slot] = newHeader]
      /\ mayHdr' = [mayHdr EXCEPT ![slot] = @ \cup {newHeader, None}]
      /\ UNCHANGED <<tbl, data, mayTbl, mayData, exists, slot, adding, session, cursor, todo, calls,
                     history>>
  BY DEF WriteHeader, PutHeader
<1>4. \A i \in Slots \ {slot} :
         /\ hdr'[i] = hdr[i] /\ tbl'[i] = tbl[i]
         /\ mayHdr'[i] = mayHdr[i] /\ mayTbl'[i] = mayTbl[i]
  BY <1>1, <1>3 DEF TypeOK
<1>5. hdr'[slot] = newHeader /\ newHeader' = newHeader
  BY <1>1, <1>3 DEF TypeOK, newHeader
<1>6. /\ DamageBounded'
      /\ \A i \in Slots : i < slot' => Settled(i)' /\ hdr'[i] = newHeader' /\ tbl'[i] = newTable'
  BY <1>1, <1>3, <1>4, SlotWriteKeepsBounds
<1>7. UpdateInSlots'
  BY <1>1, <1>3, <1>5, <1>6 DEF UpdateInSlots
<1>8. NothingOlder'
  <2>1. \A i \in Slots : \A h \in mayHdr'[i] : h \in mayHdr[i] \/ h = newHeader \/ h = None
    BY <1>1, <1>3 DEF TypeOK
  <2> QED BY <1>1, <1>2, <1>3, <2>1 DEF CommitInv, NothingOlder, history
<1>9. TypeOK'
  <2>1. hdr' \in [Slots -> OrNone(Header)] /\ mayHdr' \in [Slots -> SUBSET OrNone(Header)]
    BY <1>1, <1>2, <1>3 DEF TypeOK, OrNone
  <2>2. \A i \in Slots : hdr'[i] \in mayHdr'[i]
    BY <1>1, <1>3 DEF TypeOK
  <2> QED BY <1>1, <1>3, <2>1, <2>2 DEF TypeOK, Working, history
<1> QED BY <1>6, <1>7, <1>8, <1>9 DEF CommitInv

LEMMA WriteTableKeepsInv ==
  ASSUME CommitInv, WriteTable
  PROVE  CommitInv'
<1>1. TypeOK /\ session # None /\ slot \in Slots /\ Writing /\ Writing' /\ pc = "table" /\ pc' = "sync"
  BY DEF CommitInv, TypeOK, WriteTable, Working, Writing
<1>2. /\ newTable \in Table /\ newTable # None
      /\ committed # None => committed.entries \subseteq newTable.entries
  BY <1>1, UpdateIsSound
<1>3. /\ tbl' = [tbl EXCEPT ![slot] = newTable]
      /\ mayTbl' = [mayTbl EXCEPT ![slot] = @ \cup {newTable, None}]
      /\ UNCHANGED <<hdr, data, mayHdr, mayData, exists, slot, adding, session, cursor, todo, calls,
                     history>>
  BY DEF WriteTable
<1>4. \A i \in Slots \ {slot} :
         /\ hdr'[i] = hdr[i] /\ tbl'[i] = tbl[i]
         /\ mayHdr'[i] = mayHdr[i] /\ mayTbl'[i] = mayTbl[i]
  BY <1>1, <1>3 DEF TypeOK
<1>5. tbl'[slot] = newTable /\ newTable' = newTable /\ newHeader' = newHeader
  BY <1>1, <1>3 DEF TypeOK, newTable, newHeader
<1>6. /\ DamageBounded'
      /\ \A i \in Slots : i < slot' => Settled(i)' /\ hdr'[i] = newHeader' /\ tbl'[i] = newTable'
  BY <1>1, <1>3, <1>4, SlotWriteKeepsBounds
<1>7. UpdateInSlots'
  BY <1>1, <1>3, <1>5, <1>6 DEF UpdateInSlots, CommitInv
<1>8. NothingOlder'
  <2>1. \A i \in Slots : \A t \in mayTbl'[i] : t \in mayTbl[i] \/ t = newTable \/ t = None
    BY <1>1, <1>3 DEF TypeOK
  <2> QED BY <1>1, <1>2, <1>3, <2>1 DEF CommitInv, NothingOlder, history
<1>9. TypeOK'
  <2>1. tbl' \in [Slots -> OrNone(Table)] /\ mayTbl' \in [Slots -> SUBSET OrNone(Table)]
    BY <1>1, <1>2, <1>3 DEF TypeOK, OrNone
  <2>2. \A i \in Slots : tbl'[i] \in mayTbl'[i]
    BY <1>1, <1>3 DEF TypeOK
  <2> QED BY <1>1, <1>3, <2>1, <2>2 DEF TypeOK, Working, history
<1> QED BY <1>6, <1>7, <1>8, <1>9 DEF CommitInv

\* fsync settles the slot just written and unsettles none.
LEMMA SyncSettles ==
  ASSUME CommitInv, pc = "sync", UNCHANGED disk, Sync
  PROVE  /\ \A i \in Slots : i <= slot => Settled(i)' /\ hdr[i] = newHeader /\ tbl[i] = newTable
         /\ \A i \in Slots : Settled(i) => Settled(i)'
         /\ Unsettled' \in SUBSET (Unsettled \ {slot})
<1>1. TypeOK /\ session # None /\ slot \in Slots /\ Slots \subseteq Int
  BY DEF CommitInv, TypeOK, Working, Slots, SLOT_COUNT
<1>2. \A i \in Slots : mayHdr'[i] = {hdr[i]} /\ mayTbl'[i] = {tbl[i]}
  BY DEF Sync
<1>3. \A i \in Slots : i <= slot => hdr[i] = newHeader /\ tbl[i] = newTable
  BY <1>1 DEF CommitInv, UpdateInSlots, Writing
<1>4. Accepts(newHeader, newTable)
  BY <1>1, UpdateIsSound
<1>5. \A i \in Slots : Accepts(hdr[i], tbl[i]) => Settled(i)'
  BY <1>2 DEF Settled, Accepts, disk
<1>6. \A i \in Slots : Settled(i) => Settled(i)'
  BY <1>5 DEF Settled
<1>7. \A i \in Slots : i <= slot => Settled(i)'
  BY <1>3, <1>4, <1>5
<1>8. Unsettled' \in SUBSET (Unsettled \ {slot})
  <2>1. \A i \in Slots : i = slot => Settled(i)'
    BY <1>1, <1>7
  <2>2. \A i \in Slots : ~ Settled(i)' => ~ Settled(i) /\ i # slot
    BY <1>6, <2>1
  <2>3. Unsettled' = {i \in Slots : ~ Settled(i)'}
    BY DEF Unsettled
  <2> QED BY <2>2, <2>3 DEF Unsettled
<1> QED BY <1>3, <1>6, <1>7, <1>8

LEMMA SyncKeepsTypes ==
  ASSUME TypeOK, UNCHANGED disk, Sync
  PROVE  /\ mayHdr' \in [Slots -> SUBSET OrNone(Header)]
         /\ mayTbl' \in [Slots -> SUBSET OrNone(Table)]
         /\ mayData' \in [Units -> SUBSET OrNone(Files)]
         /\ \A i \in Slots : hdr'[i] \in mayHdr'[i] /\ tbl'[i] \in mayTbl'[i]
BY DEF Sync, TypeOK, disk

\* fsync never brings back a table older than the last completed update.
LEMMA SyncKeepsNothingOlder ==
  ASSUME TypeOK, NothingOlder, UNCHANGED disk, Sync
  PROVE  committed # None =>
           \A i \in Slots :
             /\ \A h \in mayHdr'[i] : h # None => h.size # 0
             /\ \A t \in mayTbl'[i] : t # None => committed.entries \subseteq t.entries
<1>1. \A i \in Slots : mayHdr'[i] \subseteq mayHdr[i] /\ mayTbl'[i] \subseteq mayTbl[i]
  BY DEF Sync, TypeOK
<1> QED BY <1>1 DEF NothingOlder

LEMMA SyncSlotKeepsInv ==
  ASSUME CommitInv, SyncSlot
  PROVE  CommitInv'
<1>1. /\ TypeOK /\ NothingOlder /\ session # None /\ slot \in Slots /\ slot + 1 \in Slots
      /\ Slots \subseteq Int /\ unfinished \in Nat
  BY DEF CommitInv, TypeOK, Working, Slots, SLOT_COUNT, SyncSlot
<1>2. /\ UNCHANGED <<disk, exists, adding, session, cursor, todo, calls, history>> /\ Sync
      /\ pc = "sync" /\ pc' = "header" /\ slot' = slot + 1
  BY DEF SyncSlot
<1>3. /\ \A i \in Slots : i <= slot => Settled(i)' /\ hdr[i] = newHeader /\ tbl[i] = newTable
      /\ Unsettled' \in SUBSET (Unsettled \ {slot})
  BY <1>2, SyncSettles
<1>4. UpdateInSlots'
  <2>1. \A i \in Slots : i < slot' => i <= slot
    BY <1>1, <1>2
  <2>2. newHeader' = newHeader /\ newTable' = newTable
    BY <1>2 DEF newHeader, newTable
  <2> QED BY <1>2, <1>3, <2>1, <2>2 DEF UpdateInSlots, disk
<1>5. DamageBounded'
  <2>1. /\ Unsettled' \ {slot'} \in SUBSET (Unsettled \ {slot})
        /\ Unsettled \ {slot} \in SUBSET Slots
    BY <1>3 DEF Unsettled
  <2>2. /\ Cardinality(Unsettled' \ {slot'}) <= Cardinality(Unsettled \ {slot})
        /\ Cardinality(Unsettled' \ {slot'}) \in Nat /\ Cardinality(Unsettled \ {slot}) \in Nat
    BY <2>1, FewerSlots, SlotSets
  <2>3. unfinished > 0 /\ (committed # None => Cardinality(Unsettled \ {slot}) < unfinished)
    BY <1>2 DEF CommitInv, DamageBounded, Writing
  <2> QED BY <1>1, <1>2, <2>2, <2>3 DEF DamageBounded, Writing, history
<1>6. NothingOlder'
  BY <1>1, <1>2, SyncKeepsNothingOlder DEF NothingOlder, history
<1>7. TypeOK'
  BY <1>1, <1>2, SyncKeepsTypes DEF TypeOK, Working, disk, history
<1> QED BY <1>4, <1>5, <1>6, <1>7 DEF CommitInv

\* After the fourth fsync every slot carries the update, out of reach of a
\* power loss.
LEMMA CompleteSettles ==
  ASSUME CommitInv, Complete
  PROVE  /\ \A i \in Slots : Settled(i)' /\ hdr[i] = newHeader /\ tbl[i] = newTable
         /\ Unsettled' = {}
<1>1. UNCHANGED disk /\ Sync /\ pc = "sync" /\ slot = SLOT_COUNT
  BY DEF Complete
<1>2. \A i \in Slots : i <= slot
  BY <1>1 DEF Slots, SLOT_COUNT
<1>3. \A i \in Slots : Settled(i)' /\ hdr[i] = newHeader /\ tbl[i] = newTable
  BY <1>1, <1>2, SyncSettles
<1> QED BY <1>3 DEF Unsettled

LEMMA CompleteKeepsInv ==
  ASSUME CommitInv, Complete
  PROVE  CommitInv'
<1>1. TypeOK /\ session # None /\ 1 \in Slots
  BY DEF CommitInv, TypeOK, Working, Slots, SLOT_COUNT, Complete
<1>2. /\ UNCHANGED <<disk, exists, adding, session, cursor, todo, calls>> /\ Sync
      /\ pc' = "ready" /\ slot' = 1 /\ committed' = newTable /\ unfinished' = 0
  BY DEF Complete
<1>3. /\ newHeader.size # 0 /\ newTable \in Table /\ newTable.entries = session.entries
  BY <1>1, UpdateIsSound
<1>4. Unsettled' = {} /\ Cardinality({}) = 0
  BY CompleteSettles, FS_EmptySet
<1>5. UpdateInSlots' /\ DamageBounded'
  BY <1>2, <1>4 DEF UpdateInSlots, DamageBounded, Writing
<1>6. NothingOlder'
  <2>1. \A i \in Slots : mayHdr'[i] = {newHeader} /\ mayTbl'[i] = {newTable}
    BY <1>2, CompleteSettles DEF Sync
  <2> QED BY <1>2, <1>3, <2>1 DEF NothingOlder
<1>7. TypeOK'
  BY <1>1, <1>2, <1>3, SyncKeepsTypes DEF TypeOK, OrNone, Working, disk
<1> QED BY <1>5, <1>6, <1>7 DEF CommitInv

-----------------------------------------------------------------------------
(***************************************************************************)
(* Interruptions.                                                          *)
(***************************************************************************)

\* Leaving the slot loop: the slot it was at counts from now on.
LEMMA LeavingTheLoop ==
  ASSUME CommitInv
  PROVE  committed # None => Cardinality(Unsettled) <= unfinished
<1>1. Unsettled \in SUBSET Slots /\ Unsettled \ {slot} \in SUBSET Slots /\ unfinished \in Nat
  BY DEF Unsettled, CommitInv, TypeOK
<1>2. /\ Cardinality(Unsettled) \in Nat /\ Cardinality(Unsettled \ {slot}) \in Nat
      /\ Cardinality(Unsettled) <= Cardinality(Unsettled \ {slot}) + 1
  BY <1>1, SlotSets, AllButOne
<1> QED BY <1>1, <1>2 DEF CommitInv, DamageBounded

\* A call stops where it is: killed, failed, or with too large a table.
LEMMA StoppingKeepsInv ==
  ASSUME CommitInv, Working, Stop,
         pc' \in {"closed", "ready"}, pc' = "ready" => session' # None,
         session' \in OrNone(Session),
         session' # None => session'.entries = session.entries,
         slot' = 1, todo' = <<>>,
         UNCHANGED <<exists, adding, cursor, calls, history>>
  PROVE  CommitInv'
<1>1. /\ TypeOK /\ NothingOlder /\ session # None /\ slot \in Slots /\ 1 \in Slots /\ ~ Writing'
      /\ pc' \notin {"check", "init", "initsync", "header", "table", "sync", "data"}
  BY DEF CommitInv, TypeOK, Writing, Slots, SLOT_COUNT
<1>2. /\ \A i \in Slots \ {slot} :
           /\ hdr'[i] = hdr[i] /\ tbl'[i] = tbl[i]
           /\ mayHdr'[i] = mayHdr[i] /\ mayTbl'[i] = mayTbl[i]
      /\ \A i \in Slots : /\ \A h \in mayHdr'[i] : h \in mayHdr[i] \/ h = None
                          /\ \A t \in mayTbl'[i] : t \in mayTbl[i] \/ t = None
      /\ \A i \in Slots : hdr'[i] \in mayHdr'[i] /\ tbl'[i] \in mayTbl'[i]
      /\ hdr' \in [Slots -> OrNone(Header)] /\ tbl' \in [Slots -> OrNone(Table)]
      /\ mayHdr' \in [Slots -> SUBSET OrNone(Header)] /\ mayTbl' \in [Slots -> SUBSET OrNone(Table)]
  <2>1. CASE TearHeader
    BY <1>1, <2>1 DEF TearHeader, TypeOK, OrNone
  <2>2. CASE TearTable
    BY <1>1, <2>2 DEF TearTable, TypeOK, OrNone
  <2>3. CASE TearData \/ UNCHANGED <<disk, may>>
    <3>1. UNCHANGED <<hdr, tbl, mayHdr, mayTbl>>
      BY <2>3 DEF TearData, disk, may
    <3> QED BY <1>1, <3>1 DEF TypeOK
  <2> QED BY <2>1, <2>2, <2>3 DEF Stop
<1>3. data' \in [Units -> OrNone(Files)] /\ mayData' \in [Units -> SUBSET OrNone(Files)]
  <2>1. CASE TearData
    BY <1>1, <2>1 DEF TearData, TypeOK, OrNone
  <2>2. CASE UNCHANGED <<data, mayData>>
    BY <1>1, <2>2 DEF TypeOK
  <2> QED BY <2>1, <2>2 DEF Stop, TearHeader, TearTable, disk, may
<1>4. TypeOK'
  BY <1>1, <1>2, <1>3 DEF TypeOK, Working, history
<1>5. UpdateInSlots'
  BY <1>1 DEF UpdateInSlots, Writing
<1>6. NothingOlder'
  BY <1>1, <1>2 DEF NothingOlder, history
<1>7. DamageBounded'
  <2>1. CASE UNCHANGED <<hdr, tbl, mayHdr, mayTbl>>
    <3>1. Unsettled' = Unsettled
      BY <2>1, SlotsAlone
    <3>2. committed # None => Cardinality(Unsettled) <= unfinished
      BY LeavingTheLoop
    <3>3. UNCHANGED <<committed, unfinished>>
      BY DEF history
    <3> QED BY <1>1, <3>1, <3>2, <3>3 DEF DamageBounded
  <2>2. CASE ~ UNCHANGED <<hdr, tbl, mayHdr, mayTbl>>
    <3>1. pc \in {"init", "header", "table"}
      BY <2>2 DEF Stop, TearHeader, TearTable, TearData, disk, may
    <3>2. /\ Unsettled' \ {slot} = Unsettled \ {slot}
          /\ Unsettled' \in SUBSET Slots /\ Unsettled' \ {slot} \in SUBSET Slots
      BY <1>1, <1>2, OneSlotWritten DEF Unsettled
    <3>3. /\ Cardinality(Unsettled') \in Nat /\ Cardinality(Unsettled' \ {slot}) \in Nat
          /\ Cardinality(Unsettled') <= Cardinality(Unsettled' \ {slot}) + 1
      BY <3>2, SlotSets, AllButOne
    <3>4. committed # None => Cardinality(Unsettled \ {slot}) < unfinished
      BY <1>1, <3>1 DEF CommitInv, DamageBounded, Writing, NothingOlder
    <3>5. unfinished \in Nat
      BY <1>1 DEF TypeOK
    <3>6. committed # None => Cardinality(Unsettled' \ {slot}) < unfinished
      BY <3>2, <3>4
    <3>7. committed # None => Cardinality(Unsettled') <= unfinished
      BY <3>3, <3>5, <3>6
    <3>8. UNCHANGED <<committed, unfinished>>
      BY DEF history
    <3> QED BY <1>1, <3>7, <3>8 DEF DamageBounded
  <2> QED BY <2>1, <2>2
<1> QED BY <1>4, <1>5, <1>6, <1>7 DEF CommitInv

LEMMA StopsKeepInv ==
  ASSUME CommitInv, Kill \/ Fail \/ TableTooLarge
  PROVE  CommitInv'
<1>1. /\ Working /\ session \in Session /\ session # None /\ cursor \in Nat
  BY DEF CommitInv, TypeOK, OrNone, Kill, Fail, TableTooLarge, Working
<1>2. CASE Kill
  <2>1. None \in OrNone(Session)
    BY DEF OrNone
  <2> QED BY <1>1, <1>2, <2>1, StoppingKeepsInv DEF Kill
<1>3. ASSUME NEW memory \in Session, memory.entries = session.entries, EndInError(memory), Stop
      PROVE  CommitInv'
  <2>1. memory # None /\ memory \in OrNone(Session) /\ None \in OrNone(Session)
    BY <1>3, NoneAssumption DEF OrNone
  <2>2. slot' = 1 /\ todo' = <<>> /\ UNCHANGED <<exists, adding, cursor, calls, history>>
    BY <1>3 DEF EndInError
  <2>3. \/ pc' = "ready" /\ session' = memory
        \/ pc' = "closed" /\ session' = None
    BY <1>3, Zenon DEF EndInError
  <2> QED BY <1>1, <1>3, <2>1, <2>2, <2>3, StoppingKeepsInv
<1>4. CASE Fail
  BY <1>1, <1>3, <1>4 DEF Fail
<1>5. CASE TableTooLarge
  <2>1. /\ [session EXCEPT !.next = cursor] \in Session
        /\ [session EXCEPT !.next = cursor].entries = session.entries
    BY <1>1 DEF Session
  <2>2. Stop
    BY <1>5 DEF TableTooLarge, Stop
  <2> QED BY <1>3, <1>5, <2>1, <2>2 DEF TableTooLarge
<1> QED BY <1>2, <1>4, <1>5

\* A settled slot has one survivor: what it holds.
LEMMA PowerLossSettles ==
  ASSUME CommitInv, PowerLoss
  PROVE  /\ \A i \in Slots : hdr'[i] \in mayHdr[i] /\ tbl'[i] \in mayTbl[i]
         /\ \A i \in Slots : mayHdr'[i] = {hdr'[i]} /\ mayTbl'[i] = {tbl'[i]}
         /\ \A i \in Slots : Settled(i) => Settled(i)' /\ hdr'[i] = hdr[i] /\ tbl'[i] = tbl[i]
         /\ Unsettled' \in SUBSET Unsettled
<1>1. /\ \A i \in Slots : hdr'[i] \in mayHdr[i] /\ tbl'[i] \in mayTbl[i]
      /\ \A i \in Slots : mayHdr'[i] = {hdr'[i]} /\ mayTbl'[i] = {tbl'[i]}
  BY DEF PowerLoss
<1>2. \A i \in Slots : Settled(i) => Settled(i)' /\ hdr'[i] = hdr[i] /\ tbl'[i] = tbl[i]
  BY <1>1 DEF Settled, Accepts
<1> QED BY <1>1, <1>2 DEF Unsettled

LEMMA PowerLossKeepsInv ==
  ASSUME CommitInv, PowerLoss
  PROVE  CommitInv'
<1>1. /\ TypeOK /\ NothingOlder /\ 1 \in Slots /\ unfinished \in Nat
      /\ pc' = "closed" /\ session' = None /\ slot' = 1 /\ todo' = <<>>
      /\ UNCHANGED <<exists, adding, cursor, calls, history>>
  BY DEF CommitInv, TypeOK, PowerLoss, Slots, SLOT_COUNT
<1>2. /\ \A i \in Slots : mayHdr'[i] \subseteq mayHdr[i] /\ mayTbl'[i] \subseteq mayTbl[i]
      /\ \A i \in Slots : hdr'[i] \in mayHdr'[i] /\ tbl'[i] \in mayTbl'[i]
      /\ Unsettled' \in SUBSET Unsettled
  BY PowerLossSettles
<1>3. TypeOK'
  <2>1. /\ \A i \in Slots : hdr'[i] \in OrNone(Header) /\ tbl'[i] \in OrNone(Table)
        /\ \A u \in Units : data'[u] \in OrNone(Files)
    BY <1>1, <1>2 DEF PowerLoss, TypeOK
  <2>2. /\ hdr' \in [Slots -> OrNone(Header)] /\ tbl' \in [Slots -> OrNone(Table)]
        /\ data' \in [Units -> OrNone(Files)]
    BY <2>1 DEF PowerLoss
  <2>3. /\ mayHdr' \in [Slots -> SUBSET OrNone(Header)] /\ mayTbl' \in [Slots -> SUBSET OrNone(Table)]
        /\ mayData' \in [Units -> SUBSET OrNone(Files)]
    BY <2>1 DEF PowerLoss
  <2>4. None \in OrNone(Session) /\ <<>> \in Seq(Files)
    BY DEF OrNone
  <2> QED BY <1>1, <1>2, <2>2, <2>3, <2>4 DEF TypeOK, Working, history
<1>4. UpdateInSlots'
  BY <1>1 DEF UpdateInSlots, Writing
<1>5. NothingOlder'
  BY <1>1, <1>2 DEF NothingOlder, history
<1>6. DamageBounded'
  <2>1. Unsettled \in SUBSET Slots /\ Unsettled' \in SUBSET Slots
    BY DEF Unsettled
  <2>2. /\ Cardinality(Unsettled') <= Cardinality(Unsettled)
        /\ Cardinality(Unsettled') \in Nat /\ Cardinality(Unsettled) \in Nat
    BY <1>2, <2>1, FewerSlots, SlotSets
  <2> QED BY <1>1, <2>2, LeavingTheLoop DEF DamageBounded, Writing, history
<1> QED BY <1>3, <1>4, <1>5, <1>6 DEF CommitInv

-----------------------------------------------------------------------------
LEMMA StutterKeepsInv ==
  ASSUME CommitInv, UNCHANGED vars
  PROVE  CommitInv'
<1>1. /\ UNCHANGED <<hdr, tbl, data, mayHdr, mayTbl, mayData, exists, pc, slot, adding, session, todo,
                     cursor, calls, committed, unfinished>>
  BY DEF vars, disk, may, history
<1>2. Unsettled' = Unsettled /\ \A i \in Slots : Settled(i)' = Settled(i)
  BY <1>1, SlotsAlone
<1>3. TypeOK' /\ NothingOlder'
  BY <1>1 DEF CommitInv, TypeOK, NothingOlder, Working
<1>4. DamageBounded'
  BY <1>1, <1>2 DEF CommitInv, DamageBounded, Writing
<1>5. UpdateInSlots'
  BY <1>1, <1>2 DEF CommitInv, UpdateInSlots, Writing, newHeader, newTable
<1> QED BY <1>3, <1>4, <1>5 DEF CommitInv

LEMMA StepKeepsInv ==
  ASSUME CommitInv, [Next]_vars
  PROVE  CommitInv'
<1>1. CASE (\E files \in Calls : Create(files)) \/ InitHeader \/ InitSync
  BY <1>1, CreateStepsKeepInv
<1>2. CASE Close \/ CheckCapacity \/ RefuseCreate \/ AfterRefusal \/ \E files \in Calls : Add(files)
  BY <1>2, IdleStepsKeepInv
<1>3. CASE Open            BY <1>3, OpenKeepsInv
<1>4. CASE WriteFile       BY <1>4, WriteFileKeepsInv
<1>5. CASE PrepareTable    BY <1>5, PrepareTableKeepsInv
<1>6. CASE WriteHeader     BY <1>6, WriteHeaderKeepsInv
<1>7. CASE WriteTable      BY <1>7, WriteTableKeepsInv
<1>8. CASE SyncSlot        BY <1>8, SyncSlotKeepsInv
<1>9. CASE Complete        BY <1>9, CompleteKeepsInv
<1>10. CASE Kill \/ Fail \/ TableTooLarge
  BY <1>10, StopsKeepInv
<1>11. CASE PowerLoss      BY <1>11, PowerLossKeepsInv
<1>12. CASE UNCHANGED vars BY <1>12, StutterKeepsInv
<1> QED
  BY <1>1, <1>2, <1>3, <1>4, <1>5, <1>6, <1>7, <1>8, <1>9, <1>10, <1>11, <1>12 DEF Next

(***************************************************************************)
(* The bookkeeping of damage is right in every reachable state.            *)
(***************************************************************************)
THEOREM CommitInvariant == Spec => []CommitInv
<1>1. Init => CommitInv
  BY CommitInit
<1>2. CommitInv /\ [Next]_vars => CommitInv'
  BY StepKeepsInv
<1> QED BY <1>1, <1>2, PTL DEF Spec

\* Fewer unsettled slots than there are slots: one is valid.
LEMMA EnoughSlotsLeft ==
  ASSUME CommitInv, committed # None, unfinished < SLOT_COUNT
  PROVE  ValidSlots # {}
<1>1. /\ Cardinality(Unsettled) <= unfinished /\ unfinished \in Nat
      /\ Unsettled \in SUBSET Slots /\ Cardinality(Unsettled) \in Nat
  BY LeavingTheLoop, SlotSets DEF CommitInv, TypeOK, Unsettled
<1>2. Unsettled # Slots
  BY <1>1, FourSlots DEF SLOT_COUNT
<1>3. PICK i \in Slots : Settled(i)
  BY <1>1, <1>2 DEF Unsettled
<1> QED BY <1>3 DEF Settled, ValidSlots, ValidIn

\* Three interrupted updates in a row, by kills, errors or power losses at any
\* write, leave a slot that opens (writeFileTableToAllSlots, readMeta).
THEOREM ContainerStaysOpenable == Spec => []ThreeInterruptionsOpen
<1>1. CommitInv => ThreeInterruptionsOpen
  BY EnoughSlotsLeft DEF ThreeInterruptionsOpen
<1> QED BY <1>1, CommitInvariant, PTL

\* No open ever returns a table without the entries of the last completed
\* update.
THEOREM CompletedUpdatesSurvive == Spec => []CompletedUpdateKept
<1>1. ASSUME CommitInv PROVE CompletedUpdateKept
  <2>1. TypeOK /\ NothingOlder
    BY <1>1 DEF CommitInv
  <2>2. \A i \in ValidSlots :
          i \in Slots /\ hdr[i] \in mayHdr[i] /\ tbl[i] \in mayTbl[i] /\ Accepts(hdr[i], tbl[i])
    BY <2>1 DEF ValidSlots, ValidIn, TypeOK
  <2> QED BY <2>1, <2>2, ValidSlotKeeps DEF CompletedUpdateKept, TableOf
<1> QED BY <1>1, CommitInvariant, PTL

-----------------------------------------------------------------------------
(***************************************************************************)
(* The four slots implement one durable table.                             *)
(***************************************************************************)
LEMMA VisibleKeeps ==
  ASSUME CommitInv
  PROVE  Store!Keeps(visible)
<1>1. TypeOK /\ NothingOlder /\ unfinished \in Nat
  BY DEF CommitInv, TypeOK
<1>2. CASE ValidSlots = {}
  <2>1. visible = None
    BY <1>2 DEF visible, VisibleIn, ValidSlots
  <2>2. committed = None \/ unfinished >= SLOT_COUNT
    BY <1>1, <1>2, EnoughSlotsLeft DEF SLOT_COUNT
  <2> QED BY <2>1, <2>2 DEF Store!Keeps
<1>3. CASE ValidSlots # {}
  <2> DEFINE i == FirstIn(ValidIn(hdr, tbl))
  <2>1. ValidIn(hdr, tbl) \in SUBSET Slots /\ ValidIn(hdr, tbl) # {}
    BY <1>3 DEF ValidSlots, ValidIn
  <2>2. i \in ValidIn(hdr, tbl)
    BY <2>1, FirstInIsMember
  <2>3. visible = readFilesTable(hdr[i], tbl[i])
    BY <2>1 DEF visible, VisibleIn
  <2> HIDE DEF i
  <2>4. i \in Slots /\ hdr[i] \in mayHdr[i] /\ tbl[i] \in mayTbl[i] /\ Accepts(hdr[i], tbl[i])
    BY <1>1, <2>2 DEF ValidIn, TypeOK
  <2>5. visible \in Table /\ (committed # None => committed.entries \subseteq visible.entries)
    BY <1>1, <2>3, <2>4, ValidSlotKeeps
  <2> QED BY <2>5, NoneAssumption DEF Store!Keeps
<1> QED BY <1>2, <1>3

\* While nothing is completed, or an update is under way or was broken off,
\* any change of the slots is a change DurableTable allows.
LEMMA SlotChangesWaver ==
  ASSUME CommitInv', committed = None \/ unfinished > 0, UNCHANGED history
  PROVE  Store!Waver
<1>1. Store!Keeps(visible)'
  BY VisibleKeeps, PTL
<1>2. Store!Keeps(visible')
  BY <1>1 DEF Store!Keeps, history
<1> QED BY <1>2 DEF Store!Waver, history

LEMMA SlotsAloneVisibleAlone ==
  ASSUME UNCHANGED <<hdr, tbl>>
  PROVE  visible' = visible
BY DEF visible

\* The step that completes an update shows it.
LEMMA CompleteShows ==
  ASSUME CommitInv, Complete
  PROVE  Store!Complete
<1>1. /\ UNCHANGED disk /\ committed' = newTable /\ unfinished' = 0 /\ session # None /\ pc = "sync"
  BY DEF Complete, CommitInv, TypeOK, Working
<1>2. \A i \in Slots : hdr[i] = newHeader /\ tbl[i] = newTable
  BY CompleteSettles
<1>3. /\ newTable # None /\ Accepts(newHeader, newTable) /\ newHeader.size # 0
      /\ committed # None => committed.entries \subseteq newTable.entries
  BY <1>1, UpdateIsSound
<1>4. ValidIn(hdr, tbl) = Slots /\ Slots # {} /\ Slots \in SUBSET Slots
  BY <1>2, <1>3 DEF ValidIn, Slots, SLOT_COUNT
<1>5. FirstIn(Slots) \in Slots
  BY <1>4, FirstInIsMember
<1>6. visible = newTable
  BY <1>2, <1>3, <1>4, <1>5 DEF visible, VisibleIn, readFilesTable
<1>7. visible' = newTable
  BY <1>1, <1>6, SlotsAloneVisibleAlone DEF disk
<1>8. unfinished > 0
  BY <1>1 DEF CommitInv, DamageBounded, Writing
<1> QED BY <1>1, <1>3, <1>7, <1>8 DEF Store!Complete

LEMMA StepRefines ==
  ASSUME CommitInv, CommitInv', [Next]_vars
  PROVE  [Store!Next]_Store!vars
<1>1. CASE UNCHANGED <<hdr, tbl, history>>
  <2>1. UNCHANGED Store!vars
    BY <1>1, SlotsAloneVisibleAlone DEF Store!vars, history
  <2> QED BY <2>1
<1>2. ASSUME committed = None \/ unfinished > 0, UNCHANGED history
      PROVE  Store!Next
  BY <1>2, SlotChangesWaver DEF Store!Next
<1>3. CASE (\E files \in Calls : Create(files)) \/ InitHeader
  <2>1. committed = None /\ UNCHANGED history
    BY <1>3 DEF Create, InitHeader, CommitInv, NothingOlder
  <2> QED BY <1>2, <2>1
<1>4. CASE WriteHeader \/ WriteTable
  <2>1. unfinished > 0 /\ UNCHANGED history
    BY <1>4 DEF WriteHeader, WriteTable, CommitInv, DamageBounded, Writing
  <2> QED BY <1>2, <2>1
<1>5. CASE PrepareTable
  <2>1. visible' = visible
    BY <1>5, SlotsAloneVisibleAlone DEF PrepareTable, disk
  <2> QED BY <1>5, <2>1 DEF PrepareTable, Store!Next, Store!Begin
<1>6. CASE Complete
  BY <1>6, CompleteShows DEF Store!Next
<1>7. CASE Kill \/ Fail
  <2>1. Stop /\ UNCHANGED history
    BY <1>7 DEF Kill, Fail, EndInError
  <2>2. CASE TearHeader \/ TearTable
    <3>1. committed = None \/ unfinished > 0
      BY <2>2 DEF TearHeader, TearTable, CommitInv, NothingOlder, DamageBounded, Writing
    <3> QED BY <1>2, <2>1, <3>1
  <2>3. CASE TearData \/ UNCHANGED <<disk, may>>
    <3>1. UNCHANGED <<hdr, tbl>>
      BY <2>3 DEF TearData, disk
    <3> QED BY <1>1, <2>1, <3>1
  <2> QED BY <2>1, <2>2, <2>3 DEF Stop
<1>8. CASE PowerLoss
  <2>1. UNCHANGED history /\ unfinished \in Nat
    BY <1>8 DEF PowerLoss, CommitInv, TypeOK
  <2>2. CASE committed = None \/ unfinished > 0
    BY <1>2, <2>1, <2>2
  <2>3. CASE committed # None /\ unfinished = 0
    <3>1. Cardinality(Unsettled) = 0 /\ IsFiniteSet(Unsettled)
      BY <2>3, LeavingTheLoop, SlotSets DEF Unsettled
    <3>2. \A i \in Slots : Settled(i)
      BY <3>1, FS_EmptySet DEF Unsettled
    <3>3. \A i \in Slots : hdr'[i] = hdr[i] /\ tbl'[i] = tbl[i]
      BY <1>8, <3>2, PowerLossSettles
    <3>4. hdr' = hdr /\ tbl' = tbl
      BY <3>3 DEF CommitInv, TypeOK
    <3> QED BY <1>1, <2>1, <3>4
  <2> QED BY <2>1, <2>2, <2>3
<1> QED
  BY <1>1, <1>3, <1>4, <1>5, <1>6, <1>7, <1>8
     DEF Next, vars, disk, Add, Open, Close, CheckCapacity, RefuseCreate, AfterRefusal, InitSync,
         WriteFile, SyncSlot, TableTooLarge, EndInError

\* writeAllSlots, writeFileTableToAllSlots and readMeta together, under every
\* interruption modelled, behave as a table replaced in one step.
THEOREM SlotsImplementDurableTable == Spec => ImplementsDurableTable
<1>1. Init => Store!Init
  <2> SUFFICES ASSUME Init PROVE Store!Init
    OBVIOUS
  <2>1. ValidIn(hdr, tbl) = {}
    BY DEF Init, ValidIn, Accepts
  <2>2. visible = None
    BY <2>1 DEF visible, VisibleIn
  <2> QED BY <2>2 DEF Init, Store!Init
<1>2. CommitInv /\ CommitInv' /\ [Next]_vars => [Store!Next]_Store!vars
  BY StepRefines
<1> QED BY <1>1, <1>2, CommitInvariant, PTL DEF Spec, ImplementsDurableTable, Store!Spec

-----------------------------------------------------------------------------
(***************************************************************************)
(* Where the data lies: no table is older than the last completed one, so  *)
(* a call starts behind that one's data, and an fsync has put this data    *)
(* out of reach of a power loss.  Only a session that outlives a failed    *)
(* add has entries behind its next_write_offset.                           *)
(***************************************************************************)
UpTo(entries, n) == \A e \in entries : e.unit <= n

\* Where the data of the session's entries ends.
SessionEnd == IF pc = "data" THEN cursor ELSE session.next

NoTableBefore ==
  committed # None =>
    \A i \in Slots : \A t \in mayTbl[i] : t # None => committed.next <= t.next

SessionBehind ==
  committed # None => /\ session # None => committed.next <= session.next
                      /\ pc = "data" => committed.next <= cursor

DataSettled ==
  /\ \A u \in Units : data[u] \in mayData[u]
  /\ committed # None => \A u \in Units : u <= committed.next => mayData[u] = {data[u]}

TablesEnd ==
  ~ KEEP_ON_ERROR => \A i \in Slots : \A t \in mayTbl[i] : t # None => UpTo(t.entries, t.next)

SessionEnds ==
  /\ ~ KEEP_ON_ERROR => /\ session # None => UpTo(session.entries, SessionEnd)
                        /\ committed # None => UpTo(committed.entries, committed.next)
  /\ pc \in {"check", "init", "initsync"} => session.entries = {}

DataInv == NoTableBefore /\ SessionBehind /\ DataSettled /\ TablesEnd /\ SessionEnds

\* A step brings one table at most, the one being written, into what a slot may hold.
LEMMA TablesToCome ==
  ASSUME TypeOK, [Next]_vars, NEW i \in Slots, NEW t \in mayTbl'[i], t # None
  PROVE  t \in mayTbl[i] \/ (WriteTable /\ t = newTable)
<1>1. mayTbl \in [Slots -> SUBSET OrNone(Table)] /\ tbl[i] \in mayTbl[i]
  BY DEF TypeOK
<1>2. CASE \E files \in Calls : Create(files)
  BY <1>2 DEF Create
<1>3. CASE InitSync \/ SyncSlot \/ Complete
  <2>1. mayTbl'[i] = {tbl[i]}
    BY <1>3 DEF InitSync, SyncSlot, Complete, Sync
  <2> QED BY <1>1, <2>1
<1>4. CASE WriteTable
  BY <1>1, <1>4 DEF WriteTable
<1>5. CASE PowerLoss
  <2>1. tbl'[i] \in mayTbl[i] /\ mayTbl'[i] = {tbl'[i]}
    BY <1>5 DEF PowerLoss
  <2> QED BY <2>1
<1>6. CASE Stop
  BY <1>1, <1>6 DEF Stop, TearHeader, TearTable, TearData, may
<1>7. CASE mayTbl' = mayTbl
  BY <1>7
<1> QED BY <1>2, <1>3, <1>4, <1>5, <1>6, <1>7
        DEF Next, Add, Open, Close, CheckCapacity, RefuseCreate, AfterRefusal, InitHeader, WriteFile,
            PrepareTable, WriteHeader, Kill, Fail, TableTooLarge, vars, may

\* Once an update has completed, a step changes one unit at most, the next to be written, and a
\* power loss none that an fsync has settled.
LEMMA DataToCome ==
  ASSUME TypeOK, DataSettled, [Next]_vars, committed # None, NEW u \in Units,
         pc = "data" => u # cursor + 1, mayData[u] = {data[u]}
  PROVE  data'[u] = data[u] /\ mayData'[u] = {data[u]}
<1>1. mayData \in [Units -> SUBSET OrNone(Files)] /\ data \in [Units -> OrNone(Files)]
  BY DEF TypeOK
<1>2. CASE WriteFile \/ TearData
  BY <1>1, <1>2 DEF WriteFile, TearData
<1>3. CASE InitSync \/ SyncSlot \/ Complete
  BY <1>3 DEF InitSync, SyncSlot, Complete, Sync, disk
<1>4. CASE PowerLoss
  <2>1. data'[u] \in mayData[u] /\ mayData'[u] = {data'[u]}
    BY <1>4 DEF PowerLoss
  <2> QED BY <2>1
<1>5. CASE UNCHANGED <<data, mayData>>
  BY <1>5
<1>6. ~ \E files \in Calls : Create(files)
  BY DEF Create
<1> QED BY <1>2, <1>3, <1>4, <1>5, <1>6
        DEF Next, Add, Open, Close, CheckCapacity, RefuseCreate, AfterRefusal, InitHeader,
            PrepareTable, WriteHeader, WriteTable, Kill, Fail, TableTooLarge, Stop, TearHeader,
            TearTable, vars, disk, may

\* The data up to the next_write_offset of the last completed update stays.
LEMMA DataBelowStays ==
  ASSUME TypeOK, DataSettled, SessionBehind, [Next]_vars, committed # None,
         NEW u \in Units, u <= committed.next
  PROVE  data'[u] = data[u] /\ mayData'[u] = {data[u]}
<1>1. committed.next \in Nat /\ cursor \in Nat /\ u \in Nat
  BY SlotCommitAssumption DEF TypeOK, OrNone, Table, Units
<1>2. pc = "data" => u # cursor + 1
  BY <1>1 DEF SessionBehind
<1>3. mayData[u] = {data[u]}
  BY DEF DataSettled
<1> QED BY <1>2, <1>3, DataToCome

LEMMA DataSettledKept ==
  ASSUME TypeOK, DataSettled, SessionBehind, [Next]_vars
  PROVE  DataSettled'
<1>1. ASSUME NEW u \in Units PROVE data'[u] \in mayData'[u]
  <2>1. mayData \in [Units -> SUBSET OrNone(Files)] /\ data \in [Units -> OrNone(Files)]
        /\ data[u] \in mayData[u]
    BY DEF TypeOK, DataSettled
  <2>2. CASE WriteFile \/ TearData
    BY <2>1, <2>2 DEF WriteFile, TearData
  <2>3. CASE InitSync \/ SyncSlot \/ Complete
    BY <2>3 DEF InitSync, SyncSlot, Complete, Sync, disk
  <2>4. CASE PowerLoss \/ \E files \in Calls : Create(files)
    BY <2>4 DEF PowerLoss, Create
  <2>5. CASE UNCHANGED <<data, mayData>>
    BY <2>1, <2>5
  <2> QED BY <2>2, <2>3, <2>4, <2>5
          DEF Next, Add, Open, Close, CheckCapacity, RefuseCreate, AfterRefusal, InitHeader,
              PrepareTable, WriteHeader, WriteTable, Kill, Fail, TableTooLarge, Stop, TearHeader,
              TearTable, vars, disk, may
<1>2. CASE Complete
  <2>1. \A u \in Units : mayData'[u] = {data'[u]}
    BY <1>2 DEF Complete, Sync, disk
  <2> QED BY <1>1, <2>1 DEF DataSettled
<1>3. CASE committed' = committed
  <2>1. ASSUME committed # None, NEW u \in Units, u <= committed.next
        PROVE  mayData'[u] = {data'[u]}
    BY <2>1, DataBelowStays
  <2> QED BY <1>1, <1>3, <2>1 DEF DataSettled
<1> QED BY <1>2, <1>3 DEF Next, Create, Add, Open, Close, CheckCapacity, RefuseCreate, AfterRefusal,
          InitHeader, InitSync, WriteFile, PrepareTable, WriteHeader, WriteTable, SyncSlot, Kill,
          Fail, TableTooLarge, EndInError, PowerLoss, vars, history

LEMMA NoTableBeforeKept ==
  ASSUME CommitInv, NoTableBefore, SessionBehind, [Next]_vars
  PROVE  NoTableBefore'
<1>1. TypeOK
  BY DEF CommitInv
<1>2. CASE Complete
  <2>1. \A i \in Slots : mayTbl'[i] = {newTable}
    BY <1>2, CompleteSettles DEF Complete, Sync
  <2>2. committed' = newTable /\ session \in Session
    BY <1>1, <1>2 DEF Complete, TypeOK, Working, OrNone
  <2>3. newTable.next \in Nat
    BY <2>2 DEF newTable, Session
  <2> QED BY <2>1, <2>2, <2>3 DEF NoTableBefore
<1>3. CASE committed' = committed
  <2> SUFFICES ASSUME committed # None, NEW i \in Slots, NEW t \in mayTbl'[i], t # None
               PROVE  committed.next <= t.next
    BY <1>3 DEF NoTableBefore
  <2>1. CASE t \in mayTbl[i]
    BY <2>1 DEF NoTableBefore
  <2>2. CASE WriteTable /\ t = newTable
    BY <1>1, <2>2 DEF WriteTable, newTable, SessionBehind, TypeOK, Working
  <2> QED BY <1>1, <2>1, <2>2, TablesToCome
<1> QED BY <1>2, <1>3 DEF Next, Create, Add, Open, Close, CheckCapacity, RefuseCreate, AfterRefusal,
          InitHeader, InitSync, WriteFile, PrepareTable, WriteHeader, WriteTable, SyncSlot, Kill,
          Fail, TableTooLarge, EndInError, PowerLoss, vars, history

LEMMA TablesEndKept ==
  ASSUME CommitInv, TablesEnd, SessionEnds, [Next]_vars
  PROVE  TablesEnd'
<1>1. TypeOK
  BY DEF CommitInv
<1> SUFFICES ASSUME ~ KEEP_ON_ERROR, NEW i \in Slots, NEW t \in mayTbl'[i], t # None
             PROVE  UpTo(t.entries, t.next)
  BY DEF TablesEnd
<1>2. CASE t \in mayTbl[i]
  BY <1>2 DEF TablesEnd
<1>3. CASE WriteTable /\ t = newTable
  BY <1>1, <1>3 DEF WriteTable, newTable, SessionEnds, SessionEnd, TypeOK, Working
<1> QED BY <1>1, <1>2, <1>3, TablesToCome

\* What an open takes into memory.
LEMMA OpenedSession ==
  ASSUME CommitInv, Open
  PROVE  /\ ActiveSlot \in Slots /\ TableOf(ActiveSlot) \in Table /\ hdr[ActiveSlot] \in Header
         /\ session'.entries = TableOf(ActiveSlot).entries
         /\ session'.next = TableOf(ActiveSlot).next
         /\ committed # None => hdr[ActiveSlot].size # 0
         /\ hdr[ActiveSlot].size # 0 => /\ TableOf(ActiveSlot) \in mayTbl[ActiveSlot]
                                        /\ TableOf(ActiveSlot) # None
         /\ hdr[ActiveSlot].size = 0 => TableOf(ActiveSlot).entries = {}
<1> DEFINE i == ActiveSlot
<1>1. i \in ValidSlots /\ i \in Slots /\ Accepts(hdr[i], tbl[i])
  BY FirstInIsMember DEF Open, ActiveSlot, ValidSlots, ValidIn
<1> HIDE DEF i
<1>2. TypeOK /\ NothingOlder /\ hdr[i] \in mayHdr[i] /\ tbl[i] \in mayTbl[i]
  BY <1>1 DEF CommitInv, TypeOK
<1>3. TableOf(i) \in Table /\ hdr[i] \in Header
  BY <1>1, <1>2, ValidSlotKeeps DEF TableOf
<1>4. session' = [version |-> hdr[i].version, entries |-> TableOf(i).entries, next |-> TableOf(i).next]
  BY DEF Open, i
<1>5. committed # None => hdr[i].size # 0
  BY <1>1, <1>2 DEF NothingOlder, Accepts
<1>6. hdr[i].size # 0 => TableOf(i) = tbl[i] /\ tbl[i] # None
  BY <1>1 DEF TableOf, readFilesTable, Accepts
<1>7. hdr[i].size = 0 => TableOf(i).entries = {}
  BY DEF TableOf, readFilesTable
<1> QED BY <1>1, <1>2, <1>3, <1>4, <1>5, <1>6, <1>7 DEF i

\* What the end of a call in an exception leaves in memory.
LEMMA StoppedSession ==
  ASSUME Kill \/ Fail \/ TableTooLarge \/ PowerLoss
  PROVE  /\ committed' = committed /\ cursor' = cursor /\ pc' \in {"closed", "ready"}
         /\ \/ session' = None
            \/ KEEP_ON_ERROR /\ session' = session
            \/ KEEP_ON_ERROR /\ session' = [session EXCEPT !.next = cursor] /\ pc = "data"
<1>1. ASSUME NEW memory, EndInError(memory)
      PROVE  /\ committed' = committed /\ cursor' = cursor /\ pc' \in {"closed", "ready"}
             /\ session' = None \/ (KEEP_ON_ERROR /\ session' = memory)
  <2>1. CASE KEEP_ON_ERROR /\ adding
    BY <1>1, <2>1, Zenon DEF EndInError, history
  <2>2. CASE ~ (KEEP_ON_ERROR /\ adding)
    BY <1>1, <2>2, Zenon DEF EndInError, history
  <2> QED BY <2>1, <2>2
<1>2. CASE Kill \/ PowerLoss
  BY <1>2 DEF Kill, PowerLoss, history
<1>3. CASE Fail
  BY <1>1, <1>3 DEF Fail
<1>4. CASE TableTooLarge
  <2>1. EndInError([session EXCEPT !.next = cursor]) /\ pc = "data"
    BY <1>4 DEF TableTooLarge
  <2> QED BY <1>1, <2>1
<1> QED BY <1>2, <1>3, <1>4

LEMMA SessionBehindKept ==
  ASSUME CommitInv, NoTableBefore, SessionBehind, [Next]_vars
  PROVE  SessionBehind'
<1>1. /\ TypeOK /\ (committed # None => pc \notin {"check", "init", "initsync"})
      /\ (session # None => session.next \in Nat) /\ cursor \in Nat
      /\ (committed # None => committed.next \in Nat)
  BY DEF CommitInv, TypeOK, NothingOlder, OrNone, Session, Table
<1>2. CASE Complete
  <2>1. /\ committed' = newTable /\ session' = session /\ session \in Session
        /\ pc' = "ready"
    BY <1>1, <1>2 DEF Complete, TypeOK, Working, OrNone
  <2>2. newTable.next = session.next /\ session.next \in Nat
    BY <2>1 DEF newTable, Session
  <2> QED BY <2>1, <2>2 DEF SessionBehind
<1>3. CASE Open
  <2>1. committed # None => committed.next <= session'.next
    BY <1>3, OpenedSession DEF NoTableBefore
  <2> QED BY <1>3, <2>1 DEF Open, SessionBehind, history
<1>4. ASSUME NEW files, Add(files) PROVE SessionBehind'
  BY <1>1, <1>4 DEF Add, SessionBehind, history, TypeOK
<1>5. CASE WriteFile
  <2>1. session'.next = session.next
    BY <1>1, <1>5 DEF WriteFile, TypeOK, Working, OrNone, Session
  <2> QED BY <1>1, <1>5, <2>1 DEF WriteFile, SessionBehind, history, TypeOK, Working
<1>6. CASE PrepareTable
  <2>1. session'.next = cursor
    BY <1>1, <1>6 DEF PrepareTable, TypeOK, Working, OrNone, Session
  <2> QED BY <1>1, <1>6, <2>1 DEF PrepareTable, SessionBehind, history
<1>7. CASE Kill \/ Fail \/ TableTooLarge \/ PowerLoss
  <2>1. /\ committed' = committed /\ pc' # "data"
        /\ \/ session' = None \/ session' = session
           \/ session' = [session EXCEPT !.next = cursor] /\ pc = "data"
    BY <1>7, StoppedSession
  <2>2. CASE session' = [session EXCEPT !.next = cursor] /\ pc = "data"
    <3>1. session'.next = cursor
      BY <1>1, <2>2 DEF TypeOK, Working, OrNone, Session
    <3> QED BY <1>1, <2>1, <2>2, <3>1 DEF SessionBehind
  <2> QED BY <2>1, <2>2 DEF SessionBehind
<1>8. CASE (\E files \in Calls : Create(files)) \/ InitHeader \/ InitSync \/ CheckCapacity
  <2>1. committed' = None
    BY <1>1, <1>8 DEF Create, InitHeader, InitSync, CheckCapacity, history
  <2> QED BY <2>1 DEF SessionBehind
<1>9. CASE Close \/ RefuseCreate \/ AfterRefusal \/ WriteHeader \/ WriteTable \/ SyncSlot
           \/ UNCHANGED vars
  BY <1>9 DEF Close, RefuseCreate, AfterRefusal, WriteHeader, WriteTable, SyncSlot, vars, history,
              SessionBehind
<1> QED BY <1>2, <1>3, <1>4, <1>5, <1>6, <1>7, <1>8, <1>9 DEF Next

LEMMA SessionEndsKept ==
  ASSUME CommitInv, TablesEnd, SessionEnds, [Next]_vars
  PROVE  SessionEnds'
<1>1. /\ TypeOK /\ cursor \in Nat
      /\ session # None =>
           session \in Session /\ session.next \in Nat /\ session.entries \in SUBSET Entries
      /\ \A e \in Entries : e.unit \in Nat
  BY SlotCommitAssumption DEF CommitInv, TypeOK, OrNone, Session, Entries, Units
<1> DEFINE First == pc \in {"check", "init", "initsync"} => session.entries = {}
           Known == session # None => UpTo(session.entries, SessionEnd)
           Last == committed # None => UpTo(committed.entries, committed.next)
<1>2. SUFFICES First' /\ (~ KEEP_ON_ERROR => Known' /\ Last')
  BY DEF SessionEnds
<1>3. First /\ (~ KEEP_ON_ERROR => Known /\ Last)
  BY DEF SessionEnds
<1>4. CASE Complete
  <2>1. /\ committed' = newTable /\ session' = session /\ session # None
        /\ pc = "sync" /\ pc' = "ready"
    BY <1>1, <1>4 DEF Complete, TypeOK, Working
  <2> QED BY <1>3, <2>1 DEF newTable, SessionEnd
<1>5. CASE Open
  <2>1. ~ KEEP_ON_ERROR => UpTo(session'.entries, session'.next)
    BY <1>5, OpenedSession DEF TablesEnd, UpTo
  <2> QED BY <1>3, <1>5, <2>1 DEF Open, SessionEnd, history
<1>6. ASSUME NEW files, Add(files) PROVE First' /\ (~ KEEP_ON_ERROR => Known' /\ Last')
  BY <1>3, <1>6 DEF Add, SessionEnd, history
<1>7. CASE WriteFile
  <2> DEFINE entry == [file |-> Head(todo), unit |-> cursor + 1]
  <2>1. session' = [session EXCEPT !.entries = @ \cup {entry}] /\ session # None
    BY <1>1, <1>7 DEF WriteFile, TypeOK, Working
  <2>2. entry.unit = cursor + 1
    OBVIOUS
  <2> HIDE DEF entry
  <2>3. session'.entries = session.entries \cup {entry}
    BY <1>1, <2>1 DEF Session
  <2>4. UpTo(session.entries, cursor) => UpTo(session'.entries, cursor + 1)
    BY <1>1, <2>1, <2>2, <2>3 DEF UpTo
  <2> QED BY <1>3, <1>7, <2>1, <2>4 DEF WriteFile, SessionEnd, history
<1>8. CASE PrepareTable
  <2>1. session'.next = cursor /\ session'.entries = session.entries /\ session # None
    BY <1>1, <1>8 DEF PrepareTable, TypeOK, Working, Session
  <2> QED BY <1>3, <1>8, <2>1 DEF PrepareTable, SessionEnd, history
<1>9. CASE Kill \/ Fail \/ TableTooLarge \/ PowerLoss
  <2>1. /\ committed' = committed /\ pc' \in {"closed", "ready"}
        /\ ~ KEEP_ON_ERROR => session' = None
    BY <1>9, StoppedSession
  <2> QED BY <1>3, <2>1
<1>10. ASSUME NEW files, Create(files) PROVE First' /\ (~ KEEP_ON_ERROR => Known' /\ Last')
  <2>1. session'.entries = {}
    BY <1>10 DEF Create
  <2> QED BY <1>3, <1>10, <2>1 DEF Create, SessionEnd, UpTo, history
<1>11. CASE InitHeader \/ CheckCapacity
  BY <1>3, <1>11 DEF InitHeader, CheckCapacity, SessionEnd, UpTo, history
<1>12. CASE InitSync
  <2>1. /\ session' = session /\ committed' = committed /\ session.entries = {}
    BY <1>3, <1>12 DEF InitSync, history
  <2>2. pc' # "check" /\ pc' # "initsync"
    BY <1>12 DEF InitSync
  <2> QED BY <1>3, <2>1, <2>2 DEF UpTo
<1>13. CASE Close \/ RefuseCreate \/ AfterRefusal
  BY <1>3, <1>13 DEF Close, RefuseCreate, AfterRefusal, SessionEnd, history
<1>14. CASE WriteHeader \/ WriteTable \/ SyncSlot
  <2>1. session' = session /\ committed' = committed
    BY <1>14 DEF WriteHeader, WriteTable, SyncSlot, history
  <2>2. pc # "data" /\ pc' \in {"header", "table", "sync"}
    BY <1>14 DEF WriteHeader, WriteTable, SyncSlot
  <2>3. SessionEnd' = session'.next /\ SessionEnd = session.next
    BY <2>2 DEF SessionEnd
  <2> QED BY <1>3, <2>1, <2>2, <2>3
<1>15. CASE UNCHANGED vars
  BY <1>3, <1>15 DEF vars, SessionEnd, history
<1> QED BY <1>4, <1>5, <1>6, <1>7, <1>8, <1>9, <1>10, <1>11, <1>12, <1>13, <1>14, <1>15 DEF Next

LEMMA DataInvKept ==
  ASSUME CommitInv, DataInv, [Next]_vars
  PROVE  DataInv'
<1>1. TypeOK
  BY DEF CommitInv
<1> QED BY <1>1, DataSettledKept, NoTableBeforeKept, TablesEndKept, SessionBehindKept,
           SessionEndsKept DEF DataInv

LEMMA DataInvInit ==
  ASSUME Init
  PROVE  DataInv
BY DEF Init, DataInv, NoTableBefore, SessionBehind, DataSettled, TablesEnd, SessionEnds

\* In every reachable state a call starts behind the data of the last completed update, and a
\* power loss cannot reach that data any more.
LEMMA DataInvariant == Spec => [](CommitInv /\ DataInv)
<1>1. CommitInv /\ DataInv /\ [Next]_vars => (CommitInv /\ DataInv)'
  BY DataInvKept, StepKeepsInv
<1> QED BY <1>1, CommitInit, DataInvInit, PTL DEF Spec

\* writeFragmented: what the entries of the last completed update point to is never written
\* again, not by a later call, not by one that fails, and no power loss takes it away; where a
\* session outlives a failed add, up to the next_write_offset of the update.
THEOREM CommittedDataIsNeverRewritten == Spec => CompletedDataStays
<1>1. ASSUME CommitInv, DataInv, [Next]_vars, committed # None, NEW e \in committed.entries,
             data[e.unit] = e.file, KEEP_ON_ERROR => e.unit <= committed.next
      PROVE  data'[e.unit] = e.file
  <2>1. TypeOK /\ committed \in Table /\ e.unit \in Units
    BY <1>1 DEF CommitInv, TypeOK, OrNone, Table, Entries
  <2>2. e.unit <= committed.next
    BY <1>1 DEF DataInv, SessionEnds, UpTo
  <2> QED BY <1>1, <2>1, <2>2, DataBelowStays DEF DataInv
<1>2. CommitInv /\ DataInv /\ [Next]_vars =>
        [committed # None =>
           \A e \in committed.entries :
             /\ data[e.unit] = e.file
             /\ KEEP_ON_ERROR => e.unit <= committed.next
             => data'[e.unit] = e.file]_vars
  BY <1>1
<1> QED BY <1>2, DataInvariant, PTL DEF Spec, CompletedDataStays

-----------------------------------------------------------------------------
(***************************************************************************)
(* What the slots show when no two tables are equally long and the power   *)
(* stays on (slot_stale_table and slot_power are about the rest): a slot   *)
(* shows no entry that one before it does not, and none the session has    *)
(* not.                                                                    *)
(***************************************************************************)
DistinctLengths ==
  \A E, F \in SUBSET Entries : TableLength(E) = TableLength(F) => E = F

TablesFinite == \A i \in Slots : \A t \in mayTbl[i] : t # None => IsFiniteSet(t.entries)
SessionFinite == session # None => IsFiniteSet(session.entries)

InSession == session # None => \A i \in ValidSlots : TableOf(i).entries \subseteq session.entries

Nested == \A i, j \in ValidSlots : i < j => TableOf(j).entries \subseteq TableOf(i).entries

ChainInv == TablesFinite /\ SessionFinite /\ InSession /\ Nested

\* A step fills the slot it writes with the table of the session, or not at all.
LEMMA SlotsToCome ==
  ASSUME CommitInv, SessionEnds, DistinctLengths, ~ POWER_LOSS, [Next]_vars, NEW i \in ValidSlots'
  PROVE  \/ i \in ValidSlots /\ TableOf(i)' = TableOf(i)
         \/ /\ pc \in {"init", "header", "table"} /\ i = slot /\ session # None
            /\ TableOf(i)'.entries = session.entries
<1>1. /\ TypeOK /\ i \in Slots /\ Accepts(hdr'[i], tbl'[i])
  BY DEF CommitInv, ValidSlots, ValidIn
<1>2. ASSUME hdr'[i] = hdr[i], tbl'[i] = tbl[i]
      PROVE  i \in ValidSlots /\ TableOf(i)' = TableOf(i)
  BY <1>1, <1>2 DEF ValidSlots, ValidIn, TableOf
<1>3. /\ hdr \in [Slots -> OrNone(Header)] /\ tbl \in [Slots -> OrNone(Table)] /\ slot \in Slots
      /\ pc \in {"init", "header", "table"} => session \in Session /\ session # None
  BY <1>1 DEF TypeOK, Working, OrNone
<1>4. CASE InitHeader
  <2>1. CASE i # slot
    BY <1>2, <1>3, <1>4, <2>1 DEF InitHeader, PutHeader
  <2>2. CASE i = slot
    <3>1. hdr'[i] = [version |-> session.version, size |-> 0] /\ session.entries = {}
      BY <1>3, <1>4, <2>2 DEF InitHeader, PutHeader, SessionEnds
    <3>2. TableOf(i)'.entries = {}
      BY <3>1 DEF TableOf, readFilesTable
    <3> QED BY <1>3, <1>4, <2>2, <3>1, <3>2 DEF InitHeader
  <2> QED BY <2>1, <2>2
<1>5. CASE WriteHeader
  <2>1. CASE i # slot
    BY <1>2, <1>3, <1>5, <2>1 DEF WriteHeader, PutHeader
  <2>2. CASE i = slot
    <3>1. hdr'[i] = newHeader /\ tbl'[i] = tbl[i] /\ session \in Session /\ session # None
      BY <1>3, <1>5, <2>2 DEF WriteHeader, PutHeader
    <3>2. newHeader.size # 0 /\ newHeader.size = TableLength(session.entries)
      BY <1>1, <3>1, UpdateIsSound DEF newHeader
    <3>3. /\ tbl[i] # None /\ TableLength(tbl[i].entries) = TableLength(session.entries)
          /\ TableOf(i)' = tbl[i]
      BY <1>1, <3>1, <3>2 DEF Accepts, TableOf, readFilesTable
    <3>4. tbl[i].entries \in SUBSET Entries /\ session.entries \in SUBSET Entries
      BY <1>1, <1>3, <3>1, <3>3 DEF OrNone, Table, Session
    <3>5. tbl[i].entries = session.entries
      BY <3>3, <3>4 DEF DistinctLengths
    <3> QED BY <1>5, <2>2, <3>1, <3>3, <3>5 DEF WriteHeader
  <2> QED BY <2>1, <2>2
<1>6. CASE WriteTable
  <2>1. CASE i # slot
    BY <1>2, <1>3, <1>6, <2>1 DEF WriteTable
  <2>2. CASE i = slot
    <3>1. hdr'[i] = newHeader /\ tbl'[i] = newTable /\ session \in Session /\ session # None
      BY <1>3, <1>6, <2>2 DEF WriteTable, CommitInv, UpdateInSlots
    <3>2. newHeader.size # 0
      BY <1>1, <3>1, UpdateIsSound
    <3>3. TableOf(i)' = newTable
      BY <3>1, <3>2 DEF TableOf, readFilesTable
    <3> QED BY <1>6, <2>2, <3>1, <3>3 DEF WriteTable, newTable
  <2> QED BY <2>1, <2>2
<1>7. CASE Stop /\ Working
  <2>1. CASE TearHeader
    BY <1>1, <1>2, <1>3, <2>1 DEF TearHeader, Accepts
  <2>2. CASE TearTable
    <3>1. CASE i # slot
      BY <1>2, <1>3, <2>2, <3>1 DEF TearTable
    <3>2. CASE i = slot
      <4>1. hdr'[i] = newHeader /\ tbl'[i] = None /\ session # None
        BY <1>3, <2>2, <3>2 DEF TearTable, CommitInv, UpdateInSlots
      <4>2. newHeader.size # 0
        BY <1>1, <4>1, UpdateIsSound
      <4> QED BY <1>1, <4>1, <4>2 DEF Accepts
    <3> QED BY <3>1, <3>2
  <2>3. CASE TearData \/ UNCHANGED <<disk, may>>
    BY <1>2, <2>3 DEF TearData, disk
  <2> QED BY <1>7, <2>1, <2>2, <2>3 DEF Stop
<1>8. ASSUME NEW files, Create(files) PROVE FALSE
  BY <1>1, <1>8 DEF Create, Accepts
<1>9. CASE UNCHANGED <<hdr, tbl>>
  BY <1>2, <1>9
<1> QED BY <1>4, <1>5, <1>6, <1>7, <1>8, <1>9
        DEF Next, Add, Open, Close, CheckCapacity, RefuseCreate, AfterRefusal, InitSync, WriteFile,
            PrepareTable, SyncSlot, Complete, Kill, Fail, TableTooLarge, PowerLoss, vars, disk

\* Within a session the table in memory only grows.
LEMMA SessionGrows ==
  ASSUME TypeOK, [Next]_vars, session' # None
  PROVE  \/ Open \/ \E files \in Calls : Create(files)
         \/ /\ session # None /\ session.entries \subseteq session'.entries
            /\ session'.entries = session.entries \/ WriteFile
<1>1. session # None => session \in Session
  BY DEF TypeOK, OrNone
<1>2. CASE WriteFile
  <2>1. session \in Session /\ session # None
    BY <1>1, <1>2 DEF WriteFile, TypeOK, Working
  <2> QED BY <1>2, <2>1 DEF WriteFile, Session
<1>3. CASE PrepareTable
  <2>1. session \in Session /\ session # None
    BY <1>1, <1>3 DEF PrepareTable, TypeOK, Working
  <2>2. session'.entries = session.entries
    BY <1>3, <2>1 DEF PrepareTable, Session
  <2> QED BY <2>1, <2>2
<1>4. CASE Kill \/ Fail \/ TableTooLarge \/ PowerLoss
  <2>1. \/ session' = session
        \/ session' = [session EXCEPT !.next = cursor] /\ pc = "data"
    BY <1>4, StoppedSession
  <2>2. CASE session' = [session EXCEPT !.next = cursor] /\ pc = "data"
    <3>1. session \in Session /\ session # None
      BY <1>1, <2>2 DEF TypeOK, Working
    <3> QED BY <2>2, <3>1 DEF Session
  <2> QED BY <2>1, <2>2
<1>5. CASE session' \in {session, None}
  BY <1>5
<1> QED BY <1>2, <1>3, <1>4, <1>5
        DEF Next, Add, Close, CheckCapacity, RefuseCreate, AfterRefusal, InitHeader, InitSync,
            WriteHeader, WriteTable, SyncSlot, Complete, vars

LEMMA FiniteKept ==
  ASSUME CommitInv, TablesFinite, SessionFinite, [Next]_vars
  PROVE  TablesFinite' /\ SessionFinite'
<1>1. TypeOK
  BY DEF CommitInv
<1>2. ASSUME NEW i \in Slots, NEW t \in mayTbl'[i], t # None PROVE IsFiniteSet(t.entries)
  <2>1. CASE t \in mayTbl[i]
    BY <1>2, <2>1 DEF TablesFinite
  <2>2. CASE WriteTable /\ t = newTable
    BY <1>1, <2>2 DEF WriteTable, newTable, SessionFinite, TypeOK, Working
  <2> QED BY <1>1, <1>2, <2>1, <2>2, TablesToCome
<1>3. ASSUME session' # None PROVE IsFiniteSet(session'.entries)
  <2>1. CASE Open
    <3>1. CASE hdr[ActiveSlot].size = 0
      BY <2>1, <3>1, OpenedSession, FS_EmptySet
    <3>2. CASE hdr[ActiveSlot].size # 0
      BY <2>1, <3>2, OpenedSession DEF TablesFinite
    <3> QED BY <3>1, <3>2
  <2>2. ASSUME NEW files, Create(files) PROVE IsFiniteSet(session'.entries)
    BY <2>2, FS_EmptySet DEF Create
  <2>3. CASE session # None /\ session'.entries = session.entries
    BY <2>3 DEF SessionFinite
  <2>4. CASE session # None /\ WriteFile
    <3>1. session \in Session
      BY <1>1, <2>4 DEF TypeOK, OrNone
    <3>2. session'.entries = session.entries \cup {[file |-> Head(todo), unit |-> cursor + 1]}
      BY <2>4, <3>1 DEF WriteFile, Session
    <3>3. IsFiniteSet(session.entries)
      BY <2>4 DEF SessionFinite
    <3>4. IsFiniteSet(session.entries \cup {[file |-> Head(todo), unit |-> cursor + 1]})
      BY <3>3, FS_AddElement
    <3> QED BY <3>2, <3>4
  <2> QED BY <1>1, <1>3, <2>1, <2>2, <2>3, <2>4, SessionGrows
<1> QED BY <1>2, <1>3 DEF TablesFinite, SessionFinite

LEMMA ChainKept ==
  ASSUME CommitInv, SessionEnds, DistinctLengths, ~ POWER_LOSS, InSession, Nested, [Next]_vars
  PROVE  InSession' /\ Nested'
<1>1. TypeOK /\ ValidSlots \subseteq Slots /\ Slots \subseteq Int
  BY DEF CommitInv, ValidSlots, ValidIn, Slots, SLOT_COUNT
<1>2. ASSUME NEW i \in ValidSlots', NEW j \in ValidSlots', i < j
      PROVE  TableOf(j)'.entries \subseteq TableOf(i)'.entries
  <2> DEFINE Old(k) == k \in ValidSlots /\ TableOf(k)' = TableOf(k)
             New(k) == /\ pc \in {"init", "header", "table"} /\ k = slot /\ session # None
                       /\ TableOf(k)'.entries = session.entries
  <2>1. (Old(i) \/ New(i)) /\ (Old(j) \/ New(j))
    BY SlotsToCome
  <2>2. CASE Old(i) /\ Old(j)
    BY <1>2, <2>2 DEF Nested
  <2>3. CASE New(i) /\ Old(j)
    BY <2>3 DEF InSession
  <2>4. CASE Old(i) /\ New(j)
    <3>1. CASE pc = "init"
      BY <2>4, <3>1 DEF SessionEnds
    <3>2. CASE pc \in {"header", "table"}
      <4>1. hdr[i] = newHeader /\ tbl[i] = newTable
        BY <1>1, <1>2, <2>4, <3>2 DEF CommitInv, UpdateInSlots, Writing
      <4>2. newHeader.size # 0 /\ newTable.entries = session.entries
        BY <1>1, <2>4, UpdateIsSound DEF newTable
      <4>3. TableOf(i).entries = session.entries
        BY <4>1, <4>2 DEF TableOf, readFilesTable
      <4> QED BY <2>4, <4>3
    <3> QED BY <2>4, <3>1, <3>2
  <2>5. ~ (New(i) /\ New(j))
    BY <1>2, <1>1, SlotsToCome DEF TypeOK
  <2> QED BY <2>1, <2>2, <2>3, <2>4, <2>5
<1>3. ASSUME session' # None, NEW i \in ValidSlots'
      PROVE  TableOf(i)'.entries \subseteq session'.entries
  <2>1. CASE Open
    <3>1. i \in ValidSlots /\ TableOf(i)' = TableOf(i)
      BY <2>1 DEF Open, disk, ValidSlots, TableOf
    <3>2. ActiveSlot \in ValidSlots /\ ActiveSlot <= i
      BY <1>1, <3>1, FirstInIsMember DEF ActiveSlot
    <3>3. CASE ActiveSlot = i
      BY <2>1, <3>1, <3>3, OpenedSession
    <3>4. CASE ActiveSlot # i
      <4>1. ActiveSlot < i
        BY <1>1, <3>1, <3>2, <3>4
      <4> QED BY <2>1, <3>1, <3>2, <4>1, OpenedSession DEF Nested
    <3> QED BY <3>3, <3>4
  <2>2. ASSUME NEW files, Create(files) PROVE FALSE
    BY <1>3, <2>2 DEF Create, ValidSlots, ValidIn, Accepts
  <2>3. CASE session # None /\ session.entries \subseteq session'.entries
    <3>1. CASE i \in ValidSlots /\ TableOf(i)' = TableOf(i)
      BY <2>3, <3>1 DEF InSession
    <3>2. CASE TableOf(i)'.entries = session.entries
      BY <2>3, <3>2
    <3> QED BY <3>1, <3>2, SlotsToCome
  <2> QED BY <1>1, <1>3, <2>1, <2>2, <2>3, SessionGrows
<1> QED BY <1>2, <1>3 DEF InSession, Nested

\* Without a session that outlives a failed add, what is written lies behind all that is shown.
ShownReadable == \A i \in ValidSlots : Readable(TableOf(i).entries)
SessionReadable == session # None => Readable(session.entries)

LEMMA ReadableKept ==
  ASSUME CommitInv, SessionEnds, DistinctLengths, ~ POWER_LOSS, ~ KEEP_ON_ERROR, InSession,
         ShownReadable, SessionReadable, [Next]_vars
  PROVE  ShownReadable' /\ SessionReadable'
<1>1. /\ TypeOK /\ cursor \in Nat
      /\ \A e \in Entries : e.unit \in Units /\ e.unit \in Nat
      /\ session # None => session \in Session /\ session.entries \in SUBSET Entries
  BY SlotCommitAssumption DEF CommitInv, TypeOK, OrNone, Entries, Units, Session
<1>2. CASE \E files \in Calls : Create(files)
  <2>1. ValidSlots' = {}
    BY <1>2 DEF Create, ValidSlots, ValidIn, Accepts
  <2>2. session'.entries = {}
    BY <1>2 DEF Create
  <2> QED BY <2>1, <2>2 DEF ShownReadable, SessionReadable, Readable
<1>3. CASE ~ \E files \in Calls : Create(files)
  <2>1. ASSUME NEW E, session # None => E \in SUBSET session.entries, Readable(E)
        PROVE  \A e \in E : data'[e.unit] = e.file
    <3>1. CASE data' = data
      BY <2>1, <3>1 DEF Readable
    <3>2. CASE WriteFile \/ TearData
      <4>1. /\ session \in Session /\ session # None /\ pc = "data"
            /\ \A u \in Units : u # cursor + 1 => data'[u] = data[u]
        BY <1>1, <3>2 DEF WriteFile, TearData, TypeOK, Working
      <4>2. \A e \in session.entries : e.unit <= cursor
        BY <4>1 DEF SessionEnds, SessionEnd, UpTo
      <4>3. ASSUME NEW e \in E PROVE data'[e.unit] = e.file
        <5>1. e \in session.entries /\ e.unit \in Units /\ e.unit # cursor + 1
          BY <1>1, <2>1, <4>1, <4>2, <4>3
        <5> QED BY <2>1, <4>1, <5>1 DEF Readable
      <4> QED BY <4>3
    <3>3. data' = data \/ WriteFile \/ TearData
      BY <1>3
         DEF Next, Add, Open, Close, CheckCapacity, RefuseCreate, AfterRefusal, InitHeader,
                InitSync, PrepareTable, WriteHeader, WriteTable, SyncSlot, Complete, Kill, Fail,
                TableTooLarge, PowerLoss, Stop, TearHeader, TearTable, vars, disk, may
    <3> QED BY <3>1, <3>2, <3>3
  <2>2. ASSUME NEW i \in ValidSlots' PROVE Readable(TableOf(i).entries)'
    <3>1. CASE i \in ValidSlots /\ TableOf(i)' = TableOf(i)
      <4>1. Readable(TableOf(i).entries)
        BY <3>1 DEF ShownReadable
      <4>2. session # None => TableOf(i).entries \in SUBSET session.entries
        BY <3>1 DEF InSession
      <4> DEFINE E == TableOf(i).entries
      <4>3. E' = E
        BY <3>1
      <4>4. \A e \in E : data'[e.unit] = e.file
        BY <2>1, <4>1, <4>2 DEF Readable
      <4> QED BY <4>3, <4>4 DEF Readable
    <3>2. CASE session # None /\ TableOf(i)'.entries = session.entries
      <4>1. \A e \in session.entries : data'[e.unit] = e.file
        BY <2>1, <3>2 DEF SessionReadable, Readable
      <4> QED BY <3>2, <4>1 DEF Readable
    <3> QED BY <3>1, <3>2, SlotsToCome
  <2>3. ASSUME session' # None PROVE Readable(session.entries)'
    <3>1. CASE Open
      <4>1. ActiveSlot \in ValidSlots /\ data' = data /\ session'.entries = TableOf(ActiveSlot).entries
        BY <3>1, OpenedSession, FirstInIsMember DEF Open, disk, ActiveSlot, ValidSlots, ValidIn
      <4> QED BY <4>1 DEF ShownReadable, Readable
    <3>2. CASE session # None /\ session'.entries = session.entries
      <4>1. \A e \in session.entries : data'[e.unit] = e.file
        BY <2>1, <3>2 DEF SessionReadable, Readable
      <4> QED BY <3>2, <4>1 DEF Readable
    <3>3. CASE session # None /\ WriteFile
      <4> DEFINE entry == [file |-> Head(todo), unit |-> cursor + 1]
      <4>1. session'.entries = session.entries \cup {entry}
        BY <1>1, <3>3 DEF WriteFile, Session
      <4>2. data'[cursor + 1] = Head(todo)
        BY <1>1, <3>3, SlotCommitAssumption DEF WriteFile, TypeOK, Units
      <4>3. \A e \in session.entries : data'[e.unit] = e.file
        BY <2>1, <3>3 DEF SessionReadable, Readable
      <4>4. \A e \in session'.entries : data'[e.unit] = e.file
        BY <4>1, <4>2, <4>3
      <4> QED BY <4>4 DEF Readable
    <3> QED BY <1>1, <1>3, <2>3, <3>1, <3>2, <3>3, SessionGrows
  <2> QED BY <2>2, <2>3 DEF ShownReadable, SessionReadable
<1> QED BY <1>2, <1>3

LEMMA ChainInit ==
  ASSUME Init
  PROVE  ChainInv /\ ShownReadable /\ SessionReadable
<1>1. ValidSlots = {}
  BY DEF Init, ValidSlots, ValidIn, Accepts
<1> QED
  BY <1>1 DEF Init, ChainInv, TablesFinite, SessionFinite, InSession, Nested, ShownReadable,
              SessionReadable

LEMMA ChainInvariant ==
  ASSUME DistinctLengths, ~ POWER_LOSS
  PROVE  Spec => [](CommitInv /\ DataInv /\ ChainInv)
<1>1. CommitInv /\ DataInv /\ ChainInv /\ [Next]_vars => (CommitInv /\ DataInv /\ ChainInv)'
  BY DataInvKept, StepKeepsInv, FiniteKept, ChainKept DEF ChainInv, DataInv
<1> QED BY <1>1, CommitInit, DataInvInit, ChainInit, PTL DEF Spec

\* readMeta takes the first slot that opens and compares nothing.  However creates and adds are
\* killed or fail, in sessions that outlive a failed add too, no slot behind it shows a file it
\* does not show; that tables of equal length are equal is needed, for a slot may pair a header
\* with the table of another update.
THEOREM FirstValidSlotHoldsMost ==
  ASSUME DistinctLengths, ~ POWER_LOSS
  PROVE  Spec => []FirstValidHoldsMost
<1>1. ASSUME CommitInv, ChainInv PROVE FirstValidHoldsMost
  <2> SUFFICES ASSUME NEW i \in ValidSlots, NEW j \in ValidSlots, i < j
               PROVE  Cardinality(TableOf(j).entries) <= Cardinality(TableOf(i).entries)
    BY DEF FirstValidHoldsMost
  <2>1. TableOf(j).entries \subseteq TableOf(i).entries
    BY <1>1 DEF ChainInv, Nested
  <2>2. IsFiniteSet(TableOf(i).entries)
    <3>1. CASE hdr[i].size = 0
      BY <3>1, FS_EmptySet DEF TableOf, readFilesTable
    <3>2. CASE hdr[i].size # 0
      <4>1. TableOf(i) = tbl[i] /\ tbl[i] # None /\ tbl[i] \in mayTbl[i] /\ i \in Slots
        BY <1>1, <3>2 DEF TableOf, readFilesTable, ValidSlots, ValidIn, Accepts, CommitInv, TypeOK
      <4> QED BY <1>1, <4>1 DEF ChainInv, TablesFinite
    <3> QED BY <3>1, <3>2
  <2> QED BY <2>1, <2>2, FS_Subset
<1> QED BY <1>1, ChainInvariant, PTL

\* readMeta and extract: the offsets of every file an open shows name that file's own data, after
\* any kills and errors, when tables of equal length are equal, the power stays on and a session
\* ends with the add that failed.  slot_stale_table and slot_retry show that the first and the
\* last of these are needed.
THEOREM ShownFilesAreReadable ==
  ASSUME DistinctLengths, ~ POWER_LOSS, ~ KEEP_ON_ERROR
  PROVE  Spec => []VisibleFilesReadable
<1> DEFINE Inv == CommitInv /\ DataInv /\ ChainInv /\ ShownReadable /\ SessionReadable
<1>1. Inv /\ [Next]_vars => Inv'
  BY DataInvKept, StepKeepsInv, FiniteKept, ChainKept, ReadableKept DEF ChainInv, DataInv
<1>2. Init => Inv
  BY CommitInit, DataInvInit, ChainInit
<1>3. ASSUME Inv PROVE VisibleFilesReadable
  <2> SUFFICES ASSUME visible # None PROVE Readable(visible.entries)
    BY DEF VisibleFilesReadable
  <2>1. ValidSlots # {} /\ visible = TableOf(ActiveSlot)
    BY DEF visible, VisibleIn, ValidSlots, TableOf, ActiveSlot
  <2>2. ActiveSlot \in ValidSlots
    BY <2>1, FirstInIsMember DEF ActiveSlot, ValidSlots, ValidIn
  <2> QED BY <1>3, <2>1, <2>2 DEF ShownReadable
<1> QED BY <1>1, <1>2, <1>3, PTL DEF Spec

\* Every variable keeps its type, what is in the page cache is among the survivors of a power
\* loss, and a call at work has a session.
THEOREM TypeCorrect == Spec => []TypeOK
<1>1. CommitInv => TypeOK
  BY DEF CommitInv
<1> QED BY <1>1, CommitInvariant, PTL
=============================================================================
