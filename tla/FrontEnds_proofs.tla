-------------------------- MODULE FrontEnds_proofs --------------------------
(***************************************************************************)
(* For any directory, any room in a container, any number of operations    *)
(* and commands: the window has one owner for its FileManager and shows    *)
(* its files, a create spares what was there, and what either program      *)
(* reported as stored stays stored.                                        *)
(***************************************************************************)
EXTENDS FrontEnds, FiniteSetTheorems, SequenceTheorems, WellFoundedInduction, TLAPS

-----------------------------------------------------------------------------
(***************************************************************************)
(* What a FileManager may still have to do: the calls and their remainders.*)
(***************************************************************************)
AfterFile  == <<"writeAllSlots", "writeChunks", "writeFileTableToAllSlots", "copyBrowserViewer">>
AfterSlots == <<"writeChunks", "writeFileTableToAllSlots", "copyBrowserViewer">>
AfterWrite == <<"writeFileTableToAllSlots", "copyBrowserViewer">>
AfterTable == <<"copyBrowserViewer">>

OpenAdd  == <<"open", "readMeta", "writeChunks", "writeFileTableToAllSlots">>
MetaAdd  == <<"readMeta", "writeChunks", "writeFileTableToAllSlots">>
TableOnly == <<"writeFileTableToAllSlots">>
OpenRead == <<"open", "readMeta", "extract">>
MetaRead == <<"readMeta", "extract">>
Meta     == <<"readMeta">>

OfCreate  == {Create, AfterFile, AfterSlots, AfterWrite, AfterTable, <<>>}
OfOpen    == {Open, Meta, <<>>}
OfAdd     == {Add, TableOnly, <<>>}
OfExtract == {Read, <<>>}
OfCommand == {OpenAdd, MetaAdd, OpenRead, MetaRead}

StepLists == OfCreate \cup OfOpen \cup OfAdd \cup OfExtract \cup OfCommand

Unopened   == {Create, Open, OpenAdd, OpenRead}   \* the file is not open yet
Unread     == {Meta, MetaAdd, MetaRead}           \* it is, and its table is not read
Unwritten  == {AfterWrite, TableOnly}             \* the chunks are there, the table is not
OnlyReads  == {Open, Meta, OpenRead, MetaRead, Read}

-----------------------------------------------------------------------------
(***************************************************************************)
(* The invariant: types, the jobs, the window, the disk.                   *)
(***************************************************************************)
Managers == [name : Names \cup {0}, table : Seq(Nat), open : BOOLEAN]
Containers == [there : BOOLEAN, opens : BOOLEAN, table : Seq(Nat), data : [Places -> Nat]]
JobRecords ==
  [steps : StepLists, fm : Managers, file : Nat, outcome : {"none", "running", "ok", "error"}]

SessionTypes ==
  /\ dir \in [Names -> Containers]
  /\ jobs \in [Programs -> JobRecords]
  /\ exclusive \in BOOLEAN
  /\ reported \in SUBSET (Names \X Nat)
  /\ truncated \in SUBSET Names
  /\ shared \in SUBSET Names

GuiTypes ==
  /\ fileManager \in Managers
  /\ busy \in BOOLEAN /\ containerOpen \in BOOLEAN
  /\ list \in Seq(Nat)
  /\ call \in {"none", "create", "open", "add", "extract"}
  /\ queue \in Seq({"progress", "result"})
  /\ page \in {"start", "create", "files", "closed"}
  /\ waitingForOpen \in BOOLEAN /\ overlay \in BOOLEAN
  /\ ops \in Nat
  /\ addFailed \in BOOLEAN /\ overlapped \in BOOLEAN

CliTypes ==
  /\ command \in [cmd : {"none", "create", "add", "read"}, named : BOOLEAN, name : Names \cup {0}]
  /\ commands \in Nat
  /\ existed \in SUBSET Names

Types == SessionTypes /\ GuiTypes /\ CliTypes

\* How far a job has come and what its FileManager has in hand agree.
JobSound(job) ==
  /\ job.outcome = "none" => job = NoJob
  /\ job.outcome # "none" => job.fm.name \in Names
  /\ job.outcome \in {"ok", "error"} => job.steps = <<>>
  /\ job.outcome = "ok" => job.fm.open
  /\ job.outcome = "running" =>
       /\ job.fm.open <=> job.steps \notin Unopened
       /\ job.steps \in {Create, AfterFile, AfterSlots} => job.fm.table = <<>>
       /\ job.steps \in OnlyReads => job.file = 0
  /\ job.fm.open => dir[job.fm.name].there

JobsSound == \A p \in Programs : JobSound(jobs[p])

\* The list shows the files of fm, all of them unless an add has failed.
Shows(fm) == IsPrefix(list, fm.table) /\ (addFailed \/ list = fm.table)

\* The open container and the controller's account of it agree.
Accounted(fm) == containerOpen = (fm # NoManager) /\ fm.name = path

\* The result comes last, and only when there is one.
ResultLast ==
  \A i \in 1 .. Len(queue) :
    queue[i] = "result" => i = Len(queue) /\ jobs["gui"].outcome \in {"ok", "error"}

\* While the worker runs: what it was given, and what has become of the pages.
AtWork ==
  LET job == jobs["gui"] IN
  /\ job.outcome # "none"
  /\ ResultLast
  /\ call \in {"create", "open", "add", "extract"}
  /\ call = "create" => job.steps \in OfCreate /\ page \in {"create", "start"}
  /\ call = "create" /\ (overlay \/ page # "create") => overlapped
  /\ call = "open" => job.steps \in OfOpen /\ page = "start" /\ waitingForOpen
  /\ call = "add" => job.steps \in OfAdd /\ IsPrefix(list, job.fm.table)
  /\ call = "extract" => job.steps \in OfExtract /\ Shows(job.fm)
  /\ IF call \in {"add", "extract"}
     THEN page = "files" /\ fileManager = NoManager /\ containerOpen /\ job.fm.name = path /\ job.fm.open
     ELSE Accounted(fileManager) /\ Shows(fileManager)

AtRest ==
  /\ jobs["gui"] = NoJob /\ queue = <<>>
  /\ Accounted(fileManager) /\ Shows(fileManager)

GuiInv ==
  Alive =>
    /\ IF busy THEN AtWork ELSE AtRest
    /\ fileManager # NoManager => page = "files" \/ overlapped
    /\ overlay => page = "create"
    /\ waitingForOpen => page = "start" /\ busy /\ call = "open"

GuiGone == ~ Alive => ~ busy /\ ~ overlay /\ fileManager = NoManager /\ call = "none"

\* What is known of the command under way.
CliInv ==
  LET job == jobs["cli"] IN
  /\ command = NoCommand => job = NoJob /\ existed = {}
  /\ command # NoCommand /\ command.cmd = "create" /\ ~ command.named =>
       command.name \in Names \ existed
  /\ job.steps = Create => command.cmd = "create" /\ job.fm.name = command.name
  /\ command # NoCommand => command.name \in Names /\ command.cmd # "none"

-----------------------------------------------------------------------------
Holds(fm, n) == fm.open /\ fm.name = n

\* Nothing excuses the loss of a file of n.
Kept(n) == n \notin truncated /\ (exclusive \/ n \notin shared)

OneHolder(n) ==
  /\ \A p, q \in Programs : Holds(jobs[p].fm, n) /\ Holds(jobs[q].fm, n) => p = q
  /\ \A p \in Programs : ~ (Holds(jobs[p].fm, n) /\ Holds(fileManager, n))

\* The table of p's FileManager is the container's and what it has added.
TableRead(p) ==
  /\ jobs[p].steps \notin Unread
  /\ \/ jobs[p].outcome \in {"running", "ok"}
     \/ jobs[p].outcome = "error" /\ p = "gui" /\ call \in {"add", "extract"}

Extends(fm, n) == IsPrefix(dir[n].table, fm.table)

HoldersExtend(n) ==
  /\ \A p \in Programs : Holds(jobs[p].fm, n) /\ TableRead(p) => Extends(jobs[p].fm, n)
  /\ Holds(fileManager, n) => Extends(fileManager, n)

\* A job's file is where the steps it has taken have put it.
Filed(p, n) ==
  LET job == jobs[p] IN
  /\ job.steps \in Unwritten =>
       /\ Len(job.fm.table) \in Places
       /\ job.fm.table[Len(job.fm.table)] = job.file
       /\ dir[n].data[Len(job.fm.table)] = job.file
  /\ job.steps \in {AfterTable, <<>>} /\ job.file # 0 => Stored(n, job.file)
  /\ job.steps = AfterFile => \A r \in reported : r[1] # n

DiskInv ==
  /\ \A r \in reported : dir[r[1]].there
  /\ fileManager.open => dir[fileManager.name].there
  /\ \A n \in Names : Kept(n) =>
       /\ OneHolder(n)
       /\ HoldersExtend(n)
       /\ \A p \in Programs : Running(p) /\ Holds(jobs[p].fm, n) => Filed(p, n)
  /\ ReportedFilesStay

\* A FileManager the controller has is one with an open file.
ManagerOpen == fileManager # NoManager => fileManager.open /\ fileManager.name \in Names

FEInv == Types /\ JobsSound /\ GuiInv /\ GuiGone /\ CliInv /\ ManagerOpen /\ DiskInv

-----------------------------------------------------------------------------
(***************************************************************************)
(* Calls and their remainders.                                             *)
(***************************************************************************)
LEMMA HeadsAndTails ==
  /\ Create # <<>> /\ Head(Create) = "createContainerFile" /\ Tail(Create) = AfterFile
  /\ AfterFile # <<>> /\ Head(AfterFile) = "writeAllSlots" /\ Tail(AfterFile) = AfterSlots
  /\ AfterSlots # <<>> /\ Head(AfterSlots) = "writeChunks" /\ Tail(AfterSlots) = AfterWrite
  /\ AfterWrite # <<>> /\ Head(AfterWrite) = "writeFileTableToAllSlots"
  /\ Tail(AfterWrite) = AfterTable
  /\ AfterTable # <<>> /\ Head(AfterTable) = "copyBrowserViewer" /\ Tail(AfterTable) = <<>>
  /\ Open # <<>> /\ Head(Open) = "open" /\ Tail(Open) = Meta
  /\ OpenAdd # <<>> /\ Head(OpenAdd) = "open" /\ Tail(OpenAdd) = MetaAdd
  /\ OpenRead # <<>> /\ Head(OpenRead) = "open" /\ Tail(OpenRead) = MetaRead
  /\ Meta # <<>> /\ Head(Meta) = "readMeta" /\ Tail(Meta) = <<>>
  /\ MetaAdd # <<>> /\ Head(MetaAdd) = "readMeta" /\ Tail(MetaAdd) = Add
  /\ MetaRead # <<>> /\ Head(MetaRead) = "readMeta" /\ Tail(MetaRead) = Read
  /\ Add # <<>> /\ Head(Add) = "writeChunks" /\ Tail(Add) = TableOnly
  /\ TableOnly # <<>> /\ Head(TableOnly) = "writeFileTableToAllSlots" /\ Tail(TableOnly) = <<>>
  /\ Read # <<>> /\ Head(Read) = "extract" /\ Tail(Read) = <<>>
BY DEF Create, AfterFile, AfterSlots, AfterWrite, AfterTable, Open, OpenAdd, OpenRead, Meta,
       MetaAdd, MetaRead, Add, TableOnly, Read

\* Which step comes next tells the list, and what is left after it.
LEMMA StepTaken ==
  ASSUME NEW s \in StepLists, s # <<>>
  PROVE  /\ Head(s) = "createContainerFile" => s = Create /\ Tail(s) = AfterFile
         /\ Head(s) = "writeAllSlots" => s = AfterFile /\ Tail(s) = AfterSlots
         /\ Head(s) = "writeChunks" =>
              \/ s = AfterSlots /\ Tail(s) = AfterWrite
              \/ s = Add /\ Tail(s) = TableOnly
         /\ Head(s) = "writeFileTableToAllSlots" =>
              \/ s = AfterWrite /\ Tail(s) = AfterTable
              \/ s = TableOnly /\ Tail(s) = <<>>
         /\ Head(s) = "copyBrowserViewer" => s = AfterTable /\ Tail(s) = <<>>
         /\ Head(s) = "open" =>
              \/ s = Open /\ Tail(s) = Meta
              \/ s = OpenAdd /\ Tail(s) = MetaAdd
              \/ s = OpenRead /\ Tail(s) = MetaRead
         /\ Head(s) = "readMeta" =>
              \/ s = Meta /\ Tail(s) = <<>>
              \/ s = MetaAdd /\ Tail(s) = Add
              \/ s = MetaRead /\ Tail(s) = Read
         /\ Head(s) = "extract" => s = Read /\ Tail(s) = <<>>
<1>1. s \in {Create, AfterFile, AfterSlots, AfterWrite, AfterTable, Open, Meta, Add, TableOnly,
             Read, OpenAdd, MetaAdd, OpenRead, MetaRead}
  BY DEF StepLists, OfCreate, OfOpen, OfAdd, OfExtract, OfCommand
<1> QED BY <1>1, HeadsAndTails

LEMMA Lengths ==
  /\ Len(Create) = 5 /\ Len(AfterFile) = 4 /\ Len(AfterSlots) = 3 /\ Len(AfterWrite) = 2
  /\ Len(AfterTable) = 1 /\ Len(Open) = 2 /\ Len(OpenAdd) = 4 /\ Len(OpenRead) = 3
  /\ Len(Meta) = 1 /\ Len(MetaAdd) = 3 /\ Len(MetaRead) = 2 /\ Len(Add) = 2
  /\ Len(TableOnly) = 1 /\ Len(Read) = 1 /\ Len(<<>>) = 0
BY DEF Create, AfterFile, AfterSlots, AfterWrite, AfterTable, Open, OpenAdd, OpenRead, Meta,
       MetaAdd, MetaRead, Add, TableOnly, Read

\* The lists of one kind are not of another.
LEMMA KindsOfLists ==
  /\ \A s \in {<<>>, AfterTable} : s \notin Unopened \cup Unread \cup Unwritten \cup OnlyReads
  /\ \A s \in {AfterFile, AfterSlots} : s \notin Unopened \cup Unread \cup Unwritten \cup OnlyReads
  /\ AfterFile # AfterSlots /\ AfterTable # <<>>
  /\ \A s \in {Add, TableOnly, AfterWrite} : s \notin Unopened \cup Unread \cup OnlyReads
  /\ Add \notin Unwritten /\ Read \notin Unopened \cup Unread \cup Unwritten
  /\ \A s \in Unwritten \cup {Add, Read} : s \notin {Create, AfterFile, AfterSlots, AfterTable, <<>>}
  /\ \A s \in Unread : s \notin Unopened \cup Unwritten \cup {AfterFile, AfterSlots, AfterTable, <<>>}
  /\ \A s \in Unopened : s \notin Unwritten \cup {AfterFile, AfterSlots, AfterTable, <<>>, Add, Read}
  /\ MetaAdd \notin OnlyReads /\ OpenAdd \notin OnlyReads
  /\ Create \notin OnlyReads /\ Create \notin Unread \cup {Open, OpenAdd, OpenRead}
<1>1. \A s \in {<<>>, AfterTable} : s \notin Unopened \cup Unread \cup Unwritten \cup OnlyReads
  BY HeadsAndTails, Lengths DEF Unopened, Unread, Unwritten, OnlyReads
<1>2. \A s \in {AfterFile, AfterSlots} : s \notin Unopened \cup Unread \cup Unwritten \cup OnlyReads
  BY HeadsAndTails, Lengths DEF Unopened, Unread, Unwritten, OnlyReads
<1>3. AfterFile # AfterSlots /\ AfterTable # <<>>
  BY HeadsAndTails
<1>4. \A s \in {Add, TableOnly, AfterWrite} : s \notin Unopened \cup Unread \cup OnlyReads
  BY HeadsAndTails, Lengths DEF Unopened, Unread, OnlyReads
<1>5. Add \notin Unwritten /\ Read \notin Unopened \cup Unread \cup Unwritten
  BY HeadsAndTails, Lengths DEF Unopened, Unread, Unwritten
<1>6. \A s \in Unwritten \cup {Add, Read} : s \notin {Create, AfterFile, AfterSlots, AfterTable, <<>>}
  BY HeadsAndTails, Lengths DEF Unwritten
<1>7. \A s \in Unread : s \notin Unopened \cup Unwritten \cup {AfterFile, AfterSlots, AfterTable, <<>>}
  BY HeadsAndTails, Lengths DEF Unopened, Unread, Unwritten
<1>8. \A s \in Unopened : s \notin Unwritten \cup {AfterFile, AfterSlots, AfterTable, <<>>, Add, Read}
  BY HeadsAndTails, Lengths DEF Unopened, Unwritten
<1>9. MetaAdd \notin OnlyReads /\ OpenAdd \notin OnlyReads
  BY HeadsAndTails, Lengths DEF OnlyReads
<1>10. Create \notin OnlyReads /\ Create \notin Unread \cup {Open, OpenAdd, OpenRead}
  BY HeadsAndTails, Lengths DEF OnlyReads, Unread
<1> QED BY <1>1, <1>2, <1>3, <1>4, <1>5, <1>6, <1>7, <1>8, <1>9, <1>10

\* No two of the lists are the same.
LEMMA AllDifferent ==
  /\ Create \notin {AfterFile, AfterSlots, AfterWrite, AfterTable, Open, OpenAdd, OpenRead,
                   Meta, MetaAdd, MetaRead, Add, TableOnly, Read, <<>>}
  /\ AfterFile \notin {AfterSlots, AfterWrite, AfterTable, Open, OpenAdd, OpenRead, Meta,
                   MetaAdd, MetaRead, Add, TableOnly, Read, <<>>}
  /\ AfterSlots \notin {AfterWrite, AfterTable, Open, OpenAdd, OpenRead, Meta, MetaAdd,
                   MetaRead, Add, TableOnly, Read, <<>>}
  /\ AfterWrite \notin {AfterTable, Open, OpenAdd, OpenRead, Meta, MetaAdd, MetaRead, Add,
                   TableOnly, Read, <<>>}
  /\ AfterTable \notin {Open, OpenAdd, OpenRead, Meta, MetaAdd, MetaRead, Add, TableOnly, Read,
                   <<>>}
  /\ Open \notin {OpenAdd, OpenRead, Meta, MetaAdd, MetaRead, Add, TableOnly, Read, <<>>}
  /\ OpenAdd \notin {OpenRead, Meta, MetaAdd, MetaRead, Add, TableOnly, Read, <<>>}
  /\ OpenRead \notin {Meta, MetaAdd, MetaRead, Add, TableOnly, Read, <<>>}
  /\ Meta \notin {MetaAdd, MetaRead, Add, TableOnly, Read, <<>>}
  /\ MetaAdd \notin {MetaRead, Add, TableOnly, Read, <<>>}
  /\ MetaRead \notin {Add, TableOnly, Read, <<>>}
  /\ Add \notin {TableOnly, Read, <<>>}
  /\ TableOnly \notin {Read, <<>>}
  /\ Read \notin {<<>>}
BY HeadsAndTails, Lengths

\* What remains of a list after its first step.
Remains(s) ==
  /\ Tail(s) \in StepLists /\ Tail(s) \notin Unopened
  /\ Tail(s) \in {AfterFile, AfterSlots} => s \in {Create, AfterFile}
  /\ Tail(s) = AfterFile => s = Create
  /\ Tail(s) \in Unread => s \in {Open, OpenAdd, OpenRead}
  /\ Tail(s) \in Unwritten => s \in {AfterSlots, Add}
  /\ Tail(s) \in {AfterTable, <<>>} => s \in {AfterWrite, TableOnly, AfterTable} \cup OnlyReads
  /\ Tail(s) \in OnlyReads => s \in OnlyReads
  /\ s \in OfCreate => Tail(s) \in OfCreate
  /\ s \in OfOpen => Tail(s) \in OfOpen
  /\ s \in OfAdd => Tail(s) \in OfAdd
  /\ s \in OfExtract => Tail(s) \in OfExtract

LEMMA Remainders ==
  ASSUME NEW s \in StepLists, s # <<>>
  PROVE  Remains(s)
<1> USE HeadsAndTails, AllDifferent DEF Remains, StepLists, OfCreate, OfOpen, OfAdd, OfExtract,
      OfCommand, Unopened, Unread, Unwritten, OnlyReads
<1>1. CASE s = Create
  BY <1>1
<1>2. CASE s = AfterFile
  BY <1>2
<1>3. CASE s = AfterSlots
  BY <1>3
<1>4. CASE s = AfterWrite
  BY <1>4
<1>5. CASE s = AfterTable
  BY <1>5
<1>6. CASE s = Open
  BY <1>6
<1>7. CASE s = OpenAdd
  BY <1>7
<1>8. CASE s = OpenRead
  BY <1>8
<1>9. CASE s = Meta
  BY <1>9
<1>10. CASE s = MetaAdd
  BY <1>10
<1>11. CASE s = MetaRead
  BY <1>11
<1>12. CASE s = Add
  BY <1>12
<1>13. CASE s = TableOnly
  BY <1>13
<1>14. CASE s = Read
  BY <1>14
<1> QED BY <1>1, <1>2, <1>3, <1>4, <1>5, <1>6, <1>7, <1>8, <1>9, <1>10, <1>11, <1>12, <1>13, <1>14

-----------------------------------------------------------------------------
(***************************************************************************)
(* Prefixes.                                                               *)
(***************************************************************************)
LEMMA PrefixIs ==
  ASSUME NEW s \in Seq(Nat), NEW t \in Seq(Nat)
  PROVE  IsPrefix(s, t) <=> Len(s) <= Len(t) /\ \A i \in 1 .. Len(s) : s[i] = t[i]
<1>1. CASE Len(s) <= Len(t)
  <2>1. SubSeq(s, 1, Len(s)) = [i \in 1 .. Len(s) |-> s[i]]
    OBVIOUS
  <2>2. SubSeq(t, 1, Len(s)) = [i \in 1 .. Len(s) |-> t[i]]
    BY <1>1
  <2> QED BY <1>1, <2>1, <2>2 DEF IsPrefix
<1>2. CASE ~ (Len(s) <= Len(t))
  BY <1>2 DEF IsPrefix
<1> QED BY <1>1, <1>2

LEMMA Prefixes1 ==
  ASSUME NEW s \in Seq(Nat), NEW t \in Seq(Nat)
  PROVE  /\ IsPrefix(s, s) /\ IsPrefix(<<>>, s)
         /\ IsPrefix(s, <<>>) => s = <<>>
         /\ \A x \in Nat : IsPrefix(s, t) => IsPrefix(s, Append(t, x))
<1>1. IsPrefix(s, s) /\ IsPrefix(<<>>, s)
  <2>1. <<>> \in Seq(Nat) /\ Len(<<>>) = 0 /\ Len(s) \in Nat
    OBVIOUS
  <2>2. IsPrefix(s, s)
    BY <2>1, PrefixIs
  <2>3. IsPrefix(<<>>, s) <=> 0 <= Len(s) /\ \A i \in 1 .. 0 : <<>>[i] = s[i]
    BY <2>1, PrefixIs
  <2> QED BY <2>1, <2>2, <2>3
<1>2. ASSUME IsPrefix(s, <<>>) PROVE s = <<>>
  <2>1. Len(s) <= Len(<<>>)
    BY <1>2 DEF IsPrefix
  <2> QED BY <2>1
<1>3. ASSUME NEW x \in Nat, IsPrefix(s, t) PROVE IsPrefix(s, Append(t, x))
  <2>1. Len(s) <= Len(t) /\ \A i \in 1 .. Len(s) : s[i] = t[i]
    BY <1>3, PrefixIs
  <2>2. Append(t, x) \in Seq(Nat) /\ Len(Append(t, x)) = Len(t) + 1
        /\ \A i \in 1 .. Len(t) : Append(t, x)[i] = t[i]
    OBVIOUS
  <2>3. Len(s) <= Len(t) + 1 /\ \A i \in 1 .. Len(s) : s[i] = Append(t, x)[i]
    BY <2>1, <2>2
  <2> HIDE <2>1
  <2> QED BY <2>2, <2>3, PrefixIs
<1> QED BY <1>1, <1>2, <1>3

LEMMA LeastOne ==
  ASSUME NEW S \in SUBSET Nat, S # {}
  PROVE  \E n \in S : \A m \in S : n <= m
<1>1. \E n \in S : \A m \in S : ~ (<<m, n>> \in OpToRel(<, Nat))
  BY NatLessThanWellFounded, WFMin
<1>2. \A m, n \in Nat : m < n => <<m, n>> \in OpToRel(<, Nat)
  BY DEF OpToRel
<1>3. PICK n \in S : \A m \in S : ~ (<<m, n>> \in OpToRel(<, Nat))
  BY <1>1
<1>4. ASSUME NEW m \in S PROVE n <= m
  <2>1. m \in Nat /\ n \in Nat /\ ~ (m < n)
    BY <1>2, <1>3
  <2> QED BY <2>1
<1> QED BY <1>4

\* The name a create without --name settles on is free.
LEMMA NextIsFree ==
  nextAvailableContainerPath # 0 =>
    nextAvailableContainerPath \in Names /\ ~ dir[nextAvailableContainerPath].there
<1> DEFINE free == {n \in Names : ~ dir[n].there}
<1>1. CASE free = {}
  BY <1>1 DEF nextAvailableContainerPath
<1>2. CASE free # {}
  <2>1. free \in SUBSET Nat
    BY SessionsAssumption DEF Names
  <2>2. \E n \in free : \A m \in free : n <= m
    BY <1>2, <2>1, LeastOne
  <2>3. nextAvailableContainerPath = CHOOSE n \in free : \A m \in free : n <= m
    BY <1>2 DEF nextAvailableContainerPath
  <2> QED BY <2>2, <2>3
<1> QED BY <1>1, <1>2

-----------------------------------------------------------------------------
(***************************************************************************)
(* One step of a job.                                                      *)
(***************************************************************************)
LEMMA Proceeds ==
  ASSUME SessionTypes, NEW p \in Programs, NEW fm \in Managers, jobs[p].steps # <<>>,
         Proceed(p, fm)
  PROVE  /\ jobs' \in [Programs -> JobRecords]
         /\ \A q \in Programs : q # p => jobs'[q] = jobs[q]
         /\ jobs'[p].steps = Tail(jobs[p].steps) /\ jobs'[p].fm = fm
         /\ jobs'[p].file = jobs[p].file /\ jobs'[p].outcome = jobs[p].outcome
<1>1. jobs[p] \in JobRecords /\ jobs[p].steps \in StepLists
  BY DEF SessionTypes, JobRecords
<1>2. Tail(jobs[p].steps) \in StepLists
  <2>1. jobs[p].steps \in {Create, AfterFile, AfterSlots, AfterWrite, AfterTable, Open, Meta, Add,
                           TableOnly, Read, OpenAdd, MetaAdd, OpenRead, MetaRead}
    BY <1>1 DEF StepLists, OfCreate, OfOpen, OfAdd, OfExtract, OfCommand
  <2>2. Tail(jobs[p].steps) \in {AfterFile, AfterSlots, AfterWrite, AfterTable, <<>>, Meta, MetaAdd,
                                 MetaRead, Add, Read, TableOnly}
    BY <2>1, HeadsAndTails
  <2> QED BY <2>2 DEF StepLists, OfCreate, OfOpen, OfAdd, OfExtract, OfCommand
<1>3. jobs' = [jobs EXCEPT ![p] = [jobs[p] EXCEPT !.steps = Tail(jobs[p].steps), !.fm = fm]]
  BY DEF Proceed, SessionTypes
<1>4. [jobs[p] EXCEPT !.steps = Tail(jobs[p].steps), !.fm = fm] \in JobRecords
  BY <1>1, <1>2 DEF JobRecords
<1> QED BY <1>1, <1>3, <1>4 DEF SessionTypes, JobRecords

LEMMA Throws ==
  ASSUME SessionTypes, NEW p \in Programs, NEW fm \in Managers, Throw(p, fm)
  PROVE  /\ jobs' \in [Programs -> JobRecords]
         /\ \A q \in Programs : q # p => jobs'[q] = jobs[q]
         /\ jobs'[p].steps = <<>> /\ jobs'[p].fm = fm
         /\ jobs'[p].file = jobs[p].file /\ jobs'[p].outcome = "error"
<1>1. jobs[p] \in JobRecords
  BY DEF SessionTypes
<1>3. jobs' = [jobs EXCEPT ![p] = [jobs[p] EXCEPT !.steps = <<>>, !.fm = fm, !.outcome = "error"]]
  BY DEF Throw, SessionTypes
<1>4. [jobs[p] EXCEPT !.steps = <<>>, !.fm = fm, !.outcome = "error"] \in JobRecords
  BY <1>1 DEF JobRecords, StepLists, OfCreate
<1> QED BY <1>1, <1>3, <1>4 DEF SessionTypes, JobRecords

\* A step of p's job changes nothing of the others and, on disk, only p's container.
JobMoves(p) ==
  LET old == jobs[p]  new == jobs'[p]  n == jobs[p].fm.name IN
  /\ old.outcome = "running"
  /\ \A q \in Programs : q # p => jobs'[q] = jobs[q]
  /\ new.fm.name = old.fm.name /\ (old.fm.open => new.fm.open) /\ new.file = old.file
  /\ \/ new.outcome = "running" /\ old.steps # <<>> /\ new.steps = Tail(old.steps)
        /\ new.fm.open /\ (Head(old.steps) \notin {"createContainerFile", "open"} => old.fm.open)
     \/ new.outcome = "error" /\ new.steps = <<>>
     \/ new.outcome = "ok" /\ old.steps = <<>> /\ new.steps = <<>> /\ new.fm = old.fm
     \/ new = old /\ old.steps \in {AfterSlots, Add, Read} /\ old.fm.open
  /\ \/ new.fm.table = old.fm.table
     \/ /\ old.steps \in {AfterSlots, Add} /\ new.outcome = "running"
        /\ new.fm.table = Append(old.fm.table, old.file)
     \/ old.steps \in Unread /\ new.outcome = "running" /\ new.fm.table = dir[n].table
  /\ \A m \in Names : (dir[m].there => dir'[m].there) /\ (m # n => dir'[m] = dir[m])
  /\ new.fm.open => dir'[n].there
  /\ UNCHANGED exclusive

LEMMA JobFields ==
  ASSUME SessionTypes, NEW p \in Programs
  PROVE  /\ jobs[p] \in JobRecords /\ jobs[p].steps \in StepLists /\ jobs[p].fm \in Managers
         /\ jobs[p].file \in Nat
         /\ jobs[p].fm.table \in Seq(Nat) /\ jobs[p].fm.name \in Names \cup {0}
         /\ [jobs[p].fm EXCEPT !.open = TRUE] \in Managers
         /\ \A t \in Seq(Nat) : [jobs[p].fm EXCEPT !.table = t] \in Managers
BY DEF SessionTypes, JobRecords, Managers

LEMMA Containers1 ==
  ASSUME SessionTypes, NEW n \in Names
  PROVE  /\ dir[n] \in Containers /\ dir[n].table \in Seq(Nat)
         /\ [NoFile EXCEPT !.there = TRUE] \in Containers
         /\ \A t \in Seq(Nat) : [dir[n] EXCEPT !.opens = TRUE, !.table = t] \in Containers
         /\ \A i \in Places, f \in Nat : [dir[n] EXCEPT !.data[i] = f] \in Containers
<1>1. dir[n] \in Containers /\ dir[n].table \in Seq(Nat) /\ dir[n].data \in [Places -> Nat]
  BY DEF SessionTypes, Containers
<1>2. [NoFile EXCEPT !.there = TRUE] \in Containers
  <2>1. Empty \in [Places -> Nat] /\ <<>> \in Seq(Nat)
    BY DEF Empty
  <2> QED BY <2>1 DEF Containers, NoFile
<1>3. ASSUME NEW t \in Seq(Nat)
      PROVE  [dir[n] EXCEPT !.opens = TRUE, !.table = t] \in Containers
  BY <1>1 DEF Containers
<1>4. ASSUME NEW i \in Places, NEW f \in Nat PROVE [dir[n] EXCEPT !.data[i] = f] \in Containers
  BY <1>1 DEF Containers
<1> QED BY <1>1, <1>2, <1>3, <1>4

\* The file a running job works on is a name of the directory, and there once it is open.
LEMMA JobHolds ==
  ASSUME SessionTypes, JobsSound, NEW p \in Programs, Running(p)
  PROVE  /\ jobs[p].fm.name \in Names
         /\ jobs[p].fm.open <=> jobs[p].steps \notin Unopened
         /\ jobs[p].fm.open => dir[jobs[p].fm.name].there
         /\ jobs[p].steps \in {Create, AfterFile, AfterSlots} => jobs[p].fm.table = <<>>
BY DEF JobsSound, JobSound, Running

LEMMA MovesCreateContainerFile ==
  ASSUME SessionTypes, JobsSound, NEW p \in Programs, NEW kept, CreateContainerFile(p, kept)
  PROVE  SessionTypes' /\ JobMoves(p)
<1> DEFINE n == jobs[p].fm.name
<1>1. /\ Running(p) /\ jobs[p].steps # <<>> /\ Head(jobs[p].steps) = "createContainerFile"
      /\ jobs[p].outcome = "running"
  BY DEF CreateContainerFile, At, Running
<1>2. jobs[p].steps = Create /\ n \in Names
  BY <1>1, JobFields, JobHolds, StepTaken
<1>3. dir \in [Names -> Containers] /\ truncated \in SUBSET Names /\ shared \in SUBSET Names
  BY DEF SessionTypes
<1>4. UNCHANGED <<exclusive, reported>>
  BY DEF CreateContainerFile
<1>5. /\ dir' \in [Names -> Containers] /\ truncated' \in SUBSET Names /\ shared' \in SUBSET Names
      /\ \A m \in Names : (dir[m].there => dir'[m].there) /\ (m # n => dir'[m] = dir[m])
  <2>1. CASE UNCHANGED <<dir, truncated, shared>>
    BY <2>1, <1>3
  <2>2. CASE /\ dir' = [dir EXCEPT ![n] = [NoFile EXCEPT !.there = TRUE]]
             /\ truncated' = IF dir[n].there THEN truncated \cup {n} ELSE truncated
             /\ shared' = IF Holders(n, kept) # {} THEN shared \cup {n} ELSE shared
    <3>1. dir' \in [Names -> Containers] /\ dir'[n].there
      BY <2>2, <1>2, <1>3, Containers1 DEF NoFile
    <3> QED BY <3>1, <2>2, <1>2, <1>3
  <2> QED BY <2>1, <2>2 DEF CreateContainerFile, Target
<1>6. CASE Throw(p, jobs[p].fm)
  <2>1. /\ jobs' \in [Programs -> JobRecords] /\ \A q \in Programs : q # p => jobs'[q] = jobs[q]
        /\ jobs'[p].steps = <<>> /\ jobs'[p].fm = jobs[p].fm
        /\ jobs'[p].file = jobs[p].file /\ jobs'[p].outcome = "error"
    BY <1>6, JobFields, Throws
  <2>2. jobs[p].fm.open => dir'[n].there
    BY <1>1, <1>2, <1>5, JobHolds
  <2> QED BY <1>1, <1>4, <1>5, <2>1, <2>2 DEF SessionTypes, JobMoves
<1>7. CASE ~ Throw(p, jobs[p].fm)
  <2> DEFINE fm == [jobs[p].fm EXCEPT !.open = TRUE]
  <2>1. fm \in Managers /\ fm.open /\ fm.name = n /\ fm.table = jobs[p].fm.table
    BY JobFields DEF Managers
  <2>2. dir'[n].there
    <3>1. dir' = [dir EXCEPT ![n] = [NoFile EXCEPT !.there = TRUE]]
      BY <1>7 DEF CreateContainerFile, Target
    <3> QED BY <3>1, <1>2, <1>3 DEF NoFile
  <2>3. Proceed(p, fm) \/ Throw(p, fm)
    BY <1>7 DEF CreateContainerFile
  <2> HIDE DEF fm
  <2>4. CASE Proceed(p, fm)
    <3>1. /\ jobs' \in [Programs -> JobRecords] /\ \A q \in Programs : q # p => jobs'[q] = jobs[q]
          /\ jobs'[p].steps = Tail(jobs[p].steps) /\ jobs'[p].fm = fm
          /\ jobs'[p].file = jobs[p].file /\ jobs'[p].outcome = jobs[p].outcome
      BY <2>4, <2>1, <1>1, Proceeds
    <3> QED BY <1>1, <1>4, <1>5, <2>1, <2>2, <3>1 DEF SessionTypes, JobMoves
  <2>5. CASE Throw(p, fm)
    <3>1. /\ jobs' \in [Programs -> JobRecords] /\ \A q \in Programs : q # p => jobs'[q] = jobs[q]
          /\ jobs'[p].steps = <<>> /\ jobs'[p].fm = fm
          /\ jobs'[p].file = jobs[p].file /\ jobs'[p].outcome = "error"
      BY <2>5, <2>1, Throws
    <3> QED BY <1>1, <1>4, <1>5, <2>1, <2>2, <3>1 DEF SessionTypes, JobMoves
  <2> QED BY <2>3, <2>4, <2>5
<1> QED BY <1>6, <1>7

\* What a step that changes one container leaves of the directory.
DirMoves(n) == \A m \in Names : (dir[m].there => dir'[m].there) /\ (m # n => dir'[m] = dir[m])

LEMMA Moves ==
  ASSUME SessionTypes, NEW p \in Programs, Running(p), jobs[p].steps # <<>>, NEW fm \in Managers,
         fm.name = jobs[p].fm.name, jobs[p].fm.open => fm.open, Proceed(p, fm) \/ Throw(p, fm),
         Throw(p, fm) => fm.table = jobs[p].fm.table,
         Proceed(p, fm) =>
           /\ fm.open /\ (Head(jobs[p].steps) \notin {"createContainerFile", "open"} => jobs[p].fm.open)
           /\ \/ fm.table = jobs[p].fm.table
              \/ /\ jobs[p].steps \in {AfterSlots, Add}
                 /\ fm.table = Append(jobs[p].fm.table, jobs[p].file)
              \/ jobs[p].steps \in Unread /\ fm.table = dir[fm.name].table,
         dir' \in [Names -> Containers], truncated' \in SUBSET Names, shared' \in SUBSET Names,
         UNCHANGED <<exclusive, reported>>, DirMoves(fm.name), fm.open => dir'[fm.name].there
  PROVE  SessionTypes' /\ JobMoves(p)
<1>1. CASE Proceed(p, fm)
  <2>1. /\ jobs' \in [Programs -> JobRecords] /\ \A q \in Programs : q # p => jobs'[q] = jobs[q]
        /\ jobs'[p].steps = Tail(jobs[p].steps) /\ jobs'[p].fm = fm
        /\ jobs'[p].file = jobs[p].file /\ jobs'[p].outcome = jobs[p].outcome
    BY <1>1, Proceeds
  <2>2. SessionTypes'
    BY <2>1 DEF SessionTypes
  <2> QED BY <1>1, <2>1, <2>2 DEF JobMoves, DirMoves, Running
<1>2. CASE Throw(p, fm)
  <2>1. /\ jobs' \in [Programs -> JobRecords] /\ \A q \in Programs : q # p => jobs'[q] = jobs[q]
        /\ jobs'[p].steps = <<>> /\ jobs'[p].fm = fm
        /\ jobs'[p].file = jobs[p].file /\ jobs'[p].outcome = "error"
    BY <1>2, Throws
  <2>2. SessionTypes'
    BY <2>1 DEF SessionTypes
  <2> QED BY <1>2, <2>1, <2>2 DEF JobMoves, DirMoves, Running
<1> QED BY <1>1, <1>2

LEMMA MovesWriteAllSlots ==
  ASSUME SessionTypes, JobsSound, NEW p \in Programs, WriteAllSlots(p)
  PROVE  SessionTypes' /\ JobMoves(p)
<1> DEFINE n == jobs[p].fm.name  fm == jobs[p].fm
<1>1. Running(p) /\ jobs[p].steps # <<>> /\ Head(jobs[p].steps) = "writeAllSlots"
  BY DEF WriteAllSlots, At
<1>2. jobs[p].steps = AfterFile /\ n \in Names /\ fm.open /\ dir[n].there
  BY <1>1, JobFields, JobHolds, StepTaken, KindsOfLists
<1>3. dir' \in [Names -> Containers] /\ DirMoves(n)
  <2>1. CASE UNCHANGED dir
    BY <2>1 DEF SessionTypes, DirMoves
  <2>2. CASE dir' = [dir EXCEPT ![n].opens = TRUE, ![n].table = <<>>]
    <3>1. dir' = [dir EXCEPT ![n] = [dir[n] EXCEPT !.opens = TRUE, !.table = <<>>]]
      BY <2>2, <1>2 DEF SessionTypes
    <3>2. [dir[n] EXCEPT !.opens = TRUE, !.table = <<>>] \in Containers
      <4>1. <<>> \in Seq(Nat)
        OBVIOUS
      <4> QED BY <4>1, <1>2, Containers1
    <3>3. [dir[n] EXCEPT !.opens = TRUE, !.table = <<>>].there = dir[n].there
      BY <1>2, Containers1 DEF Containers
    <3> QED BY <3>1, <3>2, <3>3, <1>2 DEF SessionTypes, DirMoves
  <2> QED BY <2>1, <2>2 DEF WriteAllSlots, Target
<1>4. UNCHANGED <<exclusive, reported, truncated, shared>> /\ (Proceed(p, fm) \/ Throw(p, fm))
  BY DEF WriteAllSlots
<1>5. truncated' \in SUBSET Names /\ shared' \in SUBSET Names
  BY <1>4 DEF SessionTypes
<1>6. dir'[n].there
  BY <1>2, <1>3 DEF DirMoves
<1> QED BY <1>1, <1>2, <1>3, <1>4, <1>5, <1>6, JobFields, Moves

LEMMA MovesWriteChunks ==
  ASSUME SessionTypes, JobsSound, NEW p \in Programs, WriteChunks(p)
  PROVE  SessionTypes' /\ JobMoves(p)
<1> DEFINE n == jobs[p].fm.name  at == Len(jobs[p].fm.table) + 1
           added == [jobs[p].fm EXCEPT !.table = Append(@, jobs[p].file)]
<1>1. Running(p) /\ jobs[p].steps # <<>> /\ Head(jobs[p].steps) = "writeChunks"
  BY DEF WriteChunks, At
<1>2. jobs[p].steps \in {AfterSlots, Add} /\ n \in Names /\ jobs[p].fm.open /\ dir[n].there
  BY <1>1, JobFields, JobHolds, StepTaken, KindsOfLists
<1>3. dir' \in [Names -> Containers] /\ DirMoves(n)
  <2>1. CASE UNCHANGED dir
    BY <2>1 DEF SessionTypes, DirMoves
  <2>2. ASSUME NEW f \in Nat, at \in Places, dir' = [dir EXCEPT ![n].data[at] = f]
        PROVE  dir' \in [Names -> Containers] /\ DirMoves(n)
    <3>1. dir' = [dir EXCEPT ![n] = [dir[n] EXCEPT !.data[at] = f]]
      BY <2>2, <1>2 DEF SessionTypes
    <3>2. [dir[n] EXCEPT !.data[at] = f] \in Containers
      BY <2>2, <1>2, Containers1
    <3>3. [dir[n] EXCEPT !.data[at] = f].there = dir[n].there
      BY <1>2, Containers1 DEF Containers
    <3> QED BY <3>1, <3>2, <3>3, <1>2 DEF SessionTypes, DirMoves
  <2>3. jobs[p].file \in Nat /\ 0 \in Nat
    BY JobFields
  <2> QED BY <2>1, <2>2, <2>3 DEF WriteChunks, Target
<1>4. UNCHANGED <<exclusive, reported, truncated, shared>>
      /\ (Proceed(p, added) \/ Throw(p, jobs[p].fm) \/ UNCHANGED jobs)
  BY DEF WriteChunks, Hang
<1>5. truncated' \in SUBSET Names /\ shared' \in SUBSET Names
  BY <1>4 DEF SessionTypes
<1>6. dir'[n].there
  BY <1>2, <1>3 DEF DirMoves
<1>7. CASE Throw(p, jobs[p].fm)
  <2>1. ~ Proceed(p, jobs[p].fm)
    BY <1>1, <1>7, JobFields, Throws, Proceeds DEF Running
  <2> QED BY <1>1, <1>2, <1>3, <1>4, <1>5, <1>6, <1>7, <2>1, JobFields, Moves
<1>8. CASE Proceed(p, added)
  <2>1. /\ added \in Managers /\ added.name = n /\ added.open = jobs[p].fm.open
        /\ added.table = Append(jobs[p].fm.table, jobs[p].file)
    <3>1. Append(jobs[p].fm.table, jobs[p].file) \in Seq(Nat)
      <4>1. jobs[p].fm.table \in Seq(Nat) /\ jobs[p].file \in Nat
        BY JobFields
      <4> QED BY <4>1
    <3> QED BY <3>1, JobFields DEF Managers
  <2>2. ~ Throw(p, added)
    <3> HIDE DEF added
    <3> QED BY <1>1, <1>8, <2>1, JobFields, Throws, Proceeds DEF Running
  <2> HIDE DEF added
  <2> QED BY <1>1, <1>2, <1>3, <1>4, <1>5, <1>6, <1>8, <2>1, <2>2, JobFields, Moves
<1>9. CASE UNCHANGED jobs
  BY <1>1, <1>2, <1>3, <1>4, <1>5, <1>6, <1>9 DEF SessionTypes, DirMoves, JobMoves, Running
<1> QED BY <1>4, <1>7, <1>8, <1>9

LEMMA MovesWriteFileTable ==
  ASSUME SessionTypes, JobsSound, NEW p \in Programs, WriteFileTable(p)
  PROVE  SessionTypes' /\ JobMoves(p)
<1> DEFINE n == jobs[p].fm.name  fm == jobs[p].fm
<1>1. Running(p) /\ jobs[p].steps # <<>> /\ Head(jobs[p].steps) = "writeFileTableToAllSlots"
  BY DEF WriteFileTable, At
<1>2. jobs[p].steps \in {AfterWrite, TableOnly} /\ n \in Names /\ fm.open /\ dir[n].there
  BY <1>1, JobFields, JobHolds, StepTaken, KindsOfLists
<1>3. dir' \in [Names -> Containers] /\ DirMoves(n)
  <2>1. CASE UNCHANGED dir
    BY <2>1 DEF SessionTypes, DirMoves
  <2>2. CASE dir' = [dir EXCEPT ![n].opens = TRUE, ![n].table = fm.table]
    <3>1. dir' = [dir EXCEPT ![n] = [dir[n] EXCEPT !.opens = TRUE, !.table = fm.table]]
      BY <2>2, <1>2 DEF SessionTypes
    <3>2. [dir[n] EXCEPT !.opens = TRUE, !.table = fm.table] \in Containers
      BY <1>2, Containers1, JobFields
    <3>3. [dir[n] EXCEPT !.opens = TRUE, !.table = fm.table].there = dir[n].there
      BY <1>2, Containers1 DEF Containers
    <3> QED BY <3>1, <3>2, <3>3, <1>2 DEF SessionTypes, DirMoves
  <2> QED BY <2>1, <2>2 DEF WriteFileTable, Target
<1>4. UNCHANGED <<exclusive, reported, truncated, shared>> /\ (Proceed(p, fm) \/ Throw(p, fm))
  BY DEF WriteFileTable
<1>5. truncated' \in SUBSET Names /\ shared' \in SUBSET Names
  BY <1>4 DEF SessionTypes
<1>6. dir'[n].there
  BY <1>2, <1>3 DEF DirMoves
<1> QED BY <1>1, <1>2, <1>3, <1>4, <1>5, <1>6, JobFields, Moves

LEMMA MovesOpenExisting ==
  ASSUME SessionTypes, JobsSound, NEW p \in Programs, NEW kept, OpenExisting(p, kept)
  PROVE  SessionTypes' /\ JobMoves(p)
<1> DEFINE n == jobs[p].fm.name  opened == [jobs[p].fm EXCEPT !.open = TRUE]
<1>1. Running(p) /\ jobs[p].steps # <<>> /\ Head(jobs[p].steps) = "open"
  BY DEF OpenExisting, At
<1>2. n \in Names /\ ~ jobs[p].fm.open
  <2>1. jobs[p].steps \in {Open, OpenAdd, OpenRead}
    BY <1>1, JobFields, StepTaken
  <2> QED BY <1>1, <2>1, JobHolds DEF Unopened
<1>3. dir' \in [Names -> Containers] /\ DirMoves(n) /\ UNCHANGED <<exclusive, reported>>
      /\ truncated' \in SUBSET Names /\ shared' \in SUBSET Names
  BY <1>2 DEF OpenExisting, SessionTypes, DirMoves, Target
<1>4. CASE Throw(p, jobs[p].fm)
  <2>1. ~ Proceed(p, jobs[p].fm)
    BY <1>1, <1>4, JobFields, Throws, Proceeds DEF Running
  <2> QED BY <1>1, <1>2, <1>3, <1>4, <2>1, JobFields, Moves
<1>5. CASE dir[n].there /\ Proceed(p, opened)
  <2>1. opened \in Managers /\ opened.name = n /\ opened.open /\ opened.table = jobs[p].fm.table
    BY JobFields DEF Managers
  <2>2. ~ Throw(p, opened)
    <3> HIDE DEF opened
    <3> QED BY <1>1, <1>5, <2>1, JobFields, Throws, Proceeds DEF Running
  <2>3. dir'[n].there
    BY <1>5 DEF OpenExisting
  <2> HIDE DEF opened
  <2> QED BY <1>1, <1>2, <1>3, <1>5, <2>1, <2>2, <2>3, Moves
<1> QED BY <1>4, <1>5 DEF OpenExisting, Target

LEMMA MovesReadMeta ==
  ASSUME SessionTypes, JobsSound, NEW p \in Programs, ReadMeta(p)
  PROVE  SessionTypes' /\ JobMoves(p)
<1> DEFINE n == jobs[p].fm.name  read == [jobs[p].fm EXCEPT !.table = dir[n].table]
<1>1. Running(p) /\ jobs[p].steps # <<>> /\ Head(jobs[p].steps) = "readMeta"
  BY DEF ReadMeta, At
<1>2. jobs[p].steps \in Unread /\ n \in Names /\ jobs[p].fm.open /\ dir[n].there
  <2>1. jobs[p].steps \in Unread
    BY <1>1, JobFields, StepTaken DEF Unread
  <2> QED BY <1>1, <2>1, JobHolds, KindsOfLists
<1>3. UNCHANGED <<dir, exclusive, reported, truncated, shared>>
  BY DEF ReadMeta
<1>4. dir' \in [Names -> Containers] /\ DirMoves(n) /\ dir'[n].there
      /\ truncated' \in SUBSET Names /\ shared' \in SUBSET Names
  BY <1>2, <1>3 DEF SessionTypes, DirMoves
<1>5. CASE Throw(p, jobs[p].fm)
  <2>1. ~ Proceed(p, jobs[p].fm)
    BY <1>1, <1>5, JobFields, Throws, Proceeds DEF Running
  <2> QED BY <1>1, <1>2, <1>3, <1>4, <1>5, <2>1, JobFields, Moves
<1>6. CASE Proceed(p, read)
  <2>1. read \in Managers /\ read.name = n /\ read.open /\ read.table = dir[n].table
    <3>1. dir[n].table \in Seq(Nat)
      BY <1>2, Containers1
    <3> QED BY <3>1, <1>2, JobFields DEF Managers
  <2>2. ~ Throw(p, read)
    <3> HIDE DEF read
    <3> QED BY <1>1, <1>6, <2>1, JobFields, Throws, Proceeds DEF Running
  <2> HIDE DEF read
  <2> QED BY <1>1, <1>2, <1>3, <1>4, <1>6, <2>1, <2>2, Moves
<1> QED BY <1>5, <1>6 DEF ReadMeta, Target

LEMMA MovesQuietly ==
  ASSUME SessionTypes, JobsSound, NEW p \in Programs, ReadFiles(p) \/ CopyBrowserViewer(p)
  PROVE  SessionTypes' /\ JobMoves(p)
<1> DEFINE n == jobs[p].fm.name  fm == jobs[p].fm
<1>1. Running(p) /\ jobs[p].steps # <<>> /\ Head(jobs[p].steps) \in {"extract", "copyBrowserViewer"}
      /\ UNCHANGED <<dir, exclusive, reported, truncated, shared>>
      /\ (Proceed(p, fm) \/ Throw(p, fm) \/ UNCHANGED jobs)
  BY DEF ReadFiles, CopyBrowserViewer, Hang, At
<1>2. n \in Names /\ fm.open /\ dir[n].there
  <2>1. jobs[p].steps \in {Read, AfterTable}
    BY <1>1, JobFields, StepTaken
  <2> QED BY <1>1, <2>1, JobHolds, KindsOfLists
<1>3. dir' \in [Names -> Containers] /\ DirMoves(n) /\ dir'[n].there
      /\ truncated' \in SUBSET Names /\ shared' \in SUBSET Names
  BY <1>1, <1>2 DEF SessionTypes, DirMoves
<1>4. CASE UNCHANGED jobs /\ ReadFiles(p)
  <2>1. jobs[p].steps = Read
    BY <1>4, JobFields, StepTaken DEF ReadFiles, At
  <2> QED BY <1>1, <1>2, <1>3, <1>4, <2>1 DEF SessionTypes, DirMoves, JobMoves, Running
<1>5. Proceed(p, fm) \/ Throw(p, fm) \/ (UNCHANGED jobs /\ ReadFiles(p))
  BY DEF ReadFiles, CopyBrowserViewer, Hang
<1> QED BY <1>1, <1>2, <1>3, <1>4, <1>5, JobFields, Moves

LEMMA MovesReturn ==
  ASSUME SessionTypes, JobsSound, NEW p \in Programs, Return(p)
  PROVE  SessionTypes' /\ JobMoves(p)
<1>1. /\ Running(p) /\ jobs[p].steps = <<>> /\ jobs[p] \in JobRecords
      /\ jobs' = [jobs EXCEPT ![p] = [jobs[p] EXCEPT !.outcome = "ok"]]
      /\ UNCHANGED <<dir, exclusive, truncated, shared>>
  BY JobFields DEF Return
<1>2. [jobs[p] EXCEPT !.outcome = "ok"] \in JobRecords
  BY <1>1 DEF JobRecords
<1>3. /\ jobs' \in [Programs -> JobRecords] /\ \A q \in Programs : q # p => jobs'[q] = jobs[q]
      /\ jobs'[p] = [jobs[p] EXCEPT !.outcome = "ok"]
  BY <1>1, <1>2 DEF SessionTypes
<1>4. /\ jobs'[p].steps = <<>> /\ jobs'[p].fm = jobs[p].fm
      /\ jobs'[p].file = jobs[p].file /\ jobs'[p].outcome = "ok"
  BY <1>1, <1>3 DEF JobRecords
<1>5. jobs[p].fm.name \in Names /\ jobs[p].file \in Nat
      /\ (jobs[p].fm.open => dir[jobs[p].fm.name].there)
  BY <1>1, JobHolds, JobFields
<1>6. reported' \in SUBSET (Names \X Nat)
  BY <1>5 DEF Return, Target, SessionTypes
<1> QED BY <1>1, <1>3, <1>4, <1>5, <1>6 DEF SessionTypes, JobMoves, Running

LEMMA JobStepMoves ==
  ASSUME SessionTypes, JobsSound, NEW p \in Programs, NEW kept, JobStep(p, kept)
  PROVE  SessionTypes' /\ JobMoves(p)
BY MovesCreateContainerFile, MovesWriteAllSlots, MovesWriteChunks, MovesWriteFileTable,
   MovesOpenExisting, MovesReadMeta, MovesQuietly, MovesReturn DEF JobStep

\* What a job's steps say of its FileManager after they have moved.
LEMMA SoundAfter ==
  ASSUME SessionTypes, SessionTypes', JobsSound, NEW p \in Programs, JobMoves(p)
  PROVE  JobsSound'
<1> DEFINE old == jobs[p]  new == jobs'[p]  n == jobs[p].fm.name
<1>1. Running(p) /\ n \in Names
  BY JobHolds DEF JobMoves, Running
<1>2. old.fm.open <=> old.steps \notin Unopened
  BY <1>1, JobHolds
<1>3. /\ old.steps \in {Create, AfterFile, AfterSlots} => old.fm.table = <<>>
      /\ old.steps \in OnlyReads => old.file = 0
      /\ old.outcome = "running"
  BY <1>1 DEF JobsSound, JobSound, Running
<1>4. new.fm.open => dir'[new.fm.name].there
  BY DEF JobMoves
<1>5. ASSUME new.outcome = "running", new # old PROVE JobSound(jobs[p])'
  <2>1. /\ old.steps # <<>> /\ new.steps = Tail(old.steps) /\ new.fm.open /\ new.file = old.file
    BY <1>5 DEF JobMoves
  <2>2. Remains(old.steps)
    BY <2>1, JobFields, Remainders
  <2>3. new.steps \notin Unopened
    BY <2>1, <2>2 DEF Remains
  <2>4. new.steps \in {Create, AfterFile, AfterSlots} => new.fm.table = <<>>
    <3>1. new.steps # Create
      BY <2>3 DEF Unopened
    <3>2. ASSUME new.steps \in {AfterFile, AfterSlots} PROVE old.steps \in {Create, AfterFile}
      BY <3>2, <2>1, <2>2 DEF Remains
    <3>3. old.steps \in {Create, AfterFile} =>
            old.steps \notin Unread /\ old.steps \notin {AfterSlots, Add}
      BY AllDifferent DEF Unread
    <3> QED BY <3>1, <3>2, <3>3, <1>3 DEF JobMoves
  <2>5. new.steps \in OnlyReads => new.file = 0
    BY <1>3, <2>1, <2>2 DEF Remains
  <2>6. new.fm.name \in Names
    BY <1>1 DEF JobMoves
  <2> QED BY <1>4, <1>5, <2>1, <2>3, <2>4, <2>5, <2>6 DEF JobSound
<1>6. ASSUME new.outcome # "running" PROVE JobSound(jobs[p])'
  <2>1. new.outcome \in {"error", "ok"} /\ new.steps = <<>> /\ new.fm.name \in Names
    BY <1>1, <1>6 DEF JobMoves
  <2>2. new.outcome = "ok" => new.fm.open
    <3>1. <<>> \notin Unopened
      BY KindsOfLists
    <3> QED BY <3>1, <1>2 DEF JobMoves
  <2> QED BY <1>4, <2>1, <2>2 DEF JobSound
<1>7. JobSound(jobs[p])'
  <2>1. CASE new = old
    BY <2>1, <1>2, <1>3, <1>4 DEF JobsSound, JobSound, JobMoves
  <2> QED BY <2>1, <1>5, <1>6
<1>8. ASSUME NEW q \in Programs, q # p PROVE JobSound(jobs[q])'
  <2>1. jobs'[q] = jobs[q] /\ JobSound(jobs[q])
    BY <1>8 DEF JobMoves, JobsSound
  <2>2. jobs[q].fm.open => jobs[q].fm.name \in Names
    <3>1. jobs[q].outcome = "none" => ~ jobs[q].fm.open
      BY <2>1 DEF JobSound, NoJob, NoManager
    <3> QED BY <2>1, <3>1 DEF JobSound
  <2>3. \A m \in Names : dir[m].there => dir'[m].there
    BY DEF JobMoves
  <2> QED BY <2>1, <2>2, <2>3 DEF JobSound
<1> QED BY <1>7, <1>8 DEF JobsSound

\* The window's account of its worker, and the command line's of its command, survive a step.
LEMMA GuiAfterJob ==
  ASSUME Types, JobsSound, GuiInv, NEW p \in Programs, JobMoves(p), UNCHANGED guiVars
  PROVE  GuiInv'
<1>1. /\ UNCHANGED <<fileManager, busy, containerOpen, path, list, page, waitingForOpen, overlay,
                     call, queue, ops, addFailed, overlapped>>
  BY DEF guiVars, controllerVars, pageVars
<1>2. Alive' = Alive /\ (Accounted(fileManager) <=> Accounted(fileManager)')
      /\ (Shows(fileManager) <=> Shows(fileManager)')
  BY <1>1 DEF Alive, Accounted, Shows
<1>3. CASE p # "gui"
  <2>1. jobs'["gui"] = jobs["gui"]
    BY <1>3, GuiAssumption DEF JobMoves
  <2>2. AtRest <=> AtRest'
    BY <2>1, <1>1, <1>2 DEF AtRest
  <2>3. AtWork => AtWork'
    <3>1. Shows(jobs["gui"].fm) <=> Shows(jobs["gui"].fm)'
      BY <1>1, <2>1 DEF Shows
    <3>2. ResultLast <=> ResultLast'
      BY <1>1, <2>1 DEF ResultLast
    <3> QED BY <3>1, <3>2, <2>1, <1>1, <1>2 DEF AtWork
  <2> QED BY <2>2, <2>3, <1>1, <1>2 DEF GuiInv
<1>4. CASE p = "gui"
  <2> DEFINE old == jobs["gui"]  new == jobs'["gui"]
  <2>0. SUFFICES ASSUME Alive PROVE GuiInv'
    BY <1>2 DEF GuiInv
  <2>1. busy /\ AtWork
    <3>1. ~ AtRest
      BY <1>4 DEF AtRest, NoJob, JobMoves
    <3> QED BY <3>1, <2>0 DEF GuiInv
  <2>2. old.outcome = "running" /\ new.outcome \in {"running", "ok", "error"}
    BY <1>4 DEF JobMoves
  <2>3. ResultLast'
    <3>1. \A i \in 1 .. Len(queue) : queue[i] # "result"
      BY <2>1, <2>2 DEF AtWork, ResultLast
    <3> QED BY <3>1, <1>1 DEF ResultLast
  <2>4. /\ old.steps \in OfCreate => new.steps \in OfCreate
        /\ old.steps \in OfOpen => new.steps \in OfOpen
        /\ old.steps \in OfAdd => new.steps \in OfAdd
        /\ old.steps \in OfExtract => new.steps \in OfExtract
    <3>1. CASE new.steps = <<>>
      BY <3>1 DEF OfCreate, OfOpen, OfAdd, OfExtract
    <3>2. CASE old.steps # <<>> /\ new.steps = Tail(old.steps)
      <4>1. Remains(old.steps)
        BY <1>4, <3>2, JobFields, Remainders DEF Types
      <4> QED BY <3>2, <4>1 DEF Remains
    <3> QED BY <1>4, <3>1, <3>2 DEF JobMoves
  <2>5. new.fm.name = old.fm.name /\ (old.fm.open => new.fm.open)
    BY <1>4 DEF JobMoves
  <2>6. old.steps \in OfAdd /\ IsPrefix(list, old.fm.table) => IsPrefix(list', new.fm.table)
    <3>1. list \in Seq(Nat) /\ old.fm.table \in Seq(Nat) /\ old.file \in Nat /\ list' = list
      BY <1>1, <1>4, JobFields DEF Types, GuiTypes
    <3>2. old.steps \in OfAdd => old.steps \notin Unread
      BY KindsOfLists DEF OfAdd
    <3>3. old.steps \in OfAdd =>
            new.fm.table = old.fm.table \/ new.fm.table = Append(old.fm.table, old.file)
      BY <1>4, <3>2 DEF JobMoves
    <3> QED BY <3>1, <3>3, Prefixes1
  <2>7. old.steps \in OfExtract => new.fm.table = old.fm.table
    <3>1. old.steps \in OfExtract => old.steps \notin {AfterSlots, Add} \cup Unread
      BY AllDifferent DEF OfExtract, Unread
    <3> QED BY <1>4, <3>1 DEF JobMoves
  <2>8. old.steps \in OfExtract /\ Shows(old.fm) => Shows(old.fm)' /\ new.fm.table = old.fm.table
    <3>1. list' = list /\ addFailed' = addFailed
      BY <1>1
    <3>2. old.steps \in OfExtract /\ Shows(old.fm) => Shows(jobs["gui"].fm)'
      BY <2>7, <3>1 DEF Shows
    <3> QED BY <2>7, <3>2
  <2>9. AtWork'
    BY <1>1, <1>2, <2>1, <2>2, <2>3, <2>4, <2>5, <2>6, <2>8 DEF AtWork
  <2> QED BY <1>1, <1>2, <2>0, <2>1, <2>9 DEF GuiInv
<1> QED BY <1>3, <1>4

LEMMA CliAfterJob ==
  ASSUME Types, JobsSound, CliInv, NEW p \in Programs, JobMoves(p), UNCHANGED cliVars
  PROVE  CliInv'
<1>1. UNCHANGED <<command, commands, existed>>
  BY DEF cliVars
<1>2. CASE p # "cli"
  <2>1. jobs'["cli"] = jobs["cli"]
    BY <1>2, CliAssumption DEF JobMoves
  <2> QED BY <1>1, <2>1 DEF CliInv
<1>3. CASE p = "cli"
  <2>1. command # NoCommand
    BY <1>3 DEF CliInv, NoJob, JobMoves
  <2>2. jobs'["cli"].steps # Create
    <3>1. <<>> # Create
      BY AllDifferent
    <3>2. jobs["cli"].steps # <<>> => Remains(jobs["cli"].steps)
      BY <1>3, JobFields, Remainders DEF Types
    <3>3. Create \notin {AfterSlots, Add, Read}
      BY AllDifferent
    <3> QED BY <1>3, <3>1, <3>2, <3>3 DEF JobMoves, Remains, Unopened
  <2> QED BY <1>1, <2>1, <2>2 DEF CliInv
<1> QED BY <1>2, <1>3

-----------------------------------------------------------------------------
(***************************************************************************)
(* One step of a job, seen from the disk.                                  *)
(***************************************************************************)
ReportedAt(n) == \A r \in reported : r[1] = n => Stored(n, r[2])

FiledAt(n) == \A p \in Programs : Running(p) /\ Holds(jobs[p].fm, n) => Filed(p, n)

SoundAt(n) == OneHolder(n) /\ HoldersExtend(n) /\ FiledAt(n) /\ ReportedAt(n)

Witnesses ==
  /\ \A r \in reported : dir[r[1]].there
  /\ fileManager.open => dir[fileManager.name].there

\* The disk's part of the invariant, name by name.
LEMMA NameByName ==
  ASSUME SessionTypes
  PROVE  DiskInv <=> Witnesses /\ \A n \in Names : Kept(n) => SoundAt(n)
<1>1. \A r \in reported : r[1] \in Names
  BY DEF SessionTypes
<1>2. ReportedFilesStay <=> \A n \in Names : Kept(n) => ReportedAt(n)
  BY <1>1 DEF ReportedFilesStay, ReportedAt, Kept
<1> QED BY <1>2 DEF DiskInv, Witnesses, SoundAt, FiledAt

LEMMA NameByNameAfter ==
  ASSUME SessionTypes'
  PROVE  DiskInv' <=> Witnesses' /\ \A n \in Names : Kept(n)' => SoundAt(n)'
<1>1. \A r \in reported' : r[1] \in Names
  BY DEF SessionTypes
<1>2. ReportedFilesStay' <=> \A n \in Names : Kept(n)' => ReportedAt(n)'
  BY <1>1 DEF ReportedFilesStay, ReportedAt, Kept
<1> QED BY <1>2 DEF DiskInv, Witnesses, SoundAt, FiledAt

\* No other FileManager has n open.
Alone(p, n) ==
  /\ \A q \in Programs : q # p => ~ Holds(jobs[q].fm, n)
  /\ ~ Holds(fileManager, n)

LEMMA Elsewhere ==
  ASSUME NEW p \in Programs, JobMoves(p), UNCHANGED guiVars, NEW n \in Names, n # jobs[p].fm.name,
         \A r \in reported' : r \in reported \/ r[1] = jobs[p].fm.name,
         SoundAt(n)
  PROVE  SoundAt(n)'
<1>1. fileManager' = fileManager /\ call' = call
  BY DEF guiVars, controllerVars
<1>2. dir'[n] = dir[n]
  BY DEF JobMoves
<1>3. ~ Holds(jobs[p].fm, n) /\ ~ Holds(jobs[p].fm, n)'
  BY DEF JobMoves, Holds
<1>4. \A q \in Programs : q # p => jobs'[q] = jobs[q]
  BY DEF JobMoves
<1>5. OneHolder(n)'
  BY <1>1, <1>3, <1>4 DEF SoundAt, OneHolder, Holds
<1>6. HoldersExtend(n)'
  BY <1>1, <1>2, <1>3, <1>4 DEF SoundAt, HoldersExtend, Holds, Extends, TableRead
<1>7. FiledAt(n)'
  <2> SUFFICES ASSUME NEW q \in Programs, Running(q)', Holds(jobs[q].fm, n)' PROVE Filed(q, n)'
    BY DEF FiledAt
  <2>1. q # p /\ jobs'[q] = jobs[q]
    BY <1>3, <1>4
  <2>2. Filed(q, n)
    BY <2>1 DEF SoundAt, FiledAt, Running, Holds
  <2> QED BY <2>1, <2>2, <1>2 DEF Filed, Stored
<1>8. ReportedAt(n)'
  BY <1>2 DEF SoundAt, ReportedAt, Stored
<1> QED BY <1>5, <1>6, <1>7, <1>8 DEF SoundAt

LEMMA AtTarget ==
  ASSUME NEW p \in Programs, JobMoves(p), UNCHANGED guiVars, NEW n \in Names, n = jobs[p].fm.name,
         Alone(p, n), TableRead(p)' => Extends(jobs[p].fm, n)', Running(p)' => Filed(p, n)',
         ReportedAt(n)'
  PROVE  SoundAt(n)'
<1>1. fileManager' = fileManager /\ call' = call
  BY DEF guiVars, controllerVars
<1>2. \A q \in Programs : q # p => jobs'[q] = jobs[q] /\ ~ Holds(jobs[q].fm, n)'
  BY DEF JobMoves, Alone, Holds
<1>3. ~ Holds(fileManager, n)'
  BY <1>1 DEF Alone, Holds
<1> QED BY <1>2, <1>3 DEF SoundAt, OneHolder, HoldersExtend, FiledAt

\* A step that only gives up, without a file open, changes nothing.
LEMMA NothingHeld ==
  ASSUME NEW p \in Programs, JobMoves(p), UNCHANGED guiVars, NEW n \in Names, SoundAt(n),
         ~ jobs'[p].fm.open, UNCHANGED <<dir, reported>>
  PROVE  SoundAt(n)'
<1>1. fileManager' = fileManager /\ call' = call
  BY DEF guiVars, controllerVars
<1>2. \A q \in Programs : q # p => jobs'[q] = jobs[q]
  BY DEF JobMoves
<1>3. ~ Holds(jobs[p].fm, n)'
  BY DEF Holds
<1>4. OneHolder(n)'
  BY <1>1, <1>2, <1>3 DEF SoundAt, OneHolder, Holds
<1>5. HoldersExtend(n)'
  BY <1>1, <1>2, <1>3 DEF SoundAt, HoldersExtend, Holds, Extends, TableRead
<1>6. FiledAt(n)'
  <2> SUFFICES ASSUME NEW q \in Programs, Running(q)', Holds(jobs[q].fm, n)' PROVE Filed(q, n)'
    BY DEF FiledAt
  <2>1. q # p /\ jobs'[q] = jobs[q]
    BY <1>2, <1>3
  <2>2. Filed(q, n)
    BY <2>1 DEF SoundAt, FiledAt, Running, Holds
  <2> QED BY <2>1, <2>2 DEF Filed, Stored
<1>7. ReportedAt(n)'
  BY DEF SoundAt, ReportedAt, Stored
<1> QED BY <1>4, <1>5, <1>6, <1>7 DEF SoundAt

\* Whoever has an open file on a kept name has it alone.
LEMMA HeldAlone ==
  ASSUME NEW p \in Programs, NEW n, SoundAt(n), jobs[p].fm.open, jobs[p].fm.name = n
  PROVE  Alone(p, n)
BY DEF SoundAt, OneHolder, Alone, Holds

\* No FileManager has a file open that is not there.
LEMMA NothingAway ==
  ASSUME JobsSound, Witnesses, NEW n \in Names, ~ dir[n].there
  PROVE  /\ \A q \in Programs : ~ Holds(jobs[q].fm, n)
         /\ ~ Holds(fileManager, n)
         /\ \A r \in reported : r[1] # n
BY DEF JobsSound, JobSound, Witnesses, Holds

LEMMA MayWriteAlone ==
  ASSUME NEW n \in Names, exclusive, MayWrite(n, {fileManager})
  PROVE  (\A q \in Programs : ~ Holds(jobs[q].fm, n)) /\ ~ Holds(fileManager, n)
BY DEF MayWrite, Holders, Holds

LEMMA DiskCreateContainerFile ==
  ASSUME FEInv, NEW p \in Programs, CreateContainerFile(p, {fileManager}), UNCHANGED guiVars,
         NEW n \in Names, n = jobs[p].fm.name, Kept(n)'
  PROVE  SoundAt(n)'
<1>1. SessionTypes /\ JobsSound /\ Witnesses /\ (Kept(n) => SoundAt(n))
  BY NameByName DEF FEInv, Types
<1>2. JobMoves(p)
  BY <1>1, MovesCreateContainerFile
<1>3. Running(p) /\ jobs[p].steps = Create /\ ~ jobs[p].fm.open /\ jobs[p].fm.table = <<>>
  <2>1. Running(p) /\ jobs[p].steps # <<>> /\ Head(jobs[p].steps) = "createContainerFile"
    BY DEF CreateContainerFile, At
  <2>2. jobs[p].steps = Create
    BY <2>1, <1>1, JobFields, StepTaken
  <2> QED BY <2>1, <2>2, <1>1, JobHolds DEF Unopened
<1>4. reported' = reported /\ exclusive' = exclusive
  BY DEF CreateContainerFile
<1>5. CASE Throw(p, jobs[p].fm) /\ UNCHANGED <<dir, truncated, shared>>
  <2>1. SoundAt(n)
    BY <1>1, <1>4, <1>5 DEF Kept
  <2>2. ~ jobs'[p].fm.open
    BY <1>1, <1>3, <1>5, JobFields, Throws
  <2> QED BY <1>2, <1>4, <1>5, <2>1, <2>2, NothingHeld
<1>6. CASE /\ dir' = [dir EXCEPT ![n] = [NoFile EXCEPT !.there = TRUE]]
           /\ truncated' = IF dir[n].there THEN truncated \cup {n} ELSE truncated
  <2>1. ~ dir[n].there
    BY <1>6 DEF Kept
  <2>2. Alone(p, n) /\ \A r \in reported : r[1] # n
    BY <1>1, <2>1, NothingAway DEF Alone
  <2>3. dir'[n].table = <<>>
    BY <1>1, <1>6 DEF SessionTypes, NoFile
  <2>4. jobs'[p].fm.table = <<>>
    <3>1. Create \notin Unread \cup {AfterSlots, Add}
      BY AllDifferent, KindsOfLists
    <3> QED BY <1>2, <1>3, <3>1 DEF JobMoves
  <2>5. Extends(jobs[p].fm, n)'
    <3>1. <<>> \in Seq(Nat)
      OBVIOUS
    <3> QED BY <2>3, <2>4, <3>1, Prefixes1 DEF Extends
  <2>6. Running(p)' => Filed(p, n)'
    <3>1. ASSUME Running(p)' PROVE jobs'[p].steps = AfterFile
      BY <3>1, <1>2, <1>3, HeadsAndTails DEF JobMoves, Running
    <3>2. AfterFile \notin Unwritten \cup {AfterTable, <<>>}
      BY KindsOfLists, AllDifferent
    <3> QED BY <1>4, <2>2, <3>1, <3>2 DEF Filed
  <2>7. ReportedAt(n)'
    BY <1>4, <2>2 DEF ReportedAt
  <2> QED BY <1>2, <2>2, <2>5, <2>6, <2>7, AtTarget
<1> QED BY <1>5, <1>6 DEF CreateContainerFile, Target

LEMMA DiskWriteAllSlots ==
  ASSUME FEInv, NEW p \in Programs, WriteAllSlots(p), UNCHANGED guiVars,
         NEW n \in Names, n = jobs[p].fm.name, Kept(n)'
  PROVE  SoundAt(n)'
<1>1. SessionTypes /\ JobsSound /\ (Kept(n) => SoundAt(n))
  BY NameByName DEF FEInv, Types
<1>2. JobMoves(p) /\ UNCHANGED <<exclusive, reported, truncated, shared>>
  BY <1>1, MovesWriteAllSlots DEF WriteAllSlots
<1>3. SoundAt(n)
  BY <1>1, <1>2 DEF Kept
<1>4. Running(p) /\ jobs[p].steps = AfterFile /\ jobs[p].fm.open /\ jobs[p].fm.table = <<>>
  <2>1. Running(p) /\ jobs[p].steps # <<>> /\ Head(jobs[p].steps) = "writeAllSlots"
    BY DEF WriteAllSlots, At
  <2>2. jobs[p].steps = AfterFile
    BY <2>1, <1>1, JobFields, StepTaken
  <2> QED BY <2>1, <2>2, <1>1, JobHolds, KindsOfLists
<1>5. Alone(p, n)
  BY <1>3, <1>4, HeldAlone
<1>6. Filed(p, n)
  BY <1>3, <1>4 DEF SoundAt, FiledAt, Holds
<1>7. ReportedAt(n)'
  BY <1>2, <1>4, <1>6 DEF Filed, ReportedAt
<1>8. jobs'[p].fm.table = <<>>
  <2>1. AfterFile \notin Unread \cup {AfterSlots, Add}
    BY AllDifferent, KindsOfLists
  <2> QED BY <1>2, <1>4, <2>1 DEF JobMoves
<1>9. Extends(jobs[p].fm, n)'
  <2>1. dir'[n].table = <<>>
    <3>1. CASE UNCHANGED dir
      <4>1. Extends(jobs[p].fm, n)
        <5>1. AfterFile \notin Unread
          BY KindsOfLists
        <5> QED BY <1>3, <1>4, <5>1 DEF SoundAt, HoldersExtend, Holds, TableRead, Running
      <4> QED BY <3>1, <4>1, <1>1, <1>4, Containers1, Prefixes1 DEF Extends
    <3>2. CASE dir' = [dir EXCEPT ![n].opens = TRUE, ![n].table = <<>>]
      BY <3>2, <1>1, Containers1 DEF SessionTypes, Containers
    <3> QED BY <3>1, <3>2 DEF WriteAllSlots, Target
  <2>2. <<>> \in Seq(Nat)
    OBVIOUS
  <2> QED BY <1>8, <2>1, <2>2, Prefixes1 DEF Extends
<1>10. Running(p)' => Filed(p, n)'
  <2>1. ASSUME Running(p)' PROVE jobs'[p].steps = AfterSlots
    <3>1. AfterFile \notin {AfterSlots, Add, Read}
      BY AllDifferent
    <3> QED BY <2>1, <3>1, <1>2, <1>4, HeadsAndTails DEF JobMoves, Running
  <2>2. AfterSlots \notin Unwritten \cup {AfterTable, <<>>, AfterFile}
    BY KindsOfLists, AllDifferent
  <2> QED BY <2>1, <2>2 DEF Filed
<1> QED BY <1>2, <1>5, <1>7, <1>9, <1>10, AtTarget

LEMMA DiskWriteChunks ==
  ASSUME FEInv, NEW p \in Programs, WriteChunks(p), UNCHANGED guiVars,
         NEW n \in Names, n = jobs[p].fm.name, Kept(n)'
  PROVE  SoundAt(n)'
<1> DEFINE old == jobs[p]  new == jobs'[p]  at == Len(jobs[p].fm.table) + 1
           added == [jobs[p].fm EXCEPT !.table = Append(@, jobs[p].file)]
<1>1. SessionTypes /\ JobsSound /\ (Kept(n) => SoundAt(n))
  BY NameByName DEF FEInv, Types
<1>2. JobMoves(p) /\ UNCHANGED <<exclusive, reported, truncated, shared>>
  BY <1>1, MovesWriteChunks DEF WriteChunks
<1>3. SoundAt(n)
  BY <1>1, <1>2 DEF Kept
<1>4. Running(p) /\ old.steps # <<>> /\ old.steps \in {AfterSlots, Add} /\ old.fm.open
  <2>1. Running(p) /\ old.steps # <<>> /\ Head(old.steps) = "writeChunks"
    BY DEF WriteChunks, At
  <2>2. old.steps \in {AfterSlots, Add}
    BY <2>1, <1>1, JobFields, StepTaken
  <2> QED BY <2>1, <2>2, <1>1, JobHolds, KindsOfLists
<1>5. Alone(p, n)
  BY <1>3, <1>4, HeldAlone
<1>6. /\ dir[n] \in Containers /\ dir[n].table \in Seq(Nat) /\ old.fm.table \in Seq(Nat)
      /\ old.file \in Nat /\ dir \in [Names -> Containers] /\ dir[n].data \in [Places -> Nat]
  BY <1>1, Containers1, JobFields DEF SessionTypes, Containers
<1>7. Extends(old.fm, n)
  <2>1. old.steps \notin Unread
    BY <1>4, KindsOfLists
  <2> QED BY <2>1, <1>3, <1>4 DEF SoundAt, HoldersExtend, Holds, TableRead, Running
<1>8. /\ dir'[n].table = dir[n].table /\ dir'[n].opens = dir[n].opens
      /\ \A i \in Places : i # at => dir'[n].data[i] = dir[n].data[i]
      /\ at \in Places /\ dir' = [dir EXCEPT ![n].data[at] = old.file] => dir'[n].data[at] = old.file
  <2>1. ASSUME NEW f \in Nat, at \in Places, dir' = [dir EXCEPT ![n].data[at] = f]
        PROVE  /\ dir'[n].table = dir[n].table /\ dir'[n].opens = dir[n].opens
               /\ \A i \in Places : i # at => dir'[n].data[i] = dir[n].data[i]
               /\ dir'[n].data[at] = f
    BY <2>1, <1>6 DEF Containers
  <2>2. at \in Places /\ dir' = [dir EXCEPT ![n].data[at] = old.file] => dir'[n].data[at] = old.file
    BY <2>1, <1>6
  <2>3. \/ UNCHANGED dir
        \/ at \in Places /\ dir' = [dir EXCEPT ![n].data[at] = old.file]
        \/ at \in Places /\ dir' = [dir EXCEPT ![n].data[at] = 0]
    BY DEF WriteChunks, Target
  <2>4. CASE UNCHANGED dir
    <3> HIDE DEF at
    <3> QED BY <2>2, <2>4
  <2>5. CASE at \in Places /\ dir' = [dir EXCEPT ![n].data[at] = old.file]
    BY <2>1, <2>2, <2>5, <1>6
  <2>6. CASE at \in Places /\ dir' = [dir EXCEPT ![n].data[at] = 0]
    BY <2>1, <2>2, <2>6
  <2> QED BY <2>3, <2>4, <2>5, <2>6
<1>9. ReportedAt(n)'
  <2> SUFFICES ASSUME NEW r \in reported, r[1] = n PROVE Stored(n, r[2])'
    BY <1>2 DEF ReportedAt
  <2>1. PICK i \in DOMAIN dir[n].table : dir[n].table[i] = r[2] /\ dir[n].data[i] = r[2]
    BY <1>3 DEF SoundAt, ReportedAt, Stored
  <2>2. dir[n].opens /\ dir'[n].opens
    BY <1>3, <1>8 DEF SoundAt, ReportedAt, Stored
  <2>3. i \in 1 .. Len(dir[n].table) /\ Len(dir[n].table) <= Len(old.fm.table)
    BY <1>6, <1>7, PrefixIs DEF Extends
  <2>4. i \in Nat \ {0} /\ i < at
    BY <2>3, <1>6
  <2>5. dir'[n].data[i] = dir[n].data[i]
    <3>1. CASE i \in Places
      BY <3>1, <2>4, <1>8
    <3>2. CASE at \in Places
      BY <3>2, <2>4, <1>8, SessionsAssumption DEF Places
    <3>3. CASE i \notin Places /\ at \notin Places
      <4>1. UNCHANGED dir
        BY <3>3 DEF WriteChunks, Target
      <4> QED BY <4>1
    <3> QED BY <3>1, <3>2, <3>3
  <2> QED BY <2>1, <2>2, <2>5, <1>8 DEF Stored
<1>10. CASE Throw(p, old.fm)
  <2>1. new.steps = <<>> /\ new.fm = old.fm /\ new.outcome = "error"
    BY <1>10, <1>1, JobFields, Throws
  <2>2. Extends(jobs[p].fm, n)'
    BY <2>1, <1>7, <1>8 DEF Extends
  <2> QED BY <2>1, <2>2, <1>2, <1>5, <1>9, AtTarget DEF Running
<1>11. CASE at \in Places /\ dir' = [dir EXCEPT ![n].data[at] = old.file] /\ Proceed(p, added)
  <2>1. Append(old.fm.table, old.file) \in Seq(Nat) /\ Len(Append(old.fm.table, old.file)) = at
        /\ Append(old.fm.table, old.file)[at] = old.file
    BY <1>6
  <2>2. added \in Managers /\ added.table = Append(old.fm.table, old.file)
    BY <1>1, <1>6, <2>1, JobFields DEF Managers
  <2>3. new.steps = Tail(old.steps) /\ new.fm.table = Append(old.fm.table, old.file)
        /\ new.file = old.file
    <3> HIDE DEF added
    <3> QED BY <2>2, <1>1, <1>4, <1>11, Proceeds
  <2>4. Extends(jobs[p].fm, n)'
    <3>1. IsPrefix(dir[n].table, Append(old.fm.table, old.file))
      BY <1>6, <1>7, Prefixes1 DEF Extends
    <3> QED BY <3>1, <2>3, <1>8 DEF Extends
  <2>5. new.steps \in {AfterWrite, TableOnly}
    BY <2>3, <1>4, HeadsAndTails
  <2>6. Filed(p, n)'
    <3>1. new.steps \notin {AfterTable, <<>>, AfterFile}
      BY <2>5, AllDifferent
    <3>2. Len(new.fm.table) = at /\ new.fm.table[at] = new.file /\ dir'[n].data[at] = new.file
      BY <2>1, <2>3, <1>8, <1>11
    <3> QED BY <3>1, <3>2, <1>11 DEF Filed
  <2> QED BY <2>4, <2>6, <1>2, <1>5, <1>9, AtTarget
<1>12. CASE UNCHANGED jobs
  <2>1. Extends(jobs[p].fm, n)'
    BY <1>12, <1>7, <1>8 DEF Extends
  <2>2. old.steps \notin Unwritten \cup {AfterTable, <<>>, AfterFile}
    BY <1>4, KindsOfLists, AllDifferent
  <2>3. Filed(p, n)'
    BY <1>12, <2>2 DEF Filed
  <2> QED BY <2>1, <2>3, <1>2, <1>5, <1>9, AtTarget
<1> QED BY <1>10, <1>11, <1>12 DEF WriteChunks, Hang, Target

LEMMA DiskWriteFileTable ==
  ASSUME FEInv, NEW p \in Programs, WriteFileTable(p), UNCHANGED guiVars,
         NEW n \in Names, n = jobs[p].fm.name, Kept(n)'
  PROVE  SoundAt(n)'
<1> DEFINE old == jobs[p]  new == jobs'[p]
<1>1. SessionTypes /\ JobsSound /\ (Kept(n) => SoundAt(n))
  BY NameByName DEF FEInv, Types
<1>2. JobMoves(p) /\ UNCHANGED <<exclusive, reported, truncated, shared>>
  BY <1>1, MovesWriteFileTable DEF WriteFileTable
<1>3. SoundAt(n)
  BY <1>1, <1>2 DEF Kept
<1>4. Running(p) /\ old.steps # <<>> /\ old.steps \in {AfterWrite, TableOnly} /\ old.fm.open
  <2>1. Running(p) /\ old.steps # <<>> /\ Head(old.steps) = "writeFileTableToAllSlots"
    BY DEF WriteFileTable, At
  <2>2. old.steps \in {AfterWrite, TableOnly}
    BY <2>1, <1>1, JobFields, StepTaken
  <2> QED BY <2>1, <2>2, <1>1, JobHolds, KindsOfLists
<1>5. Alone(p, n) /\ Filed(p, n)
  BY <1>3, <1>4, HeldAlone DEF SoundAt, FiledAt, Holds
<1>6. /\ dir[n].table \in Seq(Nat) /\ old.fm.table \in Seq(Nat)
      /\ dir \in [Names -> Containers] /\ dir[n] \in Containers
  BY <1>1, Containers1, JobFields DEF SessionTypes
<1>7. Extends(old.fm, n)
  <2>1. old.steps \notin Unread
    BY <1>4, KindsOfLists
  <2> QED BY <2>1, <1>3, <1>4 DEF SoundAt, HoldersExtend, Holds, TableRead, Running
<1>8. new.fm = old.fm /\ new.file = old.file
      /\ (Running(p)' => new.steps \in {AfterTable, <<>>} /\ Proceed(p, old.fm))
  <2>1. ASSUME Proceed(p, old.fm)
        PROVE  new.fm = old.fm /\ new.file = old.file /\ new.steps = Tail(old.steps)
    BY <2>1, <1>1, <1>4, JobFields, Proceeds
  <2>2. ASSUME Throw(p, old.fm)
        PROVE  new.fm = old.fm /\ new.file = old.file /\ new.outcome = "error"
    BY <2>2, <1>1, JobFields, Throws
  <2>3. Tail(old.steps) \in {AfterTable, <<>>}
    BY <1>4, HeadsAndTails
  <2> QED BY <2>1, <2>2, <2>3 DEF WriteFileTable, Running
<1>9. \/ UNCHANGED dir
      \/ dir'[n].opens /\ dir'[n].table = old.fm.table /\ dir'[n].data = dir[n].data
  <2>1. ASSUME dir' = [dir EXCEPT ![n].opens = TRUE, ![n].table = old.fm.table]
        PROVE  dir'[n].opens /\ dir'[n].table = old.fm.table /\ dir'[n].data = dir[n].data
    <3>1. dir' = [dir EXCEPT ![n] = [dir[n] EXCEPT !.opens = TRUE, !.table = old.fm.table]]
      BY <2>1, <1>6
    <3>2. dir'[n] = [dir[n] EXCEPT !.opens = TRUE, !.table = old.fm.table]
      BY <3>1, <1>6
    <3> QED BY <3>2, <1>6 DEF Containers
  <2> QED BY <2>1 DEF WriteFileTable, Target
<1>10. Extends(jobs[p].fm, n)'
  BY <1>6, <1>7, <1>8, <1>9, Prefixes1 DEF Extends
<1>11. ReportedAt(n)'
  <2> SUFFICES ASSUME NEW r \in reported, r[1] = n PROVE Stored(n, r[2])'
    BY <1>2 DEF ReportedAt
  <2>1. Stored(n, r[2])
    BY <1>3 DEF SoundAt, ReportedAt
  <2>2. PICK i \in DOMAIN dir[n].table : dir[n].table[i] = r[2] /\ dir[n].data[i] = r[2]
    BY <2>1 DEF Stored
  <2>3. i \in 1 .. Len(old.fm.table) /\ old.fm.table[i] = r[2]
    <3>1. i \in 1 .. Len(dir[n].table)
      BY <1>6
    <3>2. Len(dir[n].table) <= Len(old.fm.table) /\ dir[n].table[i] = old.fm.table[i]
      BY <3>1, <1>6, <1>7, PrefixIs DEF Extends
    <3> QED BY <2>2, <3>1, <3>2, <1>6
  <2>4. i \in DOMAIN old.fm.table
    BY <2>3, <1>6
  <2>5. CASE UNCHANGED dir
    BY <2>1, <2>5 DEF Stored
  <2>6. CASE dir'[n].opens /\ dir'[n].table = old.fm.table /\ dir'[n].data = dir[n].data
    BY <2>2, <2>3, <2>4, <2>6 DEF Stored
  <2> QED BY <1>9, <2>5, <2>6
<1>12. ASSUME Running(p)' PROVE Filed(p, n)'
  <2>1. new.steps \notin Unwritten /\ new.steps # AfterFile
    BY <1>8, <1>12, KindsOfLists, AllDifferent
  <2>2. /\ Len(old.fm.table) \in Places /\ old.fm.table[Len(old.fm.table)] = old.file
        /\ dir[n].data[Len(old.fm.table)] = old.file
    BY <1>4, <1>5 DEF Filed, Unwritten
  <2>3. Len(old.fm.table) \in DOMAIN old.fm.table
    BY <1>6, <2>2, SessionsAssumption DEF Places
  <2>4. dir'[n].opens /\ dir'[n].table = old.fm.table /\ dir'[n].data = dir[n].data
    <3>1. ~ Throw(p, old.fm)
      BY <1>1, <1>12, JobFields, Throws DEF Running
    <3>2. dir' = [dir EXCEPT ![n] = [dir[n] EXCEPT !.opens = TRUE, !.table = old.fm.table]]
      BY <3>1, <1>6 DEF WriteFileTable, Target
    <3>3. dir'[n] = [dir[n] EXCEPT !.opens = TRUE, !.table = old.fm.table]
      BY <3>2, <1>6
    <3> QED BY <3>3, <1>6 DEF Containers
  <2>5. Stored(n, jobs[p].file)'
    BY <2>2, <2>3, <2>4, <1>8 DEF Stored
  <2> QED BY <1>8, <2>1, <2>5 DEF Filed
<1> QED BY <1>2, <1>5, <1>10, <1>11, <1>12, AtTarget

LEMMA DiskOpenExisting ==
  ASSUME FEInv, NEW p \in Programs, OpenExisting(p, {fileManager}), UNCHANGED guiVars,
         NEW n \in Names, n = jobs[p].fm.name, Kept(n)'
  PROVE  SoundAt(n)'
<1> DEFINE old == jobs[p]  new == jobs'[p]  opened == [jobs[p].fm EXCEPT !.open = TRUE]
<1>1. SessionTypes /\ JobsSound /\ (Kept(n) => SoundAt(n))
  BY NameByName DEF FEInv, Types
<1>2. JobMoves(p) /\ UNCHANGED <<dir, exclusive, reported, truncated>>
  BY <1>1, MovesOpenExisting DEF OpenExisting
<1>3. Running(p) /\ old.steps # <<>> /\ old.steps \in {Open, OpenAdd, OpenRead} /\ ~ old.fm.open
  <2>1. Running(p) /\ old.steps # <<>> /\ Head(old.steps) = "open"
    BY DEF OpenExisting, At
  <2>2. old.steps \in {Open, OpenAdd, OpenRead}
    BY <2>1, <1>1, JobFields, StepTaken
  <2> QED BY <2>1, <2>2, <1>1, JobHolds DEF Unopened
<1>4. Kept(n)
  BY <1>2 DEF Kept, OpenExisting, Target
<1>5. SoundAt(n)
  BY <1>1, <1>4
<1>6. CASE Throw(p, old.fm)
  <2>1. ~ new.fm.open
    BY <1>1, <1>3, <1>6, JobFields, Throws
  <2> QED BY <1>2, <1>5, <2>1, NothingHeld
<1>7. CASE /\ MayWrite(n, {fileManager}) /\ Proceed(p, opened)
           /\ shared' = IF Holders(n, {fileManager}) # {} THEN shared \cup {n} ELSE shared
  <2>1. Alone(p, n)
    <3>1. CASE exclusive
      BY <1>7, <3>1, MayWriteAlone DEF Alone
    <3>2. CASE ~ exclusive
      <4>1. Holders(n, {fileManager}) = {}
        BY <1>2, <1>7, <3>2 DEF Kept
      <4> QED BY <4>1 DEF Holders, Alone, Holds
    <3> QED BY <3>1, <3>2
  <2>2. new.steps \in Unread /\ new.outcome = "running"
    <3>1. opened \in Managers
      BY <1>1, JobFields
    <3>2. new.steps = Tail(old.steps) /\ new.outcome = "running"
      <4> HIDE DEF opened
      <4> QED BY <3>1, <1>1, <1>3, <1>7, Proceeds DEF Running
    <3> QED BY <3>2, <1>3, HeadsAndTails DEF Unread
  <2>3. ~ TableRead(p)'
    BY <2>2 DEF TableRead
  <2>4. Filed(p, n)'
    BY <2>2, KindsOfLists DEF Filed
  <2>5. ReportedAt(n)'
    BY <1>2, <1>5 DEF SoundAt, ReportedAt, Stored
  <2> QED BY <1>2, <2>1, <2>3, <2>4, <2>5, AtTarget
<1> QED BY <1>6, <1>7 DEF OpenExisting, Target

LEMMA DiskReadMeta ==
  ASSUME FEInv, NEW p \in Programs, ReadMeta(p), UNCHANGED guiVars,
         NEW n \in Names, n = jobs[p].fm.name, Kept(n)'
  PROVE  SoundAt(n)'
<1> DEFINE old == jobs[p]  new == jobs'[p]  read == [jobs[p].fm EXCEPT !.table = dir[n].table]
<1>1. SessionTypes /\ JobsSound /\ (Kept(n) => SoundAt(n))
  BY NameByName DEF FEInv, Types
<1>2. JobMoves(p) /\ UNCHANGED <<dir, exclusive, reported, truncated, shared>>
  BY <1>1, MovesReadMeta DEF ReadMeta
<1>3. SoundAt(n)
  BY <1>1, <1>2 DEF Kept
<1>4. Running(p) /\ old.steps # <<>> /\ old.steps \in {Meta, MetaAdd, MetaRead} /\ old.fm.open
  <2>1. Running(p) /\ old.steps # <<>> /\ Head(old.steps) = "readMeta"
    BY DEF ReadMeta, At
  <2>2. old.steps \in {Meta, MetaAdd, MetaRead}
    BY <2>1, <1>1, JobFields, StepTaken
  <2>3. old.steps \notin Unopened
    BY <2>2, KindsOfLists DEF Unread
  <2> QED BY <2>1, <2>2, <2>3, <1>1, JobHolds
<1>5. Alone(p, n)
  BY <1>3, <1>4, HeldAlone
<1>6. ReportedAt(n)'
  BY <1>2, <1>3 DEF SoundAt, ReportedAt, Stored
<1>7. CASE Throw(p, old.fm)
  <2>1. new.steps = <<>> /\ new.outcome = "error"
    BY <1>1, <1>7, JobFields, Throws
  <2>2. ~ (p = "gui" /\ call \in {"add", "extract"})
    <3> SUFFICES ASSUME p = "gui", call \in {"add", "extract"} PROVE FALSE
      OBVIOUS
    <3>1. Alive
      BY DEF FEInv, GuiGone
    <3>2. AtWork
      BY <1>4, <3>1 DEF FEInv, GuiInv, AtRest, NoJob, Running
    <3>3. old.steps \in OfAdd \cup OfExtract
      BY <3>2 DEF AtWork
    <3> QED BY <1>4, <3>3, AllDifferent DEF OfAdd, OfExtract
  <2>3. ~ TableRead(p)'
    BY <2>1, <2>2 DEF TableRead, guiVars
  <2> QED BY <1>2, <1>5, <1>6, <2>1, <2>3, AtTarget DEF Running
<1>8. CASE Proceed(p, read)
  <2>1. read \in Managers /\ read.table = dir[n].table /\ dir[n].table \in Seq(Nat)
    BY <1>1, Containers1, JobFields DEF Managers
  <2>2. new.steps = Tail(old.steps) /\ new.fm = read /\ new.file = old.file
    <3> HIDE DEF read
    <3> QED BY <2>1, <1>1, <1>4, <1>8, Proceeds
  <2>3. Extends(jobs[p].fm, n)'
    BY <2>1, <2>2, <1>2, Prefixes1 DEF Extends
  <2>4. new.steps \in {<<>>, Add, Read} /\ (new.steps = <<>> => old.steps = Meta)
    BY <2>2, <1>4, HeadsAndTails
  <2>5. new.steps = <<>> => new.file = 0
    BY <2>2, <2>4, <1>1, <1>4 DEF JobsSound, JobSound, OnlyReads, Running
  <2>6. new.steps \notin Unwritten /\ new.steps \notin {AfterTable, AfterFile}
    BY <2>4, KindsOfLists, AllDifferent
  <2>7. Filed(p, n)'
    BY <2>4, <2>5, <2>6, AllDifferent DEF Filed
  <2> QED BY <1>2, <1>5, <1>6, <2>3, <2>7, AtTarget
<1> QED BY <1>7, <1>8 DEF ReadMeta, Target

LEMMA DiskQuietly ==
  ASSUME FEInv, NEW p \in Programs, ReadFiles(p) \/ CopyBrowserViewer(p), UNCHANGED guiVars,
         NEW n \in Names, n = jobs[p].fm.name, Kept(n)'
  PROVE  SoundAt(n)'
<1> DEFINE old == jobs[p]  new == jobs'[p]
<1>1. SessionTypes /\ JobsSound /\ (Kept(n) => SoundAt(n))
  BY NameByName DEF FEInv, Types
<1>2. /\ JobMoves(p) /\ UNCHANGED <<dir, exclusive, reported, truncated, shared>>
      /\ Proceed(p, old.fm) \/ Throw(p, old.fm) \/ UNCHANGED jobs
  BY <1>1, MovesQuietly DEF ReadFiles, CopyBrowserViewer, Hang
<1>3. SoundAt(n)
  BY <1>1, <1>2 DEF Kept
<1>4. Running(p) /\ old.steps # <<>> /\ old.steps \in {Read, AfterTable} /\ old.fm.open
  <2>1. Running(p) /\ old.steps # <<>> /\ Head(old.steps) \in {"extract", "copyBrowserViewer"}
    BY DEF ReadFiles, CopyBrowserViewer, At
  <2>2. old.steps \in {Read, AfterTable}
    BY <2>1, <1>1, JobFields, StepTaken
  <2> QED BY <2>1, <2>2, <1>1, JobHolds, KindsOfLists
<1>5. Alone(p, n) /\ Filed(p, n) /\ Extends(old.fm, n)
  <2>1. old.steps \notin Unread
    BY <1>4, KindsOfLists
  <2> QED BY <2>1, <1>3, <1>4, HeldAlone DEF SoundAt, FiledAt, HoldersExtend, TableRead, Holds, Running
<1>6. ReportedAt(n)'
  BY <1>2, <1>3 DEF SoundAt, ReportedAt, Stored
<1>7. new.fm = old.fm /\ new.file = old.file /\ (new.steps = <<>> \/ new = old)
  <2>1. Tail(old.steps) = <<>>
    BY <1>4, HeadsAndTails
  <2> QED BY <2>1, <1>1, <1>2, <1>4, JobFields, Proceeds, Throws
<1>8. Extends(jobs[p].fm, n)'
  BY <1>2, <1>5, <1>7 DEF Extends
<1>9. ASSUME new.steps = <<>> PROVE Filed(p, n)'
  <2>1. old.file # 0 => Stored(n, old.file)
    BY <1>1, <1>4, <1>5 DEF Filed, JobsSound, JobSound, OnlyReads, Running
  <2>2. new.file # 0 => Stored(n, jobs[p].file)'
    BY <2>1, <1>2, <1>7 DEF Stored
  <2>3. <<>> \notin Unwritten /\ <<>> # AfterFile
    BY KindsOfLists, AllDifferent
  <2> QED BY <1>7, <1>9, <2>2, <2>3 DEF Filed
<1>10. ASSUME new = old PROVE Filed(p, n)'
  BY <1>2, <1>5, <1>10 DEF Filed, Stored
<1> QED BY <1>2, <1>5, <1>6, <1>7, <1>8, <1>9, <1>10, AtTarget

LEMMA DiskReturn ==
  ASSUME FEInv, NEW p \in Programs, Return(p), UNCHANGED guiVars,
         NEW n \in Names, n = jobs[p].fm.name, Kept(n)'
  PROVE  SoundAt(n)'
<1> DEFINE old == jobs[p]  new == jobs'[p]
<1>1. SessionTypes /\ JobsSound /\ (Kept(n) => SoundAt(n))
  BY NameByName DEF FEInv, Types
<1>2. /\ JobMoves(p) /\ UNCHANGED <<dir, exclusive, truncated, shared>>
      /\ reported' = IF old.file = 0 THEN reported ELSE reported \cup {<<n, old.file>>}
  BY <1>1, MovesReturn DEF Return, Target
<1>3. SoundAt(n)
  BY <1>1, <1>2 DEF Kept
<1>4. Running(p) /\ old.steps = <<>> /\ old.fm.open /\ old.file \in Nat
  <2>1. Running(p) /\ old.steps = <<>>
    BY DEF Return
  <2> QED BY <2>1, <1>1, JobFields, JobHolds, KindsOfLists
<1>5. Alone(p, n) /\ Filed(p, n) /\ Extends(old.fm, n)
  <2>1. old.steps \notin Unread
    BY <1>4, KindsOfLists
  <2> QED BY <2>1, <1>3, <1>4, HeldAlone DEF SoundAt, FiledAt, HoldersExtend, TableRead, Holds, Running
<1>6. new.fm = old.fm /\ new.outcome = "ok"
  <2>1. jobs' = [jobs EXCEPT ![p] = [jobs[p] EXCEPT !.outcome = "ok"]] /\ jobs[p] \in JobRecords
    BY <1>1, JobFields DEF Return
  <2> QED BY <2>1, <1>1 DEF SessionTypes, JobRecords
<1>7. Extends(jobs[p].fm, n)'
  BY <1>2, <1>5, <1>6 DEF Extends
<1>8. ReportedAt(n)'
  <2> SUFFICES ASSUME NEW r \in reported', r[1] = n PROVE Stored(n, r[2])'
    BY DEF ReportedAt
  <2>1. CASE r \in reported
    BY <2>1, <1>2, <1>3 DEF SoundAt, ReportedAt, Stored
  <2>2. CASE r = <<n, old.file>> /\ old.file # 0
    BY <2>2, <1>2, <1>4, <1>5 DEF Filed, Stored
  <2> QED BY <2>1, <2>2, <1>2
<1> QED BY <1>2, <1>5, <1>6, <1>7, <1>8, AtTarget DEF Running

\* Every step of a job keeps the invariant.
LEMMA JobStepKeeps ==
  ASSUME FEInv, NEW p \in Programs, JobStep(p, {fileManager}), UNCHANGED <<guiVars, cliVars>>
  PROVE  FEInv'
<1>1. SessionTypes /\ JobsSound /\ GuiInv /\ CliInv /\ Types
  BY DEF FEInv, Types
<1>2. SessionTypes' /\ JobMoves(p)
  BY <1>1, JobStepMoves
<1>3. Types'
  BY <1>1, <1>2 DEF Types, GuiTypes, CliTypes, guiVars, controllerVars, pageVars, cliVars
<1>4. JobsSound' /\ GuiInv' /\ CliInv'
  BY <1>1, <1>2, SoundAfter, GuiAfterJob, CliAfterJob
<1>5. GuiGone' /\ ManagerOpen'
  BY DEF FEInv, GuiGone, ManagerOpen, Alive, guiVars, controllerVars, pageVars
<1>6. DiskInv'
  <2> DEFINE n0 == jobs[p].fm.name
  <2>1. Witnesses /\ \A n \in Names : Kept(n) => SoundAt(n)
    BY <1>1, NameByName DEF FEInv
  <2>2. /\ truncated \subseteq truncated' /\ shared \subseteq shared' /\ exclusive' = exclusive
        /\ \A r \in reported' : r \in reported \/ r[1] = n0
        /\ reported' = reported \/ Return(p)
    <3>1. exclusive' = exclusive
      BY <1>2 DEF JobMoves
    <3>2. CASE Return(p)
      BY <3>1, <3>2 DEF Return, Target
    <3>3. CASE CreateContainerFile(p, {fileManager})
      <4>1. reported' = reported
        BY <3>3 DEF CreateContainerFile
      <4>2. truncated \subseteq truncated' /\ shared \subseteq shared'
        BY <3>3 DEF CreateContainerFile
      <4> QED BY <3>1, <4>1, <4>2
    <3>4. CASE OpenExisting(p, {fileManager})
      <4>1. reported' = reported /\ truncated' = truncated /\ shared \subseteq shared'
        BY <3>4 DEF OpenExisting
      <4> QED BY <3>1, <4>1
    <3>5. CASE UNCHANGED <<reported, truncated, shared>>
      BY <3>1, <3>5
    <3> QED BY <3>2, <3>3, <3>4, <3>5 DEF JobStep, WriteAllSlots, WriteChunks, WriteFileTable,
                ReadMeta, ReadFiles, CopyBrowserViewer
  <2>3. ASSUME NEW n \in Names, Kept(n)' PROVE SoundAt(n)'
    <3>1. CASE n # n0
      <4>1. SoundAt(n)
        BY <2>1, <2>2, <2>3 DEF Kept
      <4> QED BY <4>1, <3>1, <1>2, <2>2, Elsewhere
    <3>2. CASE n = n0
      BY <3>2, <2>3, DiskCreateContainerFile, DiskWriteAllSlots, DiskWriteChunks,
         DiskWriteFileTable, DiskOpenExisting, DiskReadMeta, DiskQuietly, DiskReturn DEF JobStep
    <3> QED BY <3>1, <3>2
  <2>4. Witnesses'
    <3>1. \A m \in Names : dir[m].there => dir'[m].there
      BY <1>2 DEF JobMoves
    <3>2. fileManager' = fileManager /\ (fileManager.open => fileManager.name \in Names)
      BY DEF guiVars, controllerVars, FEInv, ManagerOpen, NoManager
    <3>3. \A r \in reported : r[1] \in Names
      BY <1>1 DEF SessionTypes
    <3>4. Return(p) => dir'[n0].there
      <4>1. Return(p) => Running(p) /\ jobs[p].fm.open
        BY <1>1, JobHolds, KindsOfLists DEF Return
      <4> QED BY <4>1, <1>1, <3>1, JobHolds
    <3>5. \A r \in reported' : dir'[r[1]].there
      BY <2>1, <2>2, <3>1, <3>3, <3>4 DEF Witnesses
    <3> QED BY <2>1, <3>1, <3>2, <3>5 DEF Witnesses
  <2> QED BY <1>2, <2>3, <2>4, NameByNameAfter
<1> QED BY <1>3, <1>4, <1>5, <1>6 DEF FEInv

-----------------------------------------------------------------------------
(***************************************************************************)
(* The window and the command line: FileManagers change hands, the disk    *)
(* does not change.                                                        *)
(***************************************************************************)
DiskStill == UNCHANGED <<dir, exclusive, reported, truncated, shared>>

\* Files are closed, none is opened.
LEMMA Released ==
  ASSUME SessionTypes, SessionTypes', DiskInv, DiskStill,
         \A q \in Programs : jobs'[q].fm.open =>
           jobs'[q] = jobs[q] /\ (TableRead(q)' => TableRead(q)),
         fileManager'.open => fileManager' = fileManager
  PROVE  DiskInv'
<1>1. Witnesses /\ \A n \in Names : Kept(n) => SoundAt(n)
  BY NameByName
<1>2. Witnesses'
  BY <1>1 DEF Witnesses, DiskStill
<1>3. ASSUME NEW n \in Names, Kept(n)' PROVE SoundAt(n)'
  <2>1. SoundAt(n)
    BY <1>1, <1>3 DEF Kept, DiskStill
  <2>2. \A q \in Programs : Holds(jobs[q].fm, n)' =>
          jobs'[q] = jobs[q] /\ (TableRead(q)' => TableRead(q)) /\ Holds(jobs[q].fm, n)
    BY DEF Holds
  <2>3. Holds(fileManager, n)' => fileManager' = fileManager /\ Holds(fileManager, n)
    BY DEF Holds
  <2>4. OneHolder(n)'
    BY <2>1, <2>2, <2>3 DEF SoundAt, OneHolder
  <2>5. HoldersExtend(n)'
    BY <2>1, <2>2, <2>3 DEF SoundAt, HoldersExtend, Extends, DiskStill
  <2>6. FiledAt(n)'
    <3> SUFFICES ASSUME NEW q \in Programs, Running(q)', Holds(jobs[q].fm, n)' PROVE Filed(q, n)'
      BY DEF FiledAt
    <3>1. jobs'[q] = jobs[q] /\ Filed(q, n)
      BY <2>1, <2>2 DEF SoundAt, FiledAt, Running
    <3> QED BY <3>1 DEF Filed, Stored, DiskStill
  <2>7. ReportedAt(n)'
    BY <2>1 DEF SoundAt, ReportedAt, Stored, DiskStill
  <2> QED BY <2>4, <2>5, <2>6, <2>7 DEF SoundAt
<1> QED BY <1>2, <1>3, NameByNameAfter

\* The worker takes the open container.
LEMMA Taken ==
  ASSUME SessionTypes, SessionTypes', DiskInv, DiskStill, jobs["gui"] = NoJob,
         \A q \in Programs : q # "gui" => jobs'[q] = jobs[q],
         jobs'["gui"].fm = fileManager, jobs'["gui"].steps \in {Add, Read},
         ~ fileManager'.open
  PROVE  DiskInv'
<1>1. Witnesses /\ \A n \in Names : Kept(n) => SoundAt(n)
  BY NameByName
<1>2. Witnesses'
  BY <1>1 DEF Witnesses, DiskStill
<1>3. ASSUME NEW n \in Names, Kept(n)' PROVE SoundAt(n)'
  <2>1. SoundAt(n)
    BY <1>1, <1>3 DEF Kept, DiskStill
  <2>2. ~ Holds(fileManager, n)' /\ (Holds(jobs["gui"].fm, n)' <=> Holds(fileManager, n))
    BY DEF Holds
  <2>3. \A q \in Programs : q # "gui" => (Holds(jobs[q].fm, n)' <=> Holds(jobs[q].fm, n))
    BY DEF Holds
  <2>4. OneHolder(n)'
    BY <2>1, <2>2, <2>3, GuiAssumption DEF SoundAt, OneHolder
  <2>5. HoldersExtend(n)'
    <3>1. Holds(jobs["gui"].fm, n)' => Extends(jobs["gui"].fm, n)'
      BY <2>1, <2>2 DEF SoundAt, HoldersExtend, Extends, DiskStill
    <3>2. ASSUME NEW q \in Programs, q # "gui", Holds(jobs[q].fm, n)', TableRead(q)'
          PROVE  Extends(jobs[q].fm, n)'
      <4>1. TableRead(q)
        BY <3>2 DEF TableRead
      <4> QED BY <2>1, <2>3, <3>2, <4>1 DEF SoundAt, HoldersExtend, Extends, DiskStill
    <3> QED BY <2>2, <3>1, <3>2 DEF HoldersExtend
  <2>6. FiledAt(n)'
    <3> SUFFICES ASSUME NEW q \in Programs, Running(q)', Holds(jobs[q].fm, n)' PROVE Filed(q, n)'
      BY DEF FiledAt
    <3>1. CASE q = "gui"
      BY <3>1, AllDifferent, KindsOfLists DEF Filed
    <3>2. CASE q # "gui"
      <4>1. jobs'[q] = jobs[q] /\ Filed(q, n)
        BY <2>1, <2>3, <3>2 DEF SoundAt, FiledAt, Running
      <4> QED BY <4>1 DEF Filed, Stored, DiskStill
    <3> QED BY <3>1, <3>2
  <2>7. ReportedAt(n)'
    BY <2>1 DEF SoundAt, ReportedAt, Stored, DiskStill
  <2> QED BY <2>4, <2>5, <2>6, <2>7 DEF SoundAt
<1> QED BY <1>2, <1>3, NameByNameAfter

\* The worker's container becomes the window's.
LEMMA GivenBack ==
  ASSUME SessionTypes, SessionTypes', JobsSound, DiskInv, DiskStill, TableRead("gui"),
         \A q \in Programs : q # "gui" => jobs'[q] = jobs[q],
         jobs'["gui"] = NoJob, fileManager' = jobs["gui"].fm
  PROVE  DiskInv'
<1>1. Witnesses /\ \A n \in Names : Kept(n) => SoundAt(n)
  BY NameByName
<1>2. Witnesses'
  BY <1>1, GuiAssumption DEF Witnesses, DiskStill, JobsSound, JobSound
<1>3. ASSUME NEW n \in Names, Kept(n)' PROVE SoundAt(n)'
  <2>1. SoundAt(n)
    BY <1>1, <1>3 DEF Kept, DiskStill
  <2>2. ~ Holds(jobs["gui"].fm, n)' /\ (Holds(fileManager, n)' <=> Holds(jobs["gui"].fm, n))
    BY DEF Holds, NoJob, NoManager
  <2>3. \A q \in Programs : q # "gui" => (Holds(jobs[q].fm, n)' <=> Holds(jobs[q].fm, n))
    BY DEF Holds
  <2>4. OneHolder(n)'
    BY <2>1, <2>2, <2>3, GuiAssumption DEF SoundAt, OneHolder
  <2>5. HoldersExtend(n)'
    <3>1. Holds(fileManager, n)' => Extends(fileManager, n)'
      BY <2>1, <2>2, GuiAssumption DEF SoundAt, HoldersExtend, Extends, DiskStill
    <3>2. ASSUME NEW q \in Programs, q # "gui", Holds(jobs[q].fm, n)', TableRead(q)'
          PROVE  Extends(jobs[q].fm, n)'
      <4>1. TableRead(q)
        BY <3>2 DEF TableRead
      <4> QED BY <2>1, <2>3, <3>2, <4>1 DEF SoundAt, HoldersExtend, Extends, DiskStill
    <3> QED BY <2>2, <3>1, <3>2 DEF HoldersExtend
  <2>6. FiledAt(n)'
    <3> SUFFICES ASSUME NEW q \in Programs, Running(q)', Holds(jobs[q].fm, n)' PROVE Filed(q, n)'
      BY DEF FiledAt
    <3>1. q # "gui"
      BY <2>2
    <3>2. jobs'[q] = jobs[q] /\ Filed(q, n)
      BY <2>1, <2>3, <3>1 DEF SoundAt, FiledAt, Running
    <3> QED BY <3>2 DEF Filed, Stored, DiskStill
  <2>7. ReportedAt(n)'
    BY <2>1 DEF SoundAt, ReportedAt, Stored, DiskStill
  <2> QED BY <2>4, <2>5, <2>6, <2>7 DEF SoundAt
<1> QED BY <1>2, <1>3, NameByNameAfter

LEMMA JobOf ==
  ASSUME NEW s \in StepLists, NEW fm \in Managers, NEW f \in Nat
  PROVE  /\ Job(s, fm, f) \in JobRecords
         /\ Job(s, fm, f).steps = s /\ Job(s, fm, f).fm = fm
         /\ Job(s, fm, f).file = f /\ Job(s, fm, f).outcome = "running"
BY DEF Job, JobRecords

LEMMA NoJobIs ==
  /\ NoJob \in JobRecords /\ NoJob.steps = <<>> /\ NoJob.outcome = "none" /\ ~ NoJob.fm.open
  /\ NoManager \in Managers /\ ~ NoManager.open /\ NoManager.name = 0 /\ NoManager.table = <<>>
  /\ \A n \in Names : /\ Manager(n) \in Managers /\ Manager(n).name = n /\ ~ Manager(n).open
                      /\ Manager(n).table = <<>>
<1>1. <<>> \in Seq(Nat) /\ <<>> \in StepLists
  BY DEF StepLists, OfCreate
<1>2. /\ NoManager \in Managers /\ ~ NoManager.open /\ NoManager.name = 0
      /\ NoManager.table = <<>>
  BY <1>1 DEF NoManager, Managers
<1>3. NoJob \in JobRecords /\ NoJob.steps = <<>> /\ NoJob.outcome = "none" /\ ~ NoJob.fm.open
  BY <1>1, <1>2 DEF NoJob, JobRecords
<1>4. ASSUME NEW n \in Names
      PROVE  /\ Manager(n) \in Managers /\ Manager(n).name = n /\ ~ Manager(n).open
             /\ Manager(n).table = <<>>
  BY <1>1 DEF Manager, NoManager, Managers
<1> QED BY <1>2, <1>3, <1>4

\* A program begins a job or is done with one.
LEMMA Replaced ==
  ASSUME SessionTypes, JobsSound, NEW p \in Programs, NEW job \in JobRecords, DiskStill,
         jobs' = [jobs EXCEPT ![p] = job], JobSound(job)
  PROVE  /\ SessionTypes' /\ JobsSound'
         /\ jobs'[p] = job /\ \A q \in Programs : q # p => jobs'[q] = jobs[q]
<1>1. /\ jobs' \in [Programs -> JobRecords]
      /\ jobs'[p] = job /\ \A q \in Programs : q # p => jobs'[q] = jobs[q]
  BY DEF SessionTypes
<1>2. SessionTypes'
  BY <1>1 DEF SessionTypes, DiskStill
<1>3. ASSUME NEW q \in Programs PROVE JobSound(jobs[q])'
  <2>1. JobSound(jobs'[q])
    BY <1>1 DEF JobsSound
  <2> QED BY <2>1 DEF JobSound, DiskStill
<1> QED BY <1>1, <1>2, <1>3 DEF JobsSound

LEMMA Idle == JobSound(NoJob)
BY NoJobIs DEF JobSound

\* A step that leaves the jobs and the disk alone and takes no container.
LEMMA SessionStill ==
  ASSUME SessionTypes, JobsSound, DiskInv, UNCHANGED sessionVars,
         fileManager'.open => fileManager' = fileManager,
         call' \in {"add", "extract"} => call' = call
  PROVE  SessionTypes' /\ JobsSound' /\ DiskInv'
<1>1. DiskStill /\ jobs' = jobs
  BY DEF DiskStill, sessionVars
<1>2. SessionTypes'
  BY <1>1 DEF SessionTypes, DiskStill
<1>3. JobsSound'
  BY <1>1 DEF JobsSound, JobSound, DiskStill
<1>4. \A q \in Programs : TableRead(q)' => TableRead(q)
  BY <1>1 DEF TableRead
<1> QED BY <1>1, <1>2, <1>3, <1>4, Released

\* A step of the command line leaves the window as it was.
LEMMA WindowStill ==
  ASSUME Types, GuiInv, GuiGone, ManagerOpen, UNCHANGED guiVars, jobs'["gui"] = jobs["gui"]
  PROVE  GuiInv' /\ GuiGone' /\ ManagerOpen' /\ GuiTypes'
<1>1. /\ UNCHANGED <<fileManager, busy, containerOpen, path, list, page, waitingForOpen, overlay,
                     call, queue, ops, addFailed, overlapped>>
  BY DEF guiVars, controllerVars, pageVars
<1>2. Alive' = Alive /\ (Accounted(fileManager) <=> Accounted(fileManager)')
      /\ (Shows(fileManager) <=> Shows(fileManager)')
      /\ (Shows(jobs["gui"].fm) <=> Shows(jobs["gui"].fm)')
  BY <1>1 DEF Alive, Accounted, Shows
<1>3. AtRest <=> AtRest'
  BY <1>1, <1>2 DEF AtRest
<1>4. ResultLast <=> ResultLast'
  BY <1>1 DEF ResultLast
<1>5. AtWork => AtWork'
  BY <1>1, <1>2, <1>4 DEF AtWork
<1>6. GuiInv'
  BY <1>1, <1>2, <1>3, <1>5 DEF GuiInv
<1> QED BY <1>1, <1>2, <1>6 DEF GuiGone, ManagerOpen, GuiTypes, Types

LEMMA StartCommandKeeps ==
  ASSUME FEInv, NEW cmd \in {"create", "add", "read"}, NEW given \in Names \cup {0},
         StartCommand(cmd, given), UNCHANGED guiVars
  PROVE  FEInv'
<1>1. Types /\ SessionTypes /\ JobsSound /\ DiskInv /\ GuiInv /\ GuiGone /\ ManagerOpen /\ CliInv
  BY DEF FEInv, Types
<1>2. UNCHANGED sessionVars /\ command = NoCommand /\ jobs["cli"] = NoJob
  BY <1>1 DEF StartCommand, CliInv
<1>3. SessionTypes' /\ JobsSound' /\ DiskInv'
  BY <1>1, <1>2, SessionStill DEF guiVars, controllerVars
<1>4. GuiInv' /\ GuiGone' /\ ManagerOpen' /\ GuiTypes'
  BY <1>1, <1>2, WindowStill DEF sessionVars
<1> DEFINE c == ContainerFor(cmd, given)
<1>5. c \in Names
  <2>1. c # 0
    BY DEF StartCommand
  <2>2. CASE given # 0
    BY <2>2 DEF ContainerFor
  <2>3. CASE given = 0 /\ cmd = "create"
    BY <2>1, <2>3, NextIsFree DEF ContainerFor
  <2>4. CASE given = 0 /\ cmd # "create"
    <3> DEFINE found == {n \in Names : dir[n].there}
    <3>1. resolveExistingContainerPath # 0
      BY <2>1, <2>4 DEF ContainerFor
    <3>2. CASE 1 \in found
      BY <2>4, <3>2, SessionsAssumption DEF ContainerFor, resolveExistingContainerPath, Names
    <3>3. CASE 1 \notin found
      <4>1. Cardinality(found) = 1 /\ resolveExistingContainerPath = CHOOSE n \in found : TRUE
        BY <3>1, <3>3 DEF resolveExistingContainerPath
      <4>2. found # {}
        BY <4>1, FS_EmptySet
      <4> QED BY <4>1, <4>2, <2>4 DEF ContainerFor
    <3> QED BY <3>2, <3>3
  <2> QED BY <2>2, <2>3, <2>4
<1>6. /\ command' = [cmd |-> cmd, named |-> given # 0, name |-> c]
      /\ existed' = {n \in Names : dir[n].there} /\ commands' = commands + 1
  BY DEF StartCommand
<1>7. CliTypes'
  BY <1>1, <1>5, <1>6 DEF Types, CliTypes
<1>8. command'.cmd = cmd /\ command'.named = (given # 0) /\ command'.name = c
      /\ command' # NoCommand
  BY <1>6 DEF NoCommand
<1>9. cmd = "create" /\ given = 0 => c \in Names \ existed'
  <2> SUFFICES ASSUME cmd = "create", given = 0 PROVE c \notin existed'
    BY <1>5
  <2>1. c = nextAvailableContainerPath /\ c # 0
    BY DEF ContainerFor, StartCommand
  <2>2. ~ dir[c].there
    BY <2>1, NextIsFree
  <2> QED BY <1>6, <2>2
<1>10. jobs'["cli"].steps # Create
  BY <1>2, NoJobIs, AllDifferent DEF sessionVars
<1>11. CliInv'
  <2> HIDE DEF c
  <2> QED BY <1>5, <1>8, <1>9, <1>10 DEF CliInv
<1> QED BY <1>3, <1>4, <1>7, <1>11 DEF FEInv, Types

\* The calls of the command line, put together.
LEMMA PutTogether == Open \o Add = OpenAdd /\ Open \o Read = OpenRead
<1> DEFINE S == {"open", "readMeta", "writeChunks", "writeFileTableToAllSlots", "extract"}
<1>1. /\ Open \in Seq(S) /\ Add \in Seq(S) /\ Read \in Seq(S)
      /\ OpenAdd \in Seq(S) /\ OpenRead \in Seq(S)
  BY DEF Open, Add, Read, OpenAdd, OpenRead
<1>2. /\ Len(Open) = 2 /\ Open[1] = "open" /\ Open[2] = "readMeta"
      /\ Len(Add) = 2 /\ Add[1] = "writeChunks" /\ Add[2] = "writeFileTableToAllSlots"
      /\ Len(Read) = 1 /\ Read[1] = "extract"
      /\ Len(OpenAdd) = 4 /\ OpenAdd[1] = "open" /\ OpenAdd[2] = "readMeta"
      /\ OpenAdd[3] = "writeChunks" /\ OpenAdd[4] = "writeFileTableToAllSlots"
      /\ Len(OpenRead) = 3 /\ OpenRead[1] = "open" /\ OpenRead[2] = "readMeta"
      /\ OpenRead[3] = "extract"
  BY DEF Open, Add, Read, OpenAdd, OpenRead
<1> HIDE DEF S
<1>3. /\ Open \o Add \in Seq(S) /\ Len(Open \o Add) = 4
      /\ \A i \in 1 .. 4 : (Open \o Add)[i] = IF i <= 2 THEN Open[i] ELSE Add[i - 2]
  <2>1. /\ Open \o Add \in Seq(S) /\ Len(Open \o Add) = Len(Open) + Len(Add)
        /\ \A i \in 1 .. Len(Open) + Len(Add) :
             (Open \o Add)[i] = IF i <= Len(Open) THEN Open[i] ELSE Add[i - Len(Open)]
    BY <1>1, ConcatProperties
  <2> QED BY <1>2, <2>1
<1>4. /\ Open \o Read \in Seq(S) /\ Len(Open \o Read) = 3
      /\ \A i \in 1 .. 3 : (Open \o Read)[i] = IF i <= 2 THEN Open[i] ELSE Read[i - 2]
  <2>1. /\ Open \o Read \in Seq(S) /\ Len(Open \o Read) = Len(Open) + Len(Read)
        /\ \A i \in 1 .. Len(Open) + Len(Read) :
             (Open \o Read)[i] = IF i <= Len(Open) THEN Open[i] ELSE Read[i - Len(Open)]
    BY <1>1, ConcatProperties
  <2> QED BY <1>2, <2>1
<1>5. \A i \in 1 .. 4 : (Open \o Add)[i] = OpenAdd[i]
  BY <1>2, <1>3
<1>6. \A i \in 1 .. 3 : (Open \o Read)[i] = OpenRead[i]
  BY <1>2, <1>4
<1>7. Open \o Add = OpenAdd
  BY <1>1, <1>2, <1>3, <1>5, SeqEqual
<1> QED BY <1>1, <1>2, <1>4, <1>6, <1>7, SeqEqual

LEMMA PasswordGivenKeeps ==
  ASSUME FEInv, PasswordGiven, UNCHANGED guiVars
  PROVE  FEInv'
<1>1. Types /\ SessionTypes /\ JobsSound /\ DiskInv /\ GuiInv /\ GuiGone /\ ManagerOpen /\ CliInv
  BY DEF FEInv, Types
<1> DEFINE steps == Calls(command.cmd)  fm == Manager(command.name)
           file == IF command.cmd = "read" THEN 0 ELSE FirstFile + commands - 1
<1>2. DiskStill /\ command # NoCommand /\ command.name \in Names /\ jobs["cli"] = NoJob
      /\ UNCHANGED <<command, commands, existed>>
      /\ jobs' = [jobs EXCEPT !["cli"] = Job(steps, fm, file)]
  BY <1>1 DEF PasswordGiven, CliInv, DiskStill, cliVars
<1>3. command.cmd \in {"create", "add", "read"}
  BY <1>1, <1>2 DEF CliInv, Types, CliTypes
<1>4. /\ steps \in StepLists /\ steps \in Unopened
      /\ steps \in OnlyReads => command.cmd = "read"
      /\ steps = Create => command.cmd = "create"
  <2>1. Open \o Add = OpenAdd /\ Open \o Read = OpenRead
    BY PutTogether
  <2>2. CASE command.cmd = "create"
    BY <2>2, AllDifferent DEF Calls, StepLists, OfCreate, Unopened, OnlyReads
  <2>3. CASE command.cmd = "add"
    BY <2>1, <2>3, KindsOfLists, AllDifferent DEF Calls, StepLists, OfCommand, Unopened
  <2>4. CASE command.cmd = "read"
    BY <2>1, <2>4, AllDifferent DEF Calls, StepLists, OfCommand, Unopened
  <2> QED BY <1>3, <2>2, <2>3, <2>4
<1>5. fm \in Managers /\ fm.name = command.name /\ ~ fm.open /\ fm.table = <<>>
  BY <1>2, NoJobIs
<1>6. file \in Nat
  BY <1>1, CliAssumption DEF Types, CliTypes
<1>7. command.cmd = "read" => file = 0
  OBVIOUS
<1> HIDE DEF steps, fm, file
<1>8. /\ Job(steps, fm, file) \in JobRecords
      /\ Job(steps, fm, file).steps = steps /\ Job(steps, fm, file).fm = fm
      /\ Job(steps, fm, file).file = file /\ Job(steps, fm, file).outcome = "running"
  BY <1>4, <1>5, <1>6, JobOf
<1>9. JobSound(Job(steps, fm, file))
  BY <1>2, <1>4, <1>5, <1>7, <1>8 DEF JobSound
<1>10. /\ SessionTypes' /\ JobsSound' /\ jobs'["cli"] = Job(steps, fm, file)
       /\ \A q \in Programs : q # "cli" => jobs'[q] = jobs[q]
  BY <1>1, <1>2, <1>8, <1>9, CliAssumption, Replaced
<1>11. GuiInv' /\ GuiGone' /\ ManagerOpen' /\ GuiTypes'
  BY <1>1, <1>10, GuiAssumption, WindowStill
<1>12. DiskInv'
  <2>1. \A q \in Programs : jobs'[q].fm.open => jobs'[q] = jobs[q] /\ (TableRead(q)' => TableRead(q))
    BY <1>5, <1>8, <1>10 DEF TableRead, guiVars
  <2>2. fileManager' = fileManager
    BY DEF guiVars, controllerVars
  <2> QED BY <1>1, <1>2, <1>10, <2>1, <2>2, Released
<1>13. CliTypes' /\ CliInv'
  BY <1>1, <1>2, <1>4, <1>5, <1>8, <1>10 DEF Types, CliTypes, CliInv
<1> QED BY <1>10, <1>11, <1>12, <1>13 DEF FEInv, Types

LEMMA EndsKeeps ==
  ASSUME FEInv, Ends, UNCHANGED guiVars
  PROVE  FEInv'
<1>1. Types /\ SessionTypes /\ JobsSound /\ DiskInv /\ GuiInv /\ GuiGone /\ ManagerOpen /\ CliInv
  BY DEF FEInv, Types
<1>2. DiskStill /\ jobs' = [jobs EXCEPT !["cli"] = NoJob]
  BY DEF Ends, DiskStill
<1>3. /\ SessionTypes' /\ JobsSound' /\ jobs'["cli"] = NoJob
      /\ \A q \in Programs : q # "cli" => jobs'[q] = jobs[q]
  BY <1>1, <1>2, NoJobIs, Idle, CliAssumption, Replaced
<1>4. GuiInv' /\ GuiGone' /\ ManagerOpen' /\ GuiTypes'
  BY <1>1, <1>3, GuiAssumption, WindowStill
<1>5. DiskInv'
  <2>1. \A q \in Programs : jobs'[q].fm.open => jobs'[q] = jobs[q] /\ (TableRead(q)' => TableRead(q))
    BY <1>3, NoJobIs DEF TableRead, guiVars
  <2>2. fileManager' = fileManager
    BY DEF guiVars, controllerVars
  <2> QED BY <1>1, <1>2, <1>3, <2>1, <2>2, Released
<1>6. CliTypes' /\ CliInv'
  <2>1. command' = NoCommand /\ existed' = {} /\ commands' = commands
    BY DEF Ends
  <2>2. jobs'["cli"].steps # Create
    BY <1>3, NoJobIs, AllDifferent
  <2> QED BY <1>1, <1>3, <2>1, <2>2 DEF Types, CliTypes, CliInv, NoCommand
<1> QED BY <1>3, <1>4, <1>5, <1>6 DEF FEInv, Types

LEMMA CliStepKeeps ==
  ASSUME FEInv, CliSteps, UNCHANGED guiVars
  PROVE  FEInv'
BY StartCommandKeeps, PasswordGivenKeeps, EndsKeeps DEF CliSteps, CommandEnds, PromptLeft, Interrupted

\* A step of the window leaves the command under way as it was.
LEMMA CommandStill ==
  ASSUME Types, CliInv, UNCHANGED cliVars, jobs'["cli"] = jobs["cli"]
  PROVE  CliInv' /\ CliTypes'
BY DEF CliInv, Types, CliTypes, cliVars

\* A step of the pages: no FileManager moves.
LEMMA PageStepKeeps ==
  ASSUME FEInv, UNCHANGED <<sessionVars, cliVars, fileManager>>,
         call' \in {"add", "extract"} => call' = call,
         GuiTypes', GuiInv', GuiGone'
  PROVE  FEInv'
<1>1. SessionTypes' /\ JobsSound' /\ DiskInv'
  BY SessionStill DEF FEInv, Types
<1>2. CliInv' /\ CliTypes'
  BY CommandStill DEF FEInv, sessionVars
<1>3. ManagerOpen'
  BY DEF FEInv, ManagerOpen
<1> QED BY <1>1, <1>2, <1>3 DEF FEInv, Types

\* While the container and the worker stay as they are, so does what is known of them.
Untouched == UNCHANGED <<fileManager, containerOpen, path, list, addFailed, queue, call, busy>>
               /\ jobs'["gui"] = jobs["gui"]

LEMMA UntouchedParts ==
  ASSUME Untouched
  PROVE  /\ AtRest <=> AtRest'
         /\ ResultLast <=> ResultLast'
         /\ Accounted(fileManager) <=> Accounted(fileManager)'
         /\ Shows(fileManager) <=> Shows(fileManager)'
         /\ Shows(jobs["gui"].fm) <=> Shows(jobs["gui"].fm)'
BY DEF Untouched, AtRest, ResultLast, Accounted, Shows

LEMMA GoCreateKeeps ==
  ASSUME FEInv, GoCreate, UNCHANGED cliVars
  PROVE  FEInv'
<1>1. /\ page = "start" /\ ~ waitingForOpen /\ page' = "create"
      /\ UNCHANGED <<sessionVars, fileManager, waitingForOpen, overlay, ops, overlapped, call>>
      /\ Untouched
  BY DEF GoCreate, controllerVars, Untouched, sessionVars
<1>2. Alive /\ Alive' /\ GuiInv
  BY <1>1 DEF FEInv, Alive
<1>3. ~ overlay
  BY <1>1, <1>2 DEF GuiInv
<1>4. busy => AtWork'
  BY <1>1, <1>2, <1>3, UntouchedParts DEF GuiInv, AtWork, Untouched
<1>5. GuiInv'
  BY <1>1, <1>2, <1>3, <1>4, UntouchedParts DEF GuiInv, Untouched
<1>6. GuiGone' /\ GuiTypes'
  BY <1>1, <1>2 DEF GuiGone, GuiTypes, FEInv, Types, Untouched
<1> QED BY <1>1, <1>5, <1>6, PageStepKeeps

LEMMA BackFromCreateKeeps ==
  ASSUME FEInv, BackFromCreate, UNCHANGED cliVars
  PROVE  FEInv'
<1>1. /\ page = "create" /\ ~ busy /\ page' = "start" /\ ~ overlay' /\ overlay' = FALSE
      /\ UNCHANGED <<sessionVars, fileManager, waitingForOpen, ops, overlapped, call>>
      /\ Untouched
  BY DEF BackFromCreate, controllerVars, Untouched, sessionVars
<1>2. Alive /\ Alive' /\ GuiInv
  BY <1>1 DEF FEInv, Alive
<1>3. GuiInv'
  BY <1>1, <1>2, UntouchedParts DEF GuiInv, Untouched
<1>4. GuiGone' /\ GuiTypes'
  BY <1>1, <1>2 DEF GuiGone, GuiTypes, FEInv, Types, Untouched
<1> QED BY <1>1, <1>3, <1>4, PageStepKeeps

LEMMA TimerFiresKeeps ==
  ASSUME FEInv, TimerFires, UNCHANGED cliVars
  PROVE  FEInv'
<1>1. /\ overlay /\ page' = "start" /\ ~ overlay' /\ overlay' = FALSE
      /\ UNCHANGED <<sessionVars, fileManager, waitingForOpen, ops, overlapped, call>>
      /\ Untouched
  BY DEF TimerFires, controllerVars, Untouched, sessionVars
<1>2. Alive /\ Alive' /\ GuiInv /\ page = "create"
  BY <1>1 DEF FEInv, GuiGone, GuiInv, Alive
<1>3. busy => AtWork'
  BY <1>1, <1>2, UntouchedParts DEF GuiInv, AtWork, Untouched
<1>4. GuiInv'
  BY <1>1, <1>2, <1>3, UntouchedParts DEF GuiInv, Untouched
<1>5. GuiGone' /\ GuiTypes'
  BY <1>1, <1>2 DEF GuiGone, GuiTypes, FEInv, Types, Untouched
<1> QED BY <1>1, <1>4, <1>5, PageStepKeeps

LEMMA QuitKeeps ==
  ASSUME FEInv, Quit, UNCHANGED cliVars
  PROVE  FEInv'
<1>1. /\ UNCHANGED <<sessionVars, ops>> /\ fileManager' = NoManager /\ containerOpen' = FALSE
      /\ path' = 0 /\ list' = <<>> /\ addFailed' = FALSE /\ busy' = FALSE /\ call' = "none"
      /\ queue' = <<>> /\ page' = "closed" /\ waitingForOpen' = FALSE /\ overlay' = FALSE
      /\ overlapped' = FALSE
  BY DEF Quit, Closed
<1>2. <<>> \in Seq(Nat) /\ <<>> \in Seq({"progress", "result"})
  OBVIOUS
<1>3. SessionTypes' /\ JobsSound' /\ DiskInv'
  BY <1>1, NoJobIs, SessionStill DEF FEInv, Types
<1>4. CliInv' /\ CliTypes'
  BY <1>1, CommandStill DEF FEInv, sessionVars
<1>5. GuiTypes'
  BY <1>1, <1>2, NoJobIs DEF FEInv, Types, GuiTypes
<1>6. GuiInv' /\ GuiGone' /\ ManagerOpen'
  BY <1>1 DEF GuiInv, GuiGone, ManagerOpen, Alive
<1> QED BY <1>3, <1>4, <1>5, <1>6 DEF FEInv, Types

LEMMA BackFromFilesKeeps ==
  ASSUME FEInv, BackFromFiles, UNCHANGED cliVars
  PROVE  FEInv'
<1>1. /\ page = "files" /\ ~ busy /\ page' = "start"
      /\ fileManager' = NoManager /\ containerOpen' = FALSE /\ path' = 0 /\ list' = <<>>
      /\ addFailed' = FALSE
      /\ UNCHANGED <<sessionVars, busy, call, queue, waitingForOpen, overlay, ops, overlapped>>
  BY DEF BackFromFiles, Closed
<1>2. <<>> \in Seq(Nat)
  OBVIOUS
<1>3. Alive /\ Alive' /\ GuiInv /\ AtRest
  BY <1>1 DEF FEInv, GuiInv, Alive
<1>4. SessionTypes' /\ JobsSound' /\ DiskInv'
  BY <1>1, NoJobIs, SessionStill DEF FEInv, Types
<1>5. CliInv' /\ CliTypes'
  BY <1>1, CommandStill DEF FEInv, sessionVars
<1>6. GuiTypes'
  BY <1>1, <1>2, NoJobIs DEF FEInv, Types, GuiTypes
<1>7. AtRest'
  <2>1. Shows(fileManager)'
    BY <1>1, <1>2, NoJobIs, Prefixes1 DEF Shows
  <2> QED BY <1>1, <1>3, <2>1, NoJobIs DEF AtRest, Accounted, sessionVars
<1>8. GuiInv' /\ GuiGone' /\ ManagerOpen'
  BY <1>1, <1>3, <1>7 DEF GuiInv, GuiGone, ManagerOpen
<1> QED BY <1>4, <1>5, <1>6, <1>8 DEF FEInv, Types

\* runAsync with a FileManager that has nothing open yet, or with the window's.
LEMMA RunAsync ==
  ASSUME FEInv, ~ busy, Alive,
         NEW name, NEW s \in StepLists, NEW fm \in Managers, NEW f \in Nat,
         runAsync(name, s, fm, f), JobSound(Job(s, fm, f)), UNCHANGED cliVars,
         \/ ~ fm.open /\ UNCHANGED fileManager
         \/ fm = fileManager /\ s \in {Add, Read} /\ ~ fileManager'.open
  PROVE  /\ SessionTypes' /\ JobsSound' /\ DiskInv' /\ CliInv' /\ CliTypes'
         /\ AtRest /\ jobs'["gui"] = Job(s, fm, f)
         /\ busy' = TRUE /\ call' = name /\ queue' = queue /\ ops' = ops + 1
<1>1. /\ DiskStill /\ jobs' = [jobs EXCEPT !["gui"] = Job(s, fm, f)]
      /\ busy' = TRUE /\ call' = name /\ queue' = queue /\ ops' = ops + 1
  BY DEF runAsync, DiskStill
<1>2. AtRest /\ jobs["gui"] = NoJob
  BY DEF FEInv, GuiInv, AtRest
<1>3. /\ SessionTypes' /\ JobsSound' /\ jobs'["gui"] = Job(s, fm, f)
      /\ \A q \in Programs : q # "gui" => jobs'[q] = jobs[q]
  BY <1>1, JobOf, GuiAssumption, Replaced DEF FEInv, Types
<1>4. CliInv' /\ CliTypes'
  BY <1>3, CliAssumption, CommandStill DEF FEInv
<1>5. DiskInv'
  <2>1. CASE ~ fm.open /\ UNCHANGED fileManager
    <3>1. \A q \in Programs : jobs'[q].fm.open =>
            jobs'[q] = jobs[q] /\ (TableRead(q)' => TableRead(q))
      BY <1>3, <2>1, JobOf DEF TableRead
    <3> QED BY <1>1, <1>3, <2>1, <3>1, Released DEF FEInv, Types
  <2>2. CASE fm = fileManager /\ s \in {Add, Read} /\ ~ fileManager'.open
    BY <1>1, <1>2, <1>3, <2>2, JobOf, Taken DEF FEInv, Types
  <2> QED BY <2>1, <2>2
<1> QED BY <1>1, <1>2, <1>3, <1>4, <1>5

LEMMA ClickCreateKeeps ==
  ASSUME FEInv, ClickCreate, UNCHANGED cliVars
  PROVE  FEInv'
<1>1. PICK n \in Names : createContainer(n)
  BY DEF ClickCreate
<1>2. /\ page = "create" /\ ~ busy /\ runAsync("create", Create, Manager(n), ops + 1)
      /\ UNCHANGED <<fileManager, containerOpen, path, list, addFailed, page, waitingForOpen, overlay>>
      /\ overlapped' = (overlapped \/ overlay)
  BY <1>1 DEF ClickCreate, createContainer, MayStart, pageVars
<1>3. Alive /\ Alive' /\ GuiInv /\ ops + 1 \in Nat
  BY <1>2 DEF FEInv, Types, GuiTypes, Alive
<1>4. Create \in StepLists /\ Manager(n) \in Managers /\ Manager(n).name = n
      /\ ~ Manager(n).open /\ Manager(n).table = <<>>
  BY NoJobIs DEF StepLists, OfCreate
<1>5. JobSound(Job(Create, Manager(n), ops + 1))
  BY <1>3, <1>4, JobOf, KindsOfLists DEF JobSound, Unopened
<1> DEFINE job == Job(Create, Manager(n), ops + 1)
<1>6. /\ SessionTypes' /\ JobsSound' /\ DiskInv' /\ CliInv' /\ CliTypes'
      /\ AtRest /\ jobs'["gui"] = job
      /\ busy' = TRUE /\ call' = "create" /\ queue' = queue /\ ops' = ops + 1
  BY <1>2, <1>3, <1>4, <1>5, RunAsync
<1>7. job.steps = Create /\ job.outcome = "running"
  BY <1>3, <1>4, JobOf
<1>8. AtWork'
  <2>1. ResultLast'
    BY <1>6 DEF AtRest, ResultLast
  <2>2. Accounted(fileManager)' /\ Shows(fileManager)'
    BY <1>2, <1>6 DEF AtRest, Accounted, Shows
  <2> HIDE DEF job
  <2> QED BY <1>2, <1>6, <1>7, <2>1, <2>2 DEF AtWork, OfCreate
<1>9. GuiInv'
  BY <1>2, <1>3, <1>6, <1>8 DEF GuiInv
<1>10. GuiGone' /\ GuiTypes' /\ ManagerOpen'
  BY <1>2, <1>3, <1>6 DEF GuiGone, GuiTypes, FEInv, Types, ManagerOpen
<1> QED BY <1>6, <1>9, <1>10 DEF FEInv, Types

LEMMA ClickOpenKeeps ==
  ASSUME FEInv, ClickOpen, UNCHANGED cliVars
  PROVE  FEInv'
<1>1. PICK n \in Names : openContainer(n)
  BY DEF ClickOpen
<1>2. /\ page = "start" /\ ~ busy /\ runAsync("open", Open, Manager(n), 0)
      /\ UNCHANGED <<fileManager, containerOpen, path, list, addFailed, page, overlay, overlapped>>
      /\ waitingForOpen' = TRUE
  BY <1>1 DEF ClickOpen, openContainer, MayStart
<1>3. Alive /\ Alive' /\ GuiInv /\ ops + 1 \in Nat /\ 0 \in Nat
  BY <1>2 DEF FEInv, Types, GuiTypes, Alive
<1>4. Open \in StepLists /\ Manager(n) \in Managers /\ Manager(n).name = n
      /\ ~ Manager(n).open /\ Manager(n).table = <<>>
  BY NoJobIs DEF StepLists, OfOpen
<1>5. JobSound(Job(Open, Manager(n), 0))
  BY <1>3, <1>4, JobOf, KindsOfLists DEF JobSound, Unopened
<1> DEFINE job == Job(Open, Manager(n), 0)
<1>6. /\ SessionTypes' /\ JobsSound' /\ DiskInv' /\ CliInv' /\ CliTypes'
      /\ AtRest /\ jobs'["gui"] = job
      /\ busy' = TRUE /\ call' = "open" /\ queue' = queue /\ ops' = ops + 1
  BY <1>2, <1>3, <1>4, <1>5, RunAsync
<1>7. job.steps = Open /\ job.outcome = "running"
  BY <1>3, <1>4, JobOf
<1>8. AtWork'
  <2>1. ResultLast'
    BY <1>6 DEF AtRest, ResultLast
  <2>2. Accounted(fileManager)' /\ Shows(fileManager)'
    BY <1>2, <1>6 DEF AtRest, Accounted, Shows
  <2> HIDE DEF job
  <2> QED BY <1>2, <1>6, <1>7, <2>1, <2>2 DEF AtWork, OfOpen
<1>9. GuiInv'
  BY <1>2, <1>3, <1>6, <1>8 DEF GuiInv
<1>10. GuiGone' /\ GuiTypes' /\ ManagerOpen'
  BY <1>2, <1>3, <1>6 DEF GuiGone, GuiTypes, FEInv, Types, ManagerOpen
<1> QED BY <1>6, <1>9, <1>10 DEF FEInv, Types

\* What add and extract hand to the worker is the open container.
LEMMA Handed ==
  ASSUME FEInv, Alive, ~ busy, fileManager # NoManager, NEW s \in {Add, Read}, NEW f \in Nat,
         s = Read => f = 0
  PROVE  /\ JobSound(Job(s, fileManager, f)) /\ s \in StepLists /\ fileManager \in Managers
         /\ containerOpen /\ fileManager.name = path /\ fileManager.open /\ Shows(fileManager)
<1>1. fileManager.open /\ fileManager.name \in Names /\ fileManager \in Managers
  BY DEF FEInv, ManagerOpen, Types, GuiTypes
<1>2. dir[fileManager.name].there
  BY <1>1 DEF FEInv, DiskInv
<1>3. containerOpen /\ fileManager.name = path /\ Shows(fileManager)
  BY DEF FEInv, GuiInv, AtRest, Accounted
<1>4. s \in StepLists
  BY DEF StepLists, OfAdd, OfExtract
<1>5. /\ s \notin Unopened /\ s \notin {Create, AfterFile, AfterSlots}
      /\ s \in OnlyReads => s = Read
  BY KindsOfLists, AllDifferent DEF Unopened
<1>6. JobSound(Job(s, fileManager, f))
  BY <1>1, <1>2, <1>4, <1>5, JobOf DEF JobSound
<1> QED BY <1>1, <1>3, <1>4, <1>6

LEMMA ClickHandsOver ==
  ASSUME FEInv, NEW s \in {Add, Read}, NEW f \in Nat, NEW name \in {"add", "extract"},
         (name = "add") <=> (s = Add), s = Read => f = 0,
         page = "files", ~ busy, fileManager # NoManager, runAsync(name, s, fileManager, f),
         fileManager' = NoManager, UNCHANGED <<containerOpen, path, list, addFailed>>,
         UNCHANGED <<pageVars, overlapped, cliVars>>
  PROVE  FEInv'
<1>1. Alive /\ Alive' /\ GuiInv /\ UNCHANGED <<page, waitingForOpen, overlay>>
  BY DEF FEInv, Alive, pageVars
<1>2. /\ JobSound(Job(s, fileManager, f)) /\ s \in StepLists /\ fileManager \in Managers
      /\ containerOpen /\ fileManager.name = path /\ fileManager.open /\ Shows(fileManager)
  BY <1>1, Handed
<1> DEFINE job == Job(s, fileManager, f)
<1>3. /\ SessionTypes' /\ JobsSound' /\ DiskInv' /\ CliInv' /\ CliTypes'
      /\ AtRest /\ jobs'["gui"] = job
      /\ busy' = TRUE /\ call' = name /\ queue' = queue /\ ops' = ops + 1
  BY <1>1, <1>2, NoJobIs, RunAsync
<1>4. job.steps = s /\ job.outcome = "running" /\ job.fm = fileManager
  BY <1>2, JobOf
<1>5. AtWork'
  <2>1. ResultLast'
    BY <1>3 DEF AtRest, ResultLast
  <2>2. Shows(jobs["gui"].fm)' /\ IsPrefix(list', jobs'["gui"].fm.table)
    BY <1>2, <1>3, <1>4 DEF Shows
  <2>3. name = "add" => s \in OfAdd
    BY DEF OfAdd
  <2>4. name = "extract" => s \in OfExtract
    BY DEF OfExtract
  <2> HIDE DEF job
  <2> QED BY <1>1, <1>2, <1>3, <1>4, <2>1, <2>2, <2>3, <2>4 DEF AtWork
<1>6. GuiInv'
  BY <1>1, <1>3, <1>5 DEF GuiInv
<1>7. GuiTypes'
  <2>1. ops + 1 \in Nat
    BY DEF FEInv, Types, GuiTypes
  <2> QED BY <1>1, <1>3, <2>1, NoJobIs DEF GuiTypes, FEInv, Types
<1>8. GuiGone' /\ ManagerOpen'
  BY <1>1 DEF GuiGone, ManagerOpen
<1> QED BY <1>3, <1>6, <1>7, <1>8 DEF FEInv, Types

LEMMA ClickAddKeeps ==
  ASSUME FEInv, ClickAdd, UNCHANGED cliVars
  PROVE  FEInv'
<1>1. ops + 1 \in Nat /\ Add # Read
  BY AllDifferent DEF FEInv, Types, GuiTypes
<1>2. /\ page = "files" /\ ~ busy /\ fileManager # NoManager
      /\ runAsync("add", Add, fileManager, ops + 1) /\ fileManager' = NoManager
      /\ UNCHANGED <<containerOpen, path, list, addFailed>> /\ UNCHANGED <<pageVars, overlapped>>
  BY DEF ClickAdd, addFiles, MayStart
<1> QED BY <1>1, <1>2, ClickHandsOver

LEMMA ClickExtractKeeps ==
  ASSUME FEInv, ClickExtract, UNCHANGED cliVars
  PROVE  FEInv'
<1>1. 0 \in Nat /\ Add # Read
  BY AllDifferent
<1>2. /\ page = "files" /\ ~ busy /\ fileManager # NoManager
      /\ runAsync("extract", Read, fileManager, 0) /\ fileManager' = NoManager
      /\ UNCHANGED <<containerOpen, path, list, addFailed>> /\ UNCHANGED <<pageVars, overlapped>>
  BY DEF ClickExtract, extractFiles, MayStart
<1> QED BY <1>1, <1>2, ClickHandsOver

LEMMA ExitKeeps ==
  ASSUME FEInv, Exit, UNCHANGED cliVars
  PROVE  FEInv'
<1>1. /\ ~ Alive /\ DiskStill /\ jobs' = [jobs EXCEPT !["gui"] = NoJob] /\ UNCHANGED guiVars
  BY DEF Exit, DiskStill
<1>2. /\ SessionTypes' /\ JobsSound' /\ jobs'["gui"] = NoJob
      /\ \A q \in Programs : q # "gui" => jobs'[q] = jobs[q]
  BY <1>1, NoJobIs, Idle, GuiAssumption, Replaced DEF FEInv, Types
<1>3. CliInv' /\ CliTypes'
  BY <1>2, CliAssumption, CommandStill DEF FEInv
<1>4. /\ fileManager' = fileManager /\ Alive' = Alive /\ call' = call
      /\ GuiGone' /\ GuiTypes' /\ ManagerOpen'
  BY <1>1 DEF guiVars, controllerVars, pageVars, Alive, GuiGone, GuiTypes, ManagerOpen, FEInv, Types
<1>5. DiskInv'
  <2>1. \A q \in Programs : jobs'[q].fm.open => jobs'[q] = jobs[q] /\ (TableRead(q)' => TableRead(q))
    BY <1>2, <1>4, NoJobIs DEF TableRead
  <2> QED BY <1>1, <1>2, <1>4, <2>1, Released DEF FEInv, Types
<1>6. GuiInv'
  BY <1>1, <1>4 DEF GuiInv
<1> QED BY <1>2, <1>3, <1>4, <1>5, <1>6 DEF FEInv, Types

-----------------------------------------------------------------------------
(***************************************************************************)
(* The worker's reports.                                                   *)
(***************************************************************************)
Events == {"progress", "result"}

\* A report goes to the end of the queue, a result only when there was none.
LEMMA Queued ==
  ASSUME FEInv, Alive, NEW e \in Events, queue' = Append(queue, e),
         jobs["gui"].outcome # "none",
         e = "result" => jobs["gui"].outcome \in {"ok", "error"},
         \A i \in DOMAIN queue : queue[i] # "result",
         UNCHANGED <<sessionVars, controllerVars, pageVars, call, ops, addFailed, overlapped, cliVars>>
  PROVE  FEInv'
<1>1. /\ UNCHANGED <<fileManager, busy, containerOpen, path, list, page, waitingForOpen, overlay,
                     call, ops, addFailed, overlapped>>
      /\ jobs' = jobs
  BY DEF controllerVars, pageVars, sessionVars
<1>2. queue \in Seq(Events)
  BY DEF FEInv, Types, GuiTypes, Events
<1>3. /\ queue' \in Seq(Events) /\ Len(queue') = Len(queue) + 1
      /\ \A i \in 1 .. Len(queue) : queue'[i] = queue[i]
      /\ queue'[Len(queue) + 1] = e
  BY <1>2
<1>4. busy /\ AtWork
  BY NoJobIs DEF FEInv, GuiInv, AtRest
<1>5. ResultLast'
  <2> SUFFICES ASSUME NEW i \in 1 .. Len(queue'), queue'[i] = "result"
               PROVE  i = Len(queue') /\ jobs'["gui"].outcome \in {"ok", "error"}
    BY DEF ResultLast
  <2>1. CASE i \in 1 .. Len(queue)
    BY <1>2, <1>3, <2>1
  <2>2. CASE i = Len(queue) + 1
    BY <1>1, <1>3, <2>2
  <2> QED BY <1>2, <1>3, <2>1, <2>2
<1>6. AtWork'
  BY <1>1, <1>4, <1>5 DEF AtWork, Accounted, Shows
<1>7. GuiInv' /\ GuiGone'
  BY <1>1, <1>4, <1>6 DEF GuiInv, GuiGone, FEInv, Alive
<1>8. GuiTypes'
  BY <1>1, <1>3 DEF GuiTypes, FEInv, Types, Events
<1> QED BY <1>1, <1>7, <1>8, PageStepKeeps

LEMMA EmitProgressKeeps ==
  ASSUME FEInv, EmitProgress, UNCHANGED cliVars
  PROVE  FEInv'
<1>1. /\ Alive /\ Running("gui") /\ queue' = Append(queue, "progress")
      /\ UNCHANGED <<sessionVars, controllerVars, pageVars, call, ops, addFailed, overlapped, cliVars>>
  BY DEF EmitProgress
<1>2. \A i \in DOMAIN queue : queue[i] # "result"
  <2>1. AtWork /\ queue \in Seq(Events)
    BY <1>1, NoJobIs DEF FEInv, GuiInv, AtRest, Running, Types, GuiTypes, Events
  <2> QED BY <1>1, <2>1 DEF AtWork, ResultLast, Running
<1> QED BY <1>1, <1>2, Queued DEF Running, Events

LEMMA PostResultKeeps ==
  ASSUME FEInv, PostResult, UNCHANGED cliVars
  PROVE  FEInv'
<1>1. /\ Alive /\ jobs["gui"].outcome \in {"ok", "error"} /\ queue' = Append(queue, "result")
      /\ \A i \in DOMAIN queue : queue[i] # "result"
      /\ UNCHANGED <<sessionVars, controllerVars, pageVars, call, ops, addFailed, overlapped, cliVars>>
  BY DEF PostResult
<1> QED BY <1>1, Queued DEF Events

LEMMA DeliverProgressKeeps ==
  ASSUME FEInv, DeliverProgress, UNCHANGED cliVars
  PROVE  FEInv'
<1>1. /\ Alive /\ queue # <<>> /\ queue' = Tail(queue)
      /\ UNCHANGED <<sessionVars, controllerVars, pageVars, call, ops, addFailed, overlapped, cliVars>>
  BY DEF DeliverProgress
<1>2. /\ UNCHANGED <<fileManager, busy, containerOpen, path, list, page, waitingForOpen, overlay,
                     call, ops, addFailed, overlapped>>
      /\ jobs' = jobs
  BY <1>1 DEF controllerVars, pageVars, sessionVars
<1>3. queue \in Seq(Events)
  BY DEF FEInv, Types, GuiTypes, Events
<1>4. /\ queue' \in Seq(Events) /\ Len(queue) = Len(queue') + 1
      /\ \A i \in 1 .. Len(queue') : queue'[i] = queue[i + 1]
  BY <1>1, <1>3
<1>5. busy /\ AtWork
  BY <1>1 DEF FEInv, GuiInv, AtRest
<1>6. ResultLast'
  <2> SUFFICES ASSUME NEW i \in 1 .. Len(queue'), queue'[i] = "result"
               PROVE  i = Len(queue') /\ jobs'["gui"].outcome \in {"ok", "error"}
    BY DEF ResultLast
  <2>1. i + 1 \in 1 .. Len(queue) /\ queue[i + 1] = "result"
    BY <1>3, <1>4
  <2>2. i + 1 = Len(queue) /\ jobs["gui"].outcome \in {"ok", "error"}
    BY <1>5, <2>1 DEF AtWork, ResultLast
  <2> QED BY <1>2, <1>4, <2>2
<1>7. AtWork'
  BY <1>2, <1>5, <1>6 DEF AtWork, Accounted, Shows
<1>8. GuiInv' /\ GuiGone'
  BY <1>2, <1>5, <1>7 DEF GuiInv, GuiGone, FEInv, Alive
<1>9. GuiTypes'
  BY <1>2, <1>4 DEF GuiTypes, FEInv, Types, Events
<1> QED BY <1>1, <1>2, <1>8, <1>9, PageStepKeeps

LEMMA DeliverResultKeeps ==
  ASSUME FEInv, DeliverResult, UNCHANGED cliVars
  PROVE  FEInv'
<1> DEFINE job == jobs["gui"]
<1>1. /\ Alive /\ queue # <<>> /\ Head(queue) = "result"
      /\ queue' = Tail(queue) /\ busy' = FALSE /\ call' = "none"
      /\ jobs' = [jobs EXCEPT !["gui"] = NoJob] /\ DiskStill
      /\ IF page = "create" /\ job.outcome = "ok"
         THEN Closed
         ELSE /\ fileManager' = IF Restored(job.outcome) THEN job.fm ELSE fileManager
              /\ \/ job.outcome = "ok" /\ OnSuccess(job.fm)
                 \/ /\ job.outcome # "ok" /\ addFailed' = (addFailed \/ call = "add")
                    /\ UNCHANGED <<path, containerOpen, list>>
      /\ overlay' = (overlay \/ (page = "create" /\ job.outcome = "ok"))
      /\ page' = (IF waitingForOpen /\ job.outcome = "ok" THEN "files" ELSE page)
      /\ waitingForOpen' = FALSE /\ UNCHANGED <<ops, overlapped>>
  BY DEF DeliverResult, DiskStill
<1>2. /\ Types /\ SessionTypes /\ GuiTypes /\ JobsSound /\ DiskInv /\ GuiInv /\ ManagerOpen
      /\ CliInv
  BY DEF FEInv, Types
<1>3. busy /\ AtWork
  BY <1>1, <1>2 DEF GuiInv, AtRest
<1>4. queue' = <<>> /\ job.outcome \in {"ok", "error"}
  <2>1. queue \in Seq(Events) /\ Len(queue) >= 1 /\ queue[1] = "result"
    BY <1>1, <1>2 DEF GuiTypes, Events
  <2>2. Len(queue) = 1 /\ job.outcome \in {"ok", "error"}
    <3>1. Len(queue) \in Nat /\ 1 \in 1 .. Len(queue)
      BY <2>1
    <3>2. ResultLast
      BY <1>3 DEF AtWork
    <3> QED BY <2>1, <3>1, <3>2 DEF ResultLast
  <2>3. Len(Tail(queue)) = 0 /\ Tail(queue) \in Seq(Events)
    BY <2>1, <2>2
  <2> QED BY <1>1, <2>2, <2>3
<1>5. /\ job.steps = <<>> /\ (job.outcome = "ok" => job.fm.open) /\ job.fm.name \in Names
      /\ job.fm \in Managers /\ job.fm.table \in Seq(Nat)
  BY <1>2, <1>4, GuiAssumption, JobFields DEF JobsSound, JobSound
<1>6. call \in {"add", "extract"} => job.fm.open /\ page = "files" /\ containerOpen /\ job.fm.name = path
  BY <1>3 DEF AtWork
<1>7. job.fm.open => job.fm # NoManager
  BY NoJobIs
<1>8. /\ SessionTypes' /\ JobsSound' /\ jobs'["gui"] = NoJob
      /\ \A q \in Programs : q # "gui" => jobs'[q] = jobs[q]
  BY <1>1, <1>2, NoJobIs, Idle, GuiAssumption, Replaced
<1>9. CliInv' /\ CliTypes'
  BY <1>2, <1>8, CliAssumption, CommandStill
<1>10. \A q \in Programs : jobs'[q].fm.open =>
         jobs'[q] = jobs[q] /\ (TableRead(q)' => TableRead(q))
  BY <1>1, <1>8, NoJobIs DEF TableRead
<1>11. <<>> \in Seq(Nat) /\ <<>> \in Seq({"progress", "result"})
  OBVIOUS
<1>12. Alive'
  BY <1>1 DEF Alive
\* a create that succeeds with its page on top: the container is closed again
<1>13. CASE page = "create" /\ job.outcome = "ok"
  <2>1. /\ fileManager' = NoManager /\ containerOpen' = FALSE /\ path' = 0 /\ list' = <<>>
        /\ addFailed' = FALSE
    BY <1>1, <1>13 DEF Closed
  <2>2. DiskInv'
    BY <1>1, <1>2, <1>8, <1>10, <2>1, NoJobIs, Released
  <2>3. ~ waitingForOpen /\ page' = "create"
    BY <1>1, <1>2, <1>13 DEF GuiInv
  <2>4. AtRest'
    <3>1. Shows(fileManager)'
      BY <1>11, <2>1, NoJobIs, Prefixes1 DEF Shows
    <3> QED BY <1>4, <1>8, <2>1, <3>1, NoJobIs DEF AtRest, Accounted
  <2>5. GuiInv' /\ GuiGone' /\ ManagerOpen'
    BY <1>1, <1>12, <2>1, <2>3, <2>4 DEF GuiInv, GuiGone, ManagerOpen
  <2>6. GuiTypes'
    BY <1>1, <1>2, <1>4, <1>11, <2>1, <2>3, NoJobIs DEF GuiTypes
  <2> QED BY <1>8, <1>9, <2>2, <2>5, <2>6 DEF FEInv, Types
\* the container the worker had is the window's
<1>14. CASE ~ (page = "create" /\ job.outcome = "ok") /\ Restored(job.outcome)
  <2>1. fileManager' = job.fm /\ job.fm.open
    BY <1>1, <1>5, <1>6, <1>14 DEF Restored
  <2>2. TableRead("gui")
    BY <1>4, <1>5, <1>14, KindsOfLists DEF TableRead, Restored
  <2>3. DiskInv'
    BY <1>1, <1>2, <1>8, <2>1, <2>2, GivenBack
  <2>4. containerOpen' = TRUE /\ path' = job.fm.name
    <3>1. CASE job.outcome = "ok"
      BY <1>1, <1>2, <1>3, <1>6, <1>14, <3>1 DEF OnSuccess, AtWork, GuiTypes
    <3>2. CASE job.outcome = "error"
      BY <1>1, <1>2, <1>6, <1>14, <3>2 DEF Restored, GuiTypes
    <3> QED BY <1>4, <3>1, <3>2
  <2>5. IsPrefix(list', job.fm.table) /\ (addFailed' \/ list' = job.fm.table)
    <3>1. CASE call = "extract"
      BY <1>1, <1>3, <1>14, <3>1 DEF OnSuccess, AtWork, Shows
    <3>2. CASE call # "extract" /\ job.outcome = "ok"
      BY <1>1, <1>5, <1>14, <3>2, Prefixes1 DEF OnSuccess
    <3>3. CASE call = "add" /\ job.outcome = "error"
      BY <1>1, <1>3, <1>14, <3>3 DEF AtWork
    <3> QED BY <1>4, <1>14, <3>1, <3>2, <3>3 DEF Restored
  <2>6. AtRest'
    BY <1>4, <1>7, <1>8, <2>1, <2>4, <2>5 DEF AtRest, Accounted, Shows
  <2>7. page' = "files" \/ overlapped'
    <3>1. CASE call \in {"add", "extract"}
      BY <1>1, <1>6, <3>1
    <3>2. CASE call = "open" /\ job.outcome = "ok"
      BY <1>1, <1>3, <3>2 DEF AtWork
    <3>3. CASE call = "create" /\ job.outcome = "ok"
      BY <1>1, <1>3, <1>14, <3>3 DEF AtWork
    <3> QED BY <1>3, <1>14, <3>1, <3>2, <3>3 DEF AtWork, Restored
  <2>8. overlay' => page' = "create"
    BY <1>1, <1>2, <1>14 DEF GuiInv
  <2>9. GuiInv' /\ GuiGone' /\ ManagerOpen'
    BY <1>1, <1>5, <1>12, <2>1, <2>6, <2>7, <2>8 DEF GuiInv, GuiGone, ManagerOpen
  <2>10. GuiTypes'
    <3>1. addFailed' \in BOOLEAN /\ list' \in Seq(Nat)
      BY <1>1, <1>2, <1>5, <1>14 DEF OnSuccess, GuiTypes
    <3>2. page' \in {"start", "create", "files", "closed"} /\ overlay' \in BOOLEAN
      BY <1>1, <1>2 DEF GuiTypes
    <3> QED BY <1>1, <1>2, <1>4, <1>5, <1>11, <2>1, <2>4, <3>1, <3>2 DEF GuiTypes
  <2> QED BY <1>8, <1>9, <2>3, <2>9, <2>10 DEF FEInv, Types
\* a create or an open that failed: the window keeps what it had
<1>15. CASE ~ Restored(job.outcome)
  <2>1. job.outcome = "error" /\ call \notin {"add", "extract"}
    BY <1>4, <1>15 DEF Restored
  <2>2. UNCHANGED <<fileManager, path, containerOpen, list>> /\ addFailed' = addFailed
    BY <1>1, <1>2, <1>15, <2>1 DEF GuiTypes
  <2>3. DiskInv'
    BY <1>1, <1>2, <1>8, <1>10, <2>2, Released
  <2>4. AtRest'
    BY <1>3, <1>4, <1>8, <2>1, <2>2 DEF AtWork, AtRest, Accounted, Shows
  <2>5. page' = page /\ overlay' = overlay
    BY <1>1, <1>2, <2>1 DEF GuiTypes
  <2>6. GuiInv' /\ GuiGone' /\ ManagerOpen'
    BY <1>1, <1>2, <1>12, <2>2, <2>4, <2>5 DEF GuiInv, GuiGone, ManagerOpen
  <2>7. GuiTypes'
    BY <1>1, <1>2, <1>4, <1>11, <2>2, <2>5 DEF GuiTypes
  <2> QED BY <1>8, <1>9, <2>3, <2>6, <2>7 DEF FEInv, Types
<1> QED BY <1>13, <1>14, <1>15 DEF Restored

LEMMA GuiStepKeeps ==
  ASSUME FEInv, GuiSteps, UNCHANGED cliVars
  PROVE  FEInv'
BY GoCreateKeeps, ClickCreateKeeps, BackFromCreateKeeps, ClickOpenKeeps, ClickAddKeeps,
   ClickExtractKeeps, BackFromFilesKeeps, QuitKeeps, TimerFiresKeeps, ExitKeeps,
   EmitProgressKeeps, PostResultKeeps, DeliverProgressKeeps, DeliverResultKeeps
   DEF GuiSteps, UserSteps

LEMMA StutterKeeps ==
  ASSUME FEInv, UNCHANGED feVars
  PROVE  FEInv'
<1>1. UNCHANGED <<sessionVars, guiVars, cliVars>> /\ UNCHANGED fileManager /\ call' = call
      /\ jobs' = jobs
  BY DEF feVars, guiVars, controllerVars, sessionVars
<1>2. SessionTypes' /\ JobsSound' /\ DiskInv'
  BY <1>1, SessionStill DEF FEInv, Types
<1>3. GuiInv' /\ GuiGone' /\ ManagerOpen' /\ GuiTypes'
  BY <1>1, WindowStill DEF FEInv
<1>4. CliInv' /\ CliTypes'
  BY <1>1, CommandStill DEF FEInv
<1> QED BY <1>2, <1>3, <1>4 DEF FEInv, Types

LEMMA NextKeeps == FEInv /\ [FENext]_feVars => FEInv'
BY JobStepKeeps, GuiStepKeeps, CliStepKeeps, StutterKeeps, GuiAssumption, CliAssumption
   DEF FENext, GuiJobStep, CliJobStep, GuiStep, CliStep

LEMMA InitKeeps == FEInit => FEInv
<1> SUFFICES ASSUME FEInit PROVE FEInv
  OBVIOUS
<1> USE DEF FEInit
<1>1. <<>> \in Seq(Nat) /\ <<>> \in Seq({"progress", "result"}) /\ Empty \in [Places -> Nat]
  BY DEF Empty
<1>2. \A n \in Names : dir[n] \in Containers /\ dir[n].table = <<>>
  BY <1>1 DEF InitSessions, Containers, Earlier, NoFile
<1>3. SessionTypes
  BY <1>2, NoJobIs DEF InitSessions, SessionTypes
<1>4. GuiTypes /\ CliTypes
  BY <1>1, NoJobIs DEF InitGui, InitCli, GuiTypes, CliTypes, NoCommand
<1>5. \A p \in Programs : jobs[p] = NoJob
  BY DEF InitSessions
<1>6. JobsSound
  BY <1>5, Idle DEF JobsSound
<1>7. AtRest
  <2>1. Shows(fileManager)
    BY <1>1, NoJobIs, Prefixes1 DEF InitGui, Shows
  <2> QED BY <1>5, <2>1, NoJobIs, GuiAssumption DEF InitGui, AtRest, Accounted
<1>8. GuiInv /\ GuiGone /\ ManagerOpen
  BY <1>7 DEF InitGui, GuiInv, GuiGone, ManagerOpen, Alive
<1>9. CliInv
  BY <1>5, NoJobIs, AllDifferent, CliAssumption DEF InitCli, CliInv
<1>10. DiskInv
  <2>1. Witnesses
    BY NoJobIs DEF InitSessions, InitGui, Witnesses
  <2>2. ASSUME NEW n \in Names PROVE SoundAt(n)
    <3>1. \A p \in Programs : ~ Holds(jobs[p].fm, n)
      BY <1>5, NoJobIs DEF Holds
    <3>2. ~ Holds(fileManager, n)
      BY NoJobIs DEF Holds, InitGui
    <3> QED BY <3>1, <3>2 DEF SoundAt, OneHolder, HoldersExtend, FiledAt, ReportedAt, InitSessions
  <2> QED BY <1>3, <2>1, <2>2, NameByName
<1> QED BY <1>3, <1>4, <1>6, <1>8, <1>9, <1>10 DEF FEInv, Types

-----------------------------------------------------------------------------
(***************************************************************************)
(* The theorems.                                                           *)
(***************************************************************************)
\* In every state the two programs reach, the calls their FileManagers have still to make, the
\* members of ScefController, the pages and the containers on disk agree as FEInv says.
THEOREM SessionsInvariant == FESpec => []FEInv
<1>1. FEInit => FEInv
  BY InitKeeps
<1>2. FEInv /\ [FENext]_feVars => FEInv'
  BY NextKeeps
<1> QED BY <1>1, <1>2, PTL DEF FESpec

\* While the worker adds to or extracts from the open container the controller has no pointer
\* to it; between operations containerOpen_ and the path are those of its FileManager.
THEOREM OneOwner == FESpec => []SessionHasOneOwner
<1>1. FEInv => SessionHasOneOwner
  <2> SUFFICES ASSUME FEInv PROVE SessionHasOneOwner
    OBVIOUS
  <2>1. Alive /\ busy => AtWork
    BY DEF FEInv, GuiInv
  <2>2. Alive /\ ~ busy => Accounted(fileManager)
    BY DEF FEInv, GuiInv, AtRest
  <2>3. busy => Alive
    BY DEF FEInv, GuiGone
  <2> QED BY <2>1, <2>2, <2>3 DEF SessionHasOneOwner, AtWork, Accounted
<1> QED BY <1>1, SessionsInvariant, PTL

\* When busy_ is down no thread, result or report of an earlier operation is on its way.
THEOREM QuietWhenIdle == FESpec => []IdleMeansQuiet
<1>1. FEInv => IdleMeansQuiet
  BY DEF FEInv, GuiInv, AtRest, IdleMeansQuiet
<1> QED BY <1>1, SessionsInvariant, PTL

\* Between operations the page lists files of the session in its order, all unless an add failed.
THEOREM ListShowsTable == FESpec => []ListIsTable
<1>1. FEInv => ListIsTable
  BY DEF FEInv, GuiInv, AtRest, Shows, ListIsTable
<1> QED BY <1>1, SessionsInvariant, PTL

\* A container is open behind the page of its files only, unless a create was started under the
\* success overlay of another.
THEOREM SessionIsShown == FESpec => []NoHiddenSession
<1>1. FEInv => NoHiddenSession
  BY DEF FEInv, GuiInv, NoHiddenSession
<1> QED BY <1>1, SessionsInvariant, PTL

\* A file either program was told is stored stays readable, unless its container was created
\* over or, with no sharing mode, opened by two FileManagers at once.
THEOREM ReportedFilesStayStored == FESpec => []ReportedFilesStay
<1>1. FEInv => ReportedFilesStay
  BY DEF FEInv, DiskInv
<1> QED BY <1>1, SessionsInvariant, PTL

\* A create without --name leaves every container alone that was there when it was started.
THEOREM CreateSparesOthers == FESpec => CreateSparesExisting
<1> DEFINE Spares == \A n \in existed : At("cli", "createContainerFile") /\ CliJobStep /\ ~ command.named
                       => dir'[n] = dir[n]
<1>1. FEInv /\ [FENext]_feVars => [Spares]_feVars
  <2> SUFFICES ASSUME FEInv, NEW n \in existed, At("cli", "createContainerFile"), CliJobStep,
                      ~ command.named
               PROVE  dir'[n] = dir[n]
    OBVIOUS
  <2>1. SessionTypes /\ JobsSound /\ CliInv /\ n \in Names /\ jobs["cli"] # NoJob
    BY NoJobIs DEF FEInv, Types, CliTypes, At, Running
  <2>2. command # NoCommand
    BY <2>1 DEF CliInv
  <2>3. jobs["cli"].steps = Create
    BY <2>1, CliAssumption, JobFields, StepTaken DEF At
  <2>4. command.cmd = "create" /\ jobs["cli"].fm.name = command.name /\ command.name \notin existed
    BY <2>1, <2>2, <2>3 DEF CliInv
  <2>5. JobMoves("cli")
    BY <2>1, CliAssumption, JobStepMoves DEF CliJobStep
  <2> QED BY <2>1, <2>4, <2>5 DEF JobMoves
<1> QED BY <1>1, SessionsInvariant, PTL DEF FESpec, CreateSparesExisting
=============================================================================
