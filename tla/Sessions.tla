------------------------------ MODULE Sessions ------------------------------
(* FileManagers at work on the containers of one directory, as the front    *)
(* ends see them: the desktop program and the command line hand a           *)
(* FileManager a list of calls (create, open, add, extract) and wait for     *)
(* it to return, to throw, or for ever.  Slots, chunks, threads belong to    *)
(* SlotCommit, DataArea and the pipelines; here a container is its table,    *)
(* whether it opens, and what lies at each place of its data area.           *)
(* src/src/FileManager.cpp, src/src/NativeFile.cpp.                          *)
EXTENDS Naturals, Sequences, FiniteSets

CONSTANTS
    Programs,     \* the programs that run FileManagers
    MaxNames,     \* file names of the directory: 1 is container.scef, n + 1 is container_n.scef
    MaxFiles,     \* files a container has room for
    Present       \* the names of containers created earlier

ASSUME SessionsAssumption == MaxNames \in Nat \ {0} /\ MaxFiles \in Nat \ {0}
                              /\ Present \subseteq 1 .. MaxNames

VARIABLES
    dir,          \* name -> the file of that name
    jobs,         \* program -> the calls its FileManager has still to make
    exclusive,    \* the platform refuses a second writer of an open file (Windows)
    reported,     \* history: <<name, file>> a program was told is stored
    hung,         \* programs that wait for a pipeline which never returns
    truncated,    \* history: names whose container was created over
    shared        \* history: names opened while another FileManager had them open

sessionVars == <<dir, jobs, exclusive, hung, reported, truncated, shared>>

Names == 1 .. MaxNames
Places == 1 .. MaxFiles
Empty == [i \in Places |-> 0]

NoFile == [there |-> FALSE, opens |-> FALSE, table |-> <<>>, data |-> Empty]

\* a FileManager: the file it has open and the table it holds; name 0 is the null pointer
NoManager == [name |-> 0, table |-> <<>>, open |-> FALSE]
Manager(n) == [NoManager EXCEPT !.name = n]

\* the calls, each a list of the steps another program can see between
Create == <<"createContainerFile", "writeAllSlots", "writeChunks", "writeFileTableToAllSlots",
            "copyBrowserViewer">>
Open   == <<"open", "readMeta">>
Add    == <<"writeChunks", "writeFileTableToAllSlots">>
Read   == <<"extract">>

NoJob == [steps |-> <<>>, fm |-> NoManager, file |-> 0, outcome |-> "none"]
Job(steps, fm, file) == [steps |-> steps, fm |-> fm, file |-> file, outcome |-> "running"]

Running(p) == jobs[p].outcome = "running"
At(p, step) == Running(p) /\ p \notin hung /\ jobs[p].steps # <<>> /\ Head(jobs[p].steps) = step
Target(p) == jobs[p].fm.name

-----------------------------------------------------------------------------
\* the FileManagers that have n open; others is the set a program keeps besides its job
Holders(n, kept) == {p \in Programs : jobs[p].fm.open /\ jobs[p].fm.name = n}
                        \cup {k \in kept : k.open /\ k.name = n}

\* Mutated: files are opened with FILE_SHARE_WRITE
MayWriteShared(n, kept) == TRUE

\* NativeFile::open for writing: FILE_SHARE_READ only on Windows, no lock elsewhere
MayWrite(n, kept) == exclusive => Holders(n, kept) = {}

\* the file the next free name belongs to; 0 when the bound leaves none
nextAvailableContainerPath ==
    LET free == {n \in Names : ~dir[n].there} IN
    IF free = {} THEN 0 ELSE CHOOSE n \in free : \A m \in free : n <= m

\* file f can be read back from container n
Stored(n, f) == /\ dir[n].opens
                /\ \E i \in DOMAIN dir[n].table : dir[n].table[i] = f /\ dir[n].data[i] = f

-----------------------------------------------------------------------------
\* a container created earlier, without a file the model follows
Earlier == [NoFile EXCEPT !.there = TRUE, !.opens = TRUE]

InitSessions ==
    /\ dir = [n \in Names |-> IF n \in Present THEN Earlier ELSE NoFile]
    /\ jobs = [p \in Programs |-> NoJob]
    /\ exclusive \in BOOLEAN
    /\ hung = {} /\ reported = {} /\ truncated = {} /\ shared = {}

\* step done: the FileManager goes on to the next one with state fm
Proceed(p, fm) == jobs' = [jobs EXCEPT ![p].steps = Tail(@), ![p].fm = fm]
\* a throw leaves every later step undone
Throw(p, fm) == jobs' = [jobs EXCEPT ![p].steps = <<>>, ![p].fm = fm, ![p].outcome = "error"]

\* the setters and the size check of write() throw with nothing on disk; then the file is
\* opened CreateTruncate, whatever was there
CreateContainerFile(p, kept) ==
    LET n == Target(p) IN
    /\ At(p, "createContainerFile")
    /\ \/ /\ MayWrite(n, kept)
          /\ dir' = [dir EXCEPT ![n] = [NoFile EXCEPT !.there = TRUE]]
          /\ truncated' = IF dir[n].there THEN truncated \cup {n} ELSE truncated
          /\ shared' = IF Holders(n, kept) # {} THEN shared \cup {n} ELSE shared
          /\ \/ Proceed(p, [jobs[p].fm EXCEPT !.open = TRUE])
             \/ Throw(p, [jobs[p].fm EXCEPT !.open = TRUE])     \* preallocation, keys, capacity
       \/ /\ Throw(p, jobs[p].fm)
          /\ UNCHANGED <<dir, truncated, shared>>
    /\ UNCHANGED <<exclusive, hung, reported>>

\* writeAllSlots: headers of an empty container; a failure may leave a slot that opens
WriteAllSlots(p) ==
    LET n == Target(p) IN
    /\ At(p, "writeAllSlots")
    /\ \/ /\ dir' = [dir EXCEPT ![n].opens = TRUE, ![n].table = <<>>]
          /\ Proceed(p, jobs[p].fm) \/ Throw(p, jobs[p].fm)
       \/ UNCHANGED dir /\ Throw(p, jobs[p].fm)
    /\ UNCHANGED <<exclusive, hung, reported, truncated, shared>>

\* a pipeline whose reader or worker task has thrown: run() waits for ever, and with it the
\* FileManager, its container open
Hang(p) == hung' = hung \cup {p} /\ UNCHANGED jobs

\* writeChunks, with the capacity check before it: the file goes where this FileManager's
\* table ends
WriteChunks(p) ==
    LET n == Target(p)  at == Len(jobs[p].fm.table) + 1 IN
    /\ At(p, "writeChunks")
    /\ \/ /\ at \in Places
          /\ dir' = [dir EXCEPT ![n].data[at] = jobs[p].file]
          /\ Proceed(p, [jobs[p].fm EXCEPT !.table = Append(@, jobs[p].file)]) /\ UNCHANGED hung
       \/ /\ Throw(p, jobs[p].fm) /\ UNCHANGED hung
          /\ \/ UNCHANGED dir
             \/ at \in Places /\ dir' = [dir EXCEPT ![n].data[at] = 0]
       \/ /\ at \in Places /\ Hang(p)
          /\ UNCHANGED dir \/ dir' = [dir EXCEPT ![n].data[at] = 0]
    /\ UNCHANGED <<exclusive, reported, truncated, shared>>

\* writeFileTableToAllSlots: the table in memory replaces the one on disk
WriteFileTable(p) ==
    LET n == Target(p) IN
    /\ At(p, "writeFileTableToAllSlots")
    /\ \/ /\ dir' = [dir EXCEPT ![n].opens = TRUE, ![n].table = jobs[p].fm.table]
          /\ Proceed(p, jobs[p].fm) \/ Throw(p, jobs[p].fm)
       \/ UNCHANGED dir /\ Throw(p, jobs[p].fm)
    /\ UNCHANGED <<exclusive, hung, reported, truncated, shared>>

\* NativeFile::open(OpenExisting) in init
OpenExisting(p, kept) ==
    LET n == Target(p) IN
    /\ At(p, "open")
    /\ \/ /\ dir[n].there /\ MayWrite(n, kept)
          /\ shared' = IF Holders(n, kept) # {} THEN shared \cup {n} ELSE shared
          /\ Proceed(p, [jobs[p].fm EXCEPT !.open = TRUE])
       \/ Throw(p, jobs[p].fm) /\ UNCHANGED shared
    /\ UNCHANGED <<dir, exclusive, hung, reported, truncated>>

\* readMeta: the table on disk now is the one this FileManager keeps; throws on a wrong
\* password and on a container no slot of which opens
ReadMeta(p) ==
    /\ At(p, "readMeta")
    /\ \/ /\ dir[Target(p)].opens
          /\ Proceed(p, [jobs[p].fm EXCEPT !.table = dir[Target(p)].table])
       \/ Throw(p, jobs[p].fm)
    /\ UNCHANGED <<dir, exclusive, hung, reported, truncated, shared>>

\* extract and list: nothing of the container changes
ReadFiles(p) ==
    /\ At(p, "extract")
    /\ \/ (Proceed(p, jobs[p].fm) \/ Throw(p, jobs[p].fm)) /\ UNCHANGED hung
       \/ Hang(p)
    /\ UNCHANGED <<dir, exclusive, reported, truncated, shared>>

\* copyBrowserViewer after write(), nothing when it is not asked for: a failure is reported as
\* the failure of the create
CopyBrowserViewer(p) ==
    /\ At(p, "copyBrowserViewer")
    /\ Proceed(p, jobs[p].fm) \/ Throw(p, jobs[p].fm)
    /\ UNCHANGED <<dir, exclusive, hung, reported, truncated, shared>>

\* the last call has returned: whoever waits is told that file is in the container
Return(p) ==
    /\ Running(p) /\ jobs[p].steps = <<>>
    /\ jobs' = [jobs EXCEPT ![p].outcome = "ok"]
    /\ reported' = IF jobs[p].file = 0 THEN reported
                   ELSE reported \cup {<<Target(p), jobs[p].file>>}
    /\ UNCHANGED <<dir, exclusive, hung, truncated, shared>>

JobStep(p, kept) ==
    \/ CreateContainerFile(p, kept) \/ WriteAllSlots(p) \/ WriteChunks(p)
    \/ WriteFileTable(p) \/ OpenExisting(p, kept) \/ ReadMeta(p) \/ ReadFiles(p)
    \/ CopyBrowserViewer(p) \/ Return(p)
=============================================================================
