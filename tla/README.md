# SCEF in TLA+

SCEF keeps files encrypted in one container file, usually on a USB drive. This
directory models the parts of it whose correctness depends on order, on
failures and on arithmetic at boundaries; TLC checks the models on small
instances and TLAPS proves the main properties for every value of the
constants. Paths below are relative to the repository, which `PROJECT.json`
calls `src/`.

## The system

| Part | Code | State | Operations |
|---|---|---|---|
| Slot layout, fragmented I/O | `src/FileManager.cpp`, `include/FileManager.h` | four slot offsets, position | `computeSlotOffset`, `skipSlots`, `bytesUntilNextSlot`, `writeFragmented`, `readFragmented`, capacity |
| Header and table slots | `src/FileManager.cpp` | four copies of header and table, `header_version`, `next_write_offset` | `write`, `add`, `writeAllSlots`, `writeFileTableToAllSlots` |
| Opening a container | `src/FileManager.cpp`, `src/Header.cpp`, `src/CryptoManager.cpp` | the key derived last and for what, derivations so far | `readMeta` |
| Options of create | `src/cli/commands.cpp`, `src/FileManager.cpp`, `src/KdfProfiles.cpp` | none | `resolveKdfParams`, `setKdfParams`, `resolveHashWithFallback` |
| Encrypt and decrypt pipelines | `src/EncryptPipeline.cpp`, `src/DecryptPipeline.cpp` | two queues, reorder buffer, threads, output files | `run`, `readerTask`, `workerTask`, `writerLoop` |
| Bounded queue | `include/BoundedQueue.h` | queue, closed flag, two wait sets | `push`, `pop`, `close` |
| File table | `src/FileTable.cpp` | entries, `next_write_offset` | `addFileEntry`, `serialize`, `deserialize`, `getFileInfoByName` |
| Platform file | `src/NativeFile.cpp` | handle | positioned reads and writes, `syncToDevice`, sharing mode |
| Command line | `src/main.cpp`, `src/cli/` | none between calls | create, add, list, extract |
| GUI | `gui/ScefController.cpp`, `gui/qml/` | `busy_`, `containerOpen_`, the FileManager, the list, the page stack | create, open, add, extract, close through `runAsync` |
| Browser viewer | `browser/src/` | module state of `app.js` | choose, unlock, lock, download |
| Logger | `src/Logger.cpp` | current file | rotation, retention |

How they interact. A command, or a task of the GUI's worker thread, owns one
`FileManager`. `write()` and `add()` check the capacity, run an
`EncryptPipeline` that reads the inputs on one thread, encrypts on several and
writes through `FragmentedIO` callbacks on the calling thread, and then rewrite
the four slots one after another with an fsync each. `readMeta()` takes the
first slot that authenticates. `extract()` runs a `DecryptPipeline` the same way
round. The controller moves its `FileManager` into a worker thread for each call
and gets it back in an event queued to the GUI thread; progress comes the same
way. The GUI, any number of command lines and the viewer meet in the container
file only; on Windows the sharing mode keeps a second writer out, elsewhere
nothing does. The viewer runs in one thread, and its handlers interleave at
their awaits over the globals of `app.js`.

What is hard, and what makes each part correct:

- *Layout.* Slots lie in the middle of the data, so every position must be moved
  past them, in three places that must agree. No file data in a slot, none over
  other file data, none past the end, and the reader must walk as the writer did.
- *Slots.* A drive can be unplugged at any write. Whatever was completed must
  open, entry by entry, after any sequence of interruptions.
- *Opening.* A key costs seconds, so it is kept from slot to slot and derived
  twice at most. Any damage to a slot must lead to the next one, never to a
  container that is not what was written, nor past a slot that is.
- *Pipelines.* Chunks are processed in any order and must be written in order;
  any thread can fail while any other blocks on a full or empty queue; files
  may change while they are read; and what goes in must come out.
- *Queue.* `notify_one` with several waiters, and `close` against both.
- *GUI and command line.* One owner for the `FileManager`, `busy_` that tells the
  truth, a list that is the table, and two programs on one directory.
- *Browser.* Handlers that use the globals after an await: locked must mean
  locked, and a file shown or downloaded must be of the container it is said to be.

## Modules

| Module | What it is |
|---|---|
| `SlotLayout` | pure operators: offsets, skips, capacity |
| `DataArea` | state machine of the data area: create, add, failure, extract, chunk by chunk and segment by segment |
| `SlotCommit` | state machine of the four slots: every write, fsync, open and close, failures, kills, power loss |
| `DurableTable` | abstract: one table that survives interrupted updates; `SlotCommit` implements it |
| `CreateOptions` | pure operators: the key derivation parameters and the hash a container gets |
| `ReadMeta` | state machine of `readMeta` over slots with any damage |
| `QueueOps` | pure operators: what push, pop and close do |
| `BoundedQueue` | the mutex and condition variables, wait sets included |
| `ClosableQueue` | abstract: a queue with atomic operations; `BoundedQueue` implements it, fairness included |
| `FileTable` | pure operators: entries, a name for each, lookup |
| `EncryptPipeline`, `DecryptPipeline` | reader, workers and writer over two queues |
| `RoundTrip` | the two composed: what was put in is taken out |
| `Sessions` | `FileManager`s at work on the containers of one directory |
| `Gui` | `ScefController`, its worker thread, the event queue and the pages |
| `Cli` | the four commands, from the choice of the container to the exit code |
| `FrontEnds` | `Gui` and `Cli` composed over one directory |
| `BrowserViewer` | the handlers of the viewer page |
| `*_proofs` | theorems about the module they are named after |
| `MC*` | the small instances for TLC |

Division of labour. Each module takes for granted what another one shows:
`EncryptPipeline` delivers the chunks in order, `DataArea` finds disjoint places
for them, `BoundedQueue` makes a queue call one atomic step, `SlotCommit` makes an
update of the slots survive what stops it, `ReadMeta` finds the slot to open. To
`Sessions` a container is therefore its table, whether it opens, and what lies at
each place of its data area; a call of `FileManager` is the steps between which
another program can look at the file.

### SlotLayout and DataArea

The operators carry the names of the C++ functions. Sizes are in abstract cells:
a header of 2, a block of 3 and an overhead of 1 keep the relations of 4096,
65536 and 28 (a chunk can be longer than a gap between slots and shorter than
one). The sum `header_size + max_table_size` wraps at `UINT32` as in the code.

`DataArea` has an action for the start of each call (with its capacity check),
one for the start of each file, one for each turn of the loop of
`writeFragmented` and `readFragmented`, one for the end of a file and of a call,
and `Abort` for a call that throws. `written` records which bytes of which file
lie where; a failed call's bytes are dropped from it, since nothing refers to
them. The files of a call are drawn one by one so that their encrypted sizes add
up to the amount the capacity check was made for.

### SlotCommit and DurableTable

Contents are abstract: a header is its version and its `file_table_size`, a table
is its entries and `next_write_offset`, and a file takes one unit of the data
area. Each slot is written in two steps and one fsync. An interruption leaves
the part being written old, new or torn; `PowerLoss` picks for every part any
value written since the last fsync, or the one before, or a torn one (`mayHdr`,
`mayTbl`, `mayData`). A header says nothing about the table behind it except its
length, so `Accepts` compares lengths: `TableLength` is a constant operator.

`KEEP_ON_ERROR` distinguishes the GUI, where a failed `add` gives the
`FileManager` back (`runAsync`), from the command line, where the process ends.
`create` over a container that already completed an update is left to `Sessions`.

### CreateOptions and ReadMeta

`CreateOptions` has what `cmd_create` and `FileManager` make of the options, with
the 32-bit product of `--kdf-m` and 1024. `Written` and `WrittenHash` of
`ReadMeta` are the parameters and hashes it can yield for either front end, and
every container of `ReadMeta` is one of those, its four slots damaged in any
combination: magic, version or hash id (`readable`), cipher id, salt, parameters
in or out of range, any other byte under the HMAC (`body`), the table. The
actions are the steps of one turn of the loop, in the code's order; each leads to
the next step or to the next slot. Cryptography is sound: a header passes under
the right password with the salt and parameters it was written with, if none of
the bytes the HMAC covers has changed. Whether Argon2 gets the memory it asks
for is open above `MEMORY`.

### BoundedQueue and ClosableQueue

A thread does what it does under the mutex in one step; waiting puts it into
`not_full_` or `not_empty_`, a notification or `SpuriousWakeup` takes it out, and
then it looks at its condition again like a thread that has just called. Any
thread may close.

### EncryptPipeline, DecryptPipeline, FileTable and RoundTrip

The actions are the points where a thread touches a queue or another thread can
see what it did. An input file is its size at open, the cells that can really be
read, and a fault. `MAY_FAIL` lets any encryption, decryption or write fail, and any
worker task die: before its loop (`DiesAtStart`, the `CryptoContext`) or over a chunk
it has taken (`DiesOverChunk`, the buffer of the result). A task that dies of an
exception ends without a word, as in the pool: it closes no queue and is not
counted out, but `pool_.wait()` takes it for done. `entry.checksum` is
the content itself. A name is a stem and a list of numbers, so that "a (2)" can
be a file's own name or one `addFileEntry` made. Between the two pipelines `Age`
lets one chunk go bad or become unreadable. `OutputOf` maps an entry's name to
its file in the output directory.

### Sessions, Gui, Cli and FrontEnds

Every FileManager call is a list of steps (`Create`, `Open`, `Add`, `Read`); each
step can throw, with what it had done by then left on disk, and the two that run a
pipeline (`WriteChunks`, `ReadFiles`) can also never return (`Hang`): the program
then stays in `hung` until it is ended from outside. `exclusive` is the
platform: whether an open file refuses a second writer. `Gui` keeps the members
of the controller by their names, the top of the page stack, the overlay's timer
and the queue of events; its user actions are the buttons that are enabled and
the dialogs that are open. `Cli` settles on a container before it prompts for the
password, as the code does. `reported`, `truncated`, `shared`, `existed`,
`addFailed` and `overlapped` are history.

### BrowserViewer

A handler is one action up to each await and one after it; `unlocks` and `checks`
are the tasks that wait. The globals keep their names. A container is the damage
of each of its slots and, chunk by chunk, of what lies where a chunk of its file
should: the chunk, another one of the container, or nothing that authenticates.
Passwords are the containers they open. A download reads the chunks one by one with
the file, header, table, key and slot offsets of the click, which may be of
different containers: then a read may meet any chunk or none. A chunk decrypts if
it was sealed under that key (`Decrypts`); the file is delivered if what was read is
what the entry's checksum says (`ChecksumAgrees`).

## Runs

Passing, with the distinct states TLC finds:

| Run | Instance | What it shows |
|---|---|---|
| `data_area` | slots of 4 and 6 cells, containers of 24 to 34 cells, up to 4 files of 0 to 2 chunks, totals up to 13 | slots untouched, segments disjoint, nothing past the end, reads match writes, the capacity is exact, the inductive invariant of the proofs |
| `slot_crash` | command line, kills and failures, 4 calls of one file, room for 3 | completed updates are kept, the first valid slot is the fullest, listed files are readable |
| `slot_power` | GUI, power loss, 4 calls of one or two files, room for 3, tables of at most 2 entries | the invariant, refinement of `DurableTable`, three interruptions survived, completed data untouched up to its `next_write_offset` |
| `queue` | 2 producers, 2 consumers, 2 items, capacity 2 | no lost wakeup, no deadlock, refinement of `ClosableQueue` with its fairness |
| `round_trip` (404 000) | 2 workers each way, queues of 1 and 2, eight lists of up to 4 files, four requests, any failure, worker tasks that die | order and conservation of chunks, entries readable, success means all, outputs hold one file each, what was put in comes out, both runs end unless a task has died and the writer waits for what it owes |
| `read_meta` (1.7 million) | 4 slots with 9 kinds of damage each, every option around its bounds, a hash that is missing | nothing but what was written opens, the first whole slot that can be does, every refusal is explained, one damaged slot never locks the owner out, options are honoured unless the product of the memory wraps, and then the container gets less |
| `front_ends` (975 000) | 2 names, room for 2 files, 2 operations of the window and 1 command, both platforms | one owner for the session, `busy_` and the list truthful, no hidden session, what was reported stays, create spares what is there, every operation ends unless its pipeline hangs |
| `browser` (578 000) | 2 containers of a file each, 2 slots, nine combinations of damage to one of them, 3 files chosen, 2 unlocks | locked means locked, the list is of the open file, a download is the whole file that was clicked, the right password opens, every unlock ends |

Violations, each a disagreement of the code with a sentence of the repository
(quoted in `PROJECT.json`):

| Run | What TLC finds |
|---|---|
| `data_area_touching` | file data over the header of slot 3 when two slots touch after a gap (286720 bytes with the default table) |
| `slot_stale_table` | the header of a new update accepted with the equally long table of an abandoned one |
| `slot_retry` | entries of a failed add committed by the next add, which overwrites their data or leaves that to the one after |
| `encrypt_shrunk` | an input that shrinks shifts the offset of the next file |

Bounds. Each is a constant or a set of an MC module. The containers of
`data_area` put each slot boundary at the start, inside and at the end of a
chunk, and four files cross all four slots. Four calls of `slot_*` are one
completed update and three interrupted ones, the number the slots are there to
survive. A queue of one and two is full and empty in every combination, and three
chunks under way suffice for one to be overtaken; a file asked for twice and one
of another name after it are enough for outputs to be mixed. `read_meta` has all
four slots, since two damaged ones in front use up the budget and a third and
fourth show what that costs. Two operations of the window and one command are a
container opened, extended on both sides and read, or a create under the overlay
of another; a third operation repeats what two have left. In the viewer a slot
looks only at the slot before it, so two stand for four, and three chosen files
are needed because only a file that cannot be opened brings the file section back
while a list is shown.

What holds only under conditions.

- `slot_crash` gives the files names so different that no two tables are equally
  long (`ByName`); with equal lengths `slot_stale_table` applies. Sessions that
  outlive errors satisfy everything in `slot_power`, which says nothing of files
  whose update did not complete; for those `slot_retry` applies. If such files lie
  behind the end of the next add, that add commits them too, and the one after it
  overwrites data the completed table names: `CompletedDataStays` therefore speaks,
  in these sessions, of the data up to the table's `next_write_offset` only. The
  proof found this; it takes an add of three files that fails after the last, one
  of one file and one more, which is larger than the run.
- `data_area` leaves out containers where slots touch; there
  `data_area_touching` applies.
- `SuccessMeansAll`, `SteadyEntriesReadable` and `PutInComesOut` speak of inputs
  that do not shrink and are read in full blocks (`InputsSteady`); otherwise
  `encrypt_shrunk` applies, and a short read in the middle of a file has the same
  effect.
- `RunsEnd` says that each run returns or throws, or else that one of its pool tasks,
  reader or worker, has been ended by an exception and the writer waits in its loop for
  ever. The latter does happen (see the differences below). `BusyEnds` says the same of
  the window: `busy_` comes down unless a pipeline hangs in that way.
- `RefusalExplained` is the exact price of the budget: two slots in front whose
  salt or parameters had changed. `OptionsHonoured` says of `--kdf-m` that the
  container has the memory asked for exactly when the product fits 32 bits, and less
  when it does not.
- `NoHiddenSession` excepts a create started while the success overlay of
  another is shown. `ReportedFilesStay` excepts a container that was created over
  and, without a sharing mode, one opened by two FileManagers at once.
  `CreateSparesExisting` speaks of the containers there were when the command settled
  on a name; one made later is truncated.
- `LockHolds` speaks of a lock with no unlock under way. `ListIsOfThisFile` excepts a list shown by an unlock that was overtaken by
  the choice of another file and then given a header by a second unlock.
- `RightPasswordOpens` speaks of a steady unlock: none during which a file was chosen or
  the check of another one ended, itself included, nor one begun while such an unlock was
  still under way. Other unlocks, whatever their passwords, and locks do no harm: only
  the right password recovers a slot, so all put the same header and key into the
  globals. It excepts slots in front with damaged parameters or a damaged table, which
  do make the viewer give up.

Deadlock is checked where nothing may stop (`queue`, `data_area`). It is off where
the system comes to rest: the calls, commands or files to choose are used up, no
slot opens, or a task of a pipeline has died.

Fairness. `DataArea`, `SlotCommit` and `ReadMeta` state none: no liveness is claimed of them.
In `BoundedQueue` a thread that does not wait gets the mutex in the end, because
every section under it is short; no thread is obliged to call. In the pipelines
each thread is weakly fair: the pool is built with `worker_count + 1` threads, one
per task, and the writer is the caller's; no task is obliged to die. In `FrontEnds` the worker thread, the
delivery of queued events and timers are fair; the user, and a command line
waiting for a password, owe nothing. In `BrowserViewer` what an await of
`onUnlock` waits for settles; nobody has to click, and a download or the check of a
file owes nothing either.

## Differences without a run

Met while modelling, where the text or the code settles the matter without TLC. The
first six are steps of the models, which the properties named above except:

- `docs/gui.md:128` says of `runAsync` "always: busy_ = false; emit busyChanged(); emit
  operationFinished(error)", and `docs/api/scef-lib.md:580` "All public methods throw
  `std::runtime_error` on failure". When a pool task throws outside its `try` blocks (the
  reader at `EncryptPipeline.cpp:113`, `:129` and `DecryptPipeline.cpp:109`, a worker at
  `EncryptPipeline.cpp:166`, `:179` and `DecryptPipeline.cpp:128`) the exception is
  dropped with the task, a queue stays open or the last `fetch_sub` is missing, and
  `run()` neither returns nor throws; `busy_` stays up. (`DiesOverChunk`, `DiesAtStart`
  and `ReaderDied` in the pipelines, `Hang` in `Sessions`.)
- `docs/cli.md:46` gives `--kdf-m` the range 1 to 4096 MiB. The product with 1024 wraps
  in 32 bits before the range is checked (`commands.cpp:88`): 4194305 is accepted and
  gives a container derived with 1 MiB. (`resolveKdfParams`.)
- `cli/help.cpp:25` says of create without `--name` that it never overwrites existing
  files, and `tests/integration/test_container_naming.py:12` "never overwrites an
  existing file". The free name is found before the password prompt
  (`FileManager.h:52`) and the file is created over afterwards (`FileManager.cpp:389`):
  a container that appears meanwhile is truncated. (`Cli`.)
- `app.js:8` says "Lock button clears DEK, returns to password prompt". An unlock that
  is at an await when Lock is clicked goes on and puts key, table and list back.
- `docs/data-flows.md:227` says of the viewer "No re-derivation on corruption: derives
  once, tries all valid slots with the same KEK". The code derives anew whenever the
  salt differs from the slot before (`app.js:188`), and `RightPasswordOpens` rests on
  that: with one key for all slots (`KEKsOnce`) a damaged salt in front locks the
  owner out.
- The comment at `app.js:166-168` promises "genuine per-slot crash resilience". A slot
  in front with damaged key derivation parameters but its own salt spoils the key of
  those behind it (`app.js:188` compares salts only), and a torn table ends the unlock
  (`app.js:239`) without a look at the next slot.

- `include/Header.h:90` calls `header_version` monotonic. After two interrupted
  updates it goes back: an open takes the first valid slot, which may be an older one.
- `docs/cli.md:262` describes what a refused create leaves. A create refused for lack
  of room has already truncated the file (`FileManager.cpp:620`).
- Create accepts a container smaller than `MINIMAL_CONTAINER_SIZE` if the table is
  small (`include/Header.h:20-22`, `docs/cli.md:259`); `readMeta` then refuses it
  (`FileManager.cpp:566`): the outcome `too_small` of `ReadMeta`.
- `docs/container-format.md:172` says "(copy)" of a second file of one name;
  `FileTable.cpp:42` counts: "name (2)".
- `tests/integration/test_auth_decrypt_ordering.py:328-331` expects recovery behind
  damaged slots which the budget of two derivations refuses when two salts differ.
- `FileTable::deserialize` recomputes a missing `next_write_offset` without the skips
  over slots (`FileTable.cpp:106-119`); no container this code writes lacks the field.
- `ScefController.cpp:213` and `:261` say a failure leaves `fileManager_` null; an
  earlier session that is hidden open stays.
- A create may report failure after `write()` has succeeded, when the copy of the
  viewer fails. A checksum that does not match on extract is only logged.
- In the viewer: the late check of a file chosen earlier replaces `validSlots`; a
  slot asking for more memory than WebAssembly has throws past the loop; the key
  stays after an unlock that failed at the table.

## Proofs

TLAPS checks every theorem to the last leaf.

- `DataArea_proofs`, first on `SlotLayout`: what the skips return, how the free
  capacity changes when the position moves, and `RoomyContainerHasSlotsApart`: from a
  size on, the slots of a container lie in order with room between them. Then on
  `DataArea`: `PlacementInvariant`, and from it `NoSlotIsWritten`,
  `NoDataIsOverwritten`, `ContainerNeverGrows` and `TypeCorrect`. They assume
  `ContainersApart`: every container given to create has its slots apart. The
  invariant adds to the properties that all data of persisted files lies below
  `next_write_offset` and all data below the cursor (so that a segment written at
  the cursor is new), and `DemandFits`: what the running call has still to write
  fits into the free cells above the cursor. The latter turns the check made once
  into a bound at every segment; it is preserved because a skip costs no free
  cell and a segment costs exactly its length. `CapacityIsExact` counts the cells
  outside four intervals that do not meet. `ReaderMeetsWhatWasWritten` rests on
  `WalkInv`: where a chunk ends in the encrypted stream depends on the file's size
  alone (`InChunk`, `OneChunk`), so that every segment is determined by the position
  reached before it (`Walked`), and writer and reader cannot part.
- `SlotCommit_proofs`: `CommitInvariant`, and from it `ContainerStaysOpenable`,
  `CompletedUpdatesSurvive` and the refinement `SlotsImplementDurableTable`. The
  invariant says that the slots before the current one already hold the update
  and are out of reach of a power loss, that the number of unsettled slots is at
  most the number of updates begun since the last that completed, and that
  nothing that may be in a slot, or in the session, is older than that one.
- `ReadMeta_proofs`: `OpenInvariant`, and from it `FirstWholeSlotIsTaken`,
  `RefusalHasItsReason` and `OptionsAreHonoured`. The invariant says that the key in
  hand belongs to the slot being tried unless the budget is spent, that a whole slot
  is behind only once the budget is spent on another's key, and that every
  derivation so far went to a damaged slot: the last is why one damaged slot never
  keeps the owner out. `OptionsAreHonoured` covers every option create accepts, those
  whose product wraps included. It assumes that the memory the container's own key takes is
  there (`ReadMetaAssumption`); without it a whole slot may be passed over.
- `BoundedQueue_proofs`: `NoWakeupIsLost`. `NoLostWakeup` is inductive once it is
  known that only pushing threads wait for room and only popping ones for items: a
  push takes one thread awake and one place of the room, and wakes one who pops.
  `CallsTakeEffectAtOnce` is the safety half of `ImplementsClosableQueue`: every step
  of the monitor is one of `ClosableQueue` or, when a thread falls asleep or is woken,
  none.
- More of `SlotCommit_proofs`, on data and on what the slots show.
  `CommittedDataIsNeverRewritten` adds to `CommitInv` that no table in any slot, and
  nothing a power loss can bring back, ends behind the session at work (`DataInv`),
  and that a table has been in no slot before the fsync that made its data durable.
  `FirstValidSlotHoldsMost` and `ShownFilesAreReadable` add `ChainInv`: each slot
  shows no more than the one before it, and none more than the session. That
  is true only if tables of one length are equal (`DistinctLengths`) and the power
  stays on, and for reading the files also only if a session ends with the add that
  failed; these are hypotheses of the theorems, and `slot_stale_table` and
  `slot_retry` are what happens without the first and the last.
- `EncryptPipeline_proofs`: three invariants, each with the one before it.
  `PlacesInv`: a queue is closed only when those who push into it have ended, and
  until the writer fails every chunk number given out is in exactly one of the
  queues, the workers (one that died over its chunk keeps it), the reorder buffer and the medium (`ChunksStayUnderWay`).
  `ListInv`: no name twice; with the order of the pieces cut it gives
  `ChunksWrittenInOrder`. `SteadyInv`, for inputs that keep their size: the pieces
  under way follow one another without a gap from where the writer is to where the
  reader is (`Seamless`), and the blocks of the open file lie on the medium from
  `fileStart` on (`OpenFileStored`); hence `SteadyEntriesAlwaysReadable` and, since
  nothing is then under way, `ReturnMeansAllFiles`.
- `RoundTrip_proofs`: `RoundTripInvariant`, and from it all three safety properties of
  the decrypt pipeline. A chunk carries neither its place in the file nor the entry
  it is of, so `Follows` says that there is a plan, the entries asked for chunk by
  chunk, and that the chunk with number n is always the n-th of the plan
  (`FollowsPlan`): it is cut as the plan says, passes through both queues, the
  workers and the reorder buffer, and what the writer has open, has hashed, written
  and reported is the effect of the first n chunks (`WrittenAs`). With it go, as for
  the first pipeline, the order in which the queues close and that no number is lost
  until the writer fails. `OutputsAlwaysHoldOneFile` and `ReturnMeansAllExtracted` are
  what that says of the outputs at any time and at the return. `RoundTripComesOut`
  joins it with `SteadyInv`, since what the plan reads is what the first pipeline
  stored; `FillingIsEncryptPipeline` carries over all that is proved of that pipeline.
- `FrontEnds_proofs`: `SessionsInvariant`, and from it all six safety properties of
  `front_ends`, the action property `CreateSparesExisting` among them. `FEInv` says
  for each step a call can be at what its FileManager holds, what the controller
  has kept and what the command settled on, which page goes with which (`GuiInv`),
  and, for a container nothing has harmed, that one FileManager has it, that its
  table extends the one on disk, and that the file being stored is where the table
  will say (`DiskInv`).
- `BrowserViewer_proofs`: `BrowserInvariant`, and from it the four safety properties
  of `browser`, for any number of containers, slots, files and unlocks. Its heart is
  `Undisturbed`: the globals after the awaits of a steady unlock are those it left before
  them. While one is under way all are steady (`TasksSound`), so they work on the slots
  of one file, and only its own password recovers a slot (`OnlyItsPassword`): whatever
  another one has put into the globals is the same (`OthersStayUndisturbed`).
  `DownloadsAreWhole` goes by what was read: it was sealed under the key of the file
  it came from (`Decrypts`), so every chunk is of that container, and the checksum
  says that they are the chunks of the entry; that the entry is of the list clicked
  is part of the invariant.

Assumptions are those of the constants (`SizesAssumption`, `InputsAssumption`,
`SlotCommitAssumption`, `NoneAssumption`, `OptionsAssumption`,
`ProfilesAssumption`, `ReadMetaAssumption`, `QueueAssumption`, `NoCallAssumption`,
`PipelineAssumption`, `ExtractAssumption`, `NothingAssumption`,
`SessionsAssumption`, `GuiAssumption`, `CliAssumption`, `BrowserAssumption`), which
TLC evaluates in every run of the modules. They say no more than what the code
fixes (a block has a size, a pool a worker) and that "nothing" differs from every
value. A theorem states any other hypothesis itself: `ContainersApart`,
`DistinctLengths`, the switches of `SlotCommit` and, in `RoundTripComesOut` only,
`OutputsDiffer`: no two names lead to one file of the output directory. Without it
the second file written would replace the first, whatever the pipeline does;
entries have different names, but a file system that ignores case may take two for
one.

Every invariant and action property a passing run checks is thus proved. Only
model-checked is what rests on fairness, which is out of the prover's reach: `RunsEnd`,
`BusyEnds`, `UnlockComesBack`, and that `BoundedQueue` implements the fairness of
`ClosableQueue`.

## Not modelled

Cryptography (taken as sound: what does not authenticate is rejected), the
encoding of headers and tables, measurement, strength estimation, page layout, the
page of the logs, the list of drives, vendored code. The `Logger`: its files decide
nothing in the program (two processes that rotate in the same second share a
file, and each counts the other's files as its own). In the viewer the archive of
all files and the buffered reader of fragments, which walks as `readFragmented`
does.

## Plan

What is left to add:

1. A module joining `DataArea` with inputs that change after the capacity check.
2. The archive of all files of the viewer; the viewer's slots compared with
   `ReadMeta`.
