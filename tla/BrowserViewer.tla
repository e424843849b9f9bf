--------------------------- MODULE BrowserViewer ---------------------------
(* The viewer page: one thread, but every await lets the page's other         *)
(* handlers run, and they all work on the same globals.  Each handler is a    *)
(* task that stops at its awaits: checks of a chosen file, unlocks, a          *)
(* download.  browser/src/app.js, download.js, header.js, filetable.js,       *)
(* crypto.js, kdf.js, ui.js.                                                   *)
EXTENDS Naturals, Sequences, FiniteSets

CONSTANTS
    Containers,    \* numbers of the containers there are to open
    Chunks,        \* container -> chunks of the file in it that is downloaded
    SLOT_COUNT,    \* header slots of each
    Findings,      \* what Containers may be found like
    MaxChosen,     \* files chosen, the one loaded by itself included
    MaxUnlocks     \* passwords entered

ASSUME BrowserAssumption ==
    /\ 0 \notin Containers /\ SLOT_COUNT \in Nat \ {0}
    /\ MaxChosen \in Nat /\ MaxUnlocks \in Nat
    /\ Chunks \in [Containers -> Nat]

Slots == 1 .. SLOT_COUNT

VARIABLES
    found,         \* container -> its cipher, slots and data as they lie in the file
    containerFile, \* containerFile, 0 for null; containers stand for all that is read from them
    validSlots,    \* whose slots validSlots lists, 0 for []
    activeHeader,  \* container and slot of activeHeader
    activeDEK, activeDEKKey, activeFileTable,   \* whose they are, 0 for null
    ui,            \* which sections are shown, whose list, whether Unlock is enabled;
                   \* history: which unlock showed the list, 0 without one
    loading,       \* tryAutoLoad waits for fetch
    checks,        \* validateAndPromptPassword under way: the files chosen, in order
    unlocks,       \* onUnlock tasks, in the order they were started
    download,      \* the download under way or the last one: its arguments and what it has got
    locked         \* history: locked with no unlock under way, and no password or file since

keys == <<activeHeader, activeDEK, activeDEKKey, activeFileTable>>
bvVars == <<found, containerFile, validSlots, keys, ui, loading, checks, unlocks, download, locked>>

NoHeader == [of |-> 0, slot |-> 0]
NoDownload == [at |-> "none", file |-> 0, header |-> 0, key |-> 0, entry |-> 0, offsets |-> 0,
               clicked |-> 0, got |-> <<>>]

InitBrowser ==
    /\ found \in Findings
    /\ containerFile = 0 /\ validSlots = 0 /\ activeHeader = NoHeader
    /\ activeDEK = 0 /\ activeDEKKey = 0 /\ activeFileTable = 0
    /\ ui = [file |-> FALSE, password |-> FALSE, lock |-> FALSE, list |-> 0, offsets |-> 0,
             by |-> 0, unlock |-> TRUE]
    /\ loading = TRUE /\ checks = <<>> /\ unlocks = <<>> /\ download = NoDownload
    /\ locked = FALSE

InFlight(u) == unlocks[u].at \notin {"unlocked", "refused"}
\* history: a file chosen, or a late check of another, changes the globals these unlocks work on
Disturbed == [u \in DOMAIN unlocks |-> IF InFlight(u) THEN [unlocks[u] EXCEPT !.steady = FALSE]
                                       ELSE unlocks[u]]
\* and they have not seen that the file is another one
Overtaken == [u \in DOMAIN unlocks |->
                 IF InFlight(u) THEN [unlocks[u] EXCEPT !.steady = FALSE, !.moved = TRUE]
                 ELSE unlocks[u]]

-----------------------------------------------------------------------------
(* Keys.  A slot is found "whole", or with its magic, salt, key derivation     *)
(* parameters ("huge": beyond what WebAssembly can allocate), other header     *)
(* bytes or table damaged.                                                     *)

Damage(c, i) == found[c].slots[i]

\* findValidSlots: slots with magic and parameters in range
ListedSlots(c) == {i \in Slots : Damage(c, i) # "magic"}
Listed(c) == CHOOSE s \in [1 .. Cardinality(ListedSlots(c)) -> ListedSlots(c)] :
                 \A j, k \in DOMAIN s : j < k => s[j] < s[k]

SaltOf(c, i) == IF Damage(c, i) = "salt" THEN i ELSE 0
\* deriveKEK of a slot: of the password, its salt and its parameters
deriveKEK(pw, c, i) ==
    [pw |-> pw, of |-> c, salt |-> SaltOf(c, i),
     params |-> IF Damage(c, i) \in {"kdf", "huge"} THEN i ELSE 0]
OwnKEK(c) == [pw |-> c, of |-> c, salt |-> 0, params |-> 0]

\* Mutated: the key is derived from the first slot and never again
KEKsOnce(pw, c) == [k \in DOMAIN Listed(c) |-> deriveKEK(pw, c, Listed(c)[1])]

\* the key each listed slot is tried with: derived anew when the salt changes, whatever the
\* parameters
KEKs(pw, c) ==
    LET s == Listed(c)
        Anew(k) == k = 1 \/ SaltOf(c, s[k]) # SaltOf(c, s[k - 1])
        From(k) == CHOOSE j \in 1 .. k : Anew(j) /\ \A m \in j + 1 .. k : ~Anew(m)
    IN  [k \in DOMAIN s |-> deriveKEK(pw, c, s[From(k)])]

\* verifyHeaderHMAC and unwrapDEK: the header is as written and so is all the key comes from
Authenticates(kek, c, i) == kek = OwnKEK(c) /\ Damage(c, i) \in {"whole", "table"}

\* the slots the loop of onUnlock stops at: the first that passes, or one whose derivation
\* asks for more memory than there is and throws past the loop
Stops(pw, c) ==
    LET s == Listed(c) IN
    {k \in DOMAIN s : \/ Authenticates(KEKs(pw, c)[k], c, s[k])
                      \/ KEKs(pw, c)[k].params = s[k] /\ Damage(c, s[k]) = "huge"}
Recovered(pw, c) ==
    IF Stops(pw, c) = {} THEN 0
    ELSE LET s == Listed(c)
             k == CHOOSE j \in Stops(pw, c) : \A m \in Stops(pw, c) : j <= m
         IN  IF Damage(c, s[k]) = "huge" THEN 0 ELSE s[k]

-----------------------------------------------------------------------------
(* Choosing a file.                                                            *)

\* validateAndPromptPassword begins: its file is the one of this moment
Chosen(c) == containerFile' = c /\ checks' = Append(checks, [at |-> "reading", file |-> c])

\* tryAutoLoad: container.scef is there
AutoLoad ==
    /\ loading /\ loading' = FALSE
    /\ \E c \in Containers : Chosen(c)
    /\ UNCHANGED <<found, validSlots, keys, ui, unlocks, download, locked>>

\* tryAutoLoad: it is not
NoAutoLoad ==
    /\ loading /\ loading' = FALSE
    /\ ui' = [ui EXCEPT !.file = TRUE]
    /\ UNCHANGED <<found, containerFile, validSlots, keys, checks, unlocks, download, locked>>

\* Mutated: clearResults is left out
onFileSelectedKeepingList(c) ==
    /\ ui.file /\ Len(checks) < MaxChosen
    /\ ui' = [ui EXCEPT !.password = FALSE, !.lock = FALSE]
    /\ validSlots' = 0 /\ activeHeader' = NoHeader
    /\ activeDEK' = 0 /\ activeDEKKey' = 0 /\ activeFileTable' = 0
    /\ Chosen(c)
    /\ unlocks' = Overtaken /\ locked' = FALSE
    /\ UNCHANGED <<found, loading, download>>

\* onFileSelected: clearResults, resetState, then the check
onFileSelected(c) ==
    /\ ui.file /\ Len(checks) < MaxChosen
    /\ ui' = [ui EXCEPT !.list = 0, !.offsets = 0, !.by = 0, !.password = FALSE, !.lock = FALSE]
    /\ validSlots' = 0 /\ activeHeader' = NoHeader
    /\ activeDEK' = 0 /\ activeDEKKey' = 0 /\ activeFileTable' = 0
    /\ Chosen(c)
    /\ unlocks' = Overtaken /\ locked' = FALSE
    /\ UNCHANGED <<found, loading, download>>

\* findValidSlots has returned or thrown; cipher and hash are those the first slot claims
CheckEnds(k) ==
    LET c == checks[k].file IN
    /\ checks[k].at = "reading"
    /\ checks' = [checks EXCEPT ![k].at = "done"]
    /\ IF ListedSlots(c) = {}
       THEN ui' = [ui EXCEPT !.file = TRUE] /\ UNCHANGED validSlots
       ELSE /\ validSlots' = c
            /\ \/ /\ found[c].supported
                  /\ ui' = [ui EXCEPT !.file = FALSE, !.password = TRUE]
               \/ /\ ~found[c].supported \/ Damage(c, Listed(c)[1]) = "body"
                  /\ UNCHANGED ui
    /\ unlocks' = IF c = containerFile THEN unlocks ELSE Disturbed
    /\ UNCHANGED <<found, containerFile, keys, loading, download, locked>>

-----------------------------------------------------------------------------
(* Unlocking and locking.                                                      *)

\* Mutated: the button is given back after a success only
EndsWithoutFinally(u, outcome, section) ==
    /\ unlocks' = [unlocks EXCEPT ![u].at = outcome]
    /\ ui' = [section EXCEPT !.unlock = (outcome = "unlocked")]

\* the finally of onUnlock, with the section changes made before it
Ends(u, outcome, section) ==
    /\ unlocks' = [unlocks EXCEPT ![u].at = outcome]
    /\ ui' = [section EXCEPT !.unlock = TRUE]

\* onUnlock, by the button or by Enter, which works while the button is disabled; without a
\* slot, or with one that asks for too much memory, it ends at once; slots are those listed
\* then and, from Loop on, those it tries
onUnlock(pw) ==
    /\ ui.password /\ Len(unlocks) < MaxUnlocks
    /\ LET refusedNow == validSlots = 0 \/ Damage(validSlots, Listed(validSlots)[1]) = "huge"
           task == [at |-> IF refusedNow THEN "refused" ELSE "pause", pw |-> pw,
                    slots |-> validSlots, file |-> 0, header |-> NoHeader, key |-> 0,
                    steady |-> /\ validSlots = containerFile
                               /\ \A u \in DOMAIN unlocks : InFlight(u) => unlocks[u].steady,
                    moved |-> FALSE]
       IN  /\ unlocks' = Append(unlocks, task)
           /\ ui' = [ui EXCEPT !.unlock = refusedNow]
    /\ locked' = FALSE
    /\ UNCHANGED <<found, containerFile, validSlots, keys, loading, checks, download>>

\* after the pause the loop takes the slots validSlots lists now
Loop(u) ==
    /\ unlocks[u].at = "pause"
    /\ IF validSlots = 0 THEN Ends(u, "refused", ui)
       ELSE /\ unlocks' = [unlocks EXCEPT ![u].at = "derive", ![u].slots = validSlots]
            /\ UNCHANGED ui
    /\ UNCHANGED <<found, containerFile, validSlots, keys, loading, checks, download, locked>>

\* the loop ends; what it found goes to the globals, and the import of the DEK begins
Derived(u) ==
    LET c == unlocks[u].slots  i == Recovered(unlocks[u].pw, c) IN
    /\ unlocks[u].at = "derive"
    /\ IF i = 0 THEN Ends(u, "refused", ui) /\ UNCHANGED <<activeDEK, activeHeader>>
       ELSE /\ activeDEK' = c /\ activeHeader' = [of |-> c, slot |-> i]
            /\ unlocks' = [unlocks EXCEPT ![u].at = "import", ![u].key = c]
            /\ UNCHANGED ui
    /\ UNCHANGED <<found, containerFile, validSlots, activeDEKKey, activeFileTable, loading,
                   checks, download, locked>>

\* importDEKKey has returned; readFileTable is called with the globals of this moment
Imported(u) ==
    /\ unlocks[u].at = "import"
    /\ activeDEKKey' = unlocks[u].key
    /\ IF activeHeader = NoHeader THEN Ends(u, "refused", ui)
       ELSE /\ unlocks' = [unlocks EXCEPT ![u].at = "table", ![u].file = containerFile,
                                          ![u].header = activeHeader]
            /\ UNCHANGED ui
    /\ UNCHANGED <<found, containerFile, validSlots, activeDEK, activeHeader, activeFileTable,
                   loading, checks, download, locked>>

\* readFileTable decrypts: the key must be the container's; a header of another container
\* tells it a size which may or may not be the right one
TableReads(u) ==
    LET t == unlocks[u] IN
    t.key = t.file /\ Damage(t.file, t.header.slot) # "table"

TableRead(u) ==
    /\ unlocks[u].at = "table" /\ TableReads(u)
    /\ activeFileTable' = unlocks[u].file
    /\ LET unlocked == [ui EXCEPT !.file = FALSE, !.password = FALSE, !.lock = TRUE] IN
       IF activeHeader = NoHeader          \* showHeaderInfo throws
       THEN Ends(u, "refused", unlocked)
       ELSE Ends(u, "unlocked", [unlocked EXCEPT !.list = unlocks[u].file,
                                                 !.offsets = containerFile, !.by = u])
    /\ UNCHANGED <<found, containerFile, validSlots, activeHeader, activeDEK, activeDEKKey,
                   loading, checks, download, locked>>

TableFails(u) ==
    /\ unlocks[u].at = "table"
    /\ TableReads(u) => unlocks[u].header.of # unlocks[u].file
    /\ Ends(u, "refused", ui)
    /\ UNCHANGED <<found, containerFile, validSlots, keys, loading, checks, download, locked>>

Unlocking(u) == Loop(u) \/ Derived(u) \/ Imported(u) \/ TableRead(u) \/ TableFails(u)

\* Mutated: the imported key stays
onLockKeepingKey ==
    /\ ui.lock
    /\ activeDEK' = 0 /\ activeFileTable' = 0
    /\ ui' = [ui EXCEPT !.list = 0, !.offsets = 0, !.by = 0, !.lock = FALSE, !.password = TRUE]
    /\ locked' = \A u \in DOMAIN unlocks : ~InFlight(u)
    /\ UNCHANGED <<found, containerFile, validSlots, activeHeader, activeDEKKey, loading, checks,
                   unlocks, download>>

onLock ==
    /\ ui.lock
    /\ activeDEK' = 0 /\ activeDEKKey' = 0 /\ activeFileTable' = 0
    /\ ui' = [ui EXCEPT !.list = 0, !.offsets = 0, !.by = 0, !.lock = FALSE, !.password = TRUE]
    /\ locked' = \A u \in DOMAIN unlocks : ~InFlight(u)
    /\ UNCHANGED <<found, containerFile, validSlots, activeHeader, loading, checks, unlocks, download>>

-----------------------------------------------------------------------------
(* Downloading.  A file of the container is the chunks of its entry, one after *)
(* the other; the place of each in the container holds the chunk ("own"),       *)
(* another one of the container ("other"), or something that was never sealed   *)
(* ("damaged").  What a chunk decrypts to is named by its container and number.  *)

Content(c) == [j \in 1 .. Chunks[c] |-> <<c, j>>]
Plain(c, k) == IF found[c].data[k] = "own" THEN <<c, k>> ELSE <<c, 0>>

\* a click on a button of the list: the arguments are the globals of this moment and the slot
\* offsets of when the list was shown; without a table the handler throws before it begins.
\* Downloads share nothing, so one at a time is followed
Click ==
    /\ ui.list # 0 /\ ui.offsets # 0 /\ activeFileTable # 0
    /\ download.at # "running"
    /\ download' = [at |-> "running", file |-> containerFile, header |-> activeHeader.of,
                    key |-> activeDEKKey, entry |-> activeFileTable, offsets |-> ui.offsets,
                    clicked |-> ui.list, got |-> <<>>]
    /\ UNCHANGED <<found, containerFile, validSlots, keys, ui, loading, checks, unlocks, locked>>

\* where readFragmentedBuffered reads the next chunk; with a block size, an entry or offsets of
\* another container that may be any chunk of the file, or none, 0
PlacesRead ==
    IF download.header = download.file /\ download.entry = download.file
                                       /\ download.offsets = download.file
    THEN {Len(download.got) + 1} ELSE {0} \cup 1 .. Chunks[download.file]

\* decryptChunk: what lies there was sealed with this key
Decrypts(k) == k # 0 /\ download.key = download.file /\ found[download.file].data[k] # "damaged"

\* the loop over the chunks of the entry; whatever does not decrypt ends in Abandoned
ReadChunk ==
    /\ download.at = "running" /\ download.header # 0
    /\ Len(download.got) < Chunks[download.entry]
    /\ \E k \in PlacesRead :
           /\ Decrypts(k)
           /\ download' = [download EXCEPT !.got = Append(@, Plain(download.file, k))]
    /\ UNCHANGED <<found, containerFile, validSlots, keys, ui, loading, checks, unlocks, locked>>

\* Mutated: the checksum is not compared
ChecksumIgnored == TRUE

\* SHA-256 of what was read is the one in the entry
ChecksumAgrees == download.got = Content(download.entry)

\* writable.close, or the link of the assembled file, after the loop and the checksum
Delivered ==
    /\ download.at = "running" /\ download.header # 0
    /\ Len(download.got) = Chunks[download.entry]
    /\ ChecksumAgrees
    /\ download' = [download EXCEPT !.at = "delivered"]
    /\ UNCHANGED <<found, containerFile, validSlots, keys, ui, loading, checks, unlocks, locked>>

\* an error or the user's cancel: writable.abort, nothing is left
Abandoned ==
    /\ download.at = "running"
    /\ download' = [NoDownload EXCEPT !.at = "abandoned"]
    /\ UNCHANGED <<found, containerFile, validSlots, keys, ui, loading, checks, unlocks, locked>>

UserStep == \/ \E c \in Containers : onFileSelected(c)
            \/ \E pw \in Containers : onUnlock(pw)    \* each wrong for the other containers
            \/ onLock \/ Click

Awaited == \/ AutoLoad \/ NoAutoLoad
           \/ \E k \in DOMAIN checks : CheckEnds(k)
           \/ \E u \in DOMAIN unlocks : Unlocking(u)
           \/ ReadChunk \/ Delivered \/ Abandoned

BVNext == UserStep \/ Awaited

\* what an await of onUnlock waits for comes: the promises of WebCrypto, of File and of
\* hash-wasm settle; the property below needs no other fairness
BVSpec ==
    /\ InitBrowser /\ [][BVNext]_bvVars
    /\ \A u \in 1 .. MaxUnlocks : WF_bvVars(u \in DOMAIN unlocks /\ Unlocking(u))

-----------------------------------------------------------------------------
\* Lock means locked: when nothing was unlocking at that moment, neither key nor table is left
\* and no list is shown until the next password is entered.
LockHolds ==
    locked =>
        activeDEK = 0 /\ activeDEKKey = 0 /\ activeFileTable = 0 /\ ui.list = 0

\* The list shown is of the file that is open now, whatever was checked late.  The list of the
\* file before can come up only through an unlock during which the other file was chosen, and
\* only if a second unlock, which was under way then too or began later, brought a header back.
ListIsOfThisFile ==
    ui.list # 0 =>
        \/ ui.list = containerFile
        \/ /\ unlocks[ui.by].moved
           /\ \E v \in DOMAIN unlocks : v # ui.by /\ (v > ui.by \/ unlocks[v].moved)

\* A download delivers the whole file of the list that was clicked, chunk by chunk, read in that
\* list's own container: file, header, table, key and offsets are five globals that handlers
\* change one by one, and what they name may be any mixture.
DeliveredIsTheFile ==
    download.at = "delivered" =>
        /\ download.got = Content(download.clicked)
        /\ download.got # <<>> => download.file = download.clicked

\* The right password is refused only for a reason, whatever locks come in between and whatever
\* other unlocks are under way, with right or wrong passwords: an unlock begun with the slots of
\* the open file and steady (no file chosen and no check of another one ended since, nor during
\* an unlock still under way then) opens the container when some slot is whole and the slots
\* before it miss their magic, have another salt or do not pass.  (Damaged parameters or a
\* damaged table in an earlier slot do make the viewer give up, and so does a first slot that
\* asks for too much.)
RightPasswordOpens ==
    \A u \in DOMAIN unlocks :
        LET t == unlocks[u] IN
        t.at = "refused" /\ t.steady /\ t.pw = t.slots
          => ~ \E i \in Slots : /\ Damage(t.pw, i) = "whole"
                                /\ \A j \in 1 .. i - 1 : Damage(t.pw, j) \in {"magic", "salt", "body"}

\* Every unlock ends and gives the button back.
UnlockComesBack == []<>(ui.unlock)
=============================================================================
