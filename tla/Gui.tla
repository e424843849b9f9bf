-------------------------------- MODULE Gui --------------------------------
(* The desktop program: ScefController and the pages that drive it.  A       *)
(* FileManager travels: the controller owns it while idle, the worker thread *)
(* of runAsync while busy, the queued result on its way back.  The pages are *)
(* a stack of which the top is modelled; Qt delivers what the worker queues  *)
(* in order, one event of the GUI thread at a time.                          *)
(* gui/ScefController.cpp, gui/FileListModel.cpp, gui/qml/*.qml.             *)
EXTENDS Sessions

CONSTANTS
    MaxOps,       \* operations the user starts
    MaxQueued     \* progress events waiting in the GUI thread's queue

ASSUME GuiAssumption == MaxOps \in Nat /\ MaxQueued \in Nat /\ "gui" \in Programs

VARIABLES
    fileManager,  \* fileManager_: the open container, or none
    busy,         \* busy_
    containerOpen,\* containerOpen_
    path,         \* currentContainerDir_, 0 when cleared
    list,         \* fileListModel_: what the page shows
    call,         \* the call under way: its onSuccess and restoreOnError
    queue,        \* events queued for the GUI thread: "progress" and "result"
    page,         \* top of the page stack: "start", "create", "files"; "closed" after Quit
    waitingForOpen, \* StartPage.waitingForOpen, and its modal dialog
    overlay,      \* successOverlay is shown and successTimer runs
    ops,          \* operations started so far; the files they add are named by it
    addFailed,    \* history: the last add of this session failed
    overlapped    \* history: a create was started while the overlay of another was shown

controllerVars == <<fileManager, busy, containerOpen, path, list>>
pageVars == <<page, waitingForOpen, overlay>>
guiVars == <<controllerVars, pageVars, call, queue, ops, addFailed, overlapped>>

Alive == page # "closed"

InitGui ==
    /\ fileManager = NoManager /\ busy = FALSE /\ containerOpen = FALSE
    /\ path = 0 /\ list = <<>>
    /\ call = "none" /\ queue = <<>> /\ page = "start" /\ waitingForOpen = FALSE /\ overlay = FALSE
    /\ ops = 0 /\ addFailed = FALSE /\ overlapped = FALSE

-----------------------------------------------------------------------------
(* The controller's calls.                                                   *)

\* runAsync: fm moves to the worker thread
runAsync(name, steps, fm, file) ==
    /\ busy' = TRUE /\ call' = name
    /\ jobs' = [jobs EXCEPT !["gui"] = Job(steps, fm, file)]
    /\ ops' = ops + 1
    /\ UNCHANGED <<dir, exclusive, hung, reported, truncated, shared, queue>>

\* every call but closeContainer begins: if (busy_) return "Operation already in progress"
MayStart == ~busy /\ ops < MaxOps

createContainer(n) ==
    /\ MayStart
    /\ runAsync("create", Create, Manager(n), ops + 1)
    /\ UNCHANGED <<fileManager, containerOpen, path, list, addFailed>>

openContainer(n) ==
    /\ MayStart
    /\ runAsync("open", Open, Manager(n), 0)
    /\ UNCHANGED <<fileManager, containerOpen, path, list, addFailed>>

addFiles ==
    /\ MayStart /\ fileManager # NoManager
    /\ runAsync("add", Add, fileManager, ops + 1)
    /\ fileManager' = NoManager
    /\ UNCHANGED <<containerOpen, path, list, addFailed>>

extractFiles ==
    /\ MayStart /\ fileManager # NoManager
    /\ runAsync("extract", Read, fileManager, 0)
    /\ fileManager' = NoManager
    /\ UNCHANGED <<containerOpen, path, list, addFailed>>

\* closeContainer returns at once while busy_
Closed == /\ fileManager' = NoManager /\ containerOpen' = FALSE
          /\ path' = 0 /\ list' = <<>> /\ addFailed' = FALSE

-----------------------------------------------------------------------------
(* The pages: what their enabled buttons and dialogs do.                     *)

\* StartPage: nothing can be clicked behind the modal busy dialog
GoCreate ==
    /\ page = "start" /\ ~waitingForOpen
    /\ page' = "create"
    /\ UNCHANGED <<sessionVars, controllerVars, call, queue, waitingForOpen, overlay, ops, addFailed, overlapped>>

\* CreatePage: Create, with any name; the success overlay takes no clicks away from it
ClickCreate ==
    /\ page = "create"
    /\ \E n \in Names : createContainer(n)
    /\ overlapped' = (overlapped \/ overlay)
    /\ UNCHANGED pageVars

\* CreatePage: Back, not while busy; the page goes and its timer with it
BackFromCreate ==
    /\ page = "create" /\ ~busy
    /\ page' = "start" /\ overlay' = FALSE
    /\ UNCHANGED <<sessionVars, controllerVars, call, queue, waitingForOpen, ops, addFailed, overlapped>>

\* successTimer, 1.5 s after a create: stackView.pop(null), busy or not
TimerFires ==
    /\ overlay
    /\ page' = "start" /\ overlay' = FALSE
    /\ UNCHANGED <<sessionVars, controllerVars, call, queue, waitingForOpen, ops, addFailed, overlapped>>

\* StartPage: a password is accepted; while busy the call only returns an error
ClickOpen ==
    /\ page = "start" /\ ~waitingForOpen
    /\ \E n \in Names : openContainer(n)
    /\ waitingForOpen' = TRUE
    /\ UNCHANGED <<page, overlay, overlapped>>

ClickAdd ==
    /\ page = "files" /\ addFiles
    /\ UNCHANGED <<pageVars, overlapped>>

ClickExtract ==
    /\ page = "files" /\ extractFiles
    /\ UNCHANGED <<pageVars, overlapped>>

\* Mutated: Back leaves the container open
BackOnly ==
    /\ page = "files" /\ ~busy /\ page' = "start"
    /\ UNCHANGED <<sessionVars, controllerVars, call, queue, waitingForOpen, overlay, ops, addFailed, overlapped>>

\* FileListPage: Back, not while busy
BackFromFiles ==
    /\ page = "files" /\ ~busy
    /\ Closed /\ page' = "start"
    /\ UNCHANGED <<sessionVars, busy, call, queue, waitingForOpen, overlay, ops, overlapped>>

\* the window is closed: the event loop ends, ScefController and the pages are destroyed, and
\* what is queued is never delivered
Quit ==
    /\ Alive
    /\ Closed /\ busy' = FALSE /\ call' = "none" /\ queue' = <<>>
    /\ page' = "closed" /\ waitingForOpen' = FALSE /\ overlay' = FALSE /\ overlapped' = FALSE
    /\ UNCHANGED <<sessionVars, ops>>

\* the process ends soon after, the worker with it
Exit ==
    /\ ~Alive /\ jobs["gui"] # NoJob
    /\ jobs' = [jobs EXCEPT !["gui"] = NoJob] /\ hung' = hung \ {"gui"}
    /\ UNCHANGED <<dir, exclusive, reported, truncated, shared, guiVars>>

-----------------------------------------------------------------------------
(* The worker's reports, and what the GUI thread makes of them.              *)

\* the progress callback, between two steps of the FileManager
EmitProgress ==
    /\ Running("gui") /\ Alive
    /\ Cardinality({i \in DOMAIN queue : queue[i] = "progress"}) < MaxQueued
    /\ queue' = Append(queue, "progress")
    /\ UNCHANGED <<sessionVars, controllerVars, pageVars, call, ops, addFailed, overlapped>>

\* Mutated: the result overtakes the progress reports queued before it
PostResultFirst ==
    /\ jobs["gui"].outcome \in {"ok", "error"} /\ Alive
    /\ \A i \in DOMAIN queue : queue[i] # "result"
    /\ queue' = <<"result">> \o queue
    /\ UNCHANGED <<sessionVars, controllerVars, pageVars, call, ops, addFailed, overlapped>>

\* Mutated: an exception ends the worker thread without a result
PostResultOfSuccess ==
    /\ jobs["gui"].outcome = "ok" /\ Alive
    /\ \A i \in DOMAIN queue : queue[i] # "result"
    /\ queue' = Append(queue, "result")
    /\ UNCHANGED <<sessionVars, controllerVars, pageVars, call, ops, addFailed, overlapped>>

\* invokeMethod(qApp, ..., QueuedConnection) when the work has returned or thrown
PostResult ==
    /\ jobs["gui"].outcome \in {"ok", "error"} /\ Alive
    /\ \A i \in DOMAIN queue : queue[i] # "result"
    /\ queue' = Append(queue, "result")
    /\ UNCHANGED <<sessionVars, controllerVars, pageVars, call, ops, addFailed, overlapped>>

\* emit progressChanged: a label and a number of the page
DeliverProgress ==
    /\ Alive /\ queue # <<>> /\ Head(queue) = "progress"
    /\ queue' = Tail(queue)
    /\ UNCHANGED <<sessionVars, controllerVars, pageVars, call, ops, addFailed, overlapped>>

\* Mutated: the list is refreshed when a container is opened only
OnSuccessOfOpen(fm) ==
    /\ IF call \in {"create", "open"}
       THEN path' = fm.name /\ containerOpen' = TRUE /\ list' = fm.table
       ELSE UNCHANGED <<path, containerOpen, list>>
    /\ addFailed' = IF call = "extract" THEN addFailed ELSE FALSE

\* onSuccess of add: refreshFileList; of create and open: the container is open, and the list
OnSuccess(fm) ==
    /\ IF call \in {"create", "open"}
       THEN path' = fm.name /\ containerOpen' = TRUE ELSE UNCHANGED <<path, containerOpen>>
    /\ list' = IF call = "extract" THEN list ELSE fm.table
    /\ addFailed' = IF call = "extract" THEN addFailed ELSE FALSE

\* Mutated: restoreOnError has its default value in every call
RestoredOnSuccess(outcome) == outcome = "ok"

\* restoreOnError: add and extract keep the container open
Restored(outcome) == outcome = "ok" \/ call \in {"add", "extract"}

\* the result reaches the GUI thread: ownership, onSuccess, busy_, then operationFinished,
\* which a CreatePage on top answers to a success with closeContainer and its overlay,
\* and a StartPage that waits for an open with the page of the files
DeliverResult ==
    LET job == jobs["gui"]  ok == job.outcome = "ok" IN
    /\ Alive /\ queue # <<>> /\ Head(queue) = "result"
    /\ queue' = Tail(queue) /\ busy' = FALSE /\ call' = "none"
    /\ jobs' = [jobs EXCEPT !["gui"] = NoJob]
    /\ IF page = "create" /\ ok
       THEN Closed
       ELSE /\ fileManager' = IF Restored(job.outcome) THEN job.fm ELSE fileManager
            /\ \/ ok /\ OnSuccess(job.fm)
               \/ ~ok /\ addFailed' = (addFailed \/ call = "add") /\ UNCHANGED <<path, containerOpen, list>>
    /\ overlay' = (overlay \/ (page = "create" /\ ok))
    /\ page' = IF waitingForOpen /\ ok THEN "files" ELSE page
    /\ waitingForOpen' = FALSE
    /\ UNCHANGED <<dir, exclusive, hung, reported, truncated, shared, ops, overlapped>>

UserSteps == \/ GoCreate \/ ClickCreate \/ BackFromCreate \/ ClickOpen \/ ClickAdd
             \/ ClickExtract \/ BackFromFiles \/ Quit

GuiSteps == UserSteps \/ TimerFires \/ Exit \/ EmitProgress \/ PostResult
                \/ DeliverProgress \/ DeliverResult
=============================================================================
