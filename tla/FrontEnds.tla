----------------------------- MODULE FrontEnds -----------------------------
(* The desktop program and the command line on one directory.  Nothing but   *)
(* the sharing mode of the open file keeps them apart, and that only on      *)
(* Windows.                                                                   *)
EXTENDS Gui, Cli, SequencesExt

feVars == <<sessionVars, guiVars, cliVars>>

FEInit == InitSessions /\ InitGui /\ InitCli

GuiJobStep == JobStep("gui", {fileManager}) /\ UNCHANGED <<guiVars, cliVars>>
CliJobStep == JobStep("cli", {fileManager}) /\ UNCHANGED <<guiVars, cliVars>>
GuiStep == GuiSteps /\ UNCHANGED cliVars
CliStep == CliSteps /\ UNCHANGED guiVars

FENext == GuiJobStep \/ CliJobStep \/ GuiStep \/ CliStep

\* the worker thread runs, Qt delivers what is queued and timers fire; nothing is owed by
\* the user, nor by a command line nobody waits for
FESpec ==
    /\ FEInit /\ [][FENext]_feVars
    /\ WF_feVars(GuiJobStep)
    /\ WF_feVars((PostResult \/ DeliverProgress \/ DeliverResult) /\ UNCHANGED cliVars)
    /\ WF_feVars(TimerFires /\ UNCHANGED cliVars)

-----------------------------------------------------------------------------
\* A FileManager has one owner: while the worker adds to or extracts from the open container
\* the GUI thread has no pointer to it (runAsync's std::move).  Between operations
\* containerOpen_ says whether the controller has one, and the path shown is that one's: no
\* failed operation leaves an open container without its FileManager, no refused open changes
\* the path under the one that stays open.
SessionHasOneOwner ==
    /\ busy /\ call \in {"add", "extract"} => fileManager = NoManager
    /\ Alive /\ ~busy => /\ containerOpen = (fileManager # NoManager)
                         /\ fileManager.name = path

\* busy_ is the whole truth about the worker: when it is down no thread, result or progress
\* report of an earlier operation is still on its way to the page of the next one.
IdleMeansQuiet == Alive /\ ~busy => jobs["gui"] = NoJob /\ queue = <<>>

\* The files listed are files of the session, in its order; and all of them unless an add has
\* failed, after which the FileManager may hold one the list does not show.
ListIsTable ==
    Alive /\ ~busy => /\ IsPrefix(list, fileManager.table)
                      /\ addFailed \/ list = fileManager.table

\* No container stays open behind the start page or a page that creates another one: this
\* holds as long as no create is started while the success overlay of the last is shown,
\* when the overlay's timer takes the page away that would have closed the container.
NoHiddenSession ==
    Alive /\ ~busy /\ fileManager # NoManager => page = "files" \/ overlapped

\* A file reported as stored, by the window or by an exit code, stays stored whatever both
\* programs do next, except in a container created over and, where no sharing mode stops it,
\* in one opened by two FileManagers at once: then the older table in memory wins.
ReportedFilesStay ==
    \A r \in reported : \/ Stored(r[1], r[2])
                        \/ r[1] \in truncated
                        \/ ~exclusive /\ r[1] \in shared

\* A create without --name never truncates a container that was there when it was started,
\* though the name is chosen before the password prompt and used after it.
CreateSparesExisting ==
    [][\A n \in existed : At("cli", "createContainerFile") /\ CliJobStep /\ ~command.named
          => dir'[n] = dir[n]]_feVars

\* Every operation started in the window ends for the user, whatever its call returns or
\* throws: busy_ goes down unless the window is closed.  One thing keeps it up: a pipeline
\* one of whose tasks has thrown, which neither returns nor throws.
BusyEnds == busy ~> ~busy \/ ~Alive \/ "gui" \in hung
=============================================================================
