-------------------------------- MODULE Cli --------------------------------
(* The command line program: one command at a time, each a fresh process.    *)
(* Which container a command works on is settled before it asks for the      *)
(* password, and the prompt lasts as long as the user likes.                 *)
(* src/src/cli/commands.cpp, src/src/cli/args.cpp.                           *)
EXTENDS Sessions

CONSTANTS
    MaxCommands,  \* commands run
    FirstFile     \* the file of the first command; the next ones follow

ASSUME CliAssumption == MaxCommands \in Nat /\ FirstFile \in Nat \ {0} /\ "cli" \in Programs

VARIABLES
    command,      \* the command under way and the container it settled on
    commands,     \* commands started so far
    existed       \* history: containers there when the command was started

cliVars == <<command, commands, existed>>

NoCommand == [cmd |-> "none", named |-> FALSE, name |-> 0]

InitCli == command = NoCommand /\ commands = 0 /\ existed = {}

-----------------------------------------------------------------------------
\* resolveExistingContainerPath without --name: container.scef, or the only container
\* there is; 0 for none and for several
resolveExistingContainerPath ==
    LET found == {n \in Names : dir[n].there} IN
    IF 1 \in found THEN 1
    ELSE IF Cardinality(found) = 1 THEN CHOOSE n \in found : TRUE ELSE 0

\* Mutated: without --name every command works on container.scef
ContainerForNoSearch(cmd, given) ==
    IF given # 0 THEN given ELSE 1

\* --name as it is given; otherwise a free name for create, an existing one for the rest
ContainerFor(cmd, given) ==
    IF given # 0 THEN given
    ELSE IF cmd = "create" THEN nextAvailableContainerPath ELSE resolveExistingContainerPath

\* a command with good arguments that finds its container; others end here
StartCommand(cmd, given) ==
    /\ command = NoCommand /\ commands < MaxCommands
    /\ ContainerFor(cmd, given) # 0
    /\ command' = [cmd |-> cmd, named |-> given # 0, name |-> ContainerFor(cmd, given)]
    /\ commands' = commands + 1
    /\ existed' = {n \in Names : dir[n].there}
    /\ UNCHANGED sessionVars

Calls(cmd) ==
    CASE cmd = "create" -> Create
      [] cmd = "add"    -> Open \o Add
      [] OTHER          -> Open \o Read

\* read_password returns
PasswordGiven ==
    /\ command # NoCommand /\ jobs["cli"] = NoJob
    /\ jobs' = [jobs EXCEPT !["cli"] =
                    Job(Calls(command.cmd), Manager(command.name),
                        IF command.cmd = "read" THEN 0 ELSE FirstFile + commands - 1)]
    /\ UNCHANGED <<dir, exclusive, hung, reported, truncated, shared, cliVars>>

\* the command ends: with EXIT_SUCCESS when every call returned, with EXIT_FAILURE when one
\* threw, and before any call when a weak password is given up or the prompt interrupted
Ends ==
    /\ command # NoCommand
    /\ jobs' = [jobs EXCEPT !["cli"] = NoJob] /\ hung' = hung \ {"cli"}
    /\ command' = NoCommand /\ existed' = {}
    /\ UNCHANGED <<dir, exclusive, reported, truncated, shared, commands>>

CommandEnds == jobs["cli"].outcome \in {"ok", "error"} /\ Ends
PromptLeft == jobs["cli"] = NoJob /\ Ends
\* the process is killed between two steps, or while it waits for ever
Interrupted == Running("cli") /\ Ends

CliSteps ==
    \/ \E cmd \in {"create", "add", "read"}, given \in Names \cup {0} : StartCommand(cmd, given)
    \/ PasswordGiven \/ CommandEnds \/ PromptLeft \/ Interrupted
=============================================================================
