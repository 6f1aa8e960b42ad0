---------------------------- MODULE AgentDaemon ----------------------------
(***************************************************************************)
(* The daemon of nomade-agent and the commands start, stop, restart,       *)
(* install and uninstall.  runtime.json holds the pid of the daemon; the   *)
(* commands read it, ask the operating system whether the pid runs, and    *)
(* write or delete the file, with no lock.  A pid may be taken by another  *)
(* program once its process has ended.                                     *)
(*                                                                         *)
(* Reading the file and asking for the pid it names is one step, every     *)
(* other await a boundary.  The sign-in and pairing steps of install and   *)
(* uninstall are left to AgentSession; they come before or after the steps *)
(* modelled here and touch other files.                                    *)
(***************************************************************************)
EXTENDS Integers

CONSTANTS
  Commands,     \* command-line processes
  Pids,
  NoPid,
  MaxCommands,  \* bound on the commands run
  MaxExits,     \* bound on daemons that exit by themselves
  MaxBreaks     \* bound on commands that are interrupted

VARIABLES
  runtimeFile,  \* the pid in runtime.json
  process,      \* what runs under each pid
  op,           \* the command a process runs
  at,           \* where it stands
  state,        \* RuntimeState it holds: the pid it has read, or has spawned
  inspections,  \* calls of inspectRuntime before it spawns
  commandRuns, exits, breaks,
  startRaced,   \* some command that starts a daemon ran at the same time as another
  interrupted   \* some command was interrupted

commandVars == <<op, at, state, inspections>>
countVars   == <<commandRuns, exits, breaks, startRaced, interrupted>>
daemonVars  == <<runtimeFile, process, commandVars, countVars>>

Starting == {"start", "restart", "install"}
Stopping == {"stop", "restart", "uninstall"}
Command  == Starting \union Stopping
Place    == {"idle", "inspect", "cleanup", "spawn", "write", "settle", "unfile",
             "stop", "await", "forced", "delete", "remove"}

\* isPidRunning: kill(pid, 0) does not tell whose process it is.
IsPidRunning(p) == process[p] # "none"

\* A daemon of ours, also one that has been told to stop.
IsDaemon(p) == process[p] \in {"daemon", "stopping", "killed"}

Goes(c, place) == at' = [at EXCEPT ![c] = place]

\* The command returns or throws.
Returns(c) ==
  /\ Goes(c, "idle")
  /\ op' = [op EXCEPT ![c] = "none"]
  /\ state' = [state EXCEPT ![c] = NoPid]
  /\ inspections' = [inspections EXCEPT ![c] = 0]

DeleteRuntimeState == runtimeFile' = NoPid

-----------------------------------------------------------------------------
(* main: the commands.                                                      *)

\* startDaemon inspects the runtime before startRuntime does; installCommand
\* does so once more, after the sign-in and the pairing.
StartInspections   == 2
InstallInspections == 1 + StartInspections
Inspections(o) == IF o = "install" THEN InstallInspections ELSE StartInspections

Begin(c, o) ==
  /\ at[c] = "idle"
  /\ commandRuns < MaxCommands
  /\ commandRuns' = commandRuns + 1
  /\ op' = [op EXCEPT ![c] = o]
  /\ Goes(c, IF o \in Stopping THEN "stop" ELSE "inspect")
  /\ inspections' = [inspections EXCEPT ![c] = IF o \in Starting THEN Inspections(o) ELSE 0]
  /\ startRaced' = \/ startRaced
                   \/ \E d \in Commands \ {c} : at[d] # "idle" /\ {o, op[d]} \intersect Starting # {}
  /\ UNCHANGED <<runtimeFile, process, state, exits, breaks, interrupted>>

\* The user interrupts the command, or it throws for a reason of its own.
Interrupt(c) ==
  /\ at[c] # "idle"
  /\ breaks < MaxBreaks
  /\ breaks' = breaks + 1
  /\ interrupted' = TRUE
  /\ Returns(c)
  /\ UNCHANGED <<runtimeFile, process, commandRuns, exits, startRaced>>

-----------------------------------------------------------------------------
(* inspectRuntime and startRuntime.                                         *)

\* One inspection found nothing that runs.
Inspected(c) ==
  /\ inspections' = [inspections EXCEPT ![c] = @ - 1]
  /\ Goes(c, IF inspections[c] = 1 THEN "spawn" ELSE "inspect")

InspectRuntime(c) ==
  /\ at[c] = "inspect"
  /\ \/ runtimeFile = NoPid /\ Inspected(c) /\ UNCHANGED <<op, state>>
     \/ runtimeFile # NoPid /\ IsPidRunning(runtimeFile) /\ Returns(c)
     \/ /\ runtimeFile # NoPid /\ ~IsPidRunning(runtimeFile)
        /\ Goes(c, "cleanup")
        /\ UNCHANGED <<op, state, inspections>>
  /\ UNCHANGED <<runtimeFile, process, countVars>>

\* The stale file is deleted, whatever it holds by now.
CleanupStale(c) ==
  /\ at[c] = "cleanup"
  /\ DeleteRuntimeState
  /\ Inspected(c)
  /\ UNCHANGED <<process, op, state, countVars>>

StartRuntime(c, p) ==
  /\ at[c] = "spawn"
  /\ process[p] = "none"
  /\ process' = [process EXCEPT ![p] = "daemon"]
  /\ state' = [state EXCEPT ![c] = p]
  /\ Goes(c, "write")
  /\ UNCHANGED <<runtimeFile, op, inspections, countVars>>

WriteRuntimeState(c) ==
  /\ at[c] = "write"
  /\ runtimeFile' = state[c]
  /\ Goes(c, "settle")
  /\ UNCHANGED <<process, op, state, inspections, countVars>>

\* 400 ms later: a daemon that has exited early is taken off the file.
Settle(c) ==
  /\ at[c] = "settle"
  /\ IF IsPidRunning(state[c])
     THEN Returns(c)
     ELSE Goes(c, "unfile") /\ UNCHANGED <<op, state, inspections>>
  /\ UNCHANGED <<runtimeFile, process, countVars>>

StartFailed(c) ==
  /\ at[c] = "unfile"
  /\ DeleteRuntimeState
  /\ Returns(c)
  /\ UNCHANGED <<process, countVars>>

-----------------------------------------------------------------------------
(* stopRuntime and removeAgentState.                                        *)

\* restart goes on with startDaemon, uninstallCommand with the other files.
RestartCommand(c)   == Goes(c, "inspect") /\ UNCHANGED <<op, state, inspections>>
UninstallCommand(c) == Goes(c, "remove") /\ UNCHANGED <<op, state, inspections>>

\* What comes after stopRuntime.
Stopped(c) ==
  CASE op[c] = "stop" -> Returns(c)
    [] op[c] = "restart" -> RestartCommand(c)
    [] op[c] = "uninstall" -> UninstallCommand(c)

\* The state is read, and a pid that runs is sent SIGTERM.
StopRuntime(c) ==
  /\ at[c] = "stop"
  /\ \/ runtimeFile = NoPid /\ Stopped(c) /\ UNCHANGED process
     \/ /\ runtimeFile # NoPid /\ ~IsPidRunning(runtimeFile)
        /\ Goes(c, "delete")
        /\ UNCHANGED <<process, op, state, inspections>>
     \/ /\ runtimeFile # NoPid /\ IsPidRunning(runtimeFile)
        /\ state' = [state EXCEPT ![c] = runtimeFile]
        /\ process' = [process EXCEPT ![runtimeFile] =
                         IF @ = "daemon" THEN "stopping" ELSE @]
        /\ Goes(c, "await")
        /\ UNCHANGED <<op, inspections>>
  /\ UNCHANGED <<runtimeFile, countVars>>

\* Mutant: the state is deleted as soon as the signal is sent.
AwaitNothing(c) ==
  /\ at[c] = "await"
  /\ Goes(c, "delete")
  /\ UNCHANGED <<runtimeFile, process, op, state, inspections, countVars>>

AwaitPidExit(c) ==
  /\ at[c] \in {"await", "forced"}
  /\ ~IsPidRunning(state[c])
  /\ Goes(c, "delete")
  /\ UNCHANGED <<runtimeFile, process, op, state, inspections, countVars>>

\* The daemon has not exited after the grace time.  A program that has taken its
\* pid is signalled in its place, and may exit at any time (OtherExits).
ForceKill(c) ==
  /\ at[c] = "await"
  /\ IsPidRunning(state[c])
  /\ process' = [process EXCEPT ![state[c]] = IF @ = "other" THEN @ ELSE "killed"]
  /\ Goes(c, "forced")
  /\ UNCHANGED <<runtimeFile, op, state, inspections, countVars>>

\* stop_failed: the process is still there.
StopFails(c) ==
  /\ at[c] = "forced"
  /\ IsPidRunning(state[c])
  /\ Returns(c)
  /\ UNCHANGED <<runtimeFile, process, countVars>>

DeleteState(c) ==
  /\ at[c] = "delete"
  /\ DeleteRuntimeState
  /\ Stopped(c)
  /\ UNCHANGED <<process, countVars>>

\* uninstallCommand removes the files once more, after logging out.
RemoveAgentState(c) ==
  /\ at[c] = "remove"
  /\ DeleteRuntimeState
  /\ Returns(c)
  /\ UNCHANGED <<process, countVars>>

-----------------------------------------------------------------------------
(* Processes.                                                               *)

\* A daemon that was told to stop or was killed exits, or one does by itself.
DaemonExits(p) ==
  /\ IsDaemon(p)
  /\ process[p] = "daemon" => exits < MaxExits
  /\ exits' = IF process[p] = "daemon" THEN exits + 1 ELSE exits
  /\ process' = [process EXCEPT ![p] = "none"]
  /\ UNCHANGED <<runtimeFile, commandVars, commandRuns, breaks, startRaced, interrupted>>

\* Another program gets the pid of the file after the daemon has exited.
PidReused(p) ==
  /\ process[p] = "none"
  /\ p = runtimeFile
  /\ process' = [process EXCEPT ![p] = "other"]
  /\ UNCHANGED <<runtimeFile, commandVars, countVars>>

OtherExits(p) ==
  /\ process[p] = "other"
  /\ process' = [process EXCEPT ![p] = "none"]
  /\ UNCHANGED <<runtimeFile, commandVars, countVars>>

-----------------------------------------------------------------------------
Init ==
  /\ runtimeFile = NoPid
  /\ process = [p \in Pids |-> "none"]
  /\ op = [c \in Commands |-> "none"]
  /\ at = [c \in Commands |-> "idle"]
  /\ state = [c \in Commands |-> NoPid]
  /\ inspections = [c \in Commands |-> 0]
  /\ commandRuns = 0 /\ exits = 0 /\ breaks = 0
  /\ startRaced = FALSE /\ interrupted = FALSE

Next ==
  \/ \E c \in Commands :
       \/ \E o \in Command : Begin(c, o)
       \/ Interrupt(c)
       \/ InspectRuntime(c) \/ CleanupStale(c)
       \/ \E p \in Pids : StartRuntime(c, p)
       \/ WriteRuntimeState(c) \/ Settle(c) \/ StartFailed(c)
       \/ StopRuntime(c) \/ AwaitPidExit(c) \/ ForceKill(c) \/ StopFails(c)
       \/ DeleteState(c) \/ RemoveAgentState(c)
  \/ \E p \in Pids : DaemonExits(p) \/ PidReused(p) \/ OtherExits(p)

Spec == Init /\ [][Next]_daemonVars

-----------------------------------------------------------------------------
TypeOK ==
  /\ runtimeFile \in Pids \union {NoPid}
  /\ process \in [Pids -> {"none", "daemon", "stopping", "killed", "other"}]
  /\ op \in [Commands -> Command \union {"none"}]
  /\ at \in [Commands -> Place]
  /\ state \in [Commands -> Pids \union {NoPid}]
  /\ inspections \in [Commands -> 0 .. 3]
  /\ commandRuns \in 0 .. MaxCommands
  /\ exits \in 0 .. MaxExits
  /\ breaks \in 0 .. MaxBreaks
  /\ startRaced \in BOOLEAN
  /\ interrupted \in BOOLEAN

\* A daemon that runs is the one runtime.json names, so that there is only one
\* and a command can reach it: a daemon is lost only when a start overlapped
\* another command, or a command was interrupted.  Stops that overlap each other,
\* daemons that die and pids that are reused lose none.
DaemonIsOnFile ==
  startRaced \/ interrupted \/
  \A p \in Pids : IsDaemon(p) =>
    p = runtimeFile \/ \E c \in Commands : at[c] = "write" /\ state[c] = p
=============================================================================
