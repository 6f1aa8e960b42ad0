------------------------- MODULE AgentDaemonProofs -------------------------
(* Proofs about AgentDaemon, for any commands, pids and bounds.              *)
EXTENDS AgentDaemon, TLAPS

\* What is proved of the steps is about runs in which no start overlapped another
\* command and none was interrupted.
Quiet == ~startRaced /\ ~interrupted

\* A command is only where its kind goes, and has inspections left where it makes them.
Places ==
  \A c \in Commands :
    /\ at[c] \in {"inspect", "cleanup", "spawn", "write", "settle", "unfile"} => op[c] \in Starting
    /\ at[c] \in {"stop", "await", "forced", "delete"} => op[c] \in Stopping
    /\ at[c] \in {"stop", "await", "forced", "delete", "inspect", "cleanup"} /\ op[c] \in Starting
         => inspections[c] \in 1 .. 3

\* A command that starts a daemon runs alone,
StartsAlone ==
  Quiet => \A c, d \in Commands :
    c # d /\ at[c] # "idle" /\ at[d] # "idle" => op[c] \notin Starting

NoDaemon == \A p \in Pids : ~IsDaemon(p)

\* no daemon runs where a command is about to start one or to delete the file,
NoneLeft ==
  Quiet => \A c \in Commands :
    at[c] \in {"cleanup", "spawn", "unfile", "delete", "remove"} => NoDaemon

\* and where one has started or told one to stop, no other runs.
OnlyOwn ==
  Quiet => \A c \in Commands :
    /\ at[c] \in {"write", "settle", "await", "forced"} =>
         \A p \in Pids : IsDaemon(p) => p = state[c]
    /\ at[c] = "settle" => runtimeFile = state[c]
    /\ at[c] \in {"write", "settle", "await", "forced"} => state[c] \in Pids

DaemonInv == TypeOK /\ Places /\ StartsAlone /\ NoneLeft /\ OnlyOwn /\ DaemonIsOnFile

-----------------------------------------------------------------------------
\* The start.
LEMMA InitDaemonInv ==
  ASSUME NoPid \notin Pids, MaxCommands \in Nat, MaxExits \in Nat, MaxBreaks \in Nat, Init
  PROVE  DaemonInv
<1>1. TypeOK
  <2>1. runtimeFile \in Pids \union {NoPid}
    BY DEF Init, Command, Starting, Stopping, Place
  <2>2. process \in [Pids -> {"none", "daemon", "stopping", "killed", "other"}]
    BY DEF Init, Command, Starting, Stopping, Place
  <2>3. op \in [Commands -> Command \union {"none"}]
    BY DEF Init, Command, Starting, Stopping, Place
  <2>4. at \in [Commands -> Place]
    BY DEF Init, Command, Starting, Stopping, Place
  <2>5. state \in [Commands -> Pids \union {NoPid}]
    BY DEF Init, Command, Starting, Stopping, Place
  <2>6. inspections \in [Commands -> 0 .. 3]
    BY DEF Init, Command, Starting, Stopping, Place
  <2>7. /\ commandRuns \in 0 .. MaxCommands
        /\ exits \in 0 .. MaxExits
        /\ breaks \in 0 .. MaxBreaks
    BY DEF Init, Command, Starting, Stopping, Place
  <2>8. startRaced \in BOOLEAN /\ interrupted \in BOOLEAN
    BY DEF Init, Command, Starting, Stopping, Place
  <2> QED
    BY <2>1, <2>2, <2>3, <2>4, <2>5, <2>6, <2>7, <2>8 DEF TypeOK
<1>2. Places /\ StartsAlone /\ NoneLeft /\ OnlyOwn
  BY DEF Init, Places, StartsAlone, NoneLeft, OnlyOwn
<1>3. DaemonIsOnFile
  BY DEF Init, DaemonIsOnFile, IsDaemon
<1> QED
  BY <1>1, <1>2, <1>3 DEF DaemonInv

\* Where a command goes once the runtime is stopped.
LEMMA StoppedGoes ==
  ASSUME NEW c \in Commands, op[c] \in Stopping, Stopped(c)
  PROVE  \/ op[c] = "stop" /\ Returns(c)
         \/ op[c] = "restart" /\ RestartCommand(c)
         \/ op[c] = "uninstall" /\ UninstallCommand(c)
  BY DEF Stopping, Stopped

\* A command that begins beside another is a stop beside a stop, or it raced.
LEMMA BeginKeeps ==
  ASSUME NoPid \notin Pids, MaxCommands \in Nat, MaxExits \in Nat, MaxBreaks \in Nat, DaemonInv,
         NEW c \in Commands, NEW o \in Command, Begin(c, o)
  PROVE  DaemonInv'
<1> USE DEF DaemonInv, Begin, Inspections, StartInspections, InstallInspections, Goes, Returns,
            IsPidRunning, IsDaemon, Quiet, NoDaemon, Starting, Stopping, Command, Place, commandVars, countVars
<1>1. TypeOK'
  BY DEF TypeOK, Places
<1>2. Places'
  BY DEF TypeOK, Places
<1>3. StartsAlone'
  BY DEF TypeOK, Places, StartsAlone
<1>4. NoneLeft'
  BY DEF TypeOK, Places, StartsAlone, NoneLeft, OnlyOwn, DaemonIsOnFile
<1>5. OnlyOwn'
  BY DEF TypeOK, Places, StartsAlone, NoneLeft, OnlyOwn, DaemonIsOnFile
<1>6. DaemonIsOnFile'
  BY DEF TypeOK, Places, StartsAlone, NoneLeft, OnlyOwn, DaemonIsOnFile
<1> QED
  BY <1>1, <1>2, <1>3, <1>4, <1>5, <1>6

\* An interrupted command ends the claim.
LEMMA InterruptKeeps ==
  ASSUME NoPid \notin Pids, MaxCommands \in Nat, MaxExits \in Nat, MaxBreaks \in Nat, DaemonInv,
         NEW c \in Commands, Interrupt(c)
  PROVE  DaemonInv'
<1> USE DEF DaemonInv, Interrupt, Goes, Returns,
            IsPidRunning, IsDaemon, Quiet, NoDaemon, Starting, Stopping, Command, Place, commandVars, countVars
<1>1. TypeOK'
  BY DEF TypeOK, Places
<1>2. Places'
  BY DEF TypeOK, Places
<1>3. StartsAlone'
  BY DEF TypeOK, Places, StartsAlone
<1>4. NoneLeft'
  BY DEF TypeOK, Places, StartsAlone, NoneLeft, OnlyOwn, DaemonIsOnFile
<1>5. OnlyOwn'
  BY DEF TypeOK, Places, StartsAlone, NoneLeft, OnlyOwn, DaemonIsOnFile
<1>6. DaemonIsOnFile'
  BY DEF TypeOK, Places, StartsAlone, NoneLeft, OnlyOwn, DaemonIsOnFile
<1> QED
  BY <1>1, <1>2, <1>3, <1>4, <1>5, <1>6

\* Where the file names nothing that runs, no daemon does.
LEMMA InspectKeeps ==
  ASSUME NoPid \notin Pids, MaxCommands \in Nat, MaxExits \in Nat, MaxBreaks \in Nat, DaemonInv,
         NEW c \in Commands, InspectRuntime(c)
  PROVE  DaemonInv'
<1> USE DEF DaemonInv, InspectRuntime, Inspected, Goes, Returns,
            IsPidRunning, IsDaemon, Quiet, NoDaemon, Starting, Stopping, Command, Place, commandVars, countVars
<1>1. TypeOK'
  BY DEF TypeOK, Places
<1>2. Places'
  BY DEF TypeOK, Places
<1>3. StartsAlone'
  BY DEF TypeOK, Places, StartsAlone
<1>4. NoneLeft'
  BY DEF TypeOK, Places, StartsAlone, NoneLeft, OnlyOwn, DaemonIsOnFile
<1>5. OnlyOwn'
  BY DEF TypeOK, Places, StartsAlone, NoneLeft, OnlyOwn, DaemonIsOnFile
<1>6. DaemonIsOnFile'
  BY DEF TypeOK, Places, StartsAlone, NoneLeft, OnlyOwn, DaemonIsOnFile
<1> QED
  BY <1>1, <1>2, <1>3, <1>4, <1>5, <1>6

\* Then the stale file can go.
LEMMA CleanupKeeps ==
  ASSUME NoPid \notin Pids, MaxCommands \in Nat, MaxExits \in Nat, MaxBreaks \in Nat, DaemonInv,
         NEW c \in Commands, CleanupStale(c)
  PROVE  DaemonInv'
<1> USE DEF DaemonInv, CleanupStale, Inspected, DeleteRuntimeState, Goes, Returns,
            IsPidRunning, IsDaemon, Quiet, NoDaemon, Starting, Stopping, Command, Place, commandVars, countVars
<1>1. TypeOK'
  BY DEF TypeOK, Places
<1>2. Places'
  BY DEF TypeOK, Places
<1>3. StartsAlone'
  BY DEF TypeOK, Places, StartsAlone
<1>4. NoneLeft'
  BY DEF TypeOK, Places, StartsAlone, NoneLeft, OnlyOwn, DaemonIsOnFile
<1>5. OnlyOwn'
  BY DEF TypeOK, Places, StartsAlone, NoneLeft, OnlyOwn, DaemonIsOnFile
<1>6. DaemonIsOnFile'
  BY DEF TypeOK, Places, StartsAlone, NoneLeft, OnlyOwn, DaemonIsOnFile
<1> QED
  BY <1>1, <1>2, <1>3, <1>4, <1>5, <1>6

\* The daemon that is started is the only one,
LEMMA StartKeeps ==
  ASSUME NoPid \notin Pids, MaxCommands \in Nat, MaxExits \in Nat, MaxBreaks \in Nat, DaemonInv,
         NEW c \in Commands, NEW p \in Pids, StartRuntime(c, p)
  PROVE  DaemonInv'
<1> USE DEF DaemonInv, StartRuntime, Goes, Returns,
            IsPidRunning, IsDaemon, Quiet, NoDaemon, Starting, Stopping, Command, Place, commandVars, countVars
<1>1. TypeOK'
  BY DEF TypeOK, Places
<1>2. Places'
  BY DEF TypeOK, Places
<1>3. StartsAlone'
  BY DEF TypeOK, Places, StartsAlone
<1>4. NoneLeft'
  BY DEF TypeOK, Places, StartsAlone, NoneLeft, OnlyOwn, DaemonIsOnFile
<1>5. OnlyOwn'
  BY DEF TypeOK, Places, StartsAlone, NoneLeft, OnlyOwn, DaemonIsOnFile
<1>6. DaemonIsOnFile'
  BY DEF TypeOK, Places, StartsAlone, NoneLeft, OnlyOwn, DaemonIsOnFile
<1> QED
  BY <1>1, <1>2, <1>3, <1>4, <1>5, <1>6

\* and the file gets its pid.
LEMMA WriteKeeps ==
  ASSUME NoPid \notin Pids, MaxCommands \in Nat, MaxExits \in Nat, MaxBreaks \in Nat, DaemonInv,
         NEW c \in Commands, WriteRuntimeState(c)
  PROVE  DaemonInv'
<1> USE DEF DaemonInv, WriteRuntimeState, Goes, Returns,
            IsPidRunning, IsDaemon, Quiet, NoDaemon, Starting, Stopping, Command, Place, commandVars, countVars
<1>1. TypeOK'
  BY DEF TypeOK, Places
<1>2. Places'
  BY DEF TypeOK, Places
<1>3. StartsAlone'
  BY DEF TypeOK, Places, StartsAlone
<1>4. NoneLeft'
  BY DEF TypeOK, Places, StartsAlone, NoneLeft, OnlyOwn, DaemonIsOnFile
<1>5. OnlyOwn'
  BY DEF TypeOK, Places, StartsAlone, NoneLeft, OnlyOwn, DaemonIsOnFile
<1>6. DaemonIsOnFile'
  BY DEF TypeOK, Places, StartsAlone, NoneLeft, OnlyOwn, DaemonIsOnFile
<1> QED
  BY <1>1, <1>2, <1>3, <1>4, <1>5, <1>6

\* When it has exited, none is left.
LEMMA SettleKeeps ==
  ASSUME NoPid \notin Pids, MaxCommands \in Nat, MaxExits \in Nat, MaxBreaks \in Nat, DaemonInv,
         NEW c \in Commands, Settle(c)
  PROVE  DaemonInv'
<1> USE DEF DaemonInv, Settle, Goes, Returns,
            IsPidRunning, IsDaemon, Quiet, NoDaemon, Starting, Stopping, Command, Place, commandVars, countVars
<1>1. TypeOK'
  BY DEF TypeOK, Places
<1>2. Places'
  BY DEF TypeOK, Places
<1>3. StartsAlone'
  BY DEF TypeOK, Places, StartsAlone
<1>4. NoneLeft'
  BY DEF TypeOK, Places, StartsAlone, NoneLeft, OnlyOwn, DaemonIsOnFile
<1>5. OnlyOwn'
  BY DEF TypeOK, Places, StartsAlone, NoneLeft, OnlyOwn, DaemonIsOnFile
<1>6. DaemonIsOnFile'
  BY DEF TypeOK, Places, StartsAlone, NoneLeft, OnlyOwn, DaemonIsOnFile
<1> QED
  BY <1>1, <1>2, <1>3, <1>4, <1>5, <1>6

\* So the file can go.
LEMMA StartFailedKeeps ==
  ASSUME NoPid \notin Pids, MaxCommands \in Nat, MaxExits \in Nat, MaxBreaks \in Nat, DaemonInv,
         NEW c \in Commands, StartFailed(c)
  PROVE  DaemonInv'
<1> USE DEF DaemonInv, StartFailed, DeleteRuntimeState, Goes, Returns,
            IsPidRunning, IsDaemon, Quiet, NoDaemon, Starting, Stopping, Command, Place, commandVars, countVars
<1>1. TypeOK'
  BY DEF TypeOK, Places
<1>2. Places'
  BY DEF TypeOK, Places
<1>3. StartsAlone'
  BY DEF TypeOK, Places, StartsAlone
<1>4. NoneLeft'
  BY DEF TypeOK, Places, StartsAlone, NoneLeft, OnlyOwn, DaemonIsOnFile
<1>5. OnlyOwn'
  BY DEF TypeOK, Places, StartsAlone, NoneLeft, OnlyOwn, DaemonIsOnFile
<1>6. DaemonIsOnFile'
  BY DEF TypeOK, Places, StartsAlone, NoneLeft, OnlyOwn, DaemonIsOnFile
<1> QED
  BY <1>1, <1>2, <1>3, <1>4, <1>5, <1>6

\* A stop takes the pid of the only daemon,
LEMMA StopKeeps ==
  ASSUME NoPid \notin Pids, MaxCommands \in Nat, MaxExits \in Nat, MaxBreaks \in Nat, DaemonInv,
         NEW c \in Commands, StopRuntime(c)
  PROVE  DaemonInv'
<1>0. Stopped(c) =>
        \/ op[c] = "stop" /\ Returns(c)
        \/ op[c] = "restart" /\ RestartCommand(c)
        \/ op[c] = "uninstall" /\ UninstallCommand(c)
  <2>1. op[c] \in Stopping
    BY DEF DaemonInv, Places, StopRuntime
  <2> QED
    BY <2>1, StoppedGoes
<1> USE DEF DaemonInv, StopRuntime, RestartCommand, UninstallCommand, Goes, Returns,
            IsPidRunning, IsDaemon, Quiet, NoDaemon, Starting, Stopping, Command, Place, commandVars, countVars
<1>1. TypeOK'
  BY <1>0 DEF TypeOK, Places
<1>2. Places'
  BY <1>0 DEF TypeOK, Places
<1>3. StartsAlone'
  BY <1>0 DEF TypeOK, Places, StartsAlone
<1>4. NoneLeft'
  BY <1>0 DEF TypeOK, Places, StartsAlone, NoneLeft, OnlyOwn, DaemonIsOnFile
<1>5. OnlyOwn'
  BY <1>0 DEF TypeOK, Places, StartsAlone, NoneLeft, OnlyOwn, DaemonIsOnFile
<1>6. DaemonIsOnFile'
  BY <1>0 DEF TypeOK, Places, StartsAlone, NoneLeft, OnlyOwn, DaemonIsOnFile
<1> QED
  BY <1>1, <1>2, <1>3, <1>4, <1>5, <1>6

\* and waits until it is gone,
LEMMA AwaitKeeps ==
  ASSUME NoPid \notin Pids, MaxCommands \in Nat, MaxExits \in Nat, MaxBreaks \in Nat, DaemonInv,
         NEW c \in Commands, AwaitPidExit(c)
  PROVE  DaemonInv'
<1> USE DEF DaemonInv, AwaitPidExit, Goes, Returns,
            IsPidRunning, IsDaemon, Quiet, NoDaemon, Starting, Stopping, Command, Place, commandVars, countVars
<1>1. TypeOK'
  BY DEF TypeOK, Places
<1>2. Places'
  BY DEF TypeOK, Places
<1>3. StartsAlone'
  BY DEF TypeOK, Places, StartsAlone
<1>4. NoneLeft'
  BY DEF TypeOK, Places, StartsAlone, NoneLeft, OnlyOwn, DaemonIsOnFile
<1>5. OnlyOwn'
  BY DEF TypeOK, Places, StartsAlone, NoneLeft, OnlyOwn, DaemonIsOnFile
<1>6. DaemonIsOnFile'
  BY DEF TypeOK, Places, StartsAlone, NoneLeft, OnlyOwn, DaemonIsOnFile
<1> QED
  BY <1>1, <1>2, <1>3, <1>4, <1>5, <1>6

\* or kills it,
LEMMA ForceKeeps ==
  ASSUME NoPid \notin Pids, MaxCommands \in Nat, MaxExits \in Nat, MaxBreaks \in Nat, DaemonInv,
         NEW c \in Commands, ForceKill(c)
  PROVE  DaemonInv'
<1> USE DEF DaemonInv, ForceKill, Goes, Returns,
            IsPidRunning, IsDaemon, Quiet, NoDaemon, Starting, Stopping, Command, Place, commandVars, countVars
<1>1. TypeOK'
  BY DEF TypeOK, Places
<1>2. Places'
  BY DEF TypeOK, Places
<1>3. StartsAlone'
  BY DEF TypeOK, Places, StartsAlone
<1>4. NoneLeft'
  BY DEF TypeOK, Places, StartsAlone, NoneLeft, OnlyOwn, DaemonIsOnFile
<1>5. OnlyOwn'
  BY DEF TypeOK, Places, StartsAlone, NoneLeft, OnlyOwn, DaemonIsOnFile
<1>6. DaemonIsOnFile'
  BY DEF TypeOK, Places, StartsAlone, NoneLeft, OnlyOwn, DaemonIsOnFile
<1> QED
  BY <1>1, <1>2, <1>3, <1>4, <1>5, <1>6

\* or gives up and leaves the file.
LEMMA StopFailsKeeps ==
  ASSUME NoPid \notin Pids, MaxCommands \in Nat, MaxExits \in Nat, MaxBreaks \in Nat, DaemonInv,
         NEW c \in Commands, StopFails(c)
  PROVE  DaemonInv'
<1> USE DEF DaemonInv, StopFails, Goes, Returns,
            IsPidRunning, IsDaemon, Quiet, NoDaemon, Starting, Stopping, Command, Place, commandVars, countVars
<1>1. TypeOK'
  BY DEF TypeOK, Places
<1>2. Places'
  BY DEF TypeOK, Places
<1>3. StartsAlone'
  BY DEF TypeOK, Places, StartsAlone
<1>4. NoneLeft'
  BY DEF TypeOK, Places, StartsAlone, NoneLeft, OnlyOwn, DaemonIsOnFile
<1>5. OnlyOwn'
  BY DEF TypeOK, Places, StartsAlone, NoneLeft, OnlyOwn, DaemonIsOnFile
<1>6. DaemonIsOnFile'
  BY DEF TypeOK, Places, StartsAlone, NoneLeft, OnlyOwn, DaemonIsOnFile
<1> QED
  BY <1>1, <1>2, <1>3, <1>4, <1>5, <1>6

\* The file goes when the daemon is gone.
LEMMA DeleteKeeps ==
  ASSUME NoPid \notin Pids, MaxCommands \in Nat, MaxExits \in Nat, MaxBreaks \in Nat, DaemonInv,
         NEW c \in Commands, DeleteState(c)
  PROVE  DaemonInv'
<1>0. Stopped(c) =>
        \/ op[c] = "stop" /\ Returns(c)
        \/ op[c] = "restart" /\ RestartCommand(c)
        \/ op[c] = "uninstall" /\ UninstallCommand(c)
  <2>1. op[c] \in Stopping
    BY DEF DaemonInv, Places, DeleteState
  <2> QED
    BY <2>1, StoppedGoes
<1> USE DEF DaemonInv, DeleteState, RestartCommand, UninstallCommand, DeleteRuntimeState, Goes, Returns,
            IsPidRunning, IsDaemon, Quiet, NoDaemon, Starting, Stopping, Command, Place, commandVars, countVars
<1>1. TypeOK'
  BY <1>0 DEF TypeOK, Places
<1>2. Places'
  BY <1>0 DEF TypeOK, Places
<1>3. StartsAlone'
  BY <1>0 DEF TypeOK, Places, StartsAlone
<1>4. NoneLeft'
  BY <1>0 DEF TypeOK, Places, StartsAlone, NoneLeft, OnlyOwn, DaemonIsOnFile
<1>5. OnlyOwn'
  BY <1>0 DEF TypeOK, Places, StartsAlone, NoneLeft, OnlyOwn, DaemonIsOnFile
<1>6. DaemonIsOnFile'
  BY <1>0 DEF TypeOK, Places, StartsAlone, NoneLeft, OnlyOwn, DaemonIsOnFile
<1> QED
  BY <1>1, <1>2, <1>3, <1>4, <1>5, <1>6

\* The same when the agent is uninstalled.
LEMMA RemoveKeeps ==
  ASSUME NoPid \notin Pids, MaxCommands \in Nat, MaxExits \in Nat, MaxBreaks \in Nat, DaemonInv,
         NEW c \in Commands, RemoveAgentState(c)
  PROVE  DaemonInv'
<1> USE DEF DaemonInv, RemoveAgentState, DeleteRuntimeState, Goes, Returns,
            IsPidRunning, IsDaemon, Quiet, NoDaemon, Starting, Stopping, Command, Place, commandVars, countVars
<1>1. TypeOK'
  BY DEF TypeOK, Places
<1>2. Places'
  BY DEF TypeOK, Places
<1>3. StartsAlone'
  BY DEF TypeOK, Places, StartsAlone
<1>4. NoneLeft'
  BY DEF TypeOK, Places, StartsAlone, NoneLeft, OnlyOwn, DaemonIsOnFile
<1>5. OnlyOwn'
  BY DEF TypeOK, Places, StartsAlone, NoneLeft, OnlyOwn, DaemonIsOnFile
<1>6. DaemonIsOnFile'
  BY DEF TypeOK, Places, StartsAlone, NoneLeft, OnlyOwn, DaemonIsOnFile
<1> QED
  BY <1>1, <1>2, <1>3, <1>4, <1>5, <1>6

\* A daemon that exits leaves fewer of them.
LEMMA DaemonExitsKeeps ==
  ASSUME NoPid \notin Pids, MaxCommands \in Nat, MaxExits \in Nat, MaxBreaks \in Nat, DaemonInv,
         NEW p \in Pids, DaemonExits(p)
  PROVE  DaemonInv'
<1> USE DEF DaemonInv, DaemonExits, Goes, Returns,
            IsPidRunning, IsDaemon, Quiet, NoDaemon, Starting, Stopping, Command, Place, commandVars, countVars
<1>1. TypeOK'
  BY DEF TypeOK, Places
<1>2. Places'
  BY DEF TypeOK, Places
<1>3. StartsAlone'
  BY DEF TypeOK, Places, StartsAlone
<1>4. NoneLeft'
  BY DEF TypeOK, Places, StartsAlone, NoneLeft, OnlyOwn, DaemonIsOnFile
<1>5. OnlyOwn'
  BY DEF TypeOK, Places, StartsAlone, NoneLeft, OnlyOwn, DaemonIsOnFile
<1>6. DaemonIsOnFile'
  BY DEF TypeOK, Places, StartsAlone, NoneLeft, OnlyOwn, DaemonIsOnFile
<1> QED
  BY <1>1, <1>2, <1>3, <1>4, <1>5, <1>6

\* A program with its pid is none.
LEMMA ReusedKeeps ==
  ASSUME NoPid \notin Pids, MaxCommands \in Nat, MaxExits \in Nat, MaxBreaks \in Nat, DaemonInv,
         NEW p \in Pids, PidReused(p)
  PROVE  DaemonInv'
<1> USE DEF DaemonInv, PidReused, Goes, Returns,
            IsPidRunning, IsDaemon, Quiet, NoDaemon, Starting, Stopping, Command, Place, commandVars, countVars
<1>1. TypeOK'
  BY DEF TypeOK, Places
<1>2. Places'
  BY DEF TypeOK, Places
<1>3. StartsAlone'
  BY DEF TypeOK, Places, StartsAlone
<1>4. NoneLeft'
  BY DEF TypeOK, Places, StartsAlone, NoneLeft, OnlyOwn, DaemonIsOnFile
<1>5. OnlyOwn'
  BY DEF TypeOK, Places, StartsAlone, NoneLeft, OnlyOwn, DaemonIsOnFile
<1>6. DaemonIsOnFile'
  BY DEF TypeOK, Places, StartsAlone, NoneLeft, OnlyOwn, DaemonIsOnFile
<1> QED
  BY <1>1, <1>2, <1>3, <1>4, <1>5, <1>6

\* Nor is one that ends.
LEMMA OtherExitsKeeps ==
  ASSUME NoPid \notin Pids, MaxCommands \in Nat, MaxExits \in Nat, MaxBreaks \in Nat, DaemonInv,
         NEW p \in Pids, OtherExits(p)
  PROVE  DaemonInv'
<1> USE DEF DaemonInv, OtherExits, Goes, Returns,
            IsPidRunning, IsDaemon, Quiet, NoDaemon, Starting, Stopping, Command, Place, commandVars, countVars
<1>1. TypeOK'
  BY DEF TypeOK, Places
<1>2. Places'
  BY DEF TypeOK, Places
<1>3. StartsAlone'
  BY DEF TypeOK, Places, StartsAlone
<1>4. NoneLeft'
  BY DEF TypeOK, Places, StartsAlone, NoneLeft, OnlyOwn, DaemonIsOnFile
<1>5. OnlyOwn'
  BY DEF TypeOK, Places, StartsAlone, NoneLeft, OnlyOwn, DaemonIsOnFile
<1>6. DaemonIsOnFile'
  BY DEF TypeOK, Places, StartsAlone, NoneLeft, OnlyOwn, DaemonIsOnFile
<1> QED
  BY <1>1, <1>2, <1>3, <1>4, <1>5, <1>6

\* No step breaks the invariant.
LEMMA NextKeepsDaemon ==
  ASSUME NoPid \notin Pids, MaxCommands \in Nat, MaxExits \in Nat, MaxBreaks \in Nat, DaemonInv, [Next]_daemonVars
  PROVE  DaemonInv'
<1>1. CASE UNCHANGED daemonVars
  BY <1>1 DEF daemonVars, commandVars, countVars, DaemonInv, TypeOK, Places, StartsAlone, NoneLeft,
              OnlyOwn, DaemonIsOnFile, Quiet, NoDaemon, IsDaemon
<1>2. CASE Next
  BY <1>2, BeginKeeps, InterruptKeeps, InspectKeeps, CleanupKeeps, StartKeeps, WriteKeeps,
     SettleKeeps, StartFailedKeeps, StopKeeps, AwaitKeeps, ForceKeeps, StopFailsKeeps,
     DeleteKeeps, RemoveKeeps, DaemonExitsKeeps, ReusedKeeps, OtherExitsKeeps DEF Next
<1> QED
  BY <1>1, <1>2

\* The invariant holds, of any commands.
THEOREM DaemonInvariant ==
  ASSUME NoPid \notin Pids, MaxCommands \in Nat, MaxExits \in Nat, MaxBreaks \in Nat
  PROVE  Spec => []DaemonInv
<1>1. Init => DaemonInv
  BY InitDaemonInv
<1>2. DaemonInv /\ [Next]_daemonVars => DaemonInv'
  BY NextKeepsDaemon
<1> QED
  BY <1>1, <1>2, PTL DEF Spec

\* A daemon that runs is the one the file names, so that there is one and a command
\* can reach it, unless a start overlapped another command or one was interrupted.
THEOREM DaemonOnFile ==
  ASSUME NoPid \notin Pids, MaxCommands \in Nat, MaxExits \in Nat, MaxBreaks \in Nat
  PROVE  Spec => []DaemonIsOnFile
<1>1. DaemonInv => DaemonIsOnFile
  BY DEF DaemonInv
<1> QED
  BY <1>1, DaemonInvariant, PTL
=============================================================================
