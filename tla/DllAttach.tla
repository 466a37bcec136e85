------------------------------- MODULE DllAttach -------------------------------
(***************************************************************************)
(* The hook DLL as a process loads it: DllMain of lib.rs, which runs under *)
(* the loader lock, puts the directory of the executable in front of PATH  *)
(* and starts the thread that installs the hooks (HookInstall).  The       *)
(* loader itself is Windows': a module is attached once, and a new thread  *)
(* needs the lock before it runs.                                          *)
(***************************************************************************)
EXTENDS Naturals, Sequences, SequencesExt

CONSTANTS
    Processes,     \* the processes of the machine
    Loaders,       \* who loads the DLL, on a thread of its own in the process
    Nobody,        \* the loader lock is free
    ExeDir,        \* the directory of the executable
    Environments   \* values of PATH: sequences of [dir, spelling]

ASSUME NobodyAssumption == Nobody \notin Loaders

VARIABLES
    alive,      \* the processes that run
    status,     \* the exit code of a process that does not
    loaded,     \* the processes that have the DLL
    loaderLock, \* who has the process' loader lock
    envPath,    \* the PATH of the process
    envBefore,  \* history: the PATH it started with
    installer,  \* install_hooks_thread: "none", "created" or "running"
    thread,     \* a loader's thread: "none", "start", "attach", "leave" or "ended"
    within,     \* the process it is in
    exitCode    \* what it ends with: the module, or 0

attachVars == <<alive, status, loaded, loaderLock, envPath, envBefore, installer,
                thread, within, exitCode>>

------------------------------------------------------------------------------

\* MUTANT compares the directories as they are spelled.
SameDirSpelled(entry, dir) == entry = [dir |-> dir, spelling |-> "own"]
\* path_key_for_env: other cases, other slashes and slashes at the end do not
\* make another directory.
SameDir(entry, dir) == entry.dir = dir

\* prepend_attached_exe_dir_to_path, of a process that can name its executable.
Prepended(path) ==
    << [dir |-> ExeDir, spelling |-> "own"] >>
        \o SelectSeq(path, LAMBDA entry : ~SameDir(entry, ExeDir))

\* The processes in patched have started from an executable that imports the
\* DLL (PatchedExe), and attached it before any thread of theirs ran.
AttachInit(patched) ==
    /\ alive = Processes /\ status = [p \in Processes |-> 0]
    /\ loaded = patched
    /\ loaderLock = [p \in Processes |-> Nobody]
    /\ \E path \in Environments :
          /\ envBefore = [p \in Processes |-> path]
          /\ envPath = [p \in Processes |->
                           IF p \in patched THEN Prepended(path) ELSE path]
    /\ installer = [p \in Processes |-> IF p \in patched THEN "created" ELSE "none"]
    /\ thread = [l \in Loaders |-> "none"]
    /\ within = [l \in Loaders |-> CHOOSE p \in Processes : TRUE]
    /\ exitCode = [l \in Loaders |-> 0]

\* LoadLibraryW takes the lock.  A module that is there is only counted; one
\* that is not may fail to load, or is attached.
EnterLoader(l) ==
    LET p == within[l]
    IN  /\ thread[l] = "start" /\ loaderLock[p] = Nobody
        /\ \/ /\ p \in loaded
              /\ thread' = [thread EXCEPT ![l] = "ended"]
              /\ exitCode' = [exitCode EXCEPT ![l] = 1]
              /\ UNCHANGED loaderLock
           \/ /\ p \notin loaded
              /\ thread' = [thread EXCEPT ![l] = "ended"]
              /\ UNCHANGED <<loaderLock, exitCode>>
           \/ /\ p \notin loaded
              /\ thread' = [thread EXCEPT ![l] = "attach"]
              /\ loaderLock' = [loaderLock EXCEPT ![p] = l]
              /\ UNCHANGED exitCode
        /\ UNCHANGED <<alive, status, loaded, envPath, envBefore, installer, within>>

\* DllMain.  Whether CreateThread succeeds is not looked at.
DllMain(l) ==
    LET p == within[l]
    IN  /\ thread[l] = "attach"
        /\ envPath' = [envPath EXCEPT ![p] = Prepended(@)]
        /\ installer' \in {installer, [installer EXCEPT ![p] = "created"]}
        /\ thread' = [thread EXCEPT ![l] = "leave"]
        /\ UNCHANGED <<alive, status, loaded, loaderLock, envBefore, within, exitCode>>

\* MUTANT waits in DllMain for the thread it has started.
DllMainMayReturnWaits(p) == installer[p] # "created"
DllMainMayReturn(p) == TRUE

LeaveLoader(l) ==
    LET p == within[l]
    IN  /\ thread[l] = "leave" /\ DllMainMayReturn(p)
        /\ loaded' = loaded \union {p}
        /\ loaderLock' = [loaderLock EXCEPT ![p] = Nobody]
        /\ thread' = [thread EXCEPT ![l] = "ended"]
        /\ exitCode' = [exitCode EXCEPT ![l] = 1]
        /\ UNCHANGED <<alive, status, envPath, envBefore, installer, within>>

InstallerStarts(p) ==
    /\ installer[p] = "created" /\ loaderLock[p] = Nobody
    /\ installer' = [installer EXCEPT ![p] = "running"]
    /\ UNCHANGED <<alive, status, loaded, loaderLock, envPath, envBefore, thread, within,
                   exitCode>>

\* The process ends: its threads end with its exit code.
ProcessEnds(p) ==
    /\ p \in alive
    /\ alive' = alive \ {p}
    /\ \E code \in {0, 1} :
          /\ status' = [status EXCEPT ![p] = code]
          /\ exitCode' = [l \in Loaders |->
                IF within[l] = p /\ thread[l] \in {"start", "attach", "leave"}
                  THEN code ELSE exitCode[l]]
    /\ thread' = [l \in Loaders |->
          IF within[l] = p /\ thread[l] # "none" THEN "ended" ELSE thread[l]]
    /\ installer' = [installer EXCEPT ![p] = "none"]
    /\ loaderLock' = [loaderLock EXCEPT ![p] = Nobody]
    /\ UNCHANGED <<loaded, envPath, envBefore, within>>

LoadStep(l) == EnterLoader(l) \/ DllMain(l) \/ LeaveLoader(l)

==============================================================================
