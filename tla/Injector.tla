-------------------------------- MODULE Injector --------------------------------
(***************************************************************************)
(* siglus_injector/src/main.rs: a process that finds the game and makes it *)
(* load the hook DLL by a remote thread whose start routine is             *)
(* LoadLibraryW.  Each call of Windows may fail, the game may end at any   *)
(* time, and its process id may be given to another process.  What an      *)
(* injector has acquired is dropped when inject_dll returns, in any way.   *)
(* Several injectors may run, and each may be killed.                      *)
(***************************************************************************)
EXTENDS DllAttach

CONSTANTS
    Game,       \* the process that the user names
    Free,       \* the process id belongs to nobody
    Archs       \* the architectures

ASSUME GameAssumption == Game \in Processes /\ Free \notin Processes

VARIABLES
    owner,      \* the process that has the game's process id
    arch,       \* of each process, of the injectors and of the DLL file
    pc,         \* where each injector is
    memory,     \* its allocation in the process it has opened
    result      \* what it ends with

injectorVars == <<owner, arch, pc, memory, result>>
vars == <<alive, status, loaded, loaderLock, envPath, envBefore, installer, thread,
          within, exitCode, owner, arch, pc, memory, result>>

Init ==
    /\ \E patched \in SUBSET {Game} : AttachInit(patched)
    /\ owner = Game
    /\ arch \in [Processes \union {"injector", "dll"} -> Archs]
    /\ pc = [i \in Loaders |-> "find"]
    /\ memory = [i \in Loaders |-> "none"]
    /\ result = [i \in Loaders |-> "none"]

Goto(i, label) == pc' = [pc EXCEPT ![i] = label]

\* inject_dll returns an error, and drops what it has.
Fail(i, error) == Goto(i, "drop") /\ result' = [result EXCEPT ![i] = error]

OnlyPc == UNCHANGED <<attachVars, owner, arch, memory, result>>
OnlyFail == UNCHANGED <<attachVars, owner, arch, memory>>

------------------------------------------------------------------------------

\* find_process_id: the snapshot has the game while it runs.
Find(i) ==
    /\ pc[i] = "find"
    /\ \/ owner = Game /\ Goto(i, "open") /\ OnlyPc
       \/ owner # Game /\ Fail(i, "notFound") /\ OnlyFail

\* OpenProcess: whoever has the id by now.
Open(i) ==
    /\ pc[i] = "open"
    /\ \/ /\ owner # Free
          /\ within' = [within EXCEPT ![i] = owner]
          /\ Goto(i, "arch")
          /\ UNCHANGED <<alive, status, loaded, loaderLock, envPath, envBefore, installer,
                         thread, exitCode, owner, arch, memory, result>>
       \/ Fail(i, "notOpened") /\ OnlyFail

\* MUTANT trusts the DLL file.
ArchMatchesNotDll(i) == arch["injector"] = arch[within[i]]
\* ensure_process_arch_matches: of the process that is open.
ArchMatches(i) ==
    arch["injector"] = arch[within[i]] /\ arch["dll"] = arch[within[i]]

CheckArch(i) ==
    /\ pc[i] = "arch"
    /\ \/ ArchMatches(i) /\ Goto(i, "allocate") /\ OnlyPc
       \/ Fail(i, "architecture") /\ OnlyFail

Allocate(i) ==
    /\ pc[i] = "allocate"
    /\ \/ /\ within[i] \in alive
          /\ memory' = [memory EXCEPT ![i] = "empty"]
          /\ Goto(i, "write")
          /\ UNCHANGED <<attachVars, owner, arch, result>>
       \/ Fail(i, "notAllocated") /\ OnlyFail

\* The number of bytes is looked at, too.
Write(i) ==
    /\ pc[i] = "write"
    /\ \/ /\ within[i] \in alive
          /\ memory' = [memory EXCEPT ![i] = "path"]
          /\ Goto(i, "start")
          /\ UNCHANGED <<attachVars, owner, arch, result>>
       \/ Fail(i, "notWritten") /\ OnlyFail

StartThread(i) ==
    /\ pc[i] = "start"
    /\ \/ /\ within[i] \in alive
          /\ thread' = [thread EXCEPT ![i] = "start"]
          /\ Goto(i, "wait")
          /\ UNCHANGED <<alive, status, loaded, loaderLock, envPath, envBefore, installer,
                         within, exitCode, owner, arch, memory, result>>
       \/ Fail(i, "notStarted") /\ OnlyFail

\* MUTANT does not wait.
WaitOverAtOnce(i) == TRUE
\* WaitForSingleObject returns.
WaitOver(i) == thread[i] = "ended"

Wait(i) ==
    /\ pc[i] = "wait" /\ WaitOver(i)
    /\ Goto(i, "code") /\ OnlyPc

\* MUTANT takes every thread that has ended for a success.
LoadSucceededAlways(i) == TRUE
\* The exit code of the thread is what LoadLibraryW returned.
LoadSucceeded(i) == exitCode[i] # 0

ExitCode(i) ==
    /\ pc[i] = "code"
    /\ \/ /\ LoadSucceeded(i)
          /\ Goto(i, "drop") /\ result' = [result EXCEPT ![i] = "injected"]
          /\ OnlyFail
       \/ ~LoadSucceeded(i) /\ Fail(i, "notLoaded") /\ OnlyFail
       \/ Fail(i, "noExitCode") /\ OnlyFail

\* MUTANT frees the memory only when all went well.
FreesOnSuccess(i) == result[i] = "injected"
\* The allocation has an owner on every way out.
Frees(i) == memory[i] # "none"

\* RemoteAllocation::drop, then the handle of the process.
Drop(i) ==
    /\ pc[i] = "drop"
    /\ memory' = IF Frees(i) THEN [memory EXCEPT ![i] = "none"] ELSE memory
    /\ Goto(i, "ended")
    /\ UNCHANGED <<attachVars, owner, arch, result>>

\* The user kills it: nothing is dropped.
Killed(i) ==
    /\ pc[i] \notin {"ended", "killed"}
    /\ Goto(i, "killed") /\ OnlyPc

InjectorStep(i) ==
    \/ Find(i) \/ Open(i) \/ CheckArch(i) \/ Allocate(i) \/ Write(i)
    \/ StartThread(i) \/ Wait(i) \/ ExitCode(i) \/ Drop(i)

------------------------------------------------------------------------------

\* A process ends, with its memory; its id becomes free.
EndOf(p) ==
    /\ ProcessEnds(p)
    /\ owner' = IF owner = p THEN Free ELSE owner
    /\ memory' = [i \in Loaders |-> IF within[i] = p THEN "none" ELSE memory[i]]
    /\ UNCHANGED <<arch, pc, result>>

\* The id goes to another process.
IdReused(p) ==
    /\ owner = Free /\ p \in alive
    /\ owner' = p
    /\ UNCHANGED <<attachVars, arch, pc, memory, result>>

Target == (\E i \in Loaders : LoadStep(i)) \/ (\E p \in Processes : InstallerStarts(p))

Next ==
    \/ \E i \in Loaders : InjectorStep(i) \/ Killed(i)
    \/ Target /\ UNCHANGED injectorVars
    \/ \E p \in Processes : EndOf(p) \/ IdReused(p)

\* Injectors run, and so do the threads in the processes.
Spec ==
    /\ Init /\ [][Next]_vars
    /\ \A i \in Loaders : WF_vars(InjectorStep(i))
    /\ \A i \in Loaders : WF_vars(LoadStep(i) /\ UNCHANGED injectorVars)
    /\ \A p \in Processes : WF_vars(InstallerStarts(p) /\ UNCHANGED injectorVars)

------------------------------------------------------------------------------

TypeOK ==
    /\ alive \subseteq Processes /\ loaded \subseteq Processes
    /\ status \in [Processes -> {0, 1}]
    /\ loaderLock \in [Processes -> Loaders \union {Nobody}]
    /\ installer \in [Processes -> {"none", "created", "running"}]
    /\ thread \in [Loaders -> {"none", "start", "attach", "leave", "ended"}]
    /\ within \in [Loaders -> Processes]
    /\ exitCode \in [Loaders -> {0, 1}]
    /\ owner \in Processes \union {Free}
    /\ pc \in [Loaders -> {"find", "open", "arch", "allocate", "write", "start", "wait",
                           "code", "drop", "ended", "killed"}]
    /\ memory \in [Loaders -> {"none", "empty", "path"}]
    /\ result \in [Loaders -> {"none", "notFound", "notOpened", "architecture",
                               "notAllocated", "notWritten", "notStarted",
                               "notLoaded", "noExitCode", "injected"}]
    /\ \A p \in Processes : loaderLock[p] # Nobody => within[loaderLock[p]] = p
    /\ \A i \in Loaders : pc[i] \in {"code", "drop", "ended"} =>
                              thread[i] \in {"none", "ended"}

\* LoadLibraryW reads a path that is written and not yet freed.
PathThere == \A i \in Loaders : thread[i] = "start" => memory[i] = "path"

\* Whatever fails, an injector that ends leaves no memory in the process.
NothingLeft == \A i \in Loaders : pc[i] = "ended" => memory[i] = "none"

\* A thread is only started in a process in which the address of LoadLibraryW
\* means the same and the DLL fits, even if it is not the game any more.
ThreadFits ==
    \A i \in Loaders :
        thread[i] # "none" => /\ arch["injector"] = arch[within[i]]
                              /\ arch["dll"] = arch[within[i]]

\* "Injected" is said only of a process that has the DLL, or that has ended
\* with an exit code that the injector takes for the module.
InjectedIsLoaded ==
    \A i \in Loaders :
        result[i] = "injected" =>
            \/ within[i] \in loaded
            \/ within[i] \notin alive /\ status[within[i]] # 0

\* A process with the DLL finds the directory of its executable first, and
\* once, and then the others as they were: not moved or doubled by what PATH
\* was, nor by a second load.
PathPrepended ==
    \A p \in loaded :
        envPath[p] = << [dir |-> ExeDir, spelling |-> "own"] >>
                        \o SelectSeq(envBefore[p], LAMBDA e : e.dir # ExeDir)

\* The injector waits without limit for the load; DllMain must not wait for
\* the thread it starts, which needs the loader lock.
InjectorsEnd == \A i \in Loaders : []<>(pc[i] \in {"ended", "killed"})

==============================================================================
