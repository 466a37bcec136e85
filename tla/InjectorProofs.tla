----------------------------- MODULE InjectorProofs -----------------------------
(***************************************************************************)
(* What the injector promises, for any injectors, processes and            *)
(* architectures, whoever gets the game's process id, whatever fails and   *)
(* whoever is killed.                                                      *)
(***************************************************************************)
EXTENDS Injector, TLAPS

Early == {"find", "open", "arch", "allocate", "write", "start"}

Fits(i) == arch["injector"] = arch[within[i]] /\ arch["dll"] = arch[within[i]]

\* Its process has the DLL, or has ended with a code that is not 0.
Arrived(i) == within[i] \in loaded \/ (within[i] \notin alive /\ status[within[i]] # 0)

\* How far injector i is tells what its thread, its memory and its process
\* are like: there is no thread yet before it is started ...
Started(i) == pc[i] \in Early => thread[i] = "none"

\* ... it starts with a path in the memory, which is freed at the end ...
Stored(i) ==
    /\ pc[i] = "start" /\ within[i] \in alive => memory[i] = "path"
    /\ thread[i] = "start" => memory[i] = "path"
    /\ pc[i] = "ended" => memory[i] = "none"

\* ... in a process that fits ...
Fitting(i) == pc[i] \in {"allocate", "write", "start"} \/ thread[i] # "none" => Fits(i)

\* ... and a code other than 0 comes from a process it arrived in.
Coded(i) ==
    /\ pc[i] \in Early \union {"wait", "code"} => result[i] # "injected"
    /\ thread[i] # "ended" => exitCode[i] = 0
    /\ exitCode[i] # 0 \/ result[i] = "injected" => Arrived(i)

\* Whoever has the loader lock is inside DllMain.
LockHeld ==
    \A p \in Processes : loaderLock[p] # Nobody => thread[loaderLock[p]] \in {"attach", "leave"}

InjectorInv ==
    /\ TypeOK
    /\ LockHeld
    /\ \A i \in Loaders : Started(i)
    /\ \A i \in Loaders : Stored(i)
    /\ \A i \in Loaders : Fitting(i)
    /\ \A i \in Loaders : Coded(i)

\* Nothing has happened at first.
LEMMA InitInv == Init => InjectorInv
<1> SUFFICES ASSUME Init PROVE InjectorInv
  OBVIOUS
<1> USE DEF Init, AttachInit
<1>1. (CHOOSE p \in Processes : TRUE) \in Processes
  BY GameAssumption
<1>2. TypeOK
  BY <1>1, GameAssumption, NobodyAssumption DEF TypeOK
<1>3. LockHeld
  BY DEF LockHeld
<1>4. \A i \in Loaders : Started(i) /\ Stored(i) /\ Fitting(i) /\ Coded(i)
  BY DEF Started, Stored, Fitting, Coded, Early
<1> QED
  BY <1>2, <1>3, <1>4 DEF InjectorInv

\* The steps of an injector.
LEMMA InjectorKeeps ==
    ASSUME InjectorInv, NEW i \in Loaders, InjectorStep(i) \/ Killed(i)
    PROVE  InjectorInv'
<1> USE DEF Goto, OnlyPc, OnlyFail, attachVars, Fail, InjectorStep, Find, Open, CheckArch,
            Allocate, Write, StartThread, Wait, ExitCode, Drop, Killed
<1>1. TypeOK /\ LockHeld /\ \A j \in Loaders : Started(j)
  BY DEF InjectorInv
<1>2. TypeOK'
  BY <1>1 DEF TypeOK, LockHeld, Started, Early, WaitOver
<1>3. LockHeld'
  BY <1>1 DEF TypeOK, LockHeld, Started, Early
<1>4. ASSUME NEW j \in Loaders PROVE Started(j)'
  BY <1>1 DEF TypeOK, Started, Early
<1>5. ASSUME NEW j \in Loaders PROVE Stored(j)'
  <2>1. Stored(j)
    BY DEF InjectorInv
  <2> QED
    BY <1>1, <2>1 DEF TypeOK, Started, Stored, Early, Frees
<1>6. ASSUME NEW j \in Loaders PROVE Fitting(j)'
  <2>1. Fitting(j)
    BY DEF InjectorInv
  <2> QED
    BY <1>1, <2>1 DEF TypeOK, Started, Fitting, Fits, Early, ArchMatches
<1>7. ASSUME NEW j \in Loaders PROVE Coded(j)'
  <2>1. Coded(j)
    BY DEF InjectorInv
  <2> QED
    BY <1>1, <2>1 DEF TypeOK, Started, Coded, Arrived, Early, LoadSucceeded
<1> QED
  BY <1>2, <1>3, <1>4, <1>5, <1>6, <1>7 DEF InjectorInv

\* The steps of the threads in the processes.
LEMMA TargetKeeps ==
    ASSUME InjectorInv, Target, UNCHANGED injectorVars
    PROVE  InjectorInv'
<1> USE DEF injectorVars
<1>1. TypeOK /\ LockHeld /\ \A j \in Loaders : Started(j)
  BY DEF InjectorInv
<1>2. CASE \E l \in Loaders : LoadStep(l)
  <2> PICK l \in Loaders : LoadStep(l)
    BY <1>2
  <2>1. within[l] \in Processes
    BY <1>1 DEF TypeOK
  <2> USE DEF LoadStep, EnterLoader, DllMain, LeaveLoader
  <2>2. TypeOK'
    BY <1>1, <2>1, NobodyAssumption DEF TypeOK, LockHeld
  <2>3. LockHeld'
    BY <1>1, <2>1, NobodyAssumption DEF TypeOK, LockHeld
  <2>4. ASSUME NEW j \in Loaders PROVE Started(j)'
    BY <1>1 DEF TypeOK, Started, Early
  <2>5. ASSUME NEW j \in Loaders PROVE Stored(j)'
    BY <1>1 DEF TypeOK, InjectorInv, Stored
  <2>6. ASSUME NEW j \in Loaders PROVE Fitting(j)'
    BY <1>1 DEF TypeOK, InjectorInv, Fitting, Fits
  <2>7. ASSUME NEW j \in Loaders PROVE Coded(j)'
    BY <1>1, <2>1 DEF TypeOK, InjectorInv, Coded, Arrived
  <2> QED
    BY <2>2, <2>3, <2>4, <2>5, <2>6, <2>7 DEF InjectorInv
<1>3. CASE \E p \in Processes : InstallerStarts(p)
  <2> USE <1>3 DEF InstallerStarts
  <2>1. TypeOK' /\ LockHeld'
    BY <1>1 DEF TypeOK, LockHeld
  <2>2. ASSUME NEW j \in Loaders PROVE (Started(j) /\ Stored(j) /\ Fitting(j) /\ Coded(j))'
    BY DEF InjectorInv, Started, Stored, Fitting, Fits, Coded, Arrived
  <2> QED
    BY <2>1, <2>2 DEF InjectorInv
<1> QED
  BY <1>2, <1>3 DEF Target

\* A process ends, or takes the game's process id.
LEMMA ProcessesKeep ==
    ASSUME InjectorInv, NEW p \in Processes, EndOf(p) \/ IdReused(p)
    PROVE  InjectorInv'
<1>1. TypeOK /\ LockHeld /\ \A j \in Loaders : Started(j)
  BY DEF InjectorInv
<1>2. CASE EndOf(p)
  <2> USE <1>2 DEF EndOf, ProcessEnds
  <2>1. TypeOK'
    BY <1>1, NobodyAssumption DEF TypeOK, LockHeld
  <2>2. LockHeld'
    BY <1>1, NobodyAssumption DEF TypeOK, LockHeld
  <2>3. ASSUME NEW j \in Loaders PROVE Started(j)'
    BY <1>1 DEF TypeOK, Started, Early
  <2>4. ASSUME NEW j \in Loaders PROVE Stored(j)'
    BY <1>1 DEF TypeOK, InjectorInv, Stored
  <2>5. ASSUME NEW j \in Loaders PROVE Fitting(j)'
    BY <1>1 DEF TypeOK, InjectorInv, Fitting, Fits
  <2>6. ASSUME NEW j \in Loaders PROVE Coded(j)'
    BY <1>1 DEF TypeOK, InjectorInv, Coded, Arrived
  <2> QED
    BY <2>1, <2>2, <2>3, <2>4, <2>5, <2>6 DEF InjectorInv
<1>3. CASE IdReused(p)
  <2> USE <1>3 DEF IdReused, attachVars
  <2>1. TypeOK' /\ LockHeld'
    BY <1>1 DEF TypeOK, LockHeld
  <2>2. ASSUME NEW j \in Loaders PROVE (Started(j) /\ Stored(j) /\ Fitting(j) /\ Coded(j))'
    BY DEF InjectorInv, Started, Stored, Fitting, Fits, Coded, Arrived
  <2> QED
    BY <2>1, <2>2 DEF InjectorInv
<1> QED
  BY <1>2, <1>3

\* No step of anybody disturbs the invariant.
LEMMA NextInv == InjectorInv /\ [Next]_vars => InjectorInv'
<1> SUFFICES ASSUME InjectorInv, [Next]_vars PROVE InjectorInv'
  OBVIOUS
<1>1. CASE UNCHANGED vars
  BY <1>1 DEF vars, InjectorInv, TypeOK, LockHeld, Started, Stored, Fitting, Fits, Coded, Arrived
<1> QED
  BY <1>1, InjectorKeeps, TargetKeeps, ProcessesKeep DEF Next

\* The inductive invariant of the injectors and the processes they work on.
THEOREM InjectorInvHolds == Spec => []InjectorInv
BY InitInv, NextInv, PTL DEF Spec

\* Each variable keeps its type.
THEOREM TypeCorrect == Spec => []TypeOK
<1>1. InjectorInv => TypeOK
  BY DEF InjectorInv
<1> QED
  BY InjectorInvHolds, <1>1, PTL

\* The remote thread never reads a path that is not written yet or freed.
THEOREM PathThereHolds == Spec => []PathThere
<1>1. InjectorInv => PathThere
  BY DEF InjectorInv, Stored, PathThere
<1> QED
  BY InjectorInvHolds, <1>1, PTL

\* An injector that ends by itself, in any way, has freed what it allocated.
THEOREM NothingLeftHolds == Spec => []NothingLeft
<1>1. InjectorInv => NothingLeft
  BY DEF InjectorInv, Stored, NothingLeft
<1> QED
  BY InjectorInvHolds, <1>1, PTL

\* No thread starts in a process of another architecture, whoever has the
\* game's process id by then.
THEOREM ThreadFitsHolds == Spec => []ThreadFits
<1>1. InjectorInv => ThreadFits
  BY DEF InjectorInv, Fitting, ThreadFits, Fits
<1> QED
  BY InjectorInvHolds, <1>1, PTL

\* Success is reported of a process that has the DLL, or that ended.
THEOREM InjectedIsLoadedHolds == Spec => []InjectedIsLoaded
<1>1. InjectorInv => InjectedIsLoaded
  BY DEF InjectorInv, Coded, InjectedIsLoaded, Arrived
<1> QED
  BY InjectorInvHolds, <1>1, PTL


------------------------------------------------------------------------------

\* A thread that has not ended runs in a process that has not ...
Running == \A l \in Loaders : thread[l] \in {"start", "attach", "leave"} => within[l] \in alive

\* ... and has the loader lock of that process while it is inside DllMain.
Locked == \A l \in Loaders : thread[l] \in {"attach", "leave"} => loaderLock[within[l]] = l

\* PATH as DllMain should leave it.
ExeDirFirst(path) ==
    << [dir |-> ExeDir, spelling |-> "own"] >>
        \o SelectSeq(path, LAMBDA e : e.dir # ExeDir)

Attached(p) == envPath[p] = ExeDirFirst(envBefore[p])

AllAttached == \A p \in loaded : Attached(p)

\* Whoever may still call DllMain in a process finds PATH as it was ...
Untouched ==
    \A p \in alive \ loaded :
        loaderLock[p] = Nobody \/ thread[loaderLock[p]] = "attach"
            => envPath[p] = envBefore[p]

\* ... and calls it once.
AttachedOnce ==
    \A l \in Loaders :
        /\ thread[l] \in {"attach", "leave"} => within[l] \notin loaded
        /\ thread[l] = "leave" => Attached(within[l])

\* (PATH is a function on the processes.)
PathOfEach == envPath = [p \in Processes |-> envPath[p]]

PathInv ==
    /\ InjectorInv
    /\ PathOfEach /\ Running /\ Locked /\ Untouched /\ AttachedOnce /\ AllAttached

\* What DllMain makes of an untouched PATH.
LEMMA PrependedIs ==
    ASSUME NEW path
    PROVE  Prepended(path) = ExeDirFirst(path)
BY DEF Prepended, SameDir, ExeDirFirst

\* PATH is untouched at first, or DllMain has run before any other thread.
LEMMA InitPath == Init => PathInv
<1> SUFFICES ASSUME Init PROVE PathInv
  OBVIOUS
<1>1. PICK patched \in SUBSET {Game} : AttachInit(patched)
  BY DEF Init
<1>2. PICK path \in Environments :
         /\ envBefore = [p \in Processes |-> path]
         /\ envPath = [p \in Processes |-> IF p \in patched THEN Prepended(path) ELSE path]
  BY <1>1 DEF AttachInit
<1>3. loaded = patched /\ patched \subseteq Processes
  BY <1>1, GameAssumption DEF AttachInit
<1>4. \A p \in Processes : /\ p \in loaded => Attached(p)
                           /\ p \notin loaded => envPath[p] = envBefore[p]
  BY <1>2, <1>3, PrependedIs DEF Attached
<1>5. AllAttached
  BY <1>3, <1>4 DEF AllAttached
<1>6. Running /\ Locked /\ AttachedOnce
  BY <1>1 DEF AttachInit, Running, Locked, AttachedOnce
<1>7. Untouched
  BY <1>1, <1>4 DEF AttachInit, Untouched
<1>8. PathOfEach
  BY <1>2 DEF PathOfEach
<1> QED
  BY <1>5, <1>6, <1>7, <1>8, InitInv DEF PathInv

\* A step that leaves PATH, the DLLs and the loader lock alone, and starts
\* threads in processes that run only.
LEMMA KeepsPath ==
    ASSUME PathInv, UNCHANGED <<alive, loaded, loaderLock, envPath, envBefore>>,
           \A l \in Loaders :
              /\ thread'[l] # thread[l] => thread[l] = "none"
                                           /\ thread'[l] = "start" /\ within[l] \in alive
              /\ within'[l] # within[l] => thread[l] = "none" /\ thread'[l] = "none"
    PROVE  (PathOfEach /\ Running /\ Locked /\ Untouched /\ AttachedOnce /\ AllAttached)'
<1> USE DEF PathInv, InjectorInv
<1>1. Running' /\ Locked'
  BY DEF Running, Locked
<1>2. Untouched'
  BY DEF Untouched, LockHeld, TypeOK
<1>3. AttachedOnce'
  BY DEF AttachedOnce, Attached
<1>4. PathOfEach' /\ AllAttached'
  BY DEF PathOfEach, AllAttached, Attached
<1> QED
  BY <1>1, <1>2, <1>3, <1>4

\* Inside the loader, one thread at a time: the one with the lock calls
\* DllMain, and only in a process that does not have the DLL.
LEMMA LoadKeepsPath ==
    ASSUME PathInv, NEW l \in Loaders, LoadStep(l), UNCHANGED injectorVars
    PROVE  (PathOfEach /\ Running /\ Locked /\ Untouched /\ AttachedOnce /\ AllAttached)'
<1> USE DEF PathInv, InjectorInv
<1> DEFINE p == within[l]
<1>1. p \in Processes /\ \A j \in Loaders : thread[j] \in {"attach", "leave"} /\ within[j] = p
                                               => loaderLock[p] = j
  BY DEF TypeOK, Locked
<1>2. CASE EnterLoader(l)
  <2> USE <1>2 DEF EnterLoader
  <2>1. \A j \in Loaders : j # l => thread'[j] = thread[j]
    BY DEF TypeOK
  <2>2. \A j \in Loaders : within[j] = p => thread[j] \notin {"attach", "leave"}
    BY <1>1, NobodyAssumption
  <2>3. \A r \in Processes : r # p => loaderLock'[r] = loaderLock[r]
    BY DEF TypeOK
  <2>4. thread'[l] \in {"ended", "attach"}
           /\ (thread'[l] = "attach" => p \notin loaded /\ loaderLock'[p] = l)
    BY <1>1 DEF TypeOK
  <2>5. Running' /\ Locked'
    BY <2>1, <2>2, <2>3, <2>4 DEF Running, Locked, TypeOK
  <2>6. Untouched'
    <3> SUFFICES ASSUME NEW r \in alive \ loaded,
                        loaderLock'[r] = Nobody \/ thread'[loaderLock'[r]] = "attach"
                 PROVE  envPath[r] = envBefore[r]
      BY DEF Untouched
    <3>1. CASE r = p
      BY <3>1 DEF Untouched
    <3>2. CASE r # p
      <4>1. r \in Processes /\ loaderLock'[r] = loaderLock[r]
        BY <3>2, <2>3 DEF TypeOK
      <4>2. loaderLock[r] # Nobody => loaderLock[r] # l /\ loaderLock[r] \in Loaders
        BY <3>2, <4>1 DEF TypeOK
      <4> QED
        BY <4>1, <4>2, <2>1 DEF Untouched
    <3> QED
      BY <3>1, <3>2
  <2>7. AttachedOnce'
    BY <2>1, <2>4 DEF AttachedOnce, Attached
  <2>8. PathOfEach' /\ AllAttached'
    BY DEF PathOfEach, AllAttached, Attached
  <2> QED
    BY <2>5, <2>6, <2>7, <2>8
<1>3. CASE DllMain(l)
  <2> USE <1>3 DEF DllMain
  <2>1. \A j \in Loaders : thread'[j] = IF j = l THEN "leave" ELSE thread[j]
    BY DEF TypeOK
  <2>2. p \in alive /\ p \notin loaded /\ loaderLock[p] = l
    BY <1>1 DEF Running, AttachedOnce
  <2>3. \A r \in Processes : envPath'[r] = IF r = p THEN Prepended(envPath[p]) ELSE envPath[r]
    BY DEF PathOfEach
  <2>4. envPath[p] = envBefore[p]
    BY <2>2 DEF Untouched
  <2>5. Attached(p)'
    BY <1>1, <2>3, <2>4, PrependedIs DEF Attached
  <2>6. \A j \in Loaders : j # l /\ thread[j] \in {"attach", "leave"} => within[j] # p
    BY <1>1, <2>2
  <2>7. Running' /\ Locked'
    BY <2>1, <2>2 DEF Running, Locked
  <2>8. Untouched'
    <3> SUFFICES ASSUME NEW r \in alive \ loaded,
                        loaderLock[r] = Nobody \/ thread'[loaderLock[r]] = "attach"
                 PROVE  envPath'[r] = envBefore[r]
      BY DEF Untouched
    <3>1. r \in Processes /\ r # p
      BY <2>1, <2>2, NobodyAssumption DEF TypeOK
    <3>2. loaderLock[r] # Nobody => loaderLock[r] \in Loaders /\ loaderLock[r] # l
      BY <3>1 DEF TypeOK
    <3> QED
      BY <3>1, <3>2, <2>1, <2>3 DEF Untouched
  <2>9. AttachedOnce'
    <3>1. \A j \in Loaders : thread[j] = "leave" /\ j # l => Attached(within[j])'
      BY <2>3, <2>6 DEF AttachedOnce, Attached, TypeOK
    <3>2. ASSUME NEW j \in Loaders
          PROVE  /\ thread'[j] \in {"attach", "leave"} => within[j] \notin loaded
                 /\ thread'[j] = "leave"
                       => envPath'[within[j]] = ExeDirFirst(envBefore[within[j]])
      BY <2>1, <2>2, <2>5, <3>1 DEF AttachedOnce, Attached
    <3> QED
      BY <3>2 DEF AttachedOnce, Attached
  <2>10. AllAttached'
    BY <2>2, <2>3 DEF AllAttached, Attached, TypeOK
  <2>11. PathOfEach'
    BY DEF PathOfEach
  <2> QED
    BY <2>7, <2>8, <2>9, <2>10, <2>11
<1>4. CASE LeaveLoader(l)
  <2> USE <1>4 DEF LeaveLoader
  <2>1. \A j \in Loaders : thread'[j] = IF j = l THEN "ended" ELSE thread[j]
    BY DEF TypeOK
  <2>2. loaderLock[p] = l
    BY <1>1
  <2>3. \A j \in Loaders : j # l /\ thread[j] \in {"attach", "leave"} => within[j] # p
    BY <1>1, <2>2
  <2>4. \A r \in Processes : r # p => loaderLock'[r] = loaderLock[r]
    BY DEF TypeOK
  <2>5. Running' /\ Locked'
    BY <2>1, <2>3, <2>4 DEF Running, Locked, TypeOK
  <2>6. Untouched'
    <3> SUFFICES ASSUME NEW r \in alive \ loaded', r # p,
                        loaderLock'[r] = Nobody \/ thread'[loaderLock'[r]] = "attach"
                 PROVE  envPath[r] = envBefore[r]
      BY DEF Untouched
    <3>1. r \in Processes /\ r \notin loaded /\ loaderLock'[r] = loaderLock[r]
      BY <2>4 DEF TypeOK
    <3>2. loaderLock[r] # Nobody => loaderLock[r] \in Loaders /\ loaderLock[r] # l
      BY <3>1 DEF TypeOK
    <3> QED
      BY <3>1, <3>2, <2>1 DEF Untouched
  <2>7. AttachedOnce'
    BY <2>1, <2>3 DEF AttachedOnce, Attached
  <2>8. Attached(p)
    BY DEF AttachedOnce
  <2>9. AllAttached' /\ PathOfEach'
    BY <2>8 DEF AllAttached, PathOfEach, Attached
  <2> QED
    BY <2>5, <2>6, <2>7, <2>9
<1> QED
  BY <1>2, <1>3, <1>4 DEF LoadStep

\* A process ends, with its threads: its loader lock is nobody's, and no new
\* thread starts in it.
LEMMA EndKeepsPath ==
    ASSUME PathInv, NEW p \in Processes, EndOf(p)
    PROVE  (PathOfEach /\ Running /\ Locked /\ Untouched /\ AttachedOnce /\ AllAttached)'
<1> USE DEF PathInv, InjectorInv, EndOf, ProcessEnds
<1>1. \A j \in Loaders : thread'[j] = IF within[j] = p /\ thread[j] # "none" THEN "ended"
                                                                            ELSE thread[j]
  OBVIOUS
<1>2. \A r \in Processes : r # p => loaderLock'[r] = loaderLock[r]
  BY DEF TypeOK
<1>3. Running'
  BY <1>1 DEF Running
<1>4. Locked'
  BY <1>1, <1>2 DEF Locked, TypeOK
<1>5. Untouched'
  <2> SUFFICES ASSUME NEW r \in alive \ loaded, r # p,
                      loaderLock'[r] = Nobody \/ thread'[loaderLock'[r]] = "attach"
               PROVE  envPath[r] = envBefore[r]
    BY DEF Untouched
  <2>1. r \in Processes /\ loaderLock'[r] = loaderLock[r]
    BY <1>2 DEF TypeOK
  <2>2. loaderLock[r] # Nobody => loaderLock[r] \in Loaders /\ within[loaderLock[r]] = r
    BY <2>1 DEF TypeOK
  <2> QED
    BY <2>1, <2>2, <1>1 DEF Untouched
<1>6. AttachedOnce'
  BY <1>1 DEF AttachedOnce, Attached
<1>7. PathOfEach' /\ AllAttached'
  BY DEF PathOfEach, AllAttached, Attached
<1> QED
  BY <1>3, <1>4, <1>5, <1>6, <1>7

\* Every step keeps PATH as it should be.
LEMMA NextPath == PathInv /\ [Next]_vars => PathInv'
<1> SUFFICES ASSUME PathInv, [Next]_vars PROVE PathInv'
  OBVIOUS
<1>0. InjectorInv'
  BY NextInv DEF PathInv
<1>1. ASSUME NEW i \in Loaders, InjectorStep(i) \/ Killed(i) PROVE PathInv'
  <2>1. UNCHANGED <<alive, loaded, loaderLock, envPath, envBefore>>
    BY <1>1 DEF InjectorStep, Find, Open, CheckArch, Allocate, Write, StartThread, Wait,
                ExitCode, Drop, Killed, OnlyPc, OnlyFail, attachVars
  <2>2. ASSUME NEW l \in Loaders
        PROVE  /\ thread'[l] # thread[l] => thread[l] = "none"
                                            /\ thread'[l] = "start" /\ within[l] \in alive
               /\ within'[l] # within[l] => thread[l] = "none" /\ thread'[l] = "none"
    BY <1>1 DEF PathInv, InjectorInv, TypeOK, Started, Early,
                InjectorStep, Find, Open, CheckArch, Allocate, Write, StartThread, Wait,
                ExitCode, Drop, Killed, OnlyPc, OnlyFail, attachVars
  <2> QED
    BY <1>0, <2>1, <2>2, KeepsPath DEF PathInv
<1>2. ASSUME Target, UNCHANGED injectorVars PROVE PathInv'
  <2>1. CASE \E l \in Loaders : LoadStep(l)
    BY <1>0, <1>2, <2>1, LoadKeepsPath DEF PathInv
  <2>2. CASE \E p \in Processes : InstallerStarts(p)
    BY <1>0, <1>2, <2>2, KeepsPath DEF PathInv, InstallerStarts
  <2> QED
    BY <1>2, <2>1, <2>2 DEF Target
<1>3. ASSUME NEW p \in Processes, EndOf(p) \/ IdReused(p) PROVE PathInv'
  BY <1>0, <1>3, EndKeepsPath, KeepsPath DEF PathInv, IdReused, attachVars
<1>4. CASE UNCHANGED vars
  BY <1>0, <1>4, KeepsPath DEF PathInv, vars
<1> QED
  BY <1>1, <1>2, <1>3, <1>4 DEF Next

\* A process that has the DLL finds the directory of its executable first and
\* once in PATH, however many injectors load the DLL into it at a time, whether
\* it imported the DLL already, and whoever is killed in between.
THEOREM PathPrependedHolds == Spec => []PathPrepended
<1>1. PathInv => PathPrepended
  BY DEF PathInv, AllAttached, Attached, ExeDirFirst, PathPrepended
<1> QED
  BY InitPath, NextPath, <1>1, PTL DEF Spec

------------------------------------------------------------------------------

\* An injector that waits has a thread.
HasThread == \A i \in Loaders : pc[i] = "wait" => thread[i] # "none"

\* A thread never becomes none again, and the wait begins with one.
LEMMA NextHasThread == InjectorInv /\ HasThread /\ [Next]_vars => HasThread'
<1> SUFFICES ASSUME InjectorInv, HasThread, [Next]_vars PROVE HasThread'
  OBVIOUS
<1> USE DEF InjectorInv, TypeOK, HasThread
<1>1. ASSUME NEW i \in Loaders, InjectorStep(i) PROVE HasThread'
  <2>1. CASE StartThread(i)
    BY <2>1 DEF StartThread, Goto, Fail, OnlyFail, attachVars
  <2>2. CASE ~StartThread(i)
    <3>1. UNCHANGED thread
      BY <1>1, <2>2 DEF InjectorStep, Find, Open, CheckArch, Allocate, Write, Wait, ExitCode,
         Drop, OnlyPc, OnlyFail, attachVars
    <3>2. \A j \in Loaders : pc'[j] = "wait" => pc[j] = "wait"
      BY <1>1, <2>2 DEF InjectorStep, Find, Open, CheckArch, Allocate, Write, Wait, ExitCode,
         Drop, Goto, Fail
    <3> QED
      BY <3>1, <3>2
  <2> QED
    BY <2>1, <2>2
<1>2. ASSUME NEW i \in Loaders, Killed(i) PROVE HasThread'
  BY <1>2 DEF Killed, Goto, OnlyPc, attachVars
<1>3. CASE Target /\ UNCHANGED injectorVars
  BY <1>3 DEF Target, injectorVars, LoadStep, EnterLoader, DllMain, LeaveLoader, InstallerStarts
<1>4. ASSUME NEW p \in Processes, EndOf(p) \/ IdReused(p) PROVE HasThread'
  BY <1>4 DEF EndOf, ProcessEnds, IdReused, attachVars
<1>5. CASE UNCHANGED vars
  BY <1>5 DEF vars
<1> QED
  BY <1>1, <1>2, <1>3, <1>4, <1>5 DEF Next

\* A loading thread can go on: nobody has the loader lock, or it has the lock
\* itself, and does not wait in DllMain for the thread it has started.
CanLoad(l) ==
    \/ thread[l] = "start" /\ loaderLock[within[l]] = Nobody
    \/ thread[l] = "attach"
    \/ thread[l] = "leave" /\ DllMainMayReturn(within[l])

\* While an injector waits, its thread has ended, or one in the same process
\* can go on: no circle through the loader lock, whoever else loads the DLL or
\* is killed.
WaitIsServed ==
    \A i \in Loaders : pc[i] = "wait" =>
        WaitOver(i) \/ \E l \in Loaders : within[l] = within[i] /\ CanLoad(l)

\* Nobody waits behind a loader lock that is never given back.
THEOREM WaitIsServedHolds == Spec => []WaitIsServed
<1>1. Init => HasThread
  BY DEF Init, HasThread
<1>2. InjectorInv /\ HasThread => WaitIsServed
  <2> SUFFICES ASSUME InjectorInv, HasThread, NEW i \in Loaders, pc[i] = "wait", ~WaitOver(i)
               PROVE  \E l \in Loaders : within[l] = within[i] /\ CanLoad(l)
    BY DEF WaitIsServed
  <2>1. thread[i] \in {"start", "attach", "leave"} /\ within[i] \in Processes
    BY DEF InjectorInv, TypeOK, HasThread, WaitOver
  <2>2. CASE loaderLock[within[i]] = Nobody \/ thread[i] # "start"
    BY <2>1, <2>2 DEF CanLoad, DllMainMayReturn
  <2>3. CASE loaderLock[within[i]] # Nobody
    <3> DEFINE l == loaderLock[within[i]]
    <3>1. l \in Loaders /\ within[l] = within[i] /\ thread[l] \in {"attach", "leave"}
      BY <2>1, <2>3 DEF InjectorInv, TypeOK, LockHeld
    <3> QED
      BY <3>1 DEF CanLoad, DllMainMayReturn
  <2> QED
    BY <2>2, <2>3
<1> QED
  BY <1>1, <1>2, NextHasThread, InjectorInvHolds, PTL DEF Spec

==============================================================================
