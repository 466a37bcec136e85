------------------------------ MODULE AsyncSave ------------------------------
(***************************************************************************)
(* The asynchronous save of siglus_hook/src/lib.rs: the hooks on the       *)
(* engine's pack, save and copy functions, the table of running saves      *)
(* (SAVE_TASKS), one worker thread per queued save, and the save files.    *)
(*                                                                         *)
(* Every call of the save hook gets a number, in the order in which the    *)
(* hook is entered: under the lock of the table for a queued save.         *)
(* phase[s] is where save s stands:                                        *)
(*   queued       wait -> pack -> write -> remove -> notify -> done        *)
(*   not spawned  wait -> orphan -> orphanwrite -> orphaned                *)
(*   direct       direct -> directwrite -> directdone                      *)
(*   lost         the process ended first                                  *)
(* The engine's own functions (pack, save) and Windows (CopyFileW,         *)
(* MoveFileExW) are external: a file is torn between the open and the      *)
(* close of a write and after two writes overlapped.                       *)
(***************************************************************************)
EXTENDS SavePaths, FiniteSets

CONSTANTS
    Caller,         \* the engine's threads that save
    Path,           \* the paths they use
    MaxSaves,       \* bound on the number of saves
    SpawnCanFail,   \* thread::spawn may panic
    JobCanFail,     \* packing, an allocation or the engine's save may fail
    ProcessCanExit, \* the process may end and start again
    QuietDirect,    \* engine: no direct save of a file with a save in flight
    QuietCopy       \* engine: no copy of a file with a save in flight

ASSUME MaxSavesAssumption == MaxSaves \in Nat
ASSUME FlagsAssumption ==
    {SpawnCanFail, JobCanFail, ProcessCanExit, QuietDirect, QuietCopy}
        \subseteq BOOLEAN
ASSUME PathAssumption ==
    /\ Path # {}
    /\ Path \subseteq [dir : STRING, name : STRING, number : Nat, ext : STRING,
                       spelling : STRING]

Save == 1..MaxSaves
Key  == {PathKey(p) : p \in Path}
File == {FileOf(p) : p \in Path}

VARIABLES
    at,        \* per caller: "idle", "packed" or "saving"
    buf,       \* per caller: what the pack hook left in its buffer
    cur,       \* per caller: the save it is in, 0 outside the save hook
    last,      \* the number of saves so far
    pathOf,    \* per save: its path
    phase,     \* per save: see above
    prev,      \* per queued save: the table's entry it replaced, or 0
    tasks,     \* SAVE_TASKS: per key, the newest queued save, or 0
    disk,      \* per file: the save it holds and its form
    believed   \* history: per file, the save it would hold had every save
               \* been written by the time its call returned

callerVars == <<at, buf, cur>>
vars == <<at, buf, cur, last, pathOf, phase, prev, tasks, disk, believed>>

Phases == {"unused", "wait", "pack", "write", "remove", "notify", "done",
           "orphan", "orphanwrite", "orphaned",
           "direct", "directwrite", "directdone", "lost"}

Active   == {"wait", "pack", "write", "remove", "orphan", "orphanwrite", "orphaned"}
Writing  == {"write", "orphanwrite", "directwrite"}
PastWait == (Active \ {"wait"}) \union {"notify", "done"}
InFlight == {"wait", "pack", "orphan", "direct"} \union Writing

NoFile == [save |-> 0, form |-> "none"]

TypeOK ==
    /\ at \in [Caller -> {"idle", "packed", "saving"}]
    /\ buf \in [Caller -> {"packed", "placeholder"}]
    /\ cur \in [Caller -> 0..MaxSaves]
    /\ last \in 0..MaxSaves
    /\ pathOf \in [Save -> Path]
    /\ phase \in [Save -> Phases]
    /\ prev \in [Save -> 0..MaxSaves]
    /\ tasks \in [Key -> 0..MaxSaves]
    /\ disk \in [File -> [save : 0..MaxSaves,
                          form : {"none", "torn", "packed", "placeholder"}]]
    /\ believed \in [File -> 0..MaxSaves]

Init ==
    /\ at = [c \in Caller |-> "idle"]
    /\ buf = [c \in Caller |-> "packed"]
    /\ cur = [c \in Caller |-> 0]
    /\ last = 0
    /\ pathOf = [s \in Save |-> CHOOSE p \in Path : TRUE]
    /\ phase = [s \in Save |-> "unused"]
    /\ prev = [s \in Save |-> 0]
    /\ tasks = [k \in Key |-> 0]
    /\ disk = [f \in File |-> NoFile]
    /\ believed = [f \in File |-> 0]

------------------------------------------------------------------------------

SavesOn(f, ps) == {s \in Save : phase[s] \in ps /\ FileOf(pathOf[s]) = f}

\* What a file holds once save s closes it: torn when another save wrote it
\* while it was open.
Closed(f, s, form) ==
    IF disk[f].save = s /\ SavesOn(f, Writing) = {s}
      THEN [save |-> s, form |-> form]
      ELSE [disk[f] EXCEPT !.form = "torn"]

\* MUTANT reports success without packing when the array is not allocated.
PackResultNoFallback(large, allocated) ==
    IF large THEN (IF allocated THEN "placeholder" ELSE "raw") ELSE "packed"
\* A raw buffer above the threshold gets the placeholder header, if the array
\* for it can be allocated; every other one is packed by the engine.
PackResult(large, allocated) ==
    IF large /\ allocated THEN "placeholder" ELSE "packed"

\* The pack hook.
PackBuffer(c) ==
    /\ at[c] = "idle"
    /\ \E large, allocated \in BOOLEAN :
          buf' = [buf EXCEPT ![c] = PackResult(large, allocated)]
    /\ at' = [at EXCEPT ![c] = "packed"]
    /\ UNCHANGED <<cur, last, pathOf, phase, prev, tasks, disk, believed>>

\* MUTANT forgets the saves that are not numbered slots.
IsPlaceholderSaveNumbered(c, p) == buf[c] = "placeholder" /\ p.name = "number"
\* A placeholder is queued only for a file whose layout is known.
IsPlaceholderSave(c, p) == buf[c] = "placeholder" /\ HasLayout(p)

\* The hook returns to the engine.
Return(c) ==
    /\ at' = [at EXCEPT ![c] = "idle"]
    /\ buf' = [buf EXCEPT ![c] = "packed"]
    /\ cur' = [cur EXCEPT ![c] = 0]

NewSave(c, p, ph) ==
    /\ at[c] = "packed"
    /\ last < MaxSaves
    /\ last' = last + 1
    /\ pathOf' = [pathOf EXCEPT ![last + 1] = p]
    /\ phase' = [phase EXCEPT ![last + 1] = ph]
    /\ at' = [at EXCEPT ![c] = "saving"]
    /\ cur' = [cur EXCEPT ![c] = last + 1]
    /\ believed' = [believed EXCEPT ![FileOf(p)] = last + 1]
    /\ UNCHANGED <<buf, disk>>

\* queue_async_save up to its wait: the insertion returns the old entry.
QueueSave(c, p) ==
    /\ IsPlaceholderSave(c, p)
    /\ QuietDirect =>
          SavesOn(FileOf(p), {"direct", "directwrite"}) = {}
    /\ NewSave(c, p, "wait")
    /\ prev' = [prev EXCEPT ![last + 1] = tasks[PathKey(p)]]
    /\ tasks' = [tasks EXCEPT ![PathKey(p)] = last + 1]

\* Everything else goes to the engine's function at once; it does not look
\* at the table.
DirectSave(c, p) ==
    /\ ~IsPlaceholderSave(c, p)
    /\ QuietDirect => SavesOn(FileOf(p), InFlight) = {}
    /\ NewSave(c, p, "direct")
    /\ UNCHANGED <<prev, tasks>>

\* SaveSlot.completed
Completed(s) == phase[s] = "done"

\* MUTANT does not wait.
PreviousDoneAlways(s) == TRUE
\* MUTANT waits for the entry that is in the table now, its own.
PreviousDoneNewest(s) ==
    LET t == tasks[PathKey(pathOf[s])] IN t # 0 => Completed(t)
\* The wait of queue_async_save is over.
PreviousDone(s) == prev[s] # 0 => Completed(prev[s])

\* The worker starts and the hook returns true: the save is acknowledged.
SpawnWorker(c) ==
    /\ at[c] = "saving" /\ phase[cur[c]] = "wait"
    /\ PreviousDone(cur[c])
    /\ phase' = [phase EXCEPT ![cur[c]] = "pack"]
    /\ Return(c)
    /\ UNCHANGED <<last, pathOf, prev, tasks, disk, believed>>

\* thread::spawn panics: the detour catches it and calls the engine's
\* function with the buffer as it is.  The slot stays in the table.
SpawnPanics(c) ==
    /\ SpawnCanFail
    /\ at[c] = "saving" /\ phase[cur[c]] = "wait"
    /\ PreviousDone(cur[c])
    /\ phase' = [phase EXCEPT ![cur[c]] = "orphan"]
    /\ UNCHANGED <<at, buf, cur, last, pathOf, prev, tasks, disk, believed>>

------------------------------------------------------------------------------

\* The engine's save function, called on the caller's own thread.
OpenDirect(c) ==
    LET s == cur[c]
        f == FileOf(pathOf[s])
    IN  /\ at[c] = "saving" /\ phase[s] \in {"direct", "orphan"}
        /\ phase' = [phase EXCEPT ![s] = IF @ = "direct" THEN "directwrite"
                                                         ELSE "orphanwrite"]
        /\ disk' = [disk EXCEPT ![f] = [save |-> s, form |-> "torn"]]
        /\ UNCHANGED <<at, buf, cur, last, pathOf, prev, tasks, believed>>

CloseDirect(c) ==
    LET s == cur[c]
        f == FileOf(pathOf[s])
    IN  /\ at[c] = "saving" /\ phase[s] \in {"directwrite", "orphanwrite"}
        /\ phase' = [phase EXCEPT ![s] = IF @ = "directwrite" THEN "directdone"
                                                              ELSE "orphaned"]
        /\ disk' = [disk EXCEPT ![f] = Closed(f, s, buf[c])]
        /\ Return(c)
        /\ UNCHANGED <<last, pathOf, prev, tasks, believed>>

------------------------------------------------------------------------------

\* A worker packs its copy of the raw data and opens the file...
OpenWrite(s) ==
    /\ phase[s] = "pack"
    /\ phase' = [phase EXCEPT ![s] = "write"]
    /\ disk' = [disk EXCEPT ![FileOf(pathOf[s])] = [save |-> s, form |-> "torn"]]
    /\ UNCHANGED <<at, buf, cur, last, pathOf, prev, tasks, believed>>

\* ... writes header and packed data ...
CloseWrite(s) ==
    LET f == FileOf(pathOf[s])
    IN  /\ phase[s] = "write"
        /\ phase' = [phase EXCEPT ![s] = "remove"]
        /\ disk' = [disk EXCEPT ![f] = Closed(f, s, "packed")]
        /\ UNCHANGED <<at, buf, cur, last, pathOf, prev, tasks, believed>>

\* ... or fails on the way, or panics: only the log tells.
JobFails(s) ==
    /\ JobCanFail
    /\ phase[s] \in {"pack", "write"}
    /\ phase' = [phase EXCEPT ![s] = "remove"]
    /\ UNCHANGED <<at, buf, cur, last, pathOf, prev, tasks, disk, believed>>

\* MUTANT removes whatever entry is there.
OwnsAnyEntry(s) == tasks[PathKey(pathOf[s])] # 0
\* The entry may belong to a later save by now (Arc::ptr_eq).
OwnsEntry(s) == tasks[PathKey(pathOf[s])] = s

RemoveTask(s) ==
    /\ phase[s] = "remove"
    /\ phase' = [phase EXCEPT ![s] = "notify"]
    /\ tasks' = [tasks EXCEPT ![PathKey(pathOf[s])] = IF OwnsEntry(s) THEN 0 ELSE @]
    /\ UNCHANGED <<at, buf, cur, last, pathOf, prev, disk, believed>>

NotifyDone(s) ==
    /\ phase[s] = "notify"
    /\ phase' = [phase EXCEPT ![s] = "done"]
    /\ UNCHANGED <<at, buf, cur, last, pathOf, prev, tasks, disk, believed>>

------------------------------------------------------------------------------

\* What a copy of p to q makes of the files: none without p, none onto an
\* existing q with fail_if_exists.
Copied(files, none, p, q, failIfExists) ==
    LET src == FileOf(p)
        dst == FileOf(q)
    IN  IF files[src] = none \/ (failIfExists /\ files[dst] # none)
          THEN files
          ELSE IF ShouldMove(p, q)
                 THEN [files EXCEPT ![dst] = files[src], ![src] = none]
                 ELSE [files EXCEPT ![dst] = files[src]]

OnEither(p, q, ps) == SavesOn(FileOf(p), ps) \union SavesOn(FileOf(q), ps)

\* The copy hook.  A file that is open for writing cannot be moved.
CopyFile(c, p, q) ==
    /\ at[c] # "saving"
    /\ FileOf(p) # FileOf(q)
    /\ QuietCopy => OnEither(p, q, InFlight) = {}
    /\ \E failIfExists \in BOOLEAN :
          /\ disk' = IF OnEither(p, q, Writing) # {} THEN disk
                     ELSE Copied(disk, NoFile, p, q, failIfExists)
          /\ believed' = Copied(believed, 0, p, q, failIfExists)
    /\ UNCHANGED <<at, buf, cur, last, pathOf, phase, prev, tasks>>

\* The process ends with its threads and starts again with an empty table.
ProcessExit ==
    /\ ProcessCanExit
    /\ at' = [c \in Caller |-> "idle"]
    /\ buf' = [c \in Caller |-> "packed"]
    /\ phase' = [s \in Save |->
                   IF phase[s] \in {"unused", "done", "directdone"} THEN phase[s]
                                                                    ELSE "lost"]
    /\ cur' = [c \in Caller |-> 0]
    /\ tasks' = [k \in Key |-> 0]
    /\ believed' = [f \in File |-> disk[f].save]
    /\ UNCHANGED <<last, pathOf, prev, disk>>

------------------------------------------------------------------------------

CallerStep(c) ==
    \/ SpawnWorker(c) \/ SpawnPanics(c)
    \/ OpenDirect(c) \/ CloseDirect(c)

WorkerStep(s) ==
    OpenWrite(s) \/ CloseWrite(s) \/ JobFails(s) \/ RemoveTask(s) \/ NotifyDone(s)

EngineCall(c) ==
    \/ PackBuffer(c)
    \/ \E p \in Path : QueueSave(c, p) \/ DirectSave(c, p)
    \/ \E p, q \in Path : CopyFile(c, p, q)

Next ==
    \/ \E c \in Caller : EngineCall(c) \/ CallerStep(c)
    \/ \E s \in Save : WorkerStep(s)
    \/ ProcessExit

\* A thread that can run runs: the scheduler is fair to each.  Nothing makes
\* the engine call, and nothing makes a thread fail.
Spec ==
    /\ Init /\ [][Next]_vars
    /\ \A c \in Caller : WF_vars(CallerStep(c))
    /\ \A s \in Save : WF_vars(WorkerStep(s))

------------------------------------------------------------------------------

(***************************************************************************)
(* Safety.  These three hold whatever fails and whatever the engine does.  *)
(***************************************************************************)

SameKey(s, t) == PathKey(pathOf[s]) = PathKey(pathOf[t])

\* Queued saves of one file pass one after the other, in queue order: once
\* one of them is past its wait, no earlier one is still in the queue or in
\* its worker.  This is what the table, the wait and the ptr_eq test are for.
QueueOrder ==
    \A s, t \in Save :
        /\ s < t
        /\ SameKey(s, t)
        /\ phase[t] \in PastWait
        => phase[s] \notin Active

(***************************************************************************)
(* Why QueueOrder holds, as an inductive invariant.                        *)
(***************************************************************************)
\* Numbers are given in order.
Numbered == \A s \in Save : phase[s] = "unused" <=> s > last

CallersInSaves == \A c \in Caller : at[c] = "saving" => cur[c] \in Save

\* The entry of a key is a save of that key that is not finished...
EntryActive ==
    \A k \in Key : tasks[k] # 0
        => PathKey(pathOf[tasks[k]]) = k /\ phase[tasks[k]] \in Active

\* ... and no unfinished save of the key is newer.
EntryNewest ==
    \A s \in Save : phase[s] \in Active => s <= tasks[PathKey(pathOf[s])]

\* A waiting save waits for the newest of the unfinished saves before it.
PrevNewest ==
    \A s \in Save : phase[s] = "wait"
        => /\ prev[s] < s
           /\ prev[s] # 0 => SameKey(prev[s], s)
           /\ \A t \in Save : t < s /\ SameKey(t, s) /\ phase[t] \in Active
                              => t <= prev[s]

\* The saves before a lost one ended with the same process or earlier.
LostIsOver ==
    \A s, t \in Save : s < t /\ phase[t] = "lost" => phase[s] \notin Active

\* A file holds a save that was at least begun.
DiskBegun ==
    \A f \in File : disk[f].save # 0
        => phase[disk[f].save] \notin {"unused", "wait", "pack", "orphan", "direct"}

QueueInv ==
    /\ Numbered /\ CallersInSaves /\ EntryActive /\ EntryNewest
    /\ PrevNewest /\ QueueOrder /\ LostIsOver /\ DiskBegun

\* A worker never opens a file over the data of a later queued save of that
\* file.  (A direct save has no place in the queue: see QuietDirect.)
NeverOlder ==
    [][\A s \in Save :
         LET f == FileOf(pathOf[s])
             t == disk[f].save
         IN  phase[s] = "pack" /\ phase'[s] = "write" /\ t > s
               => \/ phase[t] \in {"directwrite", "directdone"}
                  \/ FileOf(pathOf[t]) # f]_vars

\* The game never reads a placeholder: what the pack hook left unpacked is
\* packed before it reaches a file.
NoPlaceholderOnDisk == \A f \in File : disk[f].form # "placeholder"

\* With nothing in flight, every file holds, whole and packed, what it would
\* hold had every save been synchronous.
Transparent ==
    (\A s \in Save : phase[s] \notin InFlight)
        => \A f \in File :
             /\ disk[f].save = believed[f]
             /\ disk[f].form \in {"none", "packed"}

------------------------------------------------------------------------------

(***************************************************************************)
(* Liveness and refinement.                                                *)
(***************************************************************************)

\* A save whose thread could not be started: its slot is never completed.
SomeOrphan == \E s \in Save : phase[s] \in {"orphan", "orphanwrite", "orphaned"}

\* A caller is not blocked for ever by an earlier save of its file, unless a
\* thread could not be started (then the next queued save of that file is).
CallersReturn ==
    \A c \in Caller : at[c] = "saving" ~> at[c] # "saving" \/ SomeOrphan

\* Every save leaves the queue, its worker and the table, with the same
\* exception.
SavesFinish ==
    \A s \in Save : phase[s] \in InFlight \union {"remove", "notify"}
                      ~> phase[s] \in {"done", "directdone", "lost"} \/ SomeOrphan

\* Where the engine leaves files with a save in flight alone and threads can
\* be spawned, the asynchronous save implements SaveStore.
Store == INSTANCE SaveStore WITH
    pending <- [f \in File |-> SavesOn(f, InFlight)],
    store <- [f \in File |->
                [save |-> disk[f].save,
                 whole |-> disk[f].form \notin {"torn", "placeholder"}]]

ImplementsSaveStore == Store!Spec

==============================================================================
