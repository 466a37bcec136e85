--------------------------- MODULE AsyncSaveProofs ---------------------------
(***************************************************************************)
(* Theorems about AsyncSave, for any callers, paths and number of saves.   *)
(***************************************************************************)
EXTENDS AsyncSave, FiniteSetTheorems, TLAPS

\* A path's key is one of the table's keys, and its file one of the files.
LEMMA KeysAndFiles ==
    /\ \A p \in Path : PathKey(p) \in Key /\ FileOf(p) \in File
    /\ \A p, q \in Path : FileOf(p) = FileOf(q) <=> PathKey(p) = PathKey(q)
BY DEF Key, File, PathKey, FileOf

\* Closing a file leaves a typed content in it.
LEMMA ClosedType ==
    ASSUME TypeOK, NEW f \in File, NEW s \in Save,
           NEW form \in {"packed", "placeholder"}
    PROVE  Closed(f, s, form) \in [save : 0..MaxSaves,
                          form : {"none", "torn", "packed", "placeholder"}]
BY MaxSavesAssumption DEF Closed, TypeOK, Save

\* Closing a file leaves in it the save that closed it or the one it holds.
LEMMA ClosedSave ==
    ASSUME TypeOK, NEW f \in File, NEW s \in Save, NEW form
    PROVE  Closed(f, s, form).save \in {s, disk[f].save}
<1>1. disk[f] \in [save : 0..MaxSaves,
                   form : {"none", "torn", "packed", "placeholder"}]
  BY DEF TypeOK
<1>2. [disk[f] EXCEPT !.form = "torn"].save = disk[f].save
  BY <1>1
<1> QED
  BY <1>2 DEF Closed

\* A file closed after packed data is torn or packed.
LEMMA ClosedForm ==
    ASSUME TypeOK, NEW f \in File, NEW s
    PROVE  Closed(f, s, "packed").form # "placeholder"
<1>1. disk[f] \in [save : 0..MaxSaves,
                   form : {"none", "torn", "packed", "placeholder"}]
  BY DEF TypeOK
<1>2. [disk[f] EXCEPT !.form = "torn"].form = "torn"
  BY <1>1
<1> QED
  BY <1>2 DEF Closed

\* Copying files leaves typed files.
LEMMA CopiedType ==
    ASSUME NEW T, NEW files \in [File -> T], NEW none \in T,
           NEW p \in Path, NEW q \in Path, NEW b \in BOOLEAN
    PROVE  Copied(files, none, p, q, b) \in [File -> T]
BY KeysAndFiles DEF Copied

\* The initial state is typed.
LEMMA InitType == Init => TypeOK
BY MaxSavesAssumption, PathAssumption
   DEF Init, TypeOK, Save, Phases, NoFile, Key, File


\* No step leaves the types.
LEMMA NextType == TypeOK /\ [Next]_vars => TypeOK'
<1> SUFFICES ASSUME TypeOK, [Next]_vars PROVE TypeOK'
  OBVIOUS
<1> USE MaxSavesAssumption
<1>1. ASSUME NEW c \in Caller, PackBuffer(c) PROVE TypeOK'
  BY <1>1 DEF PackBuffer, PackResult, TypeOK
<1>2. ASSUME NEW c \in Caller, NEW p \in Path, QueueSave(c, p) PROVE TypeOK'
  <2>1. PathKey(p) \in Key /\ FileOf(p) \in File
    BY KeysAndFiles
  <2>2. last + 1 \in 0..MaxSaves /\ last + 1 \in Save
    BY <1>2 DEF QueueSave, NewSave, TypeOK, Save
  <2>3. tasks[PathKey(p)] \in 0..MaxSaves
    BY <2>1 DEF TypeOK
  <2> QED
    BY <1>2, <2>1, <2>2, <2>3 DEF QueueSave, NewSave, TypeOK, Phases
<1>3. ASSUME NEW c \in Caller, NEW p \in Path, DirectSave(c, p) PROVE TypeOK'
  <2>1. FileOf(p) \in File
    BY KeysAndFiles
  <2>2. last + 1 \in 0..MaxSaves /\ last + 1 \in Save
    BY <1>3 DEF DirectSave, NewSave, TypeOK, Save
  <2> QED
    BY <1>3, <2>1, <2>2 DEF DirectSave, NewSave, TypeOK, Phases
<1>4. ASSUME NEW c \in Caller, NEW p \in Path, NEW q \in Path, CopyFile(c, p, q)
      PROVE  TypeOK'
  <2> DEFINE Contents == [save : 0..MaxSaves,
                          form : {"none", "torn", "packed", "placeholder"}]
  <2>1. disk \in [File -> Contents] /\ NoFile \in Contents
    BY DEF TypeOK, NoFile
  <2>2. PICK b \in BOOLEAN :
          /\ disk' \in {disk, Copied(disk, NoFile, p, q, b)}
          /\ believed' = Copied(believed, 0, p, q, b)
    BY <1>4 DEF CopyFile
  <2>3. disk' \in [File -> Contents]
    <3> HIDE DEF Contents
    <3>1. Copied(disk, NoFile, p, q, b) \in [File -> Contents]
      BY <2>1, CopiedType
    <3> QED
      BY <2>1, <2>2, <3>1
  <2>4. believed' \in [File -> 0..MaxSaves]
    <3>1. believed \in [File -> 0..MaxSaves] /\ 0 \in 0..MaxSaves
      BY DEF TypeOK
    <3>2. Copied(believed, 0, p, q, b) \in [File -> 0..MaxSaves]
      BY <3>1, CopiedType
    <3> QED
      BY <2>2, <3>2
  <2> QED
    BY <1>4, <2>3, <2>4 DEF CopyFile, TypeOK
<1>5. ASSUME NEW c \in Caller, SpawnWorker(c) PROVE TypeOK'
  <2>1. phase' \in [Save -> Phases]
    BY <1>5 DEF SpawnWorker, TypeOK, Phases
  <2> QED
    BY <1>5, <2>1 DEF SpawnWorker, Return, TypeOK
<1>6. ASSUME NEW c \in Caller, SpawnPanics(c) PROVE TypeOK'
  BY <1>6 DEF SpawnPanics, TypeOK, Phases
<1>7. ASSUME NEW c \in Caller, OpenDirect(c) PROVE TypeOK'
  BY <1>7 DEF OpenDirect, TypeOK, Phases
<1>8. ASSUME NEW c \in Caller, CloseDirect(c) PROVE TypeOK'
  <2> DEFINE s == cur[c]
             f == FileOf(pathOf[s])
  <2>1. phase' \in [Save -> Phases]
    BY <1>8 DEF CloseDirect, TypeOK, Phases
  <2>2. disk' \in [File -> [save : 0..MaxSaves,
                            form : {"none", "torn", "packed", "placeholder"}]]
    <3>1. disk' = [disk EXCEPT ![f] = Closed(f, s, buf[c])]
      BY <1>8 DEF CloseDirect
    <3>2. CASE f \in File
      BY <3>1, <3>2 DEF TypeOK, Closed
    <3>3. CASE f \notin File
      BY <3>1, <3>3 DEF TypeOK
    <3> QED
      BY <3>2, <3>3
  <2> QED
    BY <1>8, <2>1, <2>2 DEF CloseDirect, Return, TypeOK
<1>9. ASSUME NEW s \in Save, OpenWrite(s) PROVE TypeOK'
  <2>1. phase' \in [Save -> Phases]
    BY <1>9 DEF OpenWrite, TypeOK, Phases
  <2>2. [save |-> s, form |-> "torn"]
          \in [save : 0..MaxSaves,
               form : {"none", "torn", "packed", "placeholder"}]
    BY DEF Save
  <2> QED
    BY <1>9, <2>1, <2>2 DEF OpenWrite, TypeOK
<1>10. ASSUME NEW s \in Save, CloseWrite(s) PROVE TypeOK'
  <2>1. FileOf(pathOf[s]) \in File
    BY KeysAndFiles DEF TypeOK
  <2>2. Closed(FileOf(pathOf[s]), s, "packed")
          \in [save : 0..MaxSaves,
               form : {"none", "torn", "packed", "placeholder"}]
    BY <2>1, ClosedType
  <2> QED
    BY <1>10, <2>1, <2>2 DEF CloseWrite, TypeOK, Phases
<1>11. ASSUME NEW s \in Save, JobFails(s) PROVE TypeOK'
  BY <1>11 DEF JobFails, TypeOK, Phases
<1>12. ASSUME NEW s \in Save, RemoveTask(s) PROVE TypeOK'
  <2>1. phase' \in [Save -> Phases]
    BY <1>12 DEF RemoveTask, TypeOK, Phases
  <2>2. tasks' \in [Key -> 0..MaxSaves]
    BY <1>12, KeysAndFiles DEF RemoveTask, TypeOK
  <2> QED
    BY <1>12, <2>1, <2>2 DEF RemoveTask, TypeOK
<1>13. ASSUME NEW s \in Save, NotifyDone(s) PROVE TypeOK'
  BY <1>13 DEF NotifyDone, TypeOK, Phases
<1>14. ASSUME ProcessExit PROVE TypeOK'
  BY <1>14 DEF ProcessExit, TypeOK, Phases
<1>15. CASE UNCHANGED vars
  BY <1>15 DEF vars, TypeOK
<1> QED
  BY <1>1, <1>2, <1>3, <1>4, <1>5, <1>6, <1>7, <1>8, <1>9, <1>10, <1>11,
     <1>12, <1>13, <1>14, <1>15
     DEF Next, EngineCall, CallerStep, WorkerStep

\* Every variable keeps to its type.
THEOREM TypeCorrect == Spec => []TypeOK
<1>1. Init => TypeOK
  BY InitType
<1>2. TypeOK /\ [Next]_vars => TypeOK'
  BY NextType
<1> QED
  BY <1>1, <1>2, PTL DEF Spec


------------------------------------------------------------------------------

\* The parts of QueueInv that speak of the table and the queue only.
TableInv ==
    /\ Numbered /\ EntryActive /\ EntryNewest
    /\ PrevNewest /\ QueueOrder /\ LostIsOver

\* A phase matters to the queue only by the classes it belongs to.
SameClass(a, b) ==
    /\ a \in Active <=> b \in Active
    /\ a \in PastWait <=> b \in PastWait
    /\ \A x \in {"unused", "wait", "lost"} : a = x <=> b = x

\* A step that changes the phase of one save within its class, and not the
\* table, preserves the table's invariants.
LEMMA KeepsTable ==
    ASSUME TypeOK, TableInv,
           \A s \in Save : SameClass(phase[s], phase'[s]),
           UNCHANGED <<last, pathOf, prev, tasks>>
    PROVE  TableInv'
<1> USE DEF SameClass
<1>1. Numbered'
  BY DEF TableInv, Numbered
<1>2. EntryActive'
  <2> SUFFICES ASSUME NEW k \in Key, tasks[k] # 0
               PROVE  PathKey(pathOf[tasks[k]]) = k /\ phase'[tasks[k]] \in Active
    BY DEF EntryActive
  <2>1. tasks[k] \in Save
    BY MaxSavesAssumption DEF TypeOK, Save
  <2> QED
    BY <2>1 DEF TableInv, EntryActive
<1>3. EntryNewest'
  BY DEF TableInv, EntryNewest
<1>4. PrevNewest'
  BY DEF TableInv, PrevNewest, SameKey
<1>5. QueueOrder'
  BY DEF TableInv, QueueOrder, SameKey
<1>6. LostIsOver'
  BY DEF TableInv, LostIsOver
<1> QED
  BY <1>1, <1>2, <1>3, <1>4, <1>5, <1>6 DEF TableInv

\* In particular a step of one save from a phase to another of its class.
LEMMA PhaseStepKeepsTable ==
    ASSUME TypeOK, TableInv, NEW s \in Save, NEW ph \in Phases,
           phase' = [phase EXCEPT ![s] = ph], SameClass(phase[s], ph),
           UNCHANGED <<last, pathOf, prev, tasks>>
    PROVE  TableInv'
<1>1. \A t \in Save : phase'[t] = IF t = s THEN ph ELSE phase[t]
  BY DEF TypeOK
<1>2. \A t \in Save : SameClass(phase[t], phase'[t])
  BY <1>1 DEF SameClass
<1> QED
  BY <1>2, KeepsTable

\* A queued save takes the place of the newest unfinished save of its key.
LEMMA QueueSaveKeepsTable ==
    ASSUME TypeOK, TableInv, NEW c \in Caller, NEW p \in Path, QueueSave(c, p)
    PROVE  TableInv'
<1> DEFINE N == last + 1
           k == PathKey(p)
<1>1. N \in Save /\ N \in Nat /\ 0 < N /\ last \in Nat
  <2>1. last \in Nat /\ last < MaxSaves
    BY MaxSavesAssumption DEF QueueSave, NewSave, TypeOK
  <2> QED
    BY <2>1, MaxSavesAssumption DEF Save
<1>2. /\ \A s \in Save : phase'[s] = IF s = N THEN "wait" ELSE phase[s]
      /\ \A s \in Save : pathOf'[s] = IF s = N THEN p ELSE pathOf[s]
      /\ \A s \in Save : prev'[s] = IF s = N THEN tasks[k] ELSE prev[s]
      /\ last' = N
  BY <1>1 DEF QueueSave, NewSave, TypeOK
<1>3. k \in Key /\ \A j \in Key : tasks'[j] = IF j = k THEN N ELSE tasks[j]
  BY KeysAndFiles DEF QueueSave, TypeOK
<1>4. \A s \in Save : s \in Int /\ (s < N <=> phase[s] # "unused") /\ phase[N] = "unused"
  BY <1>1 DEF TableInv, Numbered, Save
<1>5. \A j \in Key : /\ tasks[j] \in Nat /\ tasks[j] < N
                     /\ tasks[j] # 0 => tasks[j] \in Save
  <2> SUFFICES ASSUME NEW j \in Key
               PROVE  /\ tasks[j] \in Nat /\ tasks[j] < N
                      /\ tasks[j] # 0 => tasks[j] \in Save
    OBVIOUS
  <2>1. tasks[j] \in Nat /\ (tasks[j] # 0 => tasks[j] \in Save)
    BY MaxSavesAssumption DEF TypeOK, Save
  <2>2. tasks[j] # 0 => phase[tasks[j]] \in Active
    BY DEF TableInv, EntryActive
  <2> QED
    BY <2>1, <2>2, <1>1, <1>4 DEF Active
<1> HIDE DEF N, k
<1>6. Numbered'
  <2> SUFFICES ASSUME NEW s \in Save PROVE phase'[s] = "unused" <=> s > N
    BY <1>2 DEF Numbered
  <2>1. CASE s = N
    BY <2>1, <1>1, <1>2
  <2>2. CASE s # N
    <3>1. phase'[s] = phase[s]
      BY <2>2, <1>2
    <3>2. s \in Int /\ (s < N <=> phase[s] # "unused")
      BY <1>4
    <3>3. s > N <=> ~(s < N)
      BY <2>2, <3>2, <1>1
    <3> QED
      BY <3>1, <3>2, <3>3
  <2> QED
    BY <2>1, <2>2
<1>7. EntryActive'
  <2> SUFFICES ASSUME NEW j \in Key, tasks'[j] # 0
               PROVE  PathKey(pathOf'[tasks'[j]]) = j /\ phase'[tasks'[j]] \in Active
    BY DEF EntryActive
  <2>1. CASE j = k
    BY <2>1, <1>1, <1>2, <1>3 DEF Active, k
  <2>2. CASE j # k
    <3>1. tasks'[j] = tasks[j] /\ tasks[j] # 0 /\ tasks[j] # N /\ tasks[j] \in Save
      BY <2>2, <1>1, <1>3, <1>5
    <3> QED
      BY <3>1, <1>2 DEF TableInv, EntryActive
  <2> QED
    BY <2>1, <2>2
<1>8. EntryNewest'
  <2> SUFFICES ASSUME NEW s \in Save, phase'[s] \in Active
               PROVE  s <= tasks'[PathKey(pathOf'[s])]
    BY DEF EntryNewest
  <2>1. CASE s = N
    BY <2>1, <1>1, <1>2, <1>3 DEF k
  <2>2. CASE s # N
    <3>1. phase[s] \in Active /\ pathOf'[s] = pathOf[s] /\ PathKey(pathOf[s]) \in Key
      BY <2>2, <1>2, KeysAndFiles DEF TypeOK
    <3>2. s <= tasks[PathKey(pathOf[s])]
      BY <3>1 DEF TableInv, EntryNewest
    <3>3. s < N
      BY <3>1, <1>4 DEF Active
    <3> QED
      BY <3>1, <3>2, <3>3, <1>1, <1>3, <1>4, <1>5
  <2> QED
    BY <2>1, <2>2
<1>9. PrevNewest'
  <2> SUFFICES ASSUME NEW s \in Save, phase'[s] = "wait"
               PROVE  /\ prev'[s] < s
                      /\ prev'[s] # 0 =>
                           PathKey(pathOf'[prev'[s]]) = PathKey(pathOf'[s])
                      /\ \A t \in Save : /\ t < s
                                         /\ PathKey(pathOf'[t]) = PathKey(pathOf'[s])
                                         /\ phase'[t] \in Active
                                         => t <= prev'[s]
    BY DEF PrevNewest, SameKey
  <2>1. CASE s = N
    <3>1. prev'[s] = tasks[k] /\ PathKey(pathOf'[s]) = k
      BY <2>1, <1>2 DEF k
    <3>2. tasks[k] < N
      BY <1>1, <1>3, <1>5
    <3>3. tasks[k] # 0 => PathKey(pathOf'[tasks[k]]) = k
      BY <1>2, <1>3, <1>5 DEF TableInv, EntryActive
    <3>4. ASSUME NEW t \in Save, t < N, PathKey(pathOf'[t]) = k, phase'[t] \in Active
          PROVE  t <= tasks[k]
      BY <3>4, <1>2, <1>4 DEF TableInv, EntryNewest
    <3> QED
      BY <2>1, <3>1, <3>2, <3>3, <3>4
  <2>2. CASE s # N
    <3>1. phase[s] = "wait" /\ prev'[s] = prev[s] /\ pathOf'[s] = pathOf[s] /\ s < N
      BY <2>2, <1>2, <1>4
    <3>2. prev[s] < s /\ prev[s] \in 0..MaxSaves
      BY <3>1 DEF TableInv, PrevNewest, TypeOK
    <3>3. prev[s] # 0 => prev[s] \in Save /\ prev[s] # N /\ SameKey(prev[s], s)
      BY <3>1, <3>2, <1>1, <1>4, MaxSavesAssumption
         DEF TableInv, PrevNewest, Save
    <3>4. ASSUME NEW t \in Save, t < s,
                 PathKey(pathOf'[t]) = PathKey(pathOf'[s]), phase'[t] \in Active
          PROVE  t <= prev[s]
      <4>1. t # N /\ pathOf'[t] = pathOf[t] /\ phase'[t] = phase[t]
        BY <3>1, <3>4, <1>1, <1>2, <1>4
      <4> QED
        BY <4>1, <3>1, <3>4 DEF TableInv, PrevNewest, SameKey
    <3> QED
      BY <3>1, <3>2, <3>3, <3>4, <1>2 DEF SameKey
  <2> QED
    BY <2>1, <2>2
<1>10. QueueOrder'
  <2> SUFFICES ASSUME NEW s \in Save, NEW t \in Save, s < t,
                      PathKey(pathOf'[s]) = PathKey(pathOf'[t]),
                      phase'[t] \in PastWait
               PROVE  phase'[s] \notin Active
    BY DEF QueueOrder, SameKey
  <2>1. t # N /\ s # N
    BY <1>1, <1>2, <1>4 DEF PastWait, Active
  <2> QED
    BY <2>1, <1>2 DEF TableInv, QueueOrder, SameKey
<1>11. LostIsOver'
  <2> SUFFICES ASSUME NEW s \in Save, NEW t \in Save, s < t, phase'[t] = "lost"
               PROVE  phase'[s] \notin Active
    BY DEF LostIsOver
  <2>1. t # N /\ s # N
    BY <1>1, <1>2, <1>4
  <2> QED
    BY <2>1, <1>2 DEF TableInv, LostIsOver
<1> QED
  BY <1>6, <1>7, <1>8, <1>9, <1>10, <1>11 DEF TableInv


\* A direct save has no place in the table.
LEMMA DirectSaveKeepsTable ==
    ASSUME TypeOK, TableInv, NEW c \in Caller, NEW p \in Path, DirectSave(c, p)
    PROVE  TableInv'
<1> DEFINE N == last + 1
<1>1. N \in Save /\ N \in Nat /\ last \in Nat
  <2>1. last \in Nat /\ last < MaxSaves
    BY MaxSavesAssumption DEF DirectSave, NewSave, TypeOK
  <2> QED
    BY <2>1, MaxSavesAssumption DEF Save
<1>2. /\ \A s \in Save : phase'[s] = IF s = N THEN "direct" ELSE phase[s]
      /\ \A s \in Save : pathOf'[s] = IF s = N THEN p ELSE pathOf[s]
      /\ last' = N
      /\ UNCHANGED <<prev, tasks>>
  BY <1>1 DEF DirectSave, NewSave, TypeOK
<1>3. \A s \in Save : s \in Int /\ (s < N <=> phase[s] # "unused") /\ phase[N] = "unused"
  BY <1>1 DEF TableInv, Numbered, Save
<1> HIDE DEF N
<1>4. Numbered'
  BY <1>1, <1>2, <1>3 DEF Numbered
<1>5. EntryActive'
  <2> SUFFICES ASSUME NEW j \in Key, tasks[j] # 0
               PROVE  PathKey(pathOf'[tasks[j]]) = j /\ phase'[tasks[j]] \in Active
    BY <1>2 DEF EntryActive
  <2>1. tasks[j] \in Save /\ phase[tasks[j]] \in Active
    BY MaxSavesAssumption DEF TypeOK, Save, TableInv, EntryActive
  <2>2. tasks[j] # N
    BY <2>1, <1>3 DEF Active
  <2> QED
    BY <2>1, <2>2, <1>2 DEF TableInv, EntryActive
<1>6. EntryNewest'
  <2> SUFFICES ASSUME NEW s \in Save, phase'[s] \in Active
               PROVE  s <= tasks[PathKey(pathOf'[s])]
    BY <1>2 DEF EntryNewest
  <2>1. s # N
    BY <1>2 DEF Active
  <2> QED
    BY <2>1, <1>2 DEF TableInv, EntryNewest
<1>7. PrevNewest'
  <2> SUFFICES ASSUME NEW s \in Save, phase'[s] = "wait"
               PROVE  /\ prev[s] < s
                      /\ prev[s] # 0 =>
                           PathKey(pathOf'[prev[s]]) = PathKey(pathOf'[s])
                      /\ \A t \in Save : /\ t < s
                                         /\ PathKey(pathOf'[t]) = PathKey(pathOf'[s])
                                         /\ phase'[t] \in Active
                                         => t <= prev[s]
    BY <1>2 DEF PrevNewest, SameKey
  <2>1. phase[s] = "wait" /\ pathOf'[s] = pathOf[s] /\ s < N
    BY <1>2, <1>3
  <2>2. prev[s] < s /\ prev[s] \in 0..MaxSaves
    BY <2>1 DEF TableInv, PrevNewest, TypeOK
  <2>3. prev[s] # 0 => prev[s] \in Save /\ prev[s] # N /\ SameKey(prev[s], s)
    BY <2>1, <2>2, <1>1, <1>3, MaxSavesAssumption DEF TableInv, PrevNewest, Save
  <2>4. ASSUME NEW t \in Save, t < s,
               PathKey(pathOf'[t]) = PathKey(pathOf'[s]), phase'[t] \in Active
        PROVE  t <= prev[s]
    <3>1. t # N /\ pathOf'[t] = pathOf[t] /\ phase'[t] = phase[t]
      BY <2>1, <2>4, <1>1, <1>2, <1>3
    <3> QED
      BY <3>1, <2>1, <2>4 DEF TableInv, PrevNewest, SameKey
  <2> QED
    BY <2>1, <2>2, <2>3, <2>4, <1>2 DEF SameKey
<1>8. QueueOrder'
  <2> SUFFICES ASSUME NEW s \in Save, NEW t \in Save, s < t,
                      PathKey(pathOf'[s]) = PathKey(pathOf'[t]),
                      phase'[t] \in PastWait
               PROVE  phase'[s] \notin Active
    BY DEF QueueOrder, SameKey
  <2>1. t # N /\ (s = N => phase'[s] \notin Active)
    BY <1>1, <1>2, <1>3 DEF PastWait, Active
  <2> QED
    BY <2>1, <1>2 DEF TableInv, QueueOrder, SameKey
<1>9. LostIsOver'
  <2> SUFFICES ASSUME NEW s \in Save, NEW t \in Save, s < t, phase'[t] = "lost"
               PROVE  phase'[s] \notin Active
    BY DEF LostIsOver
  <2>1. t # N /\ (s = N => phase'[s] \notin Active)
    BY <1>1, <1>2, <1>3 DEF Active
  <2> QED
    BY <2>1, <1>2 DEF TableInv, LostIsOver
<1> QED
  BY <1>4, <1>5, <1>6, <1>7, <1>8, <1>9 DEF TableInv

\* The save that leaves its wait is the oldest unfinished one of its key: its
\* predecessor is done, and all before the predecessor were finished then.
LEMMA LeaveWaitKeepsTable ==
    ASSUME TypeOK, TableInv, NEW s \in Save, NEW ph \in {"pack", "orphan"},
           phase[s] = "wait", PreviousDone(s), phase' = [phase EXCEPT ![s] = ph],
           UNCHANGED <<last, pathOf, prev, tasks>>
    PROVE  TableInv'
<1>1. \A t \in Save : phase'[t] = IF t = s THEN ph ELSE phase[t]
  BY DEF TypeOK
<1>2. \A t \in Save : phase'[t] \in Active <=> phase[t] \in Active
  BY <1>1 DEF Active
<1>3. Numbered'
  BY <1>1 DEF TableInv, Numbered
<1>4. EntryActive'
  <2> SUFFICES ASSUME NEW k \in Key, tasks[k] # 0
               PROVE  PathKey(pathOf[tasks[k]]) = k /\ phase'[tasks[k]] \in Active
    BY DEF EntryActive
  <2>1. tasks[k] \in Save
    BY MaxSavesAssumption DEF TypeOK, Save
  <2> QED
    BY <2>1, <1>2 DEF TableInv, EntryActive
<1>5. EntryNewest'
  BY <1>2 DEF TableInv, EntryNewest
<1>6. PrevNewest'
  BY <1>1, <1>2 DEF TableInv, PrevNewest, SameKey
<1>7. QueueOrder'
  <2> SUFFICES ASSUME NEW i \in Save, NEW t \in Save, i < t, SameKey(i, t),
                      phase'[t] \in PastWait, phase[i] \in Active
               PROVE  FALSE
    BY <1>2 DEF QueueOrder, SameKey
  <2>1. CASE t # s
    BY <2>1, <1>1 DEF TableInv, QueueOrder
  <2>2. CASE t = s
    <3>1. i <= prev[s] /\ prev[s] < s /\ (prev[s] # 0 => SameKey(prev[s], s))
      BY <2>2 DEF TableInv, PrevNewest
    <3>2. prev[s] # 0 /\ prev[s] \in Save /\ i \in Nat /\ prev[s] \in Nat
      BY <3>1, MaxSavesAssumption DEF TypeOK, Save
    <3>3. phase[prev[s]] = "done"
      BY <3>2 DEF PreviousDone, Completed
    <3>4. i # prev[s]
      BY <3>3 DEF Active
    <3>5. i < prev[s] /\ SameKey(i, prev[s])
      BY <3>1, <3>2, <3>4, <2>2 DEF SameKey
    <3> QED
      BY <3>2, <3>3, <3>5 DEF TableInv, QueueOrder, PastWait
  <2> QED
    BY <2>1, <2>2
<1>8. LostIsOver'
  BY <1>1, <1>2 DEF TableInv, LostIsOver
<1> QED
  BY <1>3, <1>4, <1>5, <1>6, <1>7, <1>8 DEF TableInv

\* A worker that takes its own entry out leaves no unfinished save of its key
\* behind; one that finds a later save's entry leaves it alone.
LEMMA RemoveTaskKeepsTable ==
    ASSUME TypeOK, TableInv, NEW s \in Save, RemoveTask(s)
    PROVE  TableInv'
<1> DEFINE k == PathKey(pathOf[s])
<1>1. /\ \A t \in Save : phase'[t] = IF t = s THEN "notify" ELSE phase[t]
      /\ phase[s] = "remove"
      /\ UNCHANGED <<last, pathOf, prev>>
  BY DEF RemoveTask, TypeOK
<1>2. k \in Key /\ \A j \in Key : tasks'[j] = IF j = k /\ tasks[k] = s THEN 0
                                                                     ELSE tasks[j]
  <2>1. k \in Key
    BY KeysAndFiles DEF TypeOK
  <2>2. CASE tasks[k] = s
    BY <2>1, <2>2 DEF RemoveTask, TypeOK, OwnsEntry
  <2>3. CASE tasks[k] # s
    BY <2>1, <2>3 DEF RemoveTask, TypeOK, OwnsEntry
  <2> QED
    BY <2>1, <2>2, <2>3
<1>3. \A t \in Save : phase'[t] \in Active => phase[t] \in Active /\ t # s
  BY <1>1 DEF Active
<1>4. Numbered'
  BY <1>1 DEF TableInv, Numbered
<1>5. EntryActive'
  <2> SUFFICES ASSUME NEW j \in Key, tasks'[j] # 0
               PROVE  PathKey(pathOf[tasks'[j]]) = j /\ phase'[tasks'[j]] \in Active
    BY <1>1 DEF EntryActive
  <2>1. tasks'[j] = tasks[j] /\ tasks[j] # 0 /\ tasks[j] \in Save
    BY <1>2, MaxSavesAssumption DEF TypeOK, Save
  <2>2. PathKey(pathOf[tasks[j]]) = j /\ phase[tasks[j]] \in Active
    BY <2>1 DEF TableInv, EntryActive
  <2>3. tasks[j] # s
    BY <2>1, <2>2, <1>2
  <2> QED
    BY <2>1, <2>2, <2>3, <1>1
<1>6. EntryNewest'
  <2> SUFFICES ASSUME NEW t \in Save, phase'[t] \in Active
               PROVE  t <= tasks'[PathKey(pathOf[t])]
    BY <1>1 DEF EntryNewest
  <2>1. phase[t] \in Active /\ t # s /\ PathKey(pathOf[t]) \in Key
    BY <1>3, KeysAndFiles DEF TypeOK
  <2>2. t <= tasks[PathKey(pathOf[t])]
    BY <2>1 DEF TableInv, EntryNewest
  <2>3. ASSUME PathKey(pathOf[t]) = k, tasks[k] = s PROVE FALSE
    <3>1. t < s /\ SameKey(t, s)
      BY <2>1, <2>2, <2>3 DEF Save, SameKey
    <3> QED
      BY <3>1, <2>1, <1>1 DEF TableInv, QueueOrder, PastWait, Active
  <2> QED
    BY <2>1, <2>2, <2>3, <1>2
<1>7. PrevNewest'
  BY <1>1, <1>3 DEF TableInv, PrevNewest, SameKey
<1>8. QueueOrder'
  <2>1. \A t \in Save : phase'[t] \in PastWait => phase[t] \in PastWait
    BY <1>1 DEF PastWait, Active
  <2> QED
    BY <2>1, <1>1, <1>3 DEF TableInv, QueueOrder, SameKey
<1>9. LostIsOver'
  BY <1>1, <1>3 DEF TableInv, LostIsOver
<1> QED
  BY <1>4, <1>5, <1>6, <1>7, <1>8, <1>9 DEF TableInv

\* The process ends: nothing is unfinished and the table is empty.
LEMMA ProcessExitKeepsTable ==
    ASSUME TypeOK, TableInv, ProcessExit
    PROVE  TableInv'
<1>1. \A s \in Save : phase'[s] = IF phase[s] \in {"unused", "done", "directdone"}
                                    THEN phase[s] ELSE "lost"
  BY DEF ProcessExit
<1>2. \A s \in Save : phase'[s] \notin Active /\ phase'[s] # "wait"
  BY <1>1 DEF Active
<1>3. Numbered'
  BY <1>1 DEF ProcessExit, TableInv, Numbered
<1>4. EntryActive'
  BY DEF ProcessExit, EntryActive
<1> QED
  BY <1>2, <1>3, <1>4
     DEF TableInv, EntryNewest, PrevNewest, QueueOrder, LostIsOver


\* Every step preserves the table's invariants.
LEMMA NextTable == TypeOK /\ TableInv /\ CallersInSaves /\ [Next]_vars => TableInv'
<1> SUFFICES ASSUME TypeOK, TableInv, CallersInSaves, [Next]_vars PROVE TableInv'
  OBVIOUS
<1> USE DEF SameClass, Active, PastWait, Phases
<1>1. ASSUME NEW c \in Caller, PackBuffer(c) PROVE TableInv'
  BY <1>1, KeepsTable DEF PackBuffer
<1>2. ASSUME NEW c \in Caller, NEW p \in Path, QueueSave(c, p) \/ DirectSave(c, p)
      PROVE  TableInv'
  BY <1>2, QueueSaveKeepsTable, DirectSaveKeepsTable
<1>3. ASSUME NEW c \in Caller, NEW p \in Path, NEW q \in Path, CopyFile(c, p, q)
      PROVE  TableInv'
  BY <1>3, KeepsTable DEF CopyFile
<1>4. ASSUME NEW c \in Caller, SpawnWorker(c) PROVE TableInv'
  <2>1. cur[c] \in Save
    BY <1>4 DEF SpawnWorker, CallersInSaves
  <2> QED
    BY <1>4, <2>1, LeaveWaitKeepsTable DEF SpawnWorker
<1>5. ASSUME NEW c \in Caller, SpawnPanics(c) PROVE TableInv'
  <2>1. cur[c] \in Save
    BY <1>5 DEF SpawnPanics, CallersInSaves
  <2> QED
    BY <1>5, <2>1, LeaveWaitKeepsTable DEF SpawnPanics
<1>6. ASSUME NEW c \in Caller, OpenDirect(c) PROVE TableInv'
  <2>1. cur[c] \in Save
    BY <1>6 DEF OpenDirect, CallersInSaves
  <2>2. PICK ph \in {"directwrite", "orphanwrite"} :
          /\ phase' = [phase EXCEPT ![cur[c]] = ph]
          /\ SameClass(phase[cur[c]], ph)
    BY <1>6 DEF OpenDirect
  <2> QED
    BY <1>6, <2>1, <2>2, PhaseStepKeepsTable DEF OpenDirect
<1>7. ASSUME NEW c \in Caller, CloseDirect(c) PROVE TableInv'
  <2>1. cur[c] \in Save
    BY <1>7 DEF CloseDirect, CallersInSaves
  <2>2. PICK ph \in {"directdone", "orphaned"} :
          /\ phase' = [phase EXCEPT ![cur[c]] = ph]
          /\ SameClass(phase[cur[c]], ph)
    BY <1>7 DEF CloseDirect
  <2> QED
    BY <1>7, <2>1, <2>2, PhaseStepKeepsTable DEF CloseDirect
<1>8. ASSUME NEW s \in Save, OpenWrite(s) PROVE TableInv'
  BY <1>8, PhaseStepKeepsTable DEF OpenWrite
<1>9. ASSUME NEW s \in Save, CloseWrite(s) PROVE TableInv'
  BY <1>9, PhaseStepKeepsTable DEF CloseWrite
<1>10. ASSUME NEW s \in Save, JobFails(s) PROVE TableInv'
  BY <1>10, PhaseStepKeepsTable DEF JobFails
<1>11. ASSUME NEW s \in Save, RemoveTask(s) PROVE TableInv'
  BY <1>11, RemoveTaskKeepsTable
<1>12. ASSUME NEW s \in Save, NotifyDone(s) PROVE TableInv'
  BY <1>12, PhaseStepKeepsTable DEF NotifyDone
<1>13. ASSUME ProcessExit PROVE TableInv'
  BY <1>13, ProcessExitKeepsTable
<1>14. CASE UNCHANGED vars
  BY <1>14, KeepsTable DEF vars
<1> QED
  BY <1>1, <1>2, <1>3, <1>4, <1>5, <1>6, <1>7, <1>8, <1>9, <1>10, <1>11,
     <1>12, <1>13, <1>14
     DEF Next, EngineCall, CallerStep, WorkerStep

\* A caller in the save hook is in a numbered save.
LEMMA NextCallers == TypeOK /\ CallersInSaves /\ [Next]_vars => CallersInSaves'
<1> SUFFICES ASSUME TypeOK, CallersInSaves, [Next]_vars PROVE CallersInSaves'
  OBVIOUS
<1> USE DEF CallersInSaves, TypeOK
<1>1. ASSUME NEW c \in Caller, NEW p \in Path, NEW ph, NewSave(c, p, ph)
      PROVE  CallersInSaves'
  <2>1. last + 1 \in Save
    BY <1>1, MaxSavesAssumption DEF NewSave, Save
  <2> QED
    BY <1>1, <2>1 DEF NewSave
<1>2. ASSUME NEW c \in Caller, EngineCall(c) PROVE CallersInSaves'
  BY <1>1, <1>2 DEF EngineCall, PackBuffer, QueueSave, DirectSave, CopyFile
<1>3. ASSUME NEW c \in Caller, CallerStep(c) PROVE CallersInSaves'
  BY <1>3 DEF CallerStep, SpawnWorker, SpawnPanics, OpenDirect, CloseDirect, Return
<1>4. ASSUME NEW s \in Save, WorkerStep(s) PROVE CallersInSaves'
  BY <1>4 DEF WorkerStep, OpenWrite, CloseWrite, JobFails, RemoveTask, NotifyDone
<1>5. CASE ProcessExit
  BY <1>5 DEF ProcessExit
<1>6. CASE UNCHANGED vars
  BY <1>6 DEF vars
<1> QED
  BY <1>2, <1>3, <1>4, <1>5, <1>6 DEF Next

NotBegun == {"unused", "wait", "pack", "orphan", "direct"}

\* What keeps DiskBegun: a begun save stays begun, and what a file holds next
\* it or another file held before, or is nothing, or is a begun save.
LEMMA DiskStep ==
    ASSUME TypeOK, DiskBegun, TypeOK',
           \A s \in Save : phase[s] \notin NotBegun => phase'[s] \notin NotBegun,
           \A f \in File :
              \/ disk'[f].save = 0
              \/ \E g \in File : disk'[f].save = disk[g].save
              \/ phase'[disk'[f].save] \notin NotBegun
    PROVE  DiskBegun'
<1> SUFFICES ASSUME NEW f \in File, disk'[f].save # 0
             PROVE  phase'[disk'[f].save] \notin NotBegun
  BY DEF DiskBegun, NotBegun
<1>1. ASSUME NEW g \in File, disk'[f].save = disk[g].save
      PROVE  phase'[disk'[f].save] \notin NotBegun
  <2>1. disk[g].save \in Save
    BY <1>1, MaxSavesAssumption DEF TypeOK, Save
  <2> QED
    BY <1>1, <2>1 DEF DiskBegun, NotBegun
<1> QED
  BY <1>1

\* Every step preserves DiskBegun.
LEMMA NextDisk ==
    TypeOK /\ Numbered /\ CallersInSaves /\ DiskBegun /\ [Next]_vars => DiskBegun'
<1> SUFFICES ASSUME TypeOK, Numbered, CallersInSaves, DiskBegun, [Next]_vars
             PROVE  DiskBegun'
  OBVIOUS
<1>t. TypeOK'
  BY NextType
<1> USE DEF NotBegun
<1>1. ASSUME UNCHANGED disk,
             \A s \in Save : phase[s] \notin NotBegun => phase'[s] \notin NotBegun
      PROVE  DiskBegun'
  BY <1>1, <1>t, DiskStep
<1>2. ASSUME NEW s \in Save, NEW ph \in Phases \ NotBegun,
             phase' = [phase EXCEPT ![s] = ph],
             \A f \in File : disk'[f].save \in {s, disk[f].save}
      PROVE  DiskBegun'
  <2>1. \A t \in Save : phase'[t] = IF t = s THEN ph ELSE phase[t]
    BY <1>2 DEF TypeOK
  <2> QED
    BY <1>2, <1>t, <2>1, DiskStep
<1>3. ASSUME NEW c \in Caller, NEW p \in Path, NEW ph, NewSave(c, p, ph)
      PROVE  DiskBegun'
  <2>1. \A s \in Save : phase[s] \notin NotBegun => s # last + 1
    BY <1>3 DEF Numbered, NewSave, TypeOK, Save
  <2> QED
    BY <1>1, <1>3, <2>1 DEF NewSave, TypeOK
<1>4. ASSUME NEW c \in Caller, PackBuffer(c) PROVE DiskBegun'
  BY <1>1, <1>4 DEF PackBuffer
<1>5. ASSUME NEW c \in Caller, NEW p \in Path, NEW q \in Path, CopyFile(c, p, q)
      PROVE  DiskBegun'
  <2>1. FileOf(p) \in File /\ FileOf(q) \in File
    BY KeysAndFiles
  <2>2. PICK b \in BOOLEAN : disk' \in {disk, Copied(disk, NoFile, p, q, b)}
    BY <1>5 DEF CopyFile
  <2>3. \A f \in File : disk'[f] = NoFile \/ \E g \in File : disk'[f] = disk[g]
    BY <2>1, <2>2 DEF Copied, TypeOK
  <2>4. \A f \in File :
          disk'[f].save = 0 \/ \E g \in File : disk'[f].save = disk[g].save
    BY <2>3 DEF NoFile
  <2> QED
    BY <1>5, <1>t, <2>4, DiskStep DEF CopyFile
<1>6. ASSUME NEW c \in Caller, SpawnWorker(c) \/ SpawnPanics(c) PROVE DiskBegun'
  BY <1>1, <1>6 DEF SpawnWorker, SpawnPanics, TypeOK
<1>7. ASSUME NEW c \in Caller, OpenDirect(c) PROVE DiskBegun'
  <2>1. cur[c] \in Save
    BY <1>7 DEF OpenDirect, CallersInSaves
  <2>2. PICK ph \in Phases \ NotBegun : phase' = [phase EXCEPT ![cur[c]] = ph]
    <3>1. CASE phase[cur[c]] = "direct"
      BY <1>7, <3>1 DEF OpenDirect, Phases
    <3>2. CASE phase[cur[c]] # "direct"
      BY <1>7, <3>2 DEF OpenDirect, Phases
    <3> QED
      BY <3>1, <3>2
  <2>3. \A f \in File : disk'[f].save \in {cur[c], disk[f].save}
    <3>1. \A f \in File : disk'[f] = IF f = FileOf(pathOf[cur[c]])
                             THEN [save |-> cur[c], form |-> "torn"] ELSE disk[f]
      BY <1>7 DEF OpenDirect, TypeOK
    <3> QED
      BY <3>1
  <2> QED
    BY <1>2, <2>1, <2>2, <2>3
<1>8. ASSUME NEW c \in Caller, CloseDirect(c) PROVE DiskBegun'
  <2> DEFINE f == FileOf(pathOf[cur[c]])
  <2>1. cur[c] \in Save /\ f \in File
    BY <1>8, KeysAndFiles DEF CloseDirect, CallersInSaves, TypeOK
  <2>2. PICK ph \in Phases \ NotBegun : phase' = [phase EXCEPT ![cur[c]] = ph]
    <3>1. CASE phase[cur[c]] = "directwrite"
      BY <1>8, <3>1 DEF CloseDirect, Phases
    <3>2. CASE phase[cur[c]] # "directwrite"
      BY <1>8, <3>2 DEF CloseDirect, Phases
    <3> QED
      BY <3>1, <3>2
  <2>3. \A g \in File :
          disk'[g] = IF g = f THEN Closed(f, cur[c], buf[c]) ELSE disk[g]
    BY <1>8 DEF CloseDirect, TypeOK
  <2>4. \A g \in File : disk'[g].save \in {cur[c], disk[g].save}
    BY <2>1, <2>3, ClosedSave
  <2> QED
    BY <1>2, <2>1, <2>2, <2>4
<1>9. ASSUME NEW s \in Save, OpenWrite(s) PROVE DiskBegun'
  <2>1. phase' = [phase EXCEPT ![s] = "write"] /\ "write" \in Phases \ NotBegun
    BY <1>9 DEF OpenWrite, Phases
  <2>2. \A f \in File : disk'[f].save \in {s, disk[f].save}
    BY <1>9 DEF OpenWrite, TypeOK
  <2> QED
    BY <1>2, <2>1, <2>2
<1>10. ASSUME NEW s \in Save, CloseWrite(s) PROVE DiskBegun'
  <2> DEFINE f == FileOf(pathOf[s])
  <2>1. f \in File
    BY KeysAndFiles DEF TypeOK
  <2>2. phase' = [phase EXCEPT ![s] = "remove"] /\ "remove" \in Phases \ NotBegun
    BY <1>10 DEF CloseWrite, Phases
  <2>3. \A g \in File : disk'[g] = IF g = f THEN Closed(f, s, "packed") ELSE disk[g]
    BY <1>10 DEF CloseWrite, TypeOK
  <2>4. \A g \in File : disk'[g].save \in {s, disk[g].save}
    BY <2>1, <2>3, ClosedSave
  <2> QED
    BY <1>2, <2>2, <2>4
<1>11. ASSUME NEW s \in Save, JobFails(s) \/ RemoveTask(s) \/ NotifyDone(s)
       PROVE  DiskBegun'
  BY <1>1, <1>11 DEF JobFails, RemoveTask, NotifyDone, TypeOK
<1>12. CASE ProcessExit
  BY <1>1, <1>12 DEF ProcessExit
<1>13. CASE UNCHANGED vars
  BY <1>1, <1>13 DEF vars
<1> QED
  BY <1>3, <1>4, <1>5, <1>6, <1>7, <1>8, <1>9, <1>10, <1>11, <1>12, <1>13
     DEF Next, EngineCall, CallerStep, WorkerStep, QueueSave, DirectSave


------------------------------------------------------------------------------

\* Nothing is saved at first.
LEMMA InitQueue == Init => QueueInv
<1> SUFFICES ASSUME Init PROVE QueueInv
  OBVIOUS
<1>1. \A s \in Save : phase[s] = "unused" /\ s > last
  BY MaxSavesAssumption DEF Init, Save
<1>2. DiskBegun /\ EntryActive /\ CallersInSaves
  BY DEF Init, DiskBegun, NoFile, EntryActive, CallersInSaves
<1>3. Numbered /\ EntryNewest /\ PrevNewest /\ QueueOrder /\ LostIsOver
  BY <1>1 DEF Numbered, EntryNewest, PrevNewest, QueueOrder, LostIsOver,
              Active, PastWait
<1> QED
  BY <1>2, <1>3 DEF QueueInv

\* No step disturbs the queue.
LEMMA NextQueue == TypeOK /\ QueueInv /\ [Next]_vars => QueueInv'
BY NextTable, NextCallers, NextDisk DEF QueueInv, TableInv

\* The inductive invariant holds.
THEOREM QueueInvHolds == Spec => [](TypeOK /\ QueueInv)
<1>1. Init => TypeOK /\ QueueInv
  BY InitType, InitQueue
<1>2. (TypeOK /\ QueueInv) /\ [Next]_vars => (TypeOK /\ QueueInv)'
  BY NextType, NextQueue
<1> QED
  BY <1>1, <1>2, PTL DEF Spec

\* Queued saves of one file pass one after the other, in queue order, for any
\* number of callers, files and saves, with any failures, exits and direct
\* saves: what the table, the wait and the ptr_eq test are for.
THEOREM QueueOrderHolds == Spec => []QueueOrder
BY QueueInvHolds, PTL DEF QueueInv

\* A worker never opens a file over the data of a later queued save of it.
THEOREM NeverOlderHolds == Spec => NeverOlder
<1> DEFINE Overwrites(s) ==
      LET f == FileOf(pathOf[s])
          t == disk[f].save
      IN  phase[s] = "pack" /\ phase'[s] = "write" /\ t > s
            => \/ phase[t] \in {"directwrite", "directdone"}
               \/ FileOf(pathOf[t]) # f
<1>1. TypeOK /\ QueueInv => \A s \in Save : Overwrites(s)
  <2> SUFFICES ASSUME TypeOK, QueueInv, NEW s \in Save,
                      phase[s] = "pack", disk[FileOf(pathOf[s])].save > s,
                      FileOf(pathOf[disk[FileOf(pathOf[s])].save])
                        = FileOf(pathOf[s])
               PROVE  phase[disk[FileOf(pathOf[s])].save]
                        \in {"directwrite", "directdone"}
    OBVIOUS
  <2> DEFINE f == FileOf(pathOf[s])
             t == disk[f].save
  <2>1. f \in File
    BY KeysAndFiles DEF TypeOK
  <2>2. t \in Save /\ t # 0 /\ s < t
    BY <2>1, MaxSavesAssumption DEF TypeOK, Save
  <2>3. phase[t] \in Phases \ {"unused", "wait", "pack", "orphan", "direct"}
    BY <2>1, <2>2 DEF TypeOK, QueueInv, DiskBegun
  <2>4. SameKey(s, t)
    BY <2>2, KeysAndFiles DEF SameKey, TypeOK
  <2>5. phase[s] \in Active
    BY DEF Active
  <2>6. phase[t] # "lost" /\ phase[t] \notin PastWait
    BY <2>2, <2>4, <2>5 DEF QueueInv, QueueOrder, LostIsOver
  <2> QED
    BY <2>3, <2>6 DEF Phases, PastWait, Active
<1>2. TypeOK /\ QueueInv /\ [Next]_vars => [\A s \in Save : Overwrites(s)]_vars
  BY <1>1
<1> QED
  BY <1>2, QueueInvHolds, PTL DEF Spec, NeverOlder


------------------------------------------------------------------------------

\* A queued save until it is done; one whose thread could not be started stays
\* on its way for ever.
OnItsWay == Active \union {"notify", "done"}

\* Who waits is a caller, and the save it waits for is still on its way: the
\* table gives no save that was lost, or that was never queued.
WaitInv ==
    \A s \in Save : phase[s] = "wait" =>
        /\ \E c \in Caller : at[c] = "saving" /\ cur[c] = s
        /\ prev[s] # 0 => phase[prev[s]] \in OnItsWay

\* A step of one save, on its caller's thread or its worker's, leaves the
\* others waiting for what they waited for.
LEMMA StepKeepsWait ==
    ASSUME TypeOK, WaitInv, NEW s \in Save, NEW ph,
           phase' = [phase EXCEPT ![s] = ph], ph # "wait",
           phase[s] \in OnItsWay => ph \in OnItsWay,
           UNCHANGED prev,
           \A c \in Caller : cur[c] # s => at'[c] = at[c] /\ cur'[c] = cur[c]
    PROVE  WaitInv'
<1>1. \A t \in Save : phase'[t] = IF t = s THEN ph ELSE phase[t]
  BY DEF TypeOK
<1> SUFFICES ASSUME NEW t \in Save, phase'[t] = "wait"
             PROVE  /\ \E c \in Caller : at'[c] = "saving" /\ cur'[c] = t
                    /\ prev[t] # 0 => phase'[prev[t]] \in OnItsWay
  BY DEF WaitInv
<1>2. t # s /\ phase[t] = "wait"
  BY <1>1
<1>3. \E c \in Caller : at'[c] = "saving" /\ cur'[c] = t
  BY <1>2 DEF WaitInv
<1>4. prev[t] # 0 => prev[t] \in Save /\ phase[prev[t]] \in OnItsWay
  BY <1>2, MaxSavesAssumption DEF WaitInv, TypeOK, Save
<1> QED
  BY <1>1, <1>3, <1>4

\* A new save waits for what the table has, which is on its way.
LEMMA NewSaveKeepsWait ==
    ASSUME TypeOK, QueueInv, WaitInv, NEW c \in Caller, NEW p \in Path,
           QueueSave(c, p) \/ DirectSave(c, p)
    PROVE  WaitInv'
<1> DEFINE N == last + 1
           entry == tasks[PathKey(p)]
<1>1. N \in Save /\ last \in Nat /\ at[c] = "packed"
  BY MaxSavesAssumption DEF QueueSave, DirectSave, NewSave, TypeOK, Save
<1>2. phase[N] = "unused"
  BY <1>1 DEF QueueInv, Numbered
<1>3. /\ \A t \in Save : t # N => phase'[t] = phase[t] /\ prev'[t] = prev[t]
      /\ phase'[N] = "wait" => prev'[N] = entry
  BY <1>1 DEF QueueSave, DirectSave, NewSave, TypeOK
<1>4. /\ at'[c] = "saving" /\ cur'[c] = N
      /\ \A d \in Caller : d # c => at'[d] = at[d] /\ cur'[d] = cur[d]
  BY DEF QueueSave, DirectSave, NewSave, TypeOK
<1>5. entry # 0 => entry \in Save /\ phase[entry] \in Active
  BY KeysAndFiles, MaxSavesAssumption DEF QueueInv, EntryActive, TypeOK, Save
<1> HIDE DEF N, entry
<1> SUFFICES ASSUME NEW t \in Save, phase'[t] = "wait"
             PROVE  /\ \E d \in Caller : at'[d] = "saving" /\ cur'[d] = t
                    /\ prev'[t] # 0 => phase'[prev'[t]] \in OnItsWay
  BY DEF WaitInv
<1>6. CASE t = N
  <2>1. entry # 0 => entry # N
    BY <1>2, <1>5 DEF Active
  <2> QED
    BY <1>1, <1>3, <1>4, <1>5, <1>6, <2>1 DEF OnItsWay
<1>7. CASE t # N
  <2>1. phase[t] = "wait" /\ prev'[t] = prev[t]
    BY <1>3, <1>7
  <2>2. PICK d \in Caller : at[d] = "saving" /\ cur[d] = t
    BY <2>1 DEF WaitInv
  <2>3. d # c
    BY <1>1, <2>2
  <2>4. prev[t] # 0 => prev[t] \in Save /\ phase[prev[t]] \in OnItsWay
    BY <2>1, MaxSavesAssumption DEF WaitInv, TypeOK, Save
  <2>5. prev[t] # 0 => prev[t] # N
    BY <1>2, <2>4 DEF OnItsWay, Active
  <2> QED
    BY <1>3, <1>4, <2>1, <2>2, <2>3, <2>4, <2>5
<1> QED
  BY <1>6, <1>7

\* No step leaves a caller waiting for a save that is not on its way.
LEMMA NextWait == TypeOK /\ QueueInv /\ WaitInv /\ [Next]_vars => WaitInv'
<1> SUFFICES ASSUME TypeOK, QueueInv, WaitInv, [Next]_vars PROVE WaitInv'
  OBVIOUS
<1> USE DEF OnItsWay, Active
<1>1. ASSUME NEW c \in Caller, PackBuffer(c) PROVE WaitInv'
  BY <1>1 DEF PackBuffer, WaitInv, TypeOK
<1>2. ASSUME NEW c \in Caller, NEW p \in Path, QueueSave(c, p) \/ DirectSave(c, p)
      PROVE  WaitInv'
  BY <1>2, NewSaveKeepsWait
<1>3. ASSUME NEW c \in Caller, NEW p \in Path, NEW q \in Path, CopyFile(c, p, q)
      PROVE  WaitInv'
  BY <1>3 DEF CopyFile, WaitInv
<1>4. ASSUME NEW c \in Caller, CallerStep(c) PROVE WaitInv'
  <2>1. at[c] = "saving"
    BY <1>4 DEF CallerStep, SpawnWorker, SpawnPanics, OpenDirect, CloseDirect
  <2>2. cur[c] \in Save
    BY <2>1 DEF QueueInv, CallersInSaves
  <2>3. \A d \in Caller : d # c => at'[d] = at[d] /\ cur'[d] = cur[d]
    BY <1>4 DEF CallerStep, SpawnWorker, SpawnPanics, OpenDirect, CloseDirect, Return, TypeOK
  <2>4. PICK ph : /\ phase' = [phase EXCEPT ![cur[c]] = ph] /\ ph # "wait"
                  /\ phase[cur[c]] \in OnItsWay => ph \in OnItsWay
    BY <1>4 DEF CallerStep, SpawnWorker, SpawnPanics, OpenDirect, CloseDirect
  <2>5. UNCHANGED prev
    BY <1>4 DEF CallerStep, SpawnWorker, SpawnPanics, OpenDirect, CloseDirect
  <2> QED
    BY <2>2, <2>3, <2>4, <2>5, StepKeepsWait
<1>5. ASSUME NEW s \in Save, WorkerStep(s) PROVE WaitInv'
  <2>1. PICK ph \in {"write", "remove", "notify", "done"} :
          phase' = [phase EXCEPT ![s] = ph]
    BY <1>5 DEF WorkerStep, OpenWrite, CloseWrite, JobFails, RemoveTask, NotifyDone
  <2>2. UNCHANGED <<prev, at, cur>>
    BY <1>5 DEF WorkerStep, OpenWrite, CloseWrite, JobFails, RemoveTask, NotifyDone
  <2> QED
    BY <2>1, <2>2, StepKeepsWait
<1>6. CASE ProcessExit
  <2>1. \A s \in Save : phase'[s] # "wait"
    BY <1>6 DEF ProcessExit
  <2> QED
    BY <2>1 DEF WaitInv
<1>7. CASE UNCHANGED vars
  BY <1>7 DEF vars, WaitInv
<1> QED
  BY <1>1, <1>2, <1>3, <1>4, <1>5, <1>6, <1>7 DEF Next, EngineCall

\* A caller waits for a save that is on its way, whatever fails.
THEOREM WaitInvHolds == Spec => []WaitInv
<1>1. Init => WaitInv
  BY DEF Init, WaitInv
<1> QED
  BY <1>1, NextWait, QueueInvHolds, PTL DEF Spec

\* Of some saves there is an oldest one.
LEMMA Oldest ==
    ASSUME NEW S \in SUBSET Save, S # {}
    PROVE  \E s \in S : \A t \in S : s <= t
<1> DEFINE Older(s) == {t \in S : t < s}
           T == {Older(s) : s \in S}
           R == StrictSubsetOrdering(S)
<1>1. IsFiniteSet(S) /\ \A s \in S : s \in Nat
  <2>1. IsFiniteSet(Save) /\ \A s \in Save : s \in Nat
    BY FS_Interval, MaxSavesAssumption DEF Save
  <2> QED
    BY <2>1, FS_Subset
<1>2. IsWellFoundedOn(R, SUBSET S)
  BY <1>1, FS_StrictSubsetOrderingWellFounded, FS_FiniteSubsetsOfFinite
<1>3. T \subseteq SUBSET S /\ T # {}
  OBVIOUS
<1>4. \E a \in T : \A b \in T : ~(<<b, a>> \in R)
  <2> HIDE DEF R, T
  <2> QED
    BY <1>2, <1>3, WFMin, Zenon
<1>5. PICK s \in S : \A t \in S : ~(<<Older(t), Older(s)>> \in R)
  BY <1>4
<1>6. ASSUME NEW t \in S, t < s PROVE FALSE
  <2>1. Older(t) \subseteq Older(s)
    BY <1>1, <1>6
  <2>2. t \in Older(s) /\ t \notin Older(t)
    BY <1>1, <1>6
  <2>3. <<Older(t), Older(s)>> \in R
    BY <2>1, <2>2 DEF StrictSubsetOrdering
  <2> QED
    BY <1>5, <2>3
<1> QED
  BY <1>1, <1>6

\* A thread of save t can go on: its worker, or its caller.
CanGoOn(t) ==
    \/ phase[t] \in {"pack", "write", "remove", "notify", "orphan", "orphanwrite"}
    \/ /\ phase[t] = "wait" /\ PreviousDone(t)
       /\ \E c \in Caller : at[c] = "saving" /\ cur[c] = t

\* No circle of saves waiting for one another: the waiting saves of a file end
\* in front of one that can go on, or in one whose thread could not be started.
NoCircularWait ==
    \A s \in Save : phase[s] = "wait" =>
        \E t \in Save : t <= s /\ SameKey(t, s) /\ (CanGoOn(t) \/ phase[t] = "orphaned")

\* The waits of queue_async_save come to an end in a thread that runs, for any
\* number of callers, files and saves, with any failures and exits.
THEOREM NoCircularWaitHolds == Spec => []NoCircularWait
<1>1. TypeOK /\ QueueInv /\ WaitInv => NoCircularWait
  <2> SUFFICES ASSUME TypeOK, QueueInv, WaitInv, NEW s \in Save, phase[s] = "wait"
               PROVE  \E t \in Save : /\ t <= s /\ SameKey(t, s)
                                      /\ CanGoOn(t) \/ phase[t] = "orphaned"
    BY DEF NoCircularWait
  <2> DEFINE S == {t \in Save : phase[t] = "wait" /\ SameKey(t, s)}
  <2>1. s \in S
    BY DEF SameKey
  <2>2. PICK t \in S : \A u \in S : t <= u
    BY <2>1, Oldest
  <2>3. t \in Save /\ phase[t] = "wait" /\ SameKey(t, s) /\ t <= s
    BY <2>1, <2>2
  <2>4. CASE PreviousDone(t)
    BY <2>3, <2>4 DEF CanGoOn, WaitInv
  <2>5. CASE ~PreviousDone(t)
    <3> DEFINE u == prev[t]
    <3>1. u \in Save /\ u < t /\ SameKey(u, t) /\ phase[u] \in OnItsWay /\ phase[u] # "done"
      BY <2>3, <2>5, MaxSavesAssumption
         DEF PreviousDone, Completed, WaitInv, QueueInv, PrevNewest, TypeOK, Save
    <3>2. SameKey(u, s) /\ u <= s
      BY <2>3, <3>1 DEF SameKey, Save
    <3>3. ~(t <= u)
      BY <2>3, <3>1 DEF Save
    <3>4. phase[u] # "wait"
      BY <2>2, <3>1, <3>2, <3>3
    <3> QED
      BY <3>1, <3>2, <3>4 DEF CanGoOn, OnItsWay, Active
  <2> QED
    BY <2>4, <2>5
<1> QED
  BY <1>1, WaitInvHolds, QueueInvHolds, PTL

------------------------------------------------------------------------------

\* Where a placeholder is: in the buffer of a caller that is not in the save
\* hook, or whose save is queued.  Only a spawn that fails or a file without a
\* layout hands a placeholder to the engine's save function.
PlaceholderInv ==
    /\ \A s \in Save : phase[s] \notin {"orphan", "orphanwrite", "orphaned"}
    /\ \A c \in Caller : at[c] = "saving" /\ buf[c] = "placeholder"
          => /\ cur[c] \in 1..last
             /\ phase[cur[c]] \notin {"direct", "directwrite"}
    /\ NoPlaceholderOnDisk

\* The initial state has no placeholder.
LEMMA InitPlaceholder == Init => PlaceholderInv
BY DEF Init, PlaceholderInv, NoPlaceholderOnDisk, NoFile

\* A step that starts no save, gives no caller a placeholder and writes none
\* to a file keeps the placeholders where they are.
LEMMA KeepsPlaceholder ==
    ASSUME TypeOK, PlaceholderInv,
           UNCHANGED last,
           \A s \in Save : \/ phase'[s] = phase[s]
                           \/ phase'[s] \notin {"direct", "orphan", "orphanwrite",
                                                "orphaned", "directwrite"}
                           \/ phase[s] = "direct" /\ phase'[s] = "directwrite",
           \A c \in Caller : at'[c] = "saving" /\ buf'[c] = "placeholder"
                => at[c] = "saving" /\ buf[c] = "placeholder" /\ cur'[c] = cur[c],
           \A f \in File : \/ disk'[f].form # "placeholder"
                           \/ \E g \in File : disk'[f] = disk[g]
    PROVE  PlaceholderInv'
<1>1. \A c \in Caller : cur[c] \in 1..last => cur[c] \in Save
  BY MaxSavesAssumption DEF TypeOK, Save
<1>2. NoPlaceholderOnDisk'
  BY DEF PlaceholderInv, NoPlaceholderOnDisk
<1>3. \A s \in Save : phase'[s] \notin {"orphan", "orphanwrite", "orphaned"}
  BY DEF PlaceholderInv
<1>4. ASSUME NEW c \in Caller, at'[c] = "saving", buf'[c] = "placeholder"
      PROVE  cur'[c] \in 1..last' /\ phase'[cur'[c]] \notin {"direct", "directwrite"}
  BY <1>1, <1>4 DEF PlaceholderInv
<1> QED
  BY <1>2, <1>3, <1>4 DEF PlaceholderInv

\* No step brings a placeholder to a file.
LEMMA NextPlaceholder ==
    ASSUME SpawnCanFail = FALSE, \A p \in Path : HasLayout(p),
           TypeOK, PlaceholderInv, [Next]_vars
    PROVE  PlaceholderInv'
<1>0. last \in Nat /\ \A c \in Caller : cur[c] \in Nat
  BY MaxSavesAssumption DEF TypeOK
<1>1. ASSUME NEW c \in Caller, PackBuffer(c) PROVE PlaceholderInv'
  BY <1>1, KeepsPlaceholder DEF PackBuffer, TypeOK
<1>2. ASSUME NEW c \in Caller, NEW p \in Path, QueueSave(c, p) \/ DirectSave(c, p)
      PROVE  PlaceholderInv'
  <2> DEFINE N == last + 1
  <2>1. N \in Save /\ N \in 1..N
    BY <1>0, <1>2, MaxSavesAssumption DEF QueueSave, DirectSave, NewSave, Save
  <2>2. PICK ph \in {"wait", "direct"} :
          /\ NewSave(c, p, ph)
          /\ ph = "direct" => buf[c] # "placeholder"
    BY <1>2 DEF QueueSave, DirectSave, IsPlaceholderSave
  <2>3. /\ \A s \in Save : phase'[s] = IF s = N THEN ph ELSE phase[s]
        /\ \A d \in Caller : cur'[d] = IF d = c THEN N ELSE cur[d]
        /\ \A d \in Caller : at'[d] = IF d = c THEN "saving" ELSE at[d]
        /\ last' = N
        /\ UNCHANGED <<buf, disk>>
    BY <2>1, <2>2 DEF NewSave, TypeOK
  <2>4. ASSUME NEW d \in Caller, at'[d] = "saving", buf'[d] = "placeholder"
        PROVE  cur'[d] \in 1..N /\ phase'[cur'[d]] \notin {"direct", "directwrite"}
    <3>1. CASE d = c
      BY <3>1, <2>1, <2>2, <2>3, <2>4
    <3>2. CASE d # c
      <4>1. cur[d] \in 1..last /\ phase[cur[d]] \notin {"direct", "directwrite"}
        BY <3>2, <2>3, <2>4 DEF PlaceholderInv
      <4>2. cur[d] \in Save /\ cur[d] # N /\ cur[d] \in 1..N
        BY <4>1, <1>0, MaxSavesAssumption DEF Save, TypeOK
      <4> QED
        BY <3>2, <4>1, <4>2, <2>3
    <3> QED
      BY <3>1, <3>2
  <2>5. \A s \in Save : phase'[s] \notin {"orphan", "orphanwrite", "orphaned"}
    BY <2>3 DEF PlaceholderInv
  <2> QED
    BY <2>3, <2>4, <2>5 DEF PlaceholderInv, NoPlaceholderOnDisk
<1>3. ASSUME NEW c \in Caller, NEW p \in Path, NEW q \in Path, CopyFile(c, p, q)
      PROVE  PlaceholderInv'
  <2>1. FileOf(p) \in File /\ FileOf(q) \in File
    BY KeysAndFiles
  <2>2. PICK b \in BOOLEAN : disk' \in {disk, Copied(disk, NoFile, p, q, b)}
    BY <1>3 DEF CopyFile
  <2>3. \A f \in File : disk'[f] = NoFile \/ \E g \in File : disk'[f] = disk[g]
    BY <2>1, <2>2 DEF Copied, TypeOK
  <2>4. NoFile.form # "placeholder"
    BY DEF NoFile
  <2> QED
    BY <1>3, <2>3, <2>4, KeepsPlaceholder DEF CopyFile
<1>4. ASSUME NEW c \in Caller, SpawnWorker(c) PROVE PlaceholderInv'
  <2>1. \A s \in Save : phase'[s] = phase[s] \/ phase'[s] = "pack"
    BY <1>4 DEF SpawnWorker, TypeOK
  <2>2. \A d \in Caller : at'[d] = "saving" /\ buf'[d] = "placeholder"
           => at[d] = "saving" /\ buf[d] = "placeholder" /\ cur'[d] = cur[d]
    BY <1>4 DEF SpawnWorker, Return, TypeOK
  <2> QED
    BY <1>4, <2>1, <2>2, KeepsPlaceholder DEF SpawnWorker
<1>5. ASSUME NEW c \in Caller, OpenDirect(c) PROVE PlaceholderInv'
  <2>1. \A s \in Save : \/ phase'[s] = phase[s]
                        \/ phase[s] = "direct" /\ phase'[s] = "directwrite"
    BY <1>5 DEF OpenDirect, TypeOK, PlaceholderInv
  <2>2. \A f \in File : disk'[f] = disk[f] \/ disk'[f].form = "torn"
    <3>1. \A f \in File : disk'[f] = IF f = FileOf(pathOf[cur[c]])
                             THEN [save |-> cur[c], form |-> "torn"] ELSE disk[f]
      BY <1>5 DEF OpenDirect, TypeOK
    <3> QED
      BY <3>1
  <2> QED
    BY <1>5, <2>1, <2>2, KeepsPlaceholder DEF OpenDirect
<1>6. ASSUME NEW c \in Caller, CloseDirect(c) PROVE PlaceholderInv'
  <2> DEFINE f == FileOf(pathOf[cur[c]])
  <2>1. buf[c] = "packed"
    <3> SUFFICES ASSUME buf[c] # "packed" PROVE FALSE
      OBVIOUS
    <3>1. buf[c] = "placeholder" /\ at[c] = "saving"
      BY <1>6 DEF CloseDirect, TypeOK
    <3>2. cur[c] \in Save /\ phase[cur[c]] \notin {"direct", "directwrite"}
      BY <3>1, MaxSavesAssumption DEF PlaceholderInv, TypeOK, Save
    <3> QED
      BY <1>6, <3>2 DEF CloseDirect, PlaceholderInv
  <2>2. \A s \in Save : phase'[s] \in {phase[s], "directdone"}
    BY <1>6 DEF CloseDirect, TypeOK, PlaceholderInv
  <2>3. \A g \in File : disk'[g].form # "placeholder" \/ disk'[g] = disk[g]
    <3>1. \A g \in File : disk'[g] = IF g = f THEN Closed(f, cur[c], "packed")
                                              ELSE disk[g]
      BY <1>6, <2>1 DEF CloseDirect, TypeOK
    <3>2. f \in File => Closed(f, cur[c], "packed").form # "placeholder"
      BY ClosedForm
    <3> QED
      BY <3>1, <3>2
  <2>4. \A d \in Caller : at'[d] = "saving" /\ buf'[d] = "placeholder"
           => at[d] = "saving" /\ buf[d] = "placeholder" /\ cur'[d] = cur[d]
    BY <1>6 DEF CloseDirect, Return, TypeOK
  <2> QED
    BY <1>6, <2>2, <2>3, <2>4, KeepsPlaceholder DEF CloseDirect
<1>7. ASSUME NEW s \in Save, OpenWrite(s) PROVE PlaceholderInv'
  <2>1. \A t \in Save : phase'[t] \in {phase[t], "write"}
    BY <1>7 DEF OpenWrite, TypeOK
  <2>2. \A f \in File : disk'[f] = disk[f] \/ disk'[f].form = "torn"
    <3>1. \A f \in File : disk'[f] = IF f = FileOf(pathOf[s])
                             THEN [save |-> s, form |-> "torn"] ELSE disk[f]
      BY <1>7 DEF OpenWrite, TypeOK
    <3> QED
      BY <3>1
  <2> QED
    BY <1>7, <2>1, <2>2, KeepsPlaceholder DEF OpenWrite
<1>8. ASSUME NEW s \in Save, CloseWrite(s) PROVE PlaceholderInv'
  <2> DEFINE f == FileOf(pathOf[s])
  <2>1. \A t \in Save : phase'[t] \in {phase[t], "remove"}
    BY <1>8 DEF CloseWrite, TypeOK
  <2>2. \A g \in File : disk'[g].form # "placeholder" \/ disk'[g] = disk[g]
    <3>1. \A g \in File : disk'[g] = IF g = f THEN Closed(f, s, "packed")
                                              ELSE disk[g]
      BY <1>8 DEF CloseWrite, TypeOK
    <3>2. f \in File => Closed(f, s, "packed").form # "placeholder"
      BY ClosedForm
    <3> QED
      BY <3>1, <3>2
  <2> QED
    BY <1>8, <2>1, <2>2, KeepsPlaceholder DEF CloseWrite
<1>9. ASSUME NEW s \in Save, JobFails(s) \/ RemoveTask(s) \/ NotifyDone(s)
      PROVE  PlaceholderInv'
  <2>1. \A t \in Save : phase'[t] \in {phase[t], "remove", "notify", "done"}
    BY <1>9 DEF JobFails, RemoveTask, NotifyDone, TypeOK
  <2> QED
    BY <1>9, <2>1, KeepsPlaceholder DEF JobFails, RemoveTask, NotifyDone
<1>10. CASE ProcessExit
  <2>1. \A s \in Save : phase'[s] \in {phase[s], "lost"}
    BY <1>10 DEF ProcessExit
  <2>2. \A c \in Caller : buf'[c] = "packed"
    BY <1>10 DEF ProcessExit
  <2> QED
    BY <1>10, <2>1, <2>2, KeepsPlaceholder DEF ProcessExit
<1>11. CASE UNCHANGED vars
  BY <1>11, KeepsPlaceholder DEF vars
<1>12. ~\E c \in Caller : SpawnPanics(c)
  BY DEF SpawnPanics
<1> QED
  BY <1>1, <1>2, <1>3, <1>4, <1>5, <1>6, <1>7, <1>8, <1>9, <1>10, <1>11, <1>12
     DEF Next, EngineCall, CallerStep, WorkerStep

\* No file ever holds a placeholder where threads can be spawned and all the
\* files the engine saves have a layout.
THEOREM NoPlaceholderHolds ==
    ASSUME SpawnCanFail = FALSE, \A p \in Path : HasLayout(p)
    PROVE  Spec => []NoPlaceholderOnDisk
<1>1. Init => TypeOK /\ PlaceholderInv
  BY InitType, InitPlaceholder
<1>2. TypeOK /\ PlaceholderInv /\ [Next]_vars => TypeOK' /\ PlaceholderInv'
  BY NextType, NextPlaceholder
<1>3. PlaceholderInv => NoPlaceholderOnDisk
  BY DEF PlaceholderInv
<1> QED
  BY <1>1, <1>2, <1>3, PTL DEF Spec


------------------------------------------------------------------------------

\* The setting in which the asynchronous save is meant to be invisible: the
\* engine leaves a file with a save in flight alone, threads can be spawned,
\* and every file the engine saves has a layout.
QuietEngine ==
    /\ SpawnCanFail = FALSE /\ QuietDirect = TRUE /\ QuietCopy = TRUE
    /\ \A p \in Path : HasLayout(p)

FileOn(s) == FileOf(pathOf[s])

\* The saves that may open their file next, or have it open.
Serving == {"pack", "direct"} \union Writing

\* A direct save is the only save of its file in flight ...
DirectAlone ==
    \A s, t \in Save :
        /\ phase[s] \in {"direct", "directwrite"}
        /\ phase[t] \in InFlight
        /\ FileOn(s) = FileOn(t)
        => s = t

\* ... and a file that a save has open holds that save and nothing else.
OpenTorn ==
    \A s \in Save : phase[s] \in Writing
        => disk[FileOn(s)] = [save |-> s, form |-> "torn"]

\* What the theorems about a quiet engine rest on.
QuietInv ==
    /\ TypeOK /\ QueueInv /\ PlaceholderInv
    /\ DirectAlone /\ OpenTorn

\* A save that serves a file is the oldest in flight for it, and the only one
\* that serves it.
LEMMA OneServer ==
    ASSUME QuietInv, NEW s \in Save, phase[s] \in Serving,
           NEW t \in Save, phase[t] \in InFlight, FileOn(t) = FileOn(s)
    PROVE  s <= t /\ (phase[t] \in Serving => t = s)
<1> USE DEF QuietInv
<1>1. CASE phase[s] \in {"direct", "directwrite"} \/ phase[t] \in {"direct", "directwrite"}
  <2>1. phase[s] \in InFlight
    BY DEF Serving, InFlight
  <2>2. s = t
    BY <1>1, <2>1 DEF DirectAlone
  <2> QED
    BY <2>2 DEF Save
<1>2. CASE ~(phase[s] \in {"direct", "directwrite"} \/ phase[t] \in {"direct", "directwrite"})
  <2>1. phase[s] \in {"pack", "write"} /\ phase[t] \in {"wait", "pack", "write"}
    BY <1>2 DEF PlaceholderInv, Serving, InFlight, Writing
  <2>2. SameKey(s, t) /\ SameKey(t, s)
    BY KeysAndFiles DEF SameKey, FileOn, TypeOK
  <2>3. ~(t < s)
    BY <2>1, <2>2 DEF QueueInv, QueueOrder, Active, PastWait
  <2>4. phase[t] \in Serving => ~(s < t)
    BY <2>1, <2>2 DEF QueueInv, QueueOrder, Active, PastWait, Serving, Writing
  <2> QED
    BY <2>3, <2>4 DEF Save
<1> QED
  BY <1>1, <1>2

\* So what it closes is whole.
LEMMA ClosedWhole ==
    ASSUME QuietInv, NEW s \in Save, phase[s] \in Writing, NEW form
    PROVE  Closed(FileOn(s), s, form) = [save |-> s, form |-> form]
<1>1. disk[FileOn(s)].save = s
  <2>1. disk[FileOn(s)] = [save |-> s, form |-> "torn"]
    BY DEF QuietInv, OpenTorn
  <2> QED
    BY <2>1
<1>2. SavesOn(FileOn(s), Writing) = {s}
  BY OneServer DEF SavesOn, FileOn, Serving, InFlight
<1> QED
  BY <1>1, <1>2 DEF Closed

\* With a quiet engine no spawn fails, and what a save closes is packed.
LEMMA QuietForm ==
    ASSUME QuietEngine, QuietInv, NEW c \in Caller, CloseDirect(c)
    PROVE  /\ cur[c] \in Save /\ phase[cur[c]] = "directwrite"
           /\ buf[c] = "packed"
<1>1. at[c] = "saving" /\ phase[cur[c]] \in {"directwrite", "orphanwrite"}
  BY DEF CloseDirect
<1>2. cur[c] \in Save
  BY <1>1 DEF QuietInv, QueueInv, CallersInSaves
<1>3. phase[cur[c]] = "directwrite"
  BY <1>1, <1>2 DEF QuietInv, PlaceholderInv
<1>4. buf[c] # "placeholder"
  BY <1>1, <1>3 DEF QuietInv, PlaceholderInv
<1> QED
  BY <1>2, <1>3, <1>4 DEF QuietInv, TypeOK

\* A step by which no save comes into flight or turns direct, and which
\* leaves open files as they should be.
LEMMA KeepsQuiet ==
    ASSUME DirectAlone, UNCHANGED pathOf,
           \A s \in Save :
              /\ phase'[s] \in InFlight => phase[s] \in InFlight
              /\ phase'[s] \in {"direct", "directwrite"}
                    => phase[s] \in {"direct", "directwrite"}
              /\ phase'[s] \in Writing
                    => disk'[FileOn(s)] = [save |-> s, form |-> "torn"]
    PROVE  DirectAlone' /\ OpenTorn'
BY DEF DirectAlone, OpenTorn, FileOn

\* The phase a save has while it writes.
WritePhase(ph) == IF ph = "pack" THEN "write" ELSE "directwrite"

\* A save opens its file: nobody else has it open.
LEMMA OpenKeepsQuiet ==
    ASSUME QuietInv, NEW s \in Save, phase[s] \in {"pack", "direct"},
           phase' = [phase EXCEPT ![s] = WritePhase(phase[s])],
           disk' = [disk EXCEPT ![FileOn(s)] = [save |-> s, form |-> "torn"]],
           UNCHANGED pathOf
    PROVE  DirectAlone' /\ OpenTorn'
<1> USE DEF WritePhase
<1>1. \A t \in Save : phase'[t] = IF t = s THEN WritePhase(phase[s]) ELSE phase[t]
  BY DEF QuietInv, TypeOK
<1>2. \A t \in Save : FileOn(t) \in File
  BY KeysAndFiles DEF QuietInv, TypeOK, FileOn
<1>3. \A f \in File : disk'[f] = IF f = FileOn(s) THEN [save |-> s, form |-> "torn"]
                                                  ELSE disk[f]
  BY DEF QuietInv, TypeOK
<1>4. ASSUME NEW t \in Save, phase'[t] \in Writing
      PROVE  disk'[FileOn(t)] = [save |-> t, form |-> "torn"]
  <2>1. CASE t = s
    BY <2>1, <1>2, <1>3
  <2>2. CASE t # s
    <3>1. phase[t] \in Writing
      BY <2>2, <1>1, <1>4
    <3>2. FileOn(t) # FileOn(s)
      BY <2>2, <3>1, OneServer DEF Serving, InFlight
    <3> QED
      BY <3>1, <3>2, <1>2, <1>3 DEF QuietInv, OpenTorn
  <2> QED
    BY <2>1, <2>2
<1>5. ASSUME NEW t \in Save
      PROVE  /\ phase'[t] \in InFlight => phase[t] \in InFlight
             /\ phase'[t] \in {"direct", "directwrite"}
                   => phase[t] \in {"direct", "directwrite"}
  BY <1>1 DEF InFlight
<1> QED
  BY <1>4, <1>5, KeepsQuiet DEF QuietInv

\* A save closes its file, or gives up.
LEMMA CloseKeepsQuiet ==
    ASSUME QuietInv, NEW s \in Save, phase[s] \in Serving,
           NEW ph, ph \notin InFlight,
           phase' = [phase EXCEPT ![s] = ph],
           \A f \in File : f # FileOn(s) => disk'[f] = disk[f],
           UNCHANGED pathOf
    PROVE  DirectAlone' /\ OpenTorn'
<1>1. \A t \in Save : phase'[t] = IF t = s THEN ph ELSE phase[t]
  BY DEF QuietInv, TypeOK
<1>2. ASSUME NEW t \in Save, phase'[t] \in Writing
      PROVE  disk'[FileOn(t)] = [save |-> t, form |-> "torn"]
  <2>1. phase[t] \in Writing /\ t # s
    BY <1>1, <1>2 DEF InFlight
  <2>2. FileOn(t) # FileOn(s)
    BY <2>1, OneServer DEF Serving, InFlight
  <2>3. FileOn(t) \in File
    BY KeysAndFiles DEF QuietInv, TypeOK, FileOn
  <2> QED
    BY <2>1, <2>2, <2>3 DEF QuietInv, OpenTorn
<1>3. ASSUME NEW t \in Save
      PROVE  /\ phase'[t] \in InFlight => phase[t] \in InFlight
             /\ phase'[t] \in {"direct", "directwrite"}
                   => phase[t] \in {"direct", "directwrite"}
  BY <1>1 DEF InFlight, Writing
<1> QED
  BY <1>2, <1>3, KeepsQuiet DEF QuietInv

\* What a new save is: it gets the next number, and the engine keeps direct
\* saves apart from the others of their file.
LEMMA NewSaveIs ==
    ASSUME QuietEngine, QuietInv, NEW c \in Caller, NEW p \in Path,
           QueueSave(c, p) \/ DirectSave(c, p)
    PROVE  \E ph \in {"wait", "direct"} :
             /\ last + 1 \in Save /\ last' = last + 1 /\ phase[last + 1] = "unused"
             /\ \A s \in Save : phase[s] # "unused" => s < last + 1
             /\ FileOf(p) \in File
             /\ \A s \in Save : phase'[s] = IF s = last + 1 THEN ph ELSE phase[s]
             /\ \A s \in Save : FileOn(s)' = IF s = last + 1 THEN FileOf(p) ELSE FileOn(s)
             /\ \A s \in Save : s # last + 1 /\ FileOn(s) = FileOf(p)
                  => /\ phase[s] \notin {"direct", "directwrite"}
                     /\ ph = "direct" => phase[s] \notin InFlight
             /\ believed' = [believed EXCEPT ![FileOf(p)] = last + 1]
             /\ UNCHANGED disk
<1> USE DEF QuietInv
<1>1. PICK ph \in {"wait", "direct"} :
         /\ NewSave(c, p, ph)
         /\ SavesOn(FileOf(p), {"direct", "directwrite"}) = {}
         /\ ph = "direct" => SavesOn(FileOf(p), InFlight) = {}
  <2>1. SavesOn(FileOf(p), {"direct", "directwrite"}) \subseteq SavesOn(FileOf(p), InFlight)
    BY DEF SavesOn, InFlight, Writing
  <2> QED
    BY <2>1 DEF QuietEngine, QueueSave, DirectSave
<1>2. last \in Nat /\ last + 1 \in Save
  BY <1>1, MaxSavesAssumption DEF NewSave, TypeOK, Save
<1>3. \A s \in Save : s < last + 1 <=> phase[s] # "unused"
  BY <1>2 DEF QueueInv, Numbered, Save
<1>4. FileOf(p) \in File
  BY KeysAndFiles
<1>5. /\ \A s \in Save : phase'[s] = IF s = last + 1 THEN ph ELSE phase[s]
      /\ \A s \in Save : FileOn(s)' = IF s = last + 1 THEN FileOf(p) ELSE FileOn(s)
  BY <1>1, <1>2 DEF NewSave, TypeOK, FileOn
<1>6. \A s \in Save : FileOn(s) = FileOf(p)
         => /\ phase[s] \notin {"direct", "directwrite"}
            /\ ph = "direct" => phase[s] \notin InFlight
  BY <1>1 DEF SavesOn, FileOn
<1> QED
  BY <1>1, <1>2, <1>3, <1>4, <1>5, <1>6 DEF NewSave

\* A new save leaves the open files alone.
LEMMA NewSaveKeepsQuiet ==
    ASSUME QuietEngine, QuietInv, NEW c \in Caller, NEW p \in Path,
           QueueSave(c, p) \/ DirectSave(c, p)
    PROVE  DirectAlone' /\ OpenTorn'
<1> DEFINE N == last + 1
<1>1. PICK ph \in {"wait", "direct"} :
             /\ N \in Save /\ phase[N] = "unused"
             /\ \A s \in Save : phase'[s] = IF s = N THEN ph ELSE phase[s]
             /\ \A s \in Save : FileOn(s)' = IF s = N THEN FileOf(p) ELSE FileOn(s)
             /\ \A s \in Save : s # N /\ FileOn(s) = FileOf(p)
                  => /\ phase[s] \notin {"direct", "directwrite"}
                     /\ ph = "direct" => phase[s] \notin InFlight
             /\ UNCHANGED disk
  BY NewSaveIs
<1> HIDE DEF N
<1>2. DirectAlone'
  <2> SUFFICES ASSUME NEW s \in Save, NEW t \in Save,
                      phase'[s] \in {"direct", "directwrite"},
                      phase'[t] \in InFlight, FileOn(s)' = FileOn(t)'
               PROVE  s = t
    BY DEF DirectAlone
  <2>1. CASE s # N /\ t # N
    BY <2>1, <1>1 DEF QuietInv, DirectAlone
  <2>2. CASE s = N \/ t = N
    BY <2>2, <1>1
  <2> QED
    BY <2>1, <2>2
<1>3. OpenTorn'
  BY <1>1 DEF QuietInv, OpenTorn, Writing
<1> QED
  BY <1>2, <1>3

\* With a quiet engine nothing in flight is copied.
LEMMA CopyIs ==
    ASSUME QuietEngine, QuietInv, NEW c \in Caller, NEW p \in Path, NEW q \in Path,
           CopyFile(c, p, q)
    PROVE  /\ FileOf(p) \in File /\ FileOf(q) \in File /\ FileOf(p) # FileOf(q)
           /\ SavesOn(FileOf(p), InFlight) = {} /\ SavesOn(FileOf(q), InFlight) = {}
           /\ UNCHANGED <<last, pathOf, phase>>
           /\ \E b \in BOOLEAN : /\ disk' = Copied(disk, NoFile, p, q, b)
                                 /\ believed' = Copied(believed, 0, p, q, b)
<1>1. FileOf(p) \in File /\ FileOf(q) \in File
  BY KeysAndFiles
<1>2. OnEither(p, q, InFlight) = {}
  BY DEF CopyFile, QuietEngine
<1>3. OnEither(p, q, Writing) = {}
  BY <1>2 DEF OnEither, SavesOn, InFlight
<1> QED
  BY <1>1, <1>2, <1>3 DEF CopyFile, OnEither

\* Every step of a quiet engine keeps direct saves alone and open files torn.
LEMMA NextQuiet ==
    ASSUME QuietEngine, QuietInv, [Next]_vars
    PROVE  DirectAlone' /\ OpenTorn'
<1> USE DEF QuietInv
<1>1. ASSUME UNCHANGED <<pathOf, phase, disk>> PROVE DirectAlone' /\ OpenTorn'
  BY <1>1 DEF DirectAlone, OpenTorn, FileOn
<1>2. ASSUME NEW c \in Caller, NEW p \in Path, QueueSave(c, p) \/ DirectSave(c, p)
      PROVE  DirectAlone' /\ OpenTorn'
  BY <1>2, NewSaveKeepsQuiet
<1>3. ASSUME NEW c \in Caller, NEW p \in Path, NEW q \in Path, CopyFile(c, p, q)
      PROVE  DirectAlone' /\ OpenTorn'
  <2>1. PICK b \in BOOLEAN : disk' = Copied(disk, NoFile, p, q, b)
    BY <1>3, CopyIs
  <2>2. \A f \in File : f \notin {FileOf(p), FileOf(q)} => disk'[f] = disk[f]
    BY <2>1 DEF Copied, TypeOK
  <2>3. \A s \in Save : phase[s] \in Writing => FileOn(s) \notin {FileOf(p), FileOf(q)}
    BY <1>3, CopyIs DEF SavesOn, FileOn, InFlight
  <2>4. \A s \in Save : FileOn(s) \in File
    BY KeysAndFiles DEF TypeOK, FileOn
  <2>5. UNCHANGED <<pathOf, phase>>
    BY <1>3 DEF CopyFile
  <2> QED
    BY <2>2, <2>3, <2>4, <2>5, KeepsQuiet DEF OpenTorn
<1>4. ASSUME NEW c \in Caller, SpawnWorker(c) PROVE DirectAlone' /\ OpenTorn'
  <2>1. /\ \A s \in Save : phase'[s] = IF s = cur[c] THEN "pack" ELSE phase[s]
        /\ cur[c] \in Save /\ phase[cur[c]] = "wait"
        /\ UNCHANGED <<pathOf, disk>>
    BY <1>4 DEF SpawnWorker, QueueInv, CallersInSaves, TypeOK
  <2> QED
    BY <2>1, KeepsQuiet DEF OpenTorn, InFlight, Writing
<1>5. ASSUME NEW c \in Caller, OpenDirect(c) PROVE DirectAlone' /\ OpenTorn'
  <2>1. cur[c] \in Save /\ phase[cur[c]] = "direct"
    BY <1>5 DEF OpenDirect, QueueInv, CallersInSaves, PlaceholderInv
  <2> QED
    BY <1>5, <2>1, OpenKeepsQuiet DEF OpenDirect, WritePhase, FileOn
<1>6. ASSUME NEW c \in Caller, CloseDirect(c) PROVE DirectAlone' /\ OpenTorn'
  <2>1. cur[c] \in Save /\ phase[cur[c]] = "directwrite"
    BY <1>6, QuietForm
  <2>2. phase' = [phase EXCEPT ![cur[c]] = "directdone"] /\ UNCHANGED pathOf
    BY <1>6, <2>1 DEF CloseDirect, TypeOK
  <2>3. \A f \in File : f # FileOn(cur[c]) => disk'[f] = disk[f]
    BY <1>6 DEF CloseDirect, TypeOK, FileOn
  <2> QED
    BY <2>1, <2>2, <2>3, CloseKeepsQuiet DEF Serving, InFlight, Writing
<1>7. ASSUME NEW s \in Save, OpenWrite(s) PROVE DirectAlone' /\ OpenTorn'
  BY <1>7, OpenKeepsQuiet DEF OpenWrite, WritePhase, FileOn
<1>8. ASSUME NEW s \in Save, CloseWrite(s) \/ JobFails(s)
      PROVE  DirectAlone' /\ OpenTorn'
  <2>1. \A f \in File : f # FileOn(s) => disk'[f] = disk[f]
    BY <1>8 DEF CloseWrite, JobFails, TypeOK, FileOn
  <2> QED
    BY <1>8, <2>1, CloseKeepsQuiet
       DEF CloseWrite, JobFails, Serving, InFlight, Writing
<1>9. ASSUME NEW s \in Save, RemoveTask(s) \/ NotifyDone(s)
      PROVE  DirectAlone' /\ OpenTorn'
  <2>1. PICK ph \in {"notify", "done"} :
           \A t \in Save : phase'[t] = IF t = s THEN ph ELSE phase[t]
    BY <1>9 DEF RemoveTask, NotifyDone, TypeOK
  <2>2. UNCHANGED <<pathOf, disk>>
    BY <1>9 DEF RemoveTask, NotifyDone
  <2> QED
    BY <2>1, <2>2, KeepsQuiet DEF OpenTorn, InFlight, Writing
<1>10. CASE ProcessExit
  <2>1. \A s \in Save : phase'[s] \notin InFlight
    BY <1>10 DEF ProcessExit, InFlight, Writing
  <2> QED
    BY <2>1 DEF DirectAlone, OpenTorn, InFlight, Writing
<1>11. ~\E c \in Caller : SpawnPanics(c)
  BY DEF SpawnPanics, QuietEngine
<1>12. ASSUME NEW c \in Caller, PackBuffer(c) PROVE DirectAlone' /\ OpenTorn'
  BY <1>1, <1>12 DEF PackBuffer
<1>13. CASE UNCHANGED vars
  BY <1>1, <1>13 DEF vars
<1> QED
  BY <1>2, <1>3, <1>4, <1>5, <1>6, <1>7, <1>8, <1>9, <1>10, <1>11, <1>12, <1>13
     DEF Next, EngineCall, CallerStep, WorkerStep

\* With a quiet engine a save that is served has its file to itself.
THEOREM QuietInvHolds == ASSUME QuietEngine PROVE Spec => []QuietInv
<1>1. Init => QuietInv
  <2> SUFFICES ASSUME Init PROVE QuietInv
    OBVIOUS
  <2>1. DirectAlone /\ OpenTorn
    BY DEF Init, DirectAlone, OpenTorn, Writing
  <2> QED
    BY <2>1, InitType, InitQueue, InitPlaceholder DEF QuietInv
<1>2. QuietInv /\ [Next]_vars => QuietInv'
  BY NextType, NextQueue, NextPlaceholder, NextQuiet DEF QuietEngine, QuietInv
<1> QED
  BY <1>1, <1>2, PTL DEF Spec


------------------------------------------------------------------------------

\* Why the asynchronous save is transparent: as long as a file has saves in
\* flight, the newest of them is the one it is believed to hold ...
BelievedNewest ==
    \A s \in Save : phase[s] \in InFlight =>
        LET b == believed[FileOn(s)]
        IN  b \in Save /\ s <= b /\ phase[b] \in InFlight /\ FileOn(b) = FileOn(s)

\* ... and a file without any holds the save it is believed to hold ...
Settled ==
    \A f \in File : SavesOn(f, InFlight) = {} =>
        disk[f].save = believed[f] /\ disk[f].form \in {"none", "packed"}

\* ... where no save means no file.
NoSaveNoFile == \A f \in File : disk[f] = NoFile <=> disk[f].save = 0

TransparentInv == QuietInv /\ BelievedNewest /\ Settled /\ NoSaveNoFile

\* A step that leaves what is in flight, the files and the belief alone.
LEMMA KeepsTransparent ==
    ASSUME TransparentInv, UNCHANGED <<pathOf, disk, believed>>,
           \A s \in Save : phase'[s] \in InFlight <=> phase[s] \in InFlight
    PROVE  BelievedNewest' /\ Settled' /\ NoSaveNoFile'
<1>1. \A f \in File : SavesOn(f, InFlight)' = SavesOn(f, InFlight)
  BY DEF SavesOn
<1>2. BelievedNewest'
  BY DEF TransparentInv, BelievedNewest, FileOn
<1>3. Settled'
  BY <1>1 DEF TransparentInv, Settled
<1>4. NoSaveNoFile'
  BY DEF TransparentInv, NoSaveNoFile
<1> QED
  BY <1>2, <1>3, <1>4

\* A new save is the newest of its file.
LEMMA NewSaveTransparent ==
    ASSUME QuietEngine, TransparentInv, NEW c \in Caller, NEW p \in Path,
           QueueSave(c, p) \/ DirectSave(c, p)
    PROVE  BelievedNewest' /\ Settled' /\ NoSaveNoFile'
<1> DEFINE N == last + 1
<1>1. PICK ph \in {"wait", "direct"} :
             /\ N \in Save /\ phase[N] = "unused"
             /\ \A s \in Save : phase[s] # "unused" => s < N
             /\ FileOf(p) \in File
             /\ \A s \in Save : phase'[s] = IF s = N THEN ph ELSE phase[s]
             /\ \A s \in Save : FileOn(s)' = IF s = N THEN FileOf(p) ELSE FileOn(s)
             /\ believed' = [believed EXCEPT ![FileOf(p)] = N]
             /\ UNCHANGED disk
  BY NewSaveIs DEF TransparentInv
<1> HIDE DEF N
<1>2. \A f \in File : believed'[f] = IF f = FileOf(p) THEN N ELSE believed[f]
  BY <1>1 DEF TransparentInv, QuietInv, TypeOK
<1>3. ph \in InFlight /\ "unused" \notin InFlight
  BY DEF InFlight, Writing
<1>4. BelievedNewest'
  <2> SUFFICES ASSUME NEW s \in Save, phase'[s] \in InFlight
               PROVE  /\ believed'[FileOn(s)'] \in Save /\ s <= believed'[FileOn(s)']
                      /\ phase'[believed'[FileOn(s)']] \in InFlight
                      /\ FileOn(believed[FileOn(s)])' = FileOn(s)'
    BY DEF BelievedNewest, FileOn
  <2>1. CASE FileOn(s)' = FileOf(p)
    <3>1. s <= N
      BY <1>1, <1>3 DEF Save
    <3>2. believed'[FileOn(s)'] = N
      BY <2>1, <1>1, <1>2
    <3>3. FileOf(pathOf'[N]) = FileOf(p)
      BY <1>1 DEF FileOn
    <3>4. FileOn(believed[FileOn(s)])' = FileOf(p)
      BY <3>2, <3>3 DEF FileOn
    <3> QED
      BY <2>1, <3>1, <3>2, <3>4, <1>1, <1>3
  <2>2. CASE FileOn(s)' # FileOf(p)
    <3> DEFINE b == believed[FileOn(s)]
    <3>1. s # N /\ FileOn(s)' = FileOn(s) /\ phase[s] \in InFlight
      BY <2>2, <1>1
    <3>2. FileOn(s) \in File
      BY KeysAndFiles DEF TransparentInv, QuietInv, TypeOK, FileOn
    <3>3. b \in Save /\ s <= b /\ phase[b] \in InFlight /\ FileOn(b) = FileOn(s)
      BY <3>1 DEF TransparentInv, BelievedNewest
    <3>4. believed'[FileOn(s)'] = b /\ b # N
      BY <2>2, <3>1, <3>2, <3>3, <1>1, <1>2, <1>3
    <3>5. FileOn(b)' = FileOn(b) /\ phase'[b] = phase[b]
      BY <3>3, <3>4, <1>1
    <3>6. FileOn(believed[FileOn(s)])' = FileOn(s)'
      BY <3>1, <3>3, <3>4, <3>5 DEF FileOn
    <3> QED
      BY <3>3, <3>4, <3>5, <3>6
  <2> QED
    BY <2>1, <2>2
<1>5. Settled'
  <2> SUFFICES ASSUME NEW f \in File,
                      \A s \in Save : ~(phase'[s] \in InFlight /\ FileOn(s)' = f)
               PROVE  disk[f].save = believed'[f] /\ disk[f].form \in {"none", "packed"}
    BY <1>1 DEF Settled, SavesOn, FileOn
  <2>1. f # FileOf(p)
    BY <1>1, <1>3
  <2>2. \A s \in Save : ~(phase[s] \in InFlight /\ FileOn(s) = f)
    BY <1>1, <1>3
  <2> QED
    BY <2>1, <2>2, <1>2 DEF TransparentInv, Settled, SavesOn, FileOn
<1>6. NoSaveNoFile'
  BY <1>1 DEF TransparentInv, NoSaveNoFile
<1> QED
  BY <1>4, <1>5, <1>6

\* A save that opens its file is still in flight.
LEMMA OpenTransparent ==
    ASSUME TransparentInv, NEW s \in Save, phase[s] \in {"pack", "direct"},
           phase' = [phase EXCEPT ![s] = WritePhase(phase[s])],
           disk' = [disk EXCEPT ![FileOn(s)] = [save |-> s, form |-> "torn"]],
           UNCHANGED <<pathOf, believed>>
    PROVE  BelievedNewest' /\ Settled' /\ NoSaveNoFile'
<1>1. \A t \in Save : phase'[t] \in InFlight <=> phase[t] \in InFlight
  BY DEF WritePhase, TransparentInv, QuietInv, TypeOK, InFlight, Writing
<1>2. \A f \in File : SavesOn(f, InFlight)' = SavesOn(f, InFlight)
  BY <1>1 DEF SavesOn
<1>3. s \in SavesOn(FileOn(s), InFlight)
  BY DEF SavesOn, FileOn, InFlight
<1>4. \A f \in File : disk'[f] = IF f = FileOn(s) THEN [save |-> s, form |-> "torn"]
                                                  ELSE disk[f]
  BY DEF TransparentInv, QuietInv, TypeOK
<1>5. BelievedNewest'
  BY <1>1 DEF TransparentInv, BelievedNewest, FileOn
<1>6. Settled'
  BY <1>2, <1>3, <1>4 DEF TransparentInv, Settled
<1>7. NoSaveNoFile'
  <2>1. [save |-> s, form |-> "torn"] # NoFile /\ [save |-> s, form |-> "torn"].save # 0
    BY DEF NoFile, Save
  <2> QED
    BY <2>1, <1>4 DEF TransparentInv, NoSaveNoFile
<1> QED
  BY <1>5, <1>6, <1>7

\* A save that closes its file is the oldest in flight; when it is the last
\* one, it is the newest too, and the file holds what it is believed to hold.
LEMMA CloseTransparent ==
    ASSUME TransparentInv, NEW s \in Save, phase[s] \in Writing,
           NEW ph, ph \notin InFlight,
           phase' = [phase EXCEPT ![s] = ph],
           disk' = [disk EXCEPT ![FileOn(s)] = Closed(FileOn(s), s, "packed")],
           UNCHANGED <<pathOf, believed>>
    PROVE  BelievedNewest' /\ Settled' /\ NoSaveNoFile'
<1> USE DEF TransparentInv
<1>1. \A t \in Save : phase'[t] = IF t = s THEN ph ELSE phase[t]
  BY DEF QuietInv, TypeOK
<1>2. \A t \in Save : phase'[t] \in InFlight <=> phase[t] \in InFlight /\ t # s
  BY <1>1
<1>3. \A f \in File : disk'[f] = IF f = FileOn(s) THEN [save |-> s, form |-> "packed"]
                                                  ELSE disk[f]
  BY ClosedWhole DEF QuietInv, TypeOK
<1>4. phase[s] \in InFlight /\ phase[s] \in Serving
  BY DEF InFlight, Serving
<1>5. ASSUME NEW t \in Save, phase'[t] \in InFlight
      PROVE  /\ believed[FileOn(t)] \in Save /\ t <= believed[FileOn(t)]
             /\ phase'[believed[FileOn(t)]] \in InFlight
             /\ FileOn(believed[FileOn(t)]) = FileOn(t)
  <2> DEFINE b == believed[FileOn(t)]
  <2>1. b \in Save /\ t <= b /\ phase[b] \in InFlight /\ FileOn(b) = FileOn(t)
    BY <1>2, <1>5 DEF BelievedNewest
  <2>2. ASSUME b = s PROVE FALSE
    <3>1. s <= t /\ t <= s /\ t # s
      BY <2>1, <2>2, <1>2, <1>4, <1>5, OneServer
    <3> QED
      BY <3>1 DEF Save
  <2> QED
    BY <2>1, <2>2, <1>2
<1>6. BelievedNewest'
  BY <1>5 DEF BelievedNewest, FileOn
<1>7. Settled'
  <2> SUFFICES ASSUME NEW f \in File,
                      \A t \in Save : ~(phase'[t] \in InFlight /\ FileOn(t) = f)
               PROVE  disk'[f].save = believed[f] /\ disk'[f].form \in {"none", "packed"}
    BY DEF Settled, SavesOn, FileOn
  <2>1. CASE f = FileOn(s)
    <3>1. believed[f] \in Save /\ phase[believed[f]] \in InFlight
             /\ FileOn(believed[f]) = f
      BY <2>1, <1>4 DEF BelievedNewest
    <3>2. believed[f] = s
      BY <3>1, <1>2
    <3> QED
      BY <2>1, <3>2, <1>3
  <2>2. CASE f # FileOn(s)
    <3>1. SavesOn(f, InFlight) = {}
      BY <2>2, <1>2 DEF SavesOn, FileOn
    <3> QED
      BY <2>2, <3>1, <1>3 DEF Settled
  <2> QED
    BY <2>1, <2>2
<1>8. NoSaveNoFile'
  <2>1. [save |-> s, form |-> "packed"] # NoFile /\ [save |-> s, form |-> "packed"].save # 0
    BY DEF NoFile, Save
  <2> QED
    BY <2>1, <1>3 DEF NoSaveNoFile
<1> QED
  BY <1>6, <1>7, <1>8

\* A copy or move of settled files does to them what it does to the belief.
LEMMA CopyTransparent ==
    ASSUME QuietEngine, TransparentInv, NEW c \in Caller, NEW p \in Path, NEW q \in Path,
           CopyFile(c, p, q)
    PROVE  BelievedNewest' /\ Settled' /\ NoSaveNoFile'
<1> USE DEF TransparentInv
<1> DEFINE src == FileOf(p)
           dst == FileOf(q)
<1>1. /\ src \in File /\ dst \in File /\ src # dst
      /\ SavesOn(src, InFlight) = {} /\ SavesOn(dst, InFlight) = {}
      /\ UNCHANGED <<pathOf, phase>>
  BY CopyIs
<1>2. PICK b \in BOOLEAN : /\ disk' = Copied(disk, NoFile, p, q, b)
                           /\ believed' = Copied(believed, 0, p, q, b)
  BY CopyIs
<1>3. /\ disk[src].save = believed[src] /\ disk[src].form \in {"none", "packed"}
      /\ disk[dst].save = believed[dst] /\ disk[dst].form \in {"none", "packed"}
      /\ disk[src] = NoFile <=> believed[src] = 0
      /\ disk[dst] = NoFile <=> believed[dst] = 0
  BY <1>1 DEF Settled, NoSaveNoFile
<1>4. NoFile.save = 0 /\ NoFile.form = "none"
  BY DEF NoFile
<1>5. \A f \in File :
         /\ f \notin {src, dst} => disk'[f] = disk[f] /\ believed'[f] = believed[f]
         /\ f \in {src, dst} => \/ disk'[f] = disk[f] /\ believed'[f] = believed[f]
                                \/ disk'[f] = disk[src] /\ believed'[f] = believed[src]
                                \/ disk'[f] = NoFile /\ believed'[f] = 0
  <2>1. CASE disk[src] = NoFile \/ (b /\ disk[dst] # NoFile)
    BY <2>1, <1>2, <1>3 DEF Copied
  <2>2. CASE ~(disk[src] = NoFile \/ (b /\ disk[dst] # NoFile)) /\ ShouldMove(p, q)
    <3>1. /\ disk' = [disk EXCEPT ![dst] = disk[src], ![src] = NoFile]
          /\ believed' = [believed EXCEPT ![dst] = believed[src], ![src] = 0]
      BY <2>2, <1>2, <1>3 DEF Copied
    <3> QED
      BY <3>1, <1>1 DEF QuietInv, TypeOK
  <2>3. CASE ~(disk[src] = NoFile \/ (b /\ disk[dst] # NoFile)) /\ ~ShouldMove(p, q)
    <3>1. /\ disk' = [disk EXCEPT ![dst] = disk[src]]
          /\ believed' = [believed EXCEPT ![dst] = believed[src]]
      BY <2>3, <1>2, <1>3 DEF Copied
    <3> QED
      BY <3>1, <1>1 DEF QuietInv, TypeOK
  <2> QED
    BY <2>1, <2>2, <2>3
<1>6. BelievedNewest'
  <2> SUFFICES ASSUME NEW s \in Save, phase[s] \in InFlight
               PROVE  believed'[FileOn(s)] = believed[FileOn(s)]
    BY <1>1 DEF BelievedNewest, FileOn
  <2>1. FileOn(s) \in File /\ FileOn(s) \notin {src, dst}
    BY <1>1, KeysAndFiles DEF SavesOn, FileOn, QuietInv, TypeOK
  <2> QED
    BY <2>1, <1>5
<1>7. Settled'
  <2> SUFFICES ASSUME NEW f \in File, SavesOn(f, InFlight) = {}
               PROVE  disk'[f].save = believed'[f] /\ disk'[f].form \in {"none", "packed"}
    BY <1>1 DEF Settled, SavesOn
  <2>1. disk[f].save = believed[f] /\ disk[f].form \in {"none", "packed"}
    BY DEF Settled
  <2> QED
    BY <2>1, <1>3, <1>4, <1>5
<1>8. NoSaveNoFile'
  BY <1>1, <1>4, <1>5 DEF NoSaveNoFile
<1> QED
  BY <1>6, <1>7, <1>8

\* Every step of a quiet engine, where nothing fails, keeps the belief true.
LEMMA NextTransparent ==
    ASSUME QuietEngine, JobCanFail = FALSE, ProcessCanExit = FALSE,
           TransparentInv, [Next]_vars
    PROVE  BelievedNewest' /\ Settled' /\ NoSaveNoFile'
<1> USE DEF TransparentInv
<1> DEFINE Kept == BelievedNewest' /\ Settled' /\ NoSaveNoFile'
<1>1. ASSUME NEW c \in Caller, NEW p \in Path, QueueSave(c, p) \/ DirectSave(c, p)
      PROVE  Kept
  BY <1>1, NewSaveTransparent
<1>2. ASSUME NEW c \in Caller, NEW p \in Path, NEW q \in Path, CopyFile(c, p, q)
      PROVE  Kept
  BY <1>2, CopyTransparent
<1>3. ASSUME NEW c \in Caller, PackBuffer(c) PROVE Kept
  BY <1>3, KeepsTransparent DEF PackBuffer
<1>4. ASSUME NEW c \in Caller, SpawnWorker(c) PROVE Kept
  <2>1. \A s \in Save : phase'[s] \in InFlight <=> phase[s] \in InFlight
    BY <1>4 DEF SpawnWorker, QuietInv, TypeOK, InFlight
  <2> QED
    BY <1>4, <2>1, KeepsTransparent DEF SpawnWorker
<1>5. ASSUME NEW c \in Caller, OpenDirect(c) PROVE Kept
  <2>1. cur[c] \in Save /\ phase[cur[c]] = "direct"
    BY <1>5 DEF OpenDirect, QuietInv, QueueInv, CallersInSaves, PlaceholderInv
  <2> QED
    BY <1>5, <2>1, OpenTransparent DEF OpenDirect, WritePhase, FileOn
<1>6. ASSUME NEW c \in Caller, CloseDirect(c) PROVE Kept
  <2>1. cur[c] \in Save /\ phase[cur[c]] = "directwrite" /\ buf[c] = "packed"
    BY <1>6, QuietForm
  <2>2. /\ phase' = [phase EXCEPT ![cur[c]] = "directdone"]
        /\ disk' = [disk EXCEPT ![FileOn(cur[c])] = Closed(FileOn(cur[c]), cur[c], "packed")]
        /\ UNCHANGED <<pathOf, believed>>
    BY <1>6, <2>1 DEF CloseDirect, QuietInv, TypeOK, FileOn
  <2> QED
    BY <2>1, <2>2, CloseTransparent DEF InFlight, Writing
<1>7. ASSUME NEW s \in Save, OpenWrite(s) PROVE Kept
  BY <1>7, OpenTransparent DEF OpenWrite, WritePhase, FileOn
<1>8. ASSUME NEW s \in Save, CloseWrite(s) PROVE Kept
  BY <1>8, CloseTransparent DEF CloseWrite, FileOn, InFlight, Writing
<1>9. ASSUME NEW s \in Save, RemoveTask(s) \/ NotifyDone(s) PROVE Kept
  <2>1. \A t \in Save : phase'[t] \in InFlight <=> phase[t] \in InFlight
    BY <1>9 DEF RemoveTask, NotifyDone, QuietInv, TypeOK, InFlight, Writing
  <2> QED
    BY <1>9, <2>1, KeepsTransparent DEF RemoveTask, NotifyDone
<1>10. CASE UNCHANGED vars
  BY <1>10, KeepsTransparent DEF vars
<1>11. /\ ~\E c \in Caller : SpawnPanics(c)
       /\ ~\E s \in Save : JobFails(s)
       /\ ~ProcessExit
  BY DEF SpawnPanics, JobFails, ProcessExit, QuietEngine
<1> QED
  BY <1>1, <1>2, <1>3, <1>4, <1>5, <1>6, <1>7, <1>8, <1>9, <1>10, <1>11
     DEF Next, EngineCall, CallerStep, WorkerStep

\* With a quiet engine, where nothing fails, saving in the background cannot be
\* told from saving at once, for any callers, files and number of saves: when
\* nothing is in flight, every file holds, whole and packed, the same save.
THEOREM TransparentHolds ==
    ASSUME QuietEngine, JobCanFail = FALSE, ProcessCanExit = FALSE
    PROVE  Spec => []Transparent
<1>1. Init => BelievedNewest /\ Settled /\ NoSaveNoFile
  BY DEF Init, BelievedNewest, Settled, NoSaveNoFile, NoFile, InFlight, Writing
<1>2. QuietInv /\ [Next]_vars /\ (BelievedNewest /\ Settled /\ NoSaveNoFile)
        => (BelievedNewest /\ Settled /\ NoSaveNoFile)'
  BY NextTransparent DEF TransparentInv
<1>3. TypeOK /\ Settled => Transparent
  BY DEF Settled, Transparent, SavesOn
<1> QED
  BY <1>1, <1>2, <1>3, QuietInvHolds, PTL DEF Spec, QuietInv


------------------------------------------------------------------------------

(***************************************************************************)
(* With a quiet engine AsyncSave implements SaveStore, step by step:       *)
(*   a new save                   Accept                                   *)
(*   a save opens its file        BeginWrite                               *)
(*   ... closes it                EndWrite                                 *)
(*   ... fails                    Drop                                     *)
(*   a copy or a move             Transfer                                 *)
(*   the process ends             ProcessExit                              *)
(*   anything else                nothing                                  *)
(***************************************************************************)

\* What the refinement mapping makes of the state.
Pending    == [f \in File |-> SavesOn(f, InFlight)]
Content(d) == [save |-> d.save, whole |-> d.form \notin {"torn", "placeholder"}]
Stored     == [f \in File |-> Content(disk[f])]

\* A file is whole unless it is torn or a placeholder.
LEMMA ContentIs ==
    ASSUME NEW s
    PROVE  /\ Content([save |-> s, form |-> "torn"]) = [save |-> s, whole |-> FALSE]
           /\ Content([save |-> s, form |-> "packed"]) = [save |-> s, whole |-> TRUE]
           /\ Content(NoFile) = Store!Absent
<1>1. ASSUME NEW form, NEW b \in BOOLEAN, b = (form \notin {"torn", "placeholder"})
      PROVE  Content([save |-> s, form |-> form]) = [save |-> s, whole |-> b]
  BY <1>1 DEF Content
<1>2. Content([save |-> s, form |-> "torn"]) = [save |-> s, whole |-> FALSE]
  BY <1>1
<1>3. Content([save |-> s, form |-> "packed"]) = [save |-> s, whole |-> TRUE]
  BY <1>1
<1>4. Content(NoFile) = [save |-> 0, whole |-> TRUE]
  <2>1. (NoFile.form \notin {"torn", "placeholder"}) = TRUE /\ NoFile.save = 0
    BY DEF NoFile
  <2> QED
    BY <2>1 DEF Content
<1> QED
  BY <1>2, <1>3, <1>4 DEF Store!Absent

\* A step that changes neither what is pending nor what is stored.
LEMMA StoreStutters ==
    ASSUME UNCHANGED <<last, pathOf, disk>>,
           \A s \in Save : phase'[s] \in InFlight <=> phase[s] \in InFlight
    PROVE  UNCHANGED Store!vars
<1>1. \A f \in File : SavesOn(f, InFlight)' = SavesOn(f, InFlight)
  BY DEF SavesOn
<1>2. Pending' = Pending
  BY <1>1 DEF Pending
<1> QED
  BY <1>2 DEF Store!vars, Pending

\* What is pending, save by save.
LEMMA PendingIs ==
    ASSUME NEW f \in File, NEW s
    PROVE  s \in Pending[f] <=> s \in Save /\ phase[s] \in InFlight /\ FileOn(s) = f
BY DEF Pending, SavesOn, FileOn

\* A save that serves its file is the oldest pending one.
LEMMA ServerOldest ==
    ASSUME QuietInv, NEW s \in Save, phase[s] \in Serving
    PROVE  FileOn(s) \in File /\ s \in Pending[FileOn(s)] /\ Store!Oldest(FileOn(s), s)
<1>1. FileOn(s) \in File
  BY KeysAndFiles DEF QuietInv, TypeOK, FileOn
<1>2. phase[s] \in InFlight
  BY DEF Serving, InFlight
<1>3. \A t \in Pending[FileOn(s)] : s <= t
  BY <1>1, PendingIs, OneServer
<1>4. s \in Pending[FileOn(s)]
  BY <1>1, <1>2, PendingIs
<1> QED
  BY <1>1, <1>3, <1>4 DEF Store!Oldest, Pending

\* A step of a pending save of a file is a step of the store.
LEMMA ServeIsNext ==
    ASSUME NEW f \in File, NEW s \in Pending[f],
           Store!BeginWrite(f, s) \/ Store!EndWrite(f, s) \/ Store!Drop(f, s)
    PROVE  Store!Next
BY DEF Store!Next, Store!Serve, Pending

\* A new save is accepted.
LEMMA NewSaveAccepts ==
    ASSUME QuietEngine, QuietInv, NEW c \in Caller, NEW p \in Path,
           QueueSave(c, p) \/ DirectSave(c, p)
    PROVE  Store!Next
<1> DEFINE N == last + 1
<1>1. PICK ph \in {"wait", "direct"} :
             /\ N \in Save /\ last' = N /\ phase[N] = "unused"
             /\ FileOf(p) \in File
             /\ \A s \in Save : phase'[s] = IF s = N THEN ph ELSE phase[s]
             /\ \A s \in Save : FileOn(s)' = IF s = N THEN FileOf(p) ELSE FileOn(s)
             /\ UNCHANGED disk
  BY NewSaveIs
<1>2. last < MaxSaves
  BY DEF QueueSave, DirectSave, NewSave
<1>3. ph \in InFlight /\ "unused" \notin InFlight
  BY DEF InFlight, Writing
<1>4. \A f \in File : Pending'[f] = IF f = FileOf(p) THEN Pending[f] \union {N}
                                                      ELSE Pending[f]
  <2> SUFFICES ASSUME NEW f \in File, NEW s
               PROVE  s \in Pending'[f] <=> s \in Pending[f] \/ (f = FileOf(p) /\ s = N)
    BY DEF Pending, SavesOn
  <2>1. s \in Pending'[f] <=> s \in Save /\ phase'[s] \in InFlight /\ FileOn(s)' = f
    BY DEF Pending, SavesOn, FileOn
  <2> HIDE DEF N
  <2> QED
    BY <2>1, <1>1, <1>3, PendingIs
<1>5. Pending' = [Pending EXCEPT ![FileOf(p)] = @ \union {N}]
  BY <1>4 DEF Pending
<1>6. Store!Accept(FileOf(p))
  BY <1>1, <1>2, <1>5 DEF Store!Accept, Pending
<1> QED
  BY <1>1, <1>6 DEF Store!Next

\* The file of a save that opens it holds a part of that save.
LEMMA OpenBegins ==
    ASSUME QuietInv, NEW s \in Save, phase[s] \in {"pack", "direct"},
           phase' = [phase EXCEPT ![s] = WritePhase(phase[s])],
           disk' = [disk EXCEPT ![FileOn(s)] = [save |-> s, form |-> "torn"]],
           UNCHANGED <<last, pathOf>>
    PROVE  Store!Next
<1> DEFINE f == FileOn(s)
<1>1. f \in File /\ s \in Pending[f] /\ Store!Oldest(f, s)
  BY ServerOldest DEF Serving
<1>2. \A t \in Save : phase'[t] \in InFlight <=> phase[t] \in InFlight
  BY DEF WritePhase, QuietInv, TypeOK, InFlight, Writing
<1>3. Pending' = Pending
  BY <1>2 DEF Pending, SavesOn
<1>4. Stored' = [Stored EXCEPT ![f] = [save |-> s, whole |-> FALSE]]
  <2>1. \A g \in File : disk'[g] = IF g = f THEN [save |-> s, form |-> "torn"] ELSE disk[g]
    BY DEF QuietInv, TypeOK
  <2>2. \A g \in File : Stored'[g] = IF g = f THEN [save |-> s, whole |-> FALSE] ELSE Stored[g]
    <3>1. \A g \in File : Stored'[g] = Content(IF g = f THEN [save |-> s, form |-> "torn"]
                                                        ELSE disk[g])
      BY <2>1 DEF Stored
    <3>2. \A g \in File : Stored[g] = Content(disk[g])
      BY DEF Stored
    <3> HIDE DEF f
    <3> QED
      BY <3>1, <3>2, ContentIs
  <2> QED
    BY <2>2 DEF Stored
<1>5. Store!BeginWrite(f, s)
  BY <1>1, <1>3, <1>4 DEF Store!BeginWrite, Pending, Stored, Content
<1> QED
  BY <1>1, <1>5, ServeIsNext

\* Without save s, nothing else that is pending changes.
LEMMA PendingWithout ==
    ASSUME QuietInv, NEW s \in Save, NEW ph, ph \notin InFlight,
           phase' = [phase EXCEPT ![s] = ph], UNCHANGED pathOf
    PROVE  Pending' = [Pending EXCEPT ![FileOn(s)] = @ \ {s}]
<1>1. \A t \in Save : phase'[t] \in InFlight <=> phase[t] \in InFlight /\ t # s
  BY DEF QuietInv, TypeOK
<1>2. \A f \in File : Pending'[f] = IF f = FileOn(s) THEN Pending[f] \ {s} ELSE Pending[f]
  BY <1>1 DEF Pending, SavesOn, FileOn
<1> QED
  BY <1>2 DEF Pending

\* The file of a save that closes it holds the save, whole.
LEMMA CloseEnds ==
    ASSUME QuietInv, NEW s \in Save, phase[s] \in Writing,
           NEW ph, ph \notin InFlight,
           phase' = [phase EXCEPT ![s] = ph],
           disk' = [disk EXCEPT ![FileOn(s)] = Closed(FileOn(s), s, "packed")],
           UNCHANGED <<last, pathOf>>
    PROVE  Store!Next
<1> DEFINE f == FileOn(s)
<1>1. f \in File /\ s \in Pending[f] /\ Store!Oldest(f, s)
  BY ServerOldest DEF Serving
<1>2. Pending' = [Pending EXCEPT ![f] = @ \ {s}]
  BY PendingWithout
<1>3. disk[f] = [save |-> s, form |-> "torn"]
  BY DEF QuietInv, OpenTorn
<1>4. \A g \in File : disk'[g] = IF g = f THEN [save |-> s, form |-> "packed"] ELSE disk[g]
  BY ClosedWhole DEF QuietInv, TypeOK
<1>5. Stored[f] = [save |-> s, whole |-> FALSE]
  <2>1. Stored[f] = Content([save |-> s, form |-> "torn"])
    BY <1>1, <1>3 DEF Stored
  <2> QED
    BY <2>1, ContentIs
<1>6. \A g \in File : Stored'[g] = IF g = f THEN [save |-> s, whole |-> TRUE] ELSE Stored[g]
  <2>1. \A g \in File : Stored'[g] = Content(IF g = f THEN [save |-> s, form |-> "packed"]
                                                      ELSE disk[g])
    BY <1>4 DEF Stored
  <2>2. \A g \in File : Stored[g] = Content(disk[g])
    BY DEF Stored
  <2> HIDE DEF f
  <2> QED
    BY <2>1, <2>2, ContentIs
<1>7. Stored' = [Stored EXCEPT ![f].whole = TRUE]
  <2>1. [Stored[f] EXCEPT !.whole = TRUE] = [save |-> s, whole |-> TRUE]
    <3>1. ASSUME NEW a, NEW b PROVE [[save |-> s, whole |-> a] EXCEPT !.whole = b]
                                       = [save |-> s, whole |-> b]
      OBVIOUS
    <3> QED
      BY <1>5, <3>1, Zenon
  <2>2. DOMAIN Stored = File /\ Stored' = [g \in File |-> Stored'[g]]
    BY DEF Stored
  <2> HIDE DEF f
  <2> QED
    BY <1>1, <1>6, <2>1, <2>2
<1>8. Store!EndWrite(f, s)
  BY <1>1, <1>2, <1>5, <1>7 DEF Store!EndWrite, Pending, Stored, Content
<1> QED
  BY <1>1, <1>8, ServeIsNext

\* A save that fails is dropped, whatever it has written.
LEMMA FailDrops ==
    ASSUME QuietInv, NEW s \in Save, JobFails(s)
    PROVE  Store!Next
<1> DEFINE f == FileOn(s)
<1>1. f \in File /\ s \in Pending[f] /\ Store!Oldest(f, s)
  BY ServerOldest DEF JobFails, Serving, Writing
<1>2. Pending' = [Pending EXCEPT ![f] = @ \ {s}]
  <2>1. "remove" \notin InFlight
    BY DEF InFlight, Writing
  <2> QED
    BY <2>1, PendingWithout DEF JobFails
<1>3. Store!Drop(f, s)
  BY <1>1, <1>2 DEF Store!Drop, JobFails, Pending
<1> QED
  BY <1>1, <1>3, ServeIsNext

\* A copy or a move of settled files, or none.
LEMMA CopyTransfers ==
    ASSUME QuietEngine, QuietInv, NEW c \in Caller, NEW p \in Path, NEW q \in Path,
           CopyFile(c, p, q)
    PROVE  Store!Next \/ UNCHANGED Store!vars
<1> DEFINE src == FileOf(p)
           dst == FileOf(q)
<1>1. /\ src \in File /\ dst \in File /\ src # dst
      /\ SavesOn(src, InFlight) = {} /\ SavesOn(dst, InFlight) = {}
      /\ UNCHANGED <<last, pathOf, phase>>
  BY CopyIs
<1>2. PICK b \in BOOLEAN : disk' = Copied(disk, NoFile, p, q, b)
  BY CopyIs
<1>3. Pending' = Pending /\ Pending[src] = {} /\ Pending[dst] = {}
  BY <1>1 DEF Pending, SavesOn
<1>4. CASE UNCHANGED disk
  BY <1>1, <1>4, StoreStutters
<1>5. CASE disk' = [disk EXCEPT ![dst] = disk[src]]
  <2>1. \A f \in File : disk'[f] = IF f = dst THEN disk[src] ELSE disk[f]
    BY <1>5 DEF QuietInv, TypeOK
  <2>2. \A f \in File : Stored'[f] = IF f = dst THEN Stored[src] ELSE Stored[f]
    BY <2>1, <1>1 DEF Stored
  <2>3. Stored' = [Stored EXCEPT ![dst] = Stored[src]]
    BY <2>2 DEF Stored
  <2>4. Store!Transfer(src, dst)
    BY <1>1, <1>3, <2>3 DEF Store!Transfer, Pending, Stored, Content
  <2> QED
    BY <1>1, <2>4 DEF Store!Next
<1>6. CASE disk' = [disk EXCEPT ![dst] = disk[src], ![src] = NoFile]
  <2>1. \A f \in File : disk'[f] = IF f = src THEN NoFile
                                   ELSE IF f = dst THEN disk[src] ELSE disk[f]
    BY <1>6, <1>1 DEF QuietInv, TypeOK
  <2>2. \A f \in File : Stored'[f] = IF f = src THEN Store!Absent
                                     ELSE IF f = dst THEN Stored[src] ELSE Stored[f]
    BY <2>1, <1>1, ContentIs DEF Stored
  <2>3. Stored' = [Stored EXCEPT ![dst] = Stored[src], ![src] = Store!Absent]
    BY <2>2, <1>1 DEF Stored
  <2>4. Store!Transfer(src, dst)
    BY <1>1, <1>3, <2>3 DEF Store!Transfer, Pending, Stored, Content
  <2> QED
    BY <1>1, <2>4 DEF Store!Next
<1> QED
  BY <1>2, <1>4, <1>5, <1>6 DEF Copied

\* Every step of a quiet engine is a step of the store, or none.
LEMMA NextStore ==
    ASSUME QuietEngine, QuietInv, [Next]_vars
    PROVE  [Store!Next]_(Store!vars)
<1> DEFINE Step == Store!Next \/ UNCHANGED Store!vars
<1>1. ASSUME NEW c \in Caller, NEW p \in Path, QueueSave(c, p) \/ DirectSave(c, p)
      PROVE  Step
  BY <1>1, NewSaveAccepts
<1>2. ASSUME NEW c \in Caller, NEW p \in Path, NEW q \in Path, CopyFile(c, p, q)
      PROVE  Step
  BY <1>2, CopyTransfers
<1>3. ASSUME NEW c \in Caller, PackBuffer(c) PROVE Step
  BY <1>3, StoreStutters DEF PackBuffer
<1>4. ASSUME NEW c \in Caller, SpawnWorker(c) PROVE Step
  <2>1. \A s \in Save : phase'[s] \in InFlight <=> phase[s] \in InFlight
    BY <1>4 DEF SpawnWorker, QuietInv, TypeOK, InFlight
  <2> QED
    BY <1>4, <2>1, StoreStutters DEF SpawnWorker
<1>5. ASSUME NEW c \in Caller, OpenDirect(c) PROVE Step
  <2>1. cur[c] \in Save /\ phase[cur[c]] = "direct"
    BY <1>5 DEF OpenDirect, QuietInv, QueueInv, CallersInSaves, PlaceholderInv
  <2> QED
    BY <1>5, <2>1, OpenBegins DEF OpenDirect, WritePhase, FileOn
<1>6. ASSUME NEW c \in Caller, CloseDirect(c) PROVE Step
  <2>1. cur[c] \in Save /\ phase[cur[c]] = "directwrite" /\ buf[c] = "packed"
    BY <1>6, QuietForm
  <2>2. /\ phase' = [phase EXCEPT ![cur[c]] = "directdone"]
        /\ disk' = [disk EXCEPT ![FileOn(cur[c])] = Closed(FileOn(cur[c]), cur[c], "packed")]
        /\ UNCHANGED <<last, pathOf>>
    BY <1>6, <2>1 DEF CloseDirect, QuietInv, TypeOK, FileOn
  <2> QED
    BY <2>1, <2>2, CloseEnds DEF InFlight, Writing
<1>7. ASSUME NEW s \in Save, OpenWrite(s) PROVE Step
  BY <1>7, OpenBegins DEF OpenWrite, WritePhase, FileOn
<1>8. ASSUME NEW s \in Save, CloseWrite(s) PROVE Step
  BY <1>8, CloseEnds DEF CloseWrite, FileOn, InFlight, Writing
<1>9. ASSUME NEW s \in Save, JobFails(s) PROVE Step
  BY <1>9, FailDrops
<1>10. ASSUME NEW s \in Save, RemoveTask(s) \/ NotifyDone(s) PROVE Step
  <2>1. \A t \in Save : phase'[t] \in InFlight <=> phase[t] \in InFlight
    BY <1>10 DEF RemoveTask, NotifyDone, QuietInv, TypeOK, InFlight, Writing
  <2> QED
    BY <1>10, <2>1, StoreStutters DEF RemoveTask, NotifyDone
<1>11. CASE ProcessExit
  <2>1. \A s \in Save : phase'[s] \notin InFlight
    BY <1>11 DEF ProcessExit, InFlight, Writing
  <2>2. Pending' = [f \in File |-> {}]
    BY <2>1 DEF Pending, SavesOn
  <2>3. Store!ProcessExit
    BY <1>11, <2>2 DEF ProcessExit, Store!ProcessExit, Pending
  <2> QED
    BY <2>3 DEF Store!Next
<1>12. CASE UNCHANGED vars
  BY <1>12, StoreStutters DEF vars
<1>13. ~\E c \in Caller : SpawnPanics(c)
  BY DEF SpawnPanics, QuietEngine
<1>14. Step
  BY <1>1, <1>2, <1>3, <1>4, <1>5, <1>6, <1>7, <1>8, <1>9, <1>10, <1>11, <1>12, <1>13
     DEF Next, EngineCall, CallerStep, WorkerStep
<1> QED
  BY <1>14

\* To a quiet engine the asynchronous save is a store that writes the saves of
\* a file one at a time, whole and in the order they were accepted, whatever
\* fails and whenever the process ends.  (That it gets to them is liveness, and
\* checked by TLC.)
THEOREM SaveStoreSafety == ASSUME QuietEngine PROVE Spec => Store!Safety
<1>1. Init => Store!Init
  <2> SUFFICES ASSUME Init PROVE Store!Init
    OBVIOUS
  <2>1. last = 0 /\ Pending = [f \in File |-> {}]
    BY DEF Init, Pending, SavesOn, InFlight, Writing
  <2>2. Stored = [f \in File |-> Store!Absent]
    BY ContentIs DEF Init, Stored
  <2> QED
    BY <2>1, <2>2 DEF Store!Init, Pending, Stored, Content
<1>2. QuietInv /\ [Next]_vars => [Store!Next]_(Store!vars)
  BY NextStore
<1> QED
  BY <1>1, <1>2, QuietInvHolds, PTL DEF Spec, Store!Safety

==============================================================================
