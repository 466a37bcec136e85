-------------------------- MODULE PatcherWindowProofs --------------------------
(***************************************************************************)
(* The window adds nothing to what may happen to the files, so that what   *)
(* is proved of PatchedExe holds for it; and what its status text and its  *)
(* messages say is true.                                                   *)
(***************************************************************************)
EXTENDS PatcherWindow, PatchedExeProofs

\* Every step of the window is a step of PatchedExe, or leaves the files alone.
LEMMA WindowStepMaps == [WindowNext]_allVars => [Next]_vars
<1> SUFFICES ASSUME [WindowNext]_allVars PROVE [Next]_vars
  OBVIOUS
<1>1. CASE Open \/ Close \/ Browse \/ PressUnchosen \/ CloseBox
  BY <1>1 DEF Open, Close, Browse, PressUnchosen, CloseBox
<1>2. CASE PressPatch
  BY <1>2 DEF PressPatch, Next, Tool
<1>3. CASE PressUnpatch
  BY <1>3 DEF PressUnpatch, Next, Tool
<1>4. CASE Works
  BY <1>4 DEF Works, Next, Tool
<1>5. CASE Returns
  BY <1>5 DEF Returns, Next, Tool
<1>6. CASE Dies
  BY <1>6 DEF Dies, Next, Tool
<1>7. CASE Touch
  BY <1>7 DEF Touch, Next
<1>8. CASE UNCHANGED allVars
  BY <1>8 DEF allVars, vars
<1> QED
  BY <1>1, <1>2, <1>3, <1>4, <1>5, <1>6, <1>7, <1>8 DEF WindowNext

\* The window implements the patcher's file operations, in the order and with
\* the guards that PatchedExe gives them.
THEOREM WindowImplements == WindowSpec => Spec
<1>1. WindowInit => Init
  BY DEF WindowInit
<1> QED
  BY <1>1, WindowStepMaps, PTL DEF WindowSpec, Spec

\* Whatever the user presses, and whenever the tool is closed or dies, the
\* installed executable is in its place or in an untouched backup.
THEOREM WindowKeepsGame == WindowSpec => []GameKept
BY WindowImplements, GameKeptHolds, PTL

------------------------------------------------------------------------------

\* The status text is written before the window can be used again, except
\* after the request to choose a file, when there is nothing to tell.
StatusInv ==
    /\ StatusTrue
    /\ message = "choose" => ~chosen
    /\ screen # "box" => message = "none"
    /\ screen = "closed" => ~chosen

\* What the status text may be depends on the files only.
LEMMA SameTexts == UNCHANGED vars => StatusTexts' = StatusTexts
BY DEF vars, StatusTexts, Inspected, Exists

\* StatusInv is inductive.
LEMMA StatusStep == StatusInv /\ [WindowNext]_allVars => StatusInv'
<1> SUFFICES ASSUME StatusInv, [WindowNext]_allVars PROVE StatusInv'
  OBVIOUS
<1> USE DEF StatusInv, StatusTrue
<1>1. CASE Open
  BY <1>1, SameTexts DEF Open
<1>2. CASE Close
  BY <1>2 DEF Close
<1>3. CASE Browse
  BY <1>3, SameTexts DEF Browse, Refresh
<1>4. CASE PressUnchosen
  BY <1>4 DEF PressUnchosen
<1>5. CASE PressPatch
  BY <1>5 DEF PressPatch
<1>6. CASE PressUnpatch
  BY <1>6 DEF PressUnpatch
<1>7. CASE Works
  BY <1>7 DEF Works, windowVars
<1>8. CASE Returns
  BY <1>8 DEF Returns, Said
<1>9. CASE CloseBox
  BY <1>9, SameTexts DEF CloseBox, Refresh, RefreshesAfter
<1>10. CASE Dies
  BY <1>10 DEF Dies
<1>11. CASE Touch
  BY <1>11 DEF Touch
<1>12. CASE UNCHANGED allVars
  BY <1>12, SameTexts DEF allVars, vars
<1> QED
  BY <1>1, <1>2, <1>3, <1>4, <1>5, <1>6, <1>7, <1>8, <1>9, <1>10, <1>11, <1>12
     DEF WindowNext

\* For any executables, and however a call went or failed, the window does
\* not show the status from before it.
THEOREM StatusTrueHolds == WindowSpec => []StatusTrue
<1>1. WindowInit => StatusInv
  BY DEF WindowInit, StatusInv, StatusTrue
<1>2. StatusInv => StatusTrue
  BY DEF StatusInv
<1> QED
  BY <1>1, <1>2, StatusStep, PTL DEF WindowSpec

------------------------------------------------------------------------------

\* A patched executable can be told to be ...
LEMMA HookedSeen ==
    ASSUME NEW f, Exists(f), \A img \in f.image : Hooked(img)
    PROVE  {TRUE} \in Inspected(f)
<1> DEFINE seen == {IsPatched(img) : img \in {i \in f.image : Readable(i)}}
<1>1. \A img \in f.image : Readable(img) /\ IsPatched(img)
  BY HookedIs DEF IsPatched
<1>2. \A img \in f.image : IsPatched(img) = TRUE
  BY <1>1
<1>3. \A x \in seen : x = TRUE
  BY <1>2
<1>4. seen # {}
  BY <1>1 DEF Exists
<1>5. seen = {TRUE}
  <2> HIDE DEF seen
  <2> QED
    BY <1>3, <1>4
<1> QED
  BY <1>5 DEF Inspected

\* ... and so can one that is not.
LEMMA FreshSeen ==
    ASSUME NEW f, Exists(f), \A img \in f.image : Fresh(img)
    PROVE  {FALSE} \in Inspected(f)
<1> DEFINE seen == {IsPatched(img) : img \in {i \in f.image : Readable(i)}}
<1>1. \A img \in f.image : Readable(img) /\ ~IsPatched(img)
  BY DEF Fresh
<1>2. \A img \in f.image : IsPatched(img) = FALSE
  BY <1>1 DEF IsPatched
<1>3. \A x \in seen : x = FALSE
  BY <1>2
<1>4. seen # {}
  BY <1>1 DEF Exists
<1>5. seen = {FALSE}
  <2> HIDE DEF seen
  <2> QED
    BY <1>3, <1>4
<1> QED
  BY <1>5 DEF Inspected

\* What the window says was true when it was said, and nobody changes files
\* without having chosen them.
MessageInv ==
    /\ WindowTypeOK
    /\ screen = "busy" \/ message \in {"patched", "restored"} => chosen
    /\ DoneIsDone

\* What can be told of the executable depends on the file only.
LEMMA SameSeen == UNCHANGED exe => Inspected(exe)' = Inspected(exe)
BY DEF Inspected

\* MessageInv is inductive, with what is in the files.
LEMMA MessageStep ==
    /\ LayoutInv /\ KeptInv /\ LayoutInv' /\ MessageInv /\ [WindowNext]_allVars
    => MessageInv'
<1> SUFFICES ASSUME LayoutInv, KeptInv, LayoutInv', MessageInv, [WindowNext]_allVars
             PROVE  MessageInv'
  OBVIOUS
<1>1. TypeOK'
  BY DEF LayoutInv
<1> USE DEF MessageInv, WindowTypeOK, DoneIsDone
<1>2. CASE Open
  BY <1>1, <1>2, SameSeen DEF Open, vars
<1>3. CASE Close
  BY <1>1, <1>3, SameSeen DEF Close, vars
<1>4. CASE Browse
  BY <1>1, <1>4, SameSeen DEF Browse, Refresh, vars
<1>5. CASE PressUnchosen
  BY <1>1, <1>5, SameSeen DEF PressUnchosen, vars
<1>6. CASE PressPatch
  <2>1. CASE Patch /\ screen' = "busy" /\ UNCHANGED message
    BY <1>1, <1>6, <2>1, SameSeen DEF PressPatch, Patch, BackupStep, Go
  <2>2. CASE screen' = "box" /\ message' = "failed" /\ UNCHANGED vars
    BY <1>1, <1>6, <2>2, SameSeen DEF PressPatch, vars
  <2> QED
    BY <1>6, <2>1, <2>2 DEF PressPatch
<1>7. CASE PressUnpatch
  <2>1. CASE Unpatch /\ screen' = "busy" /\ UNCHANGED message
    BY <1>1, <1>7, <2>1 DEF PressUnpatch, Unpatch, Go
  <2>2. CASE screen' = "box" /\ message' = "failed" /\ UNCHANGED vars
    BY <1>1, <1>7, <2>2, SameSeen DEF PressUnpatch, vars
  <2> QED
    BY <1>7, <2>1, <2>2 DEF PressUnpatch
<1>8. CASE Works
  BY <1>1, <1>8 DEF Works, BeginBackup, EndBackup, BeginWrite, Go, windowVars
<1>9. CASE Returns
  <2>1. CASE EndWrite /\ message' = "patched"
    <3>1. Exists(exe') /\ \A img \in exe'.image : Hooked(img)
      BY <2>1, WholeSet DEF EndWrite, LayoutInv, TypeOK, Exists
    <3>2. {TRUE} \in Inspected(exe')
      BY <3>1, HookedSeen
    <3> QED
      BY <1>1, <1>9, <2>1, <3>2 DEF Returns, EndWrite, Go, Inspected
  <2>2. CASE EndRestore /\ message' = "restored"
    <3>1. {FALSE} \in Inspected(backup)
      BY <2>2, FreshSeen DEF EndRestore, LayoutInv, KeptInv
    <3> QED
      BY <1>1, <1>9, <2>2, <3>1 DEF Returns, EndRestore, Go, Inspected
  <2>3. CASE (NoRoom \/ CopyFails) /\ message' = "failed"
    BY <1>1, <1>9, <2>3 DEF Returns, NoRoom, CopyFails, Go
  <2> QED
    BY <1>9, <2>1, <2>2, <2>3 DEF Returns, Said
<1>10. CASE CloseBox
  BY <1>1, <1>10 DEF CloseBox, Refresh, vars
<1>11. CASE Dies
  BY <1>1, <1>11 DEF Dies, Crash, Go
<1>12. CASE Touch
  BY <1>1, <1>12 DEF Touch, Update, ReplaceDll
<1>13. CASE UNCHANGED allVars
  BY <1>1, <1>13, SameSeen DEF allVars
<1> QED
  BY <1>2, <1>3, <1>4, <1>5, <1>6, <1>7, <1>8, <1>9, <1>10, <1>11, <1>12, <1>13
     DEF WindowNext

\* The files and the messages keep to their invariants together.
THEOREM MessageInvHolds == WindowSpec => []MessageInv
<1>1. WindowInit => MessageInv
  BY InitLayout DEF WindowInit, Init, LayoutInv, MessageInv, WindowTypeOK, DoneIsDone
<1>2. WindowSpec => [](LayoutInv /\ KeptInv)
  BY WindowImplements, LayoutInvHolds, InitKept, NextKept, PTL DEF Spec
<1> QED
  BY <1>1, <1>2, MessageStep, PTL DEF WindowSpec

\* Each variable keeps its type, and an executable is patched once at most.
THEOREM WindowTypeCorrect == WindowSpec => []WindowTypeOK
<1>1. MessageInv => WindowTypeOK
  BY DEF MessageInv
<1> QED
  BY MessageInvHolds, <1>1, PTL

\* The window says that it has patched or restored an executable only of one
\* that can be told to be patched, or not to be, until the user changes it.
THEOREM DoneIsDoneHolds == WindowSpec => []DoneIsDone
<1>1. MessageInv => DoneIsDone
  BY DEF MessageInv
<1> QED
  BY MessageInvHolds, <1>1, PTL

==============================================================================
