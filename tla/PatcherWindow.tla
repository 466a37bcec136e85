----------------------------- MODULE PatcherWindow -----------------------------
(***************************************************************************)
(* The window of siglus_iat_patcher, main.rs, around PatchedExe: the user  *)
(* chooses the executable and presses Patch or Unpatch; the window says    *)
(* how it went in a message box, and what is there in its status text.     *)
(* Everything runs on the window's thread, and a message box disables the  *)
(* window, so that nothing of it runs while one is up.  The log and the    *)
(* paths are left out.                                                     *)
(***************************************************************************)
EXTENDS PatchedExe

VARIABLES
    screen,     \* "closed", "ready", "busy" in a call, or "box": a message is up
    chosen,     \* AppState.exe_path is set
    message,    \* what the box says: "none", "choose", "patched", "restored", "failed"
    shown,      \* the status text
    touched     \* history: the user changed files since the last refresh

windowVars == <<screen, chosen, message, shown, touched>>
allVars == <<exe, backup, dll, pc, installed, unfit,
             screen, chosen, message, shown, touched>>

NoStatus == [text |-> "none"]
FailedStatus == [text |-> "failed"]

\* What refresh_status may write: a torn executable can be read or not.
StatusTexts ==
    {IF seen = {} \/ dll = "unreadable" THEN FailedStatus
     ELSE [text |-> "status", patched |-> seen = {TRUE}, dll |-> dll,
           backup |-> Exists(backup)] : seen \in Inspected(exe)}

Refresh == shown' \in StatusTexts /\ touched' = FALSE

WindowInit ==
    /\ Init
    /\ screen = "closed" /\ chosen = FALSE
    /\ message = "none" /\ shown = NoStatus /\ touched = FALSE

------------------------------------------------------------------------------

Open ==
    /\ screen = "closed"
    /\ screen' = "ready"
    /\ UNCHANGED <<vars, chosen, message, shown, touched>>

\* The window is closed, or its process is ended.
Close ==
    /\ screen # "closed" /\ pc = "idle"
    /\ screen' = "closed" /\ chosen' = FALSE
    /\ message' = "none" /\ shown' = NoStatus /\ touched' = FALSE
    /\ UNCHANGED vars

\* The dialog lets the user choose a file that exists.
Browse ==
    /\ screen = "ready" /\ Exists(exe)
    /\ chosen' = TRUE /\ Refresh
    /\ UNCHANGED <<vars, screen, message>>

PressUnchosen ==
    /\ screen = "ready" /\ ~chosen
    /\ screen' = "box" /\ message' = "choose"
    /\ UNCHANGED <<vars, chosen, shown, touched>>

\* patch and unpatch begin, or return an error at once.
PressPatch ==
    /\ screen = "ready" /\ chosen
    /\ \/ Patch /\ screen' = "busy" /\ UNCHANGED message
       \/ /\ IOCanFail \/ dll # "same" \/ Inspected(exe) # {{FALSE}}
          /\ screen' = "box" /\ message' = "failed"
          /\ UNCHANGED vars
    /\ UNCHANGED <<chosen, shown, touched>>

PressUnpatch ==
    /\ screen = "ready" /\ chosen
    /\ \/ Unpatch /\ screen' = "busy" /\ UNCHANGED message
       \/ /\ IOCanFail \/ dll = "unreadable" \/ ~Exists(backup)
             \/ Inspected(exe) # {{TRUE}}
          /\ screen' = "box" /\ message' = "failed"
          /\ UNCHANGED vars
    /\ UNCHANGED <<chosen, shown, touched>>

Works ==
    /\ screen = "busy"
    /\ BeginBackup \/ EndBackup \/ BeginWrite
    /\ UNCHANGED windowVars

\* MUTANT drops the error of the copy back.
SaidAlways(result) == IF result = "failed" /\ pc = "restoring" THEN "restored" ELSE result
Said(result) == result

Returns ==
    /\ screen = "busy"
    /\ \/ EndWrite /\ message' = Said("patched")
       \/ EndRestore /\ message' = Said("restored")
       \/ (NoRoom \/ CopyFails) /\ message' = Said("failed")
    /\ screen' = "box"
    /\ UNCHANGED <<chosen, shown, touched>>

\* MUTANT returns at an error before the refresh.
RefreshesAfterSuccess == message \in {"patched", "restored"}
\* Only the request to choose first returns before the refresh.
RefreshesAfter == message # "choose"

CloseBox ==
    /\ screen = "box"
    /\ screen' = "ready" /\ message' = "none"
    /\ IF RefreshesAfter THEN Refresh ELSE UNCHANGED <<shown, touched>>
    /\ UNCHANGED <<vars, chosen>>

\* The tool ends in the middle of a call.
Dies ==
    /\ screen = "busy" /\ Crash
    /\ screen' = "closed" /\ chosen' = FALSE
    /\ message' = "none" /\ shown' = NoStatus /\ touched' = FALSE

Touch ==
    /\ Update \/ ReplaceDll
    /\ touched' = chosen
    /\ UNCHANGED <<screen, chosen, message, shown>>

WindowNext ==
    \/ Open \/ Close \/ Browse \/ PressUnchosen \/ PressPatch \/ PressUnpatch
    \/ Works \/ Returns \/ CloseBox \/ Dies \/ Touch

WindowSpec == WindowInit /\ [][WindowNext]_allVars

------------------------------------------------------------------------------

WindowTypeOK ==
    /\ TypeOK
    /\ screen \in {"closed", "ready", "busy", "box"}
    /\ message \in {"none", "choose", "patched", "restored", "failed"}
    /\ {chosen, touched} \subseteq BOOLEAN
    /\ screen = "busy" <=> pc # "idle"
    /\ message # "none" <=> screen = "box"

\* However a patch or an unpatch went or failed, the status text says what is
\* there as soon as the window can be used again, until the user changes it.
StatusTrue == screen = "ready" /\ chosen /\ ~touched => shown \in StatusTexts

\* The window says that an executable is patched, or restored, only of one
\* that can be told to be (a torn one might still be read as such).
DoneIsDone ==
    /\ message = "patched" /\ ~touched => {TRUE} \in Inspected(exe)
    /\ message = "restored" /\ ~touched => {FALSE} \in Inspected(exe)

==============================================================================
