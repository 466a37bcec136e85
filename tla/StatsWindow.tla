------------------------------ MODULE StatsWindow ------------------------------
(***************************************************************************)
(* The statistics window of a movie player, omv_player/overlay.rs: a       *)
(* thread with a message loop, made with the player and joined with it,    *)
(* and the game thread, which writes the text, toggles the window by a     *)
(* hotkey and closes it.  They share five atomics and a locked text, and   *)
(* the message queue.                                                      *)
(*                                                                         *)
(* A load of hwnd and the post that depends on it are one step: a message  *)
(* for a window that is gone in between is lost, as it is not sent to a    *)
(* window that is gone before.  The atomics are Relaxed in the code and    *)
(* sequentially consistent here.                                           *)
(***************************************************************************)
EXTENDS Naturals, Sequences

CONSTANTS
    Texts,           \* what a text may say
    NoText,          \* nothing is painted
    CreateCanFail,   \* CreateWindowExW may fail
    UserCanClose,    \* the user may close the window
    MaxMessages      \* bound on the message queue

ASSUME WindowAssumption ==
    /\ Texts # {} /\ NoText \notin Texts
    /\ {CreateCanFail, UserCanClose} \subseteq BOOLEAN
    /\ MaxMessages \in Nat

VARIABLES
    gpc,        \* where the game thread is in its call
    text,       \* StatsWindowState.text
    hwnd,       \* StatsWindowState.hwnd is set
    threadId,   \* StatsWindowState.thread_id is set
    closing,    \* StatsWindowState.shutdown
    visible,    \* StatsWindowState.visible
    wasDown,    \* StatsWindowState.hotkey_was_down
    tpc,        \* where the window's thread is
    messages,   \* the thread's posted messages
    window,     \* the window itself
    dirty,      \* the window has to be painted
    painted     \* the text in the window

sharedWindow == <<text, hwnd, threadId, closing, visible, wasDown>>
threadVars == <<tpc, messages, window, dirty, painted>>
windowVars == <<text, hwnd, threadId, closing, visible, wasDown,
                tpc, messages, window, dirty, painted>>

WindowTypeOK ==
    /\ text \in Texts
    /\ {hwnd, threadId, closing, visible, wasDown, dirty} \subseteq BOOLEAN
    /\ tpc \in {"none", "start", "probe", "create", "publish", "show", "check",
                "loop", "dead"}
    /\ messages \in Seq({"Visibility", "Updated", "Close", "Quit"})
    /\ window \in {"none", "hidden", "shown"}
    /\ painted \in Texts \union {NoText}

\* StatsWindowState as StatsWindow::new makes it; t is where its thread is.
NewWindow(t) ==
    /\ text = CHOOSE x \in Texts : TRUE
    /\ hwnd = FALSE /\ threadId = FALSE /\ closing = FALSE
    /\ visible = FALSE /\ wasDown = FALSE
    /\ tpc = t /\ messages = <<>> /\ window = "none"
    /\ dirty = FALSE /\ painted = NoText

------------------------------------------------------------------------------

\* PostMessageW: to a window that is there.
Post(m) == messages' = IF window = "none" THEN messages ELSE Append(messages, m)

\* PostThreadMessageW: to a thread that has a queue, from its PeekMessageW on.
PostThread(m) ==
    messages' = IF tpc \in {"none", "start", "probe", "dead"} THEN messages
                ELSE Append(messages, m)

\* update_hotkey: only the press of the keys toggles.
UpdateHotkey ==
    /\ gpc = "update"
    /\ \E down \in BOOLEAN :
          /\ wasDown' = down
          /\ IF down /\ ~wasDown
               THEN visible' = ~visible /\ gpc' = "notify"
               ELSE gpc' = "text" /\ UNCHANGED visible
    /\ UNCHANGED <<text, hwnd, threadId, closing, threadVars>>

NotifyVisibility ==
    /\ gpc = "notify"
    /\ IF hwnd THEN Post("Visibility") ELSE UNCHANGED messages
    /\ gpc' = "text"
    /\ UNCHANGED <<sharedWindow, tpc, window, dirty, painted>>

\* update: the text, and then the word to a window that is to be visible.
SetText ==
    /\ gpc = "text"
    /\ text' \in Texts
    /\ gpc' = "tell"
    /\ UNCHANGED <<hwnd, threadId, closing, visible, wasDown, threadVars>>

TellUpdated ==
    /\ gpc = "tell"
    /\ IF visible /\ hwnd THEN Post("Updated") ELSE UNCHANGED messages
    /\ gpc' = "idle"
    /\ UNCHANGED <<sharedWindow, tpc, window, dirty, painted>>

\* Drop: the flag, the message that fits what the thread has published so
\* far, and the join.
CloseFlag ==
    /\ gpc = "close"
    /\ closing' = TRUE
    /\ gpc' = "postclose"
    /\ UNCHANGED <<text, hwnd, threadId, visible, wasDown, threadVars>>

PostClose ==
    /\ gpc = "postclose"
    /\ IF hwnd THEN Post("Close") /\ gpc' = "joinwindow"
               ELSE gpc' = "postquit" /\ UNCHANGED messages
    /\ UNCHANGED <<sharedWindow, tpc, window, dirty, painted>>

PostQuit ==
    /\ gpc = "postquit"
    /\ IF threadId THEN PostThread("Quit") ELSE UNCHANGED messages
    /\ gpc' = "joinwindow"
    /\ UNCHANGED <<sharedWindow, tpc, window, dirty, painted>>

\* MUTANT does not wait.
WindowJoinedAtOnce == gpc = "joinwindow"
WindowJoined == gpc = "joinwindow" /\ tpc \in {"none", "dead"}

UpdateStep == UpdateHotkey \/ NotifyVisibility \/ SetText \/ TellUpdated
CloseStep == CloseFlag \/ PostClose \/ PostQuit

------------------------------------------------------------------------------

\* run_window_thread
ThreadStarts ==
    /\ tpc = "start" /\ tpc' = "probe"
    /\ threadId' = TRUE
    /\ UNCHANGED <<gpc, text, hwnd, closing, visible, wasDown,
                   messages, window, dirty, painted>>

ProbeQueue ==
    /\ tpc = "probe" /\ tpc' = "create"
    /\ UNCHANGED <<gpc, sharedWindow, messages, window, dirty, painted>>

CreateWindow ==
    /\ tpc = "create"
    /\ \/ tpc' = "publish" /\ window' = "hidden" /\ UNCHANGED messages
       \/ CreateCanFail /\ tpc' = "dead" /\ messages' = <<>> /\ UNCHANGED window
    /\ UNCHANGED <<gpc, sharedWindow, dirty, painted>>

PublishWindow ==
    /\ tpc = "publish" /\ tpc' = "show"
    /\ hwnd' = TRUE
    /\ UNCHANGED <<gpc, text, threadId, closing, visible, wasDown,
                   messages, window, dirty, painted>>

\* ShowWindow; a window that appears is painted.
Show(shown) ==
    /\ window' = IF shown THEN "shown" ELSE "hidden"
    /\ dirty' = (shown /\ (dirty \/ window # "shown"))

\* MUTANT takes the new window for hidden, as it was made.
VisibleAtFirstNever == FALSE
\* The hotkey may have been pressed before there was a window to tell.
VisibleAtFirst == visible

ShowFirst ==
    /\ tpc = "show" /\ tpc' = "check"
    /\ Show(VisibleAtFirst)
    /\ UNCHANGED <<gpc, sharedWindow, messages, painted>>

\* MUTANT relies on the message of the thread that drops the player.
CloseSeenNever == FALSE
\* The player may have been dropped before there was a window to tell.
CloseSeen == closing

CheckClosing ==
    /\ tpc = "check" /\ tpc' = "loop"
    /\ IF CloseSeen THEN Post("Close") ELSE UNCHANGED messages
    /\ UNCHANGED <<gpc, sharedWindow, window, dirty, painted>>

\* The loop ends with the thread, and the thread takes its window along.
ThreadEnds == tpc' = "dead" /\ window' = "none" /\ messages' = <<>>

\* WM_CLOSE destroys the window, and WM_DESTROY ends the loop.
DestroyWindow ==
    /\ ThreadEnds
    /\ hwnd' = FALSE
    /\ UNCHANGED <<gpc, text, threadId, closing, visible, wasDown, dirty, painted>>

\* MUTANT forgets to invalidate the window.
DirtyAfterUpdateNot == dirty
DirtyAfterUpdate == TRUE

\* GetMessageW and stats_window_proc
Dispatch ==
    /\ tpc = "loop" /\ messages # <<>>
    /\ \/ /\ Head(messages) = "Visibility"
          /\ Show(visible)
          /\ messages' = Tail(messages)
          /\ UNCHANGED <<gpc, sharedWindow, tpc, painted>>
       \/ /\ Head(messages) = "Updated"
          /\ dirty' = DirtyAfterUpdate
          /\ messages' = Tail(messages)
          /\ UNCHANGED <<gpc, sharedWindow, tpc, window, painted>>
       \/ Head(messages) = "Close" /\ DestroyWindow
       \/ /\ Head(messages) = "Quit"
          /\ ThreadEnds
          /\ UNCHANGED <<gpc, sharedWindow, dirty, painted>>

\* WM_PAINT comes when no message is left.
Paint ==
    /\ tpc = "loop" /\ messages = <<>>
    /\ dirty /\ window = "shown"
    /\ painted' = text /\ dirty' = FALSE
    /\ UNCHANGED <<gpc, sharedWindow, tpc, messages, window>>

UserCloses ==
    /\ UserCanClose
    /\ tpc = "loop" /\ window = "shown"
    /\ DestroyWindow

WindowStep ==
    \/ ThreadStarts \/ ProbeQueue \/ CreateWindow \/ PublishWindow \/ ShowFirst
    \/ CheckClosing \/ Dispatch \/ Paint

==============================================================================
