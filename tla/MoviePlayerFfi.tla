---------------------------- MODULE MoviePlayerFfi ----------------------------
(***************************************************************************)
(* The life of a movie player behind the functions that the engine calls,  *)
(* omv_hook.rs and OmvPlayer of omv_player/mod.rs: new, init, fill_buffer  *)
(* and destroy, and the two threads that an opened player owns, the worker *)
(* and the statistics window.  Playback itself is OmvPlayer's; here the    *)
(* worker only converts a frame, which stands for every frame of its movie *)
(* as they all have one geometry.                                          *)
(*                                                                         *)
(* The engine makes its calls on one thread, so OnceLock::set never finds  *)
(* a value that init has not seen.  A call with a null player does nothing *)
(* and is left out.                                                        *)
(***************************************************************************)
EXTENDS StatsWindow, MovieFile

CONSTANTS
    Files,          \* the movie files
    NoMovie,        \* no file
    Avx2,           \* the processor has AVX2
    SpawnCanFail    \* a thread may fail to start

ASSUME FilesAssumption ==
    /\ NoMovie \notin Files
    /\ {Avx2, SpawnCanFail} \subseteq BOOLEAN
    /\ \A f \in Files : f.type \in Types /\ f.width \in Nat /\ f.height \in Nat
                        /\ f.decoded \in Nat /\ f.subsampled \in BOOLEAN

VARIABLES
    player,     \* the engine has a player
    inner,      \* OmvPlayer.inner: the file it plays, or NoMovie
    lastError,  \* OmvPlayer.last_error, or "none"
    told,       \* what init has returned, or "nothing"
    worker,     \* the worker thread: "none", "running" or "dead" by a panic
    frame       \* what the worker has made of a frame

ffiVars == <<player, inner, lastError, told, worker, frame>>
vars == <<gpc, text, hwnd, threadId, closing, visible, wasDown,
          tpc, messages, window, dirty, painted,
          player, inner, lastError, told, worker, frame>>

Init ==
    /\ gpc = "idle" /\ NewWindow("none")
    /\ player = FALSE /\ inner = NoMovie /\ lastError = "none" /\ told = "nothing"
    /\ worker = "none" /\ frame = "none"

Begin == gpc = "idle" /\ Len(messages) < MaxMessages

------------------------------------------------------------------------------

\* spp_movie_player_new
New ==
    /\ Begin /\ ~player
    /\ player' = TRUE
    /\ UNCHANGED <<gpc, windowVars, inner, lastError, told, worker, frame>>

\* What init leaves of the player when it opens nothing.
NotOpened == UNCHANGED <<gpc, windowVars, player, inner, worker, frame>>

\* MUTANT keeps the reason to itself.
InitFailedSilent(error) == told' = "TRUE" /\ UNCHANGED lastError
\* OmvPlayer::init returns false, and spp_movie_player_init true.
InitFailed(error) == told' = "TRUE" /\ lastError' = error

\* The path cannot be read, or the worker's thread cannot be started and
\* thread::spawn panics in init: the one way in which init returns false.
InitRefused ==
    /\ Begin /\ player
    /\ told' = "FALSE"
    /\ UNCHANGED lastError /\ NotOpened

InitAgain ==
    /\ Begin /\ player /\ inner # NoMovie
    /\ InitFailed("alreadyInitialized") /\ NotOpened

InitFails ==
    /\ Begin /\ player /\ inner = NoMovie
    /\ \E f \in Files : ~Opens(f) /\ InitFailed(OpenError(f))
    /\ NotOpened

\* The window's thread may fail to start: the player does without.
InitOpens ==
    /\ Begin /\ player /\ inner = NoMovie
    /\ \E f \in Files : Opens(f) /\ inner' = f
    /\ worker' = "running" /\ frame' = "none"
    /\ lastError' = "none" /\ told' = "TRUE"
    /\ tpc' \in {"start"} \union (IF SpawnCanFail THEN {"none"} ELSE {})
    /\ text' = CHOOSE x \in Texts : TRUE
    /\ hwnd' = FALSE /\ threadId' = FALSE /\ closing' = FALSE
    /\ visible' = FALSE /\ wasDown' = FALSE
    /\ messages' = <<>> /\ window' = "none"
    /\ dirty' = FALSE /\ painted' = NoText
    /\ UNCHANGED <<gpc, player>>

\* fill_buffer_at without a movie, or with a pitch that is too small.
FillFails ==
    /\ Begin /\ player
    /\ lastError' = IF inner = NoMovie THEN "notInitialized" ELSE "pitch"
    /\ UNCHANGED <<gpc, windowVars, player, inner, told, worker, frame>>

\* It copies or clears the picture, and updates the statistics.
Fill ==
    /\ Begin /\ inner # NoMovie
    /\ lastError' = "none"
    /\ gpc' = "update"
    /\ UNCHANGED <<windowVars, player, inner, told, worker, frame>>

\* spp_movie_player_destroy: the box goes, with the fields of Player in their
\* order: the worker is joined before the window is closed.
Destroy ==
    /\ Begin /\ player
    /\ gpc' = IF inner = NoMovie THEN "free" ELSE "joinworker"
    /\ UNCHANGED <<windowVars, ffiVars>>

\* MUTANT lets go of the worker without a join.
WorkerAfterJoinKept == worker
\* The join returns for a worker that has panicked as well.
WorkerAfterJoin == "none"

WorkerJoined ==
    /\ gpc = "joinworker"
    /\ worker' = WorkerAfterJoin /\ frame' = "none"
    /\ gpc' = "close"
    /\ UNCHANGED <<windowVars, player, inner, lastError, told>>

WindowGone ==
    /\ WindowJoined
    /\ gpc' = "free"
    /\ UNCHANGED <<windowVars, ffiVars>>

Free ==
    /\ gpc = "free"
    /\ gpc' = "idle"
    /\ player' = FALSE /\ inner' = NoMovie /\ lastError' = "none" /\ told' = "nothing"
    /\ UNCHANGED <<windowVars, worker, frame>>

------------------------------------------------------------------------------

\* The worker decodes and converts.  A conversion that fails is a packet that
\* does not decode: the worker goes idle.
ConvertFrame ==
    /\ worker = "running" /\ frame = "none"
    /\ LET made == Converted(inner)
       IN  IF made = "panic" THEN worker' = "dead" /\ UNCHANGED frame
                             ELSE frame' = made /\ UNCHANGED worker
    /\ UNCHANGED <<gpc, windowVars, player, inner, lastError, told>>

CallStep ==
    \/ (UpdateStep \/ CloseStep) /\ UNCHANGED ffiVars
    \/ WorkerJoined \/ WindowGone \/ Free

Engine == New \/ InitRefused \/ InitAgain \/ InitFails \/ InitOpens
              \/ FillFails \/ Fill \/ Destroy

WindowThread == WindowStep /\ UNCHANGED ffiVars

Next == Engine \/ CallStep \/ ConvertFrame \/ WindowThread
        \/ (UserCloses /\ UNCHANGED ffiVars)

\* The three threads run.  Nothing makes the engine call or the user close.
Spec ==
    /\ Init /\ [][Next]_vars
    /\ WF_vars(CallStep) /\ WF_vars(WindowThread) /\ WF_vars(ConvertFrame)

------------------------------------------------------------------------------

\* The messages last_error may have.
Errors == {"none", "alreadyInitialized", "notInitialized", "pitch", "noFile", "noHeader",
           "dimensions", "counts", "noInput", "noStream", "noDecoder", "decodedWidth",
           "decodedHeight"}

TypeOK ==
    /\ gpc \in {"idle", "update", "notify", "text", "tell", "joinworker", "close",
                "postclose", "postquit", "joinwindow", "free"}
    /\ WindowTypeOK
    /\ player \in BOOLEAN
    /\ inner \in Files \union {NoMovie}
    /\ lastError \in Errors
    /\ told \in {"nothing", "TRUE", "FALSE"}
    /\ worker \in {"none", "running", "dead"}
    /\ worker = "none" <=> \/ inner = NoMovie
                           \/ gpc \in {"close", "postclose", "postquit", "joinwindow",
                                       "free"}
    /\ frame \in {"none", "rgb", "rgba", "old", "yuv", "error"}

\* No thread outlives its player, whose memory it would go on using: a thread
\* runs only for an opened movie, and none is left when the player is freed.
ThreadsOwned ==
    inner = NoMovie \/ gpc = "free" =>
        worker = "none" /\ tpc \in {"none", "dead"}

\* The error message is the only way to learn that init has opened nothing:
\* when init was said to succeed and there is no error, there is a movie.
ErrorTells == told = "TRUE" /\ lastError = "none" => inner # NoMovie

\* The pictures a movie should have: rgb with an opaque alpha, or with the
\* alpha of row y in the plane and the row where the encoder has put it.
Pixel(f, y, x) ==
    LET third == DivCeil(f.height, 3)
        alpha == IF f.type = "Rgb" THEN "opaque"
                 ELSE <<y \div third, f.height + (y % third), x>>
    IN  <<<<2, y, x>>, <<1, y, x>>, <<0, y, x>>, alpha>>

RightPicture(f) ==
    [y \in 0..(f.height - 1) |-> [x \in 0..(f.width - 1) |-> Pixel(f, y, x)]]

Misconverted ==
    {f \in Files : /\ Opens(f) /\ ~f.subsampled
                   /\ Converted(f) \in {"rgb", "rgba"}
                   /\ Picture(f, Avx2) # RightPicture(f)}

\* A picture that is made has every byte in its place: the AVX2 blocks, the
\* rest of the row, and the three bands of alpha.
PictureRight == frame \in {"rgb", "rgba"} => inner \notin Misconverted

\* A movie that init accepts is shown, unless its frames are not what its
\* header says (more rows, fewer colours, an alpha of one row) or its type is
\* not known: of those, init lets all pass.
AcceptedShows ==
    worker = "dead" \/ frame \in {"old", "error"} =>
        \/ inner.subsampled
        \/ inner.decoded > inner.height + (IF inner.type = "Rgba"
                                             THEN DivCeil(inner.height, 3) ELSE 0)
        \/ inner.type = "Rgba" /\ inner.height = 1
        \/ inner.type = "Unknown"

------------------------------------------------------------------------------

\* Every call of the engine returns; destroy waits for the window's thread,
\* wherever that is when the player is dropped.
CallsReturn == gpc # "idle" ~> gpc = "idle"

\* The window is there when it was last asked for, and not when it was not.
WindowFollows ==
    []<>(tpc \in {"none", "dead"} \/ (window = "shown" <=> visible))

\* Once the engine is silent, a window that is shown says the latest.
PaintsLatest ==
    <>[](gpc = "idle") => []<>(window # "shown" \/ painted = text)

==============================================================================
