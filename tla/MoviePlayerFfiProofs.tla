-------------------------- MODULE MoviePlayerFfiProofs --------------------------
(***************************************************************************)
(* What holds of a movie player for any movie files, whatever of it fails  *)
(* and wherever its threads are.                                           *)
(***************************************************************************)
EXTENDS MoviePlayerFfi, FrameConvertProofs

Closed == {"close", "postclose", "postquit", "joinwindow", "free"}

\* An opened player has a worker until it is joined, and a movie that opens.
WorkerOwned ==
    /\ inner \in Files \union {NoMovie}
    /\ inner # NoMovie => Opens(inner)
    /\ worker \in {"none", "running", "dead"}
    /\ worker = "none" <=> inner = NoMovie \/ gpc \in Closed

\* The thread of the window is over when there is no movie, and when the
\* player is freed.
WindowOwned == inner = NoMovie \/ gpc = "free" => tpc \in {"none", "dead"}

\* A frame, and the end of a worker, come from the conversion of the movie.
FrameOwned ==
    /\ worker = "none" => frame = "none"
    /\ worker = "dead" => Converted(inner) = "panic"
    /\ frame # "none" => frame = Converted(inner)

FfiInv == WorkerOwned /\ WindowOwned /\ FrameOwned /\ ErrorTells

\* There is a reason for every movie that does not open.
LEMMA ErrorsSaid == ASSUME NEW f, ~Opens(f) PROVE OpenError(f) # "none"
<1> DEFINE errors == OpenErrors(f)
           First(i) == errors[i] # "none" /\ \A j \in 1..(i - 1) : errors[j] = "none"
<1>1. DOMAIN errors = 1..9
  BY DEF OpenErrors, HeaderErrors, DecoderErrors, SizeErrors
<1>2. OpenError(f) = errors[CHOOSE i \in DOMAIN errors : First(i)]
  BY DEF OpenError
<1>3. PICK n \in 1..9 : errors[n] # "none"
  BY <1>1 DEF Opens
<1> HIDE DEF errors
<1>4. \E i \in 1..9 : First(i)
  BY <1>3
<1> QED
  BY <1>1, <1>2, <1>4

\* There is no player at first.
LEMMA InitFfi == Init => FfiInv
BY DEF Init, NewWindow, FfiInv, WorkerOwned, WindowOwned, FrameOwned, ErrorTells, Closed

\* The engine's calls.
LEMMA EngineKeeps == FfiInv /\ Engine => FfiInv'
<1> SUFFICES ASSUME FfiInv, Engine PROVE FfiInv'
  OBVIOUS
<1> USE DEF Begin, NotOpened, windowVars, threadVars, ffiVars, sharedWindow, Closed
<1>1. CASE New
  BY <1>1 DEF New, FfiInv, WorkerOwned, WindowOwned, FrameOwned, ErrorTells
<1>2. CASE InitRefused
  BY <1>2 DEF InitRefused, FfiInv, WorkerOwned, WindowOwned, FrameOwned, ErrorTells
<1>3. CASE InitAgain
  BY <1>3 DEF InitAgain, InitFailed, FfiInv, WorkerOwned, WindowOwned, FrameOwned,
              ErrorTells
<1>4. CASE InitFails
  BY <1>4, ErrorsSaid DEF InitFails, InitFailed, FfiInv, WorkerOwned, WindowOwned,
              FrameOwned, ErrorTells
<1>5. CASE InitOpens
  BY <1>5, FilesAssumption DEF InitOpens, FfiInv, WorkerOwned, WindowOwned, FrameOwned,
              ErrorTells
<1>6. CASE FillFails
  BY <1>6 DEF FillFails, FfiInv, WorkerOwned, WindowOwned, FrameOwned, ErrorTells
<1>7. CASE Fill
  BY <1>7 DEF Fill, FfiInv, WorkerOwned, WindowOwned, FrameOwned, ErrorTells
<1>8. CASE Destroy
  BY <1>8 DEF Destroy, FfiInv, WorkerOwned, WindowOwned, FrameOwned, ErrorTells
<1> QED
  BY <1>1, <1>2, <1>3, <1>4, <1>5, <1>6, <1>7, <1>8 DEF Engine

\* The steps of a call that has begun.
LEMMA CallKeeps == FfiInv /\ CallStep => FfiInv'
<1> SUFFICES ASSUME FfiInv, CallStep PROVE FfiInv'
  OBVIOUS
<1> USE DEF windowVars, threadVars, ffiVars, sharedWindow, Closed
<1>1. CASE UpdateStep /\ UNCHANGED ffiVars
  BY <1>1 DEF UpdateStep, UpdateHotkey, NotifyVisibility, SetText, TellUpdated,
              FfiInv, WorkerOwned, WindowOwned, FrameOwned, ErrorTells
<1>2. CASE CloseStep /\ UNCHANGED ffiVars
  BY <1>2 DEF CloseStep, CloseFlag, PostClose, PostQuit,
              FfiInv, WorkerOwned, WindowOwned, FrameOwned, ErrorTells
<1>3. CASE WorkerJoined
  BY <1>3 DEF WorkerJoined, WorkerAfterJoin,
              FfiInv, WorkerOwned, WindowOwned, FrameOwned, ErrorTells
<1>4. CASE WindowGone
  BY <1>4 DEF WindowGone, WindowJoined,
              FfiInv, WorkerOwned, WindowOwned, FrameOwned, ErrorTells
<1>5. CASE Free
  BY <1>5 DEF Free, FfiInv, WorkerOwned, WindowOwned, FrameOwned, ErrorTells
<1> QED
  BY <1>1, <1>2, <1>3, <1>4, <1>5 DEF CallStep

\* The worker converts a frame of its movie, or dies of it.
LEMMA ConvertKeeps == FfiInv /\ ConvertFrame => FfiInv'
BY DEF ConvertFrame, windowVars, FfiInv, WorkerOwned, WindowOwned, FrameOwned, ErrorTells,
       Closed

\* The window's thread never starts by itself.
LEMMA WindowKeeps ==
    FfiInv /\ (WindowStep \/ UserCloses) /\ UNCHANGED ffiVars => FfiInv'
<1> SUFFICES ASSUME FfiInv, WindowStep \/ UserCloses, UNCHANGED ffiVars PROVE FfiInv'
  OBVIOUS
<1>1. gpc' = gpc /\ (tpc \in {"none", "dead"} => tpc' \in {"none", "dead"})
  BY DEF WindowStep, ThreadStarts, ProbeQueue, CreateWindow, PublishWindow, ShowFirst,
         CheckClosing, Dispatch, Paint, UserCloses, DestroyWindow, ThreadEnds
<1> QED
  BY <1>1 DEF ffiVars, FfiInv, WorkerOwned, WindowOwned, FrameOwned, ErrorTells

\* The inductive invariant of the player's life.
THEOREM FfiInvHolds == Spec => []FfiInv
<1>1. FfiInv /\ UNCHANGED vars => FfiInv'
  BY DEF vars, FfiInv, WorkerOwned, WindowOwned, FrameOwned, ErrorTells
<1>2. FfiInv /\ [Next]_vars => FfiInv'
  BY <1>1, EngineKeeps, CallKeeps, ConvertKeeps, WindowKeeps DEF Next, WindowThread
<1> QED
  BY InitFfi, <1>2, PTL DEF Spec

\* No thread outlives its player, wherever it was when the player was dropped.
THEOREM ThreadsOwnedHolds == Spec => []ThreadsOwned
<1>1. FfiInv => ThreadsOwned
  BY DEF FfiInv, WorkerOwned, WindowOwned, ThreadsOwned, Closed
<1> QED
  BY FfiInvHolds, <1>1, PTL

\* When init was said to succeed and there is no error, there is a movie.
THEOREM ErrorTellsHolds == Spec => []ErrorTells
<1>1. FfiInv => ErrorTells
  BY DEF FfiInv
<1> QED
  BY FfiInvHolds, <1>1, PTL

\* What is known of the size of a movie that opens.
LEMMA OpensMeans ==
    ASSUME NEW f, Opens(f)
    PROVE  f.height > 0 /\ f.decoded >= ExpectedRows(f)
<1>1. DOMAIN OpenErrors(f) = 1..9
  BY DEF OpenErrors, HeaderErrors, DecoderErrors, SizeErrors
<1>2. \A i \in 1..9 : OpenErrors(f)[i] = "none"
  BY <1>1 DEF Opens
<1>3. OpenErrors(f)[3] = "none" /\ OpenErrors(f)[9] = "none"
  BY <1>2
<1> QED
  BY <1>3 DEF OpenErrors, HeaderErrors, DecoderErrors, SizeErrors, Unless

\* Which movies open and cannot be converted.
LEMMA NotConverted ==
    ASSUME NEW f \in Files, Opens(f), Converted(f) \in {"panic", "old", "error"}
    PROVE  \/ f.subsampled
           \/ f.decoded > f.height + (IF f.type = "Rgba" THEN DivCeil(f.height, 3) ELSE 0)
           \/ f.type = "Rgba" /\ f.height = 1
           \/ f.type = "Unknown"
<1>1. f.type \in Types /\ f.height \in Nat /\ f.decoded \in Nat
  BY FilesAssumption
<1>2. f.height > 0 /\ f.decoded >= ExpectedRows(f)
  BY OpensMeans
<1>3. CASE f.type = "Rgb"
  BY <1>1, <1>2, <1>3 DEF Converted, RgbConverted, ExpectedRows, PlaneRows
<1>4. CASE f.type = "Yuv"
  BY <1>1, <1>2, <1>4 DEF Converted, YuvConverted
<1>5. CASE f.type = "Rgba"
  <2>1. ~BandsInside(f)
    BY <1>5 DEF Converted, RgbaConverted
  <2> QED
    BY <1>1, <1>2, <1>5, <2>1
       DEF ExpectedRows, BandsInside, BandRows, AlphaRows, DivCeil, PlaneRows
<1> QED
  BY <1>1, <1>3, <1>4, <1>5 DEF Types

\* Of the movies that open, only those whose frames are not what the header
\* says are not shown.
THEOREM AcceptedShowsHolds == Spec => []AcceptedShows
<1>1. FfiInv => AcceptedShows
  <2> SUFFICES ASSUME FfiInv, worker = "dead" \/ frame \in {"old", "error"}
               PROVE  AcceptedShows
    BY DEF AcceptedShows
  <2>1. inner \in Files /\ Opens(inner) /\ Converted(inner) \in {"panic", "old", "error"}
    BY DEF FfiInv, WorkerOwned, FrameOwned
  <2> QED
    BY <2>1, NotConverted DEF AcceptedShows
<1> QED
  BY FfiInvHolds, <1>1, PTL

\* Every picture of a movie that opens has every byte in its place, with AVX2
\* and without, whatever the size.
LEMMA NothingMisconverted == Misconverted = {}
<1> SUFFICES ASSUME NEW f \in Files, Opens(f), ~f.subsampled, Converted(f) \in {"rgb", "rgba"}
             PROVE  Picture(f, Avx2) = RightPicture(f)
  BY DEF Misconverted
<1>1. f.type \in Types /\ f.height \in Nat /\ f.width \in Nat /\ f.height > 0
  BY FilesAssumption, OpensMeans
<1>2. f.type = "Rgb" \/ (f.type = "Rgba" /\ BandsInside(f))
  BY <1>1 DEF Converted, RgbConverted, RgbaConverted, YuvConverted, Types
<1>3. \A p \in 0..2 : \A y : \A x \in 0..(f.width - 1) : Byte(f, p, y, x) = <<p, y, x>>
  BY <1>1 DEF Byte, PlaneColumns
<1>4. CASE f.type = "Rgb"
  <2>1. Picture(f, Avx2) = RgbPicture(f)
    BY <1>4 DEF Picture
  <2>2. ASSUME NEW y \in 0..(f.height - 1), NEW x \in 0..(f.width - 1)
        PROVE  RgbPicture(f)[y][x] = Pixel(f, y, x)
    BY <1>3, <1>4 DEF RgbPicture, ScalarRow, PlaneRow, Pixel
  <2> QED
    BY <2>1, <2>2 DEF RgbPicture, ScalarRow, RightPicture
<1>5. CASE f.type = "Rgba" /\ BandsInside(f)
  <2> DEFINE Bytes(y) ==
        ScalarRow(f.width, PlaneRow(f, 2, y), PlaneRow(f, 1, y), PlaneRow(f, 0, y),
                  PlaneRow(f, AlphaPlace(f.height, y).plane, AlphaPlace(f.height, y).row))
  <2>1. ASSUME NEW y \in 0..(f.height - 1) PROVE RgbaPicture(f, Avx2)[y] = Bytes(y)
    <3>1. CASE Avx2
      BY <3>1, <1>1, RowsAgree DEF RgbaPicture
    <3>2. CASE ~Avx2
      BY <3>2 DEF RgbaPicture
    <3> QED
      BY <3>1, <3>2
  <2>2. ASSUME NEW y \in 0..(f.height - 1), NEW x \in 0..(f.width - 1)
        PROVE  Bytes(y)[x] = Pixel(f, y, x)
    <3>1. AlphaPlace(f.height, y) = [plane |-> y \div DivCeil(f.height, 3),
                                     row |-> f.height + (y % DivCeil(f.height, 3))]
      BY <1>1, <1>5, AlphaIsThere DEF BandsInside
    <3>2. AlphaPlace(f.height, y).plane \in 0..2
      BY <1>1, <1>5, <3>1, AlphaIsThere DEF BandsInside
    <3> QED
      BY <1>3, <1>5, <3>1, <3>2 DEF ScalarRow, PlaneRow, Pixel
  <2>3. Picture(f, Avx2) = RgbaPicture(f, Avx2)
    BY <1>5 DEF Picture
  <2>4. ASSUME NEW y \in 0..(f.height - 1)
        PROVE  Bytes(y) = [x \in 0..(f.width - 1) |-> Pixel(f, y, x)]
    BY <2>2 DEF ScalarRow
  <2>5. RgbaPicture(f, Avx2) = [y \in 0..(f.height - 1) |-> RgbaPicture(f, Avx2)[y]]
    BY DEF RgbaPicture
  <2> HIDE DEF Bytes
  <2> QED
    BY <2>1, <2>3, <2>4, <2>5 DEF RightPicture
<1> QED
  BY <1>2, <1>4, <1>5

\* A picture of any size has every byte in its place.
THEOREM PictureRightHolds == Spec => []PictureRight
<1>1. PictureRight
  BY NothingMisconverted DEF PictureRight
<1> QED
  BY <1>1, PTL

------------------------------------------------------------------------------

\* The part of TypeOK that FfiInv does not speak of.
FfiTyped ==
    /\ gpc \in {"idle", "update", "notify", "text", "tell", "joinworker", "close",
                "postclose", "postquit", "joinwindow", "free"}
    /\ WindowTypeOK
    /\ player \in BOOLEAN
    /\ lastError \in Errors
    /\ told \in {"nothing", "TRUE", "FALSE"}
    /\ frame \in {"none", "rgb", "rgba", "old", "yuv", "error"}

\* Every reason for which a movie does not open is one of the errors.
LEMMA ErrorsAreKnown == ASSUME NEW f, ~Opens(f) PROVE OpenError(f) \in Errors
<1> DEFINE errors == OpenErrors(f)
           First(i) == errors[i] # "none" /\ \A j \in 1..(i - 1) : errors[j] = "none"
<1>1. DOMAIN errors = 1..9 /\ \A i \in 1..9 : errors[i] \in Errors
  BY DEF OpenErrors, HeaderErrors, DecoderErrors, SizeErrors, Unless, Errors
<1>2. OpenError(f) = errors[CHOOSE i \in DOMAIN errors : First(i)]
  BY DEF OpenError
<1>3. PICK n \in 1..9 : errors[n] # "none"
  BY <1>1 DEF Opens
<1> HIDE DEF errors
<1>4. \E i \in 1..9 : First(i)
  BY <1>3
<1> QED
  BY <1>1, <1>2, <1>4

\* What conversions make.
LEMMA ConvertedTo ==
    ASSUME NEW f \in Files
    PROVE  Converted(f) \in {"panic", "rgb", "rgba", "old", "yuv", "error"}
BY FilesAssumption
   DEF Types, Converted, RgbConverted, RgbaConverted, YuvConverted

\* The messages that are posted, and queues of them.
Messages == {"Visibility", "Updated", "Close", "Quit"}

\* A queue of messages stays one when it grows or is taken from.
LEMMA QueuesOfMessages ==
    /\ <<>> \in Seq(Messages)
    /\ \A q \in Seq(Messages), m \in Messages : Append(q, m) \in Seq(Messages)
    /\ \A q \in Seq(Messages) : q # <<>> => Tail(q) \in Seq(Messages)
OBVIOUS

\* A message that is posted goes to the end of the queue, or is lost.
LEMMA Posting ==
    ASSUME messages \in Seq(Messages), NEW m \in Messages, Post(m) \/ PostThread(m)
    PROVE  messages' \in Seq(Messages)
BY QueuesOfMessages DEF Post, PostThread

\* The engine's calls keep the types.
LEMMA EngineTyped == FfiTyped /\ FfiInv /\ Engine => FfiTyped'
<1> SUFFICES ASSUME FfiTyped, FfiInv, Engine PROVE FfiTyped'
  OBVIOUS
<1> USE DEF Begin, NotOpened, windowVars, threadVars, ffiVars, sharedWindow, FfiTyped,
            WindowTypeOK
<1>1. CASE New
  BY <1>1 DEF New
<1>2. CASE InitRefused
  BY <1>2 DEF InitRefused
<1>3. CASE InitAgain
  BY <1>3 DEF InitAgain, InitFailed, Errors
<1>4. CASE InitFails
  BY <1>4, ErrorsAreKnown DEF InitFails, InitFailed
<1>5. CASE InitOpens
  <2>1. messages' = <<>> /\ messages' \in Seq(Messages)
    BY <1>5, QueuesOfMessages DEF InitOpens
  <2>2. text' \in Texts
    BY <1>5, WindowAssumption DEF InitOpens
  <2>3. WindowTypeOK'
    <3>1. messages' \in Seq({"Visibility", "Updated", "Close", "Quit"})
      BY <2>1 DEF Messages
    <3> QED
      BY <1>5, <2>2, <3>1 DEF InitOpens
  <2> QED
    BY <1>5, <2>3 DEF InitOpens, Errors
<1>6. CASE FillFails
  BY <1>6 DEF FillFails, Errors
<1>7. CASE Fill
  BY <1>7 DEF Fill, Errors
<1>8. CASE Destroy
  BY <1>8 DEF Destroy
<1> QED
  BY <1>1, <1>2, <1>3, <1>4, <1>5, <1>6, <1>7, <1>8 DEF Engine

\* So do the steps of a call that has begun, and the conversion.
LEMMA CallTyped == FfiTyped /\ FfiInv /\ (CallStep \/ ConvertFrame) => FfiTyped'
<1> SUFFICES ASSUME FfiTyped, FfiInv, CallStep \/ ConvertFrame PROVE FfiTyped'
  OBVIOUS
<1> USE DEF windowVars, threadVars, ffiVars, sharedWindow, FfiTyped, WindowTypeOK
<1>1. CASE UpdateStep /\ UNCHANGED ffiVars
  BY <1>1 DEF UpdateStep, UpdateHotkey, NotifyVisibility, SetText, TellUpdated, Post
<1>2. CASE CloseStep /\ UNCHANGED ffiVars
  <2>1. messages' \in Seq(Messages)
    BY <1>2, Posting DEF CloseStep, CloseFlag, PostClose, PostQuit, Messages
  <2>2. messages' \in Seq({"Visibility", "Updated", "Close", "Quit"})
    BY <2>1 DEF Messages
  <2> QED
    BY <1>2, <2>2 DEF CloseStep, CloseFlag, PostClose, PostQuit
<1>3. CASE WorkerJoined
  BY <1>3 DEF WorkerJoined
<1>4. CASE WindowGone
  BY <1>4 DEF WindowGone
<1>5. CASE Free
  BY <1>5 DEF Free, Errors
<1>6. CASE ConvertFrame
  <2>1. inner \in Files
    BY <1>6 DEF ConvertFrame, FfiInv, WorkerOwned
  <2> QED
    BY <1>6, <2>1, ConvertedTo DEF ConvertFrame
<1> QED
  BY <1>1, <1>2, <1>3, <1>4, <1>5, <1>6 DEF CallStep

\* And the window's thread, whatever message it handles.
LEMMA WindowTyped ==
    FfiTyped /\ (WindowStep \/ UserCloses) /\ UNCHANGED ffiVars => FfiTyped'
<1> SUFFICES ASSUME FfiTyped, WindowStep \/ UserCloses, UNCHANGED ffiVars PROVE FfiTyped'
  OBVIOUS
<1> USE DEF ffiVars, sharedWindow, FfiTyped, WindowTypeOK
<1>1. messages' \in Seq(Messages)
  <2>1. messages \in Seq(Messages)
    BY DEF Messages
  <2>2. \/ messages' \in {messages, <<>>} \/ Post("Close")
        \/ messages # <<>> /\ messages' = Tail(messages)
    BY DEF WindowStep, ThreadStarts, ProbeQueue, CreateWindow, PublishWindow, ShowFirst,
           CheckClosing, Dispatch, Paint, UserCloses, DestroyWindow, ThreadEnds
  <2> QED
    BY <2>1, <2>2, Posting, QueuesOfMessages DEF Messages
<1>2. messages' \in Seq({"Visibility", "Updated", "Close", "Quit"})
  BY <1>1 DEF Messages
<1>3. CASE ThreadStarts \/ ProbeQueue \/ CreateWindow \/ PublishWindow
  BY <1>2, <1>3 DEF ThreadStarts, ProbeQueue, CreateWindow, PublishWindow
<1>4. CASE ShowFirst \/ CheckClosing
  BY <1>2, <1>4 DEF ShowFirst, CheckClosing, Show, VisibleAtFirst
<1>5. CASE Dispatch
  BY <1>2, <1>5 DEF Dispatch, Show, DestroyWindow, ThreadEnds, DirtyAfterUpdate
<1>6. CASE Paint \/ UserCloses
  BY <1>2, <1>6 DEF Paint, UserCloses, DestroyWindow, ThreadEnds
<1> QED
  BY <1>3, <1>4, <1>5, <1>6 DEF WindowStep

\* The types hold at the start, and every step keeps them.
LEMMA InitTyped == Init => FfiTyped
<1> SUFFICES ASSUME Init PROVE FfiTyped
  OBVIOUS
<1>1. messages \in Seq({"Visibility", "Updated", "Close", "Quit"})
  BY QueuesOfMessages DEF Init, NewWindow, Messages
<1> QED
  BY <1>1, WindowAssumption DEF Init, NewWindow, FfiTyped, WindowTypeOK, Errors

LEMMA NextTyped == FfiTyped /\ FfiInv /\ [Next]_vars => FfiTyped'
<1>1. FfiTyped /\ UNCHANGED vars => FfiTyped'
  BY DEF vars, FfiTyped, WindowTypeOK
<1> QED
  BY <1>1, EngineTyped, CallTyped, WindowTyped DEF Next, WindowThread

\* The variables of all three threads keep their types.
THEOREM FfiTypedHolds == Spec => []FfiTyped
BY FfiInvHolds, InitTyped, NextTyped, PTL DEF Spec

\* Each variable keeps its type, and a worker is there as long as its movie.
THEOREM TypeCorrect == Spec => []TypeOK
<1>1. FfiTyped /\ FfiInv => TypeOK
  BY DEF FfiTyped, FfiInv, WorkerOwned, Closed, TypeOK
<1> QED
  BY FfiInvHolds, FfiTypedHolds, <1>1, PTL

------------------------------------------------------------------------------

\* What the window's thread has published is there, and whoever closes has set
\* the flag before it looks for the window.
WindowThere ==
    /\ tpc \in {"publish", "show", "check", "loop"} => window # "none"
    /\ tpc \in {"show", "check", "loop"} => hwnd
    /\ hwnd => tpc \in {"show", "check", "loop", "dead"}
    /\ gpc \in {"postclose", "postquit", "joinwindow"} => closing

\* The message is in the queue.
Pending(m) == \E i \in 1..Len(messages) : messages[i] = m

\* A message that ends the loop is in the queue.
Called == Pending("Close") \/ Pending("Quit")

\* A thread that is in its loop when the player has looked for its window has
\* such a message: from the player, or from itself, because it saw the flag.
LoopCalled == gpc \in {"postquit", "joinwindow"} /\ tpc = "loop" => Called

\* A message that is posted stays until it is handled.
LEMMA PendingStays ==
    ASSUME messages \in Seq(Messages), NEW m
    PROVE  /\ \A x : messages' = Append(messages, x) /\ (Pending(m) \/ x = m) => Pending(m)'
           /\ messages # <<>> /\ messages' = Tail(messages)
              /\ Head(messages) # m /\ Pending(m) => Pending(m)'
<1>1. ASSUME NEW x, messages' = Append(messages, x), Pending(m) \/ x = m
      PROVE  Pending(m)'
  <2>1. /\ Len(messages') = Len(messages) + 1 /\ Len(messages) \in Nat
        /\ messages'[Len(messages) + 1] = x
        /\ \A i \in 1..Len(messages) : messages'[i] = messages[i]
    BY <1>1
  <2>2. \A i \in 1..Len(messages) : i \in 1..Len(messages')
    BY <2>1
  <2>3. Len(messages) + 1 \in 1..Len(messages')
    BY <2>1
  <2> QED
    BY <1>1, <2>1, <2>2, <2>3 DEF Pending
<1>2. ASSUME messages # <<>>, messages' = Tail(messages), Head(messages) # m, Pending(m)
      PROVE  Pending(m)'
  <2>1. PICK i \in 1..Len(messages) : messages[i] = m
    BY <1>2 DEF Pending
  <2>2. i # 1 /\ Len(messages) \in Nat
    BY <1>2, <2>1
  <2>3. i - 1 \in 1..Len(messages') /\ messages'[i - 1] = messages[i]
    BY <1>2, <2>2
  <2> QED
    BY <2>1, <2>3 DEF Pending
<1> QED
  BY <1>1, <1>2

\* So does one that ends the loop.
LEMMA CalledStays ==
    ASSUME messages \in Seq(Messages)
    PROVE  /\ \A m : messages' = Append(messages, m)
                 /\ (Called \/ m \in {"Close", "Quit"}) => Called'
           /\ messages # <<>> /\ messages' = Tail(messages)
              /\ Head(messages) \notin {"Close", "Quit"} /\ Called => Called'
BY PendingStays DEF Called

\* The game thread: it looks for the window after it has set the flag.
LEMMA GameCalls ==
    ASSUME FfiTyped, WindowThere, LoopCalled, Engine \/ CallStep \/ ConvertFrame
    PROVE  WindowThere' /\ LoopCalled'
<1> USE DEF Begin, NotOpened, windowVars, threadVars, ffiVars, sharedWindow
<1>0. messages \in Seq(Messages)
  BY DEF FfiTyped, WindowTypeOK, Messages
<1>1. CASE InitOpens
  BY <1>1 DEF InitOpens, WindowThere, LoopCalled
<1>2. CASE Engine /\ ~InitOpens
  <2>1. UNCHANGED windowVars /\ gpc' \in {"idle", "update", "free", "joinworker"}
    BY <1>2 DEF Engine, New, InitRefused, InitAgain, InitFails, InitFailed, FillFails, Fill,
       Destroy
  <2> QED
    BY <2>1 DEF WindowThere, LoopCalled
<1>3. CASE UpdateStep
  <2>1. /\ gpc' \in {"notify", "text", "tell", "idle"}
        /\ UNCHANGED <<hwnd, closing, tpc, window>>
    BY <1>3 DEF UpdateStep, UpdateHotkey, NotifyVisibility, SetText, TellUpdated
  <2> QED
    BY <2>1 DEF WindowThere, LoopCalled
<1>4. CASE CloseFlag \/ WorkerJoined \/ WindowGone \/ Free \/ ConvertFrame
  <2>1. /\ UNCHANGED <<hwnd, tpc, window, messages>>
        /\ gpc' \in {"postquit", "joinwindow"} => gpc' = gpc
        /\ gpc' \in {"postclose", "postquit", "joinwindow"} => closing'
    BY <1>4 DEF CloseFlag, WorkerJoined, WindowGone, Free, ConvertFrame, WindowThere
  <2> QED
    BY <2>1 DEF WindowThere, LoopCalled, Called, Pending
<1>5. CASE PostClose
  <2>1. /\ UNCHANGED <<hwnd, closing, tpc, window>> /\ closing
        /\ \/ hwnd /\ Post("Close")
           \/ ~hwnd /\ UNCHANGED messages
    BY <1>5 DEF PostClose, WindowThere
  <2>2. tpc = "loop" => messages' = Append(messages, "Close")
    BY <2>1 DEF WindowThere, Post
  <2>3. tpc = "loop" => Called'
    BY <1>0, <2>2, CalledStays DEF Messages
  <2> QED
    BY <2>1, <2>3 DEF WindowThere, LoopCalled
<1>6. CASE PostQuit
  <2>1. /\ UNCHANGED <<hwnd, closing, tpc, window>> /\ gpc = "postquit"
        /\ messages' = Append(messages, "Quit") \/ UNCHANGED messages
    BY <1>6 DEF PostQuit, PostThread
  <2>2. Called => Called'
    <3>1. CASE messages' = Append(messages, "Quit")
      BY <1>0, <3>1, CalledStays DEF Messages
    <3>2. CASE UNCHANGED messages
      BY <3>2 DEF Called, Pending
    <3> QED
      BY <2>1, <3>1, <3>2
  <2> QED
    BY <2>1, <2>2 DEF WindowThere, LoopCalled
<1> QED
  BY <1>1, <1>2, <1>3, <1>4, <1>5, <1>6 DEF CallStep, CloseStep

\* The window's thread: it looks at the flag after it has published the window.
LEMMA WindowCalls ==
    ASSUME FfiTyped, WindowThere, LoopCalled, WindowStep \/ UserCloses
    PROVE  WindowThere' /\ LoopCalled'
<1>0. messages \in Seq(Messages)
  BY DEF FfiTyped, WindowTypeOK, Messages
<1>1. CASE ThreadStarts \/ ProbeQueue \/ CreateWindow \/ PublishWindow \/ ShowFirst
  <2>1. /\ UNCHANGED <<gpc, closing>> /\ tpc' # "loop"
        /\ tpc' \in {"publish", "show", "check"} => window' # "none"
        /\ tpc' \in {"show", "check"} => hwnd'
        /\ hwnd' => tpc' \in {"show", "check", "dead"}
    BY <1>1 DEF ThreadStarts, ProbeQueue, CreateWindow, PublishWindow, ShowFirst, Show,
       sharedWindow, WindowThere
  <2> QED
    BY <2>1 DEF WindowThere, LoopCalled
<1>2. CASE CheckClosing
  <2>1. /\ UNCHANGED <<gpc, closing, hwnd, window>> /\ tpc = "check" /\ tpc' = "loop"
        /\ closing => messages' = Append(messages, "Close")
    BY <1>2 DEF CheckClosing, CloseSeen, Post, sharedWindow, WindowThere
  <2>2. closing => Called'
    BY <1>0, <2>1, CalledStays DEF Messages
  <2> QED
    BY <2>1, <2>2 DEF WindowThere, LoopCalled
<1>3. CASE tpc' = "dead" /\ (Dispatch \/ Paint \/ UserCloses)
  <2>1. UNCHANGED <<gpc, closing>> /\ (UNCHANGED hwnd \/ ~hwnd')
    BY <1>3 DEF Dispatch, Paint, UserCloses, DestroyWindow, ThreadEnds, sharedWindow
  <2> QED
    BY <1>3, <2>1 DEF WindowThere, LoopCalled
<1>4. CASE tpc' # "dead" /\ (Dispatch \/ Paint \/ UserCloses)
  <2>1. /\ UNCHANGED <<gpc, closing, hwnd>> /\ tpc = "loop" /\ tpc' = "loop"
        /\ window' # "none" \/ UNCHANGED window
        /\ \/ UNCHANGED messages
           \/ /\ messages # <<>> /\ messages' = Tail(messages)
              /\ Head(messages) \notin {"Close", "Quit"}
    BY <1>4 DEF Dispatch, Paint, UserCloses, DestroyWindow, ThreadEnds, Show, sharedWindow
  <2>2. Called => Called'
    <3>1. CASE UNCHANGED messages
      BY <3>1 DEF Called, Pending
    <3> QED
      BY <1>0, <2>1, <3>1, CalledStays
  <2> QED
    BY <2>1, <2>2 DEF WindowThere, LoopCalled
<1> QED
  BY <1>1, <1>2, <1>3, <1>4 DEF WindowStep

\* A thread in its loop does not sleep while the player waits for it.
JoinIsCalled == gpc = "joinwindow" /\ tpc = "loop" => messages # <<>>

\* What the two threads tell each other when the player is dropped.
THEOREM LoopCalledHolds == Spec => [](WindowThere /\ LoopCalled)
<1>1. Init => WindowThere /\ LoopCalled
  BY DEF Init, NewWindow, WindowThere, LoopCalled
<1>2. FfiTyped /\ WindowThere /\ LoopCalled /\ [Next]_vars => (WindowThere /\ LoopCalled)'
  <2>1. WindowThere /\ LoopCalled /\ UNCHANGED vars => (WindowThere /\ LoopCalled)'
    BY DEF WindowThere, LoopCalled, Called, Pending, vars
  <2> QED
    BY <2>1, GameCalls, WindowCalls DEF Next, WindowThread
<1> QED
  BY FfiTypedHolds, <1>1, <1>2, PTL DEF Spec

\* The player never waits for a window's thread that sleeps in GetMessageW,
\* wherever the thread was when the player was dropped.
THEOREM JoinIsCalledHolds == Spec => []JoinIsCalled
<1>1. LoopCalled => JoinIsCalled
  <2>1. Len(<<>>) = 0
    OBVIOUS
  <2> QED
    BY <2>1 DEF LoopCalled, Called, Pending, JoinIsCalled
<1> QED
  BY LoopCalledHolds, <1>1, PTL

------------------------------------------------------------------------------

\* The window is hidden until it is first shown; from then on it is as it was
\* last asked to be, or a message that says so is there or about to be posted.
Following ==
    /\ tpc \in {"publish", "show"} => window = "hidden"
    /\ tpc \in {"check", "loop"} =>
          (window = "shown" <=> visible) \/ gpc = "notify" \/ Pending("Visibility")

\* What it shows is the latest text, or it is to be painted, or a message that
\* says so is there, unless the window is about to be hidden or the player is
\* in the middle of an update.
Latest ==
    tpc \in {"check", "loop"} /\ window = "shown" =>
        \/ painted = text \/ dirty \/ Pending("Updated")
        \/ ~visible \/ gpc \in {"notify", "text", "tell"}

\* The player's thread: every toggle and every text is told.
LEMMA GameTells ==
    ASSUME FfiTyped, WindowThere, Following, Latest, Engine \/ CallStep \/ ConvertFrame
    PROVE  Following' /\ Latest'
<1> USE DEF Begin, NotOpened, windowVars, threadVars, ffiVars, sharedWindow
<1>0. messages \in Seq(Messages)
  BY DEF FfiTyped, WindowTypeOK, Messages
<1>1. CASE InitOpens
  BY <1>1 DEF InitOpens, Following, Latest
<1>2. CASE (Engine /\ ~InitOpens) \/ WorkerJoined \/ WindowGone \/ Free \/ ConvertFrame
           \/ CloseFlag
  <2>1. /\ UNCHANGED <<text, visible, tpc, messages, window, dirty, painted>>
        /\ gpc \notin {"notify", "text", "tell"} \/ UNCHANGED gpc
    BY <1>2 DEF Engine, New, InitRefused, InitAgain, InitFails, InitFailed, FillFails, Fill,
       Destroy, WorkerJoined, WindowGone, WindowJoined, Free, ConvertFrame, CloseFlag
  <2> QED
    BY <2>1 DEF Following, Latest, Pending
<1>3. CASE UpdateHotkey
  <2>1. /\ UNCHANGED <<text, tpc, messages, window, dirty, painted>>
        /\ gpc = "update" /\ gpc' \in {"notify", "text"}
        /\ gpc' = "notify" \/ UNCHANGED visible
    BY <1>3 DEF UpdateHotkey
  <2> QED
    BY <2>1 DEF Following, Latest, Pending
<1>4. CASE NotifyVisibility
  <2>1. /\ UNCHANGED <<text, visible, tpc, window, dirty, painted>> /\ gpc' = "text"
        /\ hwnd => Post("Visibility")
    BY <1>4 DEF NotifyVisibility
  <2>2. tpc \in {"check", "loop"} => messages' = Append(messages, "Visibility")
    BY <2>1 DEF WindowThere, Post
  <2>3. tpc \in {"check", "loop"} => Pending("Visibility")'
    BY <1>0, <2>2, PendingStays
  <2> QED
    BY <2>1, <2>3 DEF Following, Latest
<1>5. CASE SetText
  <2>1. /\ UNCHANGED <<visible, tpc, messages, window>>
        /\ gpc = "text" /\ gpc' = "tell"
    BY <1>5 DEF SetText
  <2> QED
    BY <2>1 DEF Following, Latest, Pending
<1>6. CASE TellUpdated
  <2>1. /\ UNCHANGED <<text, visible, tpc, window, dirty, painted>> /\ gpc = "tell"
        /\ gpc' = "idle"
        /\ IF visible /\ hwnd THEN Post("Updated") ELSE UNCHANGED messages
    BY <1>6 DEF TellUpdated
  <2>2. CASE tpc \in {"check", "loop"} /\ visible
    <3>1. messages' = Append(messages, "Updated")
      BY <2>1, <2>2 DEF WindowThere, Post
    <3>2. Pending("Updated")' /\ (Pending("Visibility") => Pending("Visibility")')
      BY <1>0, <3>1, PendingStays
    <3> QED
      BY <2>1, <2>2, <3>2 DEF Following, Latest
  <2>3. CASE tpc \in {"check", "loop"} /\ ~visible
    BY <2>1, <2>3 DEF Following, Latest, Pending
  <2>4. CASE tpc \notin {"check", "loop"}
    BY <2>1, <2>4 DEF Following, Latest
  <2> QED
    BY <2>2, <2>3, <2>4
<1>7. CASE PostClose \/ PostQuit
  <2>1. /\ UNCHANGED <<text, visible, tpc, window, dirty, painted>>
        /\ gpc \notin {"notify", "text", "tell"} /\ gpc' \notin {"notify", "text", "tell"}
        /\ UNCHANGED messages \/ \E m : messages' = Append(messages, m)
    BY <1>7 DEF PostClose, PostQuit, Post, PostThread
  <2>2. \A m : Pending(m) => Pending(m)'
    <3>1. CASE UNCHANGED messages
      BY <3>1 DEF Pending
    <3>2. CASE \E m : messages' = Append(messages, m)
      BY <1>0, <3>2, PendingStays
    <3> QED
      BY <2>1, <3>1, <3>2
  <2> QED
    BY <2>1, <2>2 DEF Following, Latest
<1> QED
  BY <1>1, <1>2, <1>3, <1>4, <1>5, <1>6, <1>7 DEF CallStep, UpdateStep, CloseStep

\* The window's thread: it looks at what it is told, when it is told.
LEMMA WindowTells ==
    ASSUME FfiTyped, WindowThere, Following, Latest, WindowStep \/ UserCloses
    PROVE  Following' /\ Latest'
<1>0. messages \in Seq(Messages)
  BY DEF FfiTyped, WindowTypeOK, Messages
<1>1. CASE ThreadStarts \/ ProbeQueue \/ CreateWindow \/ PublishWindow
  <2>1. /\ tpc' \notin {"check", "loop"}
        /\ tpc' \in {"publish", "show"} => window' = "hidden"
    BY <1>1 DEF ThreadStarts, ProbeQueue, CreateWindow, PublishWindow, sharedWindow, Following
  <2> QED
    BY <2>1 DEF Following, Latest
<1>2. CASE ShowFirst
  BY <1>2 DEF ShowFirst, Show, VisibleAtFirst, sharedWindow, Following, Latest
<1>3. CASE CheckClosing
  <2>1. /\ UNCHANGED <<gpc, text, visible, window, dirty, painted>>
        /\ tpc = "check" /\ tpc' = "loop"
        /\ UNCHANGED messages \/ messages' = Append(messages, "Close")
    BY <1>3 DEF CheckClosing, Post, sharedWindow
  <2>2. \A m : Pending(m) => Pending(m)'
    <3>1. CASE UNCHANGED messages
      BY <3>1 DEF Pending
    <3> QED
      BY <1>0, <2>1, <3>1, PendingStays
  <2> QED
    BY <2>1, <2>2 DEF Following, Latest
<1>4. CASE tpc' = "dead"
  BY <1>4 DEF Following, Latest
<1>5. CASE Dispatch /\ tpc' # "dead"
  <2>1. /\ UNCHANGED <<gpc, text, visible, painted>> /\ tpc = "loop" /\ tpc' = "loop"
        /\ messages # <<>> /\ messages' = Tail(messages)
        /\ \/ Head(messages) = "Visibility" /\ Show(visible)
           \/ Head(messages) = "Updated" /\ dirty' /\ UNCHANGED window
    BY <1>5 DEF Dispatch, DestroyWindow, ThreadEnds, DirtyAfterUpdate, sharedWindow
  <2>2. \A m : m # Head(messages) /\ Pending(m) => Pending(m)'
    BY <1>0, <2>1, PendingStays
  <2>3. CASE Head(messages) = "Visibility" /\ Show(visible)
    <3>1. /\ window' = IF visible THEN "shown" ELSE "hidden"
          /\ visible => dirty' = (dirty \/ window # "shown")
      BY <2>3 DEF Show
    <3>2. Pending("Updated") => Pending("Updated")'
      BY <2>2, <2>3
    <3> QED
      BY <2>1, <3>1, <3>2 DEF Following, Latest
  <2>4. CASE Head(messages) = "Updated" /\ dirty' /\ UNCHANGED window
    <3>1. Pending("Visibility") => Pending("Visibility")'
      BY <2>2, <2>4
    <3> QED
      BY <2>1, <2>4, <3>1 DEF Following, Latest
  <2> QED
    BY <2>1, <2>3, <2>4
<1>6. CASE Paint
  <2>1. /\ UNCHANGED <<gpc, text, visible, tpc, messages, window>> /\ painted' = text
    BY <1>6 DEF Paint, sharedWindow
  <2> QED
    BY <2>1 DEF Following, Latest, Pending
<1> QED
  BY <1>1, <1>2, <1>3, <1>4, <1>5, <1>6 DEF WindowStep, UserCloses, DestroyWindow, ThreadEnds

\* A window whose thread has nothing left to do, while no update is going on,
\* is there just if it was last asked for, and says the latest.
WindowSettled ==
    tpc = "loop" /\ messages = <<>> /\ gpc \notin {"notify", "text", "tell"} =>
        /\ window = "shown" <=> visible
        /\ window = "shown" /\ ~dirty => painted = text

\* No toggle and no text is lost, wherever the window's thread was when it
\* came: before there was a window, before it was shown, or behind others.
THEOREM WindowSettledHolds == Spec => []WindowSettled
<1>1. Init => Following /\ Latest
  BY DEF Init, NewWindow, Following, Latest
<1>2. FfiTyped /\ WindowThere /\ Following /\ Latest /\ [Next]_vars => (Following /\ Latest)'
  <2>1. Following /\ Latest /\ UNCHANGED vars => (Following /\ Latest)'
    BY DEF Following, Latest, Pending, vars
  <2> QED
    BY <2>1, GameTells, WindowTells DEF Next, WindowThread
<1>3. Following /\ Latest => WindowSettled
  <2>1. Len(<<>>) = 0
    OBVIOUS
  <2> QED
    BY <2>1 DEF Following, Latest, Pending, WindowSettled
<1> QED
  BY FfiTypedHolds, LoopCalledHolds, <1>1, <1>2, <1>3, PTL DEF Spec

==============================================================================
