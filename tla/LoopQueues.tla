------------------------------ MODULE LoopQueues ------------------------------
(***************************************************************************)
(* The frame queues of omv_player/looper.rs, frame.rs and packet.rs.  A    *)
(* queue is the decoded frames, each its timestamp, and the timestamp of   *)
(* the last packet put into it, which stays when the frames are taken.     *)
(***************************************************************************)
EXTENDS Integers, Sequences, SequencesExt

CONSTANT MaxFrames   \* MAX_FRAME_QUEUE_LEN

ASSUME MaxFramesAssumption == MaxFrames \in Nat \ {0}

NoPts == -1

EmptyQueue == [frames |-> <<>>, lastPacket |-> NoPts]

\* A packet that is decoded but not presentable adds no frame.
Push(q, pts, presentable) ==
    [frames |-> IF presentable THEN Append(q.frames, pts) ELSE q.frames,
     lastPacket |-> pts]

FirstFrame(q) == IF q.frames = <<>> THEN NoPts ELSE Head(q.frames)
LastFrame(q)  == IF q.frames = <<>> THEN NoPts ELSE Last(q.frames)

\* last_pts_ms: the last frame, or the last packet when there is no frame.
LastPts(q) == IF q.frames = <<>> THEN q.lastPacket ELSE Last(q.frames)

\* MUTANT lets one frame too many in.
IsFullLate(q) == Len(q.frames) > MaxFrames
IsFull(q) == Len(q.frames) >= MaxFrames

\* How many frames at the front are not after the target.
DueCount(q, target) ==
    CHOOSE n \in 0..Len(q.frames) :
        /\ \A i \in 1..n : q.frames[i] <= target
        /\ n < Len(q.frames) => q.frames[n + 1] > target

\* pop_frame_for: takes the due frames off the front and keeps the last.
PopFor(q, target) ==
    LET n == DueCount(q, target)
    IN  [frame |-> IF n = 0 THEN NoPts ELSE q.frames[n],
         queue |-> [q EXCEPT !.frames = SubSeq(@, n + 1, Len(@))]]

==============================================================================
