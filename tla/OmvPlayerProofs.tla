---------------------------- MODULE OmvPlayerProofs ----------------------------
(***************************************************************************)
(* Movie playback, for every movie, every bound and every clock: what the  *)
(* clock's loop guards recognise, the types of what the game thread and    *)
(* the worker share, and that no picture comes before its time.            *)
(***************************************************************************)
EXTENDS OmvPlayer, FiniteSetTheorems, TLAPS

\* In a loop longer than its two guards the tracker reports the end of the
\* loop only when the clock has gone back, so a clock that goes forwards
\* never makes the player forget its picture.  (With the guards of 100 ms
\* this needs a movie longer than 200 ms.)
THEOREM WrapGoesBack ==
    ASSUME NEW last \in Nat, NEW sample \in Nat, NEW loopEnabled \in BOOLEAN,
           NEW duration \in Nat, duration > HeadGuard + TailGuard,
           IsWrap(last, sample, loopEnabled, duration)
    PROVE  sample < last
  <1>1. HeadGuard \in Nat /\ TailGuard \in Nat
    BY GuardAssumption DEF GuardAssumption
  <1>2. PosPart(duration - TailGuard) = duration - TailGuard
    BY <1>1 DEF PosPart
  <1>3. last >= duration - TailGuard /\ sample <= HeadGuard
    BY <1>2 DEF IsWrap
  <1> QED
    BY <1>1, <1>3

\* And a timer that loops with steps shorter than the guards is never taken
\* for a seek: from the last sample of a pass to the first of the next one,
\* one that goes back is reported as the end of the loop.
THEOREM LoopIsNoSeek ==
    ASSUME NEW last \in Nat, NEW step \in Nat, NEW duration \in Nat,
           last < duration, duration <= last + step,
           step <= HeadGuard, step <= TailGuard
    PROVE  ClockEvent(last, last + step - duration, TRUE, duration) = "Wrapped"
  <1>1. HeadGuard \in Nat /\ TailGuard \in Nat
    BY GuardAssumption DEF GuardAssumption
  <1>2. last + step - duration <= HeadGuard
    BY <1>1
  <1>3. last >= PosPart(duration - TailGuard)
    BY <1>1 DEF PosPart
  <1>4. IsWrap(last, last + step - duration, TRUE, duration)
    BY <1>2, <1>3 DEF IsWrap
  <1>5. last # NoSample
    BY DEF NoSample
  <1> QED
    BY <1>4, <1>5 DEF ClockEvent

------------------------------------------------------------------------------

\* Of some numbers up to n there is a greatest one.
LEMMA Greatest ==
    ASSUME NEW n \in Nat, NEW S \in SUBSET (0..n), S # {}
    PROVE  \E x \in S : \A y \in S : y <= x
<1> DEFINE Above(x) == {y \in S : y > x}
           T == {Above(x) : x \in S}
           R == StrictSubsetOrdering(S)
<1>1. IsFiniteSet(S)
  <2>1. IsFiniteSet(0..n)
    BY FS_Interval
  <2> QED
    BY <2>1, FS_Subset
<1>2. IsWellFoundedOn(R, SUBSET S)
  BY <1>1, FS_StrictSubsetOrderingWellFounded, FS_FiniteSubsetsOfFinite
<1>3. T \subseteq SUBSET S /\ T # {}
  OBVIOUS
<1>4. \E a \in T : \A b \in T : ~(<<b, a>> \in R)
  <2> HIDE DEF R, T
  <2> QED
    BY <1>2, <1>3, WFMin, Zenon
<1>5. PICK x \in S : \A y \in S : ~(<<Above(y), Above(x)>> \in R)
  BY <1>4
<1>6. ASSUME NEW y \in S, y > x PROVE FALSE
  <2>1. Above(y) \subseteq Above(x)
    <3>1. \A z \in S : z \in Nat
      OBVIOUS
    <3>2. ASSUME NEW z \in S, z > y PROVE z > x
      BY <1>6, <3>1, <3>2
    <3> QED
      BY <3>2
  <2>2. y \in Above(x) /\ y \notin Above(y)
    BY <1>6
  <2>3. <<Above(y), Above(x)>> \in R
    BY <2>1, <2>2 DEF StrictSubsetOrdering
  <2> QED
    BY <1>5, <2>3
<1>7. ASSUME NEW y \in S PROVE y <= x
  <2>1. x \in Nat /\ y \in Nat
    OBVIOUS
  <2> QED
    BY <1>6, <2>1
<1> QED
  BY <1>7

\* Every packet's timestamp is a time of the movie.
LEMMA Timestamps ==
    /\ Duration \in Nat \ {0} /\ FramePts \subseteq Times /\ Times \subseteq Nat
    /\ \A k \in 0..(Packets - 1) : Pts(k) \in FramePts
<1>1. Packets \in Nat \ {0} /\ Interval \in Nat \ {0}
  BY MovieAssumption
<1>2. Duration \in Nat \ {0}
  BY <1>1 DEF Duration
<1>3. ASSUME NEW k \in 0..(Packets - 1) PROVE Pts(k) \in 0..Duration
  <2>1. PICK d \in Nat : Packets = k + d
    BY <1>1
  <2>2. Packets * Interval = k * Interval + d * Interval
    BY <1>1, <2>1
  <2>3. k * Interval \in Nat /\ d * Interval \in Nat
    BY <1>1
  <2> QED
    BY <2>2, <2>3 DEF Pts, Duration
<1> QED
  BY <1>2, <1>3 DEF FramePts, Times

\* A key frame can be found for every time.
LEMMA SeekLands ==
    ASSUME NEW t \in Times PROVE SeekPosition(t) \in 0..(Packets - 1)
<1> DEFINE S == {k \in Keyframes : Pts(k) <= t}
<1>1. t \in Nat /\ Pts(0) = 0
  BY Timestamps, MovieAssumption DEF Pts
<1>2. 0 \in S /\ S \in SUBSET (0..(Packets - 1)) /\ Packets - 1 \in Nat
  <2>1. 0 \in Keyframes /\ Pts(0) <= t
    BY <1>1, MovieAssumption
  <2>2. Packets - 1 \in Nat /\ Keyframes \subseteq 0..(Packets - 1)
    BY MovieAssumption
  <2> QED
    BY <2>1, <2>2
<1>3. PICK k \in S : \A j \in S : j <= k
  <2> HIDE DEF S
  <2> QED
    BY <1>2, Greatest
<1>4. \E i \in Keyframes : Pts(i) <= t /\ \A j \in Keyframes : Pts(j) <= t => j <= i
  BY <1>3
<1>5. SeekPosition(t) \in Keyframes
  BY <1>4 DEF SeekPosition
<1> QED
  BY <1>5, MovieAssumption

\* The queues, as the provers read them ...
QueueSet ==
    [frames : {f \in Seq(FramePts) : Len(f) <= MaxFrames},
     lastPacket : FramePts \union {NoPts}]

\* ... and as TypeOK has them.
LEMMA QueueIs == QueueSet \subseteq Queue
<1> SUFFICES ASSUME NEW f \in Seq(FramePts), Len(f) <= MaxFrames
             PROVE  f \in UNION {[1..n -> FramePts] : n \in 0..MaxFrames}
  BY DEF QueueSet, Queue
<1>1. f \in [1..Len(f) -> FramePts] /\ Len(f) \in 0..MaxFrames
  BY MaxFramesAssumption
<1> QED
  BY <1>1

\* Of the frames of a queue a first part is due, and none of it is too early.
LEMMA Due ==
    ASSUME NEW q \in QueueSet, NEW t \in Nat
    PROVE  /\ DueCount(q, t) \in 0..Len(q.frames)
           /\ \A i \in 1..DueCount(q, t) : q.frames[i] <= t
<1> DEFINE S == {n \in 0..Len(q.frames) : \A i \in 1..n : q.frames[i] <= t}
<1>1. q.frames \in Seq(FramePts) /\ Len(q.frames) \in Nat
  BY DEF QueueSet
<1>2. \A i \in 1..Len(q.frames) : q.frames[i] \in Nat
  <2>1. \A i \in 1..Len(q.frames) : q.frames[i] \in FramePts
    BY <1>1
  <2> QED
    BY <2>1, Timestamps
<1>3. 0 \in S /\ S \in SUBSET (0..Len(q.frames))
  BY <1>1
<1>4. PICK n \in S : \A m \in S : m <= n
  <2> HIDE DEF S
  <2> QED
    BY <1>1, <1>3, Greatest
<1>5. n < Len(q.frames) => q.frames[n + 1] > t
  <2> SUFFICES ASSUME n < Len(q.frames), ~(q.frames[n + 1] > t) PROVE FALSE
    OBVIOUS
  <2>1. n + 1 \in 1..Len(q.frames) /\ q.frames[n + 1] <= t
    BY <1>1, <1>2
  <2>2. \A i \in 1..(n + 1) : q.frames[i] <= t
    BY <1>1, <2>1
  <2>3. n + 1 \in S
    BY <1>1, <2>1, <2>2
  <2> QED
    BY <1>4, <2>3
<1>6. \E m \in 0..Len(q.frames) :
          /\ \A i \in 1..m : q.frames[i] <= t
          /\ m < Len(q.frames) => q.frames[m + 1] > t
  BY <1>4, <1>5
<1> QED
  BY <1>6 DEF DueCount

\* pop_frame_for gives a frame that is due, and keeps a part of the queue.
LEMMA Popped ==
    ASSUME NEW q \in QueueSet, NEW t \in Nat
    PROVE  /\ PopFor(q, t).frame \in FramePts \union {NoPts}
           /\ PopFor(q, t).frame <= t
           /\ PopFor(q, t).queue \in QueueSet
           /\ Len(PopFor(q, t).queue.frames) <= Len(q.frames)
<1> DEFINE n == DueCount(q, t)
           rest == SubSeq(q.frames, n + 1, Len(q.frames))
<1>1. q.frames \in Seq(FramePts) /\ Len(q.frames) \in Nat /\ Len(q.frames) <= MaxFrames
      /\ q = [frames |-> q.frames, lastPacket |-> q.lastPacket]
      /\ q.lastPacket \in FramePts \union {NoPts}
  BY DEF QueueSet
<1>2. n \in 0..Len(q.frames) /\ \A i \in 1..n : q.frames[i] <= t
  BY Due
<1> HIDE DEF n
<1>3. rest \in Seq(FramePts) /\ Len(rest) <= Len(q.frames)
  BY <1>1, <1>2
<1>4. PopFor(q, t) = [frame |-> IF n = 0 THEN NoPts ELSE q.frames[n],
                      queue |-> [q EXCEPT !.frames = rest]]
  BY <1>1 DEF PopFor, n
<1>5. [q EXCEPT !.frames = rest] = [frames |-> rest, lastPacket |-> q.lastPacket]
  <2> HIDE DEF rest
  <2> QED
    BY <1>1
<1>6. n # 0 => q.frames[n] \in FramePts /\ q.frames[n] <= t
  BY <1>1, <1>2
<1> HIDE DEF rest
<1>7. PopFor(q, t).queue \in QueueSet /\ Len(PopFor(q, t).queue.frames) <= Len(q.frames)
  BY <1>1, <1>3, <1>4, <1>5, MaxFramesAssumption DEF QueueSet
<1>8. NoPts <= t
  BY DEF NoPts
<1> QED
  BY <1>4, <1>6, <1>7, <1>8

\* A queue that is not full takes a packet.
LEMMA Pushed ==
    ASSUME NEW q \in QueueSet, Len(q.frames) < MaxFrames, NEW pts \in FramePts, NEW b
    PROVE  Push(q, pts, b) \in QueueSet
<1>1. q.frames \in Seq(FramePts)
  BY DEF QueueSet
<1>2. Append(q.frames, pts) \in Seq(FramePts) /\ Len(Append(q.frames, pts)) <= MaxFrames
  BY <1>1, MaxFramesAssumption
<1> QED
  BY <1>1, <1>2, MaxFramesAssumption DEF Push, QueueSet

\* An empty queue.
LEMMA Emptied == EmptyQueue \in QueueSet /\ Len(EmptyQueue.frames) < MaxFrames
<1>1. <<>> \in Seq(FramePts) /\ Len(<<>>) = 0
  OBVIOUS
<1> QED
  BY <1>1, MaxFramesAssumption DEF EmptyQueue, QueueSet

------------------------------------------------------------------------------

Commands == [op : {"Seek", "Forward", "Wrap", "Shutdown"}, target : Times]
Modes == {"Playing", "Seeking", "Forwarding", "PreloadNext", "CurrentReady",
          "NextLoopReady", "Ended"}

\* The queue that the worker's packet goes to has room for it: the game thread
\* only takes from the queues in between.
Room ==
    IF mode.at = "PreloadNext" THEN next # <<>> => Len(Head(next).frames) < MaxFrames
                               ELSE Len(current.frames) < MaxFrames

\* What the worker has, and what both threads share.
WorkerInv ==
    /\ commands \in Seq(Commands)
    /\ {acked, shutdown, loop} \subseteq BOOLEAN
    /\ current \in QueueSet
    /\ next = <<>> \/ \E q \in QueueSet : next = <<q>>
    /\ playback \in {"Playing", "Ended"}
    /\ clock \in Times
    /\ wpc \in {"top", "receive", "read", "push", "end", "exited"}
    /\ mode.at \in Modes /\ mode.target \in Times
    /\ packet \in [pts : FramePts \union {NoPts}, presentable : BOOLEAN]
    /\ position \in 0..Packets
    /\ wpc = "push" => packet.pts \in FramePts /\ Room

\* What the game thread has.  Its clock is the engine's in the calls that look
\* at it, and the picture is not from after it.
PlayerInv ==
    /\ now \in Times
    /\ lastClock \in Times \union {NoSample}
    /\ shown \in FramePts \union {NoPts}
    /\ gpc \in {"idle", "chase", "send", "wait", "answer", "pop", "join", "gone"}
    /\ call \in {"none", "check", "fill", "seek", "drop"}
    /\ sought \in BOOLEAN
    /\ out \in [op : {"None", "Seek", "Forward", "Wrap", "Shutdown"}, target : Times]
    /\ gpc = "send" => out.op # "None"
    /\ shown <= lastClock + Threshold
    /\ gpc \in {"chase", "wait", "answer", "pop"} => call \in {"check", "fill"}
    /\ gpc \in {"wait", "answer", "pop"} => lastClock = now
    /\ gpc = "send" => \/ lastClock = now /\ call \in {"check", "fill"}
                       \/ call = "seek" /\ out.op = "Seek"
                       \/ out.op = "Shutdown"

\* A command that is made up of these is one.
LEMMA CommandIs ==
    ASSUME NEW t \in Times
    PROVE  /\ \A op \in {"Seek", "Forward", "Wrap", "Shutdown"} : Cmd(op, t) \in Commands
           /\ \A op : Cmd(op, t).op = op
BY DEF Cmd, Commands

\* The movie begins with empty queues and no picture.
LEMMA InitPlayback == Init => WorkerInv /\ PlayerInv
<1> SUFFICES ASSUME Init PROVE WorkerInv /\ PlayerInv
  OBVIOUS
<1>1. 0 \in Times /\ <<>> \in Seq(Commands) /\ 0 \in 0..Packets
  BY Timestamps, MovieAssumption DEF Times
<1>2. WorkerInv
  BY <1>1, Emptied DEF Init, WorkerInit, WorkerInv, Playing, NoPacket, NoPts, Modes
<1>3. shown <= lastClock + Threshold
  BY PlayerAssumption DEF Init, NoPts, NoSample
<1>4. NoCmd \in [op : {"None", "Seek", "Forward", "Wrap", "Shutdown"}, target : Times]
  BY <1>1 DEF NoCmd, Cmd
<1>5. PlayerInv
  BY <1>1, <1>3, <1>4 DEF Init, PlayerInv
<1> QED
  BY <1>2, <1>5

\* The handlers of the worker's commands.
LEMMA SeekKeeps ==
    ASSUME WorkerInv, NEW t \in Times, NEW done, NEW failed,
           {done.at, failed.at} \subseteq Modes, {done.target, failed.target} \subseteq Times,
           SeekTo(t, done, failed)
    PROVE  /\ position' \in 0..Packets /\ current' \in QueueSet
           /\ mode'.at \in Modes /\ mode'.target \in Times
<1>1. SeekPosition(t) \in 0..Packets
  BY SeekLands, MovieAssumption
<1> QED
  BY <1>1, Emptied DEF SeekTo, WorkerInv

\* The worker takes a command, whatever it is.
LEMMA ReceiveKeeps == WorkerInv /\ Receive => WorkerInv'
<1> SUFFICES ASSUME WorkerInv, Receive PROVE WorkerInv'
  OBVIOUS
<1> DEFINE Held == /\ position' \in 0..Packets /\ current' \in QueueSet
                   /\ mode'.at \in Modes /\ mode'.target \in Times
                   /\ next' = <<>> \/ \E q \in QueueSet : next' = <<q>>
                   /\ acked' \in BOOLEAN
<1>0. 0 \in Times /\ SeekPosition(0) \in 0..Packets
  BY SeekLands, Timestamps, MovieAssumption DEF Times
<1>1. ASSUME NEW t \in Times, HandleSeek(t) PROVE Held
  <2>1. SeekTo(t, Seeking(t), Idle("CurrentReady")) /\ UNCHANGED <<next, acked>>
    BY <1>1 DEF HandleSeek
  <2>2. /\ {Seeking(t).at, Idle("CurrentReady").at} \subseteq Modes
        /\ {Seeking(t).target, Idle("CurrentReady").target} \subseteq Times
    BY <1>0 DEF Seeking, Idle, Modes
  <2>3. /\ position' \in 0..Packets /\ current' \in QueueSet
        /\ mode'.at \in Modes /\ mode'.target \in Times
    BY <2>1, <2>2, SeekKeeps
  <2> QED
    BY <2>1, <2>3 DEF WorkerInv
<1>2. ASSUME NEW t \in Times, HandleForward(t) PROVE Held
  BY <1>2 DEF HandleForward, Forwarding, WorkerInv, Modes
<1>3. ASSUME HandleWrap PROVE Held
  <2>1. acked' = TRUE
    BY <1>3 DEF HandleWrap
  <2>2. mode'.at \in Modes /\ mode'.target \in Times
    BY <1>0, <1>3 DEF HandleWrap, WorkerInv, Idle, Playing, Seeking, Modes
  <2>3. position' \in 0..Packets
    BY <1>0, <1>3 DEF HandleWrap, WorkerInv
  <2>4. next # <<>> => Head(next) \in QueueSet
    BY DEF WorkerInv
  <2>5. current' \in QueueSet
    BY <1>3, <2>4, Emptied DEF HandleWrap, WorkerInv
  <2>6. next' \in {next, <<>>}
    BY <1>3 DEF HandleWrap
  <2> QED
    BY <2>1, <2>2, <2>3, <2>5, <2>6 DEF WorkerInv
<1>4. CASE commands = <<>> \/ Head(commands).op = "Shutdown"
  <2>1. <<>> \in Seq(Commands)
    OBVIOUS
  <2>2. wpc' \in {"read", "exited"} /\ commands' \in Seq(Commands)
    BY <1>4, <2>1 DEF Receive, WorkerEnds, WorkerInv
  <2>3. UNCHANGED <<acked, current, next, mode, position>>
    BY <1>4 DEF Receive
  <2> QED
    BY <2>2, <2>3 DEF Receive, WorkerInv
<1>5. CASE commands # <<>> /\ Head(commands).op # "Shutdown"
  <2>1. Head(commands) \in Commands /\ Tail(commands) \in Seq(Commands)
    BY <1>5 DEF WorkerInv
  <2>2. /\ commands' = Tail(commands) /\ wpc' \in {"top", "read"}
        /\ UNCHANGED <<shutdown, playback, clock, loop, packet>>
    BY <1>5 DEF Receive
  <2>3. \/ HandleSeek(Head(commands).target) \/ HandleForward(Head(commands).target)
        \/ HandleWrap
    BY <1>5, <2>1 DEF Receive, Commands
  <2>4. Head(commands).target \in Times
    BY <2>1 DEF Commands
  <2>5. Held
    BY <1>1, <1>2, <1>3, <2>3, <2>4
  <2> QED
    BY <2>1, <2>2, <2>5 DEF WorkerInv
<1> QED
  BY <1>4, <1>5

\* The worker's other steps: what is not full takes the packet that was read.
LEMMA ReadKeeps == WorkerInv /\ Read => WorkerInv'
<1> SUFFICES ASSUME WorkerInv, Read PROVE WorkerInv'
  OBVIOUS
<1> USE DEF Read
<1>0. /\ UNCHANGED <<commands, acked, shutdown, current, next, clock, loop>>
      /\ Packets \in Nat /\ position \in Nat
  BY MovieAssumption DEF WorkerInv
<1>1. CASE TargetIsFull
  <2>1. mode' = AfterNoWork(mode) /\ wpc' = "top" /\ UNCHANGED <<playback, packet, position>>
    BY <1>1
  <2>2. mode'.at \in Modes /\ mode'.target \in Times
    BY <2>1, Timestamps DEF AfterNoWork, Idle, Modes, Times
  <2> QED
    BY <1>0, <2>1, <2>2 DEF WorkerInv
<1>2. CASE ~TargetIsFull /\ position = Packets
  <2>1. mode' \in {mode, Idle("Ended")} /\ wpc' \in {"end", "top"}
        /\ playback' \in {playback, "Ended"} /\ UNCHANGED <<packet, position>>
    BY <1>0, <1>2
  <2>2. mode'.at \in Modes /\ mode'.target \in Times
    BY <2>1, Timestamps DEF Idle, Modes, Times, WorkerInv
  <2> QED
    BY <1>0, <2>1, <2>2 DEF WorkerInv
<1>3. CASE ~TargetIsFull /\ position < Packets
  <2>1. position \in 0..(Packets - 1) /\ position' = position + 1 /\ position' \in 0..Packets
    BY <1>3, MovieAssumption DEF WorkerInv
  <2>2. Pts(position) \in FramePts
    BY <2>1, Timestamps
  <2>3. CASE wpc' = "top" /\ UNCHANGED <<mode, packet, playback>>
    BY <1>0, <2>1, <2>3 DEF WorkerInv
  <2>4. CASE wpc' = "push"
    <3>1. /\ packet' = [pts |-> Pts(position),
                        presentable |-> mode.at = "Seeking" => Pts(position) >= mode.target]
          /\ UNCHANGED playback
          /\ mode' \in {Playing, mode} /\ (mode' = Playing => mode.at # "PreloadNext" \/ mode = Playing)
      BY <1>3, <2>4 DEF Playing
    <3>2. mode'.at \in Modes /\ mode'.target \in Times
      BY <3>1, Timestamps DEF Playing, Modes, Times, WorkerInv
    <3>3. mode'.at = "PreloadNext" <=> mode.at = "PreloadNext"
      BY <3>1 DEF Playing
    <3>4. Room'
      <4>1. CASE mode.at = "PreloadNext"
        <5>1. ~(next # <<>> /\ IsFull(Head(next)))
          BY <1>3, <4>1 DEF TargetIsFull
        <5>2. next # <<>> => Head(next) \in QueueSet
          BY DEF WorkerInv
        <5>3. next # <<>> => Len(Head(next).frames) \in Nat
          BY <5>2 DEF QueueSet
        <5>4. next # <<>> => Len(Head(next).frames) < MaxFrames
          BY <5>1, <5>3, MaxFramesAssumption DEF IsFull
        <5> QED
          BY <1>0, <3>3, <4>1, <5>4 DEF Room
      <4>2. CASE mode.at # "PreloadNext"
        <5>1. ~IsFull(current)
          BY <1>3, <4>2 DEF TargetIsFull
        <5>2. Len(current.frames) \in Nat
          BY DEF WorkerInv, QueueSet
        <5>3. Len(current.frames) < MaxFrames
          BY <5>1, <5>2, MaxFramesAssumption DEF IsFull
        <5> QED
          BY <1>0, <3>3, <4>2, <5>3 DEF Room
      <4> QED
        BY <4>1, <4>2
    <3> QED
      BY <1>0, <2>1, <2>2, <2>4, <3>1, <3>2, <3>4 DEF WorkerInv
  <2>5. wpc = "read" /\ wpc' \in {"top", "push"}
    BY <1>0, <1>3
  <2>6. wpc' = "top" => UNCHANGED <<mode, packet, playback>>
    BY <1>0, <1>3
  <2> QED
    BY <2>3, <2>4, <2>5, <2>6
<1> QED
  BY <1>1, <1>2, <1>3

\* The packet goes into the queue that had room for it, or nowhere.
LEMMA PushKeeps == WorkerInv /\ PushPacket => WorkerInv'
<1> SUFFICES ASSUME WorkerInv, PushPacket PROVE WorkerInv'
  OBVIOUS
<1>0. /\ UNCHANGED <<acked, shutdown, playback, clock, loop, position>>
      /\ packet' = NoPacket /\ wpc' \in {"top", "exited"}
      /\ wpc = "push" /\ packet.pts \in FramePts /\ Room
  BY DEF PushPacket, WorkerEnds, WorkerInv
<1>1. packet' \in [pts : FramePts \union {NoPts}, presentable : BOOLEAN]
  BY <1>0 DEF NoPacket
<1>2. commands' \in Seq(Commands)
  <2>1. <<>> \in Seq(Commands) /\ commands' \in {<<>>, commands}
    BY DEF PushPacket, WorkerEnds
  <2> QED
    BY <2>1 DEF WorkerInv
<1>3. mode'.at \in Modes /\ mode'.target \in Times
  BY Timestamps DEF PushPacket, AfterNoWork, Idle, Modes, Times, WorkerInv
<1>4. /\ current' \in QueueSet
      /\ next' = <<>> \/ \E q \in QueueSet : next' = <<q>>
  <2>1. CASE UNCHANGED <<current, next>>
    BY <2>1 DEF WorkerInv
  <2>2. CASE mode.at = "PreloadNext" /\ ~UNCHANGED <<current, next>>
    <3> DEFINE q == IF next = <<>> THEN EmptyQueue ELSE Head(next)
    <3>1. q \in QueueSet /\ Len(q.frames) < MaxFrames
      BY <1>0, <2>2, Emptied DEF Room, WorkerInv
    <3>2. Push(q, packet.pts, packet.presentable) \in QueueSet
      BY <1>0, <3>1, Pushed
    <3>3. next' = << Push(q, packet.pts, packet.presentable) >> /\ UNCHANGED current
      BY <2>2 DEF PushPacket
    <3> QED
      BY <3>2, <3>3 DEF WorkerInv
  <2>3. CASE mode.at # "PreloadNext" /\ ~UNCHANGED <<current, next>>
    <3>1. Push(current, packet.pts, packet.presentable) \in QueueSet
      BY <1>0, <2>3, Pushed DEF Room, WorkerInv
    <3>2. current' = Push(current, packet.pts, packet.presentable) /\ UNCHANGED next
      BY <2>3 DEF PushPacket
    <3> QED
      BY <3>1, <3>2 DEF WorkerInv
  <2> QED
    BY <2>1, <2>2, <2>3
<1> QED
  BY <1>0, <1>1, <1>2, <1>3, <1>4 DEF WorkerInv

\* A step of the worker disturbs nothing that the game thread relies on.
LEMMA WorkerKeeps ==
    WorkerInv /\ PlayerInv /\ Worker => WorkerInv' /\ PlayerInv'
<1> SUFFICES ASSUME WorkerInv, PlayerInv, Worker PROVE WorkerInv' /\ PlayerInv'
  OBVIOUS
<1>1. PlayerInv'
  BY DEF Worker, playerVars, PlayerInv
<1>2. CASE CheckShutdown
  <2>1. <<>> \in Seq(Commands)
    OBVIOUS
  <2> QED
    BY <1>1, <1>2, <2>1 DEF CheckShutdown, WorkerEnds, WorkerInv
<1>3. CASE Receive
  BY <1>1, <1>3, ReceiveKeeps
<1>4. CASE Read
  BY <1>1, <1>4, ReadKeeps
<1>5. CASE PushPacket
  BY <1>1, <1>5, PushKeeps
<1>6. CASE AtEnd
  <2>1. 0 \in Times /\ SeekPosition(0) \in 0..Packets
    BY SeekLands, Timestamps, MovieAssumption DEF Times
  <2>2. next' = <<>> \/ \E q \in QueueSet : next' = <<q>>
    BY <1>6, Emptied DEF AtEnd, PreloadQueue, WorkerInv
  <2>3. position' \in 0..Packets /\ mode'.at \in Modes /\ mode'.target \in Times
    BY <1>6, <2>1 DEF AtEnd, PreloadNext, Idle, Modes, WorkerInv
  <2> QED
    BY <1>1, <1>6, <2>2, <2>3 DEF AtEnd, WorkerInv
<1> QED
  BY <1>2, <1>3, <1>4, <1>5, <1>6 DEF Worker, WorkerStep

------------------------------------------------------------------------------

\* The game thread leaves the worker's invariant true as long as it puts
\* commands into the channel, and only takes from the queue.
LEMMA SharedKeeps ==
    ASSUME WorkerInv, UNCHANGED <<next, localVars>>,
           commands' \in Seq(Commands),
           {acked', shutdown', loop'} \subseteq BOOLEAN,
           playback' = playback, clock' \in Times,
           current' \in QueueSet, Len(current'.frames) <= Len(current.frames)
                                  \/ current' = EmptyQueue
    PROVE  WorkerInv'
<1>1. wpc' = "push" => Room'
  <2> SUFFICES ASSUME wpc = "push" PROVE Room'
    BY DEF localVars
  <2>1. Room /\ Len(current.frames) \in Nat /\ Len(current'.frames) \in Nat
    BY DEF WorkerInv, QueueSet
  <2>2. Len(current.frames) < MaxFrames => Len(current'.frames) < MaxFrames
    BY <2>1, Emptied, MaxFramesAssumption
  <2> QED
    BY <2>1, <2>2 DEF Room, localVars
<1> QED
  BY <1>1 DEF WorkerInv, localVars

\* The timer is a time of the movie.
LEMMA LaterIs ==
    ASSUME WorkerInv, PlayerInv, NEW d \in 0..MaxStep PROVE Later(d) \in Times
<1>1. now \in Nat /\ d \in Nat /\ Duration \in Nat \ {0}
  BY Timestamps, PlayerAssumption DEF PlayerInv
<1>2. (now + d) % Duration \in 0..(Duration - 1)
  BY <1>1
<1> QED
  BY <1>1, <1>2 DEF Later, Times

\* The engine's calls up to the point where they meet the worker.
LEMMA EngineKeeps ==
    WorkerInv /\ PlayerInv /\ Engine => WorkerInv' /\ PlayerInv'
<1> SUFFICES ASSUME WorkerInv, PlayerInv, Engine PROVE WorkerInv' /\ PlayerInv'
  OBVIOUS
<1>0. /\ {acked, shutdown, loop} \subseteq BOOLEAN /\ commands \in Seq(Commands)
      /\ current \in QueueSet /\ Len(current.frames) \in Nat /\ clock \in Times
  BY DEF WorkerInv, QueueSet
<1>1. CASE CheckCall
  <2>1. PICK d \in 0..MaxStep : now' = Later(d) /\ clock' = Later(d)
    BY <1>1 DEF CheckCall
  <2>2. now' \in Times /\ clock' \in Times
    BY <2>1, LaterIs
  <2>3. WorkerInv'
    BY <1>0, <1>1, <2>2, SharedKeeps DEF CheckCall
  <2> QED
    BY <1>1, <2>2, <2>3 DEF CheckCall, Begin, PlayerInv
<1>2. CASE EngineSeek
  <2>1. PICK t \in FramePts : now' = t /\ ClearForSeek(t)
    BY <1>2 DEF EngineSeek
  <2>2. t \in Times /\ Cmd("Seek", t) \in Commands /\ Cmd("Seek", t).op = "Seek"
    BY Timestamps, CommandIs
  <2>3. WorkerInv'
    BY <1>0, <1>2, <2>1, Emptied, SharedKeeps DEF EngineSeek, ClearForSeek
  <2>4. shown' <= lastClock' + Threshold
    BY <1>2, <2>1, Timestamps, PlayerAssumption
    DEF EngineSeek, ClearForSeek, PlayerInv, NoPts, NoSample
  <2> QED
    BY <1>2, <2>1, <2>2, <2>3, <2>4
    DEF EngineSeek, Begin, ClearForSeek, SendNext, PlayerInv, Commands
<1>3. CASE EndLoop
  <2>1. {acked', shutdown', loop'} \subseteq BOOLEAN
    BY <1>0, <1>3 DEF EndLoop
  <2>2. WorkerInv'
    BY <1>0, <1>3, <2>1, SharedKeeps DEF EndLoop
  <2> QED
    BY <1>3, <2>2 DEF EndLoop, playerVars, PlayerInv
<1>4. CASE Destroy
  <2>1. WorkerInv'
    BY <1>0, <1>4, SharedKeeps DEF Destroy
  <2>2. Cmd("Shutdown", 0) \in Commands /\ Cmd("Shutdown", 0).op = "Shutdown"
    BY Timestamps, CommandIs DEF Times
  <2> QED
    BY <1>4, <2>1, <2>2 DEF Destroy, Begin, SendNext, PlayerInv, Commands
<1> QED
  BY <1>1, <1>2, <1>3, <1>4 DEF Engine

\* chase_to: the clock that is sampled is not before the picture, or there is
\* no picture any more.
LEMMA ChaseKeeps ==
    WorkerInv /\ PlayerInv /\ Chase => WorkerInv' /\ PlayerInv'
<1> SUFFICES ASSUME WorkerInv, PlayerInv, Chase PROVE WorkerInv' /\ PlayerInv'
  OBVIOUS
<1> DEFINE event == ClockEvent(lastClock, now, loop, Duration)
<1>0. /\ {acked, shutdown, loop} \subseteq BOOLEAN /\ commands \in Seq(Commands)
      /\ current \in QueueSet /\ Len(current.frames) \in Nat /\ clock \in Times
  BY DEF WorkerInv, QueueSet
<1>1. gpc = "chase" /\ lastClock' = now /\ call \in {"check", "fill"}
      /\ UNCHANGED <<commands, acked, shutdown, next, playback, clock, loop, localVars,
                     now, call>>
      /\ sought' \in BOOLEAN
  BY DEF Chase, ClearForSeek, PlayerInv
<1>2. Chased \in {"answer", "pop"}
  BY DEF Chased
<1>3. now \in Nat /\ lastClock \in Int /\ lastClock >= -1 /\ shown \in Int /\ Threshold \in Nat
  BY Timestamps, PlayerAssumption DEF PlayerInv, NoPts, NoSample
<1>4. \A op \in {"Seek", "Forward", "Wrap"} :
          \A t \in {0, now} : Cmd(op, t) \in Commands /\ Cmd(op, t).op = op
  BY Timestamps, CommandIs DEF Times, PlayerInv
<1>5. event = "FirstSample" => lastClock = NoSample
  BY DEF ClockEvent
<1>6. event = "Advanced" => now >= lastClock
  BY DEF ClockEvent
<1>7. \/ event \in {"FirstSample", "Advanced"} /\ UNCHANGED <<shown, current>>
          /\ \/ SendNext(Cmd("Forward", now))
             \/ gpc' = Chased /\ UNCHANGED out
      \/ shown' = NoPts /\ SendNext(Cmd("Wrap", 0)) /\ UNCHANGED current
      \/ ClearForSeek(now)
  BY DEF Chase, ShownAfterWrap
<1>8. shown' <= lastClock' + Threshold /\ shown' \in FramePts \union {NoPts}
  <2>1. CASE event \in {"FirstSample", "Advanced"} /\ UNCHANGED shown
    <3>1. lastClock <= now
      BY <1>3, <1>5, <1>6, <2>1 DEF NoSample
    <3> QED
      BY <1>1, <1>3, <2>1, <3>1 DEF PlayerInv
  <2>2. CASE shown' = NoPts
    BY <1>1, <1>3, <2>2 DEF NoPts
  <2> QED
    BY <1>7, <2>1, <2>2 DEF ClearForSeek
<1>9. current' \in {current, EmptyQueue}
  BY <1>7 DEF ClearForSeek
<1>10. WorkerInv'
  BY <1>0, <1>1, <1>9, Emptied, SharedKeeps
<1>11. \/ gpc' = Chased /\ UNCHANGED out
       \/ gpc' = "send" /\ out' \in Commands
  BY <1>4, <1>7 DEF SendNext, ClearForSeek
<1> HIDE DEF event
<1> QED
  BY <1>1, <1>2, <1>8, <1>10, <1>11 DEF PlayerInv, Commands

\* The rest of a call.
LEMMA CallKeeps ==
    WorkerInv /\ PlayerInv /\ CallStep => WorkerInv' /\ PlayerInv'
<1> SUFFICES ASSUME WorkerInv, PlayerInv, CallStep PROVE WorkerInv' /\ PlayerInv'
  OBVIOUS
<1>0. /\ {acked, shutdown, loop} \subseteq BOOLEAN /\ commands \in Seq(Commands)
      /\ current \in QueueSet /\ Len(current.frames) \in Nat /\ clock \in Times
  BY DEF WorkerInv, QueueSet
<1>1. CASE Chase
  BY <1>1, ChaseKeeps
<1>2. CASE Send
  <2>1. out \in Commands
    BY <1>2 DEF Send, PlayerInv, Commands
  <2>2. commands' \in Seq(Commands)
    BY <1>0, <1>2, <2>1 DEF Send, Sent
  <2>3. WorkerInv'
    BY <1>0, <1>2, <2>2, SharedKeeps DEF Send
  <2>4. NoCmd \in [op : {"None", "Seek", "Forward", "Wrap", "Shutdown"}, target : Times]
    BY Timestamps DEF NoCmd, Cmd, Times
  <2>5. /\ gpc' = CASE out.op = "Wrap"     -> "wait"
                    [] out.op = "Shutdown" -> "join"
                    [] call = "seek"       -> "idle"
                    [] OTHER               -> Chased
        /\ out' = NoCmd /\ gpc = "send"
        /\ UNCHANGED <<now, lastClock, shown, call, sought>>
    BY <1>2 DEF Send
  <2>6. \/ gpc' \in {"wait", Chased} /\ lastClock = now /\ call \in {"check", "fill"}
        \/ gpc' \in {"join", "idle"}
    BY <2>1, <2>5 DEF PlayerInv, Commands
  <2> QED
    BY <2>3, <2>4, <2>5, <2>6 DEF PlayerInv, Chased
<1>3. CASE WrapReturns
  <2>1. {acked', shutdown', loop'} \subseteq BOOLEAN
    BY <1>0, <1>3 DEF WrapReturns
  <2>2. WorkerInv'
    BY <1>0, <1>3, <2>1, SharedKeeps DEF WrapReturns
  <2> QED
    BY <1>3, <2>2 DEF WrapReturns, Chased, PlayerInv
<1>4. CASE Answer
  <2>1. WorkerInv'
    BY <1>0, <1>4, SharedKeeps DEF Answer, PlayerInv
  <2> QED
    BY <1>4, <2>1 DEF Answer, PlayerInv
<1>5. CASE Pop
  <2>1. now + Threshold \in Nat /\ lastClock = now /\ Threshold \in Nat
        /\ now \in Times /\ now \in Nat
    BY <1>5, Timestamps, PlayerAssumption DEF Pop, PlayerInv
  <2> DEFINE p == PopFor(current, now + Threshold)
  <2>2. /\ p.frame \in FramePts \union {NoPts} /\ p.frame <= now + Threshold
        /\ p.queue \in QueueSet /\ Len(p.queue.frames) <= Len(current.frames)
    BY <1>0, <2>1, Popped
  <2>3. \/ /\ shown' = p.frame /\ current' = p.queue
           /\ gpc' = "idle" /\ UNCHANGED <<call, out>>
        \/ /\ current' = EmptyQueue /\ UNCHANGED shown
           /\ SendNext(Cmd("Seek", now)) /\ call' = "seek"
        \/ gpc' = "idle" /\ UNCHANGED <<current, call, out, shown>>
    BY <1>5 DEF Pop
  <2>4. UNCHANGED <<commands, acked, shutdown, next, playback, clock, loop, localVars,
                    now, lastClock>>
        /\ sought' \in BOOLEAN
    BY <1>5 DEF Pop, PlayerInv
  <2> HIDE DEF p
  <2>5. WorkerInv'
    BY <1>0, <2>2, <2>3, <2>4, Emptied, SharedKeeps
  <2>6. shown' <= lastClock' + Threshold /\ shown' \in FramePts \union {NoPts}
    BY <2>1, <2>2, <2>3, <2>4 DEF PlayerInv
  <2>7. Cmd("Seek", now) \in Commands /\ Cmd("Seek", now).op = "Seek"
    BY <2>1, CommandIs
  <2> QED
    BY <2>3, <2>4, <2>5, <2>6, <2>7 DEF SendNext, PlayerInv, Commands
<1>6. CASE Joined
  <2>1. WorkerInv'
    BY <1>0, <1>6, SharedKeeps DEF Joined, workerVars, localVars, WorkerInv
  <2> QED
    BY <1>6, <2>1 DEF Joined, PlayerInv
<1> QED
  BY <1>1, <1>2, <1>3, <1>4, <1>5, <1>6 DEF CallStep

\* The inductive invariant of playback holds.
THEOREM PlaybackInvHolds == Spec => [](WorkerInv /\ PlayerInv)
<1>1. WorkerInv /\ PlayerInv /\ UNCHANGED vars => WorkerInv' /\ PlayerInv'
  BY DEF vars, WorkerInv, PlayerInv, Room
<1>2. WorkerInv /\ PlayerInv /\ [Next]_vars => WorkerInv' /\ PlayerInv'
  BY <1>1, WorkerKeeps, EngineKeeps, CallKeeps DEF Next
<1> QED
  BY InitPlayback, <1>2, PTL DEF Spec

\* Each variable keeps its type, and no queue exceeds its limit.
THEOREM TypeCorrect == Spec => []TypeOK
<1>1. WorkerInv /\ PlayerInv => TypeOK
  <2> SUFFICES ASSUME WorkerInv, PlayerInv PROVE TypeOK
    OBVIOUS
  <2>1. \A i \in DOMAIN commands : commands[i] \in Commands
    BY DEF WorkerInv
  <2>2. current \in Queue /\ (next = <<>> \/ (Len(next) = 1 /\ Head(next) \in Queue))
    BY QueueIs DEF WorkerInv
  <2> QED
    BY <2>1, <2>2 DEF WorkerInv, PlayerInv, TypeOK, Commands, Modes
<1> QED
  BY PlaybackInvHolds, <1>1, PTL

\* Between the engine's calls no picture is from after the clock's last sample,
\* whatever the worker does, fails to do or has queued.
THEOREM ShownInTimeHolds == Spec => []ShownInTime
<1>1. PlayerInv => ShownInTime
  BY DEF PlayerInv, ShownInTime
<1> QED
  BY PlaybackInvHolds, <1>1, PTL

------------------------------------------------------------------------------

\* The order of what is on its way to the screen: the frames of a queue are in
\* order, and the last packet that went in is not before them.
Tidy(q) ==
    /\ \A i, j \in 1..Len(q.frames) : i <= j => q.frames[i] <= q.frames[j]
    /\ \A i \in 1..Len(q.frames) : q.frames[i] <= q.lastPacket

\* The picture comes first ...
PictureFirst ==
    /\ shown <= current.lastPacket
    /\ \A i \in 1..Len(current.frames) : shown <= current.frames[i]

\* ... and what the worker brings next comes last.
Behind(p) == shown <= p /\ \A i \in 1..Len(current.frames) : current.frames[i] <= p

\* A worker that has left the pass of the current queue comes back to it only
\* by a Forward, to a target behind it.  An idle one reads nothing.
ComesBehind ==
    /\ mode.at = "Forwarding" => Behind(mode.target)
    /\ mode.at \in {"Playing", "Seeking"} /\ wpc \notin {"push", "exited"}
          => current.lastPacket <= Pts(position)
    /\ wpc = "push" => /\ mode.at # "Forwarding" /\ packet.pts <= Pts(position)
                       /\ mode.at # "PreloadNext" => Behind(packet.pts)
    /\ wpc \in {"read", "push"} => ~IsIdle(mode)

\* The preloaded queue, and the packet behind it.
NextReach ==
    IF wpc = "push" /\ mode.at = "PreloadNext" THEN packet.pts ELSE Pts(position)
NextTidy ==
    next # <<>> => Tidy(Head(next)) /\ Head(next).lastPacket <= NextReach

\* Nothing makes the worker seek.
NoSeek ==
    /\ out.op # "Seek"
    /\ \A i \in 1..Len(commands) : commands[i].op # "Seek"

InOrder == Tidy(current) /\ PictureFirst /\ ComesBehind /\ NextTidy /\ NoSeek

\* The game thread waits behind the Wrap it has sent, without a picture.
WrapAlone ==
    /\ \A i \in 1..Len(commands) :
          commands[i].op = "Wrap" => i = Len(commands) /\ gpc = "wait" /\ ~acked
    /\ acked => gpc = "wait"
    /\ gpc = "send" /\ out.op = "Wrap" => shown = NoPts
    /\ gpc = "wait" => shown = NoPts
    /\ wpc = "exited" => commands = <<>>

OrderInv == WorkerInv /\ PlayerInv /\ WrapAlone /\ (~sought => InOrder)

\* Later packets have later timestamps.
LEMMA PtsGrow ==
    \A k \in Nat : Pts(k) \in Nat /\ Pts(k) <= Pts(k + 1)
<1> SUFFICES ASSUME NEW k \in Nat PROVE Pts(k) \in Nat /\ Pts(k) <= Pts(k + 1)
  OBVIOUS
<1>1. Interval \in Nat
  BY MovieAssumption
<1>2. k * Interval \in Nat /\ (k + 1) * Interval = k * Interval + Interval
  BY <1>1
<1> QED
  BY <1>1, <1>2 DEF Pts

\* The timestamps of a queue.
LEMMA QueueNumbers ==
    ASSUME NEW q \in QueueSet
    PROVE  /\ q.frames \in Seq(FramePts) /\ Len(q.frames) \in Nat
           /\ q.lastPacket \in Int /\ q.lastPacket >= NoPts
           /\ \A i \in 1..Len(q.frames) : q.frames[i] \in Nat
<1>1. q.frames \in Seq(FramePts) /\ q.lastPacket \in FramePts \union {NoPts}
  BY DEF QueueSet
<1>2. \A p \in FramePts : p \in Nat
  BY Timestamps
<1>3. q.lastPacket \in Int /\ q.lastPacket >= NoPts
  BY <1>1, <1>2 DEF NoPts
<1>4. \A i \in 1..Len(q.frames) : q.frames[i] \in FramePts
  BY <1>1
<1> QED
  BY <1>1, <1>2, <1>3, <1>4

\* An empty queue is tidy.
LEMMA EmptyTidy == Tidy(EmptyQueue) /\ EmptyQueue.lastPacket = NoPts
BY DEF Tidy, EmptyQueue

\* What is pushed behind a tidy queue leaves it tidy.
LEMMA PushTidy ==
    ASSUME NEW q \in QueueSet, Tidy(q), NEW p \in Nat, NEW b,
           \A i \in 1..Len(q.frames) : q.frames[i] <= p
    PROVE  /\ Tidy(Push(q, p, b)) /\ Push(q, p, b).lastPacket = p
           /\ \A i \in 1..Len(Push(q, p, b).frames) :
                 Push(q, p, b).frames[i] \in {q.frames[j] : j \in 1..Len(q.frames)} \union {p}
<1> DEFINE f == q.frames
           g == Push(q, p, b).frames
<1>1. f \in Seq(FramePts) /\ Len(f) \in Nat /\ \A i \in 1..Len(f) : f[i] \in Nat
  BY QueueNumbers
<1>2. g = (IF b THEN Append(f, p) ELSE f) /\ Push(q, p, b).lastPacket = p
  BY DEF Push
<1>3. \/ Len(g) = Len(f) /\ \A i \in 1..Len(f) : g[i] = f[i]
      \/ /\ Len(g) = Len(f) + 1 /\ g[Len(f) + 1] = p
         /\ \A i \in 1..Len(f) : g[i] = f[i]
  BY <1>1, <1>2
<1>4. \A i, j \in 1..Len(f) : i <= j => f[i] <= f[j]
  BY DEF Tidy
<1>5. \A i \in 1..Len(f) : f[i] <= p
  OBVIOUS
<1>6. \A i \in 1..Len(g) : g[i] \in {f[j] : j \in 1..Len(f)} \union {p}
  <2> HIDE DEF f, g
  <2> QED
    BY <1>1, <1>3
<1>7. /\ \A i, j \in 1..Len(g) : i <= j => g[i] <= g[j]
      /\ \A i \in 1..Len(g) : g[i] <= p
  <2> HIDE DEF f, g
  <2> QED
    BY <1>1, <1>3, <1>4, <1>5
<1> QED
  BY <1>2, <1>6, <1>7 DEF Tidy

\* pop_frame_for cuts a queue behind the frame it gives.
LEMMA PopCuts ==
    ASSUME NEW q \in QueueSet, NEW t \in Nat
    PROVE  \E n \in 0..Len(q.frames) :
              /\ PopFor(q, t).frame = IF n = 0 THEN NoPts ELSE q.frames[n]
              /\ PopFor(q, t).queue.lastPacket = q.lastPacket
              /\ Len(PopFor(q, t).queue.frames) = Len(q.frames) - n
              /\ \A i \in 1..(Len(q.frames) - n) :
                    PopFor(q, t).queue.frames[i] = q.frames[n + i]
<1> DEFINE n == DueCount(q, t)
           rest == SubSeq(q.frames, n + 1, Len(q.frames))
<1>1. q.frames \in Seq(FramePts) /\ Len(q.frames) \in Nat
      /\ q = [frames |-> q.frames, lastPacket |-> q.lastPacket]
  BY DEF QueueSet
<1>2. n \in 0..Len(q.frames)
  BY Due
<1> HIDE DEF n
<1>3. /\ Len(rest) = Len(q.frames) - n
      /\ \A i \in 1..(Len(q.frames) - n) : rest[i] = q.frames[n + i]
  BY <1>1, <1>2
<1>4. PopFor(q, t) = [frame |-> IF n = 0 THEN NoPts ELSE q.frames[n],
                      queue |-> [q EXCEPT !.frames = rest]]
  BY <1>1 DEF PopFor, n
<1>5. [q EXCEPT !.frames = rest] = [frames |-> rest, lastPacket |-> q.lastPacket]
  <2> HIDE DEF rest
  <2> QED
    BY <1>1
<1> HIDE DEF rest
<1> QED
  BY <1>2, <1>3, <1>4, <1>5

\* What is left is tidy, made of the old frames, and not before the frame given.
LEMMA PopTidy ==
    ASSUME NEW q \in QueueSet, Tidy(q), NEW t \in Nat
    PROVE  LET p == PopFor(q, t)
           IN  /\ Tidy(p.queue) /\ p.queue.lastPacket = q.lastPacket
               /\ \A i \in 1..Len(p.queue.frames) :
                     \E j \in 1..Len(q.frames) : p.queue.frames[i] = q.frames[j]
               /\ p.frame # NoPts =>
                     /\ \E j \in 1..Len(q.frames) : p.frame = q.frames[j]
                     /\ \A i \in 1..Len(p.queue.frames) : p.frame <= p.queue.frames[i]
<1> DEFINE p == PopFor(q, t)
<1>1. PICK n \in 0..Len(q.frames) :
          /\ p.frame = IF n = 0 THEN NoPts ELSE q.frames[n]
          /\ p.queue.lastPacket = q.lastPacket
          /\ Len(p.queue.frames) = Len(q.frames) - n
          /\ \A i \in 1..(Len(q.frames) - n) : p.queue.frames[i] = q.frames[n + i]
  BY PopCuts
<1>2. Len(q.frames) \in Nat /\ \A i \in 1..Len(q.frames) : q.frames[i] \in Nat
  BY QueueNumbers
<1>3. \A i \in 1..(Len(q.frames) - n) : n + i \in 1..Len(q.frames)
  BY <1>2
<1> HIDE DEF p
<1>4. Tidy(p.queue)
  <2>1. \A i, j \in 1..Len(p.queue.frames) : i <= j => p.queue.frames[i] <= p.queue.frames[j]
    BY <1>1, <1>2, <1>3 DEF Tidy
  <2>2. \A i \in 1..Len(p.queue.frames) : p.queue.frames[i] <= p.queue.lastPacket
    BY <1>1, <1>3 DEF Tidy
  <2> QED
    BY <2>1, <2>2 DEF Tidy
<1>5. ASSUME p.frame # NoPts
      PROVE  /\ \E j \in 1..Len(q.frames) : p.frame = q.frames[j]
             /\ \A i \in 1..Len(p.queue.frames) : p.frame <= p.queue.frames[i]
  <2>1. n # 0 /\ n \in 1..Len(q.frames) /\ p.frame = q.frames[n]
    BY <1>1, <1>2, <1>5
  <2>2. \A i \in 1..(Len(q.frames) - n) : q.frames[n] <= q.frames[n + i]
    BY <1>2, <1>3, <2>1 DEF Tidy
  <2> QED
    BY <1>1, <2>1, <2>2
<1> QED
  BY <1>1, <1>3, <1>4, <1>5 DEF p

\* The numbers that are compared.
LEMMA OrderNumbers ==
    ASSUME WorkerInv, PlayerInv
    PROVE  /\ current \in QueueSet /\ Len(current.frames) \in Nat
           /\ current.lastPacket \in Int /\ current.lastPacket >= NoPts
           /\ \A i \in 1..Len(current.frames) : current.frames[i] \in Nat
           /\ shown \in Int /\ shown >= NoPts
           /\ position \in Nat /\ position + 1 \in Nat /\ Pts(position) \in Nat
           /\ Pts(position + 1) \in Nat /\ Pts(position) <= Pts(position + 1)
           /\ mode.target \in Nat /\ packet.pts \in Int
           /\ next # <<>> => /\ Head(next) \in QueueSet /\ next = <<Head(next)>>
                             /\ Head(next).lastPacket \in Int
                             /\ \A i \in 1..Len(Head(next).frames) :
                                   Head(next).frames[i] \in Nat
<1>1. current \in QueueSet
  BY DEF WorkerInv
<1>2. \A p \in FramePts \union {NoPts} : p \in Int /\ p >= NoPts
  BY Timestamps DEF NoPts
<1>3. shown \in FramePts \union {NoPts} /\ packet.pts \in FramePts \union {NoPts}
  BY DEF WorkerInv, PlayerInv
<1>4. position \in Nat
  BY MovieAssumption DEF WorkerInv
<1>5. next # <<>> => Head(next) \in QueueSet /\ next = <<Head(next)>>
  BY DEF WorkerInv
<1>6. next # <<>> => /\ Head(next).lastPacket \in Int
                     /\ \A i \in 1..Len(Head(next).frames) : Head(next).frames[i] \in Nat
  BY <1>5, QueueNumbers
<1>7. mode.target \in Nat
  BY Timestamps DEF WorkerInv
<1>8. position + 1 \in Nat
  BY <1>4
<1>9. /\ Pts(position) \in Nat /\ Pts(position + 1) \in Nat
      /\ Pts(position) <= Pts(position + 1)
  BY <1>4, <1>8, PtsGrow
<1>10. /\ Len(current.frames) \in Nat
       /\ current.lastPacket \in Int /\ current.lastPacket >= NoPts
       /\ \A i \in 1..Len(current.frames) : current.frames[i] \in Nat
  BY <1>1, QueueNumbers
<1> QED
  BY <1>1, <1>2, <1>3, <1>4, <1>5, <1>6, <1>7, <1>8, <1>9, <1>10

\* A Forward that is not ignored is to a target behind the queue.
LEMMA ForwardBehind ==
    ASSUME WorkerInv, PlayerInv, InOrder, NEW t \in Nat, ForwardTakes(t)
    PROVE  Behind(t)
<1> DEFINE f == current.frames
<1>1. /\ f \in Seq(FramePts) /\ Len(f) \in Nat /\ \A i \in 1..Len(f) : f[i] \in Nat
      /\ current.lastPacket \in Int /\ shown \in Int
  BY OrderNumbers, QueueNumbers
<1>2. LastPts(current) = NoPts \/ t > LastPts(current)
  BY DEF ForwardTakes
<1>3. shown <= current.lastPacket /\ \A i \in 1..Len(f) : shown <= f[i]
  BY DEF InOrder, PictureFirst
<1>4. CASE f = <<>>
  <2>1. LastPts(current) = current.lastPacket /\ Len(f) = 0
    BY <1>4 DEF LastPts
  <2>2. shown <= t
    BY <1>1, <1>2, <1>3, <2>1 DEF NoPts
  <2> QED
    BY <2>1, <2>2 DEF Behind
<1>5. CASE f # <<>>
  <2>1. LastPts(current) = f[Len(f)] /\ Len(f) \in 1..Len(f)
    BY <1>1, <1>5 DEF LastPts, Last
  <2>2. f[Len(f)] < t
    BY <1>1, <1>2, <2>1 DEF NoPts
  <2>3. \A i \in 1..Len(f) : f[i] <= f[Len(f)]
    BY <1>1, <2>1 DEF InOrder, Tidy
  <2> HIDE DEF f
  <2>4. shown <= t /\ \A i \in 1..Len(f) : f[i] <= t
    BY <1>1, <1>3, <2>1, <2>2, <2>3
  <2> QED
    BY <2>4 DEF Behind, f
<1> QED
  BY <1>4, <1>5

\* The head of the channel, and what is behind it.
LEMMA Taken ==
    ASSUME WorkerInv, commands # <<>>
    PROVE  /\ commands \in Seq(Commands) /\ Len(commands) \in Nat \ {0}
           /\ Head(commands) = commands[1] /\ 1 \in 1..Len(commands)
           /\ Head(commands) \in Commands
           /\ Len(Tail(commands)) = Len(commands) - 1
           /\ \A i \in 1..Len(Tail(commands)) : Tail(commands)[i] = commands[i + 1]
<1>1. commands \in Seq(Commands)
  BY DEF WorkerInv
<1>2. Len(commands) \in Nat \ {0} /\ Len(Tail(commands)) = Len(commands) - 1
  BY <1>1
<1>3. Head(commands) = commands[1] /\ 1 \in 1..Len(commands)
  BY <1>1, <1>2
<1>4. Head(commands) \in Commands
  BY <1>1
<1>5. \A i \in 1..Len(Tail(commands)) : Tail(commands)[i] = commands[i + 1]
  BY <1>1, <1>2
<1> QED
  BY <1>1, <1>2, <1>3, <1>4, <1>5

\* The worker takes a command.  A Wrap finds no picture, so that the next pass
\* may begin.
LEMMA ReceiveInOrder ==
    ASSUME WorkerInv, PlayerInv, WrapAlone, InOrder, Receive, UNCHANGED playerVars
    PROVE  InOrder'
<1> USE DEF playerVars
<1>0. /\ wpc = "receive" /\ wpc' \in {"top", "read", "exited"}
      /\ wpc' = "read" => ~IsIdle(mode') /\ UNCHANGED packet
  BY DEF Receive, WorkerEnds
<1>1. CASE UNCHANGED <<current, next, mode, position>> /\ commands' \in {commands, <<>>}
  <2>1. Tidy(current)' /\ PictureFirst'
    BY <1>1 DEF InOrder, Tidy, PictureFirst
  <2>2. ComesBehind'
    BY <1>0, <1>1 DEF InOrder, ComesBehind, Behind
  <2>3. NextTidy'
    BY <1>0, <1>1 DEF InOrder, NextTidy, NextReach, Tidy
  <2>4. NoSeek'
    BY <1>1 DEF InOrder, NoSeek
  <2> QED
    BY <2>1, <2>2, <2>3, <2>4 DEF InOrder
<1>2. CASE commands # <<>> /\ Head(commands).op # "Shutdown"
  <2>1. /\ commands \in Seq(Commands) /\ Len(commands) \in Nat \ {0}
        /\ Head(commands) = commands[1] /\ 1 \in 1..Len(commands)
        /\ Head(commands) \in Commands
        /\ commands' = Tail(commands) /\ Len(Tail(commands)) = Len(commands) - 1
        /\ \A i \in 1..Len(Tail(commands)) : Tail(commands)[i] = commands[i + 1]
    BY <1>2, Taken DEF Receive
  <2>2. NoSeek'
    BY <2>1 DEF InOrder, NoSeek
  <2>3. Head(commands).op \in {"Forward", "Wrap"} /\ Head(commands).target \in Nat
    BY <1>2, <2>1, Timestamps DEF InOrder, NoSeek, Commands
  <2>4. CASE Head(commands).op = "Forward"
    <3> DEFINE t == Head(commands).target
    <3>1. HandleForward(t)
      BY <1>2, <2>4 DEF Receive
    <3>2. UNCHANGED <<current, next, position>>
          /\ (mode' = mode \/ (ForwardTakes(t) /\ mode' = Forwarding(t)))
      BY <3>1 DEF HandleForward
    <3>3. mode' # mode => Behind(t)
      BY <2>3, <3>2, ForwardBehind
    <3>4. Tidy(current)' /\ PictureFirst'
      BY <3>2 DEF InOrder, Tidy, PictureFirst
    <3>5. ComesBehind'
      BY <1>0, <3>2, <3>3 DEF InOrder, ComesBehind, Behind, Forwarding
    <3>6. NextTidy'
      BY <1>0, <3>2 DEF InOrder, NextTidy, NextReach, Tidy
    <3> QED
      BY <2>2, <3>4, <3>5, <3>6 DEF InOrder
  <2>5. CASE Head(commands).op = "Wrap"
    <3>1. HandleWrap
      BY <1>2, <2>5 DEF Receive
    <3>2. shown = NoPts
      BY <2>1, <2>5 DEF WrapAlone
    <3>3. CASE ~loop
      <4>1. UNCHANGED <<current, next, position>> /\ mode' = Idle("CurrentReady")
        BY <3>1, <3>3 DEF HandleWrap
      <4>2. Tidy(current)' /\ PictureFirst'
        BY <4>1 DEF InOrder, Tidy, PictureFirst
      <4>3. ComesBehind'
        BY <1>0, <4>1 DEF ComesBehind, Idle
      <4>4. NextTidy'
        BY <1>0, <4>1 DEF InOrder, NextTidy, NextReach, Tidy
      <4> QED
        BY <2>2, <4>2, <4>3, <4>4 DEF InOrder
    <3>4. CASE loop /\ next # <<>>
      <4>1. /\ current' = Head(next) /\ next' = <<>> /\ mode' = Playing
            /\ UNCHANGED position
        BY <3>1, <3>4 DEF HandleWrap
      <4>2. Tidy(Head(next)) /\ Head(next).lastPacket <= Pts(position)
        BY <1>0, <3>4 DEF InOrder, NextTidy, NextReach
      <4>3. Tidy(current)' /\ current'.lastPacket <= Pts(position')
        BY <4>1, <4>2 DEF Tidy
      <4>4. PictureFirst'
        BY <3>2, <3>4, <4>1, OrderNumbers, QueueNumbers DEF PictureFirst, NoPts
      <4>5. ComesBehind'
        BY <1>0, <4>1, <4>3 DEF ComesBehind, Playing
      <4> QED
        BY <2>2, <4>1, <4>3, <4>4, <4>5 DEF InOrder, NextTidy
    <3>5. CASE loop /\ next = <<>>
      <4>1. /\ current' = EmptyQueue /\ next' = <<>>
            /\ mode' \in {Seeking(0), Idle("CurrentReady")}
            /\ position' \in {SeekPosition(0), position}
        BY <3>1, <3>5 DEF HandleWrap
      <4>2. position' \in Nat
        BY <4>1, SeekLands, OrderNumbers, Timestamps, MovieAssumption DEF Times
      <4>3. current'.lastPacket <= Pts(position')
        BY <4>1, <4>2, PtsGrow, EmptyTidy DEF NoPts
      <4>4. PictureFirst'
        BY <3>2, <4>1 DEF PictureFirst, EmptyQueue, NoPts
      <4>5. Tidy(current)'
        BY <4>1, EmptyTidy DEF Tidy
      <4>6. ComesBehind'
        BY <1>0, <4>1, <4>3 DEF ComesBehind, Seeking, Idle
      <4> QED
        BY <2>2, <4>1, <4>4, <4>5, <4>6 DEF InOrder, NextTidy
    <3> QED
      BY <3>3, <3>4, <3>5 DEF WorkerInv
  <2> QED
    BY <2>3, <2>4, <2>5
<1> QED
  BY <1>1, <1>2 DEF Receive, WorkerEnds

\* The worker reads on: what it will push is behind what is queued and shown.
LEMMA ReadInOrder ==
    ASSUME WorkerInv, PlayerInv, InOrder, Read, UNCHANGED playerVars
    PROVE  InOrder'
<1> USE DEF playerVars
<1>0. wpc = "read" /\ UNCHANGED <<commands, current, next>> /\ ~IsIdle(mode)
  BY DEF Read, InOrder, ComesBehind
<1>1. Tidy(current)' /\ PictureFirst' /\ NoSeek'
  BY <1>0 DEF InOrder, Tidy, PictureFirst, NoSeek
<1>2. CASE wpc' \in {"top", "end"} /\ UNCHANGED position
  <2>1. mode' = mode \/ mode' \in {AfterNoWork(mode), Idle("Ended")}
    BY <1>0, <1>2 DEF Read
  <2>2. ComesBehind'
    BY <1>0, <1>2, <2>1 DEF InOrder, ComesBehind, Behind, AfterNoWork, Idle
  <2>3. NextTidy'
    BY <1>0, <1>2 DEF InOrder, NextTidy, NextReach, Tidy
  <2> QED
    BY <1>1, <2>2, <2>3 DEF InOrder
<1>3. CASE position' = position + 1 /\ wpc' = "top"
  <2>1. mode.at = "Forwarding" /\ UNCHANGED mode
    BY <1>0, <1>3, OrderNumbers DEF Read
  <2>2. ComesBehind'
    BY <1>0, <1>3, <2>1 DEF InOrder, ComesBehind, Behind
  <2>3. next # <<>> => Tidy(Head(next)) /\ Head(next).lastPacket <= Pts(position)
    BY <1>0 DEF InOrder, NextTidy, NextReach
  <2>4. next # <<>> => Head(next).lastPacket <= Pts(position + 1)
    BY <2>3, OrderNumbers
  <2>5. NextTidy'
    BY <1>0, <1>3, <2>3, <2>4 DEF NextTidy, NextReach, Tidy
  <2> QED
    BY <1>1, <2>2, <2>5 DEF InOrder
<1>4. CASE position' = position + 1 /\ wpc' = "push"
  <2>1. /\ packet'.pts = Pts(position)
        /\ mode.at = "Forwarding" => Pts(position) >= mode.target
        /\ mode' = IF mode.at \in {"Seeking", "Forwarding"} /\ Pts(position) >= mode.target
                     THEN Playing ELSE mode
    BY <1>0, <1>4 DEF Read
  <2>2. mode'.at # "Forwarding" /\ ~IsIdle(mode')
    BY <1>0, <2>1 DEF Playing, IsIdle
  <2>3. mode'.at = "PreloadNext" <=> mode.at = "PreloadNext"
    BY <2>1 DEF Playing
  <2>4. ASSUME mode.at # "PreloadNext" PROVE Behind(Pts(position))
    <3>1. CASE mode.at = "Forwarding"
      <4>1. Behind(mode.target) /\ mode.target <= Pts(position)
        BY <2>1, <3>1, OrderNumbers DEF InOrder, ComesBehind
      <4> QED
        BY <4>1, OrderNumbers DEF Behind
    <3>2. CASE mode.at \in {"Playing", "Seeking"}
      <4>1. current.lastPacket <= Pts(position)
        BY <1>0, <3>2 DEF InOrder, ComesBehind
      <4>2. /\ shown <= current.lastPacket
            /\ \A i \in 1..Len(current.frames) : current.frames[i] <= current.lastPacket
        BY DEF InOrder, PictureFirst, Tidy
      <4> QED
        BY <4>1, <4>2, OrderNumbers DEF Behind
    <3> QED
      BY <1>0, <2>4, <3>1, <3>2 DEF WorkerInv, Modes, IsIdle
  <2>5. packet'.pts <= Pts(position')
    BY <1>4, <2>1, OrderNumbers
  <2>6. mode'.at # "PreloadNext" => Behind(packet'.pts)
    BY <2>1, <2>3, <2>4
  <2>7. ComesBehind'
    BY <1>0, <1>4, <2>2, <2>5, <2>6 DEF ComesBehind, Behind
  <2>8. next # <<>> => Tidy(Head(next)) /\ Head(next).lastPacket <= Pts(position)
    BY <1>0 DEF InOrder, NextTidy, NextReach
  <2>9. next # <<>> => Head(next).lastPacket <= Pts(position + 1)
    BY <2>8, OrderNumbers
  <2>10. NextTidy'
    BY <1>0, <1>4, <2>1, <2>8, <2>9 DEF NextTidy, NextReach, Tidy
  <2> QED
    BY <1>1, <2>7, <2>10 DEF InOrder
<1> QED
  BY <1>2, <1>3, <1>4 DEF Read

\* The packet goes behind the queue it was read for, or nowhere.
LEMMA PushInOrder ==
    ASSUME WorkerInv, PlayerInv, InOrder, PushPacket, UNCHANGED playerVars
    PROVE  InOrder'
<1> USE DEF playerVars
<1> DEFINE p == packet.pts
<1>0. /\ wpc = "push" /\ wpc' \in {"top", "exited"} /\ commands' \in {commands, <<>>}
      /\ UNCHANGED position
      /\ p \in Nat /\ p <= Pts(position) /\ mode.at # "Forwarding"
      /\ mode.at # "PreloadNext" => Behind(p)
  BY Timestamps DEF PushPacket, WorkerEnds, InOrder, ComesBehind, WorkerInv
<1>1. NoSeek'
  BY <1>0 DEF InOrder, NoSeek
<1>2. next # <<>> => Tidy(Head(next)) /\ Head(next).lastPacket <= Pts(position)
  BY <1>0, OrderNumbers DEF InOrder, NextTidy, NextReach
<1>3. CASE /\ UNCHANGED <<current, next>>
           /\ mode' = AfterNoWork(mode) \/ (mode' = mode /\ wpc' = "exited")
  <2>1. Tidy(current)' /\ PictureFirst'
    BY <1>3 DEF InOrder, Tidy, PictureFirst
  <2>2. NextTidy'
    BY <1>0, <1>2, <1>3 DEF NextTidy, NextReach, Tidy
  <2>3. ComesBehind'
    BY <1>0, <1>3 DEF ComesBehind, AfterNoWork, Idle
  <2> QED
    BY <1>1, <2>1, <2>2, <2>3 DEF InOrder
<1>4. CASE /\ mode.at = "PreloadNext" /\ UNCHANGED <<current, mode>> /\ wpc' = "top"
           /\ next' = << Push(IF next = <<>> THEN EmptyQueue ELSE Head(next),
                              p, packet.presentable) >>
  <2> DEFINE q == IF next = <<>> THEN EmptyQueue ELSE Head(next)
  <2>1. /\ next' = << Push(q, p, packet.presentable) >>
        /\ UNCHANGED <<current, mode>> /\ wpc' = "top"
    BY <1>4
  <2>2. q \in QueueSet /\ Tidy(q)
    BY <1>2, OrderNumbers, Emptied, EmptyTidy
  <2>3. \A i \in 1..Len(q.frames) : q.frames[i] <= p
    <3>1. CASE next = <<>>
      BY <3>1 DEF EmptyQueue
    <3>2. CASE next # <<>>
      <4>1. Head(next).lastPacket <= p
        BY <1>0, <1>4, <3>2 DEF InOrder, NextTidy, NextReach
      <4>2. \A i \in 1..Len(Head(next).frames) :
                Head(next).frames[i] <= Head(next).lastPacket
        BY <1>2, <3>2 DEF Tidy
      <4> QED
        BY <1>0, <3>2, <4>1, <4>2, OrderNumbers
    <3> QED
      BY <3>1, <3>2
  <2> HIDE DEF q
  <2>4. /\ Tidy(Push(q, p, packet.presentable))
        /\ Push(q, p, packet.presentable).lastPacket = p
    BY <1>0, <2>2, <2>3, PushTidy
  <2>5. Head(next') = Push(q, p, packet.presentable)
    BY <2>1
  <2>6. NextTidy'
    BY <1>0, <2>1, <2>4, <2>5 DEF NextTidy, NextReach, Tidy
  <2>7. Tidy(current)' /\ PictureFirst'
    BY <2>1 DEF InOrder, Tidy, PictureFirst
  <2>8. ComesBehind'
    BY <1>4, <2>1 DEF ComesBehind
  <2> QED
    BY <1>1, <2>6, <2>7, <2>8 DEF InOrder
<1>5. CASE /\ mode.at # "PreloadNext" /\ UNCHANGED <<next, mode>> /\ wpc' = "top"
           /\ current' = Push(current, p, packet.presentable)
  <2>1. /\ current' = Push(current, p, packet.presentable)
        /\ UNCHANGED <<next, mode>> /\ wpc' = "top"
    BY <1>5
  <2>2. Behind(p)
    BY <1>0, <1>5
  <2>3. /\ Tidy(current') /\ current'.lastPacket = p
        /\ \A i \in 1..Len(current'.frames) :
              current'.frames[i] \in {current.frames[j] : j \in 1..Len(current.frames)}
                                     \union {p}
    BY <1>0, <2>1, <2>2, PushTidy, OrderNumbers DEF InOrder, Behind
  <2>4. Tidy(current)'
    BY <2>3 DEF Tidy
  <2>5. PictureFirst'
    BY <2>2, <2>3 DEF InOrder, PictureFirst, Behind
  <2>6. NextTidy'
    BY <1>0, <1>2, <2>1 DEF NextTidy, NextReach, Tidy
  <2>7. ComesBehind'
    BY <1>0, <2>1, <2>3 DEF ComesBehind
  <2> QED
    BY <1>1, <2>4, <2>5, <2>6, <2>7 DEF InOrder
<1> QED
  BY <1>3, <1>4, <1>5 DEF PushPacket, WorkerEnds

\* The rest of the worker's round.
LEMMA WorkerInOrder ==
    ASSUME WorkerInv, PlayerInv, WrapAlone, InOrder, Worker
    PROVE  InOrder'
<1>0. UNCHANGED playerVars
  BY DEF Worker
<1>1. CASE CheckShutdown
  <2>1. /\ wpc = "top" /\ wpc' \in {"exited", "receive"} /\ commands' \in {commands, <<>>}
        /\ UNCHANGED <<current, next, mode, packet, position>>
    BY <1>1 DEF CheckShutdown, WorkerEnds
  <2>2. Tidy(current)' /\ PictureFirst' /\ NoSeek'
    BY <1>0, <2>1 DEF InOrder, Tidy, PictureFirst, NoSeek, playerVars
  <2>3. ComesBehind' /\ NextTidy'
    BY <1>0, <2>1 DEF InOrder, ComesBehind, Behind, NextTidy, NextReach, Tidy, playerVars
  <2> QED
    BY <2>2, <2>3 DEF InOrder
<1>2. CASE Receive
  BY <1>0, <1>2, ReceiveInOrder
<1>3. CASE Read
  BY <1>0, <1>3, ReadInOrder
<1>4. CASE PushPacket
  BY <1>0, <1>4, PushInOrder
<1>5. CASE AtEnd
  <2>1. /\ wpc = "end" /\ wpc' = "top" /\ UNCHANGED <<commands, current>>
        /\ mode' \in {PreloadNext, Idle("CurrentReady"), Idle("Ended")}
        /\ \/ UNCHANGED <<position, next>>
           \/ position' = SeekPosition(0) /\ next' \in {<<>>, <<EmptyQueue>>}
    BY <1>5 DEF AtEnd, PreloadQueue
  <2>2. Tidy(current)' /\ PictureFirst' /\ NoSeek'
    BY <1>0, <2>1 DEF InOrder, Tidy, PictureFirst, NoSeek, playerVars
  <2>3. ComesBehind'
    BY <2>1 DEF ComesBehind, PreloadNext, Idle
  <2>4. SeekPosition(0) \in Nat
    BY SeekLands, Timestamps, MovieAssumption DEF Times
  <2>5. NoPts <= Pts(SeekPosition(0))
    BY <2>4, PtsGrow DEF NoPts
  <2>6. NextTidy'
    BY <2>1, <2>5, EmptyTidy DEF InOrder, NextTidy, NextReach, Tidy
  <2> QED
    BY <2>2, <2>3, <2>6 DEF InOrder
<1> QED
  BY <1>1, <1>2, <1>3, <1>4, <1>5 DEF Worker, WorkerStep

\* The worker answers the Wrap that the game thread waits behind, and no other
\* is there.
LEMMA WorkerWrapAlone ==
    ASSUME WorkerInv, PlayerInv, WrapAlone, Worker
    PROVE  WrapAlone'
<1>0. UNCHANGED playerVars
  BY DEF Worker
<1> USE <1>0 DEF playerVars
<1>1. CASE Receive /\ commands # <<>> /\ Head(commands).op # "Shutdown"
  <2>1. commands' = Tail(commands) /\ wpc' \in {"top", "read"}
    BY <1>1 DEF Receive
  <2>2. Head(commands).op \in {"Seek", "Forward", "Wrap"}
    BY <1>1, Taken DEF Commands
  <2>3. ASSUME NEW i \in 1..Len(Tail(commands)), Tail(commands)[i].op = "Wrap"
        PROVE  i = Len(Tail(commands)) /\ gpc = "wait" /\ ~acked
    <3>1. i + 1 \in 1..Len(commands) /\ commands[i + 1].op = "Wrap"
      BY <1>1, <2>3, Taken
    <3>2. i + 1 = Len(commands) /\ gpc = "wait" /\ ~acked
      BY <3>1 DEF WrapAlone
    <3>3. Len(Tail(commands)) = Len(commands) - 1
      BY <1>1, Taken
    <3> QED
      BY <3>2, <3>3
  <2>4. CASE Head(commands).op = "Wrap"
    <3>1. 1 = Len(commands) /\ gpc = "wait"
      BY <1>1, <2>4, Taken DEF WrapAlone
    <3>2. Len(Tail(commands)) = 0
      BY <1>1, <3>1, Taken
    <3> QED
      BY <2>1, <3>1, <3>2 DEF WrapAlone
  <2>5. CASE Head(commands).op # "Wrap"
    <3>1. \/ HandleSeek(Head(commands).target) \/ HandleForward(Head(commands).target)
          \/ Head(commands).op = "Wrap" /\ HandleWrap
      BY <1>1, <2>2 DEF Receive
    <3>2. UNCHANGED acked
      BY <2>5, <3>1 DEF HandleSeek, HandleForward
    <3> QED
      BY <2>1, <2>3, <3>2 DEF WrapAlone
  <2> QED
    BY <2>4, <2>5
<1>2. CASE \/ Receive /\ (commands = <<>> \/ Head(commands).op = "Shutdown")
           \/ CheckShutdown \/ PushPacket
  <2>1. /\ UNCHANGED acked
        /\ \/ commands' = <<>>
           \/ wpc' # "exited" /\ UNCHANGED commands
    BY <1>2 DEF Receive, CheckShutdown, PushPacket, WorkerEnds
  <2>2. Len(<<>>) = 0
    OBVIOUS
  <2>3. CASE commands' = <<>>
    BY <2>1, <2>2, <2>3 DEF WrapAlone
  <2>4. CASE wpc' # "exited" /\ UNCHANGED commands
    BY <2>1, <2>4 DEF WrapAlone
  <2> QED
    BY <2>1, <2>3, <2>4
<1>3. CASE Read \/ AtEnd
  <2>1. UNCHANGED <<commands, acked>> /\ wpc' # "exited"
    BY <1>3 DEF Read, AtEnd
  <2> QED
    BY <2>1 DEF WrapAlone
<1> QED
  BY <1>1, <1>2, <1>3 DEF Worker, WorkerStep

\* The game thread only takes from the queue, from its front.
LEMMA TakenInOrder ==
    ASSUME WorkerInv, PlayerInv, InOrder, UNCHANGED <<next, wpc, mode, packet, position>>,
           Tidy(current'), PictureFirst', NoSeek',
           current'.lastPacket = current.lastPacket,
           \A i \in 1..Len(current'.frames) :
              \E j \in 1..Len(current.frames) : current'.frames[i] = current.frames[j],
           \/ shown' \in {NoPts, shown}
           \/ \E j \in 1..Len(current.frames) : shown' = current.frames[j]
    PROVE  InOrder'
<1>1. ASSUME NEW p \in Int, Behind(p)
      PROVE  /\ shown' <= p
             /\ \A i \in 1..Len(current'.frames) : current'.frames[i] <= p
  <2>1. shown <= p /\ \A j \in 1..Len(current.frames) : current.frames[j] <= p
    BY <1>1 DEF Behind
  <2>2. NoPts <= p
    BY <1>1, <2>1, OrderNumbers DEF NoPts
  <2> QED
    BY <2>1, <2>2
<1>2. ComesBehind'
  <2>1. mode.at = "Forwarding" => /\ shown' <= mode.target
                                  /\ \A i \in 1..Len(current'.frames) :
                                        current'.frames[i] <= mode.target
    BY <1>1, OrderNumbers DEF InOrder, ComesBehind
  <2>2. wpc = "push" /\ mode.at # "PreloadNext"
           => /\ shown' <= packet.pts
              /\ \A i \in 1..Len(current'.frames) : current'.frames[i] <= packet.pts
    BY <1>1, OrderNumbers DEF InOrder, ComesBehind
  <2> QED
    BY <2>1, <2>2 DEF InOrder, ComesBehind, Behind
<1>3. NextTidy'
  BY DEF InOrder, NextTidy, NextReach, Tidy
<1>4. Tidy(current)'
  BY DEF Tidy
<1> QED
  BY <1>2, <1>3, <1>4 DEF InOrder

\* A step that touches neither the queues nor the picture keeps the order.
LEMMA UntouchedInOrder ==
    ASSUME WorkerInv, PlayerInv, InOrder,
           UNCHANGED <<current, next, wpc, mode, packet, position>>, NoSeek',
           shown' \in {NoPts, shown}
    PROVE  InOrder'
<1>1. Tidy(current')
  BY DEF InOrder
<1>2. PictureFirst'
  <2>1. NoPts <= current.lastPacket /\ \A i \in 1..Len(current.frames) : NoPts <= current.frames[i]
    BY OrderNumbers DEF NoPts
  <2> QED
    BY <2>1 DEF InOrder, PictureFirst
<1> QED
  BY <1>1, <1>2, TakenInOrder

\* While the game thread does not wait, no Wrap is in the channel.
LEMMA NoWrapThere ==
    ASSUME WorkerInv, WrapAlone, gpc # "wait" \/ acked
    PROVE  \A i \in 1..Len(commands) : commands[i].op # "Wrap"
BY DEF WrapAlone

\* The engine's calls up to the point where they meet the worker.
LEMMA EngineOrder ==
    ASSUME WorkerInv, PlayerInv, WrapAlone, ~sought => InOrder, Engine
    PROVE  WrapAlone' /\ (~sought' => InOrder')
<1>0. /\ gpc = "idle" /\ ~acked
      /\ UNCHANGED <<commands, acked, next, wpc, mode, packet, position, lastClock>>
  BY DEF Engine, CheckCall, EngineSeek, EndLoop, Destroy, Begin, WrapAlone, localVars,
         playerVars
<1>1. \A i \in 1..Len(commands) : commands[i].op # "Wrap"
  BY <1>0, NoWrapThere
<1>2. CASE CheckCall \/ EndLoop
  <2>1. UNCHANGED <<current, shown, out, sought>> /\ gpc' \in {"idle", "chase"}
    BY <1>0, <1>2 DEF CheckCall, EndLoop, playerVars
  <2>2. WrapAlone'
    BY <1>0, <1>1, <2>1 DEF WrapAlone
  <2>3. InOrder => NoSeek'
    BY <1>0, <2>1 DEF InOrder, NoSeek
  <2> QED
    BY <1>0, <2>1, <2>2, <2>3, UntouchedInOrder
<1>3. CASE EngineSeek
  <2>1. gpc' = "send" /\ out'.op = "Seek" /\ sought'
    BY <1>3 DEF EngineSeek, ClearForSeek, SendNext, Cmd
  <2> QED
    BY <1>0, <1>1, <2>1 DEF WrapAlone
<1>4. CASE Destroy
  <2>1. gpc' = "send" /\ out'.op = "Shutdown" /\ UNCHANGED <<current, shown, sought>>
    BY <1>4 DEF Destroy, SendNext, Cmd
  <2>2. WrapAlone'
    BY <1>0, <1>1, <2>1 DEF WrapAlone
  <2>3. InOrder => NoSeek'
    BY <1>0, <2>1 DEF InOrder, NoSeek
  <2> QED
    BY <1>0, <2>1, <2>2, <2>3, UntouchedInOrder
<1> QED
  BY <1>2, <1>3, <1>4 DEF Engine

\* chase_to: a Wrap is sent without a picture, a Seek is the end of the order.
LEMMA ChaseOrder ==
    ASSUME WorkerInv, PlayerInv, WrapAlone, ~sought => InOrder, Chase
    PROVE  WrapAlone' /\ (~sought' => InOrder')
<1>0. /\ gpc = "chase" /\ ~acked
      /\ UNCHANGED <<commands, acked, next, wpc, mode, packet, position>>
  BY DEF Chase, WrapAlone, localVars
<1>1. \A i \in 1..Len(commands) : commands[i].op # "Wrap"
  BY <1>0, NoWrapThere
<1>2. Chased \in {"answer", "pop"}
  BY DEF Chased
<1>3. \/ /\ UNCHANGED <<current, shown, sought>>
         /\ \/ gpc' = "send" /\ out'.op = "Forward"
            \/ gpc' = Chased /\ UNCHANGED out
      \/ /\ shown' = NoPts /\ gpc' = "send" /\ out'.op = "Wrap"
         /\ UNCHANGED <<current, sought>>
      \/ gpc' = "send" /\ out'.op = "Seek" /\ sought'
  BY DEF Chase, ClearForSeek, SendNext, ShownAfterWrap, Cmd
<1>4. WrapAlone'
  BY <1>0, <1>1, <1>2, <1>3 DEF WrapAlone
<1>5. ~sought' => ~sought /\ UNCHANGED current /\ shown' \in {NoPts, shown}
                  /\ (out'.op # "Seek" \/ UNCHANGED out)
  BY <1>3
<1>6. ~sought' /\ InOrder => NoSeek'
  BY <1>0, <1>5 DEF InOrder, NoSeek
<1> QED
  BY <1>0, <1>4, <1>5, <1>6, UntouchedInOrder

\* The command goes out: behind a Wrap the game thread waits.
LEMMA SendOrder ==
    ASSUME WorkerInv, PlayerInv, WrapAlone, ~sought => InOrder, Send
    PROVE  WrapAlone' /\ (~sought' => InOrder')
<1>0. /\ gpc = "send" /\ ~acked /\ out' = NoCmd
      /\ UNCHANGED <<acked, current, next, wpc, mode, packet, position, shown, sought>>
  BY DEF Send, WrapAlone, localVars
<1>1. \A i \in 1..Len(commands) : commands[i].op # "Wrap"
  BY <1>0, NoWrapThere
<1>2. Chased \in {"answer", "pop"}
  BY DEF Chased
<1>3. IF out.op = "Wrap" THEN gpc' = "wait" ELSE gpc' \in {"join", "idle", "answer", "pop"}
  <2>1. gpc' = CASE out.op = "Wrap"     -> "wait"
                 [] out.op = "Shutdown" -> "join"
                 [] call = "seek"       -> "idle"
                 [] OTHER               -> Chased
    BY DEF Send
  <2>2. out.op = "Wrap" => call # "seek"
    BY <1>0 DEF PlayerInv
  <2> QED
    BY <1>2, <2>1, <2>2
<1>4. commands \in Seq(Commands) /\ out \in Commands /\ Len(commands) \in Nat
  BY <1>0 DEF WorkerInv, PlayerInv, Commands
<1>5. \/ wpc = "exited" /\ UNCHANGED commands
      \/ wpc # "exited" /\ commands' = Append(commands, out)
  BY DEF Send, Sent
<1>6. ASSUME commands' = Append(commands, out)
      PROVE  /\ Len(commands') = Len(commands) + 1
             /\ commands'[Len(commands) + 1] = out
             /\ \A i \in 1..Len(commands) : commands'[i] = commands[i]
  BY <1>4, <1>6
<1>7. \A i \in 1..Len(commands') :
          \/ i \in 1..Len(commands) /\ commands'[i] = commands[i]
          \/ i = Len(commands') /\ commands'[i] = out
  BY <1>4, <1>5, <1>6
<1>8. WrapAlone'
  BY <1>0, <1>1, <1>3, <1>5, <1>7 DEF WrapAlone, NoCmd, Cmd
<1>9. InOrder => NoSeek'
  BY <1>0, <1>7 DEF InOrder, NoSeek, NoCmd, Cmd
<1> QED
  BY <1>0, <1>8, <1>9, UntouchedInOrder

\* The picture is the first of what it was taken from.
LEMMA PopOrder ==
    ASSUME WorkerInv, PlayerInv, WrapAlone, ~sought => InOrder, Pop
    PROVE  /\ WrapAlone' /\ (~sought' => InOrder')
           /\ ~sought => shown' >= shown
<1> DEFINE p == PopFor(current, now + Threshold)
<1>0. /\ gpc = "pop" /\ ~acked
      /\ UNCHANGED <<commands, acked, next, wpc, mode, packet, position>>
  BY DEF Pop, WrapAlone, localVars
<1>1. \A i \in 1..Len(commands) : commands[i].op # "Wrap"
  BY <1>0, NoWrapThere
<1>2. now + Threshold \in Nat
  BY Timestamps, PlayerAssumption DEF PlayerInv
<1>3. \/ /\ p.frame # NoPts /\ shown' = p.frame /\ current' = p.queue
         /\ gpc' = "idle" /\ UNCHANGED <<out, sought>>
      \/ /\ gpc' = "send" /\ out'.op = "Seek" /\ sought' /\ UNCHANGED shown
      \/ /\ gpc' = "idle" /\ UNCHANGED <<current, out, sought, shown>>
  BY DEF Pop, SendNext, Cmd
<1>4. WrapAlone'
  BY <1>0, <1>1, <1>3 DEF WrapAlone
<1>5. ~sought' => ~sought /\ UNCHANGED out
  BY <1>3
<1>6. ~sought' => NoSeek'
  BY <1>0, <1>5 DEF InOrder, NoSeek
<1>7. CASE ~sought /\ p.frame # NoPts /\ shown' = p.frame /\ current' = p.queue
  <2>0. InOrder /\ Tidy(current)
    BY <1>7 DEF InOrder
  <2>1. /\ Tidy(p.queue) /\ p.queue.lastPacket = current.lastPacket
        /\ \A i \in 1..Len(p.queue.frames) :
              \E j \in 1..Len(current.frames) : p.queue.frames[i] = current.frames[j]
        /\ \E j \in 1..Len(current.frames) : p.frame = current.frames[j]
        /\ \A i \in 1..Len(p.queue.frames) : p.frame <= p.queue.frames[i]
    BY <1>2, <1>7, <2>0, PopTidy, OrderNumbers
  <2>2. PICK j \in 1..Len(current.frames) : shown' = current.frames[j]
    BY <1>7, <2>1
  <2>3. current.frames[j] <= current.lastPacket /\ shown <= current.frames[j]
    BY <2>0, <2>2 DEF InOrder, PictureFirst, Tidy
  <2> HIDE DEF p
  <2>4. PictureFirst'
    BY <1>7, <2>1, <2>2, <2>3 DEF PictureFirst
  <2>5. ~sought' => InOrder'
    BY <1>0, <1>6, <1>7, <2>0, <2>1, <2>2, <2>4, TakenInOrder
  <2>6. shown' >= shown
    BY <2>2, <2>3, OrderNumbers
  <2> QED
    BY <1>4, <2>5, <2>6
<1>8. CASE UNCHANGED <<current, out, sought, shown>>
  BY <1>0, <1>4, <1>6, <1>8, OrderNumbers, UntouchedInOrder
<1>9. CASE sought
  BY <1>3, <1>4, <1>9
<1>10. CASE sought' /\ UNCHANGED shown
  BY <1>4, <1>10, OrderNumbers
<1> QED
  BY <1>3, <1>7, <1>8, <1>9, <1>10

\* The rest of a call.
LEMMA CallOrder ==
    ASSUME WorkerInv, PlayerInv, WrapAlone, ~sought => InOrder, CallStep
    PROVE  WrapAlone' /\ (~sought' => InOrder')
<1>1. CASE WrapReturns
  <2>1. /\ gpc = "wait" /\ (acked \/ wpc = "exited") /\ ~acked'
        /\ gpc' \in {"answer", "pop"}
        /\ UNCHANGED <<commands, current, next, wpc, mode, packet, position, shown, out, sought>>
    BY <1>1 DEF WrapReturns, Chased, localVars
  <2>2. \A i \in 1..Len(commands) : commands[i].op # "Wrap"
    <3>1. CASE acked
      BY <3>1, NoWrapThere
    <3>2. CASE wpc = "exited"
      <4>1. commands = <<>> /\ Len(<<>>) = 0
        BY <3>2 DEF WrapAlone
      <4> QED
        BY <4>1
    <3> QED
      BY <2>1, <3>1, <3>2
  <2>3. WrapAlone'
    BY <2>1, <2>2 DEF WrapAlone
  <2>4. InOrder => NoSeek'
    BY <2>1 DEF InOrder, NoSeek
  <2> QED
    BY <2>1, <2>3, <2>4, UntouchedInOrder
<1>2. CASE Answer \/ Joined
  <2>1. /\ gpc # "wait" /\ ~acked /\ gpc' \in {"idle", "chase", "gone"}
        /\ UNCHANGED <<commands, acked, current, next, wpc, mode, packet, position, shown,
                       out, sought>>
    BY <1>2 DEF Answer, Joined, workerVars, localVars, WrapAlone
  <2>2. \A i \in 1..Len(commands) : commands[i].op # "Wrap"
    BY <2>1, NoWrapThere
  <2>3. WrapAlone'
    BY <2>1, <2>2 DEF WrapAlone
  <2>4. InOrder => NoSeek'
    BY <2>1 DEF InOrder, NoSeek
  <2> QED
    BY <2>1, <2>3, <2>4, UntouchedInOrder
<1> QED
  BY <1>1, <1>2, ChaseOrder, SendOrder, PopOrder DEF CallStep

\* The order holds until the worker is told to seek.
THEOREM OrderInvHolds == Spec => []OrderInv
<1>1. Init => OrderInv
  <2> SUFFICES ASSUME Init PROVE OrderInv
    OBVIOUS
  <2>1. commands = <<>> /\ Len(<<>>) = 0
    BY DEF Init, WorkerInit
  <2>2. WrapAlone
    BY <2>1 DEF Init, WorkerInit, WrapAlone, NoCmd, Cmd
  <2>3. 0 \in Nat /\ Pts(0) \in Nat /\ Pts(0) >= NoPts
    BY PtsGrow DEF NoPts
  <2>4. Tidy(current) /\ NextTidy /\ NoSeek
    BY <2>1, EmptyTidy DEF Init, WorkerInit, NextTidy, NoSeek, NoCmd, Cmd
  <2>5. PictureFirst
    BY DEF Init, WorkerInit, PictureFirst, EmptyQueue, NoPts
  <2>6. ComesBehind
    BY <2>3, EmptyTidy DEF Init, WorkerInit, ComesBehind, Playing
  <2> QED
    BY <2>2, <2>4, <2>5, <2>6, InitPlayback DEF OrderInv, InOrder
<1>2. OrderInv /\ Worker => OrderInv'
  <2> SUFFICES ASSUME OrderInv, Worker PROVE OrderInv'
    OBVIOUS
  <2>1. UNCHANGED sought
    BY DEF Worker, playerVars
  <2> QED
    BY <2>1, WorkerKeeps, WorkerInOrder, WorkerWrapAlone DEF OrderInv
<1>3. OrderInv /\ (Engine \/ CallStep) => OrderInv'
  BY EngineKeeps, CallKeeps, EngineOrder, CallOrder DEF OrderInv
<1>4. OrderInv /\ UNCHANGED vars => OrderInv'
  BY DEF OrderInv, vars, WorkerInv, PlayerInv, Room, WrapAlone, InOrder, Tidy, PictureFirst,
         ComesBehind, Behind, NextTidy, NextReach, NoSeek
<1>5. OrderInv /\ [Next]_vars => OrderInv'
  BY <1>2, <1>3, <1>4 DEF Next
<1> QED
  BY <1>1, <1>5, PTL DEF Spec

\* Until the worker is told to seek, a picture is only replaced by one that is
\* not before it, or forgotten: across wraps, preloading, late Forwards, packets
\* that do not decode and the end of the worker.
THEOREM PicturesAdvanceHolds == Spec => PicturesAdvance
<1> DEFINE Advance == ~sought /\ shown # NoPts /\ shown' # NoPts => shown' >= shown
<1>1. OrderInv /\ [Next]_vars => [Advance]_vars
  <2> SUFFICES ASSUME OrderInv, Next, ~sought, shown' # NoPts PROVE shown' >= shown
    BY DEF vars
  <2>1. WorkerInv /\ PlayerInv /\ WrapAlone /\ InOrder /\ shown \in Int
    BY OrderNumbers DEF OrderInv
  <2>2. CASE Pop
    BY <2>1, <2>2, PopOrder
  <2>3. CASE Next /\ ~Pop
    <3>1. shown' \in {NoPts, shown}
      BY <2>3 DEF Next, Worker, playerVars, Engine, CheckCall, EngineSeek, EndLoop, Destroy,
         ClearForSeek, CallStep, Chase, ShownAfterWrap, Send, WrapReturns, Answer, Joined
    <3> QED
      BY <2>1, <3>1
  <2> QED
    BY <2>2, <2>3
<1> QED
  BY OrderInvHolds, <1>1, PTL DEF Spec, PicturesAdvance

------------------------------------------------------------------------------

\* Whoever waits has told the worker: the command is the last in the channel
\* until the worker takes it.
LastIs(op) == Len(commands) > 0 /\ commands[Len(commands)].op = op
Told ==
    /\ gpc = "wait" => acked \/ wpc = "exited" \/ LastIs("Wrap")
    /\ gpc = "join" => wpc = "exited" \/ LastIs("Shutdown")

\* The worker takes commands from the front, and answers the one it takes.
LEMMA WorkerTold ==
    ASSUME WorkerInv, Told, Worker
    PROVE  Told'
<1>0. UNCHANGED gpc
  BY DEF Worker, playerVars
<1>1. CASE Receive /\ commands # <<>> /\ Head(commands).op # "Shutdown"
  <2>1. commands' = Tail(commands) /\ wpc = "receive"
    BY <1>1 DEF Receive
  <2>2. CASE Len(commands) = 1
    <3>1. Head(commands) = commands[Len(commands)]
      BY <1>1, <2>2, Taken
    <3>2. Head(commands).op = "Wrap" => acked'
      <4> SUFFICES ASSUME Head(commands).op = "Wrap" PROVE acked'
        OBVIOUS
      <4> QED
        BY <1>1 DEF Receive, HandleWrap
    <3>3. acked => acked'
      BY <1>1, Taken DEF Receive, HandleSeek, HandleForward, HandleWrap, Commands
    <3> QED
      BY <1>0, <1>1, <2>1, <3>1, <3>2, <3>3 DEF Told, LastIs
  <2>3. CASE Len(commands) # 1
    <3>1. /\ Len(Tail(commands)) > 0
          /\ Tail(commands)[Len(Tail(commands))] = commands[Len(commands)]
      BY <1>1, <2>3, Taken
    <3>2. acked => acked'
      BY <1>1, Taken DEF Receive, HandleSeek, HandleForward, HandleWrap, Commands
    <3> QED
      BY <1>0, <2>1, <3>1, <3>2 DEF Told, LastIs
  <2> QED
    BY <2>2, <2>3
<1>2. CASE \/ Receive /\ (commands = <<>> \/ Head(commands).op = "Shutdown")
           \/ CheckShutdown \/ Read \/ PushPacket \/ AtEnd
  <2>1. /\ wpc # "exited" /\ UNCHANGED acked
        /\ wpc' = "exited" \/ UNCHANGED commands
    BY <1>2 DEF Receive, CheckShutdown, Read, PushPacket, AtEnd, WorkerEnds
  <2> QED
    BY <1>0, <2>1 DEF Told, LastIs
<1> QED
  BY <1>1, <1>2 DEF Worker, WorkerStep

\* The game thread sends before it waits.
LEMMA GameTold ==
    ASSUME WorkerInv, PlayerInv, Engine \/ CallStep
    PROVE  Told'
<1>1. CASE Send
  <2>1. gpc' = CASE out.op = "Wrap"     -> "wait"
                 [] out.op = "Shutdown" -> "join"
                 [] call = "seek"       -> "idle"
                 [] OTHER               -> Chased
    BY <1>1 DEF Send
  <2>2. gpc' = "wait" => out.op = "Wrap"
    BY <2>1 DEF Chased
  <2>3. gpc' = "join" => out.op = "Shutdown"
    BY <2>1 DEF Chased
  <2>4. UNCHANGED wpc /\ (wpc = "exited" \/ commands' = Append(commands, out))
    BY <1>1 DEF Send, Sent, localVars
  <2>5. commands \in Seq(Commands) /\ (gpc' \in {"wait", "join"} => out \in Commands)
    BY <1>1, <2>2, <2>3 DEF WorkerInv, PlayerInv, Commands, Send
  <2>6. gpc' \in {"wait", "join"} /\ wpc # "exited"
          => Len(commands') > 0 /\ commands'[Len(commands')] = out
    BY <2>4, <2>5
  <2> QED
    BY <2>2, <2>3, <2>4, <2>6 DEF Told, LastIs
<1>2. CASE Engine \/ Chase \/ WrapReturns \/ Answer \/ Pop \/ Joined
  <2>1. gpc' \notin {"wait", "join"}
    BY <1>2 DEF Engine, CheckCall, EngineSeek, EndLoop, Destroy, Begin, ClearForSeek, Chase,
       SendNext, Chased, WrapReturns, Answer, Pop, Joined, playerVars
  <2> QED
    BY <2>1 DEF Told
<1> QED
  BY <1>1, <1>2 DEF CallStep

\* Whoever waits has told the worker, also one that was asleep or has died.
THEOREM ToldHolds == Spec => []Told
<1> DEFINE I == WorkerInv /\ PlayerInv
<1>1. Init => Told
  BY DEF Init, Told
<1>2. I /\ Told /\ [Next]_vars => Told'
  <2>1. Told /\ UNCHANGED vars => Told'
    BY DEF Told, LastIs, vars
  <2> QED
    BY <2>1, WorkerTold, GameTold DEF Next
<1> QED
  BY <1>1, <1>2, PlaybackInvHolds, PTL DEF Spec

\* No call of the engine waits for a worker that sleeps: neither the wrap of
\* chase_to nor the join in drop can be stuck behind recv.
THEOREM NeverBothAsleepHolds == Spec => []NeverBothAsleep
<1>1. Told => NeverBothAsleep
  <2>1. Len(<<>>) = 0
    OBVIOUS
  <2> QED
    BY <2>1 DEF Told, LastIs, NeverBothAsleep, Asleep
<1> QED
  BY <1>1, ToldHolds, PTL

==============================================================================
