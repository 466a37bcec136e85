------------------------------- MODULE OmvWorker -------------------------------
(***************************************************************************)
(* The decoding thread of the movie player, omv_player/worker.rs, and the  *)
(* state it shares with the game thread: the command channel, the frame    *)
(* queues, the playback clock, the playback state and the loop flag.       *)
(*                                                                         *)
(* One round of worker_loop is CheckShutdown, Receive (with the whole      *)
(* handler), Read (the test for a full queue, the next packet, the change  *)
(* of state), then PushPacket or AtEnd, where it locks the queues or tests *)
(* the loop flag a second time.  The hook never calls play or pause, so    *)
(* Pause, Resume and the states only they lead to are left out.            *)
(***************************************************************************)
EXTENDS LoopQueues, ClockTracker

CONSTANTS
    Packets,        \* number of packets in the movie
    Interval,       \* ticks from one packet to the next
    Keyframes,      \* the packets a seek can land on
    Ahead,          \* MAX_CURRENT_PREFETCH_AHEAD_MS
    DecodeCanFail,  \* a packet may fail to decode
    SeekCanFail,    \* the demuxer may fail to seek
    WorkerCanPanic  \* a conversion may panic (FrameConvert says when)

ASSUME MovieAssumption ==
    /\ Packets \in Nat \ {0} /\ Interval \in Nat \ {0} /\ Ahead \in Nat
    /\ Keyframes \subseteq 0..(Packets - 1) /\ 0 \in Keyframes
    /\ {DecodeCanFail, SeekCanFail, WorkerCanPanic} \subseteq BOOLEAN

Duration == Packets * Interval
Pts(k) == k * Interval

VARIABLES
    commands,   \* the command channel
    acked,      \* the reply channel of the Wrap in progress
    shutdown,   \* the shutdown flag
    current,    \* LoopQueues.current
    next,       \* LoopQueues.next: <<>> for None, else <<queue>>
    playback,   \* PlaybackState
    clock,      \* playback_clock_ms
    loop,       \* LoopConfig.enabled
    wpc,        \* where the worker is in its round
    mode,       \* WorkerState and its target
    packet,     \* the packet between Read and Push
    position    \* the demuxer's next packet

sharedVars == <<commands, acked, shutdown, current, next, playback, clock, loop>>
localVars == <<wpc, mode, packet, position>>
workerVars == <<commands, acked, shutdown, current, next, playback, clock, loop,
                wpc, mode, packet, position>>

Playing       == [at |-> "Playing", target |-> 0]
Seeking(t)    == [at |-> "Seeking", target |-> t]
Forwarding(t) == [at |-> "Forwarding", target |-> t]
PreloadNext   == [at |-> "PreloadNext", target |-> 0]
Idle(why)     == [at |-> why, target |-> 0]

IsIdle(m) == m.at \in {"CurrentReady", "NextLoopReady", "Ended"}

NoPacket == [pts |-> NoPts, presentable |-> FALSE]

WorkerInit ==
    /\ commands = <<>> /\ acked = FALSE /\ shutdown = FALSE
    /\ current = EmptyQueue /\ next = <<>>
    /\ playback = "Playing" /\ clock = 0 /\ loop \in BOOLEAN
    /\ wpc = "top" /\ mode = Playing /\ packet = NoPacket /\ position = 0

------------------------------------------------------------------------------

\* Demuxer::seek: the last key frame that is not after the target.
SeekPosition(t) ==
    CHOOSE k \in Keyframes :
        /\ Pts(k) <= t
        /\ \A j \in Keyframes : Pts(j) <= t => j <= k

\* handle_seek
SeekTo(t, done, failed) ==
    \/ /\ position' = SeekPosition(t)
       /\ current' = EmptyQueue
       /\ mode' = done
    \/ /\ SeekCanFail
       /\ mode' = failed
       /\ UNCHANGED <<position, current>>

HandleSeek(t) ==
    /\ SeekTo(t, Seeking(t), Idle("CurrentReady"))
    /\ UNCHANGED <<next, acked>>

\* MUTANT leaves a worker that has preloaded the next pass alone.
ForwardTakesNotPreloaded(t) ==
    /\ mode.at \notin {"Seeking", "NextLoopReady"}
    /\ LastPts(current) = NoPts \/ t > LastPts(current)
\* handle_forward: a target not after the last queued timestamp is ignored.
ForwardTakes(t) == mode.at # "Seeking" /\ (LastPts(current) = NoPts \/ t > LastPts(current))

HandleForward(t) ==
    /\ mode' = IF ~ForwardTakes(t) \/ mode.at = "PreloadNext" THEN mode
               ELSE IF mode.at = "Forwarding" /\ mode.target > t THEN mode
               ELSE Forwarding(t)
    /\ UNCHANGED <<current, next, acked, position>>

HandleWrap ==
    /\ acked' = TRUE
    /\ IF ~loop
         THEN /\ mode' = Idle("CurrentReady")
              /\ UNCHANGED <<current, next, position>>
       ELSE IF next # <<>>
         THEN /\ current' = Head(next) /\ next' = <<>>
              /\ mode' = Playing
              /\ UNCHANGED position
       ELSE /\ next' = <<>>
            /\ \/ /\ position' = SeekPosition(0)
                  /\ mode' = Seeking(0)
               \/ SeekCanFail /\ mode' = Idle("CurrentReady") /\ UNCHANGED position
            /\ current' = EmptyQueue

\* The thread ends, by a panic too, and drops the receiving end: what is in
\* the channel goes, with the reply channel of a Wrap.
WorkerEnds == wpc' = "exited" /\ commands' = <<>>

\* The head of the round looks at the shutdown flag ...
CheckShutdown ==
    /\ wpc = "top"
    /\ IF shutdown THEN WorkerEnds ELSE wpc' = "receive" /\ UNCHANGED commands
    /\ UNCHANGED <<acked, shutdown, current, next, playback, clock, loop,
                   mode, packet, position>>

\* ... and takes a command: an idle worker waits for one.
Receive ==
    /\ wpc = "receive"
    /\ UNCHANGED <<shutdown, playback, clock, loop, packet>>
    /\ \/ /\ commands = <<>> /\ ~IsIdle(mode)
          /\ wpc' = "read"
          /\ UNCHANGED <<commands, acked, current, next, mode, position>>
       \/ /\ commands # <<>> /\ Head(commands).op # "Shutdown"
          /\ commands' = Tail(commands)
          /\ LET c == Head(commands)
             IN  CASE c.op = "Seek"    -> HandleSeek(c.target)
                   [] c.op = "Forward" -> HandleForward(c.target)
                   [] c.op = "Wrap"    -> HandleWrap
          /\ wpc' = IF IsIdle(mode') THEN "top" ELSE "read"
       \/ /\ commands # <<>> /\ Head(commands).op = "Shutdown"
          /\ WorkerEnds
          /\ UNCHANGED <<acked, current, next, mode, position>>

------------------------------------------------------------------------------

\* target_queue_is_full; the bytes of the frames are not counted
TargetIsFull ==
    IF mode.at = "PreloadNext"
      THEN next # <<>> /\ IsFull(Head(next))
      ELSE \/ LastFrame(current) > clock + Ahead
           \/ IsFull(current)

\* NoWork: the worker waits for a command.
AfterNoWork(m) ==
    IF m.at = "PreloadNext" THEN Idle("NextLoopReady") ELSE Idle("CurrentReady")

Read ==
    /\ wpc = "read"
    /\ UNCHANGED <<commands, acked, shutdown, current, next, clock, loop>>
    /\ \/ /\ TargetIsFull
          /\ mode' = AfterNoWork(mode)
          /\ wpc' = "top"
          /\ UNCHANGED <<playback, packet, position>>
       \/ /\ ~TargetIsFull /\ position = Packets
          /\ IF loop THEN /\ wpc' = "end"
                          /\ UNCHANGED <<playback, mode>>
                     ELSE /\ playback' = "Ended"
                          /\ mode' = Idle("Ended")
                          /\ wpc' = "top"
          /\ UNCHANGED <<packet, position>>
       \/ /\ ~TargetIsFull /\ position < Packets
          /\ position' = position + 1
          /\ UNCHANGED playback
          /\ LET pts     == Pts(position)
                 reached == pts >= mode.target
             IN  IF mode.at = "Forwarding" /\ ~reached
                   THEN /\ wpc' = "top"
                        /\ UNCHANGED <<mode, packet>>
                   ELSE /\ wpc' = "push"
                        /\ packet' = [pts |-> pts, presentable |->
                                       mode.at = "Seeking" => reached]
                        /\ mode' = IF mode.at \in {"Seeking", "Forwarding"} /\ reached
                                     THEN Playing ELSE mode

\* queue_packet and queue_next_loop_packet: the decoder, with the conversion
\* of its frame, then the lock.  The panic is before the lock, so it poisons
\* nothing, and nobody is told of it.
PushPacket ==
    /\ wpc = "push"
    /\ packet' = NoPacket
    /\ \/ /\ wpc' = "top" /\ UNCHANGED <<mode, commands>>
          /\ IF mode.at = "PreloadNext"
               THEN /\ next' = << Push(IF next = <<>> THEN EmptyQueue ELSE Head(next),
                                       packet.pts, packet.presentable) >>
                    /\ UNCHANGED current
               ELSE /\ current' = Push(current, packet.pts, packet.presentable)
                    /\ UNCHANGED next
       \/ /\ DecodeCanFail
          /\ wpc' = "top"
          /\ mode' = AfterNoWork(mode)
          /\ UNCHANGED <<current, next, commands>>
       \/ /\ WorkerCanPanic /\ packet.presentable
          /\ WorkerEnds
          /\ UNCHANGED <<current, next, mode>>
    /\ UNCHANGED <<acked, shutdown, playback, clock, loop, position>>

\* MUTANT forgets to empty the old preloaded queue.
PreloadQueueKept == next
\* handle_preload_next_loop restarts the preloaded queue.
PreloadQueue == IF next = <<>> THEN <<>> ELSE <<EmptyQueue>>

\* handle_preload_next_loop, with its second test of the loop flag.
AtEnd ==
    /\ wpc = "end"
    /\ wpc' = "top"
    /\ UNCHANGED <<commands, acked, shutdown, current, playback, clock, loop, packet>>
    /\ IF loop
         THEN \/ /\ position' = SeekPosition(0)
                 /\ next' = PreloadQueue
                 /\ mode' = PreloadNext
              \/ /\ SeekCanFail
                 /\ mode' = Idle("CurrentReady")
                 /\ UNCHANGED <<position, next>>
         ELSE /\ mode' = Idle("Ended")
              /\ UNCHANGED <<position, next>>

WorkerStep == CheckShutdown \/ Receive \/ Read \/ PushPacket \/ AtEnd

==============================================================================
