------------------------------- MODULE OmvPlayer -------------------------------
(***************************************************************************)
(* The movie player as the engine uses it: the game thread, which runs     *)
(* omv_player/player.rs inside the engine's calls, beside the worker of    *)
(* OmvWorker.  Each frame the engine asks whether the picture must change  *)
(* (check_need_update_at), and fills its buffer if so; it may also seek,   *)
(* end the loop, or destroy the player.  A call is cut where it touches    *)
(* what the worker touches: the queues, the channel, the atomics.          *)
(***************************************************************************)
EXTENDS OmvWorker

CONSTANTS
    Threshold,   \* FRAME_MATCH_THRESHOLD_MS
    MaxStep,     \* engine: most ticks between two calls
    MaxCommands, \* bound on the channel
    CanSeek,     \* engine: may seek
    CanEndLoop,  \* engine: may end the loop
    CanDestroy   \* engine: may destroy the player

ASSUME PlayerAssumption ==
    /\ Threshold \in Nat /\ MaxStep \in Nat /\ MaxCommands \in Nat \ {0}
    /\ {CanSeek, CanEndLoop, CanDestroy} \subseteq BOOLEAN

VARIABLES
    now,        \* the engine's movie timer
    lastClock,  \* ClockTracker.last_clock_ms
    shown,      \* last_frame: the timestamp of the picture, or NoPts
    gpc,        \* where the game thread is in its call
    call,       \* the call
    out,        \* the command it is about to send
    sought      \* history: the worker was told to seek

playerVars == <<now, lastClock, shown, gpc, call, out, sought>>
vars == <<commands, acked, shutdown, current, next, playback, clock, loop,
          wpc, mode, packet, position, now, lastClock, shown, gpc, call, out, sought>>

Cmd(op, t) == [op |-> op, target |-> t]
NoCmd == Cmd("None", 0)

Times == 0..Duration
FramePts == {Pts(k) : k \in 0..(Packets - 1)}

Init ==
    /\ WorkerInit
    /\ now = 0 /\ lastClock = NoSample /\ shown = NoPts
    /\ gpc = "idle" /\ call = "none" /\ out = NoCmd /\ sought = FALSE

------------------------------------------------------------------------------

\* The timer of a looping movie starts again at its end, any other stays there.
Later(d) == IF loop THEN (now + d) % Duration
            ELSE IF now + d < Duration THEN now + d ELSE Duration

\* The call's next step is to send a command.
SendNext(cmd) == gpc' = "send" /\ out' = cmd

Begin(c) ==
    /\ gpc = "idle"
    /\ Len(commands) < MaxCommands
    /\ call' = c

\* check_need_update_at, some ticks after the last call.  Once the movie has
\* ended, it does nothing.
CheckCall ==
    /\ Begin("check")
    /\ playback = "Playing"
    /\ \E d \in 0..MaxStep : now' = Later(d) /\ clock' = Later(d)
    /\ gpc' = "chase"
    /\ UNCHANGED <<commands, acked, shutdown, current, next, playback, loop, localVars,
                   lastClock, shown, out, sought>>

\* MUTANT sends nothing when the queue is empty.
NeedsForwardQueued ==
    current.frames # <<>> /\ LastFrame(current) < now + Ahead \div 2
\* needs_forward
NeedsForward ==
    \/ current.frames = <<>>
    \/ FirstFrame(current) <= now + Ahead /\ LastFrame(current) < now + Ahead \div 2

\* What follows chase_to in the two calls.
Chased == IF call = "check" THEN "answer" ELSE "pop"

\* Player::seek up to its command.
ClearForSeek(t) ==
    /\ shown' = NoPts
    /\ current' = EmptyQueue
    /\ SendNext(Cmd("Seek", t))
    /\ sought' = TRUE

\* MUTANT leaves the last picture of the pass.
ShownAfterWrapKept == shown
ShownAfterWrap == NoPts

\* chase_to
Chase ==
    /\ gpc = "chase"
    /\ lastClock' = now
    /\ LET event == ClockEvent(lastClock, now, loop, Duration)
       IN  \/ /\ \/ event = "FirstSample"
                 \/ event = "Advanced" /\ NeedsForward
              /\ SendNext(Cmd("Forward", now))
              /\ UNCHANGED <<shown, current, sought>>
           \/ /\ event = "Advanced" /\ ~NeedsForward
              /\ gpc' = Chased
              /\ UNCHANGED <<shown, current, out, sought>>
           \/ /\ event = "Wrapped"
              /\ shown' = ShownAfterWrap
              /\ SendNext(Cmd("Wrap", 0))
              /\ UNCHANGED <<current, sought>>
           \/ event = "Seeked" /\ ClearForSeek(now)
    /\ UNCHANGED <<commands, acked, shutdown, next, playback, clock, loop, localVars,
                   now, call>>

\* MUTANT goes on without a word to the worker.
SentDropSilent(cmds) ==
    IF wpc = "exited" \/ out.op = "Shutdown" THEN cmds ELSE Append(cmds, out)
\* Nobody receives from a worker that has ended.
Sent(cmds) == IF wpc = "exited" THEN cmds ELSE Append(cmds, out)

\* The command goes into the channel; wrap() then waits for its reply.
Send ==
    /\ gpc = "send"
    /\ commands' = Sent(commands)
    /\ out' = NoCmd
    /\ gpc' = CASE out.op = "Wrap"     -> "wait"
                [] out.op = "Shutdown" -> "join"
                [] call = "seek"       -> "idle"
                [] OTHER               -> Chased
    /\ UNCHANGED <<acked, shutdown, current, next, playback, clock, loop, localVars,
                   now, lastClock, shown, call, sought>>

\* The reply to Wrap, or the error of a reply channel without a sender.
WrapReturns ==
    /\ gpc = "wait" /\ (acked \/ wpc = "exited")
    /\ acked' = FALSE
    /\ gpc' = Chased
    /\ UNCHANGED <<commands, shutdown, current, next, playback, clock, loop, localVars,
                   now, lastClock, shown, call, out, sought>>

\* frame_matches: the picture is the one for the timer.
Matches ==
    /\ shown # NoPts
    /\ now >= shown - Threshold
    /\ now <= shown + 2 * Threshold

\* check_need_update_at returns; the engine draws when it is told to, or when
\* it forces the update.
Answer ==
    /\ gpc = "answer"
    /\ \/ /\ Matches
          /\ gpc' = "idle"
          /\ UNCHANGED <<clock, call>>
       \/ /\ gpc' = "chase" /\ call' = "fill"
          /\ clock' = now
    /\ UNCHANGED <<commands, acked, shutdown, current, next, playback, loop, localVars,
                   now, lastClock, shown, out, sought>>

\* pop_frame and the picture of fill_buffer.
Pop ==
    /\ gpc = "pop"
    /\ LET p == PopFor(current, now + Threshold)
       IN  \/ /\ p.frame # NoPts
              /\ shown' = p.frame /\ current' = p.queue
              /\ gpc' = "idle"
              /\ UNCHANGED <<call, out, sought>>
           \/ /\ p.frame = NoPts
              /\ IF FirstFrame(current) > now + Ahead
                   THEN /\ current' = EmptyQueue
                        /\ SendNext(Cmd("Seek", now))
                        /\ sought' = TRUE
                        /\ call' = "seek"
                   ELSE gpc' = "idle" /\ UNCHANGED <<current, call, out, sought>>
              /\ UNCHANGED shown
    /\ UNCHANGED <<commands, acked, shutdown, next, playback, clock, loop, localVars,
                   now, lastClock>>

------------------------------------------------------------------------------

\* spp_movie_player_seek: the timer goes on from the target.
EngineSeek ==
    /\ CanSeek
    /\ Begin("seek")
    /\ \E t \in FramePts \ {now} : now' = t /\ ClearForSeek(t)
    /\ UNCHANGED <<commands, acked, shutdown, next, playback, clock, loop, localVars,
                   lastClock>>

\* spp_movie_player_end_loop
EndLoop ==
    /\ CanEndLoop
    /\ gpc = "idle" /\ loop
    /\ loop' = FALSE
    /\ UNCHANGED <<commands, acked, shutdown, current, next, playback, clock, localVars,
                   playerVars>>

\* spp_movie_player_destroy drops the player, which stops the worker and
\* waits for it.
Destroy ==
    /\ CanDestroy
    /\ Begin("drop")
    /\ shutdown' = TRUE
    /\ SendNext(Cmd("Shutdown", 0))
    /\ UNCHANGED <<commands, acked, current, next, playback, clock, loop, localVars,
                   now, lastClock, shown, sought>>

Joined ==
    /\ gpc = "join" /\ wpc = "exited"
    /\ gpc' = "gone"
    /\ UNCHANGED <<workerVars, now, lastClock, shown, call, out, sought>>

------------------------------------------------------------------------------

\* A call runs to its end.
CallStep == Chase \/ Send \/ WrapReturns \/ Answer \/ Pop \/ Joined

Engine == CheckCall \/ EngineSeek \/ EndLoop \/ Destroy

Worker == WorkerStep /\ UNCHANGED playerVars

Next == Engine \/ CallStep \/ Worker

\* Both threads run, and the engine goes on drawing while it has a player.
\* Nothing makes its timer move.
Spec ==
    /\ Init /\ [][Next]_vars
    /\ WF_vars(Worker) /\ WF_vars(CallStep) /\ WF_vars(CheckCall)

------------------------------------------------------------------------------

Queue == [frames : UNION {[1..n -> FramePts] : n \in 0..MaxFrames},
          lastPacket : FramePts \union {NoPts}]

TypeOK ==
    /\ \A i \in DOMAIN commands :
          commands[i] \in [op : {"Seek", "Forward", "Wrap", "Shutdown"}, target : Times]
    /\ {acked, shutdown, loop} \subseteq BOOLEAN
    /\ current \in Queue
    /\ next = <<>> \/ (Len(next) = 1 /\ Head(next) \in Queue)
    /\ playback \in {"Playing", "Ended"}
    /\ clock \in Times /\ now \in Times
    /\ lastClock \in Times \union {NoSample}
    /\ wpc \in {"top", "receive", "read", "push", "end", "exited"}
    /\ mode.at \in {"Playing", "Seeking", "Forwarding", "PreloadNext",
                    "CurrentReady", "NextLoopReady", "Ended"}
    /\ mode.target \in Times
    /\ packet \in [pts : FramePts \union {NoPts}, presentable : BOOLEAN]
    /\ position \in 0..Packets
    /\ shown \in FramePts \union {NoPts}
    /\ gpc \in {"idle", "chase", "send", "wait", "answer", "pop", "join", "gone"}
    /\ call \in {"none", "check", "fill", "seek", "drop"}
    /\ out.op \in {"None", "Seek", "Forward", "Wrap", "Shutdown"} /\ out.target \in Times
    /\ sought \in BOOLEAN

\* The picture is never from a time after the clock: the last picture of a
\* pass does not stay over the start of the next one.
ShownInTime == gpc = "idle" => shown <= lastClock + Threshold

\* The two threads never wait for one another: while the game thread waits for
\* the reply to its Wrap, or for the worker to end, the worker is not asleep in
\* recv with nothing to wake it, however it came to be idle.
Asleep == wpc = "receive" /\ IsIdle(mode) /\ commands = <<>>

NeverBothAsleep == ~(Asleep /\ (gpc = "join" \/ (gpc = "wait" /\ ~acked)))

\* Until the worker is told to seek, and while nothing forgets the picture,
\* pictures only follow one another forwards, whatever is dropped, preloaded
\* or fails to decode.  (After a seek they need not, be it the engine's or one
\* of the player's own: the worker may queue the frame it was decoding behind
\* the queue that the seek has cleared, and that frame may be shown.)
PicturesAdvance ==
    [][~sought /\ shown # NoPts /\ shown' # NoPts => shown' >= shown]_vars

\* A wrap onto the preloaded frames goes on with the packet after them.
\* (worker.rs: "wrap back to the loop start position".)
AfterQueue(q) == IF LastPts(q) = NoPts THEN 0 ELSE LastPts(q) + Interval

WrapResumes ==
    [][acked' /\ ~acked /\ loop /\ next # <<>>
         => Pts(position') = AfterQueue(Head(next))]_vars

------------------------------------------------------------------------------

\* The picture for the timer is shown, or the one after it is queued.
FrameFor(t) == CHOOSE p \in FramePts : p <= t /\ \A q \in FramePts : q <= t => q <= p

UpToDate ==
    \/ shown = FrameFor(now)
    \/ now < FirstFrame(current) /\ FirstFrame(current) <= now + Ahead

\* While the timer stands still before the last picture, the player catches
\* up with it, whatever was sought, skipped or failed to decode.
CatchesUp ==
    \A t \in 0..Pts(Packets - 1) :
        []<>(now # t \/ UpToDate \/ playback = "Ended" \/ gpc = "gone")

\* Every call of the engine returns: the wait for the reply to Wrap, and the
\* wait for the worker to end.
CallsReturn == gpc \notin {"idle", "gone"} ~> gpc \in {"idle", "gone"}

\* A movie that does not loop, or no longer, ends once its timer stays at
\* its end, unless its worker is lost: then it plays for ever.
MovieEnds ==
    ~loop /\ now = Duration
      ~> playback = "Ended" \/ now # Duration \/ gpc = "gone" \/ wpc = "exited"

==============================================================================
