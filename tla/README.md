# A TLA+ model of siglus-performance-patch

siglus-performance-patch is a DLL that is loaded into a running Siglus engine
(a visual-novel engine for Windows) and replaces some of its slow functions:
saving, the copying of save files, the lookup of resource files, the writing of
PNG thumbnails and the whole playback of OMV movies. Two small programs bring
the DLL into the process: one injects it at start, the other patches the
import table of the executable. This directory models the parts of it where
threads, files and the order of events matter, checks the models with TLC, and
proves what it can with TLAPS.

## 1. Inventory

| Component | State | Operations | Hard behaviour | What makes it correct | Status |
|---|---|---|---|---|---|
| Asynchronous save (`siglus_hook/src/lib.rs`) | `SAVE_TASKS`, one slot per path with its condition variable; a worker thread per save; the save files | the pack, save and copy hooks; `queue_async_save`; `run_async_save` | queued saves of one file; a worker that ends late; a failing job or thread; the end of the process; direct saves and copies beside queued ones | saves of a file reach it in order, whole and packed; no caller waits for ever; the files are those of the synchronous engine | modelled |
| Playback clock (`omv_player/clock.rs`) | the last sample | `update` | the timer jumps back: a wrap, or a seek? | a wrap is recognised, and nothing else is taken for one | modelled |
| Frame queues (`frame.rs`, `packet.rs`, `looper.rs`) | frames and the last packet timestamp of this pass and of the preloaded one | push, pop for a time, clear, last timestamp, full | limits; frames that are decoded but not presentable | the frame popped is the last one due | modelled |
| Movie worker (`worker.rs`, `demuxer.rs`, `decoder.rs`) | command channel, worker state, playback state, demuxer position | Seek, Forward, Wrap, Shutdown; read, decode, queue; preload the next pass | commands arrive in any state; the loop flag changes between two tests; seeks and packets fail; the thread panics | the worker never sleeps when it is needed; a wrap goes on where the pass begins | modelled |
| Movie player (`player.rs`) | the picture, the clock shared with the worker | `check_need_update_at`, `fill_buffer`, `seek`, `end_loop`, `drop` | the game thread waits for the worker in `wrap` and in `drop`; it clears a queue the worker fills | pictures match the timer, never go back within a pass; every call returns; the movie ends | modelled |
| Movie player FFI (`omv_hook.rs`, `mod.rs`, `omv_types.rs`) | a boxed player per engine object, what it plays, its last error | new, init, fill_buffer, destroy | an init that fails is reported as a success; a destroy while the threads it joins are starting | errors can be learned of; no thread outlives its player | modelled |
| Frame conversion, frame pool (`frame.rs`) | recycled buffers | the conversions, acquire, release | alpha in three bands below the picture; AVX2 blocks and the rest of a row; movies whose frames are not what the header says | every byte of a picture is in its place; what init accepts is shown | partly |
| Statistics window (`overlay.rs`) | a window thread, its message queue, five atomics and a text | new, update, drop; the window procedure | the player is dropped, or the hotkey pressed, at any moment of the start of the thread | the thread ends with the player; the window follows the hotkey and the text | modelled |
| File attribute cache (`lib.rs`) | the lower-case names in `g00`, read once | `GetFileAttributesW` hook | files that appear or vanish during the scan or later; a scan that fails; directories | the answer was Windows' own since the scan began | modelled |
| DLL attachment (`lib.rs`) | the process' `PATH`, the loader lock, the installer thread | `DllMain` | it runs under the loader lock; it may run in any process that loads the DLL | it waits for nobody; `PATH` keeps what it had | modelled |
| Hook installation (`lib.rs`) | which detours and code patches are in place | the installer thread | an early return in the middle; the engine runs meanwhile | a hook is never there without those it relies on | modelled |
| PNG writer (`lib.rs`) | none | encode | none | data only | not modelled |
| IAT patcher (`siglus_iat_patcher`) | the executable, its backup, the copy of the DLL; the window with its status text | status, patch, unpatch; the buttons | a crash in a copy; an executable updated in between; the layout of the added section | unpatch gives back what patch found; sections do not overlap; the window says what is there | modelled |
| Injector (`siglus_injector`) | the process it opened, its memory there, a remote thread | find, check, allocate, write, start, wait | the game ends, or its process id goes to another process, between two calls; a call fails | no memory is freed while it is read, or left behind; nothing runs in a process it does not fit | modelled |
| OMV converter, root binary | none | a straight line of calls | none | no interaction | not modelled |

How they interact: the engine calls the hooks on its own threads. The pack hook
leaves a *placeholder* (the header `SPP0` and the raw data) in the buffer when
it skips the compression; the save hook recognises it and hands the raw data to
a worker thread, and returns at once. The table `SAVE_TASKS` orders the workers
of one path. The copy hook works on the same files without looking at the table.
In the movie player, the game thread sends commands through a channel and reads
the frame queues under their lock; the clock, the playback state, the shutdown
flag and the loop flag are shared atomics; only `wrap` waits for a reply, and
only `drop` waits for the thread to end. A player owns a second thread, that of
its statistics window, which it tells by messages and joins after the worker.
The injector and a patched executable are two ways to the same `DllMain`, which
starts the thread that installs the hooks.

`PROJECT.json` lists the hazards of this code, each at its line, with the
properties that look for it.

## 2. The modules

| Module | Models | Uses |
|---|---|---|
| `SavePaths` | what the hooks read from a path: the key of the table, the known layouts, the rotation rule | |
| `SaveStore` | the abstract specification: what the engine may rely on when saves become asynchronous | |
| `AsyncSave` | the save, pack and copy hooks, the table, the workers, the files | `SavePaths`; refines `SaveStore` |
| `AsyncSaveProofs` | theorems of `AsyncSave` | `AsyncSave`, TLAPS |
| `MCAsyncSave` | instances for TLC | `AsyncSave` |
| `ClockTracker` | `ClockTracker::update` and the two guards of the loop | |
| `LoopQueues` | the frame queues as operators | |
| `OmvWorker` | the worker's thread | `LoopQueues`, `ClockTracker` |
| `OmvPlayer` | the game thread, composed with the worker | `OmvWorker` |
| `OmvPlayerProofs` | theorems of `OmvPlayer` and `ClockTracker` | `OmvPlayer`, TLAPS |
| `MCPlayback` | instances for TLC | `OmvPlayer` |
| `StatsWindow` | the statistics window's thread and the calls that reach it | |
| `FrameConvert` | the conversions of `frame.rs`, byte by byte | |
| `FrameConvertProofs` | theorems of `FrameConvert` | `FrameConvert`, TLAPS |
| `MovieFile` | what is checked when a movie is opened | `FrameConvert` |
| `MoviePlayerFfi` | the life of a player, from new to destroy, with its two threads | `StatsWindow`, `MovieFile` |
| `MoviePlayerFfiProofs` | theorems of `MoviePlayerFfi` | `MoviePlayerFfi`, `FrameConvertProofs` |
| `MCMovieFfi` | movie files for TLC | `MoviePlayerFfi` |
| `PeImage` | what the patcher reads from an executable, and the image it makes of it | |
| `PatchedExe` | the executable and its backup under patch and unpatch | `PeImage` |
| `PatchedExeProofs` | theorems of `PatchedExe` | `PatchedExe`, TLAPS |
| `PatcherWindow` | the window of the patcher and its user | `PatchedExe`; implements it |
| `PatcherWindowProofs` | theorems of `PatcherWindow` | `PatcherWindow`, `PatchedExeProofs` |
| `MCPatchedExe` | small executables for TLC | `PatcherWindow` |
| `HookInstall` | the installer's thread, and the engine's calls that the hooks and patches change | |
| `AttributeCache` | the scan of `g00`, the cache and its lookup, the directory | |
| `HookedEngine` | the two composed: the installer loads the cache when it is done | `HookInstall`, `AttributeCache` |
| `HookedEngineProofs` | theorems of `HookedEngine` | `HookedEngine`, TLAPS |
| `MCHookedEngine` | directories for TLC | `HookedEngine` |
| `DllAttach` | `LoadLibraryW` and `DllMain` under the loader lock | |
| `Injector` | the injectors, the processes and the process id | `DllAttach` |
| `InjectorProofs` | theorems of `Injector` | `Injector`, TLAPS |
| `MCInjector` | a small instance for TLC | `Injector` |

### AsyncSave

Every call of the save hook has a number; `phase[s]` says where save `s` stands
and is the program counter of whoever runs it, the caller or a worker. An
action ends where the code reaches something another thread can see:

* `PackBuffer` is the pack hook. The two Booleans are the size test and the
  allocation of the array; the result is a placeholder or the engine's own pack.
* `QueueSave` is `queue_async_save` up to its wait: insertion into the table
  under its lock, `prev` being the entry that `insert` returned. `DirectSave` is
  every other branch of the save hook.
* `SpawnWorker` is the end of the wait and the start of the thread;
  `SpawnPanics` is the panic of `thread::spawn`, the only one left on that path.
* `OpenWrite`, `CloseWrite`, `JobFails`, `RemoveTask`, `NotifyDone` are the
  worker. The write is cut at the open and the close of the file, so that a file
  may be found torn; failure and panic end in the same `RemoveTask`, because the
  code catches the panic before it cleans up.
* `OpenDirect`, `CloseDirect` are the engine's own save function on the caller's
  thread, `CopyFile` the copy hook with `should_move_numbered_save_file`.
* `ProcessExit` ends all threads at any moment; the files stay.

`believed` is a history variable: per file, the save the synchronous engine
would have left there.

A file's bytes, header and key are left out: a file holds the number of a save
and one of *packed*, *placeholder*, *torn*, *none*. Two writers that are inside
one file at the same time leave it torn.

The engine is not in the repository. Two constants say what is assumed of it
where an assumption is needed: `QuietDirect`, it does not save directly to a
file that has a save in flight; `QuietCopy`, it does not copy such a file.
Neither is enforced by the code. Runs and theorems that do not need them leave
them open.

### OmvWorker and OmvPlayer

`mode` is `WorkerState`. A round of `worker_loop` is `CheckShutdown`, `Receive`
(the command and its handler; an idle worker waits in `recv`), `Read` (full
queue, end of the stream, or the next packet), then `PushPacket` or `AtEnd`,
where the worker takes the lock of the queues or tests the loop flag for the
second time. The game thread is cut the same way, `gpc` being its counter:
`CheckCall` sets the clock, `Chase` is `chase_to`, `Send` puts the command into
the channel, `WrapReturns` the reply, `Answer` the result of
`check_need_update_at`, `Pop` the frame for `fill_buffer`. After an answer of
"no change needed" the engine may still fill its buffer, since it may force an
update.

Between two calls the timer goes on by 0 to `MaxStep`, and starts again at its
end when the movie loops, as the engine's loop timer does. Time is in ticks; a
frame is its timestamp. `play` and `pause` of the worker are called by nothing
in the repository, so `Pause` and `Resume` are not there. The decoder gives one
frame per packet; copying into the engine's buffer, the seek to a position that
has no frame, frame pools and statistics are left out (statistics and the errors
of `fill_buffer` are `MoviePlayerFfi`'s). A conversion that panics, which is one
of the outcomes of `PushPacket`, ends the thread: the channel then has no
receiver, so that a `wrap` that waits for its reply gets an error and later
commands are lost.

### StatsWindow, FrameConvert, MovieFile and MoviePlayerFfi

The window is built in (`ENABLE_STATS_WINDOW` is true) and starts hidden.
`StatsWindow` cuts the game thread at each atomic it writes or reads and each
message it posts: `UpdateHotkey`, `NotifyVisibility`, `SetText`, `TellUpdated`
in an update, `CloseFlag`, `PostClose`, `PostQuit` and the join in `drop`. The
window's thread is cut in the same way between its start and its loop
(`ThreadStarts`, `ProbeQueue`, `CreateWindow`, `PublishWindow`, `ShowFirst`,
`CheckClosing`), because `drop` may come at any of these moments. Windows is
modelled as far as the code relies on it: a message to a window that is not
there, or to a thread without a queue, is lost; messages are handled in order;
`WM_PAINT` comes when no other message is left. The code's atomics are `Relaxed`
and the model's are sequentially consistent. That is an assumption: in `drop`,
`Relaxed` lets the store of `shutdown` become visible after the loads of `hwnd`
and `thread_id` behind it, and a thread that made its whole way to the loop in
that moment would be joined without having been told.

`FrameConvert` names each byte by its place in the decoder's planes, so that a
picture is a function from pixels to the bytes it should have been made of, and
the shuffles of the AVX2 block are functions on 32 bytes with the meaning of the
instructions. The colours of YUV are made by the `yuv` crate and left out; the
pool of buffers matters only where a conversion fails silently and an old buffer
is shown (`"old"`).

`MovieFile` is the list of the checks of an opened file in the code's order; a
file is a record of their outcomes and of the geometry the conversion depends
on. `MoviePlayerFfi` composes all three: an engine on one thread that makes a
player, opens files, fills buffers and destroys, the worker, which converts one
frame (all of a movie have one geometry) and dies where the conversion panics,
and the window's thread. A destroy joins the worker first, then closes the
window, as the fields of `Player` are dropped in that order. Playback is
`OmvPlayer`'s and is not repeated; calls with a null player return at once.

### PeImage and PatchedExe

`PeImage` is a set of operators on an image, which keeps the numbers that place
things in the file and in memory; of the bytes only the import tables are kept,
as DLL names at an offset of the file, so that reading the imports goes through
the directory and `RvaToOffset` as in the code. The arithmetic is the code's
with its real alignments and sizes, below 2^31: `u32` overflow is not reached.
`WellFormed` is what a linker makes of an executable, and the assumption on the
images: sections that do not overlap, in the file or in memory, inside the file;
alignments that are not zero, the memory's a multiple of the pointer's size. TLC
evaluates it on all 97 executables of `patch_files`.

In `PatchedExe` a file holds an image, whole or torn, or nothing. `fs::copy` and
`fs::write` are a first step that tears the file and a last one that completes
it; a failure or a crash comes between. `Patch` and `Unpatch` are the tests up
to the first of these, `NoRoom` the error of `add_hook_import` after the backup
was made. `status` of a torn file may fail or not. The history variable `unfit`
says that the backup is older than the executable or that its copy was cut off:
`patch` keeps any backup it finds, and in these two cases that loses the game.
One tool runs at a time, and the user touches the files between its calls only.

`PatcherWindow` puts the window around it. Everything runs on one thread, and a
message box disables the window: `screen` is *ready*, *busy* in a call, or *box*
while a message is up, during which the user may still change files. `shown` is
the status text, `touched` a history variable: files have changed since it was
written.

### HookInstall, AttributeCache and HookedEngine

`install_hooks` is cut at every call that can fail or that another thread can
notice: `CreateHook` and `StoreOriginal` per hook, `BeginWrite` and `EndWrite`
per place of the engine's code (the bytes are copied while the engine may run
them), `EnableAllHooks`. MinHook is not in the repository: it is taken to enable
the hooks in the order they were created in while all other threads are stopped,
and to stop at the first that fails. `InstallFails` is every `?` on the way.

A patch function that writes several places has one site for each. A movie
operation of the engine runs through the sites of one or more of them; it runs
the hook's code if all are patched, the engine's if none is, and otherwise
something nobody wrote (`ServedBy`). An operation is one step; the engine plays
one movie at a time. What the functions behind the patches do is `OmvPlayer`'s
matter, what happens to a placeholder `AsyncSave`'s: here a save is the pair of
a pack and a save that must meet the same installation.

`AttributeCache` reads the entries of `g00` one by one, in any order, while they
change. A file is its attributes, a name is known in two spellings, and for the
names of `WideNames` the key does not unify them, as `to_ascii_lowercase` does
not. Windows answers every path that the cache does not, so that those answers
are not recorded. `was` is a history variable: what each name has been since
the scan began.

The code's own limits are in the model and excluded by name in the properties: a
directory is reported missing once the cache is there, and so is every file of
another directory named `g00`; movies that are open while the code is patched,
or after an installation that failed among the patches, are handled by two
players at once.

### DllAttach and Injector

`DllAttach` is a process that loads the DLL: `EnterLoader`, `DllMain` and
`LeaveLoader` are a `LoadLibraryW` on a thread of its own, under the loader lock
of the process, which a new thread (`InstallerStarts`) needs as well. `PATH` is
a sequence of directories with a spelling each.

`Injector` has one action per call of Windows in `inject_dll`, with its failure;
`Drop` is what the owners of the handles and of the remote memory do on every
way out. Processes end at any time with any exit code (`EndOf`), their id is
given to others (`IdReused`), an injector may be killed (`Killed`). `within[i]`
is the process behind the handle, not the id: it stays the same process when it
ends. The exit code of a remote thread is 32 bits of a module's address; it is 0
or not 0 here.

The code's own limits: a process of the same architecture that has got the
game's id gets the DLL, and a process that ends during the load with a code
other than 0 is reported as injected. `ThreadFits` and `InjectedIsLoaded` say
what is left.

## 3. What the runs show

| Run | Instance | Properties | Shows |
|---|---|---|---|
| `save_queue` | 2 callers, one file in two spellings, 3 saves; everything may fail; the engine does as it likes | `TypeOK`, `QueueOrder`, `NeverOlder`, `CallersReturn`, `SavesFinish` | queued saves of a file pass in their order, whatever fails; none is written over a newer one; nobody waits for ever, except behind a thread that could not be started |
| `save_refine` | 1 caller, 2 files of the rotation, 3 saves, failing jobs, exits; quiet engine | `ImplementsSaveStore` | `AsyncSave` implements `SaveStore`, fairness included |
| `save_transparent` | 2 callers, 3 files, 3 saves, no failure; quiet engine | `Transparent`, `NoPlaceholderOnDisk` | the files are those of the synchronous engine |
| `save_rotation` | 1 caller, 2 files, the engine copies when it likes | `Transparent` *violated* | finding 1 |
| `save_spawn` | a thread that cannot be started | `NoPlaceholderOnDisk` *violated* | finding 2 |
| `movie_live` | 4 packets, 2 key frames, guards of 2 ticks, seeks and an end of the loop | `CatchesUp`, `PicturesAdvance` | the picture for the timer arrives; until the worker is told to seek, pictures go forward within a pass, across wraps and preloading |
| `movie_faults` | 2 packets, everything fails, the worker may panic, seeks, ends, destroys | `TypeOK`, `ShownInTime`, `NeverBothAsleep`, `CallsReturn`, `MovieEnds` | no picture from after the clock; the two threads never wait for one another; every call returns; the movie ends unless the worker has panicked |
| `movie_wrap` | 4 packets, no seek, no failure | `WrapResumes` *violated* | finding 3 |
| `movie_ffi` | 20 movie files: one for each check of init, five whole ones, five that are accepted and cannot be shown; two texts; two messages | `TypeOK`, `ThreadsOwned`, `ErrorTells`, `PictureRight`, `AcceptedShows`, `CallsReturn`, `WindowFollows`, `PaintsLatest` | no thread outlives its player; every error is told; pictures are right to the byte; destroy returns wherever the window's thread is; the window follows |
| `patch_files` | 97 executables of two sections, with the window and its user; failures, crashes, two updates | `WindowTypeOK`, `LayoutSound`, `ImportsKept`, `GameKept`, `StatusTrue`, `DoneIsDone` | a patched executable is well laid out, imports what it did and the hook, the installed one is not lost, and the window says what is there |
| `hooks_install` | 2 threads, 5 hooks, 26 code patches, 2 names, 2 changes; every step may fail | `TypeOK`, `PlaceholderMeetsHook`, `MovieMeetsItsOwn`, `CacheWasTrue` | an installation that stops anywhere leaves saves whole; movies keep to one player; the cache says nothing false of a file |
| `injector` | 2 injectors, the game and another process, 2 architectures; everything may fail, end or be killed | `TypeOK`, `PathThere`, `NothingLeft`, `ThreadFits`, `InjectedIsLoaded`, `PathPrepended`, `InjectorsEnd` | the path outlives its reader; nothing is left behind; no thread where it does not fit; nobody waits for the loader lock for ever |

Bounds. The order of saves is decided between a save, the one it waits for and
one after it; three saves are these three, and replace a table entry twice. Two callers suffice for every race of the table, which is
behind one lock; more saves in flight than callers exist, because a caller does
not wait for its worker; `save_refine` makes do with one, the engine's game
thread. A movie of four packets with two frames per queue has a head, a tail and
a middle, fills both queues, and preloads while frames of the
old pass are still queued; `Ahead` is one or two packets, as the 200 ms of the
code are some frames; `MaxCommands` bounds the channel at two commands between
two calls of the engine. The code's channel has no bound; a call sends one
command, two if it answers and fills.

The executables of `patch_files` vary what the layout reads: memory larger or
smaller than the data, a section without data, bytes behind the sections, no
imports or two, a directory with and without a size, both pointer sizes, and
exactly enough or one byte too little room for a header.

`hooks_install` has the real hooks and patches. Of two names one can be read
before and one after a change or a failure, and two changes make a file come and
go, or change what was read and what was not; its threads are interchangeable
(symmetry).

The movies of `movie_ffi` have 1, 2, 3 and 5 rows, so that the bands of alpha are
equal, unequal and missing, and 2, 3, 32 and 65 columns: no block, one, and two
with a rest. Two messages are one that is being posted behind one that waits;
the engine waits for the window's thread when there are more, which the code's
queue of 10,000 does not ask for. Two texts tell the latest from an older one.

`injector` has one `PATH`, with the directory of the executable twice, once in
another spelling, around another directory. Two injectors load the DLL at the
same time, one after the other, or into different processes; the game may have
the DLL already, as a patched executable has.

`CHECK_DEADLOCK FALSE` is set in the movie runs of `OmvPlayer`, where the model
stops once the movie has ended or the player is destroyed
(`check_need_update_at` does nothing after the end), and in `injector`, which
stops when all injectors and processes have ended.

Fairness. Threads are fair: a thread that can take a step takes one (weak
fairness of each caller inside a hook, of each save's worker, of the movie
worker, of the game thread inside a call). The engine is assumed to go on
drawing (`WF(CheckCall)`), without moving its timer; it is never assumed to
save, seek, end the loop or destroy, nor the user to press or close anything.
Failures, the end of a process and the reuse of its id are never fair. There is
no strong fairness. `MoviePlayerFfi` has its three threads fair, `Injector` each
injector, each loading thread and each installer's thread; the patcher and
`HookedEngine` need none, as nothing is promised of them that must happen.

Each property of a passing run has a mutant in `PROJECT.json`: a definition of
the model changed as a slip in the code would change it, under which TLC finds
the property violated.

`PicturesAdvance` is stated until the worker is told to seek, and must be:
between the clearing of the queue in `Player::seek` and the moment the worker
takes the command, the worker can queue a frame of the old position, and that
frame can be shown before one of the new. This is true of the engine's seeks and
of the player's own: `pop_frame` clears the queue and seeks when the first frame
is too far ahead, without forgetting the picture. The second case takes a movie
of five packets, in which a late Forward (finding 3) has left a gap; a statement
about the engine's seeks alone is refuted there, and the proof is what showed
it. With packets that fail to decode the worker goes idle without its target,
and leaves such gaps too. The hazard list names both.

## 4. What is proved

`AsyncSaveProofs`, for every set of callers and paths, every number of saves and
every choice of the failure and engine constants:

* `TypeCorrect`: `Spec => []TypeOK`.
* `QueueInvHolds`, and from it `QueueOrderHolds`: queued saves of one table key
  pass one after the other. `QueueOrder` is not inductive: that a save past its
  wait has no active predecessor needs that it waited for the right one
  (`PrevNewest`), which needs that the table's entry is the newest active save
  of its key (`EntryNewest`) and is active (`EntryActive`), which needs that
  numbers are given in order (`Numbered`) and that a lost save has no active
  predecessor (`LostIsOver`). `QueueInv` is the conjunction, and the proof goes
  through the actions one by one.
* `NeverOlderHolds`: the action property, from `QueueInv` and `DiskBegun`.
* `NoPlaceholderHolds`: when threads can be spawned and every path the engine
  saves to has a known layout, no placeholder reaches a file. It is the same statement that
  `save_spawn` refutes when they cannot.
* `WaitInvHolds`: a waiting save has its caller, and the save it waits for is
  still on its way or done, whatever fails; the table's entry is active
  (`EntryActive`) when it becomes a `prev`, and from then on only the end of the
  process takes a save off its way. `NoCircularWaitHolds` follows, because `prev` goes down: the
  oldest waiting save of a key waits for one that can go on, or for one whose
  thread could not be started. It is the safety half of `CallersReturn`.
* For an engine that leaves a file with a save in flight alone and saves only to
  paths with a layout, when threads can be started (`QuietEngine`):
  `QuietInvHolds`, at most one save of a file is past its wait (`OneServer`), a
  direct save is alone with its file, and a file that is open is torn.
  `TransparentHolds`, without failures: `believed` is the newest save of a file
  while there is one in flight, and what the file holds when there is none
  (`BelievedNewest`, `Settled`). `SaveStoreSafety`, with failures and exits:
  every step of `AsyncSave` is a step of `SaveStore` or a stutter,

  | `AsyncSave` | `SaveStore` |
  |---|---|
  | `QueueSave`, `DirectSave` | `Accept` |
  | `OpenWrite`, `OpenDirect` | `BeginWrite`, of the oldest pending save |
  | `CloseWrite`, `CloseDirect` | `EndWrite` |
  | `JobFails` | `Drop` |
  | `CopyFile` | `Transfer` |
  | `ProcessExit` | `ProcessExit` |
  | the others | a stutter |

  that a save begins only when it is the oldest one pending is `QueueOrder`
  (`ServerOldest`), which is why the theorem needs `QueueInv`.

`OmvPlayerProofs`:

* when a movie is longer than its two guards, a wrap is reported only if the
  timer went back (`WrapGoesBack`), and in a loop no sample is both a wrap and a
  seek (`LoopIsNoSeek`). In a shorter loop the first fails: every sample is in
  both guards.
* For every movie, prefetch, threshold and bound: `TypeCorrect`, which says that
  no frame queue exceeds its limit, and `ShownInTimeHolds`. `WorkerInv` and
  `PlayerInv` are inductive together. The first needs `Room`: between `Read`,
  which finds the queue not full, and `PushPacket` the game thread may take
  frames or clear the queue, and never adds one. The second needs that the clock
  that `pop_frame` compares with is the one that was sampled in the same call,
  also after the wait for a reply, and that a clock that goes back without a
  wrap is a seek, which forgets the picture. `Popped` says what `pop_frame_for`
  returns of any queue.
* `PicturesAdvanceHolds`, with every failure, by `OrderInv`: as long as no seek
  is on its way (`NoSeek`), the picture comes before the frames that are queued
  (`PictureFirst`), these are in order (`Tidy`), and what the worker brings next
  comes behind them (`ComesBehind`). The last part is the hard one, because
  the worker leaves the pass of the current queue to preload the next, and a
  `Forward` may bring it back to any position: it comes back only to a target
  behind what is queued, and drops what it reads before that target. A `Wrap` makes
  the preloaded queue the current one, so that queue is in order with the
  demuxer behind it (`NextTidy`), and the picture must be gone: the game thread
  sends a `Wrap` without one and waits behind it, and no other command follows
  (`WrapAlone`). Finding 3 does not contradict the theorem: packets are missing there,
  and the order is kept.
* `NeverBothAsleepHolds`, by `Told`: whoever waits has its `Wrap` or `Shutdown`
  at the end of the channel until it is answered or the worker has ended. It is
  the safety half of `CallsReturn`.

`PatchedExeProofs`, for every set of well-formed images, of any number of
sections and imports, and every set of updates:

* `GameKeptHolds`, by the invariant `KeptInv` (without a backup the executable is
  untouched; a backup that is not being copied is the installed executable unless
  it is unfit; the executable is opened for writing only behind a backup). The
  images are not opened in this proof.
* `LayoutSoundHolds` and `ImportsKeptHolds`, by the invariant `LayoutInv`: the
  executable is as installed or patched exactly once (`Known`), the backup was
  never patched (`Fresh`), and what is written is what `add_hook_import` makes
  of an image it has read (`Hooked`). That such an image is well laid out is
  arithmetic: an aligned number is not smaller and is a multiple (`AlignUp`,
  `AlignMultiple`); the next address is behind every section (`NextBehind`, by
  `GreatestIndex`); the header fits before the first data (`FirstRawIs`, by
  `LeastIndex`); the pieces of the section follow each other (`PiecesLaid`). The
  loader finds the new table through the directory, because no other section has
  its address and no other table its offset (`HookImported`).

`PatcherWindowProofs`: the window's steps are steps of `PatchedExe` or leave the
files alone (`WindowImplements`), so that what holds there holds whatever the
user presses (`WindowKeepsGame`). `StatusTrueHolds` by `StatusInv`; with
`LayoutInv`, which says that an executable that is patched or restored can be
told to be so, `MessageInv` gives `WindowTypeCorrect` and `DoneIsDoneHolds`.

`HookedEngineProofs`, for any threads, names, directories and number of changes:

* `PlaceholderMeetsHookHolds`, by `SaveInv`: nothing is enabled before the
  installation ends, and a prefix of the hooks with the pack hook has the save
  hook.
* `MovieMeetsItsOwnHolds`, by `MovieInv`: the movie's object is of the kind that
  the code of `new` was, and at both ends of the patching every operation is of
  that kind too (`ServedAtTheEnds`, which rests on `OperationSites`: no
  operation's site is left out of `SiteOrder`).
* `CacheWasTrueHolds`, by `CacheInv`: the map under construction is right about
  the names read so far, each part of that survives a change of the directory
  (`Monotone`), and nobody looks into it before it is complete.

* `TypeCorrect`, by `HooksTyped` (the originals are stored in the order of the
  hooks, all before the first patch, so that an enabled hook has its original)
  and `CacheTyped`.

`InjectorProofs`, for any injectors, processes, architectures and values of
`PATH`: `TypeCorrect`, `PathThereHolds`, `NothingLeftHolds`, `ThreadFitsHolds`,
`InjectedIsLoadedHolds` and `PathPrependedHolds`. `InjectorInv` says what an injector's place tells of
its thread and of its memory (`Started`, `Stored`), that the architectures fit
the process behind the handle from the check on (`Fitting`), which of the exit
codes can be other than 0 (`Coded`), and that whoever has the loader lock is
inside `DllMain` (`LockHeld`). For `PATH` it is enough that a process has its own
until its first attachment, and what `DllMain` makes of it afterwards: a second
one finds the directory. `WaitIsServedHolds` is the safety half of `InjectorsEnd`:
while an injector waits, its thread (`HasThread`) has ended, or a loading thread of
the same process can go on, because whoever has the loader lock is inside
`DllMain` (`LockHeld`) and does not wait there for the thread it has started.

`FrameConvertProofs`: `RowsAgree`, a row that is converted in blocks of 32 pixels
is the row that is converted one by one, for every width and every plane; the
lemmas follow the bytes through the shuffles of a block.

`MoviePlayerFfiProofs`, for any movie files: `ThreadsOwnedHolds`,
`ErrorTellsHolds`, `AcceptedShowsHolds` and `TypeCorrect` by `FfiInv` (a worker
from init to its join, a window's thread at most that long, a frame that is the
conversion of the movie that is open). `PictureRightHolds` rests on `RowsAgree`
and `AlphaIsThere` and is about movies of any width and height. `JoinIsCalledHolds`
says that a destroy never waits for a window's thread that sleeps in its loop:
the thread publishes its window before it looks at the flag, and the player sets
the flag before it looks for the window (`WindowThere`), so that one of them posts
the message that ends the loop (`LoopCalled`). It is the safety half of
`CallsReturn`, and it is what relaxed atomics put in question. `WindowSettledHolds`:
a window whose thread has nothing left to do shows what was last asked for and
says the latest text, because every request that the window has not followed has
its message on the way (`Following`, `Latest`). It is the safety half of
`WindowFollows` and `PaintsLatest`.

The assumptions are those of the modules' `ASSUME`s, which TLC evaluates on the
instances. Every invariant and every action property of the passing runs is
proved. Only model-checked are the liveness properties, whose proof needs
`ENABLED`: `CallersReturn`, `SavesFinish`, `CatchesUp`, `CallsReturn`,
`MovieEnds`, `WindowFollows`, `PaintsLatest`, `InjectorsEnd`, and the fairness
in the refinement of `SaveStore`. What the library says of filtered sequences rests
on an induction over data; `PathPrepended` is therefore stated about
`SelectSeq` as a whole, and that the filter takes out every spelling of the
directory is checked by TLC on the paths of `injector`.

## 5. Findings

1. *A rotation does not see a save in flight* (`lib.rs:808`, run
   `save_rotation`). The copy hook moves `1008.sav` to `1009.sav` while the save
   of `1008` is in its worker; `1009` then never gets it.
2. *The fallback writes the placeholder* (`lib.rs:891`, run `save_spawn`). When
   `thread::spawn` panics, the detour calls the engine's save with the buffer as
   the pack hook left it. The slot stays in the table, so that the next queued
   save of that path waits for ever.
3. *A late Forward empties the head of the next pass* (`worker.rs:400`, run
   `movie_wrap`). A worker that has preloaded the next pass takes a `Forward`
   from the last frame interval of this one and drops packets from behind the
   preloaded frames.

## 6. Not modelled

* The PNG writer: one call on one thread, and what is written is the `png`
  crate's work.
* The OMV to AVIF converter and the root binary: straight lines of calls.
* The colours of YUV movies (the `yuv` crate) and the limit of the frame pool,
  which costs an allocation and nothing else.
* `Pause` and `Resume` of the worker, and the states only they lead to: nothing
  sends them.
* Calls with a null player, which return at once, and the getters of the movie
  player, which only read.
* The overflow of a movie's payload offset, and of the patcher's `u32` sums.
* Relaxed atomics (see StatsWindow), logging, layout and wording.

## 7. Plan

What is left to do: a model of the shared state of `StatsWindow` under relaxed
atomics; the order of pictures after a seek, as far as the code keeps one.
