------------------------------ MODULE HookInstall ------------------------------
(***************************************************************************)
(* The installer (lib.rs, install_hooks): a thread of its own that creates *)
(* the hooks, writes the movie patches into the engine's code and enables  *)
(* the hooks, beside the engine's threads, which may be running any of it. *)
(* Each step may fail, and ends the installation where it is.              *)
(***************************************************************************)
EXTENDS Naturals, Sequences, SequencesExt

CONSTANT Threads   \* the engine's threads

\* The pack hook created before the save hook.
HookOrderPackFirst == <<"GetFileAttributesW", "CopyFileW", "pack", "save", "png">>

\* The hooks in the order they are created in, which MinHook enables them in.
HookOrder == <<"GetFileAttributesW", "CopyFileW", "save", "pack", "png">>
Hooks == ToSet(HookOrder)

\* The places in the code that each of the engine's movie operations runs
\* through and the patches change, in the order they are written in.
EndLoopSites == <<"end_loop">>
IsPlayingAltSites == <<"is_playing_alt", "is_playing_alt_jnz">>
IsPlayingSites == <<"is_playing", "is_playing_jz">>
SeekSites == <<"seek_nop">>
DestroySites == <<"destroy">>
NewSites == <<"new", "new_nop_1", "new_store", "new_nop_2", "new_nop_3">>
InitSites == <<"init_nop_pre", "init_nop", "init_call">>
LastErrorSites == <<"last_error">>
GetSizeSites == <<"get_size", "get_size_nop">>
IsRgbSites == <<"is_rgb">>
TotalTimeSites == <<"total_time">>
CheckErrorSites == <<"check_error_nop", "check_error">>
NeedUpdateSites == <<"check_need_update">>
FillSites == <<"fill_ecx", "fill_force", "fill_buffer">>

Operation == [
    end_loop |-> EndLoopSites, is_playing_alt |-> IsPlayingAltSites,
    is_playing |-> IsPlayingSites, seek |-> SeekSites, destroy |-> DestroySites,
    new |-> NewSites, init |-> InitSites, last_error |-> LastErrorSites,
    get_size |-> GetSizeSites, is_rgb |-> IsRgbSites, total_time |-> TotalTimeSites,
    check_error |-> CheckErrorSites, check_need_update |-> NeedUpdateSites,
    fill_buffer |-> FillSites]

\* The call of patch_movie_fill_force is forgotten.
SiteOrderWithoutForce ==
    EndLoopSites \o IsPlayingAltSites \o IsPlayingSites \o SeekSites
      \o DestroySites \o NewSites \o InitSites \o LastErrorSites \o GetSizeSites
      \o IsRgbSites \o TotalTimeSites \o CheckErrorSites \o NeedUpdateSites
      \o <<"fill_ecx", "fill_buffer">>

\* All of them, in install_hooks' order.
SiteOrder ==
    EndLoopSites \o IsPlayingAltSites \o IsPlayingSites \o SeekSites
      \o DestroySites \o NewSites \o InitSites \o LastErrorSites \o GetSizeSites
      \o IsRgbSites \o TotalTimeSites \o CheckErrorSites \o NeedUpdateSites
      \o FillSites
Sites == ToSet(SiteOrder)

VARIABLES
    installer, \* "create", "store", "patch", "write", "installed", "failed"
    created,   \* how many hooks MinHook knows
    original,  \* the hooks whose ORIGINAL_... pointer is stored
    written,   \* how many sites are patched
    enabled,   \* the hooks that are enabled
    buffer,    \* what each thread's pack left: "none", "packed", "placeholder"
    spilled,   \* a placeholder came to the engine's own save
    movie,     \* the movie: nobody's, the engine's or the hook's object
    early,     \* it was made before the installation ended
    mixed      \* it met code of the other kind, or code in the middle of a patch

hookVars == <<installer, created, original, written, enabled, buffer, spilled,
              movie, early, mixed>>

HookInit ==
    /\ installer = "create" /\ created = 0 /\ original = {}
    /\ written = 0 /\ enabled = {}
    /\ buffer = [t \in Threads |-> "none"] /\ spilled = FALSE
    /\ movie = "nobody" /\ early = FALSE /\ mixed = FALSE

engineVars == <<buffer, spilled, movie, early, mixed>>

------------------------------------------------------------------------------

\* MinHook::create_hook.
CreateHook ==
    /\ installer = "create"
    /\ created' = created + 1 /\ installer' = "store"
    /\ UNCHANGED <<original, written, enabled, engineVars>>

\* The result of the last one is not stored.
StoreOriginalButLast ==
    /\ installer = "store"
    /\ original' = IF created < Len(HookOrder)
                     THEN original \union {HookOrder[created]} ELSE original
    /\ installer' = IF created < Len(HookOrder) THEN "create" ELSE "patch"
    /\ UNCHANGED <<created, written, enabled, engineVars>>

\* Its result is stored for the detour.
StoreOriginal ==
    /\ installer = "store"
    /\ original' = original \union {HookOrder[created]}
    /\ installer' = IF created < Len(HookOrder) THEN "create" ELSE "patch"
    /\ UNCHANGED <<created, written, enabled, engineVars>>

\* write_code_patch: the page is writable, and the bytes are being copied.
BeginWrite ==
    /\ installer = "patch" /\ written < Len(SiteOrder)
    /\ installer' = "write"
    /\ UNCHANGED <<created, original, written, enabled, engineVars>>

EndWrite ==
    /\ installer = "write"
    /\ installer' = "patch" /\ written' = written + 1
    /\ UNCHANGED <<created, original, enabled, engineVars>>

\* MinHook enables all hooks while every other thread stands still, and stops
\* at the first that fails.
EnableAllHooks ==
    /\ installer = "patch" /\ written = Len(SiteOrder)
    /\ \E n \in 0..created :
          /\ enabled' = ToSet(SubSeq(HookOrder, 1, n))
          /\ installer' \in (IF n = created THEN {"installed"} ELSE {"failed"})
    /\ UNCHANGED <<created, original, written, engineVars>>

\* An address cannot be had, a hook not created or a page not made writable.
InstallFails ==
    /\ installer = "create" \/ (installer = "patch" /\ written < Len(SiteOrder))
    /\ installer' = "failed"
    /\ UNCHANGED <<created, original, written, enabled, engineVars>>

Install == CreateHook \/ StoreOriginal \/ BeginWrite \/ EndWrite
             \/ EnableAllHooks \/ InstallFails

------------------------------------------------------------------------------

installVars == <<installer, created, original, written, enabled>>

\* A thread packs a buffer for a save; the hook leaves a placeholder unless the
\* buffer is small or no array can be had.
PackBuffer(t) ==
    /\ buffer[t] = "none"
    /\ \E result \in {"packed"} \union
                       (IF "pack" \in enabled THEN {"placeholder"} ELSE {}) :
          buffer' = [buffer EXCEPT ![t] = result]
    /\ UNCHANGED <<installVars, spilled, movie, early, mixed>>

\* It saves the buffer to a file with a known layout: the hook takes a placeholder to a worker, anything else
\* goes to the engine's own save.
SaveToFile(t) ==
    /\ buffer[t] # "none"
    /\ buffer' = [buffer EXCEPT ![t] = "none"]
    /\ spilled' = (spilled \/ (buffer[t] = "placeholder" /\ "save" \notin enabled))
    /\ UNCHANGED <<installVars, movie, early, mixed>>

\* Whose code an operation runs: the sites it runs through are all patched, none
\* of them is, or some are or one is being written.
ServedBy(op) ==
    LET sites   == ToSet(Operation[op])
        patched == ToSet(SubSeq(SiteOrder, 1, written))
        torn    == IF installer = "write" THEN {SiteOrder[written + 1]} ELSE {}
    IN  IF sites \subseteq patched THEN "hook"
        ELSE IF sites \intersect (patched \union torn) = {} THEN "engine"
        ELSE "nobody"

\* A movie's object is made by the code that new runs.
NewMovie ==
    /\ movie = "nobody"
    /\ movie' = (IF ServedBy("new") = "hook" THEN "hook" ELSE "engine")
    /\ early' = (installer \notin {"installed", "failed"})
    /\ mixed' = (ServedBy("new") = "nobody")
    /\ UNCHANGED <<installVars, buffer, spilled>>

\* The engine does something with its movie; destroy is the last thing.
MovieCall(op) ==
    /\ movie # "nobody"
    /\ mixed' = (mixed \/ ServedBy(op) # movie)
    /\ movie' = IF op = "destroy" THEN "nobody" ELSE movie
    /\ UNCHANGED <<installVars, buffer, spilled, early>>

Calls == DOMAIN Operation \ {"new"}

==============================================================================
