----------------------------- MODULE HookedEngine -----------------------------
(***************************************************************************)
(* The game from the moment the DLL is attached: the installer of          *)
(* HookInstall, which at its end loads the cache of AttributeCache, and    *)
(* the engine's threads, which pack and save, play a movie and ask for     *)
(* attributes at every moment of it.                                       *)
(***************************************************************************)
EXTENDS HookInstall, AttributeCache

vars == <<installer, created, original, written, enabled, buffer, spilled, movie,
          early, mixed, disk, changes, scan, unread, attributes, cache, held,
          answer, was>>

Init == HookInit /\ CacheInit

\* install_hooks_thread: the cache is loaded when the hooks are installed.
InstallHooksThread ==
    \/ Install /\ UNCHANGED cacheVars
    \/ installer = "installed" /\ Load /\ UNCHANGED hookVars

SaveGame(t) == (PackBuffer(t) \/ SaveToFile(t)) /\ UNCHANGED cacheVars

PlayMovie ==
    /\ NewMovie \/ \E op \in Calls : MovieCall(op)
    /\ UNCHANGED cacheVars

AskAttributes(t) ==
    /\ \E path \in Paths :
          GetFileAttributesW(t, path, "GetFileAttributesW" \in enabled)
    /\ UNCHANGED hookVars

Next ==
    \/ InstallHooksThread
    \/ \E t \in Threads : SaveGame(t) \/ AskAttributes(t)
    \/ PlayMovie
    \/ \E n \in Names : Change(n) /\ UNCHANGED hookVars

Spec == Init /\ [][Next]_vars

------------------------------------------------------------------------------

\* What every variable holds.
TypeOK ==
    /\ installer \in {"create", "store", "patch", "write", "installed", "failed"}
    /\ created \in 0..Len(HookOrder) /\ written \in 0..Len(SiteOrder)
    /\ enabled \subseteq original /\ original \subseteq Hooks
    /\ buffer \in [Threads -> {"none", "packed", "placeholder"}]
    /\ movie \in {"nobody", "engine", "hook"} /\ {spilled, early, mixed} \subseteq BOOLEAN
    /\ disk \in [Dirs -> [Names -> Entries]] /\ changes \in 0..MaxChanges
    /\ scan \in {"no", "reading", "loaded", "failed"} /\ unread \subseteq Names
    /\ \A m \in {attributes, cache} : \A e \in m : e[1][1] \in Names /\ e[2] \in Attributes
    /\ held \subseteq Threads
    /\ answer.value \in Entries \/ answer = NoAnswer
    /\ was \in [Names -> SUBSET Entries]

\* However the installation ends, and whenever the engine packs and saves
\* meanwhile, no placeholder of the pack hook comes to the engine's own save,
\* which would write it into the file.
PlaceholderMeetsHook == ~spilled

\* A movie that meets code of the other kind, or a half-written patch, was made
\* while the patches were being written, or the installation failed among them:
\* one that failed before them leaves the engine's player whole, and one that
\* ended well is the hook's player from new to destroy.
MovieMeetsItsOwn ==
    mixed => /\ written > 0 \/ installer = "write"
             /\ early \/ installer = "failed"

\* What the cache says of a file in the game's g00 was true since the scan began,
\* on every thread: a file that is there all the time is never reported missing,
\* however often the scan was cut short.  Directories are not files: they may be
\* reported missing, and so may a name asked for in a case that ASCII does not
\* unify.
CacheWasTrue ==
    LET path == answer.path
    IN  /\ answer # NoAnswer
        /\ path.dir = Game
        /\ path.spelling = "own" \/ path.name \notin WideNames
        => \E e \in was[path.name] :
              answer.value = IF e = Folder THEN Missing ELSE e

==============================================================================
