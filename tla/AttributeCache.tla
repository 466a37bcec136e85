---------------------------- MODULE AttributeCache ----------------------------
(***************************************************************************)
(* The attributes of the files in g00, read once by the installer's thread *)
(* (lib.rs, build_file_attribute_cache) and from then on what the hook     *)
(* answers GetFileAttributesW with, while files may come and go.           *)
(***************************************************************************)
EXTENDS Naturals, FiniteSets

CONSTANTS
    Names,      \* names of directory entries; Windows does not tell cases apart
    WideNames,  \* those whose cases to_ascii_lowercase does not unify
    Disks,      \* what the directories may hold at first
    MaxChanges  \* bound on the changes made to g00

\* The game's own directory, another one named g00, and one with another name.
Game == "exe/g00"
Twin == "mod/g00"
Other == "exe/dat"
Dirs == {Game, Twin, Other}

Missing == "INVALID_FILE_ATTRIBUTES"
Folder == "directory"
Attributes == {"archive", "readonly"}
Entries == Attributes \union {Missing, Folder}

ASSUME CacheAssumption ==
    /\ WideNames \subseteq Names /\ MaxChanges \in Nat
    /\ Disks \subseteq [Dirs -> [Names -> Entries]]

\* A name as the directory has it, or with its letters in the other case.
Spellings == {"own", "other"}
Paths == [dir : Dirs, name : Names, spelling : Spellings]

NoPath == [dir |-> "none", name |-> "none", spelling |-> "none"]
NoAnswer == [path |-> NoPath, value |-> "none"]

VARIABLES
    disk,       \* what each directory has under each name
    changes,    \* how often that has changed
    scan,       \* the installer: "no", "reading", "loaded", "failed"
    unread,     \* names that read_dir has not come to
    attributes, \* the map that is being built: set of <<key, attributes>>
    cache,      \* FILE_ATTRIBUTE_CACHE: the map when it is set
    held,       \* the threads with the map in THREAD_FILE_ATTRIBUTE_CACHE
    answer,     \* what the hook answered the last call with, if it did
    was         \* history: what g00 has had under a name since the scan began

cacheVars ==
    <<disk, changes, scan, unread, attributes, cache, held, answer, was>>

CacheInit ==
    /\ disk \in Disks /\ was = [n \in Names |-> {}]
    /\ changes = 0 /\ scan = "no"
    /\ unread = {} /\ attributes = {} /\ cache = {}
    /\ held = {} /\ answer = NoAnswer

\* file_name_key: letters beyond ASCII keep their case.
Key(name, spelling) ==
    IF name \in WideNames THEN <<name, spelling>> ELSE <<name, "lower">>

\* The name of the parent is all that is looked at.
ParentIsG00(path) == path.dir \in {Game, Twin}

------------------------------------------------------------------------------

\* The scan begins once the hooks are installed.
BeginScan ==
    /\ scan = "no"
    /\ scan' = "reading" /\ unread' = Names
    /\ was' = [n \in Names |-> {disk[Game][n]}]
    /\ UNCHANGED <<disk, changes, attributes, cache, held, answer>>

\* read_dir comes to an entry: a file's attributes go into the map.
ReadEntry(n) ==
    /\ scan = "reading" /\ n \in unread
    /\ unread' = unread \ {n}
    /\ attributes' = attributes \union
          (IF disk[Game][n] \in Attributes
             THEN {<<Key(n, "own"), disk[Game][n]>>} ELSE {})
    /\ UNCHANGED <<disk, changes, scan, cache, held, answer, was>>

\* The whole map is published, once.
Publish ==
    /\ scan = "reading" /\ unread = {}
    /\ scan' = "loaded" /\ cache' = attributes
    /\ UNCHANGED <<disk, changes, unread, attributes, held, answer, was>>

\* The error is taken for the end of the directory.
ScanFailsInPart ==
    /\ scan = "reading"
    /\ scan' = "loaded" /\ unread' = {} /\ cache' = attributes
    /\ UNCHANGED <<disk, changes, attributes, held, answer, was>>

\* The directory, or an entry of it, cannot be read: there is no cache.
ScanFails ==
    /\ scan = "reading"
    /\ scan' = "failed" /\ unread' = {} /\ attributes' = {}
    /\ UNCHANGED <<disk, changes, cache, held, answer, was>>

Load == BeginScan \/ (\E n \in Names : ReadEntry(n)) \/ Publish \/ ScanFails

------------------------------------------------------------------------------

\* AttributeLookupResult: what the map has for a path in a directory named g00.
Lookup(path) ==
    LET found == {e \in cache : e[1] = Key(path.name, path.spelling)}
    IN  IF found = {} THEN Missing ELSE (CHOOSE e \in found : TRUE)[2]

\* The engine calls GetFileAttributesW; with the hook, a thread takes the map
\* when it is there and asks it first, and Windows if the path is not in a g00.
GetFileAttributesW(t, path, hooked) ==
    LET has == hooked /\ (t \in held \/ scan = "loaded")
    IN  /\ held' = IF has THEN held \union {t} ELSE held
        /\ answer' = IF has /\ ParentIsG00(path)
                       THEN [path |-> path, value |-> Lookup(path)]
                       ELSE NoAnswer
        /\ UNCHANGED <<disk, changes, scan, unread, attributes, cache, was>>

\* An entry of g00 is made, removed or changed, by the game or by its user.
Change(n) ==
    /\ changes < MaxChanges
    /\ changes' = changes + 1
    /\ \E e \in Entries \ {disk[Game][n]} :
          /\ disk' = [disk EXCEPT ![Game][n] = e]
          /\ was' = [was EXCEPT ![n] = @ \union {e}]
    /\ UNCHANGED <<scan, unread, attributes, cache, held, answer>>

==============================================================================
