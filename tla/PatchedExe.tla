------------------------------ MODULE PatchedExe ------------------------------
(***************************************************************************)
(* The game's executable under siglus_iat_patcher: the file, its backup,   *)
(* and the hook DLL beside them, while the user patches, unpatches, closes *)
(* the tool in the middle or updates the game.  fs::copy and fs::write are *)
(* not atomic: from the first to the last step of one the file is torn.    *)
(* What an update, a failing disk and a torn file look like is external.   *)
(***************************************************************************)
EXTENDS PeImage

CONSTANTS
    Images,      \* the executables a game may come with
    Updates,     \* those the user may install over it
    IOCanFail,   \* a copy or a write may fail
    CanCrash     \* the tool may end in the middle

ASSUME ImagesAssumption == \A img \in Images : WellFormed(img)
ASSUME UpdatesAssumption == Updates \subseteq Images
ASSUME FlagsAssumption == {IOCanFail, CanCrash} \subseteq BOOLEAN

VARIABLES
    exe,         \* the file the game starts from
    backup,      \* the file beside it
    dll,         \* siglus_hook.dll: "missing", "unreadable", or its machine,
                 \* "same" as the executable's or "other"
    pc,          \* where the tool is
    installed,   \* history: the executable the user installed last
    unfit        \* history: the backup is of an older executable, or its copy
                 \* was cut off

vars == <<exe, backup, dll, pc, installed, unfit>>

\* A file holds an image, whole or torn, or nothing.
NoFile == [image |-> {}, whole |-> FALSE]
Whole(img) == [image |-> {img}, whole |-> TRUE]
Torn(file) == [file EXCEPT !.whole = FALSE]
Exists(file) == file.image # {}

Dlls == {"missing", "unreadable", "same", "other"}

Init ==
    /\ \E img \in Images : installed = img /\ exe = Whole(img)
    /\ backup = NoFile
    /\ dll \in Dlls
    /\ pc = "idle"
    /\ unfit = FALSE

------------------------------------------------------------------------------

\* What status says of the executable, {} when it fails.  A torn file may
\* have lost its imports or not.
Inspected(file) ==
    LET seen == {IsPatched(img) : img \in {i \in file.image : Readable(i)}}
    IN  IF file.whole THEN {seen} ELSE {seen, {}}

Go(to) == pc' = to

\* MUTANT makes a new backup each time.
BackupStepAlways == "copy"
\* patch makes a backup once.
BackupStep == IF Exists(backup) THEN "add" ELSE "copy"

\* patch up to its backup; any error leaves it.
Patch ==
    /\ pc = "idle"
    /\ {FALSE} \in Inspected(exe)
    /\ dll = "same"
    /\ Go(BackupStep)
    /\ UNCHANGED <<exe, backup, dll, installed, unfit>>

BeginBackup ==
    /\ pc = "copy"
    /\ Go("copying")
    /\ backup' = Torn(exe)
    /\ unfit' = FALSE
    /\ UNCHANGED <<exe, dll, installed>>

EndBackup ==
    /\ pc = "copying"
    /\ Go("add")
    /\ backup' = exe
    /\ UNCHANGED <<exe, dll, installed, unfit>>

\* add_hook_import on the bytes of the file, and the write that truncates it.
BeginWrite ==
    /\ pc = "add"
    /\ \A img \in exe.image : HasHeaderRoom(img)
    /\ Go(IF exe.whole THEN "writing" ELSE "writingtorn")
    /\ exe' = Torn([exe EXCEPT !.image = {AddHookImport(img) : img \in @}])
    /\ UNCHANGED <<backup, dll, installed, unfit>>

\* There is no room for a section header: the backup stays.
NoRoom ==
    /\ pc = "add"
    /\ \E img \in exe.image : ~HasHeaderRoom(img)
    /\ Go("idle")
    /\ UNCHANGED <<exe, backup, dll, installed, unfit>>

\* What is written is as whole as what was read.
EndWrite ==
    /\ pc \in {"writing", "writingtorn"}
    /\ Go("idle")
    /\ exe' = [exe EXCEPT !.whole = pc = "writing"]
    /\ UNCHANGED <<backup, dll, installed, unfit>>

\* unpatch up to its copy.
Unpatch ==
    /\ pc = "idle"
    /\ {TRUE} \in Inspected(exe)
    /\ dll # "unreadable"
    /\ Exists(backup)
    /\ Go("restoring")
    /\ exe' = Torn(backup)
    /\ UNCHANGED <<backup, dll, installed, unfit>>

EndRestore ==
    /\ pc = "restoring"
    /\ Go("idle")
    /\ exe' = backup
    /\ UNCHANGED <<backup, dll, installed, unfit>>

------------------------------------------------------------------------------

\* A file cannot be opened, as the executable of a running game; or the disk
\* is full: a copy leaves a part of the file or nothing, a write a part of it.
CopyFails ==
    /\ IOCanFail
    /\ Go("idle")
    /\ \/ pc = "copying" /\ backup' \in {backup, NoFile} /\ UNCHANGED exe
       \/ pc = "restoring" /\ exe' \in {exe, NoFile} /\ UNCHANGED backup
       \/ pc \in {"copy", "add", "writing", "writingtorn"} /\ UNCHANGED <<exe, backup>>
    /\ unfit' = (unfit \/ (pc = "copying" /\ Exists(backup')))
    /\ UNCHANGED <<dll, installed>>

Crash ==
    /\ CanCrash
    /\ pc # "idle"
    /\ Go("idle")
    /\ unfit' = (unfit \/ pc = "copying")
    /\ UNCHANGED <<exe, backup, dll, installed>>

\* The user installs an executable, and adds or removes the DLL.
Update ==
    /\ pc = "idle"
    /\ \E img \in Updates : installed' = img /\ exe' = Whole(img)
    /\ unfit' = Exists(backup)
    /\ UNCHANGED <<backup, dll, pc>>

ReplaceDll ==
    /\ pc = "idle"
    /\ dll' \in Dlls
    /\ UNCHANGED <<exe, backup, pc, installed, unfit>>

Tool ==
    \/ Patch \/ BeginBackup \/ EndBackup \/ BeginWrite \/ NoRoom \/ EndWrite
    \/ Unpatch \/ EndRestore
    \/ CopyFails \/ Crash

Next == Tool \/ Update \/ ReplaceDll

Spec == Init /\ [][Next]_vars

------------------------------------------------------------------------------

PatchedOnce(img) ==
    \A i, j \in Indices(img) :
        img.sections[i].name = HookSection /\ img.sections[j].name = HookSection => i = j

IsFile(file) ==
    /\ file = [image |-> file.image, whole |-> file.whole]
    /\ \A img \in file.image : Len(img.sections) \in Nat /\ PatchedOnce(img)
    /\ \A i, j \in file.image : i = j
    /\ file.whole \in BOOLEAN

\* An executable is patched once at most.
TypeOK ==
    /\ IsFile(exe) /\ IsFile(backup)
    /\ dll \in Dlls
    /\ pc \in {"idle", "copy", "copying", "add", "writing", "writingtorn", "restoring"}
    /\ installed \in Images
    /\ unfit \in BOOLEAN

\* The headers and the data of the sections do not overlap in the file, the
\* sections do not overlap in memory, and the image covers them.
WellPlaced(img) ==
    /\ img.tableEnd <= FirstRaw(img)
    /\ \A i, j \in Indices(img) :
          LET s == img.sections[i]
              t == img.sections[j]
          IN  /\ s.address + s.virtual <= img.imageSize
              /\ s.raw + s.rawSize <= img.length
              /\ i # j => /\ Apart(s.address, Span(s), t.address, Span(t))
                          /\ Apart(s.raw, s.rawSize, t.raw, t.rawSize)

\* The pieces of the new section follow each other in it, and the loader
\* finds its address tables where a pointer may be.
WellPieced(img) ==
    LET p == Pieces(img.directorySize \div DescriptorSize - 2, img.pointer)
        s == img.sections[Len(img.sections)]
    IN  /\ p.descriptors <= p.ilt
        /\ p.ilt + 2 * img.pointer <= p.iat
        /\ p.iat + 2 * img.pointer <= p.byName
        /\ p.byName + 2 + HookImportLength < p.dll
        /\ p.dll + HookDllLength < s.rawSize
        /\ (s.address + p.ilt) % img.pointer = 0
        /\ (s.address + p.iat) % img.pointer = 0

\* A patched executable loads: the new section is clear of everything else.
LayoutSound ==
    \A img \in exe.image :
        exe.whole /\ HasSection(img, HookSection) => WellPlaced(img) /\ WellPieced(img)

\* It imports what it did and the hook, through the directory it has now.
ImportsKept ==
    \A img \in exe.image :
        exe.whole /\ HasSection(img, HookSection)
          => \E base \in Images :
                /\ base.sections = SubSeq(img.sections, 1, Len(img.sections) - 1)
                /\ img = AddHookImport(base)
                /\ ImportTables(img) = {Append(ImportNames(base), HookDll)}

\* Whatever fails or is cut off, the executable the user installed is still
\* there, as it was: in its place, or in the backup unpatch takes it from.
GameKept == ~unfit => Whole(installed) \in {exe, backup}

==============================================================================
