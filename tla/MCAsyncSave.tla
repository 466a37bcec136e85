----------------------------- MODULE MCAsyncSave -----------------------------
(***************************************************************************)
(* Small instances of AsyncSave: two callers, and paths that share a table *)
(* key, rotate into each other, or have a layout of another kind.          *)
(***************************************************************************)
EXTENDS AsyncSave, TLC

Slot(n, how) ==
    [dir |-> "savedata", name |-> "number", number |-> n, ext |-> "sav",
     spelling |-> how]

GlobalSave ==
    [dir |-> "savedata", name |-> "global", number |-> 0, ext |-> "sav",
     spelling |-> "lower"]

\* One file, spelled in two ways.
OneFile == {Slot(1008, "lower"), Slot(1008, "mixed")}

\* Two slots of the autosave rotation.
Rotation == {Slot(1008, "lower"), Slot(1009, "lower")}

\* The first with a file that is not a slot.
SlotAndGlobal == {Slot(1008, "lower"), GlobalSave}

\* Callers are interchangeable.
CallerSymmetry == Permutations(Caller)

RotationAndGlobal == Rotation \union {GlobalSave}

==============================================================================
