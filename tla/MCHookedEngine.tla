---------------------------- MODULE MCHookedEngine ----------------------------
(***************************************************************************)
(* The game's g00 holds a file or nothing under each name at first; the    *)
(* other g00 has files of the same names, the other directory folders.     *)
(***************************************************************************)
EXTENDS HookedEngine

SomeDisks ==
    { [d \in Dirs |-> CASE d = Game -> game
                        [] d = Twin -> [n \in Names |-> "archive"]
                        [] d = Other -> [n \in Names |-> Folder]] :
        game \in [Names -> {Missing, "archive"}] }

Symmetry == Permutations(Threads)

==============================================================================
