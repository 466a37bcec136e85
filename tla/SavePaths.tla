------------------------------ MODULE SavePaths ------------------------------
(***************************************************************************)
(* What the save and the copy hooks of siglus_hook/src/lib.rs read from a  *)
(* file path.  A path is a record of the parts the code tells apart; the   *)
(* characters between them are left out:                                   *)
(*   dir       the directory part                                          *)
(*   name      "number" when the stem is all ASCII digits, else the stem   *)
(*   number    the parsed stem, 0 when there is none                       *)
(*   ext       "sav", "png", or anything else                              *)
(*   spelling  "lower" or "mixed": the same path in another letter case    *)
(***************************************************************************)
EXTENDS Integers

NamedSaves == {"read", "config", "global"}

\* Code offset of the packed data is known for these files only.
HasLayout(p) == p.ext = "sav" /\ (p.name = "number" \/ p.name \in NamedSaves)

\* MUTANT takes the path as it is spelled.
PathKeyAsSpelled(p) == p
\* The key of the task table: the path in lower case.
PathKey(p) == [p EXCEPT !.spelling = "lower"]

\* The file Windows opens: its names do not differ in letter case.
FileOf(p) == [p EXCEPT !.spelling = "lower"]

NumberedSavOrPng(p) == p.name = "number" /\ p.ext \in {"sav", "png"}

\* A copy of n to n + 1 inside the autosave slots is rewritten to a move.
\* The directories are not compared.
ShouldMove(p, q) ==
    /\ NumberedSavOrPng(p)
    /\ NumberedSavOrPng(q)
    /\ p.ext = q.ext
    /\ q.number = p.number + 1
    /\ q.number \in 1001..1009

==============================================================================
