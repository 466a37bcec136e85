------------------------------ MODULE MCPlayback ------------------------------
(***************************************************************************)
(* Small instances of OmvPlayer.                                           *)
(***************************************************************************)
EXTENDS OmvPlayer

==============================================================================
