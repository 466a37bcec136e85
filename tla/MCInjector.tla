------------------------------ MODULE MCInjector ------------------------------
(***************************************************************************)
(* A small instance of Injector.                                           *)
(***************************************************************************)
EXTENDS Injector

Entry(d, s) == [dir |-> d, spelling |-> s]

\* The directory of the executable is in PATH twice, once spelled otherwise.
Paths == { << Entry("game", "other"), Entry("system", "own"), Entry("game", "own") >> }

==============================================================================
