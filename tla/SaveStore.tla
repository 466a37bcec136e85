------------------------------ MODULE SaveStore ------------------------------
(***************************************************************************)
(* What the engine may rely on when saving becomes asynchronous: per file, *)
(* the saves it was told are done are written one at a time and in the     *)
(* order they were accepted; each is written whole, dropped by a failure,  *)
(* or lost with the process.  Files are only copied or moved while nothing *)
(* is pending for them.  AsyncSave implements this specification.          *)
(***************************************************************************)
EXTENDS Integers

CONSTANTS File,       \* the save files
          MaxSaves    \* how many saves a behaviour accepts

VARIABLES last,       \* the number of the newest accepted save
          pending,    \* per file, the accepted saves not yet written
          store       \* per file, the save it holds and whether it is whole

vars == <<last, pending, store>>

Content == [save : 0..MaxSaves, whole : BOOLEAN]
Absent  == [save |-> 0, whole |-> TRUE]

Init ==
    /\ last = 0
    /\ pending = [f \in File |-> {}]
    /\ store = [f \in File |-> Absent]

Oldest(f, s) == s \in pending[f] /\ \A t \in pending[f] : s <= t

Accept(f) ==
    /\ last < MaxSaves
    /\ last' = last + 1
    /\ pending' = [pending EXCEPT ![f] = @ \union {last + 1}]
    /\ UNCHANGED store

BeginWrite(f, s) ==
    /\ Oldest(f, s)
    /\ store' = [store EXCEPT ![f] = [save |-> s, whole |-> FALSE]]
    /\ UNCHANGED <<last, pending>>

EndWrite(f, s) ==
    /\ Oldest(f, s)
    /\ store[f] = [save |-> s, whole |-> FALSE]
    /\ store' = [store EXCEPT ![f].whole = TRUE]
    /\ pending' = [pending EXCEPT ![f] = @ \ {s}]
    /\ UNCHANGED last

Drop(f, s) ==
    /\ Oldest(f, s)
    /\ pending' = [pending EXCEPT ![f] = @ \ {s}]
    /\ UNCHANGED <<last, store>>

Serve(f) ==
    \E s \in pending[f] : BeginWrite(f, s) \/ EndWrite(f, s) \/ Drop(f, s)

Transfer(f, g) ==
    /\ pending[f] = {} /\ pending[g] = {}
    /\ store' \in { [store EXCEPT ![g] = store[f]],
                    [store EXCEPT ![g] = store[f], ![f] = Absent] }
    /\ UNCHANGED <<last, pending>>

ProcessExit ==
    /\ pending' = [f \in File |-> {}]
    /\ UNCHANGED <<last, store>>

Next ==
    \/ \E f \in File : Accept(f) \/ Serve(f)
    \/ \E f, g \in File : Transfer(f, g)
    \/ ProcessExit

\* What the store may do ...
Safety == Init /\ [][Next]_vars

\* ... and what it must: an accepted save does not stay pending for ever.
Spec == Safety /\ \A f \in File : WF_vars(Serve(f))

==============================================================================
