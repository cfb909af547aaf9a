----------------------------- MODULE AtomicStore -----------------------------
(***************************************************************************)
(* What the variable store promises (ADR-0010, command language 6.5): the  *)
(* writes of a run reach the store all at once and in order, applied to    *)
(* what is there at that moment, or not at all, also when the process dies *)
(* in between.                                                             *)
(***************************************************************************)
CONSTANTS
  Run,              \* the runs that write
  Initial,          \* what is stored at first
  Applied(_, _, _)  \* Applied(v, ops, w): ops, in order, make w of v

VARIABLES
  db,       \* what is stored
  ops,      \* per run: the writes it has asked for so far
  outcome   \* per run: "none" while it is undecided

vars == <<db, ops, outcome>>

Init ==
  /\ db = Initial
  /\ ops = [r \in Run |-> <<>>]
  /\ outcome = [r \in Run |-> "none"]

\* Undecided runs ask for writes, or take them back; nothing is stored.
Ask ==
  /\ \A r \in Run : ops'[r] # ops[r] => outcome[r] = "none"
  /\ DOMAIN ops' = Run
  /\ UNCHANGED <<db, outcome>>

\* All of a run's writes are stored.
Store(r) ==
  /\ outcome[r] = "none"
  /\ outcome' = [outcome EXCEPT ![r] = "stored"]
  /\ Applied(db, ops[r], db')
  /\ UNCHANGED ops

\* None of some runs' writes is: they failed, were discarded or lost in a crash.
Drop ==
  /\ \A r \in Run : outcome'[r] # outcome[r] => outcome[r] = "none" /\ outcome'[r] # "stored"
  /\ DOMAIN outcome' = Run
  /\ UNCHANGED <<db, ops>>

Next == Ask \/ Drop \/ \E r \in Run : Store(r)

Spec == Init /\ [][Next]_vars
=============================================================================
