---------------------------- MODULE StepOutcome ----------------------------
(***************************************************************************)
(* What checkpointed() promises its callers: a step, named by its key, has *)
(* one outcome; it is decided once, never changes, and every call that     *)
(* returns for that key returns this outcome.                              *)
(***************************************************************************)
CONSTANTS Keys, Values, Undecided

VARIABLES
  outcome,     \* the outcome of each step
  answered     \* the answers calls have returned: [key, value]

vars == <<outcome, answered>>

Init ==
  /\ outcome = [k \in Keys |-> Undecided]
  /\ answered = {}

Decide(k, v) ==
  /\ outcome[k] = Undecided
  /\ outcome' = [outcome EXCEPT ![k] = v]
  /\ UNCHANGED answered

Answer(k) ==
  /\ outcome[k] # Undecided
  /\ answered' = answered \cup {[key |-> k, value |-> outcome[k]]}
  /\ UNCHANGED outcome

Next == \E k \in Keys : Answer(k) \/ \E v \in Values : Decide(k, v)

Spec == Init /\ [][Next]_vars
=============================================================================
