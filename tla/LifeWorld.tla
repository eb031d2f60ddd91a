----------------------------- MODULE LifeWorld -----------------------------
(***************************************************************************)
(* What reference.step promises: the generations of a pattern on the       *)
(* unbounded plane, one after the other, and an answer when the one that   *)
(* was asked for is reached, or at once if nothing is alive.               *)
(***************************************************************************)
EXTENDS Integers

CONSTANTS
  Patterns,
  Generation(_)   \* the generation that follows a set of live cells

VARIABLES
  cells,     \* the live cells
  age,       \* their generation
  goal,      \* the generation that was asked for
  answered   \* the caller has them

world == <<cells, age, goal, answered>>

Init ==
  /\ cells \in Patterns
  /\ age = 0
  /\ goal \in Nat
  /\ answered = FALSE

Evolve ==
  /\ ~answered /\ age < goal
  /\ cells' = Generation(cells)
  /\ age' = age + 1
  /\ UNCHANGED <<goal, answered>>

Answer ==
  /\ ~answered
  /\ age = goal \/ cells = {}
  /\ answered' = TRUE
  /\ UNCHANGED <<cells, age, goal>>

Next == Evolve \/ Answer

Spec == Init /\ [][Next]_world
=============================================================================
