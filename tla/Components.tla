----------------------------- MODULE Components -----------------------------
(***************************************************************************)
(* connected_components of lifecore/novelty/mdl.py: a pattern is split     *)
(* into its 8-connected components by flood fill from an arbitrary seed    *)
(* (set.pop), and the list of components is sorted.  It is called on the   *)
(* same pattern more than once, and an equal pattern may have been built   *)
(* in another order, so that set.pop starts elsewhere.                     *)
(*                                                                         *)
(* Abstracted: the stack of the flood fill is a set, since the order in    *)
(* which a component grows cannot be seen in the result; the order of the  *)
(* seeds is that of the list, and is kept.                                 *)
(***************************************************************************)
EXTENDS Integers, Sequences

CONSTANTS
  Patterns,   \* patterns that are split
  NotYet      \* no result so far

ASSUME PatternsAssumption ==
  /\ Patterns \subseteq SUBSET (Int \X Int)
  /\ NotYet \notin Seq(SUBSET (Int \X Int))

VARIABLES
  pc,
  pattern,
  remaining,    \* cells that no component has
  component,    \* the one that grows
  stack,        \* its cells whose neighbours are still to be looked at
  components,
  earlier       \* history: what the last call on this pattern returned

vars == <<pc, pattern, remaining, component, stack, components, earlier>>

Init ==
  /\ pc = "seed"
  /\ pattern \in Patterns
  /\ remaining = pattern
  /\ component = {}
  /\ stack = {}
  /\ components = << >>
  /\ earlier = NotYet

\* _NEIGHBOURS: the king's moves.
Adjacent(a, b) ==
  /\ a # b
  /\ a[1] - b[1] \in -1 .. 1
  /\ a[2] - b[2] \in -1 .. 1

Seed ==
  /\ pc = "seed"
  /\ \E seed \in remaining :
       /\ remaining' = remaining \ {seed}
       /\ component' = {seed}
       /\ stack' = {seed}
  /\ pc' = "grow"
  /\ UNCHANGED <<pattern, components, earlier>>

\* Mutant of Reached: _NEIGHBOURS without the diagonals.
ReachedStraight(c) == {n \in remaining : Adjacent(c, n) /\ (c[1] = n[1] \/ c[2] = n[2])}

Reached(c) == {n \in remaining : Adjacent(c, n)}

\* Mutant of Grow: a neighbour is pushed again each time it is seen.
GrowAgain ==
  /\ pc = "grow"
  /\ \E c \in stack :
       /\ component' = component \cup Reached(c)
       /\ stack' = (stack \ {c}) \cup {n \in component : Adjacent(c, n)} \cup Reached(c)
  /\ remaining' = remaining \ component'
  /\ UNCHANGED <<pc, pattern, components, earlier>>

Grow ==
  /\ pc = "grow"
  /\ \E c \in stack :
       /\ remaining' = remaining \ Reached(c)
       /\ component' = component \cup Reached(c)
       /\ stack' = (stack \ {c}) \cup Reached(c)
  /\ UNCHANGED <<pc, pattern, components, earlier>>

Finish ==
  /\ pc = "grow"
  /\ stack = {}
  /\ components' = Append(components, component)
  /\ component' = {}
  /\ pc' = "seed"
  /\ UNCHANGED <<pattern, remaining, stack, earlier>>

\* c.bbox[0], c.bbox[1]
Least(S) == CHOOSE m \in S : \A n \in S : m <= n
Corner(cells) == <<Least({c[1] : c \in cells}), Least({c[2] : c \in cells})>>

CornerBefore(a, b) ==
  /\ Corner(a) # Corner(b)
  /\ Corner(a)[1] <= Corner(b)[1]
  /\ Corner(a)[1] = Corner(b)[1] => Corner(a)[2] <= Corner(b)[2]

\* list.sort is stable: what has the same corner keeps its order.
IsStableSort(perm) ==
  /\ \A i \in DOMAIN components : \E k \in DOMAIN components : perm[k] = i
  /\ \A k, l \in DOMAIN components :
       k < l =>
         LET a == components[perm[k]]
             b == components[perm[l]]
         IN  CornerBefore(a, b) \/ (Corner(a) = Corner(b) /\ perm[k] < perm[l])

Sort ==
  /\ pc = "seed"
  /\ remaining = {}
  /\ \E perm \in [DOMAIN components -> DOMAIN components] :
       /\ IsStableSort(perm)
       /\ components' = [k \in DOMAIN components |-> components[perm[k]]]
  /\ pc' = "done"
  /\ UNCHANGED <<pattern, remaining, component, stack, earlier>>

\* classify and description_length split the same pattern again.
Again ==
  /\ pc = "done"
  /\ earlier = NotYet
  /\ earlier' = components
  /\ components' = << >>
  /\ remaining' = pattern
  /\ pc' = "seed"
  /\ UNCHANGED <<pattern, component, stack>>

Next == Seed \/ Grow \/ Finish \/ Sort \/ Again

Spec == Init /\ [][Next]_vars

---------------------------------------------------------------------------
(* Properties.                                                             *)

Lists == Seq(SUBSET (Int \X Int))

\* Every variable holds a value of its type; what is left and what was found are
\* cells of the pattern.
TypeOK ==
  /\ pc \in {"seed", "grow", "done"}
  /\ pattern \in SUBSET (Int \X Int)
  /\ remaining \in SUBSET pattern
  /\ component \in SUBSET pattern
  /\ stack \in SUBSET component
  /\ components \in Seq(SUBSET pattern)
  /\ earlier \in Lists \cup {NotYet}

Apart(A, B) == A \cap B = {} /\ \A a \in A, b \in B : ~Adjacent(a, b)

\* No cut of the cells leaves the two parts without a king's move between them.
Connected(cells) ==
  \A part \in SUBSET cells :
    (part # {} /\ part # cells) => \E a \in part, b \in cells \ part : Adjacent(a, b)

\* "maximal 8-connected components" (connected_components): whatever cell the fill
\* starts from, the list covers the pattern, each entry is connected, and no two
\* entries touch, so none could be larger.
MaximalComponents ==
  pc = "done" =>
    /\ \A c \in pattern : \E i \in DOMAIN components : c \in components[i]
    /\ \A i \in DOMAIN components : components[i] # {} /\ Connected(components[i])
    /\ \A i, j \in DOMAIN components : i # j => Apart(components[i], components[j])

---------------------------------------------------------------------------
(* What a comment says, and the code does not do.                          *)

\* "Components are returned sorted by their (xmin, ymin) for determinism": equal
\* patterns give equal lists.
SortedForDeterminism ==
  (pc = "done" /\ earlier # NotYet) => components = earlier
=============================================================================
