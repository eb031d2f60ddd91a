---------------------------- MODULE ReferenceSim ----------------------------
(***************************************************************************)
(* lifecore/sim/reference.py: step(pattern, n), the simulator every        *)
(* verdict rests on.  It copies the pattern into a finite grid with n + 1  *)
(* cells of padding, evolves the grid n times with rolls that wrap around  *)
(* its edges, and reads the live cells back in absolute coordinates.  That *)
(* this is life on the unbounded plane is what the refinement shows.       *)
(***************************************************************************)
EXTENDS Life

CONSTANTS
  Patterns,   \* the patterns that are evolved
  MaxN        \* bound: generations asked for in a call

ASSUME PatternsAssumption ==
  /\ Patterns \subseteq SUBSET (Int \X Int)
  /\ MaxN \in Nat

VARIABLES
  stage,     \* "called", "loop" or "done"
  pattern,   \* the pattern, absolute cells
  n,         \* the generations asked for
  box,       \* pattern.bbox
  grid,      \* the live cells of the array, as <<column, row>>
  gen,       \* passes through the loop
  result     \* what step returns

vars == <<stage, pattern, n, box, grid, gen, result>>

NoBox == [x0 |-> 0, y0 |-> 0, x1 |-> -1, y1 |-> -1]

Init ==
  /\ stage = "called"
  /\ pattern \in Patterns
  /\ n \in 0 .. MaxN
  /\ box = NoBox
  /\ grid = {}
  /\ gen = 0
  /\ result = {}

\* Mutant of Pad: the padding forgets the first generation.
PadShort == n - 1

Pad == n + 1

Columns == box.x1 - box.x0 + 1 + 2 * Pad
Rows == box.y1 - box.y0 + 1 + 2 * Pad
Array == (0 .. Columns - 1) \X (0 .. Rows - 1)

\* n == 0 or an empty pattern: the pattern itself.
ReturnSame ==
  /\ stage = "called"
  /\ n = 0 \/ pattern = {}
  /\ result' = pattern
  /\ stage' = "done"
  /\ UNCHANGED <<pattern, n, box, grid, gen>>

Xs == {c[1] : c \in pattern}
Ys == {c[2] : c \in pattern}
Boxes == [x0 : Xs, y0 : Ys, x1 : Xs, y1 : Ys]

\* The bounding box is read and the pattern copied into the zeroed array.
Place ==
  /\ stage = "called"
  /\ n > 0 /\ pattern # {}
  /\ \E b \in Boxes :
       /\ IsBBox(pattern, b)
       /\ box' = b
       /\ grid' = Translate(pattern, <<Pad - b.x0, Pad - b.y0>>)
  /\ stage' = "loop"
  /\ UNCHANGED <<pattern, n, gen, result>>

\* np.roll by one place: what leaves one edge enters at the other.
Wrapped(i, size) == IF i < 0 THEN i + size ELSE IF i >= size THEN i - size ELSE i

\* _neighbour_counts at a cell of the array
RolledCount(g) ==
  Cardinality({d \in Offsets :
    <<Wrapped(g[1] + d[1], Columns), Wrapped(g[2] + d[2], Rows)>> \in grid})

\* One pass of the loop: counts, then np.where.
Pass ==
  /\ stage = "loop" /\ gen < n
  /\ grid' = {g \in Array : Lives(g \in grid, RolledCount(g))}
  /\ gen' = gen + 1
  /\ UNCHANGED <<stage, pattern, n, box, result>>

\* Mutant of Absolute: the padding is not taken off again.
AbsolutePadded == Translate(grid, <<box.x0, box.y0>>)

\* The array, in absolute coordinates.
Absolute == Translate(grid, <<box.x0 - Pad, box.y0 - Pad>>)

\* np.nonzero, back in absolute coordinates
ReadBack ==
  /\ stage = "loop" /\ gen = n
  /\ result' = Absolute
  /\ stage' = "done"
  /\ UNCHANGED <<pattern, n, box, grid, gen>>

Next == ReturnSame \/ Place \/ Pass \/ ReadBack

Spec == Init /\ [][Next]_vars

---------------------------------------------------------------------------
(* Properties.                                                             *)

\* Every variable holds a value of its type; live cells lie within the array.
TypeOK ==
  /\ stage \in {"called", "loop", "done"}
  /\ pattern \in Patterns
  /\ n \in Nat /\ gen \in 0 .. n
  /\ box \in [x0 : Int, y0 : Int, x1 : Int, y1 : Int]
  /\ stage = "loop" => grid \subseteq Array
  /\ result \subseteq Int \X Int

\* "Growth of at most one cell per generation can never reach the border": no live cell
\* lies on an edge of the array, where the roll would wrap it around.
NeverAtBorder ==
  stage = "loop" =>
    \A g \in grid : g[1] \in 1 .. Columns - 2 /\ g[2] \in 1 .. Rows - 2

\* The pattern a caller sees evolving: the argument, the array, the value returned.
Seen ==
  CASE stage = "called" -> pattern
    [] stage = "loop" -> Absolute
    [] stage = "done" -> result

World == INSTANCE LifeWorld
           WITH cells <- Seen, age <- gen, goal <- n, answered <- (stage = "done")

\* The finite array evolves as the unbounded plane does, generation by generation, no
\* cell is moved or lost when it is placed and read back, and step returns the generation
\* it was asked for.
ImplementsLife == World!Spec
=============================================================================
