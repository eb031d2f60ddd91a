----------------------------- MODULE Life_proofs -----------------------------
(***************************************************************************)
(* Proofs about the evolution of patterns.  First ReferenceSim, for every  *)
(* rule, every set of finite or infinite patterns and any number of        *)
(* generations: with no birth on zero neighbours the array never wraps and *)
(* is life on the unbounded plane.  Then Verifier and Search, for every    *)
(* rule, every space of finite patterns, all specs and any age: what a     *)
(* verdict says, that it is on the object and not on the phase, and that   *)
(* the problem an adapter poses loses none of a spec's objects.            *)
(***************************************************************************)
EXTENDS ReferenceSim, Search, Shapes_proofs

---------------------------------------------------------------------------
(* Types.                                                                  *)

\* The array is at least as large as the padded bounding box.
LEMMA ArrayInPlane == Array \subseteq Plane
BY DEF Array, Plane

LEMMA PatternsInPlane == TypeOK => pattern \in SUBSET Plane
BY PatternsAssumption DEF TypeOK, Plane

\* Where the placing puts the pattern: at Pad from every edge.
LEMMA Placed ==
  ASSUME TypeOK, Place
  PROVE  /\ box' \in [x0 : Int, y0 : Int, x1 : Int, y1 : Int]
         /\ grid' = Translate(pattern, <<Pad - box'.x0, Pad - box'.y0>>)
         /\ \A c \in pattern : /\ box'.x0 <= c[1] /\ c[1] <= box'.x1
                               /\ box'.y0 <= c[2] /\ c[2] <= box'.y1
<1>1. PICK b \in Boxes :
        /\ IsBBox(pattern, b)
        /\ box' = b
        /\ grid' = Translate(pattern, <<Pad - b.x0, Pad - b.y0>>)
  BY DEF Place
<1>2. Xs \subseteq Int /\ Ys \subseteq Int
  BY PatternsInPlane, Coordinates DEF Xs, Ys
<1>3. b \in [x0 : Int, y0 : Int, x1 : Int, y1 : Int]
  BY <1>2 DEF Boxes
<1>4. QED  BY <1>1, <1>3 DEF IsBBox

\* The inductive invariant of the loop: after gen passes every live cell still keeps
\* n + 1 - gen cells away from each edge.
Margin ==
  stage = "loop" =>
    \A g \in grid : /\ g[1] \in (Pad - gen) .. (Columns - 1 - Pad + gen)
                   /\ g[2] \in (Pad - gen) .. (Rows - 1 - Pad + gen)

\* Every variable keeps its type in every reachable state.
THEOREM Typing == Spec => []TypeOK
<1>1. Init => TypeOK
  BY PatternsAssumption DEF Init, TypeOK, NoBox
<1>2. TypeOK /\ [Next]_vars => TypeOK'
  <2> SUFFICES ASSUME TypeOK, [Next]_vars PROVE TypeOK'
    OBVIOUS
  <2>1. CASE ReturnSame
    BY <2>1, PatternsInPlane DEF ReturnSame, TypeOK, Plane
  <2>2. CASE Place
    <3>1. UNCHANGED <<pattern, n, gen, result>> /\ stage' = "loop"
      BY <2>2 DEF Place
    <3>2. grid' \subseteq Array'
      <4> SUFFICES ASSUME NEW g \in grid' PROVE g \in Array'
        OBVIOUS
      <4>1. PICK c \in pattern : g = Shift(c, <<Pad - box'.x0, Pad - box'.y0>>)
        BY <2>2, Placed DEF Translate
      <4>2. c[1] \in Int /\ c[2] \in Int
        BY PatternsInPlane, Coordinates
      <4>3. /\ box'.x0 <= c[1] /\ c[1] <= box'.x1
            /\ box'.y0 <= c[2] /\ c[2] <= box'.y1
        BY <2>2, Placed
      <4>4. box'.x0 \in Int /\ box'.y0 \in Int /\ box'.x1 \in Int /\ box'.y1 \in Int
        BY <2>2, Placed
      <4>5. Pad' = Pad /\ Pad \in Nat
        BY <3>1 DEF Pad, TypeOK
      <4>6. /\ c[1] + (Pad - box'.x0) \in 0 .. Columns' - 1
            /\ c[2] + (Pad - box'.y0) \in 0 .. Rows' - 1
        BY <4>2, <4>3, <4>4, <4>5 DEF Columns, Rows
      <4>7. g = <<c[1] + (Pad - box'.x0), c[2] + (Pad - box'.y0)>>
        BY <4>1 DEF Shift
      <4>8. QED  BY <4>6, <4>7 DEF Array
    <3>3. QED  BY <2>2, <3>1, <3>2, Placed DEF TypeOK
  <2>3. CASE Pass
    BY <2>3 DEF Pass, TypeOK, Array, Columns, Rows, Pad
  <2>4. CASE ReadBack
    <3>1. grid \in SUBSET Plane /\ <<box.x0 - Pad, box.y0 - Pad>> \in Plane
      BY <2>4, ArrayInPlane DEF ReadBack, TypeOK, Plane, Pad
    <3>2. Absolute \subseteq Int \X Int
      BY <3>1, TranslateInPlane DEF Absolute, Plane
    <3>3. QED  BY <2>4, <3>2 DEF ReadBack, TypeOK
  <2>5. CASE UNCHANGED vars
    BY <2>5 DEF vars, TypeOK, Array, Columns, Rows, Pad
  <2>6. QED  BY <2>1, <2>2, <2>3, <2>4, <2>5 DEF Next
<1>3. QED  BY <1>1, <1>2, PTL DEF Spec

---------------------------------------------------------------------------
(* The array never wraps.                                                  *)

\* A cell that lives after a pass has a live cell around it: nothing is born on zero.
LEMMA Grows ==
  ASSUME TypeOK, 0 \notin Birth, NEW g \in Array, Lives(g \in grid, RolledCount(g))
  PROVE  \E d \in Around :
           <<Wrapped(g[1] + d[1], Columns), Wrapped(g[2] + d[2], Rows)>> \in grid
<1> DEFINE Beside(d) == <<Wrapped(g[1] + d[1], Columns), Wrapped(g[2] + d[2], Rows)>>
<1>1. CASE g \in grid
  <2>1. g[1] \in 0 .. Columns - 1 /\ g[2] \in 0 .. Rows - 1 /\ g = <<g[1], g[2]>>
    BY DEF Array
  <2>2. Beside(<<0, 0>>) = g
    <3>1. Columns \in Int /\ Rows \in Int
      BY DEF TypeOK, Columns, Rows, Pad
    <3>2. Wrapped(g[1] + 0, Columns) = g[1] /\ Wrapped(g[2] + 0, Rows) = g[2]
      BY <2>1, <3>1 DEF Wrapped
    <3>3. QED  BY <2>1, <3>2
  <2>3. QED  BY <1>1, <2>2, StayAround
<1>2. CASE g \notin grid
  <2>1. RolledCount(g) # 0
    BY <1>2 DEF Lives
  <2>2. {d \in Offsets : Beside(d) \in grid} # {}
    BY <2>1, FS_EmptySet DEF RolledCount
  <2>3. QED  BY <2>2, OffsetsInPlane
<1>3. QED  BY <1>1, <1>2

\* Within the margin a neighbour found by rolling is the neighbour on the plane.
LEMMA NoWrap ==
  ASSUME TypeOK, stage = "loop", NeverAtBorder, NEW g \in Array, NEW d \in Around
  PROVE  <<Wrapped(g[1] + d[1], Columns), Wrapped(g[2] + d[2], Rows)>> \in grid
           <=> Shift(g, d) \in grid
<1>1. g[1] \in 0 .. Columns - 1 /\ g[2] \in 0 .. Rows - 1
  BY DEF Array
<1>2. d[1] \in -1 .. 1 /\ d[2] \in -1 .. 1
  BY DEF Around
<1>3. Columns \in Int /\ Rows \in Int
  BY DEF TypeOK, Columns, Rows, Pad
<1>4. \A a, b : <<a, b>> \in grid => a \in 1 .. Columns - 2 /\ b \in 1 .. Rows - 2
  BY DEF NeverAtBorder
<1>5. Shift(g, d) = <<g[1] + d[1], g[2] + d[2]>>
  BY DEF Shift
<1>6. CASE g[1] + d[1] \in 0 .. Columns - 1 /\ g[2] + d[2] \in 0 .. Rows - 1
  <2>1. Wrapped(g[1] + d[1], Columns) = g[1] + d[1] /\ Wrapped(g[2] + d[2], Rows) = g[2] + d[2]
    BY <1>1, <1>2, <1>3, <1>6 DEF Wrapped
  <2>2. QED  BY <1>5, <2>1
<1>7. CASE g[1] + d[1] \notin 0 .. Columns - 1
  <2>1. Wrapped(g[1] + d[1], Columns) \notin 1 .. Columns - 2
    BY <1>1, <1>2, <1>3, <1>7 DEF Wrapped
  <2>2. g[1] + d[1] \notin 1 .. Columns - 2
    BY <1>1, <1>2, <1>3, <1>7
  <2>3. QED  BY <1>4, <1>5, <2>1, <2>2
<1>8. CASE g[2] + d[2] \notin 0 .. Rows - 1
  <2>1. Wrapped(g[2] + d[2], Rows) \notin 1 .. Rows - 2
    BY <1>1, <1>2, <1>3, <1>8 DEF Wrapped
  <2>2. g[2] + d[2] \notin 1 .. Rows - 2
    BY <1>1, <1>2, <1>3, <1>8
  <2>3. QED  BY <1>4, <1>5, <2>1, <2>2
<1>9. QED  BY <1>6, <1>7, <1>8

LEMMA MarginKeepsOff == TypeOK /\ Margin => NeverAtBorder
<1> SUFFICES ASSUME TypeOK, Margin, stage = "loop", NEW g \in grid
             PROVE  g[1] \in 1 .. Columns - 2 /\ g[2] \in 1 .. Rows - 2
  BY DEF NeverAtBorder
<1>1. Columns \in Int /\ Rows \in Int /\ n \in Nat /\ gen \in 0 .. n
  BY DEF TypeOK, Columns, Rows, Pad
<1>2. /\ g[1] \in (Pad - gen) .. (Columns - 1 - Pad + gen)
      /\ g[2] \in (Pad - gen) .. (Rows - 1 - Pad + gen)
  BY DEF Margin
<1>3. Pad = n + 1
  BY DEF Pad
<1>4. QED  BY <1>1, <1>2, <1>3

\* The margin shrinks by at most one in a pass.
LEMMA MarginStep ==
  ASSUME 0 \notin Birth, TypeOK, Margin, [Next]_vars
  PROVE  Margin'
<1>1. CASE Place
  <2> SUFFICES ASSUME NEW g \in grid'
               PROVE  /\ g[1] \in (Pad' - gen') .. (Columns' - 1 - Pad' + gen')
                      /\ g[2] \in (Pad' - gen') .. (Rows' - 1 - Pad' + gen')
    BY DEF Margin
  <2>1. PICK c \in pattern : g = Shift(c, <<Pad - box'.x0, Pad - box'.y0>>)
    BY <1>1, Placed DEF Translate
  <2>2. c[1] \in Int /\ c[2] \in Int
    BY PatternsInPlane, Coordinates
  <2>3. /\ box'.x0 <= c[1] /\ c[1] <= box'.x1
        /\ box'.y0 <= c[2] /\ c[2] <= box'.y1
    BY <1>1, Placed
  <2>4. box'.x0 \in Int /\ box'.y0 \in Int /\ box'.x1 \in Int /\ box'.y1 \in Int
    BY <1>1, Placed
  <2>5. Pad' = Pad /\ Pad \in Nat /\ gen' = gen /\ gen \in Nat
    BY <1>1 DEF Place, Pad, TypeOK
  <2>6. g[1] = c[1] + (Pad - box'.x0) /\ g[2] = c[2] + (Pad - box'.y0)
    BY <2>1 DEF Shift
  <2>7. QED  BY <2>2, <2>3, <2>4, <2>5, <2>6 DEF Columns, Rows
<1>2. CASE Pass
  <2>1. stage = "loop" /\ gen < n /\ gen' = gen + 1 /\ UNCHANGED <<n, box>>
    BY <1>2 DEF Pass
  <2>2. Pad' = Pad /\ Columns' = Columns /\ Rows' = Rows
    BY <2>1 DEF Pad, Columns, Rows
  <2>3. Columns \in Int /\ Rows \in Int /\ Pad \in Nat /\ gen \in Nat /\ n \in Nat
    BY DEF TypeOK, Columns, Rows, Pad
  <2> SUFFICES ASSUME NEW g \in grid'
               PROVE  /\ g[1] \in (Pad - gen - 1) .. (Columns - Pad + gen)
                      /\ g[2] \in (Pad - gen - 1) .. (Rows - Pad + gen)
    BY <2>1, <2>2, <2>3 DEF Margin
  <2>4. g \in Array /\ Lives(g \in grid, RolledCount(g))
    BY <1>2 DEF Pass
  <2>5. PICK d \in Around : Shift(g, d) \in grid
    BY <2>1, <2>4, Grows, NoWrap, MarginKeepsOff
  <2>6. /\ g[1] + d[1] \in (Pad - gen) .. (Columns - 1 - Pad + gen)
        /\ g[2] + d[2] \in (Pad - gen) .. (Rows - 1 - Pad + gen)
    BY <2>1, <2>5 DEF Margin, Shift
  <2>7. d[1] \in -1 .. 1 /\ d[2] \in -1 .. 1 /\ g[1] \in Int /\ g[2] \in Int
    BY <2>4 DEF Around, Array
  <2>8. QED  BY <2>3, <2>6, <2>7
<1>3. CASE ReturnSame \/ ReadBack
  BY <1>3 DEF ReturnSame, ReadBack, Margin
<1>4. CASE UNCHANGED vars
  BY <1>4 DEF vars, Margin, Columns, Rows, Pad
<1>5. QED  BY <1>1, <1>2, <1>3, <1>4 DEF Next

LEMMA MarginInvariant == ASSUME 0 \notin Birth PROVE Spec => []Margin
<1>1. Init => Margin
  BY DEF Init, Margin
<1>2. TypeOK /\ Margin /\ [Next]_vars => Margin'
  BY MarginStep
<1>3. QED  BY <1>1, <1>2, Typing, PTL DEF Spec

\* No live cell ever lies where a roll would wrap it to the other side of the array.
THEOREM Unclipped == ASSUME 0 \notin Birth PROVE Spec => []NeverAtBorder
<1>1. QED  BY MarginInvariant, Typing, MarginKeepsOff, PTL

---------------------------------------------------------------------------
(* The array evolves as the plane does.                                    *)

\* One pass of the array is one generation of the plane.
LEMMA PassIsGeneration ==
  ASSUME 0 \notin Birth, TypeOK, stage = "loop", NeverAtBorder
  PROVE  {g \in Array : Lives(g \in grid, RolledCount(g))} = Generation(grid)
<1>1. \A g \in Array : RolledCount(g) = Count(grid, g)
  <2> SUFFICES ASSUME NEW g \in Array PROVE RolledCount(g) = Count(grid, g)
    OBVIOUS
  <2>1. {d \in Offsets :
           <<Wrapped(g[1] + d[1], Columns), Wrapped(g[2] + d[2], Rows)>> \in grid}
          = {d \in Offsets : Shift(g, d) \in grid}
    BY NoWrap, OffsetsInPlane
  <2>2. QED  BY <2>1 DEF RolledCount, Count
<1>2. ASSUME NEW g \in Array, Lives(g \in grid, RolledCount(g)) PROVE g \in Generation(grid)
  <2>1. PICK d \in Around : Shift(g, d) \in grid
    BY <1>2, Grows, NoWrap
  <2>2. PICK e \in Around : e = <<-d[1], -d[2]>>
    BY Opposite
  <2>3. g \in Plane /\ d \in Plane /\ e \in Plane
    BY ArrayInPlane, OffsetsInPlane
  <2>4. g = Shift(Shift(g, d), e)
    BY <2>2, <2>3, ShiftUndo
  <2>5. Lives(g \in grid, Count(grid, g))
    BY <1>1, <1>2
  <2>6. QED  BY <2>1, <2>4, <2>5 DEF Generation
<1>3. ASSUME NEW g \in Generation(grid)
      PROVE  g \in Array /\ Lives(g \in grid, RolledCount(g))
  <2>1. PICK a \in grid, d \in Around : g = Shift(a, d)
    BY DEF Generation
  <2>2. a[1] \in 1 .. Columns - 2 /\ a[2] \in 1 .. Rows - 2
    BY <2>1 DEF NeverAtBorder
  <2>3. d[1] \in -1 .. 1 /\ d[2] \in -1 .. 1 /\ Columns \in Int /\ Rows \in Int
    BY DEF Around, TypeOK, Columns, Rows, Pad
  <2>4. a[1] + d[1] \in 0 .. Columns - 1 /\ a[2] + d[2] \in 0 .. Rows - 1
    BY <2>2, <2>3
  <2>5. g \in Array
    BY <2>1, <2>4 DEF Array, Shift
  <2>6. Lives(g \in grid, Count(grid, g))
    BY DEF Generation
  <2>7. QED  BY <1>1, <2>5, <2>6
<1>4. QED  BY <1>2, <1>3

\* A pass is seen as a generation.
LEMMA PassEvolves ==
  ASSUME 0 \notin Birth, TypeOK, NeverAtBorder, Pass
  PROVE  Seen' = Generation(Seen)
<1>1. stage = "loop" /\ stage' = "loop" /\ UNCHANGED <<n, box>>
  BY DEF Pass
<1>2. grid' = Generation(grid)
  BY <1>1, PassIsGeneration DEF Pass
<1>3. PICK v \in Plane : v = <<box.x0 - Pad, box.y0 - Pad>>
  <2>1. box.x0 \in Int /\ box.y0 \in Int /\ Pad \in Int
    BY DEF TypeOK, Pad
  <2>2. <<box.x0 - Pad, box.y0 - Pad>> \in Plane
    BY <2>1 DEF Plane
  <2>3. QED  BY <2>2
<1>4. Seen = Translate(grid, v)
  BY <1>1, <1>3 DEF Seen, Absolute
<1>5. Seen' = Translate(grid', v)
  BY <1>1, <1>3 DEF Seen, Absolute, Pad
<1>6. grid \in SUBSET Plane
  BY <1>1, ArrayInPlane DEF TypeOK
<1>7. Generation(Translate(grid, v)) = Translate(Generation(grid), v)
  BY <1>6, TranslatedGeneration
<1>8. QED  BY <1>2, <1>4, <1>5, <1>7

\* Placing a pattern is not seen.
LEMMA PlaceUnseen ==
  ASSUME TypeOK, Place
  PROVE  Seen' = Seen
<1>1. stage = "called" /\ stage' = "loop" /\ UNCHANGED <<pattern, n>>
  BY DEF Place
<1>i. box'.x0 \in Int /\ box'.y0 \in Int /\ Pad \in Int
  BY Placed DEF TypeOK, Pad
<1>2. PICK v \in Plane : v = <<Pad - box'.x0, Pad - box'.y0>>
  <2>1. <<Pad - box'.x0, Pad - box'.y0>> \in Plane
    BY <1>i DEF Plane
  <2>2. QED  BY <2>1
<1>3. PICK w \in Plane : w = <<box'.x0 - Pad, box'.y0 - Pad>>
  <2>1. <<box'.x0 - Pad, box'.y0 - Pad>> \in Plane
    BY <1>i DEF Plane
  <2>2. QED  BY <2>1
<1>4. w = <<-v[1], -v[2]>>
  BY <1>i, <1>2, <1>3
<1>5. grid' = Translate(pattern, v)
  BY <1>2, Placed
<1>6. Seen' = Translate(grid', w)
  BY <1>1, <1>3 DEF Seen, Absolute, Pad
<1>7. Translate(Translate(pattern, v), w) = pattern
  BY <1>4, PatternsInPlane, TranslateBack
<1>8. QED  BY <1>1, <1>5, <1>6, <1>7 DEF Seen

\* reference.step is life on the unbounded plane: every pass is one generation, the rest is
\* not seen, and the answer is the generation that was asked for.
THEOREM Refinement == ASSUME 0 \notin Birth PROVE Spec => ImplementsLife
<1>1. Init => World!Init
  BY DEF Init, World!Init, Seen
<1>2. TypeOK /\ NeverAtBorder /\ [Next]_vars => [World!Next]_World!world
  <2> SUFFICES ASSUME TypeOK, NeverAtBorder, [Next]_vars
               PROVE  World!Next \/ UNCHANGED World!world
    OBVIOUS
  <2>1. CASE ReturnSame
    <3>1. n = gen \/ Seen = {}
      BY <2>1 DEF ReturnSame, Seen, TypeOK
    <3>2. Seen' = Seen
      BY <2>1 DEF ReturnSame, Seen
    <3>3. QED  BY <2>1, <3>1, <3>2 DEF ReturnSame, World!Next, World!Answer
  <2>2. CASE Place
    BY <2>2, PlaceUnseen DEF Place, World!world
  <2>3. CASE Pass
    BY <2>3, PassEvolves DEF Pass, World!Next, World!Evolve
  <2>4. CASE ReadBack
    BY <2>4 DEF ReadBack, Seen, World!Next, World!Answer
  <2>5. CASE UNCHANGED vars
    BY <2>5 DEF vars, World!world, Seen, Absolute, Pad
  <2>6. QED  BY <2>1, <2>2, <2>3, <2>4, <2>5 DEF Next
<1>3. QED  BY <1>1, <1>2, Typing, Unclipped, PTL DEF Spec, World!Spec, ImplementsLife

---------------------------------------------------------------------------
(* How far an object can move.                                             *)

\* The rightmost and the lowest cell.
LEMMA FarEdges ==
  ASSUME NEW S \in Figures, S # {}
  PROVE  /\ \E a \in S : \A c \in S : c[1] <= a[1]
         /\ \E a \in S : \A c \in S : c[2] <= a[2]
<1>1. PICK b \in Nat : \A c \in S : c[1] \in -b .. b /\ c[2] \in -b .. b
  BY DEF Figures
<1> DEFINE X == {-c[1] : c \in S}
           Y == {-c[2] : c \in S}
           low == -b
<1>2. low \in Int /\ X \in SUBSET Int /\ X # {} /\ Y \in SUBSET Int /\ Y # {}
  BY <1>1
<1>3. (\A x \in X : low <= x) /\ (\A y \in Y : low <= y)
  BY <1>1
<1> HIDE DEF X, Y, low
<1>4. Min(X) \in X /\ \A x \in X : Min(X) <= x
  BY <1>2, <1>3, MinIs
<1>5. Min(Y) \in Y /\ \A y \in Y : Min(Y) <= y
  BY <1>2, <1>3, MinIs
<1>6. PICK a \in S : Min(X) = -a[1]
  BY <1>4 DEF X
<1>7. PICK e \in S : Min(Y) = -e[2]
  BY <1>5 DEF Y
<1>8. \A c \in S : -a[1] <= -c[1] /\ -e[2] <= -c[2]
  <2> TAKE c \in S
  <2>1. -c[1] \in X /\ -c[2] \in Y
    BY DEF X, Y
  <2> QED
    BY <1>4, <1>5, <1>6, <1>7, <2>1
<1>9. \A c \in S : c[1] <= a[1] /\ c[2] <= e[2]
  BY <1>1, <1>8
<1> QED
  BY <1>9

\* A cell that is alive has one that was alive within its light cone.
LEMMA LightCone ==
  ASSUME NEW S \in Figures, NEW k \in Nat, NEW c \in At(S, k)
  PROVE  \E a \in S : c[1] - a[1] \in -k .. k /\ c[2] - a[2] \in -k .. k
<1> DEFINE Reached(i) == \A e \in At(S, i) : \E a \in S : e[1] - a[1] \in -i .. i /\ e[2] - a[2] \in -i .. i
           T == {i \in Nat : Reached(i)}
<1>1. 0 \in T
  <2>1. At(S, 0) = S /\ \A e \in S : e[1] - e[1] \in 0 .. 0 /\ e[2] - e[2] \in 0 .. 0
    BY AtIs, FigureCells
  <2> QED
    BY <2>1
<1>2. ASSUME NEW i \in Nat, i \in T
      PROVE  i + 1 \in T
  <2> SUFFICES ASSUME NEW e \in At(S, i + 1)
               PROVE  \E a \in S : e[1] - a[1] \in -(i + 1) .. i + 1 /\ e[2] - a[2] \in -(i + 1) .. i + 1
    OBVIOUS
  <2>1. At(S, i + 1) = Generation(At(S, i)) /\ At(S, i) \in Figures
    BY AtIs
  <2>2. PICK b \in At(S, i), d \in Around : e = Shift(b, d)
    BY <2>1 DEF Generation
  <2>3. d[1] \in -1 .. 1 /\ d[2] \in -1 .. 1 /\ e[1] = b[1] + d[1] /\ e[2] = b[2] + d[2]
    BY <2>2 DEF Around, Shift
  <2>4. PICK a \in S : b[1] - a[1] \in -i .. i /\ b[2] - a[2] \in -i .. i
    BY <1>2
  <2>5. a[1] \in Int /\ a[2] \in Int /\ b[1] \in Int /\ b[2] \in Int
    BY <2>1, FigureCells
  <2> QED
    BY <2>3, <2>4, <2>5
<1> HIDE DEF T
<1>3. Nat \subseteq T
  BY <1>1, <1>2, Induction
<1> QED
  BY <1>3 DEF T

\* What reappears after k generations has moved by at most k cells either way.
LEMMA SpeedOfLight ==
  ASSUME NEW S \in Figures, S # {}, NEW v \in Plane, NEW k \in Nat, At(S, k) = Translate(S, v)
  PROVE  v[1] \in -k .. k /\ v[2] \in -k .. k
<1>1. v[1] \in Int /\ v[2] \in Int /\ \A c \in S : c[1] \in Int /\ c[2] \in Int
  BY FigureCells DEF Plane
<1>2. ASSUME NEW c \in S
      PROVE  \E a \in S : /\ c[1] + v[1] - a[1] \in -k .. k
                          /\ c[2] + v[2] - a[2] \in -k .. k
  <2> DEFINE e == Shift(c, v)
  <2>1. e \in At(S, k) /\ e[1] = c[1] + v[1] /\ e[2] = c[2] + v[2]
    BY DEF Translate, Shift
  <2> HIDE DEF e
  <2>2. PICK a \in S : e[1] - a[1] \in -k .. k /\ e[2] - a[2] \in -k .. k
    BY <2>1, LightCone
  <2> QED
    BY <1>1, <2>1, <2>2
<1>3. v[1] >= -k
  <2>1. PICK c \in S : c[1] = Left(S)
    BY Edges
  <2>2. PICK a \in S : c[1] + v[1] - a[1] \in -k .. k
    BY <1>2
  <2>3. c[1] <= a[1]
    BY <2>1, Edges
  <2> QED
    BY <1>1, <2>2, <2>3
<1>4. v[2] >= -k
  <2>1. PICK c \in S : c[2] = Top(S)
    BY Edges
  <2>2. PICK a \in S : c[2] + v[2] - a[2] \in -k .. k
    BY <1>2
  <2>3. c[2] <= a[2]
    BY <2>1, Edges
  <2> QED
    BY <1>1, <2>2, <2>3
<1>5. v[1] <= k
  <2>1. PICK c \in S : \A a \in S : a[1] <= c[1]
    BY FarEdges
  <2>2. PICK a \in S : c[1] + v[1] - a[1] \in -k .. k
    BY <1>2
  <2>3. a[1] <= c[1]
    BY <2>1
  <2> QED
    BY <1>1, <2>2, <2>3
<1>6. v[2] <= k
  <2>1. PICK c \in S : \A a \in S : a[2] <= c[2]
    BY FarEdges
  <2>2. PICK a \in S : c[2] + v[2] - a[2] \in -k .. k
    BY <1>2
  <2>3. a[2] <= c[2]
    BY <2>1
  <2> QED
    BY <1>1, <2>2, <2>3
<1> QED
  BY <1>1, <1>3, <1>4, <1>5, <1>6

---------------------------------------------------------------------------
(* The verdict on a spaceship, without its horizon.                        *)

\* The horizons of the verifier reach at least as far as both numbers.
LEMMA MaxOfTwo ==
  ASSUME NEW a \in Int, NEW b \in Int
  PROVE  Max({a, b}) \in Int /\ a <= Max({a, b}) /\ b <= Max({a, b})
<1>1. CASE a <= b
  <2>1. Max({a, b}) = b
    BY <1>1, MaxUnique
  <2> QED
    BY <1>1, <2>1
<1>2. CASE b <= a
  <2>1. Max({a, b}) = a
    BY <1>2, MaxUnique
  <2> QED
    BY <1>2, <2>1
<1> QED
  BY <1>1, <1>2

\* What the search for a least period returns.
LEMMA LeastIs ==
  ASSUME NEW Q \in SUBSET Nat, NEW p \in Nat
  PROVE  Least(Q) = p <=> p \in Q /\ \A q \in Q : p <= q
<1>1. ASSUME Least(Q) = p
      PROVE  p \in Q /\ \A q \in Q : p <= q
  <2>1. Q # {}
    BY <1>1, VerifierAssumption DEF Least, VerifierAssumption
  <2>2. 0 \in Int /\ Q \in SUBSET Int /\ \A q \in Q : 0 <= q
    OBVIOUS
  <2>3. Min(Q) \in Q /\ \A q \in Q : Min(Q) <= q
    BY <2>1, <2>2, MinIs
  <2> QED
    BY <1>1, <2>1, <2>3 DEF Least
<1>2. ASSUME p \in Q, \A q \in Q : p <= q
      PROVE  Least(Q) = p
  <2>1. Q \in SUBSET Int
    OBVIOUS
  <2>2. Min(Q) = p
    BY <1>2, <2>1, MinUnique
  <2> QED
    BY <1>2, <2>2 DEF Least
<1> QED
  BY <1>1, <1>2

\* No residual means that the two are the same.
LEMMA NoResidual ==
  ASSUME NEW a, NEW b
  PROVE  Residual(a, b) = {} <=> a = b
BY DEF Residual

\* The translate period of a figure is p when its shape recurs then, and not before.
LEMMA TranslateMinimal ==
  ASSUME NEW S \in Figures, NEW h \in Nat, NEW p \in 1 .. h
  PROVE  TranslatePeriod(Generations(S, h), h) = p
           <=> Recurs(S, p) /\ \A q \in 1 .. p - 1 : ~Recurs(S, q)
<1> DEFINE g == Generations(S, h)
           Q == {q \in 1 .. h : Normalized(g[q + 1]) = Normalized(g[1])}
<1>1. g[1] = S
  BY GenerationsAre
<1>2. \A q \in 1 .. h : g[q + 1] = At(S, q)
  BY GenerationsAgree
<1>3. TranslatePeriod(g, h) = Least(Q)
  BY DEF TranslatePeriod
<1> HIDE DEF g
<1>4. \A q \in 1 .. h : q \in Q <=> Recurs(S, q)
  BY <1>1, <1>2 DEF Recurs
<1>5. Q \in SUBSET (1 .. h) /\ Q \in SUBSET Nat /\ p \in Nat
  OBVIOUS
<1> HIDE DEF Q
<1>6. Least(Q) = p <=> p \in Q /\ \A q \in Q : p <= q
  BY <1>5, LeastIs
<1>7. (\A q \in Q : p <= q) <=> \A q \in 1 .. p - 1 : q \notin Q
  BY <1>5
<1>8. (\A q \in 1 .. p - 1 : q \notin Q) <=> \A q \in 1 .. p - 1 : ~Recurs(S, q)
  <2>1. \A q \in 1 .. p - 1 : q \in 1 .. h
    OBVIOUS
  <2> QED
    BY <1>4, <2>1
<1> QED
  BY <1>3, <1>4, <1>6, <1>7, <1>8 DEF g

\* An object that reappears p generations on, moved by v, does so again after p more.
LEMMA AgainAndAgain ==
  ASSUME NEW S \in Figures, NEW p \in Nat, NEW v \in Plane, At(S, p) = Translate(S, v)
  PROVE  At(S, 2 * p) = Translate(S, Times(2, v))
<1>1. At(S, p + p) = At(Translate(S, v), p) /\ p + p = 2 * p
  BY AtAdds
<1>2. At(Translate(S, v), p) = Translate(Translate(S, v), v)
  BY AtMoves
<1>3. Translate(Translate(S, v), v) = Translate(S, Shift(v, v))
  BY FigureCells, TranslateTwice
<1>4. Shift(v, v) = Times(2, v)
  <2>1. v[1] \in Int /\ v[2] \in Int
    BY DEF Plane
  <2>2. v[1] + v[1] = 2 * v[1] /\ v[2] + v[2] = 2 * v[2]
    BY <2>1
  <2> QED
    BY <2>2 DEF Shift, Times
<1> QED
  BY <1>1, <1>2, <1>3, <1>4

\* A spaceship passes when it reappears where it is to be, its shape never before.
LEMMA ShipPassesWhen ==
  ASSUME NEW S \in Figures, NEW s, s.period \in Nat \ {0}, s.displacement \in Plane
  PROVE  ShipPasses(S, s) <=>
           /\ S # {} /\ At(S, s.period) = Translate(S, s.displacement)
           /\ \A q \in 1 .. s.period - 1 : ~Recurs(S, q)
<1> DEFINE p == s.period
           v == s.displacement
           h == Max({4 * p, p + 4})
           g == Generations(S, h)
<1>1. h \in Nat /\ 4 * p <= h /\ p \in 1 .. h /\ 2 * p \in 0 .. h /\ p \in Nat \ {0}
  <2>1. 4 * p \in Int /\ p + 4 \in Int
    OBVIOUS
  <2>2. h \in Int /\ 4 * p <= h
    BY <2>1, MaxOfTwo
  <2> QED
    BY <2>2
<1>2. ShipPasses(S, s) <=>
        /\ S # {}
        /\ TranslatePeriod(g, h) = p
        /\ TranslationAt(g, p) = v
        /\ Residual(g[p + 1], Translate(S, v)) = {}
        /\ g[2 * p + 1] = Translate(S, Times(2, v))
  BY DEF ShipPasses
<1> HIDE DEF h
<1>3. g[1] = S /\ g[p + 1] = At(S, p) /\ g[2 * p + 1] = At(S, 2 * p)
  <2>1. g[1] = S
    BY <1>1, GenerationsAre
  <2>2. p \in 0 .. h
    BY <1>1
  <2> HIDE DEF p
  <2> QED
    BY <1>1, <2>1, <2>2, GenerationsAgree
<1>4. TranslatePeriod(g, h) = p <=> Recurs(S, p) /\ \A q \in 1 .. p - 1 : ~Recurs(S, q)
  BY <1>1, TranslateMinimal
<1>5. Residual(g[p + 1], Translate(S, v)) = {} <=> At(S, p) = Translate(S, v)
  BY <1>3, NoResidual
<1>6. ASSUME S # {}, At(S, p) = Translate(S, v)
      PROVE  /\ Recurs(S, p) /\ TranslationAt(g, p) = v
             /\ g[2 * p + 1] = Translate(S, Times(2, v))
  <2>1. Recurs(S, p)
    BY <1>6, ShapeMoves DEF Recurs
  <2>2. TranslationAt(g, p) = <<Left(Translate(S, v)) - Left(S), Top(Translate(S, v)) - Top(S)>>
    BY <1>3, <1>6 DEF TranslationAt
  <2>3. Left(S) \in Int /\ Top(S) \in Int /\ v[1] \in Int /\ v[2] \in Int /\ v = <<v[1], v[2]>>
    BY <1>6, Edges, Coordinates
  <2>4. Left(Translate(S, v)) = Left(S) + v[1] /\ Top(Translate(S, v)) = Top(S) + v[2]
    BY <1>6, EdgesMove
  <2>5. (Left(S) + v[1]) - Left(S) = v[1] /\ (Top(S) + v[2]) - Top(S) = v[2]
    BY <2>3
  <2>6. TranslationAt(g, p) = v
    BY <2>2, <2>3, <2>4, <2>5
  <2>7. At(S, 2 * p) = Translate(S, Times(2, v))
    BY <1>1, <1>6, AgainAndAgain
  <2> QED
    BY <1>3, <2>1, <2>6, <2>7
<1> HIDE DEF g, p, v
<1>7. ASSUME ShipPasses(S, s)
      PROVE  S # {} /\ At(S, p) = Translate(S, v) /\ \A q \in 1 .. p - 1 : ~Recurs(S, q)
  BY <1>2, <1>4, <1>5, <1>7
<1>8. ASSUME S # {}, At(S, p) = Translate(S, v), \A q \in 1 .. p - 1 : ~Recurs(S, q)
      PROVE  ShipPasses(S, s)
  BY <1>2, <1>4, <1>5, <1>6, <1>8
<1> QED
  BY <1>7, <1>8 DEF p, v

\* One that passes passes in its next generation, and one that reappears passes if its
\* next generation does.
LEMMA ShipNext ==
  ASSUME NEW S \in Figures, NEW s, s.period \in Nat \ {0}, s.displacement \in Plane
  PROVE  /\ ShipPasses(S, s) => ShipPasses(Generation(S), s)
         /\ S # {} /\ At(S, s.period) = Translate(S, s.displacement) /\ ShipPasses(Generation(S), s)
              => ShipPasses(S, s)
<1> DEFINE p == s.period
           v == s.displacement
           N == Generation(S)
<1>1. N \in Figures /\ N = At(S, 1) /\ p \in Nat \ {0} /\ v \in Plane
  BY GenerationFigure, AtOne
<1>2. \A i \in Nat : At(N, i) = At(S, i + 1) /\ At(N, i) = Generation(At(S, i)) /\ At(S, i) \in Figures
  <2> TAKE i \in Nat
  <2>1. At(At(S, 1), i) = At(S, 1 + i)
    BY AtAdds
  <2>2. 1 + i = i + 1
    OBVIOUS
  <2> QED
    BY <1>1, <2>1, <2>2, AtIs
<1>3. /\ ShipPasses(S, s) <=> /\ S # {} /\ At(S, p) = Translate(S, v)
                              /\ \A q \in 1 .. p - 1 : ~Recurs(S, q)
      /\ ShipPasses(N, s) <=> /\ N # {} /\ At(N, p) = Translate(N, v)
                              /\ \A q \in 1 .. p - 1 : ~Recurs(N, q)
  BY <1>1, ShipPassesWhen
<1> HIDE DEF p, v, N
<1>4. ASSUME S # {}, At(S, p) = Translate(S, v)
      PROVE  N # {} /\ At(N, p) = Translate(N, v)
  <2>1. At(N, p) = Translate(N, v)
    <3>1. Generation(Translate(S, v)) = Translate(Generation(S), v)
      BY <1>1, FigureCells, TranslatedGeneration
    <3> QED
      BY <1>1, <1>2, <1>4, <3>1 DEF N
  <2>2. ASSUME N = {}
        PROVE  FALSE
    <3>1. p - 1 \in Nat /\ (p - 1) + 1 = p
      BY <1>1
    <3>2. At(S, p) = At(N, p - 1)
      BY <1>2, <3>1
    <3>3. At(S, p) = {}
      BY <2>2, <3>1, <3>2, AtEmpty
    <3> QED
      BY <1>4, <3>3, TranslateEmpty
  <2> QED
    BY <2>1, <2>2
<1>5. ASSUME S # {}, At(S, p) = Translate(S, v), NEW q \in 1 .. p - 1
      PROVE  Recurs(N, q) <=> Recurs(S, q)
  <2>1. q \in Nat /\ p \in Nat /\ At(S, q) \in Figures /\ At(N, q) \in Figures
    BY <1>1, AtIs
  <2>2. ASSUME Recurs(S, q)
        PROVE  Recurs(N, q)
    <3>1. PICK w \in Plane : At(S, q) = Translate(S, w)
      BY <1>5, <2>1, <2>2, SameShape DEF Recurs
    <3>2. At(N, q) = Translate(N, w)
      <4>1. Generation(Translate(S, w)) = Translate(Generation(S), w)
        BY FigureCells, TranslatedGeneration
      <4> QED
        BY <1>2, <2>1, <3>1, <4>1 DEF N
    <3> QED
      BY <1>1, <3>2, ShapeMoves DEF Recurs
  <2>3. ASSUME Recurs(N, q)
        PROVE  Recurs(S, q)
    <3>1. N # {}
      BY <1>4, <1>5
    <3>2. PICK w \in Plane : At(N, q) = Translate(N, w)
      BY <1>1, <2>1, <2>3, <3>1, SameShape DEF Recurs
    \* p - 1 generations later
    <3>3. At(At(N, q), p - 1) = Translate(Translate(S, v), w)
      <4>1. p - 1 \in Nat /\ (p - 1) + 1 = p
        BY <1>1
      <4>2. At(Translate(N, w), p - 1) = Translate(At(N, p - 1), w)
        BY <1>1, <4>1, AtMoves
      <4>3. At(N, p - 1) = Translate(S, v)
        BY <1>2, <1>5, <4>1
      <4> QED
        BY <3>2, <4>2, <4>3
    <3>4. At(At(N, q), p - 1) = Translate(At(S, q), v)
      <4>1. p - 1 \in Nat /\ q + (p - 1) \in Nat /\ (q + (p - 1)) + 1 = p + q
        BY <1>1, <2>1
      <4>2. At(At(N, q), p - 1) = At(N, q + (p - 1))
        BY <1>1, <2>1, <4>1, AtAdds
      <4>3. At(N, q + (p - 1)) = At(S, p + q)
        BY <1>2, <4>1
      <4>4. At(S, p + q) = At(Translate(S, v), q)
        BY <1>5, <2>1, AtAdds
      <4>5. At(Translate(S, v), q) = Translate(At(S, q), v)
        BY <1>1, <2>1, AtMoves
      <4> QED
        BY <4>2, <4>3, <4>4, <4>5
    <3>5. /\ Normalized(Translate(At(S, q), v)) = Normalized(At(S, q))
          /\ Normalized(Translate(Translate(S, v), w)) = Normalized(Translate(S, v))
          /\ Normalized(Translate(S, v)) = Normalized(S)
      BY <1>1, <2>1, TranslateFigure, ShapeMoves
    <3> QED
      BY <3>3, <3>4, <3>5 DEF Recurs
  <2> QED
    BY <2>2, <2>3
<1>6. ASSUME ShipPasses(S, s)
      PROVE  ShipPasses(N, s)
  BY <1>3, <1>4, <1>5, <1>6
<1>7. ASSUME S # {}, At(S, p) = Translate(S, v), ShipPasses(N, s)
      PROVE  ShipPasses(S, s)
  BY <1>3, <1>5, <1>7
<1> QED
  BY <1>6, <1>7 DEF N, p, v

---------------------------------------------------------------------------
(* The verdict on an oscillator.                                           *)

\* What is back after p generations is in the phase that the number of generations leaves.
LEMMA Phases ==
  ASSUME NEW S \in Figures, NEW p \in Nat \ {0}, At(S, p) = S, NEW k \in Nat
  PROVE  k % p \in 0 .. p - 1 /\ At(S, k % p) = At(S, k)
<1> DEFINE r == k % p
           m == k \div p
           T == {j \in Nat : At(S, p * j + r) = At(S, r)}
<1>1. r \in 0 .. p - 1 /\ r \in Nat /\ m \in Nat /\ k = p * m + r
  OBVIOUS
<1> HIDE DEF r, m
<1>2. 0 \in T
  <2>1. p * 0 + r = r
    BY <1>1
  <2> QED
    BY <2>1
<1>3. ASSUME NEW j \in Nat, j \in T
      PROVE  j + 1 \in T
  <2>1. p * j \in Nat /\ p * (j + 1) = p + p * j
    OBVIOUS
  <2> DEFINE a == p * j
  <2>2. a \in Nat /\ a + r \in Nat /\ p * (j + 1) + r = p + (a + r)
    BY <1>1, <2>1
  <2> HIDE DEF a
  <2>3. At(S, p + (a + r)) = At(At(S, p), a + r)
    BY <2>2, AtAdds
  <2>4. At(S, a + r) = At(S, r)
    BY <1>3 DEF a
  <2> QED
    BY <2>2, <2>3, <2>4
<1> HIDE DEF T
<1>4. Nat \subseteq T
  BY <1>2, <1>3, Induction
<1>5. At(S, p * m + r) = At(S, r)
  BY <1>1, <1>4 DEF T
<1> QED
  BY <1>1, <1>5 DEF r

\* Some cell has no period that is a proper divisor of p, over all generations.
HasFullCell(S, p) ==
  \E cell \in Plane :
    \A d \in 1 .. p - 1 :
      p % d = 0 => \E k \in Nat : (cell \in At(S, k)) # (cell \in At(S, k + d))

\* The test on a window of p phases is the test on all generations.
LEMMA FullCells ==
  ASSUME NEW S \in Figures, NEW p \in Nat, p >= 2, At(S, p) = S, NEW h \in Nat, p <= h
  PROVE  FullPeriodCell(Generations(S, h), p) <=> HasFullCell(S, p)
<1> DEFINE g == Generations(S, h)
<1>1. p \in Nat \ {0} /\ \A i \in 0 .. p - 1 : i \in 0 .. h
  OBVIOUS
<1>2. \A i \in 0 .. p - 1 : g[i + 1] = At(S, i)
  BY <1>1, GenerationsAgree
<1>3. FullPeriodCell(g, p) <=>
        \E cell \in UNION {g[k] : k \in 1 .. p} :
          \A d \in 1 .. p - 1 :
            p % d = 0 =>
              \E k \in 0 .. p - 1 : (cell \in g[k + 1]) # (cell \in g[((k + d) % p) + 1])
  BY DEF FullPeriodCell
<1> HIDE DEF g
<1>4. \A k \in Nat : k % p \in 0 .. p - 1 /\ At(S, k % p) = At(S, k) /\ At(S, k) = g[(k % p) + 1]
  <2> TAKE k \in Nat
  <2>1. k % p \in 0 .. p - 1 /\ At(S, k % p) = At(S, k)
    BY <1>1, Phases
  <2> QED
    BY <1>2, <2>1
<1>5. \A k \in 0 .. p - 1, d \in 1 .. p - 1 :
        k \in Nat /\ k + d \in Nat /\ At(S, k) = g[k + 1] /\ At(S, k + d) = g[((k + d) % p) + 1]
  <2> TAKE k \in 0 .. p - 1, d \in 1 .. p - 1
  <2>1. k \in Nat /\ k + d \in Nat
    OBVIOUS
  <2> QED
    BY <1>2, <1>4, <2>1
<1>6. ASSUME FullPeriodCell(g, p)
      PROVE  HasFullCell(S, p)
  <2>1. PICK cell \in UNION {g[k] : k \in 1 .. p} :
          \A d \in 1 .. p - 1 :
            p % d = 0 =>
              \E k \in 0 .. p - 1 : (cell \in g[k + 1]) # (cell \in g[((k + d) % p) + 1])
    BY <1>3, <1>6
  <2>2. cell \in Plane
    <3>1. PICK k \in 1 .. p : cell \in g[k]
      BY <2>1
    <3>2. k - 1 \in 0 .. p - 1 /\ (k - 1) + 1 = k /\ k - 1 \in Nat
      OBVIOUS
    <3>3. g[k] = At(S, k - 1) /\ At(S, k - 1) \in Figures
      BY <1>2, <3>2, AtIs
    <3> QED
      BY <3>1, <3>3, FigureCells
  <2>3. ASSUME NEW d \in 1 .. p - 1, p % d = 0
        PROVE  \E k \in Nat : (cell \in At(S, k)) # (cell \in At(S, k + d))
    <3>1. PICK k \in 0 .. p - 1 : (cell \in g[k + 1]) # (cell \in g[((k + d) % p) + 1])
      BY <2>1, <2>3
    <3> QED
      BY <1>5, <3>1
  <2> QED
    BY <2>2, <2>3 DEF HasFullCell
<1>7. ASSUME HasFullCell(S, p)
      PROVE  FullPeriodCell(g, p)
  <2>1. PICK cell \in Plane :
          \A d \in 1 .. p - 1 :
            p % d = 0 => \E k \in Nat : (cell \in At(S, k)) # (cell \in At(S, k + d))
    BY <1>7 DEF HasFullCell
  <2>2. cell \in UNION {g[k] : k \in 1 .. p}
    <3>1. 1 \in 1 .. p - 1 /\ p % 1 = 0
      OBVIOUS
    <3>2. PICK k \in Nat : (cell \in At(S, k)) # (cell \in At(S, k + 1))
      BY <2>1, <3>1
    <3>3. PICK j \in Nat : cell \in At(S, j)
      <4>1. k + 1 \in Nat
        OBVIOUS
      <4> QED
        BY <3>2, <4>1
    <3>4. j % p \in 0 .. p - 1 /\ cell \in g[(j % p) + 1]
      BY <1>4, <3>3
    <3>5. (j % p) + 1 \in 1 .. p
      BY <3>4
    <3> QED
      BY <3>4, <3>5
  <2>3. ASSUME NEW d \in 1 .. p - 1, p % d = 0
        PROVE  \E k \in 0 .. p - 1 : (cell \in g[k + 1]) # (cell \in g[((k + d) % p) + 1])
    <3>1. PICK k \in Nat : (cell \in At(S, k)) # (cell \in At(S, k + d))
      BY <2>1, <2>3
    <3> DEFINE r == k % p
    <3>2. r \in 0 .. p - 1 /\ r \in Nat /\ At(S, r) = At(S, k)
      <4>1. r \in 0 .. p - 1 /\ At(S, r) = At(S, k)
        BY <1>4
      <4> HIDE DEF r
      <4>2. r \in Nat
        BY <4>1
      <4> QED
        BY <4>1, <4>2
    <3> HIDE DEF r
    <3>3. At(S, r + d) = At(S, k + d)
      <4>1. At(S, r + d) = At(At(S, r), d)
        BY <3>2, AtAdds
      <4>2. At(S, k + d) = At(At(S, k), d)
        BY AtAdds
      <4> QED
        BY <3>2, <4>1, <4>2
    <3>4. At(S, r) = g[r + 1] /\ At(S, r + d) = g[((r + d) % p) + 1]
      BY <1>5, <3>2
    <3> QED
      BY <3>1, <3>2, <3>3, <3>4
  <2> QED
    BY <1>3, <2>2, <2>3
<1> QED
  BY <1>6, <1>7 DEF g

\* The next generation of what comes back has the same cells of full period.
LEMMA FullCellNext ==
  ASSUME NEW S \in Figures, NEW p \in Nat \ {0}, At(S, p) = S
  PROVE  HasFullCell(Generation(S), p) <=> HasFullCell(S, p)
<1> DEFINE N == Generation(S)
<1>1. \A k \in Nat : At(N, k) = At(S, k + 1)
  <2> TAKE k \in Nat
  <2>1. N = At(S, 1) /\ At(At(S, 1), k) = At(S, 1 + k) /\ 1 + k = k + 1
    BY AtOne, AtAdds
  <2> QED
    BY <2>1
<1> HIDE DEF N
<1>2. \A k \in Nat : k + (p - 1) \in Nat /\ At(N, k + (p - 1)) = At(S, k)
  <2> TAKE k \in Nat
  <2>1. k + (p - 1) \in Nat /\ (k + (p - 1)) + 1 = p + k
    OBVIOUS
  <2>2. At(S, p + k) = At(S, k)
    BY AtAdds
  <2> QED
    BY <1>1, <2>1, <2>2
<1>3. ASSUME NEW cell, NEW d \in 1 .. p - 1
      PROVE  (\E k \in Nat : (cell \in At(N, k)) # (cell \in At(N, k + d)))
               <=> (\E k \in Nat : (cell \in At(S, k)) # (cell \in At(S, k + d)))
  <2>1. ASSUME NEW k \in Nat, (cell \in At(N, k)) # (cell \in At(N, k + d))
        PROVE  \E j \in Nat : (cell \in At(S, j)) # (cell \in At(S, j + d))
    <3>1. k + 1 \in Nat /\ k + d \in Nat /\ (k + d) + 1 = (k + 1) + d
      OBVIOUS
    <3>2. At(N, k) = At(S, k + 1) /\ At(N, k + d) = At(S, (k + 1) + d)
      BY <1>1, <3>1
    <3> QED
      BY <2>1, <3>1, <3>2
  <2>2. ASSUME NEW k \in Nat, (cell \in At(S, k)) # (cell \in At(S, k + d))
        PROVE  \E j \in Nat : (cell \in At(N, j)) # (cell \in At(N, j + d))
    <3>1. k + (p - 1) \in Nat /\ k + d \in Nat /\ (k + d) + (p - 1) = (k + (p - 1)) + d
      OBVIOUS
    <3>2. At(S, k) = At(N, k + (p - 1)) /\ At(S, k + d) = At(N, (k + (p - 1)) + d)
      BY <1>2, <3>1
    <3> QED
      BY <2>2, <3>1, <3>2
  <2> QED
    BY <2>1, <2>2
<1> DEFINE Differs(T, cell, d) == \E k \in Nat : (cell \in At(T, k)) # (cell \in At(T, k + d))
<1>4. \A T : HasFullCell(T, p) <=>
        \E cell \in Plane : \A d \in 1 .. p - 1 : p % d = 0 => Differs(T, cell, d)
  BY DEF HasFullCell
<1>5. \A cell \in Plane, d \in 1 .. p - 1 : Differs(N, cell, d) <=> Differs(S, cell, d)
  BY <1>3
<1> HIDE DEF Differs
<1>6. HasFullCell(N, p) <=> HasFullCell(S, p)
  BY <1>4, <1>5
<1> QED
  BY <1>6 DEF N

\* The stationary period is p when the figure is back then, and not before.
LEMMA StationaryMinimal ==
  ASSUME NEW S \in Figures, NEW h \in Nat, NEW p \in 1 .. h
  PROVE  StationaryPeriod(Generations(S, h), h) = p
           <=> At(S, p) = S /\ \A q \in 1 .. p - 1 : At(S, q) # S
<1> DEFINE g == Generations(S, h)
           Q == {q \in 1 .. h : g[q + 1] = g[1]}
<1>1. g[1] = S
  BY GenerationsAre
<1>2. \A q \in 1 .. h : g[q + 1] = At(S, q)
  BY GenerationsAgree
<1>3. StationaryPeriod(g, h) = Least(Q)
  BY DEF StationaryPeriod
<1> HIDE DEF g
<1>4. \A q \in 1 .. h : q \in Q <=> At(S, q) = S
  BY <1>1, <1>2
<1>5. Q \in SUBSET (1 .. h) /\ Q \in SUBSET Nat /\ p \in Nat
  OBVIOUS
<1> HIDE DEF Q
<1>6. Least(Q) = p <=> p \in Q /\ \A q \in Q : p <= q
  BY <1>5, LeastIs
<1>7. (\A q \in Q : p <= q) <=> \A q \in 1 .. p - 1 : q \notin Q
  BY <1>5
<1>8. (\A q \in 1 .. p - 1 : q \notin Q) <=> \A q \in 1 .. p - 1 : At(S, q) # S
  <2>1. \A q \in 1 .. p - 1 : q \in 1 .. h
    OBVIOUS
  <2> QED
    BY <1>4, <2>1
<1> QED
  BY <1>3, <1>4, <1>6, <1>7, <1>8 DEF g

\* An oscillator passes when it is back at its period and never before, and has a cell
\* of that period.
LEMMA OscillatorPassesWhen ==
  ASSUME NEW S \in Figures, NEW s, s.period \in Nat, s.period >= 2
  PROVE  OscillatorPasses(S, s) <=>
           /\ S # {} /\ At(S, s.period) = S
           /\ \A q \in 1 .. s.period - 1 : At(S, q) # S
           /\ HasFullCell(S, s.period)
<1> DEFINE p == s.period
           h == Max({2 * p, p + 4})
           g == Generations(S, h)
<1>1. h \in Nat /\ 2 * p <= h /\ p \in 1 .. h /\ 2 * p \in 0 .. h /\ p \in 0 .. h /\ p <= h
      /\ p \in Nat /\ p >= 2
  <2>1. 2 * p \in Int /\ p + 4 \in Int
    OBVIOUS
  <2>2. h \in Int /\ 2 * p <= h
    BY <2>1, MaxOfTwo
  <2> QED
    BY <2>2
<1>2. OscillatorPasses(S, s) <=>
        /\ S # {}
        /\ Residual(g[p + 1], S) = {}
        /\ StationaryPeriod(g, h) = p
        /\ FullPeriodCell(g, p)
        /\ g[2 * p + 1] = S
  BY DEF OscillatorPasses
<1> HIDE DEF h
<1>3. g[p + 1] = At(S, p) /\ g[2 * p + 1] = At(S, 2 * p)
  <2> HIDE DEF p
  <2> QED
    BY <1>1, GenerationsAgree
<1>4. StationaryPeriod(g, h) = p <=> At(S, p) = S /\ \A q \in 1 .. p - 1 : At(S, q) # S
  BY <1>1, StationaryMinimal
<1>5. Residual(g[p + 1], S) = {} <=> At(S, p) = S
  BY <1>3, NoResidual
<1>6. ASSUME At(S, p) = S
      PROVE  /\ g[2 * p + 1] = S
             /\ FullPeriodCell(g, p) <=> HasFullCell(S, p)
  <2>1. FullPeriodCell(g, p) <=> HasFullCell(S, p)
    <3> HIDE DEF p, g
    <3>1. p \in Nat /\ p >= 2 /\ h \in Nat /\ p <= h
      BY <1>1
    <3>2. FullPeriodCell(Generations(S, h), p) <=> HasFullCell(S, p)
      BY <1>6, <3>1, FullCells
    <3> QED
      BY <3>2 DEF g
  <2>2. At(S, p + p) = At(At(S, p), p) /\ p + p = 2 * p
    <3> HIDE DEF p
    <3> QED
      BY <1>1, AtAdds
  <2> QED
    BY <1>3, <1>6, <2>1, <2>2
<1> HIDE DEF g, p
<1>7. ASSUME OscillatorPasses(S, s)
      PROVE  S # {} /\ At(S, p) = S /\ (\A q \in 1 .. p - 1 : At(S, q) # S) /\ HasFullCell(S, p)
  BY <1>2, <1>4, <1>5, <1>6, <1>7
<1>8. ASSUME S # {}, At(S, p) = S, \A q \in 1 .. p - 1 : At(S, q) # S, HasFullCell(S, p)
      PROVE  OscillatorPasses(S, s)
  BY <1>2, <1>4, <1>5, <1>6, <1>8
<1> QED
  BY <1>7, <1>8 DEF p

---------------------------------------------------------------------------
(* The verdict on an object, whatever its kind.                            *)

\* A spec that a producer may search for: what _validate and the types leave.
Target(s) == s \in Specs /\ Valid(s) /\ s.kind \in {"spaceship", "oscillator", "still_life"}

Back(S, s) == At(S, PeriodOf(s)) = Translate(S, MoveOf(s))

\* The period and the displacement of a target.
LEMMA TargetTyped ==
  ASSUME NEW s, Target(s)
  PROVE  /\ s.kind = "spaceship" => s.period \in Nat \ {0} /\ s.displacement \in Plane
         /\ s.kind = "oscillator" => s.period \in Nat /\ s.period >= 2
         /\ PeriodOf(s) \in Nat \ {0} /\ MoveOf(s) \in Plane
<1>1. s \in Specs /\ Valid(s)
  BY DEF Target
<1>2. /\ s.kind \in {"spaceship", "oscillator"} => s.period \in Int
      /\ s.kind = "spaceship" => s.displacement \in Plane
  BY <1>1, VerifierAssumption DEF VerifierAssumption, Plane
<1>3. s.kind = "spaceship" => s.period \in Nat \ {0} /\ s.displacement \in Plane
  BY <1>1, <1>2 DEF Valid
<1>4. s.kind = "oscillator" => s.period \in Nat /\ s.period >= 2
  BY <1>1, <1>2 DEF Valid
<1>5. <<0, 0>> \in Plane
  BY DEF Plane
<1> QED
  BY <1>3, <1>4, <1>5 DEF PeriodOf, MoveOf, Target

\* The verdict for each kind.
LEMMA PassesIs ==
  ASSUME NEW S, NEW s
  PROVE  /\ s.kind = "spaceship" => Passes(S, s) = ShipPasses(S, s)
         /\ s.kind = "oscillator" => Passes(S, s) = OscillatorPasses(S, s)
         /\ s.kind = "still_life" => Passes(S, s) = StillLifePasses(S, s)
BY DEF Passes

\* A still life passes when it is its own next generation, within its filters.
LEMMA StillLifePassesWhen ==
  ASSUME NEW S \in Figures, NEW s
  PROVE  StillLifePasses(S, s) <=> Generation(S) = S /\ StillLifeFilters(S, s)
BY NoResidual DEF StillLifePasses, StillLifeFilters

\* What passes is something that comes back as the spec says.
LEMMA PassesComesBack ==
  ASSUME NEW S \in Figures, NEW s, Target(s), Passes(S, s)
  PROVE  S # {} /\ Back(S, s)
<1>1. CASE s.kind = "spaceship"
  <2>1. ShipPasses(S, s)
    BY <1>1, PassesIs
  <2> QED
    BY <1>1, <2>1, TargetTyped, ShipPassesWhen DEF Back, PeriodOf, MoveOf
<1>2. CASE s.kind = "oscillator"
  <2>1. OscillatorPasses(S, s)
    BY <1>2, PassesIs
  <2>2. S # {} /\ At(S, s.period) = S
    BY <1>2, <2>1, TargetTyped, OscillatorPassesWhen
  <2>3. Translate(S, <<0, 0>>) = S
    BY FigureCells, TranslateNowhere
  <2> QED
    BY <1>2, <2>2, <2>3 DEF Back, PeriodOf, MoveOf
<1>3. CASE s.kind = "still_life"
  <2>1. StillLifePasses(S, s)
    BY <1>3, PassesIs
  <2>2. S # {} /\ At(S, 1) = S
    BY <2>1, StillLifePassesWhen, AtOne DEF StillLifeFilters
  <2>3. Translate(S, <<0, 0>>) = S
    BY FigureCells, TranslateNowhere
  <2> QED
    BY <1>3, <2>2, <2>3 DEF Back, PeriodOf, MoveOf
<1> QED
  BY <1>1, <1>2, <1>3 DEF Target

\* The next generation of what comes back comes back.
LEMMA BackNext ==
  ASSUME NEW S \in Figures, S # {}, NEW s, Target(s), Back(S, s)
  PROVE  Generation(S) # {} /\ Back(Generation(S), s)
<1> DEFINE p == PeriodOf(s)
           v == MoveOf(s)
<1>1. p \in Nat \ {0} /\ v \in Plane /\ At(S, p) = Translate(S, v)
  BY TargetTyped DEF Back
<1> HIDE DEF p, v
<1>2. At(Generation(S), p) = Generation(At(S, p))
  <2>1. At(At(S, 1), p) = At(S, 1 + p) /\ 1 + p = p + 1 /\ At(S, 1) = Generation(S)
    BY <1>1, AtAdds, AtOne
  <2>2. At(S, p + 1) = Generation(At(S, p))
    BY <1>1, AtIs
  <2> QED
    BY <2>1, <2>2
<1>3. Generation(Translate(S, v)) = Translate(Generation(S), v)
  BY <1>1, FigureCells, TranslatedGeneration
<1>4. ASSUME Generation(S) = {}
      PROVE  FALSE
  <2>1. p - 1 \in Nat /\ 1 + (p - 1) = p
    BY <1>1
  <2>2. At(At(S, 1), p - 1) = At(S, 1 + (p - 1)) /\ At(S, 1) = {}
    BY <1>4, <2>1, AtAdds, AtOne
  <2>3. At(S, p) = {}
    BY <2>1, <2>2, AtEmpty
  <2> QED
    BY <1>1, <2>3, TranslateEmpty
<1> QED
  BY <1>1, <1>2, <1>3, <1>4 DEF Back, p, v

\* Of what comes back, one phase passes just when the next one does.
LEMMA PassesNext ==
  ASSUME NEW S \in Figures, S # {}, NEW s, Target(s), Back(S, s)
  PROVE  Passes(Generation(S), s) <=> Passes(S, s)
<1> DEFINE N == Generation(S)
<1>1. N \in Figures /\ N # {}
  BY GenerationFigure, BackNext
<1>2. CASE s.kind = "spaceship"
  <2>1. s.period \in Nat \ {0} /\ s.displacement \in Plane
    BY <1>2, TargetTyped
  <2>2. At(S, s.period) = Translate(S, s.displacement)
    BY <1>2 DEF Back, PeriodOf, MoveOf
  <2>3. ShipPasses(S, s) <=> ShipPasses(N, s)
    BY <2>1, <2>2, ShipNext
  <2> QED
    BY <1>2, <2>3, PassesIs
<1>3. CASE s.kind = "oscillator"
  <2> DEFINE p == s.period
  <2>1. p \in Nat /\ p >= 2 /\ p \in Nat \ {0}
    BY <1>3, TargetTyped
  <2>2. Translate(S, <<0, 0>>) = S /\ Translate(N, <<0, 0>>) = N
    BY <1>1, FigureCells, TranslateNowhere
  <2>3. At(S, p) = S /\ At(N, p) = N
    BY <1>3, <2>2, BackNext DEF Back, PeriodOf, MoveOf
  <2>4. /\ OscillatorPasses(S, s) <=> /\ S # {} /\ At(S, p) = S
                                     /\ \A q \in 1 .. p - 1 : At(S, q) # S
                                     /\ HasFullCell(S, p)
        /\ OscillatorPasses(N, s) <=> /\ N # {} /\ At(N, p) = N
                                     /\ \A q \in 1 .. p - 1 : At(N, q) # N
                                     /\ HasFullCell(N, p)
    BY <1>1, <2>1, OscillatorPassesWhen
  <2>5. HasFullCell(N, p) <=> HasFullCell(S, p)
    <3> HIDE DEF p
    <3> QED
      BY <2>1, <2>3, FullCellNext
  <2>6. ASSUME NEW q \in 1 .. p - 1
        PROVE  At(N, q) = N <=> At(S, q) = S
    <3> HIDE DEF p
    <3>1. q \in Nat /\ p - 1 \in Nat /\ (p - 1) + 1 = p /\ 1 + (p - 1) = p
      BY <2>1
    <3>2. At(N, q) = Generation(At(S, q))
      <4>1. At(At(S, 1), q) = At(S, 1 + q) /\ 1 + q = q + 1 /\ At(S, 1) = N
        BY <3>1, AtAdds, AtOne
      <4>2. At(S, q + 1) = Generation(At(S, q))
        BY <3>1, AtIs
      <4> QED
        BY <4>1, <4>2
    <3>3. ASSUME At(N, q) = N
          PROVE  At(S, q) = S
      <4>1. At(N, p - 1) = S
        <5>1. At(At(S, 1), p - 1) = At(S, 1 + (p - 1)) /\ At(S, 1) = N
          BY <3>1, AtAdds, AtOne
        <5> QED
          BY <2>3, <3>1, <5>1
      <4>2. At(At(N, p - 1), q) = At(N, (p - 1) + q)
        BY <1>1, <3>1, AtAdds
      <4>3. At(At(N, q), p - 1) = At(N, q + (p - 1))
        BY <1>1, <3>1, AtAdds
      <4>4. (p - 1) + q = q + (p - 1)
        BY <2>1, <3>1
      <4> QED
        BY <3>3, <4>1, <4>2, <4>3, <4>4
    <3> QED
      BY <3>2, <3>3
  <2>7. OscillatorPasses(S, s) <=> OscillatorPasses(N, s)
    <3> HIDE DEF p, N
    <3> QED
      BY <1>1, <2>3, <2>4, <2>5, <2>6
  <2> QED
    BY <1>3, <2>7, PassesIs
<1>4. CASE s.kind = "still_life"
  <2>1. Translate(S, <<0, 0>>) = S
    BY FigureCells, TranslateNowhere
  <2>2. At(S, 1) = S
    BY <1>4, <2>1 DEF Back, PeriodOf, MoveOf
  <2>3. N = S
    BY <2>2, AtOne
  <2> QED
    BY <2>3
<1> QED
  BY <1>2, <1>3, <1>4 DEF Target, N

\* What comes back as it should is rejected only for what its kind asks beside that.
LEMMA CauseOfRejection ==
  ASSUME NEW S \in Figures, S # {}, NEW s, Target(s), Back(S, s), ~Passes(S, s)
  PROVE  \/ \E q \in 1 .. PeriodOf(s) - 1 : Recurs(S, q)
         \/ s.kind = "oscillator" /\ ~HasFullCell(S, s.period)
         \/ s.kind = "still_life" /\ ~StillLifeFilters(S, s)
<1>1. CASE s.kind = "spaceship"
  <2>1. s.period \in Nat \ {0} /\ s.displacement \in Plane /\ PeriodOf(s) = s.period
    BY <1>1, TargetTyped DEF PeriodOf
  <2>2. At(S, s.period) = Translate(S, s.displacement)
    BY <1>1 DEF Back, PeriodOf, MoveOf
  <2>3. ~ShipPasses(S, s)
    BY <1>1, PassesIs
  <2> QED
    BY <2>1, <2>2, <2>3, ShipPassesWhen
<1>2. CASE s.kind = "oscillator"
  <2>1. s.period \in Nat /\ s.period >= 2 /\ PeriodOf(s) = s.period
    BY <1>2, TargetTyped DEF PeriodOf
  <2>2. Translate(S, <<0, 0>>) = S
    BY FigureCells, TranslateNowhere
  <2>3. At(S, s.period) = S
    BY <1>2, <2>2 DEF Back, PeriodOf, MoveOf
  <2>4. ~OscillatorPasses(S, s)
    BY <1>2, PassesIs
  <2>5. (\E q \in 1 .. s.period - 1 : At(S, q) = S) \/ ~HasFullCell(S, s.period)
    BY <2>1, <2>3, <2>4, OscillatorPassesWhen
  <2> QED
    BY <1>2, <2>1, <2>5 DEF Recurs
<1>3. CASE s.kind = "still_life"
  <2>1. Translate(S, <<0, 0>>) = S
    BY FigureCells, TranslateNowhere
  <2>2. At(S, 1) = S
    BY <1>3, <2>1 DEF Back, PeriodOf, MoveOf
  <2>3. Generation(S) = S
    BY <2>2, AtOne
  <2>4. ~StillLifePasses(S, s)
    BY <1>3, PassesIs
  <2> QED
    BY <1>3, <2>3, <2>4, StillLifePassesWhen
<1> QED
  BY <1>1, <1>2, <1>3 DEF Target

---------------------------------------------------------------------------
(* Searching.                                                              *)

SearchTypeOK ==
  /\ spec \in Specs /\ Valid(spec)
  /\ candidate \in Figures
  /\ age \in Nat
  /\ verdict \in {None, "PASS", "REJECT"}

\* What was asked, answered and judged so far fits the object there is now.
AskedInv ==
  /\ posed # None => Searching /\ engine \in Engines /\ CanPose(engine, spec)
  /\ Searching => verdict = None
  /\ verdict # None => Target(spec)

UnsatInv ==
  answer = "UNSAT" =>
    engine \in Engines \ {"qfind"} /\ CanPose(engine, spec) /\ Solutions[<<engine, spec>>] = {}

FoundInv ==
  answer = "FOUND" /\ engine # "qfind" => Target(spec) /\ candidate # {} /\ Back(candidate, spec)

VerdictInv ==
  /\ verdict = "PASS" => Passes(candidate, spec)
  /\ answer = "FOUND" /\ engine # "qfind" /\ verdict = "REJECT" => ~Passes(candidate, spec)

SearchInv == AskedInv /\ UnsatInv /\ FoundInv /\ VerdictInv

\* None is told apart from the verdicts and the outcomes.
LEMMA NoneIsNoWord == None \notin {"PASS", "REJECT", "FOUND", "UNSAT"}
BY VerifierAssumption DEF VerifierAssumption

\* An engine is asked only for a target.
LEMMA PosedIsTarget ==
  ASSUME NEW s \in Specs, Valid(s), NEW e, CanPose(e, s)
  PROVE  Target(s)
<1>1. CapableEngines(s) # {}
  BY DEF CanPose
<1>2. s.kind \in {"spaceship", "oscillator", "still_life"}
  BY <1>1 DEF CapableEngines
<1> QED
  BY <1>2 DEF Target

\* What rlifesrc and LLS can return is what fits the box and comes back.
LEMMA SolutionsAre ==
  ASSUME NEW s \in Specs, Valid(s), NEW e \in Engines
  PROVE  /\ Solutions[<<e, s>>] \subseteq Starts \ {{}}
         /\ Solutions[<<e, s>>] # {} => CanPose(e, s)
         /\ CanPose(e, s) /\ e # "qfind" =>
              \A c \in Starts : c \in Solutions[<<e, s>>] <=> c # {} /\ Fits(c, BoxOf(s)) /\ Back(c, s)
<1> DEFINE Posable == Engines \X {t \in Specs : Valid(t)}
           q == <<e, s>>
<1>1. q \in Posable /\ q[1] = e /\ q[2] = s
  OBVIOUS
<1>2. Solutions[q] = IF CanPose(q[1], q[2]) THEN SolutionsOf(q[1], BuildInput(q[1], q[2])) ELSE {}
  BY <1>1 DEF Solutions
<1> HIDE DEF q
<1>3. Solutions[q] = IF CanPose(e, s) THEN SolutionsOf(e, BuildInput(e, s)) ELSE {}
  BY <1>1, <1>2
<1>4. SolutionsOf(e, BuildInput(e, s)) \subseteq Starts \ {{}}
  BY DEF SolutionsOf
<1>5. ASSUME e # "qfind", NEW c \in Starts
      PROVE  c \in SolutionsOf(e, BuildInput(e, s)) <=> c # {} /\ Fits(c, BoxOf(s)) /\ Back(c, s)
  <2> DEFINE p == BuildInput(e, s)
  <2>1. p = BoxProblem(s)
    BY <1>5 DEF BuildInput
  <2>2. p.box = BoxOf(s) /\ p.period = PeriodOf(s) /\ p.move = MoveOf(s)
    BY <2>1 DEF BoxProblem
  <2> HIDE DEF p
  <2>3. ComesBack(c, PeriodOf(s), {MoveOf(s)}) <=> Back(c, s)
    BY DEF ComesBack, Back, At
  <2>4. SolvesBox(c, p) <=> Fits(c, BoxOf(s)) /\ Back(c, s)
    BY <2>2, <2>3 DEF SolvesBox
  <2>5. c \in SolutionsOf(e, p) <=> c # {} /\ SolvesBox(c, p)
    BY <1>5 DEF SolutionsOf
  <2> QED
    BY <2>4, <2>5 DEF p
<1>6. CASE CanPose(e, s)
  BY <1>3, <1>4, <1>5, <1>6 DEF q
<1>7. CASE ~CanPose(e, s)
  BY <1>3, <1>7 DEF q
<1> QED
  BY <1>6, <1>7

\* The space that is searched holds figures.
LEMMA StartsAreFigures == Starts \subseteq Figures /\ {} \in Figures
<1>1. \A c \in Starts : c \in SUBSET Plane /\ IsFiniteSet(c)
  BY VerifierAssumption DEF VerifierAssumption, Plane
<1>2. {} \in SUBSET Plane /\ IsFiniteSet({})
  BY FS_EmptySet
<1> QED
  BY <1>1, <1>2, FinitePatterns

\* What is found solves the problem that was posed.
LEMMA Sought ==
  ASSUME NEW e \in Engines, NEW s \in Specs, Valid(s), CanPose(e, s), NEW c \in Solutions[<<e, s>>]
  PROVE  c \in Starts /\ c # {} /\ Target(s) /\ (e # "qfind" => Back(c, s))
<1>1. c \in Starts /\ c # {}
  BY SolutionsAre
<1> QED
  BY <1>1, SolutionsAre, PosedIsTarget

\* Types, and what asking, finding and judging leave behind, in every reachable state.
THEOREM SearchTyping == SearchSpec => [](SearchTypeOK /\ SearchInv)
<1>1. SearchInit => SearchTypeOK /\ SearchInv
  <2> SUFFICES ASSUME SearchInit
               PROVE  SearchTypeOK /\ SearchInv
    OBVIOUS
  <2>1. SearchTypeOK
    BY StartsAreFigures DEF SearchInit, SearchTypeOK
  <2>2. SearchInv
    BY NoneIsNoWord DEF SearchInit, SearchInv, AskedInv, UnsatInv, FoundInv, VerdictInv
  <2> QED
    BY <2>1, <2>2
<1>2. SearchTypeOK /\ SearchInv /\ [SearchNext]_searchVars => SearchTypeOK' /\ SearchInv'
  <2> SUFFICES ASSUME SearchTypeOK, SearchInv, [SearchNext]_searchVars
               PROVE  SearchTypeOK' /\ SearchInv'
    OBVIOUS
  <2>1. AskedInv /\ UnsatInv /\ FoundInv /\ VerdictInv
    BY DEF SearchInv
  <2>2. ASSUME NEW e \in Engines, Ask(e)
        PROVE  SearchTypeOK' /\ SearchInv'
    <3>1. /\ Searching /\ verdict = None /\ UNCHANGED <<candidate, spec, age, verdict>>
          /\ engine' = e /\ answer' \in {None, "NO_CAPABILITY"}
          /\ posed' # None => CanPose(e, spec)
      BY <2>1, <2>2 DEF Ask, verifierVars, AskedInv
    <3>2. SearchTypeOK'
      BY <3>1 DEF SearchTypeOK
    <3>3. AskedInv'
      BY <2>1, <3>1 DEF AskedInv, Searching
    <3>4. UnsatInv' /\ FoundInv' /\ VerdictInv'
      BY <3>1, NoneIsNoWord DEF UnsatInv, FoundInv, VerdictInv
    <3> QED
      BY <3>2, <3>3, <3>4 DEF SearchInv
  <2>3. CASE Found
    <3> DEFINE c == candidate'
    <3>0. engine \in Engines /\ CanPose(engine, spec) /\ c \in Solutions[<<engine, spec>>]
      BY <2>1, <2>3 DEF Found, Ends, AskedInv
    <3> HIDE DEF c
    <3>1. c \in Starts /\ c # {} /\ Target(spec) /\ (engine # "qfind" => Back(c, spec)) /\ candidate' = c
      BY <3>0, Sought DEF SearchTypeOK, c
    <3>2. /\ answer' = "FOUND" /\ posed' = None /\ UNCHANGED <<engine, spec, age, verdict>>
          /\ verdict = None
      BY <2>1, <2>3 DEF Found, Ends, AskedInv
    <3>3. SearchTypeOK'
      BY <3>1, <3>2, StartsAreFigures DEF SearchTypeOK
    <3>4. AskedInv'
      BY <3>1, <3>2 DEF AskedInv, Searching
    <3>5. UnsatInv' /\ FoundInv' /\ VerdictInv'
      BY <3>1, <3>2, NoneIsNoWord DEF UnsatInv, FoundInv, VerdictInv
    <3> QED
      BY <3>3, <3>4, <3>5 DEF SearchInv
  <2>4. CASE Unsat
    <3>1. /\ posed # None /\ engine # "qfind" /\ Solutions[<<engine, spec>>] = {}
          /\ answer' = "UNSAT" /\ posed' = None /\ UNCHANGED <<candidate, engine, spec, age, verdict>>
      BY <2>4 DEF Unsat, Ends
    <3>2. engine \in Engines /\ CanPose(engine, spec) /\ verdict = None
      BY <2>1, <3>1 DEF AskedInv
    <3>3. SearchTypeOK'
      BY <3>1 DEF SearchTypeOK
    <3>4. AskedInv'
      BY <2>1, <3>1 DEF AskedInv, Searching
    <3>5. UnsatInv' /\ FoundInv' /\ VerdictInv'
      BY <3>1, <3>2, NoneIsNoWord DEF UnsatInv, FoundInv, VerdictInv
    <3> QED
      BY <3>3, <3>4, <3>5 DEF SearchInv
  <2>5. CASE GivesUp
    <3>1. /\ posed # None /\ answer' \in {"TIMEOUT", "ERROR"} /\ posed' = None
          /\ UNCHANGED <<candidate, engine, spec, age, verdict>>
      BY <2>5 DEF GivesUp, Ends
    <3>2. verdict = None
      BY <2>1, <3>1 DEF AskedInv
    <3>3. SearchTypeOK'
      BY <3>1 DEF SearchTypeOK
    <3>4. AskedInv'
      BY <2>1, <3>1 DEF AskedInv, Searching
    <3>5. UnsatInv' /\ FoundInv' /\ VerdictInv'
      BY <3>1, <3>2, NoneIsNoWord DEF UnsatInv, FoundInv, VerdictInv
    <3> QED
      BY <3>3, <3>4, <3>5 DEF SearchInv
  <2>6. CASE Submit
    <3>1. /\ Searching /\ posed = None /\ candidate' \in Starts /\ engine' = None /\ answer' = None
          /\ UNCHANGED <<posed, spec, age, verdict>> /\ verdict = None
      BY <2>1, <2>6 DEF Submit, AskedInv
    <3>2. SearchTypeOK'
      BY <3>1, StartsAreFigures DEF SearchTypeOK
    <3>3. AskedInv'
      BY <3>1 DEF AskedInv
    <3>4. UnsatInv' /\ FoundInv' /\ VerdictInv'
      BY <3>1, NoneIsNoWord DEF UnsatInv, FoundInv, VerdictInv
    <3> QED
      BY <3>2, <3>3, <3>4 DEF SearchInv
  <2>7. CASE ~Searching /\ Verify /\ UNCHANGED invocation
    <3>1. /\ spec.kind \in {"spaceship", "oscillator", "still_life"}
          /\ verdict' = IF Passes(candidate, spec) THEN "PASS" ELSE "REJECT"
          /\ UNCHANGED <<candidate, spec, age, engine, posed, answer>>
      BY <2>7 DEF Verify, invocation
    <3>2. Target(spec)
      BY <3>1 DEF SearchTypeOK, Target
    <3>3. SearchTypeOK'
      BY <3>1 DEF SearchTypeOK
    <3>4. AskedInv'
      BY <2>1, <2>7, <3>1, <3>2 DEF AskedInv, Searching
    <3>5. UnsatInv' /\ FoundInv'
      BY <2>1, <3>1 DEF UnsatInv, FoundInv
    <3>6. VerdictInv'
      BY <3>1 DEF VerdictInv
    <3> QED
      BY <3>3, <3>4, <3>5, <3>6 DEF SearchInv
  <2>8. CASE ~Searching /\ NextPhase /\ UNCHANGED invocation
    <3> DEFINE next == Generation(candidate)
    <3>1. candidate' = next /\ age' = age + 1 /\ UNCHANGED <<spec, verdict, engine, posed, answer>>
      BY <2>8 DEF NextPhase, invocation
    <3>2. candidate \in Figures /\ next \in Figures
      BY GenerationFigure DEF SearchTypeOK
    <3>3. candidate # {} /\ Target(spec) /\ Back(candidate, spec) =>
            next # {} /\ Back(next, spec) /\ (Passes(next, spec) <=> Passes(candidate, spec))
      BY <3>2, BackNext, PassesNext
    <3>4. verdict = "PASS" => candidate # {} /\ Target(spec) /\ Back(candidate, spec)
      BY <2>1, <3>2, NoneIsNoWord, PassesComesBack DEF VerdictInv, AskedInv
    <3> HIDE DEF next
    <3>5. SearchTypeOK'
      BY <3>1, <3>2 DEF SearchTypeOK
    <3>6. age' # 0
      BY <3>1 DEF SearchTypeOK
    <3>7. AskedInv'
      BY <2>1, <2>8, <3>1, <3>6 DEF AskedInv, Searching
    <3>8. UnsatInv'
      BY <2>1, <3>1 DEF UnsatInv
    <3>9. FoundInv'
      BY <2>1, <3>1, <3>3 DEF FoundInv
    <3>10. VerdictInv'
      BY <2>1, <3>1, <3>3, <3>4 DEF VerdictInv, FoundInv
    <3> QED
      BY <3>5, <3>7, <3>8, <3>9, <3>10 DEF SearchInv
  <2>9. CASE UNCHANGED searchVars
    <3>1. UNCHANGED <<candidate, spec, age, verdict, engine, posed, answer>>
      BY <2>9 DEF searchVars, verifierVars, invocation
    <3> QED
      BY <2>1, <3>1 DEF SearchTypeOK, SearchInv, AskedInv, UnsatInv, FoundInv, VerdictInv, Searching
  <2> QED
    BY <2>2, <2>3, <2>4, <2>5, <2>6, <2>7, <2>8, <2>9 DEF SearchNext, VerifierNext
<1> QED
  BY <1>1, <1>2, PTL DEF SearchSpec

\* The verdict is on the object: whatever the space, the specs and the rule, one that
\* passed passes in each of its phases.
THEOREM PassStands == SearchSpec => PassesInEveryPhase
<1>1. SearchTypeOK /\ SearchInv /\ [SearchNext]_searchVars
        => [verdict = "PASS" => verdict' = "PASS"]_verifierVars
  <2> SUFFICES ASSUME SearchTypeOK, SearchInv, SearchNext, verdict = "PASS"
               PROVE  verdict' = "PASS"
    BY DEF searchVars, verifierVars
  <2>1. ~Searching /\ posed = None /\ Passes(candidate, spec)
    BY NoneIsNoWord DEF SearchInv, AskedInv, VerdictInv
  <2>2. VerifierNext
    BY <2>1 DEF SearchNext, Ask, Found, Unsat, GivesUp, Ends, Submit
  <2>3. CASE Verify
    BY <2>1, <2>3 DEF Verify
  <2>4. CASE NextPhase
    BY <2>4 DEF NextPhase
  <2> QED
    BY <2>2, <2>3, <2>4 DEF VerifierNext
<1> QED
  BY <1>1, SearchTyping, PTL DEF SearchSpec, PassesInEveryPhase

\* A verdict that would pass every generation of a spaceship agrees with looking for the
\* ship wherever it can have got to, for every spec of the space.
THEOREM ShipsFly == SearchSpec => []ShipsAreShips
<1>1. SearchTypeOK => ShipsAreShips
  <2> SUFFICES ASSUME SearchTypeOK, spec.kind = "spaceship"
               PROVE  ShipsAreShips
    BY DEF ShipsAreShips
  <2> DEFINE p == spec.period
             v == spec.displacement
             g == Generations(candidate, p)
             Places == (-p .. p) \X (-p .. p)
             Moved == \E q \in 1 .. p - 1, w \in Places : g[q + 1] = Translate(candidate, w)
  <2>1. candidate \in Figures /\ Target(spec)
    BY DEF SearchTypeOK, Target
  <2>2. p \in Nat \ {0} /\ v \in Plane
    BY <2>1, TargetTyped
  <2>3. Passes(candidate, spec) <=>
          /\ candidate # {} /\ At(candidate, p) = Translate(candidate, v)
          /\ \A q \in 1 .. p - 1 : ~Recurs(candidate, q)
    BY <2>1, <2>2, PassesIs, ShipPassesWhen
  <2>4. g[p + 1] = At(candidate, p)
    BY DEF At
  <2>5. \A q \in 1 .. p - 1 : g[q + 1] = At(candidate, q)
    <3> HIDE DEF p
    <3>1. p \in Nat /\ \A q \in 1 .. p - 1 : q \in 0 .. p
      BY <2>2
    <3> QED
      BY <2>1, <3>1, GenerationsAgree
  <2>6. ASSUME candidate # {}, NEW q \in 1 .. p - 1
        PROVE  Recurs(candidate, q) <=> \E w \in Places : At(candidate, q) = Translate(candidate, w)
    <3>1. q \in Nat /\ At(candidate, q) \in Figures
      BY <2>1, AtIs
    <3>2. ASSUME Recurs(candidate, q)
          PROVE  \E w \in Places : At(candidate, q) = Translate(candidate, w)
      <4>1. PICK w \in Plane : At(candidate, q) = Translate(candidate, w)
        BY <2>1, <2>6, <3>1, <3>2, SameShape DEF Recurs
      <4>2. w[1] \in -q .. q /\ w[2] \in -q .. q
        BY <2>1, <2>6, <3>1, <4>1, SpeedOfLight
      <4>3. w = <<w[1], w[2]>>
        BY Coordinates
      <4>4. w[1] \in -p .. p /\ w[2] \in -p .. p
        <5> HIDE DEF p
        <5> QED
          BY <2>2, <4>2
      <4> QED
        BY <4>1, <4>3, <4>4
    <3>3. ASSUME NEW w \in Places, At(candidate, q) = Translate(candidate, w)
          PROVE  Recurs(candidate, q)
      <4>1. w \in Plane
        BY <2>2 DEF Plane
      <4> QED
        BY <2>1, <3>3, <4>1, ShapeMoves DEF Recurs
    <3> QED
      BY <3>2, <3>3
  <2>7. Passes(candidate, spec) <=>
          /\ candidate # {}
          /\ g[p + 1] = Translate(candidate, v)
          /\ \A q \in 1 .. p - 1, w \in Places : g[q + 1] # Translate(candidate, w)
    <3> HIDE DEF p, v, g, Places
    <3> QED
      BY <2>3, <2>4, <2>5, <2>6
  <2> QED
    BY <2>7 DEF ShipsAreShips
<1> QED
  BY <1>1, SearchTyping, PTL

\* What an adapter makes of a spec loses none of its objects: after an UNSAT nothing of
\* the space that fits the spec's box passes.
THEOREM UnsatProved == SearchSpec => []UnsatIsRight
<1>1. SearchTypeOK /\ SearchInv => UnsatIsRight
  <2> SUFFICES ASSUME SearchTypeOK, SearchInv, answer = "UNSAT",
                      NEW c \in Starts, InSpecBox(c), Passes(c, spec)
               PROVE  FALSE
    BY DEF UnsatIsRight
  <2>1. engine \in Engines /\ engine # "qfind" /\ CanPose(engine, spec) /\ Solutions[<<engine, spec>>] = {}
    BY DEF SearchInv, UnsatInv
  <2>2. spec \in Specs /\ Valid(spec) /\ Target(spec)
    BY <2>1, PosedIsTarget DEF SearchTypeOK
  <2>3. c # {} /\ Back(c, spec)
    BY <2>2, StartsAreFigures, PassesComesBack
  <2>4. Fits(c, BoxOf(spec))
    BY DEF InSpecBox, BoxOf, BoxOrDefault
  <2> QED
    BY <2>1, <2>2, <2>3, <2>4, SolutionsAre
<1> QED
  BY <1>1, SearchTyping, PTL

\* What rlifesrc or LLS found is rejected, in whatever phase, only for what their command
\* lines cannot say.
THEOREM RejectionHasCause == SearchSpec => []RejectedForCause
<1>1. SearchTypeOK /\ SearchInv => RejectedForCause
  <2> SUFFICES ASSUME SearchTypeOK, SearchInv, answer = "FOUND", engine # "qfind", verdict = "REJECT"
               PROVE  RejectedForCause
    BY DEF RejectedForCause
  <2> DEFINE p == PeriodOf(spec)
             g == Generations(candidate, p)
  <2>1. candidate \in Figures /\ candidate # {} /\ Target(spec) /\ Back(candidate, spec)
        /\ ~Passes(candidate, spec)
    BY DEF SearchTypeOK, SearchInv, FoundInv, VerdictInv
  <2>2. \/ \E q \in 1 .. p - 1 : Recurs(candidate, q)
        \/ spec.kind = "oscillator" /\ ~HasFullCell(candidate, spec.period)
        \/ spec.kind = "still_life" /\ ~StillLifeFilters(candidate, spec)
    BY <2>1, CauseOfRejection
  <2>3. p \in Nat \ {0}
    BY <2>1, TargetTyped
  <2>4. \A q \in 1 .. p - 1 : g[q + 1] = At(candidate, q)
    <3> HIDE DEF p
    <3>1. p \in Nat /\ \A q \in 1 .. p - 1 : q \in 0 .. p
      BY <2>3
    <3> QED
      BY <2>1, <3>1, GenerationsAgree
  <2>5. ASSUME spec.kind = "oscillator"
        PROVE  FullPeriodCell(g, spec.period) <=> HasFullCell(candidate, spec.period)
    <3>1. p = spec.period /\ p \in Nat /\ p >= 2 /\ p <= p
      BY <2>1, <2>5, TargetTyped DEF PeriodOf
    <3>2. At(candidate, p) = candidate
      <4>1. Translate(candidate, <<0, 0>>) = candidate
        BY <2>1, FigureCells, TranslateNowhere
      <4> QED
        BY <2>1, <2>5, <4>1 DEF Back, MoveOf
    <3> HIDE DEF p
    <3>3. FullPeriodCell(Generations(candidate, p), p) <=> HasFullCell(candidate, p)
      BY <2>1, <3>1, <3>2, FullCells
    <3> QED
      BY <3>1, <3>3
  <2>6. \A q \in 1 .. p - 1 : Recurs(candidate, q) => Normalized(g[q + 1]) = Normalized(candidate)
    BY <2>4 DEF Recurs
  <2> QED
    BY <2>2, <2>5, <2>6 DEF RejectedForCause
<1> QED
  BY <1>1, SearchTyping, PTL

---------------------------------------------------------------------------
(* Two objects side by side.                                               *)

\* What comes back by the period, and sooner too, comes back after a divisor of it.
LEMMA SoonerDivides ==
  ASSUME NEW S \in Figures, NEW p \in Nat \ {0}, At(S, p) = S,
         NEW q \in 1 .. p - 1, At(S, q) = S
  PROVE  \E r \in 1 .. p - 1 : p % r = 0 /\ \A k \in Nat : At(S, k + r) = At(S, k)
<1> DEFINE T == {i \in Nat : i >= 1 /\ At(S, i) = S}
<1>1. q \in T
  OBVIOUS
<1>2. PICK r \in T : \A y \in T : r <= y
  <2>1. T \subseteq Nat /\ T # {}
    BY <1>1
  <2> HIDE DEF T
  <2> QED
    BY <2>1, LeastNat
<1>3. r \in Nat /\ r >= 1 /\ At(S, r) = S /\ r <= q
  BY <1>1, <1>2
<1>4. r \in 1 .. p - 1
  BY <1>3
<1>5. p % r \in 0 .. r - 1 /\ At(S, p % r) = S
  <2>1. r \in Nat \ {0} /\ p \in Nat
    BY <1>3
  <2> QED
    BY <1>3, <2>1, Phases
<1>6. p % r = 0
  <2>1. p % r \notin T
    <3> SUFFICES ASSUME p % r \in T
                 PROVE  FALSE
      OBVIOUS
    <3>1. r <= p % r
      BY <1>2
    <3> QED
      BY <1>3, <1>5, <3>1
  <2>2. p % r \in Nat
    BY <1>3, <1>5
  <2>3. ~(p % r >= 1)
    BY <1>5, <2>1, <2>2
  <2> QED
    BY <2>2, <2>3
<1>7. ASSUME NEW k \in Nat
      PROVE  At(S, k + r) = At(S, k)
  <2>1. At(At(S, r), k) = At(S, r + k) /\ r + k = k + r
    BY <1>3, AtAdds
  <2> QED
    BY <1>3, <2>1
<1> QED
  BY <1>4, <1>6, <1>7

\* For p generations A and B are C, and light no cell in common.
SideBySide(A, B, C, p) ==
  /\ C = A \cup B
  /\ \A k \in 0 .. p : At(C, k) = At(A, k) \cup At(B, k)
  /\ \A j, k \in 0 .. p : At(A, j) \cap At(B, k) = {}

\* Side by side for a period, side by side for ever: then no cell has the full period.
LEMMA NoFullCellOfTwo ==
  ASSUME NEW A \in Figures, NEW B \in Figures, NEW C \in Figures,
         NEW p \in Nat \ {0}, At(C, p) = C, SideBySide(A, B, C, p),
         \E q \in 1 .. p - 1 : At(A, q) = A,
         \E q \in 1 .. p - 1 : At(B, q) = B
  PROVE  ~HasFullCell(C, p)
<1>1. At(A, p) = A /\ At(B, p) = B
  <2>1. 0 \in 0 .. p /\ p \in 0 .. p
    OBVIOUS
  <2>2. At(A, 0) = A /\ At(B, 0) = B
    BY AtIs
  <2>3. A \cap B = {} /\ At(A, p) \cap B = {} /\ A \cap At(B, p) = {}
    BY <2>1, <2>2 DEF SideBySide
  <2>4. At(A, p) \cup At(B, p) = A \cup B
    BY <2>1 DEF SideBySide
  <2> QED
    BY <2>3, <2>4
<1>2. ASSUME NEW k \in Nat
      PROVE  At(C, k) = At(A, k) \cup At(B, k)
  <2> DEFINE i == k % p
  <2>1. i \in 0 .. p - 1 /\ At(C, i) = At(C, k)
    BY Phases
  <2>2. At(A, i) = At(A, k)
    BY <1>1, Phases
  <2>3. At(B, i) = At(B, k)
    BY <1>1, Phases
  <2> HIDE DEF i
  <2>4. i \in 0 .. p
    BY <2>1
  <2>5. At(C, i) = At(A, i) \cup At(B, i)
    BY <2>4 DEF SideBySide
  <2> QED
    BY <2>1, <2>2, <2>3, <2>5
<1>3. ASSUME NEW j \in Nat, NEW k \in Nat
      PROVE  At(A, j) \cap At(B, k) = {}
  <2> DEFINE i == j % p
             m == k % p
  <2>1. i \in 0 .. p - 1 /\ At(A, i) = At(A, j)
    BY <1>1, Phases
  <2>2. m \in 0 .. p - 1 /\ At(B, m) = At(B, k)
    BY <1>1, Phases
  <2> HIDE DEF i, m
  <2>3. i \in 0 .. p /\ m \in 0 .. p
    BY <2>1, <2>2
  <2>4. At(A, i) \cap At(B, m) = {}
    BY <2>3 DEF SideBySide
  <2> QED
    BY <2>1, <2>2, <2>4
<1>4. PICK a \in 1 .. p - 1 : p % a = 0 /\ \A k \in Nat : At(A, k + a) = At(A, k)
  <2>1. PICK q \in 1 .. p - 1 : At(A, q) = A
    OBVIOUS
  <2> QED
    BY <1>1, <2>1, SoonerDivides
<1>5. PICK b \in 1 .. p - 1 : p % b = 0 /\ \A k \in Nat : At(B, k + b) = At(B, k)
  <2>1. PICK q \in 1 .. p - 1 : At(B, q) = B
    OBVIOUS
  <2> QED
    BY <1>1, <2>1, SoonerDivides
<1>6. \A k \in Nat : k + a \in Nat /\ k + b \in Nat
  OBVIOUS
<1> SUFFICES ASSUME NEW cell \in Plane,
                    \A d \in 1 .. p - 1 :
                      p % d = 0 => \E k \in Nat : (cell \in At(C, k)) # (cell \in At(C, k + d))
             PROVE  FALSE
  BY DEF HasFullCell
<1>7. CASE \E j \in Nat : cell \in At(A, j)
  <2>0. \A k \in Nat : cell \notin At(B, k)
    <3>1. PICK j \in Nat : cell \in At(A, j)
      BY <1>7
    <3>2. \A k \in Nat : At(A, j) \cap At(B, k) = {}
      BY <1>3
    <3> QED
      BY <3>1, <3>2
  <2>1. ASSUME NEW k \in Nat
        PROVE  cell \in At(C, k) <=> cell \in At(A, k)
    <3>1. At(C, k) = At(A, k) \cup At(B, k)
      BY <1>2
    <3> QED
      BY <2>0, <3>1
  <2>2. PICK k \in Nat : (cell \in At(C, k)) # (cell \in At(C, k + a))
    BY <1>4
  <2>3. (cell \in At(C, k) <=> cell \in At(A, k)) /\ (cell \in At(C, k + a) <=> cell \in At(A, k + a))
    BY <1>6, <2>1
  <2>4. At(A, k + a) = At(A, k)
    BY <1>4
  <2> QED
    BY <2>2, <2>3, <2>4
<1>8. CASE ~ \E j \in Nat : cell \in At(A, j)
  <2>1. ASSUME NEW k \in Nat
        PROVE  cell \in At(C, k) <=> cell \in At(B, k)
    <3>1. At(C, k) = At(A, k) \cup At(B, k)
      BY <1>2
    <3> QED
      BY <1>8, <3>1
  <2>2. PICK k \in Nat : (cell \in At(C, k)) # (cell \in At(C, k + b))
    BY <1>5
  <2>3. (cell \in At(C, k) <=> cell \in At(B, k)) /\ (cell \in At(C, k + b) <=> cell \in At(B, k + b))
    BY <1>6, <2>1
  <2>4. At(B, k + b) = At(B, k)
    BY <1>5
  <2> QED
    BY <2>2, <2>3, <2>4
<1> QED
  BY <1>7, <1>8

\* The verifier passes no trivial LCM: of two candidates side by side, both of which come
\* back sooner than the period, no cell has the period.
THEOREM NoLCM == SearchSpec => []NoTrivialLCM
<1>1. SearchTypeOK => NoTrivialLCM
  <2> SUFFICES ASSUME SearchTypeOK, spec.kind = "oscillator", Passes(candidate, spec)
               PROVE  NoTrivialLCM
    BY DEF NoTrivialLCM
  <2> DEFINE p == spec.period
             gc == Generations(candidate, p)
  <2>1. candidate \in Figures /\ p \in Nat /\ p >= 2
    BY TargetTyped DEF SearchTypeOK, Target
  <2>2. At(candidate, p) = candidate /\ HasFullCell(candidate, p)
    BY <2>1, PassesIs, OscillatorPassesWhen
  <2>3. ASSUME NEW a \in Starts, NEW b \in Starts, a \cup b = candidate,
               \A k \in 1 .. p + 1 : gc[k] = Generations(a, p)[k] \cup Generations(b, p)[k],
               \A j, k \in 1 .. p + 1 : Generations(a, p)[j] \cap Generations(b, p)[k] = {},
               \E q \in 1 .. p - 1 : Generations(a, p)[q + 1] = a,
               \E q \in 1 .. p - 1 : Generations(b, p)[q + 1] = b
        PROVE  FALSE
    <3> HIDE DEF p
    <3>1. a \in Figures /\ b \in Figures
      BY StartsAreFigures
    <3>2. \A k \in 0 .. p : /\ gc[k + 1] = At(candidate, k)
                           /\ Generations(a, p)[k + 1] = At(a, k)
                           /\ Generations(b, p)[k + 1] = At(b, k)
      BY <2>1, <3>1, GenerationsAgree
    <3> HIDE DEF gc
    <3>3. \A k \in 0 .. p : k + 1 \in 1 .. p + 1
      BY <2>1
    <3>4. \A k \in 0 .. p : At(candidate, k) = At(a, k) \cup At(b, k)
      BY <2>3, <3>2, <3>3
    <3>5. \A j, k \in 0 .. p : At(a, j) \cap At(b, k) = {}
      BY <2>3, <3>2, <3>3
    <3>6. \A q \in 1 .. p - 1 : q \in 0 .. p
      BY <2>1
    <3>7. (\E q \in 1 .. p - 1 : At(a, q) = a) /\ (\E q \in 1 .. p - 1 : At(b, q) = b)
      BY <2>3, <3>2, <3>6
    <3>8. p \in Nat \ {0} /\ candidate = a \cup b
      BY <2>1, <2>3
    <3>9. SideBySide(a, b, candidate, p)
      BY <3>4, <3>5, <3>8 DEF SideBySide
    <3> QED
      BY <2>1, <2>2, <3>1, <3>7, <3>8, <3>9, NoFullCellOfTwo
  <2> QED
    BY <2>3 DEF NoTrivialLCM
<1> QED
  BY <1>1, SearchTyping, PTL
=============================================================================
