---------------------------- MODULE Novelty_proofs ----------------------------
(***************************************************************************)
(* Proofs about Components and Novelty.  For every set of patterns,        *)
(* whatever cells set.pop picks, the flood fill returns the maximal        *)
(* connected components.  For every rule, and every object whose shape     *)
(* comes up again within the cap, the key is that of all its forms, and    *)
(* what the oracle calls NOVEL is a form of nothing in the catalogue.  The *)
(* minimality tier turns down just the patterns that have a known island.  *)
(***************************************************************************)
EXTENDS Novelty, Shapes_proofs

LEMMA AdjacentSymmetric ==
  ASSUME NEW a \in Plane, NEW b \in Plane, Adjacent(a, b)
  PROVE  Adjacent(b, a)
BY DEF Adjacent, Plane

---------------------------------------------------------------------------
(* Type correctness.                                                       *)

LEMMA InitTyped == Init => TypeOK
BY PatternsAssumption DEF Init, TypeOK

LEMMA StepTyped == TypeOK /\ [Next]_vars => TypeOK'
<1> SUFFICES ASSUME TypeOK, [Next]_vars PROVE TypeOK'
  OBVIOUS
<1> USE DEF TypeOK
<1>1. CASE Seed
  BY <1>1 DEF Seed
<1>2. CASE Grow
  BY <1>2 DEF Grow, Reached
<1>3. CASE Finish
  BY <1>3 DEF Finish
<1>4. CASE Sort
  BY <1>4 DEF Sort
<1>5. CASE Again
  <2>1. components \in Lists
    BY DEF Lists
  <2>2. components' \in Seq(SUBSET pattern)
    BY <1>5 DEF Again
  <2> QED
    BY <1>5, <2>1, <2>2 DEF Again
<1>6. CASE UNCHANGED vars
  BY <1>6 DEF vars
<1> QED
  BY <1>1, <1>2, <1>3, <1>4, <1>5, <1>6 DEF Next

\* connected_components keeps its types, and what is left and what was found are cells
\* of the pattern.
THEOREM Typing == Spec => []TypeOK
<1>1. Init => TypeOK
  BY InitTyped
<1>2. TypeOK /\ [Next]_vars => TypeOK'
  BY StepTyped
<1> QED
  BY <1>1, <1>2, PTL DEF Spec

---------------------------------------------------------------------------
(* Connected sets of cells.                                                *)

LEMMA SingleConnected ==
  ASSUME NEW c PROVE Connected({c})
BY DEF Connected

\* A connected set stays connected when neighbours of one of its cells are added.
LEMMA NeighboursConnected ==
  ASSUME NEW C \in SUBSET Plane, NEW c \in C, Connected(C),
         NEW N \in SUBSET Plane, \A n \in N : Adjacent(c, n)
  PROVE  Connected(C \cup N)
<1> SUFFICES ASSUME NEW part \in SUBSET (C \cup N), part # {}, part # C \cup N
             PROVE  \E a \in part, b \in (C \cup N) \ part : Adjacent(a, b)
  BY DEF Connected
<1>1. CASE part \cap C = {}
  <2> PICK n \in part : n \in N
    BY <1>1
  <2> QED
    BY <1>1, AdjacentSymmetric
<1>2. CASE C \subseteq part
  <2> PICK n \in N : n \notin part
    BY <1>2
  <2> QED
    BY <1>2
<1>3. CASE part \cap C # {} /\ ~(C \subseteq part)
  <2>1. part \cap C \in SUBSET C /\ part \cap C # C
    BY <1>3
  <2> PICK a \in part \cap C, b \in C \ (part \cap C) : Adjacent(a, b)
    BY <1>3, <2>1 DEF Connected
  <2> QED
    OBVIOUS
<1> QED
  BY <1>1, <1>2, <1>3

---------------------------------------------------------------------------
(* The components.                                                         *)

\* Every cell is somewhere; what is finished is connected and touches nothing else;
\* what grows is connected and touches what is left only at cells of the stack.
Filling ==
  /\ component \cap remaining = {}
  /\ \A c \in pattern :
       c \in remaining \/ c \in component \/ \E i \in DOMAIN components : c \in components[i]
  /\ \A i \in DOMAIN components :
       /\ components[i] # {}
       /\ Connected(components[i])
       /\ Apart(components[i], component)
       /\ Apart(components[i], remaining)
  /\ \A i, j \in DOMAIN components : i # j => Apart(components[i], components[j])
  /\ pc = "grow" =>
       /\ component # {}
       /\ Connected(component)
       /\ \A a \in component \ stack, b \in remaining : ~Adjacent(a, b)
  /\ pc # "grow" => component = {} /\ stack = {}
  /\ pc = "done" => remaining = {}

LEMMA InitFilling == Init => Filling
BY DEF Init, Filling

LEMMA StepFilling == TypeOK /\ Filling /\ [Next]_vars => Filling'
<1> SUFFICES ASSUME TypeOK, Filling, [Next]_vars PROVE Filling'
  OBVIOUS
<1>1. CASE Seed
  <2> PICK seed \in remaining :
        /\ remaining' = remaining \ {seed}
        /\ component' = {seed}
        /\ stack' = {seed}
    BY <1>1 DEF Seed
  <2>1. Connected(component')
    BY SingleConnected
  <2>2. pc' = "grow" /\ UNCHANGED <<pattern, components>>
    BY <1>1 DEF Seed
  <2>3. \A i \in DOMAIN components :
          Apart(components[i], component') /\ Apart(components[i], remaining')
    BY DEF Filling, Apart
  <2> QED
    BY <1>1, <2>1, <2>2, <2>3 DEF Filling, Seed
<1>2. CASE Grow
  <2> PICK c \in stack :
        /\ remaining' = remaining \ Reached(c)
        /\ component' = component \cup Reached(c)
        /\ stack' = (stack \ {c}) \cup Reached(c)
    BY <1>2 DEF Grow
  <2>1. pc = "grow" /\ pc' = "grow" /\ UNCHANGED <<pattern, components>>
    BY <1>2 DEF Grow
  <2>2. Reached(c) \subseteq remaining /\ \A n \in Reached(c) : Adjacent(c, n)
    BY DEF Reached
  <2>3. Connected(component')
    <3>1. component \in SUBSET Plane /\ Reached(c) \in SUBSET Plane /\ c \in component
      BY <2>2 DEF TypeOK, Plane
    <3>2. Connected(component)
      BY <2>1 DEF Filling
    <3> QED
      BY <3>1, <3>2, <2>2, NeighboursConnected
  <2>4. \A i \in DOMAIN components :
          Apart(components[i], component') /\ Apart(components[i], remaining')
    BY <2>2 DEF Filling, Apart
  <2>5. \A a \in component' \ stack', b \in remaining' : ~Adjacent(a, b)
    <3> TAKE a \in component' \ stack', b \in remaining'
    <3>1. CASE a = c
      BY <3>1 DEF Reached
    <3>2. CASE a # c
      BY <3>2, <2>1 DEF Filling
    <3> QED
      BY <3>1, <3>2
  <2>6. component' \cap remaining' = {} /\ component' # {}
    BY <2>1, <2>2 DEF Filling
  <2>7. \A d \in pattern' :
          d \in remaining' \/ d \in component' \/ \E i \in DOMAIN components' : d \in components'[i]
    BY <2>1 DEF Filling
  <2> QED
    BY <2>1, <2>3, <2>4, <2>5, <2>6, <2>7 DEF Filling
<1>3. CASE Finish
  <2> DEFINE n == Len(components) + 1
  <2>1. /\ pc = "grow" /\ stack = {} /\ pc' = "seed"
        /\ component' = {}
        /\ components' = Append(components, component)
        /\ UNCHANGED <<pattern, remaining, stack>>
    BY <1>3 DEF Finish
  <2>2. /\ DOMAIN components' = 1 .. n /\ components'[n] = component
        /\ DOMAIN components = 1 .. n - 1
        /\ \A i \in 1 .. n - 1 : components'[i] = components[i]
    BY <2>1 DEF TypeOK
  <2>3. /\ component # {} /\ Connected(component)
        /\ Apart(component, remaining)
    BY <2>1 DEF Filling, Apart
  <2>4. \A i \in 1 .. n - 1 :
          /\ components[i] # {} /\ Connected(components[i])
          /\ Apart(components[i], component) /\ Apart(components[i], remaining)
    BY <2>2 DEF Filling
  <2>5. \A i \in 1 .. n - 1 : Apart(component, components[i])
    <3> TAKE i \in 1 .. n - 1
    <3>1. components[i] \in SUBSET Plane /\ component \in SUBSET Plane
      BY <2>2 DEF TypeOK, Plane
    <3> QED
      BY <3>1, <2>4, AdjacentSymmetric DEF Apart
  <2>6. \A i \in DOMAIN components' :
          /\ components'[i] # {} /\ Connected(components'[i])
          /\ Apart(components'[i], component') /\ Apart(components'[i], remaining')
    BY <2>1, <2>2, <2>3, <2>4 DEF Apart
  <2>7. \A i, j \in DOMAIN components' : i # j => Apart(components'[i], components'[j])
    <3> TAKE i, j \in DOMAIN components'
    <3>1. CASE i = n
      BY <3>1, <2>2, <2>5
    <3>2. CASE j = n
      BY <3>2, <2>2, <2>4
    <3>3. CASE i # n /\ j # n
      BY <3>3, <2>2 DEF Filling
    <3> QED
      BY <3>1, <3>2, <3>3
  <2>8. \A d \in pattern' :
          d \in remaining' \/ d \in component' \/ \E i \in DOMAIN components' : d \in components'[i]
    <3> SUFFICES ASSUME NEW d \in pattern, d \notin remaining
                 PROVE  \E i \in 1 .. n : d \in components'[i]
      BY <2>1, <2>2
    <3>1. CASE d \in component
      BY <3>1, <2>2 DEF TypeOK
    <3>2. CASE d \notin component
      BY <3>2, <2>2 DEF Filling
    <3> QED
      BY <3>1, <3>2
  <2> QED
    BY <2>1, <2>6, <2>7, <2>8 DEF Filling
<1>4. CASE Sort
  <2> DEFINE D == DOMAIN components
  <2> PICK perm \in [D -> D] :
        /\ IsStableSort(perm)
        /\ components' = [k \in D |-> components[perm[k]]]
    BY <1>4 DEF Sort
  <2>1. /\ pc = "seed" /\ remaining = {} /\ pc' = "done"
        /\ UNCHANGED <<pattern, remaining, component, stack>>
    BY <1>4 DEF Sort
  <2>2. DOMAIN components' = D /\ \A k \in D : perm[k] \in D /\ components'[k] = components[perm[k]]
    OBVIOUS
  <2>3. \A i \in D : \E k \in D : perm[k] = i
    BY DEF IsStableSort
  <2>4. \A k, l \in D : k # l => perm[k] # perm[l]
    <3> SUFFICES ASSUME NEW k \in D, NEW l \in D, k < l PROVE perm[k] # perm[l]
      BY DEF TypeOK
    <3>1. \/ CornerBefore(components[perm[k]], components[perm[l]])
          \/ perm[k] < perm[l]
      BY DEF IsStableSort
    <3>2. CASE perm[k] < perm[l]
      BY <3>2, <2>2 DEF TypeOK
    <3>3. CASE CornerBefore(components[perm[k]], components[perm[l]])
      BY <3>3 DEF CornerBefore
    <3> QED
      BY <3>1, <3>2, <3>3
  <2>5. \A i, j \in DOMAIN components' : i # j => Apart(components'[i], components'[j])
    BY <2>2, <2>4 DEF Filling
  <2>6. \A i \in DOMAIN components' :
          /\ components'[i] # {} /\ Connected(components'[i])
          /\ Apart(components'[i], component') /\ Apart(components'[i], remaining')
    BY <2>1, <2>2 DEF Filling
  <2>7. \A d \in pattern' :
          d \in remaining' \/ d \in component' \/ \E i \in DOMAIN components' : d \in components'[i]
    BY <2>1, <2>2, <2>3 DEF Filling
  <2> QED
    BY <2>1, <2>5, <2>6, <2>7 DEF Filling
<1>5. CASE Again
  BY <1>5 DEF Again, Filling
<1>6. CASE UNCHANGED vars
  BY <1>6 DEF vars, Filling
<1> QED
  BY <1>1, <1>2, <1>3, <1>4, <1>5, <1>6 DEF Next

\* "maximal 8-connected components": for every pattern and every choice of set.pop the
\* returned list covers the pattern, and its entries are connected and do not touch.
THEOREM Maximal == Spec => []MaximalComponents
<1>1. Init => TypeOK /\ Filling
  BY InitTyped, InitFilling
<1>2. TypeOK /\ Filling /\ [Next]_vars => (TypeOK /\ Filling)'
  BY StepTyped, StepFilling
<1>3. TypeOK /\ Filling => MaximalComponents
  BY DEF TypeOK, Filling, MaximalComponents
<1> QED
  BY <1>1, <1>2, <1>3, PTL DEF Spec

---------------------------------------------------------------------------
(* The eight rotations and reflections.                                    *)

\* Image, for a cell.
Turned(m, c) == <<m[1] * c[1] + m[2] * c[2], m[3] * c[1] + m[4] * c[2]>>

LEMMA ImageIs ==
  ASSUME NEW m, NEW S
  PROVE  Image(m, S) = {Turned(m, c) : c \in S}
BY DEF Image, Turned

Eight ==
  {<<1, 0, 0, 1>>, <<1, 0, 0, -1>>, <<-1, 0, 0, 1>>, <<-1, 0, 0, -1>>,
   <<0, 1, 1, 0>>, <<0, 1, -1, 0>>, <<0, -1, 1, 0>>, <<0, -1, -1, 0>>}

\* There are eight of them.
LEMMA D8IsEight == D8 = Eight
<1>1. D8 \subseteq Eight
  <2> SUFFICES ASSUME NEW m \in D8 PROVE m \in Eight
    OBVIOUS
  <2>1. m \in (-1 .. 1) \X (-1 .. 1) \X (-1 .. 1) \X (-1 .. 1)
        /\ m[1] * m[1] + m[2] * m[2] = 1 /\ m[3] * m[3] + m[4] * m[4] = 1
        /\ m[1] * m[3] + m[2] * m[4] = 0
    BY DEF D8
  <2>2. m = <<m[1], m[2], m[3], m[4]>>
        /\ m[1] \in {-1, 0, 1} /\ m[2] \in {-1, 0, 1} /\ m[3] \in {-1, 0, 1} /\ m[4] \in {-1, 0, 1}
    BY <2>1
  <2>3. \/ m[1] \in {-1, 1} /\ m[2] = 0
        \/ m[1] = 0 /\ m[2] \in {-1, 1}
    BY <2>1, <2>2
  <2>4. \/ m[3] \in {-1, 1} /\ m[4] = 0
        \/ m[3] = 0 /\ m[4] \in {-1, 1}
    BY <2>1, <2>2
  <2>5. \/ m[1] \in {-1, 1} /\ m[2] = 0 /\ m[3] = 0 /\ m[4] \in {-1, 1}
        \/ m[1] = 0 /\ m[2] \in {-1, 1} /\ m[3] \in {-1, 1} /\ m[4] = 0
    BY <2>1, <2>3, <2>4
  <2> QED
    BY <2>2, <2>5 DEF Eight
<1>2. Eight \subseteq D8
  BY DEF D8, Eight
<1> QED
  BY <1>1, <1>2

\* A turned cell is a cell, and turning goes with shifting.
LEMMA TurnedCell ==
  ASSUME NEW m \in D8, NEW c \in Plane
  PROVE  Turned(m, c) \in Plane
<1>1. m \in Eight /\ c[1] \in Int /\ c[2] \in Int
  BY D8IsEight, Coordinates
<1> QED
  BY <1>1 DEF Eight, Turned, Plane

LEMMA TurnedShift ==
  ASSUME NEW m \in D8, NEW c \in Plane, NEW d \in Plane
  PROVE  Turned(m, Shift(c, d)) = Shift(Turned(m, c), Turned(m, d))
<1>1. m \in Eight /\ c[1] \in Int /\ c[2] \in Int /\ d[1] \in Int /\ d[2] \in Int
  BY D8IsEight, Coordinates
<1>2. \A a, b, x, y, u, v \in Int : a \in -1 .. 1 /\ b \in -1 .. 1 =>
        a * (x + u) + b * (y + v) = (a * x + b * y) + (a * u + b * v)
  <2> TAKE a, b, x, y, u, v \in Int
  <2> HAVE a \in -1 .. 1 /\ b \in -1 .. 1
  <2>1. a \in {-1, 0, 1} /\ b \in {-1, 0, 1}
    OBVIOUS
  <2> QED
    BY <2>1
<1>3. m[1] \in -1 .. 1 /\ m[2] \in -1 .. 1 /\ m[3] \in -1 .. 1 /\ m[4] \in -1 .. 1
  BY <1>1 DEF Eight
<1>4. /\ m[1] * (c[1] + d[1]) + m[2] * (c[2] + d[2])
           = (m[1] * c[1] + m[2] * c[2]) + (m[1] * d[1] + m[2] * d[2])
      /\ m[3] * (c[1] + d[1]) + m[4] * (c[2] + d[2])
           = (m[3] * c[1] + m[4] * c[2]) + (m[3] * d[1] + m[4] * d[2])
  BY <1>1, <1>2, <1>3
<1> QED
  BY <1>4 DEF Turned, Shift

\* The neighbourhood is turned onto itself.
LEMMA TurnedAround ==
  ASSUME NEW m \in D8
  PROVE  /\ \A d \in Around : Turned(m, d) \in Around
         /\ \A d \in Offsets : Turned(m, d) \in Offsets
<1>1. m \in Eight
  BY D8IsEight
<1>2. ASSUME NEW d \in Around
      PROVE  Turned(m, d) \in Around /\ (Turned(m, d) = <<0, 0>> => d = <<0, 0>>)
  <2>1. d[1] \in -1 .. 1 /\ d[2] \in -1 .. 1 /\ d = <<d[1], d[2]>>
    BY DEF Around
  <2> QED
    BY <1>1, <2>1 DEF Eight, Turned, Around
<1> QED
  BY <1>2 DEF Offsets

\* Each of them can be undone by one of them.
LEMMA TurnBack ==
  ASSUME NEW m \in D8
  PROVE  \E w \in D8 : \A c \in Plane : Turned(w, Turned(m, c)) = c /\ Turned(m, Turned(w, c)) = c
<1> DEFINE w == <<m[1], m[3], m[2], m[4]>>
<1>1. m \in Eight
  BY D8IsEight
<1>2. w \in Eight
  BY <1>1 DEF Eight
<1>3. ASSUME NEW c \in Plane
      PROVE  Turned(w, Turned(m, c)) = c /\ Turned(m, Turned(w, c)) = c
  <2>1. c[1] \in Int /\ c[2] \in Int /\ c = <<c[1], c[2]>>
    BY Coordinates
  <2> QED
    BY <1>1, <2>1 DEF Eight, Turned
<1> HIDE DEF w
<1> QED
  BY <1>2, <1>3, D8IsEight

\* Two after each other are one of them.
LEMMA TurnTwice ==
  ASSUME NEW m \in D8, NEW n \in D8
  PROVE  \E w \in D8 : \A c \in Plane : Turned(m, Turned(n, c)) = Turned(w, c)
<1> DEFINE w == <<m[1] * n[1] + m[2] * n[3], m[1] * n[2] + m[2] * n[4],
                  m[3] * n[1] + m[4] * n[3], m[3] * n[2] + m[4] * n[4]>>
<1>1. m \in Eight /\ n \in Eight
  BY D8IsEight
<1>2. w \in Eight
  BY <1>1 DEF Eight
<1>3. ASSUME NEW c \in Plane
      PROVE  Turned(m, Turned(n, c)) = Turned(w, c)
  <2>1. c[1] \in Int /\ c[2] \in Int
    BY Coordinates
  <2> QED
    BY <1>1, <2>1 DEF Eight, Turned
<1> HIDE DEF w
<1> QED
  BY <1>2, <1>3, D8IsEight

---------------------------------------------------------------------------
(* Images of patterns.                                                     *)

\* A turned pattern is a pattern, and a turned figure a figure.
LEMMA ImageInPlane ==
  ASSUME NEW m \in D8, NEW S \in SUBSET Plane
  PROVE  Image(m, S) \in SUBSET Plane
BY ImageIs, TurnedCell

LEMMA ImageFigure ==
  ASSUME NEW m \in D8, NEW S \in Figures
  PROVE  Image(m, S) \in Figures
<1>1. PICK b \in Nat : \A c \in S : c[1] \in -b .. b /\ c[2] \in -b .. b
  BY DEF Figures
<1>2. m \in Eight
  BY D8IsEight
<1>3. ASSUME NEW e \in Image(m, S)
      PROVE  e[1] \in -b .. b /\ e[2] \in -b .. b
  <2>1. PICK c \in S : e = Turned(m, c)
    BY ImageIs
  <2>2. c[1] \in -b .. b /\ c[2] \in -b .. b
    BY <1>1
  <2>3. e[1] = m[1] * c[1] + m[2] * c[2] /\ e[2] = m[3] * c[1] + m[4] * c[2]
    BY <2>1 DEF Turned
  <2> QED
    BY <1>2, <2>2, <2>3 DEF Eight
<1>4. Image(m, S) \in SUBSET Plane
  BY FigureCells, ImageInPlane
<1> QED
  BY <1>3, <1>4 DEF Figures

\* A cell is in a pattern exactly when its image is in the image.
LEMMA ImageMember ==
  ASSUME NEW m \in D8, NEW S \in SUBSET Plane, NEW c \in Plane
  PROVE  Turned(m, c) \in Image(m, S) <=> c \in S
<1>1. PICK w \in D8 : \A d \in Plane : Turned(w, Turned(m, d)) = d
  BY TurnBack
<1>2. ASSUME Turned(m, c) \in Image(m, S)
      PROVE  c \in S
  <2>1. PICK d \in S : Turned(m, c) = Turned(m, d)
    BY <1>2, ImageIs
  <2>2. c = d
    BY <1>1, <2>1
  <2> QED
    BY <2>2
<1>3. c \in S => Turned(m, c) \in Image(m, S)
  BY ImageIs
<1> QED
  BY <1>2, <1>3

\* Turning there and back, turning twice, and turning what was moved.
LEMMA ImageBack ==
  ASSUME NEW m \in D8
  PROVE  \E w \in D8 : \A S \in SUBSET Plane : Image(w, Image(m, S)) = S /\ Image(m, Image(w, S)) = S
<1>1. PICK w \in D8 : \A c \in Plane : Turned(w, Turned(m, c)) = c /\ Turned(m, Turned(w, c)) = c
  BY TurnBack
<1>2. ASSUME NEW S \in SUBSET Plane
      PROVE  Image(w, Image(m, S)) = S /\ Image(m, Image(w, S)) = S
  <2>1. Image(w, Image(m, S)) = {Turned(w, Turned(m, c)) : c \in S}
    BY ImageIs
  <2>2. Image(m, Image(w, S)) = {Turned(m, Turned(w, c)) : c \in S}
    BY ImageIs
  <2> QED
    BY <1>1, <2>1, <2>2
<1> QED
  BY <1>2

LEMMA ImageTwice ==
  ASSUME NEW m \in D8, NEW n \in D8
  PROVE  \E w \in D8 : \A S \in SUBSET Plane : Image(m, Image(n, S)) = Image(w, S)
<1>1. PICK w \in D8 : \A c \in Plane : Turned(m, Turned(n, c)) = Turned(w, c)
  BY TurnTwice
<1>2. ASSUME NEW S \in SUBSET Plane
      PROVE  Image(m, Image(n, S)) = Image(w, S)
  <2>1. Image(m, Image(n, S)) = {Turned(m, Turned(n, c)) : c \in S}
    BY ImageIs
  <2>2. Image(w, S) = {Turned(w, c) : c \in S}
    BY ImageIs
  <2> QED
    BY <1>1, <2>1, <2>2
<1> QED
  BY <1>2

LEMMA ImageMoved ==
  ASSUME NEW m \in D8, NEW S \in SUBSET Plane, NEW v \in Plane
  PROVE  Image(m, Translate(S, v)) = Translate(Image(m, S), Turned(m, v))
<1>1. Image(m, Translate(S, v)) = {Turned(m, Shift(c, v)) : c \in S}
  BY ImageIs DEF Translate
<1>2. Translate(Image(m, S), Turned(m, v)) = {Shift(Turned(m, c), Turned(m, v)) : c \in S}
  BY ImageIs DEF Translate
<1>3. \A c \in S : Turned(m, Shift(c, v)) = Shift(Turned(m, c), Turned(m, v))
  BY TurnedShift
<1> QED
  BY <1>1, <1>2, <1>3

\* The identity is one of the eight.
LEMMA ImageSelf ==
  \E m \in D8 : \A S \in SUBSET Plane : Image(m, S) = S
<1> DEFINE m == <<1, 0, 0, 1>>
<1>1. m \in D8
  BY D8IsEight DEF Eight
<1>2. ASSUME NEW S \in SUBSET Plane
      PROVE  Image(m, S) = S
  <2>1. \A c \in S : Turned(m, c) = c
    <3> TAKE c \in S
    <3>1. c[1] \in Int /\ c[2] \in Int /\ c = <<c[1], c[2]>>
      BY Coordinates
    <3> QED
      BY <3>1 DEF Turned
  <2> QED
    BY <2>1, ImageIs
<1> HIDE DEF m
<1> QED
  BY <1>1, <1>2

---------------------------------------------------------------------------
(* A turned pattern evolves as it would have as it was.                    *)

\* As many neighbours live.
LEMMA TurnedCount ==
  ASSUME NEW m \in D8, NEW S \in SUBSET Plane, NEW c \in Plane
  PROVE  Count(Image(m, S), Turned(m, c)) = Count(S, c)
<1> DEFINE A == {d \in Offsets : Shift(c, d) \in S}
           B == {d \in Offsets : Shift(Turned(m, c), d) \in Image(m, S)}
           f == [d \in A |-> Turned(m, d)]
<1>1. \A d \in Offsets : d \in Plane /\ Turned(m, d) \in Offsets
  BY OffsetsInPlane, TurnedAround
<1>2. \A d \in Offsets : Turned(m, d) \in B <=> d \in A
  <2> TAKE d \in Offsets
  <2>1. d \in Plane /\ Turned(m, d) \in Offsets
    BY <1>1
  <2>2. Shift(Turned(m, c), Turned(m, d)) = Turned(m, Shift(c, d)) /\ Shift(c, d) \in Plane
    BY <2>1, TurnedShift, ShiftType
  <2>3. Turned(m, Shift(c, d)) \in Image(m, S) <=> Shift(c, d) \in S
    BY <2>2, ImageMember
  <2> QED
    BY <2>1, <2>2, <2>3
<1>3. PICK w \in D8 : \A e \in Plane : Turned(w, Turned(m, e)) = e /\ Turned(m, Turned(w, e)) = e
  BY TurnBack
<1>4. \A e \in Offsets : e \in Plane /\ Turned(w, e) \in Offsets /\ Turned(m, Turned(w, e)) = e
  BY <1>1, <1>3, TurnedAround
<1>5. IsFiniteSet(A)
  <2>1. IsFiniteSet(Offsets)
    <3>1. IsFiniteSet(-1 .. 1)
      <4>1. -1 \in Int /\ 1 \in Int
        OBVIOUS
      <4> QED
        BY <4>1, FS_Interval
    <3>2. IsFiniteSet(Around)
      BY <3>1, FS_Product DEF Around
    <3> QED
      BY <3>2, FS_Subset DEF Offsets
  <2> QED
    BY <2>1, FS_Subset
<1>6. A \subseteq Offsets /\ B \subseteq Offsets
  OBVIOUS
<1>7. Count(S, c) = Cardinality(A) /\ Count(Image(m, S), Turned(m, c)) = Cardinality(B)
  BY DEF Count
<1> HIDE DEF A, B
<1>8. f \in Bijection(A, B)
  <2>1. f \in [A -> B]
    BY <1>2, <1>6
  <2>2. \A d, e \in A : f[d] = f[e] => d = e
    <3> SUFFICES ASSUME NEW d \in A, NEW e \in A, Turned(m, d) = Turned(m, e) PROVE d = e
      OBVIOUS
    <3>1. d \in Plane /\ e \in Plane
      BY <1>1, <1>6
    <3>2. Turned(w, Turned(m, d)) = d /\ Turned(w, Turned(m, e)) = e
      BY <1>3, <3>1
    <3> QED
      BY <3>2
  <2>3. \A e \in B : \E d \in A : f[d] = e
    <3> TAKE e \in B
    <3>1. Turned(w, e) \in Offsets /\ Turned(m, Turned(w, e)) = e
      BY <1>4, <1>6
    <3>2. Turned(w, e) \in A
      BY <1>2, <3>1
    <3> QED
      BY <3>1, <3>2
  <2> HIDE DEF f
  <2> QED
    BY <2>1, <2>2, <2>3 DEF Bijection, Injection, Surjection, IsInjective
<1> HIDE DEF f
<1>9. Cardinality(B) = Cardinality(A)
  BY <1>5, <1>8, FS_Bijection DEF ExistsBijection
<1> QED
  BY <1>7, <1>9

LEMMA TurnedGeneration ==
  ASSUME NEW m \in D8, NEW S \in SUBSET Plane
  PROVE  Generation(Image(m, S)) = Image(m, Generation(S))
<1>1. PICK w \in D8 : \A e \in Plane : Turned(w, Turned(m, e)) = e /\ Turned(m, Turned(w, e)) = e
  BY TurnBack
<1>2. Image(m, S) \in SUBSET Plane /\ Generation(S) \in SUBSET Plane
  BY ImageInPlane, GenerationInPlane
<1>3. Generation(Image(m, S)) \in SUBSET Plane
  BY <1>2, GenerationInPlane
<1>4. \A T \in SUBSET Plane, c \in Plane : c \in Generation(T) <=>
        /\ \E a \in T, d \in Around : c = Shift(a, d)
        /\ Lives(c \in T, Count(T, c))
  BY DEF Generation
<1>5. ASSUME NEW c \in Plane
      PROVE  (\E b \in Image(m, S), e \in Around : Turned(m, c) = Shift(b, e))
               <=> (\E a \in S, d \in Around : c = Shift(a, d))
  <2>1. ASSUME NEW a \in S, NEW d \in Around, c = Shift(a, d)
        PROVE  \E b \in Image(m, S), e \in Around : Turned(m, c) = Shift(b, e)
    <3>1. a \in Plane /\ d \in Plane
      BY OffsetsInPlane
    <3>2. Turned(m, c) = Shift(Turned(m, a), Turned(m, d))
      BY <2>1, <3>1, TurnedShift
    <3>3. Turned(m, a) \in Image(m, S) /\ Turned(m, d) \in Around
      BY ImageIs, TurnedAround
    <3> QED
      BY <3>2, <3>3
  <2>2. ASSUME NEW b \in Image(m, S), NEW e \in Around, Turned(m, c) = Shift(b, e)
        PROVE  \E a \in S, d \in Around : c = Shift(a, d)
    <3>1. PICK a \in S : b = Turned(m, a)
      BY ImageIs
    <3>2. Turned(w, e) \in Around /\ a \in Plane /\ e \in Plane
      BY OffsetsInPlane, TurnedAround
    <3>3. Turned(m, a) \in Plane
      BY <3>2, TurnedCell
    <3>4. Turned(w, Shift(Turned(m, a), e)) = Shift(Turned(w, Turned(m, a)), Turned(w, e))
      BY <3>2, <3>3, TurnedShift
    <3>5. Turned(w, Turned(m, a)) = a /\ Turned(w, Turned(m, c)) = c
      BY <1>1, <3>2
    <3>6. c = Shift(a, Turned(w, e))
      BY <2>2, <3>1, <3>4, <3>5
    <3> QED
      BY <3>2, <3>6
  <2> QED
    BY <2>1, <2>2
<1>6. ASSUME NEW c \in Plane
      PROVE  Turned(m, c) \in Generation(Image(m, S)) <=> c \in Generation(S)
  <2>1. Turned(m, c) \in Plane
    BY TurnedCell
  <2>2. Count(Image(m, S), Turned(m, c)) = Count(S, c) /\ (Turned(m, c) \in Image(m, S) <=> c \in S)
    BY TurnedCount, ImageMember
  <2>3. Lives(Turned(m, c) \in Image(m, S), Count(Image(m, S), Turned(m, c))) <=> Lives(c \in S, Count(S, c))
    BY <2>2 DEF Lives
  <2> QED
    BY <1>2, <1>4, <1>5, <2>1, <2>3
<1>7. ASSUME NEW e \in Generation(Image(m, S))
      PROVE  e \in Image(m, Generation(S))
  <2>1. e \in Plane
    BY <1>3
  <2>2. Turned(w, e) \in Plane /\ Turned(m, Turned(w, e)) = e
    BY <1>1, <2>1, TurnedCell
  <2>3. Turned(w, e) \in Generation(S)
    BY <1>6, <1>7, <2>2
  <2> QED
    BY <2>2, <2>3, ImageIs
<1>8. ASSUME NEW e \in Image(m, Generation(S))
      PROVE  e \in Generation(Image(m, S))
  <2>1. PICK c \in Generation(S) : e = Turned(m, c)
    BY ImageIs
  <2> QED
    BY <1>2, <1>6, <2>1
<1> QED
  BY <1>7, <1>8

\* And so all its generations.
LEMMA AtTurned ==
  ASSUME NEW m \in D8, NEW S \in Figures, NEW i \in Nat
  PROVE  At(Image(m, S), i) = Image(m, At(S, i))
<1> DEFINE T == {k \in Nat : At(Image(m, S), k) = Image(m, At(S, k))}
<1>1. Image(m, S) \in Figures
  BY ImageFigure
<1>2. 0 \in T
  BY <1>1, AtIs
<1>3. ASSUME NEW k \in Nat, k \in T
      PROVE  k + 1 \in T
  <2>1. At(Image(m, S), k + 1) = Generation(At(Image(m, S), k))
    BY <1>1, AtIs
  <2>2. At(S, k + 1) = Generation(At(S, k)) /\ At(S, k) \in SUBSET Plane
    BY AtIs, FigureCells
  <2>3. Generation(Image(m, At(S, k))) = Image(m, Generation(At(S, k)))
    BY <2>2, TurnedGeneration
  <2> QED
    BY <1>3, <2>1, <2>2, <2>3
<1> HIDE DEF T
<1>4. Nat \subseteq T
  BY <1>2, <1>3, Induction
<1> QED
  BY <1>4 DEF T

---------------------------------------------------------------------------
(* The forms of an object whose shape comes up again within the cap.       *)

\* What comes up again has moved, and what has moved comes up again.
LEMMA RecursMoved ==
  ASSUME NEW S \in Figures, NEW n \in Nat
  PROVE  Recurs(S, n) <=> \E v \in Plane : At(S, n) = Translate(S, v)
<1>1. At(S, n) \in Figures /\ S \in SUBSET Plane /\ <<0, 0>> \in Plane
  BY AtIs, FigureCells DEF Plane
<1>2. CASE S = {}
  <2>1. At(S, n) = {} /\ Translate(S, <<0, 0>>) = {}
    BY <1>1, <1>2, AtEmpty, TranslateNowhere
  <2> QED
    BY <1>1, <1>2, <2>1 DEF Recurs
<1>3. ASSUME S # {}, Recurs(S, n)
      PROVE  \E v \in Plane : At(S, n) = Translate(S, v)
  <2>1. Normalized(At(S, n)) = Normalized(S)
    BY <1>3 DEF Recurs
  <2> QED
    BY <1>1, <1>3, <2>1, SameShape
<1>4. ASSUME NEW v \in Plane, At(S, n) = Translate(S, v)
      PROVE  Recurs(S, n)
  BY <1>4, ShapeMoves DEF Recurs
<1> QED
  BY <1>2, <1>3, <1>4

\* From then on every generation has moved.
LEMMA LaterMoved ==
  ASSUME NEW S \in Figures, NEW n \in Nat, Recurs(S, n)
  PROVE  \E v \in Plane : \A i \in Nat : At(S, n + i) = Translate(At(S, i), v)
<1>1. PICK v \in Plane : At(S, n) = Translate(S, v)
  BY RecursMoved
<1>2. ASSUME NEW i \in Nat
      PROVE  At(S, n + i) = Translate(At(S, i), v)
  <2>1. At(S, n + i) = At(At(S, n), i)
    BY AtAdds
  <2>2. At(Translate(S, v), i) = Translate(At(S, i), v)
    BY AtMoves
  <2> QED
    BY <1>1, <2>1, <2>2
<1> QED
  BY <1>2

\* A form of S: some image of some generation, normalized.
FormAt(m, S, i) == Normalized(Image(m, At(S, i)))

AllForms(S) == {FormAt(m, S, i) : m \in D8, i \in Nat}

LEMMA FormAgain ==
  ASSUME NEW S \in Figures, NEW n \in Nat, Recurs(S, n), NEW m \in D8, NEW i \in Nat
  PROVE  FormAt(m, S, n + i) = FormAt(m, S, i)
<1>1. PICK v \in Plane : At(S, n + i) = Translate(At(S, i), v)
  BY LaterMoved
<1>2. At(S, i) \in Figures /\ At(S, i) \in SUBSET Plane
  BY AtIs, FigureCells
<1>3. Image(m, Translate(At(S, i), v)) = Translate(Image(m, At(S, i)), Turned(m, v))
  BY <1>2, ImageMoved
<1>4. Image(m, At(S, i)) \in Figures /\ Turned(m, v) \in Plane
  BY <1>2, ImageFigure, TurnedCell
<1>5. Normalized(Translate(Image(m, At(S, i)), Turned(m, v))) = Normalized(Image(m, At(S, i)))
  BY <1>4, ShapeMoves
<1> QED
  BY <1>1, <1>3, <1>5 DEF FormAt

\* _orbit_period finds a period within the cap, if there is one.
LEMMA OrbitPeriodIs ==
  ASSUME NEW S \in Figures
  PROVE  /\ OrbitPeriod(S) \in 1 .. Cap
         /\ Periodic(S) => Recurs(S, OrbitPeriod(S))
         /\ ~Periodic(S) => OrbitPeriod(S) = 1
<1> DEFINE g == Generations(S, Cap)
           back == {n \in 1 .. Cap : Normalized(g[n + 1]) = Normalized(S)}
<1>1. Cap \in Nat /\ 1 \in 1 .. Cap
  BY NoveltyAssumption
<1>2. \A n \in 1 .. Cap : g[n + 1] = At(S, n)
  BY <1>1, GenerationsAgree
<1>3. OrbitPeriod(S) = IF S = {} \/ back = {} THEN 1 ELSE Min(back)
  BY DEF OrbitPeriod
<1>4. \A n \in 1 .. Cap : n \in back <=> Recurs(S, n)
  BY <1>2 DEF Recurs
<1>5. back \subseteq 1 .. Cap
  OBVIOUS
<1> HIDE DEF g, back
<1>6. Periodic(S) <=> back # {}
  BY <1>4, <1>5 DEF Periodic
<1>7. CASE S = {}
  <2>1. Recurs(S, 1)
    BY <1>7, AtEmpty DEF Recurs
  <2> QED
    BY <1>1, <1>3, <1>7, <2>1 DEF Periodic
<1>8. CASE S # {} /\ back = {}
  BY <1>1, <1>3, <1>6, <1>8
<1>9. CASE S # {} /\ back # {}
  <2>1. back \in SUBSET Int /\ 1 \in Int /\ \A n \in back : 1 <= n
    BY <1>1, <1>5
  <2>2. Min(back) \in back
    BY <1>9, <2>1, MinIs
  <2> QED
    BY <1>3, <1>4, <1>5, <1>6, <1>9, <2>2
<1> QED
  BY <1>7, <1>8, <1>9

\* The phases are the generations of one period.
LEMMA PhasesAre ==
  ASSUME NEW S \in Figures
  PROVE  Phases(S) = {At(S, i) : i \in 0 .. OrbitPeriod(S) - 1}
<1> DEFINE p == OrbitPeriod(S)
           g == Generations(S, p - 1)
<1>1. Cap \in Nat
  BY NoveltyAssumption
<1>2. p \in 1 .. Cap
  BY OrbitPeriodIs
<1>3. Phases(S) = {g[n] : n \in DOMAIN g}
  BY DEF Phases, Range
<1> HIDE DEF p
<1>4. p - 1 \in Nat /\ (p - 1) + 1 = p
  BY <1>1, <1>2
<1>5. Len(g) = p /\ g \in Seq(Figures) /\ \A i \in 0 .. p - 1 : g[i + 1] = At(S, i)
  <2>1. g \in Seq(Figures) /\ Len(g) = (p - 1) + 1
    BY <1>4, GenerationsAre
  <2>2. \A i \in 0 .. p - 1 : g[i + 1] = At(S, i)
    BY <1>4, GenerationsAgree
  <2> QED
    BY <1>4, <2>1, <2>2
<1> HIDE DEF g
<1>6. DOMAIN g = 1 .. p
  BY <1>5
<1>7. \A n \in 1 .. p : n - 1 \in 0 .. p - 1 /\ (n - 1) + 1 = n
  BY <1>4
<1>8. \A i \in 0 .. p - 1 : i + 1 \in 1 .. p
  BY <1>4
<1>9. {g[n] : n \in DOMAIN g} = {At(S, i) : i \in 0 .. p - 1}
  <2>1. \A n \in 1 .. p : g[n] = At(S, n - 1)
    BY <1>5, <1>7
  <2>2. \A n \in 1 .. p : \E i \in 0 .. p - 1 : g[n] = At(S, i)
    BY <1>7, <2>1
  <2>3. \A i \in 0 .. p - 1 : \E n \in 1 .. p : g[n] = At(S, i)
    BY <1>5, <1>8
  <2> QED
    BY <1>6, <2>2, <2>3
<1> QED
  BY <1>3, <1>9 DEF p

LEMMA FormsAre ==
  ASSUME NEW S \in Figures
  PROVE  Forms(S) = {FormAt(m, S, i) : m \in D8, i \in 0 .. OrbitPeriod(S) - 1}
<1>1. Forms(S) = {Normalized(Image(m, phase)) : m \in D8, phase \in {At(S, i) : i \in 0 .. OrbitPeriod(S) - 1}}
  BY PhasesAre DEF Forms
<1> QED
  BY <1>1 DEF FormAt

\* independent_canonical finds every form of such an object.
LEMMA EveryForm ==
  ASSUME NEW S \in Figures, Periodic(S)
  PROVE  Forms(S) = AllForms(S)
<1> DEFINE p == OrbitPeriod(S)
<1>1. p \in Nat /\ p >= 1 /\ Recurs(S, p)
  <2>1. Cap \in Nat
    BY NoveltyAssumption
  <2> QED
    BY <2>1, OrbitPeriodIs
<1>2. Forms(S) = {FormAt(m, S, i) : m \in D8, i \in 0 .. p - 1}
  BY FormsAre
<1> HIDE DEF p
<1> DEFINE Early(i) == \E j \in 0 .. p - 1 : \A m \in D8 : FormAt(m, S, i) = FormAt(m, S, j)
           T == {k \in Nat : \A i \in 0 .. k : Early(i)}
<1>3. 0 \in T
  <2>1. 0 \in 0 .. p - 1 /\ \A i \in 0 .. 0 : i = 0
    BY <1>1
  <2> QED
    BY <2>1
<1>4. ASSUME NEW k \in Nat, k \in T
      PROVE  k + 1 \in T
  <2> SUFFICES ASSUME NEW i \in 0 .. k + 1
               PROVE  Early(i)
    OBVIOUS
  <2>1. CASE i \in 0 .. k
    BY <1>4, <2>1
  <2>2. CASE i \in 0 .. p - 1
    BY <2>2
  <2>3. CASE i \notin 0 .. k /\ i \notin 0 .. p - 1
    <3>1. i - p \in 0 .. k /\ i - p \in Nat /\ p + (i - p) = i
      BY <1>1, <2>3
    <3>2. Early(i - p)
      BY <1>4, <3>1
    <3>3. \A m \in D8 : FormAt(m, S, p + (i - p)) = FormAt(m, S, i - p)
      BY <1>1, <3>1, FormAgain
    <3> QED
      BY <3>1, <3>2, <3>3
  <2> QED
    BY <2>1, <2>2, <2>3
<1> HIDE DEF T
<1>5. Nat \subseteq T
  BY <1>3, <1>4, Induction
<1>6. \A i \in Nat : Early(i)
  BY <1>5 DEF T
<1>7. 0 .. p - 1 \subseteq Nat
  BY <1>1
<1> QED
  BY <1>2, <1>6, <1>7 DEF AllForms

---------------------------------------------------------------------------
(* No change of form changes the forms.                                    *)

\* T is periodic too, and its forms are those of S.
Same(S, T) == T \in Figures /\ Periodic(T) /\ Forms(T) = Forms(S)

\* It is enough that both recur and that each has the forms of the other.
LEMMA SameIf ==
  ASSUME NEW S \in Figures, Periodic(S), NEW T \in Figures,
         \A n \in 1 .. Cap : Recurs(S, n) => Recurs(T, n),
         \A m \in D8, i \in Nat : FormAt(m, S, i) \in AllForms(T) /\ FormAt(m, T, i) \in AllForms(S)
  PROVE  Same(S, T)
<1>1. Periodic(T)
  BY DEF Periodic
<1>2. ASSUME NEW f \in AllForms(S)
      PROVE  f \in AllForms(T)
  <2>1. PICK m \in D8, i \in Nat : f = FormAt(m, S, i)
    BY DEF AllForms
  <2> QED
    BY <2>1
<1>3. ASSUME NEW f \in AllForms(T)
      PROVE  f \in AllForms(S)
  <2>1. PICK m \in D8, i \in Nat : f = FormAt(m, T, i)
    BY DEF AllForms
  <2> QED
    BY <2>1
<1> QED
  BY <1>1, <1>2, <1>3, EveryForm DEF Same

\* Another generation.
LEMMA GenerationKept ==
  ASSUME NEW S \in Figures, Periodic(S)
  PROVE  Same(S, Generation(S))
<1> DEFINE T == Generation(S)
<1>1. T \in Figures /\ T = At(S, 1)
  BY GenerationFigure, AtOne
<1> HIDE DEF T
<1>2. \A i \in Nat : At(T, i) = At(S, 1 + i)
  BY <1>1, AtAdds
<1>3. ASSUME NEW n \in 1 .. Cap, Recurs(S, n)
      PROVE  Recurs(T, n)
  <2>1. n \in Nat /\ 1 + n = n + 1
    OBVIOUS
  <2>2. PICK v \in Plane : \A i \in Nat : At(S, n + i) = Translate(At(S, i), v)
    BY <1>3, <2>1, LaterMoved
  <2>3. At(T, n) = Translate(T, v)
    BY <1>1, <1>2, <2>1, <2>2
  <2> QED
    BY <1>1, <2>1, <2>3, RecursMoved
<1>4. ASSUME NEW m \in D8, NEW i \in Nat
      PROVE  FormAt(m, S, i) \in AllForms(T) /\ FormAt(m, T, i) \in AllForms(S)
  <2>1. PICK n \in 1 .. Cap : Recurs(S, n)
    BY DEF Periodic
  <2>2. n \in Nat /\ (n - 1) + i \in Nat /\ 1 + ((n - 1) + i) = n + i /\ 1 + i \in Nat
    OBVIOUS
  <2>3. FormAt(m, S, n + i) = FormAt(m, S, i)
    BY <2>1, <2>2, FormAgain
  <2>4. FormAt(m, T, (n - 1) + i) = FormAt(m, S, n + i)
    BY <1>2, <2>2 DEF FormAt
  <2>5. FormAt(m, T, i) = FormAt(m, S, 1 + i)
    BY <1>2 DEF FormAt
  <2> QED
    BY <2>2, <2>3, <2>4, <2>5 DEF AllForms
<1> QED
  BY <1>1, <1>3, <1>4, SameIf DEF T

\* Another place.
LEMMA MoveKept ==
  ASSUME NEW S \in Figures, Periodic(S), NEW v \in Plane
  PROVE  Same(S, Translate(S, v))
<1> DEFINE T == Translate(S, v)
<1>1. T \in Figures /\ \A i \in Nat : At(T, i) = Translate(At(S, i), v)
  BY TranslateFigure, AtMoves
<1>2. ASSUME NEW n \in 1 .. Cap, Recurs(S, n)
      PROVE  Recurs(T, n)
  <2>1. At(S, n) \in Figures /\ n \in Nat
    BY AtIs
  <2>2. Normalized(At(T, n)) = Normalized(At(S, n)) /\ Normalized(T) = Normalized(S)
    BY <1>1, <2>1, ShapeMoves
  <2> QED
    BY <1>2, <2>2 DEF Recurs
<1>3. ASSUME NEW m \in D8, NEW i \in Nat
      PROVE  FormAt(m, S, i) = FormAt(m, T, i)
  <2>1. At(S, i) \in Figures /\ At(S, i) \in SUBSET Plane
    BY AtIs, FigureCells
  <2>2. Image(m, At(T, i)) = Translate(Image(m, At(S, i)), Turned(m, v))
    BY <1>1, <2>1, ImageMoved
  <2>3. Image(m, At(S, i)) \in Figures /\ Turned(m, v) \in Plane
    BY <2>1, ImageFigure, TurnedCell
  <2> QED
    BY <2>2, <2>3, ShapeMoves DEF FormAt
<1> HIDE DEF T
<1>4. \A m \in D8, i \in Nat : FormAt(m, S, i) \in AllForms(T) /\ FormAt(m, T, i) \in AllForms(S)
  BY <1>3 DEF AllForms
<1> QED
  BY <1>1, <1>2, <1>4, SameIf DEF T

LEMMA NormalizedKept ==
  ASSUME NEW S \in Figures, Periodic(S)
  PROVE  Same(S, Normalized(S))
<1>1. CASE S = {}
  <2>1. Normalized(S) = S
    BY <1>1, NormalizedIs
  <2> QED
    BY <2>1 DEF Same
<1>2. CASE S # {}
  <2>1. TopLeft(S) \in Plane
    BY <1>2, CornerMoves
  <2>2. Away(TopLeft(S)) \in Plane
    BY <2>1, Opposed DEF Away
  <2> QED
    BY <1>2, <2>2, NormalizedIs, MoveKept
<1> QED
  BY <1>1, <1>2

\* Turned or reflected.
LEMMA TurnKept ==
  ASSUME NEW S \in Figures, Periodic(S), NEW m \in D8
  PROVE  Same(S, Image(m, S))
<1> DEFINE T == Image(m, S)
<1>1. T \in Figures /\ \A i \in Nat : At(T, i) = Image(m, At(S, i))
  BY ImageFigure, AtTurned
<1>2. \A i \in Nat : At(S, i) \in SUBSET Plane
  BY AtIs, FigureCells
<1>3. ASSUME NEW n \in 1 .. Cap, Recurs(S, n)
      PROVE  Recurs(T, n)
  <2>1. n \in Nat
    OBVIOUS
  <2>2. PICK v \in Plane : At(S, n) = Translate(S, v)
    BY <1>3, <2>1, RecursMoved
  <2>3. Image(m, Translate(S, v)) = Translate(T, Turned(m, v))
    BY FigureCells, ImageMoved
  <2>4. At(T, n) = Translate(T, Turned(m, v)) /\ Turned(m, v) \in Plane
    BY <1>1, <2>1, <2>2, <2>3, TurnedCell
  <2> HIDE DEF T
  <2> QED
    BY <1>1, <2>1, <2>4, RecursMoved
<1> HIDE DEF T
<1>4. ASSUME NEW n \in D8, NEW i \in Nat
      PROVE  FormAt(n, T, i) \in AllForms(S)
  <2>1. PICK w \in D8 : \A U \in SUBSET Plane : Image(n, Image(m, U)) = Image(w, U)
    BY ImageTwice
  <2>2. FormAt(n, T, i) = FormAt(w, S, i)
    BY <1>1, <1>2, <2>1 DEF FormAt
  <2> QED
    BY <2>2 DEF AllForms
<1>5. ASSUME NEW n \in D8, NEW i \in Nat
      PROVE  FormAt(n, S, i) \in AllForms(T)
  <2>1. PICK b \in D8 : \A U \in SUBSET Plane : Image(b, Image(m, U)) = U
    BY ImageBack
  <2>2. PICK w \in D8 : \A U \in SUBSET Plane : Image(n, Image(b, U)) = Image(w, U)
    BY ImageTwice
  <2>3. At(S, i) \in SUBSET Plane /\ Image(m, At(S, i)) \in SUBSET Plane
    BY <1>2, ImageInPlane
  <2>4. Image(w, At(T, i)) = Image(n, At(S, i))
    BY <1>1, <2>1, <2>2, <2>3
  <2>5. FormAt(n, S, i) = FormAt(w, T, i)
    BY <2>4 DEF FormAt
  <2> QED
    BY <2>5 DEF AllForms
<1> QED
  BY <1>1, <1>3, <1>4, <1>5, SameIf DEF T

\* Two in a row.
LEMMA SameSame ==
  ASSUME NEW S, NEW T, NEW U, Same(S, T), Same(T, U)
  PROVE  Same(S, U)
BY DEF Same

---------------------------------------------------------------------------
(* Forms, keys and codes of any figure, whether or not it comes up again:  *)
(* those of a component need not.                                          *)

\* A normalized figure is a figure.
LEMMA NormalizedFigure ==
  ASSUME NEW S \in Figures
  PROVE  Normalized(S) \in Figures
<1>1. CASE S = {}
  BY <1>1, NormalizedIs
<1>2. CASE S # {}
  <2>1. Away(TopLeft(S)) \in Plane
    BY <1>2, CornerMoves, Opposed DEF Away
  <2> QED
    BY <1>2, <2>1, NormalizedIs, TranslateFigure
<1> QED
  BY <1>1, <1>2

LEMMA PeriodicMoves ==
  ASSUME NEW S \in Figures, NEW v \in Plane
  PROVE  Periodic(Translate(S, v)) => Periodic(S)
<1> DEFINE T == Translate(S, v)
<1>1. T \in Figures /\ Away(v) \in Plane /\ Translate(T, Away(v)) = S
  BY TranslateFigure, Opposed, TranslateBack, FigureCells DEF Away
<1> HIDE DEF T
<1>2. Periodic(T) => Periodic(S)
  <2> SUFFICES ASSUME Periodic(T) PROVE Periodic(S)
    OBVIOUS
  <2>1. Same(T, Translate(T, Away(v)))
    BY <1>1, MoveKept
  <2>2. QED  BY <1>1, <2>1 DEF Same
<1>3. QED  BY <1>2 DEF T

LEMMA PeriodicTurns ==
  ASSUME NEW S \in Figures, NEW m \in D8
  PROVE  Periodic(Image(m, S)) => Periodic(S)
<1> DEFINE T == Image(m, S)
<1>1. PICK w \in D8 : Image(w, T) = S
  BY ImageBack, FigureCells
<1>2. T \in Figures
  BY ImageFigure
<1> HIDE DEF T
<1>3. Periodic(T) => Periodic(S)
  <2> SUFFICES ASSUME Periodic(T) PROVE Periodic(S)
    OBVIOUS
  <2>1. Same(T, Image(w, T))
    BY <1>2, TurnKept
  <2>2. QED  BY <1>1, <2>1 DEF Same
<1>4. QED  BY <1>3 DEF T

\* What does not come up again has the forms of the one phase it is given in.
LEMMA OnePhase ==
  ASSUME NEW S \in Figures, ~Periodic(S)
  PROVE  Forms(S) = {Normalized(Image(m, S)) : m \in D8}
<1>1. OrbitPeriod(S) = 1
  BY OrbitPeriodIs
<1>2. 0 .. OrbitPeriod(S) - 1 = {0}
  BY <1>1
<1>3. \A m \in D8 : FormAt(m, S, 0) = Normalized(Image(m, S))
  BY AtIs DEF FormAt
<1>4. QED  BY <1>2, <1>3, FormsAre

LEMMA MoveForms ==
  ASSUME NEW S \in Figures, NEW v \in Plane
  PROVE  Forms(Translate(S, v)) = Forms(S)
<1> DEFINE T == Translate(S, v)
<1>1. T \in Figures
  BY TranslateFigure
<1>2. CASE Periodic(S)
  BY <1>2, MoveKept DEF Same
<1>3. CASE ~Periodic(S)
  <2>1. ~Periodic(T)
    BY <1>3, PeriodicMoves
  <2>2. ASSUME NEW m \in D8
        PROVE  Normalized(Image(m, T)) = Normalized(Image(m, S))
    <3>1. Image(m, T) = Translate(Image(m, S), Turned(m, v)) /\ Turned(m, v) \in Plane /\ Image(m, S) \in Figures
      BY FigureCells, ImageMoved, TurnedCell, ImageFigure
    <3>2. QED  BY <3>1, ShapeMoves
  <2> HIDE DEF T
  <2>3. Forms(T) = {Normalized(Image(m, T)) : m \in D8}
    BY <1>1, <2>1, OnePhase
  <2>4. Forms(T) = Forms(S)
    BY <1>3, <2>2, <2>3, OnePhase
  <2>5. QED  BY <2>4 DEF T
<1>4. QED  BY <1>2, <1>3

LEMMA TurnForms ==
  ASSUME NEW S \in Figures, NEW m \in D8
  PROVE  Forms(Image(m, S)) = Forms(S)
<1> DEFINE T == Image(m, S)
<1>1. T \in Figures
  BY ImageFigure
<1>2. CASE Periodic(S)
  BY <1>2, TurnKept DEF Same
<1>3. CASE ~Periodic(S)
  <2>1. ~Periodic(T)
    BY <1>3, PeriodicTurns
  <2>2. ASSUME NEW n \in D8
        PROVE  \E u \in D8 : Normalized(Image(n, T)) = Normalized(Image(u, S))
    <3>1. PICK u \in D8 : \A R \in SUBSET Plane : Image(n, Image(m, R)) = Image(u, R)
      BY ImageTwice
    <3>2. QED  BY <3>1, FigureCells
  <2>3. ASSUME NEW n \in D8
        PROVE  \E u \in D8 : Normalized(Image(n, S)) = Normalized(Image(u, T))
    <3>1. PICK w \in D8 : \A R \in SUBSET Plane : Image(w, Image(m, R)) = R /\ Image(m, Image(w, R)) = R
      BY ImageBack
    <3>2. PICK u \in D8 : \A R \in SUBSET Plane : Image(n, Image(w, R)) = Image(u, R)
      BY ImageTwice
    <3>3. T \in SUBSET Plane /\ S \in SUBSET Plane
      BY <1>1, FigureCells
    <3>4. Image(u, T) = Image(n, Image(w, T)) /\ Image(w, T) = S
      BY <3>1, <3>2, <3>3
    <3>5. QED  BY <3>4
  <2> HIDE DEF T
  <2>4. Forms(T) = {Normalized(Image(n, T)) : n \in D8}
    BY <1>1, <2>1, OnePhase
  <2>5. Forms(S) = {Normalized(Image(n, S)) : n \in D8}
    BY <1>3, OnePhase
  <2>6. Forms(T) = Forms(S)
    BY <2>2, <2>3, <2>4, <2>5
  <2>7. QED  BY <2>6 DEF T
<1>4. QED  BY <1>2, <1>3

\* What has the same shape is the same thing, moved.
LEMMA ShapeIsMoved ==
  ASSUME NEW S \in Figures, NEW T \in Figures, Normalized(T) = Normalized(S)
  PROVE  \E v \in Plane : T = Translate(S, v)
<1>1. CASE S # {}
  BY <1>1, SameShape
<1>2. CASE S = {}
  <2>1. T = {}
    <3>1. Normalized(T) = {}
      BY <1>2, NormalizedIs
    <3>2. Translate(T, Away(TopLeft(T))) = {} => T = {}
      BY TranslateEmpty
    <3>3. QED  BY <3>1, <3>2, NormalizedIs
  <2>2. <<0, 0>> \in Plane /\ S \in SUBSET Plane
    BY FigureCells DEF Plane
  <2>3. QED  BY <1>2, <2>1, <2>2, TranslateNowhere
<1>3. QED  BY <1>1, <1>2

LEMMA ShapeForms ==
  ASSUME NEW S \in Figures, NEW T \in Figures, Normalized(T) = Normalized(S)
  PROVE  Forms(T) = Forms(S)
<1>1. PICK v \in Plane : T = Translate(S, v)
  BY ShapeIsMoved
<1>2. QED  BY <1>1, MoveForms

\* A phase of an object has its forms.
LEMMA PhaseForms ==
  ASSUME NEW o \in Figures, NEW i \in 0 .. OrbitPeriod(o) - 1
  PROVE  /\ i \in Nat /\ At(o, i) \in Figures
         /\ Forms(At(o, i)) = Forms(o)
<1>1. OrbitPeriod(o) \in Int /\ i \in Nat
  BY NoveltyAssumption, OrbitPeriodIs
<1>2. At(o, i) \in Figures
  BY <1>1, AtIs
<1>3. CASE ~Periodic(o)
  <2>1. i = 0
    BY <1>1, <1>3, OrbitPeriodIs
  <2>2. QED  BY <1>1, <2>1, AtIs
<1>4. CASE Periodic(o)
  <2> DEFINE T == {k \in Nat : Same(o, At(o, k))}
  <2>1. 0 \in T
    BY <1>4, AtIs DEF Same
  <2>2. ASSUME NEW k \in Nat, k \in T
        PROVE  k + 1 \in T
    <3>1. Same(o, At(o, k)) /\ At(o, k) \in Figures /\ Periodic(At(o, k))
      BY <2>2 DEF Same
    <3>2. At(o, k + 1) = Generation(At(o, k))
      BY AtIs
    <3>3. Same(At(o, k), At(o, k + 1))
      BY <3>1, <3>2, GenerationKept
    <3>4. QED  BY <3>1, <3>3, SameSame
  <2> HIDE DEF T
  <2>3. Nat \subseteq T
    BY <2>1, <2>2, Induction
  <2>4. Same(o, At(o, i))
    BY <1>1, <2>3 DEF T
  <2>5. QED  BY <1>1, <1>2, <2>4 DEF Same
<1>5. QED  BY <1>3, <1>4

\* Whichever object a form is of, its forms are that object's.
LEMMA FormIsOf ==
  ASSUME NEW S \in Figures, NEW o \in Figures, Normalized(S) \in Forms(o)
  PROVE  Forms(S) = Forms(o)
<1>1. PICK m \in D8, i \in 0 .. OrbitPeriod(o) - 1 : Normalized(S) = FormAt(m, o, i)
  BY FormsAre
<1>2. At(o, i) \in Figures /\ Forms(At(o, i)) = Forms(o)
  BY PhaseForms
<1>3. Image(m, At(o, i)) \in Figures /\ Forms(Image(m, At(o, i))) = Forms(o)
  BY <1>2, ImageFigure, TurnForms
<1>4. Normalized(S) = Normalized(Image(m, At(o, i)))
  BY <1>1 DEF FormAt
<1>5. QED  BY <1>3, <1>4, ShapeForms

\* Every form has the forms of the object, and the given one is among them.
LEMMA FormsOfForms ==
  ASSUME NEW o \in Figures
  PROVE  /\ Normalized(o) \in Forms(o)
         /\ \A form \in Forms(o) : form \in Figures /\ Forms(form) = Forms(o)
<1>1. Normalized(o) \in Forms(o)
  <2>1. PICK m \in D8 : \A S \in SUBSET Plane : Image(m, S) = S
    BY ImageSelf
  <2>2. FormAt(m, o, 0) = Normalized(o)
    BY <2>1, AtIs, FigureCells DEF FormAt
  <2>3. 0 \in 0 .. OrbitPeriod(o) - 1
    BY NoveltyAssumption, OrbitPeriodIs
  <2>4. QED  BY <2>2, <2>3, FormsAre
<1>2. ASSUME NEW form \in Forms(o)
      PROVE  form \in Figures /\ Forms(form) = Forms(o)
  <2>1. PICK m \in D8, i \in 0 .. OrbitPeriod(o) - 1 : form = FormAt(m, o, i)
    BY FormsAre
  <2>2. At(o, i) \in Figures /\ Forms(At(o, i)) = Forms(o)
    BY PhaseForms
  <2> DEFINE B == Image(m, At(o, i))
  <2>3. B \in Figures /\ Forms(B) = Forms(o) /\ form = Normalized(B)
    BY <2>1, <2>2, ImageFigure, TurnForms DEF FormAt
  <2> HIDE DEF B
  <2>4. Normalized(B) \in Figures /\ Normalized(Normalized(B)) = Normalized(B)
    <3>1. CASE B = {}
      BY <2>3, <3>1, NormalizedIs, NormalizedFigure
    <3>2. CASE B # {}
      <4>1. Away(TopLeft(B)) \in Plane /\ Normalized(B) = Translate(B, Away(TopLeft(B)))
        BY <2>3, <3>2, NormalizedIs, CornerMoves, Opposed DEF Away
      <4>2. Normalized(Translate(B, Away(TopLeft(B)))) = Normalized(B)
        BY <2>3, <4>1, ShapeMoves
      <4>3. QED  BY <2>3, <4>1, <4>2, NormalizedFigure
    <3>3. QED  BY <3>1, <3>2
  <2>5. QED  BY <2>3, <2>4, ShapeForms
<1>3. QED  BY <1>1, <1>2

\* independent_canonical gives a key: two patterns get the same one just when they have
\* the same forms, whether or not they come up again within the cap.
THEOREM KeysTell ==
  ASSUME NEW S \in Figures, NEW T \in Figures
  PROVE  Key(S) = Key(T) <=> Forms(S) = Forms(T)
<1>1. Key(S) \in Forms(S) /\ Key(T) \in Forms(T)
  BY FormsOfForms DEF Key
<1>2. Forms(Key(S)) = Forms(S) /\ Forms(Key(T)) = Forms(T)
  BY <1>1, FormsOfForms
<1>3. Forms(S) = Forms(T) => Key(S) = Key(T)
  BY DEF Key
<1>4. QED  BY <1>2, <1>3

LEMMA KnownByKey ==
  ASSUME NEW S \in Figures
  PROVE  /\ Key(S) \in KnownKeys <=> Forms(S) \in KnownCodes
         /\ IsFormOf(S, KnownCodes) <=> Forms(S) \in KnownCodes
<1>1. ASSUME NEW o \in KnownObjects
      PROVE  /\ o \in Figures
             /\ Key(S) = Key(o) <=> Forms(S) = Forms(o)
             /\ Normalized(S) \in Forms(o) <=> Forms(S) = Forms(o)
  <2>1. o \in Figures
    BY NoveltyAssumption, FinitePatterns DEF Plane
  <2>2. QED  BY <2>1, KeysTell, FormIsOf, FormsOfForms
<1>2. QED  BY <1>1 DEF KnownKeys, KnownCodes, IsFormOf

---------------------------------------------------------------------------
(* The oracle.                                                             *)

LEMMA ObjectsAreFigures ==
  ASSUME NEW o \in Patterns \cup Live
  PROVE  o \in Figures
BY NoveltyAssumption, FinitePatterns DEF Plane

LEMMA MoveInPlane == <<-3, 2>> \in Plane
BY DEF Plane

\* Between two queries nothing is left of the flood fill; what is submitted is a figure.
Splitting ==
  /\ TypeOK
  /\ Filling
  /\ ~asking => pc = "done" /\ components = << >>
  /\ object \in Figures

LEMMA InitSplitting == OracleInit => Splitting
<1> SUFFICES ASSUME OracleInit PROVE Splitting
  OBVIOUS
<1>1. object \in Figures
  BY ObjectsAreFigures DEF OracleInit
<1>2. TypeOK
  BY DEF OracleInit, TypeOK
<1>3. Filling
  BY DEF OracleInit, Filling
<1> QED
  BY <1>1, <1>2, <1>3 DEF OracleInit, Splitting

\* The steps that submit another form leave the rest as it is.
LEMMA SubmitIs ==
  ASSUME Evolve \/ Turn \/ Move
  PROVE  /\ ~asking /\ UNCHANGED <<verdict, asking, split>>
         /\ \/ object' = Generation(object)
            \/ \E m \in D8 : object' = Normalized(Image(m, object))
            \/ object' = Translate(Normalized(object), <<-3, 2>>)
BY DEF Evolve, Turn, Move, Submit

LEMMA SubmitFigure ==
  ASSUME NEW S \in Figures
  PROVE  /\ Generation(S) \in Figures
         /\ \A m \in D8 : Normalized(Image(m, S)) \in Figures
         /\ Translate(Normalized(S), <<-3, 2>>) \in Figures
BY GenerationFigure, ImageFigure, NormalizedFigure, TranslateFigure, MoveInPlane

LEMMA StepSplitting == Splitting /\ [OracleNext]_oracleVars => Splitting'
<1> SUFFICES ASSUME Splitting, [OracleNext]_oracleVars PROVE Splitting'
  OBVIOUS
<1>1. TypeOK /\ Filling /\ object \in Figures
  BY DEF Splitting
<1>2. ASSUME UNCHANGED split, UNCHANGED asking, object' \in Figures
      PROVE  Splitting'
  BY <1>1, <1>2, StepTyped, StepFilling DEF Splitting, split, vars
<1>3. CASE Query
  <2>1. ASSUME NEW status, NEW live, Says(status, live)
        PROVE  Splitting'
    BY <1>1, <1>2, <2>1 DEF Says
  <2>2. CASE CanonicalizationFails
    BY <2>1, <2>2 DEF CanonicalizationFails
  <2>3. CASE LiveQuery
    BY <2>1, <2>3 DEF LiveQuery
  <2>4. CASE NoveltyQuery
    <3>1. CASE \E status : Says(status, FALSE)
      BY <2>1, <3>1
    <3>2. CASE /\ ~asking /\ asking' = TRUE
               /\ pc' = "seed" /\ pattern' = object /\ remaining' = object
               /\ UNCHANGED <<object, age, component, stack, components, earlier>>
      <4>1. pc = "done" /\ components = << >> /\ component = {} /\ stack = {}
        BY <3>2 DEF Splitting, Filling
      <4>2. object \in SUBSET (Int \X Int)
        BY <1>1, FigureCells DEF Plane
      <4>3. TypeOK'
        BY <1>1, <3>2, <4>1, <4>2 DEF TypeOK
      <4>4. Filling'
        BY <3>2, <4>1 DEF Filling
      <4> QED
        BY <1>1, <3>2, <4>3, <4>4 DEF Splitting
    <3> QED
      BY <2>4, <3>1, <3>2 DEF NoveltyQuery
  <2> QED
    BY <1>3, <2>2, <2>3, <2>4 DEF Query
<1>4. CASE Split \/ DescriptionLength
  <2>1. asking /\ Next /\ UNCHANGED <<object, asking>>
    BY <1>4 DEF Split, DescriptionLength, Next, oracle
  <2>2. TypeOK' /\ Filling'
    BY <1>1, <2>1, StepTyped, StepFilling
  <2> QED
    BY <1>1, <2>1, <2>2 DEF Splitting
<1>5. CASE Classified
  <2>1. /\ pc = "done" /\ pattern' = {} /\ components' = << >> /\ earlier' = NotYet /\ asking' = FALSE
        /\ UNCHANGED <<object, pc, remaining, component, stack>>
    BY <1>5 DEF Classified
  <2>2. remaining = {} /\ component = {} /\ stack = {}
    BY <1>1, <2>1 DEF Filling
  <2>3. TypeOK'
    BY <2>1, <2>2 DEF TypeOK
  <2>4. Filling'
    BY <2>1, <2>2 DEF Filling
  <2> QED
    BY <1>1, <2>1, <2>3, <2>4 DEF Splitting
<1>6. CASE Evolve \/ Turn \/ Move
  <2>1. object' \in Figures
    BY <1>1, <1>6, SubmitIs, SubmitFigure
  <2> QED
    BY <1>2, <1>6, <2>1, SubmitIs
<1>7. CASE UNCHANGED oracleVars
  BY <1>1, <1>2, <1>7 DEF oracleVars
<1> QED
  BY <1>3, <1>4, <1>5, <1>6, <1>7 DEF OracleNext, Tier

\* "maximal 8-connected components", whenever the minimality tier splits an object,
\* however many queries came before.
THEOREM OracleMaximal == OracleSpec => []MaximalComponents
<1>1. Splitting => MaximalComponents
  BY DEF Splitting, TypeOK, Filling, MaximalComponents
<1> QED
  BY <1>1, InitSplitting, StepSplitting, PTL DEF OracleSpec

\* A split gets on with every step.
LEMMA StepAdvances ==
  ASSUME Split
  PROVE  \/ remaining' \subseteq remaining /\ remaining' # remaining
         \/ remaining' = remaining /\ stack' \subseteq stack /\ stack' # stack
         \/ /\ UNCHANGED <<remaining, stack>>
            /\ <<pc, pc'>> \in {<<"grow", "seed">>, <<"seed", "done">>}
<1>1. CASE Seed
  BY <1>1 DEF Seed
<1>2. CASE Grow
  <2>1. PICK c \in stack : /\ remaining' = remaining \ Reached(c)
                           /\ stack' = (stack \ {c}) \cup Reached(c)
    BY <1>2 DEF Grow
  <2>2. CASE Reached(c) = {}
    BY <2>1, <2>2
  <2>3. CASE Reached(c) # {}
    BY <2>1, <2>3 DEF Reached
  <2>4. QED  BY <2>2, <2>3
<1>3. CASE Finish
  BY <1>3 DEF Finish
<1>4. CASE Sort
  BY <1>4 DEF Sort
<1>5. QED  BY <1>1, <1>2, <1>3, <1>4 DEF Split

\* connected_components cannot go on for ever, for any pattern and any choice of cells:
\* its steps are ordered by the cells left, the stack, and what is still to be closed.
THEOREM SplitsAdvance == OracleSpec => SplitAdvances
<1> DEFINE Progress ==
      Split => \/ remaining' \subseteq remaining /\ remaining' # remaining
               \/ remaining' = remaining /\ stack' \subseteq stack /\ stack' # stack
               \/ /\ UNCHANGED <<remaining, stack>>
                  /\ <<pc, pc'>> \in {<<"grow", "seed">>, <<"seed", "done">>}
<1>1. Splitting /\ [OracleNext]_oracleVars => [Progress]_oracleVars
  BY StepAdvances
<1>2. QED  BY <1>1, InitSplitting, StepSplitting, PTL DEF OracleSpec, SplitAdvances

\* What is submitted next is a form of the object.
LEMMA SubmitSame ==
  ASSUME NEW S \in Figures, Periodic(S)
  PROVE  /\ Same(S, Generation(S))
         /\ \A m \in D8 : Same(S, Normalized(Image(m, S)))
         /\ Same(S, Translate(Normalized(S), <<-3, 2>>))
<1>1. Same(S, Generation(S))
  BY GenerationKept
<1>2. ASSUME NEW m \in D8
      PROVE  Same(S, Normalized(Image(m, S)))
  <2>1. Same(S, Image(m, S))
    BY TurnKept
  <2>2. Same(Image(m, S), Normalized(Image(m, S)))
    BY <2>1, NormalizedKept DEF Same
  <2> QED
    BY <2>1, <2>2, SameSame
<1>3. Same(S, Translate(Normalized(S), <<-3, 2>>))
  <2>1. Same(S, Normalized(S))
    BY NormalizedKept
  <2>2. Same(Normalized(S), Translate(Normalized(S), <<-3, 2>>))
    BY <2>1, MoveInPlane, MoveKept DEF Same
  <2> QED
    BY <2>1, <2>2, SameSame
<1> QED
  BY <1>1, <1>2, <1>3

\* What is submitted comes up again within the cap, whichever form it has.
Returns == object \in Figures /\ Periodic(object)

LEMMA InitReturns == ObjectsReturn /\ OracleInit => Returns
BY ObjectsAreFigures DEF ObjectsReturn, OracleInit, Returns

\* Every step leaves the object, or takes it to another of its forms.
LEMMA StepSame == Returns /\ [OracleNext]_oracleVars => Same(object, object')
<1> SUFFICES ASSUME Returns, [OracleNext]_oracleVars PROVE Same(object, object')
  OBVIOUS
<1>1. CASE Evolve \/ Turn \/ Move
  BY <1>1, SubmitIs, SubmitSame DEF Returns
<1>2. CASE object' = object
  BY <1>2 DEF Returns, Same
<1>3. CASE Query
  <2>1. object' = object
    BY <1>3 DEF Query, CanonicalizationFails, NoveltyQuery, LiveQuery, Says
  <2> QED
    BY <1>2, <2>1
<1>4. CASE Tier
  <2>1. object' = object
    BY <1>4 DEF Tier, Split, DescriptionLength, Classified, oracle
  <2> QED
    BY <1>2, <2>1
<1>5. CASE UNCHANGED oracleVars
  BY <1>2, <1>5 DEF oracleVars
<1> QED
  BY <1>1, <1>3, <1>4, <1>5 DEF OracleNext

LEMMA StepReturns == Returns /\ [OracleNext]_oracleVars => Returns'
BY StepSame DEF Same, Returns

\* independent_canonical is "invariant under translation, the 8 dihedral images, and
\* phase", for every rule and every object whose shape comes up again within the cap.
THEOREM KeyStays == ASSUME ObjectsReturn PROVE OracleSpec => SameKey
<1>1. OracleInit => Returns
  BY InitReturns
<1>2. Returns /\ [OracleNext]_oracleVars => [\A form \in {object'} : Key(form) = Key(object)]_object
  BY StepSame DEF Same, Key
<1> QED
  BY <1>1, <1>2, StepReturns, PTL DEF OracleSpec, SameKey

\* What is called NOVEL, or is on its way to be, has a code that no object has of the
\* list it was looked up in.
Unlisted ==
  /\ asking => Forms(object) \notin CensusCodes
  /\ verdict.status = "NOVEL" => Forms(object) \notin (IF verdict.live THEN LiveCodes ELSE CensusCodes)

LEMMA StepUnlisted ==
  ASSUME Faulty = FALSE, Returns, Unlisted, [OracleNext]_oracleVars
  PROVE  Unlisted'
<1>1. Forms(object') = Forms(object)
  BY StepSame DEF Same
<1>2. Apgcodes(object) = {Forms(object)}
  BY DEF Apgcodes
<1>3. ASSUME UNCHANGED <<asking, verdict>>
      PROVE  Unlisted'
  BY <1>1, <1>3 DEF Unlisted, CensusCodes, LiveCodes
<1>4. ASSUME NEW status, NEW live, Says(status, live),
             status = "NOVEL" => Forms(object) \notin (IF live THEN LiveCodes ELSE CensusCodes)
      PROVE  Unlisted'
  <2>1. ~asking /\ asking' = asking /\ verdict' = Verdict(status, live)
    BY <1>4 DEF Says
  <2>2. verdict'.status = status /\ verdict'.live = live
    BY <2>1 DEF Verdict
  <2> QED
    BY <1>1, <1>4, <2>1, <2>2 DEF Unlisted, CensusCodes, LiveCodes
<1>5. CASE CanonicalizationFails
  BY <1>4, <1>5 DEF CanonicalizationFails
<1>6. CASE LiveQuery
  <2>1. PICK fetcher \in {"raises", "answers"} : Says(CatalogueStatus(Forms(object), fetcher), TRUE)
    BY <1>2, <1>6 DEF LiveQuery
  <2>2. CatalogueStatus(Forms(object), fetcher) = "NOVEL" => Forms(object) \notin LiveCodes
    BY DEF CatalogueStatus
  <2> QED
    BY <1>4, <2>1, <2>2
<1>7. CASE NoveltyQuery
  <2> DEFINE status == CatalogueStatus(Forms(object), "none")
  <2>1. status = "NOVEL" => Forms(object) \notin CensusCodes
    BY DEF CatalogueStatus
  <2>2. \/ Says(status, FALSE)
        \/ status = "NOVEL" /\ asking' = TRUE /\ verdict' = Verdict("NONE", FALSE)
    BY <1>2, <1>7 DEF NoveltyQuery
  <2> HIDE DEF status
  <2>3. CASE Says(status, FALSE)
    BY <1>4, <2>1, <2>3
  <2>4. CASE status = "NOVEL" /\ asking' = TRUE /\ verdict' = Verdict("NONE", FALSE)
    <3>1. verdict'.status = "NONE"
      BY <2>4 DEF Verdict
    <3> QED
      BY <1>1, <2>1, <2>4, <3>1 DEF Unlisted, CensusCodes
  <2> QED
    BY <2>2, <2>3, <2>4
<1>8. CASE Split \/ DescriptionLength
  BY <1>3, <1>8 DEF Split, DescriptionLength, oracle
<1>9. CASE Classified
  <2>1. /\ asking /\ asking' = FALSE
        /\ \E status : verdict' = Verdict(status, FALSE)
    BY <1>9 DEF Classified
  <2>2. verdict'.live = FALSE
    BY <2>1 DEF Verdict
  <2> QED
    BY <1>1, <2>1, <2>2 DEF Unlisted, CensusCodes
<1>10. CASE Evolve \/ Turn \/ Move
  BY <1>3, <1>10, SubmitIs
<1>11. CASE UNCHANGED oracleVars
  BY <1>3, <1>11 DEF oracleVars
<1> QED
  BY <1>5, <1>6, <1>7, <1>8, <1>9, <1>10, <1>11 DEF OracleNext, Query, Tier

\* "never a silent NOVEL": when the producer's canonicalizer is right, what was called
\* NOVEL is, whichever form it was submitted in and takes later, no form of any object
\* of the snapshot, nor, once a live lookup was asked for, of the live catalogue.
THEOREM NovelUnseen ==
  ASSUME ObjectsReturn, Faulty = FALSE
  PROVE  OracleSpec => []NovelIsUnseen
<1>1. OracleInit => Returns /\ Unlisted
  BY InitReturns DEF OracleInit, Unlisted, Verdict
<1>2. Returns /\ Unlisted /\ [OracleNext]_oracleVars => (Returns /\ Unlisted)'
  BY StepReturns, StepUnlisted
<1>3. Returns /\ Unlisted => NovelIsUnseen
  <2> SUFFICES ASSUME Returns, Unlisted, verdict.status = "NOVEL",
                      NEW list, list = IF verdict.live THEN Live ELSE Census,
                      NEW o \in list, Normalized(object) \in Forms(o)
               PROVE  FALSE
    BY DEF NovelIsUnseen, IsFormOf, LiveCodes, CensusCodes
  <2>1. o \in Figures
    BY NoveltyAssumption, ObjectsAreFigures
  <2>2. Forms(object) = Forms(o)
    BY <2>1, FormIsOf DEF Returns
  <2> QED
    BY <2>2 DEF Unlisted, LiveCodes, CensusCodes
<1> QED
  BY <1>1, <1>2, <1>3, PTL DEF OracleSpec

---------------------------------------------------------------------------
(* The minimality tier.                                                    *)

\* A part of a figure is one.
LEMMA PartFigure ==
  ASSUME NEW S \in Figures, NEW part \in SUBSET S
  PROVE  part \in Figures
BY DEF Figures

\* What is split is the object.
Asked == asking => pattern = object

LEMMA StepAsked == Asked /\ [OracleNext]_oracleVars => Asked'
<1> SUFFICES ASSUME Asked, [OracleNext]_oracleVars PROVE Asked'
  OBVIOUS
<1>1. CASE Query
  BY <1>1 DEF Query, CanonicalizationFails, NoveltyQuery, LiveQuery, Says, split, Asked
<1>2. CASE Tier
  BY <1>2 DEF Tier, Split, DescriptionLength, Classified, Again, Seed, Grow, Finish, Sort, oracle, Asked
<1>3. CASE Evolve \/ Turn \/ Move
  BY <1>3, SubmitIs DEF Asked
<1>4. CASE UNCHANGED oracleVars
  BY <1>4 DEF oracleVars, split, Asked
<1>5. QED  BY <1>1, <1>2, <1>3, <1>4 DEF OracleNext

\* When a split has ended, its list is that of the islands, and of the pattern itself if
\* it is connected.
LEMMA ListedIslands ==
  ASSUME TypeOK, Filling, pc = "done"
  PROVE  /\ DOMAIN components = 1 .. Len(components) /\ Len(components) \in Nat
         /\ \A i \in DOMAIN components :
              /\ components[i] \in SUBSET pattern
              /\ Len(components) >= 2 => Island(components[i], pattern)
         /\ \A part \in SUBSET pattern : Island(part, pattern) =>
              Len(components) >= 2 /\ \E i \in DOMAIN components : components[i] = part
<1>1. /\ DOMAIN components = 1 .. Len(components) /\ Len(components) \in Nat
      /\ \A i \in DOMAIN components : components[i] \in SUBSET pattern
      /\ pattern \in SUBSET Plane
  BY DEF TypeOK, Plane
<1>2. /\ \A c \in pattern : \E i \in DOMAIN components : c \in components[i]
      /\ \A i \in DOMAIN components : components[i] # {} /\ Connected(components[i])
      /\ \A i, j \in DOMAIN components : i # j => Apart(components[i], components[j])
  BY DEF Filling
<1>3. ASSUME NEW i \in DOMAIN components, Len(components) >= 2
      PROVE  Island(components[i], pattern)
  <2>1. Apart(components[i], pattern \ components[i])
    <3>1. ASSUME NEW c \in pattern \ components[i]
          PROVE  \E j \in DOMAIN components : c \in components[j] /\ Apart(components[i], components[j])
      <4>1. PICK j \in DOMAIN components : c \in components[j]
        BY <1>2
      <4>2. j # i
        BY <4>1
      <4>3. QED  BY <1>2, <4>1, <4>2
    <3>2. QED  BY <3>1 DEF Apart
  <2>2. \E j \in DOMAIN components : j # i
    <3>1. 1 \in DOMAIN components /\ 2 \in DOMAIN components
      BY <1>1, <1>3
    <3>2. QED  BY <3>1
  <2>3. components[i] # pattern
    BY <1>1, <1>2, <2>2 DEF Apart
  <2>4. QED  BY <1>2, <2>1, <2>3 DEF Island
<1>4. ASSUME NEW part \in SUBSET pattern, Island(part, pattern)
      PROVE  Len(components) >= 2 /\ \E i \in DOMAIN components : components[i] = part
  <2>1. part # {} /\ part # pattern /\ Connected(part) /\ Apart(part, pattern \ part)
    BY <1>4 DEF Island
  <2>2. PICK c \in part, i \in DOMAIN components : c \in components[i]
    BY <1>2, <2>1
  <2>3. components[i] \subseteq part
    <3> SUFFICES ASSUME ~(components[i] \subseteq part) PROVE FALSE
      OBVIOUS
    <3> DEFINE cut == components[i] \cap part
    <3>1. cut \in SUBSET components[i] /\ cut # {} /\ cut # components[i]
      BY <2>2
    <3>2. PICK a \in cut, b \in components[i] \ cut : Adjacent(a, b)
      BY <1>2, <3>1 DEF Connected
    <3>3. a \in part /\ b \in pattern \ part
      BY <1>1, <3>2
    <3>4. QED  BY <2>1, <3>2, <3>3 DEF Apart
  <2>4. components[i] = part
    <3> SUFFICES ASSUME components[i] # part PROVE FALSE
      OBVIOUS
    <3>1. components[i] \in SUBSET part /\ components[i] # {}
      BY <1>2, <2>3
    <3>2. PICK a \in components[i], b \in part \ components[i] : Adjacent(a, b)
      BY <2>1, <3>1 DEF Connected
    <3>3. PICK j \in DOMAIN components : b \in components[j]
      BY <1>2, <3>2
    <3>4. QED  BY <1>2, <3>2, <3>3 DEF Apart
  <2>5. \E j \in DOMAIN components : j # i
    <3>1. PICK d \in pattern : d \notin part
      BY <2>1
    <3>2. QED  BY <1>2, <2>4, <3>1
  <2>6. QED  BY <1>1, <2>4, <2>5
<1>5. QED  BY <1>1, <1>3, <1>4

\* The list is judged as the pattern would be.
LEMMA JudgesIslands ==
  ASSUME Splitting, Asked, asking, pc = "done"
  PROVE  IsDerivative <=> HasKnownIsland(object)
<1>1. pattern = object /\ object \in Figures /\ TypeOK /\ Filling
  BY DEF Splitting, Asked
<1>2. \A part \in SUBSET object : Key(part) \in KnownKeys <=> Forms(part) \in KnownCodes
  BY <1>1, PartFigure, KnownByKey
<1>3. KnownComponents # {} <=> \E i \in DOMAIN components : Key(components[i]) \in KnownKeys
  BY DEF KnownComponents
<1>4. QED  BY <1>1, <1>2, <1>3, ListedIslands DEF IsDerivative, HasKnownIsland

LEMMA StepClassifies ==
  ASSUME Splitting, Asked, [OracleNext]_oracleVars, asking, ~asking'
  PROVE  verdict'.status = "DERIVATIVE" <=> HasKnownIsland(object)
<1>1. Classified
  BY SubmitIs DEF OracleNext, Query, CanonicalizationFails, NoveltyQuery, LiveQuery, Says,
                  Tier, Split, DescriptionLength, oracle, oracleVars
<1>2. pc = "done" /\ verdict'.status = (IF IsDerivative THEN "DERIVATIVE" ELSE "NOVEL")
  BY <1>1 DEF Classified, Verdict
<1>3. QED  BY <1>2, JudgesIslands

\* "DERIVATIVE iff ..." (mdl.py): whatever the order of set.pop and whatever was asked
\* before, the tier's answer is that of a definition which names neither the components
\* nor the keys.
THEOREM Classifies == OracleSpec => ClassifiesRight
<1>1. OracleInit => Splitting /\ Asked
  BY InitSplitting DEF OracleInit, Asked
<1>2. Splitting /\ Asked /\ [OracleNext]_oracleVars => (Splitting /\ Asked)'
  BY StepSplitting, StepAsked
<1>3. Splitting /\ Asked /\ [OracleNext]_oracleVars =>
        [(asking /\ ~asking') => (verdict'.status = "DERIVATIVE" <=> HasKnownIsland(object))]_oracleVars
  BY StepClassifies
<1>4. QED  BY <1>1, <1>2, <1>3, PTL DEF OracleSpec, ClassifiesRight

---------------------------------------------------------------------------
(* The list can be sorted.                                                 *)

\* R orders the numbers from 1 to n.
Orders(R, n) ==
  /\ \A i, j \in 1 .. n : i # j => <<i, j>> \in R \/ <<j, i>> \in R
  /\ \A i, j, k \in 1 .. n : <<i, j>> \in R /\ <<j, k>> \in R => <<i, k>> \in R

\* p lists the numbers from 1 to n in that order.
InOrder(R, p, n) ==
  /\ p \in [1 .. n -> 1 .. n]
  /\ \A i \in 1 .. n : \E k \in 1 .. n : p[k] = i
  /\ \A k, l \in 1 .. n : k < l => <<p[k], p[l]>> \in R

\* One number more finds its place in the list.
LEMMA InsertInOrder ==
  ASSUME NEW R, NEW n \in Nat, NEW i \in 1 .. n, Orders(R, n), NEW p, InOrder(R, p, i - 1)
  PROVE  \E q : InOrder(R, q, i)
<1> DEFINE U == {l \in 1 .. i : l = i \/ <<i, p[l]>> \in R}
<1>1. \E l \in U : \A k \in U : l <= k
  <2>1. U \subseteq Nat /\ i \in U
    OBVIOUS
  <2> HIDE DEF U
  <2>2. QED  BY <2>1, LeastNat
<1>2. PICK pos \in U : \A k \in U : pos <= k
  BY <1>1
<1>3. pos \in 1 .. i /\ i \in Int /\ i \in 1 .. n
  BY <1>2
<1>4. \A l \in 1 .. (i - 1) : p[l] \in 1 .. (i - 1) /\ p[l] \in 1 .. n /\ p[l] # i
  BY <1>3 DEF InOrder
<1>5. ASSUME NEW l \in 1 .. (i - 1), l < pos
      PROVE  <<p[l], i>> \in R
  <2>1. l \notin U /\ l \in 1 .. i
    BY <1>2, <1>3, <1>5
  <2>2. <<i, p[l]>> \notin R
    BY <2>1
  <2>3. QED  BY <1>3, <1>4, <2>2 DEF Orders
<1>6. ASSUME NEW l \in 1 .. (i - 1), pos <= l
      PROVE  <<i, p[l]>> \in R
  <2>1. pos \in 1 .. (i - 1) /\ <<i, p[pos]>> \in R
    BY <1>2, <1>3, <1>6
  <2>2. CASE l = pos
    BY <2>1, <2>2
  <2>3. CASE l # pos
    <3>1. <<p[pos], p[l]>> \in R
      BY <1>3, <1>6, <2>1, <2>3 DEF InOrder
    <3>2. p[pos] \in 1 .. n /\ p[l] \in 1 .. n
      BY <1>4, <2>1
    <3>3. QED  BY <1>3, <2>1, <3>1, <3>2 DEF Orders
  <2>4. QED  BY <2>2, <2>3
<1> HIDE DEF U
<1> DEFINE q == [l \in 1 .. i |-> IF l < pos THEN p[l] ELSE IF l = pos THEN i ELSE p[l - 1]]
<1>7. \A l \in 1 .. i : /\ l < pos => l \in 1 .. (i - 1) /\ q[l] = p[l]
                        /\ l = pos => q[l] = i
                        /\ l > pos => l - 1 \in 1 .. (i - 1) /\ pos <= l - 1 /\ q[l] = p[l - 1]
  BY <1>3
<1>8. q \in [1 .. i -> 1 .. i]
  <2>1. ASSUME NEW l \in 1 .. i
        PROVE  (IF l < pos THEN p[l] ELSE IF l = pos THEN i ELSE p[l - 1]) \in 1 .. i
    <3>1. CASE l < pos
      BY <1>3, <1>4, <3>1
    <3>2. CASE l = pos
      BY <1>3, <3>2
    <3>3. CASE l > pos
      <4>1. l - 1 \in 1 .. (i - 1)
        BY <1>3, <3>3
      <4>2. p[l - 1] \in 1 .. (i - 1)
        BY <1>4, <4>1
      <4>3. QED  BY <1>3, <3>3, <4>2
    <3>4. QED  BY <1>3, <3>1, <3>2, <3>3
  <2>2. QED  BY <2>1
<1> HIDE DEF q
<1>9. ASSUME NEW j \in 1 .. i
      PROVE  \E k \in 1 .. i : q[k] = j
  <2>1. CASE j = i
    BY <1>3, <1>7, <2>1
  <2>2. CASE j # i
    <3>1. j \in 1 .. (i - 1)
      BY <1>3, <2>2
    <3>2. PICK k \in 1 .. (i - 1) : p[k] = j
      BY <3>1 DEF InOrder
    <3>3. CASE k < pos
      BY <1>3, <1>7, <3>2, <3>3
    <3>4. CASE k >= pos
      <4>1. k + 1 \in 1 .. i /\ k + 1 > pos /\ (k + 1) - 1 = k
        BY <1>3, <3>2, <3>4
      <4>2. q[k + 1] = p[k]
        BY <1>7, <4>1
      <4>3. QED  BY <3>2, <4>1, <4>2
    <3>5. QED  BY <1>3, <3>2, <3>3, <3>4
  <2>3. QED  BY <2>1, <2>2
<1>10. ASSUME NEW k \in 1 .. i, NEW l \in 1 .. i, k < l
       PROVE  <<q[k], q[l]>> \in R
  <2>1. CASE k < pos /\ l < pos
    BY <1>7, <1>10, <2>1 DEF InOrder
  <2>2. CASE k < pos /\ l = pos
    BY <1>5, <1>7, <2>2
  <2>3. CASE k < pos /\ l > pos
    <3>1. k \in 1 .. (i - 1) /\ l - 1 \in 1 .. (i - 1) /\ k < l - 1 /\ q[k] = p[k] /\ q[l] = p[l - 1]
      BY <1>3, <1>7, <2>3
    <3>2. QED  BY <3>1 DEF InOrder
  <2>4. CASE k = pos
    BY <1>3, <1>6, <1>7, <1>10, <2>4
  <2>5. CASE k > pos
    <3>1. k - 1 \in 1 .. (i - 1) /\ l - 1 \in 1 .. (i - 1) /\ k - 1 < l - 1 /\ q[k] = p[k - 1] /\ q[l] = p[l - 1]
      BY <1>3, <1>7, <1>10, <2>5
    <3>2. QED  BY <3>1 DEF InOrder
  <2>6. QED  BY <1>3, <2>1, <2>2, <2>3, <2>4, <2>5
<1>11. QED  BY <1>8, <1>9, <1>10 DEF InOrder

LEMMA CanBeOrdered ==
  ASSUME NEW R, NEW n \in Nat, Orders(R, n)
  PROVE  \E p : InOrder(R, p, n)
<1> DEFINE T == {i \in 0 .. n : \E p : InOrder(R, p, i)}
<1>1. 0 \in T
  <2>1. InOrder(R, [k \in 1 .. 0 |-> k], 0)
    BY DEF InOrder
  <2>2. QED  BY <2>1
<1>2. ASSUME NEW i \in 1 .. n, i - 1 \in T
      PROVE  i \in T
  <2>1. PICK p : InOrder(R, p, i - 1)
    BY <1>2
  <2>2. QED  BY <2>1, InsertInOrder
<1> HIDE DEF T
<1>3. 0 .. n \subseteq T
  BY <1>1, <1>2, BoundedInduction
<1>4. QED  BY <1>3 DEF T

\* The corner of a figure is a pair of integers.
LEMMA CornerIsPair ==
  ASSUME NEW S \in Figures, S # {}
  PROVE  Corner(S)[1] \in Int /\ Corner(S)[2] \in Int /\ Corner(S) = <<Corner(S)[1], Corner(S)[2]>>
<1> DEFINE columns == {c[1] : c \in S}
           rows == {c[2] : c \in S}
<1>1. Left(S) \in columns /\ \A x \in columns : Left(S) <= x
  BY Edges
<1>2. Top(S) \in rows /\ \A y \in rows : Top(S) <= y
  BY Edges
<1>3. columns \subseteq Int /\ rows \subseteq Int
  BY FigureCells
<1> HIDE DEF columns, rows
<1>4. Least(columns) \in Int
  BY <1>1, <1>3 DEF Least
<1>5. Least(rows) \in Int
  BY <1>2, <1>3 DEF Least
<1> USE DEF columns, rows
<1>6. QED  BY <1>4, <1>5 DEF Corner

\* While components are listed, they can be sorted as list.sort sorts them.
Sortable ==
  pc = "seed" => \E perm \in [DOMAIN components -> DOMAIN components] : IsStableSort(perm)

\* connected_components can always return: the corners of the components it found, and
\* their places, order them, whatever they are, so that Sort, its last step, is possible
\* whenever nothing is left.
THEOREM AlwaysSortable == OracleSpec => []Sortable
<1>1. Splitting /\ Asked => Sortable
  <2> SUFFICES ASSUME Splitting, Asked, pc = "seed"
               PROVE  \E perm \in [DOMAIN components -> DOMAIN components] : IsStableSort(perm)
    BY DEF Sortable
  <2> DEFINE n == Len(components)
  <2>1. n \in Nat /\ DOMAIN components = 1 .. n
    BY DEF Splitting, TypeOK
  <2>2. ASSUME NEW i \in 1 .. n
        PROVE  components[i] \in Figures /\ components[i] # {}
    <3>1. asking /\ pattern = object /\ object \in Figures
      BY DEF Splitting, Asked
    <3>2. components[i] \in SUBSET pattern /\ components[i] # {}
      BY <2>1 DEF Splitting, TypeOK, Filling
    <3>3. QED  BY <3>1, <3>2, PartFigure
  <2> HIDE DEF n
  <2> DEFINE X(i) == Corner(components[i])[1]
             Y(i) == Corner(components[i])[2]
             R == {e \in (1 .. n) \X (1 .. n) :
                     \/ X(e[1]) < X(e[2])
                     \/ X(e[1]) = X(e[2]) /\ Y(e[1]) < Y(e[2])
                     \/ X(e[1]) = X(e[2]) /\ Y(e[1]) = Y(e[2]) /\ e[1] < e[2]}
  <2>3. \A i \in 1 .. n : X(i) \in Int /\ Y(i) \in Int /\ Corner(components[i]) = <<X(i), Y(i)>>
    BY <2>2, CornerIsPair
  <2>4. \A i, j \in 1 .. n :
          <<i, j>> \in R <=> \/ X(i) < X(j)
                             \/ X(i) = X(j) /\ Y(i) < Y(j)
                             \/ X(i) = X(j) /\ Y(i) = Y(j) /\ i < j
    OBVIOUS
  <2> HIDE DEF X, Y, R
  <2>5. Orders(R, n)
    <3>1. ASSUME NEW i \in 1 .. n, NEW j \in 1 .. n, i # j
          PROVE  <<i, j>> \in R \/ <<j, i>> \in R
      <4>1. i \in Int /\ j \in Int /\ X(i) \in Int /\ X(j) \in Int /\ Y(i) \in Int /\ Y(j) \in Int
        BY <2>1, <2>3
      <4>2. \/ X(i) < X(j) \/ X(j) < X(i)
            \/ X(i) = X(j) /\ (Y(i) < Y(j) \/ Y(j) < Y(i) \/ (Y(i) = Y(j) /\ (i < j \/ j < i)))
        BY <3>1, <4>1
      <4>3. QED  BY <2>4, <4>2
    <3>2. \A i, j, k \in 1 .. n : <<i, j>> \in R /\ <<j, k>> \in R => <<i, k>> \in R
      BY <2>1, <2>3, <2>4
    <3>3. QED  BY <3>1, <3>2 DEF Orders
  <2>6. PICK perm : InOrder(R, perm, n)
    BY <2>1, <2>5, CanBeOrdered
  <2>7. perm \in [1 .. n -> 1 .. n] /\ \A i \in 1 .. n : \E k \in 1 .. n : perm[k] = i
    BY <2>6 DEF InOrder
  <2>8. ASSUME NEW k \in 1 .. n, NEW l \in 1 .. n, k < l
        PROVE  \/ CornerBefore(components[perm[k]], components[perm[l]])
               \/ Corner(components[perm[k]]) = Corner(components[perm[l]]) /\ perm[k] < perm[l]
    <3> DEFINE i == perm[k]
               j == perm[l]
    <3>1. i \in 1 .. n /\ j \in 1 .. n /\ <<i, j>> \in R
      BY <2>6, <2>7, <2>8 DEF InOrder
    <3> HIDE DEF i, j
    <3>2. CASE X(i) = X(j) /\ Y(i) = Y(j)
      BY <2>3, <2>4, <3>1, <3>2 DEF i, j
    <3>3. CASE ~(X(i) = X(j) /\ Y(i) = Y(j))
      <4>1. Corner(components[i]) # Corner(components[j])
        BY <3>3 DEF X, Y
      <4>2. X(i) <= X(j) /\ (X(i) = X(j) => Y(i) <= Y(j))
        BY <2>3, <2>4, <3>1, <3>3
      <4>3. CornerBefore(components[i], components[j])
        BY <4>1, <4>2 DEF CornerBefore, X, Y
      <4>4. QED  BY <4>3 DEF i, j
    <3>4. QED  BY <3>2, <3>3
  <2>9. QED  BY <2>1, <2>7, <2>8 DEF IsStableSort
<1>2. OracleInit => Splitting /\ Asked
  BY InitSplitting DEF OracleInit, Asked
<1>3. QED  BY <1>1, <1>2, InitSplitting, StepSplitting, StepAsked, PTL DEF OracleSpec
=============================================================================
