---------------------------- MODULE Shapes_proofs ----------------------------
(***************************************************************************)
(* What the proofs about ReferenceSim, Verifier, Search and Novelty share, *)
(* for every rule: translations, figures (patterns that fit a box), their  *)
(* shapes, and their generations, by induction over the number of them.    *)
(***************************************************************************)
EXTENDS Shapes, FiniteSetTheorems, SequenceTheorems, WellFoundedInduction, TLAPS

Plane == Int \X Int

---------------------------------------------------------------------------
(* Cells and translations.                                                 *)

\* The neighbourhoods are made of pairs of integers.
LEMMA OffsetsInPlane == Offsets \subseteq Around /\ Around \subseteq Plane
BY DEF Offsets, Around, Plane

\* A cell is the pair of its coordinates.
LEMMA Coordinates ==
  ASSUME NEW c \in Plane
  PROVE  c[1] \in Int /\ c[2] \in Int /\ c = <<c[1], c[2]>>
BY DEF Plane

\* A shifted cell is a cell, and shifts can be exchanged and undone.
LEMMA ShiftType ==
  ASSUME NEW c \in Plane, NEW d \in Plane
  PROVE  Shift(c, d) \in Plane
BY DEF Shift, Plane

LEMMA ShiftSwap ==
  ASSUME NEW c \in Plane, NEW d \in Plane, NEW v \in Plane
  PROVE  Shift(Shift(c, d), v) = Shift(Shift(c, v), d)
BY DEF Shift, Plane

LEMMA ShiftUndo ==
  ASSUME NEW c \in Plane, NEW d \in Plane, NEW e \in Plane, e = <<-d[1], -d[2]>>
  PROVE  Shift(Shift(c, d), e) = c
BY Coordinates DEF Shift

LEMMA Opposed ==
  ASSUME NEW d \in Plane
  PROVE  <<-d[1], -d[2]>> \in Plane
BY DEF Plane

\* Shifting by the same vector keeps cells apart.
LEMMA ShiftInjective ==
  ASSUME NEW c \in Plane, NEW d \in Plane, NEW v \in Plane, Shift(c, v) = Shift(d, v)
  PROVE  c = d
<1>1. c[1] \in Int /\ c[2] \in Int /\ d[1] \in Int /\ d[2] \in Int
      /\ v[1] \in Int /\ v[2] \in Int
  BY Coordinates
<1>2. c[1] + v[1] = d[1] + v[1] /\ c[2] + v[2] = d[2] + v[2]
  <2>1. Shift(c, v)[1] = c[1] + v[1] /\ Shift(c, v)[2] = c[2] + v[2]
    BY DEF Shift
  <2>2. Shift(d, v)[1] = d[1] + v[1] /\ Shift(d, v)[2] = d[2] + v[2]
    BY DEF Shift
  <2>3. Shift(c, v)[1] = Shift(d, v)[1] /\ Shift(c, v)[2] = Shift(d, v)[2]
    OBVIOUS
  <2>4. QED  BY <2>1, <2>2, <2>3
<1>3. c = <<c[1], c[2]>> /\ d = <<d[1], d[2]>>
  BY Coordinates
<1>4. c[1] = d[1] /\ c[2] = d[2]
  <2>1. \A i, j, k \in Int : i + k = j + k => i = j
    OBVIOUS
  <2>2. QED  BY <1>1, <1>2, <2>1
<1>5. QED  BY <1>3, <1>4

\* A cell is in a pattern exactly when its image is in the translated pattern.
LEMMA TranslatedMember ==
  ASSUME NEW S \in SUBSET Plane, NEW c \in Plane, NEW v \in Plane
  PROVE  Shift(c, v) \in Translate(S, v) <=> c \in S
BY ShiftInjective DEF Translate

\* The opposite of an offset is an offset, and none is to stay where one is.
LEMMA Opposite ==
  ASSUME NEW d \in Around
  PROVE  <<-d[1], -d[2]>> \in Around
BY DEF Around

LEMMA StayAround == <<0, 0>> \in Around
BY DEF Around

\* Patterns of cells stay so.
LEMMA GenerationInPlane ==
  ASSUME NEW S \in SUBSET Plane
  PROVE  Generation(S) \in SUBSET Plane
<1> SUFFICES ASSUME NEW c \in Generation(S) PROVE c \in Plane
  OBVIOUS
<1>1. PICK a \in S, d \in Around : c = Shift(a, d)
  BY DEF Generation
<1>2. a \in Plane /\ d \in Plane
  BY OffsetsInPlane
<1>3. QED  BY <1>1, <1>2, ShiftType

LEMMA TranslateInPlane ==
  ASSUME NEW S \in SUBSET Plane, NEW v \in Plane
  PROVE  Translate(S, v) \in SUBSET Plane
<1> SUFFICES ASSUME NEW c \in Translate(S, v) PROVE c \in Plane
  OBVIOUS
<1>1. PICK a \in S : c = Shift(a, v)
  BY DEF Translate
<1>2. QED  BY <1>1, ShiftType

\* Translating a pattern translates its next generation.
LEMMA TranslatedGeneration ==
  ASSUME NEW S \in SUBSET Plane, NEW v \in Plane
  PROVE  Generation(Translate(S, v)) = Translate(Generation(S), v)
<1>1. \A c \in Plane : Count(Translate(S, v), Shift(c, v)) = Count(S, c)
  <2> SUFFICES ASSUME NEW c \in Plane
               PROVE  Count(Translate(S, v), Shift(c, v)) = Count(S, c)
    OBVIOUS
  <2>1. \A d \in Offsets : Shift(Shift(c, v), d) \in Translate(S, v) <=> Shift(c, d) \in S
    <3> SUFFICES ASSUME NEW d \in Offsets
                 PROVE  Shift(Shift(c, v), d) \in Translate(S, v) <=> Shift(c, d) \in S
      OBVIOUS
    <3>1. d \in Plane
      BY OffsetsInPlane
    <3>2. Shift(Shift(c, v), d) = Shift(Shift(c, d), v) /\ Shift(c, d) \in Plane
      BY <3>1, ShiftSwap, ShiftType
    <3>3. QED  BY <3>2, TranslatedMember
  <2>2. {d \in Offsets : Shift(Shift(c, v), d) \in Translate(S, v)}
          = {d \in Offsets : Shift(c, d) \in S}
    BY <2>1
  <2>3. QED  BY <2>2 DEF Count
<1>2. Generation(S) \subseteq Plane
  BY GenerationInPlane
<1>3. \A c \in Plane : c \in Generation(S) <=>
        /\ \E a \in S, d \in Around : c = Shift(a, d)
        /\ Lives(c \in S, Count(S, c))
  BY DEF Generation
<1>4. \A c \in Plane : Shift(c, v) \in Generation(Translate(S, v)) <=>
        /\ \E a \in Translate(S, v), d \in Around : Shift(c, v) = Shift(a, d)
        /\ Lives(Shift(c, v) \in Translate(S, v), Count(Translate(S, v), Shift(c, v)))
  BY DEF Generation
<1>5. \A c \in Plane :
        (\E a \in Translate(S, v), d \in Around : Shift(c, v) = Shift(a, d))
          <=> (\E a \in S, d \in Around : c = Shift(a, d))
  <2> SUFFICES ASSUME NEW c \in Plane
               PROVE  (\E a \in Translate(S, v), d \in Around : Shift(c, v) = Shift(a, d))
                        <=> (\E a \in S, d \in Around : c = Shift(a, d))
    OBVIOUS
  <2>1. ASSUME NEW a \in S, NEW d \in Around, c = Shift(a, d)
        PROVE  \E b \in Translate(S, v), e \in Around : Shift(c, v) = Shift(b, e)
    <3>1. Shift(a, v) \in Translate(S, v)
      BY DEF Translate
    <3>2. Shift(c, v) = Shift(Shift(a, v), d)
      <4>1. a \in Plane /\ d \in Plane
        BY OffsetsInPlane
      <4>2. QED  BY <2>1, <4>1, ShiftSwap
    <3>3. QED  BY <3>1, <3>2
  <2>2. ASSUME NEW b \in Translate(S, v), NEW d \in Around, Shift(c, v) = Shift(b, d)
        PROVE  \E a \in S, e \in Around : c = Shift(a, e)
    <3>1. PICK a \in S : b = Shift(a, v)
      BY DEF Translate
    <3>2. Shift(c, v) = Shift(Shift(a, d), v)
      <4>1. a \in Plane /\ d \in Plane
        BY OffsetsInPlane
      <4>2. QED  BY <2>2, <3>1, <4>1, ShiftSwap
    <3>3. c = Shift(a, d)
      <4>1. a \in Plane /\ d \in Plane
        BY OffsetsInPlane
      <4>2. Shift(a, d) \in Plane
        BY <4>1, ShiftType
      <4>3. QED  BY <3>2, <4>2, ShiftInjective
    <3>4. QED  BY <3>3
  <2>3. QED  BY <2>1, <2>2
<1>6. \A c \in Plane : Shift(c, v) \in Generation(Translate(S, v)) <=> c \in Generation(S)
  BY <1>1, <1>3, <1>4, <1>5, TranslatedMember
<1>7. Translate(S, v) \subseteq Plane
  BY TranslateInPlane
<1>8. Generation(Translate(S, v)) \subseteq Plane
  BY <1>7, GenerationInPlane
<1>9. \A e \in Plane : \E c \in Plane : e = Shift(c, v)
  <2> SUFFICES ASSUME NEW e \in Plane PROVE \E c \in Plane : e = Shift(c, v)
    OBVIOUS
  <2>1. Shift(e, <<-v[1], -v[2]>>) \in Plane /\ e = Shift(Shift(e, <<-v[1], -v[2]>>), v)
    BY DEF Shift, Plane
  <2>2. QED  BY <2>1
<1>10. \A e \in Generation(Translate(S, v)) : e \in Translate(Generation(S), v)
  BY <1>6, <1>8, <1>9 DEF Translate
<1>11. \A e \in Translate(Generation(S), v) : e \in Generation(Translate(S, v))
  BY <1>2, <1>6 DEF Translate
<1>12. QED  BY <1>10, <1>11

\* Translating there and back again gives the pattern.
LEMMA TranslateBack ==
  ASSUME NEW S \in SUBSET Plane, NEW v \in Plane, NEW w \in Plane,
         w = <<-v[1], -v[2]>>
  PROVE  Translate(Translate(S, v), w) = S
<1>1. \A c \in S : Shift(Shift(c, v), w) = c
  BY ShiftUndo
<1>2. QED  BY <1>1 DEF Translate
---------------------------------------------------------------------------
(* Induction, from the well-foundedness of < on Nat.                       *)

\* Every non-empty set of naturals has a least element.
LEMMA LeastNat ==
  ASSUME NEW T, T \subseteq Nat, T # {}
  PROVE  \E x \in T : \A y \in T : x <= y
<1> DEFINE R == {p \in Nat \X Nat : p[1] < p[2]}
<1>1. IsWellFoundedOn(R, Nat)
  <2>1. R = OpToRel(<, Nat)
    BY DEF OpToRel
  <2> QED
    BY <2>1, NatLessThanWellFounded
<1>2. ASSUME NEW x \in T, NEW y \in T, ~(<<y, x>> \in R)
      PROVE  x <= y
  <2>1. <<y, x>> \in Nat \X Nat /\ x \in Nat /\ y \in Nat
    OBVIOUS
  <2>2. ~(y < x)
    BY <1>2, <2>1
  <2> QED
    BY <2>1, <2>2
<1> HIDE DEF R
<1>3. \E x \in T : \A y \in T : ~(<<y, x>> \in R)
  BY <1>1, WFMin
<1> QED
  BY <1>2, <1>3

\* A set with 0 and with every successor of its members has every natural.
LEMMA Induction ==
  ASSUME NEW S, 0 \in S, \A j \in Nat : j \in S => j + 1 \in S
  PROVE  Nat \subseteq S
<1> SUFFICES ASSUME Nat \ S # {}
             PROVE  FALSE
  OBVIOUS
<1>1. PICK j \in Nat \ S : \A m \in Nat \ S : j <= m
  BY LeastNat
<1>2. j - 1 \in Nat /\ j - 1 \in S
  BY <1>1
<1> QED
  BY <1>1, <1>2

\* The same up to k.
LEMMA BoundedInduction ==
  ASSUME NEW k \in Nat, NEW S, 0 \in S, \A i \in 1 .. k : i - 1 \in S => i \in S
  PROVE  0 .. k \subseteq S
<1> DEFINE T == {j \in Nat : j <= k => j \in S}
<1>1. 0 \in T
  OBVIOUS
<1>2. ASSUME NEW j \in Nat, j \in T
      PROVE  j + 1 \in T
  <2> SUFFICES ASSUME j + 1 <= k
               PROVE  j + 1 \in S
    OBVIOUS
  <2>1. j + 1 \in 1 .. k /\ (j + 1) - 1 = j /\ j \in S
    BY <1>2
  <2> QED
    BY <2>1
<1> HIDE DEF T
<1>3. Nat \subseteq T
  BY <1>1, <1>2, Induction
<1> QED
  BY <1>3 DEF T

\* f starts at a and takes k steps, the i-th of which is F[i].
Follows(f, a, k, F) == f[0] = a /\ \A i \in 1 .. k : f[i] = F[i][f[i - 1]]

\* Steps that stay in D can be taken one after the other.
LEMMA Recursion ==
  ASSUME NEW D, NEW a \in D, NEW k \in Nat, NEW F \in [1 .. k -> [D -> D]]
  PROVE  \E f \in [0 .. k -> D] : Follows(f, a, k, F)
<1> USE DEF Follows
<1> DEFINE Upto(j) == \E f \in [0 .. j -> D] : f[0] = a /\ \A i \in 1 .. j : f[i] = F[i][f[i - 1]]
           S == {j \in Nat : j <= k => Upto(j)}
<1>1. 0 \in S
  <2> DEFINE f == [i \in 0 .. 0 |-> a]
  <2>1. f \in [0 .. 0 -> D] /\ f[0] = a /\ \A i \in 1 .. 0 : f[i] = F[i][f[i - 1]]
    OBVIOUS
  <2> HIDE DEF f
  <2>2. Upto(0)
    BY <2>1
  <2> QED
    BY <2>2
<1>2. ASSUME NEW j \in Nat, j \in S
      PROVE  j + 1 \in S
  <2> SUFFICES ASSUME j + 1 <= k
               PROVE  Upto(j + 1)
    OBVIOUS
  <2>1. PICK f \in [0 .. j -> D] : f[0] = a /\ \A i \in 1 .. j : f[i] = F[i][f[i - 1]]
    BY <1>2
  <2> DEFINE g == [i \in 0 .. j + 1 |-> IF i = j + 1 THEN F[j + 1][f[j]] ELSE f[i]]
  <2>2. g \in [0 .. j + 1 -> D]
    BY <2>1
  <2>3. g[0] = a
    BY <2>1
  <2>4. ASSUME NEW i \in 1 .. j + 1
        PROVE  g[i] = F[i][g[i - 1]]
    <3>1. i - 1 \in 0 .. j /\ i - 1 # j + 1 /\ i \in 0 .. j + 1
      OBVIOUS
    <3>2. g[i - 1] = f[i - 1]
      BY <3>1
    <3>3. CASE i = j + 1
      BY <3>1, <3>2, <3>3
    <3>4. CASE i # j + 1
      BY <2>1, <3>1, <3>2, <3>4
    <3> QED
      BY <3>3, <3>4
  <2> QED
    BY <2>2, <2>3, <2>4
<1> HIDE DEF S
<1>3. Nat \subseteq S
  BY <1>1, <1>2, Induction
<1> QED
  BY <1>3 DEF S

---------------------------------------------------------------------------
(* Figures: the patterns that fit a box, as every finite one does.         *)

\* Patterns within some box around the origin.
Figures == {S \in SUBSET Plane : \E b \in Nat : \A c \in S : c[1] \in -b .. b /\ c[2] \in -b .. b}

\* A finite pattern fits a box.
LEMMA FinitePatterns ==
  ASSUME NEW S \in SUBSET Plane, IsFiniteSet(S)
  PROVE  S \in Figures
<1> DEFINE T == {j \in Nat : \A U \in SUBSET Plane : IsFiniteSet(U) /\ Cardinality(U) = j => U \in Figures}
<1>1. 0 \in T
  <2> SUFFICES ASSUME NEW U \in SUBSET Plane, IsFiniteSet(U), Cardinality(U) = 0
               PROVE  U \in Figures
    OBVIOUS
  <2>1. U = {} /\ 0 \in Nat
    BY FS_EmptySet
  <2> QED
    BY <2>1 DEF Figures
<1>2. ASSUME NEW j \in Nat, j \in T
      PROVE  j + 1 \in T
  <2> SUFFICES ASSUME NEW U \in SUBSET Plane, IsFiniteSet(U), Cardinality(U) = j + 1
               PROVE  U \in Figures
    OBVIOUS
  <2>1. U # {}
    BY FS_EmptySet
  <2>2. PICK a \in U : TRUE
    BY <2>1
  <2>3. IsFiniteSet(U \ {a}) /\ Cardinality(U \ {a}) = j
    <3>1. IsFiniteSet(U \ {a}) /\ Cardinality(U \ {a}) = Cardinality(U) - 1
      BY FS_RemoveElement
    <3> QED
      BY <3>1
  <2>4. U \ {a} \in Figures
    BY <1>2, <2>3
  <2>5. PICK b \in Nat : \A c \in U \ {a} : c[1] \in -b .. b /\ c[2] \in -b .. b
    BY <2>4 DEF Figures
  <2>6. a[1] \in Int /\ a[2] \in Int
    BY DEF Plane
  <2>7. PICK e \in Nat : e >= b /\ a[1] \in -e .. e /\ a[2] \in -e .. e
    <3>1. \A x \in Int, y \in Int : \E e \in Nat : e >= b /\ x \in -e .. e /\ y \in -e .. e
      <4> SUFFICES ASSUME NEW x \in Int, NEW y \in Int
                   PROVE  \E e \in Nat : e >= b /\ x \in -e .. e /\ y \in -e .. e
        OBVIOUS
      <4> DEFINE u == IF x < 0 THEN -x ELSE x
                 v == IF y < 0 THEN -y ELSE y
                 e == b + u + v
      <4>1. u \in Nat /\ v \in Nat /\ x \in -u .. u /\ y \in -v .. v
        OBVIOUS
      <4> HIDE DEF u, v
      <4>2. e \in Nat /\ e >= b /\ x \in -e .. e /\ y \in -e .. e
        BY <4>1
      <4> QED
        BY <4>2
    <3> QED
      BY <2>6, <3>1
  <2>8. \A c \in U : c[1] \in -e .. e /\ c[2] \in -e .. e
    <3> TAKE c \in U
    <3>1. CASE c = a
      BY <2>7, <3>1
    <3>2. CASE c # a
      BY <2>5, <2>7, <3>2
    <3> QED
      BY <3>1, <3>2
  <2> QED
    BY <2>8 DEF Figures
<1> HIDE DEF T
<1>3. Nat \subseteq T
  BY <1>1, <1>2, Induction
<1>4. Cardinality(S) \in Nat
  BY FS_CardinalityType
<1> QED
  BY <1>3, <1>4 DEF T

\* The cells of a figure are cells of the plane.
LEMMA FigureCells ==
  ASSUME NEW S \in Figures
  PROVE  /\ S \in SUBSET Plane
         /\ \A c \in S : c \in Plane /\ c[1] \in Int /\ c[2] \in Int /\ c = <<c[1], c[2]>>
BY DEF Figures, Plane

\* A generation reaches one cell further than the one before, a translation as far as it goes.
LEMMA GenerationFigure ==
  ASSUME NEW S \in Figures
  PROVE  Generation(S) \in Figures
<1>1. PICK b \in Nat : \A c \in S : c[1] \in -b .. b /\ c[2] \in -b .. b
  BY DEF Figures
<1>2. ASSUME NEW c \in Generation(S)
      PROVE  c[1] \in -(b + 1) .. b + 1 /\ c[2] \in -(b + 1) .. b + 1
  <2>1. PICK a \in S, d \in Around : c = Shift(a, d)
    BY DEF Generation
  <2>2. d[1] \in -1 .. 1 /\ d[2] \in -1 .. 1 /\ c[1] = a[1] + d[1] /\ c[2] = a[2] + d[2]
    BY <2>1 DEF Around, Shift
  <2>3. a[1] \in -b .. b /\ a[2] \in -b .. b
    BY <1>1
  <2> QED
    BY <2>2, <2>3
<1>3. Generation(S) \in SUBSET Plane /\ b + 1 \in Nat
  BY FigureCells, GenerationInPlane
<1> QED
  BY <1>2, <1>3 DEF Figures

\* A translated figure is a figure.
LEMMA TranslateFigure ==
  ASSUME NEW S \in Figures, NEW v \in Plane
  PROVE  Translate(S, v) \in Figures
<1>1. PICK b \in Nat : \A c \in S : c[1] \in -b .. b /\ c[2] \in -b .. b
  BY DEF Figures
<1>2. v[1] \in Int /\ v[2] \in Int
  BY DEF Plane
<1>3. PICK e \in Nat : v[1] \in -e .. e /\ v[2] \in -e .. e
  <2>1. \A x \in Int, y \in Int : \E e \in Nat : x \in -e .. e /\ y \in -e .. e
    <3> SUFFICES ASSUME NEW x \in Int, NEW y \in Int
                 PROVE  \E e \in Nat : x \in -e .. e /\ y \in -e .. e
      OBVIOUS
    <3> DEFINE u == IF x < 0 THEN -x ELSE x
               w == IF y < 0 THEN -y ELSE y
               e == u + w
    <3>1. u \in Nat /\ w \in Nat /\ x \in -u .. u /\ y \in -w .. w
      OBVIOUS
    <3> HIDE DEF u, w
    <3>2. e \in Nat /\ x \in -e .. e /\ y \in -e .. e
      BY <3>1
    <3> QED
      BY <3>2
  <2> QED
    BY <1>2, <2>1
<1>4. ASSUME NEW c \in Translate(S, v)
      PROVE  c[1] \in -(b + e) .. b + e /\ c[2] \in -(b + e) .. b + e
  <2>1. PICK a \in S : c = Shift(a, v)
    BY DEF Translate
  <2>2. c[1] = a[1] + v[1] /\ c[2] = a[2] + v[2]
    BY <2>1 DEF Shift
  <2>3. a[1] \in -b .. b /\ a[2] \in -b .. b
    BY <1>1
  <2> QED
    BY <1>3, <2>2, <2>3
<1>5. Translate(S, v) \in SUBSET Plane /\ b + e \in Nat
  BY FigureCells, TranslateInPlane
<1> QED
  BY <1>4, <1>5 DEF Figures

---------------------------------------------------------------------------
(* The edges of a figure.                                                  *)

\* A set of integers that is bounded below has a least element.
LEMMA MinIs ==
  ASSUME NEW T \in SUBSET Int, T # {}, NEW b \in Int, \A x \in T : b <= x
  PROVE  Min(T) \in T /\ \A x \in T : Min(T) <= x
<1> DEFINE U == {x \in Nat : x + b \in T}
<1>1. U # {}
  <2>1. PICK x \in T : TRUE
    OBVIOUS
  <2>2. x - b \in Nat /\ (x - b) + b = x
    OBVIOUS
  <2> QED
    BY <2>2
<1>2. PICK x \in U : \A y \in U : x <= y
  BY <1>1, LeastNat
<1>3. x + b \in T
  OBVIOUS
<1>4. ASSUME NEW y \in T
      PROVE  x + b <= y
  <2>1. y - b \in U
    <3>1. y - b \in Nat /\ (y - b) + b = y
      OBVIOUS
    <3> QED
      BY <3>1
  <2>2. x <= y - b
    BY <1>2, <2>1
  <2> QED
    BY <2>2
<1> HIDE DEF U
<1>5. \E z \in T : \A y \in T : z <= y
  BY <1>3, <1>4
<1> QED
  BY <1>5 DEF Min

\* An element that is least is the Min, and one that is greatest the Max.
LEMMA MinUnique ==
  ASSUME NEW T \in SUBSET Int, NEW x \in T, \A y \in T : x <= y
  PROVE  Min(T) = x
<1>1. Min(T) \in T /\ \A y \in T : Min(T) <= y
  BY DEF Min
<1>2. x <= Min(T) /\ Min(T) <= x /\ Min(T) \in Int /\ x \in Int
  BY <1>1
<1> QED
  BY <1>2

LEMMA MaxUnique ==
  ASSUME NEW T \in SUBSET Int, NEW x \in T, \A y \in T : y <= x
  PROVE  Max(T) = x
<1>1. Max(T) \in T /\ \A y \in T : Max(T) >= y
  BY DEF Max
<1>2. x >= Max(T) /\ Max(T) >= x /\ Max(T) \in Int /\ x \in Int
  BY <1>1
<1> QED
  BY <1>2

\* The leftmost and the uppermost cell.
LEMMA Edges ==
  ASSUME NEW S \in Figures, S # {}
  PROVE  /\ Left(S) \in Int /\ \A c \in S : Left(S) <= c[1]
         /\ Top(S) \in Int /\ \A c \in S : Top(S) <= c[2]
         /\ \E c \in S : c[1] = Left(S)
         /\ \E c \in S : c[2] = Top(S)
<1>1. PICK b \in Nat : \A c \in S : c[1] \in -b .. b /\ c[2] \in -b .. b
  BY DEF Figures
<1> DEFINE columns == {c[1] : c \in S}
           rows == {c[2] : c \in S}
<1>2. columns \in SUBSET Int /\ columns # {} /\ \A x \in columns : -b <= x
  BY <1>1
<1>3. rows \in SUBSET Int /\ rows # {} /\ \A x \in rows : -b <= x
  BY <1>1
<1>4. Left(S) = Min(columns) /\ Top(S) = Min(rows)
  BY DEF Left, Top
<1> HIDE DEF columns, rows
<1>5. Min(columns) \in columns /\ (\A x \in columns : Min(columns) <= x) /\ Min(rows) \in rows /\ (\A x \in rows : Min(rows) <= x)
  <2> DEFINE low == -b
  <2>1. low \in Int
    OBVIOUS
  <2>2. (\A x \in columns : low <= x) /\ (\A x \in rows : low <= x)
    BY <1>2, <1>3
  <2> HIDE DEF low
  <2>3. Min(columns) \in columns /\ \A x \in columns : Min(columns) <= x
    BY <1>2, <2>1, <2>2, MinIs
  <2>4. Min(rows) \in rows /\ \A x \in rows : Min(rows) <= x
    BY <1>3, <2>1, <2>2, MinIs
  <2> QED
    BY <2>3, <2>4
<1>6. \A c \in S : c[1] \in columns /\ c[2] \in rows
  BY DEF columns, rows
<1>7. (\E c \in S : c[1] = Min(columns)) /\ (\E c \in S : c[2] = Min(rows))
  BY <1>5 DEF columns, rows
<1> QED
  BY <1>2, <1>3, <1>4, <1>5, <1>6, <1>7

\* They are the only numbers of the kind.
LEMMA EdgesUnique ==
  ASSUME NEW S \in Figures, NEW x \in Int
  PROVE  /\ (\E c \in S : c[1] = x) /\ (\A c \in S : x <= c[1]) => Left(S) = x
         /\ (\E c \in S : c[2] = x) /\ (\A c \in S : x <= c[2]) => Top(S) = x
<1>1. ASSUME NEW a \in S, a[1] = x, \A c \in S : x <= c[1]
      PROVE  Left(S) = x
  <2> DEFINE T == {c[1] : c \in S}
  <2>1. T \in SUBSET Int /\ x \in T /\ \A y \in T : x <= y
    BY <1>1, FigureCells
  <2> HIDE DEF T
  <2>2. Min(T) = x
    BY <2>1, MinUnique
  <2> QED
    BY <2>2 DEF Left, T
<1>2. ASSUME NEW a \in S, a[2] = x, \A c \in S : x <= c[2]
      PROVE  Top(S) = x
  <2> DEFINE T == {c[2] : c \in S}
  <2>1. T \in SUBSET Int /\ x \in T /\ \A y \in T : x <= y
    BY <1>2, FigureCells
  <2> HIDE DEF T
  <2>2. Min(T) = x
    BY <2>1, MinUnique
  <2> QED
    BY <2>2 DEF Top, T
<1> QED
  BY <1>1, <1>2

\* The edges move with the figure.
LEMMA EdgesMove ==
  ASSUME NEW S \in Figures, S # {}, NEW v \in Plane
  PROVE  Left(Translate(S, v)) = Left(S) + v[1] /\ Top(Translate(S, v)) = Top(S) + v[2]
<1>1. v[1] \in Int /\ v[2] \in Int
  BY DEF Plane
<1>2. Translate(S, v) \in Figures
  BY TranslateFigure
<1>3. /\ \A c \in S : \E e \in Translate(S, v) : e[1] = c[1] + v[1] /\ e[2] = c[2] + v[2]
      /\ \A e \in Translate(S, v) : \E c \in S : e[1] = c[1] + v[1] /\ e[2] = c[2] + v[2]
  <2>1. ASSUME NEW c \in S
        PROVE  \E e \in Translate(S, v) : e[1] = c[1] + v[1] /\ e[2] = c[2] + v[2]
    <3>1. Shift(c, v) \in Translate(S, v)
      BY DEF Translate
    <3> QED
      BY <3>1 DEF Shift
  <2>2. ASSUME NEW e \in Translate(S, v)
        PROVE  \E c \in S : e[1] = c[1] + v[1] /\ e[2] = c[2] + v[2]
    <3>1. PICK c \in S : e = Shift(c, v)
      BY DEF Translate
    <3> QED
      BY <3>1 DEF Shift
  <2> QED
    BY <2>1, <2>2
<1>4. /\ Left(S) \in Int /\ \A c \in S : Left(S) <= c[1]
      /\ Top(S) \in Int /\ \A c \in S : Top(S) <= c[2]
      /\ \E c \in S : c[1] = Left(S)
      /\ \E c \in S : c[2] = Top(S)
  BY Edges
<1>5. \A c \in S : c[1] \in Int /\ c[2] \in Int
  BY FigureCells
<1>6. \A e \in Translate(S, v) : Left(S) + v[1] <= e[1] /\ Top(S) + v[2] <= e[2]
  BY <1>1, <1>3, <1>4, <1>5
<1>7. /\ \E e \in Translate(S, v) : e[1] = Left(S) + v[1]
      /\ \E e \in Translate(S, v) : e[2] = Top(S) + v[2]
  BY <1>3, <1>4
<1>8. Left(S) + v[1] \in Int /\ Top(S) + v[2] \in Int
  BY <1>1, <1>4
<1> QED
  BY <1>2, <1>6, <1>7, <1>8, EdgesUnique

---------------------------------------------------------------------------
(* Shapes.                                                                 *)

\* The opposite of a translation.
Away(v) == <<-v[1], -v[2]>>

\* Translations add up.
LEMMA TranslateTwice ==
  ASSUME NEW S \in SUBSET Plane, NEW v \in Plane, NEW w \in Plane
  PROVE  Translate(Translate(S, v), w) = Translate(S, Shift(v, w))
<1>1. \A c \in S : Shift(Shift(c, v), w) = Shift(c, Shift(v, w))
  <2> TAKE c \in S
  <2>1. c[1] \in Int /\ c[2] \in Int /\ v[1] \in Int /\ v[2] \in Int /\ w[1] \in Int /\ w[2] \in Int
    BY DEF Plane
  <2>2. (c[1] + v[1]) + w[1] = c[1] + (v[1] + w[1]) /\ (c[2] + v[2]) + w[2] = c[2] + (v[2] + w[2])
    BY <2>1
  <2> QED
    BY <2>2 DEF Shift
<1> QED
  BY <1>1 DEF Translate

\* Only nothing becomes nothing, and the zero translation moves nothing.
LEMMA TranslateEmpty ==
  ASSUME NEW S, NEW v
  PROVE  Translate(S, v) = {} <=> S = {}
BY DEF Translate

LEMMA TranslateNowhere ==
  ASSUME NEW S \in SUBSET Plane
  PROVE  Translate(S, <<0, 0>>) = S
<1>1. \A c \in S : Shift(c, <<0, 0>>) = c
  <2> TAKE c \in S
  <2>1. c[1] \in Int /\ c[2] \in Int /\ c = <<c[1], c[2]>>
    BY Coordinates
  <2>2. c[1] + 0 = c[1] /\ c[2] + 0 = c[2]
    BY <2>1
  <2> QED
    BY <2>1, <2>2 DEF Shift
<1> QED
  BY <1>1 DEF Translate

\* The corner of a figure that is not empty.
TopLeft(S) == <<Left(S), Top(S)>>

\* The corner of the bounding box moves with the pattern.
LEMMA CornerMoves ==
  ASSUME NEW S \in Figures, S # {}
  PROVE  /\ TopLeft(S) \in Plane
         /\ \A v \in Plane : TopLeft(Translate(S, v)) = Shift(TopLeft(S), v)
<1>1. TopLeft(S) \in Plane
  BY Edges DEF TopLeft, Plane
<1>2. ASSUME NEW v \in Plane
      PROVE  TopLeft(Translate(S, v)) = Shift(TopLeft(S), v)
  BY EdgesMove DEF TopLeft, Shift
<1> QED
  BY <1>1, <1>2

\* Normalized takes a pattern back by its corner.
LEMMA NormalizedIs ==
  ASSUME NEW S \in Figures
  PROVE  /\ S = {} => Normalized(S) = {}
         /\ S # {} => Normalized(S) = Translate(S, Away(TopLeft(S)))
<1>1. CASE S = {}
  BY <1>1 DEF Normalized
<1>2. CASE S # {}
  <2>1. Away(TopLeft(S)) = <<-Left(S), -Top(S)>>
    BY DEF Away, TopLeft
  <2> QED
    BY <1>2, <2>1 DEF Normalized
<1> QED
  BY <1>1, <1>2

\* Two figures have one shape just when one is the other, moved.
LEMMA SameShape ==
  ASSUME NEW S \in Figures, NEW T \in Figures, S # {}, Normalized(T) = Normalized(S)
  PROVE  /\ T # {}
         /\ T = Translate(S, <<Left(T) - Left(S), Top(T) - Top(S)>>)
         /\ <<Left(T) - Left(S), Top(T) - Top(S)>> \in Plane
<1> DEFINE p == TopLeft(S)
           q == TopLeft(T)
           a == Away(p)
           b == Away(q)
           v == <<Left(T) - Left(S), Top(T) - Top(S)>>
<1>1. S \in SUBSET Plane /\ T \in SUBSET Plane
  BY FigureCells
<1>2. Translate(S, a) # {}
  BY TranslateEmpty
<1>3. T # {}
  BY <1>2, NormalizedIs
<1>4. p \in Plane /\ q \in Plane
  BY <1>3, CornerMoves
<1>5. v = Shift(a, q) /\ v \in Plane /\ a \in Plane /\ b \in Plane
  <2>1. Left(S) \in Int /\ Top(S) \in Int /\ Left(T) \in Int /\ Top(T) \in Int
    BY <1>3, Edges
  <2>2. a = <<-Left(S), -Top(S)>> /\ b = <<-Left(T), -Top(T)>> /\ q = <<Left(T), Top(T)>>
    BY DEF Away, TopLeft
  <2>3. -Left(S) + Left(T) = Left(T) - Left(S) /\ -Top(S) + Top(T) = Top(T) - Top(S)
    BY <2>1
  <2>4. -Left(S) \in Int /\ -Top(S) \in Int /\ -Left(T) \in Int /\ -Top(T) \in Int
        /\ Left(T) - Left(S) \in Int /\ Top(T) - Top(S) \in Int
    BY <2>1
  <2>5. Shift(a, q) = <<-Left(S) + Left(T), -Top(S) + Top(T)>>
    BY <2>2 DEF Shift
  <2> HIDE DEF a, b, q
  <2> QED
    BY <2>2, <2>3, <2>4, <2>5 DEF Plane
<1>6. Translate(T, b) = Translate(S, a)
  BY <1>3, NormalizedIs
<1>7. q = <<-b[1], -b[2]>>
  <2>1. Left(T) \in Int /\ Top(T) \in Int
    BY <1>3, Edges
  <2>2. -(-Left(T)) = Left(T) /\ -(-Top(T)) = Top(T)
    BY <2>1
  <2> QED
    BY <2>2 DEF Away, TopLeft
<1> HIDE DEF p, q, a, b, v
<1>8. Translate(Translate(T, b), q) = T
  BY <1>1, <1>4, <1>5, <1>7, TranslateBack
<1>9. Translate(Translate(S, a), q) = Translate(S, v)
  BY <1>1, <1>4, <1>5, TranslateTwice
<1> QED
  BY <1>3, <1>5, <1>6, <1>8, <1>9 DEF v

\* A translation leaves the shape as it is.
LEMMA ShapeMoves ==
  ASSUME NEW S \in Figures, NEW v \in Plane
  PROVE  Normalized(Translate(S, v)) = Normalized(S)
<1> DEFINE T == Translate(S, v)
           p == TopLeft(S)
           q == TopLeft(T)
<1>1. S \in SUBSET Plane /\ T \in Figures
  BY FigureCells, TranslateFigure
<1>2. CASE S = {}
  <2>1. T = {}
    BY <1>2, TranslateEmpty
  <2> QED
    BY <1>1, <1>2, <2>1, NormalizedIs
<1>3. CASE S # {}
  <2>1. T # {}
    BY <1>3, TranslateEmpty
  <2>2. p \in Plane /\ q = Shift(p, v) /\ q \in Plane
    BY <1>1, <1>3, <2>1, CornerMoves
  <2>3. Shift(v, Away(q)) = Away(p) /\ Away(q) \in Plane
    <3>1. p[1] \in Int /\ p[2] \in Int /\ v[1] \in Int /\ v[2] \in Int
      BY <2>2, Coordinates
    <3> HIDE DEF p, q
    <3>2. q = <<p[1] + v[1], p[2] + v[2]>>
      BY <2>2 DEF Shift
    <3>3. /\ v[1] + -(p[1] + v[1]) = -p[1] /\ v[2] + -(p[2] + v[2]) = -p[2]
          /\ -(p[1] + v[1]) \in Int /\ -(p[2] + v[2]) \in Int
      BY <3>1
    <3>4. Away(q) = <<-(p[1] + v[1]), -(p[2] + v[2])>>
      BY <3>2 DEF Away
    <3>5. Shift(v, Away(q)) = <<v[1] + -(p[1] + v[1]), v[2] + -(p[2] + v[2])>>
      BY <3>4 DEF Shift
    <3> QED
      BY <3>3, <3>4, <3>5 DEF Away, Plane
  <2>4. Normalized(S) = Translate(S, Away(p)) /\ Normalized(T) = Translate(T, Away(q))
    BY <1>1, <1>3, <2>1, NormalizedIs
  <2>5. Translate(T, Away(q)) = Translate(S, Shift(v, Away(q)))
    BY <1>1, <2>3, TranslateTwice
  <2> QED
    BY <2>3, <2>4, <2>5
<1> QED
  BY <1>2, <1>3

---------------------------------------------------------------------------
(* The generations of a figure.                                            *)

\* Histories of figures.
Pasts == Seq(Figures) \ {<< >>}

\* One more generation.
LEMMA OlderIs ==
  ASSUME NEW past \in Pasts
  PROVE  /\ Older(past) \in Pasts /\ Len(Older(past)) = Len(past) + 1
         /\ Older(past)[Len(past) + 1] = Generation(past[Len(past)])
         /\ \A i \in 1 .. Len(past) : Older(past)[i] = past[i]
<1>1. past \in Seq(Figures) /\ Len(past) \in Nat \ {0} /\ past[Len(past)] \in Figures
  BY DEF Pasts
<1> DEFINE g == Generation(past[Len(past)])
<1>2. g \in Figures
  BY <1>1, GenerationFigure
<1>3. Older(past) = Append(past, g)
  BY DEF Older, Last
<1> HIDE DEF g
<1>4. Append(past, g) \in Pasts
  BY <1>1, <1>2, AppendProperties DEF Pasts
<1>5. Len(Append(past, g)) = Len(past) + 1 /\ Append(past, g)[Len(past) + 1] = g
      /\ \A i \in 1 .. Len(past) : Append(past, g)[i] = past[i]
  BY <1>1, <1>2, AppendProperties
<1> QED
  BY <1>3, <1>4, <1>5 DEF g

\* Each generation is the one that follows the generation before it.
LEMMA GenerationsAre ==
  ASSUME NEW S \in Figures, NEW k \in Nat
  PROVE  /\ Generations(S, k) \in Seq(Figures) /\ Len(Generations(S, k)) = k + 1
         /\ Generations(S, k)[1] = S
         /\ \A i \in 1 .. k : Generations(S, k)[i + 1] = Generation(Generations(S, k)[i])
<1> DEFINE F == [i \in 1 .. k |-> [past \in Pasts |-> Older(past)]]
           upTo[i \in 0 .. k] == IF i = 0 THEN << S >> ELSE Older(upTo[i - 1])
<1>1. << S >> \in Pasts
  <2>1. << S >> \in Seq(Figures) /\ Len(<< S >>) = 1
    OBVIOUS
  <2> QED
    BY <2>1 DEF Pasts
<1>2. F \in [1 .. k -> [Pasts -> Pasts]]
  BY OlderIs
<1> DEFINE alone == << S >>
<1> HIDE DEF F, upTo, alone
<1>3. PICK f \in [0 .. k -> Pasts] : Follows(f, alone, k, F)
  BY <1>1, <1>2, Recursion DEF alone
<1>4. ASSUME NEW i \in 1 .. k
      PROVE  f[i] = Older(f[i - 1])
  <2>1. i - 1 \in 0 .. k
    OBVIOUS
  <2>2. f[i - 1] \in Pasts /\ f[i] = F[i][f[i - 1]]
    BY <1>3, <2>1 DEF Follows
  <2>3. F[i][f[i - 1]] = Older(f[i - 1])
    BY <2>2 DEF F
  <2> QED
    BY <2>2, <2>3
<1>5. f = [i \in 0 .. k |-> IF i = 0 THEN << S >> ELSE Older(f[i - 1])]
  <2>1. f = [i \in 0 .. k |-> IF i = 0 THEN alone ELSE Older(f[i - 1])]
    BY <1>3, <1>4 DEF Follows
  <2> QED
    BY <2>1 DEF alone
<1>6. upTo = [i \in 0 .. k |-> IF i = 0 THEN << S >> ELSE Older(upTo[i - 1])]
  BY <1>5 DEF upTo
<1>7. Generations(S, k) = upTo[k]
  BY DEF Generations, upTo
<1> DEFINE Right(i) == /\ upTo[i] \in Pasts /\ Len(upTo[i]) = i + 1 /\ upTo[i][1] = S
                       /\ \A j \in 1 .. i : upTo[i][j + 1] = Generation(upTo[i][j])
           T == {i \in 0 .. k : Right(i)}
<1>8. 0 \in T
  <2>1. upTo[0] = << S >> /\ Len(<< S >>) = 1 /\ S = << S >>[1]
    BY <1>6
  <2> QED
    BY <1>1, <2>1
<1>9. ASSUME NEW i \in 1 .. k, i - 1 \in T
      PROVE  i \in T
  <2> DEFINE past == upTo[i - 1]
             more == upTo[i]
  <2>1. past \in Pasts /\ Len(past) = i /\ past[1] = S
        /\ \A j \in 1 .. i - 1 : past[j + 1] = Generation(past[j])
    BY <1>9
  <2>2. more = Older(past)
    BY <1>6
  <2> HIDE DEF past, more
  <2>3. more \in Pasts /\ Len(more) = i + 1 /\ more[i + 1] = Generation(past[i])
        /\ \A j \in 1 .. i : more[j] = past[j]
    BY <2>1, <2>2, OlderIs
  <2>4. more[1] = S
    BY <2>1, <2>3
  <2>5. ASSUME NEW j \in 1 .. i
        PROVE  more[j + 1] = Generation(more[j])
    <3>1. CASE j = i
      BY <2>3, <3>1
    <3>2. CASE j # i
      <4>1. j \in 1 .. i - 1 /\ j + 1 \in 1 .. i
        BY <3>2
      <4> QED
        BY <2>1, <2>3, <4>1
    <3> QED
      BY <3>1, <3>2
  <2> QED
    BY <2>3, <2>4, <2>5 DEF more
<1> HIDE DEF T
<1>10. 0 .. k \subseteq T
  BY <1>8, <1>9, BoundedInduction
<1>11. Right(k)
  BY <1>10 DEF T
<1> QED
  BY <1>7, <1>11 DEF Pasts

\* Two sequences of generations that start at the same figure agree.
LEMMA GenerationsAgree ==
  ASSUME NEW S \in Figures, NEW k \in Nat, NEW i \in 0 .. k
  PROVE  Generations(S, k)[i + 1] = At(S, i)
<1> DEFINE a == Generations(S, k)
           b == Generations(S, i)
           T == {j \in 0 .. i : a[j + 1] = b[j + 1]}
<1>1. a[1] = S /\ \A j \in 1 .. k : a[j + 1] = Generation(a[j])
  BY GenerationsAre
<1>2. b[1] = S /\ \A j \in 1 .. i : b[j + 1] = Generation(b[j])
  BY GenerationsAre
<1> HIDE DEF a, b
<1>3. 0 \in T
  BY <1>1, <1>2
<1>4. ASSUME NEW j \in 1 .. i, j - 1 \in T
      PROVE  j \in T
  <2>1. a[j] = b[j]
    BY <1>4
  <2>2. a[j + 1] = Generation(a[j]) /\ b[j + 1] = Generation(b[j])
    BY <1>1, <1>2
  <2> QED
    BY <2>1, <2>2
<1> HIDE DEF T
<1>5. 0 .. i \subseteq T
  BY <1>3, <1>4, BoundedInduction
<1> QED
  BY <1>5 DEF T, At, a, b

\* At(S, k) is the k-th generation of S.
LEMMA AtIs ==
  ASSUME NEW S \in Figures
  PROVE  /\ At(S, 0) = S
         /\ \A k \in Nat : At(S, k) \in Figures /\ At(S, k + 1) = Generation(At(S, k))
<1>1. At(S, 0) = S
  BY GenerationsAre DEF At
<1>2. ASSUME NEW k \in Nat
      PROVE  At(S, k) \in Figures /\ At(S, k + 1) = Generation(At(S, k))
  <2> DEFINE g == Generations(S, k)
             h == Generations(S, k + 1)
  <2>1. g \in Seq(Figures) /\ Len(g) = k + 1
    BY GenerationsAre
  <2>2. g[k + 1] \in Figures
    BY <2>1
  <2>3. h[(k + 1) + 1] = Generation(h[k + 1])
    BY GenerationsAre
  <2>4. h[k + 1] = At(S, k)
    BY GenerationsAgree
  <2> QED
    BY <2>2, <2>3, <2>4 DEF At
<1> QED
  BY <1>1, <1>2

\* The first of them is the next one.
LEMMA AtOne ==
  ASSUME NEW S \in Figures
  PROVE  At(S, 1) = Generation(S)
<1>1. At(S, 0 + 1) = Generation(At(S, 0))
  BY AtIs
<1> QED
  BY <1>1, AtIs

\* The j-th generation of the i-th.
LEMMA AtAdds ==
  ASSUME NEW S \in Figures, NEW i \in Nat, NEW j \in Nat
  PROVE  At(At(S, i), j) = At(S, i + j)
<1> DEFINE T == {k \in Nat : At(At(S, i), k) = At(S, i + k)}
<1>1. At(S, i) \in Figures
  BY AtIs
<1>2. 0 \in T
  BY <1>1, AtIs
<1>3. ASSUME NEW k \in Nat, k \in T
      PROVE  k + 1 \in T
  <2>1. At(At(S, i), k + 1) = Generation(At(At(S, i), k))
    BY <1>1, AtIs
  <2>2. At(S, (i + k) + 1) = Generation(At(S, i + k))
    BY AtIs
  <2>3. (i + k) + 1 = i + (k + 1)
    OBVIOUS
  <2> QED
    BY <1>3, <2>1, <2>2, <2>3
<1> HIDE DEF T
<1>4. Nat \subseteq T
  BY <1>2, <1>3, Induction
<1> QED
  BY <1>4 DEF T

\* What is moved evolves as it would have where it was.
LEMMA AtMoves ==
  ASSUME NEW S \in Figures, NEW v \in Plane, NEW i \in Nat
  PROVE  At(Translate(S, v), i) = Translate(At(S, i), v)
<1> DEFINE T == {k \in Nat : At(Translate(S, v), k) = Translate(At(S, k), v)}
<1>1. Translate(S, v) \in Figures
  BY TranslateFigure
<1>2. 0 \in T
  BY <1>1, AtIs
<1>3. ASSUME NEW k \in Nat, k \in T
      PROVE  k + 1 \in T
  <2>1. At(Translate(S, v), k + 1) = Generation(At(Translate(S, v), k))
    BY <1>1, AtIs
  <2>2. At(S, k + 1) = Generation(At(S, k)) /\ At(S, k) \in SUBSET Plane
    BY AtIs, FigureCells
  <2>3. Generation(Translate(At(S, k), v)) = Translate(Generation(At(S, k)), v)
    BY <2>2, TranslatedGeneration
  <2> QED
    BY <1>3, <2>1, <2>2, <2>3
<1> HIDE DEF T
<1>4. Nat \subseteq T
  BY <1>2, <1>3, Induction
<1> QED
  BY <1>4 DEF T

\* Nothing comes of nothing.
LEMMA AtEmpty ==
  ASSUME NEW i \in Nat
  PROVE  At({}, i) = {}
<1> DEFINE T == {k \in Nat : At({}, k) = {}}
<1>1. {} \in Figures
  <2>1. 0 \in Nat
    OBVIOUS
  <2> QED
    BY <2>1 DEF Figures
<1>2. 0 \in T
  BY <1>1, AtIs
<1>3. ASSUME NEW k \in Nat, k \in T
      PROVE  k + 1 \in T
  <2>1. At({}, k + 1) = Generation(At({}, k))
    BY <1>1, AtIs
  <2>2. Generation({}) = {}
    BY DEF Generation
  <2> QED
    BY <1>3, <2>1, <2>2
<1> HIDE DEF T
<1>4. Nat \subseteq T
  BY <1>2, <1>3, Induction
<1> QED
  BY <1>4 DEF T
=============================================================================
