-------------------------------- MODULE Life --------------------------------
(***************************************************************************)
(* The rule of a two-dimensional life-like automaton on the unbounded      *)
(* plane, as lifecore/sim/pattern.py and lifecore/sim/reference.py use it: *)
(* a pattern is the set of its live cells <<x, y>>.                        *)
(***************************************************************************)
EXTENDS Integers, FiniteSets

CONSTANTS Birth, Survive   \* parse_rule("Bxx/Sxx")

ASSUME RuleAssumption == Birth \subseteq 0 .. 8 /\ Survive \subseteq 0 .. 8

Around == (-1 .. 1) \X (-1 .. 1)

\* The eight (dx, dy) that _neighbour_counts adds up.
Offsets == Around \ {<<0, 0>>}

\* Pattern.translate, for a cell and for a pattern.
Shift(c, d) == <<c[1] + d[1], c[2] + d[2]>>
Translate(cells, d) == {Shift(c, d) : c \in cells}

\* np.where(alive, survive_arr[counts], birth_arr[counts])
Lives(alive, count) == count \in IF alive THEN Survive ELSE Birth

Count(cells, c) == Cardinality({d \in Offsets : Shift(c, d) \in cells})

\* One generation.  With 0 outside Birth, a cell with no live neighbour is not born.
Generation(cells) ==
  {c \in {Shift(a, d) : a \in cells, d \in Around} : Lives(c \in cells, Count(cells, c))}

\* b is the inclusive bounding box of a pattern that is not empty.
IsBBox(cells, b) ==
  /\ \A c \in cells : b.x0 <= c[1] /\ c[1] <= b.x1 /\ b.y0 <= c[2] /\ c[2] <= b.y1
  /\ \E c \in cells : c[1] = b.x0
  /\ \E c \in cells : c[1] = b.x1
  /\ \E c \in cells : c[2] = b.y0
  /\ \E c \in cells : c[2] = b.y1
=============================================================================
