------------------------------ MODULE MCSearch ------------------------------
(***************************************************************************)
(* Model checking Search under B3/S23: the patterns of three to five cells *)
(* of a 3 by 3 box (blinkers, gliders and blocks among them), and a        *)
(* blinker next to a caterer: periods two and three, so the pair comes     *)
(* back after six generations with no cell of period six.                  *)
(***************************************************************************)
EXTENDS Search

Box == (0 .. 2) \X (0 .. 2)

MCSmall == {c \in SUBSET Box : Cardinality(c) \in 3 .. 5}

Blinker == {<<-6, 1>>, <<-5, 1>>, <<-4, 1>>}

Caterer == {<<2, 0>>, <<0, 1>>, <<4, 1>>, <<5, 1>>, <<6, 1>>, <<7, 1>>, <<0, 2>>, <<4, 2>>,
            <<0, 3>>, <<3, 4>>, <<1, 5>>, <<2, 5>>}

MCStarts == MCSmall \cup {Blinker, Caterer, Blinker \cup Caterer}

Ship(p, d, width) ==
  [kind |-> "spaceship", period |-> p, displacement |-> d, searchWidth |-> width,
   bboxMax |-> None, population |-> None, unsat |-> FALSE]

Oscillator(p, box) ==
  [kind |-> "oscillator", period |-> p, mechanism |-> "low_period_direct", bboxMax |-> box,
   unsat |-> FALSE]

Still(box, population) ==
  [kind |-> "still_life", bboxMax |-> box, population |-> population, unsat |-> FALSE]

\* A glider, the same the other way round, one that is asked to take twice as long, one
\* that no engine has room for, and an oblique one; and what _validate refuses.
MCShips ==
  {Ship(4, <<1, 1>>, <<2, 3>>), Ship(4, <<1, -1>>, <<1, 3>>), Ship(8, <<2, 2>>, <<3, 3>>),
   Ship(4, <<1, 1>>, <<1, 2>>), Ship(3, <<2, 1>>, <<1, 3>>),
   Ship(2, <<0, 0>>, <<1, 3>>), Ship(1, <<2, 0>>, <<1, 3>>), Ship(4, <<1, 1>>, <<3, 2>>)}

MCStills == {Still(<<2, 2>>, None), Still(None, <<5, 6>>), Still(<<2, 1>>, None)}

MCOscillators ==
  {Oscillator(2, <<3, 3>>), Oscillator(2, <<2, 1>>), Oscillator(6, None), Oscillator(1, None),
   [Oscillator(3, None) EXCEPT !.mechanism = "hassler_catalyst"]}

MCSpecs == MCShips \cup MCStills \cup MCOscillators \cup {[kind |-> "gun"]}

\* For the claims of the documentation that the README lists: a glider that must fit a
\* 2 by 2 box and have at most four cells, and Oscillator(period=2, bbox_max=(1, 1)) of
\* the battery, whose box the verifier does not look at.
MCFiltered == {[Ship(4, <<1, 1>>, <<1, 3>>) EXCEPT !.bboxMax = <<2, 2>>, !.population = <<1, 4>>]}
MCUnsat == {[Oscillator(2, <<1, 1>>) EXCEPT !.unsat = TRUE]}
=============================================================================
