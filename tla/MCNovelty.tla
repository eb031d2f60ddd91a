------------------------------ MODULE MCNovelty ------------------------------
(***************************************************************************)
(* Model checking Novelty under B3/S23.                                    *)
(***************************************************************************)
EXTENDS Novelty

Block == {<<0, 0>>, <<0, 1>>, <<1, 0>>, <<1, 1>>}

Toad == {<<1, 0>>, <<2, 0>>, <<3, 0>>, <<0, 1>>, <<1, 1>>, <<2, 1>>}

Glider == {<<1, 0>>, <<2, 1>>, <<0, 2>>, <<1, 2>>, <<2, 2>>}

Tub == {<<1, 0>>, <<0, 1>>, <<2, 1>>, <<1, 2>>}

\* A still life of two islands: neither the table nor the pair is a juxtaposition.
BlockOnTable == Block \cup {<<0, 3>>, <<1, 3>>, <<2, 3>>, <<3, 3>>, <<0, 4>>, <<3, 4>>}

\* Two boats that touch at a corner, where each evolves as if it were alone.
Boat == {<<0, 0>>, <<1, 0>>, <<0, 1>>, <<2, 1>>, <<1, 2>>}

BoatTie == Boat \cup {<<-1, -1>>, <<-2, -1>>, <<-1, -2>>, <<-3, -2>>, <<-2, -3>>}

BlockAndBlinker == Block \cup {<<4, 0>>, <<5, 0>>, <<6, 0>>}

\* In the snapshot, in the live catalogue only, and in neither.
MCForms == {Toad, Tub, Glider, BlockAndBlinker}

MCCensus == {Block, Toad}

MCLive == {Block, Toad, Tub}

MCDerivative == {BlockOnTable}

MCKnown == {Block}

\* Where a known object is a part, but no island: NovelIsIrreducible does not hold.
MCTied == {BoatTie}

MCBoat == {Boat}

MCCensusToad == {Toad}

\* Two diagonals that share the corner of their bounding boxes.
MCNested == {{<<0, 1>>, <<1, 0>>} \cup {<<0, 4>>, <<1, 3>>, <<2, 2>>, <<3, 1>>, <<4, 0>>}}

\* As the theorems about the oracle assume.
ASSUME FormsReturn == ObjectsReturn
=============================================================================
