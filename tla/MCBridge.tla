------------------------------ MODULE MCBridge ------------------------------
(***************************************************************************)
(* Model checking Bridge: a ship that two engines search within a width,   *)
(* and an oscillator that the capability map routes to none.               *)
(***************************************************************************)
EXTENDS Bridge

CONSTANTS c1

StraightShip ==
  [kind |-> "spaceship", slope |-> "orthogonal", width |-> <<2, 2>>]

Assembly == [kind |-> "oscillator", mechanism |-> "assembly"]

MCSpecs == {StraightShip, Assembly}

MCMeets == {<<c1, StraightShip>>}

\* 0.5, 2.5 and 3.
MCHalfWidths == {1, 5, 6}
=============================================================================
