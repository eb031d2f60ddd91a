-------------------------- MODULE MCFailureMemory --------------------------
(***************************************************************************)
(* Model checking FailureMemory: boxes that are square, flat and absent,   *)
(* period bands that are open and closed, ships of two velocities.         *)
(***************************************************************************)
EXTENDS FailureMemory

MCBoxes == {None, <<2, 2>>, <<1, 3>>, <<3, 1>>, <<3, 3>>}

Still(box) == [kind |-> "still_life", box |-> box]
Oscillator(p, box) == [kind |-> "oscillator", period |-> p, box |-> box]
Ship(velocity, w) ==
  [kind |-> "spaceship", slope |-> "orthogonal", velocity |-> velocity, width |-> <<1, w>>]

MCSpecs ==
  {Still(b) : b \in MCBoxes} \cup {Oscillator(p, b) : p \in {2, 3}, b \in {None, <<2, 2>>, <<1, 3>>}}
    \cup {Ship(v, w) : v \in {"c/4", "c/5"}, w \in {1, 2}}

MCEnvelopes ==
  {[kind |-> "still_life", maxBox |-> b] : b \in {None, <<2, 2>>, <<3, 1>>}}
    \cup {[kind |-> "oscillator", pmin |-> 2, pmax |-> q, maxBox |-> b] :
            q \in {None, 2}, b \in {None, <<2, 2>>, <<1, 3>>}}
    \cup {[kind |-> "spaceship", slope |-> "orthogonal", velocity |-> "c/5", maxWidth |-> w] :
            w \in {None, 1, 2}}
=============================================================================
