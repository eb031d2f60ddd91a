--------------------------- MODULE MCRunDirectory ---------------------------
(***************************************************************************)
(* Model checking RunDirectory: two objects, one of them with blank rows   *)
(* and a rule of its own in its header.  A later simulator or verifier     *)
(* passes one object less under the plain spec, a later snapshot holds     *)
(* one code more, and the spec of a gun has no engine.                     *)
(***************************************************************************)
EXTENDS RunDirectory

Row == {<<0, 0>>, <<1, 0>>, <<2, 0>>}
Gap == {<<1, 0>>, <<0, 3>>, <<2, 3>>}

Plain == [id |-> "plain", rule |-> "B3/S23", capable |-> TRUE]
High == [id |-> "high", rule |-> "B36/S23", capable |-> TRUE]
Gun == [id |-> "gun", rule |-> "B3/S23", capable |-> FALSE]

MCSpecs == {Plain, High, Gun}

\* "3o!", and Gap away from the origin under a rule of its own.
RowText == [rule |-> NoRule, body |-> << Token(3, "o") >>]
GapText ==
  [rule |-> "B36/S23",
   body |-> << Token(2, "$"), Token(2, "b"), Token(1, "o"), Token(3, "$"),
               Token(1, "b"), Token(1, "o"), Token(1, "b"), Token(1, "o") >>]

MCSeedLists == { <<RowText, GapText>>, <<GapText, GapText>> }

Install(sim, canonicalizer, verifier, census, lifelib) ==
  [sim |-> sim, canonicalizer |-> canonicalizer, verifier |-> verifier, census |-> census,
   lifelib |-> lifelib]

\* One of the five is another one, or none is.
MCInstalls ==
  {Install(1, 1, 1, 1, TRUE), Install(2, 1, 1, 1, TRUE), Install(1, 2, 1, 1, TRUE),
   Install(1, 1, 2, 1, TRUE), Install(1, 1, 1, 2, TRUE), Install(1, 1, 1, 1, FALSE)}

MCPassing ==
  [sim \in 1 .. 2, verifier \in 1 .. 2 |->
     {<<Row, "high">>, <<Gap, "high">>}
       \cup (IF sim = 1 THEN {<<Gap, "plain">>} ELSE {})
       \cup (IF verifier = 1 THEN {<<Row, "plain">>} ELSE {})]

\* Gap is a known object of B3/S23 that is another one under B36/S23.
MCApgcode ==
  [shape \in {Row, Gap}, rule \in {"B3/S23", "B36/S23"} |->
     IF shape = Row THEN "row" ELSE IF rule = "B3/S23" THEN "gap" ELSE "another"]

MCCensus == << {"gap"}, {"gap", "row"} >>
=============================================================================
