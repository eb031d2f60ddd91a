------------------------------ MODULE MCResume ------------------------------
(***************************************************************************)
(* Model checking Resume: tuple is a value that JSON turns into list.      *)
(***************************************************************************)
EXTENDS Resume

CONSTANTS tuple, list, other

MCValues == {tuple, list, other}

MCJson == [v \in MCValues |-> IF v = tuple THEN list ELSE v]
=============================================================================
