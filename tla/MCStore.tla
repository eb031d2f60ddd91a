------------------------------ MODULE MCStore ------------------------------
(***************************************************************************)
(* Model checking Store: the connections are interchangeable, since every  *)
(* set of them may be the careful ones.                                    *)
(***************************************************************************)
EXTENDS Store, TLC

Symmetry == Permutations(Conns)
=============================================================================
