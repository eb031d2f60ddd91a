--------------------------- MODULE MCReferenceSim ---------------------------
(***************************************************************************)
(* Model checking ReferenceSim: every pattern of a 3 by 3 box that sits    *)
(* across the origin.                                                      *)
(***************************************************************************)
EXTENDS ReferenceSim

MCPatterns == SUBSET ((-1 .. 1) \X (-2 .. 0))
=============================================================================
