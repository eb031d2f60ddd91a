------------------------------- MODULE Shapes -------------------------------
(***************************************************************************)
(* What the verifier and the novelty oracle both ask of a pattern: its     *)
(* shape, wherever it is (lifecore/sim/pattern.py, bbox and normalize),    *)
(* and its generations, which reference.step computes one call at a time:  *)
(* ReferenceSim shows that they are those of the plane.                    *)
(***************************************************************************)
EXTENDS Life, SequencesExt, FiniteSetsExt

\* Pattern.bbox
Left(cells) == Min({c[1] : c \in cells})
Top(cells) == Min({c[2] : c \in cells})

\* Pattern.normalize
Normalized(cells) ==
  IF cells = {} THEN cells ELSE Translate(cells, <<-Left(cells), -Top(cells)>>)

Older(past) == Append(past, Generation(Last(past)))

\* reference.step(cells, i) for i = 0 .. k, at i + 1.
Generations(cells, k) ==
  LET upTo[i \in 0 .. k] == IF i = 0 THEN << cells >> ELSE Older(upTo[i - 1])
  IN  upTo[k]

\* reference.step(cells, k)
At(cells, k) == Generations(cells, k)[k + 1]

\* The shape comes up again after q generations, moved or not.
Recurs(cells, q) == Normalized(At(cells, q)) = Normalized(cells)
=============================================================================
