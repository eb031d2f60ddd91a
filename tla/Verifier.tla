------------------------------ MODULE Verifier ------------------------------
(***************************************************************************)
(* lifecore/verify/verifier.py: verify(candidate, spec), the verdicts on   *)
(* spaceships, oscillators and still lifes.  An engine may hand over any   *)
(* phase of an object, so between two verdicts the candidate may evolve.   *)
(*                                                                         *)
(* reference.step(candidate, q) is the q-th generation on the plane:       *)
(* ReferenceSim shows that it is.  One rule is checked, that of the spec;  *)
(* the signed record is left out but for its verdict.                      *)
(***************************************************************************)
EXTENDS Shapes

CONSTANTS
  Starts,   \* candidates an engine may find
  Specs,    \* target specs, records with a kind
  None,
  MaxAge    \* bound: generations between what was found and what is verified

VARIABLES
  candidate,
  spec,
  age,
  verdict   \* the last verdict on this object, or None

ASSUME VerifierAssumption ==
  /\ \A c \in Starts : c \subseteq Int \X Int /\ IsFiniteSet(c)
  /\ \A s \in Specs :
       /\ s.kind \in {"spaceship", "oscillator"} => s.period \in Int
       /\ s.kind = "spaceship" => s.displacement \in Int \X Int
  /\ None \notin Int \cup {"PASS", "REJECT", "FOUND", "UNSAT"}

verifierVars == <<candidate, spec, age, verdict>>

VerifierInit ==
  /\ candidate \in Starts
  /\ spec \in Specs
  /\ age = 0
  /\ verdict = None

\* Pattern.bbox
Width(cells) == Max({c[1] : c \in cells}) - Left(cells) + 1
Height(cells) == Max({c[2] : c \in cells}) - Top(cells) + 1

Times(k, d) == <<k * d[1], k * d[2]>>

\* The least element, or None.
Least(S) == IF S = {} THEN None ELSE Min(S)

Residual(a, b) == (a \ b) \cup (b \ a)

---------------------------------------------------------------------------
(* Spaceships.                                                             *)

\* _minimal_translate_period: the least q after which the shape is the same again.
TranslatePeriod(g, horizon) ==
  Least({q \in 1 .. horizon : Normalized(g[q + 1]) = Normalized(g[1])})

TranslationAt(g, q) == <<Left(g[q + 1]) - Left(g[1]), Top(g[q + 1]) - Top(g[1])>>

\* Mutant of ShipPasses: the minimal period is not asked for.
ShipPassesAtMultiples(c, s) ==
  LET p == s.period
      g == Generations(c, 2 * p)
  IN  /\ c # {}
      /\ Residual(g[p + 1], Translate(c, s.displacement)) = {}
      /\ g[2 * p + 1] = Translate(c, Times(2, s.displacement))

ShipPasses(c, s) ==
  LET p == s.period
      horizon == Max({4 * p, p + 4})
      g == Generations(c, horizon)
  IN  /\ c # {}
      /\ TranslatePeriod(g, horizon) = p
      /\ TranslationAt(g, p) = s.displacement
      /\ Residual(g[p + 1], Translate(c, s.displacement)) = {}
      /\ g[2 * p + 1] = Translate(c, Times(2, s.displacement))

---------------------------------------------------------------------------
(* Oscillators.                                                            *)

StationaryPeriod(g, horizon) == Least({q \in 1 .. horizon : g[q + 1] = g[1]})

\* Mutant of FullPeriodCell: the pattern as a whole is looked at.
FullPeriodPattern(phases, p) ==
  \A d \in 1 .. p - 1 : p % d = 0 => \E k \in 0 .. p - 1 : phases[k + 1] # phases[((k + d) % p) + 1]

\* _has_full_period_cell: some cell whose on/off sequence has no smaller period.
FullPeriodCell(phases, p) ==
  \E cell \in UNION {phases[k] : k \in 1 .. p} :
    \A d \in 1 .. p - 1 :
      p % d = 0 =>
        \E k \in 0 .. p - 1 : (cell \in phases[k + 1]) # (cell \in phases[((k + d) % p) + 1])

OscillatorPasses(c, s) ==
  LET p == s.period
      horizon == Max({2 * p, p + 4})
      g == Generations(c, horizon)
  IN  /\ c # {}
      /\ Residual(g[p + 1], c) = {}
      /\ StationaryPeriod(g, horizon) = p
      /\ FullPeriodCell(g, p)
      /\ g[2 * p + 1] = c

---------------------------------------------------------------------------
(* Still lifes, with their two filters, and the verdict.                   *)

\* Mutant of StillLifePasses: only the filters are looked at.
StillLifeFilters(c, s) ==
  /\ c # {}
  /\ s.bboxMax # None => Width(c) <= s.bboxMax[1] /\ Height(c) <= s.bboxMax[2]
  /\ s.population # None => Cardinality(c) \in s.population[1] .. s.population[2]

StillLifePasses(c, s) ==
  /\ c # {}
  /\ Residual(Generation(c), c) = {}
  /\ s.bboxMax # None => Width(c) <= s.bboxMax[1] /\ Height(c) <= s.bboxMax[2]
  /\ s.population # None => Cardinality(c) \in s.population[1] .. s.population[2]

Passes(c, s) ==
  CASE s.kind = "spaceship" -> ShipPasses(c, s)
    [] s.kind = "oscillator" -> OscillatorPasses(c, s)
    [] s.kind = "still_life" -> StillLifePasses(c, s)

\* Of any other kind verify raises NotImplementedError.
Verify ==
  /\ spec.kind \in {"spaceship", "oscillator", "still_life"}
  /\ verdict' = IF Passes(candidate, spec) THEN "PASS" ELSE "REJECT"
  /\ UNCHANGED <<candidate, spec, age>>

\* The next phase of the object is what is verified next.
NextPhase ==
  /\ age < MaxAge
  /\ candidate' = Generation(candidate)
  /\ age' = age + 1
  /\ UNCHANGED <<spec, verdict>>

VerifierNext == Verify \/ NextPhase

VerifierSpec == VerifierInit /\ [][VerifierNext]_verifierVars

---------------------------------------------------------------------------
(* Properties.                                                             *)

\* An object that passed passes in each of its phases: the verdict is on the object, not
\* on the generation the engine happened to print.
PassesInEveryPhase == [][verdict = "PASS" => verdict' = "PASS"]_verifierVars

\* A spaceship passes exactly when it reappears, moved as the spec says, at the period and
\* at no generation before it; where it reappears is looked for, not read off a box.
ShipsAreShips ==
  spec.kind = "spaceship" =>
    LET p == spec.period
        g == Generations(candidate, p)
        Places == (-p .. p) \X (-p .. p)
    IN  Passes(candidate, spec) <=>
          /\ candidate # {}
          /\ g[p + 1] = Translate(candidate, spec.displacement)
          /\ \A q \in 1 .. p - 1, v \in Places : g[q + 1] # Translate(candidate, v)

\* What passes is no trivial LCM, two candidates that evolve side by side and both come
\* back sooner than the spec asks.  No cell is ever lit by both: a cell that the two share
\* may take as long as the pair does.
NoTrivialLCM ==
  spec.kind = "oscillator" /\ Passes(candidate, spec) =>
    \A a, b \in Starts :
      a \cup b = candidate =>
        LET p == spec.period
            ga == Generations(a, p)
            gb == Generations(b, p)
            gc == Generations(candidate, p)
        IN  ~ /\ \A k \in 1 .. p + 1 : gc[k] = ga[k] \cup gb[k]
              /\ \A j, k \in 1 .. p + 1 : ga[j] \cap gb[k] = {}
              /\ \E q \in 1 .. p - 1 : ga[q + 1] = a
              /\ \E q \in 1 .. p - 1 : gb[q + 1] = b

---------------------------------------------------------------------------
\* "population_range and bbox_max are post-hoc filters, [...] they only gate acceptance
\* after a candidate is found": a ship that passes is within the filters of its spec.
FiltersGateShips ==
  spec.kind = "spaceship" /\ verdict = "PASS" =>
    /\ spec.bboxMax # None =>
         Width(candidate) <= spec.bboxMax[1] /\ Height(candidate) <= spec.bboxMax[2]
    /\ spec.population # None =>
         Cardinality(candidate) \in spec.population[1] .. spec.population[2]

\* "known-UNSAT: no p2 oscillator fits in a 1x1 box": nothing passes the specs that the
\* battery lists as impossible.
UnsatSpecsRejectAll == spec.unsat => verdict # "PASS"
=============================================================================
