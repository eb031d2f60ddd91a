------------------------------- MODULE Search -------------------------------
(***************************************************************************)
(* From a target spec to an engine, and from its answer to the verifier:   *)
(* lifecore/targetspec (models.py, capability.py) and what the adapters of *)
(* lifecore/engines (qfind, rlifesrc, lls, ikpx2) ask of their engines in  *)
(* build_input.  How an invocation ends is the matter of Engine.           *)
(*                                                                         *)
(* An engine is external.  It is taken at its word: a FOUND is a solution  *)
(* of the problem that was posed, and an UNSAT means that it has none.     *)
(* Starts is then the space that is searched, and all that a producer may  *)
(* submit by itself.  Symmetry classes are left out: no adapter passes     *)
(* them on.                                                                *)
(***************************************************************************)
EXTENDS Verifier

VARIABLES
  engine,   \* the last one that was asked, or None
  posed,    \* the problem its command line poses, or None
  answer    \* EngineOutcome, or None

invocation == <<engine, posed, answer>>
searchVars == <<verifierVars, invocation>>

Engines == {"qfind", "rlifesrc", "lls", "ikpx2"}

---------------------------------------------------------------------------
(* Specs and the capability map.                                           *)

Abs(n) == IF n < 0 THEN -n ELSE n

Extent(s) == {Abs(s.displacement[1]), Abs(s.displacement[2])}

\* _validate of Spaceship and of Oscillator; the other kinds take whatever has the type.
Valid(s) ==
  CASE s.kind = "spaceship" ->
         /\ s.period >= 1
         /\ Extent(s) # {0}
         /\ Max(Extent(s)) <= s.period
         /\ s.searchWidth[1] >= 1
         /\ s.searchWidth[1] <= s.searchWidth[2]
    [] s.kind = "oscillator" -> s.period >= 2
    [] OTHER -> TRUE

Slope(s) ==
  IF 0 \in Extent(s) THEN "orthogonal"
  ELSE IF Cardinality(Extent(s)) = 1 THEN "diagonal" ELSE "oblique"

CapableEngines(s) ==
  CASE s.kind = "spaceship" -> IF Slope(s) = "oblique" THEN {"ikpx2"} ELSE {"qfind", "rlifesrc"}
    [] s.kind = "oscillator" -> IF s.mechanism = "low_period_direct" THEN {"rlifesrc", "lls"} ELSE {}
    [] s.kind = "still_life" -> {"rlifesrc", "lls"}
    [] OTHER -> {}

---------------------------------------------------------------------------
(* build_input.                                                            *)

BoxOrDefault(s) == IF s.bboxMax = None THEN <<16, 16>> ELSE s.bboxMax

\* Mutant of BoxOf: a ship is looked for in the least of the widths.
BoxOfLeastWidth(s) ==
  IF s.kind = "spaceship" THEN <<s.searchWidth[1], s.searchWidth[1]>> ELSE BoxOrDefault(s)

\* The widest search is a square.
BoxOf(s) ==
  IF s.kind = "spaceship" THEN <<s.searchWidth[2], s.searchWidth[2]>> ELSE BoxOrDefault(s)

PeriodOf(s) == IF s.kind = "still_life" THEN 1 ELSE s.period

\* Mutant of MoveOf: the ship is sent the other way.
MoveOfBack(s) ==
  IF s.kind = "spaceship" THEN <<-s.displacement[1], -s.displacement[2]>> ELSE <<0, 0>>

MoveOf(s) == IF s.kind = "spaceship" THEN s.displacement ELSE <<0, 0>>

\* rlifesrc and lls: a box, a period, and for a ship where it is to reappear.
BoxProblem(s) == [box |-> BoxOf(s), period |-> PeriodOf(s), move |-> MoveOf(s)]

\* qfind: the greatest and the least width, but neither rule nor sign nor axis of the
\* displacement.
WidthProblem(s) ==
  [width |-> s.searchWidth[2], least |-> s.searchWidth[1], period |-> s.period, speed |-> Max(Extent(s)), slope |-> Slope(s)]

\* ikpx2 raises whatever it is asked.
CanPose(e, s) == e # "ikpx2" /\ e \in CapableEngines(s)

BuildInput(e, s) == IF e = "qfind" THEN WidthProblem(s) ELSE BoxProblem(s)

---------------------------------------------------------------------------
(* The engines.                                                            *)

Fits(c, box) == c # {} /\ Width(c) <= box[1] /\ Height(c) <= box[2]

ComesBack(c, period, moves) == \E d \in moves : Generations(c, period)[period + 1] = Translate(c, d)

Moves(speed, slope) ==
  {d \in {-speed, 0, speed} \X {-speed, 0, speed} :
     (d[1] # 0 \/ d[2] # 0) /\ (slope = "orthogonal" <=> (d[1] = 0 \/ d[2] = 0))}

SolvesBox(c, p) == Fits(c, p.box) /\ ComesBack(c, p.period, {p.move})

\* What qfind makes of the least width is not known: it may find any narrower solution.
SolvesWidth(c, p) ==
  /\ Fits(c, <<p.width, Height(c)>>) \/ Fits(c, <<Width(c), p.width>>)
  /\ ComesBack(c, p.period, Moves(p.speed, p.slope))

SolutionsOf(e, p) ==
  {c \in Starts \ {{}} : IF e = "qfind" THEN SolvesWidth(c, p) ELSE SolvesBox(c, p)}

\* [<<engine, spec>>], computed once.
Solutions ==
  [q \in Engines \X {s \in Specs : Valid(s)} |->
     IF CanPose(q[1], q[2]) THEN SolutionsOf(q[1], BuildInput(q[1], q[2])) ELSE {}]

---------------------------------------------------------------------------
(* Searching.                                                              *)

SearchInit ==
  /\ spec \in {s \in Specs : Valid(s)}
  /\ candidate = {}
  /\ age = 0
  /\ verdict = None
  /\ engine = None /\ posed = None /\ answer = None

\* There is no object yet; later, one may have died out.
Searching == candidate = {} /\ age = 0

\* A producer may ask any adapter, and one after the other.
Ask(e) ==
  /\ Searching
  /\ posed = None
  /\ engine' = e
  /\ IF CanPose(e, spec)
     THEN posed' = BuildInput(e, spec) /\ answer' = None
     ELSE posed' = None /\ answer' = "NO_CAPABILITY"
  /\ UNCHANGED verifierVars

Ends(outcome) ==
  /\ posed # None
  /\ answer' = outcome
  /\ posed' = None
  /\ UNCHANGED <<engine, spec, age, verdict>>

Found == Ends("FOUND") /\ candidate' \in Solutions[<<engine, spec>>]

\* qfind has no words for it.
Unsat ==
  /\ posed # None
  /\ engine # "qfind"
  /\ Solutions[<<engine, spec>>] = {}
  /\ Ends("UNSAT")
  /\ UNCHANGED candidate

GivesUp == (\E outcome \in {"TIMEOUT", "ERROR"} : Ends(outcome)) /\ UNCHANGED candidate

\* The agent, or seed_candidates, without an engine.
Submit ==
  /\ Searching
  /\ posed = None
  /\ candidate' \in Starts
  /\ engine' = None /\ answer' = None
  /\ UNCHANGED <<posed, spec, age, verdict>>

SearchNext ==
  \/ \E e \in Engines : Ask(e)
  \/ Found \/ Unsat \/ GivesUp \/ Submit
  \/ ~Searching /\ VerifierNext /\ UNCHANGED invocation

SearchSpec == SearchInit /\ [][SearchNext]_searchVars

---------------------------------------------------------------------------
(* Properties.                                                             *)

\* "proven no solution in the posed problem" (EngineOutcome): what an adapter makes of a
\* spec loses none of its objects.  After an UNSAT nothing in the space that fits the
\* greatest width of the spec, its box, or 16 by 16 where it gives none, passes the
\* verifier.
InSpecBox(c) ==
  IF spec.kind = "spaceship" THEN Fits(c, <<spec.searchWidth[2], spec.searchWidth[2]>>)
  ELSE IF spec.bboxMax = None THEN Fits(c, <<16, 16>>) ELSE Fits(c, spec.bboxMax)

UnsatIsRight == answer = "UNSAT" => ~\E c \in Starts : InSpecBox(c) /\ Passes(c, spec)

\* What rlifesrc or LLS found is rejected only for what their command line cannot say: it
\* comes back sooner, no cell has the full period, or a still life misses its filters.
RejectedForCause ==
  (answer = "FOUND" /\ engine # "qfind" /\ verdict = "REJECT") =>
    LET g == Generations(candidate, PeriodOf(spec))
    IN  \/ \E q \in 1 .. PeriodOf(spec) - 1 : Normalized(g[q + 1]) = Normalized(candidate)
        \/ spec.kind = "oscillator" /\ ~FullPeriodCell(g, spec.period)
        \/ spec.kind = "still_life" /\ ~StillLifeFilters(candidate, spec)

---------------------------------------------------------------------------
(* What docs and comments say, and the code does not do.                   *)

\* "engines that can actually search for it" (capability.py): the engine that oblique
\* ships are routed to can pose nothing.
CapableCanSearch == engine \in CapableEngines(spec) => answer # "NO_CAPABILITY"

\* "the mapping (width, slope, period, displacement) is what matters" (qfind.py): a ship
\* that qfind found flies as the spec says.
QfindFindsTheSpec ==
  (answer = "FOUND" /\ engine = "qfind") => ComesBack(candidate, spec.period, {spec.displacement})
=============================================================================
