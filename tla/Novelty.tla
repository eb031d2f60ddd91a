------------------------------- MODULE Novelty -------------------------------
(***************************************************************************)
(* The novelty oracle: lifecore/novelty/oracle.py (novelty_query) over     *)
(* canonical.py (independent_canonical), catagolue.py (query) and mdl.py   *)
(* (classify), which splits the pattern by the flood fill of Components.   *)
(* An object reaches the oracle in any of its forms: another phase,        *)
(* another place, turned or reflected.                                     *)
(*                                                                         *)
(* lifelib's apgcode is external: a code is the set of all forms of an     *)
(* object, or, when Faulty, possibly a code nothing else has.  An order of *)
(* serialized forms is abstracted to a fixed choice of one: what matters   *)
(* is only that equal sets of forms give equal keys.                       *)
(***************************************************************************)
EXTENDS Shapes, Components

CONSTANTS
  Census,        \* objects of the frozen snapshot
  Live,          \* objects of the live catalogue
  KnownObjects,  \* known_independent_keys are the keys of these
  Cap,           \* cap of independent_canonical
  Faulty,        \* the producer's canonicalizer may be wrong
  MaxAge         \* bound: generations the object ages between two queries

ASSUME NoveltyAssumption ==
  /\ \A o \in Patterns \cup Live \cup KnownObjects : o \in SUBSET (Int \X Int) /\ IsFiniteSet(o)
  /\ Census \subseteq Live
  /\ Cap \in Nat \ {0}
  /\ Faulty \in BOOLEAN
  /\ MaxAge \in Nat

VARIABLES
  object,    \* the form that is submitted next
  age,
  verdict,   \* the last verdict on this object
  asking     \* the catalogue said NOVEL, and the minimality tier is at work

split == <<pc, pattern, remaining, component, stack, components, earlier>>
oracle == <<object, age, verdict, asking>>
oracleVars == <<object, age, verdict, asking, split>>

Verdict(status, live) == [status |-> status, live |-> live]

OracleInit ==
  /\ object \in Patterns
  /\ age = 0
  /\ verdict = Verdict("NONE", FALSE)
  /\ asking = FALSE
  /\ pc = "done"
  /\ pattern = {} /\ remaining = {} /\ component = {} /\ stack = {}
  /\ components = << >>
  /\ earlier = NotYet

---------------------------------------------------------------------------
(* independent_canonical.                                                  *)

\* _D8: the rotations and reflections, as <<a, b, c, d>>.
D8 == {m \in (-1 .. 1) \X (-1 .. 1) \X (-1 .. 1) \X (-1 .. 1) :
         /\ m[1] * m[1] + m[2] * m[2] = 1
         /\ m[3] * m[3] + m[4] * m[4] = 1
         /\ m[1] * m[3] + m[2] * m[4] = 0}

Image(m, cells) == {<<m[1] * c[1] + m[2] * c[2], m[3] * c[1] + m[4] * c[2]>> : c \in cells}

\* _orbit_period: 1 stands for "not periodic within cap" too.
OrbitPeriod(cells) ==
  LET g == Generations(cells, Cap)
      back == {n \in 1 .. Cap : Normalized(g[n + 1]) = Normalized(cells)}
  IN  IF cells = {} \/ back = {} THEN 1 ELSE Min(back)

\* Mutant of Phases: the given phase alone.
PhaseGiven(cells) == {cells}

Phases(cells) == Range(Generations(cells, OrbitPeriod(cells) - 1))

Forms(cells) == {Normalized(Image(m, phase)) : m \in D8, phase \in Phases(cells)}

Key(cells) == CHOOSE form \in Forms(cells) : TRUE

---------------------------------------------------------------------------
(* The two tiers.                                                          *)

\* lifelib's canonicalizer, which knows every period.
Apgcodes(cells) == {Forms(cells)} \cup (IF Faulty THEN {{}} ELSE {})

\* The rows of the snapshot and of the live catalogue, and known_independent_keys.
CensusCodes == {Forms(o) : o \in Census}
LiveCodes == {Forms(o) : o \in Live}
KnownCodes == {Forms(o) : o \in KnownObjects}
KnownKeys == {Key(o) : o \in KnownObjects}

\* Mutant of CatalogueStatus: a lookup that fails counts as not found.
CatalogueUnlessFound(code, fetcher) ==
  IF code \in CensusCodes THEN "KNOWN"
  ELSE IF fetcher = "answers" /\ code \in LiveCodes THEN "KNOWN"
  ELSE "NOVEL"

\* catagolue.query: the snapshot first, then the fetcher, if there is one.
CatalogueStatus(code, fetcher) ==
  IF code \in CensusCodes THEN "KNOWN"
  ELSE IF fetcher = "none" THEN "NOVEL"
  ELSE IF fetcher = "raises" THEN "UNCERTAIN"
  ELSE IF code \in LiveCodes THEN "KNOWN" ELSE "NOVEL"

KnownComponents ==
  {components[i] : i \in {j \in DOMAIN components : Key(components[j]) \in KnownKeys}}

\* Mutant of IsDerivative: it takes two known components.
IsDerivativeOfTwo == Cardinality(KnownComponents) >= 2

\* mdl.classify, once the pattern is split.
IsDerivative == Len(components) >= 2 /\ KnownComponents # {}

---------------------------------------------------------------------------
(* Queries.                                                                *)

Says(status, live) ==
  /\ ~asking
  /\ verdict' = Verdict(status, live)
  /\ UNCHANGED <<object, age, asking, split>>

\* lifelib is missing, or the pattern does not canonicalize.
CanonicalizationFails == Says("UNCERTAIN", FALSE)

\* novelty_query: no fetcher is given; a NOVEL is left to the minimality tier, if it has
\* keys to go by.  Where the snapshot cannot be read there is no verdict: load_snapshot
\* raises out of the query.
NoveltyQuery ==
  \E code \in Apgcodes(object) :
    LET status == CatalogueStatus(code, "none") IN
      IF status # "NOVEL" \/ KnownObjects = {} THEN Says(status, FALSE)
      ELSE /\ ~asking
           /\ asking' = TRUE
           /\ verdict' = Verdict("NONE", FALSE)
           /\ pc' = "seed"
           /\ pattern' = object
           /\ remaining' = object
           /\ UNCHANGED <<object, age, component, stack, components, earlier>>

Split ==
  /\ asking
  /\ Seed \/ Grow \/ Finish \/ Sort
  /\ UNCHANGED oracle

\* description_length, for the difference in length, splits the pattern once more.
DescriptionLength ==
  /\ asking
  /\ pc = "done"
  /\ IsDerivative
  /\ Again
  /\ UNCHANGED oracle

\* MDL can only turn a NOVEL down; what it split is forgotten.
Classified ==
  /\ asking
  /\ pc = "done"
  /\ IsDerivative => earlier # NotYet
  /\ asking' = FALSE
  /\ verdict' = Verdict(IF IsDerivative THEN "DERIVATIVE" ELSE "NOVEL", FALSE)
  /\ pattern' = {}
  /\ components' = << >>
  /\ earlier' = NotYet
  /\ UNCHANGED <<object, age, pc, remaining, component, stack>>

\* query with a live lookup, for a caller that asks for one.
LiveQuery ==
  \E code \in Apgcodes(object), fetcher \in {"raises", "answers"} :
    Says(CatalogueStatus(code, fetcher), TRUE)

\* The same object in another form, for the next query.
Submit(form) ==
  /\ ~asking
  /\ object' = form
  /\ UNCHANGED <<verdict, asking, split>>

Evolve ==
  /\ age < MaxAge
  /\ Submit(Generation(object))
  /\ age' = age + 1

Turn == (\E m \in D8 : Submit(Normalized(Image(m, object)))) /\ UNCHANGED age

Move == Submit(Translate(Normalized(object), <<-3, 2>>)) /\ UNCHANGED age

Query == CanonicalizationFails \/ NoveltyQuery \/ LiveQuery

Tier == Split \/ DescriptionLength \/ Classified

OracleNext == Query \/ Tier \/ Evolve \/ Turn \/ Move

\* connected_components is a synchronous call.
OracleSpec == OracleInit /\ [][OracleNext]_oracleVars /\ WF_oracleVars(Split)

---------------------------------------------------------------------------
(* Properties.                                                             *)

IsFormOf(cells, codes) == \E code \in codes : Normalized(cells) \in code

\* "never a silent NOVEL" (oracle.py, catagolue.py): whichever form was submitted, and
\* whichever lookup failed, what was called NOVEL is no form of an object of the
\* snapshot, nor, once a live lookup was asked for, of the live catalogue; and it stays
\* so in every form the object takes later.
NovelIsUnseen ==
  verdict.status = "NOVEL" =>
    ~IsFormOf(object, IF verdict.live THEN LiveCodes ELSE CensusCodes)

\* independent_canonical is "invariant under translation, the 8 dihedral images, and
\* phase": no change of form changes the key.
SameKey == [][\A form \in {object'} : Key(form) = Key(object)]_object

\* A connected part that nothing else of the pattern touches.
Island(part, cells) ==
  /\ part # {} /\ part # cells
  /\ Connected(part)
  /\ Apart(part, cells \ part)

HasKnownIsland(cells) ==
  \E part \in SUBSET cells : Island(part, cells) /\ Forms(part) \in KnownCodes

\* "DERIVATIVE iff the pattern decomposes into >= 2 components and at least one
\* component's identity is in known_keys" (mdl.py), said of the pattern, without the
\* list that the flood fill made of it, and of objects, without the keys they got.
ClassifiesRight ==
  [][(asking /\ ~asking') => (verdict'.status = "DERIVATIVE" <=> HasKnownIsland(object))]_oracleVars

\* Whatever cells the flood fill starts from and grows by, on each of its calls it ends.
SplitEnds == pc # "done" ~> pc = "done"

\* What SplitEnds rests on, besides fairness: each step of a split takes cells from those
\* that no component has, or else from the stack, or else closes a component or the list.
SplitAdvances ==
  [][Split =>
       \/ remaining' \subseteq remaining /\ remaining' # remaining
       \/ remaining' = remaining /\ stack' \subseteq stack /\ stack' # stack
       \/ /\ UNCHANGED <<remaining, stack>>
          /\ <<pc, pc'>> \in {<<"grow", "seed">>, <<"seed", "done">>}]_oracleVars

\* What the oracle is for: an object that comes up again within the cap.
Periodic(cells) == \E n \in 1 .. Cap : Recurs(cells, n)
ObjectsReturn == \A o \in Patterns : Periodic(o)

---------------------------------------------------------------------------
(* What comments say, and the code does not do.                            *)

Separable(part, cells) ==
  Generation(cells) = Generation(part) \cup Generation(cells \ part)

HasKnownPart(cells) ==
  \E part \in SUBSET cells :
    /\ part # cells
    /\ IsFormOf(part, KnownCodes)
    /\ Separable(part, cells)

\* "rejects a derivative-of-known pattern": what the oracle called NOVEL has, in the form
\* that was submitted or a later one, no known object next to a rest that evolves without
\* it, be it that the two touch.
NovelIsIrreducible ==
  (verdict.status = "NOVEL" /\ ~verdict.live) => ~HasKnownPart(object)

\* "a known object plus a separable inert component ... rather than an irreducible novel
\* mechanism": what is left of a DERIVATIVE evolves without its known component.
DerivativeIsSeparable ==
  (asking /\ pc = "done" /\ IsDerivative) => \E part \in KnownComponents : Separable(part, object)

\* "Used to cross-check accepted discoveries so a bug in the producer's canonicalizer
\* cannot, by itself, let a non-novel object through".
BugAloneIsHarmless ==
  (verdict.status = "NOVEL" /\ ~verdict.live) => ~IsFormOf(object, CensusCodes)
=============================================================================
