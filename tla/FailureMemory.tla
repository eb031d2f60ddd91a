--------------------------- MODULE FailureMemory ---------------------------
(***************************************************************************)
(* lifecore/strategy/failure_memory.py: the envelopes that were found      *)
(* UNSAT, and which specs they make a known dead end; read by the agent    *)
(* through lifeseek_mcp/bridge.py (get_failure_memory), whose retarget     *)
(* goes on with a bridge that holds no memory.                             *)
(***************************************************************************)
EXTENDS Integers, Sequences

CONSTANTS
  Envelopes,      \* records with a kind and a descriptor
  Specs,          \* target specs, records with a kind
  None,
  MaxEnvelopes    \* bound: envelopes recorded

Boxes == Nat \X Nat

\* A descriptor names a ship's velocity too; _is_relevant looks at slope and width alone.
ASSUME MemoryAssumption ==
  /\ \A e \in Envelopes : \/ e.kind = "spaceship" /\ e.maxWidth \in Nat \cup {None}
                          \/ /\ e.kind = "oscillator"
                             /\ e.pmin \in Nat \cup {None} /\ e.pmax \in Nat \cup {None}
                             /\ e.maxBox \in Boxes \cup {None}
                          \/ e.kind = "still_life" /\ e.maxBox \in Boxes \cup {None}
  /\ \A s \in Specs : \/ s.kind = "spaceship" /\ s.width \in Nat \X Nat
                      \/ s.kind = "oscillator" /\ s.period \in Nat /\ s.box \in Boxes \cup {None}
                      \/ s.kind = "still_life" /\ s.box \in Boxes \cup {None}
  /\ None \notin Nat \cup Boxes
  /\ MaxEnvelopes \in Nat

VARIABLES
  memory,   \* _envelopes
  spec,     \* the spec of the agent's bridge
  wired,    \* that bridge holds the memory
  told      \* the last answer of get_failure_memory: the spec and the envelopes' positions

memoryVars == <<memory, spec, wired, told>>

MemoryInit ==
  /\ memory = << >>
  /\ spec \in Specs
  /\ wired = TRUE
  /\ told = None

\* _bbox_upper
Upper(box) == IF box[1] >= box[2] THEN box[1] ELSE box[2]
Lower(box) == IF box[1] >= box[2] THEN box[2] ELSE box[1]

\* Mutant of BoxSubsumed: the smaller dimensions are compared.
BoxSubsumedByLower(box, maxBox) ==
  maxBox # None /\ box # None /\ Lower(box) <= Lower(maxBox)

\* Mutant of BoxSubsumed: a spec without a box is taken to be subsumed.
BoxSubsumedUnbounded(box, maxBox) ==
  maxBox # None /\ (box = None \/ Upper(box) <= Upper(maxBox))

\* _bbox_subsumed: the dominant dimensions are compared.
BoxSubsumed(box, maxBox) ==
  maxBox # None /\ box # None /\ Upper(box) <= Upper(maxBox)

\* _is_relevant
Relevant(e, s) ==
  /\ e.kind = s.kind
  /\ \/ /\ s.kind = "spaceship"
        /\ e.slope = s.slope
        /\ e.maxWidth # None /\ s.width[2] <= e.maxWidth
     \/ /\ s.kind = "oscillator"
        /\ e.pmin # None /\ e.pmax # None
        /\ e.pmin <= s.period /\ s.period <= e.pmax
        /\ e.maxBox = None \/ BoxSubsumed(s.box, e.maxBox)
     \/ /\ s.kind = "still_life"
        /\ BoxSubsumed(s.box, e.maxBox)

\* get_relevant, as the positions of the envelopes.
GetRelevant(s) == {i \in DOMAIN memory : Relevant(memory[i], s)}

Record(e) ==
  /\ Len(memory) < MaxEnvelopes
  /\ memory' = Append(memory, e)
  /\ UNCHANGED <<spec, wired, told>>

\* Bridge.get_failure_memory: nothing, if the bridge holds no memory.
GetFailureMemory ==
  /\ told' = [spec |-> spec, envelopes |-> IF wired THEN GetRelevant(spec) ELSE {}]
  /\ UNCHANGED <<memory, spec, wired>>

\* Bridge.retarget: Bridge(campaign, novelty_fn), without the memory.
Retarget(s) ==
  /\ spec' = s
  /\ wired' = FALSE
  /\ UNCHANGED <<memory, told>>

MemoryNext ==
  \/ \E e \in Envelopes : Record(e)
  \/ GetFailureMemory
  \/ \E s \in Specs : Retarget(s)

MemorySpec == MemoryInit /\ [][MemoryNext]_memoryVars

---------------------------------------------------------------------------
(* Properties.                                                             *)

DeadEnd(s) == GetRelevant(s) # {}

\* A box lies within another; None is the whole plane.
Within(box, other) ==
  \/ other = None
  \/ box # None /\ box[1] <= other[1] /\ box[2] <= other[2]

\* What s asks for is part of what t asks for.
Narrower(s, t) ==
  /\ s.kind = t.kind
  /\ s.kind = "spaceship" => s.slope = t.slope /\ s.width[2] <= t.width[2]
  /\ s.kind = "oscillator" => s.period = t.period
  /\ s.kind \in {"oscillator", "still_life"} => Within(s.box, t.box)

\* Every variable holds a value of its type.
MemoryTypeOK ==
  /\ memory \in Seq(Envelopes)
  /\ spec \in Specs
  /\ wired \in BOOLEAN
  /\ told # None => told.spec \in Specs /\ told.envelopes \subseteq DOMAIN memory

\* If a spec is a dead end, so is every spec that asks for part of it: tightening a spec
\* never makes the memory forget a dead end, and an unbounded spec is never one by a box.
NarrowerIsDeadToo ==
  \A s, t \in Specs : Narrower(s, t) /\ DeadEnd(t) => DeadEnd(s)

\* A square envelope makes a dead end only of the specs that lie within it.
SquaresSound ==
  \A s \in Specs : \A i \in GetRelevant(s) :
    LET e == memory[i] IN
      s.kind \in {"oscillator", "still_life"} /\ e.maxBox # None /\ e.maxBox[1] = e.maxBox[2] =>
        s.box # None /\ Within(s.box, e.maxBox)

\* A dead end once recorded stays one, whatever is recorded after it.
DeadEndsKept == [][\A s \in Specs : DeadEnd(s) => DeadEnd(s)']_memoryVars

---------------------------------------------------------------------------
\* "True iff the spec's bbox lies within the envelope's explored max bbox."
BoxesSound ==
  \A s \in Specs : \A i \in GetRelevant(s) :
    s.kind = "still_life" => Within(s.box, memory[i].maxBox)

\* "Prior UNSAT envelopes that subsume spec (so the spec is a known dead-end)": an envelope
\* of one velocity does not subsume a ship of another.
VelocitiesSound ==
  \A s \in Specs : \A i \in GetRelevant(s) :
    s.kind = "spaceship" => memory[i].velocity = s.velocity

\* "Planning reads this memory before committing budget, so the loop does not re-explore a
\* region already known": an agent that asks is told of the envelopes of its spec.
KnownIsTold ==
  [][told' # told => told'.envelopes = GetRelevant(spec)]_memoryVars
=============================================================================
