# Verification of lifeseek

TLA+ specifications of lifeseek, the runs that model-check them with TLC, and the
theorems that TLAPS proves about them. Paths are relative to the repository
(`lifecore/...` stands for `src/lifecore/...`, `lifeseek_mcp/...` and
`lifeseek_runner/...` likewise).

lifeseek searches for patterns of Conway's Life. A campaign takes a stream of candidate
patterns, has each one verified by an independent simulator and judged by a novelty
oracle, and accepts it only if both agree, while it charges a budget and listens to a
human. Around that loop sit an append-only provenance store with crash-safe resume, a
bridge that lets an agent use a frozen campaign without relaxing it, foreign engine
binaries run in a sandbox, and a memory of what was searched in vain. The command line
runs a campaign, writes what it found to a directory, and replays it later.

## 1. Inventory

| Component | State | Operations | Speaks to | What is hard | What makes it correct |
|---|---|---|---|---|---|
| Campaign orchestrator `lifecore/campaign/runner.py` | attempts, ledger, discoveries, notes, the intervention queue | `run_campaign`, `send`, `drain` | verifier, oracle, gate, ledger, baselines, a human | a human acts between any two statements; the source may never end; an oracle may raise; `drain` is two statements | every attempt accounted and charged once; nothing judged past the budget or a redirect; only PASS and NOVEL published |
| Budget ledger `campaign/budget.py` | five counters | `charge_engine_cpu`, `cpu_exceeded`, `as_dict` | orchestrator | the charge that trips the limit | it trips once, by one charge |
| Control arms `campaign/baseline.py` | - | `run_baseline` | verifier, oracle | the number of attempts | never fewer attempts than the campaign |
| Provenance store `store/db.py`, `store/schema.sql` | tables, one transaction per connection | `append_*`, `get_*`, `execute`, `close` | SQLite, other processes | lookup and insert are two statements; nothing rolls back; locks; crashes | keys unique, parents present, no UPDATE or DELETE changes a row, what was returned is durable |
| Crash-safe resume `store/resume.py` | the checkpoint table | `checkpointed` | store, the action of a step | crash between action and checkpoint; two processes at one step | one outcome per key, the same answer for everybody |
| Bridge `lifeseek_mcp/bridge.py` | frozen campaign, staged re-aims, approvals, id counter | `run_search`, `record_result`, `request_retarget_checkpoint`, `approve_checkpoint`, `retarget` | agent, human, verifier, oracle | approval by bare id; every bridge has ids of its own; old bridges stay usable | a re-aim lands on what the human read; searches and results stay within the frozen spec |
| Reference simulator `sim/reference.py`, `sim/pattern.py` | a padded array | `step` | verifier | `np.roll` wraps around | it computes generations of the unbounded plane |
| Target specs and adapters `targetspec/*.py`, `engines/qfind.py`, `rlifesrc.py`, `lls.py`, `ikpx2.py` | - | validation, `capable_engines`, `build_input` | engines, verifier | a spec is flattened to the few numbers a command line can carry | the problem that is posed loses no object of the spec |
| Verifier `verify/verifier.py` | - | `verify` | simulator | minimal periods, trivial LCMs, any phase | verdicts are sound and do not depend on the phase |
| Novelty oracle `novelty/*.py` | census snapshot, live lookups | `novelty_query`, `query`, `classify`, `independent_canonical`, `connected_components` | lifelib (external) | failures in the middle; phases and orientations; `set.pop` order | fail-closed: never NOVEL for a seen object; DERIVATIVE for every figure with a known island |
| Engine invocation `engines/_common.py`, `sandbox/*.py` | a child process, its output | `run_engine`, `run_sandboxed`, `extract_patterns` | a foreign binary, the clock | output cut anywhere; crash, CPU limit and wall clock race | UNSAT only of an engine that ended and said so; candidates are what was printed |
| Failure memory `strategy/failure_memory.py` | list of envelopes | `record`, `get_relevant` | bridge | boxes and bands that are open or closed | what is called a dead end is one |
| Command line and reproduction `cli.py`, `campaign/reproduce.py`, `store/recipe.py`, `sim/rle.py` | one directory per spec: `report.json`, `discoveries/*.json`; the campaign file | `run`, `report`, `retarget`, `reproduce` | orchestrator, verifier, oracle, the file system | a run dies between two writes; later runs share its directory; code and snapshot change under it | discoveries stay on disk; OK vouches for the installation of today; a mismatch has a cause |
| Strategy archive, statistics, MCP server, unattended runner | see section 8 | | | | |

`run_campaign` is one synchronous Python call; the human's `send` is the only concurrent
access to it. The bridge is called by an agent in any order. The store is the one
component several processes share; successive runs of the command line share a directory.

## 2. Modules

| Module | Models | State and actions against the code |
|---|---|---|
| `CampaignRunner` (with `BudgetLedger`) | `run_campaign`, `InterventionQueue`, `run_baseline`, `gate.accept` | `pc` is the place in the loop; one action per statement group between two points where a human can act: `Pull`, `DrainCopy` and `DrainClear` (the two statements of `drain`), `NoteChat`, `NoteRedirect`, `Verify`, `Novelty`, `GateAccept`, `GateReject`, `Charge`, `OracleRaises`, `RunBaseline`, `Report`; `Chat` and `Redirect` are the human's |
| `SearchContract` | what a campaign promises, without its loop | `CampaignRunner` is shown to implement it |
| `Store` | `db.py`, `schema.sql` and SQLite's locks as Python's `sqlite3` uses them | one action per SQL statement; `tx` is a connection's transaction, `draft` the file as the one write transaction has it; `closing` are the connections used in a `with` block, chosen at the start. `execute` runs a SELECT (`ExecuteSelect`), an INSERT (`CallAppend` without the lookup), an UPDATE or DELETE (`ExecuteMutation`) or an INSERT OR REPLACE that names a row (`ExecuteReplace`) |
| `Resume`, `StepOutcome` | `checkpointed` in several processes; a write-once outcome per key | one action per statement *and its commit*: `LoadHit`, `LoadMiss`, `Act`, `Record`, `Return`; `draft` is what the connection that holds the write lock sees. `RecordRefused`, `AppendRefused` and `CommitFails` leave a transaction open, `Raises` leaves nothing, `Dies` and `Ends` roll back |
| `Bridge` | the guard, with `Campaign.create` and `capable_engines` | one action per method; `read` and `meant` record what the human saw; `ParamsAllowed` is the whitelist of keys and the bounds on the width |
| `Life`, `LifeWorld`, `ReferenceSim` | the rule on the plane; its generations; `step` on the array | `Place`, `Pass` (one iteration of the loop), `ReadBack`, `ReturnSame` |
| `Shapes` (on `Life`) | `Pattern.bbox` and `normalize`, `reference.step(cells, k)` | what `Verifier` and `Novelty` both ask of a pattern: its shape (`Normalized`), its generations (`Generations`, `At`) and whether its shape comes up again (`Recurs`) |
| `Verifier` (on `Shapes`) | `verify` for ships, oscillators and still lifes | `Verify`, and `NextPhase` between two verdicts |
| `Search` (on `Verifier`) | `Spaceship._validate` and `Oscillator._validate`, `capable_engines`, `build_input` of the four adapters | `Ask` is `build_input` of one adapter and poses a problem, or ends in NO_CAPABILITY; `Found`, `Unsat` and `GivesUp` are the engine's answers to that problem; `Submit` a candidate that no engine found; then `Verifier`'s steps |
| `RLE` | `to_rle`, `parse_rle`, over tokens | recursive functions: `EmitRow` and `EmitRows` over the tokens so far (`Emit` makes a run longer or begins one, so blank rows are collapsed), and `Read` over the tokens of a body |
| `RunDirectory` (on `RLE`) | `cli.py` with `reproduce_discovery`, recipes and records | `Start`, then `Verify`, `Novelty` and `Gate` for each seed candidate, then the files one by one, each truncated and then filled; `Die` anywhere; `Retarget` edits the campaign file; `Reproduced` is what `reproduce` says OK of; `Upgrade` changes the installation |
| `Components` | `connected_components` | the two nested loops: `Seed` is `set.pop`, `Grow` one stack entry, then `Finish` and `Sort`; `Again` is a second call |
| `Novelty` (on `Shapes` and `Components`) | `novelty_query`, `query`, `classify`, `independent_canonical` | a query is decided by the catalogue at once, with the outcomes of its fallible parts, or goes on to the minimality tier: `Split` is the flood fill of `Components`, `DescriptionLength` the second one, `Classified` the verdict; between queries the object changes phase, orientation and place |
| `Engine` | one invocation of an engine | `Adapter` (`run_engine`, statement by statement), `Child` (the engine prints, complains on stderr, proves, exits, crashes, hits RLIMIT_CPU) and the wall clock. A marker is part of a line on either stream, a proof or any other message |
| `FailureMemory` | `record`, `get_relevant`, `get_failure_memory`, the effect of a retarget on it | one action per method |

`MC*` modules hold the small instances. `*_proofs` modules hold the theorems. Inside a
module, an operator introduced by "Mutant of D" is D with a plausible bug in it: put in
D's place it must break the property it is kept for, which shows that the property can fail.

Data is abstracted to what the properties tell apart. A pattern is a model value where
only its verdicts matter (`CampaignRunner`, `Bridge`, `Engine`) and a set of cells where
its shape matters (`ReferenceSim`, `Verifier`, `Search`, `Components`, `Novelty`,
`RunDirectory`). Hashes, serialisation other than RLE, wording and floating point are left
out: in `RunDirectory` a hash is what it is a hash of, and verdicts are relations given by
the instance. Elapsed CPU is counted in units of one charge. The external parts are SQLite's
locks, lifelib's `apgcode`, the engines, the clock and whoever changes an installation,
modelled from how the code uses them.

## 3. Runs

| Run | States | Question |
|---|---|---|
| `Campaign` | 530980 | Does the loop keep its books, stop at its budget, obey a redirect, keep chats in order, pin in each recipe the spend of its attempt, implement `SearchContract`, and end? |
| `Store` | 648670 | Two processes share the file; both, one or none of them closes the store on every error. Are keys unique, parents present and, but for those an INSERT OR REPLACE names, rows permanent for all, and does a careful one keep what it was told and leave no transaction, and so no lock, behind between its calls? |
| `StoreLost` | fails | Does a replayed key always name a durable row? No: see section 7. |
| `Resume` | 72914 | Two processes run two steps (a paid call, a keyed append) on two connections, with two faults: crashes, statements that raise, commits that fail and leave their row behind. Does each key have one outcome, are all runs of an action accounted for, is there one row per keyed append, and is every step recorded in the end? |
| `Bridge` | 110768 | Can an agent, in any order of calls and over a chain of re-aims, get a re-aim the human did not read? |
| `ReferenceSim` | 12274 | Does `step` agree with the plane, generation by generation, and stay off the border? |
| `Search` | 17066 | Does the problem that an adapter poses lose an object of its spec, or let an engine find what the spec does not ask for? Are ships judged exactly, is an LCM of two oscillators refused, and is a verdict stable over the phases of an object? |
| `Novelty` | 12286 | Is NOVEL ever said of a seen object, in any form, with failing lookups, and DERIVATIVE of anything but a figure with a known island? Is the independent key a key? Does every order of `set.pop` give the maximal components, and does each split end? |
| `RunDirectory` | 435852 | Is OK ever said of what today's installation would reject, does a replay ever fail although nothing changed, and is a discovery ever lost but by the death of the run that writes it? |
| `Engine` | 642627 | Does any cut of the output or end of the engine give an UNSAT that nothing said, lose a solution, or invent one, and does the adapter return? |
| `EngineWrappedRLE` | fails | Is what is parsed from a wrapped RLE the whole pattern? No: see section 7. |
| `Memory` | 49190 | Is a spec narrower than a dead end one too, and are square boxes judged soundly? |

### Bounds

- `Campaign`: a budget of two charges, so that the limit is tripped by the third attempt
  (one step before the bound on pulled candidates, which therefore never binds); three
  interventions, enough for a chat, a redirect and one more that falls between the two
  statements of `drain`; two candidates and two specs, to tell one from the other.
- `Store`: two connections, a table and its parent, one key, two rows per table (the
  second parent row has no children: `ParentIds`) and one
  crash, every set of careful connections (so the two are interchangeable, and symmetry is
  used). A race needs two connections, a dangling parent two tables, a lost row one crash.
  One row is named by INSERT OR REPLACE (`MaxReplaced`), and the history of what was
  returned is that of the careful connections (`HearAll` is FALSE; `StoreLost`, where all
  are careless, keeps all of it). The proofs hold for any number of each.
- `Resume`: two workers, two faults: both can miss a key, one can crash and the other have
  its insert refused; or a commit fails and the process that has its row dies, or calls again.
  Three values make JSON change one of them (a tuple becomes a list).
- `Bridge`: two bridges and two requests on each, so an id can be used twice on one bridge
  and recur on the next; widths of 0.5, 2.5 and 3 against bounds of 2; a spec that two
  engines can search and one that none can.
- `ReferenceSim`: all 512 patterns of a 3 by 3 box across the origin, up to four
  generations.
- `Search`: all patterns of three to five cells of such a box, plus a blinker, a caterer
  (periods 2 and 3) and the two side by side, which repeat after 6. Specs: ships along both
  diagonals, with a range of widths, too narrow for a glider, at a multiple of a period,
  oblique; oscillators with and without a box; still lifes with either filter; a stub kind;
  and specs that validation refuses. Every answer an engine can give occurs, UNSAT for
  a spec that is too narrow among them, and verdicts after up to two generations more.
- `Novelty`: an object of the snapshot, one of the live catalogue only, one of neither, and
  a juxtaposition with a known component; two generations, all eight orientations, and
  every order in which their cells can be split: chains by the corner, and two islands.
- `RunDirectory`: two runs, so that the second meets what a first one left or lost; one
  change of the installation at any time (each of simulator, canonicalizer,
  verifier, snapshot and lifelib, one at a time); two specs with one engine or more and one with none; two objects, one with
  blank rows and a rule of its own, and a list that holds one of them twice.
- `Engine`: six lines of output, which hold two whole solutions, or one with noise around
  it, and a cut anywhere; noise is a line of junk, one with a marker in it, or one that cannot
  be decoded, and stderr is a set, because only what occurs on it is looked at.
- `Memory`: two envelopes; boxes that are absent, square and flat, bands that are open and
  closed.

### Deadlock

`Resume` is checked for deadlock. The other runs turn the check off, because the system may
stop: a campaign, an engine invocation, a search and a simulation end; a directory is at
rest when its bound on runs is reached, a store when its bounds on rows and crashes are; an agent or a caller owes no further call.

## 4. Fairness

- `Campaign`: weak fairness of the loop's steps (`run_campaign` is one synchronous call) but
  none for the end of the candidate source. That it ends follows from the budget alone. An
  oracle that hangs is not covered.
- `Store`: none. A careless connection can keep its lock for as long as it lives (see
  section 7), and a statement that waits for a lock is refused after SQLite's busy timeout,
  so nothing has to happen; that a careful connection holds no lock between its calls is a
  safety property.
- `Resume`: weak fairness of the steps of a running call, and strong fairness of starting a
  step that has no checkpoint: the pipeline is resumed until it is done, which is what the
  module is written for. Weak fairness of `Ends`: a process that makes no further call ends,
  and its connection with it; one that lived on with a transaction open would block the others
  for ever. Faults are finitely many; a statement that meets the lock then waits for it.
- `Engine`: weak fairness of the adapter, which includes the wall clock. The engine owes
  nothing.
- `Novelty`: weak fairness of `Split`: `connected_components` is a synchronous call. A caller
  owes no further query.
- `Search`, `RunDirectory`, `Bridge`, `Memory`, `ReferenceSim`: none. A person or a caller
  decides whether to go on, and a run may die.

## 5. What is proved

TLAPS proves, for every value of the constants that satisfies the named assumptions:

| Module | Theorems | Argument |
|---|---|---|
| `CampaignRunner_proofs` | `Typing`, `AttemptsAccounted`, `BudgetStops`, `GateHolds`, `RedirectStops`, `RecipesPinned`, `ChatsRise`, `Implements`, `ArmsCovered`, `Advances` | most are inductive relative to the types; accounting counts the candidate in hand as undecided or uncharged. `FoundEarlier`: attempts that are in the discoveries are behind the one in hand. `ChatInv`: interventions are numbered as they are sent; notes, batch and queue are rising, notes before both, and batch before queue except between the two statements of `drain` (which may lose what falls between them, but cannot reorder). `Implements` maps the places of the loop to the phases of the contract and counts a candidate as judged when the gate decides; with `Accounting` and `HardStop` what was judged stays within the spend, and `InHandInv` says that the candidate in hand and its verdicts are real ones. `Advances` is the safety half of `Termination`: steps are ordered by spend (bounded by `BudgetStops`), places of the loop still ahead, and interventions drained, and the human leaves all three alone |
| `Store_proofs` | `Typing`, `Uniqueness`, `ChainIntact`, `Monotone`, `NothingDangles`, `Durability` | `StoreInv`: one connection holds the write lock, and keys are unique and parents present in the file *as its transaction has it* and in the committed one; without the first a commit could break what holds of the file, without the second a rollback could. An INSERT OR REPLACE that names a row keeps its id, so children keep their parent (`ReplacedRow`). `Quiet`: a careful connection has no transaction outside a commit, and its commit publishes the one row of its append; from it durability follows, next to any other connection |
| `RunDirectory_proofs` on `Resume` | `Typing`, `Agreement`, `Refinement`, `RetriedAppends`, `RunsAccounted` | `OneOpen`: the open transaction holds at most one checkpoint and one row more than is committed, and its worker is between calls or about to look its key up, so that no call acts, records or returns on what may still be lost. `Decided`, with it: what a call is about to return is, after JSON, the committed outcome. `OneRow`: whatever a keyed append holds is its committed row. `Accounted`, key by key, counts the uncommitted checkpoint as recorded until it is lost |
| `Bridge_proofs` | `Typing`, `Frozen`, `ReaimsAreMeant`, `AcceptedMeets` | `ReaimInv`: ids are never used twice on a bridge, so what was read under an id is what is staged, and what is approved was meant; `UseInv`: results name bridges that exist, whose campaigns do not change |
| `Shapes_proofs` | lemmas only | for every rule: what is moved evolves as it would have in place (`AtMoves`), a figure (a pattern that fits a box, as every finite one does) stays one, its edges are found and move with it (`Edges`, `EdgesMove`), two figures have one shape just when one is the other, moved (`SameShape`), and the j-th generation of the i-th is the (i + j)-th (`AtAdds`) |
| `Life_proofs` on `ReferenceSim` | `Typing`, `Unclipped`, `Refinement` | for rules without birth on 0. `Margin`: after g generations all live cells are at least `Pad - g` from the border; then no cell sees a neighbour by wrapping, and counting in the array is counting on the plane |
| `Life_proofs` on `Verifier` and `Search` | `SearchTyping`, `PassStands`, `ShipsFly`, `NoLCM`, `UnsatProved`, `RejectionHasCause` | for every rule without birth on 0: with it `Generation` is not what `step` computes (section 7), so what the proofs then say is not about the code. First what the verifier computes is freed of its horizon: `ShipPassesWhen` and `OscillatorPassesWhen` say when a figure passes, in terms of its generations alone. A shape that recurs is a translation, by no more than one cell per generation (`SpeedOfLight`); the generations of what comes back are periodic (`Phases`, `AgainAndAgain`), so that the next phase passes just when this one does (`PassesNext`). `SearchInv`: an engine that answered posed the spec's own problem, what it found comes back in whatever phase it is now, and a verdict is that of the object there is now |
| `Engine_proofs` on `Engine` | `Typing`, `UnsatSaid`, `Yielded`, `NothingLost`, `OnlyPrinted` | `ScanInv`: the blocks of every prefix of the output are the solutions that were printed in full by then, in order, whatever noise is between them; from it `Yielded` for every output, `OnlyPrinted` where no body is wrapped. `SaidInv`, for `UnsatSaid`: the marker of a proof is on a stream only when the proof is finished; an output of a finished engine that yields no pattern is, by `ScanInv`, that of one that printed no solution (`NoPatternNoSolution`) |
| `Engine_proofs` on `FailureMemory` | `MemoryTyping`, `TighterIsDead`, `SquareEnvelopes`, `Kept` | monotonicity of the box and band comparisons |
| `RunDirectory_proofs` on `RunDirectory` | `DirectoryTyping`, `Invariants`, `OkEarned`, `MismatchCaused`, `WrittenStay` | the round trip: reading back what was emitted up to any cell gives the cells up to there, so `ParseRLE(ToRLE(p))` is p at the origin, with its rule, for every finite pattern. `Inv`: what a file holds was made by the installations that its run saw, and its name is that of its contents |
| `Novelty_proofs` on `Components` | `Typing`, `Maximal` | `Filling`: what is finished is apart from everything else, and every cell of the growing component is expanded, or on the stack, and connected to the seed; connectedness is that no cut separates the cells, which needs no paths |
| `Novelty_proofs` on `Novelty` | `OracleMaximal`, `KeyStays`, `KeysTell`, `NovelUnseen`, `Classifies`, `SplitsAdvance`, `AlwaysSortable` | `Splitting`: between two queries nothing is left of the flood fill, so that each split starts as the first did. The eight matrices are closed under product and inverse, keep the neighbourhood and so the number of live neighbours (`TurnedCount`, by a bijection); turning goes with every generation (`AtTurned`). A shape that comes up again after n generations has every later generation moved (`LaterMoved`), so one period holds all forms (`EveryForm`), and the next generation, a move, and a turn all have the same forms (`GenerationKept`, `MoveKept`, `TurnKept`). `FormOf`: whichever object a form belongs to, its forms are that object's, even if that object was not known to recur. `Unlisted`: what is called NOVEL, or about to be, has a code that is not in the list it was looked up in; it stays out because the code does not change. For any figure, even one that does not come up again (as a component need not), every form has the forms of the whole (`FormIsOf`, `FormsOfForms`), so that a key tells what has other forms. `ListedIslands`: when a split has ended, its list is that of the connected parts that touch nothing else, and from this `Classifies`. `AlwaysSortable`: the corners, and the place in the list where two are equal, order any components, and what is ordered can be listed in order (`CanBeOrdered`, one entry after another) |

The assumptions are the `ASSUME`s of the modules: types and distinctness of the model
values. Beyond types they say that parents of the tables in use are in use
(`StoreAssumption`), that a round trip through JSON is idempotent (`ResumeAssumption`),
that the capability map is that of the code (`BridgeAssumption`), and that candidates are
finite sets of cells (`VerifierAssumption`, `NoveltyAssumption`). The runs evaluate them on their instances.

The type invariants of `Store`, `Resume`, `Bridge`, `ReferenceSim`, `FailureMemory`,
`Engine`, `Components`, `CampaignRunner`, `Search` and `RunDirectory` are proved and appear in
no run, nor do `DeadEndsKept`, `AcceptedMeetsSpec`, `CampaignsFrozen`, `BaselinesCover`,
`OnlyVerifiedNovel`, `LoopAdvances`, `SplitAdvances` and `Sortable`, which are
proved and nearer to the code than what the runs check.
`MaximalComponents` is proved of `Components` by itself and checked in the composition with
`Novelty`, of which `OracleMaximal` proves it. `Novelty` has no type invariant of its own:
`Splitting` holds that of `Components` and says that the object is a figure.

Generations, scans and texts are computed by recursion over numbers and sequences of any
length. What they compute follows by induction, which `Shapes_proofs`, `Engine_proofs` and
`RunDirectory_proofs` derive from the library's theorem that < is well-founded on the naturals
(`LeastNat`, `Induction`): the set of numbers for which a fact holds is written out, and shown
to hold 0 and every successor. For that the specifications write recursion as functions on
0 .. n, never as RECURSIVE operators or folds.

Of the properties stated with a condition: `OnlyPrinted` assumes that no body is wrapped, as
`EngineWrappedRLE` shows it must; `Yielded` says what holds of wrapped ones. `UnsatProved` is
about the objects that fit the spec's box, or 16 by 16 where the spec gives none: both adapters
pose that default. `NoLCM` asks that the two parts never light the same cell, now or later,
because a cell that both light at different times may well have the full period. `KeyStays` and
`NovelUnseen` assume `ObjectsReturn`, that what is submitted comes up again, moved or not,
within the cap of `independent_canonical`: of anything else the code sees one phase only, and
each phase has a key of its own. The run evaluates this assumption on its objects. Nothing of
the kind is asked of the snapshot, the catalogue or the known objects. `NovelUnseen` further
assumes that the producer's canonicalizer is right: section 7 shows that it must.

## 6. What is only model-checked

- Liveness (`Termination`, `Completes`, `Returns`, `SplitEnds`): fairness and
  ENABLED are out of the prover's reach.
- That there is a next step of the loop or of a split whenever it has not ended (ENABLED):
  `Advances` and `SplitsAdvance` prove the rest of why they end, and `AlwaysSortable` that the
  one step of a split which needs an argument, the sort, is possible.

## 7. Where the code departs from what it says

Two departures are kept as runs, because a later change of the code should turn them:

- `StoreLost` (`store/db.py:75`). A commit that fails because another process reads leaves
  the row pending on the connection. The keyed retry finds this row, returns its id without
  committing, and a crash then loses a row whose append had returned. `Durability` shows
  that a caller who closes the store on every error is safe, whatever other processes do.
  `checkpointed` needs no such care: its lookup goes through `execute`, which commits what an
  earlier call left behind before it is answered from (`Agreement`, of `Resume`; without that
  commit, the mutant `SelectAlone`, its answers disagree).
- `EngineWrappedRLE` (`sandbox/parsers.py:61`). An RLE body of two lines is not recognised:
  the first line empties the buffer, header included, and the last line alone is parsed, as
  another pattern.

Others were met while modelling. The property that states the claim is in the module, and
naming it in the module's .cfg shows the trace:

| Claim, and where it is made | What the code does | Property |
|---|---|---|
| a chat is "recorded in the campaign report" (agent/INTERVENTIONS.md:11) | the queue is read only when a candidate arrives (runner.py:153) | `ChatsReported` in `CampaignRunner` |
| baselines "at EQUAL budget" (runner.py:4-5, baseline.py:11) | they get the larger of the attempts and a minimum (runner.py:179) | `EqualBudget` |
| the overspend "is what gets written into provenance" (budget.py:6-8) | the recipe is made before its attempt is charged (runner.py:168) | `OverspendInProvenance` |
| "at most once per idempotency_key" (resume.py:40) | an action whose checkpoint did not survive runs again (resume.py:50) | `AtMostOnce` in `Resume` |
| "append-only by construction" (db.py:4-7), "Immutability is enforced MECHANICALLY" (schema.sql:7-9) | `execute("INSERT OR REPLACE ...")` removes a row and fires no trigger, because `recursive_triggers` is off (db.py:52-56) | `RowsImmutable` in `Store` |
| "search width beyond w_max" is rejected (bridge.py:5-8) | the width is truncated for the check and passed on as it was (bridge.py:146) | `WidthNotWidened` in `Bridge` |
| an oblique ship has no capable engine (campaign.py:7-8) | it has ikpx2 (capability.py:33) | `ObliqueHasNoEngine`, with an oblique spec |
| "no clipping" (reference.py:45-46) | a rule with birth on 0 fills the array (reference.py:26) | `NeverAtBorder` in `ReferenceSim`, with Birth = {0, 3} |
| "engines that can actually search for it" (capability.py:4) | an oblique ship is routed to ikpx2, which raises NoCapability (ikpx2.py:35) | `CapableCanSearch` in `Search` |
| "the mapping (width, slope, period, displacement) is what matters" (qfind.py:34-35) | of the displacement only the larger extent is passed, so a ship may be found that flies another way (qfind.py:42) | `QfindFindsTheSpec` in `Search` |
| filters "gate acceptance" (models.py:108-110) | not those of ships (verifier.py:66) | `FiltersGateShips` in `Verifier`, with Specs <- `MCFiltered` of `MCSearch` |
| "no p2 oscillator fits in a 1x1 box" (battery.py:125) | the box of an oscillator is not compared (verifier.py:156) | `UnsatSpecsRejectAll`, with Specs <- `MCUnsat` |
| "within the envelope's explored max bbox" (failure_memory.py:41) | only the longer sides are compared (failure_memory.py:51) | `BoxesSound` in `FailureMemory` |
| envelopes that "subsume spec" (failure_memory.py:67) | ships of another velocity are subsumed (failure_memory.py:82) | `VelocitiesSound` |
| planning "reads this memory before committing budget" (failure_memory.py:5-7) | the bridge after a retarget has no memory (bridge.py:208) | `KnownIsTold` |
| TIMEOUT is "ran out of budget" (engines/base.py:27) | a run that RLIMIT_CPU ended is an ERROR with rlifesrc and LLS (_common.py:56) | `BudgetIsTimeout` in `Engine` |
| UNSAT is "proven no solution in the posed problem" (engines/base.py:26) | a marker is any substring of either stream, whatever the return code (_common.py:52-54): "version `GLIBC_2.34' not found", of an engine that never started, contains that of rlifesrc | `UnsatIsProof` |
| "never raises" (_common.py:32) | undecodable output raises (sandbox/runner.py:102), and so does a limit that cannot be set (sandbox/runner.py:70), as SubprocessError | `NeverRaises` |
| "sorted ... for determinism" (mdl.py:37-38) | components with one corner come in the order of `set.pop` (mdl.py:55) | `SortedForDeterminism` in `Components`, under its own `Spec`, with `MCNested` of `MCNovelty` |
| "separable inert component" (mdl.py:3-6) | any known island counts, as in block on table (mdl.py:79) | `DerivativeIsSeparable` in `Novelty`, with `MCDerivative` |
| what is merely "a known object plus a separable inert component" is rejected (mdl.py:3-6) | components are cells that touch, so two boats that touch at a corner are one component, not a known one (mdl.py:77) | `NovelIsIrreducible`, with Patterns <- `MCTied`, KnownObjects <- `MCBoat` |
| a canonicalizer bug "cannot, by itself" pass a known object (canonical.py:9-11) | NOVEL follows from the apgcode alone (oracle.py:39) | `BugAloneIsHarmless`, with Faulty = TRUE and `MCCensusToad` |
| "SHA-256 of the running reference-simulator source" (recipe.py:50) | the file on disk is hashed, which may be newer than the module that runs (recipe.py:51, records.py:48) | `RecipePinsRunningCode` in `RunDirectory` |
| "Any drift in a trust-path code module [...] flips the run red" (docs/lifeseek/CI.md:9-10) | for the same reason OK may be said by another simulator than the one that passed the object; and a change of verifier.py, which is in no hash, shows only in its verdicts | `DriftFlipsRed` |
| accepted if and only if PASS and NOVEL (README.md:20), of one object | the verifier takes the rule of the spec, the oracle that of the RLE header (verifier.py:291, runner.py:165) | `NovelUnderItsSpec` |
| "one artifact per accepted discovery" (cli.py:5) | equal patterns share a file, and files of earlier runs stay beside a new report (cli.py:106) | `OneFilePerDiscovery` |

## 8. What is not modelled

- `campaign/stats.py`: Wilson intervals on reals, pure numerics.
- `strategy/archive.py`: an append-only list with weighted random selection in floating point.
- `lifeseek_mcp/server.py`: transport. `lifeseek_runner/runner.py`: `run` is not implemented,
  and nothing reads the checkpoint queue yet.
- `verify_nonexistence` and `build_goe_preimage_input`: nothing calls them; the signature of
  records, a hash of their other fields.
- The text of RLE (digits, wrapped lines, malformed bodies; `Engine` drops what does not parse),
  YAML and JSON, and symmetry classes, which no adapter passes to its engine.
- `lifeseek report`, which reads and prints; `--out`, with which two specs can share a directory.
- Two command lines at work on one directory at once: every file is written by one of them
  as a whole, so what is added is which of two equal artifacts is the later one.
- Of `execute`: what changes the schema, the ids or the pragmas (DROP, ALTER, PRAGMA), a
  REPLACE with an id of its own choice or with the key of another row, which removes that row,
  and statements that are no SQL. The repository's callers pass SELECT and INSERT
  (resume.py:31 and :52), its tests UPDATE and DELETE.
- A snapshot that cannot be read: `novelty_query` raises (oracle.py:39, catagolue.py:61), and no
  verdict comes of it. In `CampaignRunner` it is one of the ways of `OracleRaises`.
- The approval of an id on another bridge than the one it was read from: nothing in the
  repository delivers approvals (`server.py` binds one bridge and exposes no `approve`).
- What qfind makes of `-W`, the least width (qfind.py:48): it is part of what is posed, and
  the model's qfind answers by the other parts.
- Of the bridge's collaborators: what an engine returns for a search.

## 9. Plan

Order of work: the campaign loop and its contract first, then what several processes share
(store, resume), then the bridge, then the algorithms the verdicts rest on (simulator,
verifier, novelty, components), then engines and memory, then the way from a spec to an
engine, and what a run leaves on disk. All of these exist. Left:

`verify_nonexistence` and the archive, once something uses them.
