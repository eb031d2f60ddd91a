---------------------------- MODULE RunDirectory ----------------------------
(***************************************************************************)
(* The command line, lifecore/cli.py (run, retarget, reproduce), with      *)
(* lifecore/campaign/reproduce.py and the recipes and records that         *)
(* reproduction compares (lifecore/store/recipe.py, verify/records.py).    *)
(*                                                                         *)
(* A run judges its seed candidates, then writes the report and one file   *)
(* for each discovery into runs/<spec>; it may die anywhere, and later     *)
(* runs of the same spec write to the same directory.  Meanwhile the       *)
(* installation may change: the versions that a record or a recipe names   *)
(* are read from the files on disk, while a process goes on with the       *)
(* modules it imported.                                                    *)
(*                                                                         *)
(* Abstracted: verdicts are relations given by constants; a hash is what   *)
(* it is a hash of; rates, notes and baselines are left out of the report. *)
(* One run is at work at a time, in the default directory of its spec;     *)
(* retarget and reproduce are short and taken as one step.                 *)
(***************************************************************************)
EXTENDS RLE

CONSTANTS
  Specs,        \* target specs: id, rule, capable
  SeedLists,    \* what seed_candidates may hold: sequences of RLE texts
  Installs,     \* installations: versions sim, canonicalizer, verifier and census, and whether
                \* lifelib is there
  Passing,      \* [sim, verifier]: the <<normalized cells, spec id>> that these versions pass
  Apgcode,      \* [<<normalized cells, rule>>]: lifelib's code of the object
  Census,       \* [census]: the codes in that snapshot
  Nothing,
  MaxUpgrades,  \* bound: how often the installation changes
  MaxRuns       \* bound: how many runs are started

Texts == UNION {Range(seeds) : seeds \in SeedLists}

\* spec_id is the hash of all that a spec says; lifelib can be imported or not.
ASSUME RunAssumption ==
  /\ SeedLists \subseteq Seq(Texts)
  /\ \A text \in Texts : text.body \in Seq(Tokens)
  /\ \A s, t \in Specs : s.id = t.id => s = t
  /\ \A install \in Installs : install.lifelib \in BOOLEAN

VARIABLES
  installed,    \* what is on disk
  upgrades,
  runs,         \* how many were started
  campaign,     \* the campaign file: spec and seed_candidates
  run,          \* the run process
  report,       \* report.json of each spec's directory
  files,        \* discoveries/<id>.json: what they hold, by id
  written,      \* history: the discoveries that were once written in full
  interrupted   \* history: ids whose file was being written when a run died

directoryVars == <<installed, upgrades, runs, campaign, run, report, files, written, interrupted>>
disk == <<report, files, written, interrupted>>

\* A file that was truncated and not yet filled.
Torn == [torn |-> TRUE]

Idle == [pc |-> "idle"]

DirectoryInit ==
  /\ installed \in Installs
  /\ upgrades = 0
  /\ runs = 0
  /\ campaign \in [spec : Specs, seeds : SeedLists]
  /\ run = Idle
  /\ report = [s \in Specs |-> Nothing]
  /\ files = << >>
  /\ written = {}
  /\ interrupted = {}

---------------------------------------------------------------------------
(* What is pinned, and what is compared.                                   *)

\* verify judges under the rule of the spec; the record says which simulator is on
\* disk, and of the pattern only what no translation changes.
VerificationRecord(code, now, pattern, spec) ==
  [verdict |-> IF <<Normalize(pattern.cells), spec.id>> \in Passing[<<code.sim, code.verifier>>]
               THEN "PASS" ELSE "REJECT",
   spec |-> spec.id, rule |-> spec.rule, population |-> Cardinality(pattern.cells),
   sim |-> now.sim]

\* novelty_query: the pattern under the rule it came with, against the snapshot on disk.
NoveltyResult(lifelib, now, pattern) ==
  IF ~lifelib THEN [status |-> "UNCERTAIN", code |-> Nothing, census |-> Nothing]
  ELSE LET code == Apgcode[<<Normalize(pattern.cells), pattern.rule>>]
       IN  [status |-> IF code \in Census[now.census] THEN "KNOWN" ELSE "NOVEL",
            code |-> code, census |-> now.census]

\* _RECIPE_REPRO_FIELDS of _make_recipe; verifier.py and lifelib are not among them.
Recipe(now, spec) ==
  [sim |-> now.sim, canonicalizer |-> now.canonicalizer, census |-> now.census, spec |-> spec.id]

\* gate.accept
Accepts(verification, novelty) == verification.verdict = "PASS" /\ novelty.status = "NOVEL"

\* Mutant of DiscoveryId: the pattern is not hashed.
DiscoveryIdOfSpec(spec, pattern) == <<spec.id>>

\* <spec_id[:12]>-<sha256(canonical RLE)[:12]>
DiscoveryId(spec, pattern) == <<spec.id, ToRLE(pattern)>>

---------------------------------------------------------------------------
(* lifeseek run.                                                           *)

Running == run.pc # "idle"

\* spec, then candidates are parsed; the modules are imported.
Start ==
  /\ ~Running
  /\ runs < MaxRuns
  /\ runs' = runs + 1
  /\ run' = [pc |-> IF campaign.spec.capable THEN "verify" ELSE "report",
             spec |-> campaign.spec,
             todo |-> [i \in DOMAIN campaign.seeds |-> ParseRLE(campaign.seeds[i])],
             code |-> installed, lifelib |-> FALSE, verification |-> Nothing,
             novelty |-> Nothing, found |-> << >>, seen |-> {installed}]
  /\ UNCHANGED <<installed, upgrades, campaign, disk>>

Verify ==
  /\ run.pc = "verify"
  /\ run.todo # << >>
  /\ run' = [run EXCEPT !.pc = "novelty",
               !.verification = VerificationRecord(run.code, installed, Head(run.todo), run.spec)]
  /\ UNCHANGED <<installed, upgrades, runs, campaign, disk>>

\* lifelib, once imported, stays with the process.
Novelty ==
  /\ run.pc = "novelty"
  /\ LET lifelib == run.lifelib \/ installed.lifelib IN
       run' = [run EXCEPT !.pc = "gate", !.lifelib = lifelib,
                          !.novelty = NoveltyResult(lifelib, installed, Head(run.todo))]
  /\ UNCHANGED <<installed, upgrades, runs, campaign, disk>>

Discovery ==
  [pattern |-> Head(run.todo), spec |-> run.spec, verification |-> run.verification,
   novelty |-> run.novelty, recipe |-> Recipe(installed, run.spec),
   code |-> run.code, seen |-> run.seen]

Gate ==
  /\ run.pc = "gate"
  /\ run' = [run EXCEPT !.pc = "verify", !.todo = Tail(@),
               !.found = IF Accepts(run.verification, run.novelty) THEN Append(@, Discovery) ELSE @]
  /\ UNCHANGED <<installed, upgrades, runs, campaign, disk>>

\* No candidate is left, or the charge for the last one tripped the budget.
CampaignEnds ==
  /\ run.pc = "verify"
  /\ run.todo = << >> \/ Len(run.todo) < Len(campaign.seeds)
  /\ run' = [run EXCEPT !.pc = "report", !.todo = << >>]
  /\ UNCHANGED <<installed, upgrades, runs, campaign, disk>>

\* write_text truncates the report, then fills it.
TruncateReport ==
  /\ run.pc = "report"
  /\ report' = [report EXCEPT ![run.spec] = Torn]
  /\ run' = [run EXCEPT !.pc = "fill report"]
  /\ UNCHANGED <<installed, upgrades, runs, campaign, files, written, interrupted>>

FillReport ==
  /\ run.pc = "fill report"
  /\ report' = [report EXCEPT ![run.spec] = [discoveries |-> Len(run.found)]]
  /\ run' = [run EXCEPT !.pc = "files"]
  /\ UNCHANGED <<installed, upgrades, runs, campaign, files, written, interrupted>>

Writing == DiscoveryId(Head(run.found).spec, Head(run.found).pattern)

\* write_text, in two steps: the file is truncated, then filled.
FilesWith(id, content) ==
  [i \in DOMAIN files \cup {id} |-> IF i = id THEN content ELSE files[i]]

\* discovery_artifact; and history: the code its run ran, the installations it met.
Artifact(d) ==
  [torn |-> FALSE, spec |-> d.spec, rle |-> ToRLE(d.pattern), verification |-> d.verification,
   novelty |-> d.novelty, recipe |-> d.recipe, code |-> d.code, seen |-> d.seen]

TruncateFile ==
  /\ run.pc = "files"
  /\ run.found # << >>
  /\ files' = FilesWith(Writing, Torn)
  /\ run' = [run EXCEPT !.pc = "fill file"]
  /\ UNCHANGED <<installed, upgrades, runs, campaign, report, written, interrupted>>

FillFile ==
  /\ run.pc = "fill file"
  /\ files' = FilesWith(Writing, Artifact(Head(run.found)))
  /\ written' = written \cup {[spec |-> run.spec, pattern |-> Head(run.found).pattern]}
  /\ interrupted' = interrupted \ {Writing}
  /\ run' = [run EXCEPT !.pc = "files", !.found = Tail(@)]
  /\ UNCHANGED <<installed, upgrades, runs, campaign, report>>

\* It prints its summary and exits with 0, or with 2 if no engine is capable.
End ==
  /\ run.pc = "files"
  /\ run.found = << >>
  /\ run' = Idle
  /\ UNCHANGED <<installed, upgrades, runs, campaign, disk>>

Die ==
  /\ Running
  /\ run' = Idle
  /\ interrupted' = interrupted \cup IF run.pc = "fill file" THEN {Writing} ELSE {}
  /\ UNCHANGED <<installed, upgrades, runs, campaign, report, files, written>>

---------------------------------------------------------------------------
(* lifeseek retarget and reproduce, and the world.                         *)

\* The spec is replaced; the rest of the file is carried over.
Retarget ==
  /\ \E s \in Specs \ {campaign.spec} : campaign' = [campaign EXCEPT !.spec = s]
  /\ UNCHANGED <<installed, upgrades, runs, run, disk>>

\* Mutant of Matches: novelty is not asked again.
MatchesButNovelty(artifact, now) ==
  LET pattern == ParseRLE(artifact.rle)
  IN  /\ VerificationRecord(now, now, pattern, artifact.spec) = artifact.verification
      /\ Recipe(now, artifact.spec) = artifact.recipe

\* reproduce_discovery: from the serialized fields alone, by a process of today.
Matches(artifact, now) ==
  LET pattern == ParseRLE(artifact.rle)
  IN  /\ VerificationRecord(now, now, pattern, artifact.spec) = artifact.verification
      /\ NoveltyResult(now.lifelib, now, pattern) = artifact.novelty
      /\ Recipe(now, artifact.spec) = artifact.recipe

\* What lifeseek reproduce says OK of now.  It changes nothing, and raises on a torn file,
\* which is no JSON.
Complete == {files[id] : id \in {i \in DOMAIN files : ~files[i].torn}}
Reproduced == {a \in Complete : Matches(a, installed)}

\* A release, a new snapshot, lifelib installed or removed: also while a run is at work.
Upgrade ==
  /\ upgrades < MaxUpgrades
  /\ upgrades' = upgrades + 1
  /\ installed' \in Installs \ {installed}
  /\ run' = IF Running THEN [run EXCEPT !.seen = @ \cup {installed'}] ELSE run
  /\ UNCHANGED <<runs, campaign, disk>>

DirectoryNext ==
  \/ Start \/ Verify \/ Novelty \/ Gate \/ CampaignEnds
  \/ TruncateReport \/ FillReport \/ TruncateFile \/ FillFile \/ End \/ Die
  \/ Retarget \/ Upgrade

DirectorySpec == DirectoryInit /\ [][DirectoryNext]_directoryVars

---------------------------------------------------------------------------
(* Properties.                                                             *)

\* "OK: ... reproduced bitwise" (_cmd_reproduce) vouches for the discovery as of today:
\* the code and the snapshot installed now accept what the artifact holds, whatever
\* changed since it was written, also what no recipe names (verifier.py, lifelib).
OkIsEarned ==
  \A a \in Reproduced :
    LET pattern == ParseRLE(a.rle)
    IN  Accepts(VerificationRecord(installed, installed, pattern, a.spec),
                NoveltyResult(installed.lifelib, installed, pattern))

\* "the acceptance pipeline replays bitwise" (SPEC 9): a mismatch means that the
\* installation changed since the run that found the object began, and never that the
\* pattern came back from its RLE as another one, or elsewhere on the plane.
MismatchHasCause == \A a \in Complete \ Reproduced : a.seen # {installed}

Holds(id, d) ==
  id \in DOMAIN files /\ ~files[id].torn /\ files[id].spec = d.spec /\ files[id].rle = ToRLE(d.pattern)

AtWork(id) == run.pc = "fill file" /\ Writing = id

\* A discovery that was once written stays on disk through later runs of its spec, their
\* crashes and new reports; the one file that can be lost is the one that is being
\* written again, or was when a run died.
WrittenStays ==
  \A d \in written :
    \/ \E id \in DOMAIN files : Holds(id, d)
    \/ \E id \in DOMAIN files : id = DiscoveryId(d.spec, d.pattern) /\ (AtWork(id) \/ id \in interrupted)

---------------------------------------------------------------------------
(* What docs and comments say, and the code does not do.                   *)

\* "SHA-256 of the running reference-simulator source": the file on disk is hashed, which
\* need not be the one that runs.
RecipePinsRunningCode == \A a \in Complete : a.verification.sim = a.code.sim

\* "Any drift in a trust-path code module [...] flips the run red": an OK may be said by
\* another simulator than the one that passed the object.
DriftFlipsRed == \A a \in Reproduced : installed.sim = a.code.sim

\* "ACCEPTED <=> verifier PASS and novelty NOVEL", of one object: verified under the rule of
\* the spec, but judged for novelty under the rule of its own header.
NovelUnderItsSpec ==
  \A a \in Complete :
    Apgcode[<<ParseRLE(a.rle).cells, a.spec.rule>>] \notin Census[a.novelty.census]

\* "a content-addressed report plus one artifact per accepted discovery": a report counts a
\* pattern twice that has one file, and the files of earlier runs stay beside it.
OneFilePerDiscovery ==
  ~Running /\ interrupted = {} =>
    \A s \in Specs : report[s] \notin {Nothing, Torn} =>
      report[s].discoveries = Cardinality({id \in DOMAIN files : files[id].spec = s})
=============================================================================
