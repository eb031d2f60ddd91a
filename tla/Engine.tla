------------------------------- MODULE Engine -------------------------------
(***************************************************************************)
(* One engine invocation: lifecore/engines/_common.py (run_engine and      *)
(* parse_stdout), lifecore/sandbox/runner.py (run_sandboxed) and           *)
(* lifecore/sandbox/parsers.py (extract_patterns), as the qfind, rlifesrc  *)
(* and LLS adapters call them.                                             *)
(*                                                                         *)
(* Three actors: the adapter, the sandboxed engine that prints line after  *)
(* line while it searches, and the wall clock.  The engine is a foreign    *)
(* binary: it may print solutions, prove that there are none, stop, crash, *)
(* run into RLIMIT_CPU, print bytes that are no text or a message that     *)
(* happens to contain an UNSAT marker ("not found"), in any order.         *)
(*                                                                         *)
(* Abstracted: a line is its role and the solution it belongs to; of       *)
(* stderr only what the adapter can tell apart is kept; the environment    *)
(* (binary installed, bwrap present, exec succeeds) is a free choice.      *)
(***************************************************************************)
EXTENDS Naturals, SequencesExt

CONSTANTS
  Patterns,      \* solutions the engine can print
  Wrapped,       \* those whose RLE body takes two lines (it wraps at 70 columns)
  HasMarkers,    \* the adapter gives unsat_markers (rlifesrc and LLS do, qfind does not)
  CleanExit,     \* non_found_clean_exit
  MaxLines       \* bound: lines the engine prints

ASSUME EngineAssumption ==
  /\ Wrapped \subseteq Patterns
  /\ HasMarkers \in BOOLEAN
  /\ CleanExit \in {"TIMEOUT", "ERROR"}
  /\ MaxLines \in Nat

VARIABLES
  pc,        \* where run_engine is
  child,     \* what the sandboxed process is doing, or how it ended
  todo,      \* lines of the solution it is printing
  out,       \* everything it has printed
  err,       \* the lines on stderr that hold a marker or do not decode
  printed,   \* history: the solutions it has printed in full, in order
  proved,    \* history: it has searched the whole space and found nothing
  raw        \* what run_engine returned: the outcome and the captured stdout

vars == <<pc, child, todo, out, err, printed, proved, raw>>
engine == <<todo, out, err, printed, proved>>

Nothing == [outcome |-> "NONE", lines |-> << >>]

Init ==
  /\ pc = "which"
  /\ child = "none"
  /\ todo = << >>
  /\ out = << >>
  /\ err = {}
  /\ printed = << >>
  /\ proved = FALSE
  /\ raw = Nothing

---------------------------------------------------------------------------
(* Reading the untrusted stdout.                                           *)

Line(kind, p) == [kind |-> kind, of |-> p]

\* An RLE as to_rle and the engines write it: header, body, terminating "!".
RLE(p) ==
  <<Line("header", p)>>
    \o (IF p \in Wrapped THEN <<Line("part", p)>> ELSE << >>)
    \o <<Line("last", p)>>

\* Mutant of ScanLine: the buffer is not emptied after a block.
ScanKeepingBuffer(s, line) ==
  IF line.kind = "header"
  THEN [s EXCEPT !.buffer = Append(@, line)]
  ELSE IF line.kind = "last"
  THEN [buffer |-> Append(s.buffer, line), blocks |-> Append(s.blocks, Append(s.buffer, line))]
  ELSE [s EXCEPT !.buffer = << >>]

\* _candidate_blocks: only a header, or a body line that ends in "!", is kept; any
\* other line, a wrapped body line included, empties the buffer.
ScanLine(s, line) ==
  IF line.kind = "header"
  THEN [s EXCEPT !.buffer = Append(@, line)]
  ELSE IF line.kind = "last"
  THEN [buffer |-> << >>, blocks |-> Append(s.blocks, Append(s.buffer, line))]
  ELSE [s EXCEPT !.buffer = << >>]

Scan(lines) ==
  LET upTo[i \in 0 .. Len(lines)] ==
        IF i = 0 THEN [buffer |-> << >>, blocks |-> << >>] ELSE ScanLine(upTo[i - 1], lines[i])
  IN  upTo[Len(lines)]

Blocks(lines) == Scan(lines).blocks

\* parse_rle of a block, which is headers and then a body: the last header counts, and
\* nothing after the first "!" is read.  So a block always parses, be it what was printed
\* or, where the body lacks its first line, something else.
Parsed(block) ==
  LET end == CHOOSE i \in DOMAIN block :
               block[i].kind = "last" /\ \A j \in 1 .. i - 1 : block[j].kind = "header"
      p == block[end].of
  IN  [of |-> p, whole |-> \E i \in 1 .. end : SubSeq(block, i, end) = RLE(p)]

\* Mutant of Unseen: duplicates are not looked for.
AlwaysUnseen(found, p) == TRUE

Unseen(found, p) == \A i \in DOMAIN found : found[i] # p

AddBlock(found, block) ==
  IF Unseen(found, Parsed(block)) THEN Append(found, Parsed(block)) ELSE found

ExtractPatterns(lines) ==
  LET blocks == Blocks(lines)
      upTo[i \in 0 .. Len(blocks)] ==
        IF i = 0 THEN << >> ELSE AddBlock(upTo[i - 1], blocks[i])
  IN  upTo[Len(blocks)]

\* Adapter.parse: whatever the outcome, the captured stdout is scanned again.
Candidates == ExtractPatterns(raw.lines)

---------------------------------------------------------------------------
(* The sandboxed engine.                                                   *)

Emit(line) ==
  /\ child = "searching"
  /\ Len(out) < MaxLines
  /\ out' = Append(out, line)

\* The engine has a solution and starts to print it.
Finds ==
  /\ child = "searching"
  /\ todo = << >>
  /\ \E p \in Patterns : todo' = RLE(p)
  /\ UNCHANGED <<pc, child, out, err, printed, proved, raw>>

PrintsSolution ==
  /\ todo # << >>
  /\ Emit(Head(todo))
  /\ todo' = Tail(todo)
  /\ printed' = IF Head(todo).kind = "last" THEN Append(printed, Head(todo).of) ELSE printed
  /\ UNCHANGED <<pc, child, err, proved, raw>>

\* Progress output, bytes that do not decode, or a message that contains a marker.
PrintsOther ==
  /\ todo = << >>
  /\ \E kind \in {"junk", "bytes", "marker"} : Emit(Line(kind, "other"))
  /\ UNCHANGED <<pc, child, todo, err, printed, proved, raw>>

\* The engine, its loader or bwrap writes to stderr, at any time: bytes that do not
\* decode, or "version `GLIBC_2.34' not found", which contains a marker of rlifesrc.
Complains ==
  /\ child = "searching"
  /\ \E kind \in {"bytes", "marker"} : err' = err \cup {Line(kind, "other")}
  /\ UNCHANGED <<pc, child, todo, out, printed, proved, raw>>

\* The whole space is searched and there is no solution: the engine says so, on either
\* stream, and ends.
ProvesNone ==
  /\ todo = << >>
  /\ printed = << >>
  /\ \/ Emit(Line("marker", "proof")) /\ UNCHANGED err
     \/ /\ child = "searching"
        /\ err' = err \cup {Line("marker", "proof")}
        /\ UNCHANGED out
  /\ child' = "exited"
  /\ proved' = TRUE
  /\ UNCHANGED <<pc, todo, printed, raw>>

\* The engine stops by itself, crashes, or is killed by RLIMIT_CPU.
Stops(how) ==
  /\ child = "searching"
  /\ how = "exited" => todo = << >>
  /\ child' = how
  /\ UNCHANGED <<pc, todo, out, err, printed, proved, raw>>

---------------------------------------------------------------------------
(* run_engine.                                                             *)

Answer(outcome, lines) ==
  /\ pc' = "returned"
  /\ raw' = [outcome |-> outcome, lines |-> lines]

\* The binary is missing, bwrap is missing, or run_sandboxed raises SandboxUnavailable
\* or OSError: a typed ERROR without output.
Unavailable ==
  /\ pc \in {"which", "probe", "spawn"}
  /\ Answer("ERROR", << >>)
  /\ UNCHANGED <<child, engine>>

Available(here, next) ==
  /\ pc = here
  /\ pc' = next
  /\ UNCHANGED <<child, engine, raw>>

Spawn ==
  /\ pc = "spawn"
  /\ child' = "searching"
  /\ pc' = "wait"
  /\ UNCHANGED <<engine, raw>>

Raises ==
  /\ pc' = "raised"
  /\ UNCHANGED raw

\* preexec_fn fails in setrlimit: run_engine does not catch subprocess.SubprocessError.
LimitsRefused ==
  /\ pc = "spawn"
  /\ Raises
  /\ UNCHANGED <<child, engine>>

Has(text, kind) == \E l \in text : l.kind = kind

\* subprocess.run(text=True), and the decode() of what a timeout leaves, are strict.
Decodes(text) == ~Has(text, "bytes")

\* Mutant of Outcome: an engine that can prove non-existence has proved it whenever it
\* ends without a pattern.
OutcomeUnsatUnlessFound(lines, complaints) ==
  IF ExtractPatterns(lines) # << >> THEN "FOUND"
  ELSE IF HasMarkers THEN "UNSAT" ELSE CleanExit

\* Patterns decide first, then the markers, looked for anywhere in either stream, then
\* the adapter's default; the return code is not looked at.
Outcome(lines, complaints) ==
  IF ExtractPatterns(lines) # << >> THEN "FOUND"
  ELSE IF HasMarkers /\ Has(Range(lines) \cup complaints, "marker") THEN "UNSAT"
  ELSE CleanExit

ChildEnds ==
  /\ pc = "wait"
  /\ child # "searching"
  /\ IF Decodes(Range(out) \cup err) THEN Answer(Outcome(out, err), out) ELSE Raises
  /\ UNCHANGED <<child, engine>>

\* Mutant of WallTimeout: no wall-clock limit, only an ended process is waited for.
WallTimeoutNever ==
  /\ pc = "wait"
  /\ child # "searching"
  /\ Answer("TIMEOUT", out)
  /\ UNCHANGED <<child, engine>>

\* The wall clock strikes, possibly just as the engine ends: it is killed, and what had
\* been read from the pipes by then is all there is.
WallTimeout ==
  /\ pc = "wait"
  /\ child' = IF child = "searching" THEN "killed" ELSE child
  /\ \E k \in 0 .. Len(out), complaints \in SUBSET err :
       LET captured == SubSeq(out, 1, k) IN
         IF Decodes(Range(captured) \cup complaints) THEN Answer("TIMEOUT", captured) ELSE Raises
  /\ UNCHANGED engine

Child ==
  \/ Finds
  \/ PrintsSolution
  \/ PrintsOther
  \/ Complains
  \/ ProvesNone
  \/ Stops("exited")
  \/ Stops("crashed")
  \/ Stops("cpu")

Adapter ==
  \/ Unavailable
  \/ Available("which", "probe")
  \/ Available("probe", "spawn")
  \/ Spawn
  \/ LimitsRefused
  \/ ChildEnds
  \/ WallTimeout

Next == Child \/ Adapter

Spec == Init /\ [][Next]_vars

\* The adapter is a synchronous call and the wall clock runs; nothing is assumed of
\* the engine, which may search for ever.
FairSpec == Spec /\ WF_vars(Adapter)

---------------------------------------------------------------------------
(* Properties.                                                             *)

SolutionLines == [kind : {"header", "part", "last"}, of : Patterns]

Markers == {Line("marker", "other"), Line("marker", "proof")}

Lines == SolutionLines \cup Markers \cup {Line("junk", "other"), Line("bytes", "other")}

\* Every variable holds a value of its type (RawResult, SandboxResult).
TypeOK ==
  /\ pc \in {"which", "probe", "spawn", "wait", "returned", "raised"}
  /\ child \in {"none", "searching", "exited", "crashed", "cpu", "killed"}
  /\ todo \in Seq(SolutionLines)
  /\ out \in Seq(Lines)
  /\ err \subseteq Markers \cup {Line("bytes", "other")}
  /\ printed \in Seq(Patterns)
  /\ proved \in BOOLEAN
  /\ raw \in [outcome : {"NONE", "FOUND", "UNSAT", "TIMEOUT", "ERROR"}, lines : Seq(Lines)]

\* "a timeout is never evidence of non-existence" (engines/base.py): UNSAT is answered
\* only of an engine that ended by itself, that printed no solution, and that said there
\* is none: it finished its proof, or some other message of it contains a marker.
UnsatIsSaid ==
  raw.outcome = "UNSAT" =>
    /\ child \in {"exited", "crashed", "cpu"}
    /\ printed = << >>
    /\ proved \/ Line("marker", "other") \in Range(out) \cup err

\* When the run was not cut short, parse yields each solution the engine printed,
\* and the outcome is FOUND only if there is one.
NothingPrintedIsLost ==
  (pc = "returned" /\ child \in {"exited", "crashed", "cpu"} /\ raw.lines = out) =>
    /\ \A p \in Patterns :
         (\E i \in DOMAIN printed : printed[i] = p) => (\E i \in DOMAIN Candidates : Candidates[i].of = p)
    /\ raw.outcome = "FOUND" => printed # << >>

\* However the run was cut, parse yields only solutions the engine printed in full,
\* and none of them twice.
CandidatesArePrinted ==
  /\ \A i \in DOMAIN Candidates :
       /\ Candidates[i].whole
       /\ \E j \in DOMAIN printed : printed[j] = Candidates[i].of
  /\ \A i, j \in DOMAIN Candidates : i # j => Candidates[i].of # Candidates[j].of

\* The adapter comes back from every invocation, even of an engine that never ends.
Returns == <>(pc \in {"returned", "raised"})

---------------------------------------------------------------------------
(* What the documentation says of an invocation, and the code does not do. *)

\* "UNSAT = "UNSAT"  # proven no solution in the posed problem": an engine that crashed
\* has proved nothing, whatever its last message contains.
UnsatIsProof == raw.outcome = "UNSAT" => proved

\* "TIMEOUT  # ran out of budget": a run that RLIMIT_CPU ended is a TIMEOUT.
BudgetIsTimeout ==
  (child = "cpu" /\ printed = << >> /\ pc = "returned") => raw.outcome = "TIMEOUT"

\* "(never raises)".
NeverRaises == pc # "raised"

\* "Header lines are kept with their following body so a real RLE parses": also for
\* an RLE whose body is wrapped.
RealRLEParses ==
  \A i \in DOMAIN Candidates : Candidates[i].whole
=============================================================================
