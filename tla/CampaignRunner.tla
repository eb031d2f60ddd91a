--------------------------- MODULE CampaignRunner ---------------------------
(***************************************************************************)
(* lifecore/campaign/runner.py: run_campaign, the loop that drains the     *)
(* interventions, verifies a candidate, asks the novelty oracle, lets the  *)
(* gate decide, pins a recipe, charges the ledger, and at the end runs the *)
(* two mandatory baselines and returns the report.                         *)
(*                                                                         *)
(* Two actors: the runner, one action per statement group of the loop, and *)
(* the human, who appends chats and redirects to the InterventionQueue     *)
(* from outside while the runner is anywhere in its loop.  drain() copies  *)
(* the queue and then clears it, two steps the human can come between.     *)
(*                                                                         *)
(* Abstracted: a pattern is a model value, the verifier and the novelty    *)
(* oracle answer nondeterministically (what they compute is the subject of *)
(* other modules), notes are kept by kind instead of as text, in order     *)
(* only where the order carries meaning (the chats).                       *)
(***************************************************************************)
EXTENDS BudgetLedger, Sequences, FiniteSets

CONSTANTS
  Candidates,     \* patterns the candidate source can yield
  Specs,          \* target specs a redirect can carry
  MinBaseline,    \* min_baseline_attempts
  MaxPulls,       \* bound: candidates taken (the budget must stop the loop before it)
  MaxSent,        \* bound: interventions the human sends
  None            \* no redirect, no report

ASSUME RunnerAssumption ==
  /\ MinBaseline \in Nat
  /\ MaxPulls \in Nat
  /\ MaxSent \in Nat
  /\ None \notin Specs

Verdicts == {"PASS", "REJECT"}
Statuses == {"NOVEL", "KNOWN", "DERIVATIVE", "UNCERTAIN"}
Arms == {"iid", "scs"}

\* An intervention carries the position at which it was sent (a history tag).
Interventions ==
       [kind : {"chat"}, n : Nat]
  \cup [kind : {"redirect"}, payload : Specs, n : Nat]

VARIABLES
  pc,           \* where the runner is in run_campaign
  pulled,       \* candidates taken from the source so far
  cur,          \* the candidate in hand with its verdict and novelty status
  sent,         \* history: every intervention the human sent, in order
  queue,        \* InterventionQueue._items
  batch,        \* drain()'s copy of the queue
  redirect,     \* redirect_requested
  attempts,
  ledger,
  found,        \* discoveries
  rejected,     \* how many "rejected: ..." notes there are
  chats,        \* the "chat: ..." notes, in the order they were written
  marks,        \* the kinds of the other notes
  base,         \* the baseline results so far, by arm
  report        \* what run_campaign returned

runner == <<pc, pulled, cur, redirect, attempts, ledger, found, rejected,
            chats, marks, base, report>>
vars == <<runner, sent, queue, batch>>

NoCandidate == [cand |-> None, verdict |-> None, status |-> None]

Init ==
  /\ pc = "check"
  /\ pulled = 0
  /\ cur = NoCandidate
  /\ sent = << >>
  /\ queue = << >>
  /\ batch = << >>
  /\ redirect = None
  /\ attempts = 0
  /\ ledger = EmptyLedger
  /\ found = << >>
  /\ rejected = 0
  /\ chats = << >>
  /\ marks = {}
  /\ base = [a \in {} |-> 0]
  /\ report = None

---------------------------------------------------------------------------
(* The human side of the InterventionQueue.                                *)

Running == pc \notin {"done", "failed"}

Send(iv) ==
  /\ Running
  /\ Len(sent) < MaxSent
  /\ sent' = Append(sent, iv)
  /\ queue' = Append(queue, iv)
  /\ UNCHANGED <<runner, batch>>

Chat == Send([kind |-> "chat", n |-> Len(sent) + 1])

Redirect ==
  \E s \in Specs : Send([kind |-> "redirect", payload |-> s, n |-> Len(sent) + 1])

---------------------------------------------------------------------------
(* The runner.  Whether an engine is capable of the spec is not known to   *)
(* the model: both branches of the check are taken.                        *)

\* The capability map routes the spec to no engine: report that, and nothing else.
NoCapableEngine ==
  /\ pc = "check"
  /\ pc' = "done"
  /\ marks' = {"incapable"}
  /\ report' = [capable |-> FALSE, attempts |-> 0, discoveries |-> << >>,
                baselines |-> base, redirect |-> None]
  /\ UNCHANGED <<pulled, cur, sent, queue, batch, redirect, attempts, ledger,
                 found, rejected, chats, base>>

HasCapableEngine ==
  /\ pc = "check"
  /\ pc' = "pull"
  /\ UNCHANGED <<pulled, cur, sent, queue, batch, redirect, attempts, ledger,
                 found, rejected, chats, marks, base, report>>

\* The for loop takes the next candidate before it looks at the queue.
Pull ==
  /\ pc = "pull"
  /\ pulled < MaxPulls
  /\ \E c \in Candidates : cur' = [NoCandidate EXCEPT !.cand = c]
  /\ pulled' = pulled + 1
  /\ pc' = "copy"
  /\ UNCHANGED <<sent, queue, batch, redirect, attempts, ledger, found,
                 rejected, chats, marks, base, report>>

SourceEnds ==
  /\ pc = "pull"
  /\ pc' = "iid"
  /\ UNCHANGED <<pulled, cur, sent, queue, batch, redirect, attempts, ledger,
                 found, rejected, chats, marks, base, report>>

\* out = self._items[:]
DrainCopy ==
  /\ pc = "copy"
  /\ batch' = queue
  /\ pc' = "clear"
  /\ UNCHANGED <<pulled, cur, sent, queue, redirect, attempts, ledger, found,
                 rejected, chats, marks, base, report>>

\* Mutant of DrainClear: the copy is returned and the queue keeps its items.
DrainKeepsItems ==
  /\ pc = "clear"
  /\ pc' = "handle"
  /\ UNCHANGED <<pulled, cur, sent, queue, batch, redirect, attempts, ledger,
                 found, rejected, chats, marks, base, report>>

\* self._items.clear(): whatever is in the queue now, copied or not.
DrainClear ==
  /\ pc = "clear"
  /\ queue' = << >>
  /\ pc' = "handle"
  /\ UNCHANGED <<pulled, cur, sent, batch, redirect, attempts, ledger, found,
                 rejected, chats, marks, base, report>>

IsChat(iv) == iv.kind = "chat"

Target(iv) == iv.payload

\* for iv in drain(): the copied items are handled in the order they were sent.
NoteChat ==
  /\ pc = "handle"
  /\ batch # << >>
  /\ IsChat(Head(batch))
  /\ chats' = Append(chats, Head(batch))
  /\ batch' = Tail(batch)
  /\ UNCHANGED <<pc, pulled, cur, sent, queue, redirect, attempts, ledger, found,
                 rejected, marks, base, report>>

\* Each redirect overwrites the one before it, so the last one stands.
NoteRedirect ==
  /\ pc = "handle"
  /\ batch # << >>
  /\ ~IsChat(Head(batch))
  /\ redirect' = Target(Head(batch))
  /\ marks' = marks \cup {"redirect"}
  /\ batch' = Tail(batch)
  /\ UNCHANGED <<pc, pulled, cur, sent, queue, attempts, ledger, found, rejected,
                 chats, base, report>>

\* Mutant of GoOn: the redirect is noted but the loop is not left.
GoOnAnyway ==
  /\ pc = "handle"
  /\ batch = << >>
  /\ pc' = "verify"
  /\ UNCHANGED <<pulled, cur, sent, queue, batch, redirect, attempts, ledger,
                 found, rejected, chats, marks, base, report>>

GoOn ==
  /\ pc = "handle"
  /\ batch = << >>
  /\ redirect = None
  /\ pc' = "verify"
  /\ UNCHANGED <<pulled, cur, sent, queue, batch, redirect, attempts, ledger,
                 found, rejected, chats, marks, base, report>>

\* if redirect_requested is not None: break; the candidate in hand is dropped.
BreakOff ==
  /\ pc = "handle"
  /\ batch = << >>
  /\ redirect # None
  /\ cur' = NoCandidate
  /\ pc' = "iid"
  /\ UNCHANGED <<pulled, sent, queue, batch, redirect, attempts, ledger, found,
                 rejected, chats, marks, base, report>>

Verify ==
  /\ pc = "verify"
  /\ attempts' = attempts + 1
  /\ \E v \in Verdicts : cur' = [cur EXCEPT !.verdict = v]
  /\ pc' = "novelty"
  /\ UNCHANGED <<pulled, sent, queue, batch, redirect, ledger, found, rejected,
                 chats, marks, base, report>>

Novelty ==
  /\ pc = "novelty"
  /\ \E s \in Statuses : cur' = [cur EXCEPT !.status = s]
  /\ pc' = "gate"
  /\ UNCHANGED <<pulled, sent, queue, batch, redirect, attempts, ledger, found,
                 rejected, chats, marks, base, report>>

\* Mutant of Accepts: only a known pattern is refused.
AcceptsUnlessKnown(verdict, status) == verdict = "PASS" /\ status # "KNOWN"

\* verify/gate.py: accept.
Accepts(verdict, status) == verdict = "PASS" /\ status = "NOVEL"

\* Mutant of AcceptedDiscovery: the recipe pins a fresh ledger.
DiscoveryWithFreshLedger(c) ==
  [cand |-> c.cand, verdict |-> c.verdict, status |-> c.status,
   attempt |-> attempts, budget |-> EmptyLedger]

\* The recipe's budget is the ledger as it stands, this attempt not yet charged.
AcceptedDiscovery(c) ==
  [cand |-> c.cand, verdict |-> c.verdict, status |-> c.status,
   attempt |-> attempts, budget |-> ledger]

GateAccept ==
  /\ pc = "gate"
  /\ Accepts(cur.verdict, cur.status)
  /\ found' = Append(found, AcceptedDiscovery(cur))
  /\ pc' = "charge"
  /\ UNCHANGED <<pulled, cur, sent, queue, batch, redirect, attempts, ledger,
                 rejected, chats, marks, base, report>>

\* Mutant of GateReject: a "continue" that skips the charge.
RejectAndContinue ==
  /\ pc = "gate"
  /\ ~Accepts(cur.verdict, cur.status)
  /\ rejected' = rejected + 1
  /\ cur' = NoCandidate
  /\ pc' = "pull"
  /\ UNCHANGED <<pulled, sent, queue, batch, redirect, attempts, ledger,
                 found, chats, marks, base, report>>

GateReject ==
  /\ pc = "gate"
  /\ ~Accepts(cur.verdict, cur.status)
  /\ rejected' = rejected + 1
  /\ pc' = "charge"
  /\ UNCHANGED <<pulled, cur, sent, queue, batch, redirect, attempts, ledger,
                 found, chats, marks, base, report>>

\* Mutant of Charge: the limit is compared before the spend is recorded.
CheckThenCharge ==
  /\ pc = "charge"
  /\ ledger' = ChargeEngineCpu(ledger, 1)
  /\ cur' = NoCandidate
  /\ pc' = IF CpuExceeded(ledger) THEN "iid" ELSE "pull"
  /\ UNCHANGED <<pulled, sent, queue, batch, redirect, attempts, found, rejected,
                 chats, marks, base, report>>

Charge ==
  /\ pc = "charge"
  /\ ledger' = ChargeEngineCpu(ledger, 1)
  /\ cur' = NoCandidate
  /\ \/ /\ CpuExceeded(ledger')
        /\ marks' = marks \cup {"budget"}
        /\ pc' = "iid"
     \/ /\ ~CpuExceeded(ledger')
        /\ pc' = "pull"
        /\ UNCHANGED marks
  /\ UNCHANGED <<pulled, sent, queue, batch, redirect, attempts, found, rejected,
                 chats, base, report>>

\* novelty_fn raises (no snapshot file), or load_snapshot raises while the
\* recipe is made: the exception leaves run_campaign, and there is no report.
OracleRaises ==
  /\ \/ pc \in {"novelty", "iid", "scs"}
     \/ pc = "gate" /\ Accepts(cur.verdict, cur.status)
  /\ pc' = "failed"
  /\ UNCHANGED <<pulled, cur, sent, queue, batch, redirect, attempts, ledger,
                 found, rejected, chats, marks, base, report>>

BaselineAttempts == IF attempts > MinBaseline THEN attempts ELSE MinBaseline

\* campaign/baseline.py: run_baseline over an endless sampler, through the gate.
RunBaseline(arm, next) ==
  /\ pc = arm
  /\ \E k \in 0 .. BaselineAttempts :
       base' = [a \in DOMAIN base \cup {arm} |->
                  IF a = arm THEN [attempts |-> BaselineAttempts, discoveries |-> k]
                  ELSE base[a]]
  /\ pc' = next
  /\ UNCHANGED <<pulled, cur, sent, queue, batch, redirect, attempts, ledger,
                 found, rejected, chats, marks, report>>

Report ==
  /\ pc = "report"
  /\ marks' = IF found = << >> /\ rejected = 0 /\ chats = << >> /\ marks = {}
              THEN {"empty"} ELSE marks
  /\ report' = [capable |-> TRUE, attempts |-> attempts, discoveries |-> found,
                baselines |-> base, redirect |-> redirect]
  /\ pc' = "done"
  /\ UNCHANGED <<pulled, cur, sent, queue, batch, redirect, attempts, ledger,
                 found, rejected, chats, base>>

\* The steps of run_campaign, the end of the candidate source apart.
LoopStep ==
  \/ NoCapableEngine
  \/ HasCapableEngine
  \/ Pull
  \/ DrainCopy
  \/ DrainClear
  \/ NoteChat
  \/ NoteRedirect
  \/ GoOn
  \/ BreakOff
  \/ Verify
  \/ Novelty
  \/ GateAccept
  \/ GateReject
  \/ Charge
  \/ OracleRaises
  \/ RunBaseline("iid", "scs")
  \/ RunBaseline("scs", "report")
  \/ Report

RunnerStep == LoopStep \/ SourceEnds

Next == Chat \/ Redirect \/ RunnerStep

Spec == Init /\ [][Next]_vars

\* run_campaign is one synchronous call: while it can step, it does.  The source
\* (an engine that streams) may go on for ever: its end is owed no fairness.
FairSpec == Spec /\ WF_vars(LoopStep)

---------------------------------------------------------------------------
(* Properties.                                                             *)

PCs == {"check", "pull", "copy", "clear", "handle", "verify", "novelty", "gate",
        "charge", "iid", "scs", "report", "done", "failed"}

InHand ==
  [cand : Candidates \cup {None}, verdict : Verdicts \cup {None},
   status : Statuses \cup {None}]

Discoveries ==
  [cand : Candidates \cup {None}, verdict : Verdicts \cup {None},
   status : Statuses \cup {None}, attempt : Nat, budget : Ledgers]

BaselinesOK(b) ==
  \E A \in SUBSET Arms : b \in [A -> [attempts : Nat, discoveries : Nat]]

ReportOK(r) ==
  /\ DOMAIN r = {"capable", "attempts", "discoveries", "baselines", "redirect"}
  /\ r.capable \in BOOLEAN
  /\ r.attempts \in Nat
  /\ r.discoveries \in Seq(Discoveries)
  /\ BaselinesOK(r.baselines)
  /\ r.redirect \in Specs \cup {None}

\* Every variable holds a value of its type (run_campaign's locals and the queue).
TypeOK ==
  /\ pc \in PCs
  /\ pulled \in Nat
  /\ cur \in InHand
  /\ sent \in Seq(Interventions)
  /\ queue \in Seq(Interventions)
  /\ batch \in Seq(Interventions)
  /\ redirect \in Specs \cup {None}
  /\ attempts \in Nat
  /\ ledger \in Ledgers
  /\ found \in Seq(Discoveries)
  /\ rejected \in Nat
  /\ chats \in Seq(Interventions)
  /\ marks \subseteq {"incapable", "redirect", "budget", "empty"}
  /\ BaselinesOK(base)
  /\ report # None => ReportOK(report)

\* Attempts whose decision the gate has not made yet.
Undecided == IF pc \in {"novelty", "gate"} THEN 1 ELSE 0

\* Attempts that are not charged to the ledger yet.
Uncharged == IF pc \in {"novelty", "gate", "charge"} THEN 1 ELSE 0

\* Unless an oracle raised, every attempt is accounted for exactly once: it is a
\* discovery or a "rejected" note (or is being judged), and it is charged once.
Accounting ==
  pc # "failed" =>
    /\ Len(found) + rejected + Undecided = attempts
    /\ ledger.cpu + Uncharged = attempts

\* The hard stop: the ledger never goes more than one charge past its limit, and
\* once it is past it no candidate is pulled, verified or judged any more.
HardStop ==
  /\ ledger.cpu <= MaxCpu + 1
  /\ CpuExceeded(ledger) => pc \in {"iid", "scs", "report", "done", "failed"}

\* Nothing is published that the gate's two verdicts do not both support: an
\* UNCERTAIN, KNOWN or DERIVATIVE pattern never becomes a discovery.
OnlyVerifiedNovel ==
  \A i \in DOMAIN found : found[i].verdict = "PASS" /\ found[i].status = "NOVEL"

\* A redirect takes precedence over the next step: once the runner has taken one,
\* the candidate in hand is dropped and none is verified afterwards.
RedirectPreempts ==
  redirect # None =>
    \/ pc = "handle"
    \/ pc \in {"iid", "scs", "report", "done", "failed"} /\ cur = NoCandidate

\* The chats in the report are in the order they were sent, none of them twice,
\* although the queue is copied and cleared in two steps.
ChatsInOrder ==
  \A i, j \in DOMAIN chats : i < j => chats[i].n < chats[j].n

\* A recipe pins the spend at its own attempt, so the recipes of one campaign
\* are told apart by their budgets, in the order of discovery.
RecipesPinTheirAttempt ==
  /\ \A i \in DOMAIN found : found[i].budget.cpu = found[i].attempt - 1
  /\ \A i, j \in DOMAIN found : i < j => found[i].attempt < found[j].attempt

\* A report on a searchable spec carries both control arms, each run for at
\* least as many attempts as the campaign and never fewer than the minimum.
BaselinesCover ==
  (report # None /\ report.capable) =>
    /\ DOMAIN report.baselines = Arms
    /\ \A a \in Arms :
         /\ report.baselines[a].attempts >= report.attempts
         /\ report.baselines[a].attempts >= MinBaseline

\* run_campaign ends even when the candidate source does not: the budget stops it.
Termination == <>(pc \in {"done", "failed"})

\* Places of the loop that are still ahead before the next attempt is charged, and after
\* the loop: a step that charges nothing and handles no intervention has fewer ahead.
Ahead ==
  CASE pc = "check" -> 12
    [] pc = "pull" -> 11
    [] pc = "copy" -> 10
    [] pc = "clear" -> 9
    [] pc = "handle" -> 8
    [] pc = "verify" -> 7
    [] pc = "novelty" -> 6
    [] pc = "gate" -> 5
    [] pc = "charge" -> 4
    [] pc = "iid" -> 3
    [] pc = "scs" -> 2
    [] pc = "report" -> 1
    [] OTHER -> 0

\* What Termination rests on, besides fairness and HardStop: each step of the runner
\* charges an attempt, or else gets on within it, or works off one intervention it has
\* drained; and a human who goes on sending neither sets it back nor adds to its batch.
LoopAdvances ==
  [][/\ RunnerStep =>
          \/ ledger'.cpu > ledger.cpu
          \/ ledger' = ledger /\ Ahead' < Ahead
          \/ ledger' = ledger /\ Ahead' = Ahead /\ Len(batch') < Len(batch)
     /\ (Chat \/ Redirect) => UNCHANGED <<pc, ledger, batch>>]_vars

Contract == INSTANCE SearchContract WITH
  Candidates <- Candidates,
  SpendLimit <- MaxCpu,
  phase <- CASE pc = "done" -> "published"
             [] pc \in {"iid", "scs", "report", "failed"} -> "closed"
             [] OTHER -> "open",
  judged <- Len(found) + rejected,
  accepted <- [i \in DOMAIN found |->
                 [cand |-> found[i].cand, verdict |-> found[i].verdict, status |-> found[i].status]]

\* The loop, the ledger and the interventions together implement the contract.
ImplementsContract == Contract!Spec

---------------------------------------------------------------------------
(* What the documentation says of the loop, and the code does not do.      *)

\* "chat - a logged note, recorded in the campaign report": in the report of a
\* campaign that tried at least one candidate, every chat sent meanwhile is noted.
ChatsReported ==
  (pc = "done" /\ report.attempts > 0) =>
    \A i \in DOMAIN sent :
      IsChat(sent[i]) => \E j \in DOMAIN chats : chats[j] = sent[i]

\* "mandatory IID/SCS baselines at EQUAL budget".
EqualBudget ==
  (report # None /\ report.capable) =>
    \A a \in Arms : report.baselines[a].attempts = report.attempts

\* "the overspend that tripped the hard stop ... is what gets written into
\* provenance": the recipe of a discovery whose charge tripped it shows it.
OverspendInProvenance ==
  report # None /\ "budget" \in marks =>
    \A i \in DOMAIN found :
      found[i].attempt = attempts => found[i].budget.cpu > MaxCpu
=============================================================================
