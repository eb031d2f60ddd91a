--------------------------- MODULE SearchContract ---------------------------
(***************************************************************************)
(* What a campaign promises, whatever its loop looks like: candidates are  *)
(* judged one at a time while the campaign is open; each judgement costs   *)
(* one unit; a candidate enters the discoveries only on an independent     *)
(* PASS together with a NOVEL verdict; once the spend is past the limit,   *)
(* or a redirect was taken, nothing more is judged; the discoveries that   *)
(* are published are exactly those judged while the campaign was open.     *)
(***************************************************************************)
EXTENDS Naturals, Sequences

CONSTANTS Candidates, Verdicts, Statuses, SpendLimit

VARIABLES
  phase,      \* "open", "closed" or "published"
  judged,     \* how many candidates have been judged
  accepted    \* the discoveries with their two verdicts, in the order they were made

vars == <<phase, judged, accepted>>

Init ==
  /\ phase = "open"
  /\ judged = 0
  /\ accepted = << >>

Judge(c, v, s) ==
  /\ phase = "open"
  /\ judged <= SpendLimit
  /\ judged' = judged + 1
  /\ accepted' = IF v = "PASS" /\ s = "NOVEL"
                 THEN Append(accepted, [cand |-> c, verdict |-> v, status |-> s])
                 ELSE accepted
  /\ UNCHANGED phase

\* The stream ended, the budget ran out, a redirect came, or an oracle raised.
Close ==
  /\ phase = "open"
  /\ phase' = "closed"
  /\ UNCHANGED <<judged, accepted>>

\* A campaign that no engine can serve publishes at once, with nothing judged.
Publish ==
  /\ phase = "closed" \/ (phase = "open" /\ judged = 0)
  /\ phase' = "published"
  /\ UNCHANGED <<judged, accepted>>

Next ==
  \/ \E c \in Candidates, v \in Verdicts, s \in Statuses : Judge(c, v, s)
  \/ Close
  \/ Publish

Spec == Init /\ [][Next]_vars
=============================================================================
