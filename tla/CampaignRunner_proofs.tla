----------------------- MODULE CampaignRunner_proofs -----------------------
(***************************************************************************)
(* Theorems about CampaignRunner, for every set of candidates and specs,   *)
(* every budget and every number of interventions.                         *)
(***************************************************************************)
EXTENDS CampaignRunner, TLAPS

\* One more arm keeps the baseline results well formed.
LEMMA BaselineAdded ==
  ASSUME NEW b, BaselinesOK(b), NEW arm \in Arms,
         NEW r \in [attempts : Nat, discoveries : Nat]
  PROVE  BaselinesOK([a \in DOMAIN b \cup {arm} |-> IF a = arm THEN r ELSE b[a]])
<1>1. PICK A \in SUBSET Arms : b \in [A -> [attempts : Nat, discoveries : Nat]]
  BY DEF BaselinesOK
<1>2. A \cup {arm} \in SUBSET Arms
  OBVIOUS
<1>3. [a \in DOMAIN b \cup {arm} |-> IF a = arm THEN r ELSE b[a]]
        \in [A \cup {arm} -> [attempts : Nat, discoveries : Nat]]
  BY <1>1
<1>4. QED  BY <1>2, <1>3 DEF BaselinesOK

\* A charge turns totals into totals, and adds exactly itself to the CPU total.
LEMMA ChargeType ==
  ASSUME NEW l \in Ledgers, NEW n \in Nat
  PROVE  /\ ChargeEngineCpu(l, n) \in Ledgers
         /\ ChargeEngineCpu(l, n).cpu = l.cpu + n
  BY DEF ChargeEngineCpu, Ledgers

\* Every variable keeps its type in every reachable state.
THEOREM Typing == Spec => []TypeOK
<1> USE LimitsAssumption, RunnerAssumption
<1>1. Init => TypeOK
  <2> SUFFICES ASSUME Init PROVE TypeOK
    OBVIOUS
  <2>1. BaselinesOK(base)
    <3>1. base \in [{} -> [attempts : Nat, discoveries : Nat]]
      BY DEF Init
    <3>2. QED  BY <3>1 DEF BaselinesOK
  <2>2. QED
    BY <2>1 DEF Init, TypeOK, PCs, InHand, NoCandidate, EmptyLedger, Ledgers
<1>2. TypeOK /\ [Next]_vars => TypeOK'
  <2> SUFFICES ASSUME TypeOK, [Next]_vars PROVE TypeOK'
    OBVIOUS
  <2> USE DEF TypeOK
  <2>1. CASE Chat
    BY <2>1 DEF Chat, Send, runner, Interventions
  <2>2. CASE Redirect
    BY <2>2 DEF Redirect, Send, runner, Interventions
  <2>3. CASE NoCapableEngine
    <3>1. ReportOK(report')
      BY <2>3 DEF NoCapableEngine, ReportOK
    <3>2. QED  BY <2>3, <3>1 DEF NoCapableEngine, PCs
  <2>4. CASE HasCapableEngine
    BY <2>4 DEF HasCapableEngine, PCs
  <2>5. CASE Pull
    BY <2>5 DEF Pull, PCs, NoCandidate, InHand
  <2>6. CASE SourceEnds
    BY <2>6 DEF SourceEnds, PCs
  <2>7. CASE DrainCopy
    BY <2>7 DEF DrainCopy, PCs
  <2>8. CASE DrainClear
    BY <2>8 DEF DrainClear, PCs
  <2>9. CASE NoteChat
    BY <2>9 DEF NoteChat
  <2>10. CASE NoteRedirect
    BY <2>10 DEF NoteRedirect, IsChat, Target, Interventions
  <2>11. CASE GoOn
    BY <2>11 DEF GoOn, PCs
  <2>12. CASE BreakOff
    BY <2>12 DEF BreakOff, PCs, NoCandidate, InHand
  <2>13. CASE Verify
    <3>1. PICK v \in Verdicts : cur' = [cur EXCEPT !.verdict = v]
      BY <2>13 DEF Verify
    <3>2. cur' \in InHand
      BY <3>1 DEF InHand
    <3>3. QED  BY <2>13, <3>2 DEF Verify, PCs
  <2>14. CASE Novelty
    <3>1. PICK s \in Statuses : cur' = [cur EXCEPT !.status = s]
      BY <2>14 DEF Novelty
    <3>2. cur' \in InHand
      BY <3>1 DEF InHand
    <3>3. QED  BY <2>14, <3>2 DEF Novelty, PCs
  <2>15. CASE GateAccept
    <3>1. AcceptedDiscovery(cur) \in Discoveries
      BY DEF AcceptedDiscovery, Discoveries, InHand
    <3>2. QED  BY <2>15, <3>1 DEF GateAccept, PCs
  <2>16. CASE GateReject
    BY <2>16 DEF GateReject, PCs
  <2>17. CASE Charge
    <3>1. ledger' \in Ledgers
      BY <2>17, ChargeType DEF Charge
    <3>2. cur' \in InHand
      BY <2>17 DEF Charge, NoCandidate, InHand
    <3>3. QED  BY <2>17, <3>1, <3>2 DEF Charge, PCs
  <2>18. CASE OracleRaises
    BY <2>18 DEF OracleRaises, PCs
  <2>19. ASSUME NEW arm \in Arms, NEW next \in PCs, RunBaseline(arm, next)
         PROVE  TypeOK'
    <3>1. BaselineAttempts \in Nat
      BY DEF BaselineAttempts
    <3>2. PICK k \in 0 .. BaselineAttempts :
            base' = [a \in DOMAIN base \cup {arm} |->
                       IF a = arm
                       THEN [attempts |-> BaselineAttempts, discoveries |-> k]
                       ELSE base[a]]
      BY <2>19 DEF RunBaseline
    <3>3. [attempts |-> BaselineAttempts, discoveries |-> k]
            \in [attempts : Nat, discoveries : Nat]
      BY <3>1
    <3>4. BaselinesOK(base')
      <4> HIDE DEF TypeOK
      <4>1. BaselinesOK(base)
        BY DEF TypeOK
      <4> DEFINE r == [attempts |-> BaselineAttempts, discoveries |-> k]
      <4>2. BaselinesOK([a \in DOMAIN base \cup {arm} |-> IF a = arm THEN r ELSE base[a]])
        <5>1. r \in [attempts : Nat, discoveries : Nat]
          BY <3>3
        <5> HIDE DEF r
        <5>2. QED  BY <4>1, <5>1, BaselineAdded
      <4>3. QED  BY <3>2, <4>2
    <3>5. QED  BY <2>19, <3>4 DEF RunBaseline
  <2>20. CASE Report
    <3>1. ReportOK(report')
      BY <2>20 DEF Report, ReportOK
    <3>2. QED  BY <2>20, <3>1 DEF Report, PCs
  <2>21. CASE UNCHANGED vars
    BY <2>21 DEF vars, runner
  <2>22. QED
    BY <2>1, <2>2, <2>3, <2>4, <2>5, <2>6, <2>7, <2>8, <2>9, <2>10, <2>11, <2>12,
       <2>13, <2>14, <2>15, <2>16, <2>17, <2>18, <2>19, <2>20, <2>21
       DEF Next, RunnerStep, LoopStep, Arms, PCs
<1>3. QED  BY <1>1, <1>2, PTL DEF Spec

(***************************************************************************)
(* Accounting is inductive relative to the types: only the verifier, the   *)
(* gate and the charge touch what it relates, and each keeps the balance.  *)
(***************************************************************************)

\* Every attempt is a discovery or a rejection, and is charged exactly once.
THEOREM AttemptsAccounted == Spec => []Accounting
<1>1. Init => Accounting
  BY DEF Init, Accounting, Undecided, Uncharged, EmptyLedger
<1>2. TypeOK /\ Accounting /\ [Next]_vars => Accounting'
  <2> SUFFICES ASSUME TypeOK, Accounting, [Next]_vars PROVE Accounting'
    OBVIOUS
  <2> USE DEF Accounting, Undecided, Uncharged
  <2>0. /\ attempts \in Nat /\ rejected \in Nat
        /\ ledger \in Ledgers /\ ledger.cpu \in Nat
        /\ found \in Seq(Discoveries)
    BY DEF TypeOK, Ledgers
  <2>1. CASE Chat \/ Redirect
    BY <2>1 DEF Chat, Redirect, Send, runner
  <2>2. CASE NoCapableEngine \/ HasCapableEngine \/ Pull \/ SourceEnds
    BY <2>2 DEF NoCapableEngine, HasCapableEngine, Pull, SourceEnds
  <2>3. CASE DrainCopy \/ DrainClear \/ NoteChat \/ NoteRedirect \/ GoOn \/ BreakOff
    BY <2>3 DEF DrainCopy, DrainClear, NoteChat, NoteRedirect, GoOn, BreakOff
  <2>4. CASE Verify
    BY <2>0, <2>4 DEF Verify
  <2>5. CASE Novelty
    BY <2>5 DEF Novelty
  <2>6. CASE GateAccept
    <3>1. Len(found') = Len(found) + 1
      BY <2>0, <2>6 DEF GateAccept
    <3>2. QED  BY <2>0, <2>6, <3>1 DEF GateAccept
  <2>7. CASE GateReject
    BY <2>0, <2>7 DEF GateReject
  <2>8. CASE Charge
    <3>1. ledger'.cpu = ledger.cpu + 1
      BY <2>0, <2>8, ChargeType DEF Charge
    <3>2. QED  BY <2>0, <2>8, <3>1 DEF Charge
  <2>9. CASE OracleRaises
    BY <2>9 DEF OracleRaises
  <2>10. CASE RunBaseline("iid", "scs") \/ RunBaseline("scs", "report")
    BY <2>10 DEF RunBaseline
  <2>11. CASE Report
    BY <2>11 DEF Report
  <2>12. CASE UNCHANGED vars
    BY <2>12 DEF vars, runner
  <2>13. QED
    BY <2>1, <2>2, <2>3, <2>4, <2>5, <2>6, <2>7, <2>8, <2>9, <2>10, <2>11, <2>12
       DEF Next, RunnerStep, LoopStep
<1>3. QED  BY Typing, <1>1, <1>2, PTL DEF Spec

\* The spend never passes the limit by more than the charge that tripped it, and
\* nothing is pulled, verified or judged after that charge.
THEOREM BudgetStops == Spec => []HardStop
<1> USE LimitsAssumption
<1>1. Init => HardStop
  BY DEF Init, HardStop, CpuExceeded, EmptyLedger
<1>2. TypeOK /\ HardStop /\ [Next]_vars => HardStop'
  <2> SUFFICES ASSUME TypeOK, HardStop, [Next]_vars PROVE HardStop'
    OBVIOUS
  <2> USE DEF HardStop, CpuExceeded
  <2>0. ledger \in Ledgers /\ ledger.cpu \in Nat
    BY DEF TypeOK, Ledgers
  <2>1. CASE Chat \/ Redirect
    BY <2>1 DEF Chat, Redirect, Send, runner
  <2>2. CASE NoCapableEngine \/ HasCapableEngine \/ Pull \/ SourceEnds
    BY <2>2 DEF NoCapableEngine, HasCapableEngine, Pull, SourceEnds
  <2>3. CASE DrainCopy \/ DrainClear \/ NoteChat \/ NoteRedirect \/ GoOn \/ BreakOff
    BY <2>3 DEF DrainCopy, DrainClear, NoteChat, NoteRedirect, GoOn, BreakOff
  <2>4. CASE Verify \/ Novelty \/ GateAccept \/ GateReject
    BY <2>4 DEF Verify, Novelty, GateAccept, GateReject
  <2>5. CASE Charge
    <3>1. ledger'.cpu = ledger.cpu + 1
      BY <2>0, <2>5, ChargeType DEF Charge
    <3>2. ledger.cpu <= MaxCpu
      BY <2>0, <2>5 DEF Charge
    <3>3. QED  BY <2>0, <2>5, <3>1, <3>2 DEF Charge
  <2>6. CASE OracleRaises
    BY <2>6 DEF OracleRaises
  <2>7. CASE RunBaseline("iid", "scs") \/ RunBaseline("scs", "report")
    BY <2>7 DEF RunBaseline
  <2>8. CASE Report
    BY <2>8 DEF Report
  <2>9. CASE UNCHANGED vars
    BY <2>9 DEF vars, runner
  <2>10. QED
    BY <2>1, <2>2, <2>3, <2>4, <2>5, <2>6, <2>7, <2>8, <2>9 DEF Next, RunnerStep, LoopStep
<1>3. QED  BY Typing, <1>1, <1>2, PTL DEF Spec

\* Only candidates that passed the verifier and are NOVEL become discoveries.
THEOREM GateHolds == Spec => []OnlyVerifiedNovel
<1>1. Init => OnlyVerifiedNovel
  BY DEF Init, OnlyVerifiedNovel
<1>2. TypeOK /\ OnlyVerifiedNovel /\ [Next]_vars => OnlyVerifiedNovel'
  <2> SUFFICES ASSUME TypeOK, OnlyVerifiedNovel, [Next]_vars
               PROVE  OnlyVerifiedNovel'
    OBVIOUS
  <2>1. CASE GateAccept
    <3> DEFINE d == AcceptedDiscovery(cur)
    <3>1. d.verdict = "PASS" /\ d.status = "NOVEL"
      BY <2>1 DEF GateAccept, Accepts, AcceptedDiscovery
    <3>2. found \in Seq(Discoveries) /\ found' = Append(found, d)
      BY <2>1 DEF GateAccept, TypeOK
    <3> HIDE DEF d
    <3>3. QED  BY <3>1, <3>2 DEF OnlyVerifiedNovel
  <2>2. ASSUME found' = found PROVE OnlyVerifiedNovel'
    BY <2>2 DEF OnlyVerifiedNovel
  <2>3. CASE Chat \/ Redirect \/ UNCHANGED vars
    BY <2>2, <2>3 DEF Chat, Redirect, Send, runner, vars
  <2>4. CASE RunnerStep /\ ~GateAccept
    BY <2>2, <2>4 DEF RunnerStep, LoopStep, NoCapableEngine, HasCapableEngine, Pull, SourceEnds,
       DrainCopy, DrainClear, NoteChat, NoteRedirect, GoOn, BreakOff, Verify, Novelty,
       GateReject, Charge, OracleRaises, RunBaseline, Report
  <2>5. QED  BY <2>1, <2>3, <2>4 DEF Next
<1>3. QED  BY Typing, <1>1, <1>2, PTL DEF Spec

\* A redirect that was taken stops the search: no candidate is verified after it.
THEOREM RedirectStops == Spec => []RedirectPreempts
<1>1. Init => RedirectPreempts
  BY DEF Init, RedirectPreempts
<1>2. RedirectPreempts /\ [Next]_vars => RedirectPreempts'
  <2> SUFFICES ASSUME RedirectPreempts, [Next]_vars PROVE RedirectPreempts'
    OBVIOUS
  <2> USE DEF RedirectPreempts
  <2>1. CASE Chat \/ Redirect \/ UNCHANGED vars
    BY <2>1 DEF Chat, Redirect, Send, runner, vars
  <2>2. CASE NoCapableEngine \/ HasCapableEngine \/ Pull \/ SourceEnds
    BY <2>2 DEF NoCapableEngine, HasCapableEngine, Pull, SourceEnds
  <2>3. CASE DrainCopy \/ DrainClear \/ NoteChat \/ NoteRedirect \/ GoOn \/ BreakOff
    BY <2>3 DEF DrainCopy, DrainClear, NoteChat, NoteRedirect, GoOn, BreakOff
  <2>4. CASE Verify \/ Novelty \/ GateAccept \/ GateReject \/ Charge
    BY <2>4 DEF Verify, Novelty, GateAccept, GateReject, Charge
  <2>5. CASE OracleRaises
    BY <2>5 DEF OracleRaises
  <2>6. CASE RunBaseline("iid", "scs") \/ RunBaseline("scs", "report") \/ Report
    BY <2>6 DEF RunBaseline, Report
  <2>7. QED  BY <2>1, <2>2, <2>3, <2>4, <2>5, <2>6 DEF Next, RunnerStep, LoopStep
<1>3. QED  BY <1>1, <1>2, PTL DEF Spec

\* The arm has run, and for enough attempts.
Ran(arm) ==
  /\ arm \in DOMAIN base
  /\ base[arm].attempts >= attempts
  /\ base[arm].attempts >= MinBaseline

ArmsInv ==
  /\ pc \in {"scs", "report"} => Ran("iid")
  /\ pc = "report" => Ran("scs")

\* Both control arms are reported, and with at least as many attempts as the campaign.
THEOREM ArmsCovered == Spec => []BaselinesCover
<1> USE RunnerAssumption
<1> DEFINE Inv == ArmsInv /\ BaselinesCover
<1>1. Init => Inv
  BY DEF Init, ArmsInv, BaselinesCover
<1>2. TypeOK /\ Inv /\ [Next]_vars => Inv'
  <2> SUFFICES ASSUME TypeOK, ArmsInv, BaselinesCover, [Next]_vars
               PROVE  ArmsInv' /\ BaselinesCover'
    OBVIOUS
  <2>1. attempts \in Nat /\ BaselineAttempts \in Nat
        /\ BaselineAttempts >= attempts /\ BaselineAttempts >= MinBaseline
    BY DEF TypeOK, BaselineAttempts
  <2>2. CASE RunBaseline("iid", "scs")
    <3>1. base' = [a \in DOMAIN base \cup {"iid"} |->
                     IF a = "iid" THEN base'["iid"] ELSE base[a]]
          /\ base'["iid"].attempts = BaselineAttempts
      BY <2>2 DEF RunBaseline
    <3>2. QED  BY <2>1, <2>2, <3>1 DEF RunBaseline, ArmsInv, Ran, BaselinesCover
  <2>3. CASE RunBaseline("scs", "report")
    <3>1. base' = [a \in DOMAIN base \cup {"scs"} |->
                     IF a = "scs" THEN base'["scs"] ELSE base[a]]
          /\ base'["scs"].attempts = BaselineAttempts
      BY <2>3 DEF RunBaseline
    <3>2. Ran("iid")
      BY <2>3 DEF RunBaseline, ArmsInv
    <3>3. QED  BY <2>1, <2>3, <3>1, <3>2 DEF RunBaseline, ArmsInv, Ran, BaselinesCover
  <2>4. CASE Report
    <3>1. DOMAIN base \subseteq Arms
      BY DEF TypeOK, BaselinesOK
    <3>2. Ran("iid") /\ Ran("scs")
      BY <2>4 DEF Report, ArmsInv
    <3>3. QED  BY <2>4, <3>1, <3>2 DEF Report, ArmsInv, Ran, BaselinesCover, Arms
  <2>5. CASE NoCapableEngine
    BY <2>5 DEF NoCapableEngine, ArmsInv, BaselinesCover
  <2>6. ASSUME UNCHANGED <<base, attempts, report>>, UNCHANGED pc \/ pc' \notin {"scs", "report"}
        PROVE  ArmsInv' /\ BaselinesCover'
    BY <2>6 DEF ArmsInv, Ran, BaselinesCover
  <2>7. ASSUME UNCHANGED report, pc' \notin {"scs", "report"} PROVE ArmsInv' /\ BaselinesCover'
    BY <2>7 DEF ArmsInv, BaselinesCover
  <2>8. CASE Chat \/ Redirect \/ UNCHANGED vars
    BY <2>6, <2>8 DEF Chat, Redirect, Send, runner, vars
  <2>9. CASE HasCapableEngine \/ Pull \/ SourceEnds \/ DrainCopy \/ DrainClear \/ NoteChat
             \/ NoteRedirect \/ GoOn \/ BreakOff
    BY <2>7, <2>9 DEF HasCapableEngine, Pull, SourceEnds, DrainCopy, DrainClear, NoteChat,
       NoteRedirect, GoOn, BreakOff
  <2>10. CASE Verify \/ Novelty \/ GateAccept \/ GateReject \/ Charge \/ OracleRaises
    BY <2>7, <2>10 DEF Verify, Novelty, GateAccept, GateReject, Charge, OracleRaises
  <2>11. QED  BY <2>2, <2>3, <2>4, <2>5, <2>8, <2>9, <2>10 DEF Next, RunnerStep, LoopStep
<1>3. QED  BY Typing, <1>1, <1>2, PTL DEF Spec

(***************************************************************************)
(* Recipes: what is found was judged at an attempt that is behind us, and  *)
(* at the gate the attempt in hand is the one the ledger is short of.      *)
(***************************************************************************)

FoundEarlier ==
  \A i \in DOMAIN found : found[i].attempt \in Nat /\ found[i].attempt + Undecided <= attempts

\* Each recipe holds the spend at its own attempt, and the attempts rise.
THEOREM RecipesPinned == Spec => []RecipesPinTheirAttempt
<1> DEFINE Inv == RecipesPinTheirAttempt /\ FoundEarlier
<1>1. Init => Inv
  BY DEF Init, RecipesPinTheirAttempt, FoundEarlier
<1>2. TypeOK /\ Accounting /\ Inv /\ [Next]_vars => Inv'
  <2> SUFFICES ASSUME TypeOK, Accounting, RecipesPinTheirAttempt, FoundEarlier, [Next]_vars
               PROVE  RecipesPinTheirAttempt' /\ FoundEarlier'
    OBVIOUS
  <2>0. attempts \in Nat /\ ledger \in Ledgers /\ ledger.cpu \in Nat /\ found \in Seq(Discoveries)
    BY DEF TypeOK, Ledgers
  <2>1. CASE GateAccept
    <3> DEFINE d == AcceptedDiscovery(cur)
    <3>1. d.attempt = attempts /\ d.budget.cpu = attempts - 1 /\ d \in Discoveries
      <4>1. ledger.cpu + 1 = attempts
        BY <2>1 DEF GateAccept, Accounting, Uncharged
      <4>2. d.attempt = attempts /\ d.budget = ledger
        BY DEF AcceptedDiscovery
      <4>3. d \in Discoveries
        BY <2>0 DEF TypeOK, AcceptedDiscovery, Discoveries, InHand
      <4> HIDE DEF d
      <4>4. QED  BY <2>0, <4>1, <4>2, <4>3
    <3>2. found' = Append(found, d) /\ attempts' = attempts /\ Undecided = 1 /\ Undecided' = 0
      BY <2>1 DEF GateAccept, Undecided
    <3> HIDE DEF d
    <3>3. \A i \in DOMAIN found : found[i].attempt \in Nat /\ found[i].attempt < attempts
      BY <2>0, <3>2 DEF FoundEarlier
    <3>4. /\ DOMAIN found' = DOMAIN found \cup {Len(found) + 1}
          /\ \A i \in DOMAIN found : found'[i] = found[i] /\ i < Len(found) + 1
          /\ found'[Len(found) + 1] = d
      BY <2>0, <3>1, <3>2
    <3>5. FoundEarlier'
      BY <2>0, <3>1, <3>2, <3>3, <3>4 DEF FoundEarlier
    <3>6. \A i \in DOMAIN found' : found'[i].budget.cpu = found'[i].attempt - 1
      BY <3>1, <3>4 DEF RecipesPinTheirAttempt
    <3>7. \A i, j \in DOMAIN found' : i < j => found'[i].attempt < found'[j].attempt
      <4> TAKE i, j \in DOMAIN found'
      <4> HAVE i < j
      <4>1. i \in DOMAIN found
        BY <2>0, <3>4
      <4>2. CASE j \in DOMAIN found
        BY <3>4, <4>1, <4>2 DEF RecipesPinTheirAttempt
      <4>3. CASE j = Len(found) + 1
        BY <3>1, <3>3, <3>4, <4>1, <4>3
      <4>4. QED  BY <3>4, <4>2, <4>3
    <3>8. QED  BY <3>5, <3>6, <3>7 DEF RecipesPinTheirAttempt
  <2>2. CASE Verify
    <3>1. found' = found /\ attempts' = attempts + 1 /\ Undecided = 0 /\ Undecided' = 1
      BY <2>2 DEF Verify, Undecided
    <3>2. QED  BY <2>0, <3>1 DEF RecipesPinTheirAttempt, FoundEarlier
  <2>3. ASSUME found' = found, attempts' = attempts, Undecided' <= Undecided
        PROVE  RecipesPinTheirAttempt' /\ FoundEarlier'
    <3>1. Undecided \in Nat /\ Undecided' \in Nat
      BY DEF Undecided
    <3>2. QED  BY <2>0, <2>3, <3>1 DEF RecipesPinTheirAttempt, FoundEarlier
  <2>4. CASE Chat \/ Redirect \/ UNCHANGED vars
    <3>1. found' = found /\ attempts' = attempts /\ pc' = pc
      BY <2>4 DEF Chat, Redirect, Send, runner, vars
    <3>2. QED  BY <2>3, <3>1 DEF Undecided
  <2>5. CASE NoCapableEngine \/ HasCapableEngine \/ Pull \/ SourceEnds \/ DrainCopy \/ DrainClear
    BY <2>3, <2>5 DEF NoCapableEngine, HasCapableEngine, Pull, SourceEnds, DrainCopy, DrainClear,
       Undecided
  <2>6. CASE NoteChat \/ NoteRedirect \/ GoOn \/ BreakOff
    BY <2>3, <2>6 DEF NoteChat, NoteRedirect, GoOn, BreakOff, Undecided
  <2>7. CASE Novelty \/ GateReject \/ Charge \/ OracleRaises
    BY <2>3, <2>7 DEF Novelty, GateReject, Charge, OracleRaises, Undecided
  <2>8. CASE RunBaseline("iid", "scs") \/ RunBaseline("scs", "report") \/ Report
    BY <2>3, <2>8 DEF RunBaseline, Report, Undecided
  <2>9. QED
    BY <2>1, <2>2, <2>4, <2>5, <2>6, <2>7, <2>8 DEF Next, RunnerStep, LoopStep
<1>3. QED  BY Typing, AttemptsAccounted, <1>1, <1>2, PTL DEF Spec

(***************************************************************************)
(* Chats: what was noted was sent before what drain() has copied, and that *)
(* before what is in the queue, except while copies are still queued.      *)
(***************************************************************************)

Rising(s) == \A i, j \in DOMAIN s : i < j => s[i].n < s[j].n

AllBefore(s, t) == \A i \in DOMAIN s, j \in DOMAIN t : s[i].n < t[j].n

SentUpTo(s, m) == \A i \in DOMAIN s : s[i].n \in Nat /\ s[i].n <= m

LEMMA AppendedElements ==
  ASSUME NEW S, NEW s \in Seq(S), NEW e \in S
  PROVE  /\ DOMAIN Append(s, e) = DOMAIN s \cup {Len(s) + 1}
         /\ \A i \in DOMAIN s : Append(s, e)[i] = s[i] /\ i \in Nat /\ i < Len(s) + 1
         /\ Append(s, e)[Len(s) + 1] = e
  OBVIOUS

LEMMA AppendRising ==
  ASSUME NEW s \in Seq(Interventions), NEW e \in Interventions, Rising(s),
         \A i \in DOMAIN s : s[i].n < e.n
  PROVE  Rising(Append(s, e))
<1> SUFFICES ASSUME NEW i \in DOMAIN Append(s, e), NEW j \in DOMAIN Append(s, e), i < j
             PROVE  Append(s, e)[i].n < Append(s, e)[j].n
  BY DEF Rising
<1>1. i \in DOMAIN s
  BY AppendedElements
<1>2. QED  BY <1>1, AppendedElements DEF Rising

LEMMA AppendBefore ==
  ASSUME NEW s \in Seq(Interventions), NEW t \in Seq(Interventions), NEW e \in Interventions
  PROVE  /\ AllBefore(s, t) /\ (\A i \in DOMAIN s : s[i].n < e.n) => AllBefore(s, Append(t, e))
         /\ AllBefore(s, t) /\ (\A j \in DOMAIN t : e.n < t[j].n) => AllBefore(Append(s, e), t)
  BY AppendedElements DEF AllBefore

LEMMA TailElements ==
  ASSUME NEW S, NEW s \in Seq(S), s # << >>
  PROVE  /\ Tail(s) \in Seq(S) /\ Head(s) \in S /\ Head(s) = s[1] /\ 1 \in DOMAIN s
         /\ \A i \in DOMAIN Tail(s) : i + 1 \in DOMAIN s /\ Tail(s)[i] = s[i + 1] /\ i \in Nat /\ i >= 1
  OBVIOUS

ChatInv ==
  /\ Rising(chats) /\ Rising(batch) /\ Rising(queue)
  /\ AllBefore(chats, batch) /\ AllBefore(chats, queue)
  /\ pc # "clear" => AllBefore(batch, queue)
  /\ SentUpTo(chats, Len(sent)) /\ SentUpTo(batch, Len(sent)) /\ SentUpTo(queue, Len(sent))

\* The chats are noted in the order they were sent, and none of them twice.
THEOREM ChatsRise == Spec => []ChatsInOrder
<1>1. Init => ChatInv
  BY DEF Init, ChatInv, Rising, AllBefore, SentUpTo
<1>2. TypeOK /\ ChatInv /\ [Next]_vars => ChatInv'
  <2> SUFFICES ASSUME TypeOK, ChatInv, [Next]_vars PROVE ChatInv'
    OBVIOUS
  <2>0. /\ chats \in Seq(Interventions) /\ batch \in Seq(Interventions)
        /\ queue \in Seq(Interventions) /\ sent \in Seq(Interventions)
    BY DEF TypeOK
  <2>1. ASSUME NEW iv \in Interventions, iv.n = Len(sent) + 1, Send(iv)
        PROVE  ChatInv'
    <3>1. /\ sent' = Append(sent, iv) /\ queue' = Append(queue, iv)
          /\ chats' = chats /\ batch' = batch /\ pc' = pc
      BY <2>1 DEF Send, runner
    <3>2. Len(sent') = Len(sent) + 1 /\ Len(sent) \in Nat
      BY <2>0, <3>1
    <3>3. /\ \A i \in DOMAIN chats : chats[i].n < iv.n
          /\ \A i \in DOMAIN batch : batch[i].n < iv.n
          /\ \A i \in DOMAIN queue : queue[i].n < iv.n
      BY <2>1, <3>2 DEF ChatInv, SentUpTo
    <3>4. Rising(queue') /\ AllBefore(chats, queue') /\ (pc # "clear" => AllBefore(batch, queue'))
      BY <2>0, <3>1, <3>3, AppendRising, AppendBefore DEF ChatInv
    <3>5. SentUpTo(chats, Len(sent')) /\ SentUpTo(batch, Len(sent'))
      BY <3>2 DEF ChatInv, SentUpTo
    <3>6. SentUpTo(queue', Len(sent'))
      <4> SUFFICES ASSUME NEW i \in DOMAIN queue'
                   PROVE  queue'[i].n \in Nat /\ queue'[i].n <= Len(sent')
        BY DEF SentUpTo
      <4>1. CASE i \in DOMAIN queue
        BY <2>0, <2>1, <3>1, <3>2, <4>1, AppendedElements DEF ChatInv, SentUpTo
      <4>2. CASE i = Len(queue) + 1
        BY <2>0, <2>1, <3>1, <3>2, <4>2, AppendedElements
      <4>3. QED  BY <2>0, <3>1, <4>1, <4>2, AppendedElements
    <3>7. QED  BY <3>1, <3>4, <3>5, <3>6 DEF ChatInv
  <2>2. CASE Chat
    BY <2>0, <2>1, <2>2 DEF Chat, Interventions
  <2>3. CASE Redirect
    <3>1. PICK s \in Specs : Send([kind |-> "redirect", payload |-> s, n |-> Len(sent) + 1])
      BY <2>3 DEF Redirect
    <3>2. [kind |-> "redirect", payload |-> s, n |-> Len(sent) + 1] \in Interventions
      BY <2>0 DEF Interventions
    <3>3. QED  BY <2>1, <3>1, <3>2
  <2>4. CASE DrainCopy
    BY <2>4 DEF DrainCopy, ChatInv
  <2>5. CASE DrainClear
    <3>1. queue' = << >> /\ chats' = chats /\ batch' = batch /\ sent' = sent
      BY <2>5 DEF DrainClear
    <3>2. Rising(<< >>) /\ AllBefore(chats, << >>) /\ AllBefore(batch, << >>) /\ SentUpTo(<< >>, Len(sent))
      BY DEF Rising, AllBefore, SentUpTo
    <3>3. QED  BY <3>1, <3>2 DEF ChatInv
  <2>6. ASSUME batch # << >>, pc = "handle", pc' = pc, queue' = queue, sent' = sent,
               batch' = Tail(batch), chats' = chats
        PROVE  ChatInv'
    <3>1. Rising(Tail(batch)) /\ AllBefore(chats, Tail(batch)) /\ AllBefore(Tail(batch), queue)
          /\ SentUpTo(Tail(batch), Len(sent))
      BY <2>0, <2>6, TailElements DEF ChatInv, Rising, AllBefore, SentUpTo
    <3>2. QED  BY <2>6, <3>1 DEF ChatInv
  <2>7. CASE NoteRedirect
    BY <2>6, <2>7 DEF NoteRedirect
  <2>8. CASE NoteChat
    <3> DEFINE h == Head(batch)
    <3>1. /\ chats' = Append(chats, h) /\ batch' = Tail(batch) /\ queue' = queue /\ sent' = sent
          /\ pc = "handle" /\ pc' = pc /\ batch # << >>
      BY <2>8 DEF NoteChat
    <3>2. h \in Interventions /\ h = batch[1] /\ 1 \in DOMAIN batch
      BY <2>0, <3>1, TailElements
    <3>3. /\ \A i \in DOMAIN chats : chats[i].n < h.n
          /\ \A i \in DOMAIN queue : h.n < queue[i].n
          /\ h.n \in Nat /\ h.n <= Len(sent)
      BY <3>1, <3>2 DEF ChatInv, AllBefore, SentUpTo
    <3>4. /\ Rising(Tail(batch)) /\ AllBefore(chats, Tail(batch)) /\ AllBefore(Tail(batch), queue)
          /\ SentUpTo(Tail(batch), Len(sent))
      BY <2>0, <3>1, TailElements DEF ChatInv, Rising, AllBefore, SentUpTo
    <3>5. \A i \in DOMAIN Tail(batch) : h.n < Tail(batch)[i].n
      BY <2>0, <3>1, <3>2, TailElements DEF ChatInv, Rising
    <3> HIDE DEF h
    <3>6. Rising(chats') /\ AllBefore(chats', queue) /\ AllBefore(chats', Tail(batch))
      <4>1. Tail(batch) \in Seq(Interventions)
        BY <2>0, <3>1, TailElements
      <4>2. QED  BY <2>0, <3>1, <3>2, <3>3, <3>4, <3>5, <4>1, AppendRising, AppendBefore DEF ChatInv
    <3>7. SentUpTo(chats', Len(sent))
      <4> SUFFICES ASSUME NEW i \in DOMAIN chats'
                   PROVE  chats'[i].n \in Nat /\ chats'[i].n <= Len(sent)
        BY DEF SentUpTo
      <4>1. CASE i \in DOMAIN chats
        BY <2>0, <3>1, <3>2, <4>1, AppendedElements DEF ChatInv, SentUpTo
      <4>2. CASE i = Len(chats) + 1
        BY <2>0, <3>1, <3>2, <3>3, <4>2, AppendedElements
      <4>3. QED  BY <2>0, <3>1, <3>2, <4>1, <4>2, AppendedElements
    <3>8. QED  BY <3>1, <3>4, <3>6, <3>7 DEF ChatInv
  <2>9. ASSUME chats' = chats, batch' = batch, queue' = queue, sent' = sent,
               pc # "clear" \/ pc' = "clear"
        PROVE  ChatInv'
    BY <2>9 DEF ChatInv
  <2>10. CASE UNCHANGED vars
    BY <2>9, <2>10 DEF vars, runner
  <2>11. CASE NoCapableEngine \/ HasCapableEngine \/ Pull \/ SourceEnds \/ GoOn \/ BreakOff
    BY <2>9, <2>11 DEF NoCapableEngine, HasCapableEngine, Pull, SourceEnds, GoOn, BreakOff
  <2>12. CASE Verify \/ Novelty \/ GateAccept \/ GateReject \/ Charge \/ OracleRaises
    BY <2>9, <2>12 DEF Verify, Novelty, GateAccept, GateReject, Charge, OracleRaises
  <2>13. CASE RunBaseline("iid", "scs") \/ RunBaseline("scs", "report") \/ Report
    BY <2>9, <2>13 DEF RunBaseline, Report
  <2>14. QED
    BY <2>2, <2>3, <2>4, <2>5, <2>7, <2>8, <2>10, <2>11, <2>12, <2>13
       DEF Next, RunnerStep, LoopStep
<1>3. ChatInv => ChatsInOrder
  BY DEF ChatInv, Rising, ChatsInOrder
<1>4. QED  BY Typing, <1>1, <1>2, <1>3, PTL DEF Spec

(***************************************************************************)
(* The contract.  A decision of the gate is its Judge, whatever leaves the *)
(* loop its Close, what returns a report its Publish; all else stutters.   *)
(***************************************************************************)

InHandInv ==
  /\ pc = "check" => attempts = 0
  /\ pc \in {"copy", "clear", "handle", "verify", "novelty", "gate"} => cur.cand \in Candidates
  /\ pc \in {"novelty", "gate"} => cur.verdict \in Verdicts
  /\ pc = "gate" => cur.status \in Statuses

LEMMA InHandHolds == Spec => []InHandInv
<1>1. Init => InHandInv
  BY DEF Init, InHandInv
<1>2. TypeOK /\ InHandInv /\ [Next]_vars => InHandInv'
  <2> SUFFICES ASSUME TypeOK, InHandInv, [Next]_vars PROVE InHandInv'
    OBVIOUS
  <2> USE DEF InHandInv
  <2>0. cur \in InHand
    BY DEF TypeOK
  <2>1. CASE Chat \/ Redirect \/ UNCHANGED vars
    BY <2>1 DEF Chat, Redirect, Send, runner, vars
  <2>2. CASE NoCapableEngine \/ HasCapableEngine \/ SourceEnds
    BY <2>2 DEF NoCapableEngine, HasCapableEngine, SourceEnds
  <2>3. CASE Pull
    BY <2>3 DEF Pull, NoCandidate
  <2>4. CASE DrainCopy \/ DrainClear \/ NoteChat \/ NoteRedirect \/ GoOn \/ BreakOff
    BY <2>4 DEF DrainCopy, DrainClear, NoteChat, NoteRedirect, GoOn, BreakOff
  <2>5. CASE Verify
    BY <2>0, <2>5 DEF Verify, InHand
  <2>6. CASE Novelty
    BY <2>0, <2>6 DEF Novelty, InHand
  <2>7. CASE GateAccept \/ GateReject \/ Charge \/ OracleRaises
    BY <2>7 DEF GateAccept, GateReject, Charge, OracleRaises
  <2>8. CASE RunBaseline("iid", "scs") \/ RunBaseline("scs", "report") \/ Report
    BY <2>8 DEF RunBaseline, Report
  <2>9. QED
    BY <2>1, <2>2, <2>3, <2>4, <2>5, <2>6, <2>7, <2>8 DEF Next, RunnerStep, LoopStep
<1>3. QED  BY Typing, <1>1, <1>2, PTL DEF Spec

Phase ==
  CASE pc = "done" -> "published"
    [] pc \in {"iid", "scs", "report", "failed"} -> "closed"
    [] OTHER -> "open"

Judged == Len(found) + rejected

Entry(d) == [cand |-> d.cand, verdict |-> d.verdict, status |-> d.status]

Accepted == [i \in DOMAIN found |-> Entry(found[i])]

mapped == <<Phase, Judged, Accepted>>

\* The three variables of the contract, in terms of the runner's.
LEMMA MapNext ==
  /\ Contract!Init <=> (Phase = "open" /\ Judged = 0 /\ Accepted = << >>)
  /\ \A c, v, s : Contract!Judge(c, v, s) <=>
       /\ Phase = "open" /\ Judged <= MaxCpu
       /\ Judged' = Judged + 1
       /\ Accepted' = IF v = "PASS" /\ s = "NOVEL"
                      THEN Append(Accepted, [cand |-> c, verdict |-> v, status |-> s]) ELSE Accepted
       /\ Phase' = Phase
  /\ Contract!Close <=> (Phase = "open" /\ Phase' = "closed" /\ Judged' = Judged /\ Accepted' = Accepted)
  /\ Contract!Publish <=>
       /\ Phase = "closed" \/ (Phase = "open" /\ Judged = 0)
       /\ Phase' = "published" /\ Judged' = Judged /\ Accepted' = Accepted
  /\ (UNCHANGED Contract!vars) <=> (Phase' = Phase /\ Judged' = Judged /\ Accepted' = Accepted)
<1> USE DEF Phase, Judged, Accepted, Entry
<1>1. Contract!Init <=> (Phase = "open" /\ Judged = 0 /\ Accepted = << >>)
  BY DEF Contract!Init
<1>2. ASSUME NEW c, NEW v, NEW s
      PROVE  Contract!Judge(c, v, s) <=>
       /\ Phase = "open" /\ Judged <= MaxCpu
       /\ Judged' = Judged + 1
       /\ Accepted' = IF v = "PASS" /\ s = "NOVEL"
                      THEN Append(Accepted, [cand |-> c, verdict |-> v, status |-> s]) ELSE Accepted
       /\ Phase' = Phase
  BY DEF Contract!Judge
<1>3. Contract!Close <=> (Phase = "open" /\ Phase' = "closed" /\ Judged' = Judged /\ Accepted' = Accepted)
  BY DEF Contract!Close
<1>4. Contract!Publish <=>
       /\ Phase = "closed" \/ (Phase = "open" /\ Judged = 0)
       /\ Phase' = "published" /\ Judged' = Judged /\ Accepted' = Accepted
  BY DEF Contract!Publish
<1>5. (UNCHANGED Contract!vars) <=> (Phase' = Phase /\ Judged' = Judged /\ Accepted' = Accepted)
  BY DEF Contract!vars
<1>6. QED  BY <1>1, <1>2, <1>3, <1>4, <1>5

\* The loop, its ledger and the interventions implement the contract: at the gate the spend
\* is what was judged before, so none is judged beyond the limit.
THEOREM Implements == Spec => ImplementsContract
<1>1. Init => Contract!Init
  BY MapNext DEF Init, Phase, Judged, Accepted
<1>2. TypeOK /\ Accounting /\ HardStop /\ InHandInv /\ [Next]_vars => [Contract!Next]_(Contract!vars)
  <2> SUFFICES ASSUME TypeOK, Accounting, HardStop, InHandInv, [Next]_vars
               PROVE  Contract!Next \/ UNCHANGED Contract!vars
    OBVIOUS
  <2>0. /\ attempts \in Nat /\ rejected \in Nat /\ found \in Seq(Discoveries)
        /\ ledger \in Ledgers /\ ledger.cpu \in Nat /\ cur \in InHand
    BY DEF TypeOK, Ledgers
  <2>a. ASSUME found' = found, rejected' = rejected
        PROVE  Judged' = Judged /\ Accepted' = Accepted
    BY <2>a DEF Judged, Accepted
  <2>b. ASSUME found' = found, rejected' = rejected, Phase' = Phase
        PROVE  Contract!Next \/ UNCHANGED Contract!vars
    BY <2>a, <2>b, MapNext
  <2>c. ASSUME found' = found, rejected' = rejected, Phase = "open", Phase' = "closed"
        PROVE  Contract!Next
    BY <2>a, <2>c, MapNext DEF Contract!Next
  <2>d. ASSUME pc = "gate"
        PROVE  Phase = "open" /\ Judged <= MaxCpu /\ cur.cand \in Candidates
               /\ cur.verdict \in Verdicts /\ cur.status \in Statuses
    BY <2>0, <2>d, LimitsAssumption
       DEF Phase, Judged, Accounting, Undecided, Uncharged, HardStop, CpuExceeded, InHandInv
  <2>1. CASE Chat \/ Redirect \/ UNCHANGED vars
    BY <2>b, <2>1 DEF Chat, Redirect, Send, runner, vars, Phase
  <2>2. CASE NoCapableEngine
    <3>1. found' = found /\ rejected' = rejected /\ Phase = "open" /\ Phase' = "published"
      BY <2>2 DEF NoCapableEngine, Phase
    <3>2. Judged = 0
      BY <2>0, <2>2 DEF NoCapableEngine, InHandInv, Accounting, Undecided, Judged
    <3>3. QED  BY <2>a, <3>1, <3>2, MapNext DEF Contract!Next
  <2>3. CASE HasCapableEngine \/ Pull \/ DrainCopy \/ DrainClear \/ NoteChat \/ NoteRedirect \/ GoOn
    BY <2>b, <2>3 DEF HasCapableEngine, Pull, DrainCopy, DrainClear, NoteChat, NoteRedirect, GoOn, Phase
  <2>4. CASE SourceEnds \/ BreakOff
    BY <2>c, <2>4 DEF SourceEnds, BreakOff, Phase
  <2>5. CASE Verify \/ Novelty
    BY <2>b, <2>5 DEF Verify, Novelty, Phase
  <2>6. CASE GateAccept
    <3>1. found' = Append(found, AcceptedDiscovery(cur)) /\ rejected' = rejected /\ pc = "gate"
          /\ cur.verdict = "PASS" /\ cur.status = "NOVEL" /\ Phase' = "open"
      BY <2>6 DEF GateAccept, Accepts, Phase
    <3>2. AcceptedDiscovery(cur) \in Discoveries
      BY <2>0 DEF AcceptedDiscovery, Discoveries, InHand, TypeOK
    <3>3. Entry(AcceptedDiscovery(cur))
            = [cand |-> cur.cand, verdict |-> cur.verdict, status |-> cur.status]
      BY DEF Entry, AcceptedDiscovery
    <3>4. Accepted' = Append(Accepted, Entry(AcceptedDiscovery(cur)))
      <4> DEFINE d == AcceptedDiscovery(cur)
      <4> HIDE DEF d
      <4>1. found' = Append(found, d) /\ d \in Discoveries
        BY <3>1, <3>2 DEF d
      <4>2. Append([i \in DOMAIN found |-> Entry(found[i])], Entry(d))
              = [i \in DOMAIN Append(found, d) |-> Entry(Append(found, d)[i])]
        BY <2>0, <4>1
      <4>3. QED  BY <4>1, <4>2 DEF d, Accepted
    <3>5. Judged' = Judged + 1
      BY <2>0, <3>1, <3>2 DEF Judged
    <3>6. pc = "gate" /\ Phase' = Phase
      BY <2>d, <3>1
    <3>7. PICK c \in Candidates, v \in Verdicts, s \in Statuses :
            c = cur.cand /\ v = cur.verdict /\ s = cur.status
      BY <2>d, <3>6
    <3>8. Contract!Judge(c, v, s)
      BY <2>d, <3>1, <3>3, <3>4, <3>5, <3>6, <3>7, MapNext
    <3>9. QED  BY <3>8 DEF Contract!Next
  <2>7. CASE GateReject
    <3>1. found' = found /\ rejected' = rejected + 1 /\ pc = "gate"
          /\ ~(cur.verdict = "PASS" /\ cur.status = "NOVEL") /\ Phase' = "open"
      BY <2>7 DEF GateReject, Accepts, Phase
    <3>2. Judged' = Judged + 1 /\ Accepted' = Accepted
      BY <2>0, <3>1 DEF Judged, Accepted
    <3>3. pc = "gate" /\ Phase' = Phase
      BY <2>d, <3>1
    <3>4. PICK c \in Candidates, v \in Verdicts, s \in Statuses :
            c = cur.cand /\ v = cur.verdict /\ s = cur.status
      BY <2>d, <3>3
    <3>5. Contract!Judge(c, v, s)
      BY <2>d, <3>1, <3>2, <3>3, <3>4, MapNext
    <3>6. QED  BY <3>5 DEF Contract!Next
  <2>8. CASE Charge
    <3>1. CASE pc' = "iid"
      BY <2>c, <2>8, <3>1 DEF Charge, Phase
    <3>2. CASE pc' = "pull"
      BY <2>b, <2>8, <3>2 DEF Charge, Phase
    <3>3. QED  BY <2>8, <3>1, <3>2 DEF Charge
  <2>9. CASE OracleRaises
    <3>1. CASE pc \in {"novelty", "gate"}
      BY <2>c, <2>9, <3>1 DEF OracleRaises, Phase
    <3>2. CASE pc \in {"iid", "scs"}
      BY <2>b, <2>9, <3>2 DEF OracleRaises, Phase
    <3>3. QED  BY <2>9, <3>1, <3>2 DEF OracleRaises
  <2>10. CASE RunBaseline("iid", "scs") \/ RunBaseline("scs", "report")
    BY <2>b, <2>10 DEF RunBaseline, Phase
  <2>11. CASE Report
    <3>1. found' = found /\ rejected' = rejected /\ Phase = "closed" /\ Phase' = "published"
      BY <2>11 DEF Report, Phase
    <3>2. QED  BY <2>a, <3>1, MapNext DEF Contract!Next
  <2>12. QED
    BY <2>1, <2>2, <2>3, <2>4, <2>5, <2>6, <2>7, <2>8, <2>9, <2>10, <2>11
       DEF Next, RunnerStep, LoopStep
<1>3. QED
  BY Typing, AttemptsAccounted, BudgetStops, InHandHolds, <1>1, <1>2, PTL
     DEF Spec, ImplementsContract, Contract!Spec

\* Each step of the runner charges, gets on, or works off an intervention; the human does
\* not set it back.
LEMMA StepAdvances ==
  ASSUME TypeOK, RunnerStep
  PROVE  \/ ledger'.cpu > ledger.cpu
         \/ ledger' = ledger /\ Ahead' < Ahead
         \/ ledger' = ledger /\ Ahead' = Ahead /\ Len(batch') < Len(batch)
<1> DEFINE Goal == \/ ledger'.cpu > ledger.cpu
                   \/ ledger' = ledger /\ Ahead' < Ahead
                   \/ ledger' = ledger /\ Ahead' = Ahead /\ Len(batch') < Len(batch)
<1>1. CASE Charge
  <2>1. ledger \in Ledgers /\ ledger' = [ledger EXCEPT !.cpu = @ + 1]
    BY <1>1 DEF Charge, ChargeEngineCpu, TypeOK
  <2>2. ledger'.cpu > ledger.cpu
    BY <2>1 DEF Ledgers
  <2>3. QED  BY <2>2
<1>2. CASE NoteChat \/ NoteRedirect
  <2>1. ledger' = ledger /\ pc' = pc /\ batch \in Seq(Interventions) /\ batch # << >> /\ batch' = Tail(batch)
    BY <1>2 DEF NoteChat, NoteRedirect, TypeOK
  <2>2. Ahead' = Ahead
    BY <2>1 DEF Ahead
  <2>3. Len(batch') < Len(batch)
    BY <2>1
  <2>4. QED  BY <2>1, <2>2, <2>3
<1>3. CASE NoCapableEngine
  BY <1>3 DEF NoCapableEngine, Ahead
<1>4. CASE HasCapableEngine
  BY <1>4 DEF HasCapableEngine, Ahead
<1>5. CASE Pull
  BY <1>5 DEF Pull, Ahead
<1>6. CASE SourceEnds
  BY <1>6 DEF SourceEnds, Ahead
<1>7. CASE DrainCopy
  BY <1>7 DEF DrainCopy, Ahead
<1>8. CASE DrainClear
  BY <1>8 DEF DrainClear, Ahead
<1>9. CASE GoOn
  BY <1>9 DEF GoOn, Ahead
<1>10. CASE BreakOff
  BY <1>10 DEF BreakOff, Ahead
<1>11. CASE Verify
  BY <1>11 DEF Verify, Ahead
<1>12. CASE Novelty
  BY <1>12 DEF Novelty, Ahead
<1>13. CASE GateAccept
  BY <1>13 DEF GateAccept, Ahead
<1>14. CASE GateReject
  BY <1>14 DEF GateReject, Ahead
<1>15. CASE OracleRaises
  BY <1>15 DEF OracleRaises, Ahead
<1>16. CASE RunBaseline("iid", "scs")
  BY <1>16 DEF RunBaseline, Ahead
<1>17. CASE RunBaseline("scs", "report")
  BY <1>17 DEF RunBaseline, Ahead
<1>18. CASE Report
  BY <1>18 DEF Report, Ahead
<1>19. QED
  BY <1>1, <1>2, <1>3, <1>4, <1>5, <1>6, <1>7, <1>8, <1>9, <1>10, <1>11, <1>12, <1>13,
     <1>14, <1>15, <1>16, <1>17, <1>18 DEF RunnerStep, LoopStep

\* What the human does leaves the loop where it is.
LEMMA HumanAside ==
  Chat \/ Redirect => UNCHANGED <<pc, ledger, batch>>
BY DEF Chat, Redirect, Send, runner

\* run_campaign cannot go on for ever, for any budget, source and human: its steps are
\* ordered by the budget that is left, the places ahead, and the interventions drained.
THEOREM Advances == Spec => LoopAdvances
<1> DEFINE Progress == /\ RunnerStep =>
                            \/ ledger'.cpu > ledger.cpu
                            \/ ledger' = ledger /\ Ahead' < Ahead
                            \/ ledger' = ledger /\ Ahead' = Ahead /\ Len(batch') < Len(batch)
                       /\ (Chat \/ Redirect) => UNCHANGED <<pc, ledger, batch>>
<1>1. TypeOK /\ [Next]_vars => [Progress]_vars
  BY StepAdvances, HumanAside
<1>2. QED  BY <1>1, Typing, PTL DEF Spec, LoopAdvances
=============================================================================
