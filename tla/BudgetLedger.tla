---------------------------- MODULE BudgetLedger ----------------------------
(***************************************************************************)
(* lifecore/campaign/budget.py: the running totals of a campaign's spend   *)
(* and the hard stops that bound them.  Every charge first records the     *)
(* spend and only then compares the totals it touched with their limits,   *)
(* so a charge that raises BudgetExceeded has been recorded.               *)
(*                                                                         *)
(* Amounts are naturals: dollars and CPU seconds are floats in the code,   *)
(* but only their order against the limits matters here.                   *)
(***************************************************************************)
EXTENDS Naturals

CONSTANT MaxCpu  \* BudgetLimits.max_engine_cpu_seconds

ASSUME LimitsAssumption == MaxCpu \in Nat

\* The totals as_dict() reports; a recipe pins a copy of this record.  The campaign
\* loop charges engine CPU only: charge_tokens and charge_replan have no caller.
Ledgers == [usd : Nat, tokens : Nat, cpu : Nat, replans : Nat]

EmptyLedger == [usd |-> 0, tokens |-> 0, cpu |-> 0, replans |-> 0]

ChargeEngineCpu(l, seconds) == [l EXCEPT !.cpu = @ + seconds]

\* Mutant of CpuExceeded: the wrong total is compared.
TokensInsteadOfCpu(l) == l.tokens > MaxCpu

CpuExceeded(l) == l.cpu > MaxCpu
=============================================================================
