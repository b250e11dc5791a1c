--------------------------------- MODULE Budget ---------------------------------
(***************************************************************************)
(* finance/budget_policy.py: the posture of an amount against what has been    *)
(* spent today and this month.  Amounts are in tenths of a dollar.            *)
(***************************************************************************)
EXTENDS Integers

CONSTANTS
    DailyHardCap, DailySoftCap, DailyBuffer,         \* BudgetLimits
    MonthlyHardCap, MonthlySoftCap, MonthlyBuffer,
    SingleTxCap

ASSUME BudgetAssumption ==
    /\ DailyHardCap \in Nat /\ DailySoftCap \in Nat /\ DailyBuffer \in Nat
    /\ MonthlyHardCap \in Nat /\ MonthlySoftCap \in Nat /\ MonthlyBuffer \in Nat
    /\ SingleTxCap \in Nat

\* A spending record: what the approved and completed expenses of today, and of this
\* month, add up to
HardCapHit(amount, spent) ==
    spent.daily + amount > DailyHardCap \/ spent.monthly + amount > MonthlyHardCap

InBuffer(amount, spent) ==
    \/ DailyBuffer > 0 /\ spent.daily + amount > DailyHardCap - DailyBuffer
    \/ MonthlyBuffer > 0 /\ spent.monthly + amount > MonthlyHardCap - MonthlyBuffer

\* A flag is looked at only where no worse one is up.
StopLossHit(amount, spent) == ~HardCapHit(amount, spent) /\ InBuffer(amount, spent)
SoftCapHit(amount, spent) ==
    /\ ~HardCapHit(amount, spent) /\ ~StopLossHit(amount, spent)
    /\ spent.daily + amount > DailySoftCap \/ spent.monthly + amount > MonthlySoftCap

\* BudgetPolicy.check
Check(amount, spent) ==
    [hardCapHit       |-> HardCapHit(amount, spent),
     stopLossHit      |-> StopLossHit(amount, spent),
     softCapHit       |-> SoftCapHit(amount, spent),
     requiresApproval |-> amount > SingleTxCap,
     allowed          |-> ~HardCapHit(amount, spent) /\ ~StopLossHit(amount, spent)]

\* FinanceTracker.check_budget: its own caps are the policy's.
WithinBudget(amount, spent) ==
    /\ amount <= DailyHardCap - spent.daily /\ amount <= MonthlyHardCap - spent.monthly
    /\ Check(amount, spent).allowed
===============================================================================
