--------------------------------- MODULE Finance --------------------------------
(***************************************************************************)
(* finance/tracker.py: proposals, their decisions, and the dead-man switch.   *)
(* Every change sets the transaction in memory, hands a snapshot to SQLite's   *)
(* thread, and goes on when that answers.  Decisions take turns at a lock; new *)
(* proposals, income and the dead-man switch do not.                        *)
(***************************************************************************)
EXTENDS Budget, Sequences, FiniteSetsExt

CONSTANTS Expenses,    \* transaction identifiers
          Amount,      \* what each is about
          LastDay,     \* the days a run of the model looks at
          MonthDays,   \* days of a month
          StaleAge     \* the age at which the dead-man switch cancels a proposal

ASSUME FinanceAssumption ==
    /\ IsFiniteSet(Expenses) /\ Amount \in [Expenses -> Nat]
    /\ LastDay \in Nat /\ MonthDays \in Nat \ {0} /\ StaleAge \in Nat

Statuses == {"none", "proposed", "approved", "rejected", "completed", "cancelled"}

VARIABLES
    tx,        \* the status of each transaction in memory
    txRow,     \* its row
    income,    \* the transactions that are income
    born,      \* the day of created_at
    day,       \* today
    writes,    \* the snapshots SQLite has still to write, in the order they were taken
    holder,    \* the decision that holds _tx_lock waits for its write
    sweep,     \* the dead-man switch: off, on, or in a table that has grown since it began
    proposed,  \* the transactions an approval request was filed for
    toldTx       \* for each transaction, the decisions whose callers were told so

financeVars == <<tx, txRow, income, born, day, writes, holder, sweep, proposed, toldTx>>

Write == [tx : Expenses, status : Statuses, by : {"proposal", "income", "decision", "sweep"}]

FinanceTypeOK ==
    /\ tx \in [Expenses -> Statuses] /\ txRow \in [Expenses -> Statuses]
    /\ income \subseteq Expenses /\ born \in [Expenses -> 0..LastDay] /\ day \in 0..LastDay
    /\ writes \in Seq(Write)
    /\ holder \in BOOLEAN /\ sweep \in {"off", "on", "grown"}
    /\ proposed \subseteq Expenses
    /\ toldTx \in [Expenses -> SUBSET {"approved", "rejected", "completed"}]

FinanceInit ==
    /\ tx = [x \in Expenses |-> "none"] /\ txRow = tx
    /\ income = {} /\ born = [x \in Expenses |-> 0] /\ day = 0
    /\ writes = <<>> /\ holder = FALSE /\ sweep = "off"
    /\ proposed = {} /\ toldTx = [x \in Expenses |-> {}]

\* check_budget: expenses that were approved count for the day they were proposed on.
Spent ==
    LET counted(since) == {x \in Expenses \ income : tx[x] \in {"approved", "completed"}
                                                     /\ born[x] >= since}
        sum(S) == MapThenSumSet(LAMBDA x : Amount[x], S)
    IN [daily |-> sum(counted(day)), monthly |-> sum(counted(day - (day % MonthDays)))]

Snapshot(x, level, by) == [tx |-> x, status |-> level, by |-> by]

-----------------------------------------------------------------------------
\* A transaction enters the table; a sweep inside it meets a table of another size.
Enters(x, level, by) ==
    /\ tx[x] = "none"
    /\ tx' = [tx EXCEPT ![x] = level]
    /\ born' = [born EXCEPT ![x] = day]
    /\ writes' = Append(writes, Snapshot(x, level, by))
    /\ sweep' = IF sweep = "on" THEN "grown" ELSE sweep
    /\ UNCHANGED <<txRow, day, holder, proposed, toldTx>>

\* propose_expense, to its write: over budget or not, a person decides.
ProposeExpense(x) == Enters(x, "proposed", "proposal") /\ UNCHANGED income

RecordIncome(x) == Enters(x, "completed", "income") /\ income' = income \cup {x}

\* approve, reject and complete, to their write
Decision == [approved |-> "proposed", rejected |-> "proposed", completed |-> "approved"]
DecideExpense(x, verdict) ==
    /\ ~holder /\ tx[x] = Decision[verdict]
    /\ tx' = [tx EXCEPT ![x] = verdict]
    /\ writes' = Append(writes, Snapshot(x, verdict, "decision"))
    /\ holder' = TRUE
    /\ UNCHANGED <<txRow, income, born, day, sweep, proposed, toldTx>>

\* The proposals the dead-man switch cancels
MutantStaleProposal(x) == tx[x] # "none" /\ day - born[x] >= StaleAge  \* whatever became of them
StaleProposal(x) == tx[x] = "proposed" /\ day - born[x] >= StaleAge

Cancels(x) ==
    /\ StaleProposal(x)
    /\ tx' = [tx EXCEPT ![x] = "cancelled"]

CheckStaleProposals(x) ==
    /\ sweep = "off" /\ Cancels(x)
    /\ sweep' = "on"
    /\ writes' = Append(writes, Snapshot(x, "cancelled", "sweep"))
    /\ UNCHANGED <<txRow, income, born, day, holder, proposed, toldTx>>

-----------------------------------------------------------------------------
\* SQLite answers its oldest write, or raises; the coroutine that waited for it goes on:
\* a decision returns, a proposal is queued for approval, the sweep goes to its next.
RowAnswered(stores) ==
    /\ writes # <<>>
    /\ txRow' = IF stores THEN [txRow EXCEPT ![Head(writes).tx] = Head(writes).status] ELSE txRow
    /\ UNCHANGED <<income, born, day>>

DecisionAnswered(stores) ==
    /\ RowAnswered(stores) /\ Head(writes).by \in {"decision", "income"}
    /\ writes' = Tail(writes)
    /\ holder' = (holder /\ Head(writes).by # "decision")
    /\ toldTx' = IF stores THEN [toldTx EXCEPT ![Head(writes).tx] = @ \cup {Head(writes).status}] ELSE toldTx
    /\ UNCHANGED <<tx, sweep, proposed>>

ProposalAnswered(stores) ==
    /\ RowAnswered(stores) /\ Head(writes).by = "proposal"
    /\ writes' = Tail(writes)
    /\ proposed' = IF stores THEN proposed \cup {Head(writes).tx} ELSE proposed
    /\ UNCHANGED <<tx, holder, sweep, toldTx>>

\* The iteration raises where the table has grown, and the write's error ends it too.
SweepAnswered(stores) ==
    /\ RowAnswered(stores) /\ Head(writes).by = "sweep"
    /\ IF stores /\ sweep = "on" /\ \E x \in Expenses : StaleProposal(x)
       THEN /\ \E x \in Expenses :
                  /\ Cancels(x)
                  /\ writes' = Append(Tail(writes), Snapshot(x, "cancelled", "sweep"))
            /\ sweep' = "on"
       ELSE tx' = tx /\ writes' = Tail(writes) /\ sweep' = "off"
    /\ UNCHANGED <<holder, proposed, toldTx>>

Midnight ==
    /\ day < LastDay /\ sweep = "off"           \* a sweep reads the clock once
    /\ day' = day + 1
    /\ UNCHANGED <<tx, txRow, income, born, writes, holder, sweep, proposed, toldTx>>

\* The process dies, its last writes done or not, and starts again from the rows.
RowsAfter(n) ==
    [x \in Expenses |->
        LET of == {i \in 1..n : writes[i].tx = x}
        IN IF of = {} THEN txRow[x] ELSE writes[Max(of)].status]
FinanceRestart ==
    /\ \E n \in 0..Len(writes) : txRow' = RowsAfter(n)
    /\ tx' = txRow'
    /\ income' = {x \in income : txRow'[x] # "none"}
    /\ born' = [x \in Expenses |-> IF txRow'[x] = "none" THEN 0 ELSE born[x]]
    /\ writes' = <<>> /\ holder' = FALSE /\ sweep' = "off"
    /\ UNCHANGED <<day, proposed, toldTx>>

FinanceNext ==
    \/ \E x \in Expenses :
          \/ ProposeExpense(x) \/ RecordIncome(x) \/ CheckStaleProposals(x)
          \/ \E verdict \in DOMAIN Decision : DecideExpense(x, verdict)
    \/ \E stores \in BOOLEAN :
          DecisionAnswered(stores) \/ ProposalAnswered(stores) \/ SweepAnswered(stores)
    \/ Midnight \/ FinanceRestart

FinanceSpec == FinanceInit /\ [][FinanceNext]_financeVars

(***************************************************************************)
(* Properties                                                              *)
(***************************************************************************)
\* What a caller of approve, reject or complete was told about a transaction stays so: its
\* row and, after any restart, the transaction agree, no second decision contradicts it,
\* and the dead-man switch leaves it alone, whatever waits for SQLite or fails there.
StandsBy(x, level) ==
    /\ "approved" \in toldTx[x] => level \in {"approved", "completed"}
    /\ "rejected" \in toldTx[x] => level = "rejected"
    /\ "completed" \in toldTx[x] => level = "completed"
DecisionsKept == \A x \in Expenses : StandsBy(x, txRow[x]) /\ StandsBy(x, tx[x])
===============================================================================
