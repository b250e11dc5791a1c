-------------------------------- MODULE Account --------------------------------
(***************************************************************************)
(* What the settlement of payments promises the operator whose money it is: *)
(* a bill is filed, then granted or refused; a refusal is for good; nothing  *)
(* is charged before the bill was granted; and a bill counts as paid only    *)
(* when it was charged.  Each bill takes steps of its own, several at a time *)
(* where one answer is about two.  Settlement is shown to implement this     *)
(* module as long as its writes succeed.                                     *)
(***************************************************************************)
EXTENDS Naturals

CONSTANT Bills

VARIABLES
    standing,  \* what is on record of each bill
    charges    \* how often the provider took its amount

accountVars == <<standing, charges>>

\* The operator has agreed, whatever became of it since.
AfterGrant == {"approved", "executed", "failed"}

AccountInit ==
    /\ standing = [b \in Bills |-> "absent"]
    /\ charges = [b \in Bills |-> 0]

Bill(b) == standing[b] = "absent" /\ standing'[b] = "pending" /\ charges'[b] = charges[b]

Decide(b) ==
    /\ standing[b] = "pending" /\ standing'[b] \in {"approved", "denied"}
    /\ charges'[b] = charges[b]

Charge(b) ==
    /\ standing[b] \in AfterGrant /\ standing'[b] = standing[b]
    /\ charges'[b] = charges[b] + 1

\* It was or is being charged, and is paid.
Pay(b) ==
    /\ standing[b] \in AfterGrant /\ standing'[b] = "executed"
    /\ charges'[b] \in {charges[b], charges[b] + 1} /\ charges'[b] > 0

\* The last try may have been charged all the same.
Fail(b) ==
    /\ standing[b] \in AfterGrant /\ standing'[b] = "failed"
    /\ charges'[b] \in {charges[b], charges[b] + 1}

Rest(b) == standing'[b] = standing[b] /\ charges'[b] = charges[b]

AccountNext ==
    /\ standing' = [b \in Bills |-> standing'[b]]
    /\ charges' = [b \in Bills |-> charges'[b]]
    /\ \A b \in Bills : Bill(b) \/ Decide(b) \/ Charge(b) \/ Pay(b) \/ Fail(b) \/ Rest(b)

AccountSpec == AccountInit /\ [][AccountNext]_accountVars
===============================================================================
