------------------------------ MODULE Settlement ------------------------------
(***************************************************************************)
(* control/settlement.py with the gateway call it spends through: a provider *)
(* answers 402, a settlement request is filed, the operator approves or      *)
(* denies it, and execute_topup pays and then retries the call that was      *)
(* refused.  Telegram and the HTTP API may execute concurrently; a call is   *)
(* cut at each await.  A POST that times out may still have been credited.   *)
(***************************************************************************)
EXTENDS Naturals, FiniteSets

CONSTANTS MaxSettlements,   \* requests are numbered in the order of created_at
          Callers,          \* Telegram commands and API requests in progress
          MaxReposts,       \* policy.max_retries of owner_api_call
          LoadLimit,        \* rows _load_from_storage asks for
          PersistOutcomes,  \* FALSE: _persist swallowed an exception
          MaxCrashes        \* bound on process deaths

ASSUME SettlementAssumption ==
    /\ MaxSettlements \in Nat \ {0}
    /\ IsFiniteSet(Callers)
    /\ {MaxReposts, MaxCrashes} \subseteq Nat
    /\ LoadLimit \in Nat \ {0}
    /\ PersistOutcomes \subseteq BOOLEAN /\ PersistOutcomes # {}

VARIABLES
    memory,     \* _requests: the status of each request, "absent" if not held
    row,        \* its status in settlement_requests
    origin,     \* the call stored in original_request
    call,       \* what each caller awaits in the gateway
    approvals,  \* history: times the operator approved the request
    credited,   \* history: times the provider took the money for it
    crashes     \* process deaths so far

settlementVars == <<memory, row, origin, call, approvals, credited, crashes>>

Ids == 1..MaxSettlements
Status == {"absent", "pending", "approved", "denied", "executed", "failed"}
Idle == [step |-> "idle"]
Calls == [step : {"posting", "backoff"}, for : {"topup", "retry"},
          id : Ids, attempt : 0..MaxReposts]

SettlementTypeOK ==
    /\ memory \in [Ids -> Status] /\ row \in [Ids -> Status]
    /\ origin \in [Ids -> {"none", "service", "topup"}]
    /\ call \in [Callers -> Calls \cup {Idle}]
    /\ approvals \in [Ids -> Nat] /\ credited \in [Ids -> Nat]
    /\ crashes \in 0..MaxCrashes

SettlementInit ==
    /\ memory = [i \in Ids |-> "absent"] /\ row = [i \in Ids |-> "absent"]
    /\ origin = [i \in Ids |-> "none"]
    /\ call = [c \in Callers |-> Idle]
    /\ approvals = [i \in Ids |-> 0] /\ credited = [i \in Ids |-> 0]
    /\ crashes = 0

-------------------------------------------------------------------------------
\* A status change and the write of its row, which may fail silently
Persist(i, new) ==
    /\ memory' = [memory EXCEPT ![i] = new]
    /\ \E saved \in PersistOutcomes :
          row' = IF saved THEN [row EXCEPT ![i] = new] ELSE row

Unused == {i \in Ids : origin[i] = "none"}
IsNext(i) == i \in Unused /\ \A k \in Unused : i <= k

\* create_settlement_request, for the call the provider refused with 402
Create(i, refused) ==
    /\ IsNext(i)
    /\ origin' = [origin EXCEPT ![i] = refused]
    /\ Persist(i, "pending")

\* _on_gateway_payment_required, called back from a call outside this module
PaymentRequired ==
    /\ \E i \in Ids : Create(i, "service")
    /\ UNCHANGED <<call, approvals, credited, crashes>>

Approve(i) ==
    /\ memory[i] = "pending"
    /\ Persist(i, "approved")
    /\ approvals' = [approvals EXCEPT ![i] = @ + 1]
    /\ UNCHANGED <<origin, call, credited, crashes>>

Deny(i) ==
    /\ memory[i] = "pending"
    /\ Persist(i, "denied")
    /\ UNCHANGED <<origin, call, approvals, credited, crashes>>

MutantStartTopup(c, i) ==                          \* filed as executed before it is
    /\ call[c] = Idle /\ memory[i] = "approved"
    /\ call' = [call EXCEPT ![c] =
                  [step |-> "posting", for |-> "topup", id |-> i, attempt |-> 0]]
    /\ Persist(i, "executed")
    /\ UNCHANGED <<origin, approvals, credited, crashes>>

\* execute_topup up to its first await: the request is sent ...
StartTopup(c, i) ==
    /\ call[c] = Idle /\ memory[i] = "approved"
    /\ call' = [call EXCEPT ![c] =
                  [step |-> "posting", for |-> "topup", id |-> i, attempt |-> 0]]
    /\ UNCHANGED <<memory, row, origin, approvals, credited, crashes>>

\* ... or the gateway refuses it first: no route, not configured, policy, rate limit
BlockTopup(i) ==
    /\ memory[i] = "approved"
    /\ Persist(i, "failed")
    /\ UNCHANGED <<origin, call, approvals, credited, crashes>>

-------------------------------------------------------------------------------
\* The provider took the request; a retried call pays only if it was a top-up.
Pays(k) == k.for = "topup" \/ origin[k.id] = "topup"

Credit(k) ==
    credited' = IF Pays(k) THEN [credited EXCEPT ![k.id] = @ + 1] ELSE credited

AttemptsLeft(k) == k.attempt < MaxReposts

BackOff(k) == [k EXCEPT !.step = "backoff", !.attempt = @ + 1]

\* 2xx for the top-up: executed, then _retry_original is sent or blocked
TopupAnswered(c) ==
    LET k == call[c]
    IN  /\ k # Idle /\ k.step = "posting" /\ k.for = "topup"
        /\ Persist(k.id, "executed")
        /\ Credit(k)
        /\ \E sent \in BOOLEAN :
              call' = [call EXCEPT ![c] =
                  IF sent THEN [k EXCEPT !.for = "retry", !.attempt = 0] ELSE Idle]
        /\ UNCHANGED <<origin, approvals, crashes>>

RetryAnswered(c) ==
    LET k == call[c]
    IN  /\ k # Idle /\ k.step = "posting" /\ k.for = "retry"
        /\ Credit(k)
        /\ call' = [call EXCEPT ![c] = Idle]
        /\ UNCHANGED <<memory, row, origin, approvals, crashes>>

\* Timeout, network error or 5xx, whether or not the provider took the money
AttemptLost(c) ==
    LET k == call[c]
    IN  /\ k # Idle /\ k.step = "posting" /\ AttemptsLeft(k)
        /\ Credit(k) \/ UNCHANGED credited
        /\ call' = [call EXCEPT ![c] = BackOff(k)]
        /\ UNCHANGED <<memory, row, origin, approvals, crashes>>

Repost(c) ==
    /\ call[c] # Idle /\ call[c].step = "backoff"
    /\ call' = [call EXCEPT ![c].step = "posting"]
    /\ UNCHANGED <<memory, row, origin, approvals, credited, crashes>>

\* What the caller files when the gateway gives up: the retry's failure is ignored.
Failed(k) ==
    IF k.for = "topup" THEN Persist(k.id, "failed") ELSE UNCHANGED <<memory, row>>

\* The last attempt was lost, or the provider refused with a 4xx.
CallFails(c) ==
    LET k == call[c]
    IN  /\ k # Idle /\ k.step = "posting"
        /\ \/ UNCHANGED credited
           \/ ~AttemptsLeft(k) /\ Credit(k)
        /\ call' = [call EXCEPT ![c] = Idle]
        /\ Failed(k)
        /\ UNCHANGED <<origin, approvals, crashes>>

Written(table, saved, i, new) == IF saved THEN [table EXCEPT ![i] = new] ELSE table

\* 402: the gateway files a settlement for the refused call before it fails.
CallUnpaid(c) ==
    LET k == call[c]
        topup == k.for = "topup"
    IN  /\ k # Idle /\ k.step = "posting"
        /\ \E first \in Ids :
             /\ IsNext(first)
             /\ origin' = [origin EXCEPT ![first] = IF Pays(k) THEN "topup" ELSE "service"]
             /\ memory' = Written(Written(memory, TRUE, first, "pending"), topup, k.id, "failed")
             /\ \E filed, saved \in PersistOutcomes :
                  row' = Written(Written(row, filed, first, "pending"),
                                 topup /\ saved, k.id, "failed")
        /\ call' = [call EXCEPT ![c] = Idle]
        /\ UNCHANGED <<approvals, credited, crashes>>

-------------------------------------------------------------------------------
\* _load_from_storage: the newest rows
Loaded ==
    LET rows == {i \in Ids : row[i] # "absent"}
    IN  {i \in rows : Cardinality({k \in rows : k > i}) < LoadLimit}

\* The process dies, its calls with it, and starts again.
Restart ==
    /\ crashes < MaxCrashes /\ crashes' = crashes + 1
    /\ memory' = [i \in Ids |-> IF i \in Loaded THEN row[i] ELSE "absent"]
    /\ call' = [c \in Callers |-> Idle]
    /\ UNCHANGED <<row, origin, approvals, credited>>

Answer(c) ==
    \/ TopupAnswered(c) \/ RetryAnswered(c) \/ AttemptLost(c) \/ Repost(c)
    \/ CallFails(c) \/ CallUnpaid(c)

SettlementNext ==
    \/ PaymentRequired
    \/ \E i \in Ids :
          \/ Approve(i) \/ Deny(i) \/ BlockTopup(i)
          \/ \E c \in Callers : StartTopup(c, i)
    \/ \E c \in Callers : Answer(c)
    \/ Restart

SettlementSpec == SettlementInit /\ [][SettlementNext]_settlementVars

-------------------------------------------------------------------------------
(* A denial holds: no money was taken for a denied request and no call that takes it   *)
(* is in flight, whatever the other callers did and whichever rows a restart loaded.    *)
DeniedSpendsNothing ==
    \A i \in Ids :
        "denied" \in {memory[i], row[i]} =>
            /\ credited[i] = 0
            /\ \A c \in Callers : call[c] # Idle => call[c].id # i

(* What is filed as executed was paid: a concurrent execution that fails, a lost        *)
(* answer or a restart never leaves `executed' on a request the provider did not take.  *)
ExecutedIsPaid ==
    \A i \in Ids : "executed" \in {memory[i], row[i]} => credited[i] > 0

(* The provider's account and the settlement agree: a denied one cost nothing and will  *)
(* not, an executed one was paid, however executions overlap, answers get lost and the  *)
(* process dies.                                                                        *)
CreditMatchesStatus == DeniedSpendsNothing /\ ExecutedIsPaid

(* The rows and what the provider takes implement the account of Account: no decision   *)
(* is taken back and nothing is charged without a grant, however executions overlap,    *)
(* answers get lost and the process dies.                                               *)
Billing == INSTANCE Account WITH Bills <- Ids, standing <- row, charges <- credited
KeepsAccount == Billing!AccountSpec

(* "Every spending action requires operator approval" (settlement.py): the provider     *)
(* takes money for a request at most as often as the operator approved it.              *)
SpendingIsApproved == \A i \in Ids : credited[i] <= approvals[i]
===============================================================================
