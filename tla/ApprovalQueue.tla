----------------------------- MODULE ApprovalQueue -----------------------------
(***************************************************************************)
(* core/approval.py and core/approval_storage.py: the queue every risky     *)
(* action of the agent passes through.  The queue keeps open requests in a  *)
(* dict, settled ones in a bounded list, and writes every change through to *)
(* one SQLite row per request.  Handlers are synchronous, so each is one    *)
(* action; what can happen around them is a write that raises, a process    *)
(* that dies and reloads the rows, and the passing of a request's TTL.      *)
(*                                                                         *)
(* Time is not counted: a request is in `overdue' from the moment its own   *)
(* ttl_seconds have elapsed, and TTLs differ, so requests become overdue in *)
(* any order.  A write either commits or raises with nothing written.       *)
(***************************************************************************)
EXTENDS Naturals, Sequences, FiniteSets

CONSTANTS Requests,      \* identifiers the process may mint (one uuid each)
          Deciders,      \* values of decided_by
          MaxHistory,    \* ApprovalQueue.__init__(max_history)
          LoadLimit,     \* the limit _load_from_storage passes to the storage
          Asked,         \* values callers pass as required_approvals
          WriteOutcomes  \* {TRUE}, or {TRUE, FALSE} when SQLite may raise

ASSUME QueueAssumption ==
    /\ IsFiniteSet(Requests)
    /\ IsFiniteSet(Deciders)
    /\ MaxHistory \in Nat \ {0}
    /\ LoadLimit \in Nat \ {0}
    /\ Asked \subseteq Nat
    /\ WriteOutcomes \subseteq BOOLEAN

VARIABLES
    pending,   \* the keys of _pending (its order is the order of creation)
    history,   \* _history, oldest first
    mem,       \* the ApprovalRequest objects the process holds
    disk,      \* the rows of approval_requests
    created,   \* created_at: the rank of each request's creation, 0 before it
    overdue,   \* the requests whose ttl_seconds have elapsed
    acked      \* history variable: the decisions callers were told of

queueVars == <<pending, history, mem, disk, created, overdue, acked>>

OpenStatus == {"pending", "partially_approved"}
SettledStatus == {"approved", "denied", "expired", "executed"}
Granted == {"approved", "executed"}

Row == [status : OpenStatus \cup SettledStatus \cup {"absent"},
        required : Nat \ {0},
        received : SUBSET Deciders]
NoRow == [status |-> "absent", required |-> 1, received |-> {}]

QueueTypeOK ==
    /\ pending \subseteq Requests
    /\ history \in Seq(Requests)
    /\ mem \in [Requests -> Row]
    /\ disk \in [Requests -> Row]
    /\ created \in [Requests -> Nat]
    /\ overdue \subseteq Requests
    /\ acked \in [Requests -> SUBSET SettledStatus]

QueueInit ==
    /\ pending = {}
    /\ history = <<>>
    /\ mem = [r \in Requests |-> NoRow]
    /\ disk = [r \in Requests |-> NoRow]
    /\ created = [r \in Requests |-> 0]
    /\ overdue = {}
    /\ acked = [r \in Requests |-> {}]

-------------------------------------------------------------------------------
InHistory == {history[i] : i \in 1..Len(history)}

\* The orders in which a loop over the requests of S, oldest first, visits them.
OldestFirst(S) ==
    {s \in [1..Cardinality(S) -> S] :
        /\ \A i, j \in 1..Cardinality(S) : i < j => created[s[i]] < created[s[j]]
        /\ \A r \in S : \E i \in 1..Cardinality(S) : s[i] = r}

\* What the same loop has visited when it stops part-way.
Begun(S) == {T \in SUBSET S : \A r \in T, q \in S \ T : created[r] < created[q]}
Oldest(S) == {r \in S : \A q \in S : created[r] <= created[q]}

\* Appending the requests of s one by one, popping the head after each append
\* that leaves the list longer than _max_history.
MutantExcess(n) == IF n >= MaxHistory THEN n - MaxHistory + 1 ELSE 0  \* pops at the bound
Excess(n) == IF n > MaxHistory THEN n - MaxHistory ELSE 0

Archived(s) ==
    LET longer == history \o s
        popped == IF Excess(Len(longer)) < Len(s) THEN Excess(Len(longer)) ELSE Len(s)
    IN  SubSeq(longer, popped + 1, Len(longer))

MutantWrite(r, row, ok) == disk' = disk                            \* forgets the save
Write(r, row, ok) == disk' = IF ok THEN [disk EXCEPT ![r] = row] ELSE disk
Tell(r, what, ok) ==
    acked' = IF ok THEN [acked EXCEPT ![r] = @ \cup {what}] ELSE acked

\* r leaves _pending as `row'; _archive persists before it appends, so a write
\* that raises leaves the request in neither collection.
Settle(r, row, ok) ==
    /\ pending' = pending \ {r}
    /\ mem' = [mem EXCEPT ![r] = row]
    /\ Write(r, row, ok)
    /\ history' = IF ok THEN Archived(<<r>>) ELSE history
    /\ Tell(r, row.status, ok)
    /\ UNCHANGED <<created, overdue>>

-------------------------------------------------------------------------------
Required(asked) == IF asked > 1 THEN asked ELSE 1

Propose(r, asked, ok) ==
    /\ created[r] = 0
    /\ created' = [created EXCEPT ![r] = Cardinality({q \in Requests : created[q] > 0}) + 1]
    /\ LET row == [status |-> "pending",
                   required |-> Required(asked),
                   received |-> {}]
       IN  mem' = [mem EXCEPT ![r] = row] /\ Write(r, row, ok)
    /\ pending' = pending \cup {r}
    /\ UNCHANGED <<history, overdue, acked>>

\* The two properties of ApprovalRequest that approve() consults.
MutantIsExpired(r) == r \in overdue /\ mem[r].status = "pending"  \* misses partial ones
IsExpired(r) == r \in overdue /\ mem[r].status \in OpenStatus

MutantIsFullyApproved(row) == Cardinality(row.received) + 1 >= row.required
IsFullyApproved(row) == Cardinality(row.received) >= row.required

Signed(r, d) == [mem[r] EXCEPT !.received = @ \cup {d}]

ApproveLate(r, ok) ==
    /\ r \in pending /\ IsExpired(r)
    /\ Settle(r, [mem[r] EXCEPT !.status = "expired"], ok)

ApproveFully(r, d, ok) ==
    /\ r \in pending /\ ~IsExpired(r)
    /\ IsFullyApproved(Signed(r, d))
    /\ Settle(r, [Signed(r, d) EXCEPT !.status = "approved"], ok)

ApprovePartly(r, d, ok) ==
    /\ r \in pending /\ ~IsExpired(r)
    /\ ~IsFullyApproved(Signed(r, d))
    /\ LET row == [Signed(r, d) EXCEPT !.status = "partially_approved"]
       IN  mem' = [mem EXCEPT ![r] = row] /\ Write(r, row, ok)
    /\ UNCHANGED <<pending, history, created, overdue, acked>>

MutantDeny(r, ok) ==                          \* also finds requests in _history
    /\ r \in pending \/ r \in InHistory
    /\ Settle(r, [mem[r] EXCEPT !.status = "denied"], ok)

\* deny() does not look at the TTL: an overdue request nobody swept is denied.
Deny(r, ok) ==
    /\ r \in pending
    /\ Settle(r, [mem[r] EXCEPT !.status = "denied"], ok)

\* mark_executed() looks only in _history, never in the database.
MarkExecuted(r, ok) ==
    /\ r \in InHistory
    /\ mem[r].status = "approved"
    /\ LET row == [mem[r] EXCEPT !.status = "executed"]
       IN  mem' = [mem EXCEPT ![r] = row] /\ Write(r, row, ok)
    /\ Tell(r, "executed", ok)
    /\ UNCHANGED <<pending, history, created, overdue>>

\* expire_stale(), which get_pending, get_request, get_by_category, list_requests
\* and get_stats all begin with.  A write that raises ends the loop: the request it
\* was for is gone from memory, those after it are untouched.
Due == {r \in pending : IsExpired(r)}

Expired(S, rows) ==
    [r \in Requests |-> IF r \in S THEN [mem[r] EXCEPT !.status = "expired"] ELSE rows[r]]

ExpireStale ==
    /\ Due # {}
    /\ \E done \in Begun(Due) :
         LET struck == IF done = Due THEN {} ELSE Oldest(Due \ done)
         IN  /\ done # Due => FALSE \in WriteOutcomes
             /\ pending' = pending \ (done \cup struck)
             /\ mem' = Expired(done \cup struck, mem)
             /\ disk' = Expired(done, disk)
             /\ \E s \in OldestFirst(done) : history' = Archived(s)
             /\ acked' = [r \in Requests |->
                            IF done = Due /\ r \in Due THEN acked[r] \cup {"expired"}
                                                       ELSE acked[r]]
    /\ UNCHANGED <<created, overdue>>

\* The process dies, perhaps inside expire_stale's loop, and a new one runs
\* _load_from_storage on the newest LoadLimit rows; _history is not trimmed.
Newest(rows) ==
    {r \in rows : Cardinality({q \in rows : created[q] > created[r]}) < LoadLimit}

Restart ==
    \E done \in Begun(Due) :
      LET kept   == Expired(done, disk)
          loaded == Newest({r \in Requests : kept[r].status # "absent"})
          open   == {r \in loaded : kept[r].status \in OpenStatus}
      IN  /\ disk' = kept
          /\ mem' = kept
          /\ pending' = open
          /\ history' \in OldestFirst(loaded \ open)
          /\ UNCHANGED <<created, overdue, acked>>

\* time.time() - created_at reaches ttl_seconds
Lapse(r) ==
    /\ created[r] > 0 /\ r \notin overdue
    /\ overdue' = overdue \cup {r}
    /\ UNCHANGED <<pending, history, mem, disk, created, acked>>

QueueNext ==
    \/ \E r \in Requests, ok \in WriteOutcomes :
         \/ \E n \in Asked : Propose(r, n, ok)
         \/ ApproveLate(r, ok)
         \/ \E d \in Deciders : ApproveFully(r, d, ok) \/ ApprovePartly(r, d, ok)
         \/ Deny(r, ok)
         \/ MarkExecuted(r, ok)
    \/ ExpireStale
    \/ Restart
    \/ \E r \in Requests : Lapse(r)

QueueSpec == QueueInit /\ [][QueueNext]_queueVars
-------------------------------------------------------------------------------
(* A request is in one collection at most, and once: what get_request answers and *)
(* what mark_executed can find do not depend on which copy is met first.          *)
EachInOnePlace ==
    /\ \A r \in pending : mem[r].status \in OpenStatus
    /\ \A r \in InHistory : mem[r].status \in SettledStatus /\ r \notin pending
    /\ \A i, j \in 1..Len(history) : history[i] = history[j] => i = j

(* Multi-step approval (approve, is_fully_approved): whatever was interrupted,     *)
(* repeated or reloaded, a request the database or the process calls granted was    *)
(* signed by as many different people as it asked for.                              *)
QuorumBehindGrant ==
    \A r \in Requests :
        /\ disk[r].status \in Granted => Cardinality(disk[r].received) >= disk[r].required
        /\ r \in InHistory /\ mem[r].status \in Granted =>
              Cardinality(mem[r].received) >= mem[r].required

(* A decision a caller was told of (approve, deny, mark_executed returned it) is    *)
(* in the database, whatever crashed since; only execution may follow an approval.  *)
ToldIsKept ==
    \A r \in Requests : \A what \in acked[r] :
        \/ disk[r].status = what
        \/ what = "approved" /\ disk[r].status = "executed"

(* An approval the database holds can be executed (it is in _history), unless newer *)
(* decisions filled _history or newer rows filled the load: mark_executed's search   *)
(* loses a request only at a full bound.                                             *)
ApprovalReachable ==
    \A r \in Requests :
        disk[r].status = "approved" /\ r \notin InHistory =>
            \/ Len(history) >= MaxHistory
            \/ Cardinality({q \in Requests : created[q] > created[r]}) >= LoadLimit

(* No request is granted after its TTL, even if nothing swept it in between and even *)
(* if the process restarted (created_at is persisted).                               *)
NoLateGrant ==
    [][\A r \in overdue :
        disk[r].status \notin Granted => disk'[r].status \notin Granted]_queueVars

(* mark_executed answers True at most once for a request: an answer of True is        *)
(* durable, so no crash makes the same approval executable again.                     *)
ExecutedOnce ==
    [][\A r \in Requests :
        "executed" \in acked[r] =>
            ~(r \in InHistory /\ mem[r].status = "approved" /\ mem'[r].status = "executed")
      ]_queueVars

(* The rows of the database implement the contract of ApprovalContract.               *)
Promise == INSTANCE ApprovalContract WITH
    state   <- [r \in Requests |->
                  IF disk[r].status \in OpenStatus THEN "open" ELSE disk[r].status],
    signers <- [r \in Requests |-> disk[r].received],
    quorum  <- [r \in Requests |-> disk[r].required]
KeepsPromise == Promise!Contract
===============================================================================
