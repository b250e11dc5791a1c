-------------------------------- MODULE Delivery --------------------------------
(***************************************************************************)
(* How a finished build or review leaves the machine: the delivery records  *)
(* of control/state.py, the services' delivery operations, the sends of     *)
(* core/agent.py and the retries and route fallback of control/gateway.py,  *)
(* composed with the approval queue whose decisions they read.              *)
(*                                                                         *)
(* A record (control-plane database) and the approval it names (approval    *)
(* database) are written by separate commits.  A handler runs up to its     *)
(* next await, so a send is cut at each POST: while one is in flight any     *)
(* other operation may run, the process may die, and the record may be      *)
(* given to another request.  Writes succeed here (DeliveryAssumption);     *)
(* ApprovalQueue is where they may raise.                                   *)
(*                                                                         *)
(* A handler that consults the queue begins with expire_stale(): its action *)
(* waits for Due = {}, so that the sweep is the queue's own step before it.  *)
(***************************************************************************)
EXTENDS ApprovalQueue

CONSTANTS Jobs,       \* completed build and review jobs, one bundle each
          Severe,     \* those whose findings, kind or size demand two approvals
          Senders,    \* callers that may be inside send_*_delivery_via_gateway
          Routes,     \* capability routes resolved for a job; 1 is a plain target
          Retries,    \* max_retries of the gateway policy
          None        \* no request, no job

ASSUME DeliveryAssumption ==
    /\ Severe \subseteq Jobs
    /\ {1, 2} \subseteq Asked
    /\ WriteOutcomes = {TRUE}
    /\ Routes \in Nat \ {0}
    /\ Retries \in Nat
    /\ None \notin Jobs \cup Requests

VARIABLES
    record,     \* delivery_records: lifecycle status and approval_request_id
    purpose,    \* context["job_id"] of each request
    sends,      \* what each caller is waiting for
    sent,       \* history variable: <<job, request>> pairs a POST was made under
    confirmed,  \* history variable: those the gateway reported as sent
    up          \* FALSE after a death between two commits

deliveryVars == <<record, purpose, sends, sent, confirmed, up>>
vars == <<queueVars, deliveryVars>>

Lifecycle == {"none", "prepared", "awaiting_approval", "approved", "rejected", "handed_off"}
Sendable == {"approved", "handed_off"}
Idle == [phase |-> "idle"]
Flight == [phase : {"posting", "backoff"}, job : Jobs, under : Requests,
           route : 1..Routes, attempt : 1..(Retries + 1)]

DeliveryTypeOK ==
    /\ QueueTypeOK
    /\ record \in [Jobs -> [status : Lifecycle, approval : Requests \cup {None}]]
    /\ purpose \in [Requests -> Jobs \cup {None}]
    /\ sends \in [Senders -> Flight \cup {Idle}]
    /\ sent \subseteq Jobs \X Requests
    /\ confirmed \subseteq sent
    /\ up \in BOOLEAN

DeliveryInit ==
    /\ QueueInit
    /\ record = [j \in Jobs |-> [status |-> "none", approval |-> None]]
    /\ purpose = [r \in Requests |-> None]
    /\ sends = [s \in Senders |-> Idle]
    /\ sent = {}
    /\ confirmed = {}
    /\ up = TRUE

-------------------------------------------------------------------------------
\* A death takes every caller with it.
Stopped(cut) == IF cut THEN [s \in Senders |-> Idle] ELSE sends

\* ApprovalQueue.get_request, its sweep done: memory first, then the row.
Lookup(r) == IF r \in pending \cup InHistory THEN mem[r].status ELSE disk[r].status

\* record_delivery_bundle always sets the status it is given
MutantBundled(rec, status) ==                      \* an existing record keeps its status
    IF rec.status = "none" THEN [rec EXCEPT !.status = status] ELSE rec
Bundled(rec, status) == [rec EXCEPT !.status = status]

LifecycleOf ==
    [pending |-> "awaiting_approval", partially_approved |-> "awaiting_approval",
     approved |-> "approved", denied |-> "rejected", expired |-> "rejected",
     executed |-> "handed_off"]

Refreshed(rec) ==
    IF \/ rec.status = "handed_off"
       \/ rec.approval = None
       \/ Lookup(rec.approval) \notin DOMAIN LifecycleOf
    THEN rec
    ELSE [rec EXCEPT !.status = LifecycleOf[Lookup(rec.approval)]]

\* get_delivery_bundle, previewed by an operator: back to "prepared", even after
\* an approval or a hand-off; the next refresh restores what the request says.
GetBundle(j) ==
    /\ record' = [record EXCEPT ![j] = Bundled(@, "prepared")]
    /\ UNCHANGED <<queueVars, purpose, sends, sent, confirmed, up>>

GetRecord(j) ==
    /\ Due = {}
    /\ record' = [record EXCEPT ![j] = Refreshed(@)]
    /\ UNCHANGED <<queueVars, purpose, sends, sent, confirmed, up>>

MutantRequiredApprovals(j) == 1                         \* ignores the findings
RequiredApprovals(j) == IF j \in Severe THEN 2 ELSE 1

\* request_delivery_approval: the bundle, previewed on the way, the request and the record.
\* Nothing refuses a second request for the same job, and a death between the two (`cut')
\* leaves a request that no record names.
RequestApproval(j, r, cut) ==
    /\ Propose(r, RequiredApprovals(j), TRUE)
    /\ purpose' = [purpose EXCEPT ![r] = j]
    /\ record' = [record EXCEPT ![j] =
          IF cut THEN Bundled(@, "prepared")
          ELSE [Bundled(@, "awaiting_approval") EXCEPT !.approval = r]]
    /\ sends' = Stopped(cut) /\ up' = ~cut
    /\ UNCHANGED <<sent, confirmed>>

\* mark_delivery_handed_off on the record as refreshed: mark_executed, whose answer
\* is ignored, then the record.  The death between the two is `cut'.
Executable(r) == r \in InHistory /\ mem[r].status = "approved"

MutantAtHandOff(j) == record[j]                \* trusts what the record said last
AtHandOff(j) == Refreshed(record[j])

SettleHandOff(j, cut) ==
    LET rec == AtHandOff(j)
    IN  /\ rec.status \in Sendable
        /\ IF Executable(rec.approval)
           THEN MarkExecuted(rec.approval, TRUE)
           ELSE UNCHANGED queueVars
        /\ record' = [record EXCEPT ![j] = IF cut THEN rec ELSE [rec EXCEPT !.status = "handed_off"]]
        /\ up' = ~cut

RefuseHandOff(j) ==
    /\ AtHandOff(j).status \notin Sendable
    /\ record' = [record EXCEPT ![j] = AtHandOff(j)]
    /\ UNCHANGED <<queueVars, up>>

HandOff(j) ==
    /\ Due = {}
    /\ \/ \E cut \in BOOLEAN : SettleHandOff(j, cut) /\ sends' = Stopped(cut)
       \/ RefuseHandOff(j) /\ UNCHANGED sends
    /\ UNCHANGED <<purpose, sent, confirmed>>

-------------------------------------------------------------------------------
\* The check both sends begin with rebuilds the bundle and refreshes the record.
Checked(j) == Refreshed(Bundled(record[j], "prepared"))

\* The gateway's own check, made again for every route.
Admitted(r) == Lookup(r) \in Granted

\* Not approved, or no route is ready and within its rate limit (a window that
\* is not modelled: it may refuse any route).
RefuseSend(j) ==
    /\ Due = {}
    /\ record' = [record EXCEPT ![j] = Checked(j)]
    /\ UNCHANGED <<queueVars, purpose, sends, sent, confirmed, up>>

Post(s, j, r, route) ==
    /\ Admitted(r)
    /\ sends' = [sends EXCEPT ![s] = [phase |-> "posting", job |-> j, under |-> r,
                                      route |-> route, attempt |-> 1]]
    /\ sent' = sent \cup {<<j, r>>}

StartSend(s, j) ==
    /\ Due = {} /\ sends[s] = Idle
    /\ Checked(j).status \in Sendable
    /\ record' = [record EXCEPT ![j] = Checked(j)]
    /\ \E route \in 1..Routes : Post(s, j, Checked(j).approval, route)
    /\ UNCHANGED <<queueVars, purpose, confirmed, up>>

\* 2xx with every receipt field: the caller hands the job off, under whatever
\* request its record names by now.
Succeed(s) ==
    /\ sends[s].phase = "posting" /\ Due = {}
    /\ LET j == sends[s].job
           done == [sends EXCEPT ![s] = Idle]
       IN  /\ \/ \E cut \in BOOLEAN :
                    /\ SettleHandOff(j, cut)
                    /\ sends' = IF cut THEN Stopped(cut) ELSE done
                    /\ confirmed' = IF cut THEN confirmed
                                    ELSE confirmed \cup {<<j, sends[s].under>>}
              \/ /\ RefuseHandOff(j) /\ sends' = done
                 /\ confirmed' = confirmed \cup {<<j, sends[s].under>>}
    /\ UNCHANGED <<purpose, sent>>

\* 5xx, timeout or network error with attempts left
BackOff(s) ==
    /\ sends[s].phase = "posting" /\ sends[s].attempt < Retries + 1
    /\ sends' = [sends EXCEPT ![s].phase = "backoff"]
    /\ UNCHANGED <<queueVars, record, purpose, sent, confirmed, up>>

MutantRetry(s) ==                               \* the attempt is not counted
    /\ sends[s].phase = "backoff"
    /\ sends' = [sends EXCEPT ![s].phase = "posting"]
    /\ UNCHANGED <<queueVars, record, purpose, sent, confirmed, up>>

Retry(s) ==
    /\ sends[s].phase = "backoff"
    /\ sends' = [sends EXCEPT ![s].phase = "posting", ![s].attempt = @ + 1]
    /\ UNCHANGED <<queueVars, record, purpose, sent, confirmed, up>>

\* 429, a missing receipt field, or attempts exhausted without a 4xx
NextRoute(s) ==
    /\ sends[s].phase = "posting" /\ Due = {}
    /\ \E route \in (sends[s].route + 1)..Routes :
          Post(s, sends[s].job, sends[s].under, route)
    /\ UNCHANGED <<queueVars, record, purpose, confirmed, up>>

\* 4xx, or no route left: an event is recorded, the status is not touched
Fail(s) ==
    /\ sends[s].phase = "posting"
    /\ sends' = [sends EXCEPT ![s] = Idle]
    /\ UNCHANGED <<queueVars, record, purpose, sent, confirmed, up>>

Progress(s) == Succeed(s) \/ BackOff(s) \/ Retry(s) \/ NextRoute(s) \/ Fail(s)

-------------------------------------------------------------------------------
\* The rest of the agent uses the queue for its own requests.
Elsewhere ==
    /\ \/ \E r \in Requests : \/ \E n \in Asked : Propose(r, n, TRUE)
                              \/ purpose[r] = None /\ MarkExecuted(r, TRUE)
                              \/ ApproveLate(r, TRUE)
                              \/ \E d \in Deciders : \/ ApproveFully(r, d, TRUE)
                                                     \/ ApprovePartly(r, d, TRUE)
                              \/ Deny(r, TRUE)
                              \/ Lapse(r)
       \/ ExpireStale
    /\ UNCHANGED deliveryVars

\* A new process: both databases are as they were, callers are gone.
Reboot ==
    /\ Restart
    /\ sends' = [s \in Senders |-> Idle]
    /\ up' = TRUE
    /\ UNCHANGED <<record, purpose, sent, confirmed>>

DeliveryNext ==
    \/ /\ up
       /\ \/ \E j \in Jobs :
               \/ GetBundle(j) \/ GetRecord(j) \/ HandOff(j) \/ RefuseSend(j)
               \/ \E r \in Requests, cut \in BOOLEAN : RequestApproval(j, r, cut)
               \/ \E s \in Senders : StartSend(s, j)
          \/ \E s \in Senders : Progress(s)
          \/ Elsewhere
    \/ Reboot

\* Every await inside a send ends: aiohttp's timeout bounds a POST and
\* asyncio.sleep a backoff.  Nothing else is assumed to happen.
DeliverySpec ==
    /\ DeliveryInit /\ [][DeliveryNext]_vars
    /\ \A s \in Senders : WF_vars(up /\ Progress(s))
-------------------------------------------------------------------------------
\* mark_executed can miss an approved request: newer decisions filled _history, or
\* newer rows the load after a restart.
Beyond(r) ==
    \/ Cardinality({q \in Requests \ {r} : disk[q].status \in SettledStatus}) >= MaxHistory
    \/ Cardinality({q \in Requests : created[q] > created[r]}) >= LoadLimit

(* No package leaves under a request that is not granted, that was made for another  *)
(* job, or that fewer people signed than the job's findings demand: whatever was       *)
(* previewed, re-requested, retried, rerouted or restarted in between.                 *)
SentSigned ==
    \A p \in sent :
        /\ purpose[p[2]] = p[1]
        /\ disk[p[2]].status \in Granted
        /\ Cardinality(disk[p[2]].received) >= (IF p[1] \in Severe THEN 2 ELSE 1)

(* What a delivery record says agrees with the row of the request it names, although   *)
(* the two are written by different handlers to different databases.                   *)
RecordFollowsRequest ==
    \A j \in Jobs :
        LET status == disk[record[j].approval].status
        IN  /\ record[j].status = "awaiting_approval" =>
                  record[j].approval # None /\ status # "absent"
            /\ record[j].status \in Sendable => record[j].approval # None /\ status \in Granted
            /\ record[j].status = "rejected" =>
                  record[j].approval # None /\ status \in {"denied", "expired"}

(* A hand-off consumes its approval, unless mark_executed could not find the request:   *)
(* a record that says handed_off, even if the process died between the two commits, and *)
(* a send the gateway confirmed, whatever ran while it was in flight, unless the job    *)
(* was given another request meanwhile.                                                 *)
HandOffConsumes ==
    /\ \A j \in Jobs :
          record[j].status = "handed_off" =>
              disk[record[j].approval].status = "executed" \/ Beyond(record[j].approval)
    /\ \A p \in confirmed :
          \/ disk[p[2]].status = "executed"
          \/ record[p[1]].approval # p[2]
          \/ Beyond(p[2])

(* A send ends: retries and route fallback are bounded.                                *)
SendEnds == \A s \in Senders : sends[s] # Idle ~> sends[s] = Idle
===============================================================================
