------------------------------- MODULE ApiCalls -------------------------------
(***************************************************************************)
(* Calls of provider APIs through the gateway (control/gateway.py:         *)
(* call_api_via_capability, and call_api_across_providers over it), with   *)
(* the routes and policies of control/policy.py and what each call leaves  *)
(* in the control plane.  A call runs alone but while it awaits an answer  *)
(* or the pause before a retry: then others look at the same windows.      *)
(***************************************************************************)
EXTENDS Integers, Sequences, FiniteSets

CONSTANTS
    ApiCallers,     \* the calls, each made once and for one capability
    ApiProviders,   \* the providers in the order of the registry
    ApiRoutes,      \* the routes in the order of (priority, route_id)
    CallLimit,      \* rate_limit_calls
    CallWindow,     \* rate_limit_window_seconds
    CallRetries,    \* max_retries
    LastTick        \* the last moment of a bounded clock

\* What a route is for these purposes: whose it is, what it is for, the policy it is called
\* under, and whether a request needs a resource
ApiPolicies == {"owner_api_call", "owner_api_call_optional_auth"}
ProviderNames == {ApiProviders[p] : p \in DOMAIN ApiProviders}
IsApiRoute(r) ==
    /\ DOMAIN r = {"provider", "capability", "policy", "slug"}
    /\ r.provider \in ProviderNames /\ r.policy \in ApiPolicies /\ r.slug \in BOOLEAN

ASSUME ApiCallsAssumption ==
    /\ ApiProviders \in Seq(STRING) /\ ApiProviders # <<>>
    /\ \A p, q \in DOMAIN ApiProviders : p # q => ApiProviders[p] # ApiProviders[q]
    /\ ApiRoutes \in Seq([provider : STRING, capability : STRING, policy : STRING, slug : BOOLEAN])
    /\ \A r \in DOMAIN ApiRoutes : IsApiRoute(ApiRoutes[r])
    /\ CallLimit \in Nat \ {0} /\ CallWindow \in Nat \ {0}
    /\ CallRetries \in Nat /\ LastTick \in Nat

\* The routes that are shipped for API calls, one per capability: buying and selling, ...
ApiRoute(capability, policy, slug) ==
    [provider |-> "obolos.tech", capability |-> capability, policy |-> policy, slug |-> slug]
MarketplaceRoutes ==
    << ApiRoute("marketplace_catalog_v1", "owner_api_call_optional_auth", FALSE),
       ApiRoute("wallet_balance_v1", "owner_api_call", FALSE),
       ApiRoute("marketplace_api_call_v1", "owner_api_call", TRUE),
       ApiRoute("seller_publish_v1", "owner_api_call", FALSE),
       ApiRoute("marketplace_upload_v1", "owner_api_call", TRUE),
       ApiRoute("wallet_topup_v1", "owner_api_call", FALSE) >>
\* ... and finding and handing in work.
WorkRoutes ==
    << ApiRoute("listings_list_v1", "owner_api_call_optional_auth", FALSE),
       ApiRoute("listings_detail_v1", "owner_api_call_optional_auth", TRUE),
       ApiRoute("listings_bid_v1", "owner_api_call", TRUE),
       ApiRoute("jobs_list_v1", "owner_api_call", FALSE),
       ApiRoute("jobs_detail_v1", "owner_api_call", TRUE),
       ApiRoute("jobs_submit_v1", "owner_api_call", TRUE) >>

ApiCapabilities == {ApiRoutes[r].capability : r \in DOMAIN ApiRoutes}
ProviderIndex == 1..Len(ApiProviders)
ApiOperations == ApiCallers \X ProviderIndex
Windows == ApiPolicies \X ProviderNames

VARIABLES
    apiCall,    \* where each call stands
    hits,       \* _rate_limit_hits: per policy and host, the entries not dropped yet ...
    stamps,     \* ... of all that this process let through, in order
    apiNow,     \* its monotonic clock
    apiRow,     \* the status of each operation's job record
    evidence,   \* how many of a success's records are kept: request, response, cost
    served,     \* operations that were answered with a 2xx (history)
    dropped     \* operations whose call was cancelled, raised or died (history)

apiVars == <<apiCall, hits, stamps, apiNow, apiRow, evidence, served, dropped>>

NotMade == [at |-> "new", capability |-> "none", resource |-> FALSE, across |-> FALSE,
            named |-> FALSE, provider |-> 1, route |-> 0, attempt |-> 0]

Underway(c) == apiCall[c].at \in {"asking", "pausing"}

\* A job of its own for every provider, or one for all of them where the caller names it
JobOf(c, made, p) == <<c, IF made.named THEN 1 ELSE p>>
Operation(c) == JobOf(c, apiCall[c], apiCall[c].provider)

ApiInit ==
    /\ apiCall = [c \in ApiCallers |-> NotMade]
    /\ hits = [w \in Windows |-> {}] /\ stamps = [w \in Windows |-> <<>>]
    /\ apiNow = 0
    /\ apiRow = [o \in ApiOperations |-> "none"] /\ evidence = [o \in ApiOperations |-> 0]
    /\ served = {} /\ dropped = {}

-------------------------------------------------------------------------------
\* _allow_rate_limited_call: a window per policy and host
WindowOf(r) == <<ApiRoutes[r].policy, ApiRoutes[r].provider>>
RecentHits(w) == {i \in hits[w] : apiNow - stamps[w][i] < CallWindow}
MutantHasRoom(w) == Cardinality(RecentHits(w)) <= CallLimit    \* one call too many
HasRoom(w) == Cardinality(RecentHits(w)) < CallLimit

DropOld(w) == hits' = [hits EXCEPT ![w] = RecentHits(w)] /\ UNCHANGED stamps
LetThrough(w) ==
    /\ hits' = [hits EXCEPT ![w] = RecentHits(w) \cup {Len(stamps[w]) + 1}]
    /\ stamps' = [stamps EXCEPT ![w] = Append(@, apiNow)]

\* resolve_external_capability_routes, for one provider
RouteServes(r, p, capability) ==
    ApiRoutes[r].provider = ApiProviders[p] /\ ApiRoutes[r].capability = capability

\* The providers from p up to q are passed over, and the job of the one at q is left with
\* this status.  What is passed over was recorded as running and then as blocked: not one of
\* its routes was ready, or it has none for the capability.
FileRows(c, made, p, q, filed) ==
    apiRow' = [o \in ApiOperations |->
        IF o = JobOf(c, made, q) THEN filed
        ELSE IF \E k \in p..q - 1 : o = JobOf(c, made, k) THEN "blocked" ELSE apiRow[o]]

ApiEnds(c, p) ==
    apiCall' = [apiCall EXCEPT ![c] = [NotMade EXCEPT !.at = "over", !.provider = p]]

\* _build_api_call_request: what is asked of one resource needs to name it.
Incomplete(made, r) == ApiRoutes[r].slug /\ ~made.resource

\* evaluate_runtime_action, for an api_call: both policies are enabled, need no approval and
\* allow the routes' kind of target, and a route that is ready has the token it needs; so
\* what is left to refuse is a target that is not https.
TargetSchemes == {"http", "https"}
PolicyAllows(scheme) == scheme = "https"

\* One route is taken as far as the request: it goes out, ...
AskRoute(c, made, p, q, r, scheme) ==
    /\ ~Incomplete(made, r) /\ PolicyAllows(scheme)
    /\ HasRoom(WindowOf(r)) /\ LetThrough(WindowOf(r))
    /\ FileRows(c, made, p, q, "running")
    /\ apiCall' = [apiCall EXCEPT ![c] =
          [made EXCEPT !.at = "asking", !.provider = q, !.route = r, !.attempt = 1]]

\* ... or the request is incomplete or not one the policy allows, or the window is full: none
\* of these looks at another route, or at another provider.
RefuseRoute(c, made, p, q, r, scheme) ==
    /\ IF Incomplete(made, r) \/ ~PolicyAllows(scheme) THEN UNCHANGED <<hits, stamps>>
       ELSE ~HasRoom(WindowOf(r)) /\ DropOld(WindowOf(r))
    /\ FileRows(c, made, p, q, "blocked") /\ ApiEnds(c, q)

\* Where the loop over a provider's routes may stop, from route r on: any of them may be the
\* first that is ready, for targets and tokens come from the environment and the vault.
NextRoutes(made, q, r) == {k \in r..Len(ApiRoutes) : RouteServes(k, q, made.capability)}

\* call_api_via_capability's loop for a call that sent nothing yet or whose last request
\* failed, inside call_api_across_providers' loop
GoesOn(c, made, r) ==
    LET p    == made.provider
        last == IF made.route = 0 /\ made.across THEN Len(ApiProviders) ELSE p
    IN  \/ \E q \in p..last : \E k \in NextRoutes(made, q, IF q = p THEN r ELSE 1) :
              \E scheme \in TargetSchemes :
                 AskRoute(c, made, p, q, k, scheme) \/ RefuseRoute(c, made, p, q, k, scheme)
        \/ \* no route is left
           /\ FileRows(c, made, p, last, "blocked") /\ ApiEnds(c, last)
           /\ UNCHANGED <<hits, stamps>>

-------------------------------------------------------------------------------
\* A call is made, of one provider or across all that have the capability, where the caller
\* may name the job; every call has a job of its own, so of one provider alone a name makes
\* no difference.
MakeCall(c, capability, resource, across, named, p) ==
    /\ apiCall[c].at = "new" /\ (across => p = 1) /\ (named => across)
    /\ GoesOn(c, [NotMade EXCEPT !.capability = capability, !.resource = resource,
                        !.across = across, !.named = named, !.provider = p], 1)
    /\ UNCHANGED <<apiNow, evidence, served, dropped>>

\* _execute_http_request_with_retry: a 5xx, a timeout or a network error is tried again,
\* after a pause during which others run, ...
AnswerDown(c) ==
    /\ apiCall[c].at = "asking" /\ apiCall[c].attempt <= CallRetries
    /\ apiCall' = [apiCall EXCEPT ![c].at = "pausing"]
    /\ UNCHANGED <<hits, stamps, apiNow, apiRow, evidence, served, dropped>>

AskAgain(c) ==
    /\ apiCall[c].at = "pausing"
    /\ apiCall' = [apiCall EXCEPT ![c].at = "asking", ![c].attempt = @ + 1]
    /\ UNCHANGED <<hits, stamps, apiNow, apiRow, evidence, served, dropped>>

\* ... and when the last try went that way, or at once for a 429, the next route is tried.
TryNextRoute(c) ==
    /\ apiCall[c].at = "asking"
    /\ GoesOn(c, apiCall[c], apiCall[c].route + 1)
    /\ UNCHANGED <<apiNow, evidence, served, dropped>>

\* Any other answer but a 2xx ends the call; a 402 also asks for a settlement.
AnswerRefused(c) ==
    /\ apiCall[c].at = "asking"
    /\ apiRow' = [apiRow EXCEPT ![Operation(c)] = "failed"]
    /\ ApiEnds(c, apiCall[c].provider)
    /\ UNCHANGED <<hits, stamps, apiNow, evidence, served, dropped>>

\* A 2xx: request, response and cost are kept one by one, and then the job is completed,
\* unless a write raised after n of them.
AllEvidence == 3
Keeps(c, n) == evidence' = [evidence EXCEPT ![Operation(c)] = n]

MutantAnswerServed(c, n) ==                   \* the job is completed before its evidence is kept
    /\ apiCall[c].at = "asking"
    /\ served' = served \cup {Operation(c)} /\ Keeps(c, n)
    /\ apiRow' = [apiRow EXCEPT ![Operation(c)] = "completed"]
    /\ \/ n = AllEvidence /\ UNCHANGED dropped
       \/ dropped' = dropped \cup {Operation(c)}
    /\ ApiEnds(c, apiCall[c].provider)
    /\ UNCHANGED <<hits, stamps, apiNow>>
AnswerServed(c, n) ==
    /\ apiCall[c].at = "asking"
    /\ served' = served \cup {Operation(c)} /\ Keeps(c, n)
    /\ \/ /\ n = AllEvidence /\ apiRow' = [apiRow EXCEPT ![Operation(c)] = "completed"]
          /\ UNCHANGED dropped
       \/ dropped' = dropped \cup {Operation(c)} /\ UNCHANGED apiRow
    /\ ApiEnds(c, apiCall[c].provider)
    /\ UNCHANGED <<hits, stamps, apiNow>>

\* The call is cancelled, or what it waits for raises anything else.
Interrupted(c) ==
    /\ Underway(c)
    /\ dropped' = dropped \cup {Operation(c)} /\ ApiEnds(c, apiCall[c].provider)
    /\ UNCHANGED <<hits, stamps, apiNow, apiRow, evidence, served>>

\* The process ends and another begins: its windows are empty.
ApiRestart ==
    /\ \E c \in ApiCallers : Underway(c)
    /\ dropped' = dropped \cup {Operation(c) : c \in {d \in ApiCallers : Underway(d)}}
    /\ apiCall' = [c \in ApiCallers |->
          IF Underway(c) THEN [NotMade EXCEPT !.at = "over", !.provider = apiCall[c].provider]
          ELSE apiCall[c]]
    /\ hits' = [w \in Windows |-> {}] /\ stamps' = [w \in Windows |-> <<>>]
    /\ UNCHANGED <<apiNow, apiRow, evidence, served>>

Tick ==
    /\ apiNow < LastTick /\ apiNow' = apiNow + 1
    /\ UNCHANGED <<apiCall, hits, stamps, apiRow, evidence, served, dropped>>

ApiNext ==
    \/ \E c \in ApiCallers :
          \/ \E capability \in ApiCapabilities, resource, across, named \in BOOLEAN,
                p \in ProviderIndex : MakeCall(c, capability, resource, across, named, p)
          \/ AnswerDown(c) \/ AskAgain(c) \/ TryNextRoute(c) \/ AnswerRefused(c)
          \/ \E n \in 0..AllEvidence : AnswerServed(c, n)
          \/ Interrupted(c)
    \/ ApiRestart \/ Tick

ApiSpec == ApiInit /\ [][ApiNext]_apiVars

-------------------------------------------------------------------------------
CallRecords ==
    [at : {"new", "asking", "pausing", "over"}, capability : ApiCapabilities \cup {"none"},
     resource : BOOLEAN, across : BOOLEAN, named : BOOLEAN, provider : ProviderIndex,
     route : 0..Len(ApiRoutes), attempt : 0..CallRetries + 1]

\* Every call, window and record has its shape: a call in flight is at one of its routes and
\* an attempt, and a window holds entries of what was let through.
ApiTypeOK ==
    /\ apiCall \in [ApiCallers -> CallRecords]
    /\ hits \in [Windows -> SUBSET Nat]
    /\ stamps \in [Windows -> Seq(Nat)]
    /\ \A w \in Windows : hits[w] \subseteq DOMAIN stamps[w]
    /\ apiNow \in Nat
    /\ apiRow \in [ApiOperations -> {"none", "running", "completed", "failed", "blocked"}]
    /\ evidence \in [ApiOperations -> 0..AllEvidence]
    /\ served \subseteq ApiOperations /\ dropped \subseteq ApiOperations

\* control/gateway.py, _allow_rate_limited_call: under one policy and to one host, no more
\* than CallLimit calls go through within any window, whoever makes them and however they
\* are spread over it.
RateIsKept ==
    \A w \in Windows : \A i \in DOMAIN stamps[w] :
        i + CallLimit \in DOMAIN stamps[w]
            => stamps[w][i + CallLimit] - stamps[w][i] >= CallWindow

\* control/gateway.py, call_api_via_capability and _complete_api_job: a job that is shown as
\* running is, or its call was cut off; one shown as completed was answered and all of its
\* evidence is kept; one shown as blocked or failed was never answered, although the
\* providers of a call may share one job that each of them begins again.
ApiCallsAreHonest ==
    \A o \in ApiOperations :
        /\ apiRow[o] = "running" => o \in dropped \/ (Underway(o[1]) /\ Operation(o[1]) = o)
        /\ apiRow[o] = "completed" => o \in served /\ evidence[o] = AllEvidence
        /\ apiRow[o] \in {"blocked", "failed"} => o \notin served /\ evidence[o] = 0
===============================================================================
