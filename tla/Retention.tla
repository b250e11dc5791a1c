------------------------------- MODULE Retention -------------------------------
(***************************************************************************)
(* control/state.py: the retained copies of artifacts.  A record expires when *)
(* its days have passed, is pruned of its content by the cron job some time    *)
(* later, and is active or expired again when its job records it again.  Each *)
(* listing reads the rows updated last, up to a limit, and refreshes them.    *)
(* hard_delete_pruned_artifacts() deletes the rows whose status is 'PRUNED',   *)
(* and there are none: the status is stored as 'pruned'.                      *)
(***************************************************************************)
EXTENDS Naturals, Sequences, FiniteSets

CONSTANTS Artifacts,  \* record identifiers
          Limit       \* how many rows a listing reads

ASSUME RetentionAssumption == IsFiniteSet(Artifacts) /\ Limit \in Nat \ {0}

VARIABLES
    retained,   \* ArtifactRetentionRecord.status, "none" without a row
    passed,     \* the records whose expires_at is past
    recency     \* the rows by updated_at, the latest first

retentionVars == <<retained, passed, recency>>

RetentionTypeOK ==
    /\ retained \in [Artifacts -> {"none", "active", "expired", "pruned"}]
    /\ passed \subseteq Artifacts
    /\ recency \in UNION {[1..n -> Artifacts] : n \in 0..Cardinality(Artifacts)}

RetentionInit ==
    /\ retained = [a \in Artifacts |-> "none"]
    /\ passed = {} /\ recency = <<>>

Arrangements(S) == {q \in [1..Cardinality(S) -> S] : \A a \in S : \E i \in DOMAIN q : q[i] = a}

\* The rows of S were written: within one clock tick in any order, before all others, which
\* keep theirs.
Newer(a, b) == \E i, j \in DOMAIN recency : i < j /\ recency[i] = a /\ recency[j] = b
Touched(S) ==
    recency' \in {q \in Arrangements(S \cup {recency[i] : i \in DOMAIN recency}) :
        \A i, j \in DOMAIN q : i < j => q[i] \in S \/ (q[j] \notin S /\ Newer(q[i], q[j]))}

\* _refresh_retention_record
Fresh(a) == IF a \in passed THEN "expired" ELSE "active"
MutantStale(S) == {}                                   \* the listing shows what is stored
Stale(S) == {a \in S : retained[a] = "active" /\ Fresh(a) = "expired"}

\* record_retained_artifact: created_at survives, the status does not.
Retain(a) ==
    /\ retained' = [retained EXCEPT ![a] = Fresh(a)]
    /\ Touched({a})
    /\ UNCHANGED passed

ExpireAt(a) ==
    /\ retained[a] # "none" /\ a \notin passed
    /\ passed' = passed \cup {a}
    /\ UNCHANGED <<retained, recency>>

\* get_retained_artifact, and the listings that prune nothing
Refresh(S) ==
    /\ Stale(S) # {}
    /\ retained' = [a \in Artifacts |-> IF a \in Stale(S) THEN "expired" ELSE retained[a]]
    /\ Touched(Stale(S))
    /\ UNCHANGED passed

Listed == {recency[i] : i \in {j \in DOMAIN recency : j <= Limit}}

\* prune_retained_artifacts; each row is a commit, and the process may die after some.
Expired(a) == a \in Stale(Listed) \/ retained[a] = "expired"
Prunable == {a \in Listed : Expired(a)}
Prune(done) ==
    /\ Prunable # {}
    /\ retained' = [a \in Artifacts |-> IF a \in done THEN "pruned"
                                        ELSE IF a \in Stale(Listed) THEN "expired" ELSE retained[a]]
    /\ Touched(Stale(Listed) \cup done)
    /\ UNCHANGED passed

PruneAll == Prune(Prunable)
PruneCut == \E done \in SUBSET Prunable : Prune(done)

RetentionNext ==
    \/ \E a \in Artifacts : Retain(a) \/ ExpireAt(a) \/ Refresh({a})
    \/ Refresh(Listed) \/ PruneAll \/ PruneCut

\* The pruning loop of core/cron.py comes round every six hours.
RetentionFairness == WF_retentionVars(PruneAll)
RetentionSpec == RetentionInit /\ [][RetentionNext]_retentionVars /\ RetentionFairness

(***************************************************************************)
(* Properties                                                              *)
(***************************************************************************)
\* The content of a record is dropped some time after its days have passed, whatever is
\* recorded again and read meanwhile, as long as one listing reaches all the rows.  Beyond
\* that the latest rows, which the pruned ones become and stay, hide the older ones.
ExpiredIsPruned ==
    \A a \in Artifacts :
        retained[a] # "none" /\ a \in passed ~> retained[a] = "pruned" \/ Len(recency) > Limit
===============================================================================
