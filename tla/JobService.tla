------------------------------ MODULE JobService ------------------------------
(***************************************************************************)
(* What running jobs in the background promises those who schedule them:    *)
(* a job that was accepted begins in its turn, no more run at a time than    *)
(* there are slots for, each is tried a bounded number of times and ends     *)
(* once, given up only after the last try.  JobRunner is shown to implement  *)
(* this module.                                                              *)
(***************************************************************************)
EXTENDS Naturals, FiniteSets

CONSTANTS Jobs, MaxConcurrent, MaxRetries

VARIABLES
    stage,    \* how far each job is
    retries,  \* how often it was tried again
    ahead     \* the pairs of accepted jobs of which the first is before the second

serviceVars == <<stage, retries, ahead>>

Running == {j \in Jobs : stage[j] = "running"}

ServiceInit ==
    /\ stage = [j \in Jobs |-> "none"]
    /\ retries = [j \in Jobs |-> 0]
    /\ ahead = {}

Leaves(j) == ahead' = {p \in ahead : p[1] # j /\ p[2] # j}

Accept(j) ==
    /\ stage[j] = "none"
    /\ stage' = [stage EXCEPT ![j] = "scheduled"]
    /\ ahead' = ahead \cup {<<i, j>> : i \in {k \in Jobs : stage[k] = "scheduled"}}
    /\ UNCHANGED retries

Begin(j) ==
    /\ stage[j] = "scheduled" /\ Cardinality(Running) < MaxConcurrent
    /\ \A p \in ahead : p[2] # j
    /\ stage' = [stage EXCEPT ![j] = "running"]
    /\ Leaves(j)
    /\ UNCHANGED retries

TryAgain(j) ==
    /\ stage[j] = "running" /\ retries[j] < MaxRetries
    /\ retries' = [retries EXCEPT ![j] = @ + 1]
    /\ UNCHANGED <<stage, ahead>>

Finish(j) ==
    /\ stage[j] = "running"
    /\ stage' = [stage EXCEPT ![j] = "completed"]
    /\ UNCHANGED <<retries, ahead>>

Abandon(j) ==
    /\ stage[j] = "running" /\ retries[j] = MaxRetries
    /\ stage' = [stage EXCEPT ![j] = "dead_lettered"]
    /\ UNCHANGED <<retries, ahead>>

CallOff(j) ==
    /\ stage[j] \in {"scheduled", "running"}
    /\ stage' = [stage EXCEPT ![j] = "cancelled"]
    /\ Leaves(j)
    /\ UNCHANGED retries

ServiceNext ==
    \E j \in Jobs :
        Accept(j) \/ Begin(j) \/ TryAgain(j) \/ Finish(j) \/ Abandon(j) \/ CallOff(j)

ServiceSpec == ServiceInit /\ [][ServiceNext]_serviceVars
===============================================================================
