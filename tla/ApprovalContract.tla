--------------------------- MODULE ApprovalContract ---------------------------
(***************************************************************************)
(* What the human-in-the-loop gate promises the rest of the agent, whatever *)
(* way it stores its requests: a request collects signatures while it is    *)
(* open, is settled once, is approved only by a full quorum of distinct     *)
(* people, and is executed only after it was approved.  ApprovalQueue is    *)
(* shown to implement this module through the rows of its database.        *)
(***************************************************************************)
EXTENDS Naturals, FiniteSets

CONSTANTS Requests,   \* the requests that may ever be made
          Deciders    \* the people who may sign one

VARIABLES state,      \* what is on record about each request
          signers,    \* who has signed it, as far as the record says
          quorum      \* how many distinct signatures it needs

contractVars == <<state, signers, quorum>>

States == {"absent", "open", "approved", "denied", "expired", "executed"}
Unsettled == {"absent", "open"}

ContractInit ==
    /\ state = [r \in Requests |-> "absent"]
    /\ signers = [r \in Requests |-> {}]
    /\ quorum = [r \in Requests |-> 1]

(* The record may change only about requests that are not settled.  They lose no *)
(* signature, and the quorum is fixed once the record mentions the request.      *)
Amend(R) ==
    /\ state' \in [Requests -> States]
    /\ signers' \in [Requests -> SUBSET Deciders]
    /\ quorum' \in [Requests -> Nat \ {0}]
    /\ \A r \in R : /\ state[r] \in Unsettled
                    /\ signers[r] \subseteq signers'[r]
                    /\ state[r] = "open" => quorum'[r] = quorum[r]
    /\ \A r \in Requests \ R : /\ state'[r] = state[r]
                               /\ signers'[r] = signers[r]
                               /\ quorum'[r] = quorum[r]

Sign(r) == Amend({r}) /\ state'[r] = "open"

Approve(r) ==
    /\ Amend({r})
    /\ state'[r] = "approved"
    /\ Cardinality(signers'[r]) >= quorum'[r]

Refuse(r) == Amend({r}) /\ state'[r] = "denied"

\* Time runs out for any number of requests at once.
Lapse(R) == Amend(R) /\ \A r \in R : state'[r] = "expired"

Execute(r) ==
    /\ state[r] = "approved"
    /\ state' = [state EXCEPT ![r] = "executed"]
    /\ UNCHANGED <<signers, quorum>>

ContractNext ==
    \/ \E r \in Requests : Sign(r) \/ Approve(r) \/ Refuse(r) \/ Execute(r)
    \/ \E R \in SUBSET Requests : Lapse(R)

Contract == ContractInit /\ [][ContractNext]_contractVars

===============================================================================
