---------------------------------- MODULE Bids ----------------------------------
(***************************************************************************)
(* marketplace/service.py submit_bid, as /marketplace submit calls it: one    *)
(* bid, several chats.  Each call works on its own copy of the row, awaits    *)
(* the opportunity, the platform and each write, and writes the whole row     *)
(* back at its end.  The approval queue decides synchronously in between.     *)
(***************************************************************************)
EXTENDS Naturals

CONSTANTS Chats,         \* the submissions that may run side by side
          BidApprovals,  \* identifiers of approval requests
          NoApproval     \* no approval_id in the metadata; a post that none covers

ASSUME BidsAssumption == NoApproval \notin BidApprovals

VARIABLES
    bid,        \* the row of bids: its status and approval_id
    approval,   \* what the queue has on record about each request
    step,       \* where a submission is
    copy,       \* the Bid it works on
    accepted    \* what covered each post the platform accepted

bidVars == <<bid, approval, step, copy, accepted>>

Bid == [status : {"draft", "ready", "submitted", "failed"}, approval : BidApprovals \cup {NoApproval}]
Draft == [status |-> "draft", approval |-> NoApproval]

BidsTypeOK ==
    /\ bid \in Bid
    /\ approval \in [BidApprovals -> {"none", "pending", "approved", "denied", "expired", "executed"}]
    /\ step \in [Chats -> {"idle", "loaded", "posting", "marking", "saving"}]
    /\ copy \in [Chats -> Bid]
    /\ accepted \subseteq BidApprovals \cup {NoApproval}

\* /marketplace bid has stored a draft.
BidsInit ==
    /\ bid = Draft
    /\ approval = [a \in BidApprovals |-> "none"]
    /\ step = [c \in Chats |-> "idle"] /\ copy = [c \in Chats |-> Draft]
    /\ accepted = {}

Granted == {"approved", "executed"}

Goes(c, to) == step' = [step EXCEPT ![c] = to]
Becomes(c, status) == copy' = [copy EXCEPT ![c].status = status]
Returns(c) == Goes(c, "idle") /\ copy' = [copy EXCEPT ![c] = Draft]

\* get_bid; get_opportunity is awaited after it.
Load(c) ==
    /\ step[c] = "idle" /\ bid.status # "submitted"
    /\ copy' = [copy EXCEPT ![c] = bid]
    /\ Goes(c, "loaded")
    /\ UNCHANGED <<bid, approval, accepted>>

At(c, status) == step[c] = "loaded" /\ copy[c].status = status

\* DRAFT: propose() is synchronous, the row is written after it.  So is a READY bid whose
\* request was decided and has left the queue's history.
ProposeBid(c) ==
    /\ At(c, "draft") \/ (At(c, "ready") /\ approval[copy[c].approval] # "pending")
    /\ \E a \in BidApprovals :
         /\ approval[a] = "none"
         /\ approval' = [approval EXCEPT ![a] = "pending"]
         /\ copy' = [copy EXCEPT ![c] = [status |-> "ready", approval |-> a]]
    /\ Goes(c, "saving")
    /\ UNCHANGED <<bid, accepted>>

StillPending(c) ==
    /\ At(c, "ready") /\ approval[copy[c].approval] = "pending"
    /\ Returns(c)
    /\ UNCHANGED <<bid, approval, accepted>>

Refused(c) ==
    /\ At(c, "ready") /\ approval[copy[c].approval] \in {"denied", "expired"}
    /\ Becomes(c, "failed") /\ Goes(c, "saving")
    /\ UNCHANGED <<bid, approval, accepted>>

\* READY under a granted approval; and FAILED, which no branch stops.
Posts(c) == \/ At(c, "ready") /\ approval[copy[c].approval] \in Granted
            \/ At(c, "failed")
MutantPost(c) ==                                     \* marks the approval before the call
    /\ Posts(c)
    /\ approval' = [a \in BidApprovals |-> IF a = copy[c].approval /\ approval[a] = "approved"
                                           THEN "executed" ELSE approval[a]]
    /\ Goes(c, "posting")
    /\ UNCHANGED <<bid, copy, accepted>>
Post(c) ==
    /\ Posts(c)
    /\ Goes(c, "posting")
    /\ UNCHANGED <<bid, approval, copy, accepted>>

\* The platform takes the bid; the answer may still be lost.
Warrant(c) == IF copy[c].status = "ready" THEN copy[c].approval ELSE NoApproval
Accept(c) ==
    /\ step[c] = "posting"
    /\ accepted' = accepted \cup {Warrant(c)}
    /\ UNCHANGED <<bid, approval, step, copy>>

\* ok: the opportunity is persisted before the approval is marked.
Answered(c) ==
    /\ step[c] = "posting" /\ Warrant(c) \in accepted
    /\ Becomes(c, "submitted") /\ Goes(c, "marking")
    /\ UNCHANGED <<bid, approval, accepted>>

Unanswered(c) ==
    /\ step[c] = "posting"
    /\ Becomes(c, "failed") /\ Goes(c, "saving")
    /\ UNCHANGED <<bid, approval, accepted>>

\* mark_executed finds an approved request in _history, finds none, or raises on its
\* own write, and then the bid is not written.
Mark(c) ==
    /\ step[c] = "marking"
    /\ \/ approval' = [a \in BidApprovals |-> IF a = copy[c].approval /\ approval[a] = "approved"
                                              THEN "executed" ELSE approval[a]]
       \/ UNCHANGED approval
    /\ \/ Goes(c, "saving") /\ UNCHANGED copy
       \/ Returns(c)
    /\ UNCHANGED <<bid, accepted>>

\* _persist_bid
SaveBid(c) ==
    /\ step[c] = "saving"
    /\ bid' = copy[c]
    /\ Returns(c)
    /\ UNCHANGED <<approval, accepted>>

\* The owner, or the TTL
Decide(a) ==
    /\ approval[a] = "pending"
    /\ \E outcome \in {"approved", "denied", "expired"} : approval' = [approval EXCEPT ![a] = outcome]
    /\ UNCHANGED <<bid, step, copy, accepted>>

\* The process dies: what the submissions had not written is lost.
BidsDie ==
    /\ \E c \in Chats : step[c] # "idle"
    /\ step' = [c \in Chats |-> "idle"] /\ copy' = [c \in Chats |-> Draft]
    /\ UNCHANGED <<bid, approval, accepted>>

BidsNext ==
    \/ \E c \in Chats : \/ Load(c) \/ ProposeBid(c) \/ StillPending(c) \/ Refused(c) \/ Post(c)
                        \/ Accept(c) \/ Answered(c) \/ Unanswered(c) \/ Mark(c) \/ SaveBid(c)
    \/ \E a \in BidApprovals : Decide(a)
    \/ BidsDie

BidsSpec == BidsInit /\ [][BidsNext]_bidVars

(***************************************************************************)
(* Properties                                                              *)
(***************************************************************************)
\* However submissions of one bid overlap, fail and are cut short, a row that says
\* submitted and an approval that says executed both stand for a post the platform
\* accepted, and an approval that covered a post was granted.
RecordsArePosts ==
    /\ bid.status = "submitted" => accepted # {}
    /\ \A a \in BidApprovals : /\ approval[a] = "executed" => accepted # {}
                               /\ a \in accepted => approval[a] \in Granted

\* submit_bid's own words: "Approval-gated", and "READY + approval denied/expired ->
\* FAILED".  The code posts a FAILED bid when it is submitted once more, whatever made it
\* fail: nothing the platform accepts is without a granted approval.
ApprovalGated == NoApproval \notin accepted
===============================================================================
