SPECIFICATION BidsSpec
CONSTANTS
    Chats = {c1, c2}
    BidApprovals = {a1, a2}
    NoApproval = none
INVARIANT ApprovalGated
CHECK_DEADLOCK FALSE
