SPECIFICATION QueueSpec
CONSTANTS
    Requests = {r1, r2, r3}
    Deciders = {ann, bob}
    MaxHistory = 1
    LoadLimit = 2
    Asked = {0, 2}
    WriteOutcomes = {TRUE, FALSE}
SYMMETRY Interchangeable
INVARIANTS QuorumBehindGrant ToldIsKept ApprovalReachable
PROPERTIES NoLateGrant KeepsPromise
CHECK_DEADLOCK FALSE
