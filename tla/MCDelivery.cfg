SPECIFICATION DeliverySpec
CONSTANTS
    Requests = {r1, r2}
    Deciders = {ann, bob}
    MaxHistory = 1
    LoadLimit = 1
    Asked = {1, 2}
    WriteOutcomes = {TRUE}
    Jobs = {build, review}
    Severe = {build}
    Senders = {s1, s2}
    Routes = 2
    Retries = 1
    None = None
SYMMETRY Interchangeable
INVARIANTS SentSigned RecordFollowsRequest HandOffConsumes
CHECK_DEADLOCK FALSE
