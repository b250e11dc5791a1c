SPECIFICATION DeliverySpec
CONSTANTS
    Requests = {r1, r2}
    Deciders = {ann}
    MaxHistory = 1
    LoadLimit = 1
    Asked = {1, 2}
    WriteOutcomes = {TRUE}
    Jobs = {build}
    Severe = {}
    Senders = {s1, s2}
    Routes = 2
    Retries = 1
    None = None
PROPERTY SendEnds
CHECK_DEADLOCK FALSE
