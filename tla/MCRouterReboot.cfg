SPECIFICATION RouterSpec
CONSTANTS
    ping = ping
    task = task
    brain = brain
    Messages = {ping, task}
    Modules = {brain}
    Target <- AllToBrain
    Priority <- AllNormal
    MaxRetries = 1
    MaxDead = 1
    MaxSeq = 3
    WriteOutcomes = {TRUE, FALSE}
    ClockResets = {TRUE, FALSE}
    NoMessage = NoMessage
CHECK_DEADLOCK FALSE
INVARIANT NoTie
