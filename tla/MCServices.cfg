CONSTANTS
    p1 = p1  p2 = p2  m1 = m1  m2 = m2  l1 = l1  l2 = l2  r1 = r1
    Procs = {p1, p2}
    Plan <- MigrateSchema
    TableOf <- Tables
    Chosen <- Choices
    Installed <- Schemas
    MaxStops = 1
    MaxIds = 2
    Timeout = 4
    Settle = 2
    Scopes = {m1, m2}
    Polls = {l1, l2}
    Requests = {r1}
    MaxRequests = 1
    MaxOthers = 1
    MaxSwitches = 2
    MaxLosses = 1
SPECIFICATION Spec
INVARIANTS
    OldRowsFilled
    ProbeCleaned
    LateFileTaken
PROPERTIES
    ChoicesRetained
    StartsSucceed
    ProbeEnds
    PollNeverOlder
    TabSettles
CHECK_DEADLOCK FALSE
