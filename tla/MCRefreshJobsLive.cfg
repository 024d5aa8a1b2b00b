\* Two mods, two processes, a fault: every attempt and every call ends.
CONSTANTS
    s1 = s1  m1 = m1  m2 = m2  p1 = p1  p2 = p2
    w1 = w1  w2 = w2  c1 = c1  a1 = a1
    Modsets = {s1}
    Procs = {p1, p2}
    Workers = {w1}
    SyncCalls = {c1}
    AsyncCalls = {a1}
    ProcOf <- LoneWorker
    Mods = {m1, m2}
    Editable <- FirstKey
    MaxAttempts = 2
    MaxFaults = 1
SPECIFICATION LiveSpec
PROPERTIES
    AttemptsEnd
    SyncCallsReturn
CHECK_DEADLOCK FALSE
