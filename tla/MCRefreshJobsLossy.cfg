\* A lock connection can be cut while its process lives on.
CONSTANTS
    s1 = s1  m1 = m1  m2 = m2  p1 = p1  p2 = p2
    w1 = w1  w2 = w2  c1 = c1  a1 = a1
    Modsets = {s1}
    Procs = {p1, p2}
    Workers = {w1, w2}
    SyncCalls = {c1}
    AsyncCalls = {a1}
    ProcOf <- PoolAndCall
    Mods = {m1}
    Editable = {}
    MaxAttempts = 2
    MaxFaults = 1
SPECIFICATION LossySpec
PROPERTIES
    TerminalIsFinal
CHECK_DEADLOCK FALSE
