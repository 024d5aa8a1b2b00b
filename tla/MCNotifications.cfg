\* A modset that tracks one mod, a webhook, two processes and two
\* administrators.
CONSTANTS
    p1 = p1  p2 = p2  e1 = e1  e2 = e2  w1 = w1 s1 = s1  s2 = s2  m1 = m1
    Nothing = Nothing
    Processes = {p1, p2}
    Editors = {e1, e2}
    Hooks = {w1}
    Modsets = {s1}
    Mods = {m1}
    Changes <- FourChanges
    MaxVersion = 1
    MaxEdits = 3
    MaxFaults = 1
SYMMETRY Symmetry
SPECIFICATION Spec
INVARIANTS
    TypeOK
    DeliveriesReceived
    SentOnce
    ScopeChosen
