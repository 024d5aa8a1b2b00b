\* Two modsets that track one mod, a webhook, one process, two versions.
CONSTANTS
    p1 = p1  p2 = p2  e1 = e1  e2 = e2  w1 = w1 s1 = s1  s2 = s2  m1 = m1
    Nothing = Nothing
    Processes = {p1}
    Editors = {}
    Hooks = {w1}
    Modsets = {s1, s2}
    Mods = {m1}
    Changes <- FourChanges
    MaxVersion = 2
    MaxEdits = 1
    MaxFaults = 2
SPECIFICATION FairSpec
PROPERTIES
    Announced
