\* Two mods, one of them in two spellings, in two modsets, two callers, two workers, two faults.
CONSTANTS
    lower = lower  upper = upper  other = other
    s1 = s1  s2 = s2  c1 = c1  c2 = c2  w1 = w1  w2 = w2
    Ids = {lower, upper, other}
    Upper <- Spelling
    Modsets = {s1, s2}
    Callers = {c1, c2}
    Workers = {w1, w2}
    MaxFaults = 2
SPECIFICATION FairSpec
INVARIANTS
    Deduplicated
PROPERTIES
    JobsEnd
