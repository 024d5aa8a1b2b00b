\* Two modsets over time, two requests at a time; u1 is an administrator.
CONSTANTS
    u1 = u1  u2 = u2  s1 = s1  s2 = s2  r1 = r1  r2 = r2
    Nobody = Nobody  None = None
    Users = {u1, u2}
    Admins = {u1}
    Modsets = {s1, s2}
    Names = {"strasse", "Strasse", "sharp", "Sharp", "Default"}
    Shares <- Sharing
    Created = {"strasse", "sharp"}
    Renamed = {"Strasse", "Sharp"}
    Default = "Default"
    Lower <- LowerName
    Fold <- FoldedName
    Requests = {r1, r2}
SYMMETRY Symmetry
CONSTRAINT OneText
SPECIFICATION Spec
INVARIANTS
    TypeOK
    ModsetRemains
    NamesDistinct
    ActiveVisible
PROPERTY ChoiceKept
