\* Two groups, one modset, two requests at a time.
CONSTANTS
    u1 = u1  u2 = u2  u3 = u3  g1 = g1  g2 = g2  s1 = s1  r1 = r1  r2 = r2
    Nobody = Nobody
    Users = {u1, u2, u3}
    Admins = {u1}
    Members = {u2, u3}
    Groups = {g1, g2}
    Modsets = {s1}
    Owner <- OwnedBy
    Shares <- SomeShares
    Requests = {r1, r2}
SYMMETRY Symmetry
SPECIFICATION Spec
INVARIANTS
    TypeOK
    AsChosen
PROPERTY OnlyManagersShare
