\* Two accounts, two requests at a time, one change of a session version; three logins at a time.
CONSTANTS
    u1 = u1  u2 = u2  u3 = u3  r1 = r1  r2 = r2
    t1 = t1  t2 = t2  t3 = t3
    Nobody = Nobody
    Users = {u1, u2}
    Requests = {r1, r2}
    Changes <- FourChanges
    Creations <- ThreeCreations
    MaxVersion = 1
    Logins = {t1, t2, t3}
    Limit = 2
    Window = 2
    MaxFailures = 4
SYMMETRY Symmetry
SPECIFICATION AllSpec
INVARIANTS
    TypeOK
    SessionsRevoked
    AdminRemains
    FailuresBounded
PROPERTY RefusalsEarned
