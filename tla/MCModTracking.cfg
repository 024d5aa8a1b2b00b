\* Two concurrent requests and a queue worker over a chain of three mods.
CONSTANTS
    a = a  b = b  c = c  r1 = r1  r2 = r2  w1 = w1  cron = cron
    Mods = {a, b, c}
    Callers = {r1, r2}
    Workers = {w1}
    Schedulers = {}
    Graphs <- Releases
    Versionless = {c}
    MaxRounds = 2
    MaxRequests = 2
    MaxReleases = 0
    MaxFailures = 0
SPECIFICATION SafeSpec
INVARIANTS
    TypeOK
    QuietClosed
PROPERTY
    QueueSpec
CHECK_DEADLOCK FALSE
