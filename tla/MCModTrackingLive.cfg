\* One request, a queue worker, the scheduled refresh, a release, a failure:
\* everything heals.
CONSTANTS
    a = a  b = b  c = c  r1 = r1  r2 = r2  w1 = w1  cron = cron
    Mods = {a, b}
    Callers = {r1}
    Workers = {w1}
    Schedulers = {cron}
    Graphs <- Growing
    Versionless = {}
    MaxRounds = 1
    MaxRequests = 1
    MaxReleases = 1
    MaxFailures = 1
SPECIFICATION LiveSpec
PROPERTIES
    OperationsEnd
    Converges
CHECK_DEADLOCK FALSE
