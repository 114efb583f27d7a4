\* Every called ticket is resolved: time, handlers and sweeps are fair, crashes
\* and failed sweeps may happen again and again.  Beside it, two executions that
\* overlap over any number of days, three of whose batches read the summaries.
SPECIFICATION BatchSpec
CONSTANTS
    Users = {u1}
    Owners = {o1}
    Nobody = nobody
    MaxId = 2
    Admins = {a1}
    Runners = {r1}
    Timeout = 1
    MaxAutoCount = 1
    Editable <- FirstRow
    Ticks = {e1, e2}
    MaxRuns = 3
INVARIANTS
    TypesOK
    NightIsCleared
    SummariesChain
PROPERTIES
    EveryCallIsResolved
