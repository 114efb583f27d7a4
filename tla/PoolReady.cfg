\* CSV exports use the pool up.
SPECIFICATION Spec
CONSTANTS
    Conns = {c1, c2}
    None = none
    Requests = {r1}
    Workers = {w1}
    MinConn = 1
    MaxConn = 2
    MaxDepth = 2
INVARIANTS
    IdleProcessIsReady
