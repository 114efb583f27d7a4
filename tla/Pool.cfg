\* Two requests and a worker with nested blocks share a pool of four slots.
SPECIFICATION Spec
CONSTANTS
    Conns = {c1, c2, c3, c4, c5}
    None = none
    Requests = {r1, r2}
    Workers = {w1, w2}
    MinConn = 2
    MaxConn = 4
    MaxDepth = 2
SYMMETRY Symmetry
INVARIANTS
    OneHolder
    LiveConnectionsReturn
