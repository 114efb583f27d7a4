\* Overlapping batches of up to two tickets and an admin_call race for two
\* tickets, the first of which the status screen may edit at any time, with
\* crashes, failed sweeps and failed rollbacks.
SPECIFICATION Spec
CONSTANTS
    Users = {u1, u2}
    Owners = {o1}
    Nobody = nobody
    MaxId = 2
    Admins = {a1}
    Runners = {r1, r2}
    Timeout = 1
    MaxAutoCount = 2
    Editable <- FirstRow
SYMMETRY UserSymmetry
INVARIANTS
    OneActivePerUser
    StampsMatchStatus
    ExclusiveCallers
    NoSilentCall
PROPERTIES
    ConfirmedCallStands
    ImplementsLifecycle
