\* Two transactions, a starting process and an administrator; XXX wraps at 2.
\* Beside it, a process with two threads over a new database or one with two
\* old rows, or two processes with a thread each.
SPECIFICATION StartupSpec
CONSTANTS
    Owners = {12}
    Workers = {w1, w2}
    SeqMax = 2
    Ys = {0, 9}
    As = {0, 7}
    MaxRows = 3
    t1 = t1
    t2 = t2
    process = process
    other = other
    Null = null
    Type = type
    Admin = admin
    Rows = {1, 2}
    Users = {user}
    MaxResets = 1
    MaxErrors = 1
INVARIANTS
    TypesOK
    NumbersWellFormed
    ServedOnSchema
PROPERTIES
    SequenceAdvances
    RepairsStand
    RequestsReturn
    BecomesReady
