\* Expected to fail: FinishedVisitStaysDone.
SPECIFICATION Spec
CONSTANTS
    Users = {u1, u2}
    Owners = {o1}
    Nobody = nobody
    MaxId = 1
    Admins = {a1}
    Runners = {r1}
    Timeout = 1
    MaxAutoCount = 1
    Editable <- NoRows
PROPERTIES
    FinishedVisitStaysDone
