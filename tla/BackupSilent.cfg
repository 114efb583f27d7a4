\* The reset of the sequences breaks the transaction of every full import.
SPECIFICATION Spec
CONSTANTS
    Owners = {o1, o2}
    Users = {u1, u2}
    Names = {n1, n2}
    Full = full
    MaxType = 2
    MaxRes = 2
    MaxNew = 1
SYMMETRY Symmetry
PROPERTIES
    FullRestoreIsFile
