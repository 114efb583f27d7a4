\* Two accounts, two customers, two types of one name, two tickets.
SPECIFICATION Spec
CONSTANTS
    Owners = {o1, o2}
    Users = {u1, u2}
    Names = {n1}
    Full = full
    MaxType = 2
    MaxRes = 2
    MaxNew = 1
SYMMETRY Symmetry
INVARIANTS
    TablesConsistent
    SequencesAheadOfSeen
PROPERTIES
    OthersUntouched
    
