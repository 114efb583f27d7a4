\* Two threads serve two users while administrators change types, accounts and
\* flags in between.
SPECIFICATION Spec
CONSTANTS
    t1 = t1
    t2 = t2
    o1 = o1
    o2 = o2
    Users = {u1, u2}
    Owners = {o1, o2}
    Types = {t1, t2}
    Names = {n1, n2}
    TypeOwner <- OwnerOf
    None = none
    Removed = removed
    Workers = {w1, w2}
    MaxId = 2
    MaxEdits = 1
SYMMETRY Symmetry
INVARIANTS
    StopsAreHonoured
    ConfirmedIsStored
    KnownTicketIsCancelled
PROPERTIES
    AheadNeverGrows
