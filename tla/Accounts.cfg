\* Two browsers manage up to three accounts; renaming audit and a restart make
\* a second audit administrator.  Two accounts, two of whose tabs press the button.
\* Nobody can log in any more when every account is deactivated.
SPECIFICATION AdministratorsSpec
CONSTANTS
    Names = {admin, audit, n1}
    AdminName = admin
    AuditName = audit
    NoName = none
    Browsers = {b1, b2}
    MaxId = 3
    Accounts = {a1, a2}
    Tabs = {tab1, tab2}
CHECK_DEADLOCK FALSE
SYMMETRY Symmetry
INVARIANTS
    TypesOK
    AuditAdminRemains
PROPERTIES
    TogglesFlip
