SPECIFICATION MCSpec
CONSTANTS
    k1 = k1  k2 = k2  ci = ci  me = me  reg = reg  none = none
    Account = me  Registry = reg  Passphrase = "net"  None = none
    Keys <- MCKeys
    AdminSigners <- MCAdminSigners
    BadNames = {"bad"}
    Lifetime = 0
    ToolRuns <- MCRuns
    Cmd <- MCCmd
    LedgerMax = 2
    OtherDocs = {}
    MaxOther = 3
    Covered = {"Recovery"}
CHECK_DEADLOCK FALSE
PROPERTY AppliedVerifies
