CONSTANTS
    None = None
    Self = Self
    Interpreter = Interpreter
    SpendingLimit = SpendingLimit
    Admin = adminName
    RecoveryName = recovery
    adminName = adminName
    tokenName = tokenName
    i1 = i1
    i2 = i2
    x = x
    y = y
    z = z
    token = token
    c1 = c1
    c2 = c2
    Controllers = {c1, c2}
    Signers = {x, y, z}
    AdminSigners <- MCAdmin
    MaxPolicies = 5
    LedgerMax = 3
    MaxApplies = 3
    MaxSpent = 1
    Docs <- MCDocs

SPECIFICATION MCSpec

\* Ledgers and applies are bounded: behaviours end.
CHECK_DEADLOCK FALSE

INVARIANTS
    InstallsExactly
    NeverDearerThanFull

PROPERTIES
    WindowSurvives
    ImplementsFullReplacement
