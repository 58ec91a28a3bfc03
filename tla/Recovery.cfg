CONSTANTS
    None = None
    c1 = c1
    c2 = c2
    g1 = g1
    g2 = g2
    s1 = s1
    s2 = s2
    k1 = k1
    k2 = k2
    k3 = k3
    e1 = e1
    e2 = e2
    m1 = m1
    m2 = m2
    w2 = w2
    ThisAccount = self
    Guardians = {g1, g2}
    Keys = {k1, k2, k3}
    KeyKind <- MCKeyKind
    OwnerDocs <- MCDocs
    Asked <- MCAsked
    UpgradeDelay = 1
    MaxRevision = 3
    Covered = {"Loss", "Protected", "Quorum"}
    Controllers = {c1}
    Slots = {s1}
    EnrollIds = {}
    Commitments = {}
    Wired = {}
    Wasms = {w1}
    LedgerMax = 5
    MaxTtl = 1
    MaxAttempts = 2
    NewKeys = {k2}
    Rotations = {}
    Deadlines = {1, 2}
    MaxUpgrades = 0

SPECIFICATION MCSpec

\* The clock, attempts and revisions are bounded: behaviours end.
CHECK_DEADLOCK FALSE

INVARIANTS
    FreezeMirror
    AuthorizedEvidence
    LifetimeCancelCap

PROPERTIES
    ProtectedChangeNeedsCondition
    DeadStaysDead
    FreezeEnds
