CONSTANTS
    None = None
    c1 = c1
    c2 = c2
    g1 = g1
    g2 = g2
    s1 = s1
    s2 = s2
    k1 = k1
    k2 = k2
    k3 = k3
    e1 = e1
    e2 = e2
    m1 = m1
    m2 = m2
    w2 = w2
    ThisAccount = self
    Guardians = {g1, g2}
    Keys = {k1, k2, k3}
    KeyKind <- MCKeyKind
    OwnerDocs <- MCDocs
    Asked <- MCAsked
    UpgradeDelay = 1
    MaxRevision = 3
    Covered = {"Pair", "Zk", "Switch", "Upgrade"}
    Controllers = {c1, c2}
    Slots = {s1, s2}
    EnrollIds = {e1, e2}
    Commitments = {m1, m2}
    Wired <- MCWired
    Wasms = {w1, w2}
    LedgerMax = 4
    MaxTtl = 1
    MaxAttempts = 1
    NewKeys = {k1, k2, k3}
    Rotations <- MCRotations
    Deadlines = {1}
    MaxUpgrades = 2

SPECIFICATION MCSpec

\* The clock, attempts, revisions and requests are bounded: behaviours end.
CHECK_DEADLOCK FALSE

INVARIANTS
    RecoveryInv
    RevokedNeverApplied
    AuthorizedCompletable
    EnrolledFactorProvable

PROPERTY
    UpgradeRetiresEvidence
