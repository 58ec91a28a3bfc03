CONSTANTS
    None = None
    Nothing = Nothing
    Unset = Unset
    r1 = r1
    r2 = r2
    r3 = r3
    a = a
    Requests = {r1, r2, r3}
    Guardians <- MCGuardians
    Expiries = {1, 2}
    Simulated = TRUE
    Ttl = 2
    MaxClock = 2
    Posted <- Every
    MaxAttempts = 3
    SnapshotAttempts = 2
    FinalReadAttempts = 2
    MaxLedger = 4
    Freezes = TRUE
    Addresses = {a}
    ContractId <- Ids
    Enrollments <- Five
    Secrets <- OneSecret
    Commitments <- Honest
    Depth = 2
    ChunkLevel = 1
    TreeIdMax = 1
    MaxPage = 2
    MaxInserts = 5
    CircuitId = c
    Circuits = {c}
    Subjects = {1}
    PageLimit = 2
    MaxPages = 2
    MaxCrashes = 1
    MaxAnswers = 1

SPECIFICATION MCSpec

CHECK_DEADLOCK FALSE

PROPERTY NeverShortened
