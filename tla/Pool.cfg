CONSTANTS
    None = None
    a = a
    b = b
    g = g
    Addresses = {a, b, g}
    ContractId <- Ids
    Enrollments <- Five
    Secrets <- TwoSecrets
    Commitments <- MCCommitments
    Depth = 2
    TreeIdMax = 1
    MaxPage = 2
    MaxInserts = 5
    CircuitId = c
    Circuits = {c, d}
    Subjects = {1, 2}

SPECIFICATION MCSpec

\* Insertions are bounded: behaviours end.
CHECK_DEADLOCK FALSE

INVARIANTS
    PoolIsItsTrees
    AcceptedIffEnrolled
