CONSTANTS
    None = None
    Lower <- MCLower
    NameChars = {"p", "c", "-"}
    Strkeys <- MCStrkeys
    HexHash <- MCHexHash
    Crates = {}
    Files = {}
    RootDeployer = "GA"
    RootSalt = "salt"
    HomePath <- MCHomePath
    Spellings = {}
    Manager = "m"
    Wasms = {}
    Authors = {"m", "a"}
    Salts = {"s"}
    Keys = {"k", "l"}
    MaxEdits = 2
    MaxVersions = 2
    MaxDepth = 2
    MaxAccounts = 2

SPECIFICATION MCSpec

CHECK_DEADLOCK FALSE

INVARIANTS
    BuildsResolve
    PredictedIsDeployed
