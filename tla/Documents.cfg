CONSTANTS
    None = None
    U32Max = 4
    U64Max = 6
    SelfAddr = "CSELF"
    StrkeyLead <- MCStrkeyLead
    HexDecode <- MCHexDecode
    Sha256Hexes = {"sha", "SHA"}
    FieldElements = {"sha"}
    Decimals <- MCDecimals
    Symbols = {"f", "transfer", "a", "b"}
    Spelling <- MCSpelling
    MaxStringPredLen = 2
    MaxSignerKeyLen = 1
    MaxProgramLen = 6
    MaxStackDepth = 4
    MaxStrArgLen = 2
    Network = "net"
    MaxDocSigners = 2
    MaxDocRules = 2
    LongNames = {"long", "accents"}
    ManyChars = {"long"}
    NonAscii = {"accent", "accents"}
    StrkeyShape <- MCStrkeyShape
    WideLimits = {"wide"}
    MaxDocCanonicalBytes = 6
    CanonicalBytes <- MCCanonicalBytes
    Canonicalize <- MCCanonicalize
    Originals <- Bordering
    Strings <- MCSchemaStrings
    Numbers = {0, 1, 2, 3, 4, 5}
    Junk <- MCJunk
    Gained = {"address", "stray"}
    Structure = TRUE
    MaxEdits = 2

SPECIFICATION MCSpec

CHECK_DEADLOCK FALSE

INVARIANTS
    TextIsWhatIsHashed
    NoLateRefusal
    RecoveryCanBeCarriedOut
    SchemaAgreesWithCompiler
