CONSTANTS
    None = None
    U32Max = 4
    U64Max = 6
    SelfAddr = "CSELF"
    StrkeyLead <- MCStrkeyLead
    HexDecode <- MCHexDecode
    Sha256Hexes = {}
    FieldElements = {}
    Decimals <- MCDecimals
    Symbols = {"f", "transfer", "g"}
    Spelling <- MCSpelling
    MaxStringPredLen = 2
    MaxSignerKeyLen = 2
    MaxProgramLen = 6
    MaxStackDepth = 4
    MaxStrArgLen = 2
    Network = "net"
    MaxDocSigners = 2
    MaxDocRules = 3
    LongNames = {"long"}
    MaxDocCanonicalBytes = 4
    CanonicalBytes <- MCCanonicalBytes
    Canonicalize <- MCCanonicalize
    Docs <- MCDocs
    Calls <- MCCalls
    SigningKeys <- MCKeys
    LedgerMax = 4
    MaxSpends = 3
    Commands <- MCCommands
    Invocations <- MCInvocations
    Escape = 9
    MaxLen = 3
    Ops <- MCOps
    Programs <- MCPrograms
    Inputs <- MCInputs

SPECIFICATION MCSpec

CHECK_DEADLOCK FALSE

INVARIANT StringsReadAsWritten
