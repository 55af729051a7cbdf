CONSTANTS
    KeyTypes <- MCKeyTypes
    Bases <- MCBases
    Subs <- MCSubs
    AnyHash = "any"
    NoSub = "-"
    FullLength <- MCFullLength
    MacTypes <- MCMacTypes
    NoAlgorithm <- MCNoAlgorithm
    Requests <- MCRequests
    Wanted <- MCWanted
    MaxKeys <- MCMaxKeys
    TagLengths <- MCTagLengths
    NeedLengths = {"ccm"}
    AdLimit <- MCAdLimit
    MacSizeMax = 64
    Rooms = {8, 16, 64}
    MaxLength = 1
    MaxCalls = 4
    HashLength = 2
    LastBlock = 3
    Lengths = {0, 2, 3}
    PskMaxSize = 2
    ReadLengths = {0, 1, 2, 3, 5, 7}
SPECIFICATION CoreSpec
INVARIANTS
    CopiesPermitNothingNew
    TagsConform
    DriverCallsInOrder
    TypeOK
    OutputIsStream
    OutputNeedsInputs
    WithinAllowance
    LastBlockSuffices
    KeysNeedKeys
    InputsAreOwned
    NothingAfterFailure
