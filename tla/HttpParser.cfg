SPECIFICATION WsSpec
CONSTANTS
    MAX_REQUEST_LINE = 3
    MAX_HEADER_SIZE = 14
    MAX_HEADERS = 3
    MAX_BODY_SIZE = 3
    MAX_CHUNK_LINE_SIZE = 3
    Messages <- AllMessages
    MaxMessages = 2
    FreshRequest = FALSE
    UpgradeRequest <- WsRequest
    NoUpgrade <- Keyless
    Frames <- WsFrames
    MaxFrames = 2
    Key <- WsKeyBytes
    Payloads <- WsPayloads
    MaxSends = 2
INVARIANTS
    TypeOK
    FragmentSafe
    LegalGetsThrough
    MemoryBounded
    FramesRight
    MessagesDecode
