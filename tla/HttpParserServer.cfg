SPECIFICATION WsSpec
CONSTANTS
    MAX_REQUEST_LINE = 3
    MAX_HEADER_SIZE = 14
    MAX_HEADERS = 3
    MAX_BODY_SIZE = 3
    MAX_CHUNK_LINE_SIZE = 3
    Messages <- LegalMessages
    MaxMessages = 1
    FreshRequest = TRUE
    UpgradeRequest <- WsRequest
    NoUpgrade <- Keyless
    Frames <- WsFrames
    MaxFrames = 0
    Key <- WsKeyBytes
    Payloads <- WsPayloads
    MaxSends = 0
INVARIANT FragmentSafe
