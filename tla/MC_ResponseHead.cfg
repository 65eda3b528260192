SPECIFICATION Spec
CONSTANTS
    Texts = {"", "f", "r"}
    Hosts = {"home"}
    Loopback = {}
    LongHosts = {}
    CaseFold <- MC_CaseFold
    MAX_TARGET_BYTES = 4
    Values = {"", "5", "7", "x", "identity"}
    Unfit = {""}
    LengthOf <- MC_LengthOf
    LocationOf <- MC_LocationOf
    Names = {"", "content-length", "transfer-encoding", "content-encoding", "etag"}
    MaxLines = 3
CHECK_DEADLOCK FALSE
INVARIANTS
    FramingHasOneReading
    IdentityIsMeant
