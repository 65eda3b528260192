SPECIFICATION Spec
CONSTANTS
    Texts = {"", "f", "r"}
    Hosts = {"home", "localhost"}
    Loopback = {"localhost"}
    LongHosts = {}
    CaseFold <- MC_CaseFold
    MAX_TARGET_BYTES = 4
    ProxyEnvs = {"unset", "unusable", "usable"}
    ProxyHost = "proxy"
    NoHost = "nobody"
    Ports = {}
    MaxAddresses = 2
    Values = {"", "0", "2", "3", "4", "x"}
    Unfit = {""}
    LengthOf <- MC_LengthOf
    LocationOf <- MC_LocationOf
    Calls <- MC_Calls
    Wires <- MC_Wires
    MAX_REDIRECTS = 1
    MAX_HEADER_BYTES = 4
    MAX_CAPTURE_BYTES = 3
    READ_BYTES = 2
INVARIANTS
    
    FailedHoldsNothing
    OpenIsAuthentic
    ProxyFailsClosed
    TimeoutIsReported
    TypeOK
    NothingHeldBetweenHops
    CapturedIsComplete
    CaptureBounded
    SuccessIsClean
PROPERTIES
    ImplementsHttpCall
    CallAdvances
    CallReturns
