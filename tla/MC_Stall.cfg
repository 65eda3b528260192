SPECIFICATION Spec
CONSTANTS
    Texts = {"", "d", "f", "p", "q", "r", "?x", "ftp:", "away"}
    Hosts = {"home", "HOME", "away", "long"}
    Loopback = {}
    LongHosts = {"long"}
    CaseFold <- MC_CaseFold
    MAX_TARGET_BYTES = 6
    ProxyEnvs = {"unset", "usable"}
    ProxyHost = "proxy"
    NoHost = "nobody"
    Ports = {}
    MaxAddresses = 1
    Values = {"empty", "bad"}
    Unfit = {"empty"}
    LengthOf <- MC_LengthOf
    LocationOf <- MC_LocationOf
    Calls <- MC_Calls
    Wires <- MC_Wires
    MAX_REDIRECTS = 1
    MAX_HEADER_BYTES = 2
    MAX_CAPTURE_BYTES = 2
    READ_BYTES = 1
PROPERTY
    WritesAreBounded
