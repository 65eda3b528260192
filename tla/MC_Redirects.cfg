SPECIFICATION Spec
CONSTANTS
    Texts = {"", "d", "f", "p", "q", "r", "?x", "ftp:", "away"}
    Hosts = {"home", "HOME", "away", "long"}
    Loopback = {}
    LongHosts = {"long"}
    CaseFold <- MC_CaseFold
    MAX_TARGET_BYTES = 6
    ProxyEnvs = {"unset", "usable"}
    ProxyHost = "proxy"
    NoHost = "nobody"
    Ports = {}
    MaxAddresses = 1
    Values = {"root", "path", "query", "ftp", "away", "sibling", "HOME",
              "plain", "port0", "long", "empty", "bad"}
    Unfit = {"empty"}
    LengthOf <- MC_LengthOf
    LocationOf <- MC_LocationOf
    Calls <- MC_Calls
    Wires <- MC_Wires
    MAX_REDIRECTS = 3
    MAX_HEADER_BYTES = 2
    MAX_CAPTURE_BYTES = 2
    READ_BYTES = 1
INVARIANTS
    CredentialsStayHome
    RequestMatchesEndpoint
    RequestGoesWhereItSays
    HopsBounded
    HeadersFollowOrigin
    
