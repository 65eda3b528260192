SPECIFICATION ConnSpec
CONSTANTS
    Texts = {"", "f", "r"}
    Hosts = {"origin", "mirror", "localhost"}
    Loopback = {"localhost"}
    CaseFold <- MC_CaseFold
    ProxyEnvs = {"unset", "unusable", "usable"}
    ProxyHost = "proxy"
    NoHost = "nobody"
    Ports = {443}
    MaxAddresses = 2
INVARIANT
    TimeoutIsReal
