SPECIFICATION Spec
CONSTANTS
    MAX_HOST_BYTES = 30
    MAX_REDIRECTS = 2
    SLACK = 32
    Requests <- MC_Requests
    Endpoints <- MC_Endpoints
    LineLengths = {1, 5, 6, 7, 12}
INVARIANTS
    WithinBuffer
    RewriteSucceeds
    HostKept
CHECK_DEADLOCK FALSE
