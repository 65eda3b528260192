SPECIFICATION Spec
CONSTANTS
    Callers = {p, q}
    Directories = {d1, d2}
    Responses <- MC_Responses
    Tabbed = {"tab"}
    Unfit = {"long latin1"}
    OtherCharset = {"latin1", "long latin1"}
    Returned = {0, 7, 9, 10}
    MaxCalls = 2
SYMMETRY Symmetry
INVARIANT
    ResultRetainsHead
CHECK_DEADLOCK FALSE
