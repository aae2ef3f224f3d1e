CONSTANTS
    a1 = a1  a2 = a2
    Addresses = {a1, a2}
    Heard = {a1}
    Kinds = {"threaded", "polling"}
    MaxRequests = 2
SPECIFICATION FairSpec
INVARIANTS
    NothingLeftBehind
PROPERTIES
    ImplementsQueryService
CHECK_DEADLOCK FALSE
