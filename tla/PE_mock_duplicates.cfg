\* Three duplicate calls against the in-process mock service.
SPECIFICATION Spec
CONSTANTS
    a1 = a1
    h1 = h1
    h2 = h2
    Calls = {c1, c2, c3}
    Actions = {a1}
    Hashes = {h1, h2}
    Requests <- DuplicateRequests
    Provider = "mock"
    MaxAttempts = 3
    MaxCrashes = 2
    MaxDiskFaults = 1
SYMMETRY CallSymmetry
INVARIANTS
    TypeOK
    AtMostOneEmail
    SuccessIsReal
    SingleWinner
\* Calls are one-shot: the system stops when all have ended.
CHECK_DEADLOCK FALSE
