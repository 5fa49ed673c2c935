\* Two calls with every kind of argument, against a Resend that may be silent.
SPECIFICATION FairSpec
CONSTANTS
    a1 = a1
    h1 = h1
    h2 = h2
    Calls = {c1, c2}
    Actions = {a1}
    Hashes = {h1, h2}
    Requests <- CallerMistakes
    Provider = "resend"
    MaxAttempts = 2
    MaxCrashes = 1
    MaxDiskFaults = 1
\* Calls are one-shot: the system stops when all have ended.
CHECK_DEADLOCK FALSE
INVARIANTS
    OnlyApprovedContentSent
PROPERTIES
    ImplementsEffect
    CallsSettle
