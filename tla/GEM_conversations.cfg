\* Three requests, any of which may follow another, and a restart.
SPECIFICATION Spec
CONSTANTS
    MaxRequests = 3
    CallIds = {c1}
    Functions = {"read", "write"}
    MaxRestarts = 1
    None = None
\* Every request is over.
CHECK_DEADLOCK FALSE
INVARIANTS
    TypeOK
    ContextIsWhole
