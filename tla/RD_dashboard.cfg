\* One dashboard, two workflows, lost and late answers, a crash.
SPECIFICATION FairSpec
CONSTANTS
    Sessions = {1, 2}
    Outcomes = {"mail", "recommended", "nothing"}
    Polls = {p1}
    User = User
    NoSession = 0
    MaxMishaps = 1
\* A dashboard may be closed.
CHECK_DEADLOCK FALSE
INVARIANTS
    TypeOK
    DecisionIsOffered
PROPERTIES
    OutcomeIsLearnt
