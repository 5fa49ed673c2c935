\* Messages, stops, starts and deletes that race, a failing write, a crash.
SPECIFICATION FairSpec
CONSTANTS
    Runs = {1, 2}
    Controls = {1, 2}
    None = None
    MaxMishaps = 2
\* Every request has been made and answered.
CHECK_DEADLOCK FALSE
INVARIANTS
    TypeOK
    OneProcess
    StopEndsEarlierRuns
    BusyHasRun
    DeletedLeavesNothing
PROPERTIES
    OutcomeIsFinal
    EverythingEnds
