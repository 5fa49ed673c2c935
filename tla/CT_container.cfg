\* Two runs of one Agent, with every interruption and a failing removal.
SPECIFICATION RunsFairSpec
CONSTANTS
    MaxRuns = 2
    MaxFaults = 1
    NoRun = NoRun
\* All runs are over.
CHECK_DEADLOCK FALSE
INVARIANTS
    RunsTypeOK
PROPERTIES
    RunsEnd
