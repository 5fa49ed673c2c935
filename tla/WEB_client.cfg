\* Two Agents, a run of before, and one user whose requests overtake each other.
SPECIFICATION FairSpec
CONSTANTS
    MaxAgents = 2
    MaxRuns = 2
    MaxFound = 1
    MaxOperations = 2
    MaxAnswers = 2
    MaxFaults = 1
\* The user has done everything and all is answered.
CHECK_DEADLOCK FALSE
INVARIANTS
    TypeOK
PROPERTIES
    ViewSettles
