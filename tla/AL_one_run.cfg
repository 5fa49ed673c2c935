\* A stop, a start and a second message around a first one.
SPECIFICATION Spec
CONSTANTS
    Runs = {1, 2}
    Controls = {1, 2}
    None = None
    MaxMishaps = 0
CHECK_DEADLOCK FALSE
INVARIANTS
    OneActiveRun
