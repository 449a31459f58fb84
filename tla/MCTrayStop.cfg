SPECIFICATION Spec
CONSTANTS
    c1 = c1
    c2 = c2
    Controller <- MCController
    MaxThreads = 4
INVARIANT PoliteStopStops
\* The last thread serves until the application ends.
CHECK_DEADLOCK FALSE
