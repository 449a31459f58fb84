SPECIFICATION FairSpec
CONSTANTS
    c1 = c1
    c2 = c2
    Controller <- MCController
    MaxThreads = 4
INVARIANTS
    TypeOK
    
PROPERTIES
    
    RestartReturns
\* The last thread serves until the application ends.
CHECK_DEADLOCK FALSE
