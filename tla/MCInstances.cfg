SPECIFICATION FairSpec
CONSTANTS
    Pid = {1, 2, 3}
    Frozen = TRUE
    MaxFailures = 1
    MaxUpdates = 2
INVARIANTS TypeOK OneInstance ExecutableKept
PROPERTIES RefusedForAnother UpdateRestarts
\* Every process may have ended, with no pid left.
CHECK_DEADLOCK FALSE
