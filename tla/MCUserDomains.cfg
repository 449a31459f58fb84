SPECIFICATION Spec
CONSTANTS
    d1 = d1
    d2 = d2
    d3 = d3
    u1 = u1
    h1 = h1
    h2 = h2
    None = None
    Default <- MCDefault
    UserLists <- MCUserLists
    Fetchable <- MCFetchable
    MinValid = 2
    Handler <- MCHandler
    MaxRuns = 2
INVARIANT UserDomainsUsed
\* The last run may have been stopped with no refresh loop left.
CHECK_DEADLOCK FALSE
