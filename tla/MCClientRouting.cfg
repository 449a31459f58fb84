\* Two clients, a data centre of either kind, two WS domains, two workers.
CONSTANTS
    Client = {c1, c2}
    DcKey = {k1, k2}
    InConfig = {k1}
    HasIp = {k1}
    NDomains = 2
    Worker = {w1, w2}
    UseCf = TRUE
    NCf = 2
SPECIFICATION FairSpec
INVARIANTS TypeOK InitOnce CountersAgree
PROPERTIES BlacklistJustified TurnedAwayLast Settles
CHECK_DEADLOCK FALSE
