SPECIFICATION SessionSpec
CONSTANTS
    Packet = 2
    MaxUp = 3
    MaxDown = 3
    Visit <- MCVisit
    InitLen = 2
    MaxBytes = 8
    MaxOffer = 2
INVARIANTS
    SessionTypeOK
    NoFrameAfterClose
    EofDelivered
    Delivered
PROPERTY AllSessionsEnd
\* A session that is done takes no further step.
CHECK_DEADLOCK FALSE
