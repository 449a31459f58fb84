\* Two packets of every kind, cut in every way.
CONSTANTS
    Init0 <- MCInit0
    Packets <- MCPackets
    MaxPackets = 2
    ReadSize = 3
    MaxRecord = 4
SPECIFICATION Spec
INVARIANTS TypeOK NothingLost FramesArePackets Prompt
CHECK_DEADLOCK FALSE
