SPECIFICATION Spec
CONSTANTS
    d1 = d1
    d2 = d2
    Dialog <- MCDialog
    Choice = {p}
    MaxRestarts = 2
    Release <- MCRelease
    Current <- MCCurrent
    Hour = 2
    MaxTime = 5
    Scope <- MCScope
SYMMETRY MCSymmetry
INVARIANTS
    TypeOK
    SettingsKept
    LinkServed
    ShownWasTold
PROPERTIES
    OneRequestAnHour
\* An application that is not running need not be started again.
CHECK_DEADLOCK FALSE
