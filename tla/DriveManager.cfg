SPECIFICATION FairSpec
CONSTANTS
    MaxPresses = 2
    Buttons <- AllButtons
INVARIANTS
    TypeOK
    MotorsAsConfirmed
    ControllerAsConfirmed
    ControllerFollowsPower
    CompactAsConfirmed
PROPERTY DisplaySettles
