SPECIFICATION Spec
CONSTANTS
    CommandCap = 2
    SpecialCap = 2
INVARIANT LastHeardIsNoCommand
