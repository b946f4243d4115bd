SPECIFICATION FairSpec
CONSTANTS
    CommandCap = 2
    SpecialCap = 2
INVARIANTS
    TypeOK
    NoLateWrite
    NoMotorLeftOn
PROPERTY DeactivationEnds
