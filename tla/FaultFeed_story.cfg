SPECIFICATION FairSpec
CONSTANTS
    Motors <- OneMotor
    MotorFaults <- OneFault
    QueueCap = 2
    MaxDrops = 1
INVARIANTS
    TypeOK
    EventsTellAll
PROPERTY FaultsAreTold
