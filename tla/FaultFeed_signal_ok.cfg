SPECIFICATION Spec
CONSTANTS
    Motors <- OneMotor
    MotorFaults <- OneFault
    QueueCap = 2
    MaxDrops = 1
INVARIANT BackMeansHeard
