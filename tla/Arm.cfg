SPECIFICATION MCSpec
CONSTANTS
    Clients = {"home", "align"}
    Holders = {"ground", "jetson"}
    HolderOf <- cHolderOf
    Free = Free
    Lease <- cLease
    Loose = {"level"}
    Services = {"align", "orient"}
    IkAttempts = 2
    Operators <- cOperators
    Keyboards = {"laptop", "keychron"}
    KeySets <- cKeySets
    MaxEvents = 1
    Confirm = 3
    Never = Never
INVARIANTS
    ArmTypeOK
    OneGoal
    RememberedWasReached
    LocksHold MoveIsUndisturbed SettledAfterSilence
    KeysExplainMotion
PROPERTIES
    LeaseRunsOut
    LeaseExcludes
    PadSilenceStops
    ExitEnds
    OnePromptPerSighting
CHECK_DEADLOCK FALSE
