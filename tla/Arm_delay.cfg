SPECIFICATION MCSpec
CONSTANTS
    Clients = {"home", "align"}
    Holders = {"ground", "jetson"}
    HolderOf <- cHolderOf
    Free = Free
    Lease <- cLease
    Loose = {"level"}
    Services = {"align", "orient"}
    IkAttempts = 2
    Operators <- cOperators
    Keyboards = {"laptop", "keychron"}
    KeySets <- cKeySets
    MaxEvents = 1
    Confirm = 3
    Never = Never
INVARIANT DelayStandsStill
CHECK_DEADLOCK FALSE
