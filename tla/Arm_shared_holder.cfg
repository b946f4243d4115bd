SPECIFICATION MCSpec
CONSTANTS
    Clients = {"align", "orient"}
    Holders = {"jetson"}
    HolderOf <- cOneProcess
    Free = Free
    Lease <- cLease
    Loose = {"level"}
    Services = {"align", "orient"}
    IkAttempts = 2
    Operators <- cOperators
    Keyboards = {"laptop", "keychron"}
    KeySets <- cKeySets
    MaxEvents = 1
    Confirm = 3
    Never = Never
INVARIANT OneGoal
CHECK_DEADLOCK FALSE
