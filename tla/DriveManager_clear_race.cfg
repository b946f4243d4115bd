SPECIFICATION Spec
CONSTANTS
    MaxPresses = 2
    Buttons <- ToggleAndClear
INVARIANT CanDriveMeansLive
