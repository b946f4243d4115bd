SPECIFICATION Spec
CONSTANTS
    MaxPresses = 4
    Buttons <- ToggleOnly
INVARIANT GreenMeansActive
