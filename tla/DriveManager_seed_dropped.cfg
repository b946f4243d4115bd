SPECIFICATION Spec
CONSTANTS
    MaxPresses = 1
    Buttons <- CompactOnly
INVARIANT PoweredDriveIsSeen
