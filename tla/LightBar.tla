-------------------------------- MODULE LightBar --------------------------------
(***************************************************************************)
(* rover_teleop: the gamepad's light bar, which shows the drive's state.   *)
(* The interpreter paints it whenever the state or its own mode changes,   *)
(* and again on a timer: the kernel, SDL and a reconnect leave it in other *)
(* colours, and a write may fail.  The pad has an LED node (sysfs), only a *)
(* raw device (hidraw), or none.                                           *)
(***************************************************************************)
CONSTANT Pads      \* the ways to reach a light bar, "none" among them

ASSUME PadsAssumption == "none" \in Pads

VARIABLES
    drive,         \* the drive's state, as drive/state last said
    message,       \* it is on its way to the interpreter
    driveShown,    \* _drive_state
    driving,       \* _active: the gamepad drives
    pad,           \* how the bar can be reached
    writable,      \* the host lets the interpreter write to it
    bar,           \* what the bar shows
    painting       \* the interpreter runs

barVars == <<drive, message, driveShown, driving, pad, writable, bar, painting>>

\* What counts of the three flags of DriveState, the most serious first.
DriveStates == {"motors_off", "inhibited", "controller_off", "on"}

LedColour(state, active) ==
    CASE state = "motors_off" -> "red"
      [] state = "inhibited" -> "magenta"
      [] state = "controller_off" -> "orange"
      [] OTHER -> IF active THEN "green" ELSE "blue"

BarColours == {"red", "magenta", "orange", "blue", "green", "white"}

BarInit ==
    /\ drive \in DriveStates /\ message = TRUE /\ driveShown = "motors_off" /\ driving = TRUE
    /\ pad = "none" /\ writable \in BOOLEAN /\ bar = "blue" /\ painting = TRUE

-------------------------------------------------------------------------------

\* ControllerLed._attempt: nothing happens without a bar, or to one that refuses.
Paint(colour) == bar' = IF pad # "none" /\ writable THEN colour ELSE bar

DriveChanges ==
    /\ drive' \in DriveStates \ {drive} /\ message' = TRUE
    /\ UNCHANGED <<driveShown, driving, pad, writable, bar, painting>>

OnDriveState ==
    /\ painting /\ message /\ message' = FALSE
    /\ driveShown' = drive
    /\ Paint(LedColour(drive, driving))
    /\ UNCHANGED <<drive, driving, pad, writable, painting>>

OnActiveToggle ==
    /\ painting /\ driving' = ~driving
    /\ Paint(LedColour(driveShown, ~driving))
    /\ UNCHANGED <<drive, message, driveShown, pad, writable, painting>>

\* A plausible bug: the bar is painted only when the colour asked for changes.
RepaintsChanges == FALSE

\* set paints whatever was painted before.
Repaints == TRUE

\* The timer, and a gamepad heard of again
RefreshLed ==
    /\ painting /\ Repaints
    /\ Paint(LedColour(driveShown, driving))
    /\ UNCHANGED <<drive, message, driveShown, driving, pad, writable, painting>>

\* main's finally
MarkLedOffline ==
    /\ painting /\ painting' = FALSE
    /\ Paint("white")
    /\ UNCHANGED <<drive, message, driveShown, driving, pad, writable>>

InterpreterStarts ==
    /\ ~painting /\ painting' = TRUE
    /\ message' = TRUE /\ driveShown' = "motors_off" /\ driving' = TRUE
    /\ Paint(LedColour("motors_off", TRUE))
    /\ UNCHANGED <<drive, pad, writable>>

\* The pad comes or goes, the kernel or SDL paints it, udev grants the access.
PadChanges ==
    /\ pad' \in Pads
    /\ bar' \in IF pad' = pad THEN BarColours \ {bar} ELSE {"blue", "white"}
    /\ writable' \in BOOLEAN
    /\ UNCHANGED <<drive, message, driveShown, driving, painting>>

BarNext ==
    \/ DriveChanges \/ OnDriveState \/ OnActiveToggle \/ RefreshLed
    \/ MarkLedOffline \/ InterpreterStarts \/ PadChanges

\* The interpreter's executor serves the message and the timer.
BarSpec ==
    BarInit /\ [][BarNext]_barVars /\ WF_barVars(OnDriveState) /\ WF_barVars(RefreshLed)

-------------------------------------------------------------------------------

BarTypeOK ==
    /\ {drive, driveShown} \subseteq DriveStates /\ pad \in Pads /\ bar \in BarColours
    /\ {message, driving, writable, painting} \subseteq BOOLEAN

\* Once drive, operator and pad leave it alone, a bar that can be painted is green or
\* blue if and only if the drive is on, and green only if the gamepad moves the rover
\* (led_colour), whoever painted over it before.
BarSettles ==
    \/ <>[](painting /\ pad # "none" /\ writable =>
              /\ bar = "green" <=> drive = "on" /\ driving
              /\ bar = "blue" <=> drive = "on" /\ ~driving)
    \/ []<><<DriveChanges \/ OnActiveToggle \/ PadChanges \/ InterpreterStarts>>_barVars

===============================================================================
