------------------------------ MODULE DrivePower ------------------------------
(***************************************************************************)
(* What the drive is capable of and how each service reply moves it:       *)
(* rover_drive/drive_manager_state.py, the pure half of the drive manager. *)
(***************************************************************************)

\* The frozen dataclass DrivePower.
DrivePowers == [motors_enabled    : BOOLEAN,
                controller_active : BOOLEAN,
                motors_inhibited  : BOOLEAN,
                compact_mode      : BOOLEAN]

\* DrivePower(): the state a fresh node starts from.
FreshDrive == [motors_enabled    |-> FALSE,
               controller_active |-> FALSE,
               motors_inhibited  |-> FALSE,
               compact_mode      |-> FALSE]

CanDrive(s) == s.motors_enabled /\ s.controller_active /\ ~s.motors_inhibited

Seeded(s, motors, controller) ==
    [s EXCEPT !.motors_enabled = motors, !.controller_active = controller]

AfterPowerResult(s, ok, desired) ==
    IF ok THEN [s EXCEPT !.motors_enabled = desired, !.motors_inhibited = FALSE]
          ELSE s

AfterControllerResult(s, ok, activate) ==
    IF ok THEN [s EXCEPT !.controller_active = activate] ELSE s

\* Mutant: a refused reply is applied like any other.
AfterCompactResultAnyway(s, ok, desired) == [s EXCEPT !.compact_mode = desired]

AfterCompactResult(s, ok, desired) ==
    IF ok THEN [s EXCEPT !.compact_mode = desired] ELSE s

AfterErrorsCleared(s) == [s EXCEPT !.motors_inhibited = TRUE]

===============================================================================
