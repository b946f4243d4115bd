----------------------------- MODULE FaultDetector -----------------------------
(***************************************************************************)
(* rover_hardware_interface's fault_detector.cpp and motor_fault.hpp: the  *)
(* edge triggering that turns what read() sees of each motor, and of the   *)
(* CAN bus, into fault events.  Time stamps, names and the freeze frame    *)
(* are left out: no edge depends on them.                                  *)
(***************************************************************************)
EXTENDS Naturals, Sequences

CONSTANTS
    Motors,        \* the steering and drive motors, in the order they are read
    MotorFaults    \* what a vendor code translates to, the healthy codes apart

Bus == "bus"
BusFaults == {"can_error_passive", "can_bus_off"}
Healthy == {"none", "not_enabled"}

ASSUME MotorsAssumption ==
    Len(Motors) \in Nat /\ Bus \notin {Motors[i] : i \in 1..Len(Motors)}
ASSUME FaultsAssumption == MotorFaults \cap (Healthy \cup BusFaults) = {}

MotorSet == {Motors[i] : i \in 1..Len(Motors)}
Components == MotorSet \cup {Bus}
Faults == Healthy \cup MotorFaults \cup BusFaults

\* rover_fault::is_fault
IsFault(f) == f \notin Healthy

Kinds == {"FAULT_ENTER", "FAULT_CHANGE", "FAULT_CLEAR", "SIGNAL_LOST", "SIGNAL_OK"}
Events == [component : Components, event : Kinds, fault : Faults]

Event(c, kind, f) == [component |-> c, event |-> kind, fault |-> f]

\* The event of a change of fault.
FaultKind(was, now) ==
    IF ~IsFault(was) THEN "FAULT_ENTER"
    ELSE IF ~IsFault(now) THEN "FAULT_CLEAR" ELSE "FAULT_CHANGE"

-------------------------------------------------------------------------------
(* detect_motor_fault *)

Trackers == [fault : Faults, health_valid : BOOLEAN, seen : BOOLEAN,
             signal_lost_reported : BOOLEAN]

FreshTracker == [fault |-> "none", health_valid |-> TRUE, seen |-> FALSE,
                 signal_lost_reported |-> FALSE]

SignalEdge(tracker, health) ==
    /\ health # tracker.health_valid
    /\ IF health THEN tracker.signal_lost_reported ELSE tracker.seen

FaultEdge(tracker, current, health) ==
    /\ health /\ tracker.seen
    /\ current # tracker.fault
    /\ IsFault(tracker.fault) \/ IsFault(current)

\* A plausible bug: the code of a silent motor is believed.
TrackedAnyway(tracker, current, health) ==
    [fault |-> current,
     health_valid |-> health,
     seen |-> TRUE,
     signal_lost_reported |-> IF SignalEdge(tracker, health) THEN ~health
                              ELSE tracker.signal_lost_reported]

\* The tracker after one look: a silent motor keeps its last known fault.
Tracked(tracker, current, health) ==
    [fault |-> IF health THEN current ELSE tracker.fault,
     health_valid |-> health,
     seen |-> TRUE,
     signal_lost_reported |-> IF SignalEdge(tracker, health) THEN ~health
                              ELSE tracker.signal_lost_reported]

\* What one look at motor m queues: the signal's edge first, then the fault's.
MotorEvents(m, tracker, current, health) ==
    (IF SignalEdge(tracker, health)
     THEN <<Event(m, IF health THEN "SIGNAL_OK" ELSE "SIGNAL_LOST", tracker.fault)>>
     ELSE <<>>)
    \o
    (IF FaultEdge(tracker, current, health)
     THEN <<Event(m, FaultKind(tracker.fault, current), current)>>
     ELSE <<>>)

-------------------------------------------------------------------------------
(* detect_bus_fault *)

\* "ok" stands for the error-warning state too, which is no fault either.
BusStates == {"ok", "passive", "off"}

BusFault(state) == CASE state = "off"     -> "can_bus_off"
                     [] state = "passive" -> "can_error_passive"
                     [] OTHER             -> "none"

BusTracked(tracker, state) ==
    [tracker EXCEPT !.fault = BusFault(state), !.seen = TRUE]

BusEvents(tracker, state) ==
    IF tracker.seen /\ BusFault(state) # tracker.fault
    THEN <<Event(Bus, FaultKind(tracker.fault, BusFault(state)), BusFault(state))>>
    ELSE <<>>

===============================================================================
