----------------------------- MODULE PowerMonitor -----------------------------
(***************************************************************************)
(* rover_peripherals: the power monitor.  The sensors boot silent; the     *)
(* node enables all of them on start, with retries, serves a switch per    *)
(* sensor and one for all, and silences them when it goes.  Commands and   *)
(* answers cross the bus that the lights node uses too.                    *)
(***************************************************************************)
EXTENDS Naturals, Sequences, SequencesExt

CONSTANTS
    Sensors,       \* sensor_names
    Retries,       \* enable_on_start_retries
    BusFrames,     \* frames in flight
    NoRequest      \* _resp_pending_cmd is None

SwitchCmds == [of : SUBSET Sensors, on : BOOLEAN]
SensorRequests == [cmd : SwitchCmds, caller : {"startup", "service"}, crossing : BOOLEAN]

ASSUME PowerAssumption ==
    Retries \in Nat \ {0} /\ BusFrames \in Nat \ {0} /\ NoRequest \notin SensorRequests

VARIABLES
    starting,      \* the start-up timer runs
    attempts,      \* _startup_attempts
    enabled,       \* the sensors with cfg.enabled
    request,       \* the command that is waited for, with the caller
    ack,           \* _resp_status, with _resp_event
    bus,           \* commands on their way to the board
    acks,          \* its acknowledgements on their way
    reporting,     \* the sensors the board reports
    unsure         \* history: sensors whose last command was not confirmed by its own answer

powerVars == <<starting, attempts, enabled, request, ack, bus, acks, reporting, unsure>>

PowerInit ==
    /\ starting = TRUE /\ attempts = 0 /\ enabled = {} /\ request = NoRequest /\ ack = "none"
    /\ bus = <<>> /\ acks = <<>> /\ reporting \in {{}, Sensors} /\ unsure = Sensors

-------------------------------------------------------------------------------

Switches(sensors, on) == [of |-> sensors, on |-> on]

After(cmd, sensors) == IF cmd.on THEN sensors \cup cmd.of ELSE sensors \ cmd.of

Pend(seq) == [i \in DOMAIN seq |-> [seq[i] EXCEPT !.late = TRUE]]

Crossing(cmd) == \E f \in ToSet(bus) \cup ToSet(acks) : f.cmd = cmd

\* _send_and_wait under _can_lock, for the start-up timer or for a service
Begin(cmd, caller) ==
    /\ request = NoRequest /\ Len(bus) + Len(acks) < BusFrames
    /\ request' = [cmd |-> cmd, caller |-> caller, crossing |-> Crossing(cmd)]
    /\ ack' = "none"
    /\ bus' \in {bus, Append(bus, [cmd |-> cmd, late |-> FALSE])}
    /\ UNCHANGED <<enabled, acks, reporting, unsure>>

OnStartupEnable ==
    /\ starting /\ attempts' = attempts + 1
    /\ Begin(Switches(Sensors, TRUE), "startup")
    /\ UNCHANGED starting

OnSensorEnable(s, on) ==
    /\ Begin(Switches({s}, on), "service")
    /\ UNCHANGED <<starting, attempts>>

OnAllEnable(on) ==
    /\ Begin(Switches(Sensors, on), "service")
    /\ UNCHANGED <<starting, attempts>>

\* A plausible bug: the start-up is tried until it succeeds.
EndOnSuccess(ok) ==
    /\ starting' = (starting /\ ~(request.caller = "startup" /\ ok))
    /\ UNCHANGED attempts

\* The timer ends with its success or its last attempt.
EndStartup(ok) ==
    /\ starting' = (starting /\ ~(request.caller = "startup" /\ (ok \/ attempts >= Retries)))
    /\ UNCHANGED attempts

EndRequest ==
    /\ request' = NoRequest /\ bus' = Pend(bus) /\ acks' = Pend(acks)
    /\ UNCHANGED <<ack, reporting>>

\* A plausible bug: the switch is remembered as it was asked for.
Remembered(cmd, status) == After(cmd, enabled)

Committed(cmd, status) == IF status = "ok" THEN After(cmd, enabled) ELSE enabled

RequestAnswered ==
    /\ request # NoRequest /\ ack # "none"
    /\ enabled' = Committed(request.cmd, ack)
    /\ unsure' = IF ack = "ok" THEN unsure \ request.cmd.of
                 ELSE IF request.crossing THEN unsure \cup request.cmd.of ELSE unsure
    /\ EndStartup(ack = "ok") /\ EndRequest

\* ack_s is longer than what an earlier request left under way lasts.
RequestTimesOut ==
    /\ request # NoRequest /\ ack = "none"
    /\ \A f \in ToSet(bus) \cup ToSet(acks) : ~f.late
    /\ enabled' = Committed(request.cmd, "timeout")
    /\ unsure' = unsure \cup request.cmd.of
    /\ EndStartup(FALSE) /\ EndRequest

\* disable_telemetry_on_exit, which waits for nothing, and the next start
ExitAndStart ==
    /\ request = NoRequest /\ bus = <<>> /\ acks = <<>>
    /\ bus' \in {<<>>, <<[cmd |-> Switches(Sensors, FALSE), late |-> TRUE]>>}
    /\ starting' = TRUE /\ attempts' = 0 /\ enabled' = {} /\ unsure' = Sensors
    /\ UNCHANGED <<request, ack, acks, reporting>>

\* _on_response: the frame of another command answers the lights node, or comes late.
OnResponse ==
    /\ acks # <<>> /\ acks' = Tail(acks)
    /\ ack' = IF request # NoRequest /\ Head(acks).cmd = request.cmd THEN Head(acks).status ELSE ack
    /\ UNCHANGED <<starting, attempts, enabled, request, bus, reporting, unsure>>

\* The board executes or refuses; its acknowledgement may be lost.
SensorBoardActs ==
    /\ bus # <<>> /\ bus' = Tail(bus)
    /\ \E status \in {"ok", "error"} :
          /\ reporting' = IF status = "ok" THEN After(Head(bus).cmd, reporting) ELSE reporting
          /\ acks' \in {acks, Append(acks, [cmd |-> Head(bus).cmd, late |-> Head(bus).late,
                                            status |-> status])}
    /\ UNCHANGED <<starting, attempts, enabled, request, ack, unsure>>

PowerNext ==
    \/ OnStartupEnable \/ RequestAnswered \/ RequestTimesOut \/ ExitAndStart
    \/ \E on \in BOOLEAN : OnAllEnable(on) \/ \E s \in Sensors : OnSensorEnable(s, on)
    \/ OnResponse \/ SensorBoardActs

PowerSpec == PowerInit /\ [][PowerNext]_powerVars

-------------------------------------------------------------------------------

PowerTypeOK ==
    /\ starting \in BOOLEAN /\ attempts \in 0..Retries /\ enabled \subseteq Sensors
    /\ request \in SensorRequests \cup {NoRequest}
    /\ ack \in {"none", "ok", "error"} /\ Len(bus) + Len(acks) <= BusFrames
    /\ {reporting, unsure} \subseteq SUBSET Sensors

\* A sensor whose last command was confirmed by its own answer reports exactly if the
\* node has it enabled, whatever earlier commands were lost, refused or answered late.
EnabledReports ==
    request = NoRequest /\ bus = <<>> /\ acks = <<>> => enabled \ unsure = reporting \ unsure

===============================================================================
