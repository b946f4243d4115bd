-------------------------------- MODULE Lights --------------------------------
(***************************************************************************)
(* rover_peripherals: the lights node.  A service call is one transaction  *)
(* under _can_lock: a command frame, its acknowledgement or a timeout, and *)
(* only then the commit of the believed state, which the state topic shows *)
(* at once or with the next heartbeat.  The board executes the frames in   *)
(* the order they come and echoes the command byte; any frame may be lost. *)
(***************************************************************************)
EXTENDS Naturals, Sequences

CONSTANTS
    PinsOf,          \* the pins of each lights/<name> service (LightSpec.fields)
    TrafficPins,     \* the pins of the traffic head, which one mask command sets
    MaxFrames,       \* frames in flight
    Quiet            \* no call, no heartbeat

LightNames == DOMAIN PinsOf
Pins == TrafficPins \cup UNION {PinsOf[n] : n \in LightNames}

VARIABLES
    believed,        \* _state: the pins that are on
    lit,             \* the pins the board has on
    call,            \* the command a service is waiting on, or Quiet
    status,          \* _resp_status, with _resp_event
    toBoard,         \* command frames in flight
    toNode,          \* acknowledgements in flight
    crossed,         \* an earlier command with the byte of this one was still under way
    doubt,           \* history: pins whose last command was not confirmed by its own answer
    topic,           \* the latched message of lights/state
    beat,            \* what the heartbeat has read and not published, or Quiet
    told             \* history: the last commit is behind the heartbeat, read by it, or told

lightVars == <<believed, lit, call, status, toBoard, toNode, crossed, doubt,
               topic, beat, told>>
showVars == <<topic, beat, told>>

LightsInit ==
    /\ believed = {} /\ lit \in SUBSET Pins
    /\ call = Quiet /\ status = "none" /\ crossed = FALSE
    /\ toBoard = <<>> /\ toNode = <<>>
    /\ doubt = Pins
    /\ topic = {} /\ beat = Quiet /\ told = "told"

-------------------------------------------------------------------------------
(* Commands: the byte on the wire, the pins it sets and those it clears *)

SetCmd(name, on) ==
    [byte |-> <<name, on>>, sets |-> IF on THEN PinsOf[name] ELSE {},
     clears |-> IF on THEN {} ELSE PinsOf[name]]

\* traffic_mask: one byte for every mask
TrafficCmd(mask) ==
    [byte |-> <<"traffic", TRUE>>, sets |-> mask, clears |-> TrafficPins \ mask]

Effect(cmd, pins) == (pins \ cmd.clears) \cup cmd.sets
Touched(cmd) == cmd.sets \cup cmd.clears

Commands ==
    {SetCmd(name, on) : name \in LightNames, on \in BOOLEAN}
        \cup {TrafficCmd(mask) : mask \in SUBSET TrafficPins}

ASSUME LightsAssumption ==
    /\ TrafficPins # {} /\ MaxFrames \in Nat \ {0}
    /\ "traffic" \notin LightNames /\ Quiet \notin Commands
    /\ \A pins \in SUBSET Pins : pins # Quiet

\* LightSpec.toggle_from: a group that is not all on is switched on.
ToggleFrom(name) == ~(PinsOf[name] \subseteq believed)

\* resolve_traffic: KEEP leaves the colour as it is believed to be.
ResolveTraffic(request) ==
    {p \in TrafficPins : request[p] = "on" \/ (request[p] = "keep" /\ p \in believed)}

-------------------------------------------------------------------------------
(* The services *)

Late(frames) == [i \in 1..Len(frames) |-> [frames[i] EXCEPT !.late = TRUE]]
InFlight(frames) == {frames[i] : i \in 1..Len(frames)}
Underway == InFlight(toBoard) \cup InFlight(toNode)

\* _send_and_wait up to the wait; the frame may be lost on the way.
Send(cmd) ==
    /\ call = Quiet /\ Len(toBoard) + Len(toNode) < MaxFrames
    /\ call' = cmd /\ status' = "none"
    /\ crossed' = \E f \in Underway : f.cmd.byte = cmd.byte
    /\ toBoard' \in {toBoard, Append(toBoard, [cmd |-> cmd, late |-> FALSE])}
    /\ UNCHANGED <<believed, lit, toNode, doubt, showVars>>

SetLight(name, on) == Send(SetCmd(name, on))
ToggleLight(name) == Send(SetCmd(name, ToggleFrom(name)))
SetTraffic(request) == Send(TrafficCmd(ResolveTraffic(request)))

\* The frames of a finished call are late from then on.
Finished ==
    /\ call' = Quiet /\ status' = "none" /\ crossed' = FALSE
    /\ toBoard' = Late(toBoard) /\ toNode' = Late(toNode)

\* _commit, and _publish_change unless the last publication was a moment ago.
Commit(pins) ==
    IF pins = believed THEN UNCHANGED <<believed, showVars>>
    ELSE /\ believed' = pins /\ told' = "behind"
         /\ topic' \in {topic, pins}
         /\ UNCHANGED beat

\* A plausible bug: the state is adopted with the reply, whatever its status.
ConfirmedByAny == status \in {"ok", "error"}

Confirmed == status = "ok"

\* An answer to an earlier traffic command says nothing of this one's mask, and an
\* earlier refusal nothing of this one's fate.
Finish ==
    /\ call # Quiet /\ status # "none"
    /\ IF Confirmed
       THEN /\ Commit(Effect(call, believed))
            /\ doubt' = IF crossed /\ call.byte[1] = "traffic" THEN doubt \cup Touched(call)
                        ELSE doubt \ Touched(call)
       ELSE /\ doubt' = IF crossed THEN doubt \cup Touched(call) ELSE doubt
            /\ UNCHANGED <<believed, showVars>>
    /\ Finished
    /\ UNCHANGED lit

\* The acknowledgement timeout is long enough for what earlier calls left behind.
TimeOut ==
    /\ call # Quiet /\ status = "none"
    /\ \A f \in Underway : ~f.late
    /\ Finished
    /\ doubt' = doubt \cup Touched(call)
    /\ UNCHANGED <<believed, lit, showVars>>

\* Between two calls the process ends and is started anew, believing every light to
\* be off; on an orderly exit turn_off_traffic_light sends a last frame.  A restart
\* takes longer than anything before it is under way.
Restart ==
    /\ call = Quiet /\ Underway = {}
    /\ toBoard' \in {<<>>, <<[cmd |-> TrafficCmd({}), late |-> TRUE]>>}
    /\ believed' = {} /\ topic' = {} /\ beat' = Quiet /\ told' = "told"
    /\ doubt' = Pins
    /\ UNCHANGED <<lit, call, status, toNode, crossed>>

-------------------------------------------------------------------------------
(* The board, and _on_can_msg *)

BoardActs ==
    /\ toBoard # <<>>
    /\ toBoard' = Tail(toBoard)
    /\ LET f == Head(toBoard) IN
       \/ lit' = Effect(f.cmd, lit) /\ toNode' \in {toNode, Append(toNode, [cmd |-> f.cmd, late |-> f.late, ok |-> TRUE])}
       \/ lit' = lit /\ toNode' \in {toNode, Append(toNode, [cmd |-> f.cmd, late |-> f.late, ok |-> FALSE])}
    /\ UNCHANGED <<believed, call, status, crossed, doubt, showVars>>

\* Whether a response is the one that is waited for.
Expected(byte) == call # Quiet /\ byte = call.byte

OnCanMsg ==
    /\ toNode # <<>>
    /\ toNode' = Tail(toNode)
    /\ status' = IF Expected(Head(toNode).cmd.byte)
                 THEN IF Head(toNode).ok THEN "ok" ELSE "error"
                 ELSE status
    /\ UNCHANGED <<believed, lit, call, toBoard, crossed, doubt, showVars>>

-------------------------------------------------------------------------------
(* The state topic: the heartbeat runs beside the services *)

\* A plausible bug: the heartbeat repeats the last message.
Repeated == topic

StateRead == believed

BeatReads ==
    /\ beat = Quiet /\ beat' = StateRead
    /\ told' = IF told = "told" THEN "told" ELSE "read"
    /\ UNCHANGED <<believed, lit, call, status, toBoard, toNode, crossed, doubt, topic>>

BeatPublishes ==
    /\ beat # Quiet
    /\ topic' = beat /\ beat' = Quiet
    /\ told' = IF told = "behind" THEN "behind" ELSE "told"
    /\ UNCHANGED <<believed, lit, call, status, toBoard, toNode, crossed, doubt>>

-------------------------------------------------------------------------------

Serve ==
    \/ \E name \in LightNames, on \in BOOLEAN : SetLight(name, on)
    \/ \E name \in LightNames : ToggleLight(name)
    \/ \E request \in [TrafficPins -> {"keep", "off", "on"}] : SetTraffic(request)
    \/ Finish \/ TimeOut \/ Restart
    \/ BoardActs \/ OnCanMsg

Beat == BeatReads \/ BeatPublishes

LightsNext == Serve \/ Beat

LightsSpec == LightsInit /\ [][LightsNext]_lightVars

-------------------------------------------------------------------------------

LightsTypeOK ==
    /\ {believed, lit, doubt, topic} \subseteq SUBSET Pins
    /\ status \in {"none", "ok", "error"} /\ crossed \in BOOLEAN
    /\ call \in Commands \cup {Quiet}
    /\ Len(toBoard) + Len(toNode) <= MaxFrames
    /\ beat # Quiet => beat \subseteq Pins
    /\ told \in {"behind", "read", "told"}

\* Once nothing is under way, a pin whose last command was confirmed by its own
\* acknowledgement is as the node believes it to be, whatever was lost, refused or
\* late before: the state that both operators read (LightsState).
ConfirmedIsLit ==
    call = Quiet /\ Underway = {} => believed \ doubt = lit \ doubt

\* A heartbeat that began after the last change leaves the change on the topic, even
\* when the change's own message was held back or overtaken by an older heartbeat.
HeartbeatTells == told = "told" => topic = believed

===============================================================================
