------------------------------ MODULE MCStations ------------------------------
(***************************************************************************)
(* The rover's stations side by side, one of them at work in a behaviour:  *)
(* radio link and frames, lights, tower lamps, power monitor, container,   *)
(* rover teleoperation and its light bar, fault log, cameras and dataset   *)
(* share no state, so that one run explores each of them.                  *)
(***************************************************************************)
EXTENDS LoraLink, Lights, TowerLamps, PowerMonitor, Container, Scale, RoverTeleop, FaultLog, Camera,
        LoraFrame, Dataset, LightBar

VARIABLE part

Parts == {"link", "lights", "beat", "lamps", "power", "lid", "scale", "drive", "log", "views", "saves",
          "frames", "gather", "record", "bar"}

cPinsOf == [tower |-> {"red", "blue"}]
cPriority == [s \in Sources |-> CASE s = "joy" -> 3 [] s = "nav" -> 2 [] s = "lora" -> 1]

Position(vx, vy, steer, triggers) ==
    [vx |-> vx, vy |-> vy, steer |-> steer, rot |-> 0, triggers |-> triggers]

cPadInputs == {AtEase, Position(-1, 1, 1, FALSE), Position(1, 0, 0, TRUE)}
Plain == [i \in 1..8 |-> "other"]

\* A body without sync bytes, one that contains the sync word, one that begins with it
\* and ends with half of it.
cBodies ==
    {Plain, [Plain EXCEPT ![3] = "AA", ![4] = "55"],
     [i \in 1..8 |-> IF i \in {1, 8} THEN "AA" ELSE "55"]}

cDriveKeys == [k \in {"z"} |-> Position(-1, 0, 1, FALSE)]

MCInit ==
    /\ part \in Parts
    /\ Init /\ LightsInit /\ LampInit /\ PowerInit /\ LidInit /\ ScaleInit /\ RoverInit /\ LogInit /\ CameraInit
    /\ FrameInit /\ DatasetInit /\ BarInit
    /\ part \notin {"lights", "beat"} => lit = {}
    /\ part # "lamps" => lampNode = "link" /\ colour = "dark"
    /\ part # "power" => reporting = {}
    /\ part # "lid" => motion = "open" /\ board = "done"
    /\ part # "drive" => device = "pad"
    /\ part # "frames" => body = Plain
    /\ part # "bar" => drive = "on" /\ writable

stationOnly == <<vars, lightVars, lampVars, powerVars, lidVars, scaleVars, roverVars, logVars, cameraVars>>
otherVars == <<frameVars, datasetVars, barVars>>

LinkPart ==
    /\ part = "link" /\ Next
    /\ UNCHANGED <<lightVars, lampVars, powerVars, lidVars, scaleVars, roverVars, logVars, cameraVars, otherVars, part>>

LightsPart ==
    /\ part = "lights" /\ Serve
    /\ UNCHANGED <<vars, lampVars, powerVars, lidVars, scaleVars, roverVars, logVars, cameraVars, otherVars, part>>

\* The heartbeat beside calls to one light that have one frame in flight.
BeatPart ==
    /\ part = "beat" /\ LightsNext /\ Len(toBoard') + Len(toNode') <= 1
    /\ call' # Quiet => call'.byte[1] # "traffic"
    /\ UNCHANGED <<vars, lampVars, powerVars, lidVars, scaleVars, roverVars, logVars, cameraVars, otherVars, part>>

LampPart ==
    /\ part = "lamps" /\ LampNext
    /\ UNCHANGED <<vars, lightVars, powerVars, lidVars, scaleVars, roverVars, logVars, cameraVars, otherVars, part>>

PowerPart ==
    /\ part = "power" /\ PowerNext
    /\ UNCHANGED <<vars, lightVars, lampVars, lidVars, scaleVars, roverVars, logVars, cameraVars, otherVars, part>>

LidPart ==
    /\ part = "lid" /\ LidNext
    /\ UNCHANGED <<vars, lightVars, lampVars, powerVars, scaleVars, roverVars, logVars, cameraVars, otherVars, part>>

ScalePart ==
    /\ part = "scale" /\ ScaleNext
    /\ UNCHANGED <<vars, lightVars, lampVars, powerVars, lidVars, roverVars, logVars, cameraVars, otherVars, part>>

DrivePart ==
    /\ part = "drive" /\ RoverNext
    /\ UNCHANGED <<vars, lightVars, lampVars, powerVars, lidVars, scaleVars, logVars, cameraVars, otherVars, part>>

LogPart ==
    /\ part = "log" /\ LogNext
    /\ UNCHANGED <<vars, lightVars, lampVars, powerVars, lidVars, scaleVars, roverVars, cameraVars, otherVars, part>>

ViewsPart ==
    /\ part = "views" /\ ViewNext
    /\ UNCHANGED <<vars, lightVars, lampVars, powerVars, lidVars, scaleVars, roverVars, logVars, otherVars, part>>

SavesPart ==
    /\ part = "saves" /\ SaveNext
    /\ UNCHANGED <<vars, lightVars, lampVars, powerVars, lidVars, scaleVars, roverVars, logVars, otherVars, part>>

FramesPart ==
    /\ part = "frames" /\ FrameNext
    /\ UNCHANGED <<stationOnly, datasetVars, barVars, part>>

\* The threads that gather, from cameras that do not die ...
GatherPart ==
    /\ part = "gather" /\ (CamerasNext \/ GatherNext) /\ up \subseteq up'
    /\ UNCHANGED <<stationOnly, frameVars, barVars, part>>

\* ... and the requests to cameras that may.
RecordPart ==
    /\ part = "record" /\ (CamerasNext \/ AskNext)
    /\ UNCHANGED <<stationOnly, frameVars, barVars, part>>

BarPart ==
    /\ part = "bar" /\ BarNext
    /\ UNCHANGED <<stationOnly, frameVars, datasetVars, part>>

MCNext ==
    \/ LinkPart \/ LightsPart \/ BeatPart \/ LampPart \/ PowerPart
    \/ LidPart \/ ScalePart \/ DrivePart \/ LogPart \/ ViewsPart \/ SavesPart
    \/ FramesPart \/ GatherPart \/ RecordPart \/ BarPart

stationVars == <<stationOnly, otherVars, part>>

\* The fairness of the part at work.
MCFairness ==
    /\ WF_vars(part = "link" /\ Publish) /\ WF_vars(part = "link" /\ FrameGrowsLate)
    /\ WF_lampVars(part = "lamps" /\ LampTick)
    /\ WF_lampVars(part = "lamps" /\ (Granted \/ Refused))
    /\ WF_saveVars(part = "saves" /\ ServiceSteps)
    /\ WF_saveVars(part = "saves" /\ RecorderSteps)
    /\ WF_barVars(part = "bar" /\ OnDriveState) /\ WF_barVars(part = "bar" /\ RefreshLed)

MCSpec == MCInit /\ [][MCNext]_stationVars /\ MCFairness

StationsTypeOK ==
    /\ TypeOK /\ FrameTypeOK /\ DatasetTypeOK /\ BarTypeOK
    /\ LightsTypeOK /\ LampTypeOK /\ PowerTypeOK /\ LidTypeOK /\ ScaleTypeOK
    /\ RoverTypeOK /\ LogTypeOK /\ CameraTypeOK

\* Without new frames the link falls silent (SilenceStops), where it is at work.
LinkFallsSilent == part # "link" \/ SilenceStops

\* What the two nodes of the board of lights and sensors believe and say of it is so.
BoardAsBelieved == ConfirmedIsLit /\ EnabledReports /\ HeartbeatTells

\* What the container's node reports is so: the lid and the weights.
ContainerTells == LidIsThere /\ WeighedTogether

\* The rover does what its driver does: presses are acted on, sticks are followed.
DriverIsObeyed == PressesFire /\ SteersAsSeen

\* The camera encodes what is used, and the frames that were asked for.
CameraServes == ValveFollowsUsers /\ RequestsStand

\* The console reads of the cameras what is so, and a request does what it says.
DatasetTells == RecordsAsAsked /\ SumTells

===============================================================================
