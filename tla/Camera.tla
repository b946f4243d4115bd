-------------------------------- MODULE Camera --------------------------------
(***************************************************************************)
(* rover_cameras: one camera.  Two branches of its pipeline, the stream    *)
(* for the operators and the frames saved for a dataset, each encode only  *)
(* while somebody uses them: a FrameStore counts the users under its lock  *)
(* and, after it, opens or shuts the branch's valve.  HTTP threads watch   *)
(* the stream; the service thread captures and switches the recording; the *)
(* recorder and the writer are threads of their own; the supervise timer   *)
(* tears a failed pipeline down and builds the next.                       *)
(***************************************************************************)
EXTENDS Naturals, FiniteSets

CONSTANTS
    Viewers,       \* HTTP threads
    QueueSize      \* of the dataset's write queue

ASSUME QueueAssumption == QueueSize \in Nat /\ IsFiniteSet(Viewers)

VARIABLES
    pipe,          \* "none", "building": not yet in self.pipe, "up"
    valves,        \* the branches whose valve lets frames through
    built,         \* the branches whose valve the pipeline being built has set
    users,         \* FrameStore._users of each branch
    viewer,        \* where each HTTP thread stands
    service,       \* where the service thread stands
    recording,     \* Dataset.recording
    wake,          \* Dataset._wake
    recorder,      \* where the recorder stands
    demand,        \* _save_wanted
    gate,          \* the save branch's frame: "clear", "seen" by the gate, "encoding"
    newer,         \* the waiters for whom a frame came since they read the sequence
    backlog,       \* frames in the write queue
    stale,         \* history: branches whose valve was last set by a thread overtaken by another
    cut            \* history: waiters whose frame went down with the pipeline

viewVars == <<users, viewer, stale>>
saveVars == <<service, recording, wake, recorder, demand, gate, newer, backlog, cut>>
cameraVars == <<pipe, valves, built, viewVars, saveVars>>

Branches == {"stream", "save"}
Waiters == {"capture", "recorder"}

CameraInit ==
    /\ pipe = "none" /\ valves = {} /\ built = {}
    /\ users = [b \in Branches |-> 0] /\ viewer = [v \in Viewers |-> "away"]
    /\ service = "idle" /\ recording = FALSE /\ wake = FALSE /\ recorder = "asleep"
    /\ demand = FALSE /\ gate = "clear" /\ newer = {} /\ backlog = 0
    /\ stale = {} /\ cut = {}

-------------------------------------------------------------------------------
(* FrameStore *)

\* acquire and release under the lock; the first and the last go on to the valve.
AddUser(b) == users' = [users EXCEPT ![b] = @ + 1]
IsFirst(b) == users[b] = 0
DropUser(b) == users' = [users EXCEPT ![b] = @ - 1]
IsLastUser(b) == users[b] = 1

\* _set_valve: a pipeline that is being built is not there yet.
SetValve(b, on) ==
    /\ valves' = IF pipe # "up" THEN valves ELSE IF on THEN valves \cup {b} ELSE valves \ {b}
    /\ LET overtaken == IF pipe = "up" THEN ~(on <=> users[b] > 0)
                        ELSE b \in built /\ ~(on <=> b \in valves)
       IN stale' = IF overtaken THEN stale \cup {b} ELSE IF pipe = "up" THEN stale \ {b} ELSE stale
    /\ UNCHANGED <<pipe, built, users>>

\* push: everybody who waits is woken.
Push == newer' = Waiters

\* fresh of the recorder: it reads the sequence and asks for a frame.
AskNew(w) == demand' = TRUE /\ newer' = newer \ {w} /\ cut' = cut \ {w}

-------------------------------------------------------------------------------
(* HTTP: _stream, _snapshot *)

ViewerTo(v, s) == viewer' = [viewer EXCEPT ![v] = s]

Arrive(v) ==
    /\ viewer[v] = "away" /\ AddUser("stream")
    /\ ViewerTo(v, IF IsFirst("stream") THEN "opening" ELSE "watching")
    /\ UNCHANGED <<pipe, valves, built, stale, saveVars>>

Leave(v) ==
    /\ viewer[v] = "watching" /\ DropUser("stream")
    /\ ViewerTo(v, IF IsLastUser("stream") THEN "closing" ELSE "away")
    /\ UNCHANGED <<pipe, valves, built, stale, saveVars>>

ViewerTurnsValve(v) ==
    /\ \/ viewer[v] = "opening" /\ SetValve("stream", TRUE) /\ ViewerTo(v, "watching")
       \/ viewer[v] = "closing" /\ SetValve("stream", FALSE) /\ ViewerTo(v, "away")
    /\ UNCHANGED saveVars

-------------------------------------------------------------------------------
(* The services, one at a time *)

\* A frame that finds the write queue full is dropped.
Enqueued == IF backlog < QueueSize THEN backlog + 1 ELSE backlog

OnCapture ==
    /\ service = "idle" /\ pipe = "up"
    /\ newer' = newer \ {"capture"}
    /\ AddUser("save")
    /\ service' = IF IsFirst("save") THEN "capture opens" ELSE "capture asks"
    /\ UNCHANGED <<pipe, valves, built, viewer, stale>>
    /\ UNCHANGED <<recording, wake, recorder, demand, gate, backlog, cut>>

CaptureAsks ==
    /\ service = "capture asks" /\ service' = "capture waits"
    /\ demand' = TRUE /\ cut' = cut \ {"capture"}
    /\ UNCHANGED <<pipe, valves, built, viewVars, recording, wake, recorder, gate, newer, backlog>>

\* A frame, or the timeout; the frame is queued.
CaptureEnds ==
    /\ service = "capture waits"
    /\ backlog' = IF "capture" \in newer THEN Enqueued ELSE backlog
    /\ DropUser("save")
    /\ service' = IF IsLastUser("save") THEN "capture closes" ELSE "idle"
    /\ UNCHANGED <<pipe, valves, built, viewer, stale>>
    /\ UNCHANGED <<recording, wake, recorder, demand, gate, newer, cut>>

OnRecord(on) ==
    /\ service = "idle" /\ on # recording
    /\ recording' = on
    /\ IF on THEN AddUser("save") ELSE DropUser("save")
    /\ service' = CASE on /\ IsFirst("save") -> "record opens"
                    [] ~on /\ IsLastUser("save") -> "record closes"
                    [] OTHER -> "record wakes"
    /\ UNCHANGED <<pipe, valves, built, viewer, stale>>
    /\ UNCHANGED <<wake, recorder, demand, gate, newer, backlog, cut>>

ServiceTurnsValve ==
    /\ \/ service = "capture opens" /\ SetValve("save", TRUE) /\ service' = "capture asks"
       \/ service = "capture closes" /\ SetValve("save", FALSE) /\ service' = "idle"
       \/ service = "record opens" /\ SetValve("save", TRUE) /\ service' = "record wakes"
       \/ service = "record closes" /\ SetValve("save", FALSE) /\ service' = "record wakes"
    /\ UNCHANGED <<viewer, recording, wake, recorder, demand, gate, newer, backlog, cut>>

\* A plausible bug: only the switch to off interrupts the recorder.
WokenToStop == wake \/ ~recording

Woken == TRUE

RecordWakes ==
    /\ service = "record wakes" /\ service' = "idle"
    /\ wake' = Woken
    /\ UNCHANGED <<pipe, valves, built, viewVars, recording, recorder, demand, gate, newer, backlog, cut>>

-------------------------------------------------------------------------------
(* The recorder and the writer *)

\* Both waits end with the event, which is cleared before the flag is read.
RecorderWakes ==
    /\ recorder \in {"asleep", "pauses"} /\ wake
    /\ recorder' = "woken"
    /\ UNCHANGED <<pipe, valves, built, viewVars, service, recording, wake, demand, gate, newer, backlog, cut>>

RecorderClears ==
    /\ recorder = "woken" /\ recorder' = "checks"
    /\ wake' = FALSE
    /\ UNCHANGED <<pipe, valves, built, viewVars, service, recording, demand, gate, newer, backlog, cut>>

IntervalPasses ==
    /\ recorder = "pauses" /\ recorder' = "checks"
    /\ UNCHANGED <<pipe, valves, built, viewVars, service, recording, wake, demand, gate, newer, backlog, cut>>

RecorderChecks ==
    /\ recorder = "checks"
    /\ IF recording
       THEN recorder' = "waits" /\ AskNew("recorder")
       ELSE recorder' = "asleep" /\ UNCHANGED <<demand, newer, cut>>
    /\ UNCHANGED <<pipe, valves, built, viewVars, service, recording, wake, gate, backlog>>

RecorderEndsWait ==
    /\ recorder = "waits" /\ recorder' = "pauses"
    /\ backlog' = IF "recorder" \in newer /\ recording THEN Enqueued ELSE backlog
    /\ UNCHANGED <<pipe, valves, built, viewVars, service, recording, wake, demand, gate, newer, cut>>

\* Written, or lost to an OSError.
WriterTakes ==
    /\ backlog > 0 /\ backlog' = backlog - 1
    /\ UNCHANGED <<pipe, valves, built, viewVars, service, recording, wake, recorder, demand, gate, newer, cut>>

-------------------------------------------------------------------------------
(* The pipeline *)

\* A plausible bug: with what belongs to a pipeline, _open resets the request as well.
DemandReset == FALSE

DemandKept == demand

OpenPipe ==
    /\ pipe = "none" /\ pipe' = "building"
    /\ demand' = DemandKept
    /\ UNCHANGED <<valves, built, viewVars>>
    /\ UNCHANGED <<service, recording, wake, recorder, gate, newer, backlog, cut>>

\* A plausible bug: the valves start shut, for the next user to open.
StartsShut(b) == FALSE

StartsOpen(b) == users[b] > 0

BuildBranch(b) ==
    /\ pipe = "building" /\ b \notin built /\ (b = "save" => "stream" \in built)
    /\ built' = built \cup {b}
    /\ valves' = IF StartsOpen(b) THEN valves \cup {b} ELSE valves
    /\ stale' = stale \ {b}
    /\ UNCHANGED <<pipe, users, viewer, saveVars>>

Install ==
    /\ pipe = "building" /\ built = Branches
    /\ pipe' = "up" /\ built' = {}
    /\ UNCHANGED <<valves, viewVars, saveVars>>

Waiting(w) ==
    /\ w \notin newer
    /\ IF w = "capture" THEN service = "capture waits" ELSE recorder = "waits"

\* _close: an error, the end of the stream, a stall, a pipeline that did not start.
Close ==
    /\ pipe = "up" /\ pipe' = "none" /\ valves' = {} /\ gate' = "clear"
    /\ demand' = (demand /\ gate # "seen")
    /\ cut' = IF gate # "clear" /\ ~demand' THEN cut \cup {w \in Waiters : Waiting(w)} ELSE cut
    /\ UNCHANGED <<built, viewVars, service, recording, wake, recorder, newer, backlog>>

\* _save_gate reads the flag, and clears it; the frame it lets through is past the valve.
GateSees ==
    /\ pipe = "up" /\ "save" \in valves /\ gate = "clear" /\ demand
    /\ gate' = "seen"
    /\ UNCHANGED <<pipe, valves, built, viewVars, service, recording, wake, recorder, demand, newer, backlog, cut>>

GateClears ==
    /\ gate = "seen" /\ demand' = FALSE
    /\ gate' = "encoding"
    /\ UNCHANGED <<pipe, valves, built, viewVars, service, recording, wake, recorder, newer, backlog, cut>>

OnJpegSample ==
    /\ gate = "encoding" /\ gate' = "clear" /\ Push
    /\ UNCHANGED <<pipe, valves, built, viewVars, service, recording, wake, recorder, demand, backlog, cut>>

-------------------------------------------------------------------------------

ServiceSteps == CaptureAsks \/ CaptureEnds \/ ServiceTurnsValve \/ RecordWakes

RecorderSteps ==
    RecorderWakes \/ RecorderClears \/ IntervalPasses \/ RecorderChecks \/ RecorderEndsWait

PipelineNext ==
    OpenPipe \/ (\E b \in Branches : BuildBranch(b)) \/ Install \/ Close

ViewNext == PipelineNext \/ \E v \in Viewers : Arrive(v) \/ Leave(v) \/ ViewerTurnsValve(v)

SaveNext ==
    \/ PipelineNext \/ GateSees \/ GateClears \/ OnJpegSample
    \/ OnCapture \/ (\E on \in BOOLEAN : OnRecord(on))
    \/ ServiceSteps \/ RecorderSteps \/ WriterTakes

CameraNext == ViewNext \/ SaveNext

CameraSpec == CameraInit /\ [][CameraNext]_cameraVars

CameraTypeOK ==
    /\ pipe \in {"none", "building", "up"} /\ valves \subseteq Branches /\ built \subseteq Branches
    /\ users \in [Branches -> 0..(Cardinality(Viewers) + 2)]
    /\ viewer \in [Viewers -> {"away", "opening", "watching", "closing"}]
    /\ service \in {"idle", "capture opens", "capture asks", "capture waits", "capture closes",
                    "record opens", "record closes", "record wakes"}
    /\ recording \in BOOLEAN /\ wake \in BOOLEAN /\ demand \in BOOLEAN
    /\ recorder \in {"asleep", "woken", "checks", "waits", "pauses"}
    /\ gate \in {"clear", "seen", "encoding"} /\ newer \subseteq Waiters
    /\ backlog \in 0..QueueSize /\ stale \subseteq Branches /\ cut \subseteq Waiters

-------------------------------------------------------------------------------

\* Once nobody is on the way to the valve, a branch is encoded if and only if it has
\* users, unless the thread that set it last was overtaken by another (mjpeg_http.py:
\* nothing is encoded while nobody watches or records).
ValveFollowsUsers ==
    pipe = "up" =>
        \A b \in Branches \ stale :
            \/ b \in valves <=> users[b] > 0
            \/ b = "stream" /\ \E v \in Viewers : viewer[v] \in {"opening", "closing"}
            \/ b = "save" /\ service \in {"capture opens", "capture closes", "record opens", "record closes"}

\* A frame that was asked for is still asked for, or on its way, until it comes: no
\* request is eaten by another's frame, a shut valve or a new pipeline, only by one
\* that breaks down with the frame in it.
RequestsStand ==
    \A w \in Waiters \ cut : Waiting(w) => demand \/ gate # "clear"

\* A recording that is on goes on to ask for frames: no wake-up is lost.
RecordingAsks == recording ~> (recorder = "waits" \/ ~recording)

===============================================================================
