# Verification of indomitus-rover-core

TLA+ models of the rover's control software, checked with TLC and, where a
property matters for every size of the system, proved with TLAPS. The modules
follow the code in `src/`; `PROJECT.json` maps every definition to its lines.

## 1. The system

A ROS 2 rover: four wheels, each with a steering and a drive motor on CAN, an
arm, cameras, lights, a sample container, three radios. Operators drive it with
a gamepad, a terminal, a ground station over Wi-Fi, or a LoRa radio; Nav2 drives
it too.

| Component (package) | State it keeps | Operations | Interacts with | Hard part |
|---|---|---|---|---|
| Drive manager (`rover_drive`) | belief about motors, controller, inhibit, compact; one guard per client; switch generation; seed progress | power, toggle, compact, clear errors, seed, heartbeat | calls controller_manager, swerve controller, hardware node; latched `drive/state` to consoles | replies out of order, two operators, startup snapshot, half-done operations |
| Drive hardware (`rover_hardware_interface`) | `motors_enabled_`, socket, last write time, feedback, fault trackers, event queue | lifecycle, `read`, `write`, enable, clear, watchdog, polls, publishing | controller_manager loop and lifecycle, its own executor, CAN receive thread | three senders and one disable, two locks, freshness across disables, bounded queue |
| LoRa link (`rover_comms`) | last command, failsafe, burst counter | accept frame, link lost, timeout, publish tick, reply | mast, twist_mux | two threads over one lock taken several times a tick |
| LoRa wire format (`rover_comms`) | parser state | feed, reset | reader thread, radio | resynchronisation |
| Ground station link lamp, drive source lamp (`rover_comms`, `rover_drive`) | last seen times, last confirmed colour, outstanding request | tick, reply | lights services, mirrors twist_mux | stale belief about the lamp |
| Rover teleoperation (`rover_teleop`) | watchdog, modes, button edges, requests, light bar | joy, publish and timeout ticks, key presses, repaint | twist_mux, drive manager, the pad | burst then silence, presses between samples, a bar that others paint over |
| Fault logger (`rover_diagnostics`) | seen events, log files | event, rotate | `/fault_events` | replayed history, rotation that fails half-way |
| Lights, container, power (`rover_peripherals`) | confirmed state, outstanding command | services, actions, CAN replies, heartbeat | ESP32 boards on CAN | late acknowledgements that name no request |
| Cameras (`rover_cameras`) | pipeline, valves, users, frames asked for, recordings | watch, capture, record, supervise, gather | GStreamer, HTTP viewers, dataset node | valve set outside the lock, wake-ups, several threads over one state |
| Arm lock and tasks (`arm_teleop`, `arm_tasks`) | lease, its holder, goals, remembered target | acquire, renew, release, align, orient | MoveIt, trajectory controller, two hosts | a lease that must outlive its move, crashes, late calls |
| Arm teleoperation (`arm_teleop`) | gates, locks, modes, background threads, held keys | joy, dropout, buttons, key events, home, level | Servo, the arm lock, panel_align_node | threads beside the executor, devices that vanish with a key down |
| Swerve and odometry controllers, arm hardware, perception, localisation, costmaps, simulation | numerical state | callbacks | Nav2, MoveIt | numerical (section 7) |

What makes each correct: the manager's belief equals what it was told, the
controller follows power and the consoles settle on it; no command follows a
disable and no motor is on behind a flag that says off; the fault events tell
the whole story and the log keeps it; a dead link, pad or device stops the
rover once and then falls silent; a request is confirmed only by its own
acknowledgement; of the goals its lease covers the arm executes one at a time, and
it is jogged only for a key that is down or a stick that was seen centred; the camera
encodes what is used.

`PROJECT.json` lists the components with their status and the hazards found in
the code, each at its line with the property that watches it.

## 2. Modules

| Module | Models | State and actions against the code |
|---|---|---|
| `ServiceCall` | `service_call.py` | A client's one slot: idle, sent, answered. `Guarded` is `GuardedCall.call`. |
| `DrivePower` | `drive_manager_state.py` | The frozen dataclass as a record; each `after_*` function as an operator. |
| `DriveManager` | `drive_manager_node.py` | One action per callback (the node is spun by one thread). Servers outside the package are one action per request (`ServePower`, `ServeSwitch`, `ServeCompact`, `ServeClear`, `ServeList`) that changes the truth the belief is about: `hwActive`, `ctrlActive`, `motorsLive`, `wheelsCompact`. |
| `HardwareTx` | the senders in `rover_hardware_interface.cpp`, `CanBus::send` | Three threads with program counters, `tx_sequence_mutex_`, two transmit paths (commands at 0x200 + ID, special frames at the ID) that keep order within but not across. One motor stands for eight: every burst sends each motor one frame. |
| `FaultDetector` | `fault_detector.cpp`, `motor_fault.hpp` | Pure edge triggering: the tracker after one look, and the events the look queues. |
| `FaultFeed` | `read()`, `dispatch_can_frame`, freshness, the event queue and its drain | Receive thread, control loop and drain timer as actions; the clock is one flag per motor. |
| `LoraLink` | `link_state.py`, `lora_rover_node.py` | Reader thread and publish tick; the tick takes one step per acquisition of the lock. |
| `LoraFrame` | `lora_frame.py`, the line | The parser byte by byte, and a line that corrupts, drops and adds bytes and closes. The CRC is assumed to match exactly the bodies that were sent. |
| `TowerLamps` | `gs_link_lamp_node.py`, `drive_source_lamp_node.py` | A behaviour is one of the two; the lights node is its server. |
| `Lights` | `rover_lighting_node.py` | A service is command, wait and commit; the board executes in order and any frame may be lost; the heartbeat reads and publishes in two steps beside them. |
| `PowerMonitor` | `rover_power_node.py` | Start-up enabling with retries, the switches and the shutdown, over the bus the lights use too. |
| `Container`, `Scale` | `rover_container_node.py` | The lid's action goal with polls, cancellation and deadline; the weight's two frames, which name no request. |
| `RoverTeleop` | `gamepad_interpreter_node.py`, `teleop_state.py`, `joy_input.py`, `drive_kinematics.py`, keyboard node | Pad or terminal, the message between, edges, watchdog and burst; a stick is its sign. |
| `LightBar` | `controller_led.py` | The pad's bar, repainted by message and timer, overpainted by others. |
| `FaultLog` | `fault_logger_node.py`, `event_log.py` | Deduplication over a bounded history, the file and its rotation, each of whose steps may fail. |
| `Camera` | `camera_node.py`, `mjpeg_http.py` | Valves and users, viewers, service, recorder and writer threads, the pipeline's end and restart. |
| `Dataset` | `dataset_node.py` over several cameras | Calls to all cameras with a deadline, states gathered by several threads. A camera's switch and its latched publication are one step here. |
| `ArmMotionLock`, `ArmExclusion` | `arm_motion_lock_server.py`, `arm_motion_lock.py` and its call sites, `level_tool` | The lease with time in ticks, callers that crash, calls that come late, goals that go on after their caller timed out and left (`stray`), and the call site that takes no lease (`Loose`); and the mutual exclusion the lease implements. |
| `PanelAlign` | `panel_align_node.py` | Two services, their steps and goals, the action server and the camera. |
| `ArmTeleop` | `keyboard_servo_node.py`: `GamepadInputLoop`, with `ServoController` and `EndEffectorClient` | One executor thread and a background thread per activity. |
| `KeyboardTeleop` | `keyboard_servo_node.py`: `KeyboardInputLoop`, `_run_teleop` | The reader thread, a thread for each home, align, orient and level, the main thread, and Servo with requests to start it that outlive their caller; a velocity is the set of keys it sums. |
| `PanelPrompt` | the prompt of both input loops | Time counted in polls. |
| `MCDriveManager`, `MCFaultFeed`, `MCStations`, `MCArm` | | Instances for TLC. `MCStations` and `MCArm` put components that share no state side by side. |
| `DriveManagerProofs`, `HardwareTxProofs`, `FaultFeedProofs`, `LoraProofs`, `RoverTeleopProofs`, `PeripheralsProofs`, `StationsProofs`, `ArmProofs` | | Theorems about the modules they extend. |

Variables marked "history" in the modules exist for properties only; none is
read by a guard of a modelled operation. `_state_dirty` is written and never
read in the code and is left out.

## 3. Runs

| Run | Question | Bounds and why they suffice |
|---|---|---|
| `drive` | Is what the manager was told true, does the controller follow power, and do the consoles settle? | Two requests of any of the operator's five services: two in flight and answered in either order. The safety properties are proved for any number. |
| `hardware_tx` | Can a command follow a disable, a motor stay on, a deactivation hang? | Two queued command frames (one before and one after any check), two special frames before a new request begins. |
| `fault_story` | Do events add up, and is a lasting fault told? | One motor, the bus, one fault code and a queue of two: edges are per component, and one pass can queue two events. A behaviour is followed until an event is dropped. |
| `stations` | Is what each node of the rover's stations says or commands what its hardware, driver or peer had it know? | One component at work in each behaviour (below). |
| `arm` | Is one leased goal executed at a time, and does the arm move only for what somebody asks? | One component at work in each behaviour (below). |

`MCStations` and `MCArm` pick a component when a behaviour begins (`part`) and
leave the others at rest: they share no state, so that the sum of their state
spaces is explored and not the product. Their bounds:

* link: `zero_burst` is the code's default, 3. Frames: bodies of eight bytes (the
  shortest in which a body holds a sync word away from both ends), one without
  sync bytes, one with the sync word inside, one with half of it at either end;
  at most two lookalikes missed in a row.
* lights: two pins, two frames in flight, so that an earlier command's answer
  can meet a later command. An acknowledgement is at most one call late (the
  timeout is far longer than the bus), and a restart takes longer than anything
  under way. The heartbeat runs beside calls to one light with one frame in flight.
* lamps: three sources, one of them autonomous. Power: two sensors, two attempts
  and two frames. Lid: three frames in flight; scale: two ids and four frames, one
  measurement and an earlier one.
* drive: three positions of the sticks (strafe backwards and a spin among
  them), one movement key, three modes, one request, a burst of two and two typed
  buttons: the second press is what an edge can swallow.
* log: six faults, a queue of two, a history of four, files of one line and two
  backups: every file has been rotated twice.
* views, saves: two viewers, or one request, recorder and writer. Gather: two
  cameras, two threads and two calls, without deaths of cameras; record: with them.
* arm lock: two clients in two processes, with leases of two ticks (home) and one
  (align), and `level_tool` beside them. A move lasts as long as it likes: the code's
  timeouts do not keep it within its lease. Home asks for `safe_pose_timeout` and 15 s
  (600 s if `safe_pose_timeout` is 0 or less, when nothing bounds the move); align asks
  for 90 s, and its waits for detection, planning and servers, the 60 s of execution and
  two waits of 5 s can add up to more.
* align: both services, two attempts at the inverse kinematics. Pad: three tools, the
  buttons of one group that interfere in each behaviour.
* keys: two keyboards with `w` and `r`, or one with the two gripper keys and `r`, with
  `r` and `p`, or with `f`; `m` is `p` by another name. One unread event of each keyboard.
* prompt: a confirm period of three polls.

Seven runs show the code disagreeing with a sentence of its own:

* `drive_stale_switch`: power off succeeds, but its reply is dropped because a
  newer request is out, and the newer one is refused. The manager then believes
  an inactive controller active, what `service_call.py` says the guard prevents.
* `drive_clear_race`: power on and clear errors in flight together. The clear
  disables the motors; its reply lands first; the power reply lifts the inhibit
  again. `can_drive` is true and no twist moves the rover.
* `drive_seed_dropped`: a compact request before the 1 Hz seed cancels the
  read-back for good; a powered drive is believed off.
* `hardware_watchdog`: the watchdog checks `motors_enabled_`, both disable
  bursts go out, the watchdog sends. A command frame follows the disable frame.
* `fault_signal_ok`: a silent motor is reported back when motors are disabled or
  enabled, before a frame of it has arrived.
* `arm_shared_holder`: align and orient of one process present one holder id and
  take no common lock in the process; the server renews the lease for the second
  while the first moves, and two goals are executed.
* `arm_delay`: before a planned activity the arm is stopped and then the delay flag is
  raised, in two statements of a background thread. A key the reader handles between
  them sets a velocity that lasts through the delay.

## 4. What the properties leave out

Some behaviours really do break what a reader would like to hold. A history
variable marks them, and the property claims nothing there:

* `told`, `raised`, `refused` (`DriveManager`): before the first reply, after a
  call that raised after taking effect, or after a dropped stale reply, the
  manager knows nothing.
* `raced` (`HardwareTx`): an enable overlapped a disable or a clear. The enabling
  side takes no lock, and those overlaps leave flag and motor apart; a disable
  that runs alone ends the exclusion.
* `watched` (`FaultFeed`): a component changed before it was first looked at; the
  detector's first look is never an event.
* `doubt`, `unsure` (`Lights`, `PowerMonitor`): the last command of a pin or a
  sensor timed out, or was answered by an answer to an earlier one with the same
  byte. `clear` (`Scale`): a weighing began with an earlier one's frames under way.
* `behind`, `wedged` (`TowerLamps`): somebody else changed the colour, or a
  request went down with an earlier lights node and holds the client's one slot.
* `stale` (`Camera`): the thread that set a valve last was overtaken by another.
  `cut`: the pipeline broke down with the frame in it. `steady`, `outrun`
  (`Dataset`): another client or a crash switched a camera, or a thread was overtaken.
* `excused`, `lookalikes` (`LoraFrame`): a frame that begins inside a body cannot
  be found, and a body that contains the sync word may cost one more.
* `prompt` (`ArmMotionLock`): a caller gave up on the server. Its call is served
  late, and a late release ends a lease that its own process has taken again.
  `Outlasted`: a goal that runs longer than the lease its caller asked for, by then
  granted to anybody. `stray`: goals that execute with nobody inside a lease. A caller
  that times out cancels nothing if its goal's acceptance has not arrived, waits for the
  cancel for 5 s otherwise, and releases the lease either way; and `level_tool` never
  takes it. Such goals execute beside leased ones, and no property claims that they do
  not.
* `unheard` (`ArmTeleop`): the one message that was being handled when an activity
  started may still command a velocity, until the next message.
* `lost` (`KeyboardTeleop`): a key that was down on a keyboard when it was
  unplugged stays pressed. `clean`: Servo may be left running behind the shutdown, when
  its stop is not confirmed (the code warns and goes on), or when an align, orient or
  level thread, for none of which the exit waits, is still there to start it again, or a
  request to start it is under way. `skipped` (`PanelPrompt`): the panel was seen while the
  gamepad's gate was closed, where nothing polls.

## 5. Fairness

* Drive manager: `rclpy.spin` runs every ready callback and timer, and the
  servers answer. Operators, failures and joystick messages owe nothing.
* Hardware: a lifecycle transition that began keeps running and obtains the mutex
  (strong fairness: the control loop gives it back every cycle and sleeps out its
  period), a `write()` in progress ends, queued commands leave. Nothing is
  assumed of the executor.
* Fault feed: the control loop reads and the drain timer fires.
* LoRa: the publish timer ticks and time passes; reader and radio owe nothing.
* Lamps: the tick fires and an outstanding request is granted or refused.
* Light bar: a message that waits is handled and the repaint timer fires.
* Camera: the service thread and the recorder thread take their next step.
* Arm lock: time passes. No client has to do anything.
* Gamepad arm node: the executor handles the message or the stop that is due; the
  dropout timer is strongly fair, since the executor serves its ready callbacks
  in turn and a callback in between only delays it.
* Keyboard arm node: home and main thread run. Home's waits are all bounded, its move
  by `safe_pose_timeout`; with a value of 0 or less it is not, and the exit may wait for
  ever. Reader, assist threads and Servo owe nothing.

In `MCStations` and `MCArm` the fairness of a component holds while it is the one
at work. Safety runs use none of it.

## 6. Proofs

Eight modules hold theorems; each states them of its component's own
specification, for every value of the constants that meets the named assumptions.
Every safety property of a passing run is proved.

**`DriveManagerProofs`**: `TypeCorrect`, `MotorsAreAsConfirmed`,
`CompactIsAsConfirmed`, `ControllerIsAsConfirmed`, `ControllerDoesFollowPower`, for
any number of requests and any set of operator services. Types alone need a
strengthening: a generation exists for every press paid (`PressesPay`), or `Start`
could leave the table of switch requests. `ConfirmedInv` says for each belief what
the outstanding request promises: an unanswered request has not touched the truth,
a successful answer on its way carries exactly the new truth, a seed in flight
carries the truth as of its reading unless an operator has acted since, and only
the newest generation can be the last one served. `NewestFollows` adds, while
nothing was refused or lost, that the newest switch request carries what power was
last confirmed. Without those clauses the properties are not inductive: a state in
which an answered request disagrees with the truth satisfies them and breaks them
in one step.

**`HardwareTxProofs`**: `TxTypeCorrect`, `NoWriteAfterDisable`, `NoMotorStaysOn`, for
every length of the queues. While a disable that nothing overlapped is under way
the flag is down (`FlagDown`), so that no `write()` passes its check under the
mutex; those queued before are what the settle delay waits for (`WritesDrain`); and
a motor that is on is meant to be, or is still owed its disable (`OnIsMeant`).
`Quiet` must speak of overlapped disables as well while the socket is open: what
the executor left behind in a deactivated component is covered only by its closing.

**`FaultFeedProofs`**: `FeedTypeCorrect`, `TheEventsTellAll`, for any number of motors
and faults and any capacity of the queue. The events published and those pending,
told in order, lead from the first look to what the trackers hold (`StoryInv`).
What a queue tells and what one pass of `read()` queues are recursive functions,
and what they compute for a queue of any length takes an induction.

**`LoraProofs`**, the link: `TypeCorrect`, `FullStopIsOwed`, `AtMostOneLateTwist`, for
every `zero_burst`, from `LinkInv`: a live link has its whole burst ahead and nothing
late behind; a composed moving twist exists only while that is so; between decision
and publication the sum of stops sent and owed may be one short. The wire:
`FrameTypeCorrect`, `ParserResynchronises`, for every length of
a body and every set of bodies. `InStep` says where the parser stands in a frame
that began outside of any body, `OutOfStep` where it may stand in one that did not,
and `MissesAreEarned` that every miss but the first had a lookalike before it.

**`RoverTeleopProofs`**: `RoverTypeCorrect`, `SilenceStopsOnce`, `EveryPressFires`,
`SteeringIsAsSeen`, for every pad, key map and burst. The stops owed and those spent
make one burst (`BurstIsSpent`); behind a message with a press comes one without, so
that the press meets a button that is up (`ReleaseBetween`).

**`PeripheralsProofs`**: `WeightsAreOfOneWeighing`, `LidGoalsTell`, `EnabledDoReport`,
`LightsAreAsTold`, for any number of frames in flight, and any lights, pins, sensors
and ids. The answers name no request, so that
an invariant has to say of every frame on the bus whose it is. In all four
components the same order helps: the bus delivers in order, hence what is under way
is first what is left of earlier requests and then what belongs to the one at work.
`OrderedByGoal` and `LateBetweenWaits` say so of the lid, `Straight` and `Crossed`
of the sensors, `CallAlone` and `CallCrossed` of the lights. A request that repeats a
command still under way may hear the earlier one's answer (`Crossed`), which says the
same or leaves the pin in doubt; of any other the first answer that matches is its
own, and what it says is what the board shows. That a heartbeat tells
the truth needs what it read to be at most one change old (`BeatIsRecent`).

**`StationsProofs`**, each station by itself:

* `ValvesFollowUsers` and `RequestsDoStand` of the camera, for any number of viewers.
  `UsersCounted` relates the counter to the threads that hold it, and `ValveOwed`
  says that a valve that does not fit its users has a thread on its way that sets it.
* `DatasetIsSo`, for any number of cameras, threads and calls. `CallsInOrder`: of the
  calls under way to a camera the awaited one is the last. `CameraTells`: of what was
  published of a camera, the newest is true and is unread, in a thread's hands, or
  stored, or was outrun.
* `FilesHoldTheLast` and `EventsAreLoggedOnce`, for any depth, history, file length
  and number of backups. The numbers written ascend (`WrittenInOrder`), and
  what can be delivered again was remembered (`LastAreSeen`: the history is
  at least twice the depth). `FilesInv` lays the files end to end over what was written
  and says that each backup was full when it was made, so that a loss reaches only
  what is older than all of them; a rotation that stopped half-way leaves the
  handle closed, and the clause about backups is not needed any more.

And together: a step of the rover is a step of one station that leaves the others
alone (`EachPartSteps`), so that `MCStations` implements each station's
specification (`EachStationBehaves`) and keeps what was proved of it:
`BoardIsAsBelieved`, `ContainerDoesTell`, `DriverIsHeard`, `CameraDoesServe`,
`DatasetDoesTell`, `LogDoesTell` and `StationsTypeCorrect`.

**`ArmProofs`**, the lock: `LockTypeSafety`, `LeaseSafety`, and
`LeaseImplementsExclusion`, the refinement of `ArmExclusion`, for every number of
clients, any leases and moves of any length. A client is *owed* the lease while
its call is granted, it stands inside, or its goal is executing, a crash
notwithstanding (`Owed`), until the lease it asked for is over, counted from its call
(`Outlasted`). While no caller has given up on the
server, the server's holder is then its process, with at least as many ticks left as it
is owed (`OwedIsLease`): the server counts from a later moment than the client does.
So two owed clients are of one process, and hence one (`OwnersExclude`); and a goal
awaited or orphaned belongs to a client inside (`GoalHasAnOwner`). That a caller waits
for the answer to a call under way (`AskersWait`) is what keeps a grant from
reaching nobody. The one hypothesis is `Distinct`, one call site per holder id. It is
*not* true of align and orient, which share theirs: `arm_shared_holder` shows what
follows. Nothing is assumed of how long a move lasts; what is proved is
accordingly about goals within their lease, and about neither `level_tool`'s nor those
that a timed-out caller left running.

Its tasks: `AlignTypeCorrect`, `ReplaysWereReached`: a result belongs to
the request that waits for it (`ResultIsTheRequests`). The gamepad:
`TeleopTypeCorrect`, `LocksAreKept`, `MovesAreUndisturbed` (of home and level; align and
orient leave the gate open), `SilenceSettles`: teleop
is unlocked by a home move only and settled by centred
sticks only, and a message past the gate saw both (`Passed`); while a move owns the
joints no message is half handled, and the first one after the claim has zeroed the
velocity (`Claimed`). The keyboard: `KeyTypeCorrect`, `KeysDoExplainMotion`, for any
keyboards and keys: a key in use is down, or its release is still unread on the
keyboard it went down on (`HeldOrReleased`), or that keyboard was lost. For the
shutdown: main stops in order and behind the reader and home (`EndsInOrder`), so that
when it has seen Servo stopped with nobody left to start it, nobody comes after. The
prompt: `PromptsAreSightings`, an action property. `ArmTypeCorrect` is `MCArm`'s
type invariant from all of theirs.

Assumptions on constants are those named in the modules. Most say that model values
for "nothing" are not values (`PowerAssumption`, `LidAssumption`, `ScaleAssumption`,
`LightsAssumption`, `DatasetAssumption`, `PromptAssumption`, `LockAssumption`), or that
keys that move are not keys that call (`KeyAssumption`); the log's history is at
least twice its depth (`FaultLogAssumption`; in the code they are 128 and 20). The
environment's are part
of the models: a reply with ok means the change was made; `switch_controller`
requests are served in order; the drive manager is the only one to command
controller_manager; a special CAN frame is never dropped by a full queue; `read()`
sees one consistent snapshot; the CRC accepts a body that was sent and no other.

Induction over data is done with sets: `SetInduction` in `FaultFeedProofs`, which
`StationsProofs` states again as `StepByStep`, says that a set that holds 0 and the
successor of each of its members holds every natural number. It follows from
`WFMin`, without an operator for a parameter, and a recursive function is unfolded
from its `CHOOSE`.

Only model-checked: the liveness properties `DisplaySettles`, `DeactivationEnds`,
`FaultsAreTold`, `LinkFallsSilent`, `LampFollows`, `RecordingAsks`, `BarSettles`,
`LeaseRunsOut`, `PadSilenceStops` and `ExitEnds` (fairness and ENABLED are out of
the prover's reach).

## 7. Not modelled

* Swerve and odometry controllers: kinematics, homing and timeouts are
  floating-point arithmetic inside one real-time callback. Perception, tilt, costmap
  and localisation are numerical as well, and the simulation is not the rover.
* Arm hardware interface: a motor state machine decided by floating-point limits
  and timings; the concurrency it has is that of the drive hardware.
* End effector node, vendor protocols: they encode and decode; no answer's order
  matters.
* Launch files, behaviour trees and descriptions configure other packages.
* The arm's edges: a restart of the lock server (it forgets its holder); the gamepad's
  exit button, which ends the node with its threads wherever they stand, and an exit by
  signal; the lock on pitch and yaw in the keyboard node; a stop request that Servo serves
  late (it only stops it); the tool lockout beyond its effect that align and orient may
  not begin. Two goals at once of which one is `level_tool`'s or was left behind by a
  time-out are in the model, and no property speaks of them.
* In modelled components: logging, diagnostics text and layout; the drive hardware's
  status poll and `set_steer_zero` (frames that neither enable nor command a drive
  motor), a failed temporary socket in clear errors (it changes nothing) and loss of
  special frames; the fault logger's acceptance of events without a stamp (the
  publisher stamps every one); decoding and publishing of power measurements; a camera's formats
  and calibration; the geometry, inverse kinematics and trajectories of the arm
  (they succeed or fail); hold-orientation; packing of radio fields and the
  arithmetic of the CRC. Over Bluetooth some pads have only a raw device: the bar
  writes to it and cannot tell whether the write was shown; the model calls a
  pad paintable or not.

Five hazards have no property; `PROJECT.json` says why at each.

## 8. Plan

1. The multiplexer: one source drives at a time, and who drives when all fall silent,
   composed of link, teleoperation and lamp, with an abstract specification of its own.
2. An abstract specification of a confirmed switch (asked, done, told), which the
   drive manager, the lights and the power monitor are to implement.
3. The safety half of `LampFollows` and `BarSettles`: what a confirmed colour says, as an
   invariant that can be proved.
4. The arm hardware's state machine with its limits as nondeterministic verdicts.
