----------------------------- MODULE DriveManager -----------------------------
(***************************************************************************)
(* rover_drive/drive_manager_node.py: the single owner of the drive's      *)
(* power state.  Operators (joystick, ground station) ask for power,       *)
(* compact mode and error clearing through services that answer at once;   *)
(* what really happened arrives later, in the replies of                   *)
(* controller_manager, of the swerve controller and of the rover hardware  *)
(* node, and is published latched on drive/state.                          *)
(*                                                                         *)
(* The node runs under rclpy.spin, so each callback is one action.  The    *)
(* servers it calls are outside this package: they are modelled by the     *)
(* truth the node's beliefs are about (hwActive, ctrlActive, motorsLive,   *)
(* wheelsCompact) and by actions that take one request each.               *)
(***************************************************************************)
EXTENDS Naturals, DrivePower, ServiceCall

CONSTANTS
    MaxPresses,    \* bound: operator requests accepted in a behaviour
    Buttons        \* the operator services used in this instance

AllButtons == {"power", "toggle", "compact", "clear", "joystick"}

ASSUME MaxPressesAssumption == MaxPresses \in Nat
ASSUME ButtonsAssumption == Buttons \subseteq AllButtons

VARIABLES
    state,            \* _state, a DrivePower
    joystick_active,  \* _joystick_active
    published,        \* the latched message on drive/state
    hushed,           \* last publish less than state_min_period ago
    operator_touched, \* _operator_touched
    seed,             \* the startup read-back: stage and the values carried
    power_call,       \* _power_guard and its outstanding request
    compact_call,     \* _compact_guard
    clear_call,       \* _clear_errors_guard
    generation,       \* _switch_guard._generation
    switch_calls,     \* the switch_controller requests, by generation
    hwActive,         \* RoverHardware is in the ACTIVE lifecycle state
    ctrlActive,       \* the swerve controller is active
    motorsLive,       \* RoverHardware::motors_enabled_: frames reach the wheels
    wheelsCompact,    \* the swerve controller is in compact mode
    presses,          \* bound: operator requests accepted so far
    told,             \* history: the belief has heard of the last change
    refused,          \* history: some request was refused or could not be sent
    raised            \* history: some future raised instead of giving its reply

nodeVars == <<state, joystick_active, published, hushed, operator_touched, seed>>
callVars == <<power_call, compact_call, clear_call, generation, switch_calls>>
worldVars == <<hwActive, ctrlActive, motorsLive, wheelsCompact>>
vars == <<nodeVars, callVars, worldVars, presses, told, refused, raised>>

-------------------------------------------------------------------------------
(* Types and initial states *)

Generations == 1..MaxPresses

Messages == [drive : DrivePowers, joystick_active : BOOLEAN]

SeedStages == {"waiting", "hardware_asked", "hardware_read",
               "controllers_asked", "controllers_read", "over"}

Seeds == [stage : SeedStages, motors : BOOLEAN, controller : BOOLEAN]

(***************************************************************************)
(* The node may start before or after the hardware: bringup leaves         *)
(* everything inactive, a simulation comes up active, and a restarted node *)
(* finds whatever its predecessor left.                                    *)
(***************************************************************************)
Init ==
    /\ state = FreshDrive
    /\ joystick_active = FALSE
    /\ published = [drive |-> FreshDrive, joystick_active |-> FALSE]
    /\ hushed = TRUE
    /\ operator_touched = FALSE
    /\ seed = [stage |-> "waiting", motors |-> FALSE, controller |-> FALSE]
    /\ power_call = Idle /\ compact_call = Idle /\ clear_call = Idle
    /\ generation = 0
    /\ switch_calls = [g \in Generations |-> Idle]
    /\ hwActive \in BOOLEAN /\ ctrlActive \in BOOLEAN /\ wheelsCompact \in BOOLEAN
    /\ motorsLive = hwActive
    /\ presses = 0
    /\ told = [motors |-> FALSE, controller |-> FALSE, compact |-> ~wheelsCompact]
    /\ refused = FALSE
    /\ raised = FALSE

-------------------------------------------------------------------------------
(* drive/state *)

Snapshot(s, joystick) == [drive |-> s, joystick_active |-> joystick]

(***************************************************************************)
(* _publish_change: a change goes out at once, unless the last publish is  *)
(* so recent that the heartbeat has to carry it.                           *)
(***************************************************************************)
PublishChange(s, joystick) ==
    IF hushed
    THEN UNCHANGED <<published, hushed>>
    ELSE published' = Snapshot(s, joystick) /\ hushed' = TRUE

\* _commit
Commit(s) ==
    /\ state' = s
    /\ IF s = state THEN UNCHANGED <<published, hushed>>
                    ELSE PublishChange(s, joystick_active)

\* Mutant: the heartbeat repeats the last message instead of the state.
HeartbeatRepeats ==
    /\ published' = published
    /\ hushed' = TRUE
    /\ UNCHANGED <<state, joystick_active, operator_touched, seed,
                   callVars, worldVars, told, refused, raised, presses>>

\* _publish_state on its timer: unconditional.
Heartbeat ==
    /\ published' = Snapshot(state, joystick_active)
    /\ hushed' = TRUE
    /\ UNCHANGED <<state, joystick_active, operator_touched, seed,
                   callVars, worldVars, told, refused, raised, presses>>

\* state_min_period has passed since the last publish.
MinPeriodPasses ==
    /\ hushed
    /\ hushed' = FALSE
    /\ UNCHANGED <<state, joystick_active, published, operator_touched, seed,
                   callVars, worldVars, told, refused, raised, presses>>

OnJoystickActive(data) ==
    /\ "joystick" \in Buttons
    /\ data # joystick_active
    /\ presses < MaxPresses
    /\ presses' = presses + 1
    /\ joystick_active' = data
    /\ PublishChange(state, data)
    /\ UNCHANGED <<state, operator_touched, seed, callVars, worldVars, told, refused, raised>>

-------------------------------------------------------------------------------
(* Startup: adopt whatever is already true *)

(***************************************************************************)
(* _seed_from_controller_manager on its 1 Hz timer.  The timer is          *)
(* cancelled for good once an operator has asked for anything.             *)
(***************************************************************************)
SeedTimer ==
    /\ seed.stage = "waiting"
    /\ seed' = [seed EXCEPT !.stage = IF operator_touched THEN "over" ELSE "hardware_asked"]
    /\ UNCHANGED <<state, joystick_active, published, hushed, operator_touched,
                   callVars, worldVars, told, refused, raised, presses>>

\* controller_manager answers list_hardware_components, then list_controllers.
ServeList ==
    /\ \/ /\ seed.stage = "hardware_asked"
          /\ seed' = [seed EXCEPT !.stage = "hardware_read", !.motors = hwActive]
       \/ /\ seed.stage = "controllers_asked"
          /\ seed' = [seed EXCEPT !.stage = "controllers_read", !.controller = ctrlActive]
    /\ UNCHANGED <<state, joystick_active, published, hushed, operator_touched,
                   callVars, worldVars, told, refused, raised, presses>>

\* _on_hardware_listed: the second question is chained to the first answer.
OnHardwareListed ==
    /\ seed.stage = "hardware_read"
    /\ seed' = [seed EXCEPT !.stage = "controllers_asked"]
    /\ UNCHANGED <<state, joystick_active, published, hushed, operator_touched,
                   callVars, worldVars, told, refused, raised, presses>>

(***************************************************************************)
(* _on_controllers_listed: the snapshot is adopted unless an operator's    *)
(* command arrived while it was being taken.                               *)
(***************************************************************************)
\* Mutant: the snapshot is adopted whatever the operators did meanwhile.
AdoptSeedAlways == TRUE

AdoptSeed == ~operator_touched

OnControllersListed ==
    /\ seed.stage = "controllers_read"
    /\ seed' = [seed EXCEPT !.stage = "over"]
    /\ IF AdoptSeed
       THEN /\ Commit(Seeded(state, seed.motors, seed.controller))
            /\ told' = [told EXCEPT !.motors = TRUE, !.controller = TRUE]
       ELSE UNCHANGED <<state, published, hushed, told>>
    /\ UNCHANGED <<joystick_active, operator_touched, callVars, worldVars, refused, raised, presses>>

\* Either list call raises: the drive is assumed off, and nobody asks again.
SeedFails ==
    /\ seed.stage \notin {"waiting", "over"}
    /\ seed' = [seed EXCEPT !.stage = "over"]
    /\ raised' = TRUE
    /\ UNCHANGED <<state, joystick_active, published, hushed, operator_touched,
                   callVars, worldVars, told, refused, presses>>

-------------------------------------------------------------------------------
(* Power: motors and controller, as one operation *)

\* Whether the server is up is chosen afresh for each request; the bound on
\* presses only ever makes it look down.
Readiness == {ready \in BOOLEAN : ready => presses < MaxPresses}

Counted(call, ready) ==
    presses' = IF ready /\ ~Pending(call) THEN presses + 1 ELSE presses

\* _request_power
RequestPower(desired) ==
    /\ operator_touched' = TRUE
    /\ \E ready \in Readiness :
          /\ power_call' = Guarded(power_call, desired, ready)
          /\ Counted(power_call, ready)
    /\ UNCHANGED <<state, joystick_active, published, hushed, seed, compact_call,
                   clear_call, generation, switch_calls, worldVars, told, refused, raised>>

OnPower == "power" \in Buttons /\ \E desired \in BOOLEAN : RequestPower(desired)

OnPowerToggle == "toggle" \in Buttons /\ RequestPower(~state.motors_enabled)

(***************************************************************************)
(* External: set_hardware_component_state.  Bringing an inactive component *)
(* up runs on_activate, which enables the motors; one already active stays *)
(* as it is; deactivating it disables them.  A refusal changes nothing.    *)
(***************************************************************************)
ServePower ==
    /\ power_call.stage = "sent"
    /\ \E ok \in BOOLEAN :
          /\ power_call' = Answered(power_call, ok)
          /\ hwActive' = IF ok THEN power_call.desired ELSE hwActive
          /\ motorsLive' = IF ok THEN power_call.desired /\ (hwActive => motorsLive)
                                 ELSE motorsLive
          /\ refused' = (refused \/ ~ok)
    /\ UNCHANGED <<nodeVars, compact_call, clear_call, generation, switch_calls,
                   ctrlActive, wheelsCompact, told, presses, raised>>

\* Mutant: the generation is claimed twice for one request.
StartTwice(activate) ==
    /\ generation' = generation + 2
    /\ switch_calls' = [switch_calls EXCEPT ![generation + 1] = Sent(activate)]

\* GenerationGuard.start
Start(activate) ==
    /\ generation' = generation + 1
    /\ switch_calls' = [switch_calls EXCEPT ![generation + 1] = Sent(activate)]

\* Mutant: the controller is only switched on, never off.
SwitchControllerOn(activate) ==
    /\ IF activate THEN Start(TRUE) ELSE UNCHANGED <<generation, switch_calls>>
    /\ told' = [told EXCEPT !.motors = TRUE, !.controller = FALSE]
    /\ UNCHANGED refused

(***************************************************************************)
(* _switch_controller: unguarded, so a second request may leave while the  *)
(* first is out; nothing is sent, and nothing retried, when the service is *)
(* not up.                                                                 *)
(***************************************************************************)
SwitchController(activate) ==
    \/ /\ Start(activate)
       /\ told' = [told EXCEPT !.motors = TRUE, !.controller = FALSE]
       /\ UNCHANGED refused
    \/ /\ told' = [told EXCEPT !.motors = TRUE]
       /\ refused' = TRUE
       /\ UNCHANGED <<generation, switch_calls>>

\* _on_power_result, the reply having arrived.
OnPowerResult ==
    /\ power_call.stage = "answered"
    /\ power_call' = Idle
    /\ Commit(AfterPowerResult(state, power_call.ok, power_call.desired))
    /\ IF power_call.ok
       THEN SwitchController(power_call.desired)
       ELSE UNCHANGED <<generation, switch_calls, told, refused>>
    /\ UNCHANGED <<joystick_active, operator_touched, seed, compact_call,
                   clear_call, worldVars, presses, raised>>

\* _on_power_result, future.result() having raised: the request may or may
\* not have been acted on, and the belief stands as it was.
PowerCallFails ==
    /\ Pending(power_call)
    /\ power_call' = Idle
    /\ told' = [told EXCEPT !.motors = @ /\ ~power_call.ok]
    /\ raised' = TRUE
    /\ UNCHANGED <<nodeVars, compact_call, clear_call, generation, switch_calls, worldVars, presses, refused>>

\* External: switch_controller takes its requests in the order they were sent.
ServeSwitch(g) ==
    /\ switch_calls[g].stage = "sent"
    /\ \A h \in Generations : switch_calls[h].stage = "sent" => g <= h
    /\ \E ok \in BOOLEAN :
          /\ switch_calls' = [switch_calls EXCEPT ![g] = Answered(@, ok)]
          /\ ctrlActive' = IF ok THEN switch_calls[g].desired ELSE ctrlActive
          /\ refused' = (refused \/ ~ok)
    /\ UNCHANGED <<nodeVars, power_call, compact_call, clear_call, generation,
                   hwActive, motorsLive, wheelsCompact, told, presses, raised>>

\* Mutant: every reply is applied, stale or not.
IsCurrentAlways(g) == g <= generation

\* GenerationGuard.is_current
IsCurrent(g) == g = generation

\* _on_switch_result: replies land in any order, and only the reply to the
\* newest request is applied.
OnSwitchResult(g) ==
    /\ switch_calls[g].stage = "answered"
    /\ switch_calls' = [switch_calls EXCEPT ![g] = Idle]
    /\ IF IsCurrent(g)
       THEN /\ Commit(AfterControllerResult(state, switch_calls[g].ok, switch_calls[g].desired))
            /\ told' = [told EXCEPT !.controller = @ \/ switch_calls[g].ok]
       ELSE UNCHANGED <<state, published, hushed, told>>
    /\ UNCHANGED <<joystick_active, operator_touched, seed, power_call, compact_call,
                   clear_call, generation, worldVars, refused, raised, presses>>

\* _on_switch_result, future.result() having raised (stale or not).
SwitchCallFails(g) ==
    /\ Pending(switch_calls[g])
    /\ switch_calls' = [switch_calls EXCEPT ![g] = Idle]
    /\ raised' = TRUE
    /\ UNCHANGED <<nodeVars, power_call, compact_call, clear_call, generation,
                   worldVars, told, presses, refused>>

-------------------------------------------------------------------------------
(* Compact mode *)

\* _request_compact
RequestCompact(desired) ==
    /\ operator_touched' = TRUE
    /\ \E ready \in Readiness :
          /\ compact_call' = Guarded(compact_call, desired, ready)
          /\ Counted(compact_call, ready)
    /\ UNCHANGED <<state, joystick_active, published, hushed, seed, power_call,
                   clear_call, generation, switch_calls, worldVars, told, refused, raised>>

\* _on_compact and _on_compact_toggle
OnCompact == "compact" \in Buttons /\ \E desired \in BOOLEAN : RequestCompact(desired)

OnCompactToggle == "compact" \in Buttons /\ RequestCompact(~state.compact_mode)

\* External: the swerve controller's set_compact_mode.
ServeCompact ==
    /\ compact_call.stage = "sent"
    /\ \E ok \in BOOLEAN :
          /\ compact_call' = Answered(compact_call, ok)
          /\ wheelsCompact' = IF ok THEN compact_call.desired ELSE wheelsCompact
          /\ refused' = (refused \/ ~ok)
    /\ UNCHANGED <<nodeVars, power_call, clear_call, generation, switch_calls,
                   hwActive, ctrlActive, motorsLive, told, presses, raised>>

OnCompactResult ==
    /\ compact_call.stage = "answered"
    /\ compact_call' = Idle
    /\ Commit(AfterCompactResult(state, compact_call.ok, compact_call.desired))
    /\ told' = [told EXCEPT !.compact = @ \/ compact_call.ok]
    /\ UNCHANGED <<joystick_active, operator_touched, seed, power_call, clear_call,
                   generation, switch_calls, worldVars, refused, raised, presses>>

CompactCallFails ==
    /\ Pending(compact_call)
    /\ compact_call' = Idle
    /\ told' = [told EXCEPT !.compact = @ /\ ~compact_call.ok]
    /\ raised' = TRUE
    /\ UNCHANGED <<nodeVars, power_call, clear_call, generation, switch_calls, worldVars, presses, refused>>

-------------------------------------------------------------------------------
(* Clear motor errors *)

OnClearErrors ==
    /\ "clear" \in Buttons
    /\ operator_touched' = TRUE
    /\ \E ready \in Readiness :
          /\ clear_call' = Guarded(clear_call, TRUE, ready)
          /\ Counted(clear_call, ready)
    /\ UNCHANGED <<state, joystick_active, published, hushed, seed, power_call,
                   compact_call, generation, switch_calls, worldVars, told, refused, raised>>

\* RoverHardware::on_clear_motor_errors: a success leaves the motors disabled.
ServeClear ==
    /\ clear_call.stage = "sent"
    /\ \E ok \in BOOLEAN :
          /\ clear_call' = Answered(clear_call, ok)
          /\ motorsLive' = (motorsLive /\ ~ok)
          /\ refused' = (refused \/ ~ok)
    /\ UNCHANGED <<nodeVars, power_call, compact_call, generation, switch_calls,
                   hwActive, ctrlActive, wheelsCompact, told, presses, raised>>

OnClearErrorsResult ==
    /\ clear_call.stage = "answered"
    /\ clear_call' = Idle
    /\ IF clear_call.ok THEN Commit(AfterErrorsCleared(state))
                        ELSE UNCHANGED <<state, published, hushed>>
    /\ UNCHANGED <<joystick_active, operator_touched, seed, power_call, compact_call,
                   generation, switch_calls, worldVars, told, refused, raised, presses>>

ClearCallFails ==
    /\ Pending(clear_call)
    /\ clear_call' = Idle
    /\ raised' = TRUE
    /\ UNCHANGED <<nodeVars, power_call, compact_call, generation, switch_calls,
                   worldVars, told, presses, refused>>

-------------------------------------------------------------------------------
(* Specification *)

Topic == Heartbeat \/ MinPeriodPasses \/ \E data \in BOOLEAN : OnJoystickActive(data)

Seeding == SeedTimer \/ ServeList \/ OnHardwareListed \/ OnControllersListed \/ SeedFails

Requests == OnPower \/ OnPowerToggle \/ OnCompact \/ OnCompactToggle \/ OnClearErrors

Replies ==
    \/ ServePower \/ OnPowerResult \/ PowerCallFails
    \/ \E g \in Generations : ServeSwitch(g) \/ OnSwitchResult(g) \/ SwitchCallFails(g)
    \/ ServeCompact \/ OnCompactResult \/ CompactCallFails
    \/ ServeClear \/ OnClearErrorsResult \/ ClearCallFails

Next == Topic \/ Seeding \/ Requests \/ Replies

Spec == Init /\ [][Next]_vars

(***************************************************************************)
(* rclpy.spin runs every ready callback, timers included, and the servers  *)
(* are assumed to answer what they are asked.  Operators, failures and     *)
(* joystick messages owe nothing.                                          *)
(***************************************************************************)
Fairness ==
    /\ WF_vars(Heartbeat)
    /\ WF_vars(ServePower) /\ WF_vars(OnPowerResult)
    /\ \A g \in Generations : WF_vars(ServeSwitch(g)) /\ WF_vars(OnSwitchResult(g))
    /\ WF_vars(ServeCompact) /\ WF_vars(OnCompactResult)
    /\ WF_vars(ServeClear) /\ WF_vars(OnClearErrorsResult)
    /\ WF_vars(SeedTimer) /\ WF_vars(ServeList)
    /\ WF_vars(OnHardwareListed) /\ WF_vars(OnControllersListed)

FairSpec == Spec /\ Fairness

-------------------------------------------------------------------------------
(* Correctness *)

(***************************************************************************)
(* The kinds of values the node and its calls hold; a guarded client never *)
(* has more than its one slot, and a switch request keeps its generation.  *)
(***************************************************************************)
TypeOK ==
    /\ state \in DrivePowers
    /\ joystick_active \in BOOLEAN
    /\ published \in Messages
    /\ hushed \in BOOLEAN
    /\ operator_touched \in BOOLEAN
    /\ seed \in Seeds
    /\ power_call \in Calls /\ compact_call \in Calls /\ clear_call \in Calls
    /\ generation \in 0..MaxPresses
    /\ presses \in 0..MaxPresses
    /\ switch_calls \in [Generations -> Calls]
    /\ hwActive \in BOOLEAN /\ ctrlActive \in BOOLEAN
    /\ motorsLive \in BOOLEAN /\ wheelsCompact \in BOOLEAN
    /\ told \in [motors : BOOLEAN, controller : BOOLEAN, compact : BOOLEAN]
    /\ refused \in BOOLEAN /\ raised \in BOOLEAN

(***************************************************************************)
(* Once the node has heard how a change ended (from the seed or from a     *)
(* reply), motors_enabled is the hardware's real state, and stays so: no   *)
(* late startup snapshot, refused request or second press separates them.  *)
(* Only a change already made, whose reply is still out, may differ.       *)
(***************************************************************************)
MotorsAsConfirmed ==
    told.motors /\ ~power_call.ok => state.motors_enabled = hwActive

(***************************************************************************)
(* The same for compact mode, whose truth lives in the swerve controller.  *)
(***************************************************************************)
CompactAsConfirmed ==
    told.compact /\ ~compact_call.ok => state.compact_mode = wheelsCompact

(***************************************************************************)
(* Replies to switch_controller may land in any order.  Once the newest    *)
(* request is answered and applied, controller_active is what the          *)
(* controller really is, whichever older replies are still to come.        *)
(***************************************************************************)
ControllerAsConfirmed ==
    told.controller => state.controller_active = ctrlActive

\* Every request so far went through and was heard of.
Smooth == ~refused /\ ~raised

NoCallOut ==
    /\ ~Pending(power_call) /\ ~Pending(compact_call) /\ ~Pending(clear_call)
    /\ \A g \in Generations : ~Pending(switch_calls[g])

(***************************************************************************)
(* "The controller follows power": when every request so far went through  *)
(* and none is out, the controller, the hardware and the published belief  *)
(* agree, however the two operators interleaved their presses.             *)
(***************************************************************************)
ControllerFollowsPower ==
    Smooth /\ NoCallOut /\ generation > 0 =>
        /\ ctrlActive = hwActive
        /\ state.motors_enabled = hwActive
        /\ state.controller_active = ctrlActive

(***************************************************************************)
(* What a console shows settles on the truth: once operators stop, if      *)
(* every request went through and the node has heard of the motors, the    *)
(* controller and the compact mode, then the latched message stays right.  *)
(***************************************************************************)
DisplaySettles ==
    <>[](Smooth /\ told = [motors |-> TRUE, controller |-> TRUE, compact |-> TRUE] =>
            /\ published.drive.motors_enabled = hwActive
            /\ published.drive.controller_active = ctrlActive
            /\ published.drive.compact_mode = wheelsCompact
            /\ published.joystick_active = joystick_active)

(***************************************************************************)
(* "Only the reply to the newest request" may write controller_active, so  *)
(* that the light bar is never "green with the controller actually         *)
(* inactive" (service_call.py): with every call answered and none raising, *)
(* a controller believed active is active.                                 *)
(***************************************************************************)
GreenMeansActive ==
    ~raised /\ NoCallOut /\ state.controller_active => ctrlActive

(***************************************************************************)
(* can_drive is "True only when a twist on /cmd_vel actually moves the     *)
(* rover" (drive_manager_state.py): with no call out and none ever failed, *)
(* a rover shown as drivable has live motors.                              *)
(***************************************************************************)
CanDriveMeansLive ==
    Smooth /\ NoCallOut /\ CanDrive(state) => motorsLive

(***************************************************************************)
(* The startup state is read back "instead of assuming it is off"          *)
(* (_seed_from_controller_manager): once seeding is over and no call is    *)
(* out or has failed, a powered drive is not believed off.                 *)
(***************************************************************************)
PoweredDriveIsSeen ==
    Smooth /\ NoCallOut /\ seed.stage = "over" /\ generation = 0 =>
        (hwActive => state.motors_enabled)

===============================================================================
