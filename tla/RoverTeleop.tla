------------------------------ MODULE RoverTeleop ------------------------------
(***************************************************************************)
(* rover_teleop: the interpreter turns Joy messages into twists on a topic *)
(* that outranks the others, and gives it back when the device falls       *)
(* silent.  The device is a gamepad, or a terminal whose keys              *)
(* keyboard_teleop_node makes into Joy messages.  A stick is abstracted to *)
(* its sign, time to whether the last message is older than the timeout.   *)
(***************************************************************************)
EXTENDS Integers, Sequences

CONSTANTS
    PadInputs,     \* positions of the sticks and triggers
    DriveKeys,     \* function: the movement keys and the sticks they stand for
    Buttons,       \* the modes a button inverts, "active" among them
    Requests,      \* the buttons that ask another node for something
    ZeroTwists,    \* timeout_zero_burst
    MaxTyped,      \* button keys typed in a behaviour
    NoKey          \* no movement key is held; no message

\* JoyInput, and a Joy message with the one button that may be down in it.
Positions == [vx : -1..1, vy : -1..1, steer : -1..1, rot : -1..1, triggers : BOOLEAN]
Joys == [sticks : Positions, buttons : {{}} \cup {{b} : b \in Buttons \cup Requests}]

ASSUME TeleopAssumption ==
    /\ ZeroTwists \in Nat \ {0} /\ MaxTyped \in Nat
    /\ {"active", "raw"} \subseteq Buttons /\ Buttons \cap Requests = {}
    /\ PadInputs \subseteq Positions /\ NoKey \notin Joys
    /\ \A k \in DOMAIN DriveKeys : DriveKeys[k] \in Positions

VARIABLES
    device,        \* "pad" or "terminal"
    held,          \* the terminal's movement key, with whether it was repeated
    presses,       \* _pending_presses
    releaseNext,   \* _release_next
    joy,           \* the message on its way to the interpreter
    sticks,        \* _input
    down,          \* the buttons whose _prev_state is 1
    modes,         \* the modes that are on
    waiting,       \* the requests that are out
    timedOut,      \* the watchdog's _timed_out
    old,           \* the last message is older than cmd_timeout, or there is none
    zerosLeft,     \* _zeros_left
    twisted,       \* the last twist moves the rover
    running,       \* the process has not ended
    typed,         \* history: button keys typed
    fired,         \* history: presses the interpreter acted on
    stops,         \* history: stops since the last twist that moves
    lingering        \* history: twists since the device was found silent

typeVars == <<held, presses, releaseNext, typed>>
watchVars == <<timedOut, old, zerosLeft>>
outVars == <<twisted, stops, lingering>>
roverVars == <<device, typeVars, joy, sticks, down, modes, waiting, watchVars, outVars,
               running, fired>>

AtEase == [vx |-> 0, vy |-> 0, steer |-> 0, rot |-> 0, triggers |-> FALSE]

RoverInit ==
    /\ device \in {"pad", "terminal"}
    /\ held = NoKey /\ presses = <<>> /\ releaseNext = FALSE /\ joy = NoKey
    /\ sticks = AtEase /\ down = {} /\ modes = {"active", "raw"} /\ waiting = {}
    /\ timedOut = TRUE /\ old = TRUE /\ zerosLeft = ZeroTwists
    /\ twisted = FALSE /\ running = TRUE /\ typed = 0 /\ fired = 0
    /\ stops = ZeroTwists /\ lingering = 0

-------------------------------------------------------------------------------
(* Kinematics: the signs of the twist, twist_from_input *)

\* A plausible bug: the stick is the yaw rate, whichever way the rover goes.
Uncorrected(vx, wz) == wz

\* swerve_wz_correction
Corrected(vx, wz) == IF vx < 0 THEN -wz ELSE wz

Strafe(s) == IF "vy" \in modes THEN s.vy ELSE 0
Parked(s) == s.vx = 0 /\ Strafe(s) = 0
Spins(s) == "raw" \notin modes /\ (s.triggers \/ s.rot # 0)

\* A spin held to a draw and steering on the spot are token speeds, not zero; granny
\* scales and changes no sign.
TwistOf(s) ==
    IF Spins(s) THEN [vx |-> 0, vy |-> 0, wz |-> IF s.rot = 0 THEN 1 ELSE s.rot]
    ELSE IF "raw" \in modes
    THEN [vx |-> s.vx, vy |-> Strafe(s),
          wz |-> IF "vy" \in modes THEN s.steer ELSE Corrected(s.vx, s.steer)]
    ELSE IF Parked(s) /\ s.steer # 0 THEN [vx |-> 1, vy |-> 0, wz |-> s.steer]
    ELSE [vx |-> s.vx, vy |-> Strafe(s),
          wz |-> IF Parked(s) THEN 0 ELSE IF s.vx < 0 THEN -s.steer ELSE s.steer]

IsZero(twist) == twist.vx = 0 /\ twist.vy = 0 /\ twist.wz = 0

-------------------------------------------------------------------------------
(* The device *)

\* The pad's driver publishes what the operator does.
PadPublishes(s, pressed) ==
    /\ running /\ device = "pad" /\ joy = NoKey
    /\ joy' = [sticks |-> s, buttons |-> pressed]
    /\ UNCHANGED <<device, typeVars, sticks, down, modes, waiting, watchVars, outVars, running, fired>>

\* on_key: a movement key is held, or repeated.
TypeDrive(k) ==
    /\ running /\ device = "terminal"
    /\ held' = [key |-> k, repeated |-> held # NoKey /\ held.key = k]
    /\ UNCHANGED <<device, presses, releaseNext, typed, joy, sticks, down, modes, waiting,
                   watchVars, outVars, running, fired>>

\* on_key with a stop key, or held_key once the hold is over
LetGo ==
    /\ running /\ held # NoKey /\ held' = NoKey
    /\ UNCHANGED <<device, presses, releaseNext, typed, joy, sticks, down, modes, waiting,
                   watchVars, outVars, running, fired>>

TypeButton(b) ==
    /\ running /\ device = "terminal" /\ typed < MaxTyped
    /\ presses' = Append(presses, b) /\ typed' = typed + 1
    /\ UNCHANGED <<device, held, releaseNext, joy, sticks, down, modes, waiting,
                   watchVars, outVars, running, fired>>

\* A plausible bug: the next press follows at once.
NoPause == FALSE

Pause == releaseNext

\* KeyboardJoyNode._tick: buttons reports a press in one message and none in the next.
TerminalPublishes ==
    /\ running /\ device = "terminal" /\ joy = NoKey
    /\ LET report == ~Pause /\ presses # <<>> IN
       /\ joy' = [sticks |-> IF held = NoKey THEN AtEase ELSE DriveKeys[held.key],
                  buttons |-> IF report THEN {Head(presses)} ELSE {}]
       /\ presses' = IF report THEN Tail(presses) ELSE presses
       /\ releaseNext' = report
    /\ UNCHANGED <<device, held, typed, sticks, down, modes, waiting, watchVars, outVars, running, fired>>

\* Ctrl+C: the keys are forgotten and the stop goes out three times.
Quit ==
    /\ running /\ device = "terminal" /\ running' = FALSE
    /\ held' = NoKey /\ presses' = <<>> /\ joy' = NoKey
    /\ twisted' = FALSE /\ stops' = ZeroTwists
    /\ UNCHANGED <<device, releaseNext, typed, sticks, down, modes, waiting, watchVars, lingering, fired>>

-------------------------------------------------------------------------------
(* The interpreter: one executor thread *)

Edges(buttons) == buttons \ down

Inverted(set, by) == (set \ by) \cup (by \ set)

\* A plausible bug: the burst is armed when the stream recovers.
RearmedOnRecovery == IF timedOut /\ zerosLeft = 0 THEN 1 ELSE zerosLeft

\* on_message: every sample arms the burst anew.
Rearmed == ZeroTwists

OnJoy ==
    /\ running /\ joy # NoKey /\ joy' = NoKey
    /\ timedOut' = FALSE /\ old' = FALSE /\ zerosLeft' = Rearmed /\ lingering' = 0
    /\ modes' = Inverted(modes, Edges(joy.buttons) \cap Buttons)
    /\ waiting' \in {waiting, waiting \cup (Edges(joy.buttons) \cap Requests)}
    /\ fired' = IF device = "terminal" /\ Edges(joy.buttons) # {} THEN fired + 1 ELSE fired
    /\ down' = joy.buttons /\ sticks' = joy.sticks
    /\ UNCHANGED <<device, typeVars, twisted, stops, running>>

RequestDone(r) ==
    /\ r \in waiting /\ waiting' = waiting \ {r}
    /\ UNCHANGED <<device, typeVars, joy, sticks, down, modes, watchVars, outVars, running, fired>>

PublishCmd(moves) ==
    /\ twisted' = moves
    /\ stops' = IF moves THEN 0 ELSE IF stops < ZeroTwists THEN stops + 1 ELSE stops

PublishTimer ==
    /\ running /\ ~timedOut /\ "active" \in modes
    /\ PublishCmd(~IsZero(TwistOf(sticks)))
    /\ UNCHANGED <<device, typeVars, joy, sticks, down, modes, waiting, watchVars, running, fired, lingering>>

GrowsOld ==
    /\ ~old /\ old' = TRUE
    /\ UNCHANGED <<device, typeVars, joy, sticks, down, modes, waiting, timedOut, zerosLeft,
                   outVars, running, fired>>

\* _timeout_check: the burst is spent on zeros that go out.
TimeoutCheck ==
    /\ running /\ old /\ timedOut' = TRUE
    /\ IF "active" \in modes /\ zerosLeft > 0
       THEN /\ zerosLeft' = zerosLeft - 1 /\ PublishCmd(FALSE)
            /\ lingering' = lingering + 1
       ELSE UNCHANGED <<zerosLeft, outVars>>
    /\ UNCHANGED <<device, typeVars, joy, sticks, down, modes, waiting, old, running, fired>>

RoverNext ==
    \/ \E s \in PadInputs, pressed \in {{}} \cup {{b} : b \in Buttons \cup Requests} :
          PadPublishes(s, pressed)
    \/ \E k \in DOMAIN DriveKeys : TypeDrive(k)
    \/ \E b \in Buttons \cup Requests : TypeButton(b)
    \/ LetGo \/ TerminalPublishes \/ Quit
    \/ OnJoy \/ \E r \in Requests : RequestDone(r)
    \/ PublishTimer \/ GrowsOld \/ TimeoutCheck

RoverSpec == RoverInit /\ [][RoverNext]_roverVars

-------------------------------------------------------------------------------

RoverTypeOK ==
    /\ device \in {"pad", "terminal"} /\ joy \in {NoKey} \cup Joys
    /\ held = NoKey \/ held.key \in DOMAIN DriveKeys
    /\ presses \in Seq(Buttons \cup Requests) /\ sticks \in Positions
    /\ modes \subseteq Buttons /\ waiting \subseteq Requests
    /\ down \in {{}} \cup {{b} : b \in Buttons \cup Requests}
    /\ {timedOut, old, twisted, running, releaseNext} \subseteq BOOLEAN
    /\ zerosLeft \in 0..ZeroTwists /\ stops \in 0..ZeroTwists
    /\ typed \in 0..MaxTyped /\ fired \in Nat /\ lingering \in Nat

\* A device found silent gets a whole stop of its own, however brief its last sign of
\* life, and then the topic is free for whoever ranks below.
StopsAndLetsGo ==
    timedOut => stops + zerosLeft >= ZeroTwists /\ lingering <= ZeroTwists

\* Every key typed for a function acts once: the same key typed twice gives two edges.
PressesFire ==
    running => typed = fired + Len(presses)
                       + (IF device = "terminal" /\ joy # NoKey /\ joy.buttons # {} THEN 1 ELSE 0)

\* Without strafing the stick turns the rover to the side it points to as seen along the
\* way it goes, in both modes.
SteersAsSeen ==
    LET twist == TwistOf(sticks) IN
    "vy" \notin modes /\ ~Spins(sticks) =>
        twist.wz = (IF sticks.vx < 0 THEN -1 ELSE 1) * sticks.steer

===============================================================================
