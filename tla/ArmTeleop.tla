------------------------------ MODULE ArmTeleop ------------------------------
(***************************************************************************)
(* arm_teleop: the gamepad node.  One executor thread runs the callbacks   *)
(* (Joy, its watchdog, Servo's status) and delivers every service reply;   *)
(* a button starts a background thread per planned activity (home, level,  *)
(* align, orient), which lights the activity lamp, waits, moves the arm    *)
(* and hands the joints back to Servo.                                     *)
(*                                                                         *)
(* A stick is centred, pushes (translation) or tilts (pitch, yaw).  Poses, *)
(* speeds and holds are left out, and so is the exit button, which ends    *)
(* the node with its threads wherever they stand.  A behaviour picks the   *)
(* mounted tool and the buttons its operator uses.                         *)
(***************************************************************************)
EXTENDS Naturals, FiniteSets

CONSTANT Operators      \* the tools (end_effector) and the buttons used with each

Tools == {"jaw", "drill_sampling", "astrobio"}
Buttons == {"A", "B", "Y", "level", "align", "orient"}

\* The gate lets align and orient through with the jaw only.
ASSUME TeleopAssumption ==
    /\ Operators \subseteq Tools \X SUBSET Buttons
    /\ \A o \in Operators : o[1] # "jaw" => o[2] \cap {"align", "orient"} = {}

VARIABLES
    tool, duty,      \* frozen
    pc,              \* where each activity's thread stands; idle: its lock is free
    spawned,         \* a thread not yet at its activity's lock, with its home target
    target,          \* the running home move's target
    teleopLocked, pitchYawLocked, delayActive, lamp,
    toolMode,            \* _sampling_mode, _drill_mode, _probing_mode
    knowsPanel,      \* has_remembered_panel_position
    cmd,             \* the commanded velocity
    joy,             \* /joy: none yet, live, lapsed, and noticed (_joy_silent)
    settling,        \* _joy_settling
    exec,            \* the executor: free, inside _on_joy, inside _on_servo_status
    stick,           \* the stick of the message in hand
    owner,           \* who has the joints: Servo, or the trajectory controller
    unheard,         \* activities claimed since the last message or timeout of /joy
    homed,           \* history: a home move ended with Servo started
    centred          \* history: the sticks were seen centred since the last dropout

padVars == <<joy, settling, exec, stick, centred, unheard>>
safeVars == <<teleopLocked, pitchYawLocked, homed, knowsPanel, toolMode>>
threadVars == <<pc, spawned, target>>
frozen == <<tool, duty>>
teleopVars == <<padVars, safeVars, threadVars, frozen, delayActive, lamp, cmd, owner>>

Activities == {"home", "level", "align", "orient"}
Nobody == <<"none", "no">>
Sticks == {"centred", "push", "tilt"}

TeleopInit ==
    /\ \E o \in Operators : tool = o[1] /\ duty = o[2]
    /\ pc = [a \in Activities |-> "idle"]
    /\ spawned = Nobody /\ target = "plain"
    /\ teleopLocked = TRUE /\ pitchYawLocked = FALSE
    /\ delayActive = FALSE /\ lamp = FALSE
    /\ toolMode = "none" /\ knowsPanel = FALSE
    /\ cmd = "zero" /\ joy = "none" /\ settling = FALSE
    /\ exec = "free" /\ stick = "centred" /\ owner = "jtc"
    /\ homed = FALSE /\ centred = TRUE /\ unheard = {}

\* ServoController.stop(), and set_velocity() with every component zero
Stop == cmd' = "zero"

-------------------------------------------------------------------------------
(* Buttons *)

\* Where A, B and Y send the arm, by tool and mode; "none": locked out.
HomeTarget(button) ==
    CASE button = "A" -> IF tool = "drill_sampling" THEN "sampling" ELSE "plain"
      [] button = "B" -> IF tool = "jaw" THEN "probing"
                         ELSE IF tool = "astrobio" THEN "none"
                         ELSE IF toolMode = "drill" THEN "drill" ELSE "sampling_to_drill"
      [] OTHER -> IF tool = "jaw" THEN "jaw_probing_container"
                  ELSE IF tool = "astrobio" \/ toolMode = "none" THEN "none"
                  ELSE IF toolMode = "drill" THEN "drill_container" ELSE "sampling_container"

TwoLegs(t) == t \in {"sampling_to_drill", "jaw_probing_container"}

\* A plausible bug: the move's name is taken for the mode's.
ModeNamedAfter(t) == t

\* The mode a finished home move commits; a container detour keeps the mode.
ModeAfter(t) ==
    CASE t = "sampling" -> "sampling"
      [] t \in {"drill", "sampling_to_drill"} -> "drill"
      [] t \in {"probing", "jaw_probing_container"} -> "probing"
      [] t = "plain" -> "none"
      [] OTHER -> toolMode

Spawn(activity, how) == spawned' = <<activity, how>>

\* A home or level button works whatever is gated; an align or orient button only
\* past the gate, with the jaw and a panel to align to.
PressTakes(press, gated) ==
    CASE press = "none" -> UNCHANGED spawned
      [] press \in {"A", "B", "Y"} ->
            IF HomeTarget(press) = "none" THEN UNCHANGED spawned
            ELSE Spawn("home", HomeTarget(press))
      [] press = "level" -> Spawn("level", "yes")
      [] OTHER -> IF gated \/ (press = "orient" /\ ~knowsPanel)
                  THEN UNCHANGED spawned ELSE Spawn(press, "yes")

-------------------------------------------------------------------------------
(* Joy *)

Active(a) == pc[a] # "idle"    \* _safe_pose_active, _level_active, _orient_gripper_active
\* A plausible bug: only the home move is exclusive.
GatedByHome == teleopLocked \/ Active("home")

Gated == teleopLocked \/ Active("home") \/ Active("level") \/ Active("orient")

\* A plausible bug: the first message of a pad that is back ends the settling.
AtRestOnceHeard(s) == TRUE

AtRest(s) == s = "centred"     \* _sticks_centered

\* _on_joy up to the stick mapping.  The first message after silence has no edges.
JoyArrives(press, s) ==
    /\ exec = "free"
    /\ press = "none" \/ (joy \in {"live", "lapsed"} /\ press \in duty /\ spawned = Nobody)
    /\ joy' = "live" /\ unheard' = {}
    /\ PressTakes(press, Gated \/ settling)
    /\ CASE Gated -> Stop /\ UNCHANGED <<settling, exec, stick, centred>>
         [] ~Gated /\ settling ->
              /\ Stop
              /\ settling' = ~AtRest(s)
              /\ centred' = (centred \/ s = "centred")
              /\ UNCHANGED <<exec, stick>>
         [] OTHER -> /\ exec' = "joy" /\ stick' = s
                     /\ UNCHANGED <<cmd, settling, centred>>
    /\ UNCHANGED <<safeVars, pc, target, frozen, delayActive, lamp, owner>>

\* A plausible bug: level_tool's lock on pitch and yaw is not looked at.
VelocityUnlocked(s) ==
    IF s = "centred" \/ delayActive THEN "zero"
    ELSE IF s = "tilt" /\ toolMode # "none" THEN "push"
    ELSE s

\* The stick's velocity in the current mode: pitch and yaw have no stick in the
\* tool modes, and none after level_tool; the delay zeroes everything.
Velocity(s) ==
    IF s = "centred" \/ delayActive THEN "zero"
    ELSE IF s = "tilt" /\ toolMode # "none" THEN "push"
    ELSE IF s = "tilt" /\ pitchYawLocked THEN "zero"
    ELSE s

\* _on_joy from the stick mapping on: set_velocity().
JoyCommands ==
    /\ exec = "joy" /\ exec' = "free"
    /\ cmd' = Velocity(stick)
    /\ stick' = "centred"
    /\ UNCHANGED <<joy, settling, centred, unheard, safeVars, threadVars, frozen,
                   delayActive, lamp, owner>>

\* A plausible bug: the watchdog waits for the flag it sets itself.
OverdueOnceSilent == joy = "silent"

Overdue == joy \in {"lapsed", "silent"}

\* _check_joy_timeout
JoyTimesOut ==
    /\ exec = "free" /\ Overdue
    /\ Stop
    /\ joy' = "silent" /\ unheard' = {}
    /\ IF joy = "silent" THEN UNCHANGED <<settling, centred>>
       ELSE settling' = TRUE /\ centred' = FALSE
    /\ UNCHANGED <<exec, stick, safeVars, threadVars, frozen, delayActive, lamp, owner>>

JoyLapses ==
    /\ joy = "live" /\ joy' = "lapsed"
    /\ UNCHANGED <<settling, exec, stick, centred, unheard, safeVars, threadVars, frozen,
                   delayActive, lamp, cmd, owner>>

\* _on_servo_status, on a transition to HALT_FOR_SINGULARITY: start_servo() waits
\* on the executor it runs on, for replies that executor would deliver.
HaltForSingularity ==
    /\ exec = "free" /\ owner = "servo" /\ cmd # "zero"
    /\ exec' = "halt"
    /\ UNCHANGED <<joy, settling, stick, centred, unheard, safeVars, threadVars, frozen,
                   delayActive, lamp, cmd, owner>>

HaltGivesUp ==
    /\ exec = "halt" /\ exec' = "free"
    /\ UNCHANGED <<joy, settling, stick, centred, unheard, safeVars, threadVars, frozen,
                   delayActive, lamp, cmd, owner>>

-------------------------------------------------------------------------------
(* The activity threads *)

Goes(a, from, to) == pc[a] = from /\ pc' = [pc EXCEPT ![a] = to]

\* The activity's lock is taken without waiting: a second press is dropped.
Enter(a) ==
    /\ spawned[1] = a /\ spawned' = Nobody
    /\ IF pc[a] = "idle"
       THEN /\ Goes(a, "idle", "started")
            /\ target' = IF a = "home" THEN spawned[2] ELSE target
            /\ Stop
       ELSE UNCHANGED <<pc, target, cmd>>
    /\ UNCHANGED <<padVars, safeVars, frozen, delayActive, lamp, owner>>

\* run_planned_activity up to the sleep ...
BeginDelay(a) ==
    /\ Goes(a, "started", "delay")
    /\ delayActive' = TRUE /\ lamp' = TRUE
    /\ UNCHANGED <<spawned, target, padVars, safeVars, frozen, cmd, owner>>

\* ... and from it on: the action begins with stop().
EndDelay(a) ==
    /\ Goes(a, "delay", "claim")
    /\ delayActive' = FALSE /\ Stop
    /\ UNCHANGED <<spawned, target, padVars, safeVars, frozen, lamp, owner>>

\* Servo stopped and the trajectory controller active, or not; or no lease.  Who is
\* refused the lease is ArmMotionLock's matter: align and orient present one holder
\* id, level takes none, so the threads of two activities may well move together.
Claim(a) ==
    /\ exec = "free"
    /\ \/ /\ Goes(a, "claim", "move")
          /\ owner' = "jtc" /\ unheard' = unheard \cup {a}
       \/ /\ Goes(a, "claim", "failed")
          /\ owner' \in {owner, "jtc"} /\ UNCHANGED unheard
    /\ UNCHANGED <<spawned, target, joy, settling, exec, stick, centred, safeVars,
                   frozen, delayActive, lamp, cmd>>

\* The goal's result, or its timeout.  The trajectory fails when the controller
\* was taken away under it.  The second leg takes the lease anew.  A move that
\* gets there outlasts the /joy timeout.
ThreadMoveEnds(a) ==
    /\ exec = "free"
    /\ LET legs == a = "home" /\ TwoLegs(target) IN
       \/ /\ legs /\ Goes(a, "move", "leg2") /\ owner = "jtc"
          /\ a \notin unheard
          /\ UNCHANGED <<pitchYawLocked, knowsPanel>>
       \/ /\ Goes(a, IF legs THEN "leg2" ELSE "move", "reached") /\ owner = "jtc"
          /\ a \notin unheard
          /\ pitchYawLocked' = CASE a = "home" -> FALSE [] a = "level" -> TRUE
                                 [] OTHER -> pitchYawLocked
          /\ knowsPanel' = (knowsPanel \/ a = "align")
       \/ /\ \E from \in {"move", "leg2"} : Goes(a, from, "failed")
          /\ UNCHANGED <<pitchYawLocked, knowsPanel>>
    /\ UNCHANGED <<spawned, target, padVars, teleopLocked, homed, toolMode, frozen,
                   delayActive, lamp, cmd, owner>>

DelayAndLampEnd(a) == delayActive' = FALSE /\ lamp' = FALSE

\* run_planned_activity's finally; the mode is committed after a successful home
\* move only, and only a failed home move leaves Servo off.
Ended(a) ==
    /\ \/ Goes(a, "reached", "restart")
       \/ Goes(a, "failed", IF a = "home" THEN "idle" ELSE "restart")
    /\ DelayAndLampEnd(a)
    /\ toolMode' = IF a = "home" /\ pc[a] = "reached" THEN ModeAfter(target) ELSE toolMode
    /\ target' = IF a = "home" THEN "plain" ELSE target
    /\ UNCHANGED <<spawned, padVars, teleopLocked, pitchYawLocked, homed,
                   knowsPanel, frozen, cmd, owner>>

\* A plausible bug: whoever restarts Servo opens teleop.
UnlocksAlways(a) == TRUE

Unlocks(a) == a = "home"

\* start_servo(): on any failure the joints go to the trajectory controller.
StartServo(a) ==
    /\ exec = "free"
    /\ Goes(a, "restart", "idle")
    /\ \/ /\ owner' = "servo"
          /\ teleopLocked' = (teleopLocked /\ ~Unlocks(a)) /\ homed' = (homed \/ a = "home")
       \/ owner' \in {owner, "jtc"} /\ UNCHANGED <<teleopLocked, homed>>
    /\ UNCHANGED <<spawned, target, padVars, pitchYawLocked, knowsPanel, toolMode,
                   frozen, delayActive, lamp, cmd>>

ThreadStep(a) ==
    \/ BeginDelay(a) \/ EndDelay(a) \/ Claim(a) \/ ThreadMoveEnds(a)
    \/ Ended(a) \/ StartServo(a)

-------------------------------------------------------------------------------

TeleopNext ==
    \/ \E press \in duty \cup {"none"}, s \in Sticks : JoyArrives(press, s)
    \/ JoyCommands \/ JoyTimesOut \/ JoyLapses
    \/ HaltForSingularity \/ HaltGivesUp
    \/ \E a \in Activities : Enter(a) \/ ThreadStep(a)

\* The executor and its timers run, and its waits end.  The pad owes nothing, and
\* Servo may halt as often as it likes.
TeleopFairness ==
    /\ WF_teleopVars(JoyCommands \/ HaltGivesUp)
    /\ SF_teleopVars(JoyTimesOut)

TeleopSpec == TeleopInit /\ [][TeleopNext]_teleopVars /\ TeleopFairness

-------------------------------------------------------------------------------

TeleopTypeOK ==
    /\ <<tool, duty>> \in Operators
    /\ pc \in [Activities -> {"idle", "started", "delay", "claim", "move", "leg2",
                              "reached", "failed", "restart"}]
    /\ toolMode \in {"none", "sampling", "drill", "probing"}
    /\ cmd \in {"zero", "push", "tilt"} /\ stick \in Sticks
    /\ joy \in {"none", "live", "lapsed", "silent"} /\ exec \in {"free", "joy", "halt"}
    /\ owner \in {"servo", "jtc"}
    /\ {teleopLocked, pitchYawLocked, delayActive, lamp, knowsPanel, settling,
        homed, centred} \subseteq BOOLEAN

\* While home or level executes a planned trajectory, no stick commands a velocity
\* that Servo could resume, but for the one message that was being handled when the
\* thread started, until the next one: the gate is closed, and the replies come
\* through the executor that handles the messages.
MoveIsUndisturbed ==
    \A a \in {"home", "level"} \ unheard : pc[a] \in {"move", "leg2"} => cmd = "zero"

\* No velocity before a home move has ended with Servo running: an align, orient or
\* level that restarts Servo does not open teleop (_teleop_locked).  A tool levelled
\* by level_tool is not tilted again until a home move succeeds (_pitch_yaw_locked).
LocksHold ==
    /\ cmd # "zero" => homed
    /\ pitchYawLocked => cmd # "tilt"

\* After a dropout no velocity before the sticks were seen centred.
SettledAfterSilence == cmd # "zero" => centred

\* A pad that is gone stops the arm, unless it comes back.
PadSilenceStops == joy = "lapsed" ~> (cmd = "zero" \/ joy = "live")

===============================================================================
