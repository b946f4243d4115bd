---------------------------- MODULE KeyboardTeleop ----------------------------
(***************************************************************************)
(* arm_teleop: the keyboard node.  A reader thread turns the key events of *)
(* every opened keyboard into sets of pressed keys and those into          *)
(* velocities, and starts a thread for each r, p, m and f: home, panel     *)
(* align, orient and level, which end by starting Servo.  The main thread  *)
(* waits for the exit, then for home alone, and stops Servo.  A velocity   *)
(* is the set of keys it sums, whatever tilt is locked.  Threads may wait  *)
(* for their lock as long as they like; the process ends under them.       *)
(***************************************************************************)
EXTENDS Naturals, Sequences, FiniteSets

CONSTANTS
    Keyboards,
    KeySets,         \* the motion keys and the calls an operator may use, in pairs
    MaxEvents        \* unread key events of a keyboard

Gripper == {"b", "v"}          \* _GRIPPER_KEYS; every other key is a direction

Calls == {"r", "p", "m", "f"}

TaskOf == [r |-> "home", p |-> "align", m |-> "orient", f |-> "level"]

Tasks == {"home", "align", "orient", "level"}
Assists == Tasks \ {"home"}

ASSUME KeyAssumption ==
    /\ MaxEvents \in Nat \ {0}
    /\ \A use \in KeySets : use[1] \cap ({"esc"} \cup Calls) = {} /\ use[2] \subseteq Calls

VARIABLES
    keys, calls,     \* the motion keys and the calls in use, frozen
    held,            \* per keyboard, the keys that are down
    opened,          \* _devices
    events,          \* per keyboard, the key events not read yet: key, down or up
    pressed,         \* _pressed
    gripPressed,     \* _gripper_pressed
    reader,          \* at rest, between computing a velocity and setting it, or gone
    sum,             \* the keys the velocity in hand was computed from
    velocity,        \* the controller's velocity, gripper included
    called,          \* tasks with a thread that has not come to the task's lock yet
    stage,           \* where the thread holding each task's lock stands; idle: free
    delaying,        \* _activity_delay_active
    starting,        \* tasks with a start_servo request not served yet
    servoStarted,    \* _servo_started
    servoOn,         \* Servo itself
    exiting,         \* _exit_event
    main,            \* the main thread: waiting, stopping, closing, done
    clean,           \* history: main saw Servo stopped, with nobody about to start it
    lost             \* history: keys down on a keyboard when it was lost

keyVars == <<keys, calls, held, opened, events, pressed, gripPressed, reader, sum, velocity,
             called, stage, delaying, starting, servoStarted, servoOn, exiting, main,
             clean, lost>>
deviceVars == <<keys, calls, held, opened, events, lost>>
readerVars == <<pressed, gripPressed, reader, sum>>
servoVars == <<starting, servoStarted, servoOn>>
mainVars == <<exiting, main, clean>>

\* _open_device: at least one opens, or the node ends at once.
KeyInit ==
    /\ \E use \in KeySets : keys = use[1] /\ calls = use[2]
    /\ opened \in SUBSET Keyboards \ {{}}
    /\ held = [k \in Keyboards |-> {}] /\ events = [k \in Keyboards |-> <<>>] /\ lost = {}
    /\ pressed = {} /\ gripPressed = {} /\ velocity = {}
    /\ reader = "rest" /\ sum = {}
    /\ called = {} /\ stage = [t \in Tasks |-> "idle"] /\ delaying = FALSE
    /\ starting = {} /\ servoStarted = FALSE /\ servoOn = FALSE
    /\ exiting = FALSE /\ main = "waiting" /\ clean = FALSE

-------------------------------------------------------------------------------
(* The operator *)

Event(k, key, what) ==
    /\ k \in opened /\ Len(events[k]) < MaxEvents /\ reader # "gone"
    /\ events' = [events EXCEPT ![k] = Append(@, [key |-> key, what |-> what])]
    /\ UNCHANGED <<keys, calls, opened, lost, readerVars, velocity, called, stage, delaying,
                   servoVars, mainVars>>

KeyDown(k, key) ==
    /\ key \notin held[k] /\ Event(k, key, "down")
    /\ held' = [held EXCEPT ![k] = @ \cup {key}]

KeyUp(k, key) ==
    /\ key \in held[k] /\ Event(k, key, "up")
    /\ held' = [held EXCEPT ![k] = @ \ {key}]

\* Escape, x and the calls: read like any key, and acted upon at once.
ControlKey(key) ==
    /\ key \in {"esc"} \cup calls
    /\ \E k \in opened : Event(k, key, "down")
    /\ UNCHANGED held

-------------------------------------------------------------------------------
(* The reader thread *)

Exits == exiting' = TRUE /\ reader' = "gone"

\* What a key event leaves pressed, and whether the velocity is computed anew: a
\* gripper key replaces the other one, a key that is down already changes nothing.
Pressing(set, e) ==
    IF e.what = "up" THEN set \ {e.key}
    ELSE (IF e.key \in Gripper THEN {} ELSE set) \cup {e.key}

\* A plausible bug: a release changes the set and not the velocity.
RecomputesOnPress(set, e) == e.what = "down" /\ e.key \notin set

Recomputes(set, e) == e.what = "up" \/ e.key \notin set

ReadMotionKey(e) ==
    IF ~servoStarted THEN UNCHANGED <<pressed, gripPressed, reader, sum>>
    ELSE LET set == IF e.key \in Gripper THEN gripPressed ELSE pressed
         IN /\ IF e.key \in Gripper
               THEN gripPressed' = Pressing(set, e) /\ UNCHANGED pressed
               ELSE pressed' = Pressing(set, e) /\ UNCHANGED gripPressed
            /\ IF Recomputes(set, e)
               THEN /\ reader' = IF e.key \in Gripper THEN "gripper" ELSE "twist"
                    /\ sum' = Pressing(set, e)
               ELSE UNCHANGED <<reader, sum>>

\* Home and level start a thread at every press; align and orient, with Servo started
\* once, if the tool is the jaw and the panel is in view or remembered.
ReadCall(key) ==
    \/ /\ key \in {"r", "f"} \/ servoStarted
       /\ called' = called \cup {TaskOf[key]}
    \/ key \in {"p", "m"} /\ UNCHANGED called

\* Of the keyboards that have something to read, select may name any first.
ReadKey(k) ==
    /\ reader = "rest" /\ events[k] # <<>>
    /\ events' = [events EXCEPT ![k] = Tail(@)]
    /\ LET e == Head(events[k]) IN
       \/ e.key = "esc" /\ Exits /\ UNCHANGED <<pressed, gripPressed, sum, called>>
       \/ e.key \in Calls /\ ReadCall(e.key) /\ UNCHANGED <<readerVars, exiting>>
       \/ e.key \in keys /\ ReadMotionKey(e) /\ UNCHANGED <<exiting, called>>
    /\ UNCHANGED <<keys, calls, held, opened, lost, velocity, stage, delaying, servoVars, main,
                   clean>>

\* set_velocity and set_gripper_velocity, outside the lock: zero during the delay.
SetVelocity ==
    /\ reader \in {"twist", "gripper"} /\ reader' = "rest" /\ sum' = {}
    /\ LET part == IF reader = "gripper" THEN Gripper ELSE keys \ Gripper
       IN velocity' = (velocity \ part) \cup (IF delaying THEN {} ELSE sum)
    /\ UNCHANGED <<deviceVars, pressed, gripPressed, called, stage, delaying, servoVars,
                   mainVars>>

\* An OSError on read: the keyboard is dropped, and the last one ends the loop.
\* The keys it held stay pressed.
LoseKeyboard(k) ==
    /\ reader = "rest" /\ k \in opened
    /\ opened' = opened \ {k}
    /\ lost' = lost \cup (held[k] \cap (pressed \cup gripPressed \cup velocity))
                    \cup {key \in keys : \E i \in 1..Len(events[k]) : events[k][i].key = key}
    /\ held' = [held EXCEPT ![k] = {}]
    /\ events' = [events EXCEPT ![k] = <<>>]
    /\ IF opened = {k} THEN Exits ELSE UNCHANGED <<exiting, reader>>
    /\ UNCHANGED <<keys, calls, pressed, gripPressed, sum, velocity, called, stage, delaying,
                   servoVars, main, clean>>

-------------------------------------------------------------------------------
(* The threads of home, align, orient and level *)

TaskGoes(t, from, to) ==
    /\ main # "done"
    /\ stage[t] = from /\ stage' = [stage EXCEPT ![t] = to]

\* A task under way: the new thread returns at its lock.  Home clears what is pressed.
TaskEnters(t) ==
    /\ main # "done" /\ t \in called
    /\ called' = called \ {t}
    /\ IF stage[t] = "idle" THEN stage' = [stage EXCEPT ![t] = "stop"] ELSE UNCHANGED stage
    /\ IF t = "home" /\ stage[t] = "idle"
       THEN pressed' = {} /\ gripPressed' = {}
       ELSE UNCHANGED <<pressed, gripPressed>>
    /\ UNCHANGED <<deviceVars, reader, sum, velocity, delaying, servoVars, mainVars>>

\* run_planned_activity: stop ...
TaskStops(t) ==
    /\ TaskGoes(t, "stop", "flag")
    /\ velocity' = {}
    /\ UNCHANGED <<deviceVars, readerVars, called, delaying, servoVars, mainVars>>

\* ... then the delay, whose flag the threads share.
TaskDelays(t) ==
    /\ TaskGoes(t, "flag", "delay")
    /\ delaying' = TRUE
    /\ UNCHANGED <<deviceVars, readerVars, velocity, called, servoVars, mainVars>>

\* Each action stops the arm first and has Servo stopped, here or in panel_align_node,
\* unless that fails.  A stop request served late is left out: it only stops Servo.
TaskMoves(t) ==
    /\ TaskGoes(t, "delay", "move")
    /\ delaying' = FALSE /\ velocity' = {} /\ servoOn' \in {servoOn, FALSE}
    /\ UNCHANGED <<deviceVars, readerVars, called, starting, servoStarted, mainVars>>

\* A plausible bug: a home move that ends after the exit returns with its lock kept.
MoveLeadsInTime(t, to) == IF t = "home" THEN ~exiting ELSE to = "servo"

\* Home starts Servo if its move succeeded and no exit was asked for, the others always.
MoveLeads(t, to) ==
    IF t = "home" THEN to = "idle" \/ ~exiting ELSE to = "servo"

TaskMoved(t) ==
    /\ \E to \in {"servo", "idle"} : MoveLeads(t, to) /\ TaskGoes(t, "move", to)
    /\ delaying' = FALSE
    /\ UNCHANGED <<deviceVars, readerVars, velocity, called, servoVars, mainVars>>

\* start_servo: it fails before the request, or sends it.  The unserved requests of
\* one task are told apart no further.
TaskStartsServo(t) ==
    /\ \/ TaskGoes(t, "servo", "idle") /\ UNCHANGED starting
       \/ TaskGoes(t, "servo", "starting") /\ starting' = starting \cup {t}
    /\ UNCHANGED <<deviceVars, readerVars, velocity, called, delaying, servoStarted, servoOn,
                   mainVars>>

\* No answer in time: the request may still be served.
StartTimesOut(t) ==
    /\ TaskGoes(t, "starting", "idle")
    /\ UNCHANGED <<deviceVars, readerVars, velocity, called, delaying, servoVars, mainVars>>

\* Servo outlives the node, and so does a request to start it.
StartServed(t) ==
    /\ t \in starting /\ starting' = starting \ {t}
    /\ LET answered == main # "done" /\ stage[t] = "starting"
       IN /\ stage' = [stage EXCEPT ![t] = IF answered THEN "idle" ELSE @]
          /\ \/ /\ servoOn' = TRUE
                /\ servoStarted' = (servoStarted \/ (answered /\ t = "home"))
             \/ UNCHANGED <<servoOn, servoStarted>>
    /\ UNCHANGED <<deviceVars, readerVars, velocity, called, delaying, mainVars>>

-------------------------------------------------------------------------------
(* The main thread *)

\* A plausible bug: the exit does not wait for the home thread.
HomeNotAwaited == TRUE

\* _safe_pose_running can be taken: the only task's lock the exit waits for.
HomeIsOver == stage["home"] = "idle"

\* run()'s finally, and the stop of _run_teleop's.
MainStops ==
    /\ main = "waiting" /\ exiting /\ HomeIsOver
    /\ main' = "stopping" /\ velocity' = {}
    /\ UNCHANGED <<deviceVars, readerVars, called, stage, delaying, servoVars, exiting, clean>>

\* No thread of align, orient or level, and no request, is left to start Servo.
NoStraggler ==
    /\ starting = {} /\ called \cap Assists = {}
    /\ \A t \in Assists : stage[t] = "idle"

\* stop_servo is confirmed, or it is not: Servo may still be active.
MainStopsServo ==
    /\ main = "stopping" /\ main' = "closing"
    /\ \/ servoOn' = FALSE /\ clean' = NoStraggler
       \/ servoOn' \in {servoOn, FALSE} /\ clean' = FALSE
    /\ UNCHANGED <<deviceVars, readerVars, velocity, called, stage, delaying, starting,
                   servoStarted, exiting>>

\* The controller's change, destroy_node, shutdown; the threads end with the process.
MainEnds ==
    /\ main = "closing" /\ main' = "done"
    /\ UNCHANGED <<deviceVars, readerVars, velocity, called, stage, delaying, servoVars,
                   exiting, clean>>

-------------------------------------------------------------------------------

TaskStep(t) ==
    \/ TaskEnters(t) \/ TaskStops(t) \/ TaskDelays(t) \/ TaskMoves(t) \/ TaskMoved(t)
    \/ TaskStartsServo(t) \/ StartTimesOut(t)

MainStep == MainStops \/ MainStopsServo \/ MainEnds

KeyNext ==
    \/ \E k \in Keyboards : ReadKey(k) \/ LoseKeyboard(k)
    \/ SetVelocity
    \/ \E k \in Keyboards, key \in keys : KeyDown(k, key) \/ KeyUp(k, key)
    \/ \E key \in {"esc"} \cup Calls : ControlKey(key)
    \/ \E t \in Tasks : TaskStep(t) \/ StartServed(t)
    \/ MainStep

\* The main thread goes on, and so does home, whose services all time out and whose
\* move does (safe_pose_timeout above 0).  Neither the operator, nor the reader, nor
\* Servo, nor the other threads have to do anything.
KeyFairness == WF_keyVars(TaskStep("home")) /\ WF_keyVars(MainStep)

KeySpec == KeyInit /\ [][KeyNext]_keyVars /\ KeyFairness

-------------------------------------------------------------------------------

KeyTypeOK ==
    /\ opened \subseteq Keyboards /\ held \in [Keyboards -> SUBSET keys]
    /\ DOMAIN events = Keyboards /\ \A k \in Keyboards : Len(events[k]) <= MaxEvents
    /\ \E use \in KeySets : keys = use[1] /\ calls = use[2]
    /\ pressed \subseteq keys \ Gripper /\ gripPressed \subseteq Gripper
    /\ reader \in {"rest", "twist", "gripper", "gone"}
    /\ sum \subseteq keys /\ velocity \subseteq keys /\ lost \subseteq keys
    /\ called \subseteq Tasks /\ starting \subseteq Tasks
    /\ stage \in [Tasks -> {"idle", "stop", "flag", "delay", "move", "servo", "starting"}]
    /\ main \in {"waiting", "stopping", "closing", "done"}
    /\ {delaying, servoStarted, servoOn, exiting, clean} \subseteq BOOLEAN

\* The arm moves for a key only while it is down, or its release is still unread, or
\* it was down on a keyboard that was lost.  When the node has shut down no velocity is
\* commanded; and Servo is off, unless its stop was not confirmed, or when it was
\* stopped an align, orient or level thread was still there or a request to start it.
KeysExplainMotion ==
    /\ \A key \in velocity :
           \/ key \in lost
           \/ \E k \in Keyboards : key \in held[k]
           \/ \E k \in Keyboards : \E i \in 1..Len(events[k]) : events[k][i].key = key
           \/ reader \in {"twist", "gripper"}
    /\ main = "done" => velocity = {}
    /\ main = "done" /\ clean => ~servoOn

\* run_planned_activity's docstring: while the delay is waited out, input that is held
\* cannot sneak a command through.
DelayStandsStill == servoOn /\ (\E t \in Tasks : stage[t] = "delay") => velocity = {}

\* Asked to exit, or without a keyboard, the node does shut down.
ExitEnds == exiting ~> main = "done"

===============================================================================
