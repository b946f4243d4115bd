------------------------------- MODULE LoraLink -------------------------------
(***************************************************************************)
(* rover_comms: LinkState and the node around it.  Two threads share one   *)
(* lock: the reader, which owns the serial port and accepts teleop frames, *)
(* and the publish timer, whose tick takes the lock once for each question *)
(* it asks, so frames and link losses fall between its questions.          *)
(*                                                                         *)
(* A command is abstracted to whether it moves the rover, the clock to     *)
(* late: the last frame is older than failsafe_timeout.                    *)
(***************************************************************************)
EXTENDS Naturals

CONSTANT ZeroBurst   \* zero_burst: stops published when the link fails

ASSUME ZeroBurstAssumption == ZeroBurst \in Nat

VARIABLES
    failsafe,    \* _failsafe
    moving,      \* _command is not zero
    estop,       \* the e-stop bit of _command.flags
    timed,       \* _last_frame_at is not None
    late,        \* _last_frame_at is more than failsafe_timeout ago
    zeros_left,  \* _zeros_left
    reader,      \* where the reader thread stands
    tick,        \* where the publish tick stands
    twist,       \* the twist the tick has composed
    published,   \* the last twist on cmd_vel_lora
    shown,       \* the last messages on lora/rover_state and lora/rover_estop
    reply,       \* the last status frame sent to the mast
    zeros,       \* history: stops published since the last moving twist
    mayMove,     \* history: the last frame moves the rover, and since it no
                 \* link loss was seen and no timeout found
    lateMoves    \* history: moving twists published since mayMove ended

linkVars == <<failsafe, moving, estop, timed, late, zeros_left>>
vars == <<linkVars, reader, tick, twist, published, shown, reply, zeros, mayMove, lateMoves>>

-------------------------------------------------------------------------------

Twists == {"zero", "move"}
ReaderSteps == {"closed", "pumping", "accepted", "failed"}
TickSteps == {"idle", "should_publish", "compose", "publish", "status"}

Status == [failsafe : BOOLEAN, estop : BOOLEAN]

CurrentStatus == [failsafe |-> failsafe, estop |-> estop]

Init ==
    /\ failsafe = TRUE /\ moving = FALSE /\ estop = FALSE
    /\ timed = FALSE /\ late = FALSE
    /\ zeros_left = ZeroBurst
    /\ reader = "closed" /\ tick = "idle"
    /\ twist = "zero" /\ published = "zero"
    /\ shown = [failsafe |-> TRUE, estop |-> FALSE]
    /\ reply = [failsafe |-> TRUE, estop |-> FALSE]
    /\ zeros = ZeroBurst /\ mayMove = FALSE /\ lateMoves = 0

-------------------------------------------------------------------------------
(* The reader thread *)

\* The port is opened, or stays closed for another backoff.
OpenPort ==
    /\ reader = "closed"
    /\ reader' = "pumping"
    /\ UNCHANGED <<linkVars, tick, twist, published, shown, reply, zeros, mayMove, lateMoves>>

\* A plausible bug: the burst is armed once, at startup.
OnTeleopUnarmed(moves, stop) ==
    /\ reader = "pumping"
    /\ moving' = (moves /\ ~stop) /\ estop' = stop
    /\ timed' = TRUE /\ late' = FALSE
    /\ failsafe' = FALSE
    /\ reader' = "accepted"
    /\ mayMove' = (moves /\ ~stop)
    /\ lateMoves' = IF moves /\ ~stop THEN 0 ELSE lateMoves
    /\ UNCHANGED <<zeros_left, tick, twist, published, shown, reply, zeros>>

\* on_teleop: an e-stop frame carries no motion, whatever it says.
OnTeleop(moves, stop) ==
    /\ reader = "pumping"
    /\ moving' = (moves /\ ~stop) /\ estop' = stop
    /\ timed' = TRUE /\ late' = FALSE
    /\ failsafe' = FALSE
    /\ zeros_left' = ZeroBurst
    /\ reader' = "accepted"
    /\ mayMove' = (moves /\ ~stop)
    /\ lateMoves' = IF moves /\ ~stop THEN 0 ELSE lateMoves
    /\ UNCHANGED <<tick, twist, published, shown, reply, zeros>>

\* _reply: every accepted frame is answered, or the port is given up.
Reply ==
    /\ reader = "accepted"
    /\ \/ reader' = "pumping" /\ reply' = CurrentStatus
       \/ reader' = "failed" /\ UNCHANGED reply
    /\ UNCHANGED <<linkVars, tick, twist, published, shown, zeros, mayMove, lateMoves>>

ReadFails ==
    /\ reader = "pumping"
    /\ reader' = "failed"
    /\ UNCHANGED <<linkVars, tick, twist, published, shown, reply, zeros, mayMove, lateMoves>>

\* on_link_lost, then the port is closed; the flags are kept.
OnLinkLost ==
    /\ reader = "failed"
    /\ reader' = "closed"
    /\ IF failsafe
       THEN UNCHANGED <<failsafe, moving, timed>>
       ELSE failsafe' = TRUE /\ moving' = FALSE /\ timed' = FALSE
    /\ mayMove' = FALSE
    /\ UNCHANGED <<estop, late, zeros_left, tick, twist, published, shown, reply, zeros,
                   lateMoves>>

-------------------------------------------------------------------------------
(* The clock *)

FrameGrowsLate ==
    /\ timed /\ ~late
    /\ late' = TRUE
    /\ UNCHANGED <<failsafe, moving, estop, timed, zeros_left, reader, tick, twist,
                   published, shown, reply, zeros, mayMove, lateMoves>>

-------------------------------------------------------------------------------
(* The publish timer *)

CheckTimeout ==
    /\ tick = "idle"
    /\ tick' = "should_publish"
    /\ IF ~failsafe /\ timed /\ late
       THEN failsafe' = TRUE /\ moving' = FALSE
       ELSE UNCHANGED <<failsafe, moving>>
    /\ mayMove' = (mayMove /\ ~late)
    /\ UNCHANGED <<estop, timed, late, zeros_left, reader, twist, published, shown, reply,
                   zeros, lateMoves>>

\* A plausible bug: the zeros are a stream, not a burst.
ShouldStream ==
    /\ tick = "should_publish"
    /\ tick' = IF ~failsafe \/ zeros_left > 0 THEN "compose" ELSE "status"
    /\ UNCHANGED <<linkVars, reader, twist, published, shown, reply, zeros, mayMove, lateMoves>>

\* A live command always goes out; of a failsafed one, only the burst's rest.
ShouldPublish ==
    /\ tick = "should_publish"
    /\ tick' = IF ~failsafe \/ zeros_left > 0 THEN "compose" ELSE "status"
    /\ zeros_left' = IF failsafe /\ zeros_left > 0 THEN zeros_left - 1 ELSE zeros_left
    /\ UNCHANGED <<failsafe, moving, estop, timed, late, reader, twist, published, shown,
                   reply, zeros, mayMove, lateMoves>>

\* A plausible bug: last-known-good.
LastKnownTwist ==
    /\ tick = "compose"
    /\ tick' = "publish"
    /\ twist' = IF moving THEN "move" ELSE IF failsafe THEN published ELSE "zero"
    /\ UNCHANGED <<linkVars, reader, published, shown, reply, zeros, mayMove, lateMoves>>

TwistComponents ==
    /\ tick = "compose"
    /\ tick' = "publish"
    /\ twist' = IF ~failsafe /\ moving THEN "move" ELSE "zero"
    /\ UNCHANGED <<linkVars, reader, published, shown, reply, zeros, mayMove, lateMoves>>

\* The lock is free again: what goes out may be older than the last frame.
PublishTwist ==
    /\ tick = "publish"
    /\ tick' = "status"
    /\ published' = twist
    /\ zeros' = IF twist = "move" THEN 0
                ELSE IF zeros < ZeroBurst THEN zeros + 1 ELSE zeros
    /\ lateMoves' = IF twist = "move" /\ ~mayMove THEN lateMoves + 1 ELSE lateMoves
    /\ UNCHANGED <<linkVars, reader, twist, shown, reply, mayMove>>

PublishStatus ==
    /\ tick = "status"
    /\ tick' = "idle"
    /\ shown' = CurrentStatus
    /\ UNCHANGED <<linkVars, reader, twist, published, reply, zeros, mayMove, lateMoves>>

-------------------------------------------------------------------------------

Frame == \E moves, stop \in BOOLEAN : OnTeleop(moves, stop)

Reader == OpenPort \/ Frame \/ Reply \/ ReadFails \/ OnLinkLost

Publish == CheckTimeout \/ ShouldPublish \/ TwistComponents \/ PublishTwist \/ PublishStatus

Next == Reader \/ FrameGrowsLate \/ Publish

Spec == Init /\ [][Next]_vars

\* The timer ticks and time passes; the radio owes nothing.
Fairness == WF_vars(Publish) /\ WF_vars(FrameGrowsLate)

FairSpec == Spec /\ Fairness

-------------------------------------------------------------------------------
(* Correctness *)

(***************************************************************************)
(* The kinds of values the node holds; the burst never runs below zero.    *)
(***************************************************************************)
TypeOK ==
    /\ failsafe \in BOOLEAN /\ moving \in BOOLEAN /\ estop \in BOOLEAN
    /\ timed \in BOOLEAN /\ late \in BOOLEAN
    /\ zeros_left \in 0..ZeroBurst
    /\ reader \in ReaderSteps /\ tick \in TickSteps
    /\ twist \in Twists /\ published \in Twists
    /\ shown \in Status /\ reply \in Status
    /\ zeros \in 0..ZeroBurst /\ mayMove \in BOOLEAN
    /\ lateMoves \in Nat

(***************************************************************************)
(* "The next disconnect gets a full stop of its own however brief the      *)
(* reconnect was": between ticks, a failsafed link that has published a    *)
(* moving twist has published, or still owes, zero_burst stops since then. *)
(***************************************************************************)
FullStop == failsafe /\ tick = "idle" => zeros + zeros_left >= ZeroBurst

(***************************************************************************)
(* "Zero immediately on a known link loss": once an e-stop or a released   *)
(* stick is received, a lost link is seen or a timeout found, at most the  *)
(* one twist already composed still moves the rover.                       *)
(***************************************************************************)
OneLateTwist == lateMoves <= 1

(***************************************************************************)
(* Without new frames the rover is told to stop and the link goes quiet,   *)
(* whatever the port does, and what the console shows settles on that.     *)
(***************************************************************************)
SilenceStops ==
    []<><<Frame>>_vars
    \/ <>[](/\ published = "zero" /\ failsafe /\ zeros_left = 0
            /\ shown = CurrentStatus)

===============================================================================
