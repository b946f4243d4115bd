------------------------------ MODULE HardwareTx ------------------------------
(***************************************************************************)
(* The transmit side of rover_hardware_interface.cpp: who may put frames   *)
(* on the CAN bus and in which order they reach a drive motor.             *)
(*                                                                         *)
(* Three threads share motors_enabled_, tx_sequence_mutex_ and the socket: *)
(*   "loop"  the controller_manager loop calling write();                  *)
(*   "life"  controller_manager's lifecycle transitions;                   *)
(*   "exec"  the single-threaded executor of rover_hardware_node: its      *)
(*           services and its timers, one at a time.                       *)
(* One drive motor stands for the eight: every burst sends each motor one  *)
(* frame of each kind, and the order that matters is per motor.            *)
(***************************************************************************)
EXTENDS Naturals, Sequences

CONSTANTS
    CommandCap,   \* command frames the transmit queue holds; more are dropped
    SpecialCap    \* bound: a request begins only while fewer enable, disable
                  \* and clear frames are on their way

ASSUME CapsAssumption == CommandCap \in Nat \ {0} /\ SpecialCap \in Nat \ {0}

VARIABLES
    enabled,    \* motors_enabled_
    activated,  \* activated_
    finalized,  \* on_shutdown has begun: the component does not come back
    isOpen,     \* can_bus_ has a socket
    lock,       \* the holder of tx_sequence_mutex_, or "free"
    stalled,    \* last_write_time_ is more than kWatchdogTimeoutSec old
    pc,         \* where each thread stands
    commands,   \* command frames accepted and not yet on the wire
    specials,   \* enable, disable and clear frames, likewise
    draining,   \* commands still to leave before a thread's settle delay ends
    heard,      \* the last frame the motor heard
    motorOn,    \* the motor is enabled
    settled,    \* history: a disable reached the bus and nothing enables since
    raced       \* history: an enable overlapped a disable or a clear

vars == <<enabled, activated, finalized, isOpen, lock, stalled, pc, commands, specials,
          draining, heard, motorOn, settled, raced>>

-------------------------------------------------------------------------------

Requesters == {"life", "exec"}
Threads == {"loop"} \cup Requesters

Steps == {"idle",
          "locking", "writing",               \* write()
          "enable_frames", "enable_flag",     \* send_enable_frames()
          "burst1", "settling", "burst2",     \* send_disable_frames()
          "close",                            \* the end of on_deactivate()
          "clear_send", "clear_flag",         \* on_clear_motor_errors()
          "watchdog_send"}                    \* the watchdog timer

Enabling == {"enable_frames", "enable_flag"}
Disabling == {"burst1", "settling", "burst2"}
Clearing == {"clear_send", "clear_flag"}

Init ==
    /\ enabled = FALSE /\ activated = FALSE /\ finalized = FALSE /\ isOpen = FALSE
    /\ lock = "free"
    /\ stalled = FALSE
    /\ pc = [t \in Threads |-> "idle"]
    /\ commands = <<>> /\ specials = <<>>
    /\ draining = [t \in Requesters |-> 0]
    /\ heard = "nothing" /\ motorOn = FALSE
    /\ settled = FALSE /\ raced = FALSE

Goto(t, step) == pc' = [pc EXCEPT ![t] = step]

(***************************************************************************)
(* CanBus::send.  On a closed socket the frame is refused; a full transmit *)
(* queue drops it.  All special frames carry the motor's own ID and stay   *)
(* in order among themselves, and so do the commands at 0x200 + ID, but    *)
(* the controller arbitrates the two by ID.                                *)
(***************************************************************************)
SendCommand(frame) ==
    commands' = IF isOpen /\ Len(commands) < CommandCap THEN Append(commands, frame)
                                                        ELSE commands

SendSpecial(frame) == specials' = IF isOpen THEN Append(specials, frame) ELSE specials

WireHasRoom == Len(specials) < SpecialCap

-------------------------------------------------------------------------------
(* write() *)

\* The first, unlocked check; the write time is stamped whatever it finds.
WriteBegins ==
    /\ pc["loop"] = "idle" /\ ~finalized
    /\ stalled' = FALSE
    /\ Goto("loop", IF enabled THEN "locking" ELSE "idle")
    /\ UNCHANGED <<enabled, activated, finalized, isOpen, lock, commands, specials, draining,
                   heard, motorOn, settled, raced>>

\* A plausible bug: no re-check.
MayAlwaysWrite == TRUE

\* The re-check under the lock.
MayWrite == enabled

\* A plausible bug: the early return keeps the mutex.
WriteLocksAndKeeps ==
    /\ pc["loop"] = "locking"
    /\ lock = "free"
    /\ lock' = "loop"
    /\ Goto("loop", IF MayWrite THEN "writing" ELSE "idle")
    /\ UNCHANGED <<enabled, activated, finalized, isOpen, stalled, commands, specials,
                   draining, heard, motorOn, settled, raced>>

WriteLocks ==
    /\ pc["loop"] = "locking"
    /\ lock = "free"
    /\ IF MayWrite THEN lock' = "loop" /\ Goto("loop", "writing")
                   ELSE UNCHANGED lock /\ Goto("loop", "idle")
    /\ UNCHANGED <<enabled, activated, finalized, isOpen, stalled, commands, specials, draining,
                   heard, motorOn, settled, raced>>

WriteSends ==
    /\ pc["loop"] = "writing"
    /\ SendCommand("write")
    /\ lock' = "free"
    /\ Goto("loop", "idle")
    /\ UNCHANGED <<enabled, activated, finalized, isOpen, stalled, specials, draining,
                   heard, motorOn, settled, raced>>

\* The control loop has not called write() for kWatchdogTimeoutSec.
LoopStalls ==
    /\ ~stalled /\ ~finalized
    /\ stalled' = TRUE
    /\ UNCHANGED <<enabled, activated, finalized, isOpen, lock, pc, commands, specials, draining,
                   heard, motorOn, settled, raced>>

-------------------------------------------------------------------------------
(* send_enable_frames(): no lock, and the flag goes up after the last frame *)

BeginEnable(t) ==
    /\ Goto(t, "enable_frames")
    /\ settled' = FALSE
    /\ raced' = (raced \/ \E u \in Requesters : pc[u] \in Disabling \cup Clearing \cup {"close"})

EnableFrames(t) ==
    /\ pc[t] = "enable_frames"
    /\ SendSpecial("enable")
    /\ Goto(t, "enable_flag")
    /\ UNCHANGED <<enabled, activated, finalized, isOpen, lock, stalled, commands, draining,
                   heard, motorOn, settled, raced>>

EnableFlag(t) ==
    /\ pc[t] = "enable_flag"
    /\ enabled' = TRUE
    /\ activated' = (activated \/ t = "life")
    /\ Goto(t, "idle")
    /\ UNCHANGED <<finalized, isOpen, lock, stalled, commands, specials, draining,
                   heard, motorOn, settled, raced>>

-------------------------------------------------------------------------------
(* send_disable_frames(): flag, burst, settle delay, burst *)

\* One that begins with nobody else at it makes up for earlier overlaps.
BeginDisable(t) ==
    /\ enabled' = FALSE
    /\ Goto(t, "burst1")
    /\ raced' = IF isOpen /\ \A u \in Requesters : pc[u] \in {"idle", "watchdog_send"}
                THEN FALSE
                ELSE raced \/ \E u \in Requesters : pc[u] \in Enabling

DisableBurst1(t) ==
    /\ pc[t] = "burst1"
    /\ lock = "free"
    /\ SendSpecial("disable")
    /\ draining' = [draining EXCEPT ![t] = Len(commands)]
    /\ Goto(t, "settling")
    /\ UNCHANGED <<enabled, activated, finalized, isOpen, lock, stalled, commands,
                   heard, motorOn, settled, raced>>

\* kDisableSettleDelay: everything queued before it has left the controller.
Drained(t) == draining[t] = 0

SettleDelay(t) ==
    /\ pc[t] = "settling"
    /\ Drained(t)
    /\ Goto(t, "burst2")
    /\ UNCHANGED <<enabled, activated, finalized, isOpen, lock, stalled, commands, specials,
                   draining, heard, motorOn, settled, raced>>

\* A plausible bug: the socket is never closed.
DisableAndStayOpen(t) ==
    /\ pc[t] = "burst2"
    /\ lock = "free"
    /\ SendSpecial("disable")
    /\ Goto(t, "idle")
    /\ settled' = (settled \/ /\ isOpen /\ ~enabled
                              /\ \A u \in Requesters \ {t} : pc[u] \notin Enabling \cup Disabling)
    /\ UNCHANGED <<enabled, activated, finalized, isOpen, lock, stalled, commands, draining,
                   heard, motorOn, raced>>

DisableBurst2(t) ==
    /\ pc[t] = "burst2"
    /\ lock = "free"
    /\ SendSpecial("disable")
    /\ Goto(t, IF t = "life" THEN "close" ELSE "idle")
    /\ settled' = (settled \/ /\ isOpen /\ ~enabled
                              /\ \A u \in Requesters \ {t} : pc[u] \notin Enabling \cup Disabling)
    /\ UNCHANGED <<enabled, activated, finalized, isOpen, lock, stalled, commands, draining,
                   heard, motorOn, raced>>

-------------------------------------------------------------------------------
(* Lifecycle transitions *)

\* on_activate; a failed open or a receive thread that does not start leaves
\* everything as it was.
OnActivate ==
    /\ pc["life"] = "idle" /\ ~activated /\ ~finalized /\ WireHasRoom
    /\ isOpen' = TRUE
    /\ stalled' = FALSE
    /\ BeginEnable("life")
    /\ UNCHANGED <<enabled, activated, finalized, lock, commands, specials, draining,
                   heard, motorOn>>

\* A plausible bug: the socket is closed before the disable frames go out.
CloseThenDisable ==
    /\ pc["life"] = "idle" /\ activated /\ WireHasRoom
    /\ activated' = FALSE
    /\ isOpen' = FALSE
    /\ BeginDisable("life")
    /\ UNCHANGED <<finalized, lock, stalled, commands, specials, draining, heard, motorOn,
                   settled>>

OnDeactivate ==
    /\ pc["life"] = "idle" /\ activated /\ WireHasRoom
    /\ activated' = FALSE
    /\ BeginDisable("life")
    /\ UNCHANGED <<finalized, isOpen, lock, stalled, commands, specials, draining,
                   heard, motorOn, settled>>

\* on_shutdown, from any state: it disables only what the flag says is enabled.
OnShutdown ==
    /\ pc["life"] = "idle" /\ ~finalized /\ WireHasRoom
    /\ activated' = FALSE
    /\ finalized' = TRUE
    /\ IF enabled THEN BeginDisable("life")
                  ELSE /\ Goto("life", "close")
                       /\ raced' = (raced \/ pc["exec"] \in Enabling)
                       /\ UNCHANGED enabled
    /\ UNCHANGED <<isOpen, lock, stalled, commands, specials, draining, heard, motorOn,
                   settled>>

\* The end of both.  A shutdown that found the flag down pulls the socket from
\* under a disable the executor has not finished sending.
Close ==
    /\ pc["life"] = "close"
    /\ isOpen' = FALSE
    /\ Goto("life", "idle")
    /\ raced' = (raced \/ (finalized /\ pc["exec"] \in Disabling))
    /\ UNCHANGED <<enabled, activated, finalized, lock, stalled, commands, specials,
                   draining, heard, motorOn, settled>>

-------------------------------------------------------------------------------
(* The executor of rover_hardware_node *)

\* on_shutdown cancels it once the socket is closed; it finishes what it runs.
ExecutorSpins == pc["exec"] = "idle" /\ (finalized => pc["life"] # "idle")

\* on_set_motors_enabled
SetMotorsEnabled(data) ==
    /\ ExecutorSpins /\ WireHasRoom
    /\ IF data THEN BeginEnable("exec") /\ UNCHANGED enabled
               ELSE BeginDisable("exec") /\ UNCHANGED settled
    /\ UNCHANGED <<activated, finalized, isOpen, lock, stalled, commands, specials,
                   draining, heard, motorOn>>

\* on_clear_motor_errors with no socket open: a temporary one, when it opens,
\* carries the frame, and motors_enabled_ is left alone.
ClearWhileClosed ==
    /\ ExecutorSpins /\ ~isOpen /\ WireHasRoom
    /\ specials' = Append(specials, "clear")
    /\ raced' = (raced \/ pc["life"] \in Enabling)
    /\ UNCHANGED <<enabled, activated, finalized, isOpen, lock, stalled, pc, commands, draining,
                   heard, motorOn, settled>>

ClearWhileOpen ==
    /\ ExecutorSpins /\ isOpen /\ WireHasRoom
    /\ Goto("exec", "clear_send")
    /\ raced' = (raced \/ pc["life"] \in Enabling)
    /\ UNCHANGED <<enabled, activated, finalized, isOpen, lock, stalled, commands, specials,
                   draining, heard, motorOn, settled>>

ClearSends ==
    /\ pc["exec"] = "clear_send"
    /\ lock = "free"
    /\ SendSpecial("clear")
    /\ Goto("exec", "clear_flag")
    /\ UNCHANGED <<enabled, activated, finalized, isOpen, lock, stalled, commands, draining,
                   heard, motorOn, settled, raced>>

\* The flag comes down only after the lock is released.
ClearFlag ==
    /\ pc["exec"] = "clear_flag"
    /\ enabled' = FALSE
    /\ Goto("exec", "idle")
    /\ UNCHANGED <<activated, finalized, isOpen, lock, stalled, commands, specials, draining,
                   heard, motorOn, settled, raced>>

\* The watchdog timer looks at the flag and the write time, then sends with
\* no lock and no second look.
WatchdogFires ==
    /\ ExecutorSpins
    /\ enabled /\ stalled
    /\ Goto("exec", "watchdog_send")
    /\ UNCHANGED <<enabled, activated, finalized, isOpen, lock, stalled, commands, specials,
                   draining, heard, motorOn, settled, raced>>

WatchdogSends ==
    /\ pc["exec"] = "watchdog_send"
    /\ SendCommand("watchdog")
    /\ Goto("exec", "idle")
    /\ UNCHANGED <<enabled, activated, finalized, isOpen, lock, stalled, specials, draining,
                   heard, motorOn, settled, raced>>

-------------------------------------------------------------------------------
(* External: the CAN controller and the motor *)

DeliverCommand ==
    /\ commands # <<>>
    /\ heard' = Head(commands)
    /\ commands' = Tail(commands)
    /\ draining' = [t \in Requesters |-> IF draining[t] > 0 THEN draining[t] - 1 ELSE 0]
    /\ UNCHANGED <<enabled, activated, finalized, isOpen, lock, stalled, pc, specials,
                   motorOn, settled, raced>>

\* A clear leaves the motor disabled, like a disable.
DeliverSpecial ==
    /\ specials # <<>>
    /\ heard' = Head(specials)
    /\ motorOn' = (Head(specials) = "enable")
    /\ specials' = Tail(specials)
    /\ UNCHANGED <<enabled, activated, finalized, isOpen, lock, stalled, pc, commands, draining,
                   settled, raced>>

-------------------------------------------------------------------------------

Write == WriteBegins \/ WriteLocks \/ WriteSends \/ LoopStalls

Power(t) ==
    \/ EnableFrames(t) \/ EnableFlag(t)
    \/ DisableBurst1(t) \/ SettleDelay(t) \/ DisableBurst2(t)

Lifecycle == OnActivate \/ OnDeactivate \/ Close \/ OnShutdown

Executor ==
    \/ \E data \in BOOLEAN : SetMotorsEnabled(data)
    \/ ClearWhileClosed \/ ClearWhileOpen \/ ClearSends \/ ClearFlag
    \/ WatchdogFires \/ WatchdogSends

Wire == DeliverCommand \/ DeliverSpecial

\* The finalized component: every thread has returned and the wire is silent.
AllIdle == \A t \in Threads : pc[t] = "idle"
Finished ==
    /\ finalized /\ AllIdle /\ commands = <<>> /\ specials = <<>>
    /\ UNCHANGED vars

Next ==
    \/ Write \/ (\E t \in Requesters : Power(t)) \/ Lifecycle \/ Executor \/ Wire
    \/ Finished

Spec == Init /\ [][Next]_vars

(***************************************************************************)
(* A lifecycle transition that has begun keeps running and gets the mutex  *)
(* in the end (the loop sleeps out the rest of each period), the loop      *)
(* finishes a write cycle, and queued commands leave.  Nothing is assumed  *)
(* of the executor.                                                        *)
(***************************************************************************)
Fairness ==
    /\ WF_vars(WriteSends)
    /\ WF_vars(DeliverCommand)
    /\ SF_vars(Power("life")) /\ WF_vars(Close)

FairSpec == Spec /\ Fairness

-------------------------------------------------------------------------------
(* Correctness *)

Frames == {"nothing", "write", "watchdog", "enable", "disable", "clear"}

(***************************************************************************)
(* The mutex is held by the control loop exactly while it writes, and by   *)
(* nobody across a step otherwise; the queues stay within their bounds.    *)
(***************************************************************************)
TypeOK ==
    /\ enabled \in BOOLEAN /\ activated \in BOOLEAN /\ finalized \in BOOLEAN
    /\ isOpen \in BOOLEAN
    /\ lock \in {"free", "loop"}
    /\ stalled \in BOOLEAN
    /\ pc \in [Threads -> Steps]
    /\ commands \in Seq({"write", "watchdog"}) /\ Len(commands) <= CommandCap
    /\ specials \in Seq({"enable", "disable", "clear"}) /\ Len(specials) <= SpecialCap + 3
    /\ draining \in [Requesters -> 0..CommandCap]
    /\ heard \in Frames
    /\ motorOn \in BOOLEAN /\ settled \in BOOLEAN /\ raced \in BOOLEAN
    /\ lock = "loop" <=> pc["loop"] = "writing"

Queued(frame) == \E i \in 1..Len(commands) : commands[i] = frame

(***************************************************************************)
(* "No command frame reaches a motor after its disable frame"              *)
(* (tx_sequence_mutex_), for the frames of write(): after a completed      *)
(* disable none is queued, and none is the last thing the motor heard.     *)
(***************************************************************************)
NoLateWrite ==
    settled /\ ~raced => /\ ~Queued("write")
                         /\ specials = <<>> => heard # "write"

(***************************************************************************)
(* When every thread is at rest, every frame has arrived and no enable     *)
(* overlapped a disable or a clear, a motor the flag calls disabled is.    *)
(***************************************************************************)
NoMotorLeftOn ==
    AllIdle /\ specials = <<>> /\ ~raced /\ ~enabled => ~motorOn

(***************************************************************************)
(* A component being deactivated always comes to rest with its socket      *)
(* closed, whatever the loop and the executor do with the mutex meanwhile. *)
(***************************************************************************)
DeactivationEnds == pc["life"] = "burst1" ~> pc["life"] = "idle" /\ ~isOpen

(***************************************************************************)
(* The same "no command frame reaches a motor after its disable frame",    *)
(* for every sender: after a completed disable, when all frames have       *)
(* arrived, the last one heard is no command.                              *)
(***************************************************************************)
LastHeardIsNoCommand ==
    settled /\ ~raced /\ commands = <<>> /\ specials = <<>> =>
        heard \notin {"write", "watchdog"}

===============================================================================
