------------------------------- MODULE FaultFeed -------------------------------
(***************************************************************************)
(* How a fault reaches the operator: feedback decoded by the CAN receive   *)
(* thread, judged fresh or silent and edge-triggered by read() on the      *)
(* control loop, queued, and drained onto /fault_events by a timer of the  *)
(* hardware node.  The reader of /fault_events is a fold over what it was  *)
(* told: events are edges, so one that is lost is never made up for.       *)
(*                                                                         *)
(* Time is abstracted to one flag per motor: silent says that more than    *)
(* its feedback timeout has passed since the later of its last frame and   *)
(* feedback_expected_since_ns_.                                            *)
(***************************************************************************)
EXTENDS FaultDetector

CONSTANTS
    QueueCap,   \* kMaxPendingFaultEvents
    MaxDrops    \* bound: a behaviour is followed until so many events are dropped

ASSUME QueueAssumption == QueueCap \in Nat \ {0} /\ MaxDrops \in Nat \ {0}

VARIABLES
    isOpen,     \* can_bus_ has a socket and its receive thread
    enabled,    \* motors_enabled_
    heard,      \* drive_state_.valid, steer_state_.diag_valid: latched
    code,       \* the fault each motor's last frame reported
    silent,     \* the motor's feedback is overdue
    bus,        \* CanBus::bus_state_
    trackers,   \* steer_fault_, drive_fault_, bus_fault_
    pending,    \* pending_events_, oldest first
    dropped,    \* dropped_events_
    view,       \* what the events published so far tell of each component
    watched,    \* history: everything was seen once before it first changed
    word        \* history: each motor's last word, a frame or a report of it

vars == <<isOpen, enabled, heard, code, silent, bus, trackers, pending, dropped,
          view, watched, word>>

-------------------------------------------------------------------------------

NothingToldOf == [fault |-> "none", lost |-> FALSE]

Init ==
    /\ isOpen = FALSE
    /\ enabled = FALSE
    /\ heard = [m \in MotorSet |-> FALSE]
    /\ code = [m \in MotorSet |-> "none"]
    /\ silent = [m \in MotorSet |-> FALSE]
    /\ bus = "ok"
    /\ trackers = [c \in Components |-> FreshTracker]
    /\ pending = <<>> /\ dropped = 0
    /\ view = [c \in Components |-> NothingToldOf]
    /\ watched = TRUE
    /\ word = [m \in MotorSet |-> "frame"]

NobodySilent == [m \in MotorSet |-> FALSE]

-------------------------------------------------------------------------------
(* The lifecycle and the services, as far as feedback goes *)

\* on_activate; send_enable_frames restarts the feedback clock.
Activate ==
    /\ ~isOpen
    /\ isOpen' = TRUE /\ enabled' = TRUE
    /\ silent' = NobodySilent
    /\ UNCHANGED <<heard, code, bus, trackers, pending, dropped, view, watched,
                   word>>

Deactivate ==
    /\ isOpen
    /\ isOpen' = FALSE /\ enabled' = FALSE
    /\ UNCHANGED <<heard, code, silent, bus, trackers, pending, dropped, view, watched,
                   word>>

\* set_motors_enabled; clear_motor_errors on an open bus disables too.
SetMotorsEnabled(data) ==
    /\ enabled' = data
    /\ silent' = IF data THEN NobodySilent ELSE silent
    /\ UNCHANGED <<isOpen, heard, code, bus, trackers, pending, dropped, view, watched,
                   word>>

-------------------------------------------------------------------------------
(* The receive thread *)

\* dispatch_can_frame: a drive motor's feedback, a steering motor's status.
FeedbackArrives(m, fault) ==
    /\ isOpen
    /\ heard' = [heard EXCEPT ![m] = TRUE]
    /\ code' = [code EXCEPT ![m] = fault]
    /\ silent' = [silent EXCEPT ![m] = FALSE]
    /\ word' = [word EXCEPT ![m] = "frame"]
    /\ watched' = (watched /\ trackers[m].seen)
    /\ UNCHANGED <<isOpen, enabled, bus, trackers, pending, dropped, view>>

FeedbackOverdue(m) ==
    /\ ~silent[m]
    /\ silent' = [silent EXCEPT ![m] = TRUE]
    /\ UNCHANGED <<isOpen, enabled, heard, code, bus, trackers, pending, dropped, view,
                   watched, word>>

\* on_can_error: controller problems, bus-off, and the restart that ends it;
\* or a send that finds the interface down.
BusChanges(state) ==
    /\ isOpen
    /\ bus # state
    /\ bus' = state
    /\ watched' = (watched /\ trackers[Bus].seen)
    /\ UNCHANGED <<isOpen, enabled, heard, code, silent, trackers, pending, dropped, view,
                   word>>

-------------------------------------------------------------------------------
(* read() *)

\* Nothing polls disabled motors, so none of them can be overdue.
StillSilent == IF enabled THEN silent ELSE NobodySilent

Fresh(m) == heard[m] /\ ~StillSilent[m]

\* What one pass queues: the motors in their order, then the bus.
Detected ==
    LET UpTo[i \in 0..Len(Motors)] ==
            IF i = 0 THEN <<>>
            ELSE LET m == Motors[i]
                 IN  UpTo[i - 1] \o MotorEvents(m, trackers[m], code[m], Fresh(m))
    IN  UpTo[Len(Motors)] \o BusEvents(trackers[Bus], bus)

Overflow(queue) == IF Len(queue) > QueueCap THEN Len(queue) - QueueCap ELSE 0

\* A plausible bug: the capacity is never enforced.
KeptAll(queue) == queue

\* queue_event, for a whole pass: each event beyond the capacity drops the oldest.
Kept(queue) == SubSeq(queue, Overflow(queue) + 1, Len(queue))

\* A motor reported lost, or reported back with no frame in between.
LastWord(m) ==
    IF ~SignalEdge(trackers[m], Fresh(m)) THEN word[m]
    ELSE IF ~Fresh(m) THEN "lost"
    ELSE IF word[m] = "lost" THEN "hollow" ELSE word[m]

Read ==
    /\ silent' = StillSilent
    /\ trackers' = [c \in Components |->
                       IF c = Bus THEN BusTracked(trackers[Bus], bus)
                                  ELSE Tracked(trackers[c], code[c], Fresh(c))]
    /\ pending' = Kept(pending \o Detected)
    /\ dropped' = dropped + Overflow(pending \o Detected)
    /\ word' = [m \in MotorSet |-> LastWord(m)]
    /\ UNCHANGED <<isOpen, enabled, heard, code, bus, view, watched>>

-------------------------------------------------------------------------------
(* publish_fault_events, and whoever follows /fault_events *)

Told(v, e) ==
    [v EXCEPT ![e.component] =
        CASE e.event = "SIGNAL_LOST" -> [@ EXCEPT !.lost = TRUE]
          [] e.event = "SIGNAL_OK"   -> [@ EXCEPT !.lost = FALSE]
          [] OTHER                   -> [@ EXCEPT !.fault = e.fault]]

\* The view of one who is told the events of a queue, oldest first.
ToldAll(v, queue) ==
    LET UpTo[i \in 0..Len(queue)] == IF i = 0 THEN v ELSE Told(UpTo[i - 1], queue[i])
    IN  UpTo[Len(queue)]

\* A plausible bug: of several queued events only the newest is published.
PublishNewest ==
    /\ pending # <<>>
    /\ view' = Told(view, pending[Len(pending)])
    /\ pending' = <<>>
    /\ UNCHANGED <<isOpen, enabled, heard, code, silent, bus, trackers, dropped, watched,
                   word>>

PublishFaultEvents ==
    /\ pending # <<>>
    /\ view' = ToldAll(view, pending)
    /\ pending' = <<>>
    /\ UNCHANGED <<isOpen, enabled, heard, code, silent, bus, trackers, dropped, watched,
                   word>>

-------------------------------------------------------------------------------

Lifecycle == Activate \/ Deactivate \/ \E data \in BOOLEAN : SetMotorsEnabled(data)

Receive ==
    \/ \E m \in MotorSet, f \in Healthy \cup MotorFaults : FeedbackArrives(m, f)
    \/ \E m \in MotorSet : FeedbackOverdue(m)
    \/ \E state \in BusStates : BusChanges(state)

\* Once MaxDrops events are gone only the queue is followed, to its end.
Overrun == dropped >= MaxDrops /\ pending = <<>> /\ UNCHANGED vars

Next ==
    \/ dropped < MaxDrops /\ (Lifecycle \/ Receive \/ Read)
    \/ PublishFaultEvents
    \/ Overrun

Spec == Init /\ [][Next]_vars

\* The control loop and the drain timer keep running.
Fairness == WF_vars(dropped < MaxDrops /\ Read) /\ WF_vars(PublishFaultEvents)

FairSpec == Spec /\ Fairness

-------------------------------------------------------------------------------
(* Correctness *)

TypeOK ==
    /\ isOpen \in BOOLEAN /\ enabled \in BOOLEAN
    /\ heard \in [MotorSet -> BOOLEAN] /\ silent \in [MotorSet -> BOOLEAN]
    /\ code \in [MotorSet -> Healthy \cup MotorFaults]
    /\ bus \in BusStates
    /\ trackers \in [Components -> Trackers]
    /\ pending \in Seq(Events) /\ Len(pending) <= QueueCap
    /\ dropped \in Nat
    /\ view \in [Components -> [fault : Faults, lost : BOOLEAN]]
    /\ watched \in BOOLEAN
    /\ word \in [MotorSet -> {"frame", "lost", "hollow"}]

Agrees(v, tracker) ==
    /\ v.lost = tracker.signal_lost_reported
    /\ IF IsFault(tracker.fault) THEN v.fault = tracker.fault ELSE ~IsFault(v.fault)

(***************************************************************************)
(* The events tell the whole story: if none was dropped and everything was *)
(* seen once before it first changed, then what has been published and     *)
(* what is still queued add up to what the detector knows.                 *)
(***************************************************************************)
EventsTellAll ==
    watched /\ dropped = 0 =>
        \A c \in Components : Agrees(ToldAll(view, pending)[c], trackers[c])

(***************************************************************************)
(* A motor that keeps reporting a fault while it is heard is, for good,    *)
(* known to the reader of /fault_events to have it: the edge is never      *)
(* swallowed by a dropout, a disable or a reactivation on the way.         *)
(***************************************************************************)
FaultsAreTold ==
    \A m \in MotorSet, f \in MotorFaults :
        <>[](heard[m] /\ ~silent[m] /\ code[m] = f /\ watched /\ dropped = 0)
            => <>[](view[m].fault = f)

(***************************************************************************)
(* SIGNAL_OK means "feedback resumed" (FaultEvent.msg): no motor is        *)
(* reported back before a frame of it has arrived.                         *)
(***************************************************************************)
BackMeansHeard == \A m \in MotorSet : word[m] # "hollow"

===============================================================================
