------------------------------ MODULE PanelAlign ------------------------------
(***************************************************************************)
(* arm_tasks: panel_align_node's two services, the trajectory goal each    *)
(* submits, and the teleop handler that calls them and restarts Servo      *)
(* whatever they answer.  Each step of the sequence may fail, and then the *)
(* service answers FALSE from where it stands.  Frames, kinematics and     *)
(* trajectories are abstracted to whether they could be resolved.          *)
(***************************************************************************)
EXTENDS Naturals

CONSTANTS
    Services,      \* "align", "orient": those that are called
    IkAttempts     \* live_align_ik_attempts

ASSUME AlignAssumption ==
    /\ Services \subseteq {"align", "orient"}
    /\ IkAttempts \in Nat \ {0}

VARIABLES
    step,          \* where each service stands in its sequence
    mode,          \* align: "live" or "replay"; orient: "orient"
    trajectory,    \* the goal at the controller: none, sent, running, done, failed
    caller,        \* the teleop thread that called the service
    panelPose,     \* _latest_panel_pose: none, fresh, stale
    remembered,    \* _remembered_target_joints, with its pose and orientation
    controller,    \* which controller owns the joints
    reached        \* history: a live alignment was executed to its end

alignVars == <<step, mode, trajectory, caller, panelPose, remembered,
               controller, reached>>

Steps == {"idle", "stop_servo", "switch", "resolve", "scene", "ik", "plan",
          "execute", "waiting", "cancelling", "draining"}
Alive == {"sent", "running"}

AlignInit ==
    /\ step = [s \in Services |-> "idle"]
    /\ mode = [s \in Services |-> "live"]
    /\ trajectory = [s \in Services |-> "none"]
    /\ caller = [s \in Services |-> "idle"]
    /\ panelPose = "none" /\ remembered = FALSE /\ reached = FALSE
    /\ controller = "stream"

At(s, from) == step[s] = from
StepTo(s, to) == step' = [step EXCEPT ![s] = to]

\* _fail, or the last statement: the service answers and its guard is released.
Answers(s) ==
    /\ StepTo(s, "idle")
    /\ caller' = [caller EXCEPT ![s] = IF @ = "waiting" THEN "answered" ELSE @]

ProceedsOrFails(s, to) ==
    \/ StepTo(s, to) /\ UNCHANGED caller
    \/ Answers(s)

-------------------------------------------------------------------------------
(* The teleop side: keyboard_servo_node's align and orient handlers *)

MayRequest(s) ==
    /\ caller[s] = "idle"
    /\ remembered \/ (s = "align" /\ panelPose = "fresh")

Request(s) ==
    /\ MayRequest(s) /\ At(s, "idle")
    /\ caller' = [caller EXCEPT ![s] = "waiting"]
    /\ StepTo(s, "stop_servo")
    /\ mode' = [mode EXCEPT ![s] = IF s = "orient" THEN "orient"
                                   ELSE IF remembered THEN "replay" ELSE "live"]
    /\ UNCHANGED <<trajectory, panelPose, remembered, controller, reached>>

\* The service's guard is taken: the caller of the running request gave up.
RequestRefused(s) ==
    /\ MayRequest(s) /\ ~At(s, "idle")
    /\ caller' = [caller EXCEPT ![s] = "answered"]
    /\ UNCHANGED <<step, mode, trajectory, panelPose, remembered, controller, reached>>

\* panel_align_timeout passes: the handler goes on as after a failure.
CallerGivesUp(s) ==
    /\ caller[s] = "waiting"
    /\ caller' = [caller EXCEPT ![s] = "answered"]
    /\ UNCHANGED <<step, mode, trajectory, panelPose, remembered, controller, reached>>

ResumeTeleop(s) ==
    /\ caller[s] = "answered"
    /\ caller' = [caller EXCEPT ![s] = "idle"]
    /\ controller' \in {"stream", "jtc"}   \* start_servo falls back on failure
    /\ UNCHANGED <<step, mode, trajectory, panelPose, remembered, reached>>

-------------------------------------------------------------------------------
(* The sequence *)

\* The lease may be somebody else's; the tip's transform may be missing.
CallStopServo(s) ==
    /\ At(s, "stop_servo")
    /\ ProceedsOrFails(s, "switch")
    /\ UNCHANGED <<mode, trajectory, panelPose, remembered, controller, reached>>

UseTrajectoryController(s) ==
    /\ At(s, "switch")
    /\ \/ /\ StepTo(s, "resolve") /\ controller' = "jtc"
          /\ UNCHANGED caller
       \/ Answers(s) /\ UNCHANGED controller
    /\ UNCHANGED <<mode, trajectory, panelPose, remembered, reached>>

\* The panel's pose to plan around: a live alignment has no other than the current
\* one, the others fall back to the one they remember.
PanelPoseKnown(s) == mode[s] = "live" => panelPose = "fresh"

\* A live alignment also needs the camera's transform and intrinsics and a standoff
\* in range.
ResolveTarget(s) ==
    /\ At(s, "resolve")
    /\ \/ /\ PanelPoseKnown(s)
          /\ StepTo(s, "scene") /\ UNCHANGED caller
       \/ mode[s] = "live" /\ Answers(s)
    /\ UNCHANGED <<mode, trajectory, panelPose, remembered, controller, reached>>

ApplyPanelCollisionObject(s) ==
    /\ At(s, "scene")
    /\ ProceedsOrFails(s, IF mode[s] = "replay" THEN "plan" ELSE "ik")
    /\ UNCHANGED <<mode, trajectory, panelPose, remembered, controller, reached>>

\* Every attempt has a result of its own: late, rejected, or within the limits.
ComputeIkWithinPanelLimits(s) ==
    /\ At(s, "ik")
    /\ \E results \in [1..IkAttempts -> {"late", "rejected", "valid"}] :
          IF \E i \in 1..IkAttempts : results[i] = "valid"
          THEN StepTo(s, "plan") /\ UNCHANGED caller
          ELSE Answers(s)
    /\ UNCHANGED <<mode, trajectory, panelPose, remembered, controller, reached>>

\* No plan, an error code, or a last point too close to a joint limit.
RequestPlan(s) ==
    /\ At(s, "plan")
    /\ ProceedsOrFails(s, "execute")
    /\ UNCHANGED <<mode, trajectory, panelPose, remembered, controller, reached>>

\* A goal left behind by a timed out execution has ended by the next one.
Execute(s) ==
    /\ At(s, "execute") /\ trajectory[s] \notin Alive
    /\ StepTo(s, "waiting")
    /\ trajectory' = [trajectory EXCEPT ![s] = "sent"]
    /\ UNCHANGED <<mode, caller, panelPose, remembered, controller, reached>>

\* A plausible bug: the result's error code is not looked at.
RemembersAny(s) == mode[s] = "live"

Remembers(s) == trajectory[s] = "done" /\ mode[s] = "live"

\* The remembered target, its collision pose and its orientation are set last,
\* and only by a live alignment.
ResultArrives(s) ==
    /\ At(s, "waiting") /\ trajectory[s] \in {"done", "failed"}
    /\ Answers(s)
    /\ trajectory' = [trajectory EXCEPT ![s] = "none"]
    /\ remembered' = (remembered \/ Remembers(s))
    /\ UNCHANGED <<mode, panelPose, controller, reached>>

\* execution_timeout_sec passes: a goal whose handle is known is cancelled, one
\* whose acceptance has not arrived is left alone.
ExecutionTimesOut(s) ==
    /\ At(s, "waiting")
    /\ \/ /\ trajectory[s] = "running"
          /\ StepTo(s, "cancelling") /\ UNCHANGED caller
       \/ trajectory[s] = "sent" /\ Answers(s)
    /\ UNCHANGED <<mode, trajectory, panelPose, remembered, controller, reached>>

\* The two waits after the cancel request: for its acknowledgement, for the result.
CancelAnswered(s) ==
    /\ At(s, "cancelling")
    /\ StepTo(s, "draining")
    /\ UNCHANGED <<mode, trajectory, caller, panelPose, remembered, controller, reached>>

Drained(s) ==
    /\ At(s, "draining")
    /\ Answers(s)
    /\ trajectory' = [trajectory EXCEPT ![s] = IF @ \in Alive THEN @ ELSE "none"]
    /\ UNCHANGED <<mode, panelPose, remembered, controller, reached>>

-------------------------------------------------------------------------------
(* Outside: the action server, the camera *)

GoalAnswered(s) ==
    /\ trajectory[s] = "sent"
    /\ trajectory' = [trajectory EXCEPT ![s] = IF controller = "jtc" THEN "running" ELSE "failed"]
    /\ UNCHANGED <<step, mode, caller, panelPose, remembered, controller, reached>>

GoalEnds(s) ==
    /\ trajectory[s] = "running"
    /\ \/ /\ trajectory' = [trajectory EXCEPT ![s] = "failed"] /\ UNCHANGED reached
       \/ /\ trajectory' = [trajectory EXCEPT ![s] = "done"]
          /\ reached' = (reached \/ (mode[s] = "live"))
    /\ UNCHANGED <<step, mode, caller, panelPose, remembered, controller>>

PanelSeen ==
    /\ panelPose' \in {"fresh", "stale"} \ {panelPose}
    /\ panelPose = "none" => panelPose' = "fresh"
    /\ UNCHANGED <<step, mode, trajectory, caller, remembered, controller, reached>>

AlignStep(s) ==
    \/ CallStopServo(s) \/ UseTrajectoryController(s) \/ ResolveTarget(s)
    \/ ApplyPanelCollisionObject(s) \/ ComputeIkWithinPanelLimits(s) \/ RequestPlan(s)
    \/ Execute(s) \/ ResultArrives(s) \/ ExecutionTimesOut(s) \/ CancelAnswered(s)
    \/ Drained(s) \/ GoalAnswered(s) \/ GoalEnds(s)

AlignNext ==
    \/ PanelSeen
    \/ \E s \in Services :
          Request(s) \/ RequestRefused(s) \/ CallerGivesUp(s) \/ ResumeTeleop(s) \/ AlignStep(s)

AlignSpec == AlignInit /\ [][AlignNext]_alignVars

-------------------------------------------------------------------------------

AlignTypeOK ==
    /\ step \in [Services -> Steps]
    /\ mode \in [Services -> {"live", "replay", "orient"}]
    /\ trajectory \in [Services -> {"none", "done", "failed"} \cup Alive]
    /\ caller \in [Services -> {"idle", "waiting", "answered"}]
    /\ panelPose \in {"none", "fresh", "stale"}
    /\ remembered \in BOOLEAN /\ reached \in BOOLEAN
    /\ controller \in {"stream", "jtc"}

\* A replay goes to a place the arm has been: nothing is remembered but the
\* target of a live alignment that was executed to its end.
RememberedWasReached == remembered => reached

===============================================================================
