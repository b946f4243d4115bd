------------------------------- MODULE Container -------------------------------
(***************************************************************************)
(* rover_peripherals: the sample container's lid and scale.  A lid goal    *)
(* sends its command, waits for the acknowledgement, then polls until the  *)
(* board reports an end; frames go lost, and an answer may come after the  *)
(* wait for it was given up.  A weight comes in two frames, which name no  *)
(* request.                                                                *)
(***************************************************************************)
EXTENDS Naturals, Sequences, SequencesExt

CONSTANTS
    LidFrames,     \* frames in flight
    NoCmd          \* no command, no status, no success

Motions == {"open", "close"}
Statuses == {"ack", "in_progress", "done", "error"}

ASSUME LidAssumption == LidFrames \in Nat \ {0} /\ NoCmd \notin Motions \cup Statuses

VARIABLES
    alive,         \* the node runs
    goal,          \* the step of _lid_execute_impl, "idle" when _lid_active is FALSE
    asks,          \* what the goal in execution asks for
    expected,      \* _lid_expected_cmd
    answer,        \* _lid_status, with _lid_event
    commands,      \* frames on their way to the board
    answers,       \* its answers on their way to the node
    motion,        \* the last motion command the board executed
    board,         \* whether it moves, stands at the end, was stopped or failed
    success        \* what the last goal succeeded in, until the next one starts

lidVars == <<alive, goal, asks, expected, answer, commands, answers, motion, board, success>>

LidInit ==
    /\ alive = TRUE /\ goal = "idle" /\ asks = "open" /\ expected = NoCmd /\ answer = NoCmd
    /\ commands = <<>> /\ answers = <<>>
    /\ motion \in Motions /\ board \in {"done", "stopped"} /\ success = NoCmd

-------------------------------------------------------------------------------
(* The action server *)

InTransit == Len(commands) + Len(answers)

\* A transaction starts; its frame may be lost.
Transmit(byte) ==
    /\ InTransit < LidFrames
    /\ commands' \in {commands, Append(commands, [byte |-> byte, late |-> FALSE])}

Await(byte, step) ==
    /\ Transmit(byte)
    /\ expected' = asks' /\ answer' = NoCmd /\ goal' = step
    /\ UNCHANGED <<alive, answers, motion, board>>

\* _lid_goal_cb: a second goal is rejected while one is in execution.
AcceptGoal(m) ==
    /\ alive /\ goal = "idle"
    /\ asks' = m /\ success' = NoCmd
    /\ Await(m, "sent")

Outdated(frames) == [i \in DOMAIN frames |-> [frames[i] EXCEPT !.late = TRUE]]
NoneLate ==
    /\ \A i \in DOMAIN commands : ~commands[i].late
    /\ \A i \in DOMAIN answers : ~answers[i].late

\* The wait is over: what is still in transit comes late, if at all.
Resume(step, result) ==
    /\ goal' = step /\ success' = result
    /\ commands' = Outdated(commands) /\ answers' = Outdated(answers)
    /\ UNCHANGED <<alive, asks, expected, answer, motion, board>>

AckAnswered ==
    /\ alive /\ goal = "sent" /\ answer # NoCmd
    /\ Resume(IF answer \in {"ack", "in_progress"} THEN "polling" ELSE "idle", NoCmd)

\* Polls: done and error end the goal, anything else is asked again.
PollAnswered ==
    /\ alive /\ goal = "polled" /\ answer # NoCmd
    /\ Resume(IF answer \in {"done", "error"} THEN "idle" ELSE "polling",
              IF answer = "done" THEN asks ELSE NoCmd)

\* No wait ends before what an earlier one left in transit has come.
WaitTimesOut ==
    /\ alive /\ goal \in {"sent", "polled"} /\ answer = NoCmd /\ NoneLate
    /\ Resume(IF goal = "sent" THEN "idle" ELSE "polling", NoCmd)

PollStatus ==
    /\ alive /\ goal = "polling"
    /\ UNCHANGED <<asks, success>>
    /\ Await("poll", "polled")

\* A cancel is seen between two polls: one stop frame, of which nothing is heard.
CancelGoal ==
    /\ alive /\ goal = "polling" /\ goal' = "idle"
    /\ Transmit("stop")
    /\ UNCHANGED <<alive, asks, expected, answer, answers, motion, board, success>>

\* The deadline aborts the goal and leaves the lid to itself.
DeadlineExceeded ==
    /\ alive /\ goal = "polling" /\ goal' = "idle"
    /\ UNCHANGED <<alive, asks, expected, answer, commands, answers, motion, board, success>>

\* A plausible bug: any answer of the board is taken for this command's.
AnyAnswer(frame) == TRUE

\* _handle_lid_response: by the command it echoes.
Matching(frame) == frame.cmd = expected

\* Before the first goal nothing is expected, and formatting the warning ends the node.
OnLidResponse ==
    /\ alive /\ answers # <<>> /\ answers' = Tail(answers)
    /\ alive' = (Matching(Head(answers)) \/ expected # NoCmd)
    /\ answer' = IF Matching(Head(answers)) THEN Head(answers).status ELSE answer
    /\ UNCHANGED <<goal, asks, expected, commands, motion, board, success>>

NobodyListens ==
    /\ ~alive /\ answers # <<>> /\ answers' = Tail(answers)
    /\ UNCHANGED <<alive, goal, asks, expected, answer, commands, motion, board, success>>

\* The node ends with its goal, or dies, and is launched again, which takes as long as
\* a wait.
LidNodeStarts ==
    /\ NoneLate
    /\ alive' = TRUE /\ goal' = "idle" /\ expected' = NoCmd /\ answer' = NoCmd /\ success' = NoCmd
    /\ commands' = Outdated(commands) /\ answers' = Outdated(answers)
    /\ UNCHANGED <<asks, motion, board>>

-------------------------------------------------------------------------------
(* The board: it executes in order, and tells of the last motion when polled *)

StatusOf == CASE board = "moving" -> "in_progress" [] board = "done" -> "done" [] OTHER -> "error"

AnswerFor(cmd, status, late) ==
    answers' \in {answers, Append(answers, [cmd |-> cmd, status |-> status, late |-> late])}

LidBoardActs ==
    /\ commands # <<>> /\ commands' = Tail(commands)
    /\ LET f == Head(commands) IN
       \/ /\ f.byte \in Motions
          /\ motion' = f.byte /\ AnswerFor(f.byte, "ack", f.late)
          /\ board' = IF f.byte = motion /\ board = "done" THEN "done" ELSE "moving"
       \/ /\ f.byte \in Motions     \* refused
          /\ UNCHANGED <<motion, board>> /\ AnswerFor(f.byte, "error", f.late)
       \/ /\ f.byte = "stop"
          /\ board' = IF board = "moving" THEN "stopped" ELSE board
          /\ UNCHANGED <<motion, answers>>
       \/ /\ f.byte = "poll"
          /\ UNCHANGED <<motion, board>> /\ AnswerFor(motion, StatusOf, f.late)
    /\ UNCHANGED <<alive, goal, asks, expected, answer, success>>

LidMoves ==
    /\ board = "moving" /\ board' \in {"done", "failed"}
    /\ UNCHANGED <<alive, goal, asks, expected, answer, commands, answers, motion, success>>

LidNext ==
    \/ \E m \in Motions : AcceptGoal(m)
    \/ AckAnswered \/ PollAnswered \/ WaitTimesOut \/ PollStatus \/ CancelGoal
    \/ DeadlineExceeded \/ OnLidResponse \/ NobodyListens \/ LidNodeStarts \/ LidBoardActs \/ LidMoves

LidSpec == LidInit /\ [][LidNext]_lidVars

-------------------------------------------------------------------------------

LidTypeOK ==
    /\ alive \in BOOLEAN /\ goal \in {"idle", "sent", "polling", "polled"} /\ asks \in Motions
    /\ expected \in Motions \cup {NoCmd} /\ success \in Motions \cup {NoCmd}
    /\ answer \in Statuses \cup {NoCmd}
    /\ InTransit <= LidFrames
    /\ motion \in Motions /\ board \in {"moving", "done", "stopped", "failed"}

\* A goal that reports success leaves the lid where it was asked to be, whatever the
\* answers of earlier goals, refused, cancelled or given up, are still to come.
LidIsThere == success # NoCmd => motion = success /\ board = "done"

===============================================================================
