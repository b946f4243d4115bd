----------------------------- MODULE ServiceCall ------------------------------
(***************************************************************************)
(* rover_drive/service_call.py (and its twin in rover_teleop): one         *)
(* outstanding request per client.  A call is idle, sent (the request is   *)
(* on its way to the server) or answered (the server has acted on it and   *)
(* its reply is on the way back).                                          *)
(***************************************************************************)

Calls == [stage : {"idle", "sent", "answered"}, desired : BOOLEAN, ok : BOOLEAN]

Idle == [stage |-> "idle", desired |-> FALSE, ok |-> FALSE]

Sent(desired) == [stage |-> "sent", desired |-> desired, ok |-> FALSE]

Answered(call, ok) == [call EXCEPT !.stage = "answered", !.ok = ok]

\* GuardedCall.pending.
Pending(call) == call.stage # "idle"

(***************************************************************************)
(* GuardedCall.call: the request goes out only when none is outstanding    *)
(* and the service is up; otherwise it is dropped, not queued.  Whether    *)
(* the service is up (ready) is the caller's environment.                  *)
(***************************************************************************)
Guarded(call, desired, ready) ==
    IF Pending(call) \/ ~ready THEN call ELSE Sent(desired)

===============================================================================
