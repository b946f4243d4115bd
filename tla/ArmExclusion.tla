----------------------------- MODULE ArmExclusion -----------------------------
(***************************************************************************)
(* What arm_motion_lock promises those who move the arm under it: for as   *)
(* long as the lock server answers its callers, no goal is started while   *)
(* one the lock covers is executing.  A goal is covered until it ends, its *)
(* caller turns away from it, or it outlasts what its caller asked for.  A *)
(* caller that has given up on the server is owed nothing any more.        *)
(***************************************************************************)
CONSTANT Movers

VARIABLES covered, answered

Init == covered = {} /\ answered = TRUE

Start(c) ==
    /\ answered => covered = {}
    /\ covered' = covered \cup {c}
    /\ UNCHANGED answered

End ==
    /\ covered' \in SUBSET covered
    /\ UNCHANGED answered

GiveUp ==
    /\ answered' = FALSE
    /\ UNCHANGED covered

Next == End \/ GiveUp \/ \E c \in Movers : Start(c)

Spec == Init /\ [][Next]_<<covered, answered>>

===============================================================================
