---------------------------- MODULE ArmMotionLock ----------------------------
(***************************************************************************)
(* arm_teleop: the lease that is to keep two processes from commanding the *)
(* arm's trajectory controller at once, and those who command it.  A       *)
(* client is one guarded call site (the home move of keyboard_servo_node,  *)
(* the align and orient services of panel_align_node), which runs its move *)
(* inside the lease; clients of one process present one holder id.  A      *)
(* loose call site (level_tool) submits its goal with no lease at all.     *)
(*                                                                         *)
(* A move lasts as long as it lasts: its caller gives it up at any time,   *)
(* and it may go on executing after its caller has left the lease.  Time   *)
(* is counted in ticks.  A process that has crashed has left its goal with *)
(* the controller; started again, it is another client, since the holder   *)
(* id holds the process id.  The server itself does not restart.           *)
(***************************************************************************)
EXTENDS Naturals

CONSTANTS
    Clients,     \* the guarded call sites
    Loose,       \* the call sites that take no lease
    Holders,     \* holder ids, one per process
    HolderOf,    \* the holder id each client presents
    Free,        \* the server's None
    Lease        \* the lease each client asks for

ASSUME LockAssumption ==
    /\ HolderOf \in [Clients -> Holders]
    /\ Free \notin Holders
    /\ Lease \in [Clients -> Nat]
    /\ Clients \cap Loose = {}

VARIABLES
    holder,      \* _holder
    left,        \* ticks until _expires_at; 0: expired
    site,        \* where each client stands
    age,         \* ticks since the client sent its acquire call, up to its lease
    request,     \* the client's acquire call: none, sent, granted, refused
    releases,    \* clients whose release call was not served yet
    goal,        \* clients whose goal is executing, submitted inside the lease
                 \* and awaited by its caller, or left by its crash
    stray,       \* call sites whose goal is executing with nobody inside a lease
    prompt       \* history: no caller has given up on the server so far

lockVars == <<holder, left, site, age, request, releases, goal, stray, prompt>>

Sites == {"idle", "acquiring", "entered", "executing", "releasing", "crashed"}

LockInit ==
    /\ holder = Free /\ left = 0
    /\ site = [c \in Clients |-> "idle"]
    /\ age = [c \in Clients |-> 0]
    /\ request = [c \in Clients |-> "none"]
    /\ releases = {} /\ goal = {} /\ stray = {} /\ prompt = TRUE

SiteTo(c, s) == site' = [site EXCEPT ![c] = s]

-------------------------------------------------------------------------------
(* The server *)

\* A plausible bug: the expiry is tested the wrong way round.
GrantableWhileAlive(h) == holder = Free \/ left > 0 \/ holder = h

Grantable(h) == holder = Free \/ left = 0 \/ holder = h

\* A request is served whether or not its caller still waits for the answer.
OnAcquire(c) ==
    /\ request[c] = "sent"
    /\ LET answer(a) == IF site[c] = "acquiring" THEN a ELSE "none"
       IN IF Grantable(HolderOf[c])
          THEN /\ holder' = HolderOf[c] /\ left' = Lease[c]
               /\ request' = [request EXCEPT ![c] = answer("granted")]
          ELSE /\ request' = [request EXCEPT ![c] = answer("refused")]
               /\ UNCHANGED <<holder, left>>
    /\ UNCHANGED <<site, age, releases, goal, stray, prompt>>

\* A plausible bug: whoever releases, the lease ends.
ReleasableByAnybody(h) == TRUE

Releasable(h) == holder = h

\* Releasing a lease somebody else holds, or nobody, succeeds and changes nothing.
OnRelease(c) ==
    /\ c \in releases
    /\ releases' = releases \ {c}
    /\ IF Releasable(HolderOf[c])
       THEN holder' = Free /\ left' = 0
       ELSE UNCHANGED <<holder, left>>
    /\ IF site[c] = "releasing" THEN SiteTo(c, "idle") ELSE UNCHANGED site
    /\ UNCHANGED <<age, request, goal, stray, prompt>>

-------------------------------------------------------------------------------
(* The callers *)

\* The call site's own lock is free: one client runs one move at a time.  One
\* acquire call per client is outstanding.  A server out of reach refuses at once.
Acquire(c) ==
    /\ site[c] = "idle" /\ request[c] = "none"
    /\ SiteTo(c, "acquiring")
    /\ age' = [age EXCEPT ![c] = 0]
    /\ request' = [request EXCEPT ![c] = "sent"]
    /\ UNCHANGED <<holder, left, releases, goal, stray, prompt>>

\* ArmMotionBusy: refused, or no answer in time.
Busy(c) ==
    /\ site[c] = "acquiring"
    /\ \/ /\ request[c] = "refused"
          /\ request' = [request EXCEPT ![c] = "none"] /\ UNCHANGED prompt
       \/ /\ request[c] = "sent"
          /\ prompt' = FALSE /\ UNCHANGED request
    /\ SiteTo(c, "idle")
    /\ UNCHANGED <<holder, left, age, releases, goal, stray>>

EnterLease(c) ==
    /\ site[c] = "acquiring" /\ request[c] = "granted"
    /\ SiteTo(c, "entered")
    /\ request' = [request EXCEPT ![c] = "none"]
    /\ UNCHANGED <<holder, left, age, releases, goal, stray, prompt>>

\* Planning, IK and waiting for servers come first: nobody looks at the lease again.
SubmitGoal(c) ==
    /\ site[c] = "entered"
    /\ SiteTo(c, "executing")
    /\ goal' = goal \cup {c}
    /\ UNCHANGED <<holder, left, age, request, releases, stray, prompt>>

\* The with block's finally: the release is called, or skipped if no server is there.
LeaveLease(c) ==
    \/ SiteTo(c, "releasing") /\ releases' = releases \cup {c}
    \/ SiteTo(c, "idle") /\ UNCHANGED releases

\* It failed before it submitted anything, or sees its goal's result.
MoveEnds(c) ==
    /\ site[c] \in {"entered", "executing"} /\ c \notin goal
    /\ LeaveLease(c)
    /\ UNCHANGED <<holder, left, age, request, goal, stray, prompt>>

\* No result in time.  The goal is cancelled in time, or goes on: nothing is cancelled
\* when the goal's acceptance has not arrived, and the cancel is awaited for seconds.
MoveTimesOut(c) ==
    /\ site[c] = "executing" /\ c \in goal
    /\ LeaveLease(c)
    /\ goal' = goal \ {c}
    /\ stray' = stray \/ stray' = stray \cup {c}
    /\ UNCHANGED <<holder, left, age, request, prompt>>

\* The release call is best effort: its caller leaves without an answer.
ReleaseUnanswered(c) ==
    /\ site[c] = "releasing"
    /\ SiteTo(c, "idle") /\ prompt' = FALSE
    /\ UNCHANGED <<holder, left, age, request, releases, goal, stray>>

\* The process dies inside the lease: every client of it is gone.
Crash(h) ==
    /\ \E c \in Clients : HolderOf[c] = h /\ site[c] \in {"entered", "executing"}
    /\ site' = [c \in Clients |-> IF HolderOf[c] = h THEN "crashed" ELSE site[c]]
    /\ UNCHANGED <<holder, left, age, request, releases, goal, stray, prompt>>

\* level_tool: neither the process's lock nor the lease.
LevelSubmits(u) ==
    /\ u \in Loose
    /\ stray' = stray \cup {u}
    /\ UNCHANGED <<holder, left, site, age, request, releases, goal, prompt>>

-------------------------------------------------------------------------------
(* The controller and the clock *)

GoalFinishes(c) ==
    /\ \/ c \in goal /\ goal' = goal \ {c} /\ UNCHANGED stray
       \/ c \in stray /\ stray' = stray \ {c} /\ UNCHANGED goal
    /\ UNCHANGED <<holder, left, site, age, request, releases, prompt>>

\* A plausible bug: the expiry is computed anew whenever it is looked at.
LeftForever == left

LeftNext == IF left = 0 THEN 0 ELSE left - 1

\* The lease the client asked for is over, counted from the call.
Outlasted(c) == age[c] >= Lease[c]

Tick ==
    /\ left' = LeftNext
    /\ age' = [c \in Clients |->
                 IF site[c] \notin {"idle", "releasing"} /\ ~Outlasted(c)
                 THEN age[c] + 1 ELSE age[c]]
    /\ UNCHANGED <<holder, site, request, releases, goal, stray, prompt>>

-------------------------------------------------------------------------------

LockClientStep(c) ==
    \/ Acquire(c) \/ OnAcquire(c) \/ OnRelease(c) \/ Busy(c) \/ EnterLease(c)
    \/ SubmitGoal(c) \/ MoveEnds(c) \/ MoveTimesOut(c) \/ ReleaseUnanswered(c)

LockNext ==
    \/ Tick
    \/ \E c \in Clients : LockClientStep(c)
    \/ \E c \in Clients \cup Loose : GoalFinishes(c)
    \/ \E u \in Loose : LevelSubmits(u)
    \/ \E h \in Holders : Crash(h)

\* Time passes; nobody has to do anything.
LockFairness == WF_lockVars(Tick)

LockSpec == LockInit /\ [][LockNext]_lockVars /\ LockFairness

-------------------------------------------------------------------------------

LockTypeOK ==
    /\ holder \in Holders \cup {Free}
    /\ left \in Nat
    /\ site \in [Clients -> Sites]
    /\ age \in [Clients -> Nat]
    /\ request \in [Clients -> {"none", "sent", "granted", "refused"}]
    /\ releases \subseteq Clients /\ goal \subseteq Clients
    /\ stray \subseteq Clients \cup Loose /\ prompt \in BOOLEAN

\* What arm_motion_lock.py's mutual exclusion comes to: while no caller has given up
\* on the lock server, of two goals that were submitted inside the lease and that
\* nobody has turned away from, one has outlasted the lease its client asked for.
\* It speaks neither of level_tool's goals nor of those a timed-out caller left behind.
OneGoal == prompt => \A c, d \in goal : c # d => Outlasted(c) \/ Outlasted(d)

\* The lease implements the mutual exclusion it is there for, among goals that it
\* covers: an awaited or orphaned goal, until it outlasts the lease.
Exclusion == INSTANCE ArmExclusion
                 WITH Movers <- Clients, answered <- prompt,
                      covered <- {c \in goal : ~Outlasted(c)}

LeaseExcludes == Exclusion!Spec

\* A process that dies with the lease does not keep the arm for ever.
LeaseRunsOut ==
    (\E c \in Clients : site[c] = "crashed" /\ holder = HolderOf[c])
    ~> (\A c \in Clients : site[c] = "crashed" /\ holder = HolderOf[c] => left = 0)

===============================================================================
