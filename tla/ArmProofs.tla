------------------------------ MODULE ArmProofs -------------------------------
(***************************************************************************)
(* Proofs about the arm: the motion lock, the panel alignment, and the     *)
(* teleoperation by gamepad and keyboard.                                  *)
(***************************************************************************)
EXTENDS MCArm, SequenceTheorems, TLAPS


-------------------------------------------------------------------------------
(***************************************************************************)
(* The lease excludes for every set of clients and whatever leases they    *)
(* ask for, provided that each process has a holder id of its own and one  *)
(* client.  The inductive invariant says what a client is owed that was    *)
(* granted the lease and has not left it: the lease, with at least as much *)
(* of it left as remains of what the client asked for.                     *)
(***************************************************************************)

\* One guarded call site per holder id.
Distinct == \A c, d \in Clients : HolderOf[c] = HolderOf[d] => c = d

-------------------------------------------------------------------------------
(* The invariant *)

GoalHasAnOwner == \A c \in goal : site[c] \in {"executing", "crashed"}

\* What a caller has asked for it still waits for.
AskersWait ==
    \A c \in Clients :
        /\ request[c] # "none" => site[c] = "acquiring"
        /\ c \in releases => site[c] = "releasing"

\* The grant has arrived, is on its way, or has a goal executing.
Owed(c) == c \in goal \/ site[c] = "entered" \/ request[c] = "granted"

OwedIsLease ==
    \A c \in Clients :
        Owed(c) /\ ~Outlasted(c) => holder = HolderOf[c] /\ left + age[c] >= Lease[c]

LockInv ==
    /\ LockTypeOK /\ GoalHasAnOwner
    /\ prompt => AskersWait /\ OwedIsLease

-------------------------------------------------------------------------------
(* The types alone *)

LEMMA LockTypeInit == LockInit => LockTypeOK
  BY LockAssumption DEF LockInit, LockTypeOK, Sites

LEMMA LockTypeStep == LockTypeOK /\ [LockNext]_lockVars => LockTypeOK'
<1> SUFFICES ASSUME LockTypeOK, [LockNext]_lockVars PROVE LockTypeOK'
  OBVIOUS
<1> USE LockAssumption DEF LockTypeOK, Sites
<1>1. CASE Tick
  <2>1. left' \in Nat
    BY <1>1 DEF Tick, LeftNext
  <2>2. age' \in [Clients -> Nat]
    BY <1>1 DEF Tick
  <2> QED BY <1>1, <2>1, <2>2 DEF Tick
<1>2. ASSUME NEW c \in Clients, OnAcquire(c) PROVE LockTypeOK'
  BY <1>2 DEF OnAcquire
<1>3. ASSUME NEW c \in Clients, OnRelease(c) PROVE LockTypeOK'
  <2>1. site' \in [Clients -> Sites]
    BY <1>3 DEF OnRelease, SiteTo
  <2>2. holder' \in Holders \cup {Free} /\ left' \in Nat
    BY <1>3 DEF OnRelease
  <2> QED BY <1>3, <2>1, <2>2 DEF OnRelease
<1>4. ASSUME NEW c \in Clients, Acquire(c) PROVE LockTypeOK'
  BY <1>4 DEF Acquire, SiteTo
<1>5. ASSUME NEW c \in Clients, Busy(c) PROVE LockTypeOK'
  BY <1>5 DEF Busy, SiteTo
<1>6. ASSUME NEW c \in Clients, EnterLease(c) PROVE LockTypeOK'
  BY <1>6 DEF EnterLease, SiteTo
<1>7. ASSUME NEW c \in Clients, SubmitGoal(c) PROVE LockTypeOK'
  BY <1>7 DEF SubmitGoal, SiteTo
<1>8. ASSUME NEW c \in Clients, MoveEnds(c) \/ MoveTimesOut(c) PROVE LockTypeOK'
  <2>1. site' \in [Clients -> Sites] /\ releases' \subseteq Clients
    BY <1>8 DEF MoveEnds, MoveTimesOut, LeaveLease, SiteTo
  <2>2. goal' \subseteq Clients /\ stray' \subseteq Clients \cup Loose
    BY <1>8 DEF MoveEnds, MoveTimesOut
  <2> QED BY <1>8, <2>1, <2>2 DEF MoveEnds, MoveTimesOut
<1>9. ASSUME NEW c \in Clients, ReleaseUnanswered(c) PROVE LockTypeOK'
  BY <1>9 DEF ReleaseUnanswered, SiteTo
<1>10. ASSUME NEW h \in Holders, Crash(h) PROVE LockTypeOK'
  <2>1. site' \in [Clients -> Sites]
    BY <1>10 DEF Crash
  <2> QED BY <1>10, <2>1 DEF Crash
<1>11. ASSUME NEW c \in Clients \cup Loose, GoalFinishes(c) \/ (c \in Loose /\ LevelSubmits(c))
       PROVE  LockTypeOK'
  BY <1>11 DEF GoalFinishes, LevelSubmits
<1>12. CASE UNCHANGED lockVars
  BY <1>12 DEF lockVars
<1> QED BY <1>1, <1>2, <1>3, <1>4, <1>5, <1>6, <1>7, <1>8, <1>9, <1>10, <1>11, <1>12
        DEF LockNext, LockClientStep

-------------------------------------------------------------------------------
(* The invariant is inductive *)

LEMMA LockInvInit == LockInit => LockInv
<1> SUFFICES ASSUME LockInit PROVE LockInv
  OBVIOUS
<1>1. LockTypeOK
  BY LockTypeInit
<1>2. GoalHasAnOwner /\ AskersWait
  BY DEF LockInit, GoalHasAnOwner, AskersWait
<1>3. OwedIsLease
  BY DEF LockInit, OwedIsLease, Owed
<1> QED BY <1>1, <1>2, <1>3 DEF LockInv

LEMMA OwnerStep ==
    LockTypeOK /\ GoalHasAnOwner /\ [LockNext]_lockVars => GoalHasAnOwner'
<1> SUFFICES ASSUME LockTypeOK, GoalHasAnOwner, [LockNext]_lockVars,
                    NEW d \in goal'
             PROVE  site'[d] \in {"executing", "crashed"}
  BY DEF GoalHasAnOwner
<1> USE DEF GoalHasAnOwner, LockTypeOK
<1>1. CASE Tick
  BY <1>1 DEF Tick
<1>2. ASSUME NEW c \in Clients, LockClientStep(c)
      PROVE  site'[d] \in {"executing", "crashed"}
  <2>1. CASE OnAcquire(c)
    BY <2>1 DEF OnAcquire
  <2>2. CASE OnRelease(c)
    BY <2>2 DEF OnRelease, SiteTo
  <2>3. CASE Acquire(c) \/ Busy(c) \/ ReleaseUnanswered(c)
    BY <2>3 DEF Acquire, Busy, ReleaseUnanswered, SiteTo
  <2>4. CASE EnterLease(c) \/ SubmitGoal(c)
    BY <2>4 DEF EnterLease, SubmitGoal, SiteTo
  <2>5. CASE MoveEnds(c) \/ MoveTimesOut(c)
    BY <2>5 DEF MoveEnds, MoveTimesOut, LeaveLease, SiteTo
  <2> QED BY <1>2, <2>1, <2>2, <2>3, <2>4, <2>5 DEF LockClientStep
<1>3. ASSUME NEW h \in Holders, Crash(h) PROVE site'[d] \in {"executing", "crashed"}
  BY <1>3 DEF Crash
<1>4. ASSUME NEW c \in Clients \cup Loose, GoalFinishes(c) \/ LevelSubmits(c)
      PROVE  site'[d] \in {"executing", "crashed"}
  BY <1>4 DEF GoalFinishes, LevelSubmits
<1>5. CASE UNCHANGED lockVars
  BY <1>5 DEF lockVars
<1> QED BY <1>1, <1>2, <1>3, <1>4, <1>5 DEF LockNext

\* A client that is owed the lease keeps everybody else out.
LEMMA NobodyElse ==
    ASSUME Distinct, LockInv, prompt, NEW c \in Clients, NEW d \in Clients,
           Owed(c), ~Outlasted(c), c # d
    PROVE  ~Grantable(HolderOf[d]) /\ ~Releasable(HolderOf[d])
<1>1. holder = HolderOf[c] /\ left + age[c] >= Lease[c]
  BY DEF LockInv, OwedIsLease
<1>2. age[c] < Lease[c] /\ age[c] \in Nat /\ Lease[c] \in Nat /\ left \in Nat
  BY LockAssumption DEF Outlasted, LockInv, LockTypeOK
<1>3. left > 0
  BY <1>1, <1>2
<1>4. holder # Free /\ holder # HolderOf[d]
  BY <1>1, LockAssumption DEF Distinct
<1> QED BY <1>3, <1>4 DEF Grantable, Releasable

\* A step after which no further client is owed the lease keeps what those are owed,
\* if it touches neither the lease nor their ages.
LEMMA OwedKept ==
    ASSUME OwedIsLease, UNCHANGED <<holder, left>>,
           \A c \in Clients : Owed(c)' => Owed(c) /\ age'[c] = age[c]
    PROVE  OwedIsLease'
  BY DEF OwedIsLease, Outlasted

\* A tick takes no more from the lease than it adds to its holder's age.
LEMMA TickKeeps ==
    ASSUME LockInv, Tick, prompt
    PROVE  OwedIsLease'
<1> SUFFICES ASSUME NEW c \in Clients, Owed(c)', ~Outlasted(c)'
             PROVE  holder' = HolderOf[c] /\ left' + age'[c] >= Lease[c]
  BY DEF OwedIsLease
<1>1. Owed(c) /\ site[c] \notin {"idle", "releasing"}
  BY DEF Tick, Owed, LockInv, GoalHasAnOwner, AskersWait
<1>2. age'[c] = IF Outlasted(c) THEN age[c] ELSE age[c] + 1
  BY <1>1 DEF Tick, LockInv, LockTypeOK
<1>3. age[c] \in Nat /\ Lease[c] \in Nat /\ left \in Nat
  BY LockAssumption DEF LockInv, LockTypeOK
<1>4. ~Outlasted(c)
  BY <1>2 DEF Outlasted
<1>5. holder = HolderOf[c] /\ left + age[c] >= Lease[c]
  BY <1>1, <1>4 DEF LockInv, OwedIsLease
<1>6. left' + 1 >= left /\ left' \in Nat /\ holder' = holder
  BY <1>3 DEF Tick, LeftNext
<1>7. age'[c] = age[c] + 1
  BY <1>2, <1>4
<1>8. \A before, after, older, lease \in Nat :
          after + 1 >= before /\ before + older >= lease => after + (older + 1) >= lease
  OBVIOUS
<1> QED BY <1>3, <1>5, <1>6, <1>7, <1>8

\* The lease goes to a client only when nobody else is owed it.
LEMMA GrantKeeps ==
    ASSUME Distinct, LockInv, prompt, NEW c \in Clients, OnAcquire(c)
    PROVE  OwedIsLease'
<1>1. /\ site[c] = "acquiring" /\ request[c] = "sent" /\ c \notin goal
      /\ UNCHANGED <<site, age, goal>>
  BY DEF OnAcquire, LockInv, AskersWait, GoalHasAnOwner
<1>2. OwedIsLease /\ request \in [Clients -> {"none", "sent", "granted", "refused"}]
  BY DEF LockInv, LockTypeOK
<1>3. CASE ~Grantable(HolderOf[c])
  <2>1. request' = [request EXCEPT ![c] = "refused"] /\ UNCHANGED <<holder, left>>
    BY <1>1, <1>3 DEF OnAcquire
  <2>2. \A d \in Clients : Owed(d)' => Owed(d) /\ age'[d] = age[d]
    BY <1>1, <1>2, <2>1 DEF Owed
  <2> QED BY <1>2, <2>1, <2>2, OwedKept
<1>4. CASE Grantable(HolderOf[c])
  <2>1. /\ holder' = HolderOf[c] /\ left' = Lease[c]
        /\ request' = [request EXCEPT ![c] = "granted"]
    BY <1>1, <1>4 DEF OnAcquire
  <2> SUFFICES ASSUME NEW d \in Clients, Owed(d)', ~Outlasted(d)'
               PROVE  holder' = HolderOf[d] /\ left' + age'[d] >= Lease[d]
    BY DEF OwedIsLease
  <2>2. d = c
    <3>1. d # c => Owed(d) /\ ~Outlasted(d)
      BY <1>1, <1>2, <2>1 DEF Owed, Outlasted
    <3> QED BY <1>4, <3>1, NobodyElse
  <2>3. age[c] \in Nat /\ Lease[c] \in Nat
    BY LockAssumption DEF LockInv, LockTypeOK
  <2> QED BY <1>1, <2>1, <2>2, <2>3
<1> QED BY <1>3, <1>4

LEMMA TrustStep ==
    ASSUME Distinct, LockInv, [LockNext]_lockVars, prompt'
    PROVE  AskersWait' /\ OwedIsLease'
<1> DEFINE Trust == AskersWait /\ OwedIsLease
<1>0. LockTypeOK /\ GoalHasAnOwner
  BY DEF LockInv
<1>1. CASE Tick
  <2>1. prompt /\ UNCHANGED <<site, request, releases>>
    BY <1>1 DEF Tick
  <2>2. AskersWait'
    BY <2>1 DEF LockInv, AskersWait
  <2> QED BY <1>1, <2>1, <2>2, TickKeeps
<1>2. ASSUME NEW c \in Clients, OnAcquire(c) PROVE Trust'
  <2>1. prompt /\ UNCHANGED <<site, releases>> /\ site[c] = "acquiring"
    BY <1>2 DEF OnAcquire, LockInv, AskersWait
  <2>2. \A d \in Clients : d # c => request'[d] = request[d]
    BY <1>0, <1>2 DEF OnAcquire, LockTypeOK
  <2>3. AskersWait'
    BY <2>1, <2>2 DEF LockInv, AskersWait
  <2> QED BY <1>2, <2>1, <2>3, GrantKeeps
<1>3. ASSUME NEW c \in Clients, OnRelease(c) PROVE Trust'
  <2>1. prompt /\ Trust /\ site[c] = "releasing"
    BY <1>3 DEF OnRelease, LockInv, AskersWait
  <2>2. request[c] = "none" /\ c \notin goal
    BY <1>0, <2>1 DEF AskersWait, GoalHasAnOwner
  <2>3. /\ site' = [site EXCEPT ![c] = "idle"] /\ releases' = releases \ {c}
        /\ UNCHANGED <<age, request, goal>>
    BY <1>3, <2>1 DEF OnRelease, SiteTo
  <2>4. AskersWait'
    BY <1>0, <2>1, <2>2, <2>3 DEF LockTypeOK, AskersWait
  <2>5. \A d \in Clients : Owed(d)' => Owed(d) /\ d # c /\ age'[d] = age[d]
    BY <1>0, <2>2, <2>3 DEF LockTypeOK, Owed
  <2>6. ASSUME NEW d \in Clients, Owed(d)', ~Outlasted(d)'
        PROVE  holder' = HolderOf[d] /\ left' + age'[d] >= Lease[d]
    <3>1. Owed(d) /\ d # c /\ ~Outlasted(d)
      BY <2>5, <2>6 DEF Outlasted
    <3>2. ~Releasable(HolderOf[c])
      BY <2>1, <3>1, NobodyElse
    <3>3. UNCHANGED <<holder, left>>
      BY <1>3, <3>2 DEF OnRelease
    <3> QED BY <2>1, <2>5, <2>6, <3>1, <3>3 DEF OwedIsLease
  <2> QED BY <2>4, <2>6 DEF OwedIsLease
<1>4. ASSUME NEW c \in Clients, Acquire(c) PROVE Trust'
  <2>1. /\ prompt /\ Trust /\ site[c] = "idle" /\ request[c] = "none" /\ c \notin goal
        /\ c \notin releases
    BY <1>0, <1>4 DEF Acquire, LockInv, AskersWait, GoalHasAnOwner
  <2>2. /\ site' = [site EXCEPT ![c] = "acquiring"] /\ age' = [age EXCEPT ![c] = 0]
        /\ request' = [request EXCEPT ![c] = "sent"]
        /\ UNCHANGED <<holder, left, releases, goal>>
    BY <1>4 DEF Acquire, SiteTo
  <2>3. AskersWait'
    BY <1>0, <2>1, <2>2 DEF LockTypeOK, AskersWait
  <2>4. \A d \in Clients : Owed(d)' => Owed(d) /\ age'[d] = age[d]
    BY <1>0, <2>1, <2>2 DEF LockTypeOK, Owed
  <2> QED BY <2>1, <2>2, <2>3, <2>4, OwedKept
<1>5. ASSUME NEW c \in Clients, Busy(c) PROVE Trust'
  <2>1. /\ prompt /\ Trust /\ site[c] = "acquiring" /\ request[c] = "refused"
        /\ c \notin releases
    BY <1>5 DEF Busy, LockInv, AskersWait
  <2>2. /\ site' = [site EXCEPT ![c] = "idle"] /\ request' = [request EXCEPT ![c] = "none"]
        /\ UNCHANGED <<holder, left, age, releases, goal>>
    BY <1>5, <2>1 DEF Busy, SiteTo
  <2>3. AskersWait'
    BY <1>0, <2>1, <2>2 DEF LockTypeOK, AskersWait
  <2>4. \A d \in Clients : Owed(d)' => Owed(d) /\ age'[d] = age[d]
    BY <1>0, <2>1, <2>2 DEF LockTypeOK, Owed
  <2> QED BY <2>1, <2>2, <2>3, <2>4, OwedKept
<1>6. ASSUME NEW c \in Clients, EnterLease(c) PROVE Trust'
  <2>1. /\ prompt /\ Trust /\ site[c] = "acquiring" /\ request[c] = "granted"
        /\ c \notin releases
    BY <1>6 DEF EnterLease, LockInv, AskersWait
  <2>2. /\ site' = [site EXCEPT ![c] = "entered"] /\ request' = [request EXCEPT ![c] = "none"]
        /\ UNCHANGED <<holder, left, age, releases, goal>>
    BY <1>6 DEF EnterLease, SiteTo
  <2>3. AskersWait'
    BY <1>0, <2>1, <2>2 DEF LockTypeOK, AskersWait
  <2>4. \A d \in Clients : Owed(d)' => Owed(d) /\ age'[d] = age[d]
    BY <1>0, <2>1, <2>2 DEF LockTypeOK, Owed
  <2> QED BY <2>1, <2>2, <2>3, <2>4, OwedKept
<1>7. ASSUME NEW c \in Clients, SubmitGoal(c) PROVE Trust'
  <2>1. prompt /\ Trust /\ site[c] = "entered" /\ request[c] = "none" /\ c \notin releases
    BY <1>0, <1>7 DEF SubmitGoal, LockInv, LockTypeOK, AskersWait
  <2>2. /\ site' = [site EXCEPT ![c] = "executing"] /\ goal' = goal \cup {c}
        /\ UNCHANGED <<holder, left, age, request, releases>>
    BY <1>7 DEF SubmitGoal, SiteTo
  <2>3. AskersWait'
    BY <1>0, <2>1, <2>2 DEF LockTypeOK, AskersWait
  <2>4. \A d \in Clients : Owed(d)' => Owed(d) /\ age'[d] = age[d]
    BY <1>0, <2>1, <2>2 DEF LockTypeOK, Owed
  <2> QED BY <2>1, <2>2, <2>3, <2>4, OwedKept
<1>8. ASSUME NEW c \in Clients, MoveEnds(c) \/ MoveTimesOut(c) PROVE Trust'
  <2>1. /\ prompt /\ Trust /\ site[c] \in {"entered", "executing"} /\ request[c] = "none"
        /\ c \notin releases
    BY <1>0, <1>8 DEF MoveEnds, MoveTimesOut, LockInv, LockTypeOK, AskersWait
  <2>2. /\ \/ site' = [site EXCEPT ![c] = "releasing"] /\ releases' = releases \cup {c}
           \/ site' = [site EXCEPT ![c] = "idle"] /\ UNCHANGED releases
        /\ goal' = goal \ {c} /\ UNCHANGED <<holder, left, age, request>>
    BY <1>8 DEF MoveEnds, MoveTimesOut, LeaveLease, SiteTo
  <2>3. AskersWait'
    BY <1>0, <2>1, <2>2 DEF LockTypeOK, AskersWait
  <2>4. \A d \in Clients : Owed(d)' => Owed(d) /\ age'[d] = age[d]
    BY <1>0, <2>1, <2>2 DEF LockTypeOK, Owed
  <2> QED BY <2>1, <2>2, <2>3, <2>4, OwedKept
<1>9. ASSUME NEW c \in Clients, ReleaseUnanswered(c) PROVE Trust'
  BY <1>9 DEF ReleaseUnanswered
<1>10. ASSUME NEW h \in Holders, Crash(h) PROVE Trust'
  <2>1. prompt /\ Trust /\ UNCHANGED <<holder, left, age, request, releases, goal>>
    BY <1>10 DEF Crash, LockInv
  <2>2. PICK c \in Clients : HolderOf[c] = h /\ site[c] \in {"entered", "executing"}
    BY <1>10 DEF Crash
  <2>3. \A d \in Clients : HolderOf[d] = h => d = c
    BY <2>2 DEF Distinct
  <2>4. \A d \in Clients : site'[d] = IF d = c THEN "crashed" ELSE site[d]
    BY <1>10, <2>2, <2>3 DEF Crash
  <2>5. request[c] = "none" /\ c \notin releases
    BY <1>0, <2>1, <2>2 DEF LockTypeOK, AskersWait
  <2>6. AskersWait'
    BY <2>1, <2>4, <2>5 DEF AskersWait
  <2>7. \A d \in Clients : Owed(d)' => Owed(d) /\ age'[d] = age[d]
    BY <2>1, <2>4 DEF Owed
  <2> QED BY <2>1, <2>6, <2>7, OwedKept
<1>11. ASSUME NEW c \in Clients \cup Loose, GoalFinishes(c) \/ LevelSubmits(c) PROVE Trust'
  <2>1. /\ prompt /\ Trust /\ goal' \subseteq goal
        /\ UNCHANGED <<holder, left, site, age, request, releases>>
    BY <1>11 DEF GoalFinishes, LevelSubmits, LockInv
  <2>2. AskersWait'
    BY <2>1 DEF AskersWait
  <2>3. \A d \in Clients : Owed(d)' => Owed(d) /\ age'[d] = age[d]
    BY <2>1 DEF Owed
  <2> QED BY <2>1, <2>2, <2>3, OwedKept
<1>12. CASE UNCHANGED lockVars
  BY <1>12 DEF lockVars, LockInv, AskersWait, OwedIsLease, Owed, Outlasted
<1> QED BY <1>1, <1>2, <1>3, <1>4, <1>5, <1>6, <1>7, <1>8, <1>9, <1>10, <1>11, <1>12
        DEF LockNext, LockClientStep

LEMMA LockInvStep == Distinct /\ LockInv /\ [LockNext]_lockVars => LockInv'
  BY LockTypeStep, OwnerStep, TrustStep DEF LockInv

-------------------------------------------------------------------------------
(* What the arm is promised *)

\* Of two clients that are owed the lease, one has outlasted it.
LEMMA OwnersExclude ==
    ASSUME Distinct, LockInv, prompt, NEW c \in Clients, NEW d \in Clients,
           Owed(c), ~Outlasted(c), Owed(d), ~Outlasted(d)
    PROVE  c = d
<1>1. HolderOf[c] = holder /\ HolderOf[d] = holder
  BY DEF LockInv, OwedIsLease
<1> QED BY <1>1 DEF Distinct

\* Whatever the clients, holders and times: the lock's state keeps its types
\* (arm_motion_lock.py's holder, expiry and calls).
THEOREM LockTypeSafety == LockSpec => []LockTypeOK
<1>1. LockInit => LockTypeOK
  BY LockTypeInit
<1>2. LockTypeOK /\ [LockNext]_lockVars => LockTypeOK'
  BY LockTypeStep
<1> QED BY <1>1, <1>2, PTL DEF LockSpec

\* With a holder id per process and one client in it: while no caller has given up on
\* the lock server, of two goals submitted inside the lease (arm_motion_lock.py's hold)
\* one has outlasted it, in spite of crashes, expiries and late answers; timed out goals
\* that go on executing, and level_tool's, are in the steps but not in the promise.
THEOREM LeaseSafety ==
    ASSUME Distinct
    PROVE  LockSpec => []OneGoal
<1>1. LockInit => LockInv
  BY LockInvInit
<1>2. LockInv /\ [LockNext]_lockVars => LockInv'
  BY LockInvStep
<1>3. LockInv => OneGoal
  BY OwnersExclude DEF OneGoal, Owed, LockInv, LockTypeOK
<1> QED BY <1>1, <1>2, <1>3, PTL DEF LockSpec

Covered == {c \in goal : ~Outlasted(c)}

LEMMA StepExcludes ==
    ASSUME Distinct, LockInv, [LockNext]_lockVars
    PROVE  [Exclusion!Next]_<<Covered, prompt>>
<1>0. LockTypeOK /\ GoalHasAnOwner
  BY DEF LockInv
<1>1. ASSUME NEW c \in Clients, SubmitGoal(c) PROVE [Exclusion!Next]_<<Covered, prompt>>
  <2>1. site[c] = "entered" /\ goal' = goal \cup {c} /\ UNCHANGED <<age, prompt>>
    BY <1>1 DEF SubmitGoal
  <2>2. CASE Outlasted(c)
    BY <2>1, <2>2 DEF Covered, Outlasted
  <2>3. CASE ~Outlasted(c)
    <3>1. Covered' = Covered \cup {c}
      BY <2>1, <2>3 DEF Covered, Outlasted
    <3>2. ASSUME prompt, NEW d \in Covered PROVE FALSE
      <4>1. d \in Clients /\ Owed(d) /\ ~Outlasted(d) /\ d # c
        BY <1>0, <2>1, <3>2 DEF Covered, Owed, LockTypeOK, GoalHasAnOwner
      <4>2. Owed(c)
        BY <2>1 DEF Owed
      <4> QED BY <2>3, <3>2, <4>1, <4>2, OwnersExclude
    <3>3. Exclusion!Start(c)
      BY <2>1, <3>1, <3>2 DEF Exclusion!Start, Covered
    <3> QED BY <3>3 DEF Exclusion!Next
  <2> QED BY <2>2, <2>3
<1>2. ASSUME NEW c \in Clients, MoveEnds(c) \/ MoveTimesOut(c)
      PROVE  [Exclusion!Next]_<<Covered, prompt>>
  <2>1. Covered' \in SUBSET Covered /\ UNCHANGED prompt
    BY <1>2 DEF MoveEnds, MoveTimesOut, Covered, Outlasted
  <2> QED BY <2>1 DEF Exclusion!Next, Exclusion!End, Covered
<1>3. ASSUME NEW c \in Clients \cup Loose, GoalFinishes(c) \/ LevelSubmits(c)
      PROVE  [Exclusion!Next]_<<Covered, prompt>>
  <2>1. Covered' \in SUBSET Covered /\ UNCHANGED prompt
    BY <1>3 DEF GoalFinishes, LevelSubmits, Covered, Outlasted
  <2> QED BY <2>1 DEF Exclusion!Next, Exclusion!End, Covered
<1>4. ASSUME NEW c \in Clients, Busy(c) \/ ReleaseUnanswered(c)
      PROVE  [Exclusion!Next]_<<Covered, prompt>>
  <2>1. Covered' = Covered /\ prompt' \in {prompt, FALSE}
    BY <1>4 DEF Busy, ReleaseUnanswered, Covered, Outlasted
  <2> QED BY <2>1 DEF Exclusion!Next, Exclusion!GiveUp, Covered
<1>5. ASSUME NEW c \in Clients, OnAcquire(c) \/ OnRelease(c) \/ EnterLease(c)
      PROVE  UNCHANGED <<Covered, prompt>>
  BY <1>5 DEF OnAcquire, OnRelease, EnterLease, Covered, Outlasted
<1>6. ASSUME NEW c \in Clients, Acquire(c) PROVE UNCHANGED <<Covered, prompt>>
  <2>1. c \notin goal /\ age' = [age EXCEPT ![c] = 0] /\ UNCHANGED <<goal, prompt>>
    BY <1>0, <1>6 DEF Acquire, GoalHasAnOwner
  <2>2. \A d \in goal : age'[d] = age[d]
    BY <1>0, <2>1 DEF LockTypeOK
  <2> QED BY <2>1, <2>2 DEF Covered, Outlasted
<1>7. CASE Tick
  <2>1. UNCHANGED <<goal, prompt>> /\ \A d \in Clients : Outlasted(d) => age'[d] = age[d]
    BY <1>7 DEF Tick
  <2>2. Covered' \in SUBSET Covered
    BY <1>0, <2>1 DEF LockTypeOK, Covered, Outlasted
  <2> QED BY <2>1, <2>2 DEF Exclusion!Next, Exclusion!End, Covered
<1>8. ASSUME NEW h \in Holders, Crash(h) PROVE UNCHANGED <<Covered, prompt>>
  BY <1>8 DEF Crash, Covered, Outlasted
<1>9. CASE UNCHANGED lockVars
  BY <1>9 DEF lockVars, Covered, Outlasted
<1> QED BY <1>1, <1>2, <1>3, <1>4, <1>5, <1>6, <1>7, <1>8, <1>9 DEF LockNext, LockClientStep

\* The lease implements mutual exclusion among the goals it covers: every step of the
\* server, its clients and the clock is a goal that starts while none is covered, covered
\* goals that end, are left behind or outlast the lease, a caller that gives up on the
\* server, or nothing.
THEOREM LeaseImplementsExclusion ==
    ASSUME Distinct
    PROVE  LockSpec => LeaseExcludes
<1>1. LockInit => LockInv
  BY LockInvInit
<1>2. LockInv /\ [LockNext]_lockVars => LockInv'
  BY LockInvStep
<1>3. LockInit => Exclusion!Init
  BY DEF LockInit, Exclusion!Init
<1>4. LockInv /\ [LockNext]_lockVars => [Exclusion!Next]_<<Covered, prompt>>
  BY StepExcludes
<1> QED BY <1>1, <1>2, <1>3, <1>4, PTL DEF LockSpec, LeaseExcludes, Exclusion!Spec, Covered

-------------------------------------------------------------------------------
(***************************************************************************)
(* What a replay goes to was reached, for every set of services and number *)
(* of IK attempts.  A trajectory's result is looked at only by the request *)
(* that executed it, while its mode stands: that is what has to be carried *)
(* along, since a goal left behind by a timed out request may end when     *)
(* another one is under way.                                               *)
(***************************************************************************)

ResultIsTheRequests ==
    \A s \in Services :
        step[s] = "waiting" /\ trajectory[s] = "done" /\ mode[s] = "live" => reached

AlignInv == AlignTypeOK /\ RememberedWasReached /\ ResultIsTheRequests

-------------------------------------------------------------------------------

\* Nothing is remembered and no request is under way.
LEMMA AlignInvInit == AlignInit => AlignInv
BY DEF AlignInit, AlignInv, AlignTypeOK, RememberedWasReached, ResultIsTheRequests, Steps, Alive

\* Every step of the services, their callers, the action server and the camera keeps it.
LEMMA AlignInvStep == AlignInv /\ [AlignNext]_alignVars => AlignInv'
<1> SUFFICES ASSUME AlignInv, [AlignNext]_alignVars PROVE AlignInv'
  OBVIOUS
<1> USE DEF AlignInv, AlignTypeOK, RememberedWasReached, ResultIsTheRequests, Steps, Alive,
            At, StepTo, Answers, ProceedsOrFails
<1>1. ASSUME NEW s \in Services, Request(s) PROVE AlignInv'
  BY <1>1 DEF Request, MayRequest
<1>2. ASSUME NEW s \in Services, RequestRefused(s) PROVE AlignInv'
  BY <1>2 DEF RequestRefused, MayRequest
<1>3. ASSUME NEW s \in Services, CallerGivesUp(s) PROVE AlignInv'
  BY <1>3 DEF CallerGivesUp
<1>4. ASSUME NEW s \in Services, ResumeTeleop(s) PROVE AlignInv'
  BY <1>4 DEF ResumeTeleop
<1>5. ASSUME NEW s \in Services, CallStopServo(s) PROVE AlignInv'
  BY <1>5 DEF CallStopServo
<1>6. ASSUME NEW s \in Services, UseTrajectoryController(s) PROVE AlignInv'
  BY <1>6 DEF UseTrajectoryController
<1>7. ASSUME NEW s \in Services, ResolveTarget(s) PROVE AlignInv'
  BY <1>7 DEF ResolveTarget, PanelPoseKnown
<1>8. ASSUME NEW s \in Services, ApplyPanelCollisionObject(s) PROVE AlignInv'
  BY <1>8 DEF ApplyPanelCollisionObject
<1>9. ASSUME NEW s \in Services, ComputeIkWithinPanelLimits(s) PROVE AlignInv'
  BY <1>9 DEF ComputeIkWithinPanelLimits
<1>10. ASSUME NEW s \in Services, RequestPlan(s) PROVE AlignInv'
  BY <1>10 DEF RequestPlan
<1>11. ASSUME NEW s \in Services, Execute(s) PROVE AlignInv'
  BY <1>11 DEF Execute
<1>12. ASSUME NEW s \in Services, ResultArrives(s) PROVE AlignInv'
  BY <1>12 DEF ResultArrives, Remembers
<1>13. ASSUME NEW s \in Services, ExecutionTimesOut(s) PROVE AlignInv'
  BY <1>13 DEF ExecutionTimesOut
<1>14. ASSUME NEW s \in Services, CancelAnswered(s) PROVE AlignInv'
  BY <1>14 DEF CancelAnswered
<1>15. ASSUME NEW s \in Services, Drained(s) PROVE AlignInv'
  BY <1>15 DEF Drained
<1>16. ASSUME NEW s \in Services, GoalAnswered(s) PROVE AlignInv'
  BY <1>16 DEF GoalAnswered
<1>17. ASSUME NEW s \in Services, GoalEnds(s) PROVE AlignInv'
  BY <1>17 DEF GoalEnds
<1>18. CASE PanelSeen
  BY <1>18 DEF PanelSeen
<1>19. CASE UNCHANGED alignVars
  BY <1>19 DEF alignVars
<1> QED BY <1>1, <1>2, <1>3, <1>4, <1>5, <1>6, <1>7, <1>8, <1>9, <1>10, <1>11, <1>12, <1>13,
           <1>14, <1>15, <1>16, <1>17, <1>18, <1>19
        DEF AlignNext, AlignStep

-------------------------------------------------------------------------------

\* The services and what surrounds them are well typed.
THEOREM AlignTypeCorrect == AlignSpec => []AlignTypeOK
<1>1. AlignInv => AlignTypeOK
  BY DEF AlignInv
<1> QED BY <1>1, AlignInvInit, AlignInvStep, PTL DEF AlignSpec

\* A replay goes to a place the arm has been (panel_align_node, _remembered_target_joints),
\* whatever is called, times out, is cancelled or ends late.
THEOREM ReplaysWereReached == AlignSpec => []RememberedWasReached
<1>1. AlignInv => RememberedWasReached
  BY DEF AlignInv
<1> QED BY <1>1, AlignInvInit, AlignInvStep, PTL DEF AlignSpec

-------------------------------------------------------------------------------
(***************************************************************************)
(* What the gamepad node's locks and gates guarantee, for every tool and   *)
(* every set of buttons.  A message that passed the gate may be handled    *)
(* late, while a thread starts: what was true when it passed (Passed) and  *)
(* what holds once a planned move has claimed the joints on the executor   *)
(* it shares with that message (Claimed) make the guarantees inductive.    *)
(***************************************************************************)

\* Teleop is unlocked by a home move only, and settled by centred sticks only; a message
\* past the gate saw both.
Passed ==
    /\ ~teleopLocked => homed
    /\ ~settling => centred
    /\ exec = "joy" => homed /\ centred

\* While a home or level move owns the joints no message is half handled, and the first
\* one after the claim has zeroed the velocity.
Claimed ==
    \A a \in {"home", "level"} :
        pc[a] \in {"move", "leg2"} => exec # "joy" /\ (a \notin unheard => cmd = "zero")

TeleopInv == TeleopTypeOK /\ LocksHold /\ SettledAfterSilence /\ Passed /\ Claimed

-------------------------------------------------------------------------------

\* At first everything is locked and at rest.
LEMMA TeleopInvInit == TeleopInit => TeleopInv
<1> SUFFICES ASSUME TeleopInit PROVE TeleopInv
  OBVIOUS
<1>1. TeleopTypeOK
  <2>1. <<tool, duty>> \in Operators
    BY TeleopAssumption DEF TeleopInit
  <2> QED BY <2>1 DEF TeleopInit, TeleopTypeOK, Activities, Sticks
<1>2. LocksHold /\ SettledAfterSilence /\ Passed /\ Claimed
  BY DEF TeleopInit, LocksHold, SettledAfterSilence, Passed, Claimed, Activities
<1> QED BY <1>1, <1>2 DEF TeleopInv

\* Every message, timeout, status and thread step keeps it.
LEMMA TeleopInvStep == TeleopInv /\ [TeleopNext]_teleopVars => TeleopInv'
<1> SUFFICES ASSUME TeleopInv, [TeleopNext]_teleopVars PROVE TeleopInv'
  OBVIOUS
<1> USE DEF TeleopInv, TeleopTypeOK, LocksHold, SettledAfterSilence, Passed, Claimed,
            Activities, Sticks, padVars, safeVars, threadVars, frozen, Stop, Goes
<1>1. ASSUME NEW press \in duty \cup {"none"}, NEW s \in Sticks, JoyArrives(press, s) PROVE TeleopInv'
  BY <1>1 DEF JoyArrives, PressTakes, Spawn, Gated, Active, AtRest
<1>2. CASE JoyCommands
  BY <1>2 DEF JoyCommands, Velocity
<1>3. CASE JoyTimesOut
  BY <1>3 DEF JoyTimesOut
<1>4. CASE JoyLapses
  BY <1>4 DEF JoyLapses
<1>5. CASE HaltForSingularity
  BY <1>5 DEF HaltForSingularity
<1>6. CASE HaltGivesUp
  BY <1>6 DEF HaltGivesUp
<1>7. ASSUME NEW a \in Activities, Enter(a) PROVE TeleopInv'
  BY <1>7 DEF Enter
<1>8. ASSUME NEW a \in Activities, BeginDelay(a) PROVE TeleopInv'
  BY <1>8 DEF BeginDelay
<1>9. ASSUME NEW a \in Activities, EndDelay(a) PROVE TeleopInv'
  <2>1. TeleopTypeOK'
    BY <1>9 DEF EndDelay
  <2>2. LocksHold'
    BY <1>9 DEF EndDelay
  <2>3. SettledAfterSilence' /\ Passed'
    BY <1>9 DEF EndDelay
  <2>4. Claimed'
    BY <1>9 DEF EndDelay
  <2> QED BY <2>1, <2>2, <2>3, <2>4
<1>10. ASSUME NEW a \in Activities, Claim(a) PROVE TeleopInv'
  BY <1>10 DEF Claim
<1>11. ASSUME NEW a \in Activities, ThreadMoveEnds(a) PROVE TeleopInv'
  <2>5. \/ UNCHANGED <<pitchYawLocked, knowsPanel>>
        \/ /\ Goes(a, IF a = "home" /\ TwoLegs(target) THEN "leg2" ELSE "move", "reached")
           /\ a \notin unheard
           /\ pitchYawLocked' = CASE a = "home" -> FALSE [] a = "level" -> TRUE
                                  [] OTHER -> pitchYawLocked
           /\ knowsPanel' = (knowsPanel \/ a = "align")
    BY <1>11, Zenon DEF ThreadMoveEnds
  <2>6. knowsPanel' \in BOOLEAN
    BY <2>5, Zenon
  <2>7. pitchYawLocked' \in BOOLEAN
    BY <2>5
  <2>8. pitchYawLocked' /\ ~pitchYawLocked => a = "level" /\ pc[a] = "move" /\ a \notin unheard
    BY <2>5
  <2>1. TeleopTypeOK'
    <3>1. pc' \in [Activities -> {"idle", "started", "delay", "claim", "move", "leg2",
                                "reached", "failed", "restart"}]
      <4>1. \E to \in {"leg2", "reached", "failed"} : pc' = [pc EXCEPT ![a] = to]
        BY <1>11, Zenon DEF ThreadMoveEnds
      <4> QED BY <4>1
    <3>2. UNCHANGED <<tool, duty, toolMode, cmd, stick, joy, exec, owner, teleopLocked,
                      delayActive, lamp, settling, homed, centred>>
      BY <1>11 DEF ThreadMoveEnds
    <3> QED BY <2>6, <2>7, <3>1, <3>2
  <2>2. LocksHold'
    BY <1>11, <2>6, <2>7, <2>8 DEF ThreadMoveEnds
  <2>3. SettledAfterSilence' /\ Passed'
    BY <1>11 DEF ThreadMoveEnds
  <2>4. Claimed'
    BY <1>11 DEF ThreadMoveEnds
  <2> QED BY <2>1, <2>2, <2>3, <2>4
<1>12. ASSUME NEW a \in Activities, Ended(a) PROVE TeleopInv'
  <2>1. TeleopTypeOK'
    <3>1. pc' \in [Activities -> {"idle", "started", "delay", "claim", "move", "leg2",
                                "reached", "failed", "restart"}]
      BY <1>12 DEF Ended
    <3>2. UNCHANGED <<tool, duty, cmd, stick, joy, exec, owner, teleopLocked, pitchYawLocked,
                      knowsPanel, settling, homed, centred>>
      BY <1>12 DEF Ended
    <3>3. toolMode' \in {"none", "sampling", "drill", "probing"}
      BY <1>12 DEF Ended, ModeAfter
    <3>4. delayActive' \in BOOLEAN /\ lamp' \in BOOLEAN
      BY <1>12, Zenon DEF Ended, DelayAndLampEnd
    <3> QED BY <3>1, <3>2, <3>3, <3>4
  <2>2. LocksHold'
    BY <1>12 DEF Ended, DelayAndLampEnd, ModeAfter
  <2>3. SettledAfterSilence' /\ Passed'
    BY <1>12 DEF Ended, DelayAndLampEnd, ModeAfter
  <2>4. Claimed'
    BY <1>12 DEF Ended, DelayAndLampEnd, ModeAfter
  <2> QED BY <2>1, <2>2, <2>3, <2>4
<1>13. ASSUME NEW a \in Activities, StartServo(a) PROVE TeleopInv'
  <2>1. TeleopTypeOK'
    BY <1>13 DEF StartServo, Unlocks
  <2>2. LocksHold'
    BY <1>13 DEF StartServo, Unlocks
  <2>3. SettledAfterSilence' /\ Passed'
    BY <1>13 DEF StartServo, Unlocks
  <2>4. Claimed'
    BY <1>13 DEF StartServo, Unlocks
  <2> QED BY <2>1, <2>2, <2>3, <2>4
<1>14. CASE UNCHANGED teleopVars
  BY <1>14 DEF teleopVars
<1> QED BY <1>1, <1>2, <1>3, <1>4, <1>5, <1>6, <1>7, <1>8, <1>9, <1>10, <1>11, <1>12, <1>13, <1>14
        DEF TeleopNext, ThreadStep

-------------------------------------------------------------------------------

\* The gamepad node is well typed.
THEOREM TeleopTypeCorrect == TeleopSpec => []TeleopTypeOK
<1>1. TeleopInv => TeleopTypeOK
  BY DEF TeleopInv
<1> QED BY <1>1, TeleopInvInit, TeleopInvStep, PTL DEF TeleopSpec

\* No velocity before a home move has ended with Servo running, and none that tilts a
\* levelled tool (_teleop_locked, _pitch_yaw_locked), whatever threads are under way.
THEOREM LocksAreKept == TeleopSpec => []LocksHold
<1>1. TeleopInv => LocksHold
  BY DEF TeleopInv
<1> QED BY <1>1, TeleopInvInit, TeleopInvStep, PTL DEF TeleopSpec

\* While home or level moves the arm, no stick commands a velocity but for the message
\* that was being handled when the thread started, until the next one (_on_joy's gate).
\* It speaks of these two only: the gate stays open while align moves the arm.
THEOREM MovesAreUndisturbed == TeleopSpec => []MoveIsUndisturbed
<1>1. TeleopInv => MoveIsUndisturbed
  BY DEF TeleopInv, Claimed, MoveIsUndisturbed
<1> QED BY <1>1, TeleopInvInit, TeleopInvStep, PTL DEF TeleopSpec

\* After a dropout of /joy no velocity before the sticks were seen centred
\* (_check_joy_timeout, _joy_settling).
THEOREM SilenceSettles == TeleopSpec => []SettledAfterSilence
<1>1. TeleopInv => SettledAfterSilence
  BY DEF TeleopInv
<1> QED BY <1>1, TeleopInvInit, TeleopInvStep, PTL DEF TeleopSpec

-------------------------------------------------------------------------------
(***************************************************************************)
(* The keyboard.  A pressed key is accounted for: held, released with the  *)
(* release unread, or lost with its keyboard; what the queue of a keyboard *)
(* still says of a key ends in whether the key is held.  A velocity may    *)
(* only outlive its keys while the reader is about to set the next one.    *)
(* Once the exit is under way home starts Servo no more; and a clean stop  *)
(* of Servo stays, since nobody who could start it is left.                *)
(***************************************************************************)

Control == {"esc"} \cup Calls

KeyEvents == [key : keys \cup Control, what : {"down", "up"}]

Accounted(key) ==
    \/ key \in lost
    \/ \E k \in Keyboards : key \in held[k]
    \/ \E k \in Keyboards : \E i \in 1..Len(events[k]) : events[k][i].key = key

EventsAreTyped == events \in [Keyboards -> Seq(KeyEvents)]

HeldOrReleased ==
    \A k \in Keyboards : \A i \in 1..Len(events[k]) :
        events[k][i].what = "down" /\ events[k][i].key \notin Control =>
            \/ events[k][i].key \in held[k]
            \/ \E j \in i + 1..Len(events[k]) : events[k][j].key = events[k][i].key

NothingUnstarted ==
    /\ ~servoStarted => /\ pressed = {} /\ gripPressed = {} /\ velocity = {}
                        /\ reader \in {"rest", "gone"}
    /\ reader \in {"rest", "gone"} => sum = {}

PressedAccounted == \A key \in pressed \cup gripPressed \cup sum : Accounted(key)

MotionAccounted ==
    \A key \in velocity :
        \/ Accounted(key)
        \/ reader = "twist" /\ key \notin Gripper
        \/ reader = "gripper" /\ key \in Gripper

EndsInOrder ==
    /\ exiting => reader = "gone"
    /\ main # "waiting" => /\ exiting /\ velocity = {}
                           /\ stage["home"] \notin {"servo", "starting"}
    /\ main \in {"closing", "done"} /\ clean => ~servoOn /\ NoStraggler

KeyInv ==
    /\ KeyTypeOK /\ gripPressed \subseteq keys /\ EventsAreTyped
    /\ HeldOrReleased /\ NothingUnstarted
    /\ PressedAccounted /\ MotionAccounted
    /\ EndsInOrder

\* No key is a motion key and a control key.
LEMMA ControlsApart == KeyTypeOK => keys \cap Control = {} /\ calls \subseteq Control
  BY KeyAssumption DEF KeyTypeOK, Control

LEMMA KeyInvInit == KeyInit => KeyInv
<1> SUFFICES ASSUME KeyInit PROVE KeyInv
  OBVIOUS
<1>1. \A k \in Keyboards : events[k] = <<>> /\ Len(events[k]) = 0
  BY DEF KeyInit
<1>2. KeyTypeOK
  <2>1. DOMAIN events = Keyboards /\ \A k \in Keyboards : Len(events[k]) <= MaxEvents
    BY <1>1, KeyAssumption DEF KeyInit
  <2>2. opened \subseteq Keyboards /\ held \in [Keyboards -> SUBSET keys]
    BY DEF KeyInit
  <2> QED  BY <2>1, <2>2 DEF KeyInit, KeyTypeOK, Tasks
<1>3. EventsAreTyped
  BY DEF KeyInit, EventsAreTyped
<1>4. HeldOrReleased
  BY <1>1 DEF HeldOrReleased
<1> QED
  BY <1>2, <1>3, <1>4 DEF KeyInit, KeyInv, NothingUnstarted, PressedAccounted, MotionAccounted, EndsInOrder

\* The queues of events: what is put at the end of one, and what is taken from one.
LEMMA EventQueued ==
    ASSUME KeyInv, NEW k \in Keyboards, NEW key \in keys \cup Control, NEW what \in {"down", "up"},
           Event(k, key, what)
    PROVE  /\ EventsAreTyped' /\ \A l \in Keyboards : Len(events'[l]) <= MaxEvents
           /\ events' = [events EXCEPT ![k] = Append(@, [key |-> key, what |-> what])]
           /\ Len(events'[k]) = Len(events[k]) + 1 /\ Len(events[k]) \in Nat
           /\ events'[k][Len(events[k]) + 1] = [key |-> key, what |-> what]
           /\ \A i \in 1..Len(events[k]) : events'[k][i] = events[k][i]
           /\ \A l \in Keyboards \ {k} : events'[l] = events[l]
<1> DEFINE e == [key |-> key, what |-> what]
<1>1. e \in KeyEvents /\ events[k] \in Seq(KeyEvents) /\ events \in [Keyboards -> Seq(KeyEvents)]
  BY DEF KeyInv, EventsAreTyped, KeyEvents
<1>2. events' = [events EXCEPT ![k] = Append(@, e)] /\ Len(events[k]) < MaxEvents
  BY DEF Event
<1> HIDE DEF e
<1>3. /\ Append(events[k], e) \in Seq(KeyEvents) /\ Len(Append(events[k], e)) = Len(events[k]) + 1
      /\ \A i \in 1..Len(events[k]) : Append(events[k], e)[i] = events[k][i]
      /\ Append(events[k], e)[Len(events[k]) + 1] = e
  BY <1>1, AppendProperties
<1>4. events'[k] = Append(events[k], e) /\ \A l \in Keyboards \ {k} : events'[l] = events[l]
  BY <1>1, <1>2
<1>5. events' \in [Keyboards -> Seq(KeyEvents)]
  BY <1>1, <1>2, <1>3
<1>6. Len(events[k]) \in Nat
  BY <1>1, LenProperties
<1>7. \A l \in Keyboards : Len(events'[l]) <= MaxEvents
  BY <1>2, <1>3, <1>4, <1>6, KeyAssumption DEF KeyInv, KeyTypeOK
<1>8. KeyEvents' = KeyEvents
  BY DEF Event, KeyEvents
<1>9. EventsAreTyped'
  BY <1>5, <1>8 DEF EventsAreTyped
<1>10. Len(events'[k]) = Len(events[k]) + 1 /\ events'[k][Len(events[k]) + 1] = e
       /\ \A i \in 1..Len(events[k]) : events'[k][i] = events[k][i]
  BY <1>3, <1>4
<1> QED  BY <1>2, <1>4, <1>6, <1>7, <1>9, <1>10, Zenon DEF e

\* What is accounted for stays so when a key goes down or up, and the queue stays honest.
LEMMA KeyStrokeKeeps ==
    ASSUME KeyInv, NEW k \in Keyboards, NEW key \in keys \cup Control, NEW what \in {"down", "up"},
           Event(k, key, what),
           held' \in [Keyboards -> SUBSET keys],
           \A l \in Keyboards : held[l] \ {key} \subseteq held'[l],
           what = "down" => \A l \in Keyboards : held[l] \subseteq held'[l],
           what = "down" /\ key \notin Control => key \in held'[k],
           \A l \in Keyboards \ {k} : held'[l] = held[l]
    PROVE  HeldOrReleased' /\ \A x : Accounted(x) => Accounted(x)'
<1> DEFINE n == Len(events[k])
           e == [key |-> key, what |-> what]
<1>1. /\ n \in Nat /\ Len(events'[k]) = n + 1 /\ events'[k][n + 1] = e
      /\ \A i \in 1..n : events'[k][i] = events[k][i]
      /\ \A l \in Keyboards \ {k} : events'[l] = events[l]
  <2>1. /\ Len(events[k]) \in Nat /\ Len(events'[k]) = Len(events[k]) + 1
        /\ events'[k][Len(events[k]) + 1] = [key |-> key, what |-> what]
        /\ \A i \in 1..Len(events[k]) : events'[k][i] = events[k][i]
        /\ \A l \in Keyboards \ {k} : events'[l] = events[l]
    <3>0. /\ events \in [Keyboards -> Seq(KeyEvents)] /\ [key |-> key, what |-> what] \in KeyEvents
          /\ events' = [events EXCEPT ![k] = Append(@, [key |-> key, what |-> what])]
      BY DEF KeyInv, EventsAreTyped, Event, KeyEvents
    <3>1. Len(events[k]) \in Nat /\ Len(events'[k]) = Len(events[k]) + 1
      <4>1. events[k] \in Seq(KeyEvents) /\ events'[k] = Append(events[k], [key |-> key, what |-> what])
        BY <3>0
      <4> QED  BY <3>0, <4>1, LenProperties, AppendProperties
    <3>2. events'[k][Len(events[k]) + 1] = [key |-> key, what |-> what]
      <4>1. events[k] \in Seq(KeyEvents) /\ events'[k] = Append(events[k], [key |-> key, what |-> what])
        BY <3>0
      <4> QED  BY <3>0, <4>1, AppendProperties
    <3>3. \A i \in 1..Len(events[k]) : events'[k][i] = events[k][i]
      BY EventQueued
    <3>4. \A l \in Keyboards \ {k} : events'[l] = events[l]
      BY <3>0
    <3> QED  BY <3>1, <3>2, <3>3, <3>4
  <2> QED  BY <2>1, Zenon
<1>2. \E i \in 1..Len(events'[k]) : events'[k][i].key = key
  BY <1>1
<1>3. ASSUME NEW x, Accounted(x) PROVE Accounted(x)'
  <2>1. CASE x \in lost
    BY <2>1 DEF Accounted, Event
  <2>2. CASE \E l \in Keyboards : x \in held[l]
    <3>1. PICK l \in Keyboards : x \in held[l]
      BY <2>2
    <3>2. x \in held'[l] \/ x = key
      BY <3>1
    <3> QED  BY <1>2, <3>2 DEF Accounted
  <2>3. CASE \E l \in Keyboards : \E i \in 1..Len(events[l]) : events[l][i].key = x
    <3>1. PICK l \in Keyboards : \E i \in 1..Len(events[l]) : events[l][i].key = x
      BY <2>3
    <3>0. PICK i \in 1..Len(events[l]) : events[l][i].key = x
      BY <3>1
    <3>2. i \in 1..Len(events'[l]) /\ events'[l][i].key = x
      <4>1. CASE l = k
        BY <1>1, <3>0, <4>1
      <4>2. CASE l # k
        BY <1>1, <3>0, <4>2
      <4> QED  BY <4>1, <4>2
    <3> QED  BY <3>2 DEF Accounted
  <2> QED  BY <1>3, <2>1, <2>2, <2>3 DEF Accounted
<1>4. HeldOrReleased'
  <2> SUFFICES ASSUME NEW l \in Keyboards, NEW i \in 1..Len(events'[l]),
                      events'[l][i].what = "down", events'[l][i].key \notin Control
               PROVE  \/ events'[l][i].key \in held'[l]
                      \/ \E j \in i + 1..Len(events'[l]) : events'[l][j].key = events'[l][i].key
    BY DEF HeldOrReleased
  <2>1. CASE l # k
    <3>1. events'[l] = events[l] /\ held'[l] = held[l]
      BY <1>1, <2>1
    <3> QED  BY <3>1 DEF KeyInv, HeldOrReleased
  <2>2. CASE l = k /\ i = n + 1
    <3>1. events'[l][i] = e
      BY <1>1, <2>2
    <3>2. e.key = key /\ e.what = what
      OBVIOUS
    <3>3. key \in held'[k]
      BY <3>1, <3>2, Zenon
    <3> QED  BY <2>2, <3>1, <3>2, <3>3, Zenon
  <2>3. CASE l = k /\ i # n + 1
    <3>1. i \in 1..n /\ events'[k][i] = events[k][i]
      BY <1>1, <2>3
    <3> DEFINE x == events[k][i].key
    <3>2. \/ x \in held[k]
          \/ \E j \in i + 1..n : events[k][j].key = x
      BY <2>3, <3>1 DEF KeyInv, HeldOrReleased
    <3>3. CASE x \in held'[k]
      BY <2>3, <3>1, <3>3
    <3>4. CASE x = key
      <4>1. n + 1 \in i + 1..Len(events'[k]) /\ events'[k][n + 1].key = x
        BY <1>1, <3>1, <3>4
      <4> QED  BY <2>3, <3>1, <4>1
    <3>5. CASE \E j \in i + 1..n : events[k][j].key = x
      <4>1. PICK j \in i + 1..n : events[k][j].key = x
        BY <3>5
      <4>2. j \in 1..n /\ j \in i + 1..Len(events'[k]) /\ events'[k][j] = events[k][j]
        BY <1>1, <3>1
      <4> QED  BY <2>3, <3>1, <4>1, <4>2
    <3> QED  BY <3>2, <3>3, <3>4, <3>5
  <2> QED  BY <2>1, <2>2, <2>3
<1> QED  BY <1>3, <1>4

\* Taking an event from a queue unaccounts for nothing but a released key.
LEMMA EventRead ==
    ASSUME KeyInv, NEW k \in Keyboards, events[k] # <<>>,
           events' = [events EXCEPT ![k] = Tail(@)], UNCHANGED <<keys, held, lost>>
    PROVE  LET e == Head(events[k]) IN
           /\ EventsAreTyped' /\ HeldOrReleased' /\ e \in KeyEvents
           /\ DOMAIN events' = Keyboards /\ \A l \in Keyboards : Len(events'[l]) <= MaxEvents
           /\ \A x : Accounted(x) /\ x # e.key => Accounted(x)'
           /\ \A x : x = e.key /\ e.what = "down" /\ x \notin Control => Accounted(x)'
<1> DEFINE n == Len(events[k])
           e == Head(events[k])
<1>1. events[k] \in Seq(KeyEvents) /\ events \in [Keyboards -> Seq(KeyEvents)]
  BY DEF KeyInv, EventsAreTyped
<1>2. /\ n \in Nat \ {0} /\ e = events[k][1] /\ e \in KeyEvents
      /\ Tail(events[k]) \in Seq(KeyEvents) /\ Len(Tail(events[k])) = n - 1
      /\ \A i \in 1..n - 1 : Tail(events[k])[i] = events[k][i + 1]
  <2>1. n \in Nat /\ n # 0
    BY <1>1, LenProperties, EmptySeq
  <2> QED  BY <1>1, <2>1, HeadTailProperties
<1>3. /\ Len(events'[k]) = n - 1 /\ \A i \in 1..n - 1 : events'[k][i] = events[k][i + 1]
      /\ \A l \in Keyboards \ {k} : events'[l] = events[l]
      /\ events' \in [Keyboards -> Seq(KeyEvents)]
  BY <1>1, <1>2
<1>4. EventsAreTyped'
  <2>1. KeyEvents' = KeyEvents
    BY DEF KeyEvents
  <2> QED  BY <1>3, <2>1 DEF EventsAreTyped
<1>5. DOMAIN events' = Keyboards /\ \A l \in Keyboards : Len(events'[l]) <= MaxEvents
  BY <1>2, <1>3, KeyAssumption DEF KeyInv, KeyTypeOK
<1>10. \A i \in 1..n : events[k][i].what = "down" /\ events[k][i].key \notin Control =>
          \/ events[k][i].key \in held[k]
          \/ \E j \in i + 1..n : events[k][j].key = events[k][i].key
  BY Zenon DEF KeyInv, HeldOrReleased
<1> HIDE DEF e
<1>6. HeldOrReleased'
  <2> SUFFICES ASSUME NEW l \in Keyboards, NEW i \in 1..Len(events'[l]),
                      events'[l][i].what = "down", events'[l][i].key \notin Control
               PROVE  \/ events'[l][i].key \in held[l]
                      \/ \E j \in i + 1..Len(events'[l]) : events'[l][j].key = events'[l][i].key
    BY DEF HeldOrReleased
  <2>1. CASE l # k
    <3>1. events'[l] = events[l]
      BY <1>3, <2>1
    <3>2. \/ events[l][i].key \in held[l]
          \/ \E j \in i + 1..Len(events[l]) : events[l][j].key = events[l][i].key
      <4>1. i \in 1..Len(events[l]) /\ events[l][i].what = "down" /\ events[l][i].key \notin Control
        BY <3>1
      <4> QED  BY <4>1, Zenon DEF KeyInv, HeldOrReleased
    <3> QED  BY <3>1, <3>2
  <2>2. CASE l = k
    <3> DEFINE x == events[k][i + 1].key
    <3>1. i \in 1..n - 1 /\ i + 1 \in 1..n /\ events'[k][i] = events[k][i + 1]
      BY <1>2, <1>3, <2>2
    <3>6. events[k][i + 1].what = "down" /\ x \notin Control
      BY <2>2, <3>1
    <3>2. x \in held[k] \/ \E j \in (i + 1) + 1..n : events[k][j].key = x
      BY <1>10, <3>1, <3>6, Zenon
    <3>3. CASE x \in held[k]
      BY <2>2, <3>1, <3>3
    <3>4. CASE \E j \in (i + 1) + 1..n : events[k][j].key = x
      <4>1. PICK j \in (i + 1) + 1..n : events[k][j].key = x
        BY <3>4
      <4>2. j - 1 \in i + 1..Len(events'[k]) /\ events'[k][j - 1] = events[k][j]
        <5>1. j - 1 \in 1..n - 1 /\ (j - 1) + 1 = j
          BY <1>2, <3>1
        <5> QED  BY <1>2, <1>3, <3>1, <5>1
      <4> QED  BY <2>2, <3>1, <4>1, <4>2
    <3> QED  BY <3>2, <3>3, <3>4
  <2> QED  BY <2>1, <2>2
<1>7. ASSUME NEW x, Accounted(x), x # e.key PROVE Accounted(x)'
  <2>1. CASE x \in lost \/ \E l \in Keyboards : x \in held[l]
    BY <2>1 DEF Accounted
  <2>2. CASE \E l \in Keyboards : \E i \in 1..Len(events[l]) : events[l][i].key = x
    <3>1. PICK l \in Keyboards : \E i \in 1..Len(events[l]) : events[l][i].key = x
      BY <2>2
    <3>0. PICK i \in 1..Len(events[l]) : events[l][i].key = x
      BY <3>1
    <3>2. CASE l # k
      <4>1. events'[l] = events[l]
        BY <1>3, <3>2
      <4> QED  BY <3>0, <4>1 DEF Accounted
    <3>3. CASE l = k
      <4>1. i # 1 /\ i - 1 \in 1..n - 1 /\ (i - 1) + 1 = i
        BY <1>2, <1>7, <3>0, <3>3
      <4>2. i - 1 \in 1..Len(events'[k]) /\ events'[k][i - 1].key = x
        BY <1>3, <3>0, <3>3, <4>1
      <4> QED  BY <4>2 DEF Accounted
    <3> QED  BY <3>2, <3>3
  <2> QED  BY <1>7, <2>1, <2>2 DEF Accounted
<1>8. ASSUME NEW x, x = e.key, e.what = "down", x \notin Control PROVE Accounted(x)'
  <2>1. x \in held[k] \/ \E j \in 1 + 1..n : events[k][j].key = x
    <3>1. 1 \in 1..n
      BY <1>2
    <3> QED  BY <1>2, <1>8, <1>10, <3>1, Zenon
  <2>2. CASE \E j \in 1 + 1..n : events[k][j].key = x
    <3>1. PICK j \in 1 + 1..n : events[k][j].key = x
      BY <2>2
    <3>2. j - 1 \in 1..n - 1 /\ (j - 1) + 1 = j
      BY <1>2
    <3>3. j - 1 \in 1..Len(events'[k]) /\ events'[k][j - 1].key = x
      BY <1>3, <3>1, <3>2
    <3> QED  BY <3>3 DEF Accounted
  <2>3. CASE x \in held[k]
    BY <2>3, Zenon DEF Accounted
  <2> QED  BY <2>1, <2>2, <2>3, Zenon
<1> QED  BY <1>2, <1>4, <1>5, <1>6, <1>7, <1>8, Zenon DEF e

LEMMA ReadKeyKeeps ==
    ASSUME KeyInv, NEW k \in Keyboards, ReadKey(k)
    PROVE  KeyInv'
<1> DEFINE e == Head(events[k])
           set == IF e.key \in Gripper THEN gripPressed ELSE pressed
<1>1. /\ reader = "rest" /\ events[k] # <<>> /\ events' = [events EXCEPT ![k] = Tail(@)]
      /\ UNCHANGED <<keys, calls, held, opened, lost, velocity, stage, delaying, servoVars,
                     main, clean>>
  BY DEF ReadKey
<1>0. keys \cap Control = {} /\ TaskOf \in [Calls -> Tasks]
  BY ControlsApart DEF KeyInv, TaskOf, Calls, Tasks
<1>2. /\ EventsAreTyped' /\ HeldOrReleased' /\ e \in KeyEvents
      /\ DOMAIN events' = Keyboards /\ \A l \in Keyboards : Len(events'[l]) <= MaxEvents
      /\ \A x : Accounted(x) /\ x # e.key => Accounted(x)'
      /\ \A x : x = e.key /\ e.what = "down" /\ x \notin Control => Accounted(x)'
  BY <1>1, EventRead
<1>3. \/ e.key = "esc" /\ Exits /\ UNCHANGED <<pressed, gripPressed, sum, called>>
      \/ e.key \in Calls /\ ReadCall(e.key) /\ UNCHANGED <<readerVars, exiting>>
      \/ e.key \in keys /\ ReadMotionKey(e) /\ UNCHANGED <<exiting, called>>
  BY DEF ReadKey
<1>4. sum = {} /\ ~exiting /\ main = "waiting"
  BY <1>1 DEF KeyInv, KeyTypeOK, NothingUnstarted, EndsInOrder
<1>5. e.key \in keys \cup Control /\ e.what \in {"down", "up"}
  BY <1>2 DEF KeyEvents
<1> HIDE DEF e
<1>6. CASE e.key \in Control
  <2>1. /\ UNCHANGED <<pressed, gripPressed, sum>> /\ reader' \in {"rest", "gone"}
        /\ called' \subseteq Tasks
        /\ exiting' \in BOOLEAN /\ (exiting' => reader' = "gone")
    <3>1. CASE Exits /\ UNCHANGED <<pressed, gripPressed, sum, called>>
      BY <3>1 DEF Exits, KeyInv, KeyTypeOK
    <3>2. CASE /\ e.key \in Calls /\ ReadCall(e.key)
               /\ UNCHANGED <<readerVars, exiting>>
      <4>1. called' \subseteq Tasks
        <5>1. called' = called \cup {TaskOf[e.key]} \/ called' = called
          BY <3>2 DEF ReadCall
        <5>2. TaskOf[e.key] \in Tasks /\ called \subseteq Tasks
          BY <1>0, <3>2 DEF KeyInv, KeyTypeOK
        <5> QED BY <5>1, <5>2
      <4>2. reader' = "rest" /\ exiting' = FALSE
        BY <1>1, <1>4, <3>2 DEF readerVars, KeyInv, KeyTypeOK
      <4> QED  BY <3>2, <4>1, <4>2 DEF readerVars
    <3> QED  BY <1>0, <1>3, <1>6, <3>1, <3>2
  <2>2. \A x \in pressed \cup gripPressed \cup velocity : Accounted(x)'
    <3>1. \A x \in pressed \cup gripPressed \cup velocity : Accounted(x) /\ x \in keys
      BY <1>1 DEF KeyInv, KeyTypeOK, PressedAccounted, MotionAccounted
    <3> QED  BY <1>0, <1>2, <1>6, <3>1
  <2>3. KeyTypeOK'
    BY <1>1, <1>2, <2>1 DEF KeyInv, KeyTypeOK, servoVars
  <2>4. NothingUnstarted' /\ EndsInOrder'
    BY <1>1, <1>4, <2>1 DEF KeyInv, NothingUnstarted, EndsInOrder, servoVars
  <2>5. PressedAccounted' /\ MotionAccounted'
    BY <1>1, <1>4, <2>1, <2>2 DEF PressedAccounted, MotionAccounted
  <2>6. gripPressed' \subseteq keys'
    BY <1>1, <2>1 DEF KeyInv
  <2> QED BY <1>2, <2>3, <2>4, <2>5, <2>6 DEF KeyInv
<1>7. CASE e.key \notin Control /\ ~servoStarted
  <2>1. UNCHANGED <<pressed, gripPressed, reader, sum, exiting, called>>
    BY <1>3, <1>7 DEF ReadMotionKey, Control
  <2>2. pressed = {} /\ gripPressed = {} /\ velocity = {}
    BY <1>7 DEF KeyInv, NothingUnstarted
  <2>3. KeyTypeOK'
    BY <1>1, <1>2, <2>1 DEF KeyInv, KeyTypeOK, servoVars
  <2>4. NothingUnstarted' /\ EndsInOrder'
    BY <1>1, <1>4, <2>1 DEF KeyInv, NothingUnstarted, EndsInOrder, servoVars
  <2>5. PressedAccounted' /\ MotionAccounted'
    BY <1>1, <1>4, <2>1, <2>2 DEF PressedAccounted, MotionAccounted
  <2>6. gripPressed' \subseteq keys'
    BY <1>1, <2>1, <2>2
  <2> QED BY <1>2, <2>3, <2>4, <2>5, <2>6 DEF KeyInv
<1>8. CASE e.key \notin Control /\ servoStarted
  <2>1. /\ IF e.key \in Gripper
           THEN gripPressed' = Pressing(set, e) /\ UNCHANGED pressed
           ELSE pressed' = Pressing(set, e) /\ UNCHANGED gripPressed
        /\ IF Recomputes(set, e)
           THEN /\ reader' = (IF e.key \in Gripper THEN "gripper" ELSE "twist")
                /\ sum' = Pressing(set, e)
           ELSE UNCHANGED <<reader, sum>>
        /\ UNCHANGED <<exiting, called>>
    BY <1>3, <1>8 DEF ReadMotionKey, Control
  <2>2. Pressing(set, e) = IF e.what = "up" THEN set \ {e.key}
                           ELSE IF e.key \in Gripper THEN {e.key} ELSE set \cup {e.key}
    BY DEF Pressing
  <2>3. /\ set \subseteq keys /\ (e.key \in Gripper => set \subseteq Gripper)
        /\ (e.key \notin Gripper => set \subseteq keys \ Gripper)
        /\ \A x \in set : Accounted(x)
    BY DEF KeyInv, KeyTypeOK, PressedAccounted
  <2> DEFINE new == Pressing(set, e)
  <2>4. /\ new \subseteq keys /\ (e.key \in Gripper => new \subseteq Gripper)
        /\ (e.key \notin Gripper => new \subseteq keys \ Gripper)
        /\ \A x \in new : Accounted(x)'
    <3>1. e.what = "down" => \A x : x = e.key => Accounted(x)'
      BY <1>2, <1>8
    <3>2. \A x \in set : x # e.key => Accounted(x)'
      BY <1>2, <2>3
    <3> HIDE DEF set
    <3>3. CASE e.what = "up"
      BY <2>2, <2>3, <3>2, <3>3
    <3>4. CASE e.what = "down"
      <4>1. \A x \in new : x \in set \/ x = e.key
        BY <2>2, <3>4
      <4>2. e.key \in keys
        BY <1>5, <1>8
      <4>3. \A x \in new : Accounted(x)'
        BY <1>8, <2>3, <3>1, <3>2, <3>4, <4>1
      <4>4. new \subseteq keys
        BY <2>3, <4>1, <4>2
      <4>5. e.key \in Gripper => new \subseteq Gripper
        BY <2>3, <4>1
      <4>6. e.key \notin Gripper => new \subseteq keys \ Gripper
        BY <2>3, <4>1, <4>2
      <4> QED  BY <4>3, <4>4, <4>5, <4>6
    <3> QED  BY <1>5, <3>3, <3>4
  <2>5. ~Recomputes(set, e) => e.what = "down"
    BY <1>5 DEF Recomputes
  <2> HIDE DEF set, new
  <2>6. KeyTypeOK' /\ gripPressed' \subseteq keys
    BY <1>1, <1>2, <2>1, <2>4 DEF KeyInv, KeyTypeOK, servoVars, new
  <2>8. PressedAccounted'
    <3>1. \A x \in pressed \cup gripPressed : (x \in Gripper <=> x \in gripPressed)
      BY DEF KeyInv, KeyTypeOK
    <3>2. \A x \in pressed \cup gripPressed : x # e.key => Accounted(x)'
      BY <1>2 DEF KeyInv, PressedAccounted
    <3>3. \A x \in (pressed' \cup gripPressed') \ new : x # e.key /\ x \in pressed \cup gripPressed
      BY <2>1, <3>1 DEF KeyInv, KeyTypeOK, new
    <3>4. sum' \subseteq new
      BY <1>4, <2>1 DEF new
    <3> QED  BY <2>4, <3>2, <3>3, <3>4 DEF PressedAccounted
  <2>9. MotionAccounted'
    <3>1. \A x \in velocity : Accounted(x)
      BY <1>1 DEF KeyInv, MotionAccounted
    <3>2. \A x \in velocity : x # e.key => Accounted(x)'
      BY <1>2, <3>1
    <3>3. Recomputes(set, e) => reader' = (IF e.key \in Gripper THEN "gripper" ELSE "twist")
      BY <2>1
    <3>4. \A x : x = e.key /\ ~Recomputes(set, e) => Accounted(x)'
      BY <1>2, <1>8, <2>5
    <3> QED  BY <1>1, <3>2, <3>3, <3>4 DEF MotionAccounted
  <2>7. NothingUnstarted' /\ EndsInOrder'
    BY <1>1, <1>4, <1>8, <2>1 DEF KeyInv, NothingUnstarted, EndsInOrder, servoVars
  <2> QED  BY <1>1, <1>2, <2>6, <2>7, <2>8, <2>9 DEF KeyInv
<1> QED  BY <1>6, <1>7, <1>8, Zenon

\* Steps that leave the keyboards, and what is pressed, alone.
LEMMA ThreadKeeps ==
    ASSUME KeyInv, UNCHANGED deviceVars, UNCHANGED <<reader, sum>>,
           pressed' \in {pressed, {}}, gripPressed' \in {gripPressed, {}},
           velocity' \in {velocity, {}}, servoStarted => servoStarted',
           KeyTypeOK', EndsInOrder'
    PROVE  KeyInv'
<1>1. \A x : Accounted(x) => Accounted(x)'
  BY DEF Accounted, deviceVars
<1>2. gripPressed' \subseteq keys'
  BY DEF KeyInv, deviceVars
<1>3. EventsAreTyped' /\ HeldOrReleased'
  BY DEF KeyInv, EventsAreTyped, KeyEvents, HeldOrReleased, deviceVars
<1>4. NothingUnstarted'
  BY DEF KeyInv, NothingUnstarted
<1>5. PressedAccounted' /\ MotionAccounted'
  BY <1>1 DEF KeyInv, PressedAccounted, MotionAccounted
<1> QED  BY <1>2, <1>3, <1>4, <1>5 DEF KeyInv

\* Key strokes: nothing but the queue and what is held changes.
LEMMA StrokeKeeps ==
    ASSUME KeyInv, NEW k \in Keyboards, NEW key \in keys \cup Control, NEW what \in {"down", "up"},
           Event(k, key, what), held' \in [Keyboards -> SUBSET keys],
           \A l \in Keyboards : held[l] \ {key} \subseteq held'[l],
           what = "down" => \A l \in Keyboards : held[l] \subseteq held'[l],
           what = "down" /\ key \notin Control => key \in held'[k],
           \A l \in Keyboards \ {k} : held'[l] = held[l]
    PROVE  KeyInv'
<1>0. UNCHANGED <<keys, calls, opened, lost, readerVars, velocity, called, stage, delaying,
                  servoVars, mainVars>>
  BY DEF Event
<1>1. HeldOrReleased' /\ \A x : Accounted(x) => Accounted(x)'
  BY <1>0, KeyStrokeKeeps
<1>2. EventsAreTyped' /\ \A l \in Keyboards : Len(events'[l]) <= MaxEvents
  BY <1>0, EventQueued
<1>3. DOMAIN events' = Keyboards
  BY EventQueued DEF KeyInv, EventsAreTyped
<1>4. KeyTypeOK' /\ gripPressed' \subseteq keys'
  BY <1>0, <1>2, <1>3 DEF KeyInv, KeyTypeOK, readerVars, servoVars, mainVars
<1>5. NothingUnstarted' /\ EndsInOrder'
  BY <1>0 DEF KeyInv, NothingUnstarted, EndsInOrder, NoStraggler, readerVars, servoVars, mainVars
<1>6. PressedAccounted' /\ MotionAccounted'
  BY <1>0, <1>1 DEF KeyInv, PressedAccounted, MotionAccounted, readerVars
<1> QED  BY <1>1, <1>2, <1>4, <1>5, <1>6 DEF KeyInv

LEMMA SetVelocityKeeps == ASSUME KeyInv, SetVelocity PROVE KeyInv'
<1> DEFINE moved == IF reader = "gripper" THEN Gripper ELSE keys \ Gripper
<1>1. /\ reader \in {"twist", "gripper"} /\ reader' = "rest" /\ sum' = {}
      /\ velocity' = (velocity \ moved) \cup (IF delaying THEN {} ELSE sum)
      /\ UNCHANGED <<deviceVars, pressed, gripPressed, called, stage, delaying, servoVars,
                     mainVars>>
  BY DEF SetVelocity
<1>2. \A x : Accounted(x) => Accounted(x)'
  BY <1>1 DEF Accounted, deviceVars
<1>3. \A x \in velocity' : Accounted(x)
  BY <1>1 DEF KeyInv, KeyTypeOK, PressedAccounted, MotionAccounted
<1>4. servoStarted /\ ~exiting /\ main = "waiting"
  BY <1>1 DEF KeyInv, KeyTypeOK, NothingUnstarted, EndsInOrder
<1>5. KeyTypeOK' /\ gripPressed' \subseteq keys'
  BY <1>1 DEF KeyInv, KeyTypeOK, deviceVars, servoVars, mainVars
<1>6. EventsAreTyped' /\ HeldOrReleased'
  BY <1>1 DEF KeyInv, EventsAreTyped, KeyEvents, HeldOrReleased, deviceVars
<1>7. NothingUnstarted' /\ EndsInOrder'
  BY <1>1, <1>4 DEF NothingUnstarted, EndsInOrder, servoVars, mainVars
<1>8. PressedAccounted' /\ MotionAccounted'
  BY <1>1, <1>2, <1>3 DEF KeyInv, PressedAccounted, MotionAccounted
<1> QED  BY <1>5, <1>6, <1>7, <1>8 DEF KeyInv

LEMMA LoseKeyboardKeeps ==
    ASSUME KeyInv, NEW k \in Keyboards, LoseKeyboard(k)
    PROVE  KeyInv'
<1>1. /\ reader = "rest" /\ events' = [events EXCEPT ![k] = <<>>]
      /\ held' = [held EXCEPT ![k] = {}] /\ opened' = opened \ {k}
      /\ lost' = lost \cup (held[k] \cap (pressed \cup gripPressed \cup velocity))
                     \cup {x \in keys : \E i \in 1..Len(events[k]) : events[k][i].key = x}
      /\ UNCHANGED <<keys, calls, pressed, gripPressed, sum, velocity, called, stage, delaying,
                     servoVars, main, clean>>
  BY DEF LoseKeyboard
<1>2. \/ exiting' = TRUE /\ reader' = "gone"
      \/ UNCHANGED <<exiting, reader>>
  BY DEF LoseKeyboard, Exits
<1>3. events \in [Keyboards -> Seq(KeyEvents)] /\ held \in [Keyboards -> SUBSET keys]
  BY DEF KeyInv, EventsAreTyped, KeyTypeOK
<1>4. events'[k] = <<>> /\ Len(events'[k]) = 0 /\ \A l \in Keyboards \ {k} : events'[l] = events[l]
  BY <1>1, <1>3
<1>5. ASSUME NEW x \in pressed \cup gripPressed \cup velocity, Accounted(x)
      PROVE  Accounted(x)'
  <2>1. CASE x \in lost
    BY <1>1, <2>1 DEF Accounted
  <2>2. CASE \E l \in Keyboards : x \in held[l]
    <3>1. PICK l \in Keyboards : x \in held[l]
      BY <2>2
    <3>2. x \in lost' \/ x \in held'[l]
      BY <1>1, <1>3, <1>5, <3>1
    <3> QED  BY <3>2 DEF Accounted
  <2>3. CASE \E l \in Keyboards : \E i \in 1..Len(events[l]) : events[l][i].key = x
    <3>1. PICK l \in Keyboards : \E i \in 1..Len(events[l]) : events[l][i].key = x
      BY <2>3
    <3>0. PICK i \in 1..Len(events[l]) : events[l][i].key = x
      BY <3>1
    <3>2. x \in keys
      BY <1>5 DEF KeyInv, KeyTypeOK
    <3>3. CASE l = k
      <4>1. x \in lost'
        BY <1>1, <3>0, <3>2, <3>3
      <4> QED  BY <4>1 DEF Accounted
    <3>4. CASE l # k
      <4>1. events'[l] = events[l]
        BY <1>4, <3>4
      <4> QED  BY <3>0, <4>1 DEF Accounted
    <3> QED  BY <3>3, <3>4
  <2> QED  BY <1>5, <2>1, <2>2, <2>3 DEF Accounted
<1>6. KeyTypeOK' /\ gripPressed' \subseteq keys'
  <2>1. DOMAIN events' = Keyboards /\ \A l \in Keyboards : Len(events'[l]) <= MaxEvents
    BY <1>1, <1>4, KeyAssumption DEF KeyInv, KeyTypeOK
  <2>2. held' \in [Keyboards -> SUBSET keys] /\ lost' \subseteq keys
    BY <1>1, <1>3 DEF KeyInv, KeyTypeOK
  <2> QED  BY <1>1, <1>2, <2>1, <2>2 DEF KeyInv, KeyTypeOK, servoVars
<1>7. EventsAreTyped'
  <2>1. events' \in [Keyboards -> Seq(KeyEvents)]
    BY <1>1, <1>3
  <2>2. KeyEvents' = KeyEvents
    BY <1>1 DEF KeyEvents
  <2> QED  BY <2>1, <2>2 DEF EventsAreTyped
<1>8. HeldOrReleased'
  <2>1. \A l \in Keyboards \ {k} : held'[l] = held[l]
    BY <1>1, <1>3
  <2> QED  BY <1>4, <2>1 DEF KeyInv, HeldOrReleased
<1>9. NothingUnstarted' /\ EndsInOrder'
  BY <1>1, <1>2 DEF KeyInv, KeyTypeOK, NothingUnstarted, EndsInOrder, servoVars
<1>10. sum' = {}
  BY <1>1 DEF KeyInv, NothingUnstarted
<1>11. PressedAccounted' /\ MotionAccounted'
  BY <1>1, <1>5, <1>10 DEF KeyInv, PressedAccounted, MotionAccounted
<1> QED  BY <1>6, <1>7, <1>8, <1>9, <1>11 DEF KeyInv

\* A flag that may be reset stays a flag, and is not set.
LEMMA Reset == \A was \in BOOLEAN : \A is \in {was, FALSE} : is \in BOOLEAN /\ (is => was)
<1> SUFFICES ASSUME NEW was \in BOOLEAN, NEW is \in {was, FALSE}
             PROVE  is \in BOOLEAN /\ (is => was)
  OBVIOUS
<1>1. CASE is = was
  BY <1>1
<1>2. CASE is = FALSE
  BY <1>2
<1> QED BY <1>1, <1>2, Zenon

\* The steps of a task's thread.
LEMMA TaskKeeps ==
    ASSUME KeyInv, NEW t \in Tasks, TaskStep(t) \/ StartServed(t)
    PROVE  KeyInv'
<1>0. KeyTypeOK /\ EndsInOrder /\ "home" \in Tasks
  BY DEF KeyInv, Tasks
<1> USE <1>0 DEF KeyTypeOK, TaskGoes, deviceVars, readerVars, servoVars, mainVars
<1>1. CASE TaskEnters(t)
  <2>1. EndsInOrder'
    BY <1>1 DEF TaskEnters, EndsInOrder, NoStraggler, Assists
  <2> QED BY <1>1, <2>1, ThreadKeeps DEF TaskEnters
<1>2. CASE TaskStops(t)
  <2>1. EndsInOrder'
    BY <1>2 DEF TaskStops, EndsInOrder, NoStraggler, Assists
  <2> QED BY <1>2, <2>1, ThreadKeeps DEF TaskStops
<1>3. CASE TaskDelays(t)
  <2>1. EndsInOrder'
    BY <1>3 DEF TaskDelays, EndsInOrder, NoStraggler, Assists
  <2> QED BY <1>3, <2>1, ThreadKeeps DEF TaskDelays
<1>4. CASE TaskMoves(t)
  <2>1. servoOn' \in BOOLEAN /\ (servoOn' => servoOn)
    <3>1. servoOn \in BOOLEAN
      OBVIOUS
    <3>2. servoOn' \in {servoOn, FALSE}
      BY <1>4 DEF TaskMoves
    <3> QED BY <3>1, <3>2, Reset, Zenon
  <2>2. NoStraggler => NoStraggler'
    BY <1>4 DEF TaskMoves, NoStraggler, Assists
  <2>3. EndsInOrder'
    BY <1>4, <2>1, <2>2 DEF TaskMoves, EndsInOrder
  <2> QED BY <1>4, <2>1, <2>3, ThreadKeeps DEF TaskMoves
<1>5. CASE TaskMoved(t)
  <2>1. EndsInOrder'
    BY <1>5 DEF TaskMoved, MoveLeads, EndsInOrder, NoStraggler, Assists
  <2> QED BY <1>5, <2>1, ThreadKeeps DEF TaskMoved
<1>6. CASE TaskStartsServo(t)
  <2>1. EndsInOrder'
    BY <1>6 DEF TaskStartsServo, EndsInOrder, NoStraggler, Assists
  <2> QED BY <1>6, <2>1, ThreadKeeps DEF TaskStartsServo
<1>7. CASE StartTimesOut(t)
  <2>1. EndsInOrder'
    BY <1>7 DEF StartTimesOut, EndsInOrder, NoStraggler, Assists
  <2> QED BY <1>7, <2>1, ThreadKeeps DEF StartTimesOut
<1>8. CASE StartServed(t)
  <2>1. /\ t \in starting /\ UNCHANGED <<called, exiting, main, clean, velocity>>
        /\ stage'["home"] \in {stage["home"], "idle"}
    BY <1>8 DEF StartServed
  <2>2. ~NoStraggler
    BY <2>1 DEF NoStraggler
  <2>3. EndsInOrder'
    BY <1>8, <2>1, <2>2 DEF StartServed, EndsInOrder
  <2>4. /\ stage' = [stage EXCEPT ![t] = stage'[t]] /\ stage'[t] \in {stage[t], "idle"}
        /\ starting' \subseteq Tasks
    BY <1>8 DEF StartServed
  <2>5. /\ servoOn' \in BOOLEAN /\ servoStarted' \in BOOLEAN
        /\ (servoStarted => servoStarted')
    <3>1. servoOn \in BOOLEAN /\ servoStarted \in BOOLEAN
      OBVIOUS
    <3>2. CASE UNCHANGED <<servoOn, servoStarted>>
      BY <3>1, <3>2
    <3>3. CASE /\ servoOn' = TRUE
               /\ servoStarted' = (servoStarted \/ (main # "done" /\ stage[t] = "starting" /\ t = "home"))
      BY <3>1, <3>3
    <3> QED BY <1>8, <3>2, <3>3 DEF StartServed
  <2>6. KeyTypeOK'
    BY <1>8, <2>1, <2>4, <2>5 DEF StartServed
  <2> QED BY <1>8, <2>3, <2>5, <2>6, ThreadKeeps DEF StartServed
<1> QED BY <1>1, <1>2, <1>3, <1>4, <1>5, <1>6, <1>7, <1>8 DEF TaskStep

\* The steps of the main thread.
LEMMA MainKeeps == ASSUME KeyInv, MainStep PROVE KeyInv'
<1>0. KeyTypeOK /\ EndsInOrder
  BY DEF KeyInv
<1> USE <1>0 DEF KeyTypeOK, deviceVars, readerVars, servoVars
<1>1. CASE MainStops
  <2>1. EndsInOrder'
    BY <1>1 DEF MainStops, HomeIsOver, EndsInOrder
  <2> QED BY <1>1, <2>1, ThreadKeeps DEF MainStops
<1>2. CASE MainStopsServo
  <2>1. EndsInOrder'
    BY <1>2 DEF MainStopsServo, EndsInOrder, NoStraggler
  <2>2. clean' \in BOOLEAN /\ servoOn' \in BOOLEAN
    BY <1>2 DEF MainStopsServo, NoStraggler
  <2> QED BY <1>2, <2>1, <2>2, ThreadKeeps DEF MainStopsServo
<1>3. CASE MainEnds
  <2>1. EndsInOrder'
    BY <1>3 DEF MainEnds, EndsInOrder, NoStraggler
  <2> QED BY <1>3, <2>1, ThreadKeeps DEF MainEnds
<1> QED BY <1>1, <1>2, <1>3 DEF MainStep

LEMMA KeyInvStep == KeyInv /\ [KeyNext]_keyVars => KeyInv'
<1> SUFFICES ASSUME KeyInv, [KeyNext]_keyVars PROVE KeyInv'
  OBVIOUS
<1>1. KeyTypeOK /\ EndsInOrder
  BY DEF KeyInv
<1>2. ASSUME NEW k \in Keyboards, NEW key \in keys, KeyDown(k, key) PROVE KeyInv'
  <2>1. Event(k, key, "down") /\ held' = [held EXCEPT ![k] = @ \cup {key}]
    BY <1>2 DEF KeyDown
  <2>2. /\ held' \in [Keyboards -> SUBSET keys] /\ key \in held'[k]
        /\ \A l \in Keyboards : held[l] \subseteq held'[l]
        /\ \A l \in Keyboards \ {k} : held'[l] = held[l]
    BY <1>1, <2>1 DEF KeyTypeOK
  <2> QED  BY <2>1, <2>2, StrokeKeeps
<1>3. ASSUME NEW k \in Keyboards, NEW key \in keys, KeyUp(k, key) PROVE KeyInv'
  <2>1. Event(k, key, "up") /\ held' = [held EXCEPT ![k] = @ \ {key}]
    BY <1>3 DEF KeyUp
  <2>2. /\ held' \in [Keyboards -> SUBSET keys]
        /\ \A l \in Keyboards : held[l] \ {key} \subseteq held'[l]
        /\ \A l \in Keyboards \ {k} : held'[l] = held[l]
    BY <1>1, <2>1 DEF KeyTypeOK
  <2> QED  BY <2>1, <2>2, StrokeKeeps
<1>4. ASSUME NEW key \in Control, ControlKey(key) PROVE KeyInv'
  <2>1. PICK k \in opened : Event(k, key, "down")
    BY <1>4 DEF ControlKey
  <2>2. k \in Keyboards /\ held' = held /\ held \in [Keyboards -> SUBSET keys]
    BY <1>1, <1>4, <2>1 DEF ControlKey, KeyTypeOK
  <2> QED  BY <2>1, <2>2, StrokeKeeps
<1>5. ASSUME NEW k \in Keyboards, ReadKey(k) PROVE KeyInv'
  BY <1>5, ReadKeyKeeps
<1>6. CASE SetVelocity
  BY <1>6, SetVelocityKeeps
<1>7. ASSUME NEW k \in Keyboards, LoseKeyboard(k) PROVE KeyInv'
  BY <1>7, LoseKeyboardKeeps
<1>8. ASSUME NEW t \in Tasks, TaskStep(t) \/ StartServed(t) PROVE KeyInv'
  BY <1>8, TaskKeeps
<1>9. CASE MainStep
  BY <1>9, MainKeeps
<1>10. CASE UNCHANGED keyVars
  <2>1. KeyTypeOK' /\ EndsInOrder'
    BY <1>1, <1>10 DEF keyVars, KeyTypeOK, EndsInOrder, NoStraggler
  <2> QED BY <1>10, <2>1, ThreadKeeps DEF keyVars, deviceVars
<1> QED
  BY <1>2, <1>3, <1>4, <1>5, <1>6, <1>7, <1>8, <1>9, <1>10 DEF KeyNext, Control

\* The keyboard node's sets, queues and flags keep their types.
THEOREM KeyTypeCorrect == KeySpec => []KeyTypeOK
<1>1. KeyInv => KeyTypeOK
  BY DEF KeyInv
<1> QED  BY KeyInvInit, KeyInvStep, <1>1, PTL DEF KeySpec

\* The arm moves for keys that are down, or whose release is still to be read, or that
\* went with their keyboard (_read_loop, _recompute_velocity).  When the node has shut
\* down (run, _run_teleop) it commands nothing; and Servo is off if its stop was confirmed
\* and no align, orient or level thread, and no request to start it, was left then.  An
\* unconfirmed stop, or one that such a thread undoes, is excepted: the code rules out
\* neither.
THEOREM KeysDoExplainMotion == KeySpec => []KeysExplainMotion
<1>1. KeyInv => KeysExplainMotion
  BY DEF KeyInv, KeysExplainMotion, MotionAccounted, Accounted, EndsInOrder
<1> QED  BY KeyInvInit, KeyInvStep, <1>1, PTL DEF KeySpec

-------------------------------------------------------------------------------
(***************************************************************************)
(* The prompt.  While the panel counts as not visible, either it was away  *)
(* for the confirm period or it was seen while nothing polled; while it    *)
(* counts as visible and is being lost, it has been out of view for at     *)
(* least as long as the loss has been counted.                             *)
(***************************************************************************)

PromptInv ==
    /\ PromptTypeOK
    /\ ~wasVisible => away \/ skipped
    /\ wasVisible /\ lostFor # Never => away \/ skipped \/ unseen >= Capped(lostFor + 1)

LEMMA PromptInvInit == PromptInit => PromptInv
<1> SUFFICES ASSUME PromptInit PROVE PromptInv
  OBVIOUS
<1>1. /\ ~wasVisible /\ away /\ ~skipped /\ ~inView /\ ~prompting
      /\ unseen = Confirm /\ lostFor = Never /\ loop \in {"keyboard", "gamepad"}
  BY DEF PromptInit
<1>2. closed \in BOOLEAN
  BY DEF PromptInit
<1>3. {inView, closed, wasVisible, prompting, away, skipped} \subseteq BOOLEAN
  BY <1>2 DEF PromptInit
<1> QED  BY <1>1, <1>3, PromptAssumption DEF PromptInv, PromptTypeOK

\* A poll that passes the gate: what it finds lost, and what it shows.
LEMMA OpenPoll ==
    ASSUME PromptInv, Poll, ~closed
    PROVE  PromptInv' /\ (~wasVisible /\ wasVisible' => away \/ skipped)
<1> USE PromptAssumption DEF PromptInv, PromptTypeOK
<1>1. /\ unseen' = (IF inView THEN 0 ELSE Capped(unseen + 1))
      /\ lostFor' = LostNow
      /\ UNCHANGED <<loop, inView, closed>>
  BY DEF Poll
<1>2. /\ prompting' = (prompting \/ Sighted)
      /\ away' = (~Sighted /\ (away \/ unseen' = Confirm))
      /\ skipped' = (skipped /\ ~Sighted)
      /\ wasVisible' = Visible
  BY DEF Poll
<1>3. {inView', closed', wasVisible', prompting', away', skipped'} \subseteq BOOLEAN
  <2>1. {prompting', away', skipped'} \subseteq BOOLEAN
    BY <1>2
  <2>2. wasVisible' \in BOOLEAN
    BY <1>2 DEF Visible
  <2> QED  BY <1>1, <2>1, <2>2
<1>4. CASE inView
  <2>1. /\ unseen' = 0 /\ lostFor' = Never
        /\ wasVisible'
    BY <1>1, <1>2, <1>4 DEF LostNow, Visible
  <2> QED  BY <1>1, <1>3, <1>4, <2>1
<1>5. CASE ~inView /\ wasVisible
  <2>1. CASE lostFor = Never
    <3>1. unseen' = Capped(unseen + 1) /\ lostFor' = 0 /\ unseen' \in 1..Confirm
      BY <1>1, <1>5, <2>1 DEF LostNow, Capped
    <3>2. wasVisible'
      <4>1. LostNow = 0 /\ 0 < Confirm
        BY <1>5, <2>1 DEF LostNow
      <4>2. Visible
        BY <1>5, <4>1 DEF Visible
      <4> QED  BY <1>2, <4>2, Zenon
    <3>3. unseen' >= Capped(lostFor' + 1)
      BY <3>1 DEF Capped
    <3> QED  BY <1>1, <1>3, <1>5, <3>1, <3>2, <3>3
  <2>2. CASE lostFor # Never
    <3>1. /\ lostFor \in 0..Confirm /\ lostFor' = Capped(lostFor + 1) /\ lostFor' \in 0..Confirm
          /\ unseen' = Capped(unseen + 1) /\ unseen' \in 0..Confirm
      BY <1>1, <1>5, <2>2 DEF LostNow, Elapsed, Capped
    <3>2. ~Sighted /\ (wasVisible' <=> lostFor' < Confirm)
      BY <1>1, <1>2, <1>5 DEF Sighted, Visible
    <3>3. skipped' <=> skipped
      BY <1>2, <3>2
    <3>4. away' <=> away \/ unseen' = Confirm
      BY <1>2, <3>2
    <3>5. away \/ skipped \/ unseen >= Capped(lostFor + 1)
      BY <1>5, <2>2
    <3>6. unseen >= Capped(lostFor + 1) =>
            /\ unseen' >= Capped(lostFor' + 1)
            /\ lostFor' >= Confirm => unseen' = Confirm
      BY <3>1 DEF Capped
    <3>7. ~wasVisible' => lostFor' >= Confirm
      BY <3>1, <3>2
    <3> QED  BY <1>1, <1>3, <1>5, <3>1, <3>3, <3>4, <3>5, <3>6, <3>7
  <2> QED  BY <2>1, <2>2
<1>6. CASE ~inView /\ ~wasVisible
  <2>1. ~Visible /\ ~Sighted
    BY <1>6 DEF Visible, Sighted
  <2>2. ~wasVisible' /\ (away => away') /\ (skipped => skipped')
    BY <1>2, <2>1
  <2>3. unseen' \in 0..Confirm /\ lostFor' \in 0..Confirm \cup {Never}
    BY <1>1, <1>6 DEF LostNow, Elapsed, Capped
  <2> QED  BY <1>1, <1>3, <1>6, <2>2, <2>3
<1> QED  BY <1>4, <1>5, <1>6

\* A poll period in which the gate is closed.
LEMMA ClosedPoll ==
    ASSUME PromptInv, Poll, closed
    PROVE  PromptInv' /\ wasVisible' = wasVisible
<1> USE PromptAssumption DEF PromptInv, PromptTypeOK
<1>1. /\ unseen' = (IF inView THEN 0 ELSE Capped(unseen + 1)) /\ lostFor' = Elapsed
      /\ UNCHANGED <<loop, inView, closed, wasVisible, prompting>>
  BY DEF Poll
<1>2. /\ away' = (away \/ unseen' = Confirm)
      /\ skipped' = (skipped \/ (inView /\ lostFor # Never))
  BY DEF Poll
<1>3. (away => away') /\ (skipped => skipped') /\ (inView /\ lostFor # Never => skipped')
      /\ {away', skipped'} \subseteq BOOLEAN
  BY <1>2
<1>4. unseen' \in 0..Confirm /\ lostFor' \in 0..Confirm \cup {Never}
  BY <1>1 DEF Elapsed, Capped
<1>5. ASSUME wasVisible, lostFor' # Never PROVE away' \/ skipped' \/ unseen' >= Capped(lostFor' + 1)
  <2>1. lostFor \in 0..Confirm /\ lostFor' = Capped(lostFor + 1)
    BY <1>1, <1>5 DEF Elapsed
  <2>2. CASE ~inView /\ unseen >= Capped(lostFor + 1)
    <3>1. unseen' = Capped(unseen + 1)
      BY <1>1, <2>2
    <3> QED  BY <2>1, <2>2, <3>1 DEF Capped
  <2>3. lostFor # Never
    BY <2>1
  <2> QED  BY <1>3, <1>5, <2>2, <2>3
<1>6. UNCHANGED wasVisible /\ {inView', closed', wasVisible', prompting'} \subseteq BOOLEAN
  BY <1>1
<1> QED  BY <1>1, <1>3, <1>4, <1>5, <1>6

LEMMA PromptInvStep ==
    PromptInv /\ [PromptNext]_promptVars =>
        PromptInv' /\ [~wasVisible /\ wasVisible' => away \/ skipped]_promptVars
<1> SUFFICES ASSUME PromptInv, [PromptNext]_promptVars
             PROVE  PromptInv' /\ (~wasVisible /\ wasVisible' => away \/ skipped)
  OBVIOUS
<1>1. CASE Poll
  BY <1>1, OpenPoll, ClosedPoll
<1>2. CASE PanelComesOrGoes
  BY <1>2 DEF PromptInv, PromptTypeOK, PanelComesOrGoes
<1>3. CASE GateMoves
  BY <1>3 DEF PromptInv, PromptTypeOK, GateMoves
<1>4. CASE Dismissed
  BY <1>4 DEF PromptInv, PromptTypeOK, Dismissed
<1>5. CASE UNCHANGED promptVars
  BY <1>5 DEF PromptInv, PromptTypeOK, promptVars
<1> QED  BY <1>1, <1>2, <1>3, <1>4, <1>5 DEF PromptNext

\* Of the two input loops (_check_panel_visibility, _on_joy), neither prompts for a
\* flicker of the detection: a new prompt needs a panel that was away for the whole
\* confirm period, or one seen while the pad's gate was closed.
THEOREM PromptsAreSightings == PromptSpec => OnePromptPerSighting
<1> QED  BY PromptInvInit, PromptInvStep, PTL DEF PromptSpec, OnePromptPerSighting

-------------------------------------------------------------------------------
(***************************************************************************)
(* The parts side by side: a step of one of them leaves the others' state  *)
(* alone, so that each keeps its own invariant.                            *)
(***************************************************************************)

ArmInv == LockTypeOK /\ AlignInv /\ TeleopInv /\ KeyInv /\ PromptInv

LEMMA PartsStep ==
    [MCNext]_armVars =>
        /\ [LockNext]_lockVars /\ [AlignNext]_alignVars /\ [TeleopNext]_teleopVars
        /\ [KeyNext]_keyVars /\ [PromptNext]_promptVars
  BY DEF MCNext, armVars, LockPart, AlignPart, TeleopPart, KeyPart, PromptPart

\* Whatever part is at work, all of them keep the types of their state.
THEOREM ArmTypeCorrect == MCSpec => []ArmTypeOK
<1>1. MCInit => ArmInv
  BY LockTypeInit, AlignInvInit, TeleopInvInit, KeyInvInit, PromptInvInit DEF MCInit, ArmInv
<1>2. ArmInv /\ [MCNext]_armVars => ArmInv'
  BY PartsStep, LockTypeStep, AlignInvStep, TeleopInvStep, KeyInvStep, PromptInvStep DEF ArmInv
<1>3. ArmInv => ArmTypeOK
  BY DEF ArmInv, ArmTypeOK, AlignInv, TeleopInv, KeyInv, PromptInv
<1> QED  BY <1>1, <1>2, <1>3, PTL DEF MCSpec

===============================================================================
