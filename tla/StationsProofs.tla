----------------------------- MODULE StationsProofs -----------------------------
(***************************************************************************)
(* The rover's stations: proofs about the cameras, the dataset node, the   *)
(* fault log, the tower lamps and the light bar; and that each station     *)
(* keeps what was proved of it alone when all of them stand side by side.  *)
(***************************************************************************)
EXTENDS MCStations, PeripheralsProofs, RoverTeleopProofs, LoraProofs, FiniteSetTheorems,
        WellFoundedInduction, TLAPS

(***************************************************************************)
(* Induction over the natural numbers, for sets: the least number outside  *)
(* of S would follow one inside.                                           *)
(***************************************************************************)
Earlier == {p \in Nat \X Nat : p[1] < p[2]}

LEMMA EarlierIsWellFounded == IsWellFoundedOn(Earlier, Nat)
<1>1. Earlier = OpToRel(<, Nat)
  BY Zenon DEF OpToRel, Earlier
<1> QED  BY <1>1, NatLessThanWellFounded, Zenon

LEMMA StepByStep ==
    ASSUME NEW S, 0 \in S, \A n \in Nat : n \in S => n + 1 \in S
    PROVE  Nat \subseteq S
<1> SUFFICES ASSUME Nat \ S # {} PROVE FALSE
  OBVIOUS
<1>1. PICK x \in Nat \ S : \A y \in Nat \ S : ~(<<y, x>> \in Earlier)
  BY EarlierIsWellFounded, WFMin, Zenon
<1>2. x # 0 /\ x \in Nat /\ x \notin S
  BY <1>1
<1>3. x - 1 \in Nat \ S /\ x - 1 < x
  BY <1>2
<1>4. <<x - 1, x>> \in Earlier
  BY <1>2, <1>3 DEF Earlier
<1> QED  BY <1>1, <1>3, <1>4


-------------------------------------------------------------------------------
(***************************************************************************)
(* The camera.  Who counts as a user is where the threads stand.  Of a     *)
(* branch that is there, a valve at odds with its users has a thread on    *)
(* its way to turn it that way, unless that thread was overtaken.          *)
(***************************************************************************)

Watching == {v \in Viewers : viewer[v] \in {"opening", "watching"}}

Recordings == IF recording THEN 1 ELSE 0
Captures == IF service \in {"capture opens", "capture asks", "capture waits"} THEN 1 ELSE 0

SaveCounted == users["save"] = Recordings + Captures
OpensToRecord == service = "record opens" => recording

UsersCounted ==
    /\ users["stream"] = Cardinality(Watching)
    /\ SaveCounted
    /\ OpensToRecord

PipeBuilt ==
    /\ pipe = "none" => valves = {} /\ built = {}
    /\ pipe = "building" => valves \subseteq built
    /\ pipe = "up" => built = {}
    /\ pipe # "up" => gate = "clear"

Opening(b) ==
    IF b = "stream" THEN \E v \in Viewers : viewer[v] = "opening"
    ELSE service \in {"capture opens", "record opens"}

Closing(b) ==
    IF b = "stream" THEN \E v \in Viewers : viewer[v] = "closing"
    ELSE service \in {"capture closes", "record closes"}

Owed(b) ==
    b \notin stale /\ (pipe = "up" \/ b \in built) =>
        /\ b \notin valves /\ users[b] > 0 => Opening(b)
        /\ b \in valves /\ users[b] = 0 => Closing(b)

ValveOwed == \A b \in Branches : Owed(b)

CameraInv == CameraTypeOK /\ UsersCounted /\ PipeBuilt /\ ValveOwed /\ RequestsStand

LEMMA CameraInvInit == CameraInit => CameraInv
<1> SUFFICES ASSUME CameraInit PROVE CameraInv
  OBVIOUS
<1>1. Watching = {} /\ Cardinality({}) = 0 /\ Cardinality(Viewers) \in Nat
  BY FS_EmptySet, FS_CardinalityType, QueueAssumption DEF CameraInit, Watching
<1>2. users = [b \in Branches |-> 0] /\ viewer = [v \in Viewers |-> "away"]
  BY DEF CameraInit
<1>3. CameraTypeOK
  <2>1. 0 \in 0..Cardinality(Viewers) + 2 /\ 0 \in 0..QueueSize
    BY <1>1, QueueAssumption
  <2>2. users \in [Branches -> 0..Cardinality(Viewers) + 2]
    BY <1>2, <2>1
  <2> QED  BY <1>2, <2>1, <2>2 DEF CameraInit, CameraTypeOK
<1>4. UsersCounted
  BY <1>1, <1>2 DEF CameraInit, UsersCounted, SaveCounted, OpensToRecord, Recordings, Captures, Branches
<1>5. PipeBuilt /\ ValveOwed /\ RequestsStand
  BY DEF CameraInit, PipeBuilt, ValveOwed, Owed, RequestsStand, Waiters, Waiting
<1> QED  BY <1>3, <1>4, <1>5 DEF CameraInv

-------------------------------------------------------------------------------
(* Who uses a branch *)

LEMMA ViewersAreFinite ==
    /\ Cardinality(Viewers) \in Nat
    /\ \A W \in SUBSET Viewers :
         IsFiniteSet(W) /\ Cardinality(W) \in 0..Cardinality(Viewers)
<1>1. Cardinality(Viewers) \in Nat
  BY QueueAssumption, FS_CardinalityType
<1>2. ASSUME NEW W \in SUBSET Viewers PROVE IsFiniteSet(W) /\ Cardinality(W) \in 0..Cardinality(Viewers)
  <2>1. IsFiniteSet(W) /\ Cardinality(W) <= Cardinality(Viewers)
    BY QueueAssumption, FS_Subset
  <2>2. Cardinality(W) \in Nat
    BY <2>1, FS_CardinalityType
  <2> QED  BY <1>1, <2>1, <2>2
<1> QED  BY <1>1, <1>2

\* A thread that comes is counted, one that goes is not.
LEMMA ViewerMoves ==
    ASSUME CameraTypeOK, NEW v \in Viewers, NEW s, ViewerTo(v, s)
    PROVE  /\ \A w \in Viewers \ {v} : viewer'[w] = viewer[w]
           /\ viewer'[v] = s
           /\ s \in {"opening", "watching"} =>
                Cardinality(Watching') = IF v \in Watching THEN Cardinality(Watching)
                                         ELSE Cardinality(Watching) + 1
           /\ s \notin {"opening", "watching"} =>
                Cardinality(Watching') = IF v \in Watching THEN Cardinality(Watching) - 1
                                         ELSE Cardinality(Watching)
           /\ v \in Watching => Cardinality(Watching) > 0
<1>1. viewer' = [viewer EXCEPT ![v] = s] /\ viewer \in [Viewers -> {"away", "opening", "watching", "closing"}]
  BY DEF ViewerTo, CameraTypeOK
<1>2. /\ \A w \in Viewers \ {v} : viewer'[w] = viewer[w]
      /\ viewer'[v] = s
  BY <1>1
<1>3. IsFiniteSet(Watching) /\ Cardinality(Watching) \in Nat
  <2>1. Watching \subseteq Viewers
    BY DEF Watching
  <2> QED  BY <2>1, ViewersAreFinite
<1>4. s \in {"opening", "watching"} => Watching' = Watching \cup {v}
  BY <1>2 DEF Watching
<1>5. s \notin {"opening", "watching"} => Watching' = Watching \ {v}
  BY <1>2 DEF Watching
<1>6. Cardinality(Watching \cup {v}) = IF v \in Watching THEN Cardinality(Watching) ELSE Cardinality(Watching) + 1
  BY <1>3, FS_AddElement
<1>7. Cardinality(Watching \ {v}) = IF v \in Watching THEN Cardinality(Watching) - 1 ELSE Cardinality(Watching)
  BY <1>3, FS_RemoveElement
<1>8. v \in Watching => Cardinality(Watching) > 0
  BY <1>3, FS_EmptySet
<1> QED  BY <1>2, <1>4, <1>5, <1>6, <1>7, <1>8, Zenon

\* What the bounds of the counts follow from.
LEMMA UsersTyped ==
    ASSUME UsersCounted', users' \in [Branches -> Int]
    PROVE  users' \in [Branches -> 0..Cardinality(Viewers) + 2]
<1>1. Watching' \subseteq Viewers
  BY DEF Watching
<1>2. Cardinality(Watching') \in 0..Cardinality(Viewers) /\ Cardinality(Viewers) \in Nat
  BY <1>1, ViewersAreFinite
<1>3. users'["stream"] \in 0..Cardinality(Viewers) + 2
  <2>1. users'["stream"] = Cardinality(Watching')
    BY DEF UsersCounted
  <2> QED  BY <1>2, <2>1
<1>4. users'["save"] \in 0..Cardinality(Viewers) + 2
  <2>1. users'["save"] \in {0, 1, 2}
    <3>1. SaveCounted'
      BY DEF UsersCounted
    <3>2. Recordings' = 0 \/ Recordings' = 1
      BY DEF Recordings
    <3>3. Captures' = 0 \/ Captures' = 1
      BY DEF Captures
    <3>4. CASE Recordings' = 0 /\ Captures' = 0
      BY <3>1, <3>4 DEF SaveCounted
    <3>5. CASE Recordings' = 0 /\ Captures' = 1
      BY <3>1, <3>5 DEF SaveCounted
    <3>6. CASE Recordings' = 1 /\ Captures' = 0
      BY <3>1, <3>6 DEF SaveCounted
    <3>7. CASE Recordings' = 1 /\ Captures' = 1
      BY <3>1, <3>7 DEF SaveCounted
    <3> QED  BY <3>2, <3>3, <3>4, <3>5, <3>6, <3>7
  <2> QED  BY <1>2, <2>1
<1> QED  BY <1>3, <1>4 DEF Branches

LEMMA CountsAreNat == CameraInv => \A b \in Branches : users[b] \in Nat
<1>1. CameraInv => users \in [Branches -> 0..Cardinality(Viewers) + 2]
  BY DEF CameraInv, CameraTypeOK
<1>2. 0..Cardinality(Viewers) + 2 \subseteq Nat
  BY ViewersAreFinite
<1> QED  BY <1>1, <1>2

\* Of the branches, only the one whose valve is turned is concerned.
LEMMA TurnsOn ==
    ASSUME CameraInv, NEW b \in Branches, SetValve(b, TRUE), users[b] > 0,
           gate' = gate
    PROVE  /\ UNCHANGED <<pipe, built, users>> /\ valves' \in SUBSET Branches /\ stale' \in SUBSET Branches
           /\ \A c \in Branches \ {b} : (c \in valves' <=> c \in valves) /\ (c \in stale' <=> c \in stale)
           /\ (pipe = "up" \/ b \in built) /\ b \notin stale' => b \in valves'
           /\ PipeBuilt'
<1>1. /\ UNCHANGED <<pipe, built, users>>
      /\ valves' = (IF pipe # "up" THEN valves ELSE valves \cup {b})
  BY DEF SetValve
<1>2. CASE pipe = "up"
  <2>1. stale' = stale \ {b}
    BY <1>2 DEF SetValve
  <2> QED  BY <1>1, <1>2, <2>1 DEF CameraInv, CameraTypeOK, PipeBuilt
<1>3. CASE pipe # "up" /\ b \in built /\ b \notin valves
  <2>1. stale' = stale \cup {b}
    BY <1>3 DEF SetValve
  <2> QED  BY <1>1, <1>3, <2>1 DEF CameraInv, CameraTypeOK, PipeBuilt
<1>4. CASE pipe # "up" /\ ~(b \in built /\ b \notin valves)
  <2>1. stale' = stale
    BY <1>4 DEF SetValve
  <2> QED  BY <1>1, <1>4, <2>1 DEF CameraInv, CameraTypeOK, PipeBuilt
<1> QED  BY <1>2, <1>3, <1>4

LEMMA TurnsOff ==
    ASSUME CameraInv, NEW b \in Branches, SetValve(b, FALSE), gate' = gate
    PROVE  /\ UNCHANGED <<pipe, built, users>> /\ valves' \in SUBSET Branches /\ stale' \in SUBSET Branches
           /\ \A c \in Branches \ {b} : (c \in valves' <=> c \in valves) /\ (c \in stale' <=> c \in stale)
           /\ (pipe = "up" \/ b \in built) /\ b \notin stale' =>
                b \notin valves' /\ (users[b] = 0 \/ (pipe # "up" /\ b \notin stale /\ b \notin valves))
           /\ PipeBuilt'
<1>1. /\ UNCHANGED <<pipe, built, users>>
      /\ valves' = (IF pipe # "up" THEN valves ELSE valves \ {b})
  BY DEF SetValve
<1>0. users[b] \in Nat
  BY CountsAreNat
<1>2. CASE pipe = "up" /\ users[b] = 0
  <2>1. stale' = stale \ {b}
    BY <1>2 DEF SetValve
  <2> QED  BY <1>1, <1>2, <2>1 DEF CameraInv, CameraTypeOK, PipeBuilt
<1>3. CASE pipe = "up" /\ users[b] > 0
  <2>1. stale' = stale \cup {b}
    BY <1>3 DEF SetValve
  <2> QED  BY <1>1, <1>3, <2>1 DEF CameraInv, CameraTypeOK, PipeBuilt
<1>4. CASE pipe # "up" /\ b \in built /\ b \in valves
  <2>1. stale' = stale \cup {b}
    BY <1>4 DEF SetValve
  <2> QED  BY <1>1, <1>4, <2>1 DEF CameraInv, CameraTypeOK, PipeBuilt
<1>5. CASE pipe # "up" /\ ~(b \in built /\ b \in valves)
  <2>1. stale' = stale
    BY <1>5 DEF SetValve
  <2> QED  BY <1>1, <1>5, <2>1 DEF CameraInv, CameraTypeOK, PipeBuilt
<1> QED  BY <1>0, <1>2, <1>3, <1>4, <1>5

-------------------------------------------------------------------------------
(* The steps *)

LEMMA OwedKept ==
    ASSUME NEW b, Owed(b), users'[b] = users[b], b \in stale' <=> b \in stale,
           b \in valves' <=> b \in valves, pipe' = "up" \/ b \in built' => pipe = "up" \/ b \in built,
           Opening(b) => Opening(b)', Closing(b) => Closing(b)'
    PROVE  Owed(b)'
  BY DEF Owed

LEMMA RequestsKept ==
    ASSUME CameraInv, demand' <=> demand, gate' = gate, cut' = cut, \A w \in Waiters : Waiting(w)' => Waiting(w)
    PROVE  RequestsStand'
  BY DEF CameraInv, RequestsStand

\* Threads that are not at a valve, nor among its users.
LEMMA BystanderKeeps ==
    ASSUME CameraInv, UNCHANGED <<pipe, valves, built, viewVars, recording>>,
           \/ service' = service
           \/ service = "capture asks" /\ service' = "capture waits"
           \/ service = "record wakes" /\ service' = "idle",
           pipe # "up" => gate' = gate
    PROVE  UsersCounted' /\ ValveOwed' /\ PipeBuilt'
<1>1. UNCHANGED <<Recordings, Captures, Watching>> /\ UNCHANGED <<users, stale, viewer>>
  BY DEF Recordings, Captures, Watching, viewVars
<1>2. UsersCounted'
  BY <1>1 DEF CameraInv, UsersCounted, SaveCounted, OpensToRecord
<1>3. PipeBuilt'
  BY DEF CameraInv, PipeBuilt
<1>4. \A b \in Branches : (Opening(b) => Opening(b)') /\ (Closing(b) => Closing(b)')
  BY <1>1 DEF Opening, Closing
<1>5. ASSUME NEW b \in Branches PROVE Owed(b)'
  BY <1>1, <1>4, OwedKept DEF CameraInv, ValveOwed
<1> QED  BY <1>2, <1>3, <1>5 DEF ValveOwed

\* What leaves the save requests alone keeps the types once the rest is typed.
LEMMA CameraTypeKept ==
    ASSUME CameraTypeOK, UNCHANGED saveVars, UNCHANGED <<pipe, built>>,
           valves' \subseteq Branches, stale' \subseteq Branches,
           users' \in [Branches -> 0..Cardinality(Viewers) + 2],
           viewer' \in [Viewers -> {"away", "opening", "watching", "closing"}]
    PROVE  CameraTypeOK'
<1>1. /\ UNCHANGED <<service, recording, wake, recorder, demand>>
      /\ UNCHANGED <<gate, newer, backlog, cut>>
  BY DEF saveVars
<1>2. /\ service' \in {"idle", "capture opens", "capture asks", "capture waits", "capture closes",
                      "record opens", "record closes", "record wakes"}
      /\ recording' \in BOOLEAN /\ wake' \in BOOLEAN /\ demand' \in BOOLEAN
      /\ recorder' \in {"asleep", "woken", "checks", "waits", "pauses"}
  BY <1>1 DEF CameraTypeOK
<1>3. /\ pipe' \in {"none", "building", "up"} /\ built' \subseteq Branches
      /\ gate' \in {"clear", "seen", "encoding"} /\ newer' \subseteq Waiters
      /\ backlog' \in 0..QueueSize /\ cut' \subseteq Waiters
  BY <1>1 DEF CameraTypeOK
<1> QED  BY <1>2, <1>3, ZenonT(60) DEF CameraTypeOK

LEMMA ArriveKeeps == ASSUME CameraInv, NEW v \in Viewers, Arrive(v) PROVE CameraInv'
<1> DEFINE s == IF IsFirst("stream") THEN "opening" ELSE "watching"
<1>1. /\ viewer[v] = "away" /\ users' = [users EXCEPT !["stream"] = @ + 1] /\ ViewerTo(v, s)
      /\ UNCHANGED <<pipe, valves, built, stale, saveVars>>
  BY DEF Arrive, AddUser
<1>2. CameraTypeOK /\ users["stream"] \in Nat /\ users \in [Branches -> Nat]
  BY CountsAreNat DEF CameraInv, CameraTypeOK, Branches
<1>3. /\ \A w \in Viewers \ {v} : viewer'[w] = viewer[w]
      /\ viewer'[v] = s /\ s \in {"opening", "watching"}
      /\ Cardinality(Watching') = Cardinality(Watching) + 1
  BY <1>1, <1>2, ViewerMoves DEF Watching
<1>4. users'["stream"] = users["stream"] + 1 /\ users'["save"] = users["save"]
  BY <1>1, <1>2 DEF Branches
<1>5. UsersCounted'
  <2>1. UNCHANGED <<Recordings, Captures>>
    BY <1>1 DEF saveVars, Recordings, Captures
  <2> QED  BY <1>1, <1>3, <1>4, <2>1 DEF CameraInv, UsersCounted, SaveCounted, OpensToRecord, saveVars
<1>6. Owed("stream")'
  <2>1. CASE users["stream"] = 0
    <3>1. Opening("stream")'
      BY <1>3, <2>1 DEF IsFirst, Opening
    <3> QED  BY <1>2, <1>4, <3>1 DEF Owed
  <2>2. CASE users["stream"] > 0
    <3>1. Opening("stream") => Opening("stream")'
      BY <1>1, <1>3 DEF Opening
    <3> QED  BY <1>1, <1>2, <1>4, <2>2, <3>1 DEF CameraInv, ValveOwed, Owed, Branches
  <2> QED  BY <1>2, <2>1, <2>2
<1>7. Owed("save")'
  <2>1. (Opening("save") => Opening("save")') /\ (Closing("save") => Closing("save")')
    BY <1>1 DEF Opening, Closing, saveVars
  <2> QED  BY <1>1, <1>4, <2>1, OwedKept DEF CameraInv, ValveOwed, Branches
<1>8. CameraTypeOK'
  <2>1. users' \in [Branches -> 0..Cardinality(Viewers) + 2]
    BY <1>1, <1>2, <1>5, UsersTyped DEF Branches
  <2>2. viewer' \in [Viewers -> {"away", "opening", "watching", "closing"}]
    BY <1>1, <1>2 DEF CameraTypeOK, ViewerTo
  <2>3. CameraTypeOK /\ UNCHANGED saveVars /\ UNCHANGED <<pipe, built, valves, stale>>
    BY <1>1 DEF CameraInv
  <2>4. valves' \subseteq Branches /\ stale' \subseteq Branches
    BY <2>3 DEF CameraTypeOK
  <2> QED  BY <2>1, <2>2, <2>3, <2>4, CameraTypeKept
<1>9. PipeBuilt' /\ RequestsStand'
  BY <1>1 DEF CameraInv, PipeBuilt, RequestsStand, Waiting, saveVars
<1> QED  BY <1>5, <1>6, <1>7, <1>8, <1>9 DEF CameraInv, ValveOwed, Branches

LEMMA LeaveKeeps == ASSUME CameraInv, NEW v \in Viewers, Leave(v) PROVE CameraInv'
<1> DEFINE s == IF IsLastUser("stream") THEN "closing" ELSE "away"
<1>1. /\ viewer[v] = "watching" /\ users' = [users EXCEPT !["stream"] = @ - 1] /\ ViewerTo(v, s)
      /\ UNCHANGED <<pipe, valves, built, stale, saveVars>>
  BY DEF Leave, DropUser
<1>2. CameraTypeOK /\ users["stream"] \in Nat /\ users \in [Branches -> Nat]
  BY CountsAreNat DEF CameraInv, CameraTypeOK, Branches
<1>3. /\ \A w \in Viewers \ {v} : viewer'[w] = viewer[w]
      /\ viewer'[v] = s /\ s \notin {"opening", "watching"}
      /\ Cardinality(Watching') = Cardinality(Watching) - 1
  <2>1. v \in Watching
    BY <1>1 DEF Watching
  <2>2. s \notin {"opening", "watching"}
    OBVIOUS
  <2>3. ViewerTo(v, s)
    BY <1>1
  <2> HIDE DEF s
  <2> QED  BY <1>2, <2>1, <2>2, <2>3, ViewerMoves
<1>4. users'["stream"] = users["stream"] - 1 /\ users'["save"] = users["save"]
  BY <1>1, <1>2 DEF Branches
<1>0. users["stream"] > 0
  BY <1>1, <1>2, ViewerMoves DEF CameraInv, UsersCounted, Watching
<1>5. UsersCounted'
  <2>1. UNCHANGED <<Recordings, Captures>>
    BY <1>1 DEF saveVars, Recordings, Captures
  <2> QED  BY <1>1, <1>3, <1>4, <2>1 DEF CameraInv, UsersCounted, SaveCounted, OpensToRecord, saveVars
<1>6. Owed("stream")'
  <2>1. CASE users["stream"] = 1
    <3>1. Closing("stream")'
      BY <1>3, <2>1 DEF IsLastUser, Closing
    <3> QED  BY <1>2, <1>4, <2>1, <3>1 DEF Owed
  <2>2. CASE users["stream"] > 1
    <3>1. Opening("stream") => Opening("stream")'
      BY <1>1, <1>3 DEF Opening
    <3> QED  BY <1>1, <1>2, <1>4, <2>2, <3>1 DEF CameraInv, ValveOwed, Owed, Branches
  <2> QED  BY <1>0, <1>2, <2>1, <2>2
<1>7. Owed("save")'
  <2>1. (Opening("save") => Opening("save")') /\ (Closing("save") => Closing("save")')
    BY <1>1 DEF Opening, Closing, saveVars
  <2> QED  BY <1>1, <1>4, <2>1, OwedKept DEF CameraInv, ValveOwed, Branches
<1>8. CameraTypeOK'
  <2>1. users' \in [Branches -> 0..Cardinality(Viewers) + 2]
    BY <1>1, <1>2, <1>5, UsersTyped DEF Branches
  <2>2. viewer' \in [Viewers -> {"away", "opening", "watching", "closing"}]
    BY <1>1, <1>2 DEF CameraTypeOK, ViewerTo
  <2>3. CameraTypeOK /\ UNCHANGED saveVars /\ UNCHANGED <<pipe, built, valves, stale>>
    BY <1>1 DEF CameraInv
  <2>4. valves' \subseteq Branches /\ stale' \subseteq Branches
    BY <2>3 DEF CameraTypeOK
  <2> QED  BY <2>1, <2>2, <2>3, <2>4, CameraTypeKept
<1>9. PipeBuilt' /\ RequestsStand'
  BY <1>1 DEF CameraInv, PipeBuilt, RequestsStand, Waiting, saveVars
<1> QED  BY <1>5, <1>6, <1>7, <1>8, <1>9 DEF CameraInv, ValveOwed, Branches

LEMMA ViewerTurnsKeeps == ASSUME CameraInv, NEW v \in Viewers, ViewerTurnsValve(v) PROVE CameraInv'
<1>1. UNCHANGED saveVars /\ gate' = gate /\ CameraTypeOK
  BY DEF ViewerTurnsValve, saveVars, CameraInv
<1>2. (Opening("save") => Opening("save")') /\ (Closing("save") => Closing("save")')
  BY <1>1 DEF Opening, Closing, saveVars
<1>3. UNCHANGED <<Recordings, Captures, service, recording>>
  BY <1>1 DEF saveVars, Recordings, Captures
<1>4. RequestsStand'
  BY <1>1 DEF CameraInv, RequestsStand, Waiting, saveVars
<1>5. CASE viewer[v] = "opening" /\ SetValve("stream", TRUE) /\ ViewerTo(v, "watching")
  <2>1. v \in Watching
    BY <1>5 DEF Watching
  <2>2. Cardinality(Watching') = Cardinality(Watching) /\ users["stream"] > 0
    BY <1>1, <1>5, <2>1, ViewerMoves DEF CameraInv, UsersCounted
  <2>3. /\ UNCHANGED <<pipe, built, users>> /\ valves' \in SUBSET Branches /\ stale' \in SUBSET Branches
        /\ ("save" \in valves' <=> "save" \in valves) /\ ("save" \in stale' <=> "save" \in stale)
        /\ (pipe = "up" \/ "stream" \in built) /\ "stream" \notin stale' => "stream" \in valves'
        /\ PipeBuilt'
    BY <1>1, <1>5, <2>2, TurnsOn DEF Branches
  <2>4. UsersCounted'
    BY <1>3, <2>2, <2>3 DEF CameraInv, UsersCounted, SaveCounted, OpensToRecord
  <2>5. Owed("stream")'
    BY <2>2, <2>3 DEF Owed
  <2>6. Owed("save")'
    BY <1>2, <2>3, OwedKept DEF CameraInv, ValveOwed, Branches
  <2>7. CameraTypeOK'
    <3>1. viewer' \in [Viewers -> {"away", "opening", "watching", "closing"}]
      BY <1>1, <1>5 DEF CameraTypeOK, ViewerTo
    <3>2. CameraTypeOK /\ UNCHANGED saveVars /\ users' \in [Branches -> 0..Cardinality(Viewers) + 2]
      BY <1>1, <2>3 DEF CameraInv, CameraTypeOK
    <3> QED  BY <2>3, <3>1, <3>2, CameraTypeKept
  <2> QED  BY <1>4, <2>3, <2>4, <2>5, <2>6, <2>7 DEF CameraInv, ValveOwed, Branches
<1>6. CASE viewer[v] = "closing" /\ SetValve("stream", FALSE) /\ ViewerTo(v, "away")
  <2>1. v \notin Watching
    BY <1>6 DEF Watching
  <2>2. Cardinality(Watching') = Cardinality(Watching) /\ \A w \in Viewers \ {v} : viewer'[w] = viewer[w]
    BY <1>1, <1>6, <2>1, ViewerMoves
  <2>3. /\ UNCHANGED <<pipe, built, users>> /\ valves' \in SUBSET Branches /\ stale' \in SUBSET Branches
        /\ ("save" \in valves' <=> "save" \in valves) /\ ("save" \in stale' <=> "save" \in stale)
        /\ (pipe = "up" \/ "stream" \in built) /\ "stream" \notin stale' =>
             /\ "stream" \notin valves'
             /\ users["stream"] = 0 \/ (pipe # "up" /\ "stream" \notin stale /\ "stream" \notin valves)
        /\ PipeBuilt'
    BY <1>1, <1>6, TurnsOff DEF Branches
  <2>4. UsersCounted'
    BY <1>3, <2>2, <2>3 DEF CameraInv, UsersCounted, SaveCounted, OpensToRecord
  <2>5. Owed("stream")'
    <3>1. Opening("stream") => Opening("stream")'
      BY <1>6, <2>2 DEF Opening
    <3>2. Owed("stream") /\ users["stream"] \in Nat
      BY CountsAreNat DEF CameraInv, ValveOwed, Branches
    <3> QED  BY <2>3, <3>1, <3>2 DEF Owed
  <2>6. Owed("save")'
    BY <1>2, <2>3, OwedKept DEF CameraInv, ValveOwed, Branches
  <2>7. CameraTypeOK'
    <3>1. viewer' \in [Viewers -> {"away", "opening", "watching", "closing"}]
      BY <1>1, <1>6 DEF CameraTypeOK, ViewerTo
    <3>2. CameraTypeOK /\ UNCHANGED saveVars /\ users' \in [Branches -> 0..Cardinality(Viewers) + 2]
      BY <1>1, <2>3 DEF CameraInv, CameraTypeOK
    <3> QED  BY <2>3, <3>1, <3>2, CameraTypeKept
  <2> QED  BY <1>4, <2>3, <2>4, <2>5, <2>6, <2>7 DEF CameraInv, ValveOwed, Branches
<1> QED  BY <1>5, <1>6 DEF ViewerTurnsValve

LEMMA ServiceTurnsKeeps == ASSUME CameraInv, ServiceTurnsValve PROVE CameraInv'
<1>1. UNCHANGED <<viewer, recording, wake, recorder, demand, gate, newer, backlog, cut>> /\ CameraTypeOK
  BY DEF ServiceTurnsValve, CameraInv
<1>2. (Opening("stream") => Opening("stream")') /\ (Closing("stream") => Closing("stream")')
  BY <1>1 DEF Opening, Closing
<1>3. UNCHANGED <<Watching, Recordings>>
  BY <1>1 DEF Watching, Recordings
<1>4. users["stream"] \in Nat /\ users["save"] \in Nat
  BY CountsAreNat DEF Branches
<1>5. service' # "capture waits" /\ service' # "record opens"
  BY DEF ServiceTurnsValve
<1>6. RequestsStand'
  BY <1>1, <1>5 DEF CameraInv, RequestsStand, Waiting
<1>7. CASE /\ service \in {"capture opens", "record opens"} /\ SetValve("save", TRUE)
           /\ service' = IF service = "capture opens" THEN "capture asks" ELSE "record wakes"
  <2>1. Captures' = Captures /\ users["save"] > 0
    <3>1. Captures' = Captures
      BY <1>7 DEF Captures
    <3>2. Recordings = 1 \/ Captures = 1
      <4>1. service = "record opens" => recording
        BY DEF CameraInv, UsersCounted, OpensToRecord
      <4> QED  BY <1>7, <4>1 DEF Recordings, Captures
    <3>3. Recordings \in {0, 1} /\ Captures \in {0, 1}
      BY DEF Recordings, Captures
    <3>4. users["save"] = Recordings + Captures
      BY DEF CameraInv, UsersCounted, SaveCounted
    <3> QED  BY <3>1, <3>2, <3>3, <3>4
  <2>2. /\ UNCHANGED <<pipe, built, users>> /\ valves' \in SUBSET Branches /\ stale' \in SUBSET Branches
        /\ ("stream" \in valves' <=> "stream" \in valves) /\ ("stream" \in stale' <=> "stream" \in stale)
        /\ (pipe = "up" \/ "save" \in built) /\ "save" \notin stale' => "save" \in valves'
        /\ PipeBuilt'
    BY <1>1, <1>7, <2>1, TurnsOn DEF Branches
  <2>3. UsersCounted'
    BY <1>3, <1>5, <2>1, <2>2 DEF CameraInv, UsersCounted, SaveCounted, OpensToRecord
  <2>4. Owed("save")'
    BY <2>1, <2>2 DEF Owed
  <2>5. Owed("stream")'
    BY <1>2, <2>2, OwedKept DEF CameraInv, ValveOwed, Branches
  <2>6. CameraTypeOK'
    BY <1>1, <1>7, <2>2 DEF CameraTypeOK
  <2> QED  BY <1>6, <2>2, <2>3, <2>4, <2>5, <2>6 DEF CameraInv, ValveOwed, Branches
<1>8. CASE /\ service \in {"capture closes", "record closes"} /\ SetValve("save", FALSE)
           /\ service' = IF service = "capture closes" THEN "idle" ELSE "record wakes"
  <2>1. Captures' = Captures
    BY <1>8 DEF Captures
  <2>2. /\ UNCHANGED <<pipe, built, users>> /\ valves' \in SUBSET Branches /\ stale' \in SUBSET Branches
        /\ ("stream" \in valves' <=> "stream" \in valves) /\ ("stream" \in stale' <=> "stream" \in stale)
        /\ (pipe = "up" \/ "save" \in built) /\ "save" \notin stale' =>
             /\ "save" \notin valves'
             /\ users["save"] = 0 \/ (pipe # "up" /\ "save" \notin stale /\ "save" \notin valves)
        /\ PipeBuilt'
    BY <1>1, <1>8, TurnsOff DEF Branches
  <2>3. UsersCounted'
    BY <1>3, <1>5, <2>1, <2>2 DEF CameraInv, UsersCounted, SaveCounted, OpensToRecord
  <2>4. Owed("save")'
    <3>1. ~Opening("save") /\ Owed("save")
      BY <1>8 DEF Opening, CameraInv, ValveOwed, Branches
    <3> QED  BY <1>4, <2>2, <3>1 DEF Owed
  <2>5. Owed("stream")'
    BY <1>2, <2>2, OwedKept DEF CameraInv, ValveOwed, Branches
  <2>6. CameraTypeOK'
    BY <1>1, <1>8, <2>2 DEF CameraTypeOK
  <2> QED  BY <1>6, <2>2, <2>3, <2>4, <2>5, <2>6 DEF CameraInv, ValveOwed, Branches
<1> QED  BY <1>7, <1>8 DEF ServiceTurnsValve

\* The service thread comes to the save branch, or goes: what its valve is owed.
LEMMA SaveUserKeeps ==
    ASSUME CameraInv, NEW n \in Nat, users' = [users EXCEPT !["save"] = n],
           ~Opening("save"), ~Closing("save"), UNCHANGED <<pipe, valves, built, viewer, stale, gate>>,
           n > 0 /\ users["save"] = 0 => Opening("save")',
           n = 0 /\ users["save"] > 0 => Closing("save")',
           SaveCounted', OpensToRecord'
    PROVE  UsersCounted' /\ ValveOwed' /\ PipeBuilt' /\ users' \in [Branches -> 0..Cardinality(Viewers) + 2]
<1>0. CameraTypeOK
  BY DEF CameraInv
<1>1. users \in [Branches -> Nat] /\ users["save"] \in Nat
  BY <1>0, CountsAreNat DEF CameraTypeOK, Branches
<1>2. users'["save"] = n /\ users'["stream"] = users["stream"]
  BY <1>1 DEF Branches
<1>3. Watching' = Watching
  BY DEF Watching
<1>4. UsersCounted'
  BY <1>2, <1>3 DEF CameraInv, UsersCounted
<1>5. users' \in [Branches -> 0..Cardinality(Viewers) + 2]
  <2>1. users' \in [Branches -> Int]
    <3>1. users' \in [Branches -> Nat]
      BY <1>1
    <3>2. Nat \subseteq Int
      OBVIOUS
    <3> QED  BY <3>1, <3>2
  <2> QED  BY <1>4, <2>1, UsersTyped
<1>6. Owed("save")'
  <2>1. Owed("save")
    BY DEF CameraInv, ValveOwed, Branches
  <2>4. /\ "save" \notin stale' /\ (pipe' = "up" \/ "save" \in built') =>
             ("save" \in valves => users["save"] > 0) /\ (users["save"] > 0 => "save" \in valves)
        /\ "save" \in valves' <=> "save" \in valves
    BY <1>1, <2>1 DEF Owed
  <2>5. n = 0 \/ n > 0
    OBVIOUS
  <2>6. users["save"] = 0 \/ users["save"] > 0
    BY <1>1
  <2>7. ~(n > 0 /\ n = 0) /\ ~(users["save"] > 0 /\ users["save"] = 0)
    BY <1>1
  <2> QED  BY <1>2, <2>4, <2>5, <2>6, <2>7, Zenon DEF Owed
<1>7. Owed("stream")'
  <2>1. (Opening("stream") => Opening("stream")') /\ (Closing("stream") => Closing("stream")')
    BY DEF Opening, Closing
  <2> QED  BY <1>2, <2>1, OwedKept DEF CameraInv, ValveOwed, Branches
<1>8. PipeBuilt'
  BY DEF CameraInv, PipeBuilt
<1> QED  BY <1>4, <1>5, <1>6, <1>7, <1>8 DEF ValveOwed, Branches

LEMMA CaptureKeeps == ASSUME CameraInv, OnCapture \/ CaptureEnds PROVE CameraInv'
<1>1. CameraTypeOK /\ users["save"] \in Nat /\ users["save"] = Recordings + Captures
  BY CountsAreNat DEF CameraInv, Branches, UsersCounted, SaveCounted
<1>2. CASE OnCapture
  <2>1. service = "idle"
    BY <1>2 DEF OnCapture
  <2>2. /\ UNCHANGED <<pipe, valves, built, viewer, stale, gate, recording, wake, recorder, demand, backlog, cut>>
        /\ newer' \subseteq Waiters
        /\ users' = [users EXCEPT !["save"] = users["save"] + 1]
        /\ service' \in {"capture opens", "capture asks"}
        /\ users["save"] = 0 => service' = "capture opens"
    BY <1>1, <1>2 DEF OnCapture, AddUser, IsFirst, CameraTypeOK
  <2>3. SaveCounted'
    <3>0. users'["save"] = users["save"] + 1
      BY <1>1, <2>2 DEF CameraTypeOK, Branches
    <3>1. Recordings' = Recordings /\ Captures = 0 /\ Captures' \in {0, 1} /\ Recordings \in {0, 1}
      BY <2>1, <2>2 DEF Recordings, Captures
    <3>2. Captures' = 1
      BY <2>2 DEF Captures
    <3> QED  BY <1>1, <3>0, <3>1, <3>2 DEF SaveCounted
  <2>4. UsersCounted' /\ ValveOwed' /\ PipeBuilt' /\ users' \in [Branches -> 0..Cardinality(Viewers) + 2]
    <3> DEFINE n == users["save"] + 1
    <3>1. n \in Nat /\ n > 0
      BY <1>1
    <3>2. users' = [users EXCEPT !["save"] = n] /\ SaveCounted'
      BY <2>2, <2>3
    <3>3. (users["save"] = 0 => Opening("save")') /\ OpensToRecord'
      BY <2>2 DEF Opening, OpensToRecord
    <3>4. ~Opening("save") /\ ~Closing("save")
      BY <2>1 DEF Opening, Closing
    <3>5. n # 0
      BY <3>1
    <3> HIDE DEF n
    <3> QED  BY <2>2, <3>1, <3>2, <3>3, <3>4, <3>5, SaveUserKeeps
  <2>5. CameraTypeOK'
    BY <1>1, <2>2, <2>4 DEF CameraTypeOK
  <2>6. RequestsStand'
    <3>1. \A w \in Waiters : Waiting(w)' => Waiting(w)
      <4>1. Waiting("capture")' => Waiting("capture")
        BY <2>2 DEF Waiting
      <4>2. Waiting("recorder")' => Waiting("recorder")
        <5>1. "recorder" \in newer' <=> "recorder" \in newer
          BY <1>2 DEF OnCapture
        <5> QED  BY <2>2, <5>1 DEF Waiting
      <4> QED  BY <4>1, <4>2 DEF Waiters
    <3> QED  BY <2>2, <3>1, RequestsKept
  <2> QED  BY <2>4, <2>5, <2>6 DEF CameraInv
<1>3. CASE CaptureEnds
  <2>1. service = "capture waits"
    BY <1>3 DEF CaptureEnds
  <2>0. Enqueued \in 0..QueueSize /\ backlog \in 0..QueueSize
    <3>1. backlog \in 0..QueueSize
      BY <1>1 DEF CameraTypeOK
    <3> QED  BY <3>1, QueueAssumption DEF Enqueued
  <2>2. /\ UNCHANGED <<pipe, valves, built, viewer, stale, gate, recording, wake, recorder, demand, newer, cut>>
        /\ users' = [users EXCEPT !["save"] = users["save"] - 1]
        /\ service' \in {"capture closes", "idle"}
        /\ users["save"] = 1 => service' = "capture closes"
        /\ backlog' \in 0..QueueSize
    BY <2>0, <1>1, <1>3 DEF CaptureEnds, DropUser, IsLastUser
  <2>3. SaveCounted' /\ users["save"] > 0
    <3>0. users'["save"] = users["save"] - 1
      BY <1>1, <2>2 DEF CameraTypeOK, Branches
    <3>1. Recordings' = Recordings /\ Captures = 1 /\ Recordings \in {0, 1}
      BY <2>1, <2>2 DEF Recordings, Captures
    <3>2. Captures' = 0
      BY <2>2 DEF Captures
    <3> QED  BY <1>1, <3>0, <3>1, <3>2 DEF SaveCounted
  <2>4. UsersCounted' /\ ValveOwed' /\ PipeBuilt' /\ users' \in [Branches -> 0..Cardinality(Viewers) + 2]
    <3> DEFINE n == users["save"] - 1
    <3>1. n \in Nat /\ users["save"] # 0 /\ (n = 0 => users["save"] = 1)
      BY <1>1, <2>3
    <3>2. users' = [users EXCEPT !["save"] = n] /\ SaveCounted'
      BY <2>2, <2>3
    <3>3. (users["save"] = 1 => Closing("save")') /\ OpensToRecord'
      BY <2>2 DEF Closing, OpensToRecord
    <3>4. ~Opening("save") /\ ~Closing("save")
      BY <2>1 DEF Opening, Closing
    <3> HIDE DEF n
    <3> QED  BY <2>2, <3>1, <3>2, <3>3, <3>4, SaveUserKeeps
  <2>5. CameraTypeOK'
    BY <1>1, <2>2, <2>4 DEF CameraTypeOK
  <2>6. RequestsStand'
    BY <2>2 DEF CameraInv, RequestsStand, Waiting
  <2> QED  BY <2>4, <2>5, <2>6 DEF CameraInv
<1> QED  BY <1>2, <1>3

LEMMA RecordKeeps == ASSUME CameraInv, NEW on \in BOOLEAN, OnRecord(on) PROVE CameraInv'
<1>1. /\ CameraTypeOK /\ users["save"] \in Nat /\ users["save"] = Recordings + Captures
      /\ service = "idle" /\ on # recording /\ recording \in BOOLEAN
  BY CountsAreNat DEF CameraInv, CameraTypeOK, UsersCounted, SaveCounted, Branches, OnRecord
<1>2. UNCHANGED <<pipe, valves, built, viewer, stale, wake, recorder, demand, gate, newer, backlog, cut>>
  BY DEF OnRecord
<1>3. service' \in {"record opens", "record closes", "record wakes"}
  <2>1. service' = CASE on /\ IsFirst("save") -> "record opens"
                     [] ~on /\ IsLastUser("save") -> "record closes"
                     [] OTHER -> "record wakes"
    BY DEF OnRecord
  <2>2. CASE on
    BY <2>1, <2>2
  <2>3. CASE ~on
    BY <2>1, <2>3
  <2> QED  BY <2>2, <2>3
<1>4. recording' = on
  BY DEF OnRecord
<1>0. Captures = 0 /\ Captures' = 0
  BY <1>1, <1>3 DEF Captures
<1>5. UsersCounted' /\ ValveOwed' /\ PipeBuilt' /\ users' \in [Branches -> 0..Cardinality(Viewers) + 2]
  <2>1. CASE on
    <3>1. ~recording /\ recording'
      BY <1>1, <1>4, <2>1
    <3>2. Recordings = 0 /\ Recordings' = 1
      BY <3>1 DEF Recordings
    <3>3. users["save"] = 0
      BY <1>0, <1>1, <3>2
    <3>4. users' = [users EXCEPT !["save"] = 1]
      <4>1. users' = [users EXCEPT !["save"] = @ + 1]
        BY <2>1 DEF OnRecord, AddUser
      <4>2. users' = [users EXCEPT !["save"] = users["save"] + 1]
        BY <4>1
      <4>3. users["save"] + 1 = 1
        BY <3>3
      <4> QED  BY <4>2, <4>3
    <3>5. service' = "record opens"
      BY <2>1, <3>3 DEF OnRecord, IsFirst
    <3>6. SaveCounted' /\ 1 \in Nat /\ 1 # 0
      <4>1. users'["save"] = 1
        BY <1>1, <3>4 DEF CameraTypeOK, Branches
      <4> QED  BY <1>0, <3>2, <4>1 DEF SaveCounted
    <3>7. Opening("save")' /\ OpensToRecord' /\ ~Opening("save") /\ ~Closing("save")
      BY <1>1, <3>1, <3>5 DEF Opening, Closing, OpensToRecord
    <3> QED  BY <1>2, <3>4, <3>6, <3>7, SaveUserKeeps
  <2>2. CASE ~on
    <3>1. recording /\ ~recording'
      BY <1>1, <1>4, <2>2
    <3>2. Recordings = 1 /\ Recordings' = 0
      BY <3>1 DEF Recordings
    <3>3. users["save"] = 1
      BY <1>0, <1>1, <3>2
    <3>4. users' = [users EXCEPT !["save"] = 0]
      <4>1. users' = [users EXCEPT !["save"] = @ - 1]
        BY <2>2 DEF OnRecord, DropUser
      <4>2. users' = [users EXCEPT !["save"] = users["save"] - 1]
        BY <4>1
      <4>3. users["save"] - 1 = 0
        BY <3>3
      <4> QED  BY <4>2, <4>3
    <3>5. service' = "record closes"
      BY <2>2, <3>3 DEF OnRecord, IsLastUser
    <3>6. SaveCounted' /\ 0 \in Nat /\ ~(0 > 0)
      <4>1. users'["save"] = 0
        BY <1>1, <3>4 DEF CameraTypeOK, Branches
      <4> QED  BY <1>0, <3>2, <4>1 DEF SaveCounted
    <3>7. Closing("save")' /\ OpensToRecord' /\ ~Opening("save") /\ ~Closing("save")
      BY <1>1, <3>5 DEF Opening, Closing, OpensToRecord
    <3> QED  BY <1>2, <3>4, <3>6, <3>7, SaveUserKeeps
  <2> QED  BY <2>1, <2>2
<1>6. CameraTypeOK'
  BY <1>1, <1>2, <1>3, <1>4, <1>5 DEF CameraTypeOK
<1>7. RequestsStand'
  BY <1>2, <1>3 DEF CameraInv, RequestsStand, Waiting
<1> QED  BY <1>5, <1>6, <1>7 DEF CameraInv

LEMMA PipelineKeeps == ASSUME CameraInv, PipelineNext PROVE CameraInv'
<1>1. UNCHANGED <<users, viewer, service, recording, wake, recorder, newer, backlog>> /\ CameraTypeOK
  BY DEF PipelineNext, OpenPipe, BuildBranch, Install, Close, viewVars, saveVars, CameraInv
<1>2. UsersCounted'
  BY <1>1 DEF CameraInv, UsersCounted, SaveCounted, OpensToRecord, Watching, Recordings, Captures
<1>3. \A b \in Branches : (Opening(b) => Opening(b)') /\ (Closing(b) => Closing(b)')
  BY <1>1 DEF Opening, Closing
<1>4. CASE OpenPipe
  <2>1. /\ pipe = "none" /\ pipe' = "building" /\ demand' = demand /\ valves' = {} /\ built' = {}
        /\ stale' = stale /\ gate' = "clear" /\ gate' = gate /\ cut' = cut
    BY <1>4 DEF OpenPipe, DemandKept, viewVars, CameraInv, PipeBuilt
  <2>2. CameraTypeOK'
    BY <1>1, <2>1 DEF CameraTypeOK
  <2>3. RequestsStand'
    BY <1>1, <2>1 DEF CameraInv, RequestsStand, Waiting
  <2>4. PipeBuilt' /\ ValveOwed'
    BY <2>1 DEF PipeBuilt, ValveOwed, Owed
  <2> QED  BY <1>2, <2>2, <2>3, <2>4 DEF CameraInv
<1>5. ASSUME NEW b \in Branches, BuildBranch(b) PROVE CameraInv'
  <2>1. /\ pipe = "building" /\ pipe' = pipe /\ b \notin built /\ built' = built \cup {b}
        /\ valves' = (IF users[b] > 0 THEN valves \cup {b} ELSE valves)
        /\ stale' = stale \ {b} /\ UNCHANGED <<demand, gate, cut>>
    BY <1>5 DEF BuildBranch, StartsOpen, saveVars
  <2>2. CameraTypeOK'
    <3>1. valves' \subseteq Branches /\ built' \subseteq Branches /\ stale' \subseteq Branches
      BY <1>1, <2>1 DEF CameraTypeOK
    <3> QED  BY <1>1, <2>1, <3>1 DEF CameraTypeOK
  <2>3. RequestsStand'
    BY <1>1, <2>1 DEF CameraInv, RequestsStand, Waiting
  <2>4. PipeBuilt' /\ b \notin valves
    BY <2>1 DEF CameraInv, PipeBuilt
  <2>5. Owed(b)'
    <3>1. users[b] \in Nat
      BY CountsAreNat
    <3> QED  BY <1>1, <2>1, <2>4, <3>1 DEF Owed
  <2>6. ASSUME NEW c \in Branches, c # b PROVE Owed(c)'
    <3>1. Owed(c) /\ (Opening(c) => Opening(c)') /\ (Closing(c) => Closing(c)')
      BY <1>3 DEF CameraInv, ValveOwed
    <3>2. /\ users'[c] = users[c] /\ (c \in stale' <=> c \in stale) /\ (c \in valves' <=> c \in valves)
          /\ pipe' = "up" \/ c \in built' => pipe = "up" \/ c \in built
      BY <1>1, <2>1, <2>6
    <3> QED  BY <3>1, <3>2, OwedKept
  <2>7. ValveOwed'
    BY <2>5, <2>6 DEF ValveOwed, Branches
  <2> QED  BY <1>2, <2>2, <2>3, <2>4, <2>7 DEF CameraInv
<1>6. CASE Install
  <2>1. /\ built = Branches /\ pipe' = "up" /\ built' = {} /\ UNCHANGED <<valves, stale, demand, gate, cut>>
    BY <1>6 DEF Install, viewVars, saveVars
  <2>2. CameraTypeOK' /\ PipeBuilt'
    BY <1>1, <2>1 DEF CameraTypeOK, PipeBuilt
  <2>3. RequestsStand'
    BY <1>1, <2>1 DEF CameraInv, RequestsStand, Waiting
  <2>4. ASSUME NEW b \in Branches PROVE Owed(b)'
    BY <1>1, <1>3, <2>1, OwedKept DEF CameraInv, ValveOwed
  <2> QED  BY <1>2, <2>2, <2>3, <2>4 DEF CameraInv, ValveOwed
<1>7. CASE Close
  <2>1. /\ pipe' = "none" /\ valves' = {} /\ built' = {} /\ gate' = "clear" /\ stale' = stale
        /\ (demand' <=> demand /\ gate # "seen") /\ demand' \in BOOLEAN
        /\ cut' = (IF gate # "clear" /\ ~demand' THEN cut \cup {w \in Waiters : Waiting(w)} ELSE cut)
    BY <1>7 DEF Close, CameraInv, PipeBuilt, viewVars
  <2>2. CameraTypeOK'
    <3>1. cut' \subseteq Waiters
      BY <1>1, <2>1 DEF CameraTypeOK
    <3> QED  BY <1>1, <2>1, <3>1 DEF CameraTypeOK
  <2>3. RequestsStand'
    <3>1. \A w \in Waiters : Waiting(w)' => Waiting(w)
      BY <1>1 DEF Waiting
    <3> QED  BY <2>1, <3>1 DEF CameraInv, RequestsStand
  <2>4. PipeBuilt' /\ ValveOwed'
    BY <2>1 DEF PipeBuilt, ValveOwed, Owed
  <2> QED  BY <1>2, <2>2, <2>3, <2>4 DEF CameraInv
<1> QED  BY <1>4, <1>5, <1>6, <1>7 DEF PipelineNext

\* The recorder, the writer, the gate, and the service thread away from the valve.
Elsewhere ==
    \/ CaptureAsks \/ RecordWakes \/ RecorderSteps \/ WriterTakes
    \/ GateSees \/ GateClears \/ OnJpegSample

LEMMA ElsewhereKeeps == ASSUME CameraInv, Elsewhere PROVE CameraInv'
<1>1. CameraTypeOK
  BY DEF CameraInv
<1>2. UNCHANGED <<pipe, valves, built, viewVars, recording>>
  BY DEF Elsewhere, CaptureAsks, RecordWakes, RecorderSteps, RecorderWakes, RecorderClears, IntervalPasses,
         RecorderChecks, RecorderEndsWait, WriterTakes, GateSees, GateClears, OnJpegSample
<1>3. \/ service' = service
      \/ service = "capture asks" /\ service' = "capture waits"
      \/ service = "record wakes" /\ service' = "idle"
  BY DEF Elsewhere, CaptureAsks, RecordWakes, RecorderSteps, RecorderWakes, RecorderClears, IntervalPasses,
         RecorderChecks, RecorderEndsWait, WriterTakes, GateSees, GateClears, OnJpegSample
<1>4. pipe # "up" => gate' = gate
  <2>1. pipe # "up" => gate = "clear"
    BY DEF CameraInv, PipeBuilt
  <2> QED  BY <2>1 DEF Elsewhere, CaptureAsks, RecordWakes, RecorderSteps, RecorderWakes, RecorderClears,
                       IntervalPasses, RecorderChecks, RecorderEndsWait, WriterTakes, GateSees, GateClears,
                       OnJpegSample
<1>5. UsersCounted' /\ ValveOwed' /\ PipeBuilt'
  BY <1>2, <1>3, <1>4, BystanderKeeps
<1>6. backlog' \in 0..QueueSize
  <2>1. backlog \in 0..QueueSize /\ Enqueued \in 0..QueueSize
    <3>1. backlog \in 0..QueueSize
      BY <1>1 DEF CameraTypeOK
    <3> QED  BY <3>1, QueueAssumption DEF Enqueued
  <2>2. backlog > 0 => backlog - 1 \in 0..QueueSize
    BY <2>1, QueueAssumption
  <2> QED  BY <2>1, <2>2 DEF Elsewhere, CaptureAsks, RecordWakes, RecorderSteps, RecorderWakes, RecorderClears,
                       IntervalPasses, RecorderChecks, RecorderEndsWait, WriterTakes, GateSees, GateClears,
                       OnJpegSample
<1>7. CameraTypeOK'
  <2>1. /\ recorder' \in {"asleep", "woken", "checks", "waits", "pauses"}
        /\ wake' \in BOOLEAN /\ demand' \in BOOLEAN
        /\ gate' \in {"clear", "seen", "encoding"} /\ newer' \subseteq Waiters /\ cut' \subseteq Waiters
    BY <1>1 DEF CameraTypeOK, Elsewhere, CaptureAsks, RecordWakes, RecorderSteps, RecorderWakes, RecorderClears,
                IntervalPasses, RecorderChecks, RecorderEndsWait, WriterTakes, GateSees, GateClears,
                OnJpegSample, Woken, AskNew, Push
  <2> QED  BY <1>1, <1>2, <1>3, <1>6, <2>1 DEF CameraTypeOK, viewVars
<1>8. RequestsStand'
  <2>1. CASE CaptureAsks
    BY <2>1 DEF CaptureAsks, RequestsStand
  <2>2. CASE RecordWakes \/ WriterTakes
    <3>1. UNCHANGED <<demand, gate, cut>> /\ \A w \in Waiters : Waiting(w)' => Waiting(w)
      BY <2>2 DEF RecordWakes, WriterTakes, Waiting
    <3> QED  BY <3>1, RequestsKept
  <2>3. CASE RecorderWakes \/ RecorderClears \/ IntervalPasses \/ RecorderEndsWait
    <3>1. UNCHANGED <<demand, gate, cut>> /\ \A w \in Waiters : Waiting(w)' => Waiting(w)
      BY <2>3 DEF RecorderWakes, RecorderClears, IntervalPasses, RecorderEndsWait, Waiting
    <3> QED  BY <3>1, RequestsKept
  <2>4. CASE RecorderChecks
    <3>1. CASE recording
      BY <2>4, <3>1 DEF RecorderChecks, AskNew, RequestsStand
    <3>2. CASE ~recording
      <4>1. UNCHANGED <<demand, gate, cut>> /\ \A w \in Waiters : Waiting(w)' => Waiting(w)
        BY <2>4, <3>2 DEF RecorderChecks, Waiting
      <4> QED  BY <4>1, RequestsKept
    <3> QED  BY <3>1, <3>2
  <2>5. CASE GateSees \/ GateClears
    BY <2>5 DEF GateSees, GateClears, RequestsStand
  <2>6. CASE OnJpegSample
    BY <2>6 DEF OnJpegSample, Push, RequestsStand, Waiting
  <2> QED  BY <2>1, <2>2, <2>3, <2>4, <2>5, <2>6 DEF Elsewhere, RecorderSteps
<1> QED  BY <1>5, <1>7, <1>8 DEF CameraInv

LEMMA CameraInvStep == CameraInv /\ [CameraNext]_cameraVars => CameraInv'
<1> SUFFICES ASSUME CameraInv, [CameraNext]_cameraVars PROVE CameraInv'
  OBVIOUS
<1>1. CASE PipelineNext
  BY <1>1, PipelineKeeps
<1>2. ASSUME NEW v \in Viewers, Arrive(v) \/ Leave(v) \/ ViewerTurnsValve(v) PROVE CameraInv'
  BY <1>2, ArriveKeeps, LeaveKeeps, ViewerTurnsKeeps
<1>3. CASE Elsewhere
  BY <1>3, ElsewhereKeeps
<1>4. CASE OnCapture \/ CaptureEnds
  BY <1>4, CaptureKeeps
<1>5. ASSUME NEW on \in BOOLEAN, OnRecord(on) PROVE CameraInv'
  BY <1>5, RecordKeeps
<1>6. CASE ServiceTurnsValve
  BY <1>6, ServiceTurnsKeeps
<1>7. CASE UNCHANGED cameraVars
  <2>1. UNCHANGED <<Watching, Recordings, Captures>>
    BY <1>7 DEF cameraVars, viewVars, saveVars, Watching, Recordings, Captures
  <2>2. UsersCounted'
    BY <1>7, <2>1 DEF cameraVars, viewVars, saveVars, CameraInv, UsersCounted, SaveCounted, OpensToRecord
  <2>4. PipeBuilt'
    BY <1>7 DEF cameraVars, viewVars, saveVars, CameraInv, PipeBuilt
  <2>6. CameraTypeOK'
    <3>1. UNCHANGED saveVars /\ UNCHANGED <<pipe, built, valves, stale, users, viewer>>
      BY <1>7 DEF cameraVars, viewVars
    <3>2. CameraTypeOK
      BY DEF CameraInv
    <3>3. /\ valves' \subseteq Branches /\ stale' \subseteq Branches
          /\ users' \in [Branches -> 0..Cardinality(Viewers) + 2]
          /\ viewer' \in [Viewers -> {"away", "opening", "watching", "closing"}]
      BY <3>1, <3>2 DEF CameraTypeOK
    <3> QED  BY <3>1, <3>2, <3>3, CameraTypeKept
  <2>5. RequestsStand'
    BY <1>7, RequestsKept DEF cameraVars, viewVars, saveVars, Waiting
  <2>3. ASSUME NEW b \in Branches PROVE Owed(b)'
    BY <1>7 DEF cameraVars, viewVars, saveVars, CameraInv, ValveOwed, Owed, Opening, Closing
  <2> QED  BY <2>2, <2>3, <2>4, <2>5, <2>6 DEF CameraInv, ValveOwed
<1> QED  BY <1>1, <1>2, <1>3, <1>4, <1>5, <1>6, <1>7
         DEF CameraNext, ViewNext, SaveNext, ServiceSteps, RecorderSteps, Elsewhere

LEMMA CameraInvServes == CameraInv => ValveFollowsUsers
<1> SUFFICES ASSUME CameraInv, pipe = "up", NEW b \in Branches \ stale PROVE
      \/ b \in valves <=> users[b] > 0
      \/ b = "stream" /\ \E v \in Viewers : viewer[v] \in {"opening", "closing"}
      \/ b = "save" /\ service \in {"capture opens", "capture closes", "record opens", "record closes"}
  BY DEF ValveFollowsUsers
<1>1. users[b] \in Nat /\ Owed(b)
  BY CountsAreNat DEF CameraInv, ValveOwed
<1>2. users[b] > 0 <=> users[b] # 0
  BY <1>1
<1>3. (b \in valves <=> users[b] > 0) \/ Opening(b) \/ Closing(b)
  BY <1>1, <1>2, Zenon DEF Owed
<1> QED  BY <1>3 DEF Opening, Closing, Branches

\* Camera (mjpeg_http.py, dataset.py, camera_node.py): nothing is encoded but for somebody
\* who watches or records.
THEOREM ValvesFollowUsers == CameraSpec => []ValveFollowsUsers
<1>1. CameraSpec => []CameraInv
  BY CameraInvInit, CameraInvStep, PTL DEF CameraSpec
<1> QED  BY <1>1, CameraInvServes, PTL

\* Camera (dataset.py, camera_node.py): a frame that somebody waits for is asked for, or on its way,
\* until it comes, unless its pipeline breaks down with it.
THEOREM RequestsDoStand == CameraSpec => []RequestsStand
<1>1. CameraSpec => []CameraInv
  BY CameraInvInit, CameraInvStep, PTL DEF CameraSpec
<1>2. CameraInv => RequestsStand
  BY DEF CameraInv
<1> QED  BY <1>1, <1>2, PTL

-------------------------------------------------------------------------------
(***************************************************************************)
(* The dataset node.  A call that is awaited is the last its camera has to *)
(* serve.  Of what a running camera last said, either it is in the mail,   *)
(* or the newest message taken of it says so, or it is stored, unless the  *)
(* thread that stored last was outrun; so it is with the sum.              *)
(***************************************************************************)

RecordCall == [on : BOOLEAN, awaited : BOOLEAN]
StateMessage == [camera : Cameras, on : BOOLEAN, outrun : BOOLEAN]
SumMessage == [sum : BOOLEAN, outrun : BOOLEAN]

DatasetTyped ==
    /\ DatasetTypeOK
    /\ mail \in [Cameras -> States] /\ known \in [Cameras -> States]
    /\ calls \in [Cameras -> Seq(RecordCall)]
    /\ taken \in Seq(StateMessage) /\ totals \in Seq(SumMessage)
    /\ order \in Orders \cup {Unknown} /\ outcome \in Outcomes \cup {Unknown}

NotAwaited == {k \in RecordCall : ~k.awaited}
AskedFor == [on |-> order.target, awaited |-> TRUE]

AwaitedLast(c) ==
    \/ calls[c] \in Seq(NotAwaited)
    \/ /\ order # Unknown /\ order.result[c] = "waiting"
       /\ \E given \in Seq(NotAwaited) : calls[c] = Append(given, AskedFor)

DoneAsAsked(c, target) == calls[c] = <<>> /\ (c \in steady => (c \in records <=> target))

CallsInOrder ==
    /\ \A c \in Cameras : AwaitedLast(c) /\ (c \notin up => calls[c] = <<>>)
    /\ order # Unknown => \A c \in Cameras : order.result[c] = "ok" => DoneAsAsked(c, order.target)
    /\ outcome # Unknown => order = Unknown /\ \A c \in outcome.cameras : DoneAsAsked(c, outcome.target)

IsSo(said, c) == said = (c \in records)

NewestTells(c) ==
    \E k \in 1..Len(taken) :
        /\ taken[k].camera = c /\ ~taken[k].outrun /\ IsSo(taken[k].on, c)
        /\ \A j \in 1..Len(taken) : j > k => taken[j].camera # c
AllOutrun(c) == \A j \in 1..Len(taken) : taken[j].camera = c => taken[j].outrun
StoredTells(c) == AllOutrun(c) /\ (c \notin outrun => IsSo(known[c], c))

CameraTells(c) ==
    IF mail[c] # Unknown THEN IsSo(mail[c], c) ELSE NewestTells(c) \/ StoredTells(c)

SumIsSo(said) == said = AnyRecords(known)
LastSumTells ==
    totals # <<>> /\ ~totals[Len(totals)].outrun /\ SumIsSo(totals[Len(totals)].sum)
SumStands ==
    (\A j \in 1..Len(totals) : totals[j].outrun) /\ (Unknown \notin outrun => SumIsSo(sum))

DatasetInv ==
    DatasetTyped /\ CallsInOrder /\ (\A c \in up : CameraTells(c)) /\ (LastSumTells \/ SumStands)

LEMMA RemovedAt ==
    ASSUME NEW S, NEW q \in Seq(S), NEW i \in 1..Len(q)
    PROVE  /\ RemoveAt(q, i) \in Seq(S) /\ Len(RemoveAt(q, i)) = Len(q) - 1
           /\ \A j \in 1..(Len(q) - 1) : RemoveAt(q, i)[j] = IF j < i THEN q[j] ELSE q[j + 1]
<1>1. Len(q) \in Nat /\ q \in [1..Len(q) -> S]
  BY LenProperties
<1> DEFINE left == SubSeq(q, 1, i - 1)
           right == SubSeq(q, i + 1, Len(q))
<1>2. /\ left \in Seq(S) /\ Len(left) = i - 1
      /\ \A j \in 1..(i - 1) : left[j] = q[j]
  <2>1. 1 \in Int /\ i - 1 \in Int /\ \A j \in 1..(i - 1) : q[j] \in S
    BY <1>1
  <2>2. /\ left \in Seq(S) /\ Len(left) = IF 1 <= i - 1 THEN i - 1 - 1 + 1 ELSE 0
        /\ \A j \in 1..(i - 1 - 1 + 1) : left[j] = q[1 + j - 1]
    BY <2>1, SubSeqProperties
  <2> QED  BY <1>1, <2>2
<1>3. /\ right \in Seq(S) /\ Len(right) = Len(q) - i
      /\ \A j \in 1..(Len(q) - i) : right[j] = q[i + j]
  <2>1. i + 1 \in Int /\ Len(q) \in Int /\ \A j \in (i + 1)..Len(q) : q[j] \in S
    BY <1>1
  <2>2. /\ right \in Seq(S) /\ Len(right) = IF i + 1 <= Len(q) THEN Len(q) - (i + 1) + 1 ELSE 0
        /\ \A j \in 1..(Len(q) - (i + 1) + 1) : right[j] = q[i + 1 + j - 1]
    BY <2>1, SubSeqProperties
  <2> QED  BY <1>1, <2>2
<1> HIDE DEF left, right
<1>4. /\ left \o right \in Seq(S) /\ Len(left \o right) = Len(left) + Len(right)
      /\ \A j \in 1..(Len(left) + Len(right)) :
            (left \o right)[j] = IF j <= Len(left) THEN left[j] ELSE right[j - Len(left)]
  BY <1>2, <1>3, ConcatProperties
<1>5. RemoveAt(q, i) = left \o right
  BY DEF RemoveAt, left, right
<1>6. ASSUME NEW j \in 1..(Len(q) - 1)
      PROVE  RemoveAt(q, i)[j] = IF j < i THEN q[j] ELSE q[j + 1]
  <2>1. CASE j < i
    BY <1>1, <1>2, <1>3, <1>4, <1>5, <2>1
  <2>2. CASE ~(j < i)
    <3>1. j - (i - 1) \in 1..(Len(q) - i) /\ i + (j - (i - 1)) = j + 1
      BY <1>1, <2>2
    <3>2. right[j - (i - 1)] = q[j + 1]
      BY <1>3, <3>1
    <3> QED  BY <1>1, <1>2, <1>3, <1>4, <1>5, <2>2, <3>2
  <2> QED  BY <2>1, <2>2
<1>7. Len(RemoveAt(q, i)) = Len(q) - 1 /\ RemoveAt(q, i) \in Seq(S)
  <2>1. Len(left) = i - 1 /\ Len(right) = Len(q) - i
    BY <1>2, <1>3
  <2>2. (i - 1) + (Len(q) - i) = Len(q) - 1
    BY <1>1
  <2> QED  BY <1>4, <1>5, <2>1, <2>2
<1> QED  BY <1>6, <1>7

LEMMA MarkedTyped ==
    ASSUME NEW S, NEW q \in Seq(S), NEW m \in [DOMAIN q -> S], NEW i \in 1..Len(q)
    PROVE  /\ RemoveAt(m, i) \in Seq(S) /\ Len(RemoveAt(m, i)) = Len(q) - 1
           /\ \A j \in 1..(Len(q) - 1) : RemoveAt(m, i)[j] = IF j < i THEN m[j] ELSE m[j + 1]
<1>1. DOMAIN q = 1..Len(q) /\ Len(q) \in Nat
  BY LenProperties
<1>2. m \in Seq(S) /\ Len(m) = Len(q)
  <2>1. m \in Seq(S)
    BY <1>1, SeqDef
  <2> QED  BY <1>1, <2>1, LenProperties
<1>3. i \in 1..Len(m)
  BY <1>2
<1>4. /\ RemoveAt(m, i) \in Seq(S) /\ Len(RemoveAt(m, i)) = Len(m) - 1
      /\ \A j \in 1..(Len(m) - 1) : RemoveAt(m, i)[j] = IF j < i THEN m[j] ELSE m[j + 1]
  BY <1>2, <1>3, RemovedAt
<1> QED  BY <1>2, <1>4

\* Where an element that is left was before one was taken away.
Before(j, i) == IF j < i THEN j ELSE j + 1

LEMMA StoredLeaves ==
    ASSUME DatasetTyped, NEW i \in 1..Len(taken), StoreState(i)
    PROVE  /\ taken' \in Seq(StateMessage) /\ Len(taken') = Len(taken) - 1 /\ Len(taken) \in Nat
           /\ \A j \in 1..Len(taken') : \E k \in 1..Len(taken) :
                /\ k = Before(j, i) /\ k # i
                /\ taken'[j].camera = taken[k].camera /\ taken'[j].on = taken[k].on
                /\ taken'[j].outrun <=> taken[k].outrun \/ (k < i /\ taken[k].camera = taken[i].camera)
<1> DEFINE m == [j \in DOMAIN taken |->
                    [taken[j] EXCEPT !.outrun = @ \/ (j < i /\ taken[j].camera = taken[i].camera)]]
<1>1. taken \in Seq(StateMessage) /\ DOMAIN taken = 1..Len(taken) /\ Len(taken) \in Nat
  BY LenProperties DEF DatasetTyped
<1>2. taken' = RemoveAt(m, i)
  BY DEF StoreState
<1>3. \A j \in 1..Len(taken) : taken[j] \in StateMessage
  BY <1>1, LenProperties
<1>4. \A j \in 1..Len(taken) :
        /\ m[j] \in StateMessage /\ m[j].camera = taken[j].camera /\ m[j].on = taken[j].on
        /\ m[j].outrun <=> taken[j].outrun \/ (j < i /\ taken[j].camera = taken[i].camera)
  BY <1>1, <1>3 DEF StateMessage
<1>5. m \in [DOMAIN taken -> StateMessage]
  BY <1>1, <1>4
<1> HIDE DEF m
<1>6. /\ taken' \in Seq(StateMessage) /\ Len(taken') = Len(taken) - 1
      /\ \A j \in 1..(Len(taken) - 1) : taken'[j] = IF j < i THEN m[j] ELSE m[j + 1]
  <2>1. /\ RemoveAt(m, i) \in Seq(StateMessage) /\ Len(RemoveAt(m, i)) = Len(taken) - 1
        /\ \A j \in 1..(Len(taken) - 1) : RemoveAt(m, i)[j] = IF j < i THEN m[j] ELSE m[j + 1]
    BY <1>1, <1>5, MarkedTyped, ZenonT(60)
  <2> QED  BY <1>2, <2>1
<1>7. ASSUME NEW j \in 1..Len(taken')
      PROVE  \E k \in 1..Len(taken) : k = Before(j, i) /\ k # i /\ taken'[j] = m[k]
  BY <1>1, <1>6 DEF Before
<1>8. ASSUME NEW j \in 1..Len(taken')
      PROVE  \E k \in 1..Len(taken) :
                /\ k = Before(j, i) /\ k # i
                /\ taken'[j].camera = taken[k].camera /\ taken'[j].on = taken[k].on
                /\ taken'[j].outrun <=> taken[k].outrun \/ (k < i /\ taken[k].camera = taken[i].camera)
  BY <1>4, <1>7
<1> QED  BY <1>1, <1>6, <1>8

LEMMA PublishedLeaves ==
    ASSUME DatasetTyped, NEW i \in 1..Len(totals), PublishSum(i)
    PROVE  /\ totals' \in Seq(SumMessage) /\ Len(totals') = Len(totals) - 1 /\ Len(totals) \in Nat
           /\ \A j \in 1..Len(totals') : \E k \in 1..Len(totals) :
                /\ k = Before(j, i) /\ k # i /\ totals'[j].sum = totals[k].sum
                /\ totals'[j].outrun <=> totals[k].outrun \/ k < i
<1> DEFINE m == [j \in DOMAIN totals |-> [totals[j] EXCEPT !.outrun = @ \/ j < i]]
<1>1. totals \in Seq(SumMessage) /\ DOMAIN totals = 1..Len(totals) /\ Len(totals) \in Nat
  BY LenProperties DEF DatasetTyped
<1>2. totals' = RemoveAt(m, i)
  BY DEF PublishSum
<1>3. \A j \in 1..Len(totals) : totals[j] \in SumMessage
  BY <1>1, LenProperties
<1>4. \A j \in 1..Len(totals) :
        /\ m[j] \in SumMessage /\ m[j].sum = totals[j].sum
        /\ m[j].outrun <=> totals[j].outrun \/ j < i
  BY <1>1, <1>3 DEF SumMessage
<1>5. m \in [DOMAIN totals -> SumMessage]
  BY <1>1, <1>4
<1> HIDE DEF m
<1>6. /\ totals' \in Seq(SumMessage) /\ Len(totals') = Len(totals) - 1
      /\ \A j \in 1..(Len(totals) - 1) : totals'[j] = IF j < i THEN m[j] ELSE m[j + 1]
  <2>1. /\ RemoveAt(m, i) \in Seq(SumMessage) /\ Len(RemoveAt(m, i)) = Len(totals) - 1
        /\ \A j \in 1..(Len(totals) - 1) : RemoveAt(m, i)[j] = IF j < i THEN m[j] ELSE m[j + 1]
    BY <1>1, <1>5, MarkedTyped, ZenonT(60)
  <2> QED  BY <1>2, <2>1
<1>7. ASSUME NEW j \in 1..Len(totals')
      PROVE  \E k \in 1..Len(totals) : k = Before(j, i) /\ k # i /\ totals'[j] = m[k]
  BY <1>1, <1>6 DEF Before
<1>8. ASSUME NEW j \in 1..Len(totals')
      PROVE  \E k \in 1..Len(totals) :
                /\ k = Before(j, i) /\ k # i /\ totals'[j].sum = totals[k].sum
                /\ totals'[j].outrun <=> totals[k].outrun \/ k < i
  BY <1>4, <1>7
<1> QED  BY <1>1, <1>6, <1>8

LEMMA DatasetFacts ==
    ASSUME DatasetInv
    PROVE  /\ DatasetTyped /\ DatasetTypeOK
           /\ Len(taken) \in Nat /\ DOMAIN taken = 1..Len(taken)
           /\ Len(totals) \in Nat /\ DOMAIN totals = 1..Len(totals)
           /\ Threads \in Nat \ {0} /\ MaxCalls \in Nat \ {0}
           /\ Unknown \notin Cameras /\ Unknown \notin BOOLEAN
           /\ Unknown \notin Orders /\ Unknown \notin Outcomes
           /\ order # Unknown => order.result \in [Cameras -> {"waiting", "skipped", "ok"}]
           /\ \A c \in Cameras : calls[c] \in Seq(RecordCall)
  BY LenProperties, DatasetAssumption DEF DatasetInv, DatasetTyped, Orders

LEMMA DatasetInvInit == DatasetInit => DatasetInv
<1> SUFFICES ASSUME DatasetInit PROVE DatasetInv
  OBVIOUS
<1>1. /\ up = {} /\ records = {} /\ mail = [c \in Cameras |-> Unknown]
      /\ calls = [c \in Cameras |-> <<>>] /\ order = Unknown
      /\ known = [c \in Cameras |-> Unknown] /\ taken = <<>> /\ totals = <<>> /\ sum = FALSE
      /\ outcome = Unknown /\ steady = {} /\ outrun = {}
  BY DEF DatasetInit
<1>2. \A S : taken \in Seq(S) /\ totals \in Seq(S) /\ \A c \in Cameras : calls[c] \in Seq(S)
  BY <1>1
<1>3. Len(taken) = 0 /\ Len(totals) = 0 /\ \A c \in Cameras : Len(calls[c]) = 0
  BY <1>1
<1>4. DatasetTypeOK
  <2>1. Len(taken) + Len(totals) <= Threads /\ \A c \in Cameras : Len(calls[c]) <= MaxCalls
    BY <1>3, DatasetAssumption
  <2>2. \A c \in Cameras : mail[c] \in States /\ known[c] \in States
    BY <1>1 DEF States
  <2> QED  BY <1>1, <2>1, <2>2 DEF DatasetTypeOK
<1>5. DatasetTyped
  BY <1>1, <1>2, <1>4 DEF DatasetTyped, States
<1>6. CallsInOrder
  BY <1>1, <1>2 DEF CallsInOrder, AwaitedLast
<1>7. SumStands
  <2>1. AnyRecords(known) = FALSE
    BY <1>1, DatasetAssumption DEF AnyRecords
  <2>2. SumIsSo(sum)
    BY <1>1, <2>1 DEF SumIsSo
  <2> QED  BY <1>3, <2>2 DEF SumStands
<1> QED  BY <1>1, <1>5, <1>6, <1>7 DEF DatasetInv

\* Requests that no step touches, and whose cameras are switched by others at most.
LEMMA CallsUntouched ==
    ASSUME DatasetInv, UNCHANGED <<calls, order, outcome>>, steady' \subseteq steady, up \subseteq up',
           \A c \in steady' : c \in records' <=> c \in records
    PROVE  CallsInOrder'
<1>1. \A c \in Cameras : AwaitedLast(c)'
  BY DEF DatasetInv, CallsInOrder, AwaitedLast, AskedFor
<1>2. ASSUME NEW c, NEW target, DoneAsAsked(c, target) PROVE DoneAsAsked(c, target)'
  BY <1>2 DEF DoneAsAsked
<1>3. order' # Unknown => \A c \in Cameras : order'.result[c] = "ok" => DoneAsAsked(c, order.target)'
  BY <1>2 DEF DatasetInv, CallsInOrder
<1>4. outcome' # Unknown => order' = Unknown /\ \A c \in outcome'.cameras : DoneAsAsked(c, outcome.target)'
  BY <1>2 DEF DatasetInv, CallsInOrder
<1>5. \A c \in Cameras : c \notin up' => calls'[c] = <<>>
  BY DEF DatasetInv, CallsInOrder
<1> QED  BY <1>1, <1>3, <1>4, <1>5 DEF CallsInOrder

\* A camera of which nothing is said or stored.
LEMMA TellsUntouched ==
    ASSUME NEW c, CameraTells(c), mail'[c] = mail[c], c \in records' <=> c \in records,
           UNCHANGED <<known, taken>>, c \in outrun' <=> c \in outrun
    PROVE  CameraTells(c)'
<1>1. \A said : IsSo(said, c)' <=> IsSo(said, c)
  BY DEF IsSo
<1>2. NewestTells(c)' <=> NewestTells(c)
  BY <1>1 DEF NewestTells
<1>3. StoredTells(c)' <=> StoredTells(c)
  BY <1>1 DEF StoredTells, AllOutrun
<1> QED  BY <1>1, <1>2, <1>3 DEF CameraTells

LEMMA SumUntouched ==
    ASSUME DatasetInv, UNCHANGED <<known, totals, sum, outrun>> PROVE (LastSumTells \/ SumStands)'
<1>1. LastSumTells \/ SumStands
  BY DEF DatasetInv
<1>2. \A said : SumIsSo(said)' <=> SumIsSo(said)
  BY DEF SumIsSo, AnyRecords
<1>3. LastSumTells => LastSumTells'
  BY <1>2 DEF LastSumTells
<1>4. SumStands => SumStands'
  BY <1>2 DEF SumStands
<1> QED  BY <1>1, <1>3, <1>4

\* A camera that is switched says so, unless it was so before.
LEMMA SwitchTells ==
    ASSUME DatasetInv, NEW c \in up, NEW on \in BOOLEAN, SwitchedTo(c, on),
           UNCHANGED <<up, gatherVars, outrun>>
    PROVE  /\ mail' \in [Cameras -> States] /\ records' \subseteq up'
           /\ \A d \in Cameras \ {c} : d \in records' <=> d \in records
           /\ c \in records' <=> on
           /\ \A d \in up' : CameraTells(d)'
           /\ (LastSumTells \/ SumStands)'
<1>1. /\ up' = up /\ taken' = taken /\ known' = known /\ totals' = totals /\ sum' = sum /\ outrun' = outrun
  BY DEF gatherVars
<1>2. up \subseteq Cameras /\ records \subseteq up /\ mail \in [Cameras -> States] /\ Unknown \notin BOOLEAN
  BY DatasetFacts DEF DatasetTyped, DatasetTypeOK
<1>3. /\ \A d \in Cameras \ {c} : d \in records' <=> d \in records
      /\ c \in records' <=> on
      /\ records' \subseteq up'
  BY <1>1, <1>2 DEF SwitchedTo
<1>4. mail' \in [Cameras -> States] /\ \A d \in Cameras \ {c} : mail'[d] = mail[d]
  BY <1>2 DEF SwitchedTo, States
<1>5. CameraTells(c)'
  <2>1. CASE on <=> c \in records
    <3>1. mail' = mail
      BY <2>1 DEF SwitchedTo
    <3>2. c \in records' <=> c \in records
      BY <1>3, <2>1
    <3>3. CameraTells(c)
      BY DEF DatasetInv
    <3> QED  BY <1>1, <3>1, <3>2, <3>3, TellsUntouched
  <2>2. CASE ~(on <=> c \in records)
    <3>1. mail' = [mail EXCEPT ![c] = on]
      BY <2>2 DEF SwitchedTo
    <3>2. mail'[c] = on
      BY <1>2, <3>1
    <3>3. IsSo(on, c)'
      BY <1>3 DEF IsSo
    <3>4. mail'[c] # Unknown
      BY <1>2, <3>2
    <3>5. IsSo(mail[c], c)'
      BY <3>2, <3>3, Zenon DEF IsSo
    <3> QED  BY <3>4, <3>5 DEF CameraTells
  <2> QED  BY <2>1, <2>2
<1>6. ASSUME NEW d \in up', d # c PROVE CameraTells(d)'
  <2>1. CameraTells(d) /\ d \in Cameras \ {c}
    BY <1>1, <1>2, <1>6 DEF DatasetInv
  <2>2. mail'[d] = mail[d] /\ (d \in records' <=> d \in records)
    BY <1>3, <1>4, <2>1
  <2> QED  BY <1>1, <2>1, <2>2, TellsUntouched
<1>7. (LastSumTells \/ SumStands)'
  BY <1>1, SumUntouched
<1> QED  BY <1>3, <1>4, <1>5, <1>6, <1>7

LEMMA OthersKeep == ASSUME DatasetInv, NEW c \in Cameras, NEW on \in BOOLEAN, SwitchedByOthers(c, on) PROVE DatasetInv'
<1>1. /\ c \in up /\ SwitchedTo(c, on) /\ steady' = steady \ {c}
      /\ UNCHANGED <<up, calls, order, gatherVars, outcome, outrun>>
  BY DEF SwitchedByOthers
<1>2. /\ mail' \in [Cameras -> States] /\ records' \subseteq up'
      /\ \A d \in Cameras \ {c} : d \in records' <=> d \in records
      /\ \A d \in up' : CameraTells(d)'
      /\ (LastSumTells \/ SumStands)'
  BY <1>1, SwitchTells
<1>3. CallsInOrder'
  <2>1. \A d \in steady' : d \in records' <=> d \in records
    BY <1>1, <1>2, DatasetFacts DEF DatasetTypeOK
  <2> QED  BY <1>1, <2>1, CallsUntouched
<1>4. DatasetTyped'
  BY <1>1, <1>2, DatasetFacts DEF DatasetTyped, DatasetTypeOK, gatherVars
<1> QED  BY <1>2, <1>3, <1>4 DEF DatasetInv

LEMMA StartsKeep == ASSUME DatasetInv, NEW c \in Cameras, CameraStarts(c) PROVE DatasetInv'
<1>1. /\ c \notin up /\ up' = up \cup {c} /\ mail' = [mail EXCEPT ![c] = FALSE]
      /\ records' = records /\ UNCHANGED <<calls, order, outcome, steady, known, taken, totals, sum, outrun>>
  BY DEF CameraStarts, gatherVars
<1>2. records \subseteq up /\ up \subseteq Cameras /\ mail \in [Cameras -> States] /\ Unknown \notin BOOLEAN
  BY DatasetFacts DEF DatasetTyped, DatasetTypeOK
<1>3. DatasetTyped'
  <2>1. mail' \in [Cameras -> States]
    BY <1>1, <1>2 DEF States
  <2> QED  BY <1>1, <1>2, <2>1, DatasetFacts DEF DatasetTyped, DatasetTypeOK
<1>4. CallsInOrder'
  BY <1>1, CallsUntouched
<1>5. ASSUME NEW d \in up' PROVE CameraTells(d)'
  <2>1. CASE d = c
    <3>1. mail'[d] = FALSE /\ mail'[d] # Unknown
      BY <1>1, <1>2, <2>1
    <3>2. d \notin records'
      BY <1>1, <1>2, <2>1
    <3>4. IsSo(FALSE, d)'
      BY <3>2 DEF IsSo
    <3>3. IsSo(mail[d], d)'
      BY <3>1, <3>4, Zenon DEF IsSo
    <3> QED  BY <3>1, <3>3 DEF CameraTells
  <2>2. CASE d # c
    <3>1. d \in up /\ mail'[d] = mail[d]
      BY <1>1, <1>2, <2>2
    <3> QED  BY <1>1, <3>1, TellsUntouched DEF DatasetInv
  <2> QED  BY <2>1, <2>2
<1>6. (LastSumTells \/ SumStands)'
  BY <1>1, SumUntouched
<1> QED  BY <1>3, <1>4, <1>5, <1>6 DEF DatasetInv

LEMMA DiesKeep == ASSUME DatasetInv, NEW c \in Cameras, CameraDies(c) PROVE DatasetInv'
<1>1. /\ c \in up /\ up' = up \ {c} /\ records' = records \ {c} /\ calls' = [calls EXCEPT ![c] = <<>>]
      /\ steady' = steady \ {c} /\ order' = order /\ outcome' = outcome
      /\ UNCHANGED <<mail, known, taken, totals, sum, outrun>>
  BY DEF CameraDies, gatherVars
<1>2. /\ records \subseteq up /\ up \subseteq Cameras /\ steady \subseteq Cameras
      /\ calls \in [Cameras -> Seq(RecordCall)]
  BY DatasetFacts DEF DatasetTyped, DatasetTypeOK
<1>3. calls'[c] = <<>> /\ \A d \in Cameras \ {c} : calls'[d] = calls[d]
  BY <1>1, <1>2
<1>4. DatasetTyped'
  <2>1. <<>> \in Seq(RecordCall) /\ Len(<<>>) = 0
    OBVIOUS
  <2>2. calls' \in [Cameras -> Seq(RecordCall)]
    BY <1>1, <1>2, <2>1
  <2>3. \A d \in Cameras : Len(calls'[d]) <= MaxCalls
    <3>1. 0 <= MaxCalls
      BY DatasetFacts
    <3> QED  BY <1>3, <2>1, <3>1, DatasetFacts DEF DatasetTypeOK
  <2> QED  BY <1>1, <1>2, <2>2, <2>3, DatasetFacts DEF DatasetTyped, DatasetTypeOK
<1>5. CallsInOrder'
  <2>1. ASSUME NEW d \in Cameras PROVE AwaitedLast(d)' /\ (d \notin up' => calls'[d] = <<>>)
    <3>1. CASE d = c
      <4>1. <<>> \in Seq(NotAwaited)
        OBVIOUS
      <4>2. calls'[d] \in Seq(NotAwaited) /\ calls'[d] = <<>>
        BY <1>3, <3>1, <4>1
      <4> QED  BY <4>2 DEF AwaitedLast
    <3>2. CASE d # c
      BY <1>1, <1>3, <3>2 DEF DatasetInv, CallsInOrder, AwaitedLast, AskedFor
    <3> QED  BY <3>1, <3>2
  <2>2. ASSUME NEW d \in Cameras, NEW target, DoneAsAsked(d, target) PROVE DoneAsAsked(d, target)'
    <3>1. CASE d = c
      BY <1>1, <1>3, <3>1 DEF DoneAsAsked
    <3>2. CASE d # c
      BY <1>1, <1>3, <2>2, <3>2 DEF DoneAsAsked
    <3> QED  BY <3>1, <3>2
  <2>3. order' # Unknown => \A d \in Cameras : order'.result[d] = "ok" => DoneAsAsked(d, order.target)'
    BY <1>1, <2>2 DEF DatasetInv, CallsInOrder
  <2>4. outcome' # Unknown => order' = Unknown /\ \A d \in outcome'.cameras : DoneAsAsked(d, outcome.target)'
    <3>1. outcome # Unknown => outcome.cameras \subseteq Cameras
      BY DatasetFacts DEF DatasetTyped, Outcomes
    <3> QED  BY <1>1, <2>2, <3>1 DEF DatasetInv, CallsInOrder
  <2> QED  BY <2>1, <2>3, <2>4 DEF CallsInOrder
<1>6. ASSUME NEW d \in up' PROVE CameraTells(d)'
  <2>1. d \in up /\ (d \in records' <=> d \in records)
    BY <1>1
  <2> QED  BY <1>1, <2>1, TellsUntouched DEF DatasetInv
<1>7. (LastSumTells \/ SumStands)'
  BY <1>1, SumUntouched
<1> QED  BY <1>4, <1>5, <1>6, <1>7 DEF DatasetInv

-------------------------------------------------------------------------------
(* The requests *)

\* A request is sent behind those that nobody awaits any more.
LEMMA AskKeeps == ASSUME DatasetInv, NEW target \in BOOLEAN, AskAll(target) PROVE DatasetInv'
<1>1. /\ order = Unknown /\ \A c \in Cameras : Len(calls[c]) < MaxCalls
      /\ outcome' = Unknown /\ steady' = Cameras
      /\ UNCHANGED <<up, records, mail, known, taken, totals, sum, outrun>>
  BY DEF AskAll, gatherVars
<1>2. PICK result \in [Cameras -> {"waiting", "skipped"}] :
          /\ order' = [target |-> target, result |-> result]
          /\ calls' = [c \in Cameras |-> IF c \in up /\ result[c] = "waiting"
                                         THEN Append(calls[c], [on |-> target, awaited |-> TRUE])
                                         ELSE calls[c]]
  BY DEF AskAll
<1>3. order' \in Orders /\ order' # Unknown /\ order'.target = target /\ order'.result = result
  BY <1>2, DatasetFacts DEF Orders
<1>4. [on |-> target, awaited |-> TRUE] \in RecordCall /\ AskedFor' = [on |-> target, awaited |-> TRUE]
  BY <1>3 DEF RecordCall, AskedFor
<1>5. \A c \in Cameras : calls[c] \in Seq(NotAwaited) /\ (c \notin up => calls[c] = <<>>)
  BY <1>1 DEF DatasetInv, CallsInOrder, AwaitedLast
<1>6. ASSUME NEW c \in Cameras
      PROVE  /\ AwaitedLast(c)' /\ (c \notin up' => calls'[c] = <<>>)
             /\ calls'[c] \in Seq(RecordCall) /\ Len(calls'[c]) <= MaxCalls
  <2>1. calls[c] \in Seq(RecordCall) /\ Len(calls[c]) \in Nat /\ Len(calls[c]) < MaxCalls /\ MaxCalls \in Nat
    BY <1>1, DatasetFacts, LenProperties
  <2>2. CASE c \in up /\ result[c] = "waiting"
    <3>1. calls'[c] = Append(calls[c], AskedFor')
      BY <1>2, <1>4, <2>2
    <3>2. order'.result[c] = "waiting" /\ calls[c] \in Seq(NotAwaited)
      BY <1>3, <1>5, <2>2
    <3>3. AwaitedLast(c)'
      BY <1>3, <3>1, <3>2 DEF AwaitedLast
    <3>4. calls'[c] \in Seq(RecordCall) /\ Len(calls'[c]) = Len(calls[c]) + 1
      BY <1>4, <2>1, <3>1, AppendProperties
    <3>5. Len(calls'[c]) <= MaxCalls
      BY <2>1, <3>4
    <3> QED  BY <1>1, <2>2, <3>3, <3>4, <3>5
  <2>3. CASE ~(c \in up /\ result[c] = "waiting")
    <3>1. calls'[c] = calls[c]
      BY <1>2, <2>3
    <3>2. Len(calls[c]) <= MaxCalls
      BY <2>1
    <3> QED  BY <1>1, <1>5, <2>1, <3>1, <3>2 DEF AwaitedLast
  <2> QED  BY <2>2, <2>3
<1>7. CallsInOrder'
  <2>1. \A c \in Cameras : order'.result[c] # "ok"
    BY <1>3
  <2> QED  BY <1>1, <1>6, <2>1 DEF CallsInOrder
<1>8. DatasetTyped'
  <2>1. calls' \in [Cameras -> Seq(RecordCall)]
    <3>1. calls' = [c \in Cameras |-> calls'[c]]
      BY <1>2
    <3> QED  BY <1>6, <3>1
  <2>2. DatasetTypeOK'
    BY <1>1, <1>6, DatasetFacts DEF DatasetTypeOK
  <2> QED  BY <1>1, <1>3, <2>1, <2>2, DatasetFacts DEF DatasetTyped
<1>9. ASSUME NEW c \in up' PROVE CameraTells(c)'
  <2>1. CameraTells(c) /\ mail'[c] = mail[c] /\ (c \in records' <=> c \in records)
    BY <1>1 DEF DatasetInv
  <2> QED  BY <1>1, <2>1, TellsUntouched
<1>10. (LastSumTells \/ SumStands)'
  BY <1>1, SumUntouched
<1> QED  BY <1>7, <1>8, <1>9, <1>10 DEF DatasetInv

\* Nothing is awaited once the request is answered.
LEMMA AnswerKeeps == ASSUME DatasetInv, Answer PROVE DatasetInv'
<1>1. /\ order # Unknown /\ order' = Unknown
      /\ outcome' = IF Succeeds THEN [target |-> order.target, cameras |-> Called] ELSE Unknown
      /\ calls' = [c \in Cameras |-> [i \in DOMAIN calls[c] |-> [calls[c][i] EXCEPT !.awaited = FALSE]]]
      /\ UNCHANGED <<up, records, mail, steady, known, taken, totals, sum, outrun>>
  BY DEF Answer, gatherVars
<1>2. ASSUME NEW c \in Cameras
      PROVE  calls'[c] \in Seq(NotAwaited) /\ Len(calls'[c]) = Len(calls[c]) /\ calls[c] \in Seq(RecordCall)
  <2> DEFINE q == calls[c]
             m == [i \in DOMAIN q |-> [q[i] EXCEPT !.awaited = FALSE]]
  <2>1. calls'[c] = m
    BY <1>1
  <2>2. q \in Seq(RecordCall) /\ DOMAIN q = 1..Len(q) /\ Len(q) \in Nat
    BY DatasetFacts, LenProperties
  <2>3. \A i \in 1..Len(q) : q[i] \in RecordCall
    BY <2>2, LenProperties
  <2>4. \A i \in 1..Len(q) : m[i] \in NotAwaited
    BY <2>2, <2>3 DEF NotAwaited, RecordCall
  <2>5. m \in [1..Len(q) -> NotAwaited]
    BY <2>2, <2>4
  <2> HIDE DEF m, q
  <2>6. m \in Seq(NotAwaited)
    BY <2>2, <2>5, SeqDef
  <2>7. Len(m) = Len(q)
    BY <2>2, <2>5, <2>6, LenProperties
  <2> QED  BY <2>1, <2>2, <2>6, <2>7 DEF q
<1>3. \A c \in Cameras : calls[c] = <<>> => calls'[c] = <<>>
  BY <1>2, EmptySeq
<1>4. ASSUME NEW c \in Cameras, NEW target, DoneAsAsked(c, target) PROVE DoneAsAsked(c, target)'
  BY <1>1, <1>3, <1>4 DEF DoneAsAsked
<1>5. ASSUME outcome' # Unknown PROVE \A c \in outcome'.cameras : DoneAsAsked(c, outcome.target)'
  <2>1. Succeeds /\ outcome' = [target |-> order.target, cameras |-> Called]
    BY <1>1, <1>5
  <2>2. ASSUME NEW c \in Called, NEW target, target = order.target PROVE DoneAsAsked(c, target)'
    <3>1. c \in Cameras /\ order.result[c] = "ok"
      BY <2>1 DEF Succeeds, Called
    <3>2. DoneAsAsked(c, target)
      BY <1>1, <2>2, <3>1 DEF DatasetInv, CallsInOrder
    <3> QED  BY <1>4, <3>1, <3>2
  <2>3. outcome'.cameras = Called /\ outcome'.target = order.target
    BY <2>1
  <2> QED  BY <2>2, <2>3 DEF DoneAsAsked
<1>6. CallsInOrder'
  <2>1. \A c \in Cameras : AwaitedLast(c)' /\ (c \notin up' => calls'[c] = <<>>)
    BY <1>1, <1>2, <1>3 DEF AwaitedLast, DatasetInv, CallsInOrder
  <2> QED  BY <1>1, <1>5, <2>1 DEF CallsInOrder
<1>7. DatasetTyped'
  <2>1. calls' \in [Cameras -> Seq(RecordCall)]
    <3>1. \A c \in Cameras : calls'[c] \in Seq(RecordCall)
      <4>1. \A k \in NotAwaited : k \in RecordCall
        BY DEF NotAwaited
      <4> QED  BY <1>2, <4>1, KindWidens
    <3>2. calls' = [c \in Cameras |-> calls'[c]]
      BY <1>1
    <3> QED  BY <3>1, <3>2
  <2>2. outcome' \in Outcomes \cup {Unknown}
    <3>1. order \in Orders
      BY <1>1, DatasetFacts DEF DatasetTyped
    <3>2. order.target \in BOOLEAN /\ Called \subseteq Cameras
      BY <3>1 DEF Orders, Called
    <3> QED  BY <1>1, <3>2 DEF Outcomes
  <2>3. DatasetTypeOK'
    BY <1>1, <1>2, DatasetFacts DEF DatasetTypeOK
  <2> QED  BY <1>1, <2>1, <2>2, <2>3, DatasetFacts DEF DatasetTyped
<1>8. ASSUME NEW c \in up' PROVE CameraTells(c)'
  <2>1. CameraTells(c) /\ mail'[c] = mail[c] /\ (c \in records' <=> c \in records)
    BY <1>1 DEF DatasetInv
  <2> QED  BY <1>1, <2>1, TellsUntouched
<1>9. (LastSumTells \/ SumStands)'
  BY <1>1, SumUntouched
<1> QED  BY <1>6, <1>7, <1>8, <1>9 DEF DatasetInv

\* Of the requests a camera has yet to serve, it serves one that nobody awaits, or the last.
LEMMA HeadServed ==
    ASSUME DatasetInv, NEW c \in Cameras, calls[c] # <<>>
    PROVE  /\ Head(calls[c]) \in RecordCall /\ Tail(calls[c]) \in Seq(RecordCall)
           /\ Len(Tail(calls[c])) <= MaxCalls
           /\ \/ /\ ~Head(calls[c]).awaited
                 /\ \/ Tail(calls[c]) \in Seq(NotAwaited)
                    \/ /\ order # Unknown /\ order.result[c] = "waiting"
                       /\ \E given \in Seq(NotAwaited) : Tail(calls[c]) = Append(given, AskedFor)
              \/ /\ order # Unknown /\ order.result[c] = "waiting"
                 /\ Head(calls[c]) = AskedFor /\ Tail(calls[c]) = <<>>
<1> DEFINE q == calls[c]
<1>1. q \in Seq(RecordCall) /\ q # <<>> /\ MaxCalls \in Nat /\ Len(q) \in Nat /\ Len(q) <= MaxCalls
  BY DatasetFacts, LenProperties DEF DatasetTypeOK
<1>2. AwaitedLast(c)
  BY DEF DatasetInv, CallsInOrder
<1> SUFFICES /\ Head(q) \in RecordCall /\ Tail(q) \in Seq(RecordCall)
             /\ Len(Tail(q)) <= MaxCalls
             /\ \/ /\ ~Head(q).awaited
                   /\ \/ Tail(q) \in Seq(NotAwaited)
                      \/ /\ order # Unknown /\ order.result[c] = "waiting"
                         /\ \E given \in Seq(NotAwaited) : Tail(q) = Append(given, AskedFor)
                \/ /\ order # Unknown /\ order.result[c] = "waiting"
                   /\ Head(q) = AskedFor /\ Tail(q) = <<>>
  OBVIOUS
<1>3. \/ q \in Seq(NotAwaited)
      \/ /\ order # Unknown /\ order.result[c] = "waiting"
         /\ \E given \in Seq(NotAwaited) : q = Append(given, AskedFor)
  BY <1>2 DEF AwaitedLast
<1> HIDE DEF q
<1>4. Head(q) \in RecordCall /\ Tail(q) \in Seq(RecordCall) /\ Len(Tail(q)) = Len(q) - 1
  BY <1>1, HeadTailProperties
<1>5. Len(Tail(q)) <= MaxCalls
  BY <1>1, <1>4
<1>6. CASE q \in Seq(NotAwaited)
  <2>1. Head(q) \in NotAwaited /\ Tail(q) \in Seq(NotAwaited)
    BY <1>1, <1>6, HeadTailProperties
  <2> QED  BY <1>4, <1>5, <2>1 DEF NotAwaited
<1>7. ASSUME order # Unknown, order.result[c] = "waiting",
             NEW given \in Seq(NotAwaited), q = Append(given, AskedFor)
      PROVE  \/ /\ ~Head(q).awaited
                /\ \E rest \in Seq(NotAwaited) : Tail(q) = Append(rest, AskedFor)
             \/ Head(q) = AskedFor /\ Tail(q) = <<>>
  <2>1. CASE given = <<>>
    BY <1>7, <2>1, HeadOfTwoKinds
  <2>2. CASE given # <<>>
    <3>1. Head(q) = Head(given) /\ Tail(q) = Append(Tail(given), AskedFor)
      BY <1>7, <2>2, HeadOfTwoKinds
    <3>2. Head(given) \in NotAwaited /\ Tail(given) \in Seq(NotAwaited)
      BY <2>2, HeadTailProperties
    <3> QED  BY <3>1, <3>2 DEF NotAwaited
  <2> QED  BY <2>1, <2>2
<1> QED  BY <1>3, <1>4, <1>5, <1>6, <1>7

LEMMA ServesKeep == ASSUME DatasetInv, NEW c \in Cameras, CameraServesCall(c) PROVE DatasetInv'
<1> DEFINE h == Head(calls[c])
<1>1. /\ calls[c] # <<>> /\ calls' = [calls EXCEPT ![c] = Tail(@)]
      /\ SwitchedTo(c, h.on)
      /\ order' = IF h.awaited THEN [order EXCEPT !.result[c] = "ok"] ELSE order
      /\ UNCHANGED <<up, gatherVars, outcome, steady, outrun>>
  BY DEF CameraServesCall
<1>2. /\ h \in RecordCall /\ Tail(calls[c]) \in Seq(RecordCall) /\ Len(Tail(calls[c])) <= MaxCalls
      /\ \/ /\ ~h.awaited
            /\ \/ Tail(calls[c]) \in Seq(NotAwaited)
               \/ /\ order # Unknown /\ order.result[c] = "waiting"
                  /\ \E given \in Seq(NotAwaited) : Tail(calls[c]) = Append(given, AskedFor)
         \/ /\ order # Unknown /\ order.result[c] = "waiting"
            /\ h = AskedFor /\ Tail(calls[c]) = <<>>
  BY <1>1, HeadServed
<1> HIDE DEF h
<1>3. c \in up
  BY <1>1 DEF DatasetInv, CallsInOrder
<1>4. h.on \in BOOLEAN
  BY <1>2 DEF RecordCall
<1>5. /\ mail' \in [Cameras -> States] /\ records' \subseteq up'
      /\ \A d \in Cameras \ {c} : d \in records' <=> d \in records
      /\ c \in records' <=> h.on
      /\ \A d \in up' : CameraTells(d)'
      /\ (LastSumTells \/ SumStands)'
  <2> DEFINE on == h.on
  <2>1. on \in BOOLEAN /\ SwitchedTo(c, on)
    BY <1>1, <1>4
  <2> HIDE DEF on
  <2>2. /\ mail' \in [Cameras -> States] /\ records' \subseteq up'
        /\ \A d \in Cameras \ {c} : d \in records' <=> d \in records
        /\ c \in records' <=> on
        /\ \A d \in up' : CameraTells(d)'
        /\ (LastSumTells \/ SumStands)'
    BY <1>1, <1>3, <2>1, SwitchTells
  <2> QED  BY <2>2 DEF on
<1>6. calls \in [Cameras -> Seq(RecordCall)]
  BY DatasetFacts DEF DatasetTyped
<1>7. calls'[c] = Tail(calls[c]) /\ \A d \in Cameras \ {c} : calls'[d] = calls[d]
  BY <1>1, <1>6
<1>8. calls' \in [Cameras -> Seq(RecordCall)] /\ \A d \in Cameras : Len(calls'[d]) <= MaxCalls
  <2>1. calls' = [calls EXCEPT ![c] = Tail(calls[c])]
    BY <1>1
  <2>2. calls' \in [Cameras -> Seq(RecordCall)]
    BY <1>2, <1>6, <2>1
  <2> QED  BY <1>2, <1>7, <2>2, DatasetFacts DEF DatasetTypeOK
<1>9. ASSUME NEW d \in Cameras \ {c}, NEW target, DoneAsAsked(d, target) PROVE DoneAsAsked(d, target)'
  BY <1>1, <1>5, <1>7, <1>9 DEF DoneAsAsked
<1>10. ASSUME NEW target PROVE ~DoneAsAsked(c, target)
  BY <1>1 DEF DoneAsAsked
<1>11. outcome' # Unknown => order = Unknown /\ \A d \in outcome'.cameras : d \in Cameras \ {c} /\ DoneAsAsked(d, outcome.target)'
  <2> SUFFICES ASSUME outcome # Unknown
               PROVE  order = Unknown /\ \A d \in outcome.cameras : d \in Cameras \ {c} /\ DoneAsAsked(d, outcome.target)'
    BY <1>1
  <2>1. outcome.cameras \subseteq Cameras
    BY DatasetFacts DEF DatasetTyped, Outcomes
  <2>2. order = Unknown /\ \A d \in outcome.cameras : DoneAsAsked(d, outcome.target)
    BY DEF DatasetInv, CallsInOrder
  <2>3. \A d \in outcome.cameras : d \in Cameras \ {c}
    BY <1>10, <2>1, <2>2
  <2> QED  BY <1>1, <1>9, <2>2, <2>3 DEF DoneAsAsked
<1>12. order # Unknown => order \in Orders
  BY DatasetFacts DEF DatasetTyped
\* A call that nobody awaits changes nothing of the request in execution ...
<1>13. CASE order' = order
             /\ \/ Tail(calls[c]) \in Seq(NotAwaited)
                \/ /\ order # Unknown /\ order.result[c] = "waiting"
                   /\ \E given \in Seq(NotAwaited) : Tail(calls[c]) = Append(given, AskedFor)
  <2>1. \A d \in Cameras : AwaitedLast(d)' /\ (d \notin up' => calls'[d] = <<>>)
    <3> SUFFICES ASSUME NEW d \in Cameras PROVE AwaitedLast(d)' /\ (d \notin up' => calls'[d] = <<>>)
      OBVIOUS
    <3>1. CASE d = c
      BY <1>1, <1>3, <1>7, <1>13, <3>1 DEF AwaitedLast, AskedFor
    <3>2. CASE d # c
      BY <1>1, <1>7, <1>13, <3>2 DEF AwaitedLast, AskedFor, DatasetInv, CallsInOrder
    <3> QED  BY <3>1, <3>2
  <2>2. order' # Unknown => \A d \in Cameras : order'.result[d] = "ok" => DoneAsAsked(d, order.target)'
    <3> SUFFICES ASSUME order # Unknown, NEW d \in Cameras, order.result[d] = "ok", NEW target, target = order.target
                 PROVE  DoneAsAsked(d, target)'
      BY <1>13 DEF DoneAsAsked
    <3>1. DoneAsAsked(d, target)
      BY DEF DatasetInv, CallsInOrder
    <3>2. d # c
      BY <1>10, <3>1
    <3> QED  BY <1>9, <3>1, <3>2
  <2>3. CallsInOrder'
    BY <1>11, <1>13, <2>1, <2>2 DEF CallsInOrder
  <2>4. DatasetTyped'
    BY <1>1, <1>5, <1>8, <1>13, DatasetFacts DEF DatasetTyped, DatasetTypeOK, gatherVars
  <2> QED  BY <1>5, <2>3, <2>4 DEF DatasetInv
\* ... the one that is awaited is the last, and the camera is then as the request wants it.
<1>14. CASE /\ order # Unknown /\ order.result[c] = "waiting"
            /\ h = AskedFor /\ Tail(calls[c]) = <<>>
  <2>1. h.awaited /\ h.on = order.target
    BY <1>14 DEF AskedFor
  <2>2. order' = [order EXCEPT !.result[c] = "ok"]
    BY <1>1, <2>1
  <2>3. /\ order' \in Orders /\ order'.target = order.target /\ order'.result[c] = "ok"
        /\ \A d \in Cameras \ {c} : order'.result[d] = order.result[d]
    BY <1>12, <1>14, <2>2 DEF Orders
  <2>4. order' # Unknown
    BY <2>3, DatasetFacts
  <2>5. \A d \in Cameras : AwaitedLast(d)' /\ (d \notin up' => calls'[d] = <<>>)
    <3> SUFFICES ASSUME NEW d \in Cameras PROVE AwaitedLast(d)' /\ (d \notin up' => calls'[d] = <<>>)
      OBVIOUS
    <3>1. CASE d = c
      <4>1. <<>> \in Seq(NotAwaited)
        OBVIOUS
      <4>2. calls'[d] = <<>> /\ calls'[d] \in Seq(NotAwaited)
        BY <1>7, <1>14, <3>1, <4>1
      <4> QED  BY <4>2 DEF AwaitedLast
    <3>2. CASE d # c
      <4>1. AwaitedLast(d) /\ (d \notin up => calls[d] = <<>>)
        BY DEF DatasetInv, CallsInOrder
      <4>2. AskedFor' = AskedFor /\ order'.result[d] = order.result[d] /\ calls'[d] = calls[d]
        BY <1>7, <2>3, <3>2 DEF AskedFor
      <4> QED  BY <1>1, <2>4, <4>1, <4>2 DEF AwaitedLast
    <3> QED  BY <3>1, <3>2
  <2>6. ASSUME NEW d \in Cameras, order'.result[d] = "ok", NEW target, target = order.target
        PROVE  DoneAsAsked(d, target)'
    <3>1. CASE d = c
      BY <1>5, <1>7, <1>14, <2>1, <2>6, <3>1 DEF DoneAsAsked
    <3>2. CASE d # c
      <4>1. order.result[d] = "ok"
        BY <2>3, <2>6, <3>2
      <4>2. DoneAsAsked(d, target)
        BY <1>14, <2>6, <4>1 DEF DatasetInv, CallsInOrder
      <4> QED  BY <1>9, <3>2, <4>2
    <3> QED  BY <3>1, <3>2
  <2>7. outcome' = Unknown
    BY <1>1, <1>11, <1>14
  <2>8. \A d \in Cameras : order'.result[d] = "ok" => DoneAsAsked(d, order.target)'
    BY <2>3, <2>6 DEF DoneAsAsked
  <2>9. CallsInOrder'
    BY <2>5, <2>7, <2>8 DEF CallsInOrder
  <2>10. DatasetTyped'
    BY <1>1, <1>5, <1>8, <2>3, DatasetFacts DEF DatasetTyped, DatasetTypeOK, gatherVars
  <2> QED  BY <1>5, <2>9, <2>10 DEF DatasetInv
<1>15. ~h.awaited => order' = order
  BY <1>1
<1> QED  BY <1>2, <1>13, <1>14, <1>15

-------------------------------------------------------------------------------
(* The threads that gather *)

LEMMA TakeKeeps == ASSUME DatasetInv, NEW c \in Cameras, TakeState(c) PROVE DatasetInv'
<1>1. /\ mail[c] # Unknown /\ Len(taken) + Len(totals) < Threads
      /\ mail' = [mail EXCEPT ![c] = Unknown]
      /\ taken' = Append(taken, [camera |-> c, on |-> mail[c], outrun |-> FALSE])
      /\ UNCHANGED <<up, records, calls, order, known, totals, sum, outcome, steady, outrun>>
  BY DEF TakeState
<1>2. /\ mail \in [Cameras -> States] /\ taken \in Seq(StateMessage)
      /\ Len(taken) \in Nat /\ Len(totals) \in Nat /\ Threads \in Nat
  BY DatasetFacts DEF DatasetTyped
<1> DEFINE news == [camera |-> c, on |-> mail[c], outrun |-> FALSE]
<1>3. news \in StateMessage
  BY <1>1, <1>2 DEF StateMessage, States
<1>4. news.camera = c /\ news.on = mail[c] /\ ~news.outrun
  OBVIOUS
<1> HIDE DEF news
<1>5. taken' = Append(taken, news)
  BY <1>1 DEF news
<1>6. /\ taken' \in Seq(StateMessage) /\ Len(taken') = Len(taken) + 1
      /\ \A k \in 1..Len(taken) : taken'[k] = taken[k]
      /\ taken'[Len(taken) + 1] = news
  BY <1>2, <1>3, <1>5, AppendProperties
<1>7. DatasetTyped'
  <2>1. mail' \in [Cameras -> States]
    BY <1>1, <1>2 DEF States
  <2>2. Len(taken') + Len(totals') <= Threads
    BY <1>1, <1>2, <1>6
  <2> QED  BY <1>1, <1>6, <2>1, <2>2, DatasetFacts DEF DatasetTyped, DatasetTypeOK
<1>8. CallsInOrder'
  BY <1>1, CallsUntouched
<1>9. \A d, said : IsSo(said, d)' <=> IsSo(said, d)
  BY <1>1 DEF IsSo
<1>10. CameraTells(c)' \/ c \notin up'
  <2> SUFFICES ASSUME c \in up PROVE CameraTells(c)'
    BY <1>1
  <2>1. mail'[c] = Unknown
    BY <1>1, <1>2
  <2>2. IsSo(mail[c], c)
    BY <1>1 DEF DatasetInv, CameraTells
  <2>3. IsSo(news.on, c)
    BY <1>4, <2>2
  <2>4. NewestTells(c)'
    <3>1. PICK k \in 1..Len(taken') : k = Len(taken) + 1 /\ taken'[k] = news
      BY <1>2, <1>6
    <3>2. \A j \in 1..Len(taken') : ~(j > k)
      BY <1>2, <1>6, <3>1
    <3>3. taken'[k].camera = c /\ ~taken'[k].outrun /\ IsSo(taken'[k].on, c)
      BY <1>4, <2>3, <3>1
    <3>4. IsSo(taken[k].on, c)'
      BY <1>1, <3>3 DEF IsSo
    <3> QED  BY <3>2, <3>3, <3>4 DEF NewestTells
  <2> QED  BY <2>1, <2>4 DEF CameraTells
<1>11. ASSUME NEW d \in up', d # c PROVE CameraTells(d)'
  <2>1. d \in up /\ d \in Cameras /\ mail'[d] = mail[d]
    BY <1>1, <1>2, <1>11, DatasetFacts DEF DatasetTypeOK
  <2>2. CASE mail[d] # Unknown
    BY <1>9, <2>1, <2>2 DEF DatasetInv, CameraTells
  <2>3. CASE mail[d] = Unknown
    <3>1. NewestTells(d) => NewestTells(d)'
      <4> SUFFICES ASSUME NewestTells(d) PROVE NewestTells(d)'
        OBVIOUS
      <4>1. PICK k \in 1..Len(taken) :
              /\ taken[k].camera = d /\ ~taken[k].outrun /\ IsSo(taken[k].on, d)
              /\ \A j \in 1..Len(taken) : j > k => taken[j].camera # d
        BY DEF NewestTells
      <4>2. k \in 1..Len(taken') /\ taken'[k] = taken[k]
        BY <1>2, <1>6
      <4>3. \A j \in 1..Len(taken') : j > k => taken'[j].camera # d
        <5> SUFFICES ASSUME NEW j \in 1..Len(taken'), j > k PROVE taken'[j].camera # d
          OBVIOUS
        <5>1. CASE j \in 1..Len(taken)
          BY <1>6, <4>1, <5>1
        <5>2. CASE j = Len(taken) + 1
          BY <1>4, <1>6, <1>11, <5>2
        <5> QED  BY <1>2, <1>6, <5>1, <5>2
      <4>4. IsSo(taken[k].on, d)'
        BY <1>1, <4>1, <4>2 DEF IsSo
      <4> QED  BY <4>1, <4>2, <4>3, <4>4 DEF NewestTells
    <3>2. AllOutrun(d) => AllOutrun(d)'
      <4> SUFFICES ASSUME AllOutrun(d), NEW j \in 1..Len(taken'), taken'[j].camera = d PROVE taken'[j].outrun
        BY DEF AllOutrun
      <4>1. CASE j \in 1..Len(taken)
        BY <1>6, <4>1 DEF AllOutrun
      <4>2. CASE j = Len(taken) + 1
        BY <1>4, <1>6, <1>11, <4>2
      <4> QED  BY <1>2, <1>6, <4>1, <4>2
    <3>3. (d \notin outrun => IsSo(known[d], d)) => (d \notin outrun => IsSo(known[d], d))'
      BY <1>1 DEF IsSo
    <3>4. NewestTells(d) \/ StoredTells(d)
      BY <2>1, <2>3 DEF DatasetInv, CameraTells
    <3>5. NewestTells(d)' \/ StoredTells(d)'
      BY <3>1, <3>2, <3>3, <3>4 DEF StoredTells
    <3> QED  BY <2>1, <2>3, <3>5 DEF CameraTells
  <2> QED  BY <2>2, <2>3
<1>12. (LastSumTells \/ SumStands)'
  BY <1>1, SumUntouched
<1> QED  BY <1>7, <1>8, <1>10, <1>11, <1>12 DEF DatasetInv

\* An element that is not taken away is still there, and those behind it are behind it.
LEMMA StillThere ==
    ASSUME NEW n \in Nat, NEW i \in 1..n, NEW k \in 1..n, k # i
    PROVE  \E j \in 1..(n - 1) : Before(j, i) = k /\ \A l \in 1..(n - 1) : l > j => Before(l, i) > k
<1>1. CASE k < i
  <2>1. k \in 1..(n - 1) /\ Before(k, i) = k
    BY <1>1 DEF Before
  <2>2. \A l \in 1..(n - 1) : l > k => Before(l, i) > k
    BY <1>1 DEF Before
  <2> QED  BY <2>1, <2>2
<1>2. CASE k > i
  <2>1. PICK j \in 1..(n - 1) : j + 1 = k
    BY <1>2
  <2>2. Before(j, i) = k
    BY <1>2, <2>1 DEF Before
  <2>3. \A l \in 1..(n - 1) : l > j => Before(l, i) > k
    BY <1>2, <2>1 DEF Before
  <2> QED  BY <2>2, <2>3
<1> QED  BY <1>1, <1>2

\* The newest message of a camera, when another is stored.
LEMMA NewestStays ==
    ASSUME DatasetInv, NEW i \in 1..Len(taken), StoreState(i), NEW c, NEW k \in 1..Len(taken), k # i,
           taken[k].camera = c, ~taken[k].outrun, IsSo(taken[k].on, c),
           \A j \in 1..Len(taken) : j > k => taken[j].camera # c
    PROVE  NewestTells(c)'
<1>1. /\ Len(taken') = Len(taken) - 1 /\ Len(taken) \in Nat
      /\ \A j \in 1..Len(taken') : \E l \in 1..Len(taken) :
           /\ l = Before(j, i) /\ l # i
           /\ taken'[j].camera = taken[l].camera /\ taken'[j].on = taken[l].on
           /\ taken'[j].outrun <=> taken[l].outrun \/ (l < i /\ taken[l].camera = taken[i].camera)
  BY StoredLeaves DEF DatasetInv
<1>2. PICK j \in 1..Len(taken') : Before(j, i) = k /\ \A l \in 1..Len(taken') : l > j => Before(l, i) > k
  BY <1>1, StillThere
<1>3. /\ taken'[j].camera = taken[k].camera /\ taken'[j].on = taken[k].on
      /\ taken'[j].outrun <=> taken[k].outrun \/ (k < i /\ taken[k].camera = taken[i].camera)
  BY <1>1, <1>2
<1>4. ~(k < i /\ taken[k].camera = taken[i].camera)
  BY <1>1
<1>5. taken'[j].camera = c /\ ~taken'[j].outrun
  BY <1>3, <1>4
<1>6. IsSo(taken[j].on, c)'
  <2>1. records' = records
    BY DEF StoreState
  <2>2. IsSo(taken[k].on, c) <=> IsSo(taken'[j].on, c)
    BY <1>3
  <2> QED  BY <2>1, <2>2 DEF IsSo
<1>7. ASSUME NEW l \in 1..Len(taken'), l > j PROVE taken'[l].camera # c
  <2>1. PICK m \in 1..Len(taken) : m = Before(l, i) /\ taken'[l].camera = taken[m].camera
    BY <1>1
  <2>2. m > k
    BY <1>2, <1>7, <2>1
  <2> QED  BY <2>1, <2>2
<1> QED  BY <1>5, <1>6, <1>7 DEF NewestTells

LEMMA OutrunStay ==
    ASSUME DatasetInv, NEW i \in 1..Len(taken), StoreState(i), NEW c, AllOutrun(c) PROVE AllOutrun(c)'
<1>1. \A j \in 1..Len(taken') : \E l \in 1..Len(taken) :
           /\ l = Before(j, i) /\ l # i
           /\ taken'[j].camera = taken[l].camera /\ taken'[j].on = taken[l].on
           /\ taken'[j].outrun <=> taken[l].outrun \/ (l < i /\ taken[l].camera = taken[i].camera)
  BY StoredLeaves DEF DatasetInv
<1> QED  BY <1>1 DEF AllOutrun

LEMMA StoreKeeps == ASSUME DatasetInv, NEW i \in 1..Len(taken), StoreState(i) PROVE DatasetInv'
<1> DEFINE m == taken[i]
<1>1. /\ known' = [known EXCEPT ![m.camera] = m.on]
      /\ totals' = Append(totals, [sum |-> AnyRecords(known'), outrun |-> FALSE])
      /\ outrun' = IF m.outrun THEN outrun \cup {m.camera} ELSE outrun \ {m.camera}
      /\ UNCHANGED <<up, records, mail, calls, order, sum, outcome, steady>>
  BY DEF StoreState, Aggregate
<1>2. /\ taken \in Seq(StateMessage) /\ totals \in Seq(SumMessage) /\ known \in [Cameras -> States]
      /\ up \subseteq Cameras /\ outrun \subseteq Cameras \cup {Unknown}
      /\ Len(taken) \in Nat /\ Len(totals) \in Nat /\ Len(taken) + Len(totals) <= Threads /\ Threads \in Nat
  BY DatasetFacts DEF DatasetTyped, DatasetTypeOK
<1>3. m \in StateMessage
  BY <1>2, LenProperties
<1>4. m.camera \in Cameras /\ m.on \in BOOLEAN /\ m.outrun \in BOOLEAN
  BY <1>3 DEF StateMessage
<1>5. taken' \in Seq(StateMessage) /\ Len(taken') = Len(taken) - 1
  BY StoredLeaves DEF DatasetInv
<1>15. PICK total : total = [sum |-> AnyRecords(known'), outrun |-> FALSE]
  OBVIOUS
<1>6. total \in SumMessage
  BY <1>15 DEF SumMessage, AnyRecords
<1>7. ~total.outrun /\ total.sum = AnyRecords(known')
  BY <1>15
<1>8. /\ totals' \in Seq(SumMessage) /\ Len(totals') = Len(totals) + 1
      /\ totals'[Len(totals) + 1] = total
  BY <1>1, <1>2, <1>6, <1>15, AppendProperties
<1>9. LastSumTells'
  <2>1. totals' # <<>>
    BY <1>2, <1>8, EmptySeq
  <2>2. totals'[Len(totals')] = total
    BY <1>8
  <2>3. ~totals'[Len(totals')].outrun
    BY <1>7, <2>2
  <2>4. totals'[Len(totals')].sum = AnyRecords(known')
    BY <1>7, <2>2
  <2>5. AnyRecords(known') = AnyRecords(known)'
    BY DEF AnyRecords
  <2>6. SumIsSo(totals[Len(totals)].sum)'
    BY <2>4, <2>5, Zenon DEF SumIsSo
  <2> QED  BY <2>1, <2>3, <2>6 DEF LastSumTells
<1>10. DatasetTyped'
  <2>1. known' \in [Cameras -> States]
    BY <1>1, <1>2, <1>4 DEF States
  <2>2. Len(taken') + Len(totals') <= Threads
    BY <1>2, <1>5, <1>8
  <2>3. outrun' \subseteq Cameras \cup {Unknown}
    BY <1>1, <1>2, <1>4
  <2> QED  BY <1>1, <1>5, <1>8, <2>1, <2>2, <2>3, DatasetFacts DEF DatasetTyped, DatasetTypeOK
<1>11. CallsInOrder'
  BY <1>1, CallsUntouched
<1>12. ASSUME NEW c \in up' PROVE CameraTells(c)'
  <2>1. c \in up /\ c \in Cameras /\ mail'[c] = mail[c]
    BY <1>1, <1>2
  <2>2. \A said : IsSo(said, c)' <=> IsSo(said, c)
    BY <1>1 DEF IsSo
  <2>3. CASE mail[c] # Unknown
    BY <2>1, <2>2, <2>3 DEF DatasetInv, CameraTells
  <2>4. CASE mail[c] = Unknown
    <3>1. NewestTells(c) \/ StoredTells(c)
      BY <2>1, <2>4 DEF DatasetInv, CameraTells
    <3>2. CASE NewestTells(c)
      <4>1. PICK k \in 1..Len(taken) :
              /\ taken[k].camera = c /\ ~taken[k].outrun /\ IsSo(taken[k].on, c)
              /\ \A j \in 1..Len(taken) : j > k => taken[j].camera # c
        BY <3>2 DEF NewestTells
      <4>2. CASE k # i
        <5>1. NewestTells(c)'
          BY <4>1, <4>2, NewestStays
        <5> QED  BY <2>1, <2>4, <5>1 DEF CameraTells
      <4>3. CASE k = i
        <5>1. m.camera = c /\ ~m.outrun /\ IsSo(m.on, c)
          BY <4>1, <4>3
        <5>2. known'[c] = m.on /\ c \notin outrun'
          BY <1>1, <1>2, <2>1, <5>1
        <5>3. IsSo(known[c], c)'
          BY <1>1, <5>1, <5>2, Zenon DEF IsSo
        <5>4. AllOutrun(c)'
          <6> SUFFICES ASSUME NEW j \in 1..Len(taken'), taken'[j].camera = c PROVE taken'[j].outrun
            BY DEF AllOutrun
          <6>1. PICK l \in 1..Len(taken) :
                  /\ l = Before(j, i) /\ l # i
                  /\ taken'[j].camera = taken[l].camera /\ taken'[j].on = taken[l].on
                  /\ taken'[j].outrun <=> taken[l].outrun \/ (l < i /\ taken[l].camera = taken[i].camera)
            BY StoredLeaves DEF DatasetInv
          <6>2. l < i
            BY <1>2, <4>1, <4>3, <6>1
          <6> QED  BY <5>1, <6>1, <6>2
        <5>5. StoredTells(c)'
          BY <5>2, <5>3, <5>4 DEF StoredTells
        <5> QED  BY <2>1, <2>4, <5>5 DEF CameraTells
      <4> QED  BY <4>2, <4>3
    <3>3. CASE StoredTells(c)
      <4>1. AllOutrun(c)'
        BY <3>3, OutrunStay DEF StoredTells
      <4>2. c \notin outrun' => c # m.camera /\ c \notin outrun
        <5>1. m.camera = c => m.outrun
          BY <3>3 DEF StoredTells, AllOutrun
        <5> QED  BY <1>1, <5>1
      <4>3. c # m.camera => known'[c] = known[c]
        BY <1>1, <1>2, <2>1
      <4>4. c \notin outrun' => IsSo(known[c], c)'
        BY <1>1, <3>3, <4>2, <4>3, Zenon DEF StoredTells, IsSo
      <4>5. StoredTells(c)'
        BY <4>1, <4>4 DEF StoredTells
      <4> QED  BY <2>1, <2>4, <4>5 DEF CameraTells
    <3> QED  BY <3>1, <3>2, <3>3
  <2> QED  BY <2>3, <2>4
<1> QED  BY <1>9, <1>10, <1>11, <1>12 DEF DatasetInv

LEMMA PublishKeeps == ASSUME DatasetInv, NEW i \in 1..Len(totals), PublishSum(i) PROVE DatasetInv'
<1>1. /\ sum' = totals[i].sum
      /\ outrun' = IF totals[i].outrun THEN outrun \cup {Unknown} ELSE outrun \ {Unknown}
      /\ UNCHANGED <<up, records, mail, calls, order, known, taken, outcome, steady>>
  BY DEF PublishSum
<1>2. /\ totals \in Seq(SumMessage) /\ Len(totals) \in Nat /\ Unknown \notin Cameras /\ up \subseteq Cameras
      /\ outrun \subseteq Cameras \cup {Unknown}
      /\ Len(taken) \in Nat /\ Len(taken) + Len(totals) <= Threads /\ Threads \in Nat
  BY DatasetFacts DEF DatasetTyped, DatasetTypeOK
<1>3. totals[i] \in SumMessage
  BY <1>2, LenProperties
<1>4. totals[i].sum \in BOOLEAN /\ totals[i].outrun \in BOOLEAN
  BY <1>3 DEF SumMessage
<1>5. /\ totals' \in Seq(SumMessage) /\ Len(totals') = Len(totals) - 1
      /\ \A j \in 1..Len(totals') : \E k \in 1..Len(totals) :
           /\ k = Before(j, i) /\ k # i /\ totals'[j].sum = totals[k].sum
           /\ totals'[j].outrun <=> totals[k].outrun \/ k < i
  BY PublishedLeaves DEF DatasetInv
<1>6. DatasetTyped'
  <2>1. Len(taken') + Len(totals') <= Threads
    BY <1>1, <1>2, <1>5
  <2>2. outrun' \subseteq Cameras \cup {Unknown}
    BY <1>1, <1>2
  <2>3. sum' \in BOOLEAN
    BY <1>1, <1>4
  <2> QED  BY <1>1, <1>5, <2>1, <2>2, <2>3, DatasetFacts DEF DatasetTyped, DatasetTypeOK
<1>7. CallsInOrder'
  BY <1>1, CallsUntouched
<1>8. ASSUME NEW c \in up' PROVE CameraTells(c)'
  <2>1. CameraTells(c) /\ mail'[c] = mail[c] /\ (c \in records' <=> c \in records)
    BY <1>1, <1>8 DEF DatasetInv
  <2>2. c \in outrun' <=> c \in outrun
    BY <1>1, <1>2, <1>8
  <2> QED  BY <1>1, <2>1, <2>2, TellsUntouched
<1>9. \A said : SumIsSo(said)' <=> SumIsSo(said)
  BY <1>1 DEF SumIsSo, AnyRecords
<1>10. (LastSumTells \/ SumStands)'
  <2>1. LastSumTells \/ SumStands
    BY DEF DatasetInv
  <2>2. CASE LastSumTells /\ i = Len(totals)
    <3>1. ASSUME NEW j \in 1..Len(totals') PROVE totals'[j].outrun
      <4>1. PICK k \in 1..Len(totals) :
              k # i /\ (totals'[j].outrun <=> totals[k].outrun \/ k < i)
        BY <1>5
      <4>2. k < i
        BY <1>2, <2>2, <4>1
      <4> QED  BY <4>1, <4>2
    <3>2. ~totals[i].outrun /\ SumIsSo(totals[i].sum)
      BY <2>2 DEF LastSumTells
    <3>3. Unknown \notin outrun'
      BY <1>1, <3>2
    <3>4. PICK said : said = totals[i].sum
      OBVIOUS
    <3>5. SumIsSo(said)' /\ sum' = said
      BY <1>1, <1>9, <3>2, <3>4
    <3>6. SumIsSo(sum)'
      BY <3>5, Zenon DEF SumIsSo
    <3> QED  BY <3>1, <3>3, <3>6 DEF SumStands
  <2>3. CASE LastSumTells /\ i # Len(totals)
    <3>1. Len(totals) \in 1..Len(totals) /\ ~totals[Len(totals)].outrun /\ SumIsSo(totals[Len(totals)].sum)
      BY <1>2 , <2>3 DEF LastSumTells
    <3>2. Len(totals') \in 1..Len(totals') /\ Before(Len(totals'), i) = Len(totals)
      BY <1>2, <1>5, <2>3 DEF Before
    <3>3. PICK k \in 1..Len(totals) :
            /\ k = Len(totals) /\ totals'[Len(totals')].sum = totals[k].sum
            /\ totals'[Len(totals')].outrun <=> totals[k].outrun \/ k < i
      BY <1>5, <3>2
    <3>4. ~totals'[Len(totals')].outrun
      BY <1>2, <3>1, <3>3
    <3>5. PICK said : said = totals[k].sum
      OBVIOUS
    <3>6. SumIsSo(said)' /\ totals'[Len(totals')].sum = said
      BY <1>9, <3>1, <3>3, <3>5
    <3>7. SumIsSo(totals[Len(totals)].sum)'
      BY <3>6, Zenon DEF SumIsSo
    <3>8. totals' # <<>>
      BY <1>5, <3>2, EmptySeq
    <3> QED  BY <3>4, <3>7, <3>8 DEF LastSumTells
  <2>4. CASE SumStands
    <3>1. \A j \in 1..Len(totals') : totals'[j].outrun
      BY <1>5, <2>4 DEF SumStands
    <3>2. Unknown \in outrun'
      BY <1>1, <2>4 DEF SumStands
    <3> QED  BY <3>1, <3>2 DEF SumStands
  <2> QED  BY <2>1, <2>2, <2>3, <2>4
<1> QED  BY <1>6, <1>7, <1>8, <1>10 DEF DatasetInv

LEMMA ToggleAsks == (~AnyRecords(known)) \in BOOLEAN
  BY DEF AnyRecords

LEMMA DatasetInvStep == DatasetInv /\ [DatasetNext]_datasetVars => DatasetInv'
<1> SUFFICES ASSUME DatasetInv, [DatasetNext]_datasetVars PROVE DatasetInv'
  OBVIOUS
<1>1. DOMAIN taken = 1..Len(taken) /\ DOMAIN totals = 1..Len(totals)
  BY DatasetFacts
<1>2. CASE CamerasNext
  BY <1>2, StartsKeep, DiesKeep, OthersKeep DEF CamerasNext
<1>3. CASE GatherNext
  BY <1>1, <1>3, TakeKeeps, StoreKeeps, PublishKeeps DEF GatherNext
<1>4. CASE AskNext
  <2>1. ASSUME NEW on \in BOOLEAN, Record(on) PROVE DatasetInv'
    BY <2>1, AskKeeps DEF Record
  <2>2. CASE Toggle
    <3>1. (~AnyRecords(known)) \in BOOLEAN
      BY ToggleAsks
    <3>2. PICK target \in BOOLEAN : AskAll(target)
      <4>1. PICK target : target = ~AnyRecords(known)
        OBVIOUS
      <4>2. target \in BOOLEAN
        BY <3>1, <4>1
      <4>3. AskAll(target)
        BY <2>2, <4>1, Zenon DEF Toggle
      <4> QED  BY <4>2, <4>3
    <3> QED  BY <3>2, AskKeeps
  <2> QED  BY <1>4, <2>1, <2>2, AnswerKeeps, ServesKeep DEF AskNext
<1>5. CASE UNCHANGED datasetVars
  <2>1. /\ UNCHANGED <<up, records, mail, calls, order, outcome, steady, outrun>>
        /\ UNCHANGED <<known, taken, totals, sum>>
    BY <1>5 DEF datasetVars, gatherVars
  <2>2. CallsInOrder' /\ (LastSumTells \/ SumStands)'
    BY <2>1, CallsUntouched, SumUntouched
  <2>3. DatasetTyped'
    BY <2>1, DatasetFacts DEF DatasetTyped, DatasetTypeOK
  <2>4. \A c \in up' : CameraTells(c)'
    <3> SUFFICES ASSUME NEW c \in up PROVE CameraTells(c)'
      BY <2>1
    <3> QED  BY <2>1, TellsUntouched DEF DatasetInv
  <2> QED  BY <2>2, <2>3, <2>4 DEF DatasetInv
<1> QED  BY <1>2, <1>3, <1>4, <1>5 DEF DatasetNext

LEMMA DatasetSafe == DatasetInv => DatasetTypeOK /\ RecordsAsAsked /\ SumTells
<1> SUFFICES ASSUME DatasetInv PROVE DatasetTypeOK /\ RecordsAsAsked /\ SumTells
  OBVIOUS
<1>1. RecordsAsAsked
  BY DEF RecordsAsAsked, DatasetInv, CallsInOrder, DoneAsAsked
<1>2. SumTells
  <2> SUFFICES ASSUME taken = <<>>, totals = <<>>
               PROVE  /\ Unknown \notin outrun => sum = AnyRecords(known)
                      /\ \A c \in up \ outrun : mail[c] = Unknown => known[c] = (c \in records)
    BY DEF SumTells
  <2>1. Len(taken) = 0
    OBVIOUS
  <2>2. SumStands
    BY DEF DatasetInv, LastSumTells
  <2>3. Unknown \notin outrun => sum = AnyRecords(known)
    BY <2>2, Zenon DEF SumStands, SumIsSo
  <2>4. ASSUME NEW c \in up \ outrun, mail[c] = Unknown PROVE known[c] = (c \in records)
    <3>1. ~NewestTells(c)
      BY <2>1 DEF NewestTells
    <3>2. StoredTells(c)
      BY <2>4, <3>1 DEF DatasetInv, CameraTells
    <3>3. IsSo(known[c], c)
      BY <2>4, <3>2 DEF StoredTells
    <3> QED  BY <3>3, Zenon DEF IsSo
  <2> QED  BY <2>3, <2>4
<1> QED  BY <1>1, <1>2, DatasetFacts

\* The dataset node (dataset_node.py): what it tells the console of the cameras is so once all is
\* gathered, and what a request that succeeds says of its cameras is so until another switches them.
THEOREM DatasetIsSo == DatasetSpec => [](RecordsAsAsked /\ SumTells)
<1>1. DatasetInv => RecordsAsAsked /\ SumTells
  BY DatasetSafe
<1> QED  BY <1>1, DatasetInvInit, DatasetInvStep, PTL DEF DatasetSpec

-------------------------------------------------------------------------------
(***************************************************************************)
(* The tower lamps and the light bar: their types.                         *)
(***************************************************************************)

\* The link lamp knows the last state of the link only.
LampTyped ==
    /\ fresh \subseteq Inputs
    /\ lampNode = "link" => fresh = {} \/ \E s \in Inputs : fresh = {s}
    /\ confirmed \in Colours \cup {Unset} /\ asked \in Colours \cup {Unset} /\ colour \in Colours
    /\ server \in {"up", "gone"} /\ behind \in BOOLEAN /\ wedged \in BOOLEAN

LEMMA LampTypedInit == LampInit => LampTyped
BY DEF LampInit, LampTyped

LEMMA LampTypedStep == LampTyped /\ [LampNext]_lampVars => LampTyped'
<1> SUFFICES ASSUME LampTyped, [LampNext]_lampVars PROVE LampTyped'
  OBVIOUS
<1>1. lampNode' = lampNode /\ Inputs' = Inputs /\ Colours' = Colours
  BY DEF LampNext, lampVars, Hear, GrowStale, LampTick, Granted, Refused, ChangedByOthers, ServerComes,
         ServerGoes, Inputs, Colours
<1>2. "dark" \in Colours /\ Wanted \in Colours
  BY DEF Wanted, Colours
<1>3. ASSUME NEW s \in Inputs, Hear(s) PROVE LampTyped'
  BY <1>1, <1>3 DEF Hear, LampTyped
<1>4. ASSUME NEW s \in Inputs, GrowStale(s) PROVE LampTyped'
  BY <1>1, <1>4 DEF GrowStale, LampTyped
<1>5. CASE LampTick
  BY <1>1, <1>2, <1>5 DEF LampTick, LampTyped
<1>6. CASE Granted \/ Refused
  BY <1>1, <1>6 DEF Granted, Refused, ConfirmedNow, LampTyped
<1>7. CASE ChangedByOthers
  BY <1>1, <1>7 DEF ChangedByOthers, LampTyped
<1>8. CASE ServerComes
  BY <1>1, <1>8 DEF ServerComes, LampTyped
<1>9. CASE ServerGoes
  BY <1>1, <1>2, <1>9 DEF ServerGoes, LampTyped
<1>10. CASE UNCHANGED lampVars
  BY <1>1, <1>10 DEF lampVars, LampTyped
<1> QED  BY <1>3, <1>4, <1>5, <1>6, <1>7, <1>8, <1>9, <1>10 DEF LampNext

LEMMA LampSafe == LampTyped => LampTypeOK
<1> SUFFICES ASSUME LampTyped PROVE LampTypeOK
  OBVIOUS
<1>1. ASSUME lampNode = "link" PROVE Cardinality(fresh) <= 1
  <2>1. Cardinality({}) = 0 /\ \A s : Cardinality({s}) = 1
    BY FS_EmptySet, FS_Singleton
  <2>2. CASE fresh = {}
    BY <2>1, <2>2
  <2>3. ASSUME NEW s \in Inputs, fresh = {s} PROVE Cardinality(fresh) <= 1
    BY <2>1, <2>3
  <2> QED  BY <1>1, <2>2, <2>3 DEF LampTyped
<1> QED  BY <1>1 DEF LampTyped, LampTypeOK

LEMMA BarTypeInit == BarInit => BarTypeOK
BY PadsAssumption DEF BarInit, BarTypeOK, DriveStates, BarColours

LEMMA BarTypeStep == BarTypeOK /\ [BarNext]_barVars => BarTypeOK'
<1> SUFFICES ASSUME BarTypeOK, [BarNext]_barVars PROVE BarTypeOK'
  OBVIOUS
<1>1. \A shows, active : LedColour(shows, active) \in BarColours
  BY DEF LedColour, BarColours
<1>2. "white" \in BarColours /\ "blue" \in BarColours /\ "motors_off" \in DriveStates /\ bar \in BarColours
  BY DEF BarColours, DriveStates, BarTypeOK
<1>3. CASE DriveChanges
  BY <1>3 DEF DriveChanges, BarTypeOK
<1>4. CASE OnDriveState
  BY <1>1, <1>2, <1>4 DEF OnDriveState, Paint, BarTypeOK
<1>5. CASE OnActiveToggle
  BY <1>1, <1>2, <1>5 DEF OnActiveToggle, Paint, BarTypeOK
<1>6. CASE RefreshLed
  BY <1>1, <1>2, <1>6 DEF RefreshLed, Paint, BarTypeOK
<1>7. CASE MarkLedOffline
  BY <1>2, <1>7 DEF MarkLedOffline, Paint, BarTypeOK
<1>8. CASE InterpreterStarts
  BY <1>1, <1>2, <1>8 DEF InterpreterStarts, Paint, BarTypeOK
<1>9. CASE PadChanges
  BY <1>2, <1>9 DEF PadChanges, BarTypeOK
<1>10. CASE UNCHANGED barVars
  BY <1>10 DEF barVars, BarTypeOK
<1> QED  BY <1>3, <1>4, <1>5, <1>6, <1>7, <1>8, <1>9, <1>10 DEF BarNext

-------------------------------------------------------------------------------
(***************************************************************************)
(* The fault log.  What is on its way are the events from some number on,  *)
(* in order and without a gap up to the last that was sent.                *)
(***************************************************************************)

EventNumbers == 1..MaxFaults

\* The queue holds the numbers from + 1, ..., sent.
LEMMA LastOfProperties ==
    ASSUME NEW S, NEW q \in Seq(S), NEW n \in Nat \ {0}
    PROVE  /\ LastOf(q, n) \in Seq(S)
           /\ Len(LastOf(q, n)) = IF Len(q) > n THEN n ELSE Len(q)
           /\ \A j \in 1..Len(LastOf(q, n)) : LastOf(q, n)[j] = q[j + Len(q) - Len(LastOf(q, n))]
<1>1. Len(q) \in Nat /\ q \in [1..Len(q) -> S]
  BY LenProperties
<1> DEFINE start == IF Len(q) > n THEN Len(q) - n + 1 ELSE 1
<1>2. start \in 1..(Len(q) + 1) /\ Len(q) - start + 1 = IF Len(q) > n THEN n ELSE Len(q)
  BY <1>1
<1>3. LastOf(q, n) = SubSeq(q, start, Len(q))
  BY DEF LastOf
<1> HIDE DEF start
<1>4. start \in Int /\ Len(q) \in Int /\ \A j \in start..Len(q) : q[j] \in S
  BY <1>1, <1>2
<1>5. /\ SubSeq(q, start, Len(q)) \in Seq(S)
      /\ Len(SubSeq(q, start, Len(q))) = IF start <= Len(q) THEN Len(q) - start + 1 ELSE 0
      /\ \A j \in 1..(Len(q) - start + 1) : SubSeq(q, start, Len(q))[j] = q[start + j - 1]
  BY <1>4, SubSeqProperties
<1>6. Len(LastOf(q, n)) = Len(q) - start + 1
  BY <1>1, <1>2, <1>3, <1>5
<1>7. ASSUME NEW j \in 1..(Len(q) - start + 1) PROVE LastOf(q, n)[j] = q[j + Len(q) - (Len(q) - start + 1)]
  <2>1. j + Len(q) - (Len(q) - start + 1) = start + j - 1
    BY <1>1, <1>2
  <2> QED  BY <1>3, <1>5, <2>1
<1> QED  BY <1>2, <1>3, <1>5, <1>6, <1>7

\* Numbers that rise, by one at least from each to the next.
Ascends(q) == \A i, j \in 1..Len(q) : i <= j => q[i] + (j - i) <= q[j]

Highest == IF seen = <<>> THEN 0 ELSE seen[Len(seen)]

IsSeen(e) == \E k \in 1..Len(seen) : seen[k] = e

LogTyped ==
    /\ LogTypeOK
    /\ queue \in Seq(Nat) /\ seen \in Seq(Nat) /\ written \in Seq(Nat)
    /\ files \in [0..Backups -> Seq(Nat)]
    /\ handle = "open" => Len(files[0]) < MaxLines

\* The events up to the last, the last Len(queue) of them.
QueueEndsIt ==
    Len(queue) <= sent /\ \A j \in 1..Len(queue) : queue[j] = sent - Len(queue) + j

\* What can be delivered again and was taken is remembered, and so is what can be delivered
\* again and lies below one that is remembered.
LastAreSeen ==
    \A e \in 1..sent : e > sent - Depth /\ (e <= sent - Len(queue) \/ e <= Highest) => IsSeen(e)

SeenInOrder == Ascends(seen) /\ Highest <= sent /\ \A k \in 1..Len(seen) : seen[k] >= 1
WrittenInOrder == Ascends(written) /\ \A k \in 1..Len(written) : written[k] <= Highest

LogInv == LogTyped /\ QueueEndsIt /\ LastAreSeen /\ SeenInOrder /\ WrittenInOrder

LEMMA LogInvInit == LogInit => LogInv
<1> SUFFICES ASSUME LogInit PROVE LogInv
  OBVIOUS
<1>1. /\ sent = 0 /\ queue = <<>> /\ seen = <<>>
      /\ files = [i \in 0..Backups |-> <<>>] /\ handle = "open" /\ written = <<>>
  BY DEF LogInit
<1>2. Len(queue) = 0 /\ Len(seen) = 0 /\ Len(written) = 0 /\ Highest = 0
  BY <1>1 DEF Highest
<1>3. {MaxFaults, Depth, MaxLines, Backups} \subseteq Nat \ {0} /\ History \in Nat
  BY FaultLogAssumption
<1>4. LogTyped
  <2>1. queue \in Seq(Nat) /\ seen \in Seq(Nat) /\ written \in Seq(Nat) /\ files \in [0..Backups -> Seq(Nat)]
    BY <1>1
  <2>2. \A i \in 0..Backups : Len(files[i]) = 0
    BY <1>1
  <2>3. LogTypeOK
    BY <1>1, <1>2, <1>3, <2>2 DEF LogTypeOK
  <2> QED  BY <1>3, <2>1, <2>2, <2>3 DEF LogTyped
<1> QED  BY <1>1, <1>2, <1>4 DEF LogInv, QueueEndsIt, LastAreSeen, SeenInOrder, WrittenInOrder, Ascends

LEMMA LogFacts ==
    ASSUME LogInv
    PROVE  /\ Depth \in Nat \ {0} /\ MaxLines \in Nat \ {0} /\ Backups \in Nat \ {0} /\ MaxFaults \in Nat \ {0}
           /\ History \in Nat \ {0} /\ History >= 2 * Depth
           /\ sent \in Nat /\ sent <= MaxFaults /\ Highest \in Nat
           /\ queue \in Seq(Nat) /\ Len(queue) \in Nat /\ Len(queue) <= Depth
           /\ seen \in Seq(Nat) /\ Len(seen) \in Nat /\ Len(seen) <= History
           /\ written \in Seq(Nat) /\ Len(written) \in Nat
           /\ \A k \in 1..Len(seen) : seen[k] \in Nat /\ seen[k] <= Highest
           /\ \A k \in 1..Len(written) : written[k] \in Nat
           /\ Len(seen) > 0 => Highest = seen[Len(seen)]
<1>1. /\ queue \in Seq(Nat) /\ seen \in Seq(Nat) /\ written \in Seq(Nat) /\ Len(queue) \in Nat
      /\ Len(seen) \in Nat /\ Len(written) \in Nat
  BY LenProperties DEF LogInv, LogTyped
<1>2. (\A k \in 1..Len(seen) : seen[k] \in Nat) /\ (\A k \in 1..Len(written) : written[k] \in Nat)
  BY <1>1, LenProperties
<1>3. seen = <<>> <=> Len(seen) = 0
  BY <1>1, EmptySeq
<1>4. sent \in Nat /\ sent <= MaxFaults /\ Len(queue) <= Depth /\ Len(seen) <= History
  BY FaultLogAssumption DEF LogInv, LogTyped, LogTypeOK
<1>5. Highest \in Nat /\ (Len(seen) > 0 => Highest = seen[Len(seen)])
  BY <1>1, <1>2, <1>3 DEF Highest
<1>6. ASSUME NEW k \in 1..Len(seen) PROVE seen[k] <= Highest
  <2>1. seen[k] + (Len(seen) - k) <= seen[Len(seen)]
    BY <1>1, <1>6 DEF LogInv, SeenInOrder, Ascends
  <2>2. seen[k] \in Nat /\ Highest = seen[Len(seen)] /\ Highest \in Nat
    BY <1>1, <1>2, <1>5
  <2> QED  BY <1>1, <2>1, <2>2
<1>7. /\ Depth \in Nat \ {0} /\ MaxLines \in Nat \ {0} /\ Backups \in Nat \ {0} /\ MaxFaults \in Nat \ {0}
      /\ History \in Nat \ {0} /\ History >= 2 * Depth
  BY FaultLogAssumption
<1>8. \A k \in 1..Len(seen) : seen[k] \in Nat /\ seen[k] <= Highest
  BY <1>2, <1>6
<1> QED  BY <1>1, <1>2, <1>4, <1>5, <1>7, <1>8, ZenonT(60)

\* The bounds on the counters, without the rest.
LEMMA Bounded ==
    ASSUME LogInv
    PROVE  /\ Depth \in Nat /\ Depth # 0 /\ MaxFaults \in Nat
           /\ sent \in Nat /\ sent <= MaxFaults /\ Highest \in Nat
           /\ Len(queue) \in Nat /\ Len(queue) <= Depth
<1>1. /\ Depth \in Nat \ {0} /\ MaxFaults \in Nat \ {0} /\ sent \in Nat /\ sent <= MaxFaults
      /\ Highest \in Nat /\ Len(queue) \in Nat /\ Len(queue) <= Depth
  BY LogFacts, ZenonT(60)
<1> QED  BY <1>1

\* What only moves the queue leaves the memory and the files alone.
LEMMA OnlyQueueMoves ==
    ASSUME LogInv, UNCHANGED <<seen, files, handle, written>>, queue' \in Seq(Nat), Len(queue') <= Depth,
           sent' \in Nat, sent <= sent', sent' <= MaxFaults, QueueEndsIt',
           \A e \in 1..sent' : e > sent' - Depth /\ e <= sent' - Len(queue') => IsSeen(e)
    PROVE  LogInv'
<1>1. Highest' = Highest /\ \A e : IsSeen(e)' <=> IsSeen(e)
  BY DEF Highest, IsSeen
<1>2. LogTyped'
  <2>1. LogTyped /\ Depth \in Nat /\ MaxFaults \in Nat /\ Len(queue') \in Nat
    BY Bounded, LenProperties DEF LogInv
  <2> QED  BY <2>1 DEF LogTyped, LogTypeOK
<1>3. LastAreSeen'
  <2> SUFFICES ASSUME NEW e \in 1..sent', e > sent' - Depth, e <= sent' - Len(queue') \/ e <= Highest PROVE IsSeen(e)
    BY <1>1 DEF LastAreSeen
  <2>1. CASE e <= sent' - Len(queue')
    BY <2>1
  <2>2. CASE e <= Highest
    <3>1. e \in 1..sent /\ e > sent - Depth
      BY <2>2, Bounded DEF LogInv, SeenInOrder
    <3> QED  BY <2>2, <3>1 DEF LogInv, LastAreSeen
  <2> QED  BY <2>1, <2>2
<1>4. SeenInOrder'
  BY <1>1, Bounded DEF LogInv, SeenInOrder, Ascends
<1>5. WrittenInOrder'
  BY <1>1 DEF LogInv, WrittenInOrder, Ascends
<1> QED  BY <1>2, <1>3, <1>4, <1>5 DEF LogInv

LEMMA OccursKeeps == ASSUME LogInv, FaultOccurs PROVE LogInv'
<1>0. sent \in Nat /\ Len(queue) \in Nat /\ Len(queue) <= sent /\ Depth \in Nat \ {0} /\ Len(queue) <= Depth
  BY LogFacts DEF LogInv, QueueEndsIt
<1>1. sent' = sent + 1 /\ sent < MaxFaults /\ queue' = LastOf(Append(queue, sent'), Depth)
  BY DEF FaultOccurs
<1>2. /\ Append(queue, sent') \in Seq(Nat) /\ Len(Append(queue, sent')) = Len(queue) + 1
      /\ \A j \in 1..Len(queue) : Append(queue, sent')[j] = queue[j]
      /\ Append(queue, sent')[Len(queue) + 1] = sent'
  <2>1. sent' \in Nat /\ queue \in Seq(Nat)
    BY <1>1, LogFacts
  <2> QED  BY <2>1, AppendProperties
<1> DEFINE longer == Append(queue, sent')
<1>3. \A j \in 1..(Len(queue) + 1) : longer[j] = sent' - (Len(queue) + 1) + j
  <2> SUFFICES ASSUME NEW j \in 1..(Len(queue) + 1) PROVE longer[j] = sent' - (Len(queue) + 1) + j
    OBVIOUS
  <2>1. CASE j \in 1..Len(queue)
    <3>1. longer[j] = sent - Len(queue) + j
      BY <1>2, <2>1 DEF LogInv, QueueEndsIt
    <3> QED  BY <1>0, <1>1, <2>1, <3>1
  <2>2. CASE j = Len(queue) + 1
    BY <1>0, <1>1, <1>2, <2>2
  <2> QED  BY <1>0, <2>1, <2>2
<1>4. /\ queue' \in Seq(Nat)
      /\ Len(queue') = IF Len(queue) + 1 > Depth THEN Depth ELSE Len(queue) + 1
      /\ \A j \in 1..Len(queue') : queue'[j] = longer[j + (Len(queue) + 1) - Len(queue')]
  <2> HIDE DEF longer
  <2>1. longer \in Seq(Nat) /\ Len(longer) = Len(queue) + 1 /\ queue' = LastOf(longer, Depth) /\ Depth \in Nat \ {0}
    BY <1>1, <1>2, LogFacts DEF longer
  <2> QED  BY <2>1, LastOfProperties, ZenonT(60)
<1> HIDE DEF longer
<1>5. Len(queue') \in Nat /\ Len(queue') <= Depth /\ Len(queue') <= sent' /\ Len(queue') <= Len(queue) + 1
  BY <1>0, <1>1, <1>4
<1>6. QueueEndsIt'
  <2> SUFFICES ASSUME NEW j \in 1..Len(queue') PROVE queue'[j] = sent' - Len(queue') + j
    BY <1>5 DEF QueueEndsIt
  <2>1. j + (Len(queue) + 1) - Len(queue') \in 1..(Len(queue) + 1)
    BY <1>5, Bounded
  <2>2. queue'[j] = sent' - (Len(queue) + 1) + (j + (Len(queue) + 1) - Len(queue'))
    BY <1>3, <1>4, <2>1
  <2>3. sent' \in Nat /\ Len(queue) \in Nat
    BY <1>1, Bounded
  <2> QED  BY <1>5, <2>2, <2>3
<1>7. ASSUME NEW e \in 1..sent', e > sent' - Depth, e <= sent' - Len(queue') PROVE IsSeen(e)
  <2>1. Len(queue') = Len(queue) + 1
    BY <1>0, <1>1, <1>4, <1>7
  <2>2. e \in 1..sent /\ e > sent - Depth /\ e <= sent - Len(queue)
    BY <1>0, <1>1, <1>7, <2>1
  <2> QED  BY <2>2 DEF LogInv, LastAreSeen
<1>8. sent' \in Nat /\ sent <= sent' /\ sent' <= MaxFaults
  BY <1>1, Bounded
<1>9. UNCHANGED <<seen, files, handle, written>>
  BY DEF FaultOccurs
<1> QED  BY <1>4, <1>5, <1>6, <1>7, <1>8, <1>9, OnlyQueueMoves

LEMMA RematchKeeps == ASSUME LogInv, Rematch PROVE LogInv'
<1> DEFINE all == [i \in 1..sent |-> i]
<1>1. queue' = LastOf(all, Depth) /\ sent' = sent
  BY DEF Rematch
<1>2. all \in Seq(Nat) /\ Len(all) = sent /\ \A i \in 1..sent : all[i] = i
  <2>1. all \in [1..sent -> Nat] /\ sent \in Nat
    BY LogFacts
  <2>2. all \in Seq(Nat)
    BY <2>1, SeqDef
  <2> QED  BY <2>1, <2>2, LenProperties
<1> HIDE DEF all
<1>3. /\ queue' \in Seq(Nat) /\ Len(queue') = IF sent > Depth THEN Depth ELSE sent
      /\ \A j \in 1..Len(queue') : queue'[j] = all[j + sent - Len(queue')]
  <2>1. Depth \in Nat \ {0}
    BY Bounded
  <2> QED  BY <1>1, <1>2, <2>1, LastOfProperties, ZenonT(60)
<1>0. sent \in Nat /\ sent <= MaxFaults /\ Depth \in Nat /\ MaxFaults \in Nat
  BY Bounded
<1>4. Len(queue') \in Nat /\ Len(queue') <= Depth /\ Len(queue') <= sent
  BY <1>0, <1>3
<1>5. QueueEndsIt'
  <2> SUFFICES ASSUME NEW j \in 1..Len(queue') PROVE queue'[j] = sent - Len(queue') + j
    BY <1>1, <1>4 DEF QueueEndsIt
  <2>1. j + sent - Len(queue') \in 1..sent
    BY <1>0, <1>4
  <2>2. queue'[j] = all[j + sent - Len(queue')] /\ all[j + sent - Len(queue')] = j + sent - Len(queue')
    BY <1>2, <1>3, <2>1
  <2> QED  BY <1>0, <1>4, <2>2
<1>6. \A e \in 1..sent' : ~(e > sent' - Depth /\ e <= sent' - Len(queue'))
  <2>1. Len(queue') = IF sent > Depth THEN Depth ELSE sent
    BY <1>3
  <2> QED  BY <1>0, <1>1, <2>1
<1>7. sent' \in Nat /\ sent <= sent' /\ sent' <= MaxFaults
  BY <1>0, <1>1
<1>8. UNCHANGED <<seen, files, handle, written>>
  BY DEF Rematch
<1> QED  BY <1>3, <1>4, <1>5, <1>6, <1>7, <1>8, OnlyQueueMoves

\* The first of the queue, and what is left.
LEMMA FirstTaken ==
    ASSUME LogInv, OnEvent
    PROVE  /\ Head(queue) = sent - Len(queue) + 1 /\ Head(queue) \in 1..sent
           /\ queue' \in Seq(Nat) /\ Len(queue') = Len(queue) - 1 /\ Len(queue) > 0 /\ sent' = sent
           /\ QueueEndsIt'
<1>1. queue # <<>> /\ queue' = Tail(queue) /\ sent' = sent
  BY DEF OnEvent
<1>2. queue \in Seq(Nat) /\ Len(queue) \in Nat \ {0} /\ sent \in Nat /\ Len(queue) <= sent
  BY <1>1, LogFacts, EmptySeq DEF LogInv, QueueEndsIt
<1>3. /\ Head(queue) = queue[1] /\ Tail(queue) \in Seq(Nat) /\ Len(Tail(queue)) = Len(queue) - 1
      /\ \A j \in 1..(Len(queue) - 1) : Tail(queue)[j] = queue[j + 1]
  BY <1>1, <1>2, HeadTailProperties
<1>4. queue[1] = sent - Len(queue) + 1
  BY <1>2 DEF LogInv, QueueEndsIt
<1>5. QueueEndsIt'
  <2> SUFFICES ASSUME NEW j \in 1..Len(queue') PROVE queue'[j] = sent - Len(queue') + j
    BY <1>1, <1>2, <1>3 DEF QueueEndsIt
  <2>1. j + 1 \in 1..Len(queue) /\ queue'[j] = queue[j + 1]
    BY <1>1, <1>2, <1>3
  <2>2. queue[j + 1] = sent - Len(queue) + (j + 1)
    BY <2>1 DEF LogInv, QueueEndsIt
  <2> QED  BY <1>1, <1>2, <1>3, <2>1, <2>2
<1> QED  BY <1>1, <1>2, <1>3, <1>4, <1>5

\* An event that is not remembered is newer than all that are.
LEMMA NewIsHigher == ASSUME LogInv, OnEvent, ~IsDuplicate(Head(queue)) PROVE Head(queue) > Highest
<1> DEFINE e == Head(queue)
<1>1. e = sent - Len(queue) + 1 /\ e \in 1..sent /\ Len(queue) \in Nat /\ Depth \in Nat /\ Len(queue) <= Depth
  BY FirstTaken, LogFacts
<1>2. sent \in Nat /\ Highest \in Nat
  BY LogFacts
<1>3. ~IsSeen(e)
  <2>1. DOMAIN seen = 1..Len(seen)
    BY LogFacts, LenProperties
  <2> QED  BY <2>1 DEF IsDuplicate, IsSeen
<1> HIDE DEF e
<1>4. e > sent - Depth
  BY <1>1, <1>2
<1>5. ~(e <= Highest)
  BY <1>1, <1>3, <1>4 DEF LogInv, LastAreSeen
<1>6. e > Highest
  BY <1>1, <1>2, <1>5
<1> QED  BY <1>6 DEF e

LEMMA Ascending ==
    ASSUME NEW q \in Seq(Nat), Ascends(q), NEW e \in Nat, \A k \in 1..Len(q) : q[k] < e
    PROVE  /\ Append(q, e) \in Seq(Nat) /\ Len(Append(q, e)) = Len(q) + 1
           /\ Append(q, e)[Len(q) + 1] = e
           /\ \A k \in 1..Len(q) : Append(q, e)[k] = q[k]
           /\ Ascends(Append(q, e))
<1>1. Len(q) \in Nat /\ \A k \in 1..Len(q) : q[k] \in Nat
  BY LenProperties
<1> DEFINE longer == Append(q, e)
<1>2. /\ longer \in Seq(Nat) /\ Len(longer) = Len(q) + 1
      /\ \A k \in 1..Len(q) : longer[k] = q[k]
      /\ longer[Len(q) + 1] = e
  BY AppendProperties
<1> HIDE DEF longer
<1>3. ASSUME NEW i \in 1..Len(q) PROVE q[i] + (Len(q) + 1 - i) <= e
  <2>1. Len(q) \in 1..Len(q) /\ q[i] + (Len(q) - i) <= q[Len(q)] /\ q[Len(q)] < e
    BY <1>1 DEF Ascends
  <2> QED  BY <1>1, <2>1
<1>4. Ascends(longer)
  <2> SUFFICES ASSUME NEW i \in 1..(Len(q) + 1), NEW j \in 1..(Len(q) + 1), i <= j PROVE longer[i] + (j - i) <= longer[j]
    BY <1>2 DEF Ascends
  <2>1. CASE j <= Len(q)
    <3>1. i \in 1..Len(q) /\ j \in 1..Len(q)
      BY <1>1, <2>1
    <3>2. q[i] + (j - i) <= q[j]
      BY <3>1 DEF Ascends
    <3> QED  BY <1>2, <3>1, <3>2
  <2>2. CASE j = Len(q) + 1 /\ i <= Len(q)
    BY <1>1, <1>2, <1>3, <2>2
  <2>3. CASE j = Len(q) + 1 /\ i = Len(q) + 1
    BY <1>1, <1>2, <2>3
  <2> QED  BY <1>1, <2>1, <2>2, <2>3
<1> QED  BY <1>2, <1>4 DEF longer

LEMMA LastOfAscends ==
    ASSUME NEW q \in Seq(Nat), Ascends(q), NEW n \in Nat \ {0} PROVE Ascends(LastOf(q, n))
<1> DEFINE rest == LastOf(q, n)
<1>1. Len(q) \in Nat /\ \A k \in 1..Len(q) : q[k] \in Nat
  BY LenProperties
<1>2. /\ Len(rest) = IF Len(q) > n THEN n ELSE Len(q)
      /\ \A j \in 1..Len(rest) : rest[j] = q[j + Len(q) - Len(rest)]
  BY LastOfProperties
<1> HIDE DEF rest
<1>3. Len(rest) \in Nat /\ Len(rest) <= Len(q)
  BY <1>1, <1>2
<1> SUFFICES ASSUME NEW i \in 1..Len(rest), NEW j \in 1..Len(rest), i <= j PROVE rest[i] + (j - i) <= rest[j]
  BY DEF Ascends, rest
<1>4. i + Len(q) - Len(rest) \in 1..Len(q) /\ j + Len(q) - Len(rest) \in 1..Len(q)
  BY <1>1, <1>3
<1>5. PICK a \in 1..Len(q), b \in 1..Len(q) : a = i + Len(q) - Len(rest) /\ b = j + Len(q) - Len(rest)
  BY <1>4
<1>6. a <= b /\ b - a = j - i
  BY <1>1, <1>3, <1>5
<1>7. q[a] + (b - a) <= q[b]
  BY <1>6 DEF Ascends
<1>8. rest[i] = q[a] /\ rest[j] = q[b]
  BY <1>2, <1>5
<1> QED  BY <1>6, <1>7, <1>8

\* What is remembered of a new event: itself, and all that can be delivered again.
LEMMA NewIsRemembered ==
    ASSUME LogInv, OnEvent, ~IsDuplicate(Head(queue))
    PROVE  /\ seen' \in Seq(Nat) /\ Len(seen') <= History /\ SeenInOrder' /\ Highest' = Head(queue) /\ LastAreSeen'
<1> DEFINE e == Head(queue)
           longer == Append(seen, e)
           more == Len(longer)
<1>1. seen' = LastOf(longer, History) /\ sent' = sent
  BY DEF OnEvent
<1>2. /\ e = sent - Len(queue) + 1 /\ e \in 1..sent /\ e > Highest /\ Len(queue') = Len(queue) - 1
      /\ Len(queue) \in Nat /\ sent \in Nat /\ Highest \in Nat
  BY FirstTaken, NewIsHigher, LogFacts
<1>3. /\ History \in Nat \ {0} /\ Depth \in Nat \ {0} /\ History >= 2 * Depth /\ Len(queue) <= Depth
      /\ Len(seen) \in Nat /\ Len(seen) <= History /\ seen \in Seq(Nat)
  BY LogFacts
<1> HIDE DEF e
<1>4. /\ longer \in Seq(Nat) /\ more = Len(seen) + 1 /\ longer[Len(seen) + 1] = e
      /\ \A k \in 1..Len(seen) : longer[k] = seen[k]
      /\ Ascends(longer)
  <2>1. \A k \in 1..Len(seen) : seen[k] < e
    <3>1. \A k \in 1..Len(seen) : seen[k] \in Nat /\ seen[k] <= Highest
      BY LogFacts
    <3> QED  BY <1>2, <3>1
  <2>2. e \in Nat /\ Ascends(seen)
    BY <1>2 DEF LogInv, SeenInOrder
  <2> QED  BY <1>3, <2>1, <2>2, Ascending
<1> HIDE DEF longer
<1>5. /\ seen' \in Seq(Nat) /\ Ascends(seen')
      /\ Len(seen') = IF more > History THEN History ELSE more
      /\ \A j \in 1..Len(seen') : seen'[j] = longer[j + more - Len(seen')]
  BY <1>1, <1>3, <1>4, LastOfProperties, LastOfAscends
<1>6. longer[more] = e
  BY <1>4
<1>7. more \in Nat \ {0} /\ more <= History + 1
  BY <1>3, <1>4
<1>8. \A k \in 1..more : longer[k] \in Nat \ {0}
  <2>1. \A k \in 1..Len(seen) : seen[k] \in Nat \ {0}
    <3>1. \A k \in 1..Len(seen) : seen[k] \in Nat
      BY LogFacts
    <3>2. \A k \in 1..Len(seen) : seen[k] >= 1
      BY DEF LogInv, SeenInOrder
    <3> QED  BY <3>1, <3>2
  <2> SUFFICES ASSUME NEW k \in 1..more PROVE longer[k] \in Nat \ {0}
    OBVIOUS
  <2>2. CASE k \in 1..Len(seen)
    BY <1>4, <2>1, <2>2
  <2>3. CASE k = more
    BY <1>2, <1>6, <2>3
  <2> QED  BY <1>3, <1>4, <2>2, <2>3
<1> HIDE DEF more
<1>9. Len(seen') \in Nat \ {0} /\ Len(seen') <= History /\ Len(seen') <= more /\ more <= Len(seen') + 1
  BY <1>3, <1>5, <1>7
<1>10. Highest' = e
  <2>1. Len(seen') \in 1..Len(seen') /\ Len(seen') + more - Len(seen') = more
    BY <1>7, <1>9
  <2>2. seen'[Len(seen')] = longer[more]
    BY <1>5, <2>1
  <2>3. seen' # <<>>
    BY <1>5, <1>9, EmptySeq
  <2> QED  BY <1>6, <2>2, <2>3 DEF Highest
<1>11. SeenInOrder'
  <2>1. ASSUME NEW k \in 1..Len(seen') PROVE seen'[k] >= 1
    <3>1. k + more - Len(seen') \in 1..more
      BY <1>7, <1>9
    <3>2. longer[k + more - Len(seen')] \in Nat \ {0} /\ seen'[k] = longer[k + more - Len(seen')]
      BY <1>5, <1>8, <3>1
    <3> QED  BY <3>2
  <2> QED  BY <1>1, <1>2, <1>5, <1>10, <2>1 DEF SeenInOrder
\* Only what is too old to come again is forgotten.
<1>12. ASSUME NEW k \in 1..more, NEW d \in Nat, longer[k] = d, d > sent - Depth PROVE IsSeen(d)'
  <2>1. more \in 1..more /\ k <= more
    BY <1>7
  <2>2. longer[k] + (more - k) <= longer[more]
    BY <1>4, <2>1 DEF Ascends, more
  <2>3. more - k < Depth
    <3>1. d + (more - k) <= e
      BY <1>6, <1>12, <2>2
    <3> QED  BY <1>2, <1>3, <1>7, <1>12, <3>1
  <2>4. k > more - Len(seen')
    BY <1>3, <1>5, <1>7, <2>3
  <2>5. k - more + Len(seen') \in 1..Len(seen') /\ (k - more + Len(seen')) + more - Len(seen') = k
    BY <1>7, <1>9, <2>4
  <2>6. PICK j \in 1..Len(seen') : j + more - Len(seen') = k
    BY <2>5
  <2>7. seen'[j] = d
    BY <1>5, <1>12, <2>6
  <2> QED  BY <2>7 DEF IsSeen
<1>13. LastAreSeen'
  <2> SUFFICES ASSUME NEW d \in 1..sent, d > sent - Depth, d <= sent - Len(queue') \/ d <= e PROVE IsSeen(d)'
    BY <1>1, <1>10 DEF LastAreSeen
  <2>1. d <= e
    BY <1>2
  <2>2. CASE d = e
    <3>1. more \in 1..more /\ longer[more] = d
      BY <1>6, <1>7, <2>2
    <3> QED  BY <1>12, <3>1
  <2>3. CASE d < e
    <3>1. d <= sent - Len(queue)
      BY <1>2, <2>3
    <3>2. IsSeen(d)
      BY <3>1 DEF LogInv, LastAreSeen
    <3>3. PICK k \in 1..Len(seen) : seen[k] = d
      BY <3>2 DEF IsSeen
    <3>4. Len(seen) \in Nat /\ more = Len(seen) + 1 /\ longer[k] = seen[k]
      BY <1>3, <1>4, <3>3 DEF more
    <3>5. k \in 1..more /\ longer[k] = d
      BY <3>3, <3>4
    <3> QED  BY <1>12, <3>5
  <2> QED  BY <1>2, <2>1, <2>2, <2>3
<1> QED  BY <1>5, <1>9, <1>10, <1>11, <1>13 DEF e

\* A line is written at the end of the log, or not at all; the files stay within their bound.
LEMMA WriteKeeps ==
    ASSUME LogInv, NEW e \in Nat, e > Highest, Write(e)
    PROVE  /\ written' \in Seq(Nat) /\ Ascends(written') /\ \A k \in 1..Len(written') : written'[k] <= e
           /\ files' \in [0..Backups -> Seq(Nat)] /\ \A i \in 0..Backups : Len(files'[i]) <= MaxLines
           /\ handle' \in {"open", "closed", "dead"}
           /\ handle' = "open" => Len(files'[0]) < MaxLines
<1>1. /\ written \in Seq(Nat) /\ Len(written) \in Nat /\ Highest \in Nat
      /\ MaxLines \in Nat \ {0} /\ Backups \in Nat \ {0} /\ \A k \in 1..Len(written) : written[k] \in Nat
  BY LogFacts
<1>2. /\ Ascends(written) /\ \A k \in 1..Len(written) : written[k] < e
  BY <1>1 DEF LogInv, WrittenInOrder
<1>3. /\ Append(written, e) \in Seq(Nat) /\ Len(Append(written, e)) = Len(written) + 1
      /\ Append(written, e)[Len(written) + 1] = e
      /\ \A k \in 1..Len(written) : Append(written, e)[k] = written[k]
      /\ Ascends(Append(written, e))
  BY <1>1, <1>2, Ascending
<1>4. written' = written \/ written' = Append(written, e)
  BY DEF Write
<1>5. written' \in Seq(Nat) /\ Ascends(written') /\ \A k \in 1..Len(written') : written'[k] <= e
  <2>1. CASE written' = written
    BY <1>1, <1>2, <2>1
  <2>2. CASE written' = Append(written, e)
    <3>1. \A k \in 1..(Len(written) + 1) : Append(written, e)[k] <= e
      BY <1>1, <1>2, <1>3
    <3> QED  BY <1>3, <2>2, <3>1
  <2> QED  BY <1>4, <2>1, <2>2
<1>6. /\ files \in [0..Backups -> Seq(Nat)] /\ 0 \in 0..Backups
      /\ \A i \in 0..Backups : Len(files[i]) \in Nat /\ Len(files[i]) <= MaxLines
      /\ handle = "open" => Len(files[0]) < MaxLines
  BY <1>1, LenProperties DEF LogInv, LogTyped, LogTypeOK
<1> DEFINE longer == WithLine(e)
<1>7. /\ Append(files[0], e) \in Seq(Nat) /\ Len(Append(files[0], e)) = Len(files[0]) + 1
  BY <1>6, AppendProperties
<1>8. /\ longer \in [0..Backups -> Seq(Nat)] /\ Len(longer[0]) = Len(files[0]) + 1
      /\ \A i \in 0..Backups : i # 0 => longer[i] = files[i]
  BY <1>6, <1>7 DEF WithLine
<1> HIDE DEF longer
<1>9. handle = "open" => \A i \in 0..Backups : Len(longer[i]) <= MaxLines
  <2> SUFFICES ASSUME handle = "open", NEW i \in 0..Backups PROVE Len(longer[i]) <= MaxLines
    OBVIOUS
  <2>1. CASE i = 0
    BY <1>1, <1>6, <1>8, <2>1
  <2>2. CASE i # 0
    BY <1>6, <1>8, <2>2
  <2> QED  BY <2>1, <2>2
<1>10. ASSUME handle = "open", NEW k \in 1..Backups
       PROVE  /\ Shift(longer, k) \in [0..Backups -> Seq(Nat)]
              /\ \A i \in 0..Backups : Len(Shift(longer, k)[i]) <= MaxLines
              /\ k = 1 => Len(Shift(longer, k)[0]) = 0
  <2>1. \A i \in 0..Backups : i >= k => i - 1 \in 0..Backups
    BY <1>1
  <2>2. <<>> \in Seq(Nat) /\ Len(<<>>) = 0
    OBVIOUS
  <2>3. \A i \in 0..Backups : Shift(longer, k)[i] =
            IF i >= k THEN longer[i - 1] ELSE IF i = k - 1 THEN <<>> ELSE longer[i]
    BY DEF Shift
  <2>4. \A i \in 0..Backups : Shift(longer, k)[i] \in Seq(Nat) /\ Len(Shift(longer, k)[i]) <= MaxLines
    <3> SUFFICES ASSUME NEW i \in 0..Backups
                 PROVE  Shift(longer, k)[i] \in Seq(Nat) /\ Len(Shift(longer, k)[i]) <= MaxLines
      OBVIOUS
    <3>1. CASE i >= k
      BY <1>8, <1>9, <1>10, <2>1, <2>3, <3>1
    <3>2. CASE ~(i >= k) /\ i = k - 1
      <4>1. Shift(longer, k)[i] = <<>>
        BY <2>3, <3>2
      <4>2. 0 <= MaxLines
        BY <1>1
      <4> QED  BY <2>2, <4>1, <4>2
    <3>3. CASE ~(i >= k) /\ i # k - 1
      BY <1>8, <1>9, <1>10, <2>3, <3>3
    <3> QED  BY <3>1, <3>2, <3>3
  <2>5. k = 1 => Len(Shift(longer, k)[0]) = 0
    BY <1>6, <2>2, <2>3
  <2>6. Shift(longer, k) = [i \in 0..Backups |-> Shift(longer, k)[i]]
    BY DEF Shift
  <2> QED  BY <2>4, <2>5, <2>6
<1>11. /\ files' \in [0..Backups -> Seq(Nat)] /\ \A i \in 0..Backups : Len(files'[i]) <= MaxLines
       /\ handle' \in {"open", "closed", "dead"}
       /\ handle' = "open" => Len(files'[0]) < MaxLines
  <2>1. CASE handle = "open" /\ Len(longer[0]) < MaxLines /\ files' = longer /\ handle' = handle
    BY <1>8, <1>9, <2>1
  <2>2. CASE handle = "open" /\ files' = Shift(longer, 1) /\ handle' = handle
    <3>1. 1 \in 1..Backups /\ 0 < MaxLines
      BY <1>1
    <3>2. /\ Shift(longer, 1) \in [0..Backups -> Seq(Nat)]
          /\ \A i \in 0..Backups : Len(Shift(longer, 1)[i]) <= MaxLines
          /\ Len(Shift(longer, 1)[0]) = 0
      BY <1>10, <2>2, <3>1
    <3>3. handle' = "open"
      BY <2>2
    <3> QED  BY <2>2, <3>1, <3>2, <3>3
  <2>3. CASE handle = "open" /\ handle' = "closed" /\ files' = longer
    BY <1>8, <1>9, <2>3
  <2>4. ASSUME NEW k \in 1..Backups, handle = "open", handle' = "closed", files' = Shift(longer, k)
        PROVE  /\ files' \in [0..Backups -> Seq(Nat)] /\ \A i \in 0..Backups : Len(files'[i]) <= MaxLines
               /\ handle' = "closed"
    BY <1>10, <2>4
  <2>5. CASE UNCHANGED files /\ ((handle = "open" /\ handle' = handle) \/ handle' = "dead")
    BY <1>6, <2>5
  <2>6. \/ handle = "open" /\ Len(longer[0]) < MaxLines /\ files' = longer /\ handle' = handle
        \/ handle = "open" /\ files' = Shift(longer, 1) /\ handle' = handle
        \/ handle = "open" /\ handle' = "closed" /\ files' = longer
        \/ \E k \in 1..Backups : handle = "open" /\ handle' = "closed" /\ files' = Shift(longer, k)
        \/ UNCHANGED files /\ ((handle = "open" /\ handle' = handle) \/ handle' = "dead")
    BY DEF Write, longer
  <2> QED  BY <2>1, <2>2, <2>3, <2>4, <2>5, <2>6
<1> QED  BY <1>5, <1>11

LEMMA OnEventKeeps == ASSUME LogInv, OnEvent PROVE LogInv'
<1>1. /\ Head(queue) = sent - Len(queue) + 1 /\ Head(queue) \in 1..sent /\ queue' \in Seq(Nat)
      /\ Len(queue') = Len(queue) - 1 /\ Len(queue) > 0 /\ sent' = sent /\ QueueEndsIt'
  BY FirstTaken
<1>2. Len(queue) \in Nat /\ Depth \in Nat /\ Len(queue) <= Depth /\ sent \in Nat /\ sent <= MaxFaults
  BY LogFacts
<1>3. CASE IsDuplicate(Head(queue))
  <2>1. UNCHANGED <<seen, files, handle, written>>
    BY <1>3 DEF OnEvent
  <2>2. ASSUME NEW e \in 1..sent', e > sent' - Depth /\ e <= sent' - Len(queue') PROVE IsSeen(e)
    <3>1. e <= sent - Len(queue) \/ e = Head(queue)
      BY <1>1, <1>2, <2>2
    <3>2. IsSeen(Head(queue))
      <4>1. DOMAIN seen = 1..Len(seen)
        BY LogFacts, LenProperties
      <4> QED  BY <1>3, <4>1 DEF IsDuplicate, IsSeen
    <3> QED  BY <1>1, <2>2, <3>1, <3>2 DEF LogInv, LastAreSeen
  <2>3. Len(queue') <= Depth
    BY <1>1, <1>2
  <2> QED  BY <1>1, <1>2, <2>1, <2>2, <2>3, OnlyQueueMoves
<1>4. CASE ~IsDuplicate(Head(queue))
  <2>1. /\ seen' \in Seq(Nat) /\ Len(seen') <= History /\ SeenInOrder' /\ Highest' = Head(queue) /\ LastAreSeen'
    BY <1>4, NewIsRemembered
  <2>2. Head(queue) \in Nat /\ Head(queue) > Highest /\ Write(Head(queue))
    BY <1>1, <1>4, NewIsHigher DEF OnEvent
  <2>3. /\ written' \in Seq(Nat) /\ Ascends(written') /\ \A k \in 1..Len(written') : written'[k] <= Head(queue)
        /\ files' \in [0..Backups -> Seq(Nat)] /\ \A i \in 0..Backups : Len(files'[i]) <= MaxLines
        /\ handle' \in {"open", "closed", "dead"}
        /\ handle' = "open" => Len(files'[0]) < MaxLines
    BY <2>2, WriteKeeps
  <2>4. Len(queue') <= Depth
    BY <1>1, <1>2
  <2>5. LogTyped'
    BY <1>1, <2>1, <2>3, <2>4 DEF LogTyped, LogTypeOK, LogInv
  <2>6. WrittenInOrder'
    BY <2>1, <2>3 DEF WrittenInOrder
  <2> QED  BY <1>1, <2>1, <2>5, <2>6 DEF LogInv
<1> QED  BY <1>3, <1>4

LEMMA LogInvStep == LogInv /\ [LogNext]_logVars => LogInv'
<1> SUFFICES ASSUME LogInv, [LogNext]_logVars PROVE LogInv'
  OBVIOUS
<1>1. CASE UNCHANGED logVars
  <2>1. /\ sent' = sent /\ queue' = queue /\ seen' = seen /\ files' = files /\ handle' = handle
        /\ written' = written
    BY <1>1 DEF logVars
  <2> QED  BY <2>1 DEF LogInv, LogTyped, LogTypeOK, QueueEndsIt, LastAreSeen, SeenInOrder, WrittenInOrder,
                  Highest, IsSeen
<1> QED  BY <1>1, OccursKeeps, RematchKeeps, OnEventKeeps DEF LogNext

LEMMA LogSafe == LogInv => LogTypeOK /\ LoggedOnce
<1> SUFFICES ASSUME LogInv PROVE LogTypeOK /\ LoggedOnce
  OBVIOUS
<1>1. DOMAIN written = 1..Len(written) /\ \A k \in 1..Len(written) : written[k] \in Nat
  BY LogFacts, LenProperties
<1>2. ASSUME NEW i \in 1..Len(written), NEW j \in 1..Len(written), i < j PROVE written[i] < written[j]
  <2>1. Ascends(written) /\ Len(written) \in Nat
    BY LogFacts DEF LogInv, WrittenInOrder
  <2>2. written[i] + (j - i) <= written[j]
    BY <1>2, <2>1 DEF Ascends
  <2> QED  BY <1>1, <1>2, <2>1, <2>2
<1>3. ASSUME NEW i \in 1..Len(written), NEW j \in 1..Len(written), written[i] = written[j] PROVE i = j
  <2>1. ~(i < j) /\ ~(j < i)
    BY <1>1, <1>2, <1>3
  <2> QED  BY <2>1
<1> QED  BY <1>1, <1>3 DEF LogInv, LogTyped, LoggedOnce

\* The fault logger (event_dedup.py, fault_logger_node.py): however often the topic delivers an
\* event, and however many it has dropped, no event is logged twice.
THEOREM EventsAreLoggedOnce == LogSpec => []LoggedOnce
<1> QED  BY LogInvInit, LogInvStep, LogSafe, PTL DEF LogSpec

-------------------------------------------------------------------------------
(***************************************************************************)
(* The files hold the last lines written.  b tells where each file begins: *)
(* file i holds the lines after the first b[i + 1], as far as b[i].        *)
(***************************************************************************)

Bounds(w) == [0..(Backups + 1) -> 0..Len(w)]

IsLaidOut(f, w, b) ==
    /\ b[0] = Len(w)
    /\ \A i, j \in 0..(Backups + 1) : i <= j => b[j] <= b[i]
    /\ \A i \in 0..Backups :
         b[i] = b[i + 1] + Len(f[i]) /\ \A j \in 1..Len(f[i]) : f[i][j] = w[b[i + 1] + j]

\* Of the lines written none is lost that the backups have room for ...
IsDeep(b) == b[Backups + 1] = 0 \/ b[Backups + 1] + Backups * MaxLines <= b[0]

\* ... for each of them is full, or holds the first line.
BackupsAreFull(b) == \A i \in 1..Backups : b[i + 1] = 0 \/ b[i + 1] + i * MaxLines <= b[1]

FilesInv ==
    \E b \in Bounds(written) :
        IsLaidOut(files, written, b) /\ IsDeep(b) /\ (handle = "open" => BackupsAreFull(b))

LEMMA FilesInvInit == LogInit => FilesInv
<1> SUFFICES ASSUME LogInit PROVE FilesInv
  OBVIOUS
<1> DEFINE b == [i \in 0..(Backups + 1) |-> 0]
<1>1. files = [i \in 0..Backups |-> <<>>] /\ written = <<>> /\ Backups \in Nat \ {0} /\ MaxLines \in Nat \ {0}
  BY FaultLogAssumption DEF LogInit
<1>2. Len(written) = 0 /\ \A i \in 0..Backups : Len(files[i]) = 0
  BY <1>1
<1>3. b \in Bounds(written) /\ \A i \in 0..(Backups + 1) : b[i] = 0
  BY <1>2 DEF Bounds
<1>4. \A i \in 0..Backups : i \in 0..(Backups + 1) /\ i + 1 \in 0..(Backups + 1)
  BY <1>1
<1> HIDE DEF b
<1>5. IsLaidOut(files, written, b)
  BY <1>1, <1>2, <1>3, <1>4 DEF IsLaidOut
<1>6. IsDeep(b) /\ BackupsAreFull(b)
  BY <1>1, <1>3, <1>4 DEF IsDeep, BackupsAreFull
<1> QED  BY <1>3, <1>5, <1>6 DEF FilesInv

\* A line at the end of the newest file.
LEMMA LineLaidOut ==
    ASSUME LogInv, NEW e \in Nat, NEW b \in Bounds(written), IsLaidOut(files, written, b)
    PROVE  LET longer == [b EXCEPT ![0] = @ + 1] IN
             /\ longer \in Bounds(Append(written, e))
             /\ IsLaidOut(WithLine(e), Append(written, e), longer)
<1> DEFINE longer == [b EXCEPT ![0] = @ + 1]
           w == Append(written, e)
<1>1. /\ written \in Seq(Nat) /\ Len(written) \in Nat /\ Backups \in Nat \ {0}
      /\ files \in [0..Backups -> Seq(Nat)]
  BY LogFacts DEF LogInv, LogTyped
<1>2. \A i \in 0..Backups : Len(files[i]) \in Nat
  BY <1>1, LenProperties
<1>3. /\ w \in Seq(Nat) /\ Len(w) = Len(written) + 1 /\ w[Len(written) + 1] = e
      /\ \A k \in 1..Len(written) : w[k] = written[k]
  BY <1>1, AppendProperties
<1>4. /\ b[0] = Len(written)
      /\ \A i, j \in 0..(Backups + 1) : i <= j => b[j] <= b[i]
      /\ \A i \in 0..Backups :
           b[i] = b[i + 1] + Len(files[i]) /\ \A j \in 1..Len(files[i]) : files[i][j] = written[b[i + 1] + j]
      /\ \A i \in 0..(Backups + 1) : b[i] \in 0..Len(written)
  BY DEF IsLaidOut, Bounds
<1>5. 0 \in 0..(Backups + 1) /\ 0 \in 0..Backups /\ \A i \in 0..Backups : i \in 0..(Backups + 1) /\ i + 1 \in 1..(Backups + 1)
  BY <1>1
<1>6. /\ longer \in [0..(Backups + 1) -> 0..(Len(written) + 1)] /\ longer[0] = Len(written) + 1
      /\ \A i \in 1..(Backups + 1) : longer[i] = b[i]
  <2>1. \A i \in 0..(Backups + 1) : longer[i] = IF i = 0 THEN b[0] + 1 ELSE b[i]
    BY DEF Bounds
  <2>2. longer = [i \in 0..(Backups + 1) |-> longer[i]]
    BY DEF Bounds
  <2>3. \A i \in 0..(Backups + 1) : longer[i] \in 0..(Len(written) + 1)
    BY <1>1, <1>4, <1>5, <2>1
  <2> HIDE DEF longer
  <2>4. longer[0] = Len(written) + 1
    <3>1. longer[0] = b[0] + 1 /\ b[0] = Len(written)
      BY <1>4, <1>5, <2>1
    <3> QED  BY <3>1
  <2>5. ASSUME NEW i \in 1..(Backups + 1) PROVE longer[i] = b[i]
    <3>1. i \in 0..(Backups + 1) /\ i # 0
      OBVIOUS
    <3> QED  BY <2>1, <3>1
  <2>6. longer \in [0..(Backups + 1) -> 0..(Len(written) + 1)]
    BY <2>2, <2>3, ZenonT(60)
  <2> QED  BY <2>4, <2>5, <2>6
<1>7. /\ Append(files[0], e) \in Seq(Nat) /\ Len(Append(files[0], e)) = Len(files[0]) + 1
      /\ \A k \in 1..Len(files[0]) : Append(files[0], e)[k] = files[0][k]
      /\ Append(files[0], e)[Len(files[0]) + 1] = e
  <2>1. files[0] \in Seq(Nat)
    BY <1>1, <1>5
  <2> QED  BY <2>1, AppendProperties
<1>8. WithLine(e)[0] = Append(files[0], e) /\ \A i \in 1..Backups : WithLine(e)[i] = files[i]
  BY <1>1, <1>5 DEF WithLine
<1> HIDE DEF longer, w
<1>9. ASSUME NEW i \in 0..(Backups + 1), NEW j \in 0..(Backups + 1), i <= j PROVE longer[j] <= longer[i]
  <2>1. CASE i = 0 /\ j = 0
    BY <1>1, <1>6, <2>1
  <2>2. CASE i = 0 /\ j # 0
    BY <1>1, <1>4, <1>6, <2>2
  <2>3. CASE i # 0
    BY <1>4, <1>6, <1>9, <2>3
  <2> QED  BY <2>1, <2>2, <2>3
<1>10. ASSUME NEW i \in 0..Backups
       PROVE  /\ longer[i] = longer[i + 1] + Len(WithLine(e)[i])
              /\ \A j \in 1..Len(WithLine(e)[i]) : WithLine(e)[i][j] = w[longer[i + 1] + j]
  <2>1. longer[i + 1] = b[i + 1] /\ b[i + 1] \in 0..Len(written)
    BY <1>4, <1>5, <1>6
  <2>2. CASE i = 0
    <3>1. Len(WithLine(e)[0]) = Len(files[0]) + 1 /\ Len(written) = b[1] + Len(files[0]) /\ b[1] \in Nat
      BY <1>4, <1>5, <1>7, <1>8
    <3>2. longer[0] = longer[1] + Len(WithLine(e)[0])
      BY <1>2, <1>5, <1>6, <2>1, <2>2, <3>1
    <3>3. ASSUME NEW j \in 1..(Len(files[0]) + 1) PROVE WithLine(e)[0][j] = w[b[1] + j]
      <4>1. CASE j \in 1..Len(files[0])
        <5>1. WithLine(e)[0][j] = files[0][j] /\ files[0][j] = written[b[1] + j]
          BY <1>4, <1>5, <1>7, <1>8, <4>1
        <5>2. b[1] + j \in 1..Len(written)
          BY <1>2, <1>5, <3>1, <4>1
        <5> QED  BY <1>3, <5>1, <5>2
      <4>2. CASE j = Len(files[0]) + 1
        <5>1. WithLine(e)[0][j] = e
          BY <1>7, <1>8, <4>2
        <5>2. b[1] + j = Len(written) + 1
          <6>1. Len(files[0]) \in Nat
            BY <1>2, <1>5
          <6> QED  BY <3>1, <4>2, <6>1
        <5> QED  BY <1>3, <5>1, <5>2
      <4> QED  BY <1>2, <1>5, <4>1, <4>2
    <3> QED  BY <2>1, <2>2, <3>1, <3>2, <3>3
  <2>3. CASE i # 0
    <3>1. i \in 1..Backups /\ WithLine(e)[i] = files[i] /\ longer[i] = b[i]
      <4>1. i \in 1..Backups /\ i \in 1..(Backups + 1)
        BY <1>1, <2>3
      <4> QED  BY <1>6, <1>8, <4>1
    <3>2. longer[i] = longer[i + 1] + Len(WithLine(e)[i])
      BY <1>4, <2>1, <3>1
    <3>3. ASSUME NEW j \in 1..Len(files[i]) PROVE files[i][j] = w[b[i + 1] + j]
      <4>1. files[i][j] = written[b[i + 1] + j]
        BY <1>4
      <4>2. b[i + 1] + j \in 1..Len(written)
        <5>1. b[i] = b[i + 1] + Len(files[i]) /\ b[i] \in 0..Len(written) /\ Len(files[i]) \in Nat
          <6>1. i \in 0..(Backups + 1)
            BY <1>5
          <6>2. b[i] \in 0..Len(written)
            BY <1>4, <6>1
          <6>3. Len(files[i]) \in Nat
            BY <1>2
          <6>4. b[i] = b[i + 1] + Len(files[i])
            BY <1>4
          <6> QED  BY <6>2, <6>3, <6>4
        <5>2. b[i + 1] \in 0..Len(written) /\ Len(written) \in Nat
          BY <1>1, <2>1
        <5>3. j \in Nat /\ 1 <= j /\ j <= Len(files[i])
          BY <5>1
        <5>4. b[i + 1] \in Nat /\ b[i] \in Nat /\ b[i] <= Len(written)
          BY <5>1, <5>2
        <5>5. b[i + 1] + j <= b[i]
          BY <5>1, <5>3, <5>4
        <5> QED  BY <5>2, <5>3, <5>4, <5>5
      <4> QED  BY <1>3, <4>1, <4>2
    <3> QED  BY <2>1, <3>1, <3>2, <3>3
  <2> QED  BY <2>2, <2>3
<1>11. longer[0] = Len(w)
  BY <1>3, <1>6
<1>12. longer \in Bounds(w)
  BY <1>3, <1>6 DEF Bounds
<1>13. IsLaidOut(WithLine(e), w, longer)
  BY <1>9, <1>10, <1>11 DEF IsLaidOut
<1> QED  BY <1>12, <1>13 DEF longer, w

\* The rotation as far as .k leaves an empty file and drops the oldest.
LEMMA ShiftLaidOut ==
    ASSUME NEW f, NEW w \in Seq(Nat), NEW b \in Bounds(w), IsLaidOut(f, w, b), NEW k \in 1..Backups,
           Backups \in Nat \ {0}
    PROVE  LET moved == [i \in 0..(Backups + 1) |-> IF i < k THEN b[i] ELSE b[i - 1]] IN
             moved \in Bounds(w) /\ IsLaidOut(Shift(f, k), w, moved)
<1> DEFINE moved == [i \in 0..(Backups + 1) |-> IF i < k THEN b[i] ELSE b[i - 1]]
<1>1. /\ b[0] = Len(w) /\ Len(w) \in Nat
      /\ \A i, j \in 0..(Backups + 1) : i <= j => b[j] <= b[i]
      /\ \A i \in 0..Backups :
           b[i] = b[i + 1] + Len(f[i]) /\ \A j \in 1..Len(f[i]) : f[i][j] = w[b[i + 1] + j]
      /\ \A i \in 0..(Backups + 1) : b[i] \in 0..Len(w)
  BY LenProperties DEF IsLaidOut, Bounds
<1>2. \A i \in 0..(Backups + 1) : i >= k => i - 1 \in 0..Backups
  OBVIOUS
<1>3. \A i \in 0..(Backups + 1) : moved[i] = IF i < k THEN b[i] ELSE b[i - 1]
  OBVIOUS
<1>4. moved = [i \in 0..(Backups + 1) |-> moved[i]]
  OBVIOUS
<1> HIDE DEF moved
<1>5. \A i \in 0..(Backups + 1) : moved[i] \in 0..Len(w)
  <2> SUFFICES ASSUME NEW i \in 0..(Backups + 1) PROVE moved[i] \in 0..Len(w)
    OBVIOUS
  <2>1. CASE i < k
    BY <1>1, <1>3, <2>1
  <2>2. CASE ~(i < k)
    <3>1. i - 1 \in 0..(Backups + 1)
      BY <2>2
    <3> QED  BY <1>1, <1>3, <2>2, <3>1
  <2> QED  BY <2>1, <2>2
<1>6. moved \in Bounds(w)
  BY <1>4, <1>5 DEF Bounds
<1>7. moved[0] = Len(w)
  <2>1. 0 \in 0..(Backups + 1) /\ 0 < k
    OBVIOUS
  <2>2. moved[0] = b[0]
    BY <1>3, <2>1
  <2> QED  BY <1>1, <2>2
<1>8. ASSUME NEW i \in 0..(Backups + 1), NEW j \in 0..(Backups + 1), i <= j PROVE moved[j] <= moved[i]
  <2>1. CASE j < k
    <3>1. i < k
      BY <1>8, <2>1
    <3> QED  BY <1>1, <1>3, <1>8, <2>1, <3>1
  <2>2. CASE ~(j < k) /\ i < k
    <3>1. j - 1 \in 0..(Backups + 1) /\ i <= j - 1
      BY <2>2
    <3>2. b[j - 1] <= b[i]
      BY <1>1, <3>1
    <3> QED  BY <1>3, <2>2, <3>2
  <2>3. CASE ~(j < k) /\ ~(i < k)
    <3>1. j - 1 \in 0..(Backups + 1) /\ i - 1 \in 0..(Backups + 1) /\ i - 1 <= j - 1
      BY <1>8, <2>3
    <3>2. b[j - 1] <= b[i - 1]
      BY <1>1, <3>1
    <3> QED  BY <1>3, <2>3, <3>2
  <2> QED  BY <2>1, <2>2, <2>3
<1>9. \A i \in 0..Backups : Shift(f, k)[i] = IF i >= k THEN f[i - 1] ELSE IF i = k - 1 THEN <<>> ELSE f[i]
  BY DEF Shift
<1>10. ASSUME NEW i \in 0..Backups
       PROVE  /\ moved[i] = moved[i + 1] + Len(Shift(f, k)[i])
              /\ \A j \in 1..Len(Shift(f, k)[i]) : Shift(f, k)[i][j] = w[moved[i + 1] + j]
  <2>0. i \in 0..(Backups + 1) /\ i + 1 \in 0..(Backups + 1)
    OBVIOUS
  <2>1. CASE i >= k
    <3>1. PICK h \in 0..Backups : h = i - 1
      BY <2>1
    <3>2. moved[i] = b[h] /\ moved[i + 1] = b[h + 1] /\ Shift(f, k)[i] = f[h]
      <4>1. ~(i < k) /\ ~(i + 1 < k) /\ i + 1 - 1 = h + 1
        BY <2>1, <3>1
      <4>2. moved[i] = b[i - 1] /\ moved[i + 1] = b[i + 1 - 1]
        BY <1>3, <2>0, <4>1
      <4> QED  BY <1>9, <2>1, <3>1, <4>1, <4>2
    <3>3. b[h] = b[h + 1] + Len(f[h]) /\ \A j \in 1..Len(f[h]) : f[h][j] = w[b[h + 1] + j]
      BY <1>1
    <3> QED  BY <3>2, <3>3
  <2>2. CASE i = k - 1
    <3>1. i < k /\ ~(i + 1 < k) /\ i + 1 - 1 = i /\ ~(i >= k)
      BY <2>2
    <3>2. moved[i] = b[i] /\ moved[i + 1] = b[i + 1 - 1]
      BY <1>3, <2>0, <3>1
    <3>3. Shift(f, k)[i] = <<>> /\ Len(<<>>) = 0
      BY <1>9, <2>2, <3>1
    <3>4. b[i] \in Nat
      BY <1>1, <2>0
    <3>5. moved[i] = moved[i + 1] /\ Len(Shift(f, k)[i]) = 0
      BY <3>1, <3>2, <3>3
    <3> QED  BY <3>2, <3>4, <3>5
  <2>3. CASE i < k - 1
    <3>1. i < k /\ i + 1 < k /\ ~(i >= k) /\ i # k - 1
      BY <2>3
    <3>2. moved[i] = b[i] /\ moved[i + 1] = b[i + 1] /\ Shift(f, k)[i] = f[i]
      BY <1>3, <1>9, <2>0, <3>1
    <3> QED  BY <1>1, <3>2
  <2> QED  BY <2>1, <2>2, <2>3
<1>11. IsLaidOut(Shift(f, k), w, moved)
  BY <1>7, <1>8, <1>10 DEF IsLaidOut
<1> QED  BY <1>6, <1>11 DEF moved

\* A line more is no line less, and a full log becomes a full backup.
LEMMA FilesWritten ==
    ASSUME LogInv, FilesInv, NEW e \in Nat, Write(e)
    PROVE  FilesInv'
<1>1. PICK b \in Bounds(written) :
        IsLaidOut(files, written, b) /\ IsDeep(b) /\ (handle = "open" => BackupsAreFull(b))
  BY DEF FilesInv
<1>2. CASE UNCHANGED <<files, written>> /\ (handle' = "open" => handle = "open")
  BY <1>1, <1>2 DEF FilesInv, Bounds, IsLaidOut
<1>3. CASE handle = "open" /\ written' = Append(written, e)
  <2> DEFINE line == [b EXCEPT ![0] = @ + 1]
             longer == WithLine(e)
  <2>1. line \in Bounds(written') /\ IsLaidOut(longer, written', line)
    BY <1>1, <1>3, LineLaidOut
  <2>2. /\ Backups \in Nat \ {0} /\ MaxLines \in Nat \ {0} /\ written \in Seq(Nat) /\ Len(written) \in Nat
        /\ files \in [0..Backups -> Seq(Nat)] /\ Len(files[0]) < MaxLines
    BY <1>3, LogFacts DEF LogInv, LogTyped
  <2>3. written' \in Seq(Nat) /\ Len(written') = Len(written) + 1
    BY <1>3, <2>2, AppendProperties
  <2>4. \A i \in 0..(Backups + 1) : b[i] \in 0..Len(written)
    BY <1>1 DEF Bounds
  <2>5. 0 \in 0..(Backups + 1) /\ 1 \in 0..(Backups + 1) /\ 0 \in 0..Backups /\ Backups + 1 # 0
    BY <2>2
  <2>6. line[0] = Len(written) + 1 /\ \A i \in 1..(Backups + 1) : line[i] = b[i]
    <3>1. \A i \in 0..(Backups + 1) : line[i] = IF i = 0 THEN b[0] + 1 ELSE b[i]
      BY DEF Bounds
    <3>2. b[0] = Len(written)
      BY <1>1 DEF IsLaidOut
    <3> HIDE DEF line
    <3> QED  BY <2>2, <2>5, <3>1, <3>2
  <2>7. Len(longer[0]) = Len(files[0]) + 1 /\ Len(files[0]) \in Nat /\ Len(written) = b[1] + Len(files[0])
    <3>1. files[0] \in Seq(Nat)
      BY <2>2, <2>5
    <3>2. Len(Append(files[0], e)) = Len(files[0]) + 1 /\ Len(files[0]) \in Nat
      BY <3>1, AppendProperties, LenProperties
    <3>3. longer[0] = Append(files[0], e)
      BY <2>2, <2>5 DEF WithLine
    <3>4. b[0] = Len(written) /\ b[0] = b[0 + 1] + Len(files[0])
      BY <1>1, <2>5 DEF IsLaidOut
    <3> QED  BY <3>2, <3>3, <3>4
  <2> HIDE DEF line, longer
  <2>8. BackupsAreFull(b) /\ BackupsAreFull(line)
    <3>1. \A i \in 1..Backups : line[i + 1] = b[i + 1]
      BY <2>2, <2>6
    <3>2. line[1] = b[1]
      BY <2>2, <2>6
    <3> QED  BY <1>1, <1>3, <3>1, <3>2 DEF BackupsAreFull
  <2>9. b[1] \in 0..Len(written) /\ \A i \in 1..Backups : b[i] \in Nat /\ b[i + 1] \in Nat
    BY <2>2, <2>4, <2>5
  <2>10. IsDeep(line)
    <3>1. line[Backups + 1] = 0 \/ line[Backups + 1] + Backups * MaxLines <= line[1]
      BY <2>2, <2>8 DEF BackupsAreFull
    <3>2. line[1] = b[1] /\ b[1] <= line[0]
      BY <2>2, <2>6, <2>9
    <3>3. PICK p \in Nat : p = Backups * MaxLines
      BY <2>2
    <3>4. line[Backups + 1] = b[Backups + 1]
      BY <2>2, <2>6
    <3>5. Backups \in 1..Backups
      BY <2>2
    <3>6. line[Backups + 1] \in Nat
      BY <2>9, <3>4, <3>5
    <3>7. b[1] \in Nat /\ line[0] \in Nat
      BY <2>2, <2>6, <2>9
    <3>8. line[Backups + 1] = 0 \/ line[Backups + 1] + p <= line[0]
      BY <3>1, <3>2, <3>3, <3>6, <3>7
    <3> QED  BY <3>3, <3>8 DEF IsDeep
  <2>11. CASE files' = longer
    BY <2>1, <2>8, <2>10, <2>11 DEF FilesInv
  <2>12. ASSUME NEW k \in 1..Backups, files' = Shift(longer, k), Len(longer[0]) >= MaxLines,
                k = 1 \/ handle' # "open"
         PROVE  FilesInv'
    <3> DEFINE moved == [i \in 0..(Backups + 1) |-> IF i < k THEN line[i] ELSE line[i - 1]]
    <3>1. moved \in Bounds(written') /\ IsLaidOut(files', written', moved)
      BY <2>1, <2>2, <2>3, <2>12, ShiftLaidOut
    <3>2. \A i \in 0..(Backups + 1) : moved[i] = IF i < k THEN line[i] ELSE line[i - 1]
      OBVIOUS
    <3> HIDE DEF moved
    \* The log was full: its lines are those of the first backup now.
    <3>3. b[1] + MaxLines = Len(written) + 1
      <4>1. Len(files[0]) < MaxLines /\ Len(longer[0]) >= MaxLines /\ MaxLines \in Nat
        BY <2>2, <2>12
      <4>2. Len(longer[0]) = Len(files[0]) + 1 /\ Len(files[0]) \in Nat
        BY <2>7
      <4>3. Len(files[0]) + 1 = MaxLines
        BY <4>1, <4>2
      <4>4. Len(written) = b[1] + Len(files[0]) /\ b[1] \in Nat
        BY <2>2, <2>7, <2>9
      <4> QED  BY <4>1, <4>2, <4>3, <4>4
    <3>4. \A i \in 1..Backups : b[i] = 0 \/ b[i] + i * MaxLines <= Len(written) + 1
      <4> SUFFICES ASSUME NEW i \in 1..Backups, b[i] # 0 PROVE b[i] + i * MaxLines <= Len(written) + 1
        OBVIOUS
      <4>1. CASE i = 1
        BY <2>2, <3>3, <4>1
      <4>2. CASE i # 1
        <5>1. PICK h \in 1..Backups : h + 1 = i
          BY <2>2, <4>2
        <5>2. b[h + 1] + h * MaxLines <= b[1]
          BY <2>8, <5>1 DEF BackupsAreFull
        <5>3. i * MaxLines = h * MaxLines + MaxLines /\ h * MaxLines \in Nat
          BY <2>2, <5>1
        <5>4. PICK p \in Nat : p = h * MaxLines
          BY <5>3
        <5>5. b[i] + p <= b[1] /\ i * MaxLines = p + MaxLines
          BY <5>1, <5>2, <5>3, <5>4
        <5>6. b[i] \in Nat /\ b[1] \in Nat /\ MaxLines \in Nat
          BY <2>2, <2>9
        <5>7. b[i] + (p + MaxLines) <= b[1] + MaxLines
          BY <5>4, <5>5, <5>6
        <5> QED  BY <3>3, <5>5, <5>7
      <4> QED  BY <4>1, <4>2
    <3>5. IsDeep(moved)
      <4>1. moved[Backups + 1] = line[Backups] /\ moved[0] = Len(written) + 1
        BY <2>2, <2>5, <2>6, <3>2
      <4>2. line[Backups] = b[Backups] /\ Backups \in 1..Backups
        BY <2>2, <2>6
      <4> QED  BY <3>4, <4>1, <4>2 DEF IsDeep
    <3>6. ASSUME k = 1 PROVE BackupsAreFull(moved)
      <4>1. moved[1] = Len(written) + 1
        BY <2>2, <2>5, <2>6, <3>2, <3>6
      <4>2. ASSUME NEW i \in 1..Backups PROVE moved[i + 1] = b[i]
        <5>1. i + 1 \in 0..(Backups + 1) /\ ~(i + 1 < 1) /\ i + 1 - 1 = i /\ i \in 1..(Backups + 1)
          BY <2>2
        <5>2. moved[i + 1] = line[i + 1 - 1]
          BY <3>2, <3>6, <5>1
        <5> QED  BY <2>6, <5>1, <5>2
      <4> QED  BY <3>4, <4>1, <4>2 DEF BackupsAreFull
    <3>7. handle' = "open" => BackupsAreFull(moved)
      BY <2>12, <3>6
    <3> QED  BY <3>1, <3>5, <3>7 DEF FilesInv
  <2>13. 1 \in 1..Backups
    BY <2>2
  <2>14. \/ files' = longer
         \/ files' = Shift(longer, 1) /\ Len(longer[0]) >= MaxLines
         \/ \E k \in 1..Backups : files' = Shift(longer, k) /\ Len(longer[0]) >= MaxLines /\ handle' # "open"
         \/ UNCHANGED <<files, written>>
    BY DEF Write, longer
  <2>15. written' # written
    BY <2>2, <2>3
  <2> QED  BY <2>11, <2>12, <2>13, <2>14, <2>15
<1>4. \/ UNCHANGED <<files, written>> /\ (handle' = "open" => handle = "open")
      \/ handle = "open" /\ written' = Append(written, e)
  BY DEF Write
<1> QED  BY <1>2, <1>3, <1>4

LEMMA FilesInvStep == LogInv /\ FilesInv /\ [LogNext]_logVars => FilesInv'
<1> SUFFICES ASSUME LogInv, FilesInv, [LogNext]_logVars PROVE FilesInv'
  OBVIOUS
<1>1. CASE UNCHANGED <<files, handle, written>>
  BY <1>1 DEF FilesInv, Bounds
<1>2. CASE OnEvent /\ ~IsDuplicate(Head(queue))
  <2>1. Head(queue) \in Nat /\ Write(Head(queue))
    BY <1>2, FirstTaken, LogFacts DEF OnEvent
  <2> QED  BY <2>1, FilesWritten
<1>3. UNCHANGED <<files, handle, written>> \/ (OnEvent /\ ~IsDuplicate(Head(queue)))
  BY DEF LogNext, logVars, FaultOccurs, Rematch, OnEvent
<1> QED  BY <1>1, <1>2, <1>3

-------------------------------------------------------------------------------
(* What is on disk, from the oldest backup to the log, is the last of what was written. *)

\* f is the recursive function by which FlattenSeq is defined.
IsJoined(f, n, parts) == f = [i \in 1..n |-> IF i = 1 THEN parts[i] ELSE f[i - 1] \o parts[i]]

\* Adjacent pieces of a sequence make one piece when they are joined.
LEMMA PiecesJoin ==
    ASSUME NEW T, NEW w \in Seq(T), NEW n \in Nat \ {0}, NEW d \in [0..n -> 0..Len(w)],
           \A i, j \in 0..n : i <= j => d[i] <= d[j],
           NEW parts, parts = [i \in 1..n |-> SubSeq(w, d[i - 1] + 1, d[i])]
    PROVE  FlattenSeq(parts) = SubSeq(w, d[0] + 1, d[n])
<1> DEFINE joined == [i \in 1..n |-> SubSeq(w, d[0] + 1, d[i])]
           g == CHOOSE f : IsJoined(f, n, parts)
<1>1. Len(w) \in Nat /\ \A i \in 0..n : d[i] \in 0..Len(w)
  BY LenProperties
<1>2. Len(parts) = n /\ \A i \in 1..n : parts[i] = SubSeq(w, d[i - 1] + 1, d[i])
  <2>1. DOMAIN parts = 1..n
    OBVIOUS
  <2>2. \A i \in 1..n : SubSeq(w, d[i - 1] + 1, d[i]) \in Seq(T)
    <3> SUFFICES ASSUME NEW i \in 1..n PROVE SubSeq(w, d[i - 1] + 1, d[i]) \in Seq(T)
      OBVIOUS
    <3>1. i - 1 \in 0..n /\ i \in 0..n
      OBVIOUS
    <3>2. d[i - 1] + 1 \in Int /\ d[i] \in Int /\ \A k \in (d[i - 1] + 1)..d[i] : w[k] \in T
      <4>1. PICK lo \in 0..Len(w) : lo = d[i - 1]
        BY <1>1, <3>1
      <4>2. PICK hi \in 0..Len(w) : hi = d[i]
        BY <1>1, <3>1
      <4>3. \A k \in 1..Len(w) : w[k] \in T
        BY LenProperties
      <4>4. lo + 1 \in Int /\ hi \in Int /\ (lo + 1)..hi \subseteq 1..Len(w)
        BY <1>1
      <4> QED  BY <4>1, <4>2, <4>3, <4>4
    <3> QED  BY <3>2, SubSeqProperties
  <2>3. parts \in [1..n -> Seq(T)]
    BY <2>2
  <2>4. parts \in Seq(Seq(T))
    <3> DEFINE P == Seq(T)
    <3>1. parts \in [1..n -> P] /\ n \in Nat
      BY <2>3
    <3> HIDE DEF P
    <3>2. parts \in Seq(P)
      BY <3>1, SeqDef
    <3> QED  BY <3>2 DEF P
  <2>5. Len(parts) \in Nat /\ 1..Len(parts) = 1..n
    BY <2>1, <2>4, LenProperties
  <2>6. Len(parts) = n
    <3>1. n \in 1..Len(parts)
      BY <2>5
    <3>2. Len(parts) \in 1..n
      BY <2>5, <3>1
    <3> QED  BY <2>5, <3>1, <3>2
  <2> QED  BY <2>6
<1>3. ASSUME NEW i \in 1..n PROVE joined[i] = IF i = 1 THEN parts[i] ELSE joined[i - 1] \o parts[i]
  <2>1. CASE i = 1
    <3>1. i - 1 = 0
      BY <2>1
    <3>2. parts[i] = SubSeq(w, d[0] + 1, d[i])
      BY <1>2, <3>1
    <3> QED  BY <2>1, <3>2
  <2>2. CASE i # 1
    <3>1. PICK h \in 1..n : h = i - 1
      BY <2>2
    <3>2. h \in 0..n /\ i \in 0..n /\ 0 \in 0..n /\ 0 <= h /\ h <= i
      BY <3>1
    <3>3. d[0] <= d[h] /\ d[h] <= d[i] /\ d[0] \in 0..Len(w) /\ d[h] \in 0..Len(w) /\ d[i] \in 0..Len(w)
      BY <1>1, <3>2
    <3>4. PICK lo \in 0..Len(w) : lo = d[0]
      BY <3>3
    <3>5. PICK mid \in 0..Len(w) : mid = d[h]
      BY <3>3
    <3>6. PICK hi \in 0..Len(w) : hi = d[i]
      BY <3>3
    <3>7. lo <= mid /\ mid <= hi
      BY <3>3, <3>4, <3>5, <3>6
    <3>8. PICK first \in 1..(Len(w) + 1) : first = lo + 1
      BY <1>1
    <3>9. mid \in (first - 1)..Len(w) /\ hi \in mid..Len(w)
      <4>1. Len(w) \in Nat
        BY <1>1
      <4> QED  BY <3>7, <3>8, <4>1
    <3>10. SubSeq(w, first, mid) \o SubSeq(w, mid + 1, hi) = SubSeq(w, first, hi)
      BY <3>9, ConcatAdjacentSubSeq
    <3>11. joined[h] = SubSeq(w, d[0] + 1, d[h]) /\ joined[i] = SubSeq(w, d[0] + 1, d[i])
      OBVIOUS
    <3>12. parts[i] = SubSeq(w, d[h] + 1, d[i])
      BY <1>2, <3>1
    <3> HIDE DEF joined
    <3> QED  BY <2>2, <3>1, <3>4, <3>5, <3>6, <3>8, <3>10, <3>11, <3>12
  <2> QED  BY <2>1, <2>2
<1> HIDE DEF joined
<1>4. IsJoined(joined, n, parts)
  <2>1. joined = [i \in 1..n |-> joined[i]]
    BY DEF joined
  <2> QED  BY <1>3, <2>1 DEF IsJoined
<1>5. IsJoined(g, n, parts)
  BY <1>4, Zenon
<1>6. FlattenSeq(parts) = g[n]
  <2>1. ~(n = 0)
    OBVIOUS
  <2>2. Len(parts) = n
    BY <1>2
  <2> QED  BY <2>1, <2>2, Zenon DEF FlattenSeq, IsJoined
<1> HIDE DEF g
<1> DEFINE S == {k \in Nat : k \in 1..n => g[k] = joined[k]}
<1>7. 0 \in S
  OBVIOUS
<1>8. ASSUME NEW k \in Nat, k \in S PROVE k + 1 \in S
  <2> SUFFICES ASSUME k + 1 \in 1..n PROVE g[k + 1] = joined[k + 1]
    OBVIOUS
  <2>0. PICK j \in 1..n : j = k + 1
    OBVIOUS
  <2>1. g[j] = IF j = 1 THEN parts[j] ELSE g[j - 1] \o parts[j]
    BY <1>5 DEF IsJoined
  <2>2. joined[j] = IF j = 1 THEN parts[j] ELSE joined[j - 1] \o parts[j]
    BY <1>3
  <2>3. j = 1 \/ (k \in 1..n /\ j - 1 = k)
    BY <2>0
  <2>4. k \in 1..n => g[k] = joined[k]
    BY <1>8
  <2> QED  BY <2>0, <2>1, <2>2, <2>3, <2>4
<1> HIDE DEF S
<1>9. Nat \subseteq S
  BY <1>7, <1>8, StepByStep
<1>10. n \in 1..n
  OBVIOUS
<1>11. g[n] = joined[n]
  BY <1>9, <1>10 DEF S
<1> QED  BY <1>6, <1>10, <1>11 DEF joined

\* The last k elements of a sequence are a suffix of it.
LEMMA EndIsSuffix ==
    ASSUME NEW T, NEW w \in Seq(T), NEW m \in 0..Len(w)
    PROVE  IsSuffix(SubSeq(w, m + 1, Len(w)), w) /\ Len(SubSeq(w, m + 1, Len(w))) = Len(w) - m
<1> DEFINE s == SubSeq(w, m + 1, Len(w))
<1>1. Len(w) \in Nat /\ \A k \in 1..Len(w) : w[k] \in T
  BY LenProperties
<1>2. m + 1 \in Int /\ Len(w) \in Int /\ \A k \in (m + 1)..Len(w) : w[k] \in T
  BY <1>1
<1>3. /\ s \in Seq(T) /\ Len(s) = IF m + 1 <= Len(w) THEN Len(w) - (m + 1) + 1 ELSE 0
      /\ \A i \in 1..(Len(w) - (m + 1) + 1) : s[i] = w[m + 1 + i - 1]
  BY <1>2, SubSeqProperties
<1> HIDE DEF s
<1>4. Len(s) = Len(w) - m /\ Len(s) \in Nat
  BY <1>1, <1>3
<1>5. \A i \in 1..Len(s) : s[i] = w[m + i]
  <2> SUFFICES ASSUME NEW i \in 1..Len(s) PROVE s[i] = w[m + i]
    OBVIOUS
  <2>1. i \in 1..(Len(w) - (m + 1) + 1) /\ m + 1 + i - 1 = m + i
    BY <1>1, <1>4
  <2> QED  BY <1>3, <2>1
<1>6. /\ Reverse(s) = [i \in 1..Len(s) |-> s[(Len(s) - i) + 1]]
      /\ Reverse(w) = [i \in 1..Len(w) |-> w[(Len(w) - i) + 1]]
  BY DEF Reverse
<1>7. Reverse(s) \in Seq(T) /\ Len(Reverse(s)) = Len(s)
  <2>1. \A i \in 1..Len(s) : s[(Len(s) - i) + 1] \in T
    BY <1>3, <1>4, LenProperties
  <2>2. Reverse(s) \in [1..Len(s) -> T]
    BY <1>6, <2>1
  <2> QED  BY <1>4, <2>2, SeqDef, LenProperties
<1>8. Reverse(w) \in Seq(T) /\ Len(Reverse(w)) = Len(w)
  <2>1. \A i \in 1..Len(w) : w[(Len(w) - i) + 1] \in T
    BY <1>1
  <2>2. Reverse(w) \in [1..Len(w) -> T]
    BY <1>6, <2>1
  <2> QED  BY <1>1, <2>2, SeqDef, LenProperties
<1>9. \A i \in 1..Len(s) : Reverse(s)[i] = Reverse(w)[i]
  <2> SUFFICES ASSUME NEW i \in 1..Len(s) PROVE Reverse(s)[i] = Reverse(w)[i]
    OBVIOUS
  <2>1. (Len(s) - i) + 1 \in 1..Len(s) /\ m + ((Len(s) - i) + 1) = (Len(w) - i) + 1 /\ i \in 1..Len(w)
    BY <1>1, <1>4
  <2>2. s[(Len(s) - i) + 1] = w[m + ((Len(s) - i) + 1)]
    BY <1>5, <2>1
  <2> QED  BY <1>6, <2>1, <2>2
<1>10. SubSeq(Reverse(s), 1, Len(s)) = SubSeq(Reverse(w), 1, Len(s))
  <2>1. Len(s) \in 0..Len(Reverse(s)) /\ Len(s) \in 0..Len(Reverse(w))
    BY <1>1, <1>4, <1>7, <1>8
  <2>2. /\ SubSeq(Reverse(s), 1, Len(s)) = Restrict(Reverse(s), 1..Len(s))
        /\ SubSeq(Reverse(w), 1, Len(s)) = Restrict(Reverse(w), 1..Len(s))
    BY <1>7, <1>8, <2>1, SubSeqRestrict
  <2> QED  BY <1>9, <2>2 DEF Restrict
<1>11. IsSuffix(s, w)
  <2>1. Len(Reverse(s)) <= Len(Reverse(w))
    BY <1>1, <1>4, <1>7, <1>8
  <2> QED  BY <1>7, <1>10, <2>1 DEF IsSuffix, IsPrefix
<1> QED  BY <1>4, <1>11 DEF s

LEMMA LeastOfTwo == ASSUME NEW a \in Nat, NEW b \in Nat PROVE Min({a, b}) \in {a, b} /\ Min({a, b}) <= a /\ Min({a, b}) <= b
<1>1. \E x \in {a, b} : \A y \in {a, b} : x =< y
  <2>1. a <= b \/ b <= a
    OBVIOUS
  <2> QED  BY <2>1
<1>2. Min({a, b}) \in {a, b} /\ \A y \in {a, b} : Min({a, b}) =< y
  BY <1>1, Zenon DEF Min
<1> QED  BY <1>2

LEMMA DiskTells == LogInv /\ FilesInv => LogTells
<1> SUFFICES ASSUME LogInv, FilesInv PROVE LogTells
  OBVIOUS
<1>1. PICK b \in Bounds(written) : IsLaidOut(files, written, b) /\ IsDeep(b)
  BY DEF FilesInv
<1>2. /\ Backups \in Nat \ {0} /\ MaxLines \in Nat \ {0} /\ written \in Seq(Nat) /\ Len(written) \in Nat
      /\ files \in [0..Backups -> Seq(Nat)]
  BY LogFacts DEF LogInv, LogTyped
<1>3. /\ b[0] = Len(written)
      /\ \A i, j \in 0..(Backups + 1) : i <= j => b[j] <= b[i]
      /\ \A i \in 0..Backups :
           b[i] = b[i + 1] + Len(files[i]) /\ \A j \in 1..Len(files[i]) : files[i][j] = written[b[i + 1] + j]
      /\ \A i \in 0..(Backups + 1) : b[i] \in 0..Len(written)
  BY <1>1 DEF IsLaidOut, Bounds
\* Each file is a piece of what was written.
<1>4. ASSUME NEW i \in 0..Backups PROVE files[i] = SubSeq(written, b[i + 1] + 1, b[i])
  <2>1. i \in 0..(Backups + 1) /\ i + 1 \in 0..(Backups + 1)
    BY <1>2
  <2>2. PICK hi \in 0..Len(written) : hi = b[i]
    BY <1>3, <2>1
  <2>3. PICK lo \in 0..Len(written) : lo = b[i + 1]
    BY <1>3, <2>1
  <2>4. PICK file \in Seq(Nat) : file = files[i]
    BY <1>2
  <2>5. hi = lo + Len(file) /\ Len(file) \in Nat /\ \A j \in 1..Len(file) : file[j] = written[lo + j]
    BY <1>3, <2>2, <2>3, <2>4, LenProperties
  <2>6. ASSUME NEW k \in (lo + 1)..hi PROVE written[k] \in Nat
    <3>1. k \in 1..Len(written)
      BY <1>2
    <3> QED  BY <1>2, <3>1, LenProperties
  <2>7. lo + 1 \in Int /\ hi \in Int
    OBVIOUS
  <2> DEFINE piece == SubSeq(written, lo + 1, hi)
  <2>8. /\ piece \in Seq(Nat) /\ Len(piece) = IF lo + 1 <= hi THEN hi - (lo + 1) + 1 ELSE 0
        /\ \A j \in 1..(hi - (lo + 1) + 1) : piece[j] = written[lo + 1 + j - 1]
    BY <2>6, <2>7, SubSeqProperties
  <2> HIDE DEF piece
  <2>9. Len(piece) = Len(file)
    <3>1. lo \in Nat /\ hi = lo + Len(file) /\ Len(file) \in Nat
      BY <1>2, <2>5
    <3>2. Len(piece) = IF lo + 1 <= hi THEN hi - (lo + 1) + 1 ELSE 0
      BY <2>8
    <3> QED  BY <3>1, <3>2
  <2>10. ASSUME NEW j \in 1..Len(file) PROVE piece[j] = file[j]
    <3>1. hi = lo + Len(file) /\ Len(file) \in Nat /\ lo \in Nat
      BY <1>2, <2>5
    <3>2. hi - (lo + 1) + 1 = Len(file) /\ lo + 1 + j - 1 = lo + j
      BY <3>1
    <3>3. piece[j] = written[lo + 1 + j - 1]
      BY <2>8, <3>2
    <3> QED  BY <2>5, <3>2, <3>3
  <2>11. piece = file
    BY <2>8, <2>9, <2>10, SeqEqual
  <2> QED  BY <2>2, <2>3, <2>4, <2>11 DEF piece
<1> DEFINE n == Backups + 1
           d == [i \in 0..n |-> b[Backups + 1 - i]]
           parts == [i \in 1..n |-> files[Backups + 1 - i]]
<1>5. /\ d \in [0..n -> 0..Len(written)]
      /\ \A i, j \in 0..n : i <= j => d[i] <= d[j]
  <2>1. \A i \in 0..n : Backups + 1 - i \in 0..(Backups + 1)
    BY <1>2
  <2>2. \A i \in 0..n : d[i] = b[Backups + 1 - i]
    OBVIOUS
  <2>3. d \in [0..n -> 0..Len(written)]
    BY <1>3, <2>1
  <2>4. ASSUME NEW i \in 0..n, NEW j \in 0..n, i <= j PROVE d[i] <= d[j]
    <3>1. Backups + 1 - j <= Backups + 1 - i
      BY <1>2, <2>4
    <3>2. b[Backups + 1 - i] <= b[Backups + 1 - j]
      BY <1>3, <2>1, <3>1
    <3> QED  BY <2>2, <3>2
  <2> QED  BY <2>3, <2>4
<1>6. parts = [i \in 1..n |-> SubSeq(written, d[i - 1] + 1, d[i])]
  <2> SUFFICES ASSUME NEW i \in 1..n PROVE files[Backups + 1 - i] = SubSeq(written, d[i - 1] + 1, d[i])
    OBVIOUS
  <2>1. Backups + 1 - i \in 0..Backups /\ i - 1 \in 0..n /\ i \in 0..n
        /\ Backups + 1 - (i - 1) = (Backups + 1 - i) + 1
    BY <1>2
  <2>2. d[i] = b[Backups + 1 - i] /\ d[i - 1] = b[(Backups + 1 - i) + 1]
    BY <2>1
  <2> HIDE DEF d
  <2> QED  BY <1>4, <2>1, <2>2
<1>7. n \in Nat \ {0}
  BY <1>2
<1>8. d[0] = b[Backups + 1] /\ d[n] = Len(written)
  BY <1>2, <1>3
<1>9. OnDisk = FlattenSeq(parts)
  BY DEF OnDisk
<1> HIDE DEF n, d, parts
<1>10. FlattenSeq(parts) = SubSeq(written, d[0] + 1, d[n])
  BY <1>2, <1>5, <1>6, <1>7, PiecesJoin
<1>11. PICK m \in 0..Len(written) : m = b[Backups + 1]
  BY <1>2, <1>3
<1>12. OnDisk = SubSeq(written, m + 1, Len(written))
  BY <1>8, <1>9, <1>10, <1>11
<1>13. IsSuffix(OnDisk, written) /\ Len(OnDisk) = Len(written) - m
  BY <1>2, <1>12, EndIsSuffix
<1>14. Len(OnDisk) >= Min({Len(written), Backups * MaxLines})
  <2>1. PICK p \in Nat : p = Backups * MaxLines
    BY <1>2
  <2>2. m = 0 \/ m + p <= Len(written)
    BY <1>1, <1>3, <1>11, <2>1 DEF IsDeep
  <2>3. Min({Len(written), p}) <= Len(written) /\ Min({Len(written), p}) <= p
    BY <1>2, <2>1, LeastOfTwo
  <2>4. Min({Len(written), p}) \in {Len(written), p}
    BY <1>2, <2>1, LeastOfTwo
  <2>5. Len(OnDisk) >= Min({Len(written), p})
    <3>1. Len(written) \in Nat /\ Len(OnDisk) = Len(written) - m
      BY <1>2, <1>13
    <3>2. PICK least \in Nat : least = Min({Len(written), p})
      BY <2>4, <3>1
    <3> QED  BY <2>2, <2>3, <3>1, <3>2
  <2> QED  BY <2>1, <2>5
<1>15. LoggedOnce
  BY LogSafe
<1> QED  BY <1>13, <1>14, <1>15 DEF LogTells

\* The fault logger (rotating_log.py, event_dedup.py): no event is logged twice, and whatever write
\* or rename fails, the files hold the last lines written, without a gap.
THEOREM FilesHoldTheLast == LogSpec => []LogTells
<1>1. LogInit => LogInv /\ FilesInv
  BY LogInvInit, FilesInvInit
<1>2. LogInv /\ FilesInv /\ [LogNext]_logVars => (LogInv /\ FilesInv)'
  BY LogInvStep, FilesInvStep
<1> QED  BY <1>1, <1>2, DiskTells, PTL DEF LogSpec

-------------------------------------------------------------------------------
(***************************************************************************)
(* The stations side by side: a step of the rover is a step of one of them *)
(* and leaves the others alone.                                            *)
(***************************************************************************)

StationsInit ==
    /\ Init /\ LightsInit /\ LampInit /\ PowerInit /\ LidInit /\ ScaleInit /\ RoverInit /\ LogInit
    /\ CameraInit /\ FrameInit /\ DatasetInit /\ BarInit

StationsStep ==
    /\ [Next]_vars /\ [LightsNext]_lightVars /\ [LampNext]_lampVars /\ [PowerNext]_powerVars
    /\ [LidNext]_lidVars /\ [ScaleNext]_scaleVars /\ [RoverNext]_roverVars /\ [LogNext]_logVars
    /\ [CameraNext]_cameraVars /\ [FrameNext]_frameVars /\ [DatasetNext]_datasetVars /\ [BarNext]_barVars

LEMMA StationsStart == MCInit => StationsInit
BY DEF MCInit, StationsInit

LEMMA EachPartSteps == [MCNext]_stationVars => StationsStep
<1> SUFFICES ASSUME [MCNext]_stationVars PROVE StationsStep
  OBVIOUS
<1> USE DEF StationsStep, stationOnly, otherVars
<1>1. CASE UNCHANGED stationVars
  BY <1>1 DEF stationVars
<1>2. CASE LinkPart
  BY <1>2 DEF LinkPart
<1>3. CASE LightsPart
  BY <1>3 DEF LightsPart, LightsNext
<1>4. CASE BeatPart
  BY <1>4 DEF BeatPart
<1>5. CASE LampPart
  BY <1>5 DEF LampPart
<1>6. CASE PowerPart
  BY <1>6 DEF PowerPart
<1>7. CASE LidPart
  BY <1>7 DEF LidPart
<1>8. CASE ScalePart
  BY <1>8 DEF ScalePart
<1>9. CASE DrivePart
  BY <1>9 DEF DrivePart
<1>10. CASE LogPart
  BY <1>10 DEF LogPart
<1>11. CASE ViewsPart
  BY <1>11 DEF ViewsPart, CameraNext
<1>12. CASE SavesPart
  BY <1>12 DEF SavesPart, CameraNext
<1>13. CASE FramesPart
  BY <1>13 DEF FramesPart
<1>14. CASE GatherPart
  BY <1>14 DEF GatherPart, DatasetNext
<1>15. CASE RecordPart
  BY <1>15 DEF RecordPart, DatasetNext
<1>16. CASE BarPart
  BY <1>16 DEF BarPart
<1> QED  BY <1>1, <1>2, <1>3, <1>4, <1>5, <1>6, <1>7, <1>8, <1>9, <1>10, <1>11, <1>12, <1>13, <1>14, <1>15,
            <1>16 DEF MCNext

\* What the rover does is what each of its stations does by itself: whatever is proved of a station
\* holds on the rover.
THEOREM EachStationBehaves ==
    MCSpec => /\ Spec /\ LightsSpec /\ PowerSpec /\ LidSpec /\ ScaleSpec
              /\ RoverSpec /\ LogSpec /\ CameraSpec /\ FrameSpec /\ DatasetSpec
<1>1. MCInit => /\ Init /\ LightsInit /\ PowerInit /\ LidInit /\ ScaleInit
                /\ RoverInit /\ LogInit /\ CameraInit /\ FrameInit /\ DatasetInit
  BY StationsStart DEF StationsInit
<1>2. [MCNext]_stationVars => /\ [Next]_vars /\ [LightsNext]_lightVars /\ [PowerNext]_powerVars
                              /\ [LidNext]_lidVars /\ [ScaleNext]_scaleVars
  BY EachPartSteps DEF StationsStep
<1>3. [MCNext]_stationVars => /\ [RoverNext]_roverVars /\ [LogNext]_logVars /\ [CameraNext]_cameraVars
                              /\ [FrameNext]_frameVars /\ [DatasetNext]_datasetVars
  BY EachPartSteps DEF StationsStep
<1>4. MCSpec => Spec /\ LightsSpec /\ PowerSpec /\ LidSpec /\ ScaleSpec
  BY <1>1, <1>2, PTL DEF MCSpec, Spec, LightsSpec, PowerSpec, LidSpec, ScaleSpec
<1>5. MCSpec => RoverSpec /\ LogSpec /\ CameraSpec /\ FrameSpec /\ DatasetSpec
  BY <1>1, <1>3, PTL DEF MCSpec, RoverSpec, LogSpec, CameraSpec, FrameSpec, DatasetSpec
<1> QED  BY <1>4, <1>5

\* The board of lights and sensors (rover_lights_node.py, rover_power_monitor_node.py): what its two
\* nodes believe of it and what it says of them is so.
THEOREM BoardIsAsBelieved == MCSpec => []BoardAsBelieved
<1>1. MCInit => PowerInv /\ LightsInv
  BY StationsStart, PowerInvInit, LightsInvInit DEF StationsInit
<1>2. PowerInv /\ [MCNext]_stationVars => PowerInv'
  BY EachPartSteps, PowerInvStep DEF StationsStep
<1>3. LightsInv /\ [MCNext]_stationVars => LightsInv'
  BY EachPartSteps, LightsInvStep DEF StationsStep
<1>4. PowerInv /\ LightsInv => BoardAsBelieved
  BY PowerSafe, LightsSafe DEF BoardAsBelieved
<1> QED  BY <1>1, <1>2, <1>3, <1>4, PTL DEF MCSpec

\* The container's node (rover_container_node.py): the lid is where it reports it, and the weights
\* it reports are of one weighing.
THEOREM ContainerDoesTell == MCSpec => []ContainerTells
<1>1. MCInit => LidInv /\ ScaleInv
  BY StationsStart, LidInvInit, ScaleInvInit DEF StationsInit
<1>2. LidInv /\ [MCNext]_stationVars => LidInv'
  BY EachPartSteps, LidInvStep DEF StationsStep
<1>3. ScaleInv /\ [MCNext]_stationVars => ScaleInv'
  BY EachPartSteps, ScaleInvStep DEF StationsStep
<1>4. LidInv /\ ScaleInv => ContainerTells
  BY LidSafe, ScaleSafe DEF ContainerTells
<1> QED  BY <1>1, <1>2, <1>3, <1>4, PTL DEF MCSpec

\* Rover teleoperation (the interpreter and its devices): presses fire, sticks are followed.
THEOREM DriverIsHeard == MCSpec => []DriverIsObeyed
<1>1. MCInit => RoverInv
  BY StationsStart, RoverInvInit DEF StationsInit
<1>2. RoverInv /\ [MCNext]_stationVars => RoverInv'
  BY EachPartSteps, RoverInvStep DEF StationsStep
<1>3. RoverInv => DriverIsObeyed
  BY SteeringSign DEF RoverInv, DriverIsObeyed, SteersAsSeen
<1> QED  BY <1>1, <1>2, <1>3, PTL DEF MCSpec

\* The camera (mjpeg_http.py, dataset.py, camera_node.py): it encodes what is used, and the frames
\* that were asked for.
THEOREM CameraDoesServe == MCSpec => []CameraServes
<1>1. MCInit => CameraInv
  BY StationsStart, CameraInvInit DEF StationsInit
<1>2. CameraInv /\ [MCNext]_stationVars => CameraInv'
  BY EachPartSteps, CameraInvStep DEF StationsStep
<1>3. CameraInv => CameraServes
  BY CameraInvServes DEF CameraInv, CameraServes
<1> QED  BY <1>1, <1>2, <1>3, PTL DEF MCSpec

\* The console and the dataset node (dataset_node.py): the console reads what is so, and a request
\* does what it says.
THEOREM DatasetDoesTell == MCSpec => []DatasetTells
<1>1. MCInit => DatasetInv
  BY StationsStart, DatasetInvInit DEF StationsInit
<1>2. DatasetInv /\ [MCNext]_stationVars => DatasetInv'
  BY EachPartSteps, DatasetInvStep DEF StationsStep
<1>3. DatasetInv => DatasetTells
  BY DatasetSafe DEF DatasetTells
<1> QED  BY <1>1, <1>2, <1>3, PTL DEF MCSpec

\* The fault logger (rotating_log.py, event_dedup.py): each event is logged once, and the files hold
\* the last lines written.
THEOREM LogDoesTell == MCSpec => []LogTells
<1> QED  BY EachStationBehaves, FilesHoldTheLast, PTL

StationsInv ==
    /\ LinkInv /\ FrameInv /\ DatasetInv /\ BarTypeOK /\ LightsInv /\ LampTyped /\ PowerInv /\ LidInv
    /\ ScaleInv /\ RoverInv /\ LogInv /\ CameraInv

\* Every station is well typed.
THEOREM StationsTypeCorrect == MCSpec => []StationsTypeOK
<1>1. MCInit => StationsInv
  BY StationsStart, LinkInit, FrameInvInit, DatasetInvInit, BarTypeInit, LightsInvInit, LampTypedInit,
     PowerInvInit, LidInvInit, ScaleInvInit, RoverInvInit, LogInvInit, CameraInvInit
     DEF StationsInit, StationsInv
<1>2. StationsInv /\ [MCNext]_stationVars => StationsInv'
  BY EachPartSteps, LinkStep, FrameInvStep, DatasetInvStep, BarTypeStep, LightsInvStep, LampTypedStep,
     PowerInvStep, LidInvStep, ScaleInvStep, RoverInvStep, LogInvStep, CameraInvStep
     DEF StationsStep, StationsInv
<1>3. StationsInv => StationsTypeOK
  BY DatasetSafe, LightsSafe, LampSafe, PowerSafe, LidSafe, ScaleSafe, LogSafe
     DEF StationsInv, StationsTypeOK, LinkInv, FrameInv, RoverInv, CameraInv
<1> QED  BY <1>1, <1>2, <1>3, PTL DEF MCSpec

===============================================================================
