------------------------------ MODULE LoraProofs ------------------------------
(***************************************************************************)
(* Proofs about the radio: the link and its failsafe (LoraLink), and the   *)
(* wire format with its parser (LoraFrame).                                *)
(***************************************************************************)
EXTENDS LoraLink, LoraFrame, SequenceTheorems, TLAPS


-------------------------------------------------------------------------------
(***************************************************************************)
(* What LoraLink promises, for every zero_burst.  One inductive invariant  *)
(* carries both safety properties: a link that still moves the rover has   *)
(* its whole burst ahead of it and nothing late behind it, and a moving    *)
(* twist can only be on its way out while that is so.                      *)
(***************************************************************************)

\* Answering frames and reporting the status touch no command.
Settled == tick \in {"idle", "should_publish", "status"}

MoveComposed == tick = "publish" /\ twist = "move"

LiveIsArmed == ~failsafe => zeros_left = ZeroBurst
LiveIsTimed == ~failsafe => timed
LiveIsAllowed == ~failsafe /\ moving => mayMove
MoveIsArmed == MoveComposed => zeros_left = ZeroBurst
MoveIsFirst == MoveComposed => lateMoves = 0
AllowedIsClean == mayMove => lateMoves = 0
BurstOwed == IF Settled THEN zeros + zeros_left >= ZeroBurst
                        ELSE zeros + zeros_left + 1 >= ZeroBurst
LateMovesBounded == lateMoves <= 1

LinkInv ==
    /\ TypeOK
    /\ LiveIsArmed /\ LiveIsTimed /\ LiveIsAllowed
    /\ MoveIsArmed /\ MoveIsFirst /\ AllowedIsClean
    /\ BurstOwed /\ LateMovesBounded

LEMMA LinkInit == Init => LinkInv
<1> SUFFICES ASSUME Init PROVE LinkInv
  OBVIOUS
<1> USE ZeroBurstAssumption DEF Init
<1>1. TypeOK
  <2>1. shown \in Status /\ reply \in Status
    BY DEF Status
  <2>2. zeros_left \in 0..ZeroBurst /\ zeros \in 0..ZeroBurst /\ lateMoves \in Nat
    OBVIOUS
  <2>3. /\ failsafe \in BOOLEAN /\ moving \in BOOLEAN /\ estop \in BOOLEAN
        /\ timed \in BOOLEAN /\ late \in BOOLEAN /\ mayMove \in BOOLEAN
    OBVIOUS
  <2> QED BY <2>1, <2>2, <2>3 DEF TypeOK, Twists, ReaderSteps, TickSteps
<1>2. LiveIsArmed /\ LiveIsTimed /\ LiveIsAllowed /\ MoveIsArmed /\ MoveIsFirst /\ AllowedIsClean
  BY DEF LiveIsArmed, LiveIsTimed, LiveIsAllowed, MoveIsArmed, MoveIsFirst, AllowedIsClean, MoveComposed
<1>3. BurstOwed /\ LateMovesBounded
  BY DEF BurstOwed, LateMovesBounded, Settled
<1> QED BY <1>1, <1>2, <1>3 DEF LinkInv

-------------------------------------------------------------------------------
(* The types alone *)

LEMMA TypeStep == TypeOK /\ [Next]_vars => TypeOK'
<1> SUFFICES ASSUME TypeOK, [Next]_vars PROVE TypeOK'
  OBVIOUS
<1> USE ZeroBurstAssumption DEF TypeOK, Twists, ReaderSteps, TickSteps, Status, linkVars
<1>1. CASE OpenPort
  BY <1>1 DEF OpenPort
<1>2. ASSUME NEW moves \in BOOLEAN, NEW stop \in BOOLEAN, OnTeleop(moves, stop)
      PROVE  TypeOK'
  <2>1. moving' \in BOOLEAN /\ estop' \in BOOLEAN /\ mayMove' \in BOOLEAN
    BY <1>2, Zenon DEF OnTeleop
  <2>2. lateMoves' \in Nat
    BY <1>2 DEF OnTeleop
  <2>3. timed' \in BOOLEAN /\ late' \in BOOLEAN /\ failsafe' \in BOOLEAN
    BY <1>2, Zenon DEF OnTeleop
  <2>4. zeros_left' = ZeroBurst /\ reader' = "accepted"
    BY <1>2, Zenon DEF OnTeleop
  <2>5. UNCHANGED <<tick, twist, published, shown, reply, zeros>>
    BY <1>2 DEF OnTeleop
  <2> QED BY <2>1, <2>2, <2>3, <2>4, <2>5
<1>3. CASE Reply
  BY <1>3 DEF Reply, CurrentStatus
<1>4. CASE ReadFails
  BY <1>4 DEF ReadFails
<1>5. CASE OnLinkLost
  <2>1. failsafe' \in BOOLEAN /\ moving' \in BOOLEAN /\ timed' \in BOOLEAN
    BY <1>5, Zenon DEF OnLinkLost
  <2> QED BY <1>5, <2>1 DEF OnLinkLost
<1>6. CASE FrameGrowsLate
  BY <1>6 DEF FrameGrowsLate
<1>7. CASE CheckTimeout
  <2>1. failsafe' \in BOOLEAN /\ moving' \in BOOLEAN /\ mayMove' \in BOOLEAN
    BY <1>7, Zenon DEF CheckTimeout
  <2> QED BY <1>7, <2>1 DEF CheckTimeout
<1>8. CASE ShouldPublish
  BY <1>8 DEF ShouldPublish
<1>9. CASE TwistComponents
  BY <1>9 DEF TwistComponents
<1>10. CASE PublishTwist
  BY <1>10 DEF PublishTwist
<1>11. CASE PublishStatus
  BY <1>11 DEF PublishStatus, CurrentStatus
<1>12. CASE UNCHANGED vars
  BY <1>12 DEF vars
<1> QED
  BY <1>1, <1>2, <1>3, <1>4, <1>5, <1>6, <1>7, <1>8, <1>9, <1>10, <1>11, <1>12
  DEF Next, Reader, Frame, Publish

(***************************************************************************)
(* LoraLink's state is well typed in every behaviour: _zeros_left never    *)
(* runs below zero, whichever thread last took the lock.                   *)
(***************************************************************************)
THEOREM TypeCorrect == Spec => []TypeOK
<1>1. Init => TypeOK
  BY LinkInit DEF LinkInv
<1> QED BY <1>1, TypeStep, PTL DEF Spec

-------------------------------------------------------------------------------
(* The inductive step *)

LEMMA LinkStep == LinkInv /\ [Next]_vars => LinkInv'
<1> SUFFICES ASSUME LinkInv, [Next]_vars PROVE LinkInv'
  OBVIOUS
<1>t. TypeOK /\ TypeOK'
  BY TypeStep DEF LinkInv
<1> USE ZeroBurstAssumption, <1>t
    DEF LinkInv, LiveIsArmed, LiveIsTimed, LiveIsAllowed, MoveIsArmed, MoveIsFirst,
        AllowedIsClean, BurstOwed, LateMovesBounded, MoveComposed, Settled, TypeOK,
        linkVars
<1>1. CASE OpenPort
  BY <1>1 DEF OpenPort
<1>2. ASSUME NEW moves \in BOOLEAN, NEW stop \in BOOLEAN, OnTeleop(moves, stop)
      PROVE  LinkInv'
  BY <1>2 DEF OnTeleop
<1>3. CASE Reply
  BY <1>3 DEF Reply
<1>4. CASE ReadFails
  BY <1>4 DEF ReadFails
<1>5. CASE OnLinkLost
  BY <1>5 DEF OnLinkLost
<1>6. CASE FrameGrowsLate
  BY <1>6 DEF FrameGrowsLate
<1>7. CASE CheckTimeout
  BY <1>7 DEF CheckTimeout
<1>8. CASE ShouldPublish
  BY <1>8 DEF ShouldPublish
<1>9. CASE TwistComponents
  BY <1>9 DEF TwistComponents
<1>10. CASE PublishTwist
  BY <1>10 DEF PublishTwist
<1>11. CASE PublishStatus
  BY <1>11 DEF PublishStatus
<1>12. CASE UNCHANGED vars
  BY <1>12 DEF vars
<1> QED
  BY <1>1, <1>2, <1>3, <1>4, <1>5, <1>6, <1>7, <1>8, <1>9, <1>10, <1>11, <1>12
  DEF Next, Reader, Frame, Publish

LEMMA LinkCorrect == Spec => []LinkInv
  BY LinkInit, LinkStep, PTL DEF Spec

-------------------------------------------------------------------------------

(***************************************************************************)
(* A link that failsafes owes the rover zero_burst stops since its last    *)
(* moving twist, for any interleaving of reconnects with the publish tick. *)
(***************************************************************************)
THEOREM FullStopIsOwed == Spec => []FullStop
<1>1. LinkInv => FullStop
  BY DEF LinkInv, BurstOwed, Settled, FullStop
<1> QED BY <1>1, LinkCorrect, PTL

(***************************************************************************)
(* After an e-stop, a link loss or a timeout at most one moving twist, the *)
(* one composed before, still goes out.                                    *)
(***************************************************************************)
THEOREM AtMostOneLateTwist == Spec => []OneLateTwist
<1>1. LinkInv => OneLateTwist
  BY DEF LinkInv, LateMovesBounded, OneLateTwist
<1> QED BY <1>1, LinkCorrect, PTL

-------------------------------------------------------------------------------
(***************************************************************************)
(* The parser resynchronises for every length and every set of bodies.     *)
(* The inductive invariant says where the parser stands in a frame that    *)
(* nothing has happened to: at the same place, if it was not inside a body *)
(* when the frame began; and otherwise still inside that body, or between  *)
(* two, or in one that began at a lookalike of the sync word.              *)
(***************************************************************************)

\* Where a frame that began outside of any body finds the parser.
InStep ==
    intact /\ ~excused =>
        /\ pos = 0 => state # "body"
        /\ pos = 1 => state = "sync1"
        /\ pos > 1 => state = "body" /\ got = pos - 2 /\ whole

\* Where a frame finds it that began inside a body.
OutOfStep ==
    intact /\ excused =>
        /\ state = "body" => got >= pos \/ LooksAlike(body)
        /\ state = "sync1" => pos > 2 /\ FrameOf(body)[pos] = "AA"
        /\ state = "sync0" => pos > 0

\* Every miss but the first had a lookalike before it.
MissesAreEarned ==
    /\ misses <= lookalikes + 1
    /\ intact /\ excused /\ misses > 0 => misses <= lookalikes
    /\ LooksAlike(body) => lookalikes < MaxLookalikes

FrameInv == FrameTypeOK /\ InStep /\ OutOfStep /\ MissesAreEarned

-------------------------------------------------------------------------------
(* Frames *)

\* A frame is the sync word and then its body.
LEMMA FrameBytes ==
    ASSUME NEW b \in Bodies
    PROVE  /\ Len(FrameOf(b)) = BodyLen + 2
           /\ FrameOf(b)[1] = "AA" /\ FrameOf(b)[2] = "55"
           /\ \A i \in 1..BodyLen : FrameOf(b)[i + 2] = b[i] /\ b[i] \in Bytes
           /\ \A i \in 1..BodyLen + 2 : FrameOf(b)[i] \in Bytes
<1>1. b \in [1..BodyLen -> Bytes] /\ BodyLen \in Nat
  BY FrameAssumption
<1>2. b \in Seq(Bytes) /\ Len(b) = BodyLen
  BY <1>1
<1>3. Sync \in Seq(Bytes) /\ Len(Sync) = 2 /\ Sync[1] = "AA" /\ Sync[2] = "55"
  BY DEF Sync, Bytes
<1>4. /\ Len(FrameOf(b)) = BodyLen + 2
      /\ \A i \in 1..BodyLen + 2 : FrameOf(b)[i] = IF i <= 2 THEN Sync[i] ELSE b[i - 2]
  <2>1. /\ Len(Sync \o b) = Len(Sync) + Len(b)
        /\ \A i \in 1..Len(Sync) + Len(b) :
               (Sync \o b)[i] = IF i <= Len(Sync) THEN Sync[i] ELSE b[i - Len(Sync)]
    BY <1>2, <1>3, ConcatProperties, Zenon
  <2> QED BY <1>1, <1>2, <1>3, <2>1 DEF FrameOf
<1> HIDE DEF Sync
<1>5. FrameOf(b)[1] = "AA" /\ FrameOf(b)[2] = "55"
  BY <1>1, <1>3, <1>4
<1>6. \A i \in 1..BodyLen : FrameOf(b)[i + 2] = b[i] /\ b[i] \in Bytes
  BY <1>1, <1>4
<1>7. \A i \in 1..BodyLen + 2 : FrameOf(b)[i] \in Bytes
  BY <1>1, <1>3, <1>4 DEF Bytes
<1> QED BY <1>4, <1>5, <1>6, <1>7

-------------------------------------------------------------------------------
(* One byte *)

\* Whatever the byte, the parser's state stays in its type (Parser._push).
LEMMA PushedTypes ==
    ASSUME FrameTypeOK, NEW byte, NEW own \in BOOLEAN, Pushed(byte, own)
    PROVE  /\ state' \in {"sync0", "sync1", "body"}
           /\ got' \in 0..BodyLen - 1
           /\ whole' \in BOOLEAN
<1> USE FrameAssumption DEF FrameTypeOK, Pushed, Complete, AfterNoSync1
<1>1. state' \in {"sync0", "sync1", "body"}
  OBVIOUS
<1>2. got' \in 0..BodyLen - 1
  OBVIOUS
<1>3. whole' \in BOOLEAN
  OBVIOUS
<1> QED BY <1>1, <1>2, <1>3

\* A parser in step with the frame takes its bytes as they are.
LEMMA StaysInStep ==
    ASSUME FrameInv, intact, ~excused, pos < BodyLen + 1,
           Pushed(FrameOf(body)[pos + 1], TRUE)
    PROVE  /\ pos + 1 = 1 => state' = "sync1"
           /\ pos + 1 > 1 => state' = "body" /\ got' = pos - 1 /\ whole'
<1>1. FrameOf(body)[1] = "AA" /\ FrameOf(body)[2] = "55"
  BY FrameBytes DEF FrameInv, FrameTypeOK
<1>2. pos \in 0..BodyLen + 1 /\ BodyLen \in Nat \ {0}
  BY FrameAssumption DEF FrameInv, FrameTypeOK
<1>3. CASE pos = 0
  <2>1. state # "body" /\ FrameOf(body)[pos + 1] = "AA"
    BY <1>1, <1>3 DEF FrameInv, InStep
  <2>2. state' = "sync1"
    BY <2>1 DEF Pushed, Complete, AfterNoSync1, FrameInv, FrameTypeOK
  <2> QED BY <1>3, <2>2
<1>4. CASE pos = 1
  <2>1. state = "sync1" /\ FrameOf(body)[pos + 1] = "55"
    BY <1>1, <1>4 DEF FrameInv, InStep
  <2>2. state' = "body" /\ got' = 0 /\ whole' = (TRUE /\ pos = 1)
    BY <2>1 DEF Pushed, Complete
  <2>3. whole'
    BY <1>4, <2>2, Zenon
  <2>4. pos + 1 # 1 /\ got' = pos - 1
    BY <1>4, <2>2
  <2> QED BY <2>2, <2>3, <2>4, Zenon
<1>5. CASE pos > 1
  <2>1. state = "body" /\ got = pos - 2 /\ whole
    BY <1>5 DEF FrameInv, InStep
  <2>2. ~Complete /\ pos = got + 2
    BY <1>2, <2>1 DEF Complete
  <2>3. state' = "body" /\ got' = got + 1 /\ whole' = (whole /\ TRUE /\ pos = got + 2)
    BY <2>1, <2>2 DEF Pushed
  <2>4. whole'
    BY <2>1, <2>2, <2>3, Zenon
  <2>5. pos + 1 # 1 /\ got' = pos - 1
    BY <1>2, <1>5, <2>1, <2>3
  <2> QED BY <2>3, <2>4, <2>5, Zenon
<1> QED BY <1>2, <1>3, <1>4, <1>5

\* One that is out of step stays in the old body, or finds a sync word in the new one.
LEMMA StaysOutOfStep ==
    ASSUME FrameInv, intact, excused, Pushed(FrameOf(body)[pos + 1], TRUE)
    PROVE  /\ state' = "body" => got' >= pos + 1 \/ LooksAlike(body)
           /\ state' = "sync1" => pos + 1 > 2 /\ FrameOf(body)[pos + 1] = "AA"
<1> DEFINE byte == FrameOf(body)[pos + 1]
<1>1. /\ FrameOf(body)[1] = "AA" /\ FrameOf(body)[2] = "55"
      /\ \A i \in 1..BodyLen : FrameOf(body)[i + 2] = body[i]
  BY FrameBytes DEF FrameInv, FrameTypeOK
<1>2. pos \in 0..BodyLen + 1 /\ BodyLen \in Nat \ {0} /\ got \in 0..BodyLen - 1
  BY FrameAssumption DEF FrameInv, FrameTypeOK
<1>3. CASE state = "body"
  <2>1. state' = "body" => got' = got + 1
    BY <1>3 DEF Pushed, Complete
  <2>2. state' # "sync1"
    BY <1>3 DEF Pushed, Complete
  <2> QED BY <1>2, <1>3, <2>1, <2>2 DEF FrameInv, OutOfStep
<1>4. CASE state = "sync1"
  <2>1. pos > 2 /\ FrameOf(body)[pos] = "AA"
    BY <1>4 DEF FrameInv, OutOfStep
  <2>2. state' = "sync1" => byte = "AA"
    BY <1>4 DEF Pushed, AfterNoSync1, Complete
  <2>3. ASSUME state' = "body" PROVE LooksAlike(body)
    <3>1. byte = "55"
      BY <1>4, <2>3 DEF Pushed, AfterNoSync1, Complete
    <3>2. pos - 2 \in 1..BodyLen - 1 /\ body[pos - 2] = "AA" /\ body[pos - 1] = "55"
      BY <1>1, <1>2, <2>1, <3>1
    <3>3. (pos - 2) + 1 = pos - 1
      BY <1>2
    <3> QED BY <3>2, <3>3 DEF LooksAlike
  <2> QED BY <1>2, <2>1, <2>2, <2>3
<1>5. CASE state = "sync0"
  <2>1. pos > 0
    BY <1>5 DEF FrameInv, OutOfStep
  <2>2. state' # "body" /\ (state' = "sync1" => byte = "AA")
    BY <1>5 DEF Pushed
  <2> QED BY <1>1, <1>2, <2>1, <2>2
<1> QED BY <1>3, <1>4, <1>5 DEF FrameInv, FrameTypeOK

\* Misses are bounded by the lookalikes.
LEMMA MissesBounded ==
    ASSUME NEW m \in Nat, NEW max \in Nat, NEW l \in 0..max, m <= l + 1
    PROVE  m \in 0..max + 1
OBVIOUS

\* What happens to the frame's last byte.
LEMMA NextFrameKeeps ==
    ASSUME FrameInv, NextFrame, state' \in {"sync0", "sync1", "body"},
           got' \in 0..BodyLen - 1, whole' \in BOOLEAN,
           lookalikes' \in 0..MaxLookalikes, misses' \in Nat, misses' <= lookalikes' + 1,
           state' = "body" /\ misses' > 0 => misses' <= lookalikes'
    PROVE  FrameInv'
<1>1. pos' = 0 /\ intact' = TRUE /\ excused' = (state' = "body") /\ body' \in Bodies
      /\ (LooksAlike(body') => lookalikes' < MaxLookalikes)
  BY DEF NextFrame
<1>2. FrameTypeOK'
  <2>1. excused' \in BOOLEAN
    BY <1>1, Zenon
  <2>2. intact' \in BOOLEAN
    BY <1>1, Zenon
  <2>3. {whole, intact, excused}' \subseteq BOOLEAN
    BY <2>1, <2>2, Zenon
  <2>4. BodyLen \in Nat \ {0} /\ MaxLookalikes \in Nat \ {0}
    BY FrameAssumption
  <2>5. pos' = 0
    BY <1>1
  <2>6. pos' \in 0..BodyLen + 1 /\ misses' \in 0..MaxLookalikes + 1
    <3>1. misses' \in Nat /\ lookalikes' \in 0..MaxLookalikes /\ misses' <= lookalikes' + 1
      OBVIOUS
    <3>2. misses' \in 0..MaxLookalikes + 1
      BY <2>4, <3>1, MissesBounded
    <3>3. pos' \in 0..BodyLen + 1
      BY <2>4, <2>5
    <3> QED BY <3>2, <3>3
  <2> QED BY <1>1, <2>3, <2>6 DEF FrameTypeOK
<1>3. excused' <=> state' = "body"
  BY <1>1, Zenon
<1>4. InStep'
  BY <1>1, <1>3 DEF InStep
<1>5. OutOfStep'
  BY <1>1, <1>3 DEF OutOfStep
<1>6. MissesAreEarned'
  BY <1>1, <1>3 DEF MissesAreEarned
<1> QED BY <1>2, <1>4, <1>5, <1>6 DEF FrameInv

\* A corrupted or lost byte disturbs the frame and wipes the counts.
LEMMA DisturbedByte ==
    ASSUME FrameInv, Advance(FALSE), state' \in {"sync0", "sync1", "body"},
           got' \in 0..BodyLen - 1, whole' \in BOOLEAN
    PROVE  FrameInv'
<1>1. CASE pos = Len(FrameOf(body)) - 1
  <2>1. NextFrame /\ misses' = 0 /\ lookalikes' = 0
    BY <1>1 DEF Advance, Counted
  <2> QED BY <2>1, FrameAssumption, NextFrameKeeps
<1>2. CASE pos # Len(FrameOf(body)) - 1
  <2>1. /\ pos' = pos + 1 /\ intact' = (intact /\ FALSE) /\ misses' = 0 /\ lookalikes' = 0
        /\ UNCHANGED <<body, excused>>
    BY <1>2 DEF Advance
  <2>2. intact' = FALSE /\ pos' \in 0..BodyLen + 1
    <3>1. intact' = FALSE
      BY <2>1, Zenon
    <3>2. Len(FrameOf(body)) = BodyLen + 2 /\ pos \in 0..BodyLen + 1 /\ BodyLen \in Nat
      BY FrameAssumption, FrameBytes DEF FrameInv, FrameTypeOK
    <3>3. pos' \in 0..BodyLen + 1
      BY <1>2, <2>1, <3>2
    <3> QED BY <3>1, <3>3
  <2>3. FrameTypeOK'
    BY <2>1, <2>2, FrameAssumption DEF FrameInv, FrameTypeOK
  <2>4. InStep' /\ OutOfStep'
    BY <2>2 DEF InStep, OutOfStep
  <2>5. MissesAreEarned'
    BY <2>1, <2>2, FrameAssumption DEF MissesAreEarned, LooksAlike
  <2> QED BY <2>3, <2>4, <2>5 DEF FrameInv
<1> QED BY <1>1, <1>2

-------------------------------------------------------------------------------
(* The steps *)

\* A byte of the frame on the air arrives as it was sent.
LEMMA ArrivalStep == ASSUME FrameInv, ByteArrives PROVE FrameInv'
<1>1. Pushed(FrameOf(body)[pos + 1], TRUE) /\ Advance(TRUE)
  BY DEF ByteArrives
<1>2. /\ state' \in {"sync0", "sync1", "body"} /\ got' \in 0..BodyLen - 1
      /\ whole' \in BOOLEAN
  BY <1>1, PushedTypes DEF FrameInv
<1>3. /\ Len(FrameOf(body)) = BodyLen + 2 /\ pos \in 0..BodyLen + 1
      /\ BodyLen \in Nat \ {0} /\ MaxLookalikes \in Nat \ {0} /\ got \in 0..BodyLen - 1
      /\ misses \in Nat /\ lookalikes \in 0..MaxLookalikes
      /\ intact \in BOOLEAN /\ excused \in BOOLEAN /\ whole \in BOOLEAN
  BY FrameAssumption, FrameBytes DEF FrameInv, FrameTypeOK
<1>4. CASE pos = BodyLen + 1
  <2>1. NextFrame /\ Counted(TRUE)
    <3>1. pos = Len(FrameOf(body)) - 1
      BY <1>3, <1>4
    <3> QED BY <1>1, <3>1, Zenon DEF Advance
  <2>2. CASE ~intact \/ Delivers(TRUE)
    <3>1. misses' = 0 /\ lookalikes' = 0
      BY <2>1, <2>2 DEF Counted
    <3> QED BY <1>2, <1>3, <2>1, <3>1, NextFrameKeeps
  <2>3. CASE intact /\ ~Delivers(TRUE)
    <3>1. excused
      <4>1. SUFFICES ASSUME ~excused PROVE Delivers(TRUE)
        BY <2>3
      <4>2. state = "body" /\ got = pos - 2 /\ whole
        BY <1>3, <1>4, <2>3, <4>1 DEF FrameInv, InStep
      <4>3. Complete /\ pos = got + 2
        BY <1>3, <1>4, <4>2 DEF Complete
      <4> QED BY <4>2, <4>3, Zenon DEF Delivers
    <3>2. misses' = misses + 1 /\ lookalikes' = IF LooksAlike(body) THEN lookalikes + 1 ELSE lookalikes
      BY <2>1, <2>3 DEF Counted
    <3>3. state' = "body" => LooksAlike(body)
      BY <1>1, <1>2, <1>3, <1>4, <2>3, <3>1, StaysOutOfStep
    <3>4. /\ misses <= lookalikes + 1 /\ (misses > 0 => misses <= lookalikes)
          /\ (LooksAlike(body) => lookalikes < MaxLookalikes)
      BY <2>3, <3>1 DEF FrameInv, MissesAreEarned
    <3>5. /\ lookalikes' \in 0..MaxLookalikes /\ misses' \in Nat
          /\ misses' <= lookalikes' + 1
          /\ state' = "body" => misses' <= lookalikes'
      BY <1>3, <3>2, <3>3, <3>4
    <3> QED BY <1>2, <2>1, <3>5, NextFrameKeeps
  <2> QED BY <2>2, <2>3
<1>5. CASE pos # BodyLen + 1
  <2>1. /\ pos' = pos + 1 /\ intact' = (intact /\ TRUE) /\ UNCHANGED <<misses, lookalikes>>
        /\ UNCHANGED <<body, excused>>
    BY <1>1, <1>3, <1>5 DEF Advance
  <2>2. intact' = intact
    BY <1>3, <2>1, Zenon
  <2>3. FrameTypeOK'
    <3>1. pos' \in 0..BodyLen + 1
      BY <1>3, <1>5, <2>1
    <3> QED BY <1>2, <2>1, <2>2, <3>1 DEF FrameInv, FrameTypeOK
  <2>4. InStep'
    <3>1. SUFFICES ASSUME intact, ~excused
                   PROVE  /\ pos + 1 = 1 => state' = "sync1"
                          /\ pos + 1 > 1 => state' = "body" /\ got' = pos - 1 /\ whole'
      BY <1>3, <2>1, <2>2 DEF InStep
    <3> QED BY <1>1, <1>3, <1>5, <3>1, StaysInStep
  <2>5. OutOfStep'
    <3>1. SUFFICES ASSUME intact, excused
                   PROVE  /\ state' = "body" => got' >= pos + 1 \/ LooksAlike(body)
                          /\ state' = "sync1" => pos + 1 > 2 /\ FrameOf(body)[pos + 1] = "AA"
      BY <1>3, <2>1, <2>2 DEF OutOfStep, LooksAlike, FrameOf, Sync
    <3> QED BY <1>1, <3>1, StaysOutOfStep
  <2>6. MissesAreEarned'
    BY <2>1, <2>2 DEF FrameInv, MissesAreEarned, LooksAlike
  <2> QED BY <2>3, <2>4, <2>5, <2>6 DEF FrameInv
<1> QED BY <1>4, <1>5

\* The link starts outside of any body.
LEMMA FrameInvInit == FrameInit => FrameInv
<1> SUFFICES ASSUME FrameInit PROVE FrameInv
  OBVIOUS
<1>1. FrameTypeOK
  <2>1. BodyLen \in Nat \ {0} /\ MaxLookalikes \in Nat \ {0}
    BY FrameAssumption
  <2>2. {whole, intact, excused} \subseteq BOOLEAN
    BY Zenon DEF FrameInit
  <2>3. /\ state = "sync0" /\ got \in 0..BodyLen - 1 /\ body \in Bodies
        /\ pos \in 0..BodyLen + 1 /\ misses \in 0..MaxLookalikes + 1
        /\ lookalikes \in 0..MaxLookalikes
    BY <2>1 DEF FrameInit
  <2> QED BY <2>2, <2>3, Zenon DEF FrameTypeOK
<1>2. InStep /\ OutOfStep /\ MissesAreEarned
  BY FrameAssumption DEF FrameInit, InStep, OutOfStep, MissesAreEarned
<1> QED BY <1>1, <1>2 DEF FrameInv

\* Every byte, disturbance and reopening keeps the invariant.
LEMMA FrameInvStep == FrameInv /\ [FrameNext]_frameVars => FrameInv'
<1> SUFFICES ASSUME FrameInv, [FrameNext]_frameVars PROVE FrameInv'
  OBVIOUS
<1>1. CASE ByteArrives
  BY <1>1, ArrivalStep
<1>2. CASE ByteCorrupted
  <2>1. PICK byte \in Bytes : Pushed(byte, FALSE)
    BY <1>2 DEF ByteCorrupted
  <2>2. /\ state' \in {"sync0", "sync1", "body"} /\ got' \in 0..BodyLen - 1
        /\ whole' \in BOOLEAN
    BY <2>1, PushedTypes DEF FrameInv
  <2> QED BY <1>2, <2>2, DisturbedByte DEF ByteCorrupted
<1>3. CASE ByteLost
  <2>1. /\ state' \in {"sync0", "sync1", "body"} /\ got' \in 0..BodyLen - 1
        /\ whole' \in BOOLEAN
    BY <1>3 DEF ByteLost, parserVars, FrameInv, FrameTypeOK
  <2> QED BY <1>3, <2>1, DisturbedByte DEF ByteLost
<1>4. CASE SpuriousByte
  <2>1. PICK byte \in Bytes : Pushed(byte, FALSE)
    BY <1>4 DEF SpuriousByte
  <2>2. /\ state' \in {"sync0", "sync1", "body"} /\ got' \in 0..BodyLen - 1
        /\ whole' \in BOOLEAN
    BY <2>1, PushedTypes DEF FrameInv
  <2>3. /\ misses' = 0 /\ lookalikes' = 0 /\ body' = body /\ pos' = pos
        /\ intact' = (pos = 0)
        /\ excused' = IF pos = 0 THEN state' = "body" ELSE excused
    BY <1>4 DEF SpuriousByte
  <2>4. (intact' <=> pos = 0) /\ intact' \in BOOLEAN
    BY <2>3, Zenon
  <2>5. (pos = 0 => (excused' <=> state' = "body")) /\ excused' \in BOOLEAN
    BY <2>3, Zenon DEF FrameInv, FrameTypeOK
  <2>6. FrameTypeOK'
    BY <2>2, <2>3, <2>4, <2>5, FrameAssumption DEF FrameInv, FrameTypeOK
  <2>7. InStep' /\ OutOfStep'
    BY <2>2, <2>3, <2>4, <2>5 DEF InStep, OutOfStep
  <2>8. MissesAreEarned'
    BY <2>3, FrameAssumption DEF MissesAreEarned, LooksAlike
  <2> QED BY <2>6, <2>7, <2>8 DEF FrameInv
<1>5. CASE PortReopened
  <2>1. /\ state' = "sync0" /\ got' = 0 /\ whole' = FALSE /\ misses' = 0 /\ lookalikes' = 0
        /\ body' \in Bodies /\ pos' \in 0..BodyLen + 1 /\ excused' = FALSE
        /\ intact' = (pos' = 0)
    BY <1>5 DEF PortReopened, Reset
  <2>2. (intact' <=> pos' = 0) /\ intact' \in BOOLEAN
    BY <2>1, Zenon
  <2>3. FrameTypeOK'
    <3>1. BodyLen \in Nat \ {0} /\ MaxLookalikes \in Nat \ {0}
      BY FrameAssumption
    <3>2. {whole, intact, excused}' \subseteq BOOLEAN
      BY <2>1, <2>2, Zenon
    <3>3. got' \in 0..BodyLen - 1 /\ misses' \in 0..MaxLookalikes + 1 /\ lookalikes' \in 0..MaxLookalikes
      BY <2>1, <3>1
    <3> QED BY <2>1, <3>2, <3>3, Zenon DEF FrameTypeOK
  <2>4. InStep' /\ OutOfStep'
    BY <2>1, <2>2 DEF InStep, OutOfStep
  <2>5. MissesAreEarned'
    BY <2>1, FrameAssumption DEF MissesAreEarned
  <2> QED BY <2>3, <2>4, <2>5 DEF FrameInv
<1>6. CASE UNCHANGED frameVars
  BY <1>6 DEF frameVars, parserVars, FrameInv, FrameTypeOK, InStep, OutOfStep, MissesAreEarned,
             LooksAlike, FrameOf, Sync
<1> QED BY <1>1, <1>2, <1>3, <1>4, <1>5, <1>6 DEF FrameNext

-------------------------------------------------------------------------------

\* The parser's state is well typed, and the counts of missed frames are bounded, for
\* every length and set of bodies (Parser._push).
THEOREM FrameTypeCorrect == FrameSpec => []FrameTypeOK
<1>1. FrameInv => FrameTypeOK
  BY DEF FrameInv
<1> QED BY <1>1, FrameInvInit, FrameInvStep, PTL DEF FrameSpec

\* After corruption, loss, spurious bytes and reopened ports every intact frame that did
\* not begin inside a body is delivered, and behind a disturbance one frame is missed at
\* most, and one more behind each missed one that contains the sync word: for every
\* length and set of bodies (Parser, "resynchronises after corruption").
THEOREM ParserResynchronises == FrameSpec => []Resynchronises
<1>1. FrameInv => Resynchronises
  <2> SUFFICES ASSUME FrameInv PROVE Resynchronises
    OBVIOUS
  <2>1. ASSUME pos = BodyLen + 1, intact, ~excused PROVE Complete /\ whole
    <3>1. pos > 1 /\ BodyLen \in Nat
      BY <2>1, FrameAssumption
    <3>2. state = "body" /\ got = pos - 2 /\ whole
      BY <2>1, <3>1 DEF FrameInv, InStep
    <3>3. Complete
      BY <2>1, <3>1, <3>2 DEF Complete
    <3> QED BY <3>2, <3>3
  <2>2. misses <= lookalikes + 1
    BY DEF FrameInv, MissesAreEarned
  <2> QED BY <2>1, <2>2, Zenon DEF Resynchronises
<1> QED BY <1>1, FrameInvInit, FrameInvStep, PTL DEF FrameSpec

===============================================================================
