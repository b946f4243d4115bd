-------------------------- MODULE RoverTeleopProofs ---------------------------
(***************************************************************************)
(* Proofs about RoverTeleop, for every pad, key map, set of buttons and    *)
(* length of the burst of stops.                                           *)
(***************************************************************************)
EXTENDS RoverTeleop, SequenceTheorems, TLAPS

(***************************************************************************)
(* The strengthening.  The stops still owed and those spent on the silence *)
(* make one burst, which is whole while the device is heard; and after a   *)
(* message with a press the terminal's next has none, so that a press that *)
(* is on its way meets a button that is up.                                *)
(***************************************************************************)
BurstIsSpent ==
    /\ lingering + zerosLeft = ZeroTwists
    /\ timedOut => stops + zerosLeft >= ZeroTwists
    /\ ~timedOut => zerosLeft = ZeroTwists

ReleaseBetween ==
    running /\ device = "terminal" =>
        /\ joy # NoKey => releaseNext = (joy.buttons # {})
        /\ joy # NoKey /\ releaseNext => down = {}
        /\ joy = NoKey /\ ~releaseNext => down = {}

RoverInv == RoverTypeOK /\ BurstIsSpent /\ ReleaseBetween /\ PressesFire

-------------------------------------------------------------------------------

AllButtons == Buttons \cup Requests

\* A message from the terminal or the pad is a message, not the absence of one.
LEMMA JoyIsNoKey ==
    ASSUME NEW j \in Joys PROVE j # NoKey
BY TeleopAssumption

\* Taking the first press off the queue.
LEMMA TakePress ==
    ASSUME NEW q \in Seq(AllButtons), q # <<>>
    PROVE  Head(q) \in AllButtons /\ Tail(q) \in Seq(AllButtons) /\ Len(Tail(q)) = Len(q) - 1 /\ Len(q) \in Nat
BY HeadTailProperties

\* What the terminal publishes is a message with at most one press.
LEMMA TerminalSends ==
    ASSUME RoverTypeOK, TerminalPublishes PROVE joy' \in Joys
<1>1. AtEase \in Positions
  BY DEF AtEase, Positions
<1>2. presses # <<>> => Head(presses) \in AllButtons
  BY TakePress DEF AllButtons, RoverTypeOK
<1>3. (IF held = NoKey THEN AtEase ELSE DriveKeys[held.key]) \in Positions
  BY <1>1, TeleopAssumption DEF RoverTypeOK
<1>4. (IF ~Pause /\ presses # <<>> THEN {Head(presses)} ELSE {}) \in {{}} \cup {{b} : b \in AllButtons}
  BY <1>2
<1> QED BY <1>3, <1>4 DEF TerminalPublishes, Joys, AllButtons

LEMMA RoverInvInit == RoverInit => RoverInv
<1> SUFFICES ASSUME RoverInit PROVE RoverInv
  OBVIOUS
<1> USE TeleopAssumption DEF RoverInit
<1>1. RoverTypeOK
  <2>1. sticks \in Positions
    BY DEF AtEase, Positions
  <2>2. {timedOut, old, twisted, running, releaseNext} \subseteq BOOLEAN
    OBVIOUS
  <2>3. modes \subseteq Buttons
    OBVIOUS
  <2> QED BY <2>1, <2>2, <2>3 DEF RoverTypeOK
<1>2. BurstIsSpent /\ ReleaseBetween /\ PressesFire
  BY DEF BurstIsSpent, ReleaseBetween, PressesFire
<1> QED BY <1>1, <1>2 DEF RoverInv

-------------------------------------------------------------------------------
(* Types *)

LEMMA RoverTypeStep == RoverTypeOK /\ [RoverNext]_roverVars => RoverTypeOK'
<1> SUFFICES ASSUME RoverTypeOK, [RoverNext]_roverVars PROVE RoverTypeOK'
  OBVIOUS
<1> USE TeleopAssumption DEF RoverTypeOK, typeVars, watchVars, outVars
<1>1. ASSUME NEW s \in PadInputs, NEW pressed \in {{}} \cup {{b} : b \in AllButtons},
             PadPublishes(s, pressed)
      PROVE  RoverTypeOK'
  <2>1. joy' \in Joys
    BY <1>1 DEF PadPublishes, Joys, AllButtons
  <2> QED BY <1>1, <2>1 DEF PadPublishes
<1>2. ASSUME NEW k \in DOMAIN DriveKeys, TypeDrive(k) PROVE RoverTypeOK'
  <2>1. held'.key = k
    BY <1>2 DEF TypeDrive
  <2> QED BY <1>2, <2>1 DEF TypeDrive
<1>3. ASSUME NEW b \in AllButtons, TypeButton(b) PROVE RoverTypeOK'
  <2>1. presses' \in Seq(AllButtons)
    BY <1>3, AppendProperties DEF TypeButton, AllButtons
  <2> QED BY <1>3, <2>1 DEF TypeButton, AllButtons
<1>4. CASE LetGo
  BY <1>4 DEF LetGo
<1>5. CASE TerminalPublishes
  <2>1. presses' \in Seq(AllButtons)
    BY <1>5, TakePress DEF TerminalPublishes, Pause, AllButtons
  <2>2. joy' \in Joys
    BY <1>5, TerminalSends
  <2>3. releaseNext' \in BOOLEAN
    BY <1>5 DEF TerminalPublishes, Pause
  <2> QED BY <1>5, <2>1, <2>2, <2>3 DEF TerminalPublishes, AllButtons
<1>6. CASE Quit
  <2>1. {timedOut', old', twisted', running', releaseNext'} \subseteq BOOLEAN
    BY <1>6 DEF Quit
  <2>2. stops' \in 0..ZeroTwists /\ presses' \in Seq(AllButtons)
    BY <1>6 DEF Quit
  <2> QED BY <1>6, <2>1, <2>2 DEF Quit, AllButtons
<1>7. CASE OnJoy
  <2>1. joy.sticks \in Positions /\ joy.buttons \in {{}} \cup {{b} : b \in AllButtons}
    BY <1>7 DEF OnJoy, Joys, AllButtons
  <2>2. modes' \subseteq Buttons
    BY <1>7 DEF OnJoy, Inverted
  <2>3. waiting' \subseteq Requests
    BY <1>7 DEF OnJoy
  <2>4. fired' \in Nat
    BY <1>7 DEF OnJoy
  <2>5. /\ joy' = NoKey /\ down' = joy.buttons /\ sticks' = joy.sticks
        /\ zerosLeft' = ZeroTwists /\ lingering' = 0
        /\ UNCHANGED <<device, held, presses, stops, typed>>
    BY <1>7 DEF OnJoy, Rearmed
  <2>6. {timedOut', old', twisted', running', releaseNext'} \subseteq BOOLEAN
    BY <1>7 DEF OnJoy
  <2> QED BY <2>1, <2>2, <2>3, <2>4, <2>5, <2>6 DEF AllButtons
<1>8. ASSUME NEW r \in Requests, RequestDone(r) PROVE RoverTypeOK'
  BY <1>8 DEF RequestDone
<1>9. CASE PublishTimer
  <2>1. twisted' \in BOOLEAN
    BY <1>9 DEF PublishTimer, PublishCmd
  <2>2. stops' \in 0..ZeroTwists
    BY <1>9 DEF PublishTimer, PublishCmd
  <2> QED BY <1>9, <2>1, <2>2 DEF PublishTimer
<1>10. CASE GrowsOld
  BY <1>10 DEF GrowsOld
<1>11. CASE TimeoutCheck
  <2>1. twisted' \in BOOLEAN /\ timedOut' \in BOOLEAN
    BY <1>11 DEF TimeoutCheck, PublishCmd
  <2>2. /\ stops' \in 0..ZeroTwists /\ zerosLeft' \in 0..ZeroTwists
        /\ lingering' \in Nat
    BY <1>11 DEF TimeoutCheck, PublishCmd
  <2> QED BY <1>11, <2>1, <2>2 DEF TimeoutCheck
<1>12. CASE UNCHANGED roverVars
  BY <1>12 DEF roverVars
<1> QED BY <1>1, <1>2, <1>3, <1>4, <1>5, <1>6, <1>7, <1>8, <1>9, <1>10, <1>11, <1>12
        DEF RoverNext, AllButtons

-------------------------------------------------------------------------------
(* The stop *)

LEMMA BurstStep ==
    RoverTypeOK /\ BurstIsSpent /\ [RoverNext]_roverVars => BurstIsSpent'
<1> SUFFICES ASSUME RoverTypeOK, BurstIsSpent, [RoverNext]_roverVars PROVE BurstIsSpent'
  OBVIOUS
<1> USE TeleopAssumption DEF BurstIsSpent, typeVars, watchVars, outVars
<1>1. zerosLeft \in 0..ZeroTwists /\ stops \in 0..ZeroTwists /\ lingering \in Nat
  BY DEF RoverTypeOK
<1>2. CASE UNCHANGED <<timedOut, zerosLeft, stops, lingering>>
  BY <1>2
<1>3. CASE Quit
  BY <1>1, <1>3 DEF Quit
<1>4. CASE OnJoy
  BY <1>1, <1>4 DEF OnJoy, Rearmed
<1>5. CASE PublishTimer
  BY <1>5 DEF PublishTimer
<1>6. CASE TimeoutCheck
  <2>1. CASE "active" \in modes /\ zerosLeft > 0
    <3>1. /\ zerosLeft' = zerosLeft - 1 /\ lingering' = lingering + 1
          /\ stops' = IF stops < ZeroTwists THEN stops + 1 ELSE stops
      BY <1>6, <2>1 DEF TimeoutCheck, PublishCmd
    <3>2. timedOut' = TRUE /\ stops + zerosLeft >= ZeroTwists
      BY <1>1, <1>6 DEF TimeoutCheck
    <3> QED BY <1>1, <2>1, <3>1, <3>2
  <2>2. CASE ~("active" \in modes /\ zerosLeft > 0)
    <3>1. UNCHANGED <<zerosLeft, stops, lingering>> /\ timedOut' = TRUE
      BY <1>6, <2>2 DEF TimeoutCheck
    <3> QED BY <1>1, <3>1
  <2> QED BY <2>1, <2>2
<1> QED BY <1>2, <1>3, <1>4, <1>5, <1>6
        DEF RoverNext, roverVars, PadPublishes, TypeDrive, TypeButton, LetGo, TerminalPublishes,
            RequestDone, GrowsOld

-------------------------------------------------------------------------------
(* The presses *)

LEMMA PressStep ==
    RoverTypeOK /\ ReleaseBetween /\ PressesFire /\ [RoverNext]_roverVars
        => ReleaseBetween' /\ PressesFire'
<1> SUFFICES ASSUME RoverTypeOK, ReleaseBetween, PressesFire, [RoverNext]_roverVars
             PROVE  ReleaseBetween' /\ PressesFire'
  OBVIOUS
<1> USE DEF ReleaseBetween, PressesFire, typeVars, watchVars, outVars
<1>1. /\ presses \in Seq(AllButtons) /\ Len(presses) \in Nat
      /\ typed \in Nat /\ fired \in Nat /\ joy \in {NoKey} \cup Joys
      /\ releaseNext \in BOOLEAN
  BY LenProperties, TeleopAssumption DEF RoverTypeOK, AllButtons
<1>2. CASE UNCHANGED <<device, presses, releaseNext, joy, down, typed, fired, running>>
  BY <1>2
<1>3. ASSUME NEW s \in PadInputs, NEW pressed \in {{}} \cup {{b} : b \in AllButtons},
             PadPublishes(s, pressed)
      PROVE  ReleaseBetween' /\ PressesFire'
  BY <1>3 DEF PadPublishes
<1>4. ASSUME NEW b \in AllButtons, TypeButton(b) PROVE ReleaseBetween' /\ PressesFire'
  <2>1. Len(presses') = Len(presses) + 1
    BY <1>1, <1>4, AppendProperties DEF TypeButton
  <2>2. /\ typed' = typed + 1
        /\ UNCHANGED <<device, releaseNext, joy, down, fired, running>>
    BY <1>4 DEF TypeButton
  <2> QED BY <1>1, <2>1, <2>2
<1>5. CASE TerminalPublishes
  <2>1. /\ running /\ device = "terminal" /\ joy = NoKey
        /\ UNCHANGED <<device, down, typed, fired, running>>
    BY <1>5 DEF TerminalPublishes
  <2>2. joy' # NoKey
    BY <1>5, TerminalSends, JoyIsNoKey
  <2>3. CASE ~releaseNext /\ presses # <<>>
    <3>1. joy'.buttons = {Head(presses)} /\ presses' = Tail(presses) /\ releaseNext' = TRUE
      BY <1>5, <2>3 DEF TerminalPublishes, Pause
    <3>2. Len(presses') = Len(presses) - 1
      BY <1>1, <2>3, <3>1, TakePress
    <3>3. joy'.buttons # {}
      BY <3>1
    <3>4. ReleaseBetween'
      BY <2>1, <2>2, <2>3, <3>1, <3>3
    <3>5. typed = fired + Len(presses)
      BY <1>1, <2>1
    <3> QED BY <1>1, <2>1, <2>2, <3>2, <3>3, <3>4, <3>5
  <2>4. CASE releaseNext \/ presses = <<>>
    <3>1. joy'.buttons = {} /\ presses' = presses /\ releaseNext' = FALSE
      BY <1>5, <2>4 DEF TerminalPublishes, Pause
    <3> QED BY <1>1, <2>1, <2>2, <2>4, <3>1
  <2> QED BY <1>1, <2>3, <2>4
<1>6. CASE Quit
  BY <1>6 DEF Quit
<1>7. CASE OnJoy
  <2>1. /\ running /\ joy # NoKey /\ joy' = NoKey /\ down' = joy.buttons
        /\ fired' = IF device = "terminal" /\ Edges(joy.buttons) # {} THEN fired + 1 ELSE fired
        /\ UNCHANGED <<device, presses, releaseNext, typed, running>>
    BY <1>7 DEF OnJoy
  <2>2. CASE device # "terminal"
    BY <1>1, <2>1, <2>2
  <2>3. CASE device = "terminal" /\ joy.buttons = {}
    BY <1>1, <2>1, <2>3 DEF Edges
  <2>4. CASE device = "terminal" /\ joy.buttons # {}
    <3>1. releaseNext /\ Edges(joy.buttons) # {}
      BY <2>1, <2>4 DEF Edges
    <3> QED BY <1>1, <2>1, <2>4, <3>1
  <2> QED BY <2>2, <2>3, <2>4
<1> QED BY <1>2, <1>3, <1>4, <1>5, <1>6, <1>7
        DEF RoverNext, roverVars, AllButtons, TypeDrive, LetGo, RequestDone, PublishTimer, GrowsOld,
            TimeoutCheck

-------------------------------------------------------------------------------
(* The steering *)

\* What the signs of a twist say of its stick.
LEMMA SteeringSign ==
    ASSUME RoverTypeOK, "vy" \notin modes, ~Spins(sticks)
    PROVE  TwistOf(sticks).wz = (IF sticks.vx < 0 THEN -1 ELSE 1) * sticks.steer
<1>1. sticks.vx \in -1..1 /\ sticks.steer \in -1..1 /\ Strafe(sticks) = 0
  BY DEF RoverTypeOK, Positions, Strafe
<1>2. CASE "raw" \in modes
  BY <1>1, <1>2 DEF TwistOf, Corrected, Spins
<1>3. CASE "raw" \notin modes
  BY <1>1, <1>3 DEF TwistOf, Parked, Spins
<1> QED BY <1>2, <1>3

-------------------------------------------------------------------------------

LEMMA RoverInvStep == RoverInv /\ [RoverNext]_roverVars => RoverInv'
BY RoverTypeStep, BurstStep, PressStep DEF RoverInv

\* The interpreter and its devices are well typed.
THEOREM RoverTypeCorrect == RoverSpec => []RoverTypeOK
<1>1. RoverInv => RoverTypeOK
  BY DEF RoverInv
<1> QED BY <1>1, RoverInvInit, RoverInvStep, PTL DEF RoverSpec

\* A device found silent gets a burst of stops, no fewer than timeout_zero_burst and no
\* more, however often it comes and goes (JoyWatchdog, _timeout_check).
THEOREM SilenceStopsOnce == RoverSpec => []StopsAndLetsGo
<1>1. RoverInv => StopsAndLetsGo
  BY TeleopAssumption DEF RoverInv, RoverTypeOK, BurstIsSpent, StopsAndLetsGo
<1> QED BY <1>1, RoverInvInit, RoverInvStep, PTL DEF RoverSpec

\* Every key typed for a function acts once, however fast it is typed and whenever the
\* messages are read (KeyboardJoy.buttons, ButtonToggle.update).
THEOREM EveryPressFires == RoverSpec => []PressesFire
<1>1. RoverInv => PressesFire
  BY DEF RoverInv
<1> QED BY <1>1, RoverInvInit, RoverInvStep, PTL DEF RoverSpec

\* The rover turns to the side the stick points to as seen along the way it goes, in
\* both modes (swerve_wz_correction, twist_from_input).
THEOREM SteeringIsAsSeen == RoverSpec => []SteersAsSeen
<1>1. RoverInv => SteersAsSeen
  BY SteeringSign DEF RoverInv, SteersAsSeen
<1> QED BY <1>1, RoverInvInit, RoverInvStep, PTL DEF RoverSpec

===============================================================================
