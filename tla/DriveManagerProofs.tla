-------------------------- MODULE DriveManagerProofs ---------------------------
(***************************************************************************)
(* Proofs about DriveManager, for every number of presses and every set of *)
(* operator services.                                                      *)
(***************************************************************************)
EXTENDS DriveManager, TLAPS

(***************************************************************************)
(* Every generation is paid for by an accepted press, and the press that   *)
(* is still out has not claimed its own yet.  This is what keeps the next  *)
(* generation within Generations.                                          *)
(***************************************************************************)
PressesPay ==
    /\ generation <= presses
    /\ Pending(power_call) => generation < presses

TypeInv == TypeOK /\ PressesPay

-------------------------------------------------------------------------------
(* The operators the node is built from *)

LEMMA DrivePowerTypes ==
    ASSUME NEW s \in DrivePowers, NEW p \in BOOLEAN, NEW q \in BOOLEAN
    PROVE  /\ Seeded(s, p, q) \in DrivePowers
           /\ AfterPowerResult(s, p, q) \in DrivePowers
           /\ AfterControllerResult(s, p, q) \in DrivePowers
           /\ AfterCompactResult(s, p, q) \in DrivePowers
           /\ AfterErrorsCleared(s) \in DrivePowers
  BY DEF DrivePowers, Seeded, AfterPowerResult, AfterControllerResult,
         AfterCompactResult, AfterErrorsCleared

LEMMA CallTypes ==
    ASSUME NEW c \in Calls, NEW p \in BOOLEAN, NEW q \in BOOLEAN
    PROVE  /\ Idle \in Calls
           /\ Sent(p) \in Calls
           /\ Answered(c, p) \in Calls
           /\ Guarded(c, p, q) \in Calls
           /\ c.desired \in BOOLEAN
           /\ c.ok \in BOOLEAN
  BY DEF Calls, Idle, Sent, Answered, Guarded, Pending

LEMMA SnapshotType ==
    ASSUME NEW s \in DrivePowers, NEW j \in BOOLEAN
    PROVE  Snapshot(s, j) \in Messages
  BY DEF Snapshot, Messages

(***************************************************************************)
(* Committing a drive state keeps the node's variables well typed.         *)
(***************************************************************************)
LEMMA CommitTypes ==
    ASSUME TypeOK, NEW s \in DrivePowers, Commit(s)
    PROVE  state' \in DrivePowers /\ published' \in Messages /\ hushed' \in BOOLEAN
<1>1. Snapshot(s, joystick_active) \in Messages
  BY SnapshotType DEF TypeOK
<1>2. CASE s = state \/ hushed
  BY <1>2 DEF TypeOK, Commit, PublishChange
<1>3. CASE s # state /\ ~hushed
  BY <1>1, <1>3 DEF Commit, PublishChange
<1> QED BY <1>2, <1>3

-------------------------------------------------------------------------------
(* Type correctness *)

LEMMA InitTypes == Init => TypeInv
<1> SUFFICES ASSUME Init PROVE TypeInv
  OBVIOUS
<1> USE DEF Init
<1>1. FreshDrive \in DrivePowers
  BY DEF FreshDrive, DrivePowers
<1>2. published \in Messages
  BY <1>1 DEF Messages
<1>3. seed \in Seeds
  BY DEF Seeds, SeedStages
<1>4. Idle \in Calls
  BY DEF Idle, Calls
<1>5. /\ generation \in 0..MaxPresses
      /\ presses \in 0..MaxPresses
      /\ PressesPay
  BY MaxPressesAssumption DEF PressesPay, Pending, Idle
<1>6. (~wheelsCompact) \in BOOLEAN
  OBVIOUS
<1>7. told \in [motors : BOOLEAN, controller : BOOLEAN, compact : BOOLEAN]
  BY <1>6
<1> QED BY <1>1, <1>2, <1>3, <1>4, <1>5, <1>7 DEF TypeInv, TypeOK

\* Steps that touch neither the calls nor the presses, except for a press.
LEMMA TopicTypes == TypeInv /\ Topic => TypeInv'
<1> SUFFICES ASSUME TypeInv, Topic PROVE TypeInv'
  OBVIOUS
<1> USE DEF TypeInv, TypeOK, PressesPay, callVars, worldVars
<1>1. CASE Heartbeat
  BY <1>1, SnapshotType DEF Heartbeat
<1>2. CASE MinPeriodPasses
  <2>1. hushed' \in BOOLEAN
    BY <1>2 DEF MinPeriodPasses
  <2> QED BY <1>2, <2>1 DEF MinPeriodPasses
<1>3. ASSUME NEW data \in BOOLEAN, OnJoystickActive(data) PROVE TypeInv'
  <2>1. published' \in Messages /\ hushed' \in BOOLEAN
    BY <1>3, SnapshotType DEF OnJoystickActive, PublishChange
  <2>2. presses' \in 0..MaxPresses /\ PressesPay'
    BY <1>3, MaxPressesAssumption DEF OnJoystickActive
  <2> QED BY <1>3, <2>1, <2>2 DEF OnJoystickActive
<1> QED BY <1>1, <1>2, <1>3 DEF Topic

LEMMA SeedingTypes == TypeInv /\ Seeding => TypeInv'
<1> SUFFICES ASSUME TypeInv, Seeding PROVE TypeInv'
  OBVIOUS
<1> USE DEF TypeInv, TypeOK, PressesPay, Seeds, SeedStages, callVars, worldVars
<1>1. CASE SeedTimer
  BY <1>1 DEF SeedTimer
<1>2. CASE ServeList
  <2>1. seed' \in Seeds
    BY <1>2 DEF ServeList
  <2> QED BY <1>2, <2>1 DEF ServeList
<1>3. CASE OnHardwareListed
  BY <1>3 DEF OnHardwareListed
<1>4. CASE OnControllersListed
  <2>1. /\ state' \in DrivePowers
        /\ published' \in Messages
        /\ hushed' \in BOOLEAN
    BY <1>4, CommitTypes, DrivePowerTypes DEF OnControllersListed
  <2> QED BY <1>4, <2>1 DEF OnControllersListed
<1>5. CASE SeedFails
  BY <1>5 DEF SeedFails
<1> QED BY <1>1, <1>2, <1>3, <1>4, <1>5 DEF Seeding

LEMMA RequestsTypes == TypeInv /\ Requests => TypeInv'
<1> SUFFICES ASSUME TypeInv, Requests PROVE TypeInv'
  OBVIOUS
<1> USE DEF TypeInv, TypeOK, PressesPay, worldVars, Counted, Readiness
<1>1. ASSUME NEW desired \in BOOLEAN, RequestPower(desired) PROVE TypeInv'
  <2> PICK ready \in Readiness :
         /\ power_call' = Guarded(power_call, desired, ready)
         /\ Counted(power_call, ready)
    BY <1>1 DEF RequestPower
  <2>1. power_call' \in Calls
    BY CallTypes
  <2>2. presses' \in 0..MaxPresses /\ PressesPay'
    BY <1>1, MaxPressesAssumption DEF RequestPower, Guarded, Pending
  <2> QED BY <1>1, <2>1, <2>2 DEF RequestPower
<1>2. ASSUME NEW desired \in BOOLEAN, RequestCompact(desired) PROVE TypeInv'
  <2> PICK ready \in Readiness :
         /\ compact_call' = Guarded(compact_call, desired, ready)
         /\ Counted(compact_call, ready)
    BY <1>2 DEF RequestCompact
  <2>1. compact_call' \in Calls
    BY CallTypes
  <2>2. presses' \in 0..MaxPresses /\ PressesPay'
    BY <1>2, MaxPressesAssumption DEF RequestCompact
  <2> QED BY <1>2, <2>1, <2>2 DEF RequestCompact
<1>3. CASE OnClearErrors
  <2> PICK ready \in Readiness :
         /\ clear_call' = Guarded(clear_call, TRUE, ready)
         /\ Counted(clear_call, ready)
    BY <1>3 DEF OnClearErrors
  <2>1. clear_call' \in Calls
    BY CallTypes
  <2>2. presses' \in 0..MaxPresses /\ PressesPay'
    BY <1>3, MaxPressesAssumption DEF OnClearErrors
  <2> QED BY <1>3, <2>1, <2>2 DEF OnClearErrors
<1>4. (~state.motors_enabled) \in BOOLEAN /\ (~state.compact_mode) \in BOOLEAN
  OBVIOUS
<1> QED BY <1>1, <1>2, <1>3, <1>4
        DEF Requests, OnPower, OnPowerToggle, OnCompact, OnCompactToggle

LEMMA RepliesTypes == TypeInv /\ Replies => TypeInv'
<1> SUFFICES ASSUME TypeInv, Replies PROVE TypeInv'
  OBVIOUS
<1> USE DEF TypeInv, TypeOK, PressesPay, nodeVars, callVars, worldVars
<1>1. CASE ServePower
  <2>1. power_call' \in Calls
    BY <1>1, CallTypes DEF ServePower
  <2>2. PressesPay'
    BY <1>1 DEF ServePower, Answered, Pending
  <2>3. PICK ok \in BOOLEAN :
          /\ hwActive' = IF ok THEN power_call.desired ELSE hwActive
          /\ motorsLive' = IF ok THEN power_call.desired /\ (hwActive => motorsLive)
                                 ELSE motorsLive
          /\ refused' = (refused \/ ~ok)
    BY <1>1, Zenon DEF ServePower
  <2>4. power_call.desired \in BOOLEAN
    BY CallTypes
  <2>5. hwActive' \in BOOLEAN /\ motorsLive' \in BOOLEAN /\ refused' \in BOOLEAN
    BY <2>3, <2>4, Zenon
  <2> QED BY <1>1, <2>1, <2>2, <2>5, Zenon DEF ServePower
<1>2. CASE OnPowerResult
  <2>1. /\ state' \in DrivePowers
        /\ published' \in Messages
        /\ hushed' \in BOOLEAN
    BY <1>2, CommitTypes, DrivePowerTypes, CallTypes DEF OnPowerResult
  <2>2. generation + 1 \in Generations /\ generation + 1 <= presses
    BY <1>2, MaxPressesAssumption DEF OnPowerResult, Pending, Generations
  <2>3. CASE power_call.ok /\ Start(power_call.desired)
    <3>1. Sent(power_call.desired) \in Calls
      BY CallTypes
    <3>2. switch_calls' \in [Generations -> Calls]
      BY <2>2, <2>3, <3>1 DEF Start
    <3>3. generation' \in 0..MaxPresses /\ PressesPay'
      BY <1>2, <2>2, <2>3, MaxPressesAssumption
      DEF OnPowerResult, Start, Idle, Pending, Generations
    <3>4. /\ told' \in [motors : BOOLEAN, controller : BOOLEAN, compact : BOOLEAN]
          /\ refused' \in BOOLEAN
      BY <1>2, <2>3 DEF OnPowerResult, SwitchController
    <3> QED BY <1>2, <2>1, <3>2, <3>3, <3>4, CallTypes DEF OnPowerResult
  <2>4. CASE UNCHANGED <<generation, switch_calls>>
    <3>1. PressesPay'
      BY <1>2, <2>4 DEF OnPowerResult, Idle, Pending
    <3>2. /\ told' \in [motors : BOOLEAN, controller : BOOLEAN, compact : BOOLEAN]
          /\ refused' \in BOOLEAN
      BY <1>2 DEF OnPowerResult, SwitchController
    <3> QED BY <1>2, <2>1, <2>4, <3>1, <3>2, CallTypes DEF OnPowerResult
  <2>5. \/ power_call.ok /\ Start(power_call.desired)
        \/ UNCHANGED <<generation, switch_calls>>
    BY <1>2 DEF OnPowerResult, SwitchController
  <2> QED BY <2>3, <2>4, <2>5
<1>3. CASE PowerCallFails
  <2>1. told' \in [motors : BOOLEAN, controller : BOOLEAN, compact : BOOLEAN]
    BY <1>3 DEF PowerCallFails
  <2>2. power_call' \in Calls /\ raised' \in BOOLEAN /\ ~Pending(power_call')
    BY <1>3, CallTypes DEF PowerCallFails, Pending, Idle
  <2> QED BY <1>3, <2>1, <2>2 DEF PowerCallFails
<1>4. ASSUME NEW g \in Generations, ServeSwitch(g) PROVE TypeInv'
  <2>1. PICK ok \in BOOLEAN :
          /\ switch_calls' = [switch_calls EXCEPT ![g] = Answered(@, ok)]
          /\ ctrlActive' = IF ok THEN switch_calls[g].desired ELSE ctrlActive
          /\ refused' = (refused \/ ~ok)
    BY <1>4, Zenon DEF ServeSwitch
  <2>2. Answered(switch_calls[g], ok) \in Calls /\ switch_calls[g].desired \in BOOLEAN
    BY CallTypes
  <2>3. switch_calls' \in [Generations -> Calls]
    BY <2>1, <2>2
  <2>4. ctrlActive' \in BOOLEAN /\ refused' \in BOOLEAN
    BY <2>1, <2>2, Zenon
  <2> QED BY <1>4, <2>3, <2>4, Zenon DEF ServeSwitch
<1>5. ASSUME NEW g \in Generations, OnSwitchResult(g) PROVE TypeInv'
  <2>1. /\ state' \in DrivePowers
        /\ published' \in Messages
        /\ hushed' \in BOOLEAN
    <3>1. AfterControllerResult(state, switch_calls[g].ok, switch_calls[g].desired)
            \in DrivePowers
      BY DrivePowerTypes, CallTypes
    <3> QED BY <1>5, <3>1, CommitTypes DEF OnSwitchResult
  <2>2. switch_calls' \in [Generations -> Calls]
    BY <1>5, CallTypes DEF OnSwitchResult
  <2>3. (told.controller \/ switch_calls[g].ok) \in BOOLEAN
    OBVIOUS
  <2>4. told' \in [motors : BOOLEAN, controller : BOOLEAN, compact : BOOLEAN]
    BY <1>5, <2>3 DEF OnSwitchResult
  <2> QED BY <1>5, <2>1, <2>2, <2>4, Zenon DEF OnSwitchResult
<1>6. ASSUME NEW g \in Generations, SwitchCallFails(g) PROVE TypeInv'
  BY <1>6, CallTypes DEF SwitchCallFails
<1>7. CASE ServeCompact
  <2>1. PICK ok \in BOOLEAN :
          /\ compact_call' = Answered(compact_call, ok)
          /\ wheelsCompact' = IF ok THEN compact_call.desired ELSE wheelsCompact
          /\ refused' = (refused \/ ~ok)
    BY <1>7, Zenon DEF ServeCompact
  <2>2. compact_call' \in Calls /\ compact_call.desired \in BOOLEAN
    BY <2>1, CallTypes
  <2>3. wheelsCompact' \in BOOLEAN /\ refused' \in BOOLEAN
    BY <2>1, <2>2, Zenon
  <2> QED BY <1>7, <2>2, <2>3, Zenon DEF ServeCompact
<1>8. CASE OnCompactResult
  <2>1. /\ state' \in DrivePowers
        /\ published' \in Messages
        /\ hushed' \in BOOLEAN
    BY <1>8, CommitTypes, DrivePowerTypes, CallTypes DEF OnCompactResult
  <2> QED BY <1>8, <2>1, CallTypes DEF OnCompactResult
<1>9. CASE CompactCallFails
  <2>1. told' \in [motors : BOOLEAN, controller : BOOLEAN, compact : BOOLEAN]
    BY <1>9 DEF CompactCallFails
  <2>2. compact_call' \in Calls /\ raised' \in BOOLEAN
    BY <1>9, CallTypes DEF CompactCallFails
  <2> QED BY <1>9, <2>1, <2>2 DEF CompactCallFails
<1>10. CASE ServeClear
  BY <1>10, CallTypes DEF ServeClear
<1>11. CASE OnClearErrorsResult
  <2>1. /\ state' \in DrivePowers
        /\ published' \in Messages
        /\ hushed' \in BOOLEAN
    BY <1>11, CommitTypes, DrivePowerTypes DEF OnClearErrorsResult
  <2> QED BY <1>11, <2>1, CallTypes DEF OnClearErrorsResult
<1>12. CASE ClearCallFails
  BY <1>12, CallTypes DEF ClearCallFails
<1> QED BY <1>1, <1>2, <1>3, <1>4, <1>5, <1>6, <1>7, <1>8, <1>9, <1>10, <1>11, <1>12
        DEF Replies

LEMMA TypeStep == TypeInv /\ [Next]_vars => TypeInv'
<1> SUFFICES ASSUME TypeInv, [Next]_vars PROVE TypeInv'
  OBVIOUS
<1>1. CASE UNCHANGED vars
  BY <1>1 DEF TypeInv, TypeOK, PressesPay, vars, nodeVars, callVars, worldVars
<1> QED BY <1>1, TopicTypes, SeedingTypes, RequestsTypes, RepliesTypes DEF Next

(***************************************************************************)
(* The drive manager's state stays well typed in every behaviour.          *)
(***************************************************************************)
THEOREM TypeCorrect == Spec => []TypeOK
<1>1. TypeInv => TypeOK
  BY DEF TypeInv
<1> QED BY <1>1, InitTypes, TypeStep, PTL DEF Spec

-------------------------------------------------------------------------------
(* What the node has confirmed is true *)

(***************************************************************************)
(* The strengthening.  Until an operator asks for something no request is  *)
(* out, so the truth the seed read cannot have moved; a request served but *)
(* not yet heard of holds the truth in its own arguments; and since        *)
(* switch_controller takes requests in order, no older request is still to *)
(* be served once a newer one has been.                                    *)
(***************************************************************************)
NothingAsked ==
    ~operator_touched => /\ power_call = Idle
                         /\ \A g \in Generations : switch_calls[g] = Idle

SeedIsFresh ==
    ~operator_touched =>
        /\ seed.stage \in {"hardware_read", "controllers_asked", "controllers_read"}
              => seed.motors = hwActive
        /\ seed.stage = "controllers_read" => seed.controller = ctrlActive

PowerServed ==
    power_call.ok => power_call.stage = "answered" /\ hwActive = power_call.desired

CompactServed ==
    compact_call.ok => compact_call.stage = "answered" /\ wheelsCompact = compact_call.desired

SwitchesInOrder ==
    /\ \A g \in Generations : generation < g => switch_calls[g] = Idle
    /\ \A g \in Generations : switch_calls[g].ok => switch_calls[g].stage = "answered"
    /\ \A g, h \in Generations :
          h < g /\ switch_calls[g].stage = "answered" => switch_calls[h].stage # "sent"

NewestServed ==
    \A g \in Generations :
        g = generation /\ switch_calls[g].ok => ctrlActive = switch_calls[g].desired

NothingToServe ==
    told.controller => \A g \in Generations : switch_calls[g].stage # "sent"

ConfirmedInv ==
    /\ NothingAsked /\ SeedIsFresh
    /\ PowerServed /\ CompactServed
    /\ SwitchesInOrder /\ NewestServed /\ NothingToServe
    /\ MotorsAsConfirmed /\ CompactAsConfirmed /\ ControllerAsConfirmed

LEMMA InitConfirmed == Init => ConfirmedInv
<1> SUFFICES ASSUME Init PROVE ConfirmedInv
  OBVIOUS
<1>1. NothingAsked /\ SeedIsFresh
  BY DEF Init, NothingAsked, SeedIsFresh
<1>2. PowerServed /\ CompactServed
  BY DEF Init, PowerServed, CompactServed, Idle
<1>3. SwitchesInOrder /\ NewestServed /\ NothingToServe
  BY DEF Init, SwitchesInOrder, NewestServed, NothingToServe, Idle
<1>4. MotorsAsConfirmed /\ ControllerAsConfirmed
  BY DEF Init, MotorsAsConfirmed, ControllerAsConfirmed
<1>5. wheelsCompact \in BOOLEAN /\ told.compact = ~wheelsCompact
  BY DEF Init
<1>6. state.compact_mode = FALSE
  BY DEF Init, FreshDrive
<1>7. CompactAsConfirmed
  BY <1>5, <1>6, Zenon DEF CompactAsConfirmed
<1> QED BY <1>1, <1>2, <1>3, <1>4, <1>7 DEF ConfirmedInv

(***************************************************************************)
(* Publishing, joystick messages and error clearing touch nothing these    *)
(* facts are about; asking for anything only makes two of them vacuous.    *)
(***************************************************************************)
LEMMA Untouched ==
    ASSUME ConfirmedInv,
           state'.motors_enabled = state.motors_enabled,
           state'.controller_active = state.controller_active,
           state'.compact_mode = state.compact_mode,
           operator_touched' = operator_touched \/ operator_touched' = TRUE,
           UNCHANGED <<seed, power_call, compact_call, generation, switch_calls,
                       hwActive, ctrlActive, wheelsCompact, told>>
    PROVE  ConfirmedInv'
<1> USE DEF ConfirmedInv
<1>1. NothingAsked'
  BY DEF NothingAsked
<1>2. SeedIsFresh'
  BY DEF SeedIsFresh
<1>3. PowerServed' /\ CompactServed'
  BY DEF PowerServed, CompactServed
<1>4. SwitchesInOrder' /\ NewestServed' /\ NothingToServe'
  BY DEF SwitchesInOrder, NewestServed, NothingToServe
<1>5. MotorsAsConfirmed' /\ CompactAsConfirmed' /\ ControllerAsConfirmed'
  BY DEF MotorsAsConfirmed, CompactAsConfirmed, ControllerAsConfirmed
<1> QED BY <1>1, <1>2, <1>3, <1>4, <1>5

LEMMA TopicConfirmed == ConfirmedInv /\ Topic => ConfirmedInv'
<1> SUFFICES ASSUME ConfirmedInv, Topic PROVE ConfirmedInv'
  OBVIOUS
<1>1. UNCHANGED <<state, operator_touched, seed, power_call, compact_call, generation,
                  switch_calls, hwActive, ctrlActive, wheelsCompact, told>>
  BY DEF Topic, Heartbeat, MinPeriodPasses, OnJoystickActive, callVars, worldVars
<1> QED BY <1>1, Untouched

LEMMA SeedingConfirmed == TypeInv /\ ConfirmedInv /\ Seeding => ConfirmedInv'
<1> SUFFICES ASSUME TypeInv, ConfirmedInv, Seeding PROVE ConfirmedInv'
  OBVIOUS
<1>1. UNCHANGED <<operator_touched, power_call, compact_call, generation, switch_calls,
                  hwActive, ctrlActive, wheelsCompact>>
  BY DEF Seeding, SeedTimer, ServeList, OnHardwareListed, OnControllersListed, SeedFails,
         callVars, worldVars
<1>2. /\ NothingAsked' /\ PowerServed' /\ CompactServed'
      /\ SwitchesInOrder' /\ NewestServed'
  BY <1>1 DEF ConfirmedInv, NothingAsked, PowerServed, CompactServed, SwitchesInOrder,
              NewestServed
<1>3. SeedIsFresh'
  BY <1>1 DEF ConfirmedInv, SeedIsFresh, Seeding, SeedTimer, ServeList, OnHardwareListed,
              OnControllersListed, SeedFails, TypeInv, TypeOK, Seeds
<1>4. CASE UNCHANGED <<state, told>>
  BY <1>1, <1>2, <1>3, <1>4
  DEF ConfirmedInv, NothingToServe, MotorsAsConfirmed, CompactAsConfirmed,
      ControllerAsConfirmed
<1>5. CASE OnControllersListed /\ ~operator_touched
  <2>1. /\ state' = Seeded(state, seed.motors, seed.controller)
        /\ told' = [told EXCEPT !.motors = TRUE, !.controller = TRUE]
    BY <1>5 DEF OnControllersListed, AdoptSeed, Commit
  <2>2. /\ state'.motors_enabled = hwActive
        /\ state'.controller_active = ctrlActive
        /\ state'.compact_mode = state.compact_mode
        /\ told'.compact = told.compact
    BY <1>5, <2>1
    DEF ConfirmedInv, SeedIsFresh, Seeded, OnControllersListed, TypeInv, TypeOK, DrivePowers
  <2>3. MotorsAsConfirmed' /\ CompactAsConfirmed' /\ ControllerAsConfirmed'
    BY <1>1, <2>2
    DEF ConfirmedInv, MotorsAsConfirmed, CompactAsConfirmed, ControllerAsConfirmed
  <2>4. NothingToServe'
    BY <1>1, <1>5 DEF ConfirmedInv, NothingAsked, NothingToServe, Idle
  <2> QED BY <1>2, <1>3, <2>3, <2>4 DEF ConfirmedInv
<1>6. UNCHANGED <<state, told>> \/ (OnControllersListed /\ ~operator_touched)
  BY DEF Seeding, SeedTimer, ServeList, OnHardwareListed, OnControllersListed, SeedFails,
         AdoptSeed
<1> QED BY <1>4, <1>5, <1>6

(***************************************************************************)
(* A request may start a call, which is then neither served nor answered.  *)
(***************************************************************************)
LEMMA RequestsConfirmed == TypeInv /\ ConfirmedInv /\ Requests => ConfirmedInv'
<1> SUFFICES ASSUME TypeInv, ConfirmedInv, Requests PROVE ConfirmedInv'
  OBVIOUS
<1>1. /\ operator_touched' = TRUE
      /\ UNCHANGED <<state, seed, generation, switch_calls, hwActive, ctrlActive,
                     wheelsCompact, told>>
  BY DEF Requests, OnPower, OnPowerToggle, OnCompact, OnCompactToggle, OnClearErrors,
         RequestPower, RequestCompact, worldVars
<1>2. power_call' = power_call \/ (power_call'.ok = FALSE /\ ~power_call.ok)
  BY DEF Requests, OnPower, OnPowerToggle, OnCompact, OnCompactToggle, OnClearErrors,
         RequestPower, RequestCompact, Guarded, Pending, Sent, ConfirmedInv, PowerServed
<1>3. compact_call' = compact_call \/ (compact_call'.ok = FALSE /\ ~compact_call.ok)
  BY DEF Requests, OnPower, OnPowerToggle, OnCompact, OnCompactToggle, OnClearErrors,
         RequestPower, RequestCompact, Guarded, Pending, Sent, ConfirmedInv, CompactServed
<1>4. NothingAsked' /\ SeedIsFresh'
  BY <1>1 DEF NothingAsked, SeedIsFresh
<1>5. PowerServed' /\ MotorsAsConfirmed'
  BY <1>1, <1>2 DEF ConfirmedInv, PowerServed, MotorsAsConfirmed
<1>6. CompactServed' /\ CompactAsConfirmed'
  BY <1>1, <1>3 DEF ConfirmedInv, CompactServed, CompactAsConfirmed
<1>7. SwitchesInOrder' /\ NewestServed' /\ NothingToServe' /\ ControllerAsConfirmed'
  BY <1>1 DEF ConfirmedInv, SwitchesInOrder, NewestServed, NothingToServe,
              ControllerAsConfirmed
<1> QED BY <1>4, <1>5, <1>6, <1>7 DEF ConfirmedInv

(***************************************************************************)
(* Forgetting a switch request, answered or not, keeps the others in order.*)
(***************************************************************************)
LEMMA SwitchForgotten ==
    ASSUME TypeInv, SwitchesInOrder, NewestServed, NEW g \in Generations,
           switch_calls' = [switch_calls EXCEPT ![g] = Idle],
           UNCHANGED <<generation, ctrlActive>>
    PROVE  SwitchesInOrder' /\ NewestServed'
<1>1. /\ switch_calls'[g] = Idle
      /\ \A h \in Generations : h # g => switch_calls'[h] = switch_calls[h]
  BY DEF TypeInv, TypeOK
<1>2. Idle.stage = "idle" /\ Idle.ok = FALSE
  BY DEF Idle
<1>3. \A h \in Generations : generation < h => switch_calls'[h] = Idle
  BY <1>1 DEF SwitchesInOrder
<1>4. \A h \in Generations : switch_calls'[h].ok => switch_calls'[h].stage = "answered"
  BY <1>1, <1>2 DEF SwitchesInOrder
<1>5. \A h, k \in Generations :
         k < h /\ switch_calls'[h].stage = "answered" => switch_calls'[k].stage # "sent"
  BY <1>1, <1>2 DEF SwitchesInOrder
<1>6. NewestServed'
  BY <1>1, <1>2 DEF NewestServed
<1> QED BY <1>3, <1>4, <1>5, <1>6 DEF SwitchesInOrder

LEMMA RepliesConfirmed == TypeInv /\ ConfirmedInv /\ Replies => ConfirmedInv'
<1> SUFFICES ASSUME TypeInv, ConfirmedInv, Replies PROVE ConfirmedInv'
  OBVIOUS
<1> USE DEF ConfirmedInv
<1>1. CASE ServePower
  <2>1. operator_touched
    BY <1>1 DEF NothingAsked, ServePower, Idle
  <2>2. PICK ok \in BOOLEAN :
          /\ power_call' = Answered(power_call, ok)
          /\ hwActive' = IF ok THEN power_call.desired ELSE hwActive
    BY <1>1 DEF ServePower
  <2>3. UNCHANGED <<state, operator_touched, seed, compact_call, generation,
                    switch_calls, ctrlActive, wheelsCompact, told>>
    BY <1>1 DEF ServePower, nodeVars
  <2>4. /\ power_call'.stage = "answered"
        /\ power_call'.ok = ok
        /\ power_call'.desired = power_call.desired
        /\ ~power_call.ok
    BY <1>1, <2>2 DEF ServePower, Answered, PowerServed, TypeInv, TypeOK, Calls
  <2>5. NothingAsked' /\ SeedIsFresh'
    BY <2>1, <2>3 DEF NothingAsked, SeedIsFresh
  <2>6. PowerServed' /\ MotorsAsConfirmed'
    BY <2>2, <2>3, <2>4 DEF PowerServed, MotorsAsConfirmed
  <2> QED BY <2>3, <2>5, <2>6
          DEF CompactServed, SwitchesInOrder, NewestServed, NothingToServe,
              CompactAsConfirmed, ControllerAsConfirmed
<1>2. CASE OnPowerResult
  <2>1. operator_touched /\ operator_touched' = operator_touched
    BY <1>2 DEF NothingAsked, OnPowerResult, Idle
  <2>2. /\ power_call'.ok = FALSE
        /\ UNCHANGED <<compact_call, hwActive, ctrlActive, wheelsCompact>>
        /\ state' = AfterPowerResult(state, power_call.ok, power_call.desired)
    BY <1>2 DEF OnPowerResult, Commit, Idle, worldVars
  <2>3. /\ NothingAsked' /\ SeedIsFresh' /\ PowerServed' /\ CompactServed'
    BY <2>1, <2>2 DEF NothingAsked, SeedIsFresh, PowerServed, CompactServed
  <2>4. CASE ~power_call.ok
    <3>1. UNCHANGED <<state, generation, switch_calls, told>>
      BY <1>2, <2>2, <2>4 DEF OnPowerResult, AfterPowerResult
    <3> QED BY <2>2, <2>3, <2>4, <3>1
            DEF SwitchesInOrder, NewestServed, NothingToServe, MotorsAsConfirmed,
                CompactAsConfirmed, ControllerAsConfirmed
  <2>5. CASE power_call.ok
    <3>1. /\ state'.motors_enabled = power_call.desired
          /\ state'.controller_active = state.controller_active
          /\ state'.compact_mode = state.compact_mode
      BY <2>2, <2>5 DEF AfterPowerResult, TypeInv, TypeOK, DrivePowers
    <3>2. SwitchController(power_call.desired)
      BY <1>2, <2>5 DEF OnPowerResult
    <3>3. told'.compact = told.compact
      BY <3>2 DEF SwitchController, TypeInv, TypeOK
    <3>4. MotorsAsConfirmed' /\ CompactAsConfirmed'
      BY <2>2, <2>5, <3>1, <3>3 DEF MotorsAsConfirmed, CompactAsConfirmed, PowerServed
    <3>5. CASE Start(power_call.desired) /\ told'.controller = FALSE
      <4>1. generation + 1 \in Generations
        BY <1>2, MaxPressesAssumption
        DEF OnPowerResult, Pending, Generations, TypeInv, TypeOK, PressesPay
      <4>2. /\ generation' = generation + 1
            /\ switch_calls' = [switch_calls EXCEPT ![generation + 1] = Sent(power_call.desired)]
        BY <3>5 DEF Start
      <4>3. SwitchesInOrder'
        <5>1. /\ switch_calls'[generation + 1] = Sent(power_call.desired)
              /\ \A h \in Generations :
                    h # generation + 1 => switch_calls'[h] = switch_calls[h]
          BY <4>1, <4>2 DEF TypeInv, TypeOK
        <5>2. /\ Sent(power_call.desired).stage = "sent"
              /\ Sent(power_call.desired).ok = FALSE
          BY DEF Sent
        <5>3. \A h \in Generations : generation' < h => switch_calls'[h] = Idle
          BY <4>2, <5>1 DEF SwitchesInOrder, Generations, TypeInv, TypeOK
        <5>4. \A h \in Generations :
                 switch_calls'[h].ok => switch_calls'[h].stage = "answered"
          BY <5>1, <5>2 DEF SwitchesInOrder
        <5>5. ASSUME NEW h \in Generations, NEW k \in Generations,
                     k < h, switch_calls'[h].stage = "answered"
              PROVE  switch_calls'[k].stage # "sent"
          <6>1. h # generation + 1 /\ switch_calls[h].stage = "answered"
            BY <5>1, <5>2, <5>5
          <6>2. h <= generation
            BY <6>1 DEF SwitchesInOrder, Idle, Generations, TypeInv, TypeOK
          <6> QED BY <5>1, <5>5, <6>1, <6>2
                  DEF SwitchesInOrder, Generations, TypeInv, TypeOK
        <5> QED BY <5>3, <5>4, <5>5 DEF SwitchesInOrder
      <4>4. NewestServed'
        BY <4>1, <4>2 DEF NewestServed, Sent, TypeInv, TypeOK
      <4> QED BY <2>3, <3>4, <3>5, <4>3, <4>4 DEF NothingToServe, ControllerAsConfirmed
    <3>6. CASE UNCHANGED <<generation, switch_calls>> /\ told'.controller = told.controller
      BY <2>2, <2>3, <3>1, <3>4, <3>6
      DEF SwitchesInOrder, NewestServed, NothingToServe, ControllerAsConfirmed
    <3> QED BY <3>2, <3>5, <3>6 DEF SwitchController, TypeInv, TypeOK
  <2> QED BY <2>4, <2>5
<1>3. CASE PowerCallFails
  <2>1. /\ power_call' = Idle
        /\ told' = [told EXCEPT !.motors = @ /\ ~power_call.ok]
        /\ UNCHANGED <<state, operator_touched, seed, compact_call, generation,
                       switch_calls, hwActive, ctrlActive, wheelsCompact>>
    BY <1>3 DEF PowerCallFails, nodeVars, worldVars
  <2>2. /\ told'.controller = told.controller
        /\ told'.compact = told.compact
        /\ told'.motors => told.motors /\ ~power_call.ok
    BY <2>1 DEF TypeInv, TypeOK
  <2>3. MotorsAsConfirmed' /\ CompactAsConfirmed' /\ ControllerAsConfirmed'
    BY <2>1, <2>2 DEF MotorsAsConfirmed, CompactAsConfirmed, ControllerAsConfirmed
  <2>4. PowerServed' /\ NothingAsked'
    BY <2>1 DEF PowerServed, NothingAsked, Idle
  <2> QED BY <2>1, <2>2, <2>3, <2>4
          DEF SeedIsFresh, CompactServed, SwitchesInOrder, NewestServed, NothingToServe
<1>4. ASSUME NEW g \in Generations, ServeSwitch(g) PROVE ConfirmedInv'
  <2>1. operator_touched
    BY <1>4 DEF NothingAsked, ServeSwitch, Idle
  <2>2. PICK ok \in BOOLEAN :
          /\ switch_calls' = [switch_calls EXCEPT ![g] = Answered(@, ok)]
          /\ ctrlActive' = IF ok THEN switch_calls[g].desired ELSE ctrlActive
    BY <1>4 DEF ServeSwitch
  <2>3. UNCHANGED <<state, operator_touched, seed, power_call, compact_call, generation,
                    hwActive, wheelsCompact, told>>
    BY <1>4 DEF ServeSwitch, nodeVars
  <2>4. /\ switch_calls'[g].stage = "answered"
        /\ switch_calls'[g].ok = ok
        /\ switch_calls'[g].desired = switch_calls[g].desired
        /\ \A h \in Generations : h # g => switch_calls'[h] = switch_calls[h]
    BY <2>2 DEF Answered, TypeInv, TypeOK, Calls
  <2>5. \A h \in Generations : h < g => switch_calls[h].stage # "sent"
    BY <1>4 DEF ServeSwitch, Generations
  <2>6. switch_calls[g].stage = "sent" /\ ~(generation < g)
    BY <1>4 DEF ServeSwitch, SwitchesInOrder, Idle
  <2>7. SwitchesInOrder'
    <3>1. \A h \in Generations : generation < h => switch_calls'[h] = Idle
      BY <2>4, <2>6 DEF SwitchesInOrder
    <3>2. \A h \in Generations : switch_calls'[h].ok => switch_calls'[h].stage = "answered"
      BY <2>4 DEF SwitchesInOrder
    <3>3. ASSUME NEW h \in Generations, NEW k \in Generations,
                 k < h, switch_calls'[h].stage = "answered"
          PROVE  switch_calls'[k].stage # "sent"
      BY <2>4, <2>5, <3>3 DEF SwitchesInOrder
    <3> QED BY <2>3, <3>1, <3>2, <3>3 DEF SwitchesInOrder
  <2>8. NewestServed'
    <3>1. CASE g = generation
      BY <2>2, <2>3, <2>4, <3>1 DEF NewestServed
    <3>2. CASE g # generation
      <4>1. g < generation
        BY <2>6, <3>2 DEF Generations, TypeInv, TypeOK
      <4>2. ASSUME NEW h \in Generations, h = generation PROVE ~switch_calls'[h].ok
        BY <2>4, <2>6, <3>2, <4>1, <4>2 DEF SwitchesInOrder
      <4> QED BY <2>3, <4>2 DEF NewestServed
    <3> QED BY <3>1, <3>2
  <2>9. ~told.controller
    BY <2>6 DEF NothingToServe
  <2> QED BY <2>1, <2>3, <2>7, <2>8, <2>9
          DEF NothingAsked, SeedIsFresh, PowerServed, CompactServed, NothingToServe,
              MotorsAsConfirmed, CompactAsConfirmed, ControllerAsConfirmed
<1>5. ASSUME NEW g \in Generations, OnSwitchResult(g) PROVE ConfirmedInv'
  <2>1. operator_touched
    BY <1>5 DEF NothingAsked, OnSwitchResult, Idle
  <2>2. /\ switch_calls[g].stage = "answered"
        /\ switch_calls' = [switch_calls EXCEPT ![g] = Idle]
        /\ UNCHANGED <<operator_touched, seed, power_call, compact_call, generation,
                       hwActive, ctrlActive, wheelsCompact>>
    BY <1>5 DEF OnSwitchResult, worldVars
  <2>3. /\ switch_calls'[g] = Idle
        /\ \A h \in Generations : h # g => switch_calls'[h] = switch_calls[h]
    BY <2>2 DEF TypeInv, TypeOK
  <2>4. SwitchesInOrder' /\ NewestServed'
    BY <2>2, SwitchForgotten
  <2>5. CASE UNCHANGED <<state, told>>
    BY <2>1, <2>2, <2>3, <2>4, <2>5
    DEF NothingAsked, SeedIsFresh, PowerServed, CompactServed, NothingToServe,
        MotorsAsConfirmed, CompactAsConfirmed, ControllerAsConfirmed, Idle
  <2>6. CASE IsCurrent(g) /\ switch_calls[g].ok
    <3>1. state' = AfterControllerResult(state, switch_calls[g].ok, switch_calls[g].desired)
      BY <1>5, <2>6 DEF OnSwitchResult, Commit
    <3>2. /\ state'.motors_enabled = state.motors_enabled
          /\ state'.controller_active = switch_calls[g].desired
          /\ state'.compact_mode = state.compact_mode
      BY <2>6, <3>1 DEF AfterControllerResult, TypeInv, TypeOK, DrivePowers
    <3>3. ctrlActive = switch_calls[g].desired
      BY <2>6 DEF IsCurrent, NewestServed
    <3>4. told'.motors = told.motors /\ told'.compact = told.compact
      BY <1>5, <2>6 DEF OnSwitchResult, TypeInv, TypeOK
    <3>5. \A h \in Generations : switch_calls'[h].stage # "sent"
      <4> SUFFICES ASSUME NEW h \in Generations, h # g PROVE switch_calls[h].stage # "sent"
        BY <2>3 DEF Idle
      <4>1. CASE h < g
        BY <2>2, <4>1 DEF SwitchesInOrder
      <4>2. CASE g < h
        BY <2>6, <4>2 DEF IsCurrent, SwitchesInOrder, Idle
      <4> QED BY <4>1, <4>2 DEF Generations
    <3> QED BY <2>1, <2>2, <2>4, <3>2, <3>3, <3>4, <3>5
            DEF NothingAsked, SeedIsFresh, PowerServed, CompactServed, NothingToServe,
                MotorsAsConfirmed, CompactAsConfirmed, ControllerAsConfirmed
  <2>7. UNCHANGED <<state, told>> \/ (IsCurrent(g) /\ switch_calls[g].ok)
    <3> SUFFICES ASSUME IsCurrent(g), ~switch_calls[g].ok PROVE UNCHANGED <<state, told>>
      BY <1>5 DEF OnSwitchResult
    <3>1. state' = state
      BY <1>5 DEF OnSwitchResult, Commit, AfterControllerResult
    <3>2. told' = [told EXCEPT !.controller = @ \/ switch_calls[g].ok]
      BY <1>5 DEF OnSwitchResult
    <3>3. (told.controller \/ switch_calls[g].ok) = told.controller
      BY Zenon DEF TypeInv, TypeOK
    <3> QED BY <3>1, <3>2, <3>3 DEF TypeInv, TypeOK
  <2> QED BY <2>5, <2>6, <2>7
<1>6. ASSUME NEW g \in Generations, SwitchCallFails(g) PROVE ConfirmedInv'
  <2>1. /\ switch_calls' = [switch_calls EXCEPT ![g] = Idle]
        /\ UNCHANGED <<state, operator_touched, seed, power_call, compact_call, generation,
                       hwActive, ctrlActive, wheelsCompact, told>>
    BY <1>6 DEF SwitchCallFails, nodeVars, worldVars
  <2>2. /\ switch_calls'[g] = Idle
        /\ \A h \in Generations : h # g => switch_calls'[h] = switch_calls[h]
    BY <2>1 DEF TypeInv, TypeOK
  <2>3. SwitchesInOrder' /\ NewestServed'
    BY <2>1, SwitchForgotten
  <2> QED BY <2>1, <2>2, <2>3
          DEF NothingAsked, SeedIsFresh, PowerServed, CompactServed, NothingToServe,
              MotorsAsConfirmed, CompactAsConfirmed, ControllerAsConfirmed, Idle
<1>7. CASE ServeCompact
  <2>1. PICK ok \in BOOLEAN :
          /\ compact_call' = Answered(compact_call, ok)
          /\ wheelsCompact' = IF ok THEN compact_call.desired ELSE wheelsCompact
    BY <1>7 DEF ServeCompact
  <2>2. UNCHANGED <<state, operator_touched, seed, power_call, generation, switch_calls,
                    hwActive, ctrlActive, told>>
    BY <1>7 DEF ServeCompact, nodeVars
  <2>3. /\ compact_call'.stage = "answered"
        /\ compact_call'.ok = ok
        /\ compact_call'.desired = compact_call.desired
        /\ ~compact_call.ok
    BY <1>7, <2>1 DEF ServeCompact, Answered, CompactServed, TypeInv, TypeOK, Calls
  <2> QED BY <2>1, <2>2, <2>3
          DEF NothingAsked, SeedIsFresh, PowerServed, CompactServed, SwitchesInOrder,
              NewestServed, NothingToServe, MotorsAsConfirmed, CompactAsConfirmed,
              ControllerAsConfirmed
<1>8. CASE OnCompactResult
  <2>1. /\ compact_call'.ok = FALSE
        /\ UNCHANGED <<operator_touched, seed, power_call, generation, switch_calls,
                       hwActive, ctrlActive, wheelsCompact>>
        /\ state' = AfterCompactResult(state, compact_call.ok, compact_call.desired)
        /\ told' = [told EXCEPT !.compact = @ \/ compact_call.ok]
    BY <1>8 DEF OnCompactResult, Commit, Idle, worldVars
  <2>2. /\ told'.motors = told.motors /\ told'.controller = told.controller
        /\ told'.compact => told.compact \/ compact_call.ok
    BY <2>1 DEF TypeInv, TypeOK
  <2>3. /\ state'.motors_enabled = state.motors_enabled
        /\ state'.controller_active = state.controller_active
        /\ compact_call.ok => state'.compact_mode = compact_call.desired
        /\ ~compact_call.ok => state'.compact_mode = state.compact_mode
    BY <2>1 DEF AfterCompactResult, TypeInv, TypeOK, DrivePowers
  <2>4. CompactServed' /\ CompactAsConfirmed'
    BY <2>1, <2>2, <2>3 DEF CompactServed, CompactAsConfirmed
  <2> QED BY <2>1, <2>2, <2>3, <2>4
          DEF NothingAsked, SeedIsFresh, PowerServed, SwitchesInOrder, NewestServed,
              NothingToServe, MotorsAsConfirmed, ControllerAsConfirmed
<1>9. CASE CompactCallFails
  <2>1. /\ compact_call'.ok = FALSE
        /\ told' = [told EXCEPT !.compact = @ /\ ~compact_call.ok]
        /\ UNCHANGED <<state, operator_touched, seed, power_call, generation, switch_calls,
                       hwActive, ctrlActive, wheelsCompact>>
    BY <1>9 DEF CompactCallFails, Idle, nodeVars, worldVars
  <2>2. /\ told'.motors = told.motors /\ told'.controller = told.controller
        /\ told'.compact => told.compact /\ ~compact_call.ok
    BY <2>1 DEF TypeInv, TypeOK
  <2> QED BY <2>1, <2>2
          DEF NothingAsked, SeedIsFresh, PowerServed, CompactServed, SwitchesInOrder,
              NewestServed, NothingToServe, MotorsAsConfirmed, CompactAsConfirmed,
              ControllerAsConfirmed
<1>10. CASE ServeClear
  BY <1>10, Untouched DEF ServeClear, nodeVars
<1>11. CASE OnClearErrorsResult
  <2>1. /\ state' = state \/ state' = AfterErrorsCleared(state)
        /\ UNCHANGED <<operator_touched, seed, power_call, compact_call, generation,
                       switch_calls, hwActive, ctrlActive, wheelsCompact, told>>
    BY <1>11 DEF OnClearErrorsResult, Commit, worldVars
  <2>2. /\ state'.motors_enabled = state.motors_enabled
        /\ state'.controller_active = state.controller_active
        /\ state'.compact_mode = state.compact_mode
    BY <2>1 DEF AfterErrorsCleared, TypeInv, TypeOK, DrivePowers
  <2> QED BY <2>1, <2>2, Untouched
<1>12. CASE ClearCallFails
  BY <1>12, Untouched DEF ClearCallFails, nodeVars, worldVars
<1> QED BY <1>1, <1>2, <1>3, <1>4, <1>5, <1>6, <1>7, <1>8, <1>9, <1>10, <1>11, <1>12
        DEF Replies

LEMMA ConfirmedStep == TypeInv /\ ConfirmedInv /\ [Next]_vars => ConfirmedInv'
<1> SUFFICES ASSUME TypeInv, ConfirmedInv, [Next]_vars PROVE ConfirmedInv'
  OBVIOUS
<1>1. CASE UNCHANGED vars
  BY <1>1, Untouched DEF vars, nodeVars, callVars, worldVars
<1> QED BY <1>1, TopicConfirmed, SeedingConfirmed, RequestsConfirmed, RepliesConfirmed
        DEF Next

LEMMA ConfirmedCorrect == Spec => []ConfirmedInv
<1> QED BY InitTypes, TypeStep, InitConfirmed, ConfirmedStep, PTL DEF Spec

(***************************************************************************)
(* motors_enabled, once heard of, is the component's real state, for any   *)
(* number of presses by either operator and any refusals in between.       *)
(***************************************************************************)
THEOREM MotorsAreAsConfirmed == Spec => []MotorsAsConfirmed
<1>1. ConfirmedInv => MotorsAsConfirmed
  BY DEF ConfirmedInv
<1> QED BY <1>1, ConfirmedCorrect, PTL

(***************************************************************************)
(* The same for compact_mode and the swerve controller.                    *)
(***************************************************************************)
THEOREM CompactIsAsConfirmed == Spec => []CompactAsConfirmed
<1>1. ConfirmedInv => CompactAsConfirmed
  BY DEF ConfirmedInv
<1> QED BY <1>1, ConfirmedCorrect, PTL

(***************************************************************************)
(* controller_active, once the newest switch request has been applied, is  *)
(* the controller's real state, in whatever order the replies land.        *)
(***************************************************************************)
THEOREM ControllerIsAsConfirmed == Spec => []ControllerAsConfirmed
<1>1. ConfirmedInv => ControllerAsConfirmed
  BY DEF ConfirmedInv
<1> QED BY <1>1, ConfirmedCorrect, PTL

-------------------------------------------------------------------------------
(* The controller follows power *)

(***************************************************************************)
(* While nothing was refused or lost, the newest switch request carries    *)
(* what power was last confirmed, and once it is applied the controller is *)
(* where power is.                                                         *)
(***************************************************************************)
NewestFollows ==
    Smooth /\ generation > 0 =>
        /\ told.motors /\ operator_touched
        /\ switch_calls[generation].stage = "idle"
              => told.controller /\ ctrlActive = state.motors_enabled
        /\ switch_calls[generation].stage # "idle"
              => switch_calls[generation].desired = state.motors_enabled
        /\ switch_calls[generation].stage = "answered" => switch_calls[generation].ok

\* Steps that leave power, the controller and their requests alone.
LEMMA FollowsUntouched ==
    ASSUME NewestFollows,
           state'.motors_enabled = state.motors_enabled,
           operator_touched => operator_touched',
           refused => refused', raised => raised',
           told'.motors = told.motors, told'.controller = told.controller,
           UNCHANGED <<generation, switch_calls, ctrlActive>>
    PROVE  NewestFollows'
BY DEF NewestFollows, Smooth

LEMMA TopicFollows == NewestFollows /\ Topic => NewestFollows'
BY FollowsUntouched DEF Topic, Heartbeat, MinPeriodPasses, OnJoystickActive, callVars, worldVars

LEMMA RequestsFollow == NewestFollows /\ Requests => NewestFollows'
<1> SUFFICES ASSUME NewestFollows, Requests PROVE NewestFollows'
  OBVIOUS
<1>1. /\ operator_touched'
      /\ UNCHANGED <<state, generation, switch_calls, ctrlActive, told, refused, raised>>
  BY DEF Requests, OnPower, OnPowerToggle, OnCompact, OnCompactToggle, OnClearErrors,
         RequestPower, RequestCompact, worldVars
<1> QED BY <1>1, FollowsUntouched

\* The snapshot is adopted only before anything was asked, so before any generation.
LEMMA SeedingFollows == TypeInv /\ NewestFollows /\ Seeding => NewestFollows'
<1> SUFFICES ASSUME TypeInv, NewestFollows, Seeding PROVE NewestFollows'
  OBVIOUS
<1>1. UNCHANGED <<operator_touched, generation, switch_calls, ctrlActive, refused>>
  BY DEF Seeding, SeedTimer, ServeList, OnHardwareListed, OnControllersListed, SeedFails,
         callVars, worldVars
<1>2. CASE UNCHANGED <<state, told>> /\ (raised => raised')
  BY <1>1, <1>2, FollowsUntouched
<1>3. CASE ~operator_touched /\ raised' = raised
  BY <1>1, <1>3 DEF NewestFollows, Smooth
<1>4. (UNCHANGED <<state, told>> /\ (raised => raised'))
      \/ (~operator_touched /\ raised' = raised)
  BY DEF Seeding, SeedTimer, ServeList, OnHardwareListed, OnControllersListed, SeedFails,
         AdoptSeed
<1> QED BY <1>2, <1>3, <1>4

LEMMA RepliesFollow == TypeInv /\ ConfirmedInv /\ NewestFollows /\ Replies => NewestFollows'
<1> SUFFICES ASSUME TypeInv, ConfirmedInv, NewestFollows, Replies PROVE NewestFollows'
  OBVIOUS
<1>1. CASE ServePower
  BY <1>1, FollowsUntouched DEF ServePower, nodeVars
<1>2. CASE OnPowerResult
  <2>1. operator_touched /\ operator_touched' = operator_touched
    BY <1>2 DEF ConfirmedInv, NothingAsked, OnPowerResult, Idle
  <2>2. /\ state' = AfterPowerResult(state, power_call.ok, power_call.desired)
        /\ ctrlActive' = ctrlActive /\ raised' = raised
    BY <1>2 DEF OnPowerResult, Commit, worldVars
  <2>3. CASE ~power_call.ok
    BY <1>2, <2>1, <2>2, <2>3, FollowsUntouched DEF OnPowerResult, AfterPowerResult
  <2>4. CASE power_call.ok
    <3>1. state'.motors_enabled = power_call.desired
      BY <2>2, <2>4 DEF AfterPowerResult, TypeInv, TypeOK, DrivePowers
    <3>2. SwitchController(power_call.desired)
      BY <1>2, <2>4 DEF OnPowerResult
    <3>3. CASE refused'
      BY <3>3 DEF NewestFollows, Smooth
    <3>4. CASE Start(power_call.desired)
               /\ told' = [told EXCEPT !.motors = TRUE, !.controller = FALSE]
      <4>1. generation + 1 \in Generations
        BY <1>2, MaxPressesAssumption
        DEF OnPowerResult, Pending, Generations, TypeInv, TypeOK, PressesPay
      <4>2. generation' = generation + 1 /\ switch_calls'[generation + 1] = Sent(power_call.desired)
        BY <3>4, <4>1 DEF Start, TypeInv, TypeOK
      <4>3. told'.motors
        BY <3>4 DEF TypeInv, TypeOK
      <4> QED BY <2>1, <3>1, <4>2, <4>3 DEF NewestFollows, Sent
    <3> QED BY <3>2, <3>3, <3>4 DEF SwitchController
  <2> QED BY <2>3, <2>4
<1>3. CASE PowerCallFails \/ CompactCallFails \/ ClearCallFails
  BY <1>3 DEF PowerCallFails, CompactCallFails, ClearCallFails, NewestFollows, Smooth
<1>4. ASSUME NEW g \in Generations, ServeSwitch(g) PROVE NewestFollows'
  <2>1. PICK ok \in BOOLEAN :
          /\ switch_calls' = [switch_calls EXCEPT ![g] = Answered(@, ok)]
          /\ ctrlActive' = IF ok THEN switch_calls[g].desired ELSE ctrlActive
          /\ refused' = (refused \/ ~ok)
    BY <1>4 DEF ServeSwitch
  <2>2. UNCHANGED <<state, operator_touched, generation, told, raised>>
    BY <1>4 DEF ServeSwitch, nodeVars
  <2>3. /\ switch_calls'[g].stage = "answered"
        /\ switch_calls'[g].ok = ok
        /\ switch_calls'[g].desired = switch_calls[g].desired
        /\ \A h \in Generations : h # g => switch_calls'[h] = switch_calls[h]
    BY <2>1 DEF Answered, TypeInv, TypeOK, Calls
  <2>4. switch_calls[g].stage = "sent" /\ g <= generation /\ g > 0
    BY <1>4 DEF ServeSwitch, ConfirmedInv, SwitchesInOrder, Idle, Generations, TypeInv, TypeOK
  <2>5. CASE ~ok
    BY <2>1, <2>5 DEF NewestFollows, Smooth
  <2>6. CASE ok /\ g = generation
    BY <2>1, <2>2, <2>3, <2>4, <2>6 DEF NewestFollows, Smooth
  <2>7. CASE ok /\ g # generation
    <3>1. generation \in Generations /\ g < generation
      BY <2>4, <2>7 DEF Generations, TypeInv, TypeOK
    <3>2. switch_calls'[generation] = switch_calls[generation]
      BY <2>3, <2>7, <3>1
    <3>3. switch_calls[generation].stage # "answered" /\ ~told.controller
      BY <2>4, <3>1 DEF ConfirmedInv, SwitchesInOrder, NothingToServe
    <3>4. Smooth' => Smooth
      BY <2>1, <2>2 DEF Smooth
    <3> QED BY <2>2, <3>2, <3>3, <3>4 DEF NewestFollows
  <2> QED BY <2>5, <2>6, <2>7
<1>5. ASSUME NEW g \in Generations, OnSwitchResult(g) PROVE NewestFollows'
  <2>1. /\ switch_calls[g].stage = "answered"
        /\ switch_calls' = [switch_calls EXCEPT ![g] = Idle]
        /\ UNCHANGED <<operator_touched, generation, ctrlActive, refused, raised>>
    BY <1>5 DEF OnSwitchResult, worldVars
  <2>2. switch_calls'[g] = Idle /\ \A h \in Generations : h # g => switch_calls'[h] = switch_calls[h]
    BY <2>1 DEF TypeInv, TypeOK
  <2>3. CASE g # generation
    <3>1. UNCHANGED <<state, told>>
      BY <1>5, <2>3 DEF OnSwitchResult, IsCurrent
    <3>2. generation > 0 => switch_calls'[generation] = switch_calls[generation]
      BY <2>2, <2>3 DEF Generations, TypeInv, TypeOK
    <3> QED BY <2>1, <3>1, <3>2 DEF NewestFollows, Smooth
  <2>4. CASE g = generation
    <3>1. /\ state' = AfterControllerResult(state, switch_calls[g].ok, switch_calls[g].desired)
          /\ told' = [told EXCEPT !.controller = @ \/ switch_calls[g].ok]
      BY <1>5, <2>4 DEF OnSwitchResult, IsCurrent, Commit
    <3>2. state'.motors_enabled = state.motors_enabled
      BY <3>1 DEF AfterControllerResult, TypeInv, TypeOK, DrivePowers
    <3>3. told'.motors = told.motors /\ (switch_calls[g].ok => told'.controller)
      BY <3>1 DEF TypeInv, TypeOK
    <3>4. switch_calls[g].ok => ctrlActive = switch_calls[g].desired
      BY <2>4 DEF ConfirmedInv, NewestServed
    <3> QED BY <2>1, <2>2, <2>4, <3>2, <3>3, <3>4 DEF NewestFollows, Smooth, Idle
  <2> QED BY <2>3, <2>4
<1>6. ASSUME NEW g \in Generations, SwitchCallFails(g) PROVE NewestFollows'
  BY <1>6 DEF SwitchCallFails, NewestFollows, Smooth
<1>7. CASE ServeCompact
  BY <1>7, FollowsUntouched DEF ServeCompact, nodeVars
<1>8. CASE OnCompactResult
  <2>1. /\ state' = AfterCompactResult(state, compact_call.ok, compact_call.desired)
        /\ told' = [told EXCEPT !.compact = @ \/ compact_call.ok]
        /\ UNCHANGED <<operator_touched, generation, switch_calls, ctrlActive, refused, raised>>
    BY <1>8 DEF OnCompactResult, Commit, worldVars
  <2>2. /\ state'.motors_enabled = state.motors_enabled
        /\ told'.motors = told.motors /\ told'.controller = told.controller
    BY <2>1 DEF AfterCompactResult, TypeInv, TypeOK, DrivePowers
  <2> QED BY <2>1, <2>2, FollowsUntouched
<1>9. CASE ServeClear
  BY <1>9, FollowsUntouched DEF ServeClear, nodeVars
<1>10. CASE OnClearErrorsResult
  <2>1. /\ state' = state \/ state' = AfterErrorsCleared(state)
        /\ UNCHANGED <<operator_touched, generation, switch_calls, ctrlActive, told, refused, raised>>
    BY <1>10 DEF OnClearErrorsResult, Commit, worldVars
  <2>2. state'.motors_enabled = state.motors_enabled
    BY <2>1 DEF AfterErrorsCleared, TypeInv, TypeOK, DrivePowers
  <2> QED BY <2>1, <2>2, FollowsUntouched
<1> QED BY <1>1, <1>2, <1>3, <1>4, <1>5, <1>6, <1>7, <1>8, <1>9, <1>10 DEF Replies

LEMMA FollowsStep ==
    TypeInv /\ ConfirmedInv /\ NewestFollows /\ [Next]_vars => NewestFollows'
<1> SUFFICES ASSUME TypeInv, ConfirmedInv, NewestFollows, [Next]_vars PROVE NewestFollows'
  OBVIOUS
<1>1. CASE UNCHANGED vars
  BY <1>1, FollowsUntouched DEF vars, nodeVars, callVars, worldVars
<1> QED BY <1>1, TopicFollows, SeedingFollows, RequestsFollow, RepliesFollow DEF Next

(***************************************************************************)
(* The controller follows power (_on_power_result, _on_switch_result): when*)
(* every request went through and none is out, hardware, controller and    *)
(* belief agree, however many presses of two operators interleave.         *)
(***************************************************************************)
THEOREM ControllerDoesFollowPower == Spec => []ControllerFollowsPower
<1>1. Init => NewestFollows
  BY DEF Init, NewestFollows
<1>2. TypeInv /\ ConfirmedInv /\ NewestFollows => ControllerFollowsPower
  <2> SUFFICES ASSUME TypeInv, ConfirmedInv, NewestFollows, Smooth, NoCallOut, generation > 0
               PROVE  /\ ctrlActive = hwActive
                      /\ state.motors_enabled = hwActive
                      /\ state.controller_active = ctrlActive
    BY DEF ControllerFollowsPower
  <2>1. switch_calls[generation].stage = "idle" /\ ~power_call.ok
    BY DEF NoCallOut, Pending, Generations, TypeInv, TypeOK, ConfirmedInv, PowerServed
  <2>2. told.motors /\ told.controller /\ ctrlActive = state.motors_enabled
    BY <2>1 DEF NewestFollows
  <2> QED BY <2>1, <2>2 DEF ConfirmedInv, MotorsAsConfirmed, ControllerAsConfirmed
<1> QED BY <1>1, <1>2, InitTypes, TypeStep, InitConfirmed, ConfirmedStep, FollowsStep, PTL DEF Spec

===============================================================================
