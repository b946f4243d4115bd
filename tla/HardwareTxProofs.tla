---------------------------- MODULE HardwareTxProofs ----------------------------
(***************************************************************************)
(* No write after a disable, and no motor left on behind a lowered flag,   *)
(* for every length of the transmit queues.                                *)
(*                                                                         *)
(* A disable is trusted when no enable overlapped it.  From its first      *)
(* burst on the flag is down, so no write() passes the check under the     *)
(* mutex, and the writes already queued are those the settle delay waits   *)
(* for (WritesDrain).  What a disable by the executor left behind while    *)
(* the component was deactivated is covered by the closed socket: that is  *)
(* why Quiet speaks of overlapped disables, too, while the socket is open. *)
(***************************************************************************)
EXTENDS HardwareTx, SequenceTheorems, TLAPS

Special == {"enable", "disable", "clear"}
Command == {"write", "watchdog"}

\* The frames a thread at a step has still to send.
OwedAt(place) ==
    CASE place \in {"enable_frames", "settling", "burst2", "clear_send"} -> 1
      [] place = "burst1" -> 2
      [] OTHER -> 0

Owed == OwedAt(pc["life"]) + OwedAt(pc["exec"])

\* The conjuncts of TypeOK on flags and threads; those on the queues are below.
ControlOK ==
    /\ enabled \in BOOLEAN /\ activated \in BOOLEAN /\ finalized \in BOOLEAN
    /\ isOpen \in BOOLEAN /\ stalled \in BOOLEAN
    /\ settled \in BOOLEAN /\ raced \in BOOLEAN
    /\ lock \in {"free", "loop"} /\ (lock = "loop" <=> pc["loop"] = "writing")
    /\ pc \in [Threads -> Steps]

\* Each thread stays in its own operations.
Places ==
    /\ pc["loop"] \in {"idle", "locking", "writing"}
    /\ pc["life"] \in {"idle", "close"} \cup Enabling \cup Disabling
    /\ pc["exec"] \in {"idle", "watchdog_send"} \cup Enabling \cup Disabling \cup Clearing

CommandsOK ==
    /\ commands \in Seq(Command) /\ Len(commands) <= CommandCap
    /\ draining \in [Requesters -> 0..CommandCap]

SpecialsOK ==
    /\ specials \in Seq(Special)
    /\ Len(specials) + Owed <= SpecialCap + 3

HeardOK == heard \in Frames /\ motorOn \in BOOLEAN

\* An enable that overlaps a disable or a clear is noticed.
Apart ==
    ~raced => \A t, u \in Requesters :
        pc[t] \in Enabling => pc[u] \notin Disabling \cup Clearing \cup {"close"}

\* While a disable that nothing overlaps is under way the flag is down ...
FlagDown == ~raced => \A t \in Requesters : pc[t] \in Disabling => ~enabled

\* ... and stays down once it is through; no write() is between its check and its frames.
SettledIsDown ==
    settled => /\ ~enabled /\ pc["loop"] # "writing"
               /\ \A t \in Requesters : pc[t] \notin Enabling

Overlaps == Apart /\ FlagDown /\ SettledIsDown

Window == {"settling", "burst2"}

WritesUpTo(n) == \A i \in 1..Len(commands) : commands[i] = "write" => i <= n

\* No write is queued but those the settle delay waits for, and none is on its way.
Drains(t) == WritesUpTo(draining[t]) /\ pc["loop"] # "writing"

WritesDrain ==
    /\ \A t \in Requesters : pc[t] = "burst2" => draining[t] = 0
    /\ ~raced => \A t \in Requesters : pc[t] \in Window => Drains(t)
    /\ pc["exec"] \in Window /\ pc["life"] = "idle" /\ isOpen /\ ~enabled => Drains("exec")

\* A disable whose effect is vouched for.
Trusted == settled /\ (~raced \/ (isOpen /\ pc["life"] # "close"))

Quiet == Trusted => WritesUpTo(0) /\ (specials = <<>> => heard # "write")

\* What the motor is once the special frames have arrived.
EndsOn == IF specials = <<>> THEN motorOn ELSE specials[Len(specials)] = "enable"

\* A motor that ends on is one the flag says is on, or will, or one that a disable
\* under way has still to reach.
OnIsMeant ==
    ~raced /\ EndsOn =>
        /\ isOpen
        /\ enabled \/ \E t \in Requesters : pc[t] \in {"enable_flag", "burst1"}
        /\ pc["exec"] # "clear_flag"
        /\ pc["life"] \notin Window
        /\ pc["life"] = "close" => finalized /\ pc["exec"] = "burst1"

TxInv ==
    /\ ControlOK /\ Places /\ CommandsOK /\ SpecialsOK /\ HeardOK
    /\ Overlaps /\ WritesDrain /\ Quiet /\ OnIsMeant

-------------------------------------------------------------------------------
(* The queues *)

\* CanBus::send of an enable, disable or clear frame.
LEMMA SpecialSent ==
    ASSUME NEW frame \in Special, SendSpecial(frame), specials \in Seq(Special)
    PROVE  /\ specials' \in Seq(Special) /\ Len(specials') <= Len(specials) + 1
           /\ isOpen => specials' # <<>> /\ specials'[Len(specials')] = frame
           /\ ~isOpen => specials' = specials
           /\ specials' = <<>> => specials = <<>>
<1>1. CASE isOpen
  <2>1. specials' = Append(specials, frame)
    BY <1>1 DEF SendSpecial
  <2> QED BY <1>1, <2>1, AppendProperties
<1>2. CASE ~isOpen
  <2>1. specials' = specials
    BY <1>2 DEF SendSpecial
  <2> QED BY <1>2, <2>1
<1> QED BY <1>1, <1>2

\* CanBus::send of a command frame: another frame than write() sends adds no write.
LEMMA CommandSent ==
    ASSUME NEW frame \in Command, SendCommand(frame),
           commands \in Seq(Command), Len(commands) <= CommandCap
    PROVE  /\ commands' \in Seq(Command) /\ Len(commands') <= CommandCap
           /\ \A n \in Nat : WritesUpTo(n) /\ frame # "write" => WritesUpTo(n)'
<1> USE CapsAssumption
<1>1. CASE isOpen /\ Len(commands) < CommandCap
  <2>1. commands' = Append(commands, frame)
    BY <1>1 DEF SendCommand
  <2> QED BY <1>1, <2>1 DEF WritesUpTo
<1>2. CASE ~(isOpen /\ Len(commands) < CommandCap)
  <2>1. commands' = commands
    BY <1>2 DEF SendCommand
  <2> QED BY <2>1 DEF WritesUpTo
<1> QED BY <1>1, <1>2

\* A command that reaches the bus brings the settle delay one nearer to its end.
LEMMA CommandLeaves ==
    ASSUME commands \in Seq(Command), commands # <<>>, commands' = Tail(commands)
    PROVE  /\ commands' \in Seq(Command) /\ Len(commands') = Len(commands) - 1
           /\ Head(commands) \in Command
           /\ \A n \in Nat : WritesUpTo(n) => WritesUpTo(IF n > 0 THEN n - 1 ELSE 0)'
           /\ WritesUpTo(0) => Head(commands) # "write"
<1>1. /\ Len(commands) \in Nat \ {0} /\ Head(commands) = commands[1]
      /\ Len(commands') = Len(commands) - 1
      /\ \A i \in 1..Len(commands') : commands'[i] = commands[i + 1]
  OBVIOUS
<1>2. ASSUME NEW n \in Nat, WritesUpTo(n) PROVE WritesUpTo(IF n > 0 THEN n - 1 ELSE 0)'
  BY <1>1, <1>2 DEF WritesUpTo
<1>3. WritesUpTo(0) => Head(commands) # "write"
  BY <1>1 DEF WritesUpTo
<1>4. commands' \in Seq(Command) /\ Head(commands) \in Command
  OBVIOUS
<1> QED BY <1>1, <1>2, <1>3, <1>4

\* A special frame that reaches the motor leaves what the motor ends as unchanged.
LEMMA SpecialLeaves ==
    ASSUME specials \in Seq(Special), specials # <<>>, specials' = Tail(specials)
    PROVE  /\ specials' \in Seq(Special) /\ Len(specials') = Len(specials) - 1
           /\ Head(specials) \in Special
           /\ specials' = <<>> => Head(specials) = specials[Len(specials)]
           /\ specials' # <<>> => specials'[Len(specials')] = specials[Len(specials)]
<1>1. /\ Len(specials) \in Nat \ {0} /\ Head(specials) = specials[1]
      /\ Len(specials') = Len(specials) - 1
      /\ \A i \in 1..Len(specials') : specials'[i] = specials[i + 1]
  OBVIOUS
<1>2. specials' \in Seq(Special) /\ Head(specials) \in Special
  OBVIOUS
<1>3. ASSUME specials' = <<>> PROVE Head(specials) = specials[Len(specials)]
  <2>1. Len(specials') = 0
    BY <1>3, EmptySeq
  <2>2. Len(specials) = 1
    BY <1>1, <2>1
  <2> QED BY <1>1, <2>2
<1>4. ASSUME specials' # <<>> PROVE specials'[Len(specials')] = specials[Len(specials)]
  <2>1. Len(specials') \in Nat \ {0}
    BY <1>2, <1>4, EmptySeq
  <2>2. specials'[Len(specials')] = specials[Len(specials') + 1]
    BY <1>1, <2>1
  <2>3. Len(specials') + 1 = Len(specials)
    BY <1>1
  <2> QED BY <2>2, <2>3
<1> QED BY <1>1, <1>2, <1>3, <1>4

-------------------------------------------------------------------------------
(* The steps, one conjunct of the invariant at a time *)

\* Every thread stays in the steps of its own operations, and the loop holds the mutex
\* exactly while it writes.
LEMMA ControlStep == ControlOK /\ Places /\ [Next]_vars => (ControlOK /\ Places)'
<1> SUFFICES ASSUME ControlOK /\ Places, [Next]_vars PROVE (ControlOK /\ Places)'
  OBVIOUS
<1> USE DEF ControlOK, Places, Steps, Goto, Threads, Requesters, Enabling, Disabling, Clearing
<1>1. CASE WriteBegins
  BY <1>1 DEF WriteBegins
<1>2. CASE WriteLocks
  BY <1>2 DEF WriteLocks, MayWrite
<1>3. CASE WriteSends
  BY <1>3 DEF WriteSends, SendCommand
<1>4. CASE LoopStalls
  BY <1>4 DEF LoopStalls
<1>5. ASSUME NEW t \in Requesters, EnableFrames(t) PROVE (ControlOK /\ Places)'
  BY <1>5 DEF EnableFrames, SendSpecial
<1>6. ASSUME NEW t \in Requesters, EnableFlag(t) PROVE (ControlOK /\ Places)'
  BY <1>6 DEF EnableFlag
<1>7. ASSUME NEW t \in Requesters, DisableBurst1(t) PROVE (ControlOK /\ Places)'
  BY <1>7 DEF DisableBurst1, SendSpecial
<1>8. ASSUME NEW t \in Requesters, SettleDelay(t) PROVE (ControlOK /\ Places)'
  BY <1>8 DEF SettleDelay, Drained
<1>9. ASSUME NEW t \in Requesters, DisableBurst2(t) PROVE (ControlOK /\ Places)'
  BY <1>9 DEF DisableBurst2, SendSpecial
<1>10. CASE OnActivate
  BY <1>10 DEF OnActivate, BeginEnable
<1>11. CASE OnDeactivate
  BY <1>11 DEF OnDeactivate, BeginDisable
<1>12. CASE OnShutdown
  BY <1>12 DEF OnShutdown, BeginDisable
<1>13. CASE Close
  BY <1>13 DEF Close
<1>14. ASSUME NEW data \in BOOLEAN, SetMotorsEnabled(data) PROVE (ControlOK /\ Places)'
  <2>1. CASE data
    BY <1>14, <2>1 DEF SetMotorsEnabled, BeginEnable, ExecutorSpins
  <2>2. CASE ~data
    BY <1>14, <2>2 DEF SetMotorsEnabled, BeginDisable, ExecutorSpins
  <2> QED BY <2>1, <2>2
<1>15. CASE ClearWhileClosed
  BY <1>15 DEF ClearWhileClosed, ExecutorSpins
<1>16. CASE ClearWhileOpen
  BY <1>16 DEF ClearWhileOpen, ExecutorSpins
<1>17. CASE ClearSends
  BY <1>17 DEF ClearSends, SendSpecial
<1>18. CASE ClearFlag
  BY <1>18 DEF ClearFlag
<1>19. CASE WatchdogFires
  BY <1>19 DEF WatchdogFires, ExecutorSpins
<1>20. CASE WatchdogSends
  BY <1>20 DEF WatchdogSends, SendCommand
<1>21. CASE DeliverCommand
  BY <1>21 DEF DeliverCommand
<1>22. CASE DeliverSpecial
  BY <1>22 DEF DeliverSpecial
<1>23. CASE UNCHANGED vars
  BY <1>23 DEF vars
<1> QED BY <1>1, <1>2, <1>3, <1>4, <1>5, <1>6, <1>7, <1>8, <1>9, <1>10, <1>11, <1>12, <1>13,
           <1>14, <1>15, <1>16, <1>17, <1>18, <1>19, <1>20, <1>21, <1>22, <1>23
         DEF Next, Write, Power, Lifecycle, Executor, Wire, Finished

\* The command queue stays within its bound, and so does what the settle delays wait for.
LEMMA CommandsStep == CommandsOK /\ [Next]_vars => CommandsOK'
<1> SUFFICES ASSUME CommandsOK, [Next]_vars PROVE CommandsOK'
  OBVIOUS
<1> USE DEF CommandsOK, Requesters
<1>1. \/ WriteSends \/ WatchdogSends \/ DeliverCommand \/ \E t \in Requesters : DisableBurst1(t)
      \/ UNCHANGED <<commands, draining>>
  BY DEF Next, Write, Power, Lifecycle, Executor, Wire, Finished, vars,
         WriteBegins, WriteLocks, WriteSends, LoopStalls, EnableFrames, EnableFlag,
         DisableBurst1,
         SettleDelay, DisableBurst2, OnActivate, OnDeactivate, OnShutdown, Close,
         SetMotorsEnabled,
         ClearWhileClosed, ClearWhileOpen, ClearSends, ClearFlag, WatchdogFires, WatchdogSends,
         DeliverCommand, DeliverSpecial
<1>2. CASE WriteSends
  BY <1>2, CommandSent DEF WriteSends, Command
<1>3. CASE WatchdogSends
  BY <1>3, CommandSent DEF WatchdogSends, Command
<1>4. CASE DeliverCommand
  <2>1. commands' \in Seq(Command) /\ Len(commands') <= CommandCap
    BY <1>4, CommandLeaves, CapsAssumption DEF DeliverCommand
  <2>2. draining' \in [Requesters -> 0..CommandCap]
    BY <1>4, CapsAssumption DEF DeliverCommand
  <2> QED BY <2>1, <2>2
<1>5. ASSUME NEW t \in Requesters, DisableBurst1(t) PROVE CommandsOK'
  BY <1>5, CapsAssumption DEF DisableBurst1
<1>6. CASE UNCHANGED <<commands, draining>>
  BY <1>6
<1> QED BY <1>1, <1>2, <1>3, <1>4, <1>5, <1>6

\* A thread owes at most a whole disable.
LEMMA OwedTypes == Owed \in 0..4 /\ Owed' \in 0..4
BY DEF Owed, OwedAt

\* ... and two frames at most, wherever it stands.
LEMMA OwedAtTypes == \A place : OwedAt(place) \in 0..2
BY DEF OwedAt

\* The three threads.
LEMMA PlaceFacts ==
    "life" \in Threads /\ "exec" \in Threads /\ "loop" \in Threads
BY DEF Threads, Requesters

\* One frame more and one less owed.
LEMMA Traded ==
    ASSUME NEW m \in Nat, NEW n \in Nat, NEW a \in 0..4, NEW b \in 0..4,
           n <= m + 1, b + 1 <= a
    PROVE  n + b <= m + a
OBVIOUS

\* What has been sent is no longer owed.
LEMMA RoomKept ==
    ASSUME SpecialsOK, specials' \in Seq(Special), Owed \in 0..4, Owed' \in 0..4,
           Len(specials') + Owed' <= Len(specials) + Owed
    PROVE  SpecialsOK'
BY CapsAssumption DEF SpecialsOK

\* A request that begins finds room for all its frames.
LEMMA SpecialsStep == ControlOK /\ Places /\ SpecialsOK /\ [Next]_vars => SpecialsOK'
<1> SUFFICES ASSUME ControlOK /\ Places /\ SpecialsOK, [Next]_vars PROVE SpecialsOK'
  OBVIOUS
<1> USE DEF ControlOK, Places, SpecialsOK, Goto, Threads, Requesters, Enabling, Disabling,
            Clearing
<1>1. CASE WriteBegins
  <2>1. specials' = specials /\ Owed' <= Owed
    BY <1>1, PlaceFacts DEF WriteBegins, Owed, OwedAt
  <2> QED BY <2>1, OwedTypes, RoomKept
<1>2. CASE WriteLocks
  <2>1. specials' = specials /\ Owed' <= Owed
    BY <1>2, PlaceFacts DEF WriteLocks, Owed, OwedAt
  <2> QED BY <2>1, OwedTypes, RoomKept
<1>3. CASE WriteSends
  <2>1. specials' = specials /\ Owed' <= Owed
    BY <1>3, PlaceFacts DEF WriteSends, Owed, OwedAt
  <2> QED BY <2>1, OwedTypes, RoomKept
<1>4. CASE LoopStalls
  <2>1. specials' = specials /\ Owed' <= Owed
    BY <1>4, PlaceFacts DEF LoopStalls, Owed, OwedAt
  <2> QED BY <2>1, OwedTypes, RoomKept
<1>5. ASSUME NEW t \in Requesters, EnableFrames(t) PROVE SpecialsOK'
  <2>1. /\ specials' \in Seq(Special) /\ Len(specials') <= Len(specials) + 1
    BY <1>5, SpecialSent DEF EnableFrames, Special
  <2>2. Owed' + 1 <= Owed
    BY <1>5, PlaceFacts DEF EnableFrames, Owed, OwedAt
  <2>3. Len(specials) \in Nat /\ Len(specials') \in Nat
    BY <2>1
  <2>4. Len(specials') + Owed' <= Len(specials) + Owed
    BY <2>1, <2>2, <2>3, OwedTypes, Traded
  <2> QED BY <2>1, <2>4, OwedTypes, RoomKept
<1>6. ASSUME NEW t \in Requesters, EnableFlag(t) PROVE SpecialsOK'
  <2>1. specials' = specials /\ Owed' <= Owed
    BY <1>6, PlaceFacts DEF EnableFlag, Owed, OwedAt
  <2> QED BY <2>1, OwedTypes, RoomKept
<1>7. ASSUME NEW t \in Requesters, DisableBurst1(t) PROVE SpecialsOK'
  <2>1. /\ specials' \in Seq(Special) /\ Len(specials') <= Len(specials) + 1
    BY <1>7, SpecialSent DEF DisableBurst1, Special
  <2>2. Owed' + 1 <= Owed
    BY <1>7, PlaceFacts DEF DisableBurst1, Owed, OwedAt
  <2>3. Len(specials) \in Nat /\ Len(specials') \in Nat
    BY <2>1
  <2>4. Len(specials') + Owed' <= Len(specials) + Owed
    BY <2>1, <2>2, <2>3, OwedTypes, Traded
  <2> QED BY <2>1, <2>4, OwedTypes, RoomKept
<1>8. ASSUME NEW t \in Requesters, SettleDelay(t) PROVE SpecialsOK'
  <2>1. specials' = specials /\ Owed' <= Owed
    BY <1>8, PlaceFacts DEF SettleDelay, Owed, OwedAt
  <2> QED BY <2>1, OwedTypes, RoomKept
<1>9. ASSUME NEW t \in Requesters, DisableBurst2(t) PROVE SpecialsOK'
  <2>1. /\ specials' \in Seq(Special) /\ Len(specials') <= Len(specials) + 1
    BY <1>9, SpecialSent DEF DisableBurst2, Special
  <2>2. Owed' + 1 <= Owed
    BY <1>9, PlaceFacts DEF DisableBurst2, Owed, OwedAt
  <2>3. Len(specials) \in Nat /\ Len(specials') \in Nat
    BY <2>1
  <2>4. Len(specials') + Owed' <= Len(specials) + Owed
    BY <2>1, <2>2, <2>3, OwedTypes, Traded
  <2> QED BY <2>1, <2>4, OwedTypes, RoomKept
<1>10. CASE OnActivate
  <2>1. specials' = specials /\ WireHasRoom
    BY <1>10 DEF OnActivate
  <2> QED BY <2>1, OwedTypes, CapsAssumption DEF WireHasRoom
<1>11. CASE OnDeactivate
  <2>1. specials' = specials /\ WireHasRoom
    BY <1>11 DEF OnDeactivate
  <2> QED BY <2>1, OwedTypes, CapsAssumption DEF WireHasRoom
<1>12. CASE OnShutdown
  <2>1. specials' = specials /\ WireHasRoom
    BY <1>12 DEF OnShutdown
  <2> QED BY <2>1, OwedTypes, CapsAssumption DEF WireHasRoom
<1>13. CASE Close
  <2>1. specials' = specials /\ Owed' <= Owed
    BY <1>13, PlaceFacts DEF Close, Owed, OwedAt
  <2> QED BY <2>1, OwedTypes, RoomKept
<1>14. ASSUME NEW data \in BOOLEAN, SetMotorsEnabled(data) PROVE SpecialsOK'
  <2>1. specials' = specials /\ WireHasRoom
    BY <1>14 DEF SetMotorsEnabled
  <2> QED BY <2>1, OwedTypes, CapsAssumption DEF WireHasRoom
<1>15. CASE ClearWhileClosed
  <2>1. specials' = Append(specials, "clear") /\ WireHasRoom /\ Owed' \in 0..2
    BY <1>15, OwedAtTypes, PlaceFacts DEF ClearWhileClosed, ExecutorSpins, Owed, OwedAt
  <2> QED BY <2>1, CapsAssumption DEF WireHasRoom, Special
<1>16. CASE ClearWhileOpen
  <2>1. specials' = specials /\ WireHasRoom
    BY <1>16 DEF ClearWhileOpen
  <2> QED BY <2>1, OwedTypes, CapsAssumption DEF WireHasRoom
<1>17. CASE ClearSends
  <2>1. /\ specials' \in Seq(Special) /\ Len(specials') <= Len(specials) + 1
    BY <1>17, SpecialSent DEF ClearSends, Special
  <2>2. Owed' + 1 <= Owed
    BY <1>17, PlaceFacts DEF ClearSends, Owed, OwedAt
  <2>3. Len(specials) \in Nat /\ Len(specials') \in Nat
    BY <2>1
  <2>4. Len(specials') + Owed' <= Len(specials) + Owed
    BY <2>1, <2>2, <2>3, OwedTypes, Traded
  <2> QED BY <2>1, <2>4, OwedTypes, RoomKept
<1>18. CASE ClearFlag
  <2>1. specials' = specials /\ Owed' <= Owed
    BY <1>18, PlaceFacts DEF ClearFlag, Owed, OwedAt
  <2> QED BY <2>1, OwedTypes, RoomKept
<1>19. CASE WatchdogFires
  <2>1. specials' = specials /\ Owed' <= Owed
    BY <1>19, PlaceFacts DEF WatchdogFires, ExecutorSpins, Owed, OwedAt
  <2> QED BY <2>1, OwedTypes, RoomKept
<1>20. CASE WatchdogSends
  <2>1. specials' = specials /\ Owed' <= Owed
    BY <1>20, PlaceFacts DEF WatchdogSends, Owed, OwedAt
  <2> QED BY <2>1, OwedTypes, RoomKept
<1>21. CASE DeliverCommand
  <2>1. specials' = specials /\ Owed' <= Owed
    BY <1>21, PlaceFacts DEF DeliverCommand, Owed, OwedAt
  <2> QED BY <2>1, OwedTypes, RoomKept
<1>22. CASE DeliverSpecial
  <2>1. specials' \in Seq(Special) /\ Len(specials') = Len(specials) - 1
    BY <1>22, SpecialLeaves DEF DeliverSpecial
  <2>2. Owed' = Owed
    BY <1>22 DEF DeliverSpecial, Owed
  <2>3. Len(specials) \in Nat /\ Len(specials') + Owed' <= Len(specials) + Owed
    BY <2>1, <2>2, OwedTypes
  <2> QED BY <2>1, <2>3, OwedTypes, RoomKept
<1>23. CASE UNCHANGED vars
  <2>1. specials' = specials /\ Owed' <= Owed
    BY <1>23, PlaceFacts DEF vars, Owed, OwedAt
  <2> QED BY <2>1, OwedTypes, RoomKept
<1> QED BY <1>1, <1>2, <1>3, <1>4, <1>5, <1>6, <1>7, <1>8, <1>9, <1>10, <1>11, <1>12, <1>13,
           <1>14, <1>15, <1>16, <1>17, <1>18, <1>19, <1>20, <1>21, <1>22, <1>23
         DEF Next, Write, Power, Lifecycle, Executor, Wire, Finished

\* The motor hears what was sent.
LEMMA HeardStep == CommandsOK /\ SpecialsOK /\ HeardOK /\ [Next]_vars => HeardOK'
<1> SUFFICES ASSUME CommandsOK, SpecialsOK, HeardOK, [Next]_vars PROVE HeardOK'
  OBVIOUS
<1> USE DEF HeardOK
<1>1. DeliverCommand \/ DeliverSpecial \/ UNCHANGED <<heard, motorOn>>
  BY DEF Next, Write, Power, Lifecycle, Executor, Wire, Finished, vars,
         WriteBegins, WriteLocks, WriteSends, LoopStalls, EnableFrames, EnableFlag,
         DisableBurst1,
         SettleDelay, DisableBurst2, OnActivate, OnDeactivate, OnShutdown, Close,
         SetMotorsEnabled,
         ClearWhileClosed, ClearWhileOpen, ClearSends, ClearFlag, WatchdogFires, WatchdogSends,
         DeliverCommand, DeliverSpecial
<1>2. CASE DeliverCommand
  BY <1>2, CommandLeaves DEF DeliverCommand, CommandsOK, Command, Frames
<1>3. CASE DeliverSpecial
  <2>1. Head(specials) \in Special
    BY <1>3, SpecialLeaves DEF DeliverSpecial, SpecialsOK
  <2>2. heard' \in Frames
    BY <1>3, <2>1 DEF DeliverSpecial, Special, Frames
  <2>3. motorOn' \in BOOLEAN
    BY <1>3, Zenon DEF DeliverSpecial
  <2> QED BY <2>2, <2>3
<1>4. CASE UNCHANGED <<heard, motorOn>>
  BY <1>4
<1> QED BY <1>1, <1>2, <1>3, <1>4

\* What no enable overlapped is down, and stays down once it is settled.
LEMMA OverlapStep == ControlOK /\ Places /\ Overlaps /\ [Next]_vars => Overlaps'
<1> SUFFICES ASSUME ControlOK /\ Places /\ Overlaps, [Next]_vars PROVE Overlaps'
  OBVIOUS
<1> USE DEF ControlOK, Places, Overlaps, Apart, FlagDown, SettledIsDown, Goto, Threads,
            Requesters, Enabling, Disabling, Clearing
<1>1. CASE WriteBegins
  BY <1>1 DEF WriteBegins
<1>2. CASE WriteLocks
  BY <1>2 DEF WriteLocks, MayWrite
<1>3. CASE WriteSends
  BY <1>3 DEF WriteSends, SendCommand
<1>4. CASE LoopStalls
  BY <1>4 DEF LoopStalls
<1>5. ASSUME NEW t \in Requesters, EnableFrames(t) PROVE Overlaps'
  BY <1>5 DEF EnableFrames, SendSpecial
<1>6. ASSUME NEW t \in Requesters, EnableFlag(t) PROVE Overlaps'
  BY <1>6 DEF EnableFlag
<1>7. ASSUME NEW t \in Requesters, DisableBurst1(t) PROVE Overlaps'
  BY <1>7 DEF DisableBurst1, SendSpecial
<1>8. ASSUME NEW t \in Requesters, SettleDelay(t) PROVE Overlaps'
  BY <1>8 DEF SettleDelay, Drained
<1>9. ASSUME NEW t \in Requesters, DisableBurst2(t) PROVE Overlaps'
  BY <1>9 DEF DisableBurst2, SendSpecial
<1>10. CASE OnActivate
  BY <1>10 DEF OnActivate, BeginEnable
<1>11. CASE OnDeactivate
  BY <1>11 DEF OnDeactivate, BeginDisable
<1>12. CASE OnShutdown
  <2>1. CASE enabled
    BY <1>12, <2>1 DEF OnShutdown, BeginDisable
  <2>2. CASE ~enabled
    BY <1>12, <2>2 DEF OnShutdown
  <2> QED BY <2>1, <2>2
<1>13. CASE Close
  BY <1>13 DEF Close
<1>14. ASSUME NEW data \in BOOLEAN, SetMotorsEnabled(data) PROVE Overlaps'
  <2>1. CASE data
    BY <1>14, <2>1 DEF SetMotorsEnabled, BeginEnable, ExecutorSpins
  <2>2. CASE ~data
    BY <1>14, <2>2 DEF SetMotorsEnabled, BeginDisable, ExecutorSpins
  <2> QED BY <2>1, <2>2
<1>15. CASE ClearWhileClosed
  BY <1>15 DEF ClearWhileClosed, ExecutorSpins
<1>16. CASE ClearWhileOpen
  BY <1>16 DEF ClearWhileOpen, ExecutorSpins
<1>17. CASE ClearSends
  BY <1>17 DEF ClearSends, SendSpecial
<1>18. CASE ClearFlag
  BY <1>18 DEF ClearFlag
<1>19. CASE WatchdogFires
  BY <1>19 DEF WatchdogFires, ExecutorSpins
<1>20. CASE WatchdogSends
  BY <1>20 DEF WatchdogSends, SendCommand
<1>21. CASE DeliverCommand
  BY <1>21 DEF DeliverCommand
<1>22. CASE DeliverSpecial
  BY <1>22 DEF DeliverSpecial
<1>23. CASE UNCHANGED vars
  BY <1>23 DEF vars
<1> QED BY <1>1, <1>2, <1>3, <1>4, <1>5, <1>6, <1>7, <1>8, <1>9, <1>10, <1>11, <1>12, <1>13,
           <1>14, <1>15, <1>16, <1>17, <1>18, <1>19, <1>20, <1>21, <1>22, <1>23
         DEF Next, Write, Power, Lifecycle, Executor, Wire, Finished

\* From its first burst on, a disable that nothing overlaps waits for every write.
LEMMA DrainStep == ControlOK /\ Places /\ CommandsOK /\ Overlaps /\ WritesDrain
      /\ [Next]_vars => WritesDrain'
<1> SUFFICES ASSUME ControlOK /\ Places /\ CommandsOK /\ Overlaps /\ WritesDrain,
             [Next]_vars PROVE WritesDrain'
  OBVIOUS
<1> USE DEF ControlOK, Places, Overlaps, Apart, FlagDown, WritesDrain, Drains, WritesUpTo,
            Window, CommandsOK, Goto, Threads, Requesters, Enabling, Disabling, Clearing
<1>1. CASE WriteBegins
  BY <1>1 DEF WriteBegins
<1>2. CASE WriteLocks
  BY <1>2 DEF WriteLocks, MayWrite
<1>3. CASE WriteSends
  BY <1>3 DEF WriteSends, SendCommand
<1>4. CASE LoopStalls
  BY <1>4 DEF LoopStalls
<1>5. ASSUME NEW t \in Requesters, EnableFrames(t) PROVE WritesDrain'
  BY <1>5 DEF EnableFrames, SendSpecial
<1>6. ASSUME NEW t \in Requesters, EnableFlag(t) PROVE WritesDrain'
  BY <1>6 DEF EnableFlag
<1>7. ASSUME NEW t \in Requesters, DisableBurst1(t) PROVE WritesDrain'
  BY <1>7 DEF DisableBurst1, SendSpecial
<1>8. ASSUME NEW t \in Requesters, SettleDelay(t) PROVE WritesDrain'
  BY <1>8 DEF SettleDelay, Drained
<1>9. ASSUME NEW t \in Requesters, DisableBurst2(t) PROVE WritesDrain'
  BY <1>9 DEF DisableBurst2, SendSpecial
<1>10. CASE OnActivate
  BY <1>10 DEF OnActivate, BeginEnable
<1>11. CASE OnDeactivate
  BY <1>11 DEF OnDeactivate, BeginDisable
<1>12. CASE OnShutdown
  <2>1. CASE enabled
    BY <1>12, <2>1 DEF OnShutdown, BeginDisable
  <2>2. CASE ~enabled
    BY <1>12, <2>2 DEF OnShutdown
  <2> QED BY <2>1, <2>2
<1>13. CASE Close
  BY <1>13 DEF Close
<1>14. ASSUME NEW data \in BOOLEAN, SetMotorsEnabled(data) PROVE WritesDrain'
  <2>1. CASE data
    BY <1>14, <2>1 DEF SetMotorsEnabled, BeginEnable, ExecutorSpins
  <2>2. CASE ~data
    <3>1. UNCHANGED <<commands, draining, isOpen>> /\ pc' = [pc EXCEPT !["exec"] = "burst1"]
      BY <1>14, <2>2 DEF SetMotorsEnabled, BeginDisable
    <3>2. ~raced' /\ pc["life"] \in Window => ~raced
      BY <1>14, <2>2 DEF SetMotorsEnabled, BeginDisable
    <3> QED BY <3>1, <3>2
  <2> QED BY <2>1, <2>2
<1>15. CASE ClearWhileClosed
  BY <1>15 DEF ClearWhileClosed, ExecutorSpins
<1>16. CASE ClearWhileOpen
  BY <1>16 DEF ClearWhileOpen, ExecutorSpins
<1>17. CASE ClearSends
  BY <1>17 DEF ClearSends, SendSpecial
<1>18. CASE ClearFlag
  BY <1>18 DEF ClearFlag
<1>19. CASE WatchdogFires
  BY <1>19 DEF WatchdogFires, ExecutorSpins
<1>20. CASE WatchdogSends
  BY <1>20 DEF WatchdogSends, SendCommand
<1>21. CASE DeliverCommand
  BY <1>21 DEF DeliverCommand
<1>22. CASE DeliverSpecial
  BY <1>22 DEF DeliverSpecial
<1>23. CASE UNCHANGED vars
  BY <1>23 DEF vars
<1> QED BY <1>1, <1>2, <1>3, <1>4, <1>5, <1>6, <1>7, <1>8, <1>9, <1>10, <1>11, <1>12, <1>13,
           <1>14, <1>15, <1>16, <1>17, <1>18, <1>19, <1>20, <1>21, <1>22, <1>23
         DEF Next, Write, Power, Lifecycle, Executor, Wire, Finished

\* When the disable is through, no write is.
LEMMA QuietStep == ControlOK /\ Places /\ CommandsOK /\ SpecialsOK /\ Overlaps
      /\ WritesDrain /\ Quiet /\ [Next]_vars => Quiet'
<1> SUFFICES ASSUME ControlOK /\ Places /\ CommandsOK /\ SpecialsOK /\ Overlaps
             /\ WritesDrain /\ Quiet, [Next]_vars PROVE Quiet'
  OBVIOUS
<1> USE DEF ControlOK, Places, CommandsOK, SpecialsOK, Overlaps, Apart, FlagDown,
            SettledIsDown, WritesDrain, Drains, WritesUpTo, Window, Quiet, Trusted, Goto,
            Threads, Requesters, Enabling, Disabling, Clearing
<1>1. CASE WriteBegins
  BY <1>1 DEF WriteBegins
<1>2. CASE WriteLocks
  BY <1>2 DEF WriteLocks, MayWrite
<1>3. CASE WriteSends
  BY <1>3 DEF WriteSends, SendCommand
<1>4. CASE LoopStalls
  BY <1>4 DEF LoopStalls
<1>5. ASSUME NEW t \in Requesters, EnableFrames(t) PROVE Quiet'
  BY <1>5 DEF EnableFrames, SendSpecial
<1>6. ASSUME NEW t \in Requesters, EnableFlag(t) PROVE Quiet'
  BY <1>6 DEF EnableFlag
<1>7. ASSUME NEW t \in Requesters, DisableBurst1(t) PROVE Quiet'
  <2>1. specials' = <<>> => specials = <<>>
    BY <1>7, SpecialSent DEF DisableBurst1, Special
  <2>2. UNCHANGED <<settled, raced, isOpen, commands, heard>>
    BY <1>7 DEF DisableBurst1
  <2>3. pc["life"] = "close" => pc'["life"] = "close"
    BY <1>7 DEF DisableBurst1
  <2> QED BY <2>1, <2>2, <2>3
<1>8. ASSUME NEW t \in Requesters, SettleDelay(t) PROVE Quiet'
  BY <1>8 DEF SettleDelay, Drained
<1>9. ASSUME NEW t \in Requesters, DisableBurst2(t) PROVE Quiet'
  <2>1. /\ specials' = <<>> => specials = <<>>
        /\ isOpen => specials' # <<>>
    BY <1>9, SpecialSent DEF DisableBurst2, Special
  <2>2. UNCHANGED <<raced, isOpen, commands, heard>>
    BY <1>9 DEF DisableBurst2
  <2>3. CASE settled
    <3>1. Trusted' => Trusted
      BY <1>9, <2>2, <2>3 DEF DisableBurst2
    <3> QED BY <2>1, <2>2, <2>3, <3>1
  <2>4. CASE ~settled /\ settled'
    <3>1. /\ isOpen /\ ~enabled
          /\ \A u \in Requesters \ {t} : pc[u] \notin Enabling \cup Disabling
      BY <1>9, <2>4 DEF DisableBurst2
    <3>2. CASE t = "life"
      BY <1>9, <2>1, <2>2, <2>4, <3>1, <3>2 DEF DisableBurst2
    <3>3. CASE t = "exec"
      BY <1>9, <2>1, <2>2, <2>4, <3>1, <3>3 DEF DisableBurst2
    <3> QED BY <3>2, <3>3
  <2> QED BY <2>3, <2>4
<1>10. CASE OnActivate
  BY <1>10 DEF OnActivate, BeginEnable
<1>11. CASE OnDeactivate
  BY <1>11 DEF OnDeactivate, BeginDisable
<1>12. CASE OnShutdown
  BY <1>12 DEF OnShutdown, BeginDisable
<1>13. CASE Close
  BY <1>13 DEF Close
<1>14. ASSUME NEW data \in BOOLEAN, SetMotorsEnabled(data) PROVE Quiet'
  BY <1>14 DEF SetMotorsEnabled, BeginEnable, BeginDisable, ExecutorSpins
<1>15. CASE ClearWhileClosed
  <2>1. specials' # <<>> /\ UNCHANGED <<settled, isOpen, pc, commands>>
    BY <1>15, AppendProperties DEF ClearWhileClosed, Special
  <2>2. ~raced' => ~raced
    BY <1>15 DEF ClearWhileClosed
  <2> QED BY <2>1, <2>2
<1>16. CASE ClearWhileOpen
  BY <1>16 DEF ClearWhileOpen, ExecutorSpins
<1>17. CASE ClearSends
  BY <1>17 DEF ClearSends, SendSpecial
<1>18. CASE ClearFlag
  BY <1>18 DEF ClearFlag
<1>19. CASE WatchdogFires
  BY <1>19 DEF WatchdogFires, ExecutorSpins
<1>20. CASE WatchdogSends
  BY <1>20 DEF WatchdogSends, SendCommand
<1>21. CASE DeliverCommand
  BY <1>21 DEF DeliverCommand
<1>22. CASE DeliverSpecial
  <2>1. Head(specials) # "write"
    BY <1>22, SpecialLeaves DEF DeliverSpecial, Special
  <2>2. UNCHANGED <<settled, raced, isOpen, pc, commands>> /\ heard' = Head(specials)
    BY <1>22 DEF DeliverSpecial
  <2> QED BY <2>1, <2>2
<1>23. CASE UNCHANGED vars
  BY <1>23 DEF vars
<1> QED BY <1>1, <1>2, <1>3, <1>4, <1>5, <1>6, <1>7, <1>8, <1>9, <1>10, <1>11, <1>12, <1>13,
           <1>14, <1>15, <1>16, <1>17, <1>18, <1>19, <1>20, <1>21, <1>22, <1>23
         DEF Next, Write, Power, Lifecycle, Executor, Wire, Finished

\* A motor that ends on is one the flag says is on.
LEMMA OnStep == ControlOK /\ Places /\ SpecialsOK /\ Apart /\ OnIsMeant /\ [Next]_vars
      => OnIsMeant'
<1> SUFFICES ASSUME ControlOK /\ Places /\ SpecialsOK /\ Apart /\ OnIsMeant, [Next]_vars
             PROVE OnIsMeant'
  OBVIOUS
<1> USE DEF ControlOK, Places, SpecialsOK, Apart, OnIsMeant, EndsOn, Window, Goto, Threads,
            Requesters, Enabling, Disabling, Clearing
<1>1. CASE WriteBegins
  BY <1>1 DEF WriteBegins
<1>2. CASE WriteLocks
  BY <1>2 DEF WriteLocks, MayWrite
<1>3. CASE WriteSends
  BY <1>3 DEF WriteSends, SendCommand
<1>4. CASE LoopStalls
  BY <1>4 DEF LoopStalls
<1>5. ASSUME NEW t \in Requesters, EnableFrames(t) PROVE OnIsMeant'
  BY <1>5 DEF EnableFrames, SendSpecial
<1>6. ASSUME NEW t \in Requesters, EnableFlag(t) PROVE OnIsMeant'
  BY <1>6 DEF EnableFlag
<1>7. ASSUME NEW t \in Requesters, DisableBurst1(t) PROVE OnIsMeant'
  BY <1>7 DEF DisableBurst1, SendSpecial
<1>8. ASSUME NEW t \in Requesters, SettleDelay(t) PROVE OnIsMeant'
  BY <1>8 DEF SettleDelay, Drained
<1>9. ASSUME NEW t \in Requesters, DisableBurst2(t) PROVE OnIsMeant'
  BY <1>9 DEF DisableBurst2, SendSpecial
<1>10. CASE OnActivate
  BY <1>10 DEF OnActivate, BeginEnable
<1>11. CASE OnDeactivate
  BY <1>11 DEF OnDeactivate, BeginDisable
<1>12. CASE OnShutdown
  BY <1>12 DEF OnShutdown, BeginDisable
<1>13. CASE Close
  BY <1>13 DEF Close
<1>14. ASSUME NEW data \in BOOLEAN, SetMotorsEnabled(data) PROVE OnIsMeant'
  BY <1>14 DEF SetMotorsEnabled, BeginEnable, BeginDisable, ExecutorSpins
<1>15. CASE ClearWhileClosed
  BY <1>15 DEF ClearWhileClosed, ExecutorSpins
<1>16. CASE ClearWhileOpen
  BY <1>16 DEF ClearWhileOpen, ExecutorSpins
<1>17. CASE ClearSends
  BY <1>17 DEF ClearSends, SendSpecial
<1>18. CASE ClearFlag
  BY <1>18 DEF ClearFlag
<1>19. CASE WatchdogFires
  BY <1>19 DEF WatchdogFires, ExecutorSpins
<1>20. CASE WatchdogSends
  BY <1>20 DEF WatchdogSends, SendCommand
<1>21. CASE DeliverCommand
  BY <1>21 DEF DeliverCommand
<1>22. CASE DeliverSpecial
  <2>1. EndsOn' <=> EndsOn
    <3>1. /\ motorOn' = (Head(specials) = "enable")
          /\ specials' = <<>> => Head(specials) = specials[Len(specials)]
          /\ specials' # <<>> => specials'[Len(specials')] = specials[Len(specials)]
          /\ specials # <<>>
      BY <1>22, SpecialLeaves DEF DeliverSpecial
    <3> QED BY <3>1, Zenon DEF EndsOn
  <2>2. UNCHANGED <<raced, isOpen, enabled, pc, finalized>>
    BY <1>22 DEF DeliverSpecial
  <2> HIDE DEF EndsOn
  <2> QED BY <2>1, <2>2
<1>23. CASE UNCHANGED vars
  BY <1>23 DEF vars
<1> QED BY <1>1, <1>2, <1>3, <1>4, <1>5, <1>6, <1>7, <1>8, <1>9, <1>10, <1>11, <1>12, <1>13,
           <1>14, <1>15, <1>16, <1>17, <1>18, <1>19, <1>20, <1>21, <1>22, <1>23
         DEF Next, Write, Power, Lifecycle, Executor, Wire, Finished

-------------------------------------------------------------------------------
(* The invariant and what follows from it *)

\* At rest and closed.
LEMMA TxInvInit == Init => TxInv
<1> SUFFICES ASSUME Init PROVE TxInv
  OBVIOUS
<1> USE DEF Init, Threads, Requesters, Enabling, Disabling, Clearing
<1>1. ControlOK /\ Places
  BY DEF ControlOK, Places, Steps
<1>2. CommandsOK
  BY CapsAssumption, EmptySeq DEF CommandsOK
<1>3. SpecialsOK
  <2>1. Owed = 0
    BY DEF Owed, OwedAt
  <2> QED BY <2>1, CapsAssumption, EmptySeq DEF SpecialsOK
<1>4. HeardOK
  BY DEF HeardOK, Frames
<1>5. Overlaps /\ WritesDrain /\ Quiet /\ OnIsMeant
  BY DEF Overlaps, Apart, FlagDown, SettledIsDown, WritesDrain, Drains, Window, Quiet, Trusted,
         OnIsMeant, EndsOn
<1> QED BY <1>1, <1>2, <1>3, <1>4, <1>5 DEF TxInv

\* Every step of every thread and of the wire keeps it.
LEMMA TxInvStep == TxInv /\ [Next]_vars => TxInv'
<1> SUFFICES ASSUME TxInv, [Next]_vars PROVE TxInv'
  OBVIOUS
<1>1. /\ ControlOK /\ Places /\ CommandsOK /\ SpecialsOK /\ HeardOK
      /\ Overlaps /\ WritesDrain /\ Quiet /\ OnIsMeant
  BY DEF TxInv
<1>2. (ControlOK /\ Places)'
  BY <1>1, ControlStep
<1>3. CommandsOK' /\ SpecialsOK' /\ HeardOK'
  BY <1>1, CommandsStep, SpecialsStep, HeardStep
<1>4. Overlaps'
  BY <1>1, OverlapStep
<1>5. WritesDrain' /\ Quiet'
  BY <1>1, DrainStep, QuietStep
<1>6. OnIsMeant'
  BY <1>1, OnStep DEF Overlaps
<1> QED BY <1>2, <1>3, <1>4, <1>5, <1>6 DEF TxInv

\* The transmit side is well typed for every capacity: the mutex is the loop's exactly
\* while it writes, and the special frames of the requests under way are bounded.
THEOREM TxTypeCorrect == Spec => []TypeOK
<1>1. TxInv => TypeOK
  <2> SUFFICES ASSUME TxInv PROVE TypeOK
    OBVIOUS
  <2>1. Len(specials) \in Nat /\ Len(specials) <= SpecialCap + 3
    BY OwedTypes, CapsAssumption DEF TxInv, SpecialsOK
  <2> QED BY <2>1 DEF TxInv, ControlOK, CommandsOK, SpecialsOK, HeardOK, TypeOK, Command,
        Special
<1> QED BY <1>1, TxInvInit, TxInvStep, PTL DEF Spec

\* "No command frame reaches a motor after its disable frame" (tx_sequence_mutex_), for
\* the frames of write() and every capacity of the queues: after a disable that no enable
\* overlapped none is queued, and none is the last thing the motor heard.
THEOREM NoWriteAfterDisable == Spec => []NoLateWrite
<1>1. TxInv => NoLateWrite
  <2> SUFFICES ASSUME TxInv, settled, ~raced
               PROVE  ~Queued("write") /\ (specials = <<>> => heard # "write")
    BY DEF NoLateWrite
  <2>1. WritesUpTo(0) /\ (specials = <<>> => heard # "write")
    BY DEF TxInv, Quiet, Trusted
  <2>2. ~Queued("write")
    BY <2>1 DEF Queued, WritesUpTo
  <2> QED BY <2>1, <2>2
<1> QED BY <1>1, TxInvInit, TxInvStep, PTL DEF Spec

\* A motor is not left on behind a flag that says off (motors_enabled_), for every
\* capacity of the queues: when the threads rest, the special frames have arrived and no
\* enable overlapped a disable or a clear, a motor the flag calls disabled is.
THEOREM NoMotorStaysOn == Spec => []NoMotorLeftOn
<1>1. TxInv => NoMotorLeftOn
  <2> SUFFICES ASSUME TxInv, AllIdle, specials = <<>>, ~raced, ~enabled PROVE ~motorOn
    BY DEF NoMotorLeftOn
  <2>1. \A t \in Requesters : pc[t] \notin {"enable_flag", "burst1"}
    BY DEF AllIdle, Threads
  <2> QED BY <2>1 DEF TxInv, OnIsMeant, EndsOn
<1> QED BY <1>1, TxInvInit, TxInvStep, PTL DEF Spec

===============================================================================
