--------------------------- MODULE PeripheralsProofs ---------------------------
(***************************************************************************)
(* Proofs about the nodes of the science and utility boards: the lights,   *)
(* the power monitor, the container's lid and its scale.  Three of them    *)
(* speak to a board over a bus that may lose, delay and keep frames in     *)
(* order, and all three proofs rest on the same argument: what is under    *)
(* way before a request's own frame is of an earlier one, and what is      *)
(* heard after the last of it is the request's own.                        *)
(***************************************************************************)
EXTENDS Lights, PowerMonitor, Container, Scale, SequenceTheorems, TLAPS

-------------------------------------------------------------------------------
(* Queues whose frames are all of a kind *)

LEMMA KindKept ==
    ASSUME NEW S, NEW q \in Seq(S)
    PROVE  /\ Len(q) \in Nat
           /\ q = <<>> <=> Len(q) = 0
           /\ \A x \in S : Append(q, x) \in Seq(S) /\ Len(Append(q, x)) = Len(q) + 1
           /\ q # <<>> => Head(q) \in S /\ Tail(q) \in Seq(S) /\ Len(Tail(q)) = Len(q) - 1
<1>1. Len(q) \in Nat /\ (q = <<>> <=> Len(q) = 0)
  BY EmptySeq, LenProperties
<1>2. \A x \in S : Append(q, x) \in Seq(S) /\ Len(Append(q, x)) = Len(q) + 1
  BY AppendProperties
<1>3. q # <<>> => Head(q) \in S /\ Tail(q) \in Seq(S) /\ Len(Tail(q)) = Len(q) - 1
  BY HeadTailProperties
<1> QED  BY <1>1, <1>2, <1>3

LEMMA KindWidens == ASSUME NEW S, NEW T, NEW q \in Seq(S), \A x \in S : x \in T PROVE q \in Seq(T)
<1>1. S \subseteq T
  OBVIOUS
<1> QED  BY <1>1, SeqMonotonic

LEMMA NothingIsAnyKind == \A S : <<>> \in Seq(S)
  OBVIOUS

\* Frames that are changed one by one.
LEMMA KindMapped ==
    ASSUME NEW S, NEW T, NEW q \in Seq(S), NEW m, m = [i \in DOMAIN q |-> m[i]],
           \A i \in DOMAIN q : q[i] \in S => m[i] \in T
    PROVE  m \in Seq(T) /\ Len(m) = Len(q)
<1>1. /\ Len(q) \in Nat /\ q \in [1..Len(q) -> S] /\ DOMAIN q = 1..Len(q)
  BY LenProperties
<1>2. \A i \in 1..Len(q) : m[i] \in T
  BY <1>1
<1>3. m \in [1..Len(q) -> T] /\ DOMAIN m = 1..Len(q)
  <2>1. m = [i \in 1..Len(q) |-> m[i]]
    BY <1>1
  <2> QED  BY <1>2, <2>1
<1>4. m \in Seq(T)
  BY <1>1, <1>3, SeqDef
<1>5. Len(m) = Len(q)
  BY <1>1, <1>3, <1>4, LenProperties
<1> QED  BY <1>4, <1>5

\* A queue of one kind, then one frame of another.
LEMMA HeadOfTwoKinds ==
    ASSUME NEW S, NEW q \in Seq(S), NEW x
    PROVE  /\ q = <<>> => Head(Append(q, x)) = x /\ Tail(Append(q, x)) = <<>>
           /\ q # <<>> => Head(Append(q, x)) = Head(q) /\ Tail(Append(q, x)) = Append(Tail(q), x)
  BY HeadTailAppend

LEMMA BothKinds == ASSUME NEW S, NEW T, NEW q, q \in Seq(S), q \in Seq(T) PROVE q \in Seq(S \cap T)
<1>1. Len(q) \in Nat /\ q \in [1..Len(q) -> S] /\ q \in [1..Len(q) -> T]
  BY LenProperties
<1>2. q \in [1..Len(q) -> S \cap T]
  BY <1>1
<1> QED  BY <1>1, <1>2, SeqDef

\* Every element of a queue of one kind has what the kind has.
LEMMA KindOfEach ==
    ASSUME NEW S, NEW q \in Seq(S) PROVE \A x \in ToSet(q) : x \in S
  BY LenProperties DEF ToSet

LEMMA SomeInQueue ==
    ASSUME NEW S, NEW q \in Seq(S), q # <<>> PROVE ToSet(q) # {} /\ Head(q) \in ToSet(q)
<1>1. Len(q) \in Nat \ {0} /\ DOMAIN q = 1..Len(q) /\ Head(q) = q[1]
  BY EmptySeq, LenProperties
<1> QED  BY <1>1 DEF ToSet

LEMMA OldLeads ==
    ASSUME NEW S, NEW old \in Seq(S), old # <<>>, NEW x, NEW q, q = old \/ q = Append(old, x)
    PROVE  1 \in DOMAIN q /\ q[1] \in S
<1>1. old \in Seq(S \cup {x}) /\ x \in S \cup {x}
  BY KindWidens
<1>2. Len(old) \in Nat \ {0} /\ old[1] \in S /\ DOMAIN old = 1..Len(old)
  BY EmptySeq, LenProperties
<1>3. CASE q = old
  BY <1>2, <1>3
<1>4. CASE q = Append(old, x)
  <2>1. /\ q \in Seq(S \cup {x}) /\ Len(q) = Len(old) + 1 /\ q[1] = old[1]
    BY <1>1, <1>2, <1>4, AppendProperties
  <2>2. DOMAIN q = 1..Len(q)
    BY <2>1, LenProperties
  <2> QED  BY <1>2, <2>1, <2>2
<1> QED  BY <1>3, <1>4

-------------------------------------------------------------------------------
(***************************************************************************)
(* The scale.  While a request that began with nothing under way is the    *)
(* last one, everything under way is of its own measurement.               *)
(***************************************************************************)

WeighingFrames(kinds) == [id : Ids, of : kinds]

WeighedFromClear ==
    clear => /\ frames \in Seq(WeighingFrames({"own"}))
             /\ \A id \in Ids : values[id] # "earlier" /\ weights[id] # "earlier"

ScaleInv == ScaleTypeOK /\ frames \in Seq(WeighingFrames({"own", "earlier"})) /\ WeighedFromClear

LEMMA WeighingsTyped ==
    ASSUME NEW ids \in Weighings
    PROVE  /\ [i \in DOMAIN ids |-> [id |-> ids[i], of |-> "own"]] \in Seq(WeighingFrames({"own"}))
           /\ Len([i \in DOMAIN ids |-> [id |-> ids[i], of |-> "own"]]) <= 2
<1> DEFINE m == [i \in DOMAIN ids |-> [id |-> ids[i], of |-> "own"]]
<1>1. \E n \in 0..2 : ids \in [1..n -> Ids]
  <2>1. CASE ids = <<>>
    <3>1. ids \in [1..0 -> Ids]
      BY <2>1
    <3> QED  BY <3>1
  <2>2. ASSUME NEW id \in Ids, ids = <<id>> PROVE ids \in [1..1 -> Ids]
    BY <2>2
  <2>3. CASE ids \in Ids \X Ids
    <3>1. ids \in [1..2 -> Ids]
      BY <2>3
    <3> QED  BY <3>1
  <2> QED  BY <2>1, <2>2, <2>3 DEF Weighings
<1>2. PICK n \in 0..2 : ids \in [1..n -> Ids]
  BY <1>1
<1>3. m \in [1..n -> WeighingFrames({"own"})]
  BY <1>2 DEF WeighingFrames
<1>4. m \in Seq(WeighingFrames({"own"}))
  <2> HIDE DEF m
  <2> QED  BY <1>2, <1>3, IsASeq
<1>5. Len(m) = n
  <2>1. DOMAIN m = 1..n
    BY <1>2
  <2> HIDE DEF m
  <2> QED  BY <1>2, <1>4, <2>1, LenProperties
<1> QED  BY <1>2, <1>4, <1>5

LEMMA ScaleInvInit == ScaleInit => ScaleInv
<1> SUFFICES ASSUME ScaleInit PROVE ScaleInv
  OBVIOUS
<1>1. /\ pending = FALSE /\ ordered = FALSE /\ clear = TRUE /\ frames = <<>>
      /\ values = NoValues /\ weights = NoValues
  BY DEF ScaleInit
<1>2. \A S : frames \in Seq(S)
  BY <1>1
<1>3. Len(frames) <= ScaleFrames
  BY <1>1, ScaleAssumption
<1>4. NoValues \in [Ids -> {Nothing, "own", "earlier"}]
  BY DEF NoValues
<1>5. \A id \in Ids : NoValues[id] # "earlier"
  BY ScaleAssumption DEF NoValues
<1> QED  BY <1>1, <1>2, <1>3, <1>4, <1>5 DEF ScaleInv, ScaleTypeOK, WeighedFromClear

LEMMA ScaleInvStep == ScaleInv /\ [ScaleNext]_scaleVars => ScaleInv'
<1> SUFFICES ASSUME ScaleInv, [ScaleNext]_scaleVars PROVE ScaleInv'
  OBVIOUS
<1> DEFINE AnyFrames == WeighingFrames({"own", "earlier"})
           OwnFrames == WeighingFrames({"own"})
<1>1. /\ ScaleTypeOK /\ frames \in Seq(AnyFrames) /\ WeighedFromClear /\ Len(frames) <= ScaleFrames
      /\ Len(frames) \in Nat
  BY DEF ScaleInv, ScaleTypeOK
<1>2. CASE OnWeightRequest
  <2>1. frames' \in Seq(AnyFrames) /\ Len(frames') = Len(frames)
    <3>1. frames \in [1..Len(frames) -> AnyFrames] /\ DOMAIN frames = 1..Len(frames)
      BY <1>1
    <3>2. frames' = [i \in 1..Len(frames) |-> [frames[i] EXCEPT !.of = "earlier"]]
      BY <1>2, <3>1 DEF OnWeightRequest, Older
    <3>3. \A i \in 1..Len(frames) : [frames[i] EXCEPT !.of = "earlier"] \in AnyFrames
      BY <3>1 DEF WeighingFrames
    <3>4. frames' \in [1..Len(frames) -> AnyFrames]
      BY <3>2, <3>3
    <3> QED  BY <1>1, <3>4, IsASeq
  <2>2. clear' => frames' \in Seq(OwnFrames)
    <3>0. clear' <=> frames = <<>>
      BY <1>2, Zenon DEF OnWeightRequest
    <3>1. clear' => Len(frames) = 0
      BY <3>0
    <3>2. frames' = <<>> => frames' \in Seq(OwnFrames)
      OBVIOUS
    <3>3. Len(frames') = 0 => frames' = <<>>
      BY <2>1, EmptySeq
    <3> QED  BY <2>1, <3>1, <3>2, <3>3
  <2>3. values' = NoValues /\ weights' = NoValues /\ pending' \in BOOLEAN /\ ordered' \in BOOLEAN /\ clear' \in BOOLEAN
    BY <1>2 DEF OnWeightRequest, Fresh
  <2>4. WeighedFromClear'
    BY <2>2, <2>3, ScaleAssumption DEF WeighedFromClear, NoValues
  <2>5. ScaleTypeOK'
    BY <1>1, <2>1, <2>3 DEF ScaleTypeOK, NoValues
  <2> QED  BY <2>1, <2>4, <2>5 DEF ScaleInv
<1>3. CASE BoardWeighs
  <2>1. PICK ids \in Weighings : frames' = frames \o [i \in DOMAIN ids |-> [id |-> ids[i], of |-> "own"]]
    BY <1>3 DEF BoardWeighs
  <2> DEFINE m == [i \in DOMAIN ids |-> [id |-> ids[i], of |-> "own"]]
  <2>2. m \in Seq(OwnFrames) /\ Len(m) <= 2
    BY WeighingsTyped
  <2>3. frames' = frames \o m
    BY <2>1
  <2>4. OwnFrames \subseteq AnyFrames
    BY DEF WeighingFrames
  <2>5. /\ UNCHANGED <<pending, values, clear, weights>> /\ ordered' = FALSE
        /\ Len(frames) + 2 <= ScaleFrames
    BY <1>3 DEF BoardWeighs
  <2> HIDE DEF m, AnyFrames, OwnFrames
  <2>6. m \in Seq(AnyFrames)
    BY <2>2, <2>4, SeqMonotonic
  <2>7. frames' \in Seq(AnyFrames) /\ Len(frames') = Len(frames) + Len(m)
    BY <1>1, <2>3, <2>6, ConcatProperties
  <2>8. Len(frames') <= ScaleFrames
    <3>1. Len(m) \in Nat
      BY <2>2
    <3> QED  BY <1>1, <2>2, <2>5, <2>7, <3>1, ScaleAssumption
  <2>9. frames \in Seq(OwnFrames) => frames' \in Seq(OwnFrames)
    BY <2>2, <2>3, ConcatProperties
  <2>10. WeighedFromClear'
    BY <1>1, <2>5, <2>9 DEF WeighedFromClear, OwnFrames
  <2>11. ScaleTypeOK'
    BY <1>1, <2>5, <2>8 DEF ScaleTypeOK
  <2> QED  BY <2>7, <2>10, <2>11 DEF ScaleInv, AnyFrames
<1>4. CASE OnWeight
  <2>1. frames # <<>> /\ frames' = Tail(frames) /\ UNCHANGED <<pending, ordered, clear, weights>>
    BY <1>4 DEF OnWeight
  <2>2. frames' \in Seq(AnyFrames) /\ Head(frames) \in AnyFrames /\ Len(frames') = Len(frames) - 1
    BY <1>1, <2>1, HeadTailProperties
  <2>3. frames \in Seq(OwnFrames) => frames' \in Seq(OwnFrames) /\ Head(frames) \in OwnFrames
    BY <2>1, HeadTailProperties
  <2>4. values' = IF pending THEN [values EXCEPT ![Head(frames).id] = Head(frames).of] ELSE values
    BY <1>4 DEF OnWeight
  <2>5. values \in [Ids -> {Nothing, "own", "earlier"}]
    BY <1>1 DEF ScaleTypeOK
  <2>6. values' \in [Ids -> {Nothing, "own", "earlier"}]
    BY <2>2, <2>4, <2>5 DEF WeighingFrames
  <2>7. Head(frames) \in OwnFrames => \A id \in Ids : values'[id] \in {values[id], "own"}
    BY <2>4, <2>5 DEF WeighingFrames
  <2>8. WeighedFromClear'
    BY <1>1, <2>1, <2>3, <2>7 DEF WeighedFromClear
  <2>9. Len(frames') <= ScaleFrames
    BY <1>1, <2>2, ScaleAssumption
  <2>10. ScaleTypeOK'
    BY <1>1, <2>1, <2>6, <2>9 DEF ScaleTypeOK
  <2> QED  BY <2>2, <2>8, <2>10 DEF ScaleInv
<1>5. CASE Respond \/ WeightTimesOut
  <2>1. UNCHANGED <<values, ordered, frames, clear>> /\ pending' = FALSE /\ weights' \in {values, weights}
    BY <1>5 DEF Respond, WeightTimesOut
  <2>2. ScaleTypeOK' /\ WeighedFromClear'
    BY <1>1, <2>1 DEF ScaleTypeOK, WeighedFromClear
  <2> QED  BY <1>1, <2>1, <2>2 DEF ScaleInv
<1>6. CASE UNCHANGED scaleVars
  BY <1>1, <1>6 DEF scaleVars, ScaleInv, ScaleTypeOK, WeighedFromClear
<1> QED  BY <1>2, <1>3, <1>4, <1>5, <1>6 DEF ScaleNext

LEMMA ScaleSafe == ScaleInv => ScaleTypeOK /\ WeighedTogether
  BY DEF ScaleInv, WeighedFromClear, WeighedTogether

\* Scale (rover_container_node.py, _wgt_cb): the three weights that are reported are of one
\* measurement, the request's own, if nothing was under way when it began.
THEOREM WeightsAreOfOneWeighing == ScaleSpec => []WeighedTogether
<1>1. ScaleSpec => []ScaleInv
  BY ScaleInvInit, ScaleInvStep, PTL DEF ScaleSpec
<1> QED  BY <1>1, ScaleSafe, PTL

-------------------------------------------------------------------------------
(***************************************************************************)
(* The lid.  Whatever is under way between two goals is of the last one's  *)
(* motion; a goal of the other motion comes behind it, and hears nothing   *)
(* that is its own before all of that is gone.                             *)
(***************************************************************************)

LidCommand == [byte : Motions \cup {"stop", "poll"}, late : BOOLEAN]
LidReply == [cmd : Motions, status : Statuses, late : BOOLEAN]

OwnCommands == {c \in LidCommand : c.byte \in {asks, "stop", "poll"} /\ (c.byte = "poll" => motion = asks)}
OwnReplies ==
    {r \in LidReply : /\ r.cmd = asks
                      /\ r.status # "error" => motion = asks
                      /\ r.status = "done" => board = "done"}

OldCommands ==
    {c \in LidCommand : /\ c.byte # asks /\ (c.byte = "stop" \/ c.late)
                        /\ c.byte = "poll" => motion # asks}
OldReplies == {r \in LidReply : r.cmd # asks /\ r.late}

AllOwn == commands \in Seq(OwnCommands) /\ answers \in Seq(OwnReplies)

OldThenMotion ==
    /\ answers \in Seq(OldReplies)
    /\ \E old \in Seq(OldCommands) :
          commands = old \/ \E c \in OwnCommands : c.byte = asks /\ commands = Append(old, c)

OldThenReply ==
    commands = <<>> /\ \E old \in Seq(OldReplies), r \in OwnReplies : answers = Append(old, r)

LateCommands == {c \in LidCommand : c.byte = "stop" \/ c.late}
LateReplies == {r \in LidReply : r.late}

OrderedByGoal == AllOwn \/ (goal = "sent" /\ answer = NoCmd /\ (OldThenMotion \/ OldThenReply))
LateBetweenWaits ==
    goal \in {"idle", "polling"} => commands \in Seq(LateCommands) /\ answers \in Seq(LateReplies)
ExpectedIsAsked == expected = asks \/ (expected = NoCmd /\ goal = "idle")
HeardIsSo ==
    /\ answer \notin {NoCmd, "error"} => motion = asks
    /\ answer = "done" => board = "done"
    /\ goal \in {"polling", "polled"} => motion = asks
    /\ success # NoCmd => goal = "idle" /\ success = asks /\ motion = asks /\ board = "done"

LidInv ==
    /\ LidTypeOK /\ commands \in Seq(LidCommand) /\ answers \in Seq(LidReply)
    /\ OrderedByGoal /\ LateBetweenWaits /\ ExpectedIsAsked /\ HeardIsSo

LEMMA LidInvInit == LidInit => LidInv
<1> SUFFICES ASSUME LidInit PROVE LidInv
  OBVIOUS
<1>1. /\ commands = <<>> /\ answers = <<>> /\ goal = "idle" /\ asks = "open" /\ expected = NoCmd
      /\ answer = NoCmd /\ success = NoCmd /\ alive = TRUE /\ motion \in Motions /\ board \in {"done", "stopped"}
  BY DEF LidInit
<1>2. \A S : commands \in Seq(S) /\ answers \in Seq(S)
  BY <1>1
<1>3. InTransit <= LidFrames
  <2>1. Len(commands) = 0 /\ Len(answers) = 0
    BY <1>1
  <2> QED  BY <2>1, LidAssumption DEF InTransit
<1>4. LidTypeOK
  BY <1>1, <1>3 DEF LidTypeOK, Motions
<1>5. OrderedByGoal /\ LateBetweenWaits /\ ExpectedIsAsked /\ HeardIsSo
  <2>1. AllOwn /\ LateBetweenWaits
    BY <1>2 DEF AllOwn, LateBetweenWaits
  <2> QED  BY <1>1, <2>1, LidAssumption DEF OrderedByGoal, ExpectedIsAsked, HeardIsSo, Statuses
<1> QED  BY <1>2, <1>4, <1>5 DEF LidInv

LEMMA LidFacts ==
    ASSUME LidInv
    PROVE  /\ LidTypeOK /\ commands \in Seq(LidCommand) /\ answers \in Seq(LidReply)
           /\ Len(commands) \in Nat /\ Len(answers) \in Nat
           /\ Len(commands) + Len(answers) <= LidFrames /\ LidFrames \in Nat
  BY KindKept, LidAssumption DEF LidInv, LidTypeOK, InTransit

\* A frame that is late, and nothing else of it changed.
LEMMA OutdatedKept ==
    ASSUME NEW S, NEW T, NEW q \in Seq(S), \A x \in S : [x EXCEPT !.late = TRUE] \in T
    PROVE  Outdated(q) \in Seq(T) /\ Len(Outdated(q)) = Len(q)
<1>1. \A i \in DOMAIN q : Outdated(q)[i] = [q[i] EXCEPT !.late = TRUE]
  BY DEF Outdated
<1>2. Outdated(q) = [i \in DOMAIN q |-> Outdated(q)[i]]
  BY <1>1 DEF Outdated
<1> QED  BY <1>1, <1>2, KindMapped

\* The end of a wait, or of the node: what is under way is the last goal's.
LEMMA NothingOldIsLeft ==
    ASSUME LidInv, NoneLate PROVE AllOwn
<1>1. commands \in Seq(LidCommand) /\ answers \in Seq(LidReply)
  BY DEF LidInv
<1>2. /\ commands # <<>> => ~commands[1].late
      /\ answers # <<>> => ~answers[1].late
  <2>1. /\ commands # <<>> => 1 \in DOMAIN commands
        /\ answers # <<>> => 1 \in DOMAIN answers
    BY <1>1, LenProperties, EmptySeq
  <2> QED  BY <2>1 DEF NoneLate
<1>3. ASSUME NEW old \in Seq(OldReplies), NEW r \in OwnReplies, answers = Append(old, r) PROVE old = <<>>
  <2>1. SUFFICES ASSUME old # <<>> PROVE FALSE
    OBVIOUS
  <2>2. Len(old) \in Nat \ {0} /\ old[1] \in OldReplies
    BY <2>1, EmptySeq, LenProperties
  <2>3. answers[1] = old[1] /\ answers # <<>>
    <3>1. old \in Seq(LidReply) /\ r \in LidReply
      <4>1. OldReplies \subseteq LidReply /\ OwnReplies \subseteq LidReply
        BY DEF OldReplies, OwnReplies
      <4> QED  BY <4>1, SeqMonotonic
    <3> QED  BY <1>3, <2>2, <3>1, AppendProperties
  <2> QED  BY <1>2, <2>2, <2>3 DEF OldReplies
<1>4. CASE OldThenReply
  <2>1. PICK old \in Seq(OldReplies), r \in OwnReplies : answers = Append(old, r)
    BY <1>4 DEF OldThenReply
  <2>2. old = <<>>
    BY <1>3, <2>1
  <2>3. <<>> \in Seq(OwnReplies)
    OBVIOUS
  <2>4. answers \in Seq(OwnReplies)
    BY <2>1, <2>2, <2>3, AppendProperties
  <2> QED  BY <1>4, <2>4 DEF OldThenReply, AllOwn
<1>5. CASE OldThenMotion
  <2>1. answers = <<>>
    <3>1. answers # <<>> => answers[1] \in OldReplies
      <4>1. answers \in Seq(OldReplies)
        BY <1>5 DEF OldThenMotion
      <4> QED  BY <4>1, EmptySeq, LenProperties
    <3> QED  BY <1>2, <3>1 DEF OldReplies
  <2>2. \A i \in DOMAIN commands : ~commands[i].late
    BY DEF NoneLate
  <2>3. PICK old \in Seq(OldCommands) :
           commands = old \/ \E c \in OwnCommands : c.byte = asks /\ commands = Append(old, c)
    BY <1>5 DEF OldThenMotion
  <2>4. Len(old) \in Nat /\ DOMAIN old = 1..Len(old) /\ old \in [1..Len(old) -> OldCommands]
    BY <2>3, LenProperties
  <2>5. ASSUME NEW i \in 1..Len(old) PROVE old[i] \in OwnCommands
    <3>1. old[i] \in OldCommands
      BY <2>4
    <3>2. i \in DOMAIN commands /\ commands[i] = old[i]
      <4>1. CASE commands = old
        BY <2>4, <4>1
      <4>2. ASSUME NEW c \in OwnCommands, commands = Append(old, c) PROVE i \in DOMAIN commands /\ commands[i] = old[i]
        <5>1. OldCommands \subseteq LidCommand /\ OwnCommands \subseteq LidCommand
          BY DEF OldCommands, OwnCommands
        <5>2. old \in Seq(LidCommand) /\ c \in LidCommand
          BY <5>1, SeqMonotonic
        <5>3. /\ Append(old, c) \in Seq(LidCommand) /\ Len(Append(old, c)) = Len(old) + 1
              /\ Append(old, c)[i] = old[i]
          BY <5>2, AppendProperties
        <5>4. DOMAIN commands = 1..Len(commands)
          BY <1>1, LenProperties
        <5> QED  BY <2>4, <4>2, <5>3, <5>4
      <4> QED  BY <2>3, <4>1, <4>2
    <3>3. ~old[i].late
      BY <2>2, <3>2
    <3> QED  BY <3>1, <3>3 DEF OldCommands, OwnCommands
  <2>6. old \in Seq(OwnCommands)
    <3>1. old \in [1..Len(old) -> OwnCommands]
      BY <2>4, <2>5
    <3> QED  BY <2>4, <3>1, SeqDef
  <2>7. commands \in Seq(OwnCommands)
    BY <2>3, <2>6, AppendProperties
  <2> QED  BY <2>1, <2>7 DEF AllOwn
<1> QED  BY <1>4, <1>5 DEF LidInv, OrderedByGoal

\* What is sent is of the goal, and comes last.
LEMMA AcceptKeeps == ASSUME LidInv, NEW m \in Motions, AcceptGoal(m) PROVE LidInv'
<1>1. /\ goal = "idle" /\ asks' = m /\ success' = NoCmd /\ expected' = m /\ answer' = NoCmd /\ goal' = "sent"
      /\ UNCHANGED <<alive, answers, motion, board>> /\ Len(commands) + Len(answers) < LidFrames
      /\ commands' \in {commands, Append(commands, [byte |-> m, late |-> FALSE])}
  BY DEF AcceptGoal, Await, Transmit, InTransit
<1> DEFINE c == [byte |-> m, late |-> FALSE]
<1>2. c \in LidCommand /\ c \in OwnCommands'
  BY <1>1 DEF LidCommand, OwnCommands, Motions
<1>3. commands' \in Seq(LidCommand) /\ answers' \in Seq(LidReply) /\ InTransit' <= LidFrames
  <2>1. commands' \in Seq(LidCommand) /\ Len(commands') \in {Len(commands), Len(commands) + 1}
    BY <1>1, <1>2, LidFacts, KindKept
  <2> QED  BY <1>1, <2>1, LidFacts DEF InTransit
<1>4. LidTypeOK'
  BY <1>1, <1>3, LidFacts DEF LidTypeOK
<1>5. AllOwn /\ commands \in Seq(LateCommands) /\ answers \in Seq(LateReplies)
  BY <1>1 DEF LidInv, OrderedByGoal, LateBetweenWaits
<1>6. AllOwn' \/ OldThenMotion'
  <2>1. CASE m = asks
    <3>1. OwnCommands' = OwnCommands /\ OwnReplies' = OwnReplies
      BY <1>1, <2>1 DEF OwnCommands, OwnReplies
    <3>2. commands' \in Seq(OwnCommands) /\ answers' \in Seq(OwnReplies)
      BY <1>1, <1>2, <1>5, <3>1, KindKept DEF AllOwn
    <3> QED  BY <3>1, <3>2 DEF AllOwn
  <2>2. CASE m # asks
    <3>1. commands \in Seq(OldCommands')
      <4>1. commands \in Seq(OwnCommands \cap LateCommands)
        BY <1>5, BothKinds DEF AllOwn
      <4>2. OwnCommands \cap LateCommands \subseteq OldCommands'
        BY <1>1, <2>2 DEF OwnCommands, LateCommands, OldCommands, Motions
      <4> QED  BY <4>1, <4>2, SeqMonotonic
    <3>2. answers \in Seq(OldReplies')
      <4>1. answers \in Seq(OwnReplies \cap LateReplies)
        BY <1>5, BothKinds DEF AllOwn
      <4>2. OwnReplies \cap LateReplies \subseteq OldReplies'
        BY <1>1, <2>2 DEF OwnReplies, LateReplies, OldReplies
      <4> QED  BY <4>1, <4>2, SeqMonotonic
    <3>3. c.byte = asks'
      BY <1>1
    <3> QED  BY <1>1, <1>2, <3>1, <3>2, <3>3 DEF OldThenMotion
  <2> QED  BY <2>1, <2>2
<1>7. OrderedByGoal' /\ LateBetweenWaits' /\ ExpectedIsAsked' /\ HeardIsSo'
  BY <1>1, <1>6, LidAssumption DEF OrderedByGoal, LateBetweenWaits, ExpectedIsAsked, HeardIsSo, Statuses
<1> QED  BY <1>3, <1>4, <1>7 DEF LidInv

\* The frames of a wait that is over, all of them of this goal.
LEMMA OutdatedOwn ==
    ASSUME LidInv, AllOwn, commands' = Outdated(commands), answers' = Outdated(answers),
           UNCHANGED <<asks, motion, board>>
    PROVE  /\ AllOwn' /\ commands' \in Seq(LidCommand) /\ answers' \in Seq(LidReply)
           /\ commands' \in Seq(LateCommands) /\ answers' \in Seq(LateReplies)
           /\ InTransit' <= LidFrames
<1>1. \A x \in OwnCommands : [x EXCEPT !.late = TRUE] \in OwnCommands \cap LateCommands
  BY DEF OwnCommands, LateCommands, LidCommand
<1>2. \A x \in OwnReplies : [x EXCEPT !.late = TRUE] \in OwnReplies \cap LateReplies
  BY DEF OwnReplies, LateReplies, LidReply
<1>3. /\ commands' \in Seq(OwnCommands \cap LateCommands) /\ Len(commands') = Len(commands)
      /\ answers' \in Seq(OwnReplies \cap LateReplies) /\ Len(answers') = Len(answers)
  BY <1>1, <1>2, OutdatedKept DEF AllOwn
<1>4. /\ OwnCommands \cap LateCommands \subseteq LidCommand /\ OwnReplies \cap LateReplies \subseteq LidReply
      /\ OwnCommands' = OwnCommands /\ OwnReplies' = OwnReplies
  BY DEF OwnCommands, OwnReplies
<1>5. commands' \in Seq(LidCommand) /\ answers' \in Seq(LidReply)
  BY <1>3, <1>4, SeqMonotonic
<1>6. /\ commands' \in Seq(OwnCommands) /\ answers' \in Seq(OwnReplies)
      /\ commands' \in Seq(LateCommands) /\ answers' \in Seq(LateReplies)
  BY <1>3, KindWidens
<1>7. InTransit' <= LidFrames
  BY <1>3, LidFacts DEF InTransit
<1> QED  BY <1>4, <1>5, <1>6, <1>7 DEF AllOwn

LEMMA ResumeKeeps ==
    ASSUME LidInv, AckAnswered \/ PollAnswered \/ WaitTimesOut PROVE LidInv'
<1>1. /\ commands' = Outdated(commands) /\ answers' = Outdated(answers)
      /\ UNCHANGED <<alive, asks, expected, answer, motion, board>>
  BY DEF AckAnswered, PollAnswered, WaitTimesOut, Resume
<1>2. AllOwn
  BY NothingOldIsLeft DEF AckAnswered, PollAnswered, WaitTimesOut, LidInv, OrderedByGoal
<1>3. /\ AllOwn' /\ commands' \in Seq(LidCommand) /\ answers' \in Seq(LidReply)
      /\ commands' \in Seq(LateCommands) /\ answers' \in Seq(LateReplies)
      /\ InTransit' <= LidFrames
  BY <1>1, <1>2, OutdatedOwn
<1>4. goal # "idle" /\ expected = asks
  BY DEF AckAnswered, PollAnswered, WaitTimesOut, LidInv, ExpectedIsAsked
<1>5. /\ goal' \in {"idle", "polling"} /\ success' \in {NoCmd, asks}
      /\ goal' = "polling" => motion = asks
      /\ success' # NoCmd => goal' = "idle" /\ answer = "done"
  <2>1. HeardIsSo
    BY DEF LidInv
  <2>2. CASE AckAnswered
    BY <2>1, <2>2, LidAssumption DEF AckAnswered, Resume, HeardIsSo, Statuses
  <2>3. CASE PollAnswered
    BY <2>1, <2>3 DEF PollAnswered, Resume, HeardIsSo
  <2>4. CASE WaitTimesOut
    BY <2>1, <2>4 DEF WaitTimesOut, Resume, HeardIsSo
  <2> QED  BY <2>2, <2>3, <2>4
<1>6. LidTypeOK'
  BY <1>1, <1>3, <1>5, LidFacts DEF LidTypeOK
<1>7. HeardIsSo'
  <2>1. HeardIsSo
    BY DEF LidInv
  <2>2. answer = "done" => answer \notin {NoCmd, "error"}
    BY LidAssumption DEF Statuses
  <2> QED  BY <1>1, <1>5, <2>1, <2>2 DEF HeardIsSo
<1>8. OrderedByGoal' /\ LateBetweenWaits' /\ ExpectedIsAsked'
  BY <1>1, <1>3, <1>4 DEF OrderedByGoal, LateBetweenWaits, ExpectedIsAsked
<1> QED  BY <1>3, <1>6, <1>7, <1>8 DEF LidInv

LEMMA LidRestartKeeps == ASSUME LidInv, LidNodeStarts PROVE LidInv'
<1>1. /\ commands' = Outdated(commands) /\ answers' = Outdated(answers)
      /\ UNCHANGED <<asks, motion, board>> /\ alive' = TRUE /\ goal' = "idle"
      /\ expected' = NoCmd /\ answer' = NoCmd /\ success' = NoCmd
  BY DEF LidNodeStarts
<1>2. AllOwn
  BY NothingOldIsLeft DEF LidNodeStarts
<1>3. /\ AllOwn' /\ commands' \in Seq(LidCommand) /\ answers' \in Seq(LidReply)
      /\ commands' \in Seq(LateCommands) /\ answers' \in Seq(LateReplies)
      /\ InTransit' <= LidFrames
  BY <1>1, <1>2, OutdatedOwn
<1>4. LidTypeOK'
  BY <1>1, <1>3, LidFacts DEF LidTypeOK
<1>5. HeardIsSo'
  BY <1>1, LidAssumption DEF HeardIsSo, Statuses
<1>6. OrderedByGoal' /\ LateBetweenWaits' /\ ExpectedIsAsked'
  BY <1>1, <1>3 DEF OrderedByGoal, LateBetweenWaits, ExpectedIsAsked
<1> QED  BY <1>3, <1>4, <1>5, <1>6 DEF LidInv

\* Between two polls: another poll, a cancel, the deadline.
LEMMA PollingKeeps == ASSUME LidInv, PollStatus \/ CancelGoal \/ DeadlineExceeded PROVE LidInv'
<1>1. /\ goal = "polling" /\ UNCHANGED <<alive, asks, answers, motion, board, success>>
      /\ goal' \in {"polled", "idle"} /\ expected' = asks
  <2>1. goal = "polling" => expected = asks
    BY DEF LidInv, ExpectedIsAsked
  <2> QED  BY <2>1 DEF PollStatus, CancelGoal, DeadlineExceeded, Await
<1>2. motion = asks /\ AllOwn /\ commands \in Seq(LateCommands) /\ answers \in Seq(LateReplies)
  BY <1>1 DEF LidInv, HeardIsSo, OrderedByGoal, LateBetweenWaits
<1> DEFINE poll == [byte |-> "poll", late |-> FALSE]
           stop == [byte |-> "stop", late |-> FALSE]
<1>3. /\ {poll, stop} \subseteq LidCommand /\ {poll, stop} \subseteq OwnCommands /\ stop \in LateCommands
  BY <1>2 DEF LidCommand, OwnCommands, LateCommands
<1>4. /\ commands' = commands \/ Len(commands) + Len(answers) < LidFrames
      /\ \/ goal' = "polled" /\ commands' \in {commands, Append(commands, poll)} /\ answer' = NoCmd
         \/ goal' = "idle" /\ commands' \in {commands, Append(commands, stop)} /\ answer' = answer
  BY DEF PollStatus, CancelGoal, DeadlineExceeded, Await, Transmit, InTransit
<1> HIDE DEF poll, stop
<1>5. /\ commands' \in Seq(LidCommand) /\ commands' \in Seq(OwnCommands)
      /\ goal' = "idle" => commands' \in Seq(LateCommands)
      /\ Len(commands') = Len(commands) \/ (Len(commands') = Len(commands) + 1 /\ commands' # commands)
  <2>1. commands \in Seq(LidCommand) /\ commands \in Seq(OwnCommands) /\ Len(commands) \in Nat
    BY <1>2, LidFacts DEF AllOwn
  <2>2. \/ commands' = commands
        \/ goal' = "polled" /\ commands' = Append(commands, poll)
        \/ goal' = "idle" /\ commands' = Append(commands, stop)
    BY <1>4
  <2>3. CASE commands' = commands
    BY <1>2, <2>1, <2>3
  <2>4. CASE goal' = "polled" /\ commands' = Append(commands, poll)
    <3>1. /\ Append(commands, poll) \in Seq(LidCommand) /\ Append(commands, poll) \in Seq(OwnCommands)
          /\ Len(Append(commands, poll)) = Len(commands) + 1
      BY <1>3, <2>1, KindKept
    <3>2. Len(commands) # Len(commands) + 1
      BY <2>1
    <3>3. commands' # commands
      BY <2>4, <3>1, <3>2
    <3> QED  BY <2>4, <3>1, <3>3
  <2>5. CASE goal' = "idle" /\ commands' = Append(commands, stop)
    <3>1. /\ Append(commands, stop) \in Seq(LidCommand) /\ Append(commands, stop) \in Seq(OwnCommands)
          /\ Append(commands, stop) \in Seq(LateCommands) /\ Len(Append(commands, stop)) = Len(commands) + 1
      BY <1>2, <1>3, <2>1, KindKept
    <3>2. Len(commands) # Len(commands) + 1
      BY <2>1
    <3>3. commands' # commands
      BY <2>5, <3>1, <3>2
    <3> QED  BY <2>5, <3>1, <3>3
  <2> QED  BY <2>2, <2>3, <2>4, <2>5
<1>6. InTransit' <= LidFrames
  BY <1>1, <1>4, <1>5, LidFacts DEF InTransit
<1>7. OwnCommands' = OwnCommands /\ OwnReplies' = OwnReplies
  BY <1>1 DEF OwnCommands, OwnReplies
<1>8. AllOwn'
  BY <1>1, <1>2, <1>5, <1>7 DEF AllOwn
<1>9. LidTypeOK'
  BY <1>1, <1>4, <1>6, LidFacts DEF LidTypeOK
<1>10. HeardIsSo'
  <2>1. HeardIsSo /\ success = NoCmd /\ answer' \in {answer, NoCmd}
    BY <1>1, <1>4 DEF LidInv, HeardIsSo
  <2>2. NoCmd # "done"
    BY LidAssumption DEF Statuses
  <2> QED  BY <1>1, <1>2, <2>1, <2>2 DEF HeardIsSo
<1>11. OrderedByGoal' /\ LateBetweenWaits' /\ ExpectedIsAsked' /\ answers' \in Seq(LidReply)
  BY <1>1, <1>2, <1>5, <1>8, LidFacts DEF OrderedByGoal, LateBetweenWaits, ExpectedIsAsked
<1> QED  BY <1>5, <1>9, <1>10, <1>11 DEF LidInv

\* An answer is taken from the queue: heard if it is the goal's own.
LEMMA ReplyTaken ==
    ASSUME LidInv, answers # <<>>, answers' = Tail(answers), UNCHANGED <<asks, motion, board, commands>>
    PROVE  /\ answers' \in Seq(LidReply) /\ InTransit' <= LidFrames /\ Head(answers) \in LidReply
           /\ answers \in Seq(LateReplies) => answers' \in Seq(LateReplies)
           /\ AllOwn => AllOwn' /\ Head(answers) \in OwnReplies
           /\ OldThenMotion => OldThenMotion' /\ Head(answers).cmd # asks
           /\ OldThenReply => \/ OldThenReply' /\ Head(answers).cmd # asks
                              \/ AllOwn' /\ Head(answers) \in OwnReplies
<1>1. /\ answers \in Seq(LidReply) /\ answers' \in Seq(LidReply) /\ Head(answers) \in LidReply
      /\ Len(answers') = Len(answers) - 1
  BY LidFacts, KindKept
<1>2. InTransit' <= LidFrames
  BY <1>1, LidFacts DEF InTransit
<1>3. /\ OwnCommands' = OwnCommands /\ OwnReplies' = OwnReplies
      /\ OldCommands' = OldCommands /\ OldReplies' = OldReplies
  BY DEF OwnCommands, OwnReplies, OldCommands, OldReplies
<1>4. answers \in Seq(LateReplies) => answers' \in Seq(LateReplies)
  BY KindKept
<1>5. AllOwn => AllOwn' /\ Head(answers) \in OwnReplies
  BY <1>3, KindKept DEF AllOwn
<1>6. OldThenMotion => OldThenMotion' /\ Head(answers).cmd # asks
  <2> SUFFICES ASSUME OldThenMotion PROVE OldThenMotion' /\ Head(answers).cmd # asks
    OBVIOUS
  <2>1. answers' \in Seq(OldReplies) /\ Head(answers) \in OldReplies
    BY KindKept DEF OldThenMotion
  <2>2. OldThenMotion'
    BY <1>3, <2>1 DEF OldThenMotion
  <2> QED  BY <2>1, <2>2 DEF OldReplies
<1>7. ASSUME OldThenReply
      PROVE  \/ OldThenReply' /\ Head(answers).cmd # asks
             \/ AllOwn' /\ Head(answers) \in OwnReplies
  <2>0. commands' = <<>>
    BY <1>7 DEF OldThenReply
  <2>1. PICK old \in Seq(OldReplies), r \in OwnReplies : answers = Append(old, r)
    BY <1>7 DEF OldThenReply
  <2>2. CASE old = <<>>
    <3>1. answers' = <<>> /\ Head(answers) = r
      BY <2>1, <2>2, HeadOfTwoKinds
    <3>2. AllOwn'
      <4>1. commands' \in Seq(OwnCommands') /\ answers' \in Seq(OwnReplies')
        BY <2>0, <3>1, NothingIsAnyKind
      <4> QED  BY <4>1 DEF AllOwn
    <3> QED  BY <2>1, <3>1, <3>2
  <2>3. CASE old # <<>>
    <3>1. answers' = Append(Tail(old), r) /\ Head(answers) = Head(old)
      BY <2>1, <2>3, HeadOfTwoKinds
    <3>2. Tail(old) \in Seq(OldReplies) /\ Head(old) \in OldReplies
      BY <2>1, <2>3, KindKept
    <3>3. OldThenReply'
      BY <1>3, <2>0, <2>1, <3>1, <3>2 DEF OldThenReply
    <3> QED  BY <3>1, <3>2, <3>3 DEF OldReplies
  <2> QED  BY <2>2, <2>3
<1> QED  BY <1>1, <1>2, <1>4, <1>5, <1>6, <1>7

LEMMA ResponseKeeps == ASSUME LidInv, OnLidResponse \/ NobodyListens PROVE LidInv'
<1>1. /\ answers # <<>> /\ answers' = Tail(answers)
      /\ UNCHANGED <<goal, asks, expected, commands, motion, board, success>>
      /\ answer' \in {answer, Head(answers).status}
      /\ answer' # answer => Head(answers).cmd = expected
      /\ alive' \in BOOLEAN
  <2>1. CASE OnLidResponse
    BY <2>1 DEF OnLidResponse, Matching
  <2>2. CASE NobodyListens
    BY <2>2, LidFacts DEF NobodyListens, LidTypeOK
  <2> QED  BY <2>1, <2>2
<1>2. /\ answers' \in Seq(LidReply) /\ InTransit' <= LidFrames /\ Head(answers) \in LidReply
      /\ answers \in Seq(LateReplies) => answers' \in Seq(LateReplies)
      /\ AllOwn => AllOwn' /\ Head(answers) \in OwnReplies
      /\ OldThenMotion => OldThenMotion' /\ Head(answers).cmd # asks
      /\ OldThenReply => \/ OldThenReply' /\ Head(answers).cmd # asks
                         \/ AllOwn' /\ Head(answers) \in OwnReplies
  BY <1>1, ReplyTaken
<1>3. answer' # answer => Head(answers).cmd = asks /\ Head(answers).status \in Statuses
  BY <1>1, <1>2, LidAssumption DEF LidInv, ExpectedIsAsked, LidReply
<1>4. LidTypeOK'
  BY <1>1, <1>2, LidFacts DEF LidTypeOK, LidReply
<1>5. OrderedByGoal'
  <2>1. CASE AllOwn
    BY <1>2, <2>1 DEF OrderedByGoal
  <2>2. CASE goal = "sent" /\ answer = NoCmd /\ OldThenMotion
    BY <1>1, <1>2, <1>3, <2>2 DEF OrderedByGoal
  <2>3. CASE goal = "sent" /\ answer = NoCmd /\ OldThenReply
    BY <1>1, <1>2, <1>3, <2>3 DEF OrderedByGoal
  <2> QED  BY <2>1, <2>2, <2>3 DEF LidInv, OrderedByGoal
<1>6. answer' # answer => Head(answers) \in OwnReplies
  BY <1>2, <1>3 DEF LidInv, OrderedByGoal
<1>7. HeardIsSo'
  <2>1. HeardIsSo
    BY DEF LidInv
  <2>2. CASE answer' = answer
    BY <1>1, <2>1, <2>2 DEF HeardIsSo
  <2>3. CASE answer' # answer
    <3>1. /\ answer' # "error" => motion = asks
          /\ answer' = "done" => board = "done"
      BY <1>1, <1>6, <2>3 DEF OwnReplies
    <3> QED  BY <1>1, <2>1, <3>1 DEF HeardIsSo
  <2> QED  BY <2>2, <2>3
<1>8. LateBetweenWaits' /\ ExpectedIsAsked'
  BY <1>1, <1>2 DEF LidInv, LateBetweenWaits, ExpectedIsAsked
<1> QED  BY <1>1, <1>2, <1>4, <1>5, <1>7, <1>8, LidFacts DEF LidInv

LEMMA LidMovesKeeps == ASSUME LidInv, LidMoves PROVE LidInv'
<1>1. /\ board = "moving" /\ board' \in {"done", "failed"}
      /\ UNCHANGED <<alive, goal, asks, expected, answer, commands, answers, motion, success>>
  BY DEF LidMoves
<1>2. /\ OwnCommands' = OwnCommands /\ OldCommands' = OldCommands /\ OldReplies' = OldReplies
      /\ OwnReplies \subseteq OwnReplies'
  BY <1>1 DEF OwnCommands, OwnReplies, OldCommands, OldReplies
<1>3. AllOwn => AllOwn'
  BY <1>1, <1>2, SeqMonotonic DEF AllOwn
<1>4. (OldThenMotion => OldThenMotion') /\ (OldThenReply => OldThenReply')
  BY <1>1, <1>2 DEF OldThenMotion, OldThenReply
<1>5. OrderedByGoal' /\ LateBetweenWaits' /\ ExpectedIsAsked' /\ HeardIsSo'
  BY <1>1, <1>3, <1>4 DEF LidInv, OrderedByGoal, LateBetweenWaits, ExpectedIsAsked, HeardIsSo
<1>6. LidTypeOK' /\ InTransit' = InTransit
  BY <1>1 DEF LidInv, LidTypeOK, InTransit
<1> QED  BY <1>1, <1>5, <1>6 DEF LidInv

\* One command executed, refused or answered, with the answer lost or not.
LEMMA BoardActsKinds ==
    ASSUME LidInv, LidBoardActs
    PROVE  /\ commands # <<>> /\ Head(commands) \in LidCommand /\ commands' = Tail(commands)
           /\ UNCHANGED <<alive, goal, asks, expected, answer, success>>
           /\ motion' \in Motions /\ board' \in {"moving", "done", "stopped", "failed"}
           /\ motion' # motion => motion' = Head(commands).byte
           /\ board = "done" /\ board' # "done" => motion' # motion
           /\ \/ answers' = answers
              \/ Head(commands).byte # "stop"
                 /\ \E r \in LidReply :
                       /\ answers' = Append(answers, r) /\ r.late = Head(commands).late
                       /\ r.cmd = IF Head(commands).byte = "poll" THEN motion ELSE Head(commands).byte
                       /\ r.status # "error" => r.cmd = motion'
                       /\ r.status = "done" => Head(commands).byte = "poll" /\ board' = "done"
<1> DEFINE f == Head(commands)
<1>1. /\ commands # <<>> /\ f \in LidCommand /\ commands' = Tail(commands)
      /\ UNCHANGED <<alive, goal, asks, expected, answer, success>>
  BY LidFacts, KindKept DEF LidBoardActs
<1>2. motion \in Motions /\ board \in {"moving", "done", "stopped", "failed"}
  BY LidFacts DEF LidTypeOK
<1>3. f.late \in BOOLEAN /\ f.byte \in Motions \cup {"stop", "poll"}
  BY <1>1 DEF LidCommand
<1> HIDE DEF f
<1>4. CASE /\ f.byte \in Motions
           /\ motion' = f.byte /\ AnswerFor(f.byte, "ack", f.late)
           /\ board' = IF f.byte = motion /\ board = "done" THEN "done" ELSE "moving"
  <2> DEFINE r == [cmd |-> f.byte, status |-> "ack", late |-> f.late]
  <2>1. r \in LidReply /\ answers' \in {answers, Append(answers, r)}
    BY <1>3, <1>4 DEF AnswerFor, LidReply, Statuses
  <2>2. r.late = f.late /\ r.cmd = f.byte /\ r.status = "ack" /\ f.byte # "stop" /\ f.byte # "poll"
    BY <1>4 DEF Motions
  <2> HIDE DEF r
  <2>3. answers' = answers \/ \E q \in LidReply :
                       /\ answers' = Append(answers, q) /\ q.late = f.late
                       /\ q.cmd = IF f.byte = "poll" THEN motion ELSE f.byte
                       /\ q.status # "error" => q.cmd = motion'
                       /\ q.status = "done" => f.byte = "poll" /\ board' = "done"
    BY <1>4, <2>1, <2>2
  <2>4. board = "done" /\ board' # "done" => motion' # motion
    BY <1>4
  <2> QED  BY <1>1, <1>2, <1>4, <2>2, <2>3, <2>4 DEF f
<1>5. CASE f.byte \in Motions /\ UNCHANGED <<motion, board>> /\ AnswerFor(f.byte, "error", f.late)
  <2> DEFINE r == [cmd |-> f.byte, status |-> "error", late |-> f.late]
  <2>1. r \in LidReply /\ answers' \in {answers, Append(answers, r)}
    BY <1>3, <1>5 DEF AnswerFor, LidReply, Statuses
  <2>2. r.late = f.late /\ r.cmd = f.byte /\ r.status = "error" /\ f.byte # "stop" /\ f.byte # "poll"
    BY <1>5 DEF Motions
  <2> HIDE DEF r
  <2>3. answers' = answers \/ \E q \in LidReply :
                       /\ answers' = Append(answers, q) /\ q.late = f.late
                       /\ q.cmd = IF f.byte = "poll" THEN motion ELSE f.byte
                       /\ q.status # "error" => q.cmd = motion'
                       /\ q.status = "done" => f.byte = "poll" /\ board' = "done"
    BY <1>5, <2>1, <2>2
  <2> QED  BY <1>1, <1>2, <1>5, <2>2, <2>3 DEF f
<1>6. CASE f.byte = "stop" /\ UNCHANGED <<motion, answers>> /\ board' = IF board = "moving" THEN "stopped" ELSE board
  BY <1>1, <1>2, <1>6 DEF f
<1>7. CASE f.byte = "poll" /\ UNCHANGED <<motion, board>> /\ AnswerFor(motion, StatusOf, f.late)
  <2> DEFINE r == [cmd |-> motion, status |-> StatusOf, late |-> f.late]
  <2>0. StatusOf \in Statuses /\ (StatusOf = "done" => board = "done")
    BY <1>2 DEF StatusOf, Statuses
  <2>1. r \in LidReply /\ answers' \in {answers, Append(answers, r)}
    BY <1>2, <1>3, <1>7, <2>0 DEF AnswerFor, LidReply
  <2>2. r.late = f.late /\ r.cmd = motion /\ r.status = StatusOf /\ f.byte # "stop"
    BY <1>7
  <2> HIDE DEF r
  <2>3. answers' = answers \/ \E q \in LidReply :
                       /\ answers' = Append(answers, q) /\ q.late = f.late
                       /\ q.cmd = IF f.byte = "poll" THEN motion ELSE f.byte
                       /\ q.status # "error" => q.cmd = motion'
                       /\ q.status = "done" => f.byte = "poll" /\ board' = "done"
    BY <1>7, <2>0, <2>1, <2>2
  <2> QED  BY <1>1, <1>2, <1>7, <2>2, <2>3 DEF f
<1> QED  BY <1>4, <1>5, <1>6, <1>7 DEF LidBoardActs, f

LEMMA BoardActsOnOwn ==
    ASSUME LidInv, LidBoardActs, AllOwn
    PROVE  /\ AllOwn' /\ (motion = asks => motion' = asks)
           /\ motion = asks /\ board = "done" => board' = "done"
<1> DEFINE f == Head(commands)
<1>1. f \in OwnCommands /\ commands' \in Seq(OwnCommands)
  BY BoardActsKinds, KindKept DEF AllOwn
<1>2. /\ asks' = asks /\ motion' \in Motions
      /\ motion' # motion => motion' = asks
      /\ board = "done" /\ board' # "done" => motion' # motion
  BY <1>1, BoardActsKinds DEF OwnCommands, Motions
<1>3. /\ motion = asks => motion' = asks
      /\ motion = asks /\ board = "done" => board' = "done"
  BY <1>2
<1>4. OwnCommands \subseteq OwnCommands' /\ OwnReplies \subseteq OwnReplies'
  BY <1>2, <1>3 DEF OwnCommands, OwnReplies
<1>5. commands' \in Seq(OwnCommands') /\ answers \in Seq(OwnReplies')
  BY <1>1, <1>4, SeqMonotonic DEF AllOwn
<1>6. answers' \in Seq(OwnReplies')
  <2>1. CASE answers' = answers
    BY <1>5, <2>1
  <2>2. ASSUME NEW r \in LidReply, answers' = Append(answers, r), f.byte # "stop",
               r.cmd = IF f.byte = "poll" THEN motion ELSE f.byte,
               r.status # "error" => r.cmd = motion',
               r.status = "done" => board' = "done"
        PROVE  answers' \in Seq(OwnReplies')
    <3>1. r.cmd = asks
      BY <1>1, <2>2 DEF OwnCommands
    <3>2. r \in OwnReplies'
      BY <1>2, <2>2, <3>1 DEF OwnReplies
    <3> QED  BY <1>5, <2>2, <3>2, KindKept
  <2> QED  BY <2>1, <2>2, BoardActsKinds
<1> QED  BY <1>3, <1>5, <1>6 DEF AllOwn

LEMMA BoardActsOnOld ==
    ASSUME LidInv, LidBoardActs, OldThenMotion PROVE OldThenMotion' \/ OldThenReply'
<1> DEFINE f == Head(commands)
<1>1. PICK old \in Seq(OldCommands) :
         commands = old \/ \E c \in OwnCommands : c.byte = asks /\ commands = Append(old, c)
  BY DEF OldThenMotion
<1>2. answers \in Seq(OldReplies) /\ commands # <<>> /\ commands' = Tail(commands) /\ asks' = asks
  BY BoardActsKinds DEF OldThenMotion
<1>3. OldReplies' = OldReplies
  BY <1>2 DEF OldReplies
<1>4. CASE old # <<>>
  <2>1. f = Head(old) /\ f \in OldCommands /\ Tail(old) \in Seq(OldCommands)
    BY <1>1, <1>4, HeadOfTwoKinds, KindKept
  <2>2. commands' = Tail(old) \/ \E c \in OwnCommands : c.byte = asks /\ commands' = Append(Tail(old), c)
    <3>1. CASE commands = old
      BY <1>2, <3>1
    <3>2. ASSUME NEW c \in OwnCommands, c.byte = asks, commands = Append(old, c)
          PROVE  commands' = Append(Tail(old), c)
      <4>1. Tail(Append(old, c)) = Append(Tail(old), c)
        BY <1>4, HeadOfTwoKinds
      <4> QED  BY <1>2, <3>2, <4>1
    <3> QED  BY <1>1, <3>1, <3>2
  <2>3. motion' = motion \/ motion' # asks
    BY <2>1, BoardActsKinds DEF OldCommands
  <2>4. OldCommands \subseteq OldCommands'
    BY <1>2, <2>3 DEF OldCommands
  <2>5. \A c \in OwnCommands : c.byte = asks => c \in OwnCommands' /\ c.byte = asks'
    BY <1>2, BoardActsKinds, LidFacts DEF OwnCommands, Motions, LidTypeOK
  <2>6. Tail(old) \in Seq(OldCommands')
    BY <2>1, <2>4, SeqMonotonic
  <2>7. answers' \in Seq(OldReplies)
    <3>1. CASE answers' = answers
      BY <1>2, <3>1
    <3>2. ASSUME NEW r \in LidReply, answers' = Append(answers, r), f.byte # "stop", r.late = f.late,
                 r.cmd = IF f.byte = "poll" THEN motion ELSE f.byte
          PROVE  answers' \in Seq(OldReplies)
      <4>1. r \in OldReplies
        BY <2>1, <3>2 DEF OldCommands, OldReplies
      <4> QED  BY <1>2, <3>2, <4>1, KindKept
    <3> QED  BY <3>1, <3>2, BoardActsKinds
  <2> QED  BY <1>3, <2>2, <2>5, <2>6, <2>7 DEF OldThenMotion
<1>5. CASE old = <<>>
  <2>1. PICK c \in OwnCommands : c.byte = asks /\ commands = Append(old, c)
    BY <1>1, <1>2, <1>5
  <2>2. f = c /\ commands' = <<>>
    BY <1>2, <1>5, <2>1, HeadOfTwoKinds
  <2>3. CASE answers' = answers
    <3>1. commands' \in Seq(OldCommands')
      BY <2>2, NothingIsAnyKind
    <3> QED  BY <1>2, <1>3, <2>3, <3>1 DEF OldThenMotion
  <2>4. ASSUME NEW r \in LidReply, answers' = Append(answers, r),
               r.cmd = IF f.byte = "poll" THEN motion ELSE f.byte,
               r.status # "error" => r.cmd = motion',
               r.status = "done" => f.byte = "poll"
        PROVE  OldThenReply'
    <3>1. asks # "poll"
      BY LidFacts DEF LidTypeOK, Motions
    <3>2. r \in OwnReplies'
      BY <1>2, <2>1, <2>2, <2>4, <3>1 DEF OwnReplies
    <3> QED  BY <1>2, <1>3, <2>2, <2>4, <3>2 DEF OldThenReply
  <2> QED  BY <2>3, <2>4, BoardActsKinds
<1> QED  BY <1>4, <1>5

LEMMA BoardActsKeeps == ASSUME LidInv, LidBoardActs PROVE LidInv'
<1>1. commands' \in Seq(LidCommand) /\ Len(commands') = Len(commands) - 1
  BY BoardActsKinds, LidFacts, KindKept
<1>2. answers' \in Seq(LidReply) /\ Len(answers') \in {Len(answers), Len(answers) + 1}
  <2>1. answers \in Seq(LidReply) /\ \A r \in LidReply : Append(answers, r) \in Seq(LidReply) /\ Len(Append(answers, r)) = Len(answers) + 1
    BY LidFacts, KindKept
  <2>2. answers' = answers \/ \E r \in LidReply : answers' = Append(answers, r)
    BY BoardActsKinds
  <2> QED  BY <2>1, <2>2
<1>3. InTransit' <= LidFrames
  BY <1>1, <1>2, LidFacts DEF InTransit
<1>4. LidTypeOK'
  BY <1>3, BoardActsKinds, LidFacts DEF LidTypeOK
<1>5. LateBetweenWaits'
  <2>1. ASSUME goal \in {"idle", "polling"} PROVE commands' \in Seq(LateCommands) /\ answers' \in Seq(LateReplies)
    <3>1. commands \in Seq(LateCommands) /\ answers \in Seq(LateReplies)
      BY <2>1 DEF LidInv, LateBetweenWaits
    <3>2. Head(commands) \in LateCommands /\ commands' \in Seq(LateCommands)
      BY <3>1, BoardActsKinds, KindKept
    <3>3. CASE answers' = answers
      BY <3>1, <3>2, <3>3
    <3>4. ASSUME NEW r \in LidReply, answers' = Append(answers, r), Head(commands).byte # "stop",
                 r.late = Head(commands).late
          PROVE  answers' \in Seq(LateReplies)
      <4>1. r \in LateReplies
        BY <3>2, <3>4 DEF LateCommands, LateReplies
      <4> QED  BY <3>1, <3>4, <4>1, KindKept
    <3> QED  BY <3>2, <3>3, <3>4, BoardActsKinds
  <2> QED  BY <2>1, BoardActsKinds DEF LateBetweenWaits
<1>6. ExpectedIsAsked'
  BY BoardActsKinds DEF LidInv, ExpectedIsAsked
<1>7. OrderedByGoal' /\ HeardIsSo'
  <2>1. CASE AllOwn
    <3>1. /\ AllOwn' /\ (motion = asks => motion' = asks)
          /\ motion = asks /\ board = "done" => board' = "done"
      BY <2>1, BoardActsOnOwn
    <3>2. HeardIsSo /\ ("done" \notin {NoCmd, "error"})
      BY LidAssumption DEF LidInv, Statuses
    <3> QED  BY <3>1, <3>2, BoardActsKinds DEF OrderedByGoal, HeardIsSo
  <2>2. CASE goal = "sent" /\ answer = NoCmd /\ (OldThenMotion \/ OldThenReply)
    <3>1. OldThenMotion' \/ OldThenReply'
      BY <2>2, BoardActsOnOld, BoardActsKinds DEF OldThenReply
    <3>2. success = NoCmd /\ NoCmd # "done"
      BY <2>2, LidAssumption DEF LidInv, HeardIsSo, Statuses
    <3> QED  BY <2>2, <3>1, <3>2, BoardActsKinds DEF OrderedByGoal, HeardIsSo
  <2> QED  BY <2>1, <2>2 DEF LidInv, OrderedByGoal
<1> QED  BY <1>1, <1>2, <1>4, <1>5, <1>6, <1>7 DEF LidInv

LEMMA LidInvStep == LidInv /\ [LidNext]_lidVars => LidInv'
<1> SUFFICES ASSUME LidInv, [LidNext]_lidVars PROVE LidInv'
  OBVIOUS
<1>1. ASSUME NEW m \in Motions, AcceptGoal(m) PROVE LidInv'
  BY <1>1, AcceptKeeps
<1>2. CASE AckAnswered \/ PollAnswered \/ WaitTimesOut
  BY <1>2, ResumeKeeps
<1>3. CASE PollStatus \/ CancelGoal \/ DeadlineExceeded
  BY <1>3, PollingKeeps
<1>4. CASE OnLidResponse \/ NobodyListens
  BY <1>4, ResponseKeeps
<1>5. CASE LidNodeStarts
  BY <1>5, LidRestartKeeps
<1>6. CASE LidBoardActs
  BY <1>6, BoardActsKeeps
<1>7. CASE LidMoves
  BY <1>7, LidMovesKeeps
<1>8. CASE UNCHANGED lidVars
  <2>1. /\ OwnCommands' = OwnCommands /\ OldCommands' = OldCommands /\ OldReplies' = OldReplies
        /\ OwnReplies' = OwnReplies
    BY <1>8 DEF lidVars, OwnCommands, OwnReplies, OldCommands, OldReplies
  <2>2. OrderedByGoal'
    BY <1>8, <2>1 DEF lidVars, LidInv, OrderedByGoal, AllOwn, OldThenMotion, OldThenReply
  <2>3. LidTypeOK' /\ LateBetweenWaits' /\ ExpectedIsAsked' /\ HeardIsSo'
    BY <1>8 DEF lidVars, LidInv, LidTypeOK, InTransit, LateBetweenWaits, ExpectedIsAsked, HeardIsSo
  <2> QED  BY <1>8, <2>2, <2>3 DEF lidVars, LidInv
<1> QED  BY <1>1, <1>2, <1>3, <1>4, <1>5, <1>6, <1>7, <1>8 DEF LidNext

LEMMA LidSafe == LidInv => LidTypeOK /\ LidIsThere
  BY DEF LidInv, HeardIsSo, LidIsThere

\* Container (rover_container_node.py, _lid_execute_impl): a goal that reports success has
\* put the lid where it was asked to be, whatever answers of earlier goals are to come.
THEOREM LidGoalsTell == LidSpec => []LidIsThere
<1>1. LidSpec => []LidInv
  BY LidInvInit, LidInvStep, PTL DEF LidSpec
<1> QED  BY <1>1, LidSafe, PTL

-------------------------------------------------------------------------------
(***************************************************************************)
(* The power monitor.  Between two requests only frames of the last one    *)
(* are under way; a request for another command waits behind them, and     *)
(* hears nothing before they are gone.  So an answer is the request's own, *)
(* or one to the same command.                                             *)
(***************************************************************************)

BusFrame == [cmd : SwitchCmds, late : BOOLEAN]
AckFrame == [cmd : SwitchCmds, late : BOOLEAN, status : {"ok", "error"}]

AgreeBeside(sensors) == \A s \in Sensors \ (unsure \cup sensors) : s \in enabled <=> s \in reporting
Effective(cmd) == \A s \in cmd.of : s \in reporting <=> cmd.on
\* A command that changes nothing that is believed.
Harmless(cmd) == \A s \in cmd.of \ unsure : s \in enabled <=> cmd.on

FramesOf(cmd) == {f \in BusFrame : f.cmd = cmd}
AcksOf(cmd) == {a \in AckFrame : a.cmd = cmd /\ (a.status = "ok" => Effective(cmd))}
LateFramesOf(cmd) == {f \in FramesOf(cmd) : f.late}
LateAcksOf(cmd) == {a \in AcksOf(cmd) : a.late}

LeftOver(cmd) == Harmless(cmd) /\ bus \in Seq(LateFramesOf(cmd)) /\ acks \in Seq(LateAcksOf(cmd))

OldFrames == {f \in BusFrame : f.late /\ f.cmd # request.cmd /\ Harmless(f.cmd)}
OldAcks == {a \in AckFrame : a.late /\ a.cmd # request.cmd}
OwnFrame == [cmd |-> request.cmd, late |-> FALSE]
OwnAcks == {a \in AckFrame : a.cmd = request.cmd}

Verdict(said) ==
    IF said = "ok" THEN Effective(request.cmd) /\ AgreeBeside(request.cmd.of) ELSE AgreeBeside({})

OldOnly == ack = "none" /\ acks \in Seq(OldAcks) /\ bus \in Seq(OldFrames) /\ AgreeBeside(request.cmd.of)
OldThenOwn ==
    /\ ack = "none" /\ acks \in Seq(OldAcks) /\ AgreeBeside({})
    /\ \E old \in Seq(OldFrames) : bus = Append(old, OwnFrame)
OldThenAnswer ==
    /\ ack = "none" /\ bus = <<>>
    /\ \E old \in Seq(OldAcks), a \in OwnAcks : acks = Append(old, a) /\ Verdict(a.status)
Answered == ack # "none" /\ bus = <<>> /\ acks = <<>> /\ Verdict(ack)

Straight == OldOnly \/ OldThenOwn \/ OldThenAnswer \/ Answered

Crossed ==
    /\ bus \in Seq(FramesOf(request.cmd)) /\ acks \in Seq(AcksOf(request.cmd))
    /\ ack = "ok" => Effective(request.cmd)
    /\ AgreeBeside(request.cmd.of)

Idle == AgreeBeside({}) /\ \E cmd \in SwitchCmds : LeftOver(cmd)

AnswersAreOwn ==
    /\ request = NoRequest => Idle
    /\ request # NoRequest => IF request.crossing THEN Crossed ELSE Straight

AttemptsLeft ==
    starting /\ (request = NoRequest \/ request.caller # "startup") => attempts < Retries

PowerInv ==
    /\ PowerTypeOK /\ bus \in Seq(BusFrame) /\ acks \in Seq(AckFrame)
    /\ AnswersAreOwn /\ AttemptsLeft

NoCommand == [of |-> {}, on |-> TRUE]

LEMMA NothingIsLeftOver ==
    /\ NoCommand \in SwitchCmds /\ Harmless(NoCommand)
    /\ bus = <<>> /\ acks = <<>> => LeftOver(NoCommand)
<1>1. NoCommand \in SwitchCmds /\ Harmless(NoCommand)
  BY DEF NoCommand, SwitchCmds, Harmless
<1> QED  BY <1>1, NothingIsAnyKind DEF LeftOver

LEMMA PowerInvInit == PowerInit => PowerInv
<1> SUFFICES ASSUME PowerInit PROVE PowerInv
  OBVIOUS
<1>1. /\ starting = TRUE /\ attempts = 0 /\ enabled = {} /\ request = NoRequest /\ ack = "none"
      /\ bus = <<>> /\ acks = <<>> /\ reporting \in {{}, Sensors} /\ unsure = Sensors
  BY DEF PowerInit
<1>2. \A S : bus \in Seq(S) /\ acks \in Seq(S)
  BY <1>1
<1>3. attempts \in 0..Retries /\ attempts < Retries
  BY <1>1, PowerAssumption
<1>4. Len(bus) + Len(acks) <= BusFrames
  <2>1. Len(bus) = 0 /\ Len(acks) = 0
    BY <1>1
  <2> QED  BY <2>1, PowerAssumption
<1>5. PowerTypeOK
  BY <1>1, <1>3, <1>4 DEF PowerTypeOK
<1>6. AnswersAreOwn
  <2>1. AgreeBeside({})
    BY <1>1 DEF AgreeBeside
  <2> QED  BY <1>1, <2>1, NothingIsLeftOver DEF AnswersAreOwn, Idle
<1> QED  BY <1>2, <1>3, <1>5, <1>6 DEF PowerInv, AttemptsLeft

LEMMA PowerFacts ==
    ASSUME PowerInv
    PROVE  /\ PowerTypeOK /\ bus \in Seq(BusFrame) /\ acks \in Seq(AckFrame)
           /\ Len(bus) \in Nat /\ Len(acks) \in Nat /\ BusFrames \in Nat
           /\ Len(bus) + Len(acks) <= BusFrames
           /\ request # NoRequest => request.cmd \in SwitchCmds /\ request \in SensorRequests
  BY KindKept, PowerAssumption DEF PowerInv, PowerTypeOK, SensorRequests

\* A request begins: for the command whose frames are under way, or behind them.
LEMMA BeginKeeps ==
    ASSUME PowerInv, NEW cmd \in SwitchCmds, NEW caller \in {"startup", "service"}, Begin(cmd, caller),
           starting' = starting, attempts' \in 0..Retries,
           caller = "service" => attempts' = attempts
    PROVE  PowerInv'
<1>1. /\ request = NoRequest /\ Len(bus) + Len(acks) < BusFrames
      /\ request' = [cmd |-> cmd, caller |-> caller, crossing |-> Crossing(cmd)] /\ ack' = "none"
      /\ bus' \in {bus, Append(bus, [cmd |-> cmd, late |-> FALSE])}
      /\ UNCHANGED <<enabled, acks, reporting, unsure>>
  BY DEF Begin
<1> DEFINE own == [cmd |-> cmd, late |-> FALSE]
<1>2. Crossing(cmd) \in BOOLEAN
  BY DEF Crossing
<1>3. /\ request' \in SensorRequests /\ request' # NoRequest /\ request'.cmd = cmd /\ request'.caller = caller
      /\ request'.crossing = Crossing(cmd)
  BY <1>1, <1>2, PowerAssumption DEF SensorRequests
<1>4. own \in BusFrame /\ own = OwnFrame' /\ own.cmd = cmd
  BY <1>3 DEF BusFrame, OwnFrame
<1>5. PICK d \in SwitchCmds : LeftOver(d)
  BY <1>1 DEF PowerInv, AnswersAreOwn, Idle
<1>6. bus \in Seq(LateFramesOf(d)) /\ acks \in Seq(LateAcksOf(d)) /\ AgreeBeside({}) /\ Harmless(d)
  BY <1>1, <1>5 DEF LeftOver, PowerInv, AnswersAreOwn, Idle
<1>7. bus \in Seq(BusFrame) /\ acks \in Seq(AckFrame)
  BY PowerFacts
<1> HIDE DEF own
<1>8. bus' = bus \/ bus' = Append(bus, own)
  BY <1>1 DEF own
<1>9. bus' \in Seq(BusFrame) /\ acks' \in Seq(AckFrame) /\ Len(bus') + Len(acks') <= BusFrames
  <2>1. Append(bus, own) \in Seq(BusFrame) /\ Len(Append(bus, own)) = Len(bus) + 1
    BY <1>4, <1>7, KindKept
  <2>2. bus' \in Seq(BusFrame) /\ Len(bus') \in {Len(bus), Len(bus) + 1}
    BY <1>7, <1>8, <2>1
  <2> QED  BY <1>1, <1>7, <2>2, PowerFacts
<1>10. PowerTypeOK'
  BY <1>1, <1>3, <1>9, PowerFacts DEF PowerTypeOK
<1>11. AttemptsLeft'
  BY <1>1, <1>3 DEF PowerInv, AttemptsLeft
<1>12. AgreeBeside({})' /\ AgreeBeside(request.cmd.of)'
  BY <1>1, <1>6 DEF AgreeBeside
<1>13. Harmless(d)' /\ (Effective(d)' <=> Effective(d))
  BY <1>1, <1>6 DEF Harmless, Effective
<1>14. CASE Crossing(cmd)
  <2>1. cmd = d
    <3>1. PICK f \in ToSet(bus) \cup ToSet(acks) : f.cmd = cmd
      BY <1>14 DEF Crossing
    <3>2. f \in LateFramesOf(d) \/ f \in LateAcksOf(d)
      BY <1>6, <3>1, KindOfEach
    <3> QED  BY <3>1, <3>2 DEF LateFramesOf, FramesOf, LateAcksOf, AcksOf
  <2>2. bus' \in Seq(FramesOf(request.cmd)')
    <3>1. LateFramesOf(d) \subseteq FramesOf(request.cmd)' /\ own \in FramesOf(request.cmd)'
      BY <1>3, <1>4, <2>1 DEF LateFramesOf, FramesOf
    <3>2. bus \in Seq(FramesOf(request.cmd)')
      BY <1>6, <3>1, SeqMonotonic
    <3> QED  BY <1>8, <3>1, <3>2, KindKept
  <2>3. acks' \in Seq(AcksOf(request.cmd)')
    <3>1. LateAcksOf(d) \subseteq AcksOf(request.cmd)'
      BY <1>1, <1>3, <2>1 DEF LateAcksOf, AcksOf, Effective
    <3> QED  BY <1>1, <1>6, <3>1, SeqMonotonic
  <2>4. ack' # "ok"
    BY <1>1
  <2>5. Crossed'
    BY <1>12, <2>2, <2>3, <2>4 DEF Crossed
  <2> QED  BY <1>3, <1>9, <1>10, <1>11, <1>14, <2>5 DEF PowerInv, AnswersAreOwn
<1>15. CASE ~Crossing(cmd)
  <2>1. bus \in Seq(OldFrames')
    <3>1. CASE bus = <<>>
      BY <3>1, NothingIsAnyKind
    <3>2. CASE bus # <<>>
      <4>1. Head(bus) \in ToSet(bus) /\ Head(bus) \in LateFramesOf(d)
        BY <1>6, <3>2, SomeInQueue, KindKept
      <4>2. d # cmd
        BY <1>15, <4>1 DEF Crossing, LateFramesOf, FramesOf
      <4>3. LateFramesOf(d) \subseteq OldFrames'
        BY <1>3, <1>13, <4>2 DEF LateFramesOf, FramesOf, OldFrames
      <4> QED  BY <1>6, <4>3, SeqMonotonic
    <3> QED  BY <3>1, <3>2
  <2>2. acks' \in Seq(OldAcks')
    <3>1. CASE acks = <<>>
      BY <1>1, <3>1, NothingIsAnyKind
    <3>2. CASE acks # <<>>
      <4>1. Head(acks) \in ToSet(acks) /\ Head(acks) \in LateAcksOf(d)
        BY <1>6, <3>2, SomeInQueue, KindKept
      <4>2. d # cmd
        BY <1>15, <4>1 DEF Crossing, LateAcksOf, AcksOf
      <4>3. LateAcksOf(d) \subseteq OldAcks'
        BY <1>3, <4>2 DEF LateAcksOf, AcksOf, OldAcks
      <4> QED  BY <1>1, <1>6, <4>3, SeqMonotonic
    <3> QED  BY <3>1, <3>2
  <2>3. Straight'
    <3>1. ack' = "none"
      BY <1>1
    <3>2. CASE bus' = bus
      BY <1>12, <2>1, <2>2, <3>1, <3>2 DEF Straight, OldOnly
    <3>3. CASE bus' = Append(bus, own)
      BY <1>4, <1>12, <2>1, <2>2, <3>1, <3>3 DEF Straight, OldThenOwn
    <3> QED  BY <1>8, <3>2, <3>3
  <2> QED  BY <1>3, <1>9, <1>10, <1>11, <1>15, <2>3 DEF PowerInv, AnswersAreOwn
<1> QED  BY <1>14, <1>15

LEMMA BeginsKeep ==
    ASSUME PowerInv,
           \/ OnStartupEnable
           \/ \E on \in BOOLEAN : OnAllEnable(on) \/ \E s \in Sensors : OnSensorEnable(s, on)
    PROVE  PowerInv'
<1>1. \A on \in BOOLEAN : \A S \in SUBSET Sensors : Switches(S, on) \in SwitchCmds
  BY DEF Switches, SwitchCmds
<1>2. attempts \in 0..Retries
  BY PowerFacts DEF PowerTypeOK
<1>3. CASE OnStartupEnable
  <2>1. /\ starting /\ attempts' = attempts + 1 /\ starting' = starting
        /\ Begin(Switches(Sensors, TRUE), "startup")
    BY <1>3 DEF OnStartupEnable
  <2>2. request = NoRequest
    BY <2>1 DEF Begin
  <2>3. attempts < Retries
    BY <2>1, <2>2 DEF PowerInv, AttemptsLeft
  <2>4. attempts' \in 0..Retries
    BY <1>2, <2>1, <2>3, PowerAssumption
  <2>5. Switches(Sensors, TRUE) \in SwitchCmds
    BY <1>1
  <2> QED  BY <2>1, <2>4, <2>5, BeginKeeps
<1>4. ASSUME NEW on \in BOOLEAN, OnAllEnable(on) PROVE PowerInv'
  <2>1. Switches(Sensors, on) \in SwitchCmds
    BY <1>1
  <2> QED  BY <1>2, <1>4, <2>1, BeginKeeps DEF OnAllEnable
<1>5. ASSUME NEW on \in BOOLEAN, NEW s \in Sensors, OnSensorEnable(s, on) PROVE PowerInv'
  <2>1. Switches({s}, on) \in SwitchCmds
    BY <1>1
  <2> QED  BY <1>2, <1>5, <2>1, BeginKeeps DEF OnSensorEnable
<1> QED  BY <1>3, <1>4, <1>5

LEMMA PendKept ==
    ASSUME NEW S, NEW T, NEW q \in Seq(S), \A x \in S : [x EXCEPT !.late = TRUE] \in T
    PROVE  Pend(q) \in Seq(T) /\ Len(Pend(q)) = Len(q)
<1>1. \A i \in DOMAIN q : Pend(q)[i] = [q[i] EXCEPT !.late = TRUE]
  BY DEF Pend
<1>2. Pend(q) = [i \in DOMAIN q |-> Pend(q)[i]]
  BY <1>1 DEF Pend
<1> QED  BY <1>1, <1>2, KindMapped

\* A request ends with nothing under way but its own frames.
LEMMA EndKeeps ==
    ASSUME PowerInv, EndRequest, NEW cmd \in SwitchCmds, bus \in Seq(FramesOf(cmd)), acks \in Seq(AcksOf(cmd)),
           Harmless(cmd)', AgreeBeside({})', enabled' \subseteq Sensors, unsure' \subseteq Sensors,
           starting' \in BOOLEAN, attempts' = attempts, starting' => attempts < Retries
    PROVE  PowerInv'
<1>1. request' = NoRequest /\ bus' = Pend(bus) /\ acks' = Pend(acks) /\ UNCHANGED <<ack, reporting>>
  BY DEF EndRequest
<1>2. \A f \in FramesOf(cmd) : [f EXCEPT !.late = TRUE] \in LateFramesOf(cmd)
  BY DEF FramesOf, LateFramesOf, BusFrame
<1>3. \A a \in AcksOf(cmd) : [a EXCEPT !.late = TRUE] \in LateAcksOf(cmd)
  BY DEF AcksOf, LateAcksOf, AckFrame
<1>4. /\ bus' \in Seq(LateFramesOf(cmd)) /\ Len(bus') = Len(bus)
      /\ acks' \in Seq(LateAcksOf(cmd)) /\ Len(acks') = Len(acks)
  BY <1>1, <1>2, <1>3, PendKept
<1>5. /\ LateFramesOf(cmd)' = LateFramesOf(cmd) /\ LateAcksOf(cmd)' = LateAcksOf(cmd)
      /\ LateFramesOf(cmd) \subseteq BusFrame /\ LateAcksOf(cmd) \subseteq AckFrame
  BY <1>1 DEF LateFramesOf, FramesOf, LateAcksOf, AcksOf, Effective
<1>6. bus' \in Seq(BusFrame) /\ acks' \in Seq(AckFrame)
  BY <1>4, <1>5, SeqMonotonic
<1>7. LeftOver(cmd)'
  BY <1>4, <1>5 DEF LeftOver
<1>8. AnswersAreOwn'
  BY <1>1, <1>7 DEF AnswersAreOwn, Idle
<1>9. PowerTypeOK'
  BY <1>1, <1>4, PowerFacts DEF PowerTypeOK
<1>10. AttemptsLeft'
  BY DEF AttemptsLeft
<1> QED  BY <1>6, <1>8, <1>9, <1>10 DEF PowerInv

LEMMA EndOfStartup ==
    ASSUME PowerInv, request # NoRequest, NEW ok \in BOOLEAN, EndStartup(ok)
    PROVE  starting' \in BOOLEAN /\ attempts' = attempts /\ (starting' => attempts < Retries)
<1>1. attempts \in Nat /\ Retries \in Nat /\ starting \in BOOLEAN
  BY PowerFacts, PowerAssumption DEF PowerTypeOK
<1>2. /\ attempts' = attempts /\ starting' \in BOOLEAN
      /\ starting' => starting /\ (request.caller # "startup" \/ ~(attempts >= Retries))
  BY <1>1 DEF EndStartup
<1>3. starting /\ request.caller # "startup" => attempts < Retries
  BY DEF PowerInv, AttemptsLeft
<1>4. ~(attempts >= Retries) => attempts < Retries
  BY <1>1
<1> QED  BY <1>2, <1>3, <1>4

\* An answer is to the request: of its own, or of an earlier one to the same command.
LEMMA AnsweredKeeps == ASSUME PowerInv, RequestAnswered PROVE PowerInv'
<1> DEFINE cmd == request.cmd
<1>1. /\ request # NoRequest /\ ack # "none" /\ EndStartup(ack = "ok") /\ EndRequest
      /\ enabled' = Committed(cmd, ack) /\ reporting' = reporting
      /\ unsure' = IF ack = "ok" THEN unsure \ cmd.of
                   ELSE IF request.crossing THEN unsure \cup cmd.of ELSE unsure
  BY DEF RequestAnswered, EndRequest
<1>2. cmd \in SwitchCmds /\ cmd.of \subseteq Sensors /\ cmd.on \in BOOLEAN /\ request.crossing \in BOOLEAN
  BY <1>1, PowerFacts DEF SwitchCmds, SensorRequests
<1>3. /\ enabled \subseteq Sensors /\ unsure \subseteq Sensors /\ reporting \subseteq Sensors
      /\ ack \in {"none", "ok", "error"}
  BY PowerFacts DEF PowerTypeOK
<1>4. enabled' \subseteq Sensors /\ unsure' \subseteq Sensors
  BY <1>1, <1>2, <1>3 DEF Committed, After
<1>5. starting' \in BOOLEAN /\ attempts' = attempts /\ (starting' => attempts < Retries)
  <2>1. (ack = "ok") \in BOOLEAN
    OBVIOUS
  <2> QED  BY <1>1, <2>1, EndOfStartup
<1> HIDE DEF cmd
<1>6. IF request.crossing THEN Crossed ELSE Answered
  BY <1>1 DEF PowerInv, AnswersAreOwn, Straight, OldOnly, OldThenOwn, OldThenAnswer
<1>7. bus \in Seq(FramesOf(cmd)) /\ acks \in Seq(AcksOf(cmd))
  BY <1>2, <1>6, NothingIsAnyKind DEF Crossed, Answered, cmd
<1>8. CASE ack = "ok"
  <2>1. Effective(cmd) /\ AgreeBeside(cmd.of)
    BY <1>2, <1>6, <1>8 DEF Crossed, Answered, Verdict, cmd
  <2>2. enabled' = After(cmd, enabled) /\ unsure' = unsure \ cmd.of
    BY <1>1, <1>8 DEF Committed
  <2>3. \A s \in cmd.of : s \in enabled' <=> cmd.on
    BY <2>2 DEF After
  <2>4. \A s \in Sensors \ cmd.of : s \in enabled' <=> s \in enabled
    BY <2>2 DEF After
  <2>5. AgreeBeside({})'
    BY <1>1, <2>1, <2>2, <2>3, <2>4 DEF AgreeBeside, Effective
  <2>6. \A c : c = cmd => Harmless(c)'
    BY <2>3 DEF Harmless
  <2> QED  BY <1>1, <1>2, <1>4, <1>5, <1>7, <2>5, <2>6, EndKeeps
<1>9. CASE ack # "ok"
  <2>0. enabled' = enabled
    BY <1>1, <1>9 DEF Committed
  <2>1. CASE request.crossing
    <3>1. unsure' = unsure \cup cmd.of /\ AgreeBeside(cmd.of)
      BY <1>1, <1>6, <1>9, <2>1 DEF Crossed, cmd
    <3>2. AgreeBeside({})'
      BY <1>1, <2>0, <3>1 DEF AgreeBeside
    <3>3. \A c : c = cmd => Harmless(c)'
      BY <3>1 DEF Harmless
    <3> QED  BY <1>1, <1>2, <1>4, <1>5, <1>7, <3>2, <3>3, EndKeeps
  <2>2. CASE ~request.crossing
    <3>1. unsure' = unsure /\ AgreeBeside({}) /\ bus = <<>> /\ acks = <<>>
      BY <1>1, <1>6, <1>9, <2>2 DEF Answered, Verdict
    <3>2. AgreeBeside({})'
      BY <1>1, <2>0, <3>1 DEF AgreeBeside
    <3>3. NoCommand \in SwitchCmds /\ Harmless(NoCommand)'
      BY NothingIsLeftOver DEF Harmless, NoCommand
    <3>4. bus \in Seq(FramesOf(NoCommand)) /\ acks \in Seq(AcksOf(NoCommand))
      BY <3>1, NothingIsAnyKind
    <3> QED  BY <1>1, <1>4, <1>5, <3>2, <3>3, <3>4, EndKeeps
  <2> QED  BY <1>2, <2>1, <2>2
<1> QED  BY <1>8, <1>9

\* What is not late is the request's own.
LEMMA NothingLateIsLeft ==
    ASSUME PowerInv, request # NoRequest, ack = "none", \A f \in ToSet(bus) \cup ToSet(acks) : ~f.late
    PROVE  /\ bus \in Seq(FramesOf(request.cmd)) /\ acks \in Seq(AcksOf(request.cmd))
           /\ AgreeBeside(request.cmd.of)
<1>1. request.cmd \in SwitchCmds
  BY PowerFacts
<1>2. AgreeBeside({}) => AgreeBeside(request.cmd.of)
  BY DEF AgreeBeside
<1>4. acks \in Seq(OldAcks) => acks = <<>>
  <2>1. \A a \in OldAcks : a.late
    BY DEF OldAcks
  <2> QED  BY <2>1, SomeInQueue, KindKept
<1>5. bus \in Seq(OldFrames) => bus = <<>>
  <2>1. \A f \in OldFrames : f.late
    BY DEF OldFrames
  <2> QED  BY <2>1, SomeInQueue, KindKept
<1>6. CASE request.crossing
  BY <1>6 DEF PowerInv, AnswersAreOwn, Crossed
<1>7. CASE OldOnly
  BY <1>4, <1>5, <1>7, NothingIsAnyKind DEF OldOnly
<1>8. CASE OldThenOwn
  <2>1. PICK old \in Seq(OldFrames) : bus = Append(old, OwnFrame)
    BY <1>8 DEF OldThenOwn
  <2>2. OwnFrame \in FramesOf(request.cmd)
    BY <1>1 DEF OwnFrame, FramesOf, BusFrame
  <2>3. old = <<>>
    <3>1. SUFFICES ASSUME old # <<>> PROVE FALSE
      OBVIOUS
    <3>2. 1 \in DOMAIN bus /\ bus[1] \in OldFrames
      BY <2>1, <3>1, OldLeads
    <3> QED  BY <3>2 DEF OldFrames, ToSet
  <2>4. bus \in Seq(FramesOf(request.cmd))
    <3>1. <<>> \in Seq(FramesOf(request.cmd))
      BY NothingIsAnyKind
    <3> QED  BY <2>1, <2>2, <2>3, <3>1, KindKept
  <2> QED  BY <1>2, <1>4, <1>8, <2>4, NothingIsAnyKind DEF OldThenOwn
<1>9. CASE OldThenAnswer
  <2>1. PICK old \in Seq(OldAcks), a \in OwnAcks : acks = Append(old, a) /\ Verdict(a.status)
    BY <1>9 DEF OldThenAnswer
  <2>2. a \in AcksOf(request.cmd) /\ AgreeBeside(request.cmd.of)
    BY <1>2, <2>1 DEF OwnAcks, AcksOf, Verdict
  <2>3. old = <<>>
    <3>1. SUFFICES ASSUME old # <<>> PROVE FALSE
      OBVIOUS
    <3>2. 1 \in DOMAIN acks /\ acks[1] \in OldAcks
      BY <2>1, <3>1, OldLeads
    <3> QED  BY <3>2 DEF OldAcks, ToSet
  <2>4. acks \in Seq(AcksOf(request.cmd))
    <3>1. <<>> \in Seq(AcksOf(request.cmd))
      BY NothingIsAnyKind
    <3> QED  BY <2>1, <2>2, <2>3, <3>1, KindKept
  <2> QED  BY <1>9, <2>2, <2>4, NothingIsAnyKind DEF OldThenAnswer
<1>10. request.crossing \/ Straight
  BY DEF PowerInv, AnswersAreOwn
<1> QED  BY <1>6, <1>7, <1>8, <1>9, <1>10 DEF Straight, Answered

LEMMA TimeoutKeeps == ASSUME PowerInv, RequestTimesOut PROVE PowerInv'
<1> DEFINE cmd == request.cmd
<1>1. /\ request # NoRequest /\ ack = "none" /\ EndStartup(FALSE) /\ EndRequest
      /\ \A f \in ToSet(bus) \cup ToSet(acks) : ~f.late
      /\ enabled' = enabled /\ unsure' = unsure \cup cmd.of /\ reporting' = reporting
  BY DEF RequestTimesOut, EndRequest, Committed
<1>2. cmd \in SwitchCmds /\ cmd.of \subseteq Sensors
  BY <1>1, PowerFacts DEF SwitchCmds
<1>3. enabled' \subseteq Sensors /\ unsure' \subseteq Sensors
  BY <1>1, <1>2, PowerFacts DEF PowerTypeOK
<1>4. starting' \in BOOLEAN /\ attempts' = attempts /\ (starting' => attempts < Retries)
  BY <1>1, EndOfStartup
<1>5. bus \in Seq(FramesOf(cmd)) /\ acks \in Seq(AcksOf(cmd)) /\ AgreeBeside(cmd.of)
  BY <1>1, NothingLateIsLeft
<1>6. AgreeBeside({})'
  BY <1>1, <1>5 DEF AgreeBeside
<1> HIDE DEF cmd
<1>7. \A c : c = cmd => Harmless(c)'
  BY <1>1 DEF Harmless
<1> QED  BY <1>1, <1>2, <1>3, <1>4, <1>5, <1>6, <1>7, EndKeeps

LEMMA ExitKeeps == ASSUME PowerInv, ExitAndStart PROVE PowerInv'
<1> DEFINE off == Switches(Sensors, FALSE)
           last == [cmd |-> off, late |-> TRUE]
<1>1. /\ request = NoRequest /\ bus = <<>> /\ acks = <<>> /\ bus' \in {<<>>, <<last>>}
      /\ starting' = TRUE /\ attempts' = 0 /\ enabled' = {} /\ unsure' = Sensors
      /\ UNCHANGED <<request, ack, acks, reporting>>
  BY DEF ExitAndStart
<1>2. off \in SwitchCmds /\ off.of = Sensors
  BY DEF SwitchCmds, Switches
<1> HIDE DEF off
<1>3. last \in BusFrame /\ last \in LateFramesOf(off)
  BY <1>2 DEF BusFrame, LateFramesOf, FramesOf
<1> HIDE DEF last
<1>4. ASSUME NEW S, last \in S PROVE bus' \in Seq(S) /\ Len(bus') \in {0, 1}
  <2>1. <<>> \in Seq(S) /\ Len(<<>>) = 0
    BY NothingIsAnyKind
  <2>2. <<last>> \in Seq(S) /\ Len(<<last>>) = 1
    BY <1>4
  <2> QED  BY <1>1, <2>1, <2>2
<1>5. bus' \in Seq(BusFrame) /\ bus' \in Seq(LateFramesOf(off)) /\ Len(bus') \in {0, 1}
  BY <1>3, <1>4
<1>6. acks' \in Seq(AckFrame) /\ acks' \in Seq(LateAcksOf(off)') /\ Len(acks') = 0
  BY <1>1, NothingIsAnyKind
<1>7. LateFramesOf(off)' = LateFramesOf(off)
  BY DEF LateFramesOf, FramesOf, off
<1>8. AgreeBeside({})' /\ Harmless(off)'
  BY <1>1, <1>2 DEF AgreeBeside, Harmless, off
<1>9. LeftOver(off)'
  BY <1>5, <1>6, <1>7, <1>8 DEF LeftOver, off
<1>10. AnswersAreOwn'
  BY <1>1, <1>2, <1>8, <1>9 DEF AnswersAreOwn, Idle
<1>11. attempts' \in 0..Retries /\ attempts' < Retries /\ Len(bus') + Len(acks') <= BusFrames
  <2>1. attempts' \in 0..Retries /\ attempts' < Retries
    BY <1>1, PowerAssumption
  <2>2. Len(bus') + Len(acks') <= BusFrames
    BY <1>5, <1>6, PowerAssumption
  <2> QED  BY <2>1, <2>2
<1>12. PowerTypeOK'
  BY <1>1, <1>11, PowerFacts DEF PowerTypeOK
<1> QED  BY <1>5, <1>6, <1>10, <1>11, <1>12 DEF PowerInv, AttemptsLeft

LEMMA OnResponseKeeps == ASSUME PowerInv, OnResponse PROVE PowerInv'
<1> DEFINE a == Head(acks)
<1>1. /\ acks # <<>> /\ acks' = Tail(acks)
      /\ ack' = IF request # NoRequest /\ a.cmd = request.cmd THEN a.status ELSE ack
      /\ UNCHANGED <<starting, attempts, enabled, request, bus, reporting, unsure>>
  BY DEF OnResponse
<1>2. a \in AckFrame /\ acks' \in Seq(AckFrame) /\ Len(acks') = Len(acks) - 1
  BY <1>1, PowerFacts, KindKept
<1>3. Len(bus') + Len(acks') <= BusFrames
  BY <1>1, <1>2, PowerFacts
<1>4. ack' \in {"none", "ok", "error"} /\ a.status \in {"ok", "error"}
  BY <1>1, <1>2, PowerFacts DEF PowerTypeOK, AckFrame
<1> HIDE DEF a
<1>5. PowerTypeOK'
  BY <1>1, <1>3, <1>4, PowerFacts DEF PowerTypeOK
<1>6. AttemptsLeft' /\ bus' \in Seq(BusFrame)
  BY <1>1 DEF PowerInv, AttemptsLeft
<1>7. \A S : AgreeBeside(S)' <=> AgreeBeside(S)
  BY <1>1 DEF AgreeBeside
<1>8. /\ FramesOf(request.cmd)' = FramesOf(request.cmd) /\ AcksOf(request.cmd)' = AcksOf(request.cmd)
      /\ OldFrames' = OldFrames /\ OldAcks' = OldAcks /\ OwnAcks' = OwnAcks /\ OwnFrame' = OwnFrame
      /\ (Effective(request.cmd)' <=> Effective(request.cmd))
      /\ (AgreeBeside(request.cmd.of)' <=> AgreeBeside(request.cmd.of))
      /\ (AgreeBeside({})' <=> AgreeBeside({}))
  BY <1>1 DEF FramesOf, AcksOf, Effective, OldFrames, Harmless, OldAcks, OwnAcks, OwnFrame, AgreeBeside
<1>9. ASSUME request = NoRequest PROVE Idle'
  <2>1. AgreeBeside({})'
    BY <1>8, <1>9 DEF PowerInv, AnswersAreOwn, Idle
  <2>2. PICK d \in SwitchCmds : LeftOver(d)
    BY <1>9 DEF PowerInv, AnswersAreOwn, Idle
  <2>3. acks' \in Seq(LateAcksOf(d))
    BY <1>1, <2>2, KindKept DEF LeftOver
  <2>4. LateAcksOf(d)' = LateAcksOf(d) /\ LateFramesOf(d)' = LateFramesOf(d) /\ (Harmless(d)' <=> Harmless(d))
    BY <1>1 DEF LateAcksOf, AcksOf, Effective, LateFramesOf, FramesOf, Harmless
  <2>5. LeftOver(d)'
    BY <1>1, <2>2, <2>3, <2>4 DEF LeftOver
  <2> QED  BY <2>1, <2>5 DEF Idle
<1>10. ASSUME request # NoRequest, Crossed PROVE Crossed'
  <2>1. a \in AcksOf(request.cmd) /\ acks' \in Seq(AcksOf(request.cmd))
    BY <1>1, <1>10, KindKept DEF Crossed, a
  <2>2. ack' = a.status /\ (a.status = "ok" => Effective(request.cmd))
    BY <1>1, <1>10, <2>1 DEF AcksOf
  <2> QED  BY <1>1, <1>8, <1>10, <2>1, <2>2 DEF Crossed
<1>11. ASSUME request # NoRequest, Straight PROVE Straight'
  <2>1. acks \in Seq(OldAcks) => acks' \in Seq(OldAcks)' /\ ack' = ack
    <3> SUFFICES ASSUME acks \in Seq(OldAcks) PROVE acks' \in Seq(OldAcks)' /\ ack' = ack
      OBVIOUS
    <3>1. a \in OldAcks /\ acks' \in Seq(OldAcks)
      BY <1>1, KindKept DEF a
    <3>2. a.cmd # request.cmd
      BY <3>1 DEF OldAcks
    <3> QED  BY <1>1, <1>8, <3>1, <3>2
  <2>2. CASE OldOnly
    BY <1>1, <1>8, <2>1, <2>2 DEF OldOnly, Straight
  <2>3. CASE OldThenOwn
    <3>1. bus' = bus /\ AgreeBeside({})' /\ ack' = "none" /\ acks' \in Seq(OldAcks)'
      BY <1>1, <1>8, <2>1, <2>3 DEF OldThenOwn
    <3>2. \E old \in Seq(OldFrames) : bus = Append(old, OwnFrame)
      BY <2>3 DEF OldThenOwn
    <3>3. OldThenOwn'
      BY <1>8, <3>1, <3>2 DEF OldThenOwn
    <3> QED  BY <3>3 DEF Straight
  <2>4. CASE OldThenAnswer
    <3>1. PICK old \in Seq(OldAcks), own \in OwnAcks : acks = Append(old, own) /\ Verdict(own.status)
      BY <2>4 DEF OldThenAnswer
    <3>2. Verdict(own.status)'
      BY <1>8, <3>1 DEF Verdict
    <3>3. CASE old # <<>>
      <4>1. Tail(old) \in Seq(OldAcks) /\ Head(old) \in OldAcks
        BY <3>1, <3>3, KindKept
      <4>2. acks' = Append(Tail(old), own) /\ a = Head(old)
        BY <1>1, <3>1, <3>3, HeadOfTwoKinds DEF a
      <4>3. ack' = ack
        BY <1>1, <4>1, <4>2 DEF OldAcks
      <4>4. bus' = <<>> /\ ack' = "none"
        BY <1>1, <2>4, <4>3 DEF OldThenAnswer
      <4>5. OldThenAnswer'
        BY <1>8, <3>1, <3>2, <4>1, <4>2, <4>4 DEF OldThenAnswer
      <4> QED  BY <4>5 DEF Straight
    <3>4. CASE old = <<>>
      <4>1. acks' = <<>> /\ a = own
        BY <1>1, <3>1, <3>4, HeadOfTwoKinds DEF a
      <4>2. ack' = own.status
        BY <1>1, <1>11, <3>1, <4>1 DEF OwnAcks
      <4>3. ack' # "none"
        BY <1>4, <4>1, <4>2
      <4>4. bus' = <<>>
        BY <1>1, <2>4 DEF OldThenAnswer
      <4>5. Answered'
        BY <3>2, <4>1, <4>2, <4>3, <4>4 DEF Answered
      <4> QED  BY <4>5 DEF Straight
    <3> QED  BY <3>3, <3>4
  <2>5. CASE Answered
    BY <1>1, <2>5 DEF Answered
  <2> QED  BY <1>11, <2>2, <2>3, <2>4, <2>5 DEF Straight
<1>12. AnswersAreOwn'
  BY <1>1, <1>9, <1>10, <1>11 DEF PowerInv, AnswersAreOwn
<1> QED  BY <1>2, <1>5, <1>6, <1>12 DEF PowerInv

\* What one command does: its answer, if one is sent, tells what became of it.
LEMMA SensorBoardKinds ==
    ASSUME PowerInv, SensorBoardActs
    PROVE  /\ bus # <<>> /\ bus' = Tail(bus) /\ Head(bus) \in BusFrame
           /\ UNCHANGED <<starting, attempts, enabled, request, ack, unsure>>
           /\ reporting' \subseteq Sensors /\ reporting' \in {reporting, After(Head(bus).cmd, reporting)}
           /\ \/ acks' = acks
              \/ \E a \in AckFrame :
                    /\ acks' = Append(acks, a) /\ a.cmd = Head(bus).cmd /\ a.late = Head(bus).late
                    /\ reporting' = IF a.status = "ok" THEN After(Head(bus).cmd, reporting) ELSE reporting
<1>1. /\ bus # <<>> /\ bus' = Tail(bus) /\ Head(bus) \in BusFrame
      /\ UNCHANGED <<starting, attempts, enabled, request, ack, unsure>>
  BY PowerFacts, KindKept DEF SensorBoardActs
<1>2. Head(bus).cmd \in SwitchCmds /\ Head(bus).late \in BOOLEAN /\ reporting \subseteq Sensors
  BY <1>1, PowerFacts DEF BusFrame, PowerTypeOK
<1>3. After(Head(bus).cmd, reporting) \subseteq Sensors
  BY <1>2 DEF After, SwitchCmds
<1>4. PICK said \in {"ok", "error"} :
          /\ reporting' = IF said = "ok" THEN After(Head(bus).cmd, reporting) ELSE reporting
          /\ acks' \in {acks, Append(acks, [cmd |-> Head(bus).cmd, late |-> Head(bus).late,
                                            status |-> said])}
  BY DEF SensorBoardActs
<1> DEFINE a == [cmd |-> Head(bus).cmd, late |-> Head(bus).late, status |-> said]
<1>5. a \in AckFrame /\ a.cmd = Head(bus).cmd /\ a.late = Head(bus).late /\ a.status = said
  BY <1>2 DEF AckFrame
<1>6. acks' = acks \/ acks' = Append(acks, a)
  BY <1>4
<1> HIDE DEF a
<1>7. \/ acks' = acks
      \/ \E b \in AckFrame :
                    /\ acks' = Append(acks, b) /\ b.cmd = Head(bus).cmd /\ b.late = Head(bus).late
                    /\ reporting' = IF b.status = "ok" THEN After(Head(bus).cmd, reporting) ELSE reporting
  BY <1>4, <1>5, <1>6
<1>8. reporting' \subseteq Sensors /\ reporting' \in {reporting, After(Head(bus).cmd, reporting)}
  BY <1>2, <1>3, <1>4
<1> QED  BY <1>1, <1>7, <1>8

LEMMA AfterDoes ==
    ASSUME NEW cmd, NEW sensors
    PROVE  /\ \A s \in cmd.of : s \in After(cmd, sensors) <=> cmd.on
           /\ \A s : s \notin cmd.of => (s \in After(cmd, sensors) <=> s \in sensors)
  BY DEF After

LEMMA SensorBoardKeeps == ASSUME PowerInv, SensorBoardActs PROVE PowerInv'
<1> DEFINE f == Head(bus)
<1>1. /\ bus # <<>> /\ bus' = Tail(bus) /\ f \in BusFrame
      /\ UNCHANGED <<starting, attempts, enabled, request, ack, unsure>>
      /\ reporting' \subseteq Sensors /\ reporting' \in {reporting, After(f.cmd, reporting)}
  BY SensorBoardKinds
<1>2. \/ acks' = acks
      \/ \E a \in AckFrame :
            /\ acks' = Append(acks, a) /\ a.cmd = f.cmd /\ a.late = f.late
            /\ reporting' = IF a.status = "ok" THEN After(f.cmd, reporting) ELSE reporting
  BY SensorBoardKinds
<1>3. bus' \in Seq(BusFrame) /\ Len(bus') = Len(bus) - 1
  BY <1>1, PowerFacts, KindKept
<1>4. acks' \in Seq(AckFrame) /\ Len(acks') \in {Len(acks), Len(acks) + 1}
  <2>1. \A a \in AckFrame : Append(acks, a) \in Seq(AckFrame) /\ Len(Append(acks, a)) = Len(acks) + 1
    BY PowerFacts, KindKept
  <2>2. acks' = acks \/ \E a \in AckFrame : acks' = Append(acks, a)
    BY <1>2
  <2> QED  BY <2>1, <2>2, PowerFacts
<1>5. Len(bus') + Len(acks') <= BusFrames
  BY <1>3, <1>4, PowerFacts
<1>6. PowerTypeOK' /\ AttemptsLeft'
  <2>1. PowerTypeOK'
    BY <1>1, <1>5, PowerFacts DEF PowerTypeOK
  <2>2. AttemptsLeft'
    BY <1>1 DEF PowerInv, AttemptsLeft
  <2> QED  BY <2>1, <2>2
<1> HIDE DEF f
<1>7. /\ \A s \in f.cmd.of : s \in reporting' => f.cmd.on \/ s \in reporting
      /\ \A s : s \notin f.cmd.of => (s \in reporting' <=> s \in reporting)
  BY <1>1, AfterDoes
<1>8. ASSUME reporting' = After(f.cmd, reporting) PROVE \A s \in f.cmd.of : s \in reporting' <=> f.cmd.on
  BY <1>8, AfterDoes
<1>9. ASSUME NEW S, Harmless(f.cmd), AgreeBeside(S) PROVE \A T : T = S => AgreeBeside(T)'
  <2>1. CASE reporting' = reporting
    BY <1>1, <1>9, <2>1 DEF AgreeBeside
  <2>2. CASE reporting' = After(f.cmd, reporting)
    BY <1>1, <1>7, <1>8, <1>9, <2>2 DEF AgreeBeside, Harmless
  <2> QED  BY <1>1, <2>1, <2>2
<1>10. AgreeBeside(f.cmd.of) => \A T : T = f.cmd.of => AgreeBeside(T)'
  BY <1>1, <1>7 DEF AgreeBeside
<1>11. ASSUME Effective(f.cmd) PROVE \A c : c = f.cmd => Effective(c)'
  <2>1. CASE reporting' = reporting
    BY <1>11, <2>1 DEF Effective
  <2>2. CASE reporting' = After(f.cmd, reporting)
    BY <1>8, <2>2 DEF Effective
  <2> QED  BY <1>1, <2>1, <2>2
<1>12. ASSUME NEW c, c = f.cmd, acks \in Seq(AcksOf(c)) PROVE acks' \in Seq(AcksOf(c)')
  <2>1. AcksOf(c) \subseteq AcksOf(c)'
    BY <1>11, <1>12 DEF AcksOf
  <2>2. acks \in Seq(AcksOf(c)')
    BY <1>12, <2>1, SeqMonotonic
  <2>3. ASSUME NEW a \in AckFrame, acks' = Append(acks, a), a.cmd = f.cmd,
               reporting' = IF a.status = "ok" THEN After(f.cmd, reporting) ELSE reporting
        PROVE  acks' \in Seq(AcksOf(c)')
    <3>1. a.status = "ok" => Effective(c)'
      BY <1>8, <1>12, <2>3 DEF Effective
    <3>2. a \in AcksOf(c)'
      BY <1>12, <2>3, <3>1 DEF AcksOf
    <3> QED  BY <2>2, <2>3, <3>2, KindKept
  <2> QED  BY <1>2, <2>2, <2>3
<1>13. ASSUME request = NoRequest PROVE Idle'
  <2>1. PICK d \in SwitchCmds : LeftOver(d)
    BY <1>13 DEF PowerInv, AnswersAreOwn, Idle
  <2>2. f \in LateFramesOf(d) /\ bus' \in Seq(LateFramesOf(d)) /\ Harmless(d) /\ acks \in Seq(LateAcksOf(d))
    BY <1>1, <2>1, KindKept DEF LeftOver, f
  <2>3. f.cmd = d /\ f.late
    BY <2>2 DEF LateFramesOf, FramesOf
  <2>4. AgreeBeside({})'
    <3>1. AgreeBeside({}) /\ Harmless(f.cmd)
      BY <1>13, <2>2, <2>3 DEF PowerInv, AnswersAreOwn, Idle
    <3> QED  BY <1>9, <3>1
  <2>5. acks' \in Seq(AcksOf(d)')
    <3>1. LateAcksOf(d) \subseteq AcksOf(d)
      BY DEF LateAcksOf
    <3>2. acks \in Seq(AcksOf(d))
      BY <2>2, <3>1, SeqMonotonic
    <3> QED  BY <1>12, <2>3, <3>2
  <2>6. acks' \in Seq({a \in AckFrame : a.late})
    <3>1. LateAcksOf(d) \subseteq {a \in AckFrame : a.late}
      BY DEF LateAcksOf, AcksOf
    <3>2. acks \in Seq({a \in AckFrame : a.late})
      BY <2>2, <3>1, SeqMonotonic
    <3>3. ASSUME NEW a \in AckFrame, acks' = Append(acks, a), a.late = f.late
          PROVE  acks' \in Seq({b \in AckFrame : b.late})
      <4>1. a \in {b \in AckFrame : b.late}
        BY <2>3, <3>3
      <4> QED  BY <3>2, <3>3, <4>1, KindKept
    <3> QED  BY <1>2, <3>2, <3>3
  <2>7. acks' \in Seq(LateAcksOf(d)')
    <3>1. acks' \in Seq(AcksOf(d)' \cap {a \in AckFrame : a.late})
      BY <2>5, <2>6, BothKinds
    <3>2. AcksOf(d)' \cap {a \in AckFrame : a.late} \subseteq LateAcksOf(d)'
      BY DEF LateAcksOf
    <3> QED  BY <3>1, <3>2, SeqMonotonic
  <2>8. bus' \in Seq(LateFramesOf(d)') /\ Harmless(d)'
    BY <1>1, <2>2 DEF LateFramesOf, FramesOf, Harmless
  <2>9. LeftOver(d)'
    BY <2>7, <2>8 DEF LeftOver
  <2> QED  BY <2>4, <2>9 DEF Idle
<1>14. ASSUME request # NoRequest, Crossed PROVE Crossed'
  <2> DEFINE cmd == request.cmd
  <2>1. f \in FramesOf(cmd) /\ bus' \in Seq(FramesOf(cmd))
    BY <1>1, <1>14, KindKept DEF Crossed, f
  <2>2. f.cmd = cmd
    BY <2>1 DEF FramesOf
  <2>3. acks' \in Seq(AcksOf(request.cmd)')
    <3>1. acks \in Seq(AcksOf(f.cmd))
      BY <1>14, <2>2 DEF Crossed
    <3>2. \A c : c = request'.cmd => c = f.cmd
      BY <1>1, <2>2
    <3>3. ASSUME NEW c, c = request'.cmd PROVE AcksOf(c)' = AcksOf(request.cmd)'
      BY <3>3 DEF AcksOf, Effective
    <3>4. ASSUME NEW c, c = f.cmd PROVE acks' \in Seq(AcksOf(c)')
      BY <1>12, <3>1, <3>4
    <3> QED  BY <3>2, <3>3, <3>4
  <2>4. AgreeBeside(request.cmd.of)'
    <3>1. AgreeBeside(f.cmd.of) /\ request'.cmd.of = f.cmd.of
      BY <1>1, <1>14, <2>2 DEF Crossed
    <3>2. \A T : T = f.cmd.of => AgreeBeside(T)'
      BY <1>10, <3>1
    <3>3. ASSUME NEW T, T = f.cmd.of PROVE AgreeBeside(request.cmd.of)'
      BY <3>1, <3>2, <3>3 DEF AgreeBeside
    <3> QED  BY <3>3
  <2>5. ack = "ok" => Effective(request.cmd)'
    <3>1. ack = "ok" => Effective(f.cmd)
      BY <1>14, <2>2 DEF Crossed
    <3>2. ASSUME NEW c, c = f.cmd, ack = "ok" PROVE Effective(request.cmd)'
      <4>1. Effective(c)'
        BY <1>11, <3>1, <3>2
      <4> QED  BY <1>1, <2>2, <3>2, <4>1 DEF Effective
    <3> QED  BY <3>2
  <2>6. bus' \in Seq(FramesOf(request.cmd)') /\ ack' = ack
    BY <1>1, <2>1 DEF FramesOf
  <2> QED  BY <2>3, <2>4, <2>5, <2>6 DEF Crossed
<1>15. /\ OldFrames' = OldFrames /\ OldAcks' = OldAcks /\ OwnAcks' = OwnAcks /\ OwnFrame' = OwnFrame
  BY <1>1 DEF OldFrames, Harmless, OldAcks, OwnAcks, OwnFrame
<1>16. ASSUME f \in OldFrames, acks \in Seq(OldAcks) PROVE acks' \in Seq(OldAcks)'
  <2>1. ASSUME NEW a \in AckFrame, acks' = Append(acks, a), a.cmd = f.cmd, a.late = f.late
        PROVE  acks' \in Seq(OldAcks)'
    <3>1. a \in OldAcks
      BY <1>16, <2>1 DEF OldAcks, OldFrames
    <3> QED  BY <1>15, <1>16, <2>1, <3>1, KindKept
  <2> QED  BY <1>2, <1>15, <1>16, <2>1
<1>17. ASSUME request # NoRequest, OldOnly PROVE Straight'
  <2>1. f \in OldFrames /\ bus' \in Seq(OldFrames)
    BY <1>1, <1>17, KindKept DEF OldOnly, f
  <2>2. acks' \in Seq(OldAcks)' /\ ack' = "none"
    BY <1>1, <1>16, <1>17, <2>1 DEF OldOnly
  <2>3. AgreeBeside(request.cmd.of)'
    <3>1. Harmless(f.cmd) /\ AgreeBeside(request.cmd.of)
      BY <1>17, <2>1 DEF OldFrames, OldOnly
    <3>2. \A T : T = request.cmd.of => AgreeBeside(T)'
      BY <1>9, <3>1
    <3>3. ASSUME NEW T, T = request.cmd.of PROVE AgreeBeside(request.cmd.of)'
      BY <1>1, <3>2, <3>3 DEF AgreeBeside
    <3> QED  BY <3>3
  <2>4. OldOnly'
    BY <1>15, <2>1, <2>2, <2>3 DEF OldOnly
  <2> QED  BY <2>4 DEF Straight
<1>18. ASSUME request # NoRequest, OldThenOwn PROVE Straight'
  <2>1. PICK old \in Seq(OldFrames) : bus = Append(old, OwnFrame)
    BY <1>18 DEF OldThenOwn
  <2>2. CASE old # <<>>
    <3>1. bus' = Append(Tail(old), OwnFrame) /\ f = Head(old)
      BY <1>1, <2>1, <2>2, HeadOfTwoKinds DEF f
    <3>2. Tail(old) \in Seq(OldFrames) /\ f \in OldFrames
      BY <2>1, <2>2, <3>1, KindKept
    <3>3. acks' \in Seq(OldAcks)' /\ ack' = "none"
      BY <1>1, <1>16, <1>18, <3>2 DEF OldThenOwn
    <3>4. AgreeBeside({})'
      <4>1. Harmless(f.cmd) /\ AgreeBeside({})
        BY <1>18, <3>2 DEF OldFrames, OldThenOwn
      <4> QED  BY <1>9, <4>1
    <3>5. OldThenOwn'
      BY <1>15, <3>1, <3>2, <3>3, <3>4 DEF OldThenOwn
    <3> QED  BY <3>5 DEF Straight
  <2>3. CASE old = <<>>
    <3>1. bus' = <<>> /\ f.cmd = request.cmd
      BY <1>1, <2>1, <2>3, HeadOfTwoKinds DEF f, OwnFrame
    <3>2. ack' = "none" /\ acks \in Seq(OldAcks)' /\ AgreeBeside({})
      BY <1>1, <1>15, <1>18 DEF OldThenOwn
    <3>3. AgreeBeside(request.cmd.of)'
      BY <1>1, <1>7, <3>1, <3>2 DEF AgreeBeside
    <3>4. ASSUME acks' = acks PROVE OldOnly'
      BY <3>1, <3>2, <3>3, <3>4, NothingIsAnyKind DEF OldOnly
    <3>5. ASSUME NEW a \in AckFrame, acks' = Append(acks, a), a.cmd = f.cmd,
                 reporting' = IF a.status = "ok" THEN After(f.cmd, reporting) ELSE reporting
          PROVE  OldThenAnswer'
      <4>1. a \in OwnAcks'
        BY <1>1, <3>1, <3>5 DEF OwnAcks
      <4>2. a.status = "ok" => Effective(request.cmd)'
        BY <1>1, <1>8, <3>1, <3>5 DEF Effective
      <4>3. a.status # "ok" => AgreeBeside({})'
        BY <1>1, <3>2, <3>5 DEF AgreeBeside
      <4>4. Verdict(a.status)'
        BY <3>3, <4>2, <4>3 DEF Verdict
      <4> QED  BY <3>1, <3>2, <3>5, <4>1, <4>4 DEF OldThenAnswer
    <3> QED  BY <1>2, <3>4, <3>5 DEF Straight
  <2> QED  BY <2>2, <2>3
<1>19. ASSUME Straight PROVE OldOnly \/ OldThenOwn
  BY <1>1, <1>19 DEF Straight, OldThenAnswer, Answered
<1>20. AnswersAreOwn'
  BY <1>1, <1>13, <1>14, <1>17, <1>18, <1>19 DEF PowerInv, AnswersAreOwn
<1> QED  BY <1>3, <1>4, <1>6, <1>20 DEF PowerInv

LEMMA PowerInvStep == PowerInv /\ [PowerNext]_powerVars => PowerInv'
<1> SUFFICES ASSUME PowerInv, [PowerNext]_powerVars PROVE PowerInv'
  OBVIOUS
<1>1. CASE OnStartupEnable \/ \E on \in BOOLEAN : OnAllEnable(on) \/ \E s \in Sensors : OnSensorEnable(s, on)
  BY <1>1, BeginsKeep
<1>2. CASE RequestAnswered
  BY <1>2, AnsweredKeeps
<1>3. CASE RequestTimesOut
  BY <1>3, TimeoutKeeps
<1>4. CASE ExitAndStart
  BY <1>4, ExitKeeps
<1>5. CASE OnResponse
  BY <1>5, OnResponseKeeps
<1>6. CASE SensorBoardActs
  BY <1>6, SensorBoardKeeps
<1>7. CASE UNCHANGED powerVars
  <2>1. /\ starting' = starting /\ attempts' = attempts /\ enabled' = enabled /\ request' = request
        /\ ack' = ack /\ bus' = bus /\ acks' = acks /\ reporting' = reporting /\ unsure' = unsure
    BY <1>7 DEF powerVars
  <2>2. /\ OldFrames' = OldFrames /\ OldAcks' = OldAcks /\ OwnAcks' = OwnAcks /\ OwnFrame' = OwnFrame
        /\ FramesOf(request.cmd)' = FramesOf(request.cmd) /\ AcksOf(request.cmd)' = AcksOf(request.cmd)
    BY <2>1 DEF OldFrames, Harmless, OldAcks, OwnAcks, OwnFrame, FramesOf, AcksOf, Effective
  <2>3. /\ AgreeBeside({})' <=> AgreeBeside({})
        /\ AgreeBeside(request.cmd.of)' <=> AgreeBeside(request.cmd.of)
        /\ Effective(request.cmd)' <=> Effective(request.cmd)
    BY <2>1 DEF AgreeBeside, Effective
  <2>4. \A said : Verdict(said)' <=> Verdict(said)
    BY <2>3 DEF Verdict
  <2>5. (OldOnly => OldOnly') /\ (OldThenOwn => OldThenOwn')
    BY <2>1, <2>2, <2>3 DEF OldOnly, OldThenOwn
  <2>6. (OldThenAnswer => OldThenAnswer') /\ (Answered => Answered')
    <3>1. Answered => Answered'
      <4>1. Verdict(ack)' <=> Verdict(ack)
        BY <2>1, <2>3 DEF Verdict
      <4> QED  BY <2>1, <4>1 DEF Answered
    <3>2. OldThenAnswer => OldThenAnswer'
      BY <2>1, <2>2, <2>4 DEF OldThenAnswer
    <3> QED  BY <3>1, <3>2
  <2>7. Crossed => Crossed'
    BY <2>1, <2>2, <2>3 DEF Crossed
  <2>8. Idle => Idle'
    BY <2>1 DEF Idle, AgreeBeside, LeftOver, Harmless, LateFramesOf, FramesOf, LateAcksOf, AcksOf, Effective
  <2>9. AnswersAreOwn'
    BY <2>1, <2>5, <2>6, <2>7, <2>8 DEF PowerInv, AnswersAreOwn, Straight
  <2>10. PowerTypeOK' /\ AttemptsLeft'
    BY <2>1 DEF PowerInv, PowerTypeOK, AttemptsLeft
  <2> QED  BY <2>1, <2>9, <2>10 DEF PowerInv
<1> QED  BY <1>1, <1>2, <1>3, <1>4, <1>5, <1>6, <1>7 DEF PowerNext

LEMMA PowerSafe == PowerInv => PowerTypeOK /\ EnabledReports
<1>1. ASSUME PowerInv, request = NoRequest PROVE enabled \ unsure = reporting \ unsure
  <2>1. AgreeBeside({}) /\ enabled \subseteq Sensors /\ reporting \subseteq Sensors
    BY <1>1 DEF PowerInv, AnswersAreOwn, Idle, PowerTypeOK
  <2> QED  BY <2>1 DEF AgreeBeside
<1> QED  BY <1>1 DEF PowerInv, EnabledReports

\* Power monitor (rover_power_monitor_node.py, _send_and_wait and the switches): a sensor
\* whose last command was confirmed by its own answer reports exactly if the node has it
\* enabled, whatever became of the commands before it.
THEOREM EnabledDoReport == PowerSpec => []EnabledReports
<1>1. PowerSpec => []PowerInv
  BY PowerInvInit, PowerInvStep, PTL DEF PowerSpec
<1> QED  BY <1>1, PowerSafe, PTL

-------------------------------------------------------------------------------
(***************************************************************************)
(* The lights.  The frames between two calls are late and of one command   *)
(* byte; a call for another light comes behind them, and the node hears    *)
(* nothing of its own before they are gone.  A byte says which pins are    *)
(* touched, and but for the traffic head also what becomes of them.        *)
(***************************************************************************)

LightFrame == [cmd : Commands, late : BOOLEAN]
LightAck == [cmd : Commands, late : BOOLEAN, ok : BOOLEAN]

Masked(cmd) == cmd.byte[1] = "traffic"

LitBeside(pins) == \A p \in Pins \ (doubt \cup pins) : p \in believed <=> p \in lit
LitAs(cmd) == (\A p \in cmd.sets : p \in lit) /\ (\A p \in cmd.clears : p \notin lit)
\* A command that sets nothing but what is believed.
SetsNothingNew(cmd) ==
    (\A p \in cmd.sets \ doubt : p \in believed) /\ (\A p \in cmd.clears \ doubt : p \notin believed)

FramesOfByte(cmd) == {f \in LightFrame : f.cmd.byte = cmd.byte}
AcksOfByte(cmd) == {a \in LightAck : a.cmd.byte = cmd.byte /\ (a.ok /\ ~Masked(cmd) => LitAs(cmd))}
StillSent(cmd) == {f \in FramesOfByte(cmd) : f.late /\ SetsNothingNew(f.cmd)}
StillAnswered(cmd) == {a \in AcksOfByte(cmd) : a.late}

FramesBefore == {f \in LightFrame : f.late /\ f.cmd.byte # call.byte /\ SetsNothingNew(f.cmd)}
AcksBefore == {a \in LightAck : a.late /\ a.cmd.byte # call.byte}
CallFrame == [cmd |-> call, late |-> FALSE]
CallAcks == {a \in LightAck : a.cmd = call}

Tells(ok) == IF ok THEN LitAs(call) /\ LitBeside(Touched(call)) ELSE LitBeside({})

BeforeOnly ==
    status = "none" /\ toNode \in Seq(AcksBefore) /\ toBoard \in Seq(FramesBefore) /\ LitBeside(Touched(call))
BeforeThenCall ==
    /\ status = "none" /\ toNode \in Seq(AcksBefore) /\ LitBeside({})
    /\ \E old \in Seq(FramesBefore) : toBoard = Append(old, CallFrame)
BeforeThenReply ==
    /\ status = "none" /\ toBoard = <<>>
    /\ \E old \in Seq(AcksBefore), a \in CallAcks : toNode = Append(old, a) /\ Tells(a.ok)
Told == status # "none" /\ toBoard = <<>> /\ toNode = <<>> /\ Tells(status = "ok")

CallAlone == BeforeOnly \/ BeforeThenCall \/ BeforeThenReply \/ Told

CallCrossed ==
    /\ toBoard \in Seq(FramesOfByte(call)) /\ toNode \in Seq(AcksOfByte(call))
    /\ status = "ok" /\ ~Masked(call) => LitAs(call)
    /\ LitBeside(Touched(call))

BetweenCalls ==
    /\ LitBeside({})
    /\ \E cmd \in Commands : toBoard \in Seq(StillSent(cmd)) /\ toNode \in Seq(StillAnswered(cmd))

RepliesAreOwn ==
    /\ call = Quiet => BetweenCalls
    /\ call # Quiet => IF crossed THEN CallCrossed ELSE CallAlone

BeatIsRecent ==
    /\ told # "behind" /\ beat # Quiet => beat = believed
    /\ told = "read" => beat # Quiet
    /\ told = "told" => topic = believed

LightsInv ==
    /\ LightsTypeOK /\ toBoard \in Seq(LightFrame) /\ toNode \in Seq(LightAck)
    /\ RepliesAreOwn /\ BeatIsRecent

LEMMA CommandFacts ==
    /\ \A cmd \in Commands : /\ Touched(cmd) = cmd.sets \cup cmd.clears /\ Touched(cmd) \subseteq Pins
                             /\ cmd.sets \cap cmd.clears = {}
    /\ \A c, d \in Commands :
          c.byte = d.byte => Touched(c) = Touched(d) /\ (Masked(c) <=> Masked(d)) /\ (~Masked(c) => c = d)
    /\ \A name \in LightNames, on \in BOOLEAN : SetCmd(name, on) \in Commands
    /\ \A mask \in SUBSET TrafficPins : TrafficCmd(mask) \in Commands
<1>1. ASSUME NEW name \in LightNames, NEW on \in BOOLEAN
      PROVE  /\ SetCmd(name, on) \in Commands /\ ~Masked(SetCmd(name, on))
             /\ Touched(SetCmd(name, on)) \subseteq Pins
             /\ SetCmd(name, on).sets \cap SetCmd(name, on).clears = {}
  <2>1. SetCmd(name, on) \in Commands
    BY DEF Commands
  <2>2. ~Masked(SetCmd(name, on))
    BY LightsAssumption DEF SetCmd, Masked
  <2>3. /\ Touched(SetCmd(name, on)) = PinsOf[name]
        /\ SetCmd(name, on).sets \cap SetCmd(name, on).clears = {}
    BY DEF SetCmd, Touched
  <2> QED  BY <2>1, <2>2, <2>3 DEF Pins
<1>2. ASSUME NEW mask \in SUBSET TrafficPins
      PROVE  /\ TrafficCmd(mask) \in Commands /\ Masked(TrafficCmd(mask))
             /\ Touched(TrafficCmd(mask)) = TrafficPins
             /\ TrafficCmd(mask).sets \cap TrafficCmd(mask).clears = {}
  <2>1. TrafficCmd(mask) \in Commands
    BY DEF Commands
  <2>2. Masked(TrafficCmd(mask))
    BY DEF TrafficCmd, Masked
  <2>3. /\ Touched(TrafficCmd(mask)) = TrafficPins
        /\ TrafficCmd(mask).sets \cap TrafficCmd(mask).clears = {}
    BY DEF TrafficCmd, Touched
  <2> QED  BY <2>1, <2>2, <2>3
<1>3. ASSUME NEW cmd \in Commands
      PROVE  \/ \E name \in LightNames, on \in BOOLEAN : cmd = SetCmd(name, on)
             \/ \E mask \in SUBSET TrafficPins : cmd = TrafficCmd(mask)
  BY DEF Commands
<1>4. \A cmd \in Commands : Touched(cmd) \subseteq Pins /\ cmd.sets \cap cmd.clears = {}
  BY <1>1, <1>2, <1>3 DEF Pins
<1>5. ASSUME NEW n \in LightNames, NEW o \in BOOLEAN, NEW m \in LightNames, NEW p \in BOOLEAN,
             SetCmd(n, o).byte = SetCmd(m, p).byte
      PROVE  SetCmd(n, o) = SetCmd(m, p)
  <2>1. <<n, o>> = <<m, p>>
    BY <1>5 DEF SetCmd
  <2>2. n = m /\ o = p
    BY <2>1
  <2> QED  BY <2>2
<1>6. ASSUME NEW c \in Commands, NEW d \in Commands, c.byte = d.byte
      PROVE  Touched(c) = Touched(d) /\ (Masked(c) <=> Masked(d)) /\ (~Masked(c) => c = d)
  <2>1. Masked(c) <=> Masked(d)
    BY <1>6 DEF Masked
  <2>2. CASE Masked(c)
    <3>1. Touched(c) = TrafficPins /\ Touched(d) = TrafficPins
      BY <1>1, <1>2, <1>3, <2>1, <2>2
    <3> QED  BY <2>1, <2>2, <3>1
  <2>3. CASE ~Masked(c)
    <3>1. c = d
      BY <1>1, <1>2, <1>3, <1>5, <1>6, <2>1, <2>3
    <3> QED  BY <2>1, <3>1
  <2> QED  BY <2>2, <2>3
<1> QED  BY <1>1, <1>2, <1>4, <1>6 DEF Touched

LEMMA LightsFacts ==
    ASSUME LightsInv
    PROVE  /\ LightsTypeOK /\ toBoard \in Seq(LightFrame) /\ toNode \in Seq(LightAck)
           /\ Len(toBoard) \in Nat /\ Len(toNode) \in Nat /\ MaxFrames \in Nat
           /\ Len(toBoard) + Len(toNode) <= MaxFrames
           /\ call # Quiet => call \in Commands
  BY KindKept, LightsAssumption DEF LightsInv, LightsTypeOK

\* The pins after a command.
LEMMA EffectDoes ==
    ASSUME NEW cmd \in Commands, NEW pins
    PROVE  /\ \A p \in cmd.sets : p \in Effect(cmd, pins)
           /\ \A p \in cmd.clears : p \notin Effect(cmd, pins)
           /\ \A p : p \notin Touched(cmd) => (p \in Effect(cmd, pins) <=> p \in pins)
  BY CommandFacts DEF Effect

LEMMA LightsInvInit == LightsInit => LightsInv
<1> SUFFICES ASSUME LightsInit PROVE LightsInv
  OBVIOUS
<1>1. /\ believed = {} /\ lit \in SUBSET Pins /\ call = Quiet /\ status = "none" /\ crossed = FALSE
      /\ toBoard = <<>> /\ toNode = <<>> /\ doubt = Pins /\ topic = {} /\ beat = Quiet /\ told = "told"
  BY DEF LightsInit
<1>2. \A S : toBoard \in Seq(S) /\ toNode \in Seq(S)
  BY <1>1
<1>3. Len(toBoard) + Len(toNode) <= MaxFrames
  <2>1. Len(toBoard) = 0 /\ Len(toNode) = 0
    BY <1>1
  <2> QED  BY <2>1, LightsAssumption
<1>4. LightsTypeOK
  BY <1>1, <1>3 DEF LightsTypeOK
<1>5. RepliesAreOwn
  <2>1. LitBeside({})
    BY <1>1 DEF LitBeside
  <2>2. TrafficCmd({}) \in Commands
    BY CommandFacts
  <2> QED  BY <1>1, <1>2, <2>1, <2>2 DEF RepliesAreOwn, BetweenCalls
<1>6. BeatIsRecent
  BY <1>1 DEF BeatIsRecent
<1> QED  BY <1>2, <1>4, <1>5, <1>6 DEF LightsInv

LEMMA InFlightIs == ASSUME NEW S, NEW q \in Seq(S) PROVE InFlight(q) = ToSet(q)
  BY LenProperties DEF InFlight, ToSet

\* A call begins: with the byte whose frames are under way, or behind them.
LEMMA SendKeeps == ASSUME LightsInv, NEW cmd \in Commands, Send(cmd) PROVE LightsInv'
<1>1. /\ call = Quiet /\ Len(toBoard) + Len(toNode) < MaxFrames /\ call' = cmd /\ status' = "none"
      /\ crossed' = \E f \in Underway : f.cmd.byte = cmd.byte
      /\ toBoard' \in {toBoard, Append(toBoard, [cmd |-> cmd, late |-> FALSE])}
      /\ UNCHANGED <<believed, lit, toNode, doubt, topic, beat, told>>
  BY DEF Send, showVars
<1> DEFINE own == [cmd |-> cmd, late |-> FALSE]
<1>2. call' \in Commands /\ call' # Quiet
  BY <1>1, LightsAssumption
<1>3. own \in LightFrame /\ own = CallFrame' /\ own.cmd = cmd
  BY <1>1 DEF LightFrame, CallFrame
<1>4. toBoard \in Seq(LightFrame) /\ toNode \in Seq(LightAck) /\ Underway = ToSet(toBoard) \cup ToSet(toNode)
  BY LightsFacts, InFlightIs DEF Underway
<1>5. PICK d \in Commands : toBoard \in Seq(StillSent(d)) /\ toNode \in Seq(StillAnswered(d))
  BY <1>1 DEF LightsInv, RepliesAreOwn, BetweenCalls
<1>6. LitBeside({})
  BY <1>1 DEF LightsInv, RepliesAreOwn, BetweenCalls
<1> HIDE DEF own
<1>7. toBoard' = toBoard \/ toBoard' = Append(toBoard, own)
  BY <1>1 DEF own
<1>8. toBoard' \in Seq(LightFrame) /\ toNode' \in Seq(LightAck) /\ Len(toBoard') + Len(toNode') <= MaxFrames
  <2>1. Append(toBoard, own) \in Seq(LightFrame) /\ Len(Append(toBoard, own)) = Len(toBoard) + 1
    BY <1>3, <1>4, KindKept
  <2>2. toBoard' \in Seq(LightFrame) /\ Len(toBoard') \in {Len(toBoard), Len(toBoard) + 1}
    BY <1>4, <1>7, <2>1
  <2> QED  BY <1>1, <1>4, <2>2, LightsFacts
<1>9. crossed' \in BOOLEAN
  BY <1>1
<1>10. LightsTypeOK' /\ BeatIsRecent'
  <2>1. LightsTypeOK'
    BY <1>1, <1>2, <1>8, <1>9, LightsFacts DEF LightsTypeOK
  <2>2. BeatIsRecent'
    BY <1>1 DEF LightsInv, BeatIsRecent
  <2> QED  BY <2>1, <2>2
<1>11. LitBeside({})' /\ LitBeside(Touched(call))'
  BY <1>1, <1>6 DEF LitBeside
<1>12. CASE crossed'
  <2>1. d.byte = cmd.byte
    <3>1. PICK f \in ToSet(toBoard) \cup ToSet(toNode) : f.cmd.byte = cmd.byte
      BY <1>1, <1>4, <1>12
    <3>2. f \in StillSent(d) \/ f \in StillAnswered(d)
      BY <1>5, <3>1, KindOfEach
    <3> QED  BY <3>1, <3>2 DEF StillSent, FramesOfByte, StillAnswered, AcksOfByte
  <2>2. toBoard' \in Seq(FramesOfByte(call)')
    <3>1. StillSent(d) \subseteq FramesOfByte(call)' /\ own \in FramesOfByte(call)'
      BY <1>1, <1>3, <2>1 DEF StillSent, FramesOfByte
    <3>2. toBoard \in Seq(FramesOfByte(call)')
      BY <1>5, <3>1, SeqMonotonic
    <3> QED  BY <1>7, <3>1, <3>2, KindKept
  <2>3. toNode' \in Seq(AcksOfByte(call)')
    <3>1. (Masked(d) <=> Masked(cmd)) /\ (~Masked(cmd) => d = cmd)
      BY <2>1, CommandFacts
    <3>2. StillAnswered(d) \subseteq AcksOfByte(call)'
      BY <1>1, <2>1, <3>1 DEF StillAnswered, AcksOfByte, LitAs, Masked
    <3> QED  BY <1>1, <1>5, <3>2, SeqMonotonic
  <2>4. status' # "ok"
    BY <1>1
  <2>5. CallCrossed'
    BY <1>11, <2>2, <2>3, <2>4 DEF CallCrossed
  <2> QED  BY <1>2, <1>8, <1>10, <1>12, <2>5 DEF LightsInv, RepliesAreOwn
<1>13. CASE ~crossed'
  <2>1. toBoard \in Seq(FramesBefore')
    <3>1. CASE toBoard = <<>>
      BY <3>1, NothingIsAnyKind
    <3>2. CASE toBoard # <<>>
      <4>1. Head(toBoard) \in ToSet(toBoard) /\ Head(toBoard) \in StillSent(d)
        BY <1>5, <3>2, SomeInQueue, KindKept
      <4>2. d.byte # cmd.byte
        BY <1>1, <1>4, <1>13, <4>1 DEF StillSent, FramesOfByte
      <4>3. StillSent(d) \subseteq FramesBefore'
        BY <1>1, <4>2 DEF StillSent, FramesOfByte, FramesBefore, SetsNothingNew
      <4> QED  BY <1>5, <4>3, SeqMonotonic
    <3> QED  BY <3>1, <3>2
  <2>2. toNode' \in Seq(AcksBefore')
    <3>1. CASE toNode = <<>>
      BY <1>1, <3>1, NothingIsAnyKind
    <3>2. CASE toNode # <<>>
      <4>1. Head(toNode) \in ToSet(toNode) /\ Head(toNode) \in StillAnswered(d)
        BY <1>5, <3>2, SomeInQueue, KindKept
      <4>2. d.byte # cmd.byte
        BY <1>1, <1>4, <1>13, <4>1 DEF StillAnswered, AcksOfByte
      <4>3. StillAnswered(d) \subseteq AcksBefore'
        BY <1>1, <4>2 DEF StillAnswered, AcksOfByte, AcksBefore
      <4> QED  BY <1>1, <1>5, <4>3, SeqMonotonic
    <3> QED  BY <3>1, <3>2
  <2>3. CallAlone'
    <3>1. status' = "none"
      BY <1>1
    <3>2. CASE toBoard' = toBoard
      BY <1>11, <2>1, <2>2, <3>1, <3>2 DEF CallAlone, BeforeOnly
    <3>3. CASE toBoard' = Append(toBoard, own)
      BY <1>3, <1>11, <2>1, <2>2, <3>1, <3>3 DEF CallAlone, BeforeThenCall
    <3> QED  BY <1>7, <3>2, <3>3
  <2> QED  BY <1>2, <1>8, <1>10, <1>13, <2>3 DEF LightsInv, RepliesAreOwn
<1> QED  BY <1>12, <1>13

LEMMA CallsKeep ==
    ASSUME LightsInv,
           \/ \E name \in LightNames, on \in BOOLEAN : SetLight(name, on)
           \/ \E name \in LightNames : ToggleLight(name)
           \/ \E wanted \in [TrafficPins -> {"keep", "off", "on"}] : SetTraffic(wanted)
    PROVE  LightsInv'
<1>1. ASSUME NEW name \in LightNames, NEW on \in BOOLEAN, SetLight(name, on) PROVE LightsInv'
  <2>1. SetCmd(name, on) \in Commands
    BY CommandFacts
  <2> QED  BY <1>1, <2>1, SendKeeps DEF SetLight
<1>2. ASSUME NEW name \in LightNames, ToggleLight(name) PROVE LightsInv'
  <2>1. ToggleFrom(name) \in BOOLEAN
    BY DEF ToggleFrom
  <2>2. SetCmd(name, ToggleFrom(name)) \in Commands
    BY <2>1, CommandFacts
  <2> QED  BY <1>2, <2>2, SendKeeps DEF ToggleLight
<1>3. ASSUME NEW wanted \in [TrafficPins -> {"keep", "off", "on"}], SetTraffic(wanted) PROVE LightsInv'
  <2>1. TrafficCmd(ResolveTraffic(wanted)) \in Commands
    BY CommandFacts DEF ResolveTraffic
  <2> QED  BY <1>3, <2>1, SendKeeps DEF SetTraffic
<1> QED  BY <1>1, <1>2, <1>3

LEMMA LateKept ==
    ASSUME NEW S, NEW T, NEW q \in Seq(S), \A x \in S : [x EXCEPT !.late = TRUE] \in T
    PROVE  Late(q) \in Seq(T) /\ Len(Late(q)) = Len(q)
<1>1. DOMAIN q = 1..Len(q)
  BY LenProperties
<1>2. \A i \in DOMAIN q : Late(q)[i] = [q[i] EXCEPT !.late = TRUE]
  BY <1>1 DEF Late
<1>3. Late(q) = [i \in DOMAIN q |-> Late(q)[i]]
  BY <1>1, <1>2 DEF Late
<1> QED  BY <1>2, <1>3, KindMapped

\* A call is over, and all that is under way has its byte.
LEMMA FinishedKeeps ==
    ASSUME LightsInv, Finished, NEW cmd \in Commands,
           toBoard \in Seq(FramesOfByte(cmd)), toNode \in Seq(AcksOfByte(cmd)),
           \A f \in FramesOfByte(cmd) : SetsNothingNew(f.cmd)',
           LitBeside({})', believed' \subseteq Pins, doubt' \subseteq Pins, lit' = lit,
           BeatIsRecent', topic' \subseteq Pins, beat' = beat, told' \in {"behind", "read", "told"}
    PROVE  LightsInv'
<1>1. /\ call' = Quiet /\ status' = "none" /\ crossed' = FALSE
      /\ toBoard' = Late(toBoard) /\ toNode' = Late(toNode)
  BY DEF Finished
<1>2. \A f \in FramesOfByte(cmd) : [f EXCEPT !.late = TRUE] \in StillSent(cmd)'
  <2> SUFFICES ASSUME NEW f \in FramesOfByte(cmd) PROVE [f EXCEPT !.late = TRUE] \in StillSent(cmd)'
    OBVIOUS
  <2>1. SetsNothingNew(f.cmd)'
    OBVIOUS
  <2>2. [f EXCEPT !.late = TRUE] \in FramesOfByte(cmd) /\ [f EXCEPT !.late = TRUE].cmd = f.cmd
        /\ [f EXCEPT !.late = TRUE].late
    BY DEF FramesOfByte, LightFrame
  <2> HIDE DEF SetsNothingNew
  <2> QED  BY <2>1, <2>2 DEF StillSent, FramesOfByte, SetsNothingNew
<1>3. \A a \in AcksOfByte(cmd) : [a EXCEPT !.late = TRUE] \in StillAnswered(cmd)'
  BY DEF StillAnswered, AcksOfByte, LightAck, LitAs
<1>4. /\ toBoard' \in Seq(StillSent(cmd)') /\ Len(toBoard') = Len(toBoard)
      /\ toNode' \in Seq(StillAnswered(cmd)') /\ Len(toNode') = Len(toNode)
  BY <1>1, <1>2, <1>3, LateKept
<1>5. toBoard' \in Seq(LightFrame) /\ toNode' \in Seq(LightAck)
  <2>1. StillSent(cmd)' \subseteq LightFrame /\ StillAnswered(cmd)' \subseteq LightAck
    BY DEF StillSent, FramesOfByte, StillAnswered, AcksOfByte
  <2> QED  BY <1>4, <2>1, SeqMonotonic
<1>6. RepliesAreOwn'
  BY <1>1, <1>4 DEF RepliesAreOwn, BetweenCalls
<1>7. Len(toBoard') + Len(toNode') <= MaxFrames
  BY <1>4, LightsFacts
<1>8. LightsTypeOK'
  BY <1>1, <1>7, LightsFacts DEF LightsTypeOK
<1> QED  BY <1>5, <1>6, <1>8 DEF LightsInv

\* ... or nothing is under way.
LEMMA FinishedAlone ==
    ASSUME LightsInv, Finished, toBoard = <<>>, toNode = <<>>,
           LitBeside({})', believed' \subseteq Pins, doubt' \subseteq Pins, lit' = lit,
           BeatIsRecent', topic' \subseteq Pins, beat' = beat, told' \in {"behind", "read", "told"}
    PROVE  LightsInv'
<1>1. /\ call' = Quiet /\ status' = "none" /\ crossed' = FALSE
      /\ toBoard' = Late(toBoard) /\ toNode' = Late(toNode)
  BY DEF Finished
<1>2. toBoard' = <<>> /\ toNode' = <<>>
  BY <1>1 DEF Late
<1>3. \A S : toBoard' \in Seq(S) /\ toNode' \in Seq(S)
  BY <1>2
<1>4. Len(toBoard') + Len(toNode') <= MaxFrames
  BY <1>2, LightsFacts, LightsAssumption
<1>5. LightsTypeOK'
  BY <1>1, <1>4, LightsFacts DEF LightsTypeOK
<1>6. RepliesAreOwn'
  <2>1. TrafficCmd({}) \in Commands
    BY CommandFacts
  <2> QED  BY <1>1, <1>3, <2>1 DEF RepliesAreOwn, BetweenCalls
<1> QED  BY <1>3, <1>5, <1>6 DEF LightsInv

LEMMA CommitDoes ==
    ASSUME LightsInv, NEW pins \in SUBSET Pins, Commit(pins)
    PROVE  /\ believed' = pins /\ beat' = beat /\ topic' \subseteq Pins /\ told' \in {"behind", "read", "told"}
           /\ BeatIsRecent'
<1>1. \/ pins = believed /\ UNCHANGED <<believed, topic, beat, told>>
      \/ believed' = pins /\ told' = "behind" /\ topic' \in {topic, pins} /\ beat' = beat
  BY DEF Commit, showVars
<1>2. topic \subseteq Pins /\ told \in {"behind", "read", "told"} /\ BeatIsRecent
  BY LightsFacts DEF LightsInv, LightsTypeOK
<1>3. BeatIsRecent'
  BY <1>1, <1>2 DEF BeatIsRecent
<1> QED  BY <1>1, <1>2, <1>3

LEMMA UnshownKeeps ==
    ASSUME LightsInv, UNCHANGED <<believed, showVars>>
    PROVE  BeatIsRecent' /\ beat' = beat /\ topic' \subseteq Pins /\ told' \in {"behind", "read", "told"}
           /\ believed' \subseteq Pins /\ believed' = believed
  BY LightsFacts DEF LightsInv, LightsTypeOK, BeatIsRecent, showVars

LEMMA FinishKeeps == ASSUME LightsInv, Finish PROVE LightsInv'
<1> DEFINE cmd == call
<1>1. cmd \in Commands /\ call # Quiet /\ status # "none" /\ Finished /\ lit' = lit /\ status \in {"ok", "error"}
  BY LightsFacts DEF Finish, LightsTypeOK
<1>2. Touched(cmd) \subseteq Pins /\ believed \subseteq Pins /\ doubt \subseteq Pins /\ crossed \in BOOLEAN
  BY <1>1, LightsFacts, CommandFacts DEF LightsTypeOK
<1>3. IF crossed THEN CallCrossed ELSE Told
  BY <1>1 DEF LightsInv, RepliesAreOwn, CallAlone, BeforeOnly, BeforeThenCall, BeforeThenReply
<1> HIDE DEF cmd
<1>4. toBoard \in Seq(FramesOfByte(cmd)) /\ toNode \in Seq(AcksOfByte(cmd))
  BY <1>2, <1>3, NothingIsAnyKind DEF CallCrossed, Told, cmd
<1>5. \A f \in FramesOfByte(cmd) :
        /\ f.cmd \in Commands /\ Touched(f.cmd) = Touched(cmd)
        /\ Touched(f.cmd) = f.cmd.sets \cup f.cmd.clears /\ (~Masked(cmd) => f.cmd = cmd)
  BY <1>1, CommandFacts DEF FramesOfByte, LightFrame
<1>6. ASSUME Touched(cmd) \subseteq doubt' PROVE \A f \in FramesOfByte(cmd) : SetsNothingNew(f.cmd)'
  <2> SUFFICES ASSUME NEW f \in FramesOfByte(cmd) PROVE SetsNothingNew(f.cmd)'
    OBVIOUS
  <2>1. f.cmd.sets \cup f.cmd.clears \subseteq doubt'
    BY <1>5, <1>6
  <2> QED  BY <2>1 DEF SetsNothingNew
<1>7. CASE status = "ok"
  <2>1. /\ Commit(Effect(cmd, believed))
        /\ doubt' = IF crossed /\ Masked(cmd) THEN doubt \cup Touched(cmd) ELSE doubt \ Touched(cmd)
    BY <1>7 DEF Finish, Confirmed, Masked, cmd
  <2>2. Effect(cmd, believed) \subseteq Pins
    BY <1>1, <1>2, CommandFacts DEF Effect
  <2>3. /\ believed' = Effect(cmd, believed) /\ beat' = beat /\ topic' \subseteq Pins
        /\ told' \in {"behind", "read", "told"} /\ BeatIsRecent'
    BY <2>1, <2>2, CommitDoes
  <2>4. /\ \A p \in cmd.sets : p \in believed'
        /\ \A p \in cmd.clears : p \notin believed'
        /\ \A p : p \notin Touched(cmd) => (p \in believed' <=> p \in believed)
    BY <1>1, <2>3, EffectDoes
  <2>5. LitBeside(Touched(cmd)) /\ doubt' \subseteq Pins
    <3>1. LitBeside(Touched(cmd))
      BY <1>2, <1>3, <1>7 DEF CallCrossed, Told, Tells, cmd
    <3> QED  BY <1>2, <2>1, <3>1
  <2>6. CASE crossed /\ Masked(cmd)
    <3>1. doubt' = doubt \cup Touched(cmd)
      BY <2>1, <2>6
    <3>2. LitBeside({})'
      BY <1>1, <2>4, <2>5, <3>1 DEF LitBeside
    <3>3. \A f \in FramesOfByte(cmd) : SetsNothingNew(f.cmd)'
      BY <1>6, <3>1
    <3> QED  BY <1>1, <1>4, <2>2, <2>3, <2>5, <3>2, <3>3, FinishedKeeps
  <2>7. CASE ~(crossed /\ Masked(cmd))
    <3>1. doubt' = doubt \ Touched(cmd)
      BY <2>1, <2>7
    <3>2. LitAs(cmd)
      BY <1>2, <1>3, <1>7, <2>7 DEF CallCrossed, Told, Tells, cmd
    <3>3. LitBeside({})'
      <4>1. Touched(cmd) = cmd.sets \cup cmd.clears
        BY DEF Touched
      <4> QED  BY <1>1, <2>4, <2>5, <3>1, <3>2, <4>1 DEF LitBeside, LitAs
    <3>4. \A c : c = cmd => SetsNothingNew(c)'
      BY <2>4 DEF SetsNothingNew
    <3>5. CASE ~Masked(cmd)
      <4>1. \A f \in FramesOfByte(cmd) : SetsNothingNew(f.cmd)'
        BY <1>5, <3>4, <3>5
      <4> QED  BY <1>1, <1>4, <2>2, <2>3, <2>5, <3>3, <4>1, FinishedKeeps
    <3>6. CASE Masked(cmd)
      <4>1. toBoard = <<>> /\ toNode = <<>>
        BY <1>2, <1>3, <2>7, <3>6 DEF Told
      <4> QED  BY <1>1, <2>2, <2>3, <2>5, <3>3, <4>1, FinishedAlone
    <3> QED  BY <3>5, <3>6
  <2> QED  BY <2>6, <2>7
<1>8. CASE status # "ok"
  <2>1. UNCHANGED <<believed, showVars>> /\ doubt' = IF crossed THEN doubt \cup Touched(cmd) ELSE doubt
    BY <1>8 DEF Finish, Confirmed, cmd
  <2>2. /\ BeatIsRecent' /\ beat' = beat /\ topic' \subseteq Pins /\ told' \in {"behind", "read", "told"}
        /\ believed' \subseteq Pins /\ believed' = believed
    BY <2>1, UnshownKeeps
  <2>3. CASE crossed
    <3>1. doubt' = doubt \cup Touched(cmd) /\ LitBeside(Touched(cmd))
      BY <1>3, <2>1, <2>3 DEF CallCrossed, cmd
    <3>2. LitBeside({})' /\ doubt' \subseteq Pins
      BY <1>1, <1>2, <2>2, <3>1 DEF LitBeside
    <3>3. \A f \in FramesOfByte(cmd) : SetsNothingNew(f.cmd)'
      BY <1>6, <3>1
    <3> QED  BY <1>1, <1>4, <2>2, <3>2, <3>3, FinishedKeeps
  <2>4. CASE ~crossed
    <3>1. doubt' = doubt /\ LitBeside({}) /\ toBoard = <<>> /\ toNode = <<>>
      BY <1>3, <1>8, <2>1, <2>4 DEF Told, Tells
    <3>2. LitBeside({})'
      BY <1>1, <2>2, <3>1 DEF LitBeside
    <3> QED  BY <1>1, <1>2, <2>2, <3>1, <3>2, FinishedAlone
  <2> QED  BY <1>2, <2>3, <2>4
<1> QED  BY <1>7, <1>8

\* What is not late is the call's own.
LEMMA NothingOldUnderway ==
    ASSUME LightsInv, call # Quiet, status = "none", \A f \in Underway : ~f.late
    PROVE  /\ toBoard \in Seq(FramesOfByte(call)) /\ toNode \in Seq(AcksOfByte(call))
           /\ LitBeside(Touched(call))
<1>1. call \in Commands /\ \A f \in ToSet(toBoard) \cup ToSet(toNode) : ~f.late
  BY LightsFacts, InFlightIs DEF Underway
<1>2. LitBeside({}) => LitBeside(Touched(call))
  BY DEF LitBeside
<1>3. toNode \in Seq(AcksBefore) => toNode = <<>>
  <2>1. \A a \in AcksBefore : a.late
    BY DEF AcksBefore
  <2> QED  BY <1>1, <2>1, SomeInQueue, KindKept
<1>4. toBoard \in Seq(FramesBefore) => toBoard = <<>>
  <2>1. \A f \in FramesBefore : f.late
    BY DEF FramesBefore
  <2> QED  BY <1>1, <2>1, SomeInQueue, KindKept
<1>5. CASE crossed
  BY <1>5 DEF LightsInv, RepliesAreOwn, CallCrossed
<1>6. CASE BeforeOnly
  BY <1>3, <1>4, <1>6, NothingIsAnyKind DEF BeforeOnly
<1>7. CASE BeforeThenCall
  <2>1. PICK old \in Seq(FramesBefore) : toBoard = Append(old, CallFrame)
    BY <1>7 DEF BeforeThenCall
  <2>2. CallFrame \in FramesOfByte(call)
    BY <1>1 DEF CallFrame, FramesOfByte, LightFrame
  <2>3. old = <<>>
    <3>1. SUFFICES ASSUME old # <<>> PROVE FALSE
      OBVIOUS
    <3>2. 1 \in DOMAIN toBoard /\ toBoard[1] \in FramesBefore
      BY <2>1, <3>1, OldLeads
    <3> QED  BY <1>1, <3>2 DEF FramesBefore, ToSet
  <2>4. toBoard \in Seq(FramesOfByte(call))
    <3>1. <<>> \in Seq(FramesOfByte(call))
      BY NothingIsAnyKind
    <3> QED  BY <2>1, <2>2, <2>3, <3>1, KindKept
  <2> QED  BY <1>2, <1>3, <1>7, <2>4, NothingIsAnyKind DEF BeforeThenCall
<1>8. CASE BeforeThenReply
  <2>1. PICK old \in Seq(AcksBefore), a \in CallAcks : toNode = Append(old, a) /\ Tells(a.ok)
    BY <1>8 DEF BeforeThenReply
  <2>2. a \in AcksOfByte(call) /\ LitBeside(Touched(call))
    BY <1>2, <2>1 DEF CallAcks, AcksOfByte, Tells
  <2>3. old = <<>>
    <3>1. SUFFICES ASSUME old # <<>> PROVE FALSE
      OBVIOUS
    <3>2. 1 \in DOMAIN toNode /\ toNode[1] \in AcksBefore
      BY <2>1, <3>1, OldLeads
    <3> QED  BY <1>1, <3>2 DEF AcksBefore, ToSet
  <2>4. toNode \in Seq(AcksOfByte(call))
    <3>1. <<>> \in Seq(AcksOfByte(call))
      BY NothingIsAnyKind
    <3> QED  BY <2>1, <2>2, <2>3, <3>1, KindKept
  <2> QED  BY <1>8, <2>2, <2>4, NothingIsAnyKind DEF BeforeThenReply
<1>9. crossed \/ CallAlone
  BY DEF LightsInv, RepliesAreOwn
<1> QED  BY <1>5, <1>6, <1>7, <1>8, <1>9 DEF CallAlone, Told

LEMMA CallTimeoutKeeps == ASSUME LightsInv, TimeOut PROVE LightsInv'
<1> DEFINE cmd == call
<1>1. /\ call # Quiet /\ status = "none" /\ Finished /\ \A f \in Underway : ~f.late
      /\ doubt' = doubt \cup Touched(cmd) /\ lit' = lit /\ UNCHANGED <<believed, showVars>>
  BY DEF TimeOut
<1>2. cmd \in Commands /\ doubt' \subseteq Pins
  BY <1>1, LightsFacts, CommandFacts DEF LightsTypeOK
<1>3. toBoard \in Seq(FramesOfByte(cmd)) /\ toNode \in Seq(AcksOfByte(cmd)) /\ LitBeside(Touched(cmd))
  BY <1>1, NothingOldUnderway
<1>4. /\ BeatIsRecent' /\ beat' = beat /\ topic' \subseteq Pins /\ told' \in {"behind", "read", "told"}
      /\ believed' \subseteq Pins /\ believed' = believed
  BY <1>1, UnshownKeeps
<1>5. LitBeside({})'
  BY <1>1, <1>3, <1>4 DEF LitBeside
<1> HIDE DEF cmd
<1>6. ASSUME NEW f \in FramesOfByte(cmd) PROVE SetsNothingNew(f.cmd)'
  <2>1. f.cmd \in Commands /\ f.cmd.byte = cmd.byte
    BY DEF FramesOfByte, LightFrame
  <2>2. Touched(f.cmd) = Touched(cmd)
    BY <1>2, <2>1, CommandFacts
  <2>3. f.cmd.sets \cup f.cmd.clears \subseteq doubt'
    BY <1>1, <2>2 DEF Touched
  <2> QED  BY <2>3 DEF SetsNothingNew
<1> QED  BY <1>1, <1>2, <1>3, <1>4, <1>5, <1>6, FinishedKeeps

LEMMA LightsRestartKeeps == ASSUME LightsInv, Restart PROVE LightsInv'
<1> DEFINE off == TrafficCmd({})
           last == [cmd |-> off, late |-> TRUE]
<1>1. /\ call = Quiet /\ Underway = {} /\ toBoard' \in {<<>>, <<last>>}
      /\ believed' = {} /\ topic' = {} /\ beat' = Quiet /\ told' = "told" /\ doubt' = Pins
      /\ UNCHANGED <<lit, call, status, toNode, crossed>>
  BY DEF Restart
<1>2. off \in Commands /\ Touched(off) \subseteq Pins
  BY CommandFacts
<1> HIDE DEF off
<1>3. last \in LightFrame /\ last \in StillSent(off)'
  BY <1>1, <1>2 DEF LightFrame, StillSent, FramesOfByte, SetsNothingNew, Touched
<1>4. toNode = <<>>
  <2>1. ToSet(toNode) = {}
    BY <1>1, LightsFacts, InFlightIs DEF Underway
  <2> QED  BY <2>1, LightsFacts, SomeInQueue
<1> HIDE DEF last
<1>5. ASSUME NEW S, last \in S PROVE toBoard' \in Seq(S) /\ Len(toBoard') \in {0, 1}
  <2>1. <<>> \in Seq(S) /\ Len(<<>>) = 0
    BY NothingIsAnyKind
  <2>2. <<last>> \in Seq(S) /\ Len(<<last>>) = 1
    BY <1>5
  <2> QED  BY <1>1, <2>1, <2>2
<1>6. toBoard' \in Seq(LightFrame) /\ toBoard' \in Seq(StillSent(off)') /\ Len(toBoard') \in {0, 1}
  BY <1>3, <1>5
<1>7. toNode' \in Seq(LightAck) /\ toNode' \in Seq(StillAnswered(off)') /\ Len(toNode') = 0
  BY <1>1, <1>4, NothingIsAnyKind
<1>8. LitBeside({})'
  BY <1>1 DEF LitBeside
<1>9. RepliesAreOwn'
  <2>1. \A c : c = off => toBoard' \in Seq(StillSent(c)') /\ toNode' \in Seq(StillAnswered(c)')
    BY <1>6, <1>7 DEF off
  <2> QED  BY <1>1, <1>2, <1>8, <2>1 DEF RepliesAreOwn, BetweenCalls
<1>10. Len(toBoard') + Len(toNode') <= MaxFrames
  <2>1. Len(toBoard') \in {0, 1} /\ Len(toNode') = 0
    BY <1>6, <1>7
  <2>2. MaxFrames \in Nat /\ MaxFrames >= 1
    BY LightsAssumption
  <2> QED  BY <2>1, <2>2
<1>11. LightsTypeOK' /\ BeatIsRecent'
  BY <1>1, <1>10, LightsFacts DEF LightsTypeOK, BeatIsRecent
<1> QED  BY <1>6, <1>7, <1>9, <1>11 DEF LightsInv

LEMMA OnCanMsgKeeps == ASSUME LightsInv, OnCanMsg PROVE LightsInv'
<1> DEFINE a == Head(toNode)
           said == IF a.ok THEN "ok" ELSE "error"
<1>1. /\ toNode # <<>> /\ toNode' = Tail(toNode)
      /\ status' = IF call # Quiet /\ a.cmd.byte = call.byte THEN said ELSE status
      /\ UNCHANGED <<believed, lit, call, toBoard, crossed, doubt, topic, beat, told>>
  BY DEF OnCanMsg, Expected, showVars
<1>2. a \in LightAck /\ toNode' \in Seq(LightAck) /\ Len(toNode') = Len(toNode) - 1
  BY <1>1, LightsFacts, KindKept
<1>3. Len(toBoard') + Len(toNode') <= MaxFrames
  BY <1>1, <1>2, LightsFacts
<1>4. said \in {"ok", "error"} /\ (said = "ok" <=> a.ok)
  BY <1>2 DEF LightAck
<1> HIDE DEF a, said
<1>5. LightsTypeOK' /\ BeatIsRecent'
  <2>1. LightsTypeOK'
    BY <1>1, <1>3, <1>4, LightsFacts DEF LightsTypeOK
  <2> QED  BY <1>1, <2>1 DEF LightsInv, BeatIsRecent
<1>6. /\ FramesOfByte(call)' = FramesOfByte(call) /\ AcksOfByte(call)' = AcksOfByte(call)
      /\ FramesBefore' = FramesBefore /\ AcksBefore' = AcksBefore
      /\ CallAcks' = CallAcks /\ CallFrame' = CallFrame
      /\ (LitAs(call)' <=> LitAs(call)) /\ (Masked(call)' <=> Masked(call))
      /\ (LitBeside(Touched(call))' <=> LitBeside(Touched(call)))
      /\ (LitBeside({})' <=> LitBeside({}))
  BY <1>1 DEF FramesOfByte, AcksOfByte, LitAs, Masked, FramesBefore, SetsNothingNew, AcksBefore, CallAcks,
              CallFrame, LitBeside, Touched
<1>7. ASSUME call = Quiet PROVE BetweenCalls'
  <2>1. PICK d \in Commands : toBoard \in Seq(StillSent(d)) /\ toNode \in Seq(StillAnswered(d))
    BY <1>7 DEF LightsInv, RepliesAreOwn, BetweenCalls
  <2>2. toNode' \in Seq(StillAnswered(d))
    BY <1>1, <2>1, KindKept
  <2>3. StillAnswered(d)' = StillAnswered(d) /\ StillSent(d)' = StillSent(d)
    BY <1>1 DEF StillAnswered, AcksOfByte, LitAs, StillSent, FramesOfByte, SetsNothingNew
  <2>4. LitBeside({})'
    BY <1>6, <1>7 DEF LightsInv, RepliesAreOwn, BetweenCalls
  <2> QED  BY <1>1, <2>1, <2>2, <2>3, <2>4 DEF BetweenCalls
<1>8. ASSUME call # Quiet, CallCrossed PROVE CallCrossed'
  <2>1. a \in AcksOfByte(call) /\ toNode' \in Seq(AcksOfByte(call))
    BY <1>1, <1>8, KindKept DEF CallCrossed, a
  <2>2. status' = said /\ (a.ok /\ ~Masked(call) => LitAs(call))
    BY <1>1, <1>8, <2>1 DEF AcksOfByte
  <2> QED  BY <1>1, <1>4, <1>6, <1>8, <2>1, <2>2 DEF CallCrossed
<1>9. ASSUME call # Quiet, CallAlone PROVE CallAlone'
  <2>1. toNode \in Seq(AcksBefore) => toNode' \in Seq(AcksBefore)' /\ status' = status
    <3> SUFFICES ASSUME toNode \in Seq(AcksBefore) PROVE toNode' \in Seq(AcksBefore)' /\ status' = status
      OBVIOUS
    <3>1. a \in AcksBefore /\ toNode' \in Seq(AcksBefore)
      BY <1>1, KindKept DEF a
    <3>2. a.cmd.byte # call.byte
      BY <3>1 DEF AcksBefore
    <3> QED  BY <1>1, <1>6, <3>1, <3>2
  <2>2. CASE BeforeOnly
    BY <1>1, <1>6, <2>1, <2>2 DEF BeforeOnly, CallAlone
  <2>3. CASE BeforeThenCall
    <3>1. toBoard' = toBoard /\ LitBeside({})' /\ status' = "none" /\ toNode' \in Seq(AcksBefore)'
      BY <1>1, <1>6, <2>1, <2>3 DEF BeforeThenCall
    <3>2. \E old \in Seq(FramesBefore) : toBoard = Append(old, CallFrame)
      BY <2>3 DEF BeforeThenCall
    <3>3. BeforeThenCall'
      BY <1>6, <3>1, <3>2 DEF BeforeThenCall
    <3> QED  BY <3>3 DEF CallAlone
  <2>4. CASE BeforeThenReply
    <3>1. PICK old \in Seq(AcksBefore), own \in CallAcks : toNode = Append(old, own) /\ Tells(own.ok)
      BY <2>4 DEF BeforeThenReply
    <3>2. \A ok : Tells(ok)' <=> Tells(ok)
      BY <1>6 DEF Tells
    <3>3. CASE old # <<>>
      <4>1. Tail(old) \in Seq(AcksBefore) /\ Head(old) \in AcksBefore
        BY <3>1, <3>3, KindKept
      <4>2. toNode' = Append(Tail(old), own) /\ a = Head(old)
        BY <1>1, <3>1, <3>3, HeadOfTwoKinds DEF a
      <4>3. status' = status
        BY <1>1, <4>1, <4>2 DEF AcksBefore
      <4>4. toBoard' = <<>> /\ status' = "none"
        BY <1>1, <2>4, <4>3 DEF BeforeThenReply
      <4>5. BeforeThenReply'
        BY <1>6, <3>1, <3>2, <4>1, <4>2, <4>4 DEF BeforeThenReply
      <4> QED  BY <4>5 DEF CallAlone
    <3>4. CASE old = <<>>
      <4>1. toNode' = <<>> /\ a = own
        BY <1>1, <3>1, <3>4, HeadOfTwoKinds DEF a
      <4>2. status' = said /\ own.ok \in BOOLEAN
        BY <1>1, <1>9, <3>1, <4>1 DEF CallAcks, LightAck
      <4>3. status' # "none" /\ (status' = "ok" <=> own.ok)
        BY <1>4, <4>1, <4>2
      <4>4. toBoard' = <<>>
        BY <1>1, <2>4 DEF BeforeThenReply
      <4>5. Tells(status = "ok")'
        BY <1>6, <3>1, <4>3 DEF Tells
      <4>6. Told'
        BY <4>1, <4>3, <4>4, <4>5 DEF Told
      <4> QED  BY <4>6 DEF CallAlone
    <3> QED  BY <3>3, <3>4
  <2>5. CASE Told
    BY <1>1, <2>5 DEF Told
  <2> QED  BY <1>9, <2>2, <2>3, <2>4, <2>5 DEF CallAlone
<1>10. RepliesAreOwn'
  BY <1>1, <1>7, <1>8, <1>9 DEF LightsInv, RepliesAreOwn
<1> QED  BY <1>1, <1>2, <1>5, <1>10 DEF LightsInv

\* What one command does: its acknowledgement, if one is sent, tells what became of it.
LEMMA LightBoardKinds ==
    ASSUME LightsInv, BoardActs
    PROVE  /\ toBoard # <<>> /\ toBoard' = Tail(toBoard) /\ Head(toBoard) \in LightFrame
           /\ UNCHANGED <<believed, call, status, crossed, doubt, topic, beat, told>>
           /\ lit' \subseteq Pins /\ lit' \in {lit, Effect(Head(toBoard).cmd, lit)}
           /\ \/ toNode' = toNode
              \/ \E a \in LightAck :
                    /\ toNode' = Append(toNode, a) /\ a.cmd = Head(toBoard).cmd /\ a.late = Head(toBoard).late
                    /\ lit' = IF a.ok THEN Effect(Head(toBoard).cmd, lit) ELSE lit
<1>1. /\ toBoard # <<>> /\ toBoard' = Tail(toBoard) /\ Head(toBoard) \in LightFrame
      /\ UNCHANGED <<believed, call, status, crossed, doubt, topic, beat, told>>
  BY LightsFacts, KindKept DEF BoardActs, showVars
<1>2. Head(toBoard).cmd \in Commands /\ Head(toBoard).late \in BOOLEAN /\ lit \subseteq Pins
  BY <1>1, LightsFacts DEF LightFrame, LightsTypeOK
<1>3. Effect(Head(toBoard).cmd, lit) \subseteq Pins
  BY <1>2, CommandFacts DEF Effect
<1>4. PICK ok \in BOOLEAN :
          /\ lit' = IF ok THEN Effect(Head(toBoard).cmd, lit) ELSE lit
          /\ toNode' \in {toNode, Append(toNode, [cmd |-> Head(toBoard).cmd, late |-> Head(toBoard).late,
                                                  ok |-> ok])}
  <2>1. \/ /\ lit' = Effect(Head(toBoard).cmd, lit)
           /\ toNode' \in {toNode, Append(toNode, [cmd |-> Head(toBoard).cmd, late |-> Head(toBoard).late,
                                                   ok |-> TRUE])}
        \/ /\ lit' = lit
           /\ toNode' \in {toNode, Append(toNode, [cmd |-> Head(toBoard).cmd, late |-> Head(toBoard).late,
                                                   ok |-> FALSE])}
    BY DEF BoardActs
  <2> QED  BY <2>1
<1> DEFINE a == [cmd |-> Head(toBoard).cmd, late |-> Head(toBoard).late, ok |-> ok]
<1>5. a \in LightAck /\ a.cmd = Head(toBoard).cmd /\ a.late = Head(toBoard).late /\ a.ok = ok
  BY <1>2 DEF LightAck
<1>6. toNode' = toNode \/ toNode' = Append(toNode, a)
  BY <1>4
<1> HIDE DEF a
<1>7. \/ toNode' = toNode
      \/ \E b \in LightAck :
                    /\ toNode' = Append(toNode, b) /\ b.cmd = Head(toBoard).cmd /\ b.late = Head(toBoard).late
                    /\ lit' = IF b.ok THEN Effect(Head(toBoard).cmd, lit) ELSE lit
  BY <1>4, <1>5, <1>6
<1>8. lit' \subseteq Pins /\ lit' \in {lit, Effect(Head(toBoard).cmd, lit)}
  BY <1>2, <1>3, <1>4
<1> QED  BY <1>1, <1>7, <1>8

LEMMA LightBoardKeeps == ASSUME LightsInv, BoardActs PROVE LightsInv'
<1> DEFINE f == Head(toBoard)
<1>1. /\ toBoard # <<>> /\ toBoard' = Tail(toBoard) /\ f \in LightFrame
      /\ UNCHANGED <<believed, call, status, crossed, doubt, topic, beat, told>>
      /\ lit' \subseteq Pins /\ lit' \in {lit, Effect(f.cmd, lit)}
  BY LightBoardKinds
<1>2. \/ toNode' = toNode
      \/ \E a \in LightAck :
            /\ toNode' = Append(toNode, a) /\ a.cmd = f.cmd /\ a.late = f.late
            /\ lit' = IF a.ok THEN Effect(f.cmd, lit) ELSE lit
  BY LightBoardKinds
<1>3. toBoard' \in Seq(LightFrame) /\ Len(toBoard') = Len(toBoard) - 1
  BY <1>1, LightsFacts, KindKept
<1>4. toNode' \in Seq(LightAck) /\ Len(toNode') \in {Len(toNode), Len(toNode) + 1}
  <2>1. \A a \in LightAck : Append(toNode, a) \in Seq(LightAck) /\ Len(Append(toNode, a)) = Len(toNode) + 1
    BY LightsFacts, KindKept
  <2>2. toNode' = toNode \/ \E a \in LightAck : toNode' = Append(toNode, a)
    BY <1>2
  <2> QED  BY <2>1, <2>2, LightsFacts
<1>5. Len(toBoard') + Len(toNode') <= MaxFrames
  BY <1>3, <1>4, LightsFacts
<1>6. LightsTypeOK' /\ BeatIsRecent'
  <2>1. LightsTypeOK'
    BY <1>1, <1>5, LightsFacts DEF LightsTypeOK
  <2> QED  BY <1>1, <2>1 DEF LightsInv, BeatIsRecent
<1>7. f.cmd \in Commands /\ Touched(f.cmd) = f.cmd.sets \cup f.cmd.clears /\ f.cmd.sets \cap f.cmd.clears = {}
  BY <1>1, CommandFacts DEF LightFrame
<1> HIDE DEF f
<1>8. \A p : p \notin Touched(f.cmd) => (p \in lit' <=> p \in lit)
  BY <1>1, <1>7, EffectDoes
<1>9. ASSUME lit' = Effect(f.cmd, lit)
      PROVE  (\A p \in f.cmd.sets : p \in lit') /\ (\A p \in f.cmd.clears : p \notin lit')
  BY <1>7, <1>9, EffectDoes
<1>10. ASSUME NEW S, SetsNothingNew(f.cmd), LitBeside(S) PROVE \A T : T = S => LitBeside(T)'
  <2>1. CASE lit' = lit
    BY <1>1, <1>10, <2>1 DEF LitBeside
  <2>2. CASE lit' = Effect(f.cmd, lit)
    BY <1>1, <1>7, <1>8, <1>9, <1>10, <2>2 DEF LitBeside, SetsNothingNew
  <2> QED  BY <1>1, <2>1, <2>2
<1>11. ASSUME LitAs(f.cmd) PROVE \A c : c = f.cmd => LitAs(c)'
  <2>1. CASE lit' = lit
    BY <1>11, <2>1 DEF LitAs
  <2>2. CASE lit' = Effect(f.cmd, lit)
    BY <1>9, <2>2 DEF LitAs
  <2> QED  BY <1>1, <2>1, <2>2
<1>12. ASSUME NEW c \in Commands, c.byte = f.cmd.byte, toNode \in Seq(AcksOfByte(c))
       PROVE  toNode' \in Seq(AcksOfByte(c)')
  <2>0. ~Masked(c) => c = f.cmd
    BY <1>7, <1>12, CommandFacts
  <2>1. AcksOfByte(c) \subseteq AcksOfByte(c)'
    BY <1>11, <2>0 DEF AcksOfByte, Masked
  <2>2. toNode \in Seq(AcksOfByte(c)')
    BY <1>12, <2>1, SeqMonotonic
  <2>3. ASSUME NEW a \in LightAck, toNode' = Append(toNode, a), a.cmd = f.cmd,
               lit' = IF a.ok THEN Effect(f.cmd, lit) ELSE lit
        PROVE  toNode' \in Seq(AcksOfByte(c)')
    <3>1. a.ok /\ ~Masked(c) => LitAs(c)'
      BY <1>9, <2>0, <2>3 DEF LitAs
    <3>2. a \in AcksOfByte(c)'
      BY <1>12, <2>3, <3>1 DEF AcksOfByte, Masked
    <3> QED  BY <2>2, <2>3, <3>2, KindKept
  <2> QED  BY <1>2, <2>2, <2>3
<1>13. ASSUME call = Quiet PROVE BetweenCalls'
  <2>1. PICK d \in Commands : toBoard \in Seq(StillSent(d)) /\ toNode \in Seq(StillAnswered(d))
    BY <1>13 DEF LightsInv, RepliesAreOwn, BetweenCalls
  <2>2. f \in StillSent(d) /\ toBoard' \in Seq(StillSent(d))
    BY <1>1, <2>1, KindKept DEF f
  <2>3. d.byte = f.cmd.byte /\ f.late /\ SetsNothingNew(f.cmd)
    BY <2>2 DEF StillSent, FramesOfByte
  <2>4. LitBeside({})'
    <3>1. LitBeside({})
      BY <1>13 DEF LightsInv, RepliesAreOwn, BetweenCalls
    <3> QED  BY <1>10, <2>3, <3>1
  <2>5. toNode' \in Seq(AcksOfByte(d)')
    <3>1. StillAnswered(d) \subseteq AcksOfByte(d)
      BY DEF StillAnswered
    <3>2. toNode \in Seq(AcksOfByte(d))
      BY <2>1, <3>1, SeqMonotonic
    <3> QED  BY <1>12, <2>3, <3>2
  <2>6. toNode' \in Seq({a \in LightAck : a.late})
    <3>1. StillAnswered(d) \subseteq {a \in LightAck : a.late}
      BY DEF StillAnswered, AcksOfByte
    <3>2. toNode \in Seq({a \in LightAck : a.late})
      BY <2>1, <3>1, SeqMonotonic
    <3>3. ASSUME NEW a \in LightAck, toNode' = Append(toNode, a), a.late = f.late
          PROVE  toNode' \in Seq({b \in LightAck : b.late})
      <4>1. a \in {b \in LightAck : b.late}
        BY <2>3, <3>3
      <4> QED  BY <3>2, <3>3, <4>1, KindKept
    <3> QED  BY <1>2, <3>2, <3>3
  <2>7. toNode' \in Seq(StillAnswered(d)')
    <3>1. toNode' \in Seq(AcksOfByte(d)' \cap {a \in LightAck : a.late})
      BY <2>5, <2>6, BothKinds
    <3>2. AcksOfByte(d)' \cap {a \in LightAck : a.late} \subseteq StillAnswered(d)'
      BY DEF StillAnswered
    <3> QED  BY <3>1, <3>2, SeqMonotonic
  <2>8. toBoard' \in Seq(StillSent(d)')
    BY <1>1, <2>2 DEF StillSent, FramesOfByte, SetsNothingNew
  <2> QED  BY <2>4, <2>7, <2>8 DEF BetweenCalls
<1>14. ASSUME call # Quiet, CallCrossed PROVE CallCrossed'
  <2>1. f \in FramesOfByte(call) /\ toBoard' \in Seq(FramesOfByte(call))
    BY <1>1, <1>14, KindKept DEF CallCrossed, f
  <2>2. call \in Commands /\ call.byte = f.cmd.byte
    BY <1>14, <2>1, LightsFacts DEF FramesOfByte
  <2>3. Touched(call) = Touched(f.cmd) /\ (~Masked(call) => call = f.cmd)
    BY <1>7, <2>2, CommandFacts
  <2>4. toNode' \in Seq(AcksOfByte(call)')
    <3>1. ASSUME NEW c, c = call PROVE toNode' \in Seq(AcksOfByte(call)')
      <4>1. toNode' \in Seq(AcksOfByte(c)')
        BY <1>12, <1>14, <2>2, <3>1 DEF CallCrossed
      <4>2. AcksOfByte(c)' = AcksOfByte(call)'
        BY <1>1, <3>1 DEF AcksOfByte, LitAs, Masked
      <4> QED  BY <4>1, <4>2
    <3> QED  BY <3>1
  <2>5. LitBeside(Touched(call))'
    <3>1. \A p \in Pins \ (doubt \cup Touched(call)) : p \in believed <=> p \in lit
      BY <1>14 DEF CallCrossed, LitBeside
    <3>2. Touched(call)' = Touched(call)
      BY <1>1 DEF Touched
    <3> QED  BY <1>1, <1>8, <2>3, <3>1, <3>2 DEF LitBeside
  <2>6. status = "ok" /\ ~Masked(call) => LitAs(call)'
    <3> SUFFICES ASSUME status = "ok", ~Masked(call) PROVE LitAs(call)'
      OBVIOUS
    <3>1. LitAs(f.cmd)
      BY <1>14, <2>3 DEF CallCrossed
    <3>2. ASSUME NEW c, c = f.cmd PROVE LitAs(call)'
      <4>1. LitAs(c)'
        BY <1>11, <3>1, <3>2
      <4> QED  BY <1>1, <2>3, <3>2, <4>1 DEF LitAs
    <3> QED  BY <3>2
  <2>7. toBoard' \in Seq(FramesOfByte(call)') /\ status' = status /\ (Masked(call)' <=> Masked(call))
    BY <1>1, <2>1 DEF FramesOfByte, Masked
  <2> QED  BY <2>4, <2>5, <2>6, <2>7 DEF CallCrossed
<1>15. /\ FramesBefore' = FramesBefore /\ AcksBefore' = AcksBefore
       /\ CallAcks' = CallAcks /\ CallFrame' = CallFrame
  BY <1>1 DEF FramesBefore, SetsNothingNew, AcksBefore, CallAcks, CallFrame
<1>16. ASSUME f \in FramesBefore, toNode \in Seq(AcksBefore) PROVE toNode' \in Seq(AcksBefore)'
  <2>1. ASSUME NEW a \in LightAck, toNode' = Append(toNode, a), a.cmd = f.cmd, a.late = f.late
        PROVE  toNode' \in Seq(AcksBefore)'
    <3>1. a \in AcksBefore
      BY <1>16, <2>1 DEF AcksBefore, FramesBefore
    <3> QED  BY <1>15, <1>16, <2>1, <3>1, KindKept
  <2> QED  BY <1>2, <1>15, <1>16, <2>1
<1>17. ASSUME call # Quiet, BeforeOnly PROVE CallAlone'
  <2>1. f \in FramesBefore /\ toBoard' \in Seq(FramesBefore)
    BY <1>1, <1>17, KindKept DEF BeforeOnly, f
  <2>2. toNode' \in Seq(AcksBefore)' /\ status' = "none"
    BY <1>1, <1>16, <1>17, <2>1 DEF BeforeOnly
  <2>3. LitBeside(Touched(call))'
    <3>1. SetsNothingNew(f.cmd) /\ LitBeside(Touched(call))
      BY <1>17, <2>1 DEF FramesBefore, BeforeOnly
    <3>2. ASSUME NEW T, T = Touched(call) PROVE LitBeside(Touched(call))'
      <4>1. LitBeside(T)'
        BY <1>10, <3>1, <3>2
      <4> QED  BY <1>1, <3>2, <4>1 DEF LitBeside, Touched
    <3> QED  BY <3>2
  <2>4. BeforeOnly'
    BY <1>15, <2>1, <2>2, <2>3 DEF BeforeOnly
  <2> QED  BY <2>4 DEF CallAlone
<1>18. ASSUME call # Quiet, BeforeThenCall PROVE CallAlone'
  <2>1. PICK old \in Seq(FramesBefore) : toBoard = Append(old, CallFrame)
    BY <1>18 DEF BeforeThenCall
  <2>2. CASE old # <<>>
    <3>1. toBoard' = Append(Tail(old), CallFrame) /\ f = Head(old)
      BY <1>1, <2>1, <2>2, HeadOfTwoKinds DEF f
    <3>2. Tail(old) \in Seq(FramesBefore) /\ f \in FramesBefore
      BY <2>1, <2>2, <3>1, KindKept
    <3>3. toNode' \in Seq(AcksBefore)' /\ status' = "none"
      BY <1>1, <1>16, <1>18, <3>2 DEF BeforeThenCall
    <3>4. LitBeside({})'
      <4>1. SetsNothingNew(f.cmd) /\ LitBeside({})
        BY <1>18, <3>2 DEF FramesBefore, BeforeThenCall
      <4> QED  BY <1>10, <4>1
    <3>5. BeforeThenCall'
      BY <1>15, <3>1, <3>2, <3>3, <3>4 DEF BeforeThenCall
    <3> QED  BY <3>5 DEF CallAlone
  <2>3. CASE old = <<>>
    <3>1. toBoard' = <<>> /\ f.cmd = call
      BY <1>1, <2>1, <2>3, HeadOfTwoKinds DEF f, CallFrame
    <3>2. status' = "none" /\ toNode \in Seq(AcksBefore)' /\ LitBeside({})
      BY <1>1, <1>15, <1>18 DEF BeforeThenCall
    <3>3. LitBeside(Touched(call))'
      <4>1. Touched(call)' = Touched(f.cmd)
        BY <1>1, <3>1 DEF Touched
      <4> QED  BY <1>1, <1>8, <3>2, <4>1 DEF LitBeside
    <3>4. ASSUME toNode' = toNode PROVE BeforeOnly'
      BY <3>1, <3>2, <3>3, <3>4, NothingIsAnyKind DEF BeforeOnly
    <3>5. ASSUME NEW a \in LightAck, toNode' = Append(toNode, a), a.cmd = f.cmd,
                 lit' = IF a.ok THEN Effect(f.cmd, lit) ELSE lit
          PROVE  BeforeThenReply'
      <4>1. a \in CallAcks'
        BY <1>1, <3>1, <3>5 DEF CallAcks
      <4>2. a.ok => LitAs(call)'
        BY <1>1, <1>9, <3>1, <3>5 DEF LitAs
      <4>3. ~a.ok => LitBeside({})'
        BY <1>1, <3>2, <3>5 DEF LitBeside
      <4>4. Tells(a.ok)'
        BY <3>3, <4>2, <4>3 DEF Tells
      <4> QED  BY <3>1, <3>2, <3>5, <4>1, <4>4 DEF BeforeThenReply
    <3> QED  BY <1>2, <3>4, <3>5 DEF CallAlone
  <2> QED  BY <2>2, <2>3
<1>19. ASSUME CallAlone PROVE BeforeOnly \/ BeforeThenCall
  BY <1>1, <1>19 DEF CallAlone, BeforeThenReply, Told
<1>20. RepliesAreOwn'
  BY <1>1, <1>13, <1>14, <1>17, <1>18, <1>19 DEF LightsInv, RepliesAreOwn
<1> QED  BY <1>3, <1>4, <1>6, <1>20 DEF LightsInv

LEMMA UncalledKeeps ==
    ASSUME LightsInv, UNCHANGED <<believed, lit, call, status, toBoard, toNode, crossed, doubt>>
    PROVE  RepliesAreOwn'
<1>1. /\ believed' = believed /\ lit' = lit /\ call' = call /\ status' = status
      /\ toBoard' = toBoard /\ toNode' = toNode /\ crossed' = crossed /\ doubt' = doubt
  OBVIOUS
<1>2. /\ FramesBefore' = FramesBefore /\ AcksBefore' = AcksBefore
      /\ CallAcks' = CallAcks /\ CallFrame' = CallFrame
      /\ FramesOfByte(call)' = FramesOfByte(call) /\ AcksOfByte(call)' = AcksOfByte(call)
  BY <1>1 DEF FramesBefore, SetsNothingNew, AcksBefore, CallAcks, CallFrame, FramesOfByte, AcksOfByte, LitAs, Masked
<1>3. /\ LitBeside({})' <=> LitBeside({})
      /\ LitBeside(Touched(call))' <=> LitBeside(Touched(call))
      /\ LitAs(call)' <=> LitAs(call)
      /\ Masked(call)' <=> Masked(call)
  BY <1>1 DEF LitBeside, Touched, LitAs, Masked
<1>4. \A ok : Tells(ok)' <=> Tells(ok)
  BY <1>3 DEF Tells
<1>5. (BeforeOnly => BeforeOnly') /\ (BeforeThenCall => BeforeThenCall')
  BY <1>1, <1>2, <1>3 DEF BeforeOnly, BeforeThenCall
<1>6. BeforeThenReply => BeforeThenReply'
  BY <1>1, <1>2, <1>4 DEF BeforeThenReply
<1>7. Told => Told'
  <2>1. Tells(status = "ok")' <=> Tells(status = "ok")
    BY <1>1, <1>3 DEF Tells
  <2> QED  BY <1>1, <2>1 DEF Told
<1>8. CallCrossed => CallCrossed'
  BY <1>1, <1>2, <1>3 DEF CallCrossed
<1>9. BetweenCalls => BetweenCalls'
  BY <1>1 DEF BetweenCalls, LitBeside, StillSent, FramesOfByte, SetsNothingNew, StillAnswered, AcksOfByte, LitAs
<1> QED  BY <1>1, <1>5, <1>6, <1>7, <1>8, <1>9 DEF LightsInv, RepliesAreOwn, CallAlone

LEMMA BeatKeeps == ASSUME LightsInv, Beat PROVE LightsInv'
<1>1. /\ UNCHANGED <<believed, lit, call, status, toBoard, toNode, crossed, doubt>>
      /\ \/ beat = Quiet /\ beat' = believed /\ topic' = topic
            /\ told' = IF told = "told" THEN "told" ELSE "read"
         \/ beat # Quiet /\ topic' = beat /\ beat' = Quiet
            /\ told' = IF told = "behind" THEN "behind" ELSE "told"
  BY DEF Beat, BeatReads, BeatPublishes, StateRead
<1>2. believed \subseteq Pins /\ Quiet \notin SUBSET Pins
  BY LightsFacts, LightsAssumption DEF LightsTypeOK
<1>3. BeatIsRecent'
  <2>1. believed # Quiet /\ BeatIsRecent
    BY <1>2 DEF LightsInv
  <2> QED  BY <1>1, <2>1 DEF BeatIsRecent
<1>4. LightsTypeOK'
  BY <1>1, <1>2, LightsFacts DEF LightsTypeOK
<1>5. RepliesAreOwn'
  BY <1>1, UncalledKeeps
<1> QED  BY <1>1, <1>3, <1>4, <1>5, LightsFacts DEF LightsInv

LEMMA LightsInvStep == LightsInv /\ [LightsNext]_lightVars => LightsInv'
<1> SUFFICES ASSUME LightsInv, [LightsNext]_lightVars PROVE LightsInv'
  OBVIOUS
<1>1. CASE \/ \E name \in LightNames, on \in BOOLEAN : SetLight(name, on)
           \/ \E name \in LightNames : ToggleLight(name)
           \/ \E wanted \in [TrafficPins -> {"keep", "off", "on"}] : SetTraffic(wanted)
  BY <1>1, CallsKeep
<1>2. CASE Finish
  BY <1>2, FinishKeeps
<1>3. CASE TimeOut
  BY <1>3, CallTimeoutKeeps
<1>4. CASE Restart
  BY <1>4, LightsRestartKeeps
<1>5. CASE BoardActs
  BY <1>5, LightBoardKeeps
<1>6. CASE OnCanMsg
  BY <1>6, OnCanMsgKeeps
<1>7. CASE Beat
  BY <1>7, BeatKeeps
<1>8. CASE UNCHANGED lightVars
  <2>1. RepliesAreOwn'
    BY <1>8, UncalledKeeps DEF lightVars
  <2>2. LightsTypeOK' /\ BeatIsRecent'
    BY <1>8 DEF lightVars, LightsInv, LightsTypeOK, BeatIsRecent
  <2> QED  BY <1>8, <2>1, <2>2 DEF LightsInv, lightVars
<1> QED  BY <1>1, <1>2, <1>3, <1>4, <1>5, <1>6, <1>7, <1>8 DEF LightsNext, Serve

LEMMA LightsSafe == LightsInv => LightsTypeOK /\ ConfirmedIsLit /\ HeartbeatTells
<1>1. ASSUME LightsInv, call = Quiet PROVE believed \ doubt = lit \ doubt
  <2>1. LitBeside({}) /\ believed \subseteq Pins /\ lit \subseteq Pins
    BY <1>1 DEF LightsInv, RepliesAreOwn, BetweenCalls, LightsTypeOK
  <2> QED  BY <2>1 DEF LitBeside
<1> QED  BY <1>1 DEF LightsInv, BeatIsRecent, ConfirmedIsLit, HeartbeatTells

\* Lights (rover_lights_node.py, _send_and_wait, _commit and the heartbeat): a light whose
\* last command was confirmed by its own answer is as the node says, and a heartbeat that
\* began after the last change leaves it on the topic.
THEOREM LightsAreAsTold == LightsSpec => [](ConfirmedIsLit /\ HeartbeatTells)
<1>1. LightsSpec => []LightsInv
  BY LightsInvInit, LightsInvStep, PTL DEF LightsSpec
<1>2. LightsInv => ConfirmedIsLit /\ HeartbeatTells
  BY LightsSafe
<1> QED  BY <1>1, <1>2, PTL

===============================================================================
