------------------------------- MODULE LoraFrame -------------------------------
(***************************************************************************)
(* rover_comms: the parser that finds the mast's frames in what the radio  *)
(* hands over.  A byte is one of the two sync bytes or another one, a      *)
(* frame the sync word and one of a few bodies.  On the way a byte may be  *)
(* corrupted or lost, a spurious one may come in between, and the port may *)
(* be reopened.  The CRC matches exactly the bodies that were sent.        *)
(***************************************************************************)
EXTENDS Naturals, Sequences

CONSTANTS
    BodyLen,       \* FRAME_LEN - 2
    Bodies,        \* bodies of frames, CRC included
    MaxLookalikes  \* frames that contain the sync word, one after the other

Sync == <<"AA", "55">>
Bytes == {"AA", "55", "other"}

ASSUME FrameAssumption ==
    /\ BodyLen \in Nat \ {0} /\ Bodies \subseteq [1..BodyLen -> Bytes]
    /\ MaxLookalikes \in Nat \ {0}

VARIABLES
    state,         \* _state: "sync0", "sync1", "body"
    got,           \* the length of _body
    whole,         \* the bytes in _body are the first of a sent one
    body,          \* of the frame on the air
    pos,           \* its bytes that were sent
    intact,        \* history: nothing happened to it so far
    excused,       \* history: it began while the parser was inside a body
    misses,        \* history: intact frames missed in a row since the last disturbance
    lookalikes     \* history: those of them that contain the sync word

parserVars == <<state, got, whole>>
frameVars == <<parserVars, body, pos, intact, excused, misses, lookalikes>>

FrameInit ==
    /\ state = "sync0" /\ got = 0 /\ whole = FALSE
    /\ body \in Bodies /\ pos = 0 /\ intact = TRUE /\ excused = FALSE
    /\ misses = 0 /\ lookalikes = 0

FrameOf(b) == Sync \o b
LooksAlike(b) == \E i \in 1..BodyLen - 1 : b[i] = "AA" /\ b[i + 1] = "55"

-------------------------------------------------------------------------------
(* Parser._push *)

\* A plausible bug: whatever is not the second sync byte starts the search anew.
StartsAnew(byte) == "sync0"

\* AA AA 55 is a legal start.
AfterNoSync1(byte) == IF byte = "AA" THEN "sync1" ELSE "sync0"

Complete == state = "body" /\ got = BodyLen - 1

\* own: it is the byte of the frame on the air at pos, unharmed.
Pushed(byte, own) ==
    /\ state' = CASE state = "sync0" -> IF byte = "AA" THEN "sync1" ELSE "sync0"
                  [] state = "sync1" -> IF byte = "55" THEN "body" ELSE AfterNoSync1(byte)
                  [] Complete -> "sync0"
                  [] OTHER -> "body"
    /\ got' = IF state = "body" /\ ~Complete THEN got + 1 ELSE 0
    /\ whole' = CASE state = "sync1" /\ byte = "55" -> own /\ pos = 1
                  [] state = "body" /\ ~Complete -> whole /\ own /\ pos = got + 2
                  [] OTHER -> FALSE

\* The byte completes a body whose CRC matches.
Delivers(own) == Complete /\ whole /\ own /\ pos = got + 2

\* A plausible bug: framing state survives the port.
Unreset == UNCHANGED parserVars

Reset == state' = "sync0" /\ got' = 0 /\ whole' = FALSE

-------------------------------------------------------------------------------
(* The line *)

NextFrame ==
    /\ pos' = 0 /\ intact' = TRUE /\ excused' = (state' = "body")
    /\ \E b \in Bodies : body' = b /\ (LooksAlike(b) => lookalikes' < MaxLookalikes)

\* The frame's last byte is over: it was heard, missed, or disturbed.
Counted(own) ==
    CASE ~(intact /\ own) \/ Delivers(own) -> misses' = 0 /\ lookalikes' = 0
      [] OTHER -> /\ misses' = misses + 1
                  /\ lookalikes' = IF LooksAlike(body) THEN lookalikes + 1 ELSE lookalikes

Advance(own) ==
    IF pos = Len(FrameOf(body)) - 1 THEN Counted(own) /\ NextFrame
    ELSE /\ pos' = pos + 1 /\ intact' = (intact /\ own)
         /\ IF own THEN UNCHANGED <<misses, lookalikes>> ELSE misses' = 0 /\ lookalikes' = 0
         /\ UNCHANGED <<body, excused>>

ByteArrives == Pushed(FrameOf(body)[pos + 1], TRUE) /\ Advance(TRUE)

ByteCorrupted == (\E byte \in Bytes : Pushed(byte, FALSE)) /\ Advance(FALSE)

ByteLost == UNCHANGED parserVars /\ Advance(FALSE)

\* Another sender, or the line itself.
SpuriousByte ==
    /\ \E byte \in Bytes : Pushed(byte, FALSE)
    /\ misses' = 0 /\ lookalikes' = 0
    /\ intact' = (pos = 0) /\ excused' = IF pos = 0 THEN state' = "body" ELSE excused
    /\ UNCHANGED <<body, pos>>

\* _reader: what was on the air meanwhile is gone, the frame at the reopening in part.
PortReopened ==
    /\ Reset
    /\ body' \in Bodies /\ pos' \in 0..BodyLen + 1 /\ intact' = (pos' = 0)
    /\ excused' = FALSE /\ misses' = 0 /\ lookalikes' = 0

FrameNext == ByteArrives \/ ByteCorrupted \/ ByteLost \/ SpuriousByte \/ PortReopened

FrameSpec == FrameInit /\ [][FrameNext]_frameVars

-------------------------------------------------------------------------------

FrameTypeOK ==
    /\ state \in {"sync0", "sync1", "body"} /\ got \in 0..BodyLen - 1
    /\ body \in Bodies /\ pos \in 0..BodyLen + 1
    /\ {whole, intact, excused} \subseteq BOOLEAN
    /\ misses \in 0..MaxLookalikes + 1 /\ lookalikes \in 0..MaxLookalikes

\* The parser resynchronises after corruption: an intact frame is delivered unless it
\* began while a body was being taken, in this session of the port; and of the frames
\* behind a disturbance the first is missed at most, and one more behind each missed
\* frame that contains the sync word.
Resynchronises ==
    /\ pos = BodyLen + 1 /\ intact /\ ~excused => Complete /\ whole
    /\ misses <= lookalikes + 1

===============================================================================
