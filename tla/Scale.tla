--------------------------------- MODULE Scale ---------------------------------
(***************************************************************************)
(* rover_peripherals: the weights of the sample container.  A request      *)
(* collects the two frames of the board's answer, by their CAN ids alone.  *)
(***************************************************************************)
EXTENDS Naturals, Sequences

CONSTANTS
    Ids,           \* the two response ids
    ScaleFrames,   \* frames in flight
    Nothing        \* no value

ASSUME ScaleAssumption == ScaleFrames \in Nat /\ Nothing \notin {"own", "earlier"}

VARIABLES
    pending,       \* _wgt_pending: a request waits
    values,        \* per id, which measurement its value is of: "own", "earlier"
    ordered,       \* the command of the request is on its way to the board
    frames,        \* measurements on their way to the node
    clear,         \* nothing was in flight when the request began
    weights        \* the last successful response, until the next request

scaleVars == <<pending, values, ordered, frames, clear, weights>>

NoValues == [id \in Ids |-> Nothing]

ScaleInit ==
    /\ pending = FALSE /\ values = NoValues /\ ordered = FALSE /\ frames = <<>>
    /\ clear = TRUE /\ weights = NoValues

Older(seq) == [i \in DOMAIN seq |-> [seq[i] EXCEPT !.of = "earlier"]]

\* A plausible bug: the values of an incomplete answer are kept.
OldValues == [id \in Ids |-> IF values[id] = Nothing THEN Nothing ELSE "earlier"]

Fresh == NoValues

OnWeightRequest ==
    /\ ~pending /\ ~ordered
    /\ pending' = TRUE /\ values' = Fresh /\ weights' = NoValues
    /\ ordered' \in BOOLEAN     \* the frame may be lost
    /\ clear' = (frames = <<>>)
    /\ frames' = Older(frames)

\* The board answers with two frames in either order, each of which may be lost or invalid.
Weighings == {<<>>} \cup {<<id>> : id \in Ids} \cup {pair \in Ids \X Ids : pair[1] # pair[2]}

BoardWeighs ==
    /\ ordered /\ ordered' = FALSE
    /\ Len(frames) + 2 <= ScaleFrames
    /\ \E ids \in Weighings :
          frames' = frames \o [i \in DOMAIN ids |-> [id |-> ids[i], of |-> "own"]]
    /\ UNCHANGED <<pending, values, clear, weights>>

\* _handle_weight_response_12 and _3: a frame nobody waits for is dropped.
OnWeight ==
    /\ frames # <<>> /\ frames' = Tail(frames)
    /\ values' = IF pending THEN [values EXCEPT ![Head(frames).id] = Head(frames).of] ELSE values
    /\ UNCHANGED <<pending, ordered, clear, weights>>

\* _try_complete_weight has set the event: the request returns the weights.
Respond ==
    /\ pending /\ \A id \in Ids : values[id] # Nothing
    /\ pending' = FALSE /\ weights' = values
    /\ UNCHANGED <<values, ordered, frames, clear>>

WeightTimesOut ==
    /\ pending /\ \E id \in Ids : values[id] = Nothing
    /\ pending' = FALSE
    /\ UNCHANGED <<values, ordered, frames, clear, weights>>

ScaleNext == OnWeightRequest \/ BoardWeighs \/ OnWeight \/ Respond \/ WeightTimesOut

ScaleSpec == ScaleInit /\ [][ScaleNext]_scaleVars

-------------------------------------------------------------------------------

ScaleTypeOK ==
    /\ {pending, ordered, clear} \subseteq BOOLEAN
    /\ {values, weights} \subseteq [Ids -> {Nothing, "own", "earlier"}]
    /\ Len(frames) <= ScaleFrames

\* A weighing that began with nothing under way reports one measurement and its own,
\* whichever frames of earlier ones came, were lost or were not finite.
WeighedTogether ==
    clear => \A id \in Ids : weights[id] # "earlier"

===============================================================================
