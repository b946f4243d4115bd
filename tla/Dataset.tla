-------------------------------- MODULE Dataset --------------------------------
(***************************************************************************)
(* rover_cameras: dataset_node, one face for the recording of all cameras. *)
(* A request switches every camera that is there and waits for them, with  *)
(* a deadline; the cameras' latched states are gathered by threads that    *)
(* store under a lock and publish the sum after it.  Recording is the      *)
(* state that is followed; saving a single frame changes none.             *)
(***************************************************************************)
EXTENDS Naturals, Sequences, SequencesExt

CONSTANTS
    Cameras,
    Threads,       \* of the executor that may gather states at a time
    MaxCalls,      \* requests a camera has yet to serve
    Unknown        \* no message, no request, no outcome

Orders == [target : BOOLEAN, result : [Cameras -> {"waiting", "skipped", "ok"}]]
Outcomes == [target : BOOLEAN, cameras : SUBSET Cameras]

ASSUME DatasetAssumption ==
    /\ Threads \in Nat \ {0} /\ MaxCalls \in Nat \ {0}
    /\ Unknown \notin Cameras /\ Unknown \notin BOOLEAN
    /\ Unknown \notin Orders /\ Unknown \notin Outcomes

VARIABLES
    up,            \* the cameras whose node runs
    records,       \* those that record
    mail,          \* the last state a camera published, not taken yet
    calls,         \* record requests each camera has yet to serve
    order,         \* the request in execution: its target, and what became of its calls
    known,         \* _states
    taken,         \* messages taken, the first first, and not stored yet
    totals,        \* sums computed, the first first, and not published yet
    sum,           \* the last message on dataset_state
    outcome,       \* history: target and cameras of the last request, if it succeeded
    steady,        \* history: cameras no other client or crash has switched since it began
    outrun         \* history: cameras stored, and a sum published, after a newer one

datasetVars == <<up, records, mail, calls, order, known, taken, totals, sum, outcome, steady, outrun>>
gatherVars == <<known, taken, totals, sum>>

DatasetInit ==
    /\ up = {} /\ records = {} /\ mail = [c \in Cameras |-> Unknown]
    /\ calls = [c \in Cameras |-> <<>>] /\ order = Unknown
    /\ known = [c \in Cameras |-> Unknown] /\ taken = <<>> /\ totals = <<>> /\ sum = FALSE
    /\ outcome = Unknown /\ steady = {} /\ outrun = {}

-------------------------------------------------------------------------------
(* The cameras *)

\* set_recording, which tells of changes only.
SwitchedTo(c, on) ==
    /\ records' = IF on THEN records \cup {c} ELSE records \ {c}
    /\ mail' = IF on = (c \in records) THEN mail ELSE [mail EXCEPT ![c] = on]

\* A camera starts with recording off, and says so.
CameraStarts(c) ==
    /\ c \notin up /\ up' = up \cup {c} /\ mail' = [mail EXCEPT ![c] = FALSE]
    /\ UNCHANGED <<records, calls, order, gatherVars, outcome, steady, outrun>>

CameraDies(c) ==
    /\ c \in up /\ up' = up \ {c} /\ records' = records \ {c}
    /\ calls' = [calls EXCEPT ![c] = <<>>]
    /\ steady' = steady \ {c}
    /\ UNCHANGED <<mail, order, gatherVars, outcome, outrun>>

\* The camera's own service has other clients.
SwitchedByOthers(c, on) ==
    /\ c \in up /\ SwitchedTo(c, on) /\ steady' = steady \ {c}
    /\ UNCHANGED <<up, calls, order, gatherVars, outcome, outrun>>

\* A camera serves its requests in order, those that nobody awaits any more too.
CameraServesCall(c) ==
    /\ calls[c] # <<>> /\ calls' = [calls EXCEPT ![c] = Tail(@)]
    /\ SwitchedTo(c, Head(calls[c]).on)
    /\ order' = IF Head(calls[c]).awaited THEN [order EXCEPT !.result[c] = "ok"] ELSE order
    /\ UNCHANGED <<up, gatherVars, outcome, steady, outrun>>

-------------------------------------------------------------------------------
(* The services *)

AnyRecords(states) == \E c \in Cameras : states[c] = TRUE

\* _call_all: a camera that is not ready is skipped; discovery may lag either way.
AskAll(target) ==
    /\ order = Unknown /\ \A c \in Cameras : Len(calls[c]) < MaxCalls
    /\ \E result \in [Cameras -> {"waiting", "skipped"}] :
          /\ order' = [target |-> target, result |-> result]
          /\ calls' = [c \in Cameras |-> IF c \in up /\ result[c] = "waiting"
                                         THEN Append(calls[c], [on |-> target, awaited |-> TRUE])
                                         ELSE calls[c]]
    /\ outcome' = Unknown /\ steady' = Cameras
    /\ UNCHANGED <<up, records, mail, gatherVars, outrun>>

Record(on) == AskAll(on)

\* A set of which any camera records is first brought to all-off.
Toggle == AskAll(~AnyRecords(known))

Called == {c \in Cameras : order.result[c] # "skipped"}

\* A plausible bug: a camera that did not answer in time is no failure.
SomeAnswered == \E c \in Called : order.result[c] = "ok"

\* summarize_record
Succeeds == SomeAnswered /\ \A c \in Called : order.result[c] = "ok"

\* Every call is answered, or the deadline passes; a call that is given up is still served.
Answer ==
    /\ order # Unknown /\ order' = Unknown
    /\ outcome' = IF Succeeds THEN [target |-> order.target, cameras |-> Called] ELSE Unknown
    /\ calls' = [c \in Cameras |-> [i \in DOMAIN calls[c] |-> [calls[c][i] EXCEPT !.awaited = FALSE]]]
    /\ UNCHANGED <<up, records, mail, gatherVars, steady, outrun>>

-------------------------------------------------------------------------------
(* _on_state, in several threads at a time *)

TakeState(c) ==
    /\ mail[c] # Unknown /\ Len(taken) + Len(totals) < Threads
    /\ mail' = [mail EXCEPT ![c] = Unknown]
    /\ taken' = Append(taken, [camera |-> c, on |-> mail[c], outrun |-> FALSE])
    /\ UNCHANGED <<up, records, calls, order, known, totals, sum, outcome, steady, outrun>>

\* A plausible bug: the sum is computed before the state is stored.
SumBefore(states) == AnyRecords(known)

Aggregate(states) == AnyRecords(states)

\* Under the lock: the message is stored and the sum computed.
StoreState(i) ==
    LET m == taken[i] IN
    /\ known' = [known EXCEPT ![m.camera] = m.on]
    /\ totals' = Append(totals, [sum |-> Aggregate(known'), outrun |-> FALSE])
    /\ taken' = RemoveAt([j \in DOMAIN taken |->
                    [taken[j] EXCEPT !.outrun = @ \/ (j < i /\ taken[j].camera = m.camera)]], i)
    /\ outrun' = IF m.outrun THEN outrun \cup {m.camera} ELSE outrun \ {m.camera}
    /\ UNCHANGED <<up, records, mail, calls, order, sum, outcome, steady>>

\* After the lock: a sum may be published behind one that was computed later.
PublishSum(i) ==
    /\ sum' = totals[i].sum
    /\ totals' = RemoveAt([j \in DOMAIN totals |-> [totals[j] EXCEPT !.outrun = @ \/ j < i]], i)
    /\ outrun' = IF totals[i].outrun THEN outrun \cup {Unknown} ELSE outrun \ {Unknown}
    /\ UNCHANGED <<up, records, mail, calls, order, known, taken, outcome, steady>>

-------------------------------------------------------------------------------

CamerasNext ==
    \/ \E c \in Cameras : CameraStarts(c) \/ CameraDies(c)
    \/ \E c \in Cameras, on \in BOOLEAN : SwitchedByOthers(c, on)

GatherNext ==
    \/ \E c \in Cameras : TakeState(c)
    \/ \E i \in DOMAIN taken : StoreState(i)
    \/ \E i \in DOMAIN totals : PublishSum(i)

AskNext ==
    \/ \E on \in BOOLEAN : Record(on)
    \/ Toggle \/ Answer \/ \E c \in Cameras : CameraServesCall(c)

DatasetNext == CamerasNext \/ GatherNext \/ AskNext

DatasetSpec == DatasetInit /\ [][DatasetNext]_datasetVars

-------------------------------------------------------------------------------

States == BOOLEAN \cup {Unknown}

DatasetTypeOK ==
    /\ records \subseteq up /\ up \subseteq Cameras /\ steady \subseteq Cameras
    /\ \A c \in Cameras : mail[c] \in States /\ known[c] \in States /\ Len(calls[c]) <= MaxCalls
    /\ Len(taken) + Len(totals) <= Threads
    /\ sum \in BOOLEAN /\ outrun \subseteq Cameras \cup {Unknown}

\* What a request that succeeds says of the cameras it called is so, until another
\* client or a crash switches one: no late call of an earlier request undoes it.
RecordsAsAsked ==
    outcome # Unknown =>
        \A c \in outcome.cameras \cap steady : c \in records <=> outcome.target

\* Once all messages are gathered, the node knows every camera that runs, and the
\* console reads their sum, unless one thread was outrun by another.
SumTells ==
    taken = <<>> /\ totals = <<>> =>
        /\ Unknown \notin outrun => sum = AnyRecords(known)
        /\ \A c \in up \ outrun : mail[c] = Unknown => known[c] = (c \in records)

===============================================================================
