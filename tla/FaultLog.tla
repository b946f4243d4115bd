------------------------------- MODULE FaultLog -------------------------------
(***************************************************************************)
(* rover_diagnostics: the fault logger.  Fault events come reliably, but   *)
(* the latched ones come again whenever publisher and logger find each     *)
(* other anew, and a burst can overrun the queue.  Each event is logged    *)
(* once, in a file that rotates.                                           *)
(***************************************************************************)
EXTENDS Naturals, Sequences, SequencesExt, FiniteSetsExt

CONSTANTS
    MaxFaults,     \* events published in a behaviour
    Depth,         \* depth of the topic, at both ends
    History,       \* of the EventDeduper
    MaxLines,      \* max_bytes, in lines
    Backups        \* backup_count

ASSUME FaultLogAssumption ==
    /\ {MaxFaults, Depth, MaxLines, Backups} \subseteq Nat \ {0}
    /\ History \in Nat /\ History >= 2 * Depth

VARIABLES
    sent,          \* the number of the last event
    queue,         \* events the logger has yet to take
    seen,          \* _seen, the oldest first
    files,         \* the lines of the log and of its backups .1, .2, ...
    handle,        \* "open", "closed", or "dead": the process has ended
    written        \* history: every line written

logVars == <<sent, queue, seen, files, handle, written>>

LogInit ==
    /\ sent = 0 /\ queue = <<>> /\ seen = <<>>
    /\ files = [i \in 0..Backups |-> <<>>] /\ handle = "open" /\ written = <<>>

LastOf(seq, n) == SubSeq(seq, IF Len(seq) > n THEN Len(seq) - n + 1 ELSE 1, Len(seq))

-------------------------------------------------------------------------------

FaultOccurs ==
    /\ sent < MaxFaults /\ sent' = sent + 1
    /\ queue' = LastOf(Append(queue, sent'), Depth)
    /\ UNCHANGED <<seen, files, handle, written>>

\* Discovery is lost and found: the publisher's last Depth events come again.
Rematch ==
    /\ queue' = LastOf([i \in 1..sent |-> i], Depth)
    /\ UNCHANGED <<sent, seen, files, handle, written>>

\* A plausible bug: only an event that repeats the last one is suppressed.
IsLast(event) == seen # <<>> /\ seen[Len(seen)] = event

IsDuplicate(event) == \E i \in DOMAIN seen : seen[i] = event

\* A plausible bug: the backups are shifted from the newest on.
ShiftUp(f, k) == [i \in 0..Backups |-> IF i = Backups THEN f[0] ELSE <<>>]

\* The backups are shifted from the oldest on; the rotation got as far as .k.
Shift(f, k) ==
    [i \in 0..Backups |-> IF i >= k THEN f[i - 1] ELSE IF i = k - 1 THEN <<>> ELSE f[i]]

WithLine(event) == [files EXCEPT ![0] = Append(@, event)]

\* write, and _rotate_if_needed: a rotation that fails halfway leaves the file closed.
Write(event) ==
    \/ /\ handle = "open" /\ written' = Append(written, event)
       /\ \/ /\ Len(WithLine(event)[0]) < MaxLines
             /\ files' = WithLine(event) /\ UNCHANGED handle
          \/ /\ Len(WithLine(event)[0]) >= MaxLines
             /\ \/ files' = Shift(WithLine(event), 1) /\ UNCHANGED handle
                \/ /\ handle' = "closed"
                   /\ \/ files' = WithLine(event)
                      \/ \E k \in 1..Backups : files' = Shift(WithLine(event), k)
    \/ /\ handle = "open" /\ UNCHANGED <<files, handle, written>>      \* OSError, reported
    \/ /\ handle = "closed" /\ handle' = "dead"      \* ValueError, which _emit lets through
       /\ UNCHANGED <<files, written>>

\* _on_event: an event is remembered before it is written.
OnEvent ==
    /\ handle # "dead" /\ queue # <<>> /\ queue' = Tail(queue)
    /\ IF IsDuplicate(Head(queue)) THEN UNCHANGED <<seen, files, handle, written>>
       ELSE seen' = LastOf(Append(seen, Head(queue)), History) /\ Write(Head(queue))
    /\ UNCHANGED sent

LogNext == FaultOccurs \/ Rematch \/ OnEvent

LogSpec == LogInit /\ [][LogNext]_logVars

-------------------------------------------------------------------------------

LogTypeOK ==
    /\ sent \in 0..MaxFaults /\ Len(queue) <= Depth /\ Len(seen) <= History
    /\ \A i \in 0..Backups : Len(files[i]) <= MaxLines
    /\ handle \in {"open", "closed", "dead"}

OnDisk == FlattenSeq([i \in 1..Backups + 1 |-> files[Backups + 1 - i]])

\* No event is logged twice, however often it was delivered ...
LoggedOnce == \A i, j \in DOMAIN written : written[i] = written[j] => i = j

\* ... and the files hold the last lines written, without a gap, as many as the backups
\* have room for.
LogTells ==
    /\ LoggedOnce
    /\ IsSuffix(OnDisk, written)
    /\ Len(OnDisk) >= Min({Len(written), Backups * MaxLines})

===============================================================================
