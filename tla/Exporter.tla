------------------------------ MODULE Exporter ------------------------------
(***************************************************************************)
(* The metrics exporter (python/obs/dogstatsd.py): every tick it turns the *)
(* counters of stats.json into deltas, and counts the lines appended to    *)
(* alerts.jsonl since the last tick.                                       *)
(*                                                                         *)
(* One counter stands for the six, which _delta treats alike.  The gauges  *)
(* are left out: they are computed from one stats.json and keep no state.  *)
(* alerts.jsonl is a sequence of pieces as in AlertSync: the head of a     *)
(* line, then its tail with the newline; an offset is a number of pieces.  *)
(* The daemon may be restarted, and the exporter with it or on its own.    *)
(***************************************************************************)
EXTENDS Integers, Sequences, FiniteSets

CONSTANTS MaxCount,      \* bound: what the daemon counts, all its lives together
          MaxAlerts,     \* bound: alerts the daemon writes
          MaxRestarts    \* bound: restarts of the daemon

ASSUME BoundAssumption == MaxCount \in Nat /\ MaxAlerts \in Nat /\ MaxRestarts \in Nat

VARIABLES
    counter,        \* the daemon's counter
    total,          \* what it has counted in all its lives
    restarts,
    stats,          \* stats.json, or Unreadable
    file, written, writing,   \* alerts.jsonl and the writer, as in AlertSync
    truncated,      \* the file has been truncated
    ticking,        \* "down", "idle", or "drain" within a tick
    _previous,      \* the last sample, or NoSample
    baseline,       \* the first sample, or NoSample
    sent,           \* the sum of the deltas sent since the exporter started
    _alerts_offset,
    first,          \* where the exporter started to read
    alerts,         \* how often each alert has been counted
    malformed       \* lines counted as malformed

counterVars == <<counter, total, restarts, stats>>
alertFileVars == <<file, written, writing, truncated>>
deltaVars == <<_previous, baseline, sent>>
drainVars == <<_alerts_offset, first, alerts, malformed>>
exporterVars == <<counterVars, alertFileVars, ticking, deltaVars, drainVars>>

-----------------------------------------------------------------------------
\* The counter in stats.json, with the daemon's life it is from and what the
\* daemon had counted in all its lives when it wrote it.
Samples == [value : 0..MaxCount, life : 0..MaxRestarts, total : 0..MaxCount]
Unreadable == [life |-> -1]
NoSample == [life |-> -1]

Alerts == 1..MaxAlerts

Piece(n, part) == [alert |-> n, part |-> part]

ExporterInit ==
    /\ counter = 0 /\ total = 0 /\ restarts = 0 /\ stats = Unreadable
    /\ file = << >> /\ written = 0 /\ writing = FALSE /\ truncated = FALSE
    /\ ticking = "down"
    /\ _previous = NoSample /\ baseline = NoSample /\ sent = 0
    /\ _alerts_offset = 0 /\ first = 0
    /\ alerts = [n \in Alerts |-> 0] /\ malformed = 0

-----------------------------------------------------------------------------
(* The daemon.                                                             *)

Count ==
    /\ total < MaxCount
    /\ counter' = counter + 1
    /\ total' = total + 1
    /\ UNCHANGED <<restarts, stats, alertFileVars, ticking, deltaVars, drainVars>>

DaemonWritesStats ==
    /\ stats' = [value |-> counter, life |-> restarts, total |-> total]
    /\ UNCHANGED <<counter, total, restarts, alertFileVars, ticking, deltaVars, drainVars>>

\* A stats.json that json.load refuses.
DaemonLosesStats ==
    /\ stats # Unreadable
    /\ stats' = Unreadable
    /\ UNCHANGED <<counter, total, restarts, alertFileVars, ticking, deltaVars, drainVars>>

\* What is left of a line that was being written stays in the file.
DaemonRestart ==
    /\ restarts < MaxRestarts
    /\ restarts' = restarts + 1
    /\ counter' = 0
    /\ writing' = FALSE
    /\ UNCHANGED <<total, stats, file, written, truncated, ticking, deltaVars, drainVars>>

WriteHead ==
    /\ ~writing
    /\ written < MaxAlerts
    /\ written' = written + 1
    /\ file' = Append(file, Piece(written + 1, "head"))
    /\ writing' = TRUE
    /\ UNCHANGED <<counterVars, truncated, ticking, deltaVars, drainVars>>

WriteTail ==
    /\ writing
    /\ file' = Append(file, Piece(written, "tail"))
    /\ writing' = FALSE
    /\ UNCHANGED <<counterVars, written, truncated, ticking, deltaVars, drainVars>>

\* Somebody truncates the file, which the daemon goes on appending to.
Truncate ==
    /\ file # << >> /\ ~truncated
    /\ file' = << >>
    /\ truncated' = TRUE
    /\ UNCHANGED <<counterVars, written, writing, ticking, deltaVars, drainVars>>

-----------------------------------------------------------------------------
(* The exporter.                                                           *)

\* Exporter(): no samples yet, alerts from the end of the file on.
ExporterStart ==
    /\ ticking = "down"
    /\ ticking' = "idle"
    /\ _previous' = NoSample /\ baseline' = NoSample /\ sent' = 0
    /\ _alerts_offset' = Len(file) /\ first' = Len(file)
    /\ alerts' = [n \in Alerts |-> 0] /\ malformed' = 0
    /\ UNCHANGED <<counterVars, alertFileVars>>

ExporterStop ==
    /\ ticking # "down"
    /\ ticking' = "down"
    /\ UNCHANGED <<counterVars, alertFileVars, deltaVars, drainVars>>

DeltaFromZero(value) ==
    IF _previous = NoSample THEN value
    ELSE IF value < _previous.value THEN value ELSE value - _previous.value

\* _delta: the first sample is a baseline, a smaller one a restart.
Delta(value) ==
    CASE _previous = NoSample -> 0
      [] _previous # NoSample /\ value < _previous.value -> value
      [] OTHER -> value - _previous.value

\* tick(): the counters.  Without a readable stats.json the tick ends at once,
\* and nothing changes.
TickCounters ==
    /\ ticking = "idle"
    /\ stats # Unreadable
    /\ sent' = sent + Delta(stats.value)
    /\ _previous' = stats
    /\ baseline' = IF baseline = NoSample THEN stats ELSE baseline
    /\ ticking' = "drain"
    /\ UNCHANGED <<counterVars, alertFileVars, drainVars>>

Newlines(from, to) == {i \in (from + 1)..to : file[i].part = "tail"}

\* A line of the chunk that starts after from and ends at i: an alert if it is
\* the head and tail of one, with nothing glued before them.
IsAlert(from, i, n) ==
    /\ file[i] = Piece(n, "tail")
    /\ i - 1 > from
    /\ file[i - 1] = Piece(n, "head")
    /\ i - 2 > from => file[i - 2].part = "tail"

AlertsIn(from, to) == {n \in Alerts : \E i \in Newlines(from, to) : IsAlert(from, i, n)}

MalformedIn(from, to) == {i \in Newlines(from, to) : \A n \in Alerts : ~IsAlert(from, i, n)}

\* The end of the last whole line of the file.
LastNewline ==
    LET ends == Newlines(_alerts_offset, Len(file))
    IN  IF ends = {} THEN _alerts_offset
        ELSE CHOOSE i \in ends : \A j \in ends : j <= i

Drained(to, next) ==
    /\ ticking = "drain"
    /\ alerts' = [n \in Alerts |-> IF n \in AlertsIn(_alerts_offset, to)
                                   THEN alerts[n] + 1 ELSE alerts[n]]
    /\ malformed' = malformed + Cardinality(MalformedIn(_alerts_offset, to))
    /\ _alerts_offset' = next
    /\ ticking' = "idle"
    /\ UNCHANGED <<counterVars, alertFileVars, deltaVars, first>>

DrainToEnd ==
    /\ Len(file) >= _alerts_offset
    /\ Drained(LastNewline, Len(file))

\* _drain_alerts: the whole lines after the offset.
DrainAlerts ==
    /\ Len(file) >= _alerts_offset
    /\ Drained(LastNewline, LastNewline)

\* _drain_alerts, when the file cannot be opened: the offset stays.
DrainUnreadable ==
    /\ ticking = "drain"
    /\ Len(file) > _alerts_offset
    /\ ticking' = "idle"
    /\ UNCHANGED <<counterVars, alertFileVars, deltaVars, drainVars>>

\* _drain_alerts, when the file has become shorter than the offset.
DrainShrunk ==
    /\ ticking = "drain"
    /\ Len(file) < _alerts_offset
    /\ _alerts_offset' = Len(file)
    /\ ticking' = "idle"
    /\ UNCHANGED <<counterVars, alertFileVars, deltaVars, first, alerts, malformed>>

ExporterNext ==
    \/ Count \/ DaemonWritesStats \/ DaemonLosesStats \/ DaemonRestart
    \/ WriteHead \/ WriteTail \/ Truncate
    \/ ExporterStart \/ ExporterStop \/ TickCounters \/ DrainAlerts \/ DrainUnreadable \/ DrainShrunk

ExporterSpec == ExporterInit /\ [][ExporterNext]_exporterVars

-----------------------------------------------------------------------------
(* Properties.                                                             *)

\* Every variable keeps its type; the offset stays within the file.
ExporterTypeOK ==
    /\ counter \in 0..MaxCount /\ total \in 0..MaxCount /\ restarts \in 0..MaxRestarts
    /\ stats \in Samples \cup {Unreadable}
    /\ file \in Seq([alert : Alerts, part : {"head", "tail"}])
    /\ written \in 0..MaxAlerts /\ writing \in BOOLEAN
    /\ ticking \in {"down", "idle", "drain"}
    /\ _previous \in Samples \cup {NoSample} /\ baseline \in Samples \cup {NoSample}
    /\ sent \in 0..MaxCount
    /\ truncated \in BOOLEAN
    /\ first \in Nat /\ _alerts_offset \in Nat
    /\ ~truncated => first <= _alerts_offset /\ _alerts_offset <= Len(file)
    /\ alerts \in [Alerts -> Nat] /\ malformed \in Nat

\* The deltas never add up to more than the daemon counted between the first
\* and the last sample, over any number of restarts of it between two ticks, and
\* to exactly that as long as it was not restarted.
DeltasAddUp ==
    /\ ExporterTypeOK
    /\ baseline # NoSample =>
          /\ sent <= _previous.total - baseline.total
          /\ baseline.life = _previous.life => sent = _previous.total - baseline.total

\* An alert is counted once if all of its line lies between the exporter's
\* start and its offset, and never otherwise: neither a torn line, nor one that
\* a restarted daemon glued to its next, is counted early, twice, or in parts.
\* Every other line is counted as malformed, once.  A truncated file may cost
\* alerts, and counts none twice.
EachAlertCountedOnce ==
    /\ \A n \in Alerts :
          /\ alerts[n] <= 1
          /\ ~truncated => (alerts[n] = 1 <=> n \in AlertsIn(first, _alerts_offset))
    /\ ~truncated => malformed = Cardinality(MalformedIn(first, _alerts_offset))
=============================================================================
