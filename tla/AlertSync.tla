----------------------------- MODULE AlertSync -----------------------------
(***************************************************************************)
(* The bridge between the daemon and the API service: AlertWriter          *)
(* (coinbase_daemon_main.cpp) appends one JSON line per alert to           *)
(* alerts.jsonl, and LiveEngineSource._sync_alerts (python/api/live.py)    *)
(* copies the new lines into the SQLite table alerts.                      *)
(*                                                                         *)
(* app.py calls refresh() in every request, and FastAPI runs its           *)
(* synchronous endpoints in a thread pool: a Thread is a request being     *)
(* served.  The file is a sequence of pieces: the head of a line, then its *)
(* tail, which ends in the newline; a daemon that dies between the two     *)
(* leaves a head that the next line is glued to.  A byte offset is a       *)
(* number of pieces.                                                       *)
(***************************************************************************)
EXTENDS Naturals, Integers, Sequences

CONSTANTS Threads,    \* requests being served at the same time
          MaxAlerts   \* bound: alerts the daemon writes

ASSUME BoundAssumption == MaxAlerts \in Nat

VARIABLES
    file,              \* alerts.jsonl
    written,           \* how many alerts the daemon has started to write
    writing,           \* it is in the middle of a line
    rows,              \* table alerts: how many rows each alert has
    byte_offset,       \* table sync_state, 0 while there is no row
    pc,                \* per thread: where in _sync_alerts
    size, offset, upto \* per thread: its locals; upto is offset + len(consumed)

daemonVars == <<file, written, writing>>
dbVars == <<rows, byte_offset>>
localVars == <<size, offset, upto>>
vars == <<daemonVars, dbVars, pc, localVars>>

-----------------------------------------------------------------------------
Alerts == 1..MaxAlerts

Piece(n, part) == [alert |-> n, part |-> part]

Init ==
    /\ file = << >> /\ written = 0 /\ writing = FALSE
    /\ rows = [n \in Alerts |-> 0]
    /\ byte_offset = 0
    /\ pc = [t \in Threads |-> "idle"]
    /\ size = [t \in Threads |-> 0]
    /\ offset = [t \in Threads |-> 0]
    /\ upto = [t \in Threads |-> 0]

-----------------------------------------------------------------------------
(* The daemon: AlertWriter::write under its mutex.                         *)

WriteHead ==
    /\ ~writing
    /\ written < MaxAlerts
    /\ written' = written + 1
    /\ file' = Append(file, Piece(written + 1, "head"))
    /\ writing' = TRUE
    /\ UNCHANGED <<dbVars, pc, localVars>>

WriteTail ==
    /\ writing
    /\ file' = Append(file, Piece(written, "tail"))
    /\ writing' = FALSE
    /\ UNCHANGED <<written, dbVars, pc, localVars>>

\* The daemon dies and is started again; open() appends.
DaemonRestart ==
    /\ writing
    /\ writing' = FALSE
    /\ UNCHANGED <<file, written, dbVars, pc, localVars>>

-----------------------------------------------------------------------------
(* _sync_alerts, by thread t.                                              *)

Goto(t, label) == pc' = [pc EXCEPT ![t] = label]

\* os.path.getsize; without a file there is nothing to do.
GetSize(t) ==
    /\ pc[t] = "idle"
    /\ file # << >>
    /\ size' = [size EXCEPT ![t] = Len(file)]
    /\ Goto(t, "select")
    /\ UNCHANGED <<daemonVars, dbVars, offset, upto>>

\* SELECT byte_offset, in a transaction of its own.
SelectOffset(t) ==
    /\ pc[t] = "select"
    /\ offset' = [offset EXCEPT ![t] = byte_offset]
    /\ Goto(t, IF size[t] <= byte_offset THEN "idle" ELSE "read")
    /\ UNCHANGED <<daemonVars, dbVars, size, upto>>

Newlines(from) == {i \in (from + 1)..Len(file) : file[i].part = "tail"}

LastNewlineIsEnd(from) == IF Newlines(from) = {} THEN from ELSE Len(file)

\* chunk.rfind: up to where the chunk is complete lines; from if it has none.
LastNewline(from) ==
    IF Newlines(from) = {} THEN from
    ELSE CHOOSE i \in Newlines(from) : \A j \in Newlines(from) : j <= i

\* Reads from the offset to the end of the file; no complete line, no sync.
ReadChunk(t) ==
    /\ pc[t] = "read"
    /\ upto' = [upto EXCEPT ![t] = LastNewline(offset[t])]
    /\ Goto(t, IF LastNewline(offset[t]) = offset[t] THEN "idle" ELSE "commit")
    /\ UNCHANGED <<daemonVars, dbVars, size, offset>>

\* A line that json.loads and the field accesses accept: head and tail of one
\* alert, and a newline (or the start of the file) before it.
GoodLine(n, i) ==
    /\ file[i] = Piece(n, "head")
    /\ file[i + 1] = Piece(n, "tail")
    /\ i > 1 => file[i - 1].part = "tail"

\* The alerts among the complete lines of file[from + 1 .. to].
LinesOf(from, to) == {n \in Alerts : \E i \in (from + 1)..(to - 1) : GoodLine(n, i)}

CommitOffsetOnly(t) ==
    /\ pc[t] = "commit"
    /\ byte_offset' = upto[t]
    /\ Goto(t, "idle")
    /\ UNCHANGED <<daemonVars, rows, localVars>>

\* One SQLite transaction: a row per good line, and the new offset.
Commit(t) ==
    /\ pc[t] = "commit"
    /\ rows' = [n \in Alerts |-> IF n \in LinesOf(offset[t], upto[t])
                                 THEN rows[n] + 1 ELSE rows[n]]
    /\ byte_offset' = upto[t]
    /\ Goto(t, "idle")
    /\ UNCHANGED <<daemonVars, localVars>>

\* The service restarts, or SQLite raises ("database is locked"): rolled back.
Abort(t) ==
    /\ pc[t] # "idle"
    /\ Goto(t, "idle")
    /\ UNCHANGED <<daemonVars, dbVars, localVars>>

-----------------------------------------------------------------------------
Refresh(t) == GetSize(t) \/ SelectOffset(t) \/ ReadChunk(t) \/ Commit(t) \/ Abort(t)

Next ==
    \/ WriteHead \/ WriteTail \/ DaemonRestart
    \/ \E t \in Threads : Refresh(t)

(***************************************************************************)
(* The container's health check requests /health for ever, and a refresh   *)
(* is not aborted at the same place for ever.                              *)
(***************************************************************************)
Fairness ==
    \A t \in Threads : /\ WF_vars(GetSize(t))
                       /\ SF_vars(SelectOffset(t))
                       /\ SF_vars(ReadChunk(t))
                       /\ SF_vars(Commit(t))

Spec == Init /\ [][Next]_vars /\ Fairness

-----------------------------------------------------------------------------
(* Properties.                                                             *)

\* Every variable keeps its type; an offset never points past the file.
TypeOK ==
    /\ file \in Seq([alert : Alerts, part : {"head", "tail"}])
    /\ written \in 0..MaxAlerts
    /\ writing \in BOOLEAN
    /\ rows \in [Alerts -> Nat]
    /\ byte_offset \in 0..Len(file)
    /\ pc \in [Threads -> {"idle", "select", "read", "commit"}]
    /\ size \in [Threads -> 0..Len(file)]
    /\ offset \in [Threads -> 0..Len(file)]
    /\ upto \in [Threads -> 0..Len(file)]

\* The table holds exactly one row for every well-formed line before the
\* offset and none for anything else: torn lines are neither half-read nor
\* read twice, an aborted refresh loses nothing, a malformed line only itself.
RowsMatchOffset ==
    \A n \in Alerts : rows[n] = IF n \in LinesOf(0, byte_offset) THEN 1 ELSE 0

\* The offset is the start of a line, in sync_state and in every refresh that
\* is past its SELECT: no refresh ever starts reading in the middle of a line.
AtLineStart(k) == k = 0 \/ file[k].part = "tail"

OffsetsAtLineStart ==
    /\ AtLineStart(byte_offset)
    /\ \A t \in Threads : AtLineStart(offset[t]) /\ AtLineStart(upto[t])

\* The table is exactly the file up to the offset (RowsMatchOffset), which it can
\* only be as long as every offset, stored or held by a refresh, is the start of
\* a line (OffsetsAtLineStart).
SyncInv == TypeOK /\ RowsMatchOffset /\ OffsetsAtLineStart

\* Every well-formed complete line ends up in the table.
EveryLineSynced ==
    \A n \in Alerts : (n \in LinesOf(0, Len(file))) ~> (rows[n] >= 1)

\* live.py: refresh() "syncs any NEW alerts.jsonl lines into the SQLite alerts
\* table"; test_deploy.py: "second refresh must NOT duplicate rows".
NoDuplicateRows == \A n \in Alerts : rows[n] <= 1
=============================================================================
