--------------------------- MODULE ServiceProofs ---------------------------
(***************************************************************************)
(* Proofs about the services around the daemon: the sync of alerts.jsonl   *)
(* into SQLite (AlertSync), the answers of the status endpoints            *)
(* (LiveStats), the triage loop (Triage), the summary of                   *)
(* coinbase_live_smoke (LiveSmoke) and the sidecar's delay between retries *)
(* (Backoff).                                                              *)
(*                                                                         *)
(* AlertSync's theorem is about one request at a time, for any file and    *)
(* any number of alerts; LiveStats' about any number of requests at once   *)
(* and any number of snapshots.                                            *)
(***************************************************************************)
EXTENDS AlertSync, LiveStats, Triage, LiveSmoke, Backoff, NumberLemmas, FiniteSetTheorems, TLAPS

-----------------------------------------------------------------------------
(* AlertSync.  The lines of a file f, a constant; LinesOf is Lines of the  *)
(* file as it is.                                                          *)

Pieces == [alert : Alerts, part : {"head", "tail"}]

Good(f, n, i) ==
    /\ f[i] = Piece(n, "head")
    /\ f[i + 1] = Piece(n, "tail")
    /\ i > 1 => f[i - 1].part = "tail"

Lines(f, from, to) == {n \in Alerts : \E i \in (from + 1)..(to - 1) : Good(f, n, i)}

\* Every piece is written once: the daemon numbers its alerts, and a line that
\* was torn is not resumed.
PiecesOnce ==
    /\ \A i, j \in 1..Len(file) : file[i] = file[j] => i = j
    /\ \A i \in 1..Len(file) : file[i].alert <= written
    /\ writing => /\ written >= 1
                  /\ \A i \in 1..Len(file) : file[i] # Piece(written, "tail")

\* A refresh past its SELECT still holds the offset of sync_state, and what it
\* commits is not behind it.
HoldsOffset ==
    \A t \in Threads :
       /\ pc[t] \in {"read", "commit"} => offset[t] = byte_offset
       /\ pc[t] = "commit" => offset[t] <= upto[t]

SyncIInv == TypeOK /\ PiecesOnce /\ HoldsOffset /\ RowsMatchOffset /\ OffsetsAtLineStart

\* The service handles one request at a time.
OneRequest == \A t, u \in Threads : t = u

-----------------------------------------------------------------------------
\* Two good lines of one alert are the same line.
LEMMA LineOnce ==
    ASSUME NEW f \in Seq(Pieces), \A i, j \in 1..Len(f) : f[i] = f[j] => i = j,
           NEW n \in Alerts, NEW i \in 1..Len(f), NEW j \in 1..Len(f),
           Good(f, n, i), Good(f, n, j)
    PROVE  i = j
BY Zenon DEF Good

\* A file split at the start of a line has the lines of its two parts, and no
\* alert in both.
LEMMA LinesSplit ==
    ASSUME NEW f \in Seq(Pieces), \A i, j \in 1..Len(f) : f[i] = f[j] => i = j,
           NEW b \in 0..Len(f), NEW u \in 0..Len(f), b <= u,
           b = 0 \/ f[b].part = "tail"
    PROVE  /\ Lines(f, 0, u) = Lines(f, 0, b) \cup Lines(f, b, u)
           /\ Lines(f, 0, b) \cap Lines(f, b, u) = {}
<1>1. ASSUME NEW n \in Alerts, NEW i \in 1..(u - 1), Good(f, n, i)
      PROVE  i \in 1..(b - 1) \/ i \in (b + 1)..(u - 1)
  <2>1. i # b
    BY <1>1 DEF Good, Piece
  <2> QED  BY <2>1
<1>2. ASSUME NEW n \in Alerts, NEW i \in 1..(b - 1), NEW j \in (b + 1)..(u - 1),
             Good(f, n, i), Good(f, n, j)
      PROVE  FALSE
  <2>1. i \in 1..Len(f) /\ j \in 1..Len(f) /\ i # j
    OBVIOUS
  <2> QED  BY <1>2, <2>1, LineOnce
<1>3. 1..(b - 1) \subseteq 1..(u - 1) /\ (b + 1)..(u - 1) \subseteq 1..(u - 1)
  OBVIOUS
<1>4. 0 + 1 = 1
  OBVIOUS
<1>5. Lines(f, 0, u) = Lines(f, 0, b) \cup Lines(f, b, u)
  BY <1>1, <1>3, <1>4, Zenon DEF Lines
<1>6. Lines(f, 0, b) \cap Lines(f, b, u) = {}
  BY <1>2, <1>4, Zenon DEF Lines
<1> QED  BY <1>5, <1>6

\* Lines before an offset do not change when the file grows.
LEMMA LinesKept ==
    ASSUME NEW f \in Seq(Pieces), NEW g \in Seq(Pieces), NEW b \in 0..Len(f),
           \A i \in 1..Len(f) : g[i] = f[i]
    PROVE  Lines(g, 0, b) = Lines(f, 0, b)
<1>1. ASSUME NEW n \in Alerts, NEW i \in 1..(b - 1)
      PROVE  Good(g, n, i) <=> Good(f, n, i)
  BY DEF Good
<1>2. 0 + 1 = 1
  OBVIOUS
<1> QED  BY <1>1, <1>2, Zenon DEF Lines

LEMMA LinesOfFile == \A a, b : LinesOf(a, b) = Lines(file, a, b)
BY DEF LinesOf, Lines, GoodLine, Good

\* The last newline after from is a newline, or from itself.
LEMMA LastNewlineFound ==
    ASSUME TypeOK, NEW from \in 0..Len(file)
    PROVE  /\ LastNewline(from) \in from..Len(file)
           /\ LastNewline(from) # from => file[LastNewline(from)].part = "tail"
<1>1. CASE Newlines(from) = {}
  BY <1>1 DEF LastNewline
<1>2. CASE Newlines(from) # {}
  <2>1. Len(file) \in Nat /\ from \in Nat
    BY DEF TypeOK
  <2>2. Newlines(from) \in SUBSET Nat /\ \A i \in Newlines(from) : i <= Len(file)
    BY <2>1 DEF Newlines
  <2>3. \E m \in Newlines(from) : \A i \in Newlines(from) : i <= m
    BY <1>2, <2>1, <2>2, Largest
  <2>4. LastNewline(from) \in Newlines(from)
    BY <1>2, <2>3, Zenon DEF LastNewline
  <2> QED  BY <2>1, <2>4 DEF Newlines
<1> QED  BY <1>1, <1>2

-----------------------------------------------------------------------------
LEMMA SyncInitial == Init => SyncIInv
<1> SUFFICES ASSUME Init PROVE SyncIInv
  OBVIOUS
<1>1. file = << >> /\ Len(file) = 0 /\ file \in Seq(Pieces)
  BY DEF Init
<1>2. TypeOK
  <2>1. 0 \in 0..Len(file) /\ 0 \in 0..MaxAlerts
    BY <1>1, BoundAssumption
  <2>2. /\ written \in 0..MaxAlerts /\ byte_offset \in 0..Len(file)
        /\ size \in [Threads -> 0..Len(file)] /\ offset \in [Threads -> 0..Len(file)]
        /\ upto \in [Threads -> 0..Len(file)]
    BY <2>1, Zenon DEF Init
  <2>3. rows \in [Alerts -> Nat] /\ pc \in [Threads -> {"idle", "select", "read", "commit"}]
    BY DEF Init
  <2> QED  BY <1>1, <2>2, <2>3 DEF Init, TypeOK, Pieces
<1>3. LinesOf(0, 0) = {}
  BY DEF LinesOf
<1> QED  BY <1>1, <1>2, <1>3 DEF Init, SyncIInv, PiecesOnce, HoldsOffset, RowsMatchOffset,
            OffsetsAtLineStart, AtLineStart

\* The daemon appends a piece: nothing a refresh relies on changes.
LEMMA FileGrows ==
    ASSUME SyncIInv, NEW e \in Pieces, file' = Append(file, e),
           written' \in 0..MaxAlerts, writing' \in BOOLEAN, UNCHANGED <<dbVars, pc, localVars>>
    PROVE  TypeOK' /\ HoldsOffset' /\ RowsMatchOffset' /\ OffsetsAtLineStart'
<1>0. TypeOK /\ file \in Seq(Pieces) /\ Len(file) \in Nat
  BY DEF SyncIInv, TypeOK, Pieces
<1>1. /\ file' \in Seq(Pieces) /\ Len(file') = Len(file) + 1
      /\ \A i \in 1..Len(file) : file'[i] = file[i]
  BY <1>0
<1>2. 0..Len(file) \subseteq 0..Len(file')
  BY <1>0, <1>1
<1>3. TypeOK'
  BY <1>0, <1>1, <1>2 DEF TypeOK, Pieces, dbVars, localVars
<1>4. HoldsOffset'
  BY DEF SyncIInv, HoldsOffset, dbVars, localVars
<1>5. RowsMatchOffset'
  <2>1. Lines(file', 0, byte_offset) = Lines(file, 0, byte_offset)
    BY <1>0, <1>1, LinesKept DEF TypeOK
  <2>2. LinesOf(0, byte_offset)' = LinesOf(0, byte_offset)
    BY <2>1 DEF LinesOf, Lines, GoodLine, Good, dbVars
  <2> QED  BY <2>2 DEF SyncIInv, RowsMatchOffset, dbVars
<1>6. OffsetsAtLineStart'
  <2>1. ASSUME NEW k \in 0..Len(file), AtLineStart(k) PROVE k = 0 \/ file'[k].part = "tail"
    BY <1>0, <1>1, <2>1 DEF AtLineStart
  <2> QED  BY <1>0, <2>1 DEF TypeOK, SyncIInv, OffsetsAtLineStart, AtLineStart, dbVars, localVars
<1> QED  BY <1>3, <1>4, <1>5, <1>6

LEMMA WriteHeadStep ==
    ASSUME SyncIInv, WriteHead PROVE SyncIInv'
<1>0. TypeOK /\ file \in Seq(Pieces) /\ Len(file) \in Nat /\ written \in Nat
  BY BoundAssumption DEF SyncIInv, TypeOK, Pieces
<1> DEFINE e == Piece(written + 1, "head")
<1>1. e \in Pieces /\ written' \in 0..MaxAlerts /\ writing' \in BOOLEAN /\ file' = Append(file, e)
  BY <1>0, BoundAssumption DEF WriteHead, Piece, Pieces, Alerts
<1>2. TypeOK' /\ HoldsOffset' /\ RowsMatchOffset' /\ OffsetsAtLineStart'
  BY <1>1, FileGrows DEF WriteHead
<1>3. PiecesOnce'
  <2>1. /\ Len(file') = Len(file) + 1 /\ file'[Len(file) + 1] = e
        /\ \A i \in 1..Len(file) : file'[i] = file[i]
    BY <1>0, <1>1
  <2>2. e.alert = written + 1 /\ e # Piece(written + 1, "tail")
    BY DEF Piece
  <2>3. written' = written + 1 /\ \A i \in 1..Len(file) : file[i].alert \in Nat /\ file[i].alert <= written
    <3>1. \A i \in 1..Len(file) : file[i] \in Pieces
      BY <1>0
    <3>2. \A i \in 1..Len(file) : file[i].alert \in Nat
      BY <3>1, BoundAssumption DEF Pieces, Alerts
    <3> QED  BY <3>2 DEF WriteHead, SyncIInv, PiecesOnce
  <2>4. \A i \in 1..Len(file) : file[i] # e /\ file[i] # Piece(written + 1, "tail")
    BY <1>0, <2>3 DEF Piece
  <2>5. \A i \in 1..Len(file') : i \in 1..Len(file) \/ i = Len(file) + 1
    BY <1>0, <2>1
  <2> HIDE DEF e
  <2>6. \A i, j \in 1..Len(file') : file'[i] = file'[j] => i = j
    BY <2>1, <2>4, <2>5, Zenon DEF SyncIInv, PiecesOnce
  <2>7. \A i \in 1..Len(file') : file'[i].alert <= written'
    BY <1>0, <2>1, <2>2, <2>3, <2>5
  <2>8. written' >= 1 /\ \A i \in 1..Len(file') : file'[i] # Piece(written', "tail")
    BY <1>0, <2>1, <2>2, <2>3, <2>4, <2>5
  <2> QED  BY <2>6, <2>7, <2>8 DEF PiecesOnce
<1> QED  BY <1>2, <1>3 DEF SyncIInv

LEMMA WriteTailStep ==
    ASSUME SyncIInv, WriteTail PROVE SyncIInv'
<1>0. TypeOK /\ file \in Seq(Pieces) /\ Len(file) \in Nat /\ written \in 1..MaxAlerts
  BY BoundAssumption DEF SyncIInv, TypeOK, Pieces, WriteTail, PiecesOnce
<1> DEFINE e == Piece(written, "tail")
<1>1. e \in Pieces /\ written' \in 0..MaxAlerts /\ writing' \in BOOLEAN /\ file' = Append(file, e)
  <2>1. e \in Pieces
    BY <1>0 DEF Piece, Pieces, Alerts
  <2>2. written' = written /\ written' \in 0..MaxAlerts
    BY <1>0, BoundAssumption DEF WriteTail
  <2> QED  BY <2>1, <2>2 DEF WriteTail
<1>2. TypeOK' /\ HoldsOffset' /\ RowsMatchOffset' /\ OffsetsAtLineStart'
  BY <1>1, FileGrows DEF WriteTail
<1>3. PiecesOnce'
  <2>1. /\ Len(file') = Len(file) + 1 /\ file'[Len(file) + 1] = e
        /\ \A i \in 1..Len(file) : file'[i] = file[i]
    BY <1>0, <1>1
  <2>2. e.alert = written
    BY DEF Piece
  <2>3. written' = written /\ ~writing' /\ \A i \in 1..Len(file) : file[i].alert <= written
    BY DEF WriteTail, SyncIInv, PiecesOnce
  <2>4. \A i \in 1..Len(file) : file[i] # e
    BY DEF WriteTail, SyncIInv, PiecesOnce
  <2>5. \A i \in 1..Len(file') : i \in 1..Len(file) \/ i = Len(file) + 1
    BY <1>0, <2>1
  <2> HIDE DEF e
  <2>6. \A i, j \in 1..Len(file') : file'[i] = file'[j] => i = j
    BY <2>1, <2>4, <2>5, Zenon DEF SyncIInv, PiecesOnce
  <2>7. \A i \in 1..Len(file') : file'[i].alert <= written'
    BY <1>0, <2>1, <2>2, <2>3, <2>5
  <2> QED  BY <2>3, <2>6, <2>7 DEF PiecesOnce
<1> QED  BY <1>2, <1>3 DEF SyncIInv

\* A step of a refresh that neither writes the file nor the table.
LEMMA ReadingStep ==
    ASSUME SyncIInv, UNCHANGED <<daemonVars, dbVars>>, TypeOK', HoldsOffset',
           \A t \in Threads : AtLineStart(offset'[t]) /\ AtLineStart(upto'[t])
    PROVE  SyncIInv'
<1>1. PiecesOnce' /\ RowsMatchOffset'
  BY DEF SyncIInv, PiecesOnce, RowsMatchOffset, LinesOf, GoodLine, daemonVars, dbVars
<1>2. OffsetsAtLineStart'
  BY DEF SyncIInv, OffsetsAtLineStart, AtLineStart, daemonVars, dbVars
<1> QED  BY <1>1, <1>2 DEF SyncIInv

LEMMA RefreshStep ==
    ASSUME OneRequest, SyncIInv, NEW t \in Threads, Refresh(t) PROVE SyncIInv'
<1>0. TypeOK /\ HoldsOffset /\ OffsetsAtLineStart /\ PiecesOnce /\ RowsMatchOffset
  BY DEF SyncIInv
<1>t. file \in Seq(Pieces) /\ Len(file) \in Nat
  BY <1>0 DEF TypeOK, Pieces
<1>o. \A u \in Threads : u = t
  BY DEF OneRequest
<1>1. CASE GetSize(t)
  <2>1. TypeOK'
    BY <1>0, <1>t, <1>1 DEF TypeOK, GetSize, Goto, daemonVars, dbVars
  <2>2. HoldsOffset'
    BY <1>0, <1>1, <1>o DEF TypeOK, HoldsOffset, GetSize, Goto, daemonVars, dbVars
  <2> QED  BY <1>0, <1>1, <2>1, <2>2, ReadingStep DEF GetSize, OffsetsAtLineStart
<1>2. CASE SelectOffset(t)
  <2>1. TypeOK'
    BY <1>0, <1>t, <1>2 DEF TypeOK, SelectOffset, Goto, daemonVars, dbVars
  <2>2. HoldsOffset'
    BY <1>0, <1>2, <1>o DEF TypeOK, HoldsOffset, SelectOffset, Goto, daemonVars, dbVars
  <2>3. \A u \in Threads : AtLineStart(offset'[u]) /\ AtLineStart(upto'[u])
    BY <1>0, <1>2 DEF TypeOK, SelectOffset, OffsetsAtLineStart
  <2> QED  BY <1>2, <2>1, <2>2, <2>3, ReadingStep DEF SelectOffset
<1>3. CASE ReadChunk(t)
  <2> DEFINE last == LastNewline(offset[t])
  <2>1. /\ last \in offset[t]..Len(file)
        /\ last # offset[t] => file[last].part = "tail"
    BY <1>0, LastNewlineFound DEF TypeOK
  <2>2. /\ upto' = [upto EXCEPT ![t] = last]
        /\ pc' = [pc EXCEPT ![t] = IF last = offset[t] THEN "idle" ELSE "commit"]
        /\ UNCHANGED <<daemonVars, dbVars, size, offset>>
    BY <1>3 DEF ReadChunk, Goto
  <2> HIDE DEF last
  <2>3. TypeOK'
    BY <1>0, <1>t, <2>1, <2>2 DEF TypeOK, daemonVars, dbVars
  <2>4. HoldsOffset'
    BY <1>0, <1>3, <1>o, <2>1, <2>2 DEF TypeOK, HoldsOffset, ReadChunk, dbVars
  <2>5. \A u \in Threads : AtLineStart(offset'[u]) /\ AtLineStart(upto'[u])
    BY <1>0, <2>1, <2>2 DEF TypeOK, OffsetsAtLineStart, AtLineStart
  <2> QED  BY <2>2, <2>3, <2>4, <2>5, ReadingStep
<1>4. CASE Commit(t)
  <2>1. TypeOK'
    BY <1>0, <1>t, <1>4 DEF TypeOK, Commit, Goto, daemonVars, localVars
  <2>2. HoldsOffset'
    BY <1>0, <1>4, <1>o DEF TypeOK, HoldsOffset, Commit, Goto
  <2>3. PiecesOnce' /\ OffsetsAtLineStart'
    BY <1>0, <1>4 DEF Commit, PiecesOnce, OffsetsAtLineStart, AtLineStart, daemonVars, localVars
  <2>4. /\ byte_offset \in 0..Len(file) /\ upto[t] \in 0..Len(file) /\ byte_offset <= upto[t]
        /\ offset[t] = byte_offset
        /\ byte_offset = 0 \/ file[byte_offset].part = "tail"
    BY <1>0, <1>4 DEF TypeOK, HoldsOffset, OffsetsAtLineStart, AtLineStart, Commit
  <2>5. /\ Lines(file, 0, upto[t]) = Lines(file, 0, byte_offset) \cup Lines(file, byte_offset, upto[t])
        /\ Lines(file, 0, byte_offset) \cap Lines(file, byte_offset, upto[t]) = {}
    BY <1>0, <1>t, <2>4, LinesSplit DEF PiecesOnce
  <2>6. /\ byte_offset' = upto[t]
        /\ rows' = [n \in Alerts |-> IF n \in Lines(file, byte_offset, upto[t])
                                     THEN rows[n] + 1 ELSE rows[n]]
    BY <1>4, <2>4, LinesOfFile DEF Commit
  <2>7. LinesOf(0, byte_offset)' = Lines(file, 0, upto[t])
    BY <1>4 DEF LinesOf, Lines, GoodLine, Good, Commit, daemonVars
  <2>8. \A n \in Alerts : rows[n] = IF n \in Lines(file, 0, byte_offset) THEN 1 ELSE 0
    BY <1>0, LinesOfFile DEF RowsMatchOffset
  <2>9. RowsMatchOffset'
    BY <2>5, <2>6, <2>7, <2>8 DEF RowsMatchOffset
  <2> QED  BY <2>1, <2>2, <2>3, <2>9 DEF SyncIInv
<1>5. CASE Abort(t)
  <2>1. TypeOK'
    BY <1>0, <1>5 DEF TypeOK, Abort, Goto, daemonVars, dbVars, localVars
  <2>2. HoldsOffset'
    BY <1>0, <1>5, <1>o DEF TypeOK, HoldsOffset, Abort, Goto, dbVars, localVars
  <2> QED  BY <1>0, <1>5, <2>1, <2>2, ReadingStep DEF Abort, OffsetsAtLineStart, localVars
<1> QED  BY <1>1, <1>2, <1>3, <1>4, <1>5 DEF Refresh

LEMMA SyncStep == OneRequest /\ SyncIInv /\ [Next]_vars => SyncIInv'
<1> SUFFICES ASSUME OneRequest, SyncIInv, [Next]_vars PROVE SyncIInv'
  OBVIOUS
<1>1. CASE DaemonRestart
  BY <1>1 DEF DaemonRestart, SyncIInv, TypeOK, PiecesOnce, HoldsOffset, RowsMatchOffset,
     OffsetsAtLineStart, AtLineStart, LinesOf, GoodLine, dbVars, localVars
<1>2. CASE UNCHANGED vars
  BY <1>2 DEF vars, daemonVars, dbVars, localVars, SyncIInv, TypeOK, PiecesOnce, HoldsOffset,
     RowsMatchOffset, OffsetsAtLineStart, AtLineStart, LinesOf, GoodLine
<1> QED  BY <1>1, <1>2, WriteHeadStep, WriteTailStep, RefreshStep DEF Next

\* _sync_alerts, one request at a time, for any number of alerts: after every
\* step, whatever the daemon tears and whenever a refresh is aborted, the table
\* holds exactly one row per well-formed line before the stored offset, and every
\* offset is the start of a line.
THEOREM SyncSafety == OneRequest => (Spec => []SyncInv)
<1> SUFFICES ASSUME OneRequest PROVE Spec => []SyncInv
  OBVIOUS
<1>1. SyncIInv => SyncInv
  BY DEF SyncIInv, SyncInv
<1>2. SyncIInv /\ [Next]_vars => SyncIInv'
  BY SyncStep
<1> QED  BY <1>1, <1>2, SyncInitial, PTL DEF Spec

\* test_deploy.py's "second refresh must NOT duplicate rows" holds one request at
\* a time; the run alert_sync_concurrent shows that it does not with two.
THEOREM NoDuplicates == OneRequest => (Spec => []NoDuplicateRows)
<1> SUFFICES ASSUME OneRequest PROVE Spec => []NoDuplicateRows
  OBVIOUS
<1>1. SyncInv => NoDuplicateRows
  BY DEF SyncInv, RowsMatchOffset, NoDuplicateRows
<1> QED  BY <1>1, SyncSafety, PTL

-----------------------------------------------------------------------------
(* LiveStats.  Requests in flight together share one history, recent, so   *)
(* whatever one of them assigns is recent for the others too; and a        *)
(* request reads back, or computes the rate from, only what it has         *)
(* assigned itself or others have since.                                   *)

\* Request r has assigned attribute f; if others have since, they are those in
\* flight with it.
Assigned(r, f) ==
    \/ serving[r] \in {"answer", "respond"}
    \/ serving[r] \in {"elapsed", "divide", "rate"} /\ f # "msgs_per_sec"
    \/ serving[r] = "reset" /\ \E i \in 1..at[r] : f = ResetOrder[i]
    \/ serving[r] = "copy" /\ \E i \in 1..at[r] : f = CopyOrder[i]

\* What request r holds stems from contents since the API was last idle.
Current(r) ==
    /\ InFlight(r) => stats_json \in recent
    /\ serving[r] \notin {"reset", "copy", "answer"} => at[r] = 0
    /\ serving[r] = "copy" => at[r] \in 0..4
    /\ serving[r] = "answer" => at[r] = 0 \/ at[r] \in 1..(Len(ReadOrder(endpoint[r])) - 1)
    /\ serving[r] \in {"reset", "copy", "elapsed", "divide", "rate"} => got[r] \in recent
    /\ serving[r] = "reset" => got[r] = Unreadable
    /\ \A f \in Attributes : Assigned(r, f) => attributes[f] \subseteq recent
    /\ rate[r] \subseteq recent
    /\ serving[r] \notin {"divide", "rate"} => rate[r] = {}
    /\ body[r] \subseteq recent
    /\ serving[r] \notin {"answer", "respond"} => body[r] = {}

\* When r is in flight with nobody, all of it stems from one content n.
FromOne(r, n) ==
    /\ serving[r] \in {"reset", "copy", "elapsed", "divide", "rate"} => got[r] = n
    /\ \A f \in Attributes : Assigned(r, f) => attributes[f] = {n}
    /\ serving[r] \in {"divide", "rate"} => rate[r] = {n}
    /\ serving[r] = "answer" => body[r] = IF at[r] = 0 THEN {} ELSE {n}
    /\ serving[r] = "respond" => body[r] = {n}

OnlyOne(r) ==
    solo[r] => /\ InFlight(r)
               /\ \A s \in Requests : s # r => ~InFlight(s)
               /\ \E n \in recent : FromOne(r, n)

LiveIInv ==
    /\ LiveTypeOK
    /\ \A r \in Requests : Current(r) /\ OnlyOne(r)

\* Both orders name attributes, and each of them once; the rate is not in CopyOrder.
LEMMA Orders ==
    /\ Len(ResetOrder) = 6 /\ Len(CopyOrder) = 5
    /\ \A i \in 1..6 : ResetOrder[i] \in Attributes
    /\ \A i \in 1..5 : CopyOrder[i] \in Attributes
    /\ \A f \in Attributes : \E i \in 1..6 : ResetOrder[i] = f
    /\ \A f \in Attributes : f = "msgs_per_sec" \/ \E i \in 1..5 : CopyOrder[i] = f
    /\ "start_time" \in Attributes /\ "messages_processed" \in Attributes
    /\ "msgs_per_sec" \in Attributes
BY DEF ResetOrder, CopyOrder, Attributes

\* An endpoint reads attributes, and the order for a 503 begins as that for a 200.
LEMMA ReadOrders ==
    ASSUME NEW e \in Endpoints
    PROVE  /\ Len(ReadOrder(e)) \in 3..4
           /\ \A i \in 1..Len(ReadOrder(e)) : ReadOrder(e)[i] \in Attributes
<1>1. CASE e = "health"
  BY <1>1 DEF ReadOrder, Attributes
<1>2. CASE e = "health 503"
  <2>1. ReadOrder(e) = <<"healthy", "last_message_unix", "messages_processed">>
    BY <1>2 DEF ReadOrder
  <2>2. Len(ReadOrder(e)) = 3
    BY <2>1
  <2>3. \A i \in 1..3 : ReadOrder(e)[i] \in Attributes
    BY <2>1 DEF Attributes
  <2> QED  BY <2>2, <2>3
<1>3. CASE e = "status"
  BY <1>3 DEF ReadOrder, Attributes
<1> QED  BY <1>1, <1>2, <1>3 DEF Endpoints

LEMMA Wraps ==
    /\ \A k \in 0..5 : (k + 1) % 6 = IF k = 5 THEN 0 ELSE k + 1
    /\ \A k \in 0..4 : (k + 1) % 5 = IF k = 4 THEN 0 ELSE k + 1
    /\ \A n \in 3..4 : \A k \in 0..3 : (k + 1) % n \in 0..(n - 1)
    /\ \A n \in 3..4 : 1 % n = 1
OBVIOUS

LEMMA LiveInitial == LiveInit => LiveIInv
<1> SUFFICES ASSUME LiveInit PROVE LiveIInv
  OBVIOUS
<1>1. LiveTypeOK
  BY SnapshotAssumption DEF LiveInit, LiveTypeOK, Contents, Endpoints
<1>2. \A r \in Requests : Current(r) /\ OnlyOne(r)
  BY DEF LiveInit, Current, OnlyOne, InFlight, Assigned
<1> QED  BY <1>1, <1>2 DEF LiveIInv

\* The daemon: what is in flight may see the new content too.
LEMMA FileStep ==
    ASSUME LiveIInv, NEW content \in Contents, FileBecomes(content),
           writes' \in 0..MaxSnapshots
    PROVE  LiveIInv'
<1>0. LiveTypeOK
  BY DEF LiveIInv
<1>1. LiveTypeOK'
  BY <1>0 DEF LiveTypeOK, FileBecomes
<1>2. ASSUME NEW r \in Requests PROVE Current(r)'
  BY DEF LiveIInv, Current, FileBecomes, InFlight, Assigned
<1>3. ASSUME NEW r \in Requests PROVE OnlyOne(r)'
  <2> SUFFICES ASSUME solo[r]
               PROVE  InFlight(r)' /\ (\A t \in Requests : t # r => ~InFlight(t)')
                      /\ \E n \in recent' : FromOne(r, n)'
    BY DEF OnlyOne, FileBecomes
  <2>1. /\ InFlight(r) /\ \A t \in Requests : t # r => ~InFlight(t)
        /\ \E n \in recent : FromOne(r, n)
    BY DEF LiveIInv, OnlyOne
  <2>2. recent \subseteq recent' /\ \A n : FromOne(r, n) => FromOne(r, n)'
    BY DEF FileBecomes, FromOne, Assigned
  <2> QED  BY <2>1, <2>2 DEF InFlight, FileBecomes
<1> QED  BY <1>1, <1>2, <1>3 DEF LiveIInv

\* The step of a request r in flight leaves another one s as it was, but for the
\* attributes, which r may assign from what is recent.
LEMMA OthersStep ==
    ASSUME LiveIInv, NEW r \in Requests, NEW s \in Requests, s # r, InFlight(r),
           stats_json' = stats_json, recent' = recent, solo'[s] => solo[s],
           serving'[s] = serving[s], at'[s] = at[s], endpoint'[s] = endpoint[s],
           got'[s] = got[s], rate'[s] = rate[s], body'[s] = body[s],
           \A f \in Attributes : attributes'[f] = attributes[f] \/ attributes'[f] \subseteq recent
    PROVE  Current(s)' /\ OnlyOne(s)'
<1>1. ~solo'[s]
  BY DEF LiveIInv, OnlyOne
<1>2. Current(s)
  BY DEF LiveIInv
<1>3. \A f \in Attributes : Assigned(s, f)' <=> Assigned(s, f)
  BY DEF Assigned
<1>4. \A f \in Attributes : Assigned(s, f)' => attributes'[f] \subseteq recent'
  BY <1>2, <1>3 DEF Current
<1>5. Current(s)'
  BY <1>2, <1>4 DEF Current, InFlight
<1> QED  BY <1>1, <1>5 DEF OnlyOne

LEMMA BeginStep == ASSUME LiveIInv, NEW r \in Requests, Begin(r) PROVE LiveIInv'
<1>0. LiveTypeOK /\ Current(r)
  BY DEF LiveIInv
<1> DEFINE others == {s \in Requests : InFlight(s)}
<1>1. /\ serving' = [serving EXCEPT ![r] = "refresh"]
      /\ recent' = IF others = {} THEN {stats_json} ELSE recent
      /\ solo' = [s \in Requests |-> s = r /\ others = {}]
      /\ serving[r] = "idle"
      /\ UNCHANGED <<stats_json, writes, attributes, endpoint, at, got, rate, body>>
  BY DEF Begin, InFlight, statsVars
<1>2. LiveTypeOK'
  BY <1>0, <1>1 DEF LiveTypeOK
<1>3. stats_json \in recent'
  BY <1>1 DEF LiveIInv, Current
<1>4. Current(r)'
  BY <1>0, <1>1, <1>3 DEF LiveTypeOK, Current, Assigned
<1>5. OnlyOne(r)'
  <2>1. FromOne(r, stats_json)'
    BY <1>0, <1>1 DEF LiveTypeOK, FromOne, Assigned
  <2>2. solo'[r] => \A s \in Requests : s # r => ~InFlight(s)'
    BY <1>0, <1>1 DEF LiveTypeOK, InFlight
  <2>3. InFlight(r)'
    BY <1>0, <1>1 DEF LiveTypeOK, InFlight
  <2> QED  BY <1>1, <1>3, <2>1, <2>2, <2>3 DEF OnlyOne
<1>6. ASSUME NEW s \in Requests, s # r PROVE Current(s)' /\ OnlyOne(s)'
  <2>1. Current(s) /\ ~solo'[s] /\ serving'[s] = serving[s]
    BY <1>0, <1>1, <1>6 DEF LiveIInv, LiveTypeOK
  <2>2. CASE others = {}
    BY <1>1, <2>1, <2>2, <1>6 DEF Current, OnlyOne, InFlight, Assigned
  <2>3. CASE others # {}
    BY <1>1, <2>1, <2>3 DEF Current, OnlyOne, InFlight, Assigned
  <2> QED  BY <2>2, <2>3
<1> QED  BY <1>2, <1>4, <1>5, <1>6 DEF LiveIInv

\* What a step of r in flight shows when OthersStep covers the others.
LEMMA ServedStep ==
    ASSUME LiveIInv, NEW r \in Requests, InFlight(r), LiveTypeOK', Current(r)', OnlyOne(r)',
           stats_json' = stats_json, recent' = recent, \A s \in Requests : solo'[s] => solo[s],
           \A s \in Requests : s # r =>
               /\ serving'[s] = serving[s] /\ at'[s] = at[s] /\ endpoint'[s] = endpoint[s]
               /\ got'[s] = got[s] /\ rate'[s] = rate[s] /\ body'[s] = body[s],
           \A f \in Attributes : attributes'[f] = attributes[f] \/ attributes'[f] \subseteq recent
    PROVE  LiveIInv'
BY OthersStep DEF LiveIInv

LEMMA ReadFileStep == ASSUME LiveIInv, NEW r \in Requests, ReadFile(r) PROVE LiveIInv'
<1>0. LiveTypeOK /\ Current(r) /\ OnlyOne(r) /\ InFlight(r)
  BY DEF LiveIInv, ReadFile, InFlight
<1>1. LiveTypeOK'
  BY <1>0 DEF LiveTypeOK, ReadFile, statsVars, historyVars
<1>2. Current(r)'
  BY <1>0 DEF LiveTypeOK, ReadFile, statsVars, historyVars, Current, InFlight, Assigned
<1>3. OnlyOne(r)'
  <2>1. FromOne(r, stats_json)'
    BY <1>0 DEF LiveTypeOK, ReadFile, statsVars, historyVars, Current, FromOne, Assigned
  <2> QED  BY <1>0, <2>1 DEF LiveTypeOK, ReadFile, statsVars, historyVars, Current, OnlyOne, InFlight
<1> QED
  BY <1>0, <1>1, <1>2, <1>3, ServedStep DEF LiveTypeOK, ReadFile, statsVars, historyVars

\* The next assignment: one more attribute, f, is as r has read it.
Assigns(r, f, j, next) ==
    /\ serving[r] \in {"reset", "copy"} /\ next \in {serving[r], "elapsed", "answer"}
    /\ attributes' = [attributes EXCEPT ![f] = {got[r]}]
    /\ at' = [at EXCEPT ![r] = j] /\ serving' = [serving EXCEPT ![r] = next]
    /\ UNCHANGED <<stats_json, writes, endpoint, got, rate, body, recent, solo>>
    /\ next \in {"elapsed", "answer"} => j = 0
    /\ next = "copy" => j \in 0..4
    /\ next = "elapsed" => serving[r] = "copy"
    /\ \A g \in Attributes : Assigned(r, g)' => g = f \/ Assigned(r, g)

LEMMA AssignStep ==
    ASSUME LiveIInv, NEW r \in Requests, NEW f \in Attributes, NEW j \in 0..5, NEW next,
           Assigns(r, f, j, next)
    PROVE  LiveIInv'
<1> USE DEF Assigns
<1>0. LiveTypeOK /\ Current(r) /\ OnlyOne(r) /\ InFlight(r)
  BY DEF LiveIInv, InFlight
<1>1. LiveTypeOK'
  BY <1>0 DEF LiveTypeOK
<1>2. /\ at'[r] = j /\ serving'[r] = next /\ got[r] \in recent
      /\ \A g \in Attributes : attributes'[g] = IF g = f THEN {got[r]} ELSE attributes[g]
      /\ \A s \in Requests : s # r => serving'[s] = serving[s] /\ at'[s] = at[s]
  BY <1>0 DEF LiveTypeOK, Current
<1>3. Current(r)'
  <2>1. \A g \in Attributes : Assigned(r, g)' => attributes'[g] \subseteq recent'
    BY <1>0, <1>2 DEF Current
  <2> QED  BY <1>0, <1>2, <2>1 DEF Current, InFlight
<1>4. OnlyOne(r)'
  <2>1. ASSUME NEW n, FromOne(r, n) PROVE FromOne(r, n)'
    <3>1. got[r] = n
      BY <2>1 DEF FromOne
    <3>2. \A g \in Attributes : Assigned(r, g)' => attributes'[g] = {n}
      BY <1>2, <2>1, <3>1 DEF FromOne
    <3>3. body[r] = {}
      BY <1>0 DEF Current
    <3> QED  BY <1>2, <3>1, <3>2, <3>3 DEF FromOne
  <2> QED  BY <1>0, <1>2, <2>1 DEF OnlyOne, InFlight
<1> QED  BY <1>0, <1>1, <1>2, <1>3, <1>4, ServedStep

LEMMA ResetStep == ASSUME LiveIInv, NEW r \in Requests, Reset(r) PROVE LiveIInv'
<1>0. LiveTypeOK /\ Current(r)
  BY DEF LiveIInv
<1> DEFINE k == at[r]
           j == IF k = 5 THEN 0 ELSE k + 1
           next == IF k = 5 THEN "answer" ELSE "reset"
           f == ResetOrder[k + 1]
<1>1. k \in 0..5 /\ k + 1 \in 1..6 /\ j \in 0..5 /\ f \in Attributes
  BY <1>0, Orders DEF LiveTypeOK
<1>2. serving[r] = "reset" /\ got[r] = Unreadable
  BY <1>0 DEF Reset, Current
<1>3. at' = [at EXCEPT ![r] = j]
  BY <1>1, Orders, Wraps DEF Reset, Assign
<1>4. at'[r] = j /\ (j = 0 <=> k = 5)
  BY <1>0, <1>1, <1>3 DEF LiveTypeOK
<1>5. serving' = [serving EXCEPT ![r] = next]
  <2>1. serving' = IF at'[r] = 0 THEN [serving EXCEPT ![r] = "answer"] ELSE serving
    BY DEF Reset, Assign
  <2>2. [serving EXCEPT ![r] = "reset"] = serving
    BY <1>0, <1>2 DEF LiveTypeOK
  <2> QED  BY <1>4, <2>1, <2>2
<1>6. /\ attributes' = [attributes EXCEPT ![f] = {got[r]}]
      /\ UNCHANGED <<stats_json, writes, endpoint, got, rate, body, recent, solo>>
  BY <1>2 DEF Reset, Assign, statsVars, historyVars
<1>7. \A g \in Attributes : Assigned(r, g)' => g = f \/ Assigned(r, g)
  <2> SUFFICES ASSUME NEW g \in Attributes, Assigned(r, g)' PROVE g = f \/ Assigned(r, g)
    OBVIOUS
  <2>1. serving'[r] = next
    BY <1>0, <1>5 DEF LiveTypeOK
  <2>2. PICK i \in 1..(k + 1) : g = ResetOrder[i]
    <3>1. CASE k = 5
      BY <3>1, Orders
    <3>2. CASE k # 5
      BY <1>4, <2>1, <3>2 DEF Assigned
    <3> QED  BY <3>1, <3>2
  <2>3. i = k + 1 \/ i \in 1..k
    BY <1>1
  <2> QED  BY <1>2, <2>2, <2>3 DEF Assigned
<1>8. serving[r] \in {"reset", "copy"} /\ next \in {serving[r], "elapsed", "answer"}
  BY <1>2
<1>9. /\ next \in {"elapsed", "answer"} => j = 0
      /\ next = "copy" => j \in 0..4
      /\ next = "elapsed" => serving[r] = "copy"
  BY <1>1, <1>4
<1> HIDE DEF k, j, f, next
<1>a. Assigns(r, f, j, next)
  BY <1>3, <1>5, <1>6, <1>7, <1>8, <1>9 DEF Assigns
<1> QED  BY <1>1, <1>8, <1>a, AssignStep, Zenon

LEMMA CopyStep == ASSUME LiveIInv, NEW r \in Requests, Copy(r) PROVE LiveIInv'
<1>0. LiveTypeOK /\ Current(r)
  BY DEF LiveIInv
<1> DEFINE k == at[r]
           j == IF k = 4 THEN 0 ELSE k + 1
           next == IF k = 4 THEN "elapsed" ELSE "copy"
           f == CopyOrder[k + 1]
<1>2. serving[r] = "copy"
  BY DEF Copy
<1>1. k \in 0..4 /\ k + 1 \in 1..5 /\ j \in 0..4 /\ f \in Attributes
  BY <1>0, <1>2, Orders DEF Current
<1>3. at' = [at EXCEPT ![r] = j]
  BY <1>1, Orders, Wraps DEF Copy, Assign
<1>4. at'[r] = j /\ (j = 0 <=> k = 4)
  BY <1>0, <1>1, <1>3 DEF LiveTypeOK
<1>5. serving' = [serving EXCEPT ![r] = next]
  <2>1. serving' = IF at'[r] = 0 THEN [serving EXCEPT ![r] = "elapsed"] ELSE serving
    BY DEF Copy, Assign
  <2>2. [serving EXCEPT ![r] = "copy"] = serving
    BY <1>0, <1>2 DEF LiveTypeOK
  <2> QED  BY <1>4, <2>1, <2>2
<1>6. /\ attributes' = [attributes EXCEPT ![f] = {got[r]}]
      /\ UNCHANGED <<stats_json, writes, endpoint, got, rate, body, recent, solo>>
  BY <1>2 DEF Copy, Assign, statsVars, historyVars
<1>7. \A g \in Attributes : Assigned(r, g)' => g = f \/ Assigned(r, g)
  <2> SUFFICES ASSUME NEW g \in Attributes, Assigned(r, g)' PROVE g = f \/ Assigned(r, g)
    OBVIOUS
  <2>1. serving'[r] = next
    BY <1>0, <1>5 DEF LiveTypeOK
  <2>2. PICK i \in 1..(k + 1) : g = CopyOrder[i]
    <3>1. CASE k = 4
      BY <2>1, <3>1, Orders DEF Assigned
    <3>2. CASE k # 4
      BY <1>4, <2>1, <3>2 DEF Assigned
    <3> QED  BY <3>1, <3>2
  <2>3. i = k + 1 \/ i \in 1..k
    BY <1>1
  <2> QED  BY <1>2, <2>2, <2>3 DEF Assigned
<1>8. /\ j \in 0..5 /\ serving[r] \in {"reset", "copy"}
      /\ next \in {serving[r], "elapsed", "answer"}
  BY <1>1, <1>2
<1>9. /\ next \in {"elapsed", "answer"} => j = 0
      /\ next = "copy" => j \in 0..4
      /\ next = "elapsed" => serving[r] = "copy"
  BY <1>1, <1>2, <1>4
<1> HIDE DEF k, j, f, next
<1>a. Assigns(r, f, j, next)
  BY <1>3, <1>5, <1>6, <1>7, <1>8, <1>9 DEF Assigns
<1> QED  BY <1>1, <1>8, <1>a, AssignStep, Zenon

\* The rate: from an attribute that r has assigned, or others since.
LEMMA ReadStartStep == ASSUME LiveIInv, NEW r \in Requests, ReadStart(r) PROVE LiveIInv'
<1>0. LiveTypeOK /\ Current(r) /\ OnlyOne(r) /\ InFlight(r)
  BY DEF LiveIInv, ReadStart, InFlight
<1>1. /\ serving[r] = "elapsed" /\ serving'[r] = "divide"
      /\ rate'[r] = {got[r]} \cup attributes["start_time"]
      /\ rate'[r] \subseteq recent /\ rate'[r] \subseteq Contents
      /\ \A n : FromOne(r, n) => rate'[r] = {n}
  BY <1>0, Orders DEF LiveTypeOK, ReadStart, Current, FromOne, Assigned
<1>2. LiveTypeOK'
  BY <1>0, <1>1 DEF LiveTypeOK, ReadStart, statsVars, historyVars
<1>3. Current(r)'
  BY <1>0, <1>1 DEF LiveTypeOK, ReadStart, statsVars, historyVars, Current, InFlight, Assigned
<1>4. OnlyOne(r)'
  <2>1. \A n : FromOne(r, n) => FromOne(r, n)'
    BY <1>0, <1>1 DEF ReadStart, statsVars, historyVars, FromOne, Assigned
  <2> QED  BY <1>0, <1>1, <2>1 DEF LiveTypeOK, ReadStart, statsVars, historyVars, OnlyOne, InFlight
<1> QED  BY <1>0, <1>2, <1>3, <1>4, ServedStep DEF LiveTypeOK, ReadStart, statsVars, historyVars

LEMMA ReadProcessedStep == ASSUME LiveIInv, NEW r \in Requests, ReadProcessed(r) PROVE LiveIInv'
<1>0. LiveTypeOK /\ Current(r) /\ OnlyOne(r) /\ InFlight(r)
  BY DEF LiveIInv, ReadProcessed, InFlight
<1>1. /\ serving[r] = "divide" /\ serving'[r] = "rate"
      /\ rate'[r] \subseteq recent /\ rate'[r] \subseteq Contents
      /\ \A n : FromOne(r, n) => rate'[r] = {n}
      /\ \A s \in Requests : s # r => rate'[s] = rate[s]
      /\ rate' \in [Requests -> SUBSET Contents]
  <2>1. PICK read \in {{}, attributes["messages_processed"]} :
            rate' = [rate EXCEPT ![r] = rate[r] \cup read]
    BY DEF ReadProcessed
  <2>2. /\ read \subseteq recent /\ read \subseteq Contents
        /\ \A n : FromOne(r, n) => read \subseteq {n}
    BY <1>0, Orders DEF LiveTypeOK, ReadProcessed, Current, FromOne, Assigned
  <2> QED  BY <1>0, <2>1, <2>2 DEF LiveTypeOK, ReadProcessed, Current, FromOne
<1>2. LiveTypeOK'
  BY <1>0, <1>1 DEF LiveTypeOK, ReadProcessed, statsVars, historyVars
<1>3. Current(r)'
  BY <1>0, <1>1 DEF LiveTypeOK, ReadProcessed, statsVars, historyVars, Current, InFlight, Assigned
<1>4. OnlyOne(r)'
  <2>1. \A n : FromOne(r, n) => FromOne(r, n)'
    BY <1>0, <1>1 DEF ReadProcessed, statsVars, historyVars, FromOne, Assigned
  <2> QED  BY <1>0, <1>1, <2>1 DEF LiveTypeOK, ReadProcessed, statsVars, historyVars, OnlyOne, InFlight
<1> QED  BY <1>0, <1>1, <1>2, <1>3, <1>4, ServedStep DEF LiveTypeOK, ReadProcessed, statsVars, historyVars

LEMMA AssignRateStep == ASSUME LiveIInv, NEW r \in Requests, AssignRate(r) PROVE LiveIInv'
<1>0. LiveTypeOK /\ Current(r) /\ OnlyOne(r) /\ InFlight(r)
  BY DEF LiveIInv, AssignRate, InFlight
<1>1. /\ serving[r] = "rate" /\ serving'[r] = "answer" /\ rate'[r] = {}
      /\ \A f \in Attributes :
            attributes'[f] = IF f = "msgs_per_sec" THEN rate[r] ELSE attributes[f]
      /\ rate[r] \subseteq recent
  BY <1>0 DEF LiveTypeOK, AssignRate, Current
<1>2. LiveTypeOK'
  BY <1>0 DEF LiveTypeOK, AssignRate, statsVars, historyVars, Contents
<1>3. Current(r)'
  BY <1>0, <1>1 DEF LiveTypeOK, AssignRate, statsVars, historyVars, Current, InFlight, Assigned
<1>4. OnlyOne(r)'
  <2>1. \A n : FromOne(r, n) => FromOne(r, n)'
    BY <1>0, <1>1 DEF AssignRate, statsVars, historyVars, FromOne, Assigned, Current
  <2> QED  BY <1>0, <1>1, <2>1 DEF LiveTypeOK, AssignRate, statsVars, historyVars, OnlyOne, InFlight
<1> QED
  BY <1>0, <1>1, <1>2, <1>3, <1>4, ServedStep DEF LiveTypeOK, AssignRate, statsVars, historyVars

\* What is read back has been assigned by r, or by others since.
LEMMA ReadBackStep == ASSUME LiveIInv, NEW r \in Requests, ReadBack(r) PROVE LiveIInv'
<1>0. LiveTypeOK /\ Current(r) /\ OnlyOne(r) /\ InFlight(r) /\ serving[r] = "answer"
  BY DEF LiveIInv, ReadBack, InFlight
<1>1. PICK e \in IF at[r] = 0 THEN {"health", "status"} ELSE {endpoint[r]} :
          LET f == ReadOrder(e)[at[r] + 1]
              status == IF f = "healthy" /\ attributes[f] = {Unreadable} THEN "health 503" ELSE e
          IN  /\ body' = [body EXCEPT ![r] = body[r] \cup attributes[f]]
              /\ endpoint' = [endpoint EXCEPT ![r] = status]
              /\ at' = [at EXCEPT ![r] = (at[r] + 1) % Len(ReadOrder(status))]
  BY DEF ReadBack
<1> DEFINE k == at[r]
           f == ReadOrder(e)[k + 1]
           status == IF f = "healthy" /\ attributes[f] = {Unreadable} THEN "health 503" ELSE e
           j == (k + 1) % Len(ReadOrder(status))
<1>2. e \in Endpoints /\ status \in Endpoints
  BY <1>0, <1>1 DEF LiveTypeOK, Endpoints
<1>3. Len(ReadOrder(e)) \in 3..4 /\ Len(ReadOrder(status)) \in 3..4
  BY <1>2, ReadOrders, Zenon
<1>4. k \in 0..3 /\ k + 1 \in 1..Len(ReadOrder(e))
  <2>1. k = 0 \/ (e = endpoint[r] /\ k \in 1..(Len(ReadOrder(endpoint[r])) - 1))
    BY <1>0, <1>1 DEF Current
  <2> DEFINE n == Len(ReadOrder(e))
  <2>2. n \in 3..4 /\ (k = 0 \/ k \in 1..(n - 1))
    BY <1>3, <2>1
  <2> HIDE DEF k, n
  <2>3. k \in 0..3 /\ k + 1 \in 1..n
    BY <2>2
  <2> QED  BY <2>3 DEF n
<1>5. f \in Attributes
  BY <1>2, <1>4, ReadOrders
<1>6. j \in 0..(Len(ReadOrder(status)) - 1) /\ j \in 0..3
  <2> DEFINE n == Len(ReadOrder(status))
  <2>1. n \in 3..4 /\ k \in 0..3
    BY <1>3, <1>4
  <2> HIDE DEF k, n
  <2>2. (k + 1) % n \in 0..(n - 1) /\ n - 1 \in 2..3
    BY <2>1, Wraps
  <2>3. (k + 1) % n \in 0..3
    BY <2>1, <2>2
  <2> QED  BY <2>2, <2>3 DEF n
<1>7. /\ body' = [body EXCEPT ![r] = body[r] \cup attributes[f]]
      /\ endpoint' = [endpoint EXCEPT ![r] = status]
      /\ at' = [at EXCEPT ![r] = j]
  BY <1>1
<1> HIDE DEF k, f, status, j
<1>8. /\ at'[r] = j /\ endpoint'[r] = status /\ body'[r] = body[r] \cup attributes[f]
      /\ serving' = [serving EXCEPT ![r] = IF j = 0 THEN "respond" ELSE "answer"]
      /\ UNCHANGED <<stats_json, writes, attributes, got, rate, recent, solo>>
  <2>1. at'[r] = j /\ endpoint'[r] = status /\ body'[r] = body[r] \cup attributes[f]
    BY <1>0, <1>7 DEF LiveTypeOK
  <2>2. serving' = IF at'[r] = 0 THEN [serving EXCEPT ![r] = "respond"] ELSE serving
    BY DEF ReadBack
  <2>3. [serving EXCEPT ![r] = "answer"] = serving
    BY <1>0 DEF LiveTypeOK
  <2> QED  BY <2>1, <2>2, <2>3 DEF ReadBack, statsVars, historyVars
<1>9. serving'[r] = IF j = 0 THEN "respond" ELSE "answer"
  BY <1>0, <1>8 DEF LiveTypeOK
<1>a. /\ attributes[f] \subseteq recent /\ attributes[f] \subseteq Contents
      /\ \A n : FromOne(r, n) => attributes[f] = {n}
  BY <1>0, <1>5 DEF LiveTypeOK, Current, FromOne, Assigned
<1>b. LiveTypeOK'
  <2>1. at' \in [Requests -> 0..5]
    BY <1>0, <1>6, <1>7 DEF LiveTypeOK
  <2>2. body' \in [Requests -> SUBSET Contents] /\ endpoint' \in [Requests -> Endpoints]
    BY <1>0, <1>2, <1>7, <1>a DEF LiveTypeOK
  <2> QED  BY <1>0, <1>8, <2>1, <2>2 DEF LiveTypeOK
<1>c. Current(r)'
  <2>1. serving'[r] = "answer" => at'[r] = 0 \/ at'[r] \in 1..(Len(ReadOrder(endpoint'[r])) - 1)
    BY <1>3, <1>6, <1>8
  <2>2. serving'[r] \notin {"reset", "copy", "answer"} => at'[r] = 0
    BY <1>8, <1>9
  <2>3. \A g \in Attributes : attributes'[g] \subseteq recent'
    BY <1>0, <1>8 DEF Current, Assigned
  <2>4. rate'[r] \subseteq recent' /\ rate'[r] = {} /\ body'[r] \subseteq recent'
    BY <1>0, <1>8, <1>a DEF Current
  <2> QED  BY <1>0, <1>8, <1>9, <2>1, <2>2, <2>3, <2>4 DEF Current, InFlight
<1>d. OnlyOne(r)'
  <2>1. ASSUME NEW n, FromOne(r, n) PROVE FromOne(r, n)'
    <3>1. body'[r] = {n}
      <4>1. body[r] \subseteq {n} /\ attributes[f] = {n}
        BY <1>0, <1>a, <2>1 DEF FromOne
      <4> QED  BY <1>8, <4>1
    <3>2. \A g \in Attributes : attributes'[g] = {n}
      BY <1>0, <1>8, <2>1 DEF FromOne, Assigned
    <3>3. serving'[r] = "answer" => at'[r] # 0
      BY <1>8, <1>9
    <3> QED  BY <1>9, <3>1, <3>2, <3>3 DEF FromOne
  <2> QED  BY <1>0, <1>8, <1>9, <2>1 DEF LiveTypeOK, OnlyOne, InFlight
<1> QED
  <2>1. \A s \in Requests : s # r =>
            /\ serving'[s] = serving[s] /\ at'[s] = at[s] /\ endpoint'[s] = endpoint[s]
            /\ got'[s] = got[s] /\ rate'[s] = rate[s] /\ body'[s] = body[s]
    BY <1>0, <1>7, <1>8 DEF LiveTypeOK
  <2> QED  BY <1>0, <1>8, <1>b, <1>c, <1>d, <2>1, ServedStep

LEMMA RespondStep == ASSUME LiveIInv, NEW r \in Requests, Respond(r) PROVE LiveIInv'
<1>0. LiveTypeOK /\ Current(r) /\ InFlight(r)
  BY DEF LiveIInv, Respond, InFlight
<1>1. LiveTypeOK'
  BY <1>0 DEF LiveTypeOK, Respond, statsVars, Endpoints
<1>2. Current(r)'
  BY <1>0 DEF LiveTypeOK, Respond, statsVars, Current, InFlight, Assigned
<1>3. OnlyOne(r)'
  BY <1>0 DEF LiveTypeOK, Respond, OnlyOne
<1> QED  BY <1>0, <1>1, <1>2, <1>3, ServedStep DEF LiveTypeOK, Respond, statsVars

LEMMA LiveStep == LiveIInv /\ [LiveNext]_liveVars => LiveIInv'
<1> SUFFICES ASSUME LiveIInv, [LiveNext]_liveVars PROVE LiveIInv'
  OBVIOUS
<1>1. CASE WriteStats
  <2>1. writes + 1 \in Contents /\ writes' \in 0..MaxSnapshots
    BY <1>1, SnapshotAssumption DEF WriteStats, LiveIInv, LiveTypeOK, Contents, Snapshots
  <2> QED  BY <1>1, <2>1, FileStep DEF WriteStats
<1>2. CASE LoseStats
  BY <1>2, FileStep DEF LoseStats, LiveIInv, LiveTypeOK, Contents
<1>3. ASSUME NEW r \in Requests, Serve(r) PROVE LiveIInv'
  BY <1>3, BeginStep, ReadFileStep, ResetStep, CopyStep, ReadStartStep, ReadProcessedStep,
     AssignRateStep, ReadBackStep, RespondStep DEF Serve
<1>4. CASE UNCHANGED liveVars
  BY <1>4 DEF liveVars, statsVars, historyVars, LiveIInv, LiveTypeOK, Current, OnlyOne,
     FromOne, InFlight, Assigned
<1> QED  BY <1>1, <1>2, <1>3, <1>4 DEF LiveNext

\* _read_stats and the endpoints, for any number of requests at once and any
\* number of snapshots: an answer shows nothing that stats.json had before the
\* API was last idle, and that of a request which was never in flight with
\* another is one content of stats.json.
THEOREM AnswersCurrent == LiveSpec => []AnswerIsCurrent
<1>1. LiveIInv => AnswerIsCurrent
  BY DEF LiveIInv, Current, OnlyOne, FromOne, AnswerIsCurrent
<1>2. LiveIInv /\ [LiveNext]_liveVars => LiveIInv'
  BY LiveStep
<1> QED  BY <1>1, <1>2, LiveInitial, PTL DEF LiveSpec

-----------------------------------------------------------------------------
(* Triage.  Every turn that is over was spent on one tool call.            *)

ReplyKinds == {"memo", "tool", "tool_error", "malformed", "unhashable", "no_cli"}

ToolKinds == {"tool", "tool_error"}

\* The positions of the tool calls in a log l.
SpentIn(l) == {i \in 1..Len(l) : l[i] \in ToolKinds}

\* How many tool calls the loop has paid for at each step.
TurnsSpent ==
    /\ step = "start" => turn = 0
    /\ step \in {"start", "ask"} => Cardinality(SpentIn(log)) = turn
    /\ step = "again" =>
          /\ Cardinality(SpentIn(log)) + 1 = turn
          /\ calls + 1 <= 2 * turn
          /\ Len(log) >= 1 /\ log[Len(log)] = "malformed" /\ reply.kind = "malformed"
    /\ step = "act" =>
          /\ Len(log) >= 1 /\ log[Len(log)] = reply.kind
          /\ reply \in Replies /\ (IsTool(reply) \/ reply.kind = "memo")
          /\ Cardinality(SpentIn(log)) + (IF IsTool(reply) THEN 0 ELSE 1) = turn

TriageIInv == MemoIsJustified /\ log \in Seq(ReplyKinds) /\ TurnsSpent

\* What telling the model appends to it.
LEMMA Telling ==
    ASSUME conversation \in Seq(Said), reply.kind \in Sayings, NEW f \in Sayings, Tell(f)
    PROVE  /\ conversation' \in Seq(Said) /\ Len(conversation') = Len(conversation) + 2
           /\ \A i \in 1..Len(conversation) : conversation'[i] = conversation[i]
           /\ conversation'[Len(conversation) + 1] = Message("assistant", reply.kind)
           /\ conversation'[Len(conversation) + 2] = Message("user", f)
<1> DEFINE a == Message("assistant", reply.kind)
           b == Message("user", f)
<1>1. a \in Said /\ b \in Said
  BY DEF Message, Said
<1>2. conversation' = conversation \o <<a, b>>
  BY DEF Tell
<1> HIDE DEF a, b
<1>3. <<a, b>> \in Seq(Said)
  BY <1>1
<1>4. /\ conversation' \in Seq(Said) /\ Len(conversation') = Len(conversation) + 2
      /\ \A i \in 1..Len(conversation) : conversation'[i] = conversation[i]
      /\ conversation'[Len(conversation) + 1] = a
      /\ conversation'[Len(conversation) + 2] = b
  BY <1>2, <1>3
<1> QED  BY <1>4 DEF a, b

LEMMA SpentGrows ==
    ASSUME NEW l \in Seq(ReplyKinds), NEW k \in ReplyKinds
    PROVE  /\ Cardinality(SpentIn(l)) \in Nat
           /\ Cardinality(SpentIn(Append(l, k))) =
                 Cardinality(SpentIn(l)) + (IF k \in ToolKinds THEN 1 ELSE 0)
<1>1. /\ Len(l) \in Nat /\ Len(Append(l, k)) = Len(l) + 1
      /\ Append(l, k)[Len(l) + 1] = k /\ \A i \in 1..Len(l) : Append(l, k)[i] = l[i]
  OBVIOUS
<1>2. IsFiniteSet(1..Len(l)) /\ SpentIn(l) \in SUBSET (1..Len(l))
  <2>1. 1 \in Int /\ Len(l) \in Int
    BY <1>1
  <2> QED  BY <2>1, FS_Interval, Zenon DEF SpentIn
<1>3. IsFiniteSet(SpentIn(l)) /\ Cardinality(SpentIn(l)) \in Nat
  BY <1>2, FS_Subset, FS_CardinalityType, Zenon
<1>4. Len(l) + 1 \notin SpentIn(l)
  BY <1>1 DEF SpentIn
<1>5. CASE k \in ToolKinds
  <2>1. SpentIn(Append(l, k)) = SpentIn(l) \cup {Len(l) + 1}
    BY <1>1, <1>5 DEF SpentIn
  <2>2. Cardinality(SpentIn(l) \cup {Len(l) + 1}) = Cardinality(SpentIn(l)) + 1
    BY <1>3, <1>4, FS_AddElement, Zenon
  <2> QED  BY <1>3, <1>5, <2>1, <2>2
<1>6. CASE k \notin ToolKinds
  <2>1. SpentIn(Append(l, k)) = SpentIn(l)
    BY <1>1, <1>6 DEF SpentIn
  <2> QED  BY <1>3, <1>6, <2>1
<1> QED  BY <1>5, <1>6

LEMMA ReplyShape ==
    ASSUME NEW r \in Replies
    PROVE  /\ r.kind \in ReplyKinds
           /\ Raises(r) <=> r.kind \in {"unhashable", "no_cli"}
           /\ IsTool(r) <=> r.kind \in ToolKinds
BY DEF Replies, ReplyKinds, Raises, IsTool, ToolKinds

\* What is said: answers of any kind, and the feedback to them.
LEMMA SayingsAre ==
    /\ "complaint" \in Sayings /\ "malformed" \in Sayings
    /\ \A r \in Replies : r.kind \in Sayings /\ Feedback(r.kind) \in Sayings
<1>1. {"investigate", "complaint", "result", "error"} \subseteq Sayings
  BY DEF Sayings
<1>2. \A r \in Replies : r.kind \in Sayings
  BY Zenon DEF Sayings
<1>3. \A k : Feedback(k) \in {"complaint", "result", "error"}
  BY DEF Feedback
<1>4. [kind |-> "malformed"] \in Replies
  BY DEF Replies
<1> QED  BY <1>1, <1>2, <1>3, <1>4

LEMMA TriageInitial == TriageInit => TriageIInv
<1> SUFFICES ASSUME TriageInit PROVE TriageIInv
  OBVIOUS
<1>1. log = << >> /\ Len(log) = 0 /\ log \in Seq(ReplyKinds)
  BY DEF TriageInit
<1>2. Cardinality(SpentIn(log)) = 0
  <2>1. SpentIn(log) = {}
    BY <1>1 DEF SpentIn
  <2> QED  BY <2>1, FS_EmptySet
<1>3. MemoIsJustified
  BY <1>1, TurnsAssumption DEF TriageInit, MemoIsJustified, TriageTypeOK
<1> QED  BY <1>1, <1>2, <1>3 DEF TriageIInv, TurnsSpent, TriageInit

LEMMA StartStep == ASSUME TriageIInv, Start PROVE TriageIInv'
<1>1. /\ step = "start" /\ step' \in {"ask", "raised"} /\ UNCHANGED <<turn, calls, reply, log, memo>>
      /\ conversation' \in {<<Opening>>, conversation}
  BY DEF Start
<1>2. conversation' \in Seq(Said)
  <2>1. Opening \in Said
    BY DEF Opening, Message, Said, Sayings
  <2>2. <<Opening>> \in Seq(Said)
    BY <2>1
  <2> QED  BY <1>1, <2>2 DEF TriageIInv, MemoIsJustified, TriageTypeOK
<1> QED  BY <1>1, <1>2 DEF TriageIInv, MemoIsJustified, TriageTypeOK, TurnsSpent

\* What a completion does to the log and its books.
LEMMA Completed ==
    ASSUME TriageIInv, NEW r \in Replies, Complete(r)
    PROVE  /\ log' \in Seq(ReplyKinds) /\ Len(log') = Len(log) + 1 /\ Len(log') = calls'
           /\ log'[Len(log')] = r.kind /\ calls' = calls + 1 /\ reply' = r
           /\ \A i \in 1..Len(log) : log'[i] = log[i]
           /\ Cardinality(SpentIn(log)) \in Nat
           /\ Cardinality(SpentIn(log')) =
                 Cardinality(SpentIn(log)) + (IF IsTool(r) THEN 1 ELSE 0)
<1>1. log \in Seq(ReplyKinds) /\ r.kind \in ReplyKinds /\ log' = Append(log, r.kind)
  BY ReplyShape DEF TriageIInv, Complete
<1>2. /\ Cardinality(SpentIn(log)) \in Nat
      /\ Cardinality(SpentIn(log')) =
            Cardinality(SpentIn(log)) + (IF IsTool(r) THEN 1 ELSE 0)
  BY <1>1, SpentGrows, ReplyShape
<1> QED  BY <1>1, <1>2 DEF TriageIInv, MemoIsJustified, TriageTypeOK, Complete

LEMMA AskStep == ASSUME TriageIInv, Ask PROVE TriageIInv'
<1>1. PICK r \in Replies :
         /\ Complete(r)
         /\ step' = CASE Raises(r) -> "raised"
                    [] r.kind = "malformed" -> "again"
                    [] OTHER -> "act"
  BY DEF Ask
<1>2. step' = IF Raises(r) THEN "raised" ELSE IF r.kind = "malformed" THEN "again" ELSE "act"
  BY <1>1, ReplyShape
<1>3. /\ step = "ask" /\ turn \in Nat /\ turn < MaxTurns /\ turn' = turn + 1
      /\ calls \in turn..(2 * turn) /\ UNCHANGED <<conversation, memo>>
      /\ Cardinality(SpentIn(log)) = turn /\ conversation \in Seq(Said)
  BY TurnsAssumption DEF Ask, TriageIInv, MemoIsJustified, TriageTypeOK, TurnsSpent
<1>4. MemoIsJustified'
  <2>1. /\ Len(log') = calls' /\ reply' \in Replies /\ calls' = calls + 1
        /\ step' \in {"raised", "again", "act"}
    BY <1>1, <1>2, Completed
  <2>2. turn' \in 0..MaxTurns /\ calls' \in turn'..(2 * turn')
    BY <1>3, <2>1, TurnsAssumption
  <2>3. conversation' \in Seq(Said)
    BY <1>3
  <2> QED  BY <2>1, <2>2, <2>3, Zenon DEF MemoIsJustified, TriageTypeOK
<1>5. TurnsSpent'
  <2>1. /\ Len(log') >= 1 /\ log'[Len(log')] = r.kind /\ reply' = r /\ calls' = calls + 1
        /\ Cardinality(SpentIn(log')) = turn + (IF IsTool(r) THEN 1 ELSE 0)
    <3>1. Len(log) \in Nat
      BY DEF TriageIInv
    <3> QED  BY <1>1, <1>3, <3>1, Completed
  <2>2. /\ step' = "act" => r.kind = "memo" \/ IsTool(r)
        /\ step' = "again" => r.kind = "malformed" /\ ~IsTool(r)
        /\ step' \in {"raised", "again", "act"}
        /\ r.kind = "memo" => ~IsTool(r)
    BY <1>2, ReplyShape DEF ReplyKinds, ToolKinds
  <2> QED  BY <1>3, <2>1, <2>2 DEF TurnsSpent
<1> QED  BY <1>1, <1>4, <1>5, Completed DEF TriageIInv

LEMMA AskAgainStep == ASSUME TriageIInv, AskAgain PROVE TriageIInv'
<1>1. PICK r \in Replies :
         /\ Complete(r)
         /\ CASE Raises(r) -> step' = "raised" /\ UNCHANGED memo
              [] r.kind = "malformed" -> Return(NoConclusion("malformed_llm_response"))
              [] OTHER -> step' = "act" /\ UNCHANGED memo
  BY DEF AskAgain
<1>2. \/ Raises(r) /\ step' = "raised" /\ UNCHANGED memo
      \/ /\ r.kind = "malformed" /\ step' = "memo"
         /\ memo' = NoConclusion("malformed_llm_response")
      \/ ~Raises(r) /\ r.kind # "malformed" /\ step' = "act" /\ UNCHANGED memo
  BY <1>1, ReplyShape DEF Return
<1>3. /\ step = "again" /\ turn \in 0..MaxTurns /\ turn' = turn
      /\ calls \in turn..(2 * turn) /\ calls + 1 <= 2 * turn
      /\ Cardinality(SpentIn(log)) + 1 = turn
      /\ Len(log) >= 1 /\ log[Len(log)] = "malformed" /\ Len(log) = calls
  BY TurnsAssumption DEF AskAgain, TriageIInv, MemoIsJustified, TriageTypeOK, TurnsSpent
<1>4. conversation' \in Seq(Said)
  <2>1. "complaint" \in Sayings /\ "malformed" \in Sayings
    BY SayingsAre
  <2>2. /\ conversation \in Seq(Said) /\ reply.kind = "malformed" /\ Tell("complaint")
    BY DEF AskAgain, TriageIInv, MemoIsJustified, TriageTypeOK, TurnsSpent
  <2> QED  BY <2>1, <2>2, Telling
<1>5. TriageTypeOK'
  BY <1>1, <1>2, <1>3, <1>4, Completed, TurnsAssumption DEF TriageTypeOK
<1>6. step' = "memo" => /\ GaveUp("malformed_llm_response")'
                        /\ \A i \in (Len(log') - 1)..Len(log') : log'[i] = "malformed"
  <2> SUFFICES ASSUME step' = "memo"
               PROVE  /\ GaveUp("malformed_llm_response")'
                      /\ \A i \in (Len(log') - 1)..Len(log') : log'[i] = "malformed"
    OBVIOUS
  <2>1. GaveUp("malformed_llm_response")' /\ r.kind = "malformed"
    BY <1>2 DEF GaveUp, NoConclusion
  <2>2. log'[Len(log')] = "malformed" /\ log'[Len(log)] = "malformed" /\ Len(log') = Len(log) + 1
    BY <1>1, <1>3, <2>1, Completed DEF TriageIInv
  <2> QED  BY <2>1, <2>2, <1>3, TurnsAssumption
<1>7. TurnsSpent'
  BY <1>1, <1>2, <1>3, Completed, ReplyShape, TurnsAssumption DEF TurnsSpent, ReplyKinds, ToolKinds
<1> QED  BY <1>1, <1>5, <1>6, <1>7, Completed DEF TriageIInv, MemoIsJustified

LEMMA LoopStep == ASSUME TriageIInv, Conclude \/ RunTool \/ GiveUp PROVE TriageIInv'
<1>1. CASE Conclude
  <2>1. Finalize(reply.hypothesis).hypothesis \in Allowed \cup {"unknown"}
    BY DEF Finalize
  <2>2. step' = "memo" /\ memo' = Finalize(reply.hypothesis) /\ log[Len(log)] = "memo"
        /\ UNCHANGED <<turn, calls, conversation, reply, log>>
    BY <1>1 DEF Conclude, Return, TriageIInv, TurnsSpent
  <2> QED  BY <2>1, <2>2 DEF TriageIInv, MemoIsJustified, TriageTypeOK, TurnsSpent
<1>2. CASE RunTool
  <2>1. /\ step = "act" /\ IsTool(reply) /\ step' = "ask"
        /\ UNCHANGED <<turn, calls, reply, log, memo>>
    BY <1>2 DEF RunTool
  <2>3. conversation' \in Seq(Said)
    <3>1. reply.kind \in Sayings /\ Feedback(reply.kind) \in Sayings
      BY <2>1, SayingsAre DEF TriageIInv, TurnsSpent
    <3>2. conversation \in Seq(Said) /\ Tell(Feedback(reply.kind))
      BY <1>2 DEF RunTool, TriageIInv, MemoIsJustified, TriageTypeOK
    <3> QED  BY <3>1, <3>2, Telling
  <2>2. Cardinality(SpentIn(log)) = turn
    BY <2>1, SpentGrows DEF TriageIInv, TurnsSpent, ReplyKinds
  <2> QED  BY <2>1, <2>2, <2>3 DEF TriageIInv, MemoIsJustified, TriageTypeOK, TurnsSpent
<1>3. CASE GiveUp
  <2>1. Spent = SpentIn(log)
    BY DEF Spent, SpentIn, ToolKinds
  <2>2. /\ step' = "memo" /\ memo' = NoConclusion("max_turns_exceeded")
        /\ UNCHANGED <<turn, calls, conversation, reply, log>>
        /\ Cardinality(Spent) = MaxTurns
    BY <1>3, <2>1 DEF GiveUp, Return, TriageIInv, TurnsSpent
  <2>3. Spent' = Spent /\ GaveUp("max_turns_exceeded")'
    BY <2>2 DEF Spent, GaveUp, NoConclusion
  <2> QED  BY <2>2, <2>3 DEF TriageIInv, MemoIsJustified, TriageTypeOK, TurnsSpent
<1> QED  BY <1>1, <1>2, <1>3

LEMMA TriageStep == TriageIInv /\ [TriageNext]_triageVars => TriageIInv'
<1> SUFFICES ASSUME TriageIInv, [TriageNext]_triageVars PROVE TriageIInv'
  OBVIOUS
<1>1. CASE UNCHANGED triageVars
  BY <1>1 DEF triageVars, TriageIInv, MemoIsJustified, TriageTypeOK, TurnsSpent, GaveUp, Spent
<1> QED  BY <1>1, StartStep, AskStep, AskAgainStep, LoopStep DEF TriageNext

\* TriageAgent.investigate, for every max_turns and every set of allowed
\* hypotheses: "no_conclusion" is in the memo exactly when the loop gave up, for
\* the reason the model's answers bear out, and otherwise the memo's hypothesis is
\* an allowed one or "unknown".
THEOREM MemoJustified == TriageSpec => []MemoIsJustified
<1>1. TriageIInv /\ [TriageNext]_triageVars => TriageIInv'
  BY TriageStep
<1>2. TriageIInv => MemoIsJustified
  BY DEF TriageIInv
<1> QED  BY <1>1, <1>2, TriageInitial, PTL DEF TriageSpec

\* Told, of a conversation c and a log l.
ToldOf(c, l, n) ==
    /\ Len(c) = 2 * n + 1
    /\ c[1] = Opening
    /\ \A i \in 1..n : /\ c[2 * i] = Message("assistant", l[i])
                      /\ c[2 * i + 1] = Message("user", Feedback(l[i]))

LEMMA ToldIs == \A n : Told(n) <=> ToldOf(conversation, log, n)
BY Zenon DEF Told, ToldOf

\* Only the answers that were told matter.
LEMMA ToldPrefix ==
    ASSUME NEW c, NEW l, NEW m, NEW n \in Nat, ToldOf(c, l, n), \A i \in 1..n : m[i] = l[i]
    PROVE  ToldOf(c, m, n)
BY Zenon DEF ToldOf

\* One more answer is told.
LEMMA ToldMore ==
    ASSUME conversation \in Seq(Said), reply.kind \in Sayings, NEW n \in Nat,
           Feedback(reply.kind) \in Sayings, Tell(Feedback(reply.kind)),
           ToldOf(conversation, log, n), log[n + 1] = reply.kind
    PROVE  ToldOf(conversation', log, n + 1)
<1> DEFINE c == conversation'
<1>1. /\ Len(conversation) = 2 * n + 1 /\ Len(c) = Len(conversation) + 2
      /\ \A i \in 1..Len(conversation) : c[i] = conversation[i]
      /\ c[Len(conversation) + 1] = Message("assistant", reply.kind)
      /\ c[Len(conversation) + 2] = Message("user", Feedback(reply.kind))
  BY Telling DEF ToldOf
<1> HIDE DEF c
<1>2. /\ Len(c) = 2 * (n + 1) + 1
      /\ c[2 * (n + 1)] = Message("assistant", log[n + 1])
      /\ c[2 * (n + 1) + 1] = Message("user", Feedback(log[n + 1]))
  <2>1. 2 * (n + 1) = Len(conversation) + 1 /\ 2 * (n + 1) + 1 = Len(conversation) + 2
    BY <1>1
  <2> QED  BY <1>1, <2>1
<1>3. c[1] = Opening
  BY <1>1 DEF ToldOf
<1>4. ASSUME NEW i \in 1..n
      PROVE  /\ c[2 * i] = Message("assistant", log[i])
             /\ c[2 * i + 1] = Message("user", Feedback(log[i]))
  <2>1. 2 * i \in 1..Len(conversation) /\ 2 * i + 1 \in 1..Len(conversation)
    BY <1>1
  <2>2. c[2 * i] = conversation[2 * i] /\ c[2 * i + 1] = conversation[2 * i + 1]
    BY <1>1, <2>1
  <2> QED  BY <2>2 DEF ToldOf
<1>5. \A i \in 1..(n + 1) : i \in 1..n \/ i = n + 1
  OBVIOUS
<1>6. \A i \in 1..(n + 1) : /\ c[2 * i] = Message("assistant", log[i])
                            /\ c[2 * i + 1] = Message("user", Feedback(log[i]))
  BY <1>2, <1>4, <1>5, Zenon
<1> QED  BY <1>2, <1>3, <1>6, Zenon DEF ToldOf, c

LEMMA TellStep == TriageIInv /\ ModelIsTold /\ [TriageNext]_triageVars => ModelIsTold'
<1> SUFFICES ASSUME TriageIInv, ModelIsTold, [TriageNext]_triageVars PROVE ModelIsTold'
  OBVIOUS
<1>1. /\ log \in Seq(ReplyKinds) /\ Len(log) \in Nat /\ conversation \in Seq(Said)
      /\ step = "start" => Len(log) = 0
      /\ step \in {"again", "act"} => Len(log) >= 1 /\ log[Len(log)] = reply.kind
      /\ step = "again" => reply.kind = "malformed"
      /\ step = "act" => reply \in Replies
  BY TurnsAssumption
     DEF TriageIInv, MemoIsJustified, TriageTypeOK, TurnsSpent
<1>2. /\ step = "ask" => ToldOf(conversation, log, Len(log))
      /\ step \in {"again", "act"} => ToldOf(conversation, log, Len(log) - 1)
  BY ToldIs DEF ModelIsTold
<1>3. SUFFICES /\ step' = "ask" => ToldOf(conversation', log', Len(log'))
               /\ step' \in {"again", "act"} => ToldOf(conversation', log', Len(log') - 1)
  BY ToldIs, Zenon DEF ModelIsTold, Told, ToldOf
<1>4. CASE UNCHANGED triageVars
  BY <1>2, <1>4 DEF triageVars
<1>5. CASE Start
  <2>1. /\ step' \in {"ask", "raised"} /\ log' = log /\ Len(log) = 0
        /\ step' = "ask" => conversation' = <<Opening>>
    BY <1>1, <1>5 DEF Start
  <2>2. Len(<<Opening>>) = 1 /\ <<Opening>>[1] = Opening
    OBVIOUS
  <2> QED  BY <2>1, <2>2 DEF ToldOf
<1>6. CASE Ask
  <2>1. /\ step = "ask" /\ step' \in {"raised", "again", "act"} /\ conversation' = conversation
        /\ \E r \in Replies : Complete(r)
    BY <1>6 DEF Ask
  <2>2. Len(log') - 1 = Len(log) /\ \A i \in 1..Len(log) : log'[i] = log[i]
    BY <1>1, <2>1, Completed
  <2> QED  BY <1>1, <1>2, <2>1, <2>2, ToldPrefix
<1>7. CASE AskAgain
  <2>1. /\ step = "again" /\ step' # "ask" /\ Tell("complaint") /\ reply.kind = "malformed"
        /\ \E r \in Replies : Complete(r)
    BY <1>1, <1>7 DEF AskAgain, Return
  <2>2. Len(log') - 1 = Len(log) /\ \A i \in 1..Len(log) : log'[i] = log[i]
    BY <1>1, <2>1, Completed
  <2>3. Feedback(reply.kind) = "complaint"
    BY <2>1 DEF Feedback
  <2>4. PICK n \in Nat : n = Len(log) - 1 /\ n + 1 = Len(log)
    BY <1>1, <2>1
  <2>5. ToldOf(conversation', log, n + 1)
    BY <1>1, <1>2, <2>1, <2>3, <2>4, SayingsAre, ToldMore
  <2> QED  BY <1>1, <2>1, <2>2, <2>4, <2>5, ToldPrefix
<1>8. CASE RunTool
  <2>1. /\ step = "act" /\ step' = "ask" /\ Tell(Feedback(reply.kind)) /\ log' = log
    BY <1>8 DEF RunTool
  <2>2. PICK n \in Nat : n = Len(log) - 1 /\ n + 1 = Len(log)
    BY <1>1, <2>1
  <2>3. ToldOf(conversation', log, n + 1)
    BY <1>1, <1>2, <2>1, <2>2, SayingsAre, ToldMore
  <2> QED  BY <2>1, <2>2, <2>3
<1>9. CASE Conclude \/ GiveUp
  BY <1>9 DEF Conclude, GiveUp, Return
<1> QED  BY <1>4, <1>5, <1>6, <1>7, <1>8, <1>9 DEF TriageNext

\* TriageAgent.investigate, for every max_turns: whenever a turn begins, the
\* conversation is the opening and then every answer of the model, in order and
\* each with the feedback to it, also where the turn needed its retry.
THEOREM ModelTold == TriageSpec => []ModelIsTold
<1>1. TriageInit => ModelIsTold
  BY DEF TriageInit, ModelIsTold
<1>2. TriageIInv /\ [TriageNext]_triageVars => TriageIInv'
  BY TriageStep
<1> QED  BY <1>1, <1>2, TriageInitial, TellStep, PTL DEF TriageSpec

-----------------------------------------------------------------------------
(* LiveSmoke.  The books balance at every step of the callback, and main   *)
(* stops the socket before it lets the consumer end.                       *)

Counters == {"received", "pushed", "parse_failures", "gaps", "reconnects", "btc_ticks", "eth_ticks"}

\* Numbers that balance: n ticks in the ring, b and e counted, p pushed, rcv
\* messages received, fail failures and ref refused, when the callback is at ws
\* and still owes the counters a step.
Balanced(n, b, e, p, rcv, fail, ref, ws) ==
    /\ rcv <= MaxReceived
    /\ n + b + e = p + (IF ws = "count" THEN 1 ELSE 0)
    /\ rcv = p + ref + (IF ws = "idle" THEN 0 ELSE 1)
    /\ fail <= ref + (IF ws = "skipped" THEN 1 ELSE 0)

Books == Balanced(Len(ring), tally.btc_ticks, tally.eth_ticks, tally.pushed,
                  tally.received, tally.parse_failures, refused, wsState)

\* What the steps of the socket thread do to the numbers: a message counted as
\* malformed, as pushed, put in the ring, refused, received.
LEMMA BalancedSteps ==
    ASSUME NEW n \in Nat, NEW b \in Nat, NEW e \in Nat, NEW p \in Nat,
           NEW rcv \in Nat, NEW fail \in Nat, NEW ref \in Nat, NEW ws,
           Balanced(n, b, e, p, rcv, fail, ref, ws)
    PROVE  /\ ws = "malformed" => Balanced(n, b, e, p, rcv, fail + 1, ref, "skipped")
           /\ ws = "count" => Balanced(n, b, e, p + 1, rcv, fail, ref, "idle")
           /\ ws = "tick" => Balanced(n + 1, b, e, p, rcv, fail, ref, "count")
<1>1. ws = "malformed" => Balanced(n, b, e, p, rcv, fail + 1, ref, "skipped")
  BY DEF Balanced
<1>2. ws = "count" => Balanced(n, b, e, p + 1, rcv, fail, ref, "idle")
  BY DEF Balanced
<1>3. ws = "tick" => Balanced(n + 1, b, e, p, rcv, fail, ref, "count")
  BY DEF Balanced
<1> QED  BY <1>1, <1>2, <1>3

\* The states of the callback that still owe the ring an answer, and the ones
\* a message puts it in.
Refusing == {"tick", "heartbeat", "skipped"}
Receiving == {"malformed", "tick", "heartbeat", "skipped"}

LEMMA BalancedRefused ==
    ASSUME NEW n \in Nat, NEW b \in Nat, NEW e \in Nat, NEW p \in Nat,
           NEW rcv \in Nat, NEW fail \in Nat, NEW ref \in Nat,
           NEW ws \in Refusing,
           Balanced(n, b, e, p, rcv, fail, ref, ws)
    PROVE  Balanced(n, b, e, p, rcv, fail, ref + 1, "idle") /\ ref + 1 \in 0..MaxReceived
BY SmokeAssumption DEF Balanced, Refusing

LEMMA BalancedReceived ==
    ASSUME NEW n \in Nat, NEW b \in Nat, NEW e \in Nat, NEW p \in Nat,
           NEW rcv \in Nat, NEW fail \in Nat, NEW ref \in Nat,
           Balanced(n, b, e, p, rcv, fail, ref, "idle"), rcv < MaxReceived,
           NEW w \in Receiving
    PROVE  Balanced(n, b, e, p, rcv + 1, fail, ref, w)
BY SmokeAssumption DEF Balanced, Receiving

\* What is left of them once the ring is empty and the callback idle.
LEMMA BalancedAtRest ==
    ASSUME NEW b \in Nat, NEW e \in Nat, NEW p \in Nat,
           NEW rcv \in Nat, NEW fail \in Nat, NEW ref \in Nat,
           Balanced(0, b, e, p, rcv, fail, ref, "idle")
    PROVE  b + e = p /\ rcv = p + ref /\ fail <= ref
BY DEF Balanced

\* How far main is bounds what the other two threads do.
ShutdownOrder ==
    /\ Started => tally.reconnects = lost
    /\ ~Started => /\ wsState = "idle" /\ ~connected
                   /\ tally.reconnects - lost \in {0, 1}
    /\ running <=> mainState \in {"sleeping", "stopping", "stopped"}
    /\ consumerState \in {"last_drain", "done"} => ~running
    /\ consumerState = "done" => ring = << >>
    /\ mainState = "done" => consumerState = "done"

CountersOK == tally \in [Counters -> Nat]

SmokeIInv == SmokeTypeOK /\ CountersOK /\ Books /\ ShutdownOrder

\* A counter is bumped: it is one more, the others stay.
LEMMA Bumped ==
    ASSUME CountersOK, NEW name \in Counters, Bump(name)
    PROVE  /\ tally' \in [Counters -> Nat]
           /\ tally'[name] = tally[name] + 1
           /\ \A c \in Counters \ {name} : tally'[c] = tally[c]
BY DEF CountersOK, Bump

\* The counters, by name.
LEMMA Named ==
    ASSUME NEW t \in [Counters -> Nat]
    PROVE  /\ t["received"] = t.received /\ t["pushed"] = t.pushed /\ t["gaps"] = t.gaps
           /\ t["parse_failures"] = t.parse_failures /\ t["reconnects"] = t.reconnects
           /\ t["btc_ticks"] = t.btc_ticks /\ t["eth_ticks"] = t.eth_ticks
           /\ t.received \in Nat /\ t.pushed \in Nat /\ t.gaps \in Nat
           /\ t.parse_failures \in Nat /\ t.reconnects \in Nat
           /\ t.btc_ticks \in Nat /\ t.eth_ticks \in Nat
BY DEF Counters

LEMMA SmokeInitial == SmokeInit => SmokeIInv
<1> SUFFICES ASSUME SmokeInit PROVE SmokeIInv
  OBVIOUS
<1>0. ring = << >> /\ Len(ring) = 0 /\ ring \in Seq(Tickers)
  BY DEF SmokeInit
<1>t. tally \in [Counters -> Nat]
  <2>1. [received |-> 0, pushed |-> 0, parse_failures |-> 0, gaps |-> 0,
         reconnects |-> 0, btc_ticks |-> 0, eth_ticks |-> 0] \in [Counters -> Nat]
    BY DEF Counters
  <2> QED  BY <2>1, Zenon DEF SmokeInit
<1>1. tally \in [Counters -> Nat] /\ ring = << >> /\ Len(ring) = 0 /\ ring \in Seq(Tickers)
  BY <1>0, <1>t
<1>2. SmokeTypeOK
  <2>1. lost \in 0..MaxDrops /\ refused \in 0..MaxReceived /\ Len(ring) <= RingSize
    BY <1>1, SmokeAssumption DEF SmokeInit
  <2>2. \A name \in DOMAIN tally : tally[name] \in Nat
    BY <1>1
  <2>3. tick \in Tickers /\ baselines \subseteq Tickers
    BY DEF SmokeInit, Tickers
  <2> QED  BY <1>1, <2>1, <2>2, <2>3 DEF SmokeInit, SmokeTypeOK
<1>3. Books /\ ShutdownOrder
  BY <1>1, SmokeAssumption DEF SmokeInit, Books, Balanced, ShutdownOrder, Started
<1> QED  BY <1>1, <1>2, <1>3 DEF SmokeIInv, CountersOK

\* The books, as numbers.
LEMMA Numbers ==
    ASSUME SmokeIInv
    PROVE  /\ tally.received \in Nat /\ tally.pushed \in Nat /\ tally.parse_failures \in Nat
           /\ tally.reconnects \in Nat /\ tally.btc_ticks \in Nat /\ tally.eth_ticks \in Nat
           /\ refused \in Nat /\ lost \in Nat /\ Len(ring) \in Nat
           /\ ring \in Seq(Tickers) /\ tick \in Tickers
           /\ RingSize \in Nat /\ MaxReceived \in Nat /\ MaxDrops \in Nat
<1>1. /\ tally.received \in Nat /\ tally.pushed \in Nat /\ tally.parse_failures \in Nat
      /\ tally.reconnects \in Nat /\ tally.btc_ticks \in Nat /\ tally.eth_ticks \in Nat
  BY Named DEF SmokeIInv, CountersOK
<1>2. ring \in Seq(Tickers) /\ Len(ring) \in Nat /\ tick \in Tickers
  BY DEF SmokeIInv, SmokeTypeOK
<1>3. refused \in Nat /\ lost \in Nat
  BY SmokeAssumption DEF SmokeIInv, SmokeTypeOK
<1> QED  BY <1>1, <1>2, <1>3, SmokeAssumption

\* accept_seq() counts at most a gap, and forgets no stream.
LEMMA SeqAccepted ==
    ASSUME SmokeIInv, NEW accepted \in BOOLEAN, AcceptSeq(accepted)
    PROVE  /\ tally' \in [Counters -> Nat] /\ baselines' \subseteq Tickers
           /\ \A c \in Counters \ {"gaps"} : tally'[c] = tally[c]
<1>1. CASE UNCHANGED tally
  BY <1>1 DEF AcceptSeq, SmokeIInv, SmokeTypeOK, CountersOK
<1>2. CASE Bump("gaps") /\ baselines' = baselines \cup {tick}
  <2>1. "gaps" \in Counters
    BY DEF Counters
  <2> QED  BY <1>2, <2>1, Bumped DEF SmokeIInv, SmokeTypeOK
<1> QED  BY <1>1, <1>2, Zenon DEF AcceptSeq, CountGap

LEMMA CallbackStep == ASSUME SmokeIInv, SmokeCallback PROVE SmokeIInv'
<1>0. SmokeTypeOK /\ Books /\ ShutdownOrder /\ CountersOK
  BY DEF SmokeIInv
<1>k. tally \in [Counters -> Nat]
  BY <1>0 DEF CountersOK
<1>n. /\ tally.received \in Nat /\ tally.pushed \in Nat /\ tally.parse_failures \in Nat
      /\ tally.reconnects \in Nat /\ tally.btc_ticks \in Nat /\ tally.eth_ticks \in Nat
      /\ refused \in Nat /\ lost \in Nat /\ Len(ring) \in Nat
      /\ RingSize \in Nat /\ MaxReceived \in Nat /\ MaxDrops \in Nat
  BY Numbers
<1>c. {"pushed", "parse_failures"} \subseteq Counters
  BY DEF Counters
<1>s. wsState # "idle" => Started
  BY <1>0 DEF ShutdownOrder
<1>1. CASE CountMalformed
  <2>1. /\ tally' \in [Counters -> Nat] /\ tally'["parse_failures"] = tally["parse_failures"] + 1
        /\ \A c \in Counters \ {"parse_failures"} : tally'[c] = tally[c]
    BY <1>0, <1>1, <1>c, Bumped DEF CountMalformed
  <2>a. /\ tally'.received = tally.received /\ tally'.pushed = tally.pushed
        /\ tally'.parse_failures = tally.parse_failures + 1
        /\ tally'.reconnects = tally.reconnects
        /\ tally'.btc_ticks = tally.btc_ticks /\ tally'.eth_ticks = tally.eth_ticks
    BY <1>k, <2>1, Named DEF Counters
  <2>2. Books'
    <3>1. wsState = "malformed" /\ wsState' = "skipped" /\ ring' = ring /\ refused' = refused
      BY <1>1 DEF CountMalformed, outcome
    <3>2. Balanced(Len(ring), tally.btc_ticks, tally.eth_ticks, tally.pushed, tally.received,
                   tally.parse_failures + 1, refused, "skipped")
      BY <1>0, <1>n, <3>1, BalancedSteps, Zenon DEF Books
    <3> QED  BY <2>a, <3>1, <3>2 DEF Books
  <2>3. SmokeTypeOK'
    BY <1>0, <1>1, <2>1 DEF SmokeTypeOK, CountMalformed, threads, outcome
  <2>4. ShutdownOrder'
    BY <1>0, <1>1, <1>s, <2>a DEF ShutdownOrder, Started, CountMalformed, threads, outcome
  <2> QED  BY <2>1, <2>2, <2>3, <2>4 DEF SmokeIInv, CountersOK
<1>2. CASE CountPushed
  <2>1. /\ tally' \in [Counters -> Nat] /\ tally'["pushed"] = tally["pushed"] + 1
        /\ \A c \in Counters \ {"pushed"} : tally'[c] = tally[c]
    BY <1>0, <1>2, <1>c, Bumped DEF CountPushed
  <2>a. /\ tally'.received = tally.received /\ tally'.pushed = tally.pushed + 1
        /\ tally'.parse_failures = tally.parse_failures
        /\ tally'.reconnects = tally.reconnects
        /\ tally'.btc_ticks = tally.btc_ticks /\ tally'.eth_ticks = tally.eth_ticks
    BY <1>k, <2>1, Named DEF Counters
  <2>2. Books'
    <3>1. wsState = "count" /\ wsState' = "idle" /\ ring' = ring /\ refused' = refused
      BY <1>2 DEF CountPushed, outcome
    <3>2. Balanced(Len(ring), tally.btc_ticks, tally.eth_ticks, tally.pushed + 1, tally.received,
                   tally.parse_failures, refused, "idle")
      BY <1>0, <1>n, <3>1, BalancedSteps, Zenon DEF Books
    <3> QED  BY <2>a, <3>1, <3>2 DEF Books
  <2>3. SmokeTypeOK'
    BY <1>0, <1>2, <2>1 DEF SmokeTypeOK, CountPushed, threads, outcome
  <2>4. ShutdownOrder'
    BY <1>0, <1>2, <1>s, <2>a DEF ShutdownOrder, Started, CountPushed, threads, outcome
  <2> QED  BY <2>1, <2>2, <2>3, <2>4 DEF SmokeIInv, CountersOK
<1>3. ASSUME wsState \in {"tick", "heartbeat", "skipped"}, Refuse,
             tally' \in [Counters -> Nat], baselines' \subseteq Tickers,
             \A c \in Counters \ {"gaps"} : tally'[c] = tally[c]
      PROVE  SmokeIInv'
  <2>1. /\ tally'.received = tally.received /\ tally'.pushed = tally.pushed
        /\ tally'.parse_failures = tally.parse_failures /\ tally'.reconnects = tally.reconnects
        /\ tally'.btc_ticks = tally.btc_ticks /\ tally'.eth_ticks = tally.eth_ticks
    BY <1>k, <1>3, Named DEF Counters
  <2>a. wsState' = "idle" /\ ring' = ring /\ refused' = refused + 1
    BY <1>3 DEF Refuse
  <2>b. /\ Balanced(Len(ring), tally.btc_ticks, tally.eth_ticks, tally.pushed, tally.received,
                    tally.parse_failures, refused + 1, "idle")
        /\ refused + 1 \in 0..MaxReceived
    <3>1. Balanced(Len(ring), tally.btc_ticks, tally.eth_ticks, tally.pushed, tally.received,
                   tally.parse_failures, refused, wsState)
      BY <1>0 DEF Books
    <3>2. wsState \in Refusing
      BY <1>3 DEF Refusing
    <3> QED  BY <1>n, <3>1, <3>2, BalancedRefused, Zenon
  <2>2. Books'
    BY <2>1, <2>a, <2>b DEF Books
  <2>3. refused' \in 0..MaxReceived
    BY <2>a, <2>b
  <2>4. SmokeTypeOK'
    BY <1>0, <1>3, <2>3 DEF SmokeTypeOK, Refuse, threads
  <2>5. ShutdownOrder'
    BY <1>0, <1>3, <1>s, <2>1 DEF ShutdownOrder, Started, Refuse, threads
  <2> QED  BY <1>3, <2>2, <2>4, <2>5 DEF SmokeIInv, CountersOK
<1>4. CASE HandleSkipped
  BY <1>0, <1>k, <1>3, <1>4 DEF HandleSkipped, SmokeTypeOK
<1>5. CASE HandleHeartbeat
  BY <1>3, <1>5, SeqAccepted DEF HandleHeartbeat
<1>6. CASE HandleTick
  <2>1. CASE \E accepted \in BOOLEAN : AcceptSeq(accepted) /\ Refuse
    BY <1>3, <1>6, <2>1, SeqAccepted DEF HandleTick
  <2>2. CASE /\ AcceptSeq(TRUE) /\ Len(ring) < RingSize
             /\ ring' = Append(ring, tick) /\ wsState' = "count"
             /\ UNCHANGED <<connected, tick, threads, outcome>>
    <3>1. /\ tally' \in [Counters -> Nat] /\ baselines' \subseteq Tickers
          /\ \A c \in Counters \ {"gaps"} : tally'[c] = tally[c]
      BY <2>2, SeqAccepted
    <3>2. /\ tally'.received = tally.received /\ tally'.pushed = tally.pushed
          /\ tally'.parse_failures = tally.parse_failures /\ tally'.reconnects = tally.reconnects
          /\ tally'.btc_ticks = tally.btc_ticks /\ tally'.eth_ticks = tally.eth_ticks
      BY <1>k, <3>1, Named DEF Counters
    <3>3. ring' \in Seq(Tickers) /\ Len(ring') = Len(ring) + 1 /\ Len(ring) \in Nat /\ Len(ring') <= RingSize
      BY <2>2, Numbers
    <3>4. Books'
      <4>1. wsState = "tick" /\ wsState' = "count" /\ refused' = refused
        BY <1>6, <2>2 DEF HandleTick, outcome
      <4>2. Balanced(Len(ring) + 1, tally.btc_ticks, tally.eth_ticks, tally.pushed,
                     tally.received, tally.parse_failures, refused, "count")
        BY <1>0, <1>n, <4>1, BalancedSteps, Zenon DEF Books
      <4> QED  BY <3>2, <3>3, <4>1, <4>2 DEF Books
    <3>5. SmokeTypeOK'
      BY <1>0, <2>2, <3>1, <3>3 DEF SmokeTypeOK, threads, outcome
    <3>6. ShutdownOrder'
      BY <1>0, <1>6, <1>s, <2>2, <3>2 DEF ShutdownOrder, Started, HandleTick, threads, outcome
    <3> QED  BY <3>1, <3>4, <3>5, <3>6 DEF SmokeIInv, CountersOK
  <2> QED  BY <1>6, <2>1, <2>2, Zenon DEF HandleTick
<1> QED  BY <1>1, <1>2, <1>4, <1>5, <1>6 DEF SmokeCallback

LEMMA SocketStep ==
    ASSUME SmokeIInv, SocketOpens \/ MessageArrives \/ ConnectionLost PROVE SmokeIInv'
<1>0. SmokeTypeOK /\ Books /\ ShutdownOrder /\ CountersOK
  BY DEF SmokeIInv
<1>k. tally \in [Counters -> Nat]
  BY <1>0 DEF CountersOK
<1>n. /\ tally.received \in Nat /\ tally.pushed \in Nat /\ tally.parse_failures \in Nat
      /\ tally.reconnects \in Nat /\ tally.btc_ticks \in Nat /\ tally.eth_ticks \in Nat
      /\ refused \in Nat /\ lost \in Nat /\ Len(ring) \in Nat
      /\ RingSize \in Nat /\ MaxReceived \in Nat /\ MaxDrops \in Nat
  BY Numbers
<1>c. {"received", "reconnects"} \subseteq Counters
  BY DEF Counters
<1>1. CASE SocketOpens
  BY <1>0, <1>1 DEF SocketOpens, SmokeIInv, CountersOK, SmokeTypeOK, Books, ShutdownOrder, Started, threads, outcome
<1>2. CASE MessageArrives
  <2>1. /\ tally' \in [Counters -> Nat] /\ tally'["received"] = tally["received"] + 1
        /\ \A c \in Counters \ {"received"} : tally'[c] = tally[c]
    BY <1>0, <1>2, <1>c, Bumped DEF MessageArrives
  <2>2. /\ tally'.received = tally.received + 1 /\ tally'.pushed = tally.pushed
        /\ tally'.parse_failures = tally.parse_failures /\ tally'.reconnects = tally.reconnects
        /\ tally'.btc_ticks = tally.btc_ticks /\ tally'.eth_ticks = tally.eth_ticks
    BY <1>k, <2>1, Named DEF Counters
  <2>3. Books'
    <3>1. /\ wsState = "idle" /\ tally.received < MaxReceived
          /\ wsState' \in {"malformed", "tick", "heartbeat", "skipped"}
          /\ ring' = ring /\ refused' = refused
      BY <1>2 DEF MessageArrives, outcome
    <3>2. Balanced(Len(ring), tally.btc_ticks, tally.eth_ticks, tally.pushed,
                   tally.received + 1, tally.parse_failures, refused, wsState')
      <4>1. Balanced(Len(ring), tally.btc_ticks, tally.eth_ticks, tally.pushed,
                     tally.received, tally.parse_failures, refused, "idle")
        BY <1>0, <3>1 DEF Books
      <4>2. wsState' \in Receiving /\ tally.received < MaxReceived
        BY <3>1 DEF Receiving
      <4> QED  BY <1>n, <4>1, <4>2, BalancedReceived, Zenon
    <3> QED  BY <2>2, <3>1, <3>2 DEF Books
  <2>4. SmokeTypeOK'
    BY <1>0, <1>2, <2>1 DEF SmokeTypeOK, MessageArrives, threads, outcome
  <2>5. ShutdownOrder'
    BY <1>0, <1>2, <2>2 DEF ShutdownOrder, Started, MessageArrives, threads, outcome
  <2> QED  BY <2>1, <2>3, <2>4, <2>5 DEF SmokeIInv, CountersOK
<1>3. CASE ConnectionLost
  <2>1. /\ tally' \in [Counters -> Nat] /\ tally'["reconnects"] = tally["reconnects"] + 1
        /\ \A c \in Counters \ {"reconnects"} : tally'[c] = tally[c]
    BY <1>0, <1>3, <1>c, Bumped DEF ConnectionLost, CloseOrError
  <2>2. /\ tally'.received = tally.received /\ tally'.pushed = tally.pushed
        /\ tally'.parse_failures = tally.parse_failures /\ tally'.reconnects = tally.reconnects + 1
        /\ tally'.btc_ticks = tally.btc_ticks /\ tally'.eth_ticks = tally.eth_ticks
    BY <1>k, <2>1, Named DEF Counters
  <2>3. Books'
    <3>1. wsState' = wsState /\ ring' = ring /\ refused' = refused
      BY <1>3 DEF ConnectionLost
    <3> QED  BY <1>0, <2>2, <3>1 DEF Books
  <2>a. lost' \in 0..MaxDrops
    <3>1. lost < MaxDrops /\ lost' = lost + 1
      BY <1>3 DEF ConnectionLost
    <3> QED  BY <1>n, <3>1
  <2>4. SmokeTypeOK'
    BY <1>0, <1>3, <2>1, <2>a DEF SmokeTypeOK, ConnectionLost, CloseOrError, threads
  <2>5. ShutdownOrder'
    BY <1>0, <1>3, <2>2 DEF ShutdownOrder, Started, ConnectionLost, threads
  <2> QED  BY <2>1, <2>3, <2>4, <2>5 DEF SmokeIInv, CountersOK
<1> QED  BY <1>1, <1>2, <1>3

LEMMA ConsumerStep == ASSUME SmokeIInv, SmokeConsumer PROVE SmokeIInv'
<1>0. SmokeTypeOK /\ Books /\ ShutdownOrder /\ CountersOK
  BY DEF SmokeIInv
<1>k. tally \in [Counters -> Nat]
  BY <1>0 DEF CountersOK
<1>n. /\ tally.received \in Nat /\ tally.pushed \in Nat /\ tally.parse_failures \in Nat
      /\ tally.reconnects \in Nat /\ tally.btc_ticks \in Nat /\ tally.eth_ticks \in Nat
      /\ refused \in Nat /\ lost \in Nat /\ Len(ring) \in Nat
      /\ RingSize \in Nat /\ MaxReceived \in Nat /\ MaxDrops \in Nat
  BY Numbers
<1>1. CASE ConsumerTest \/ ConsumerFindsNothing
  <2>1. /\ UNCHANGED <<socket, tally, ring, mainState, running, outcome>>
        /\ consumerState' \in {"test", "drain", "last_drain", "done"}
        /\ consumerState' = "done" => ring = << >>
        /\ consumerState' \in {"last_drain", "done"} => ~running
        /\ consumerState # "done"
    BY <1>0, <1>1, Zenon DEF ConsumerTest, ConsumerFindsNothing, ShutdownOrder
  <2>2. Books'
    BY <1>0, <2>1 DEF Books, socket, outcome
  <2>3. SmokeTypeOK'
    BY <1>0, <2>1 DEF SmokeTypeOK, socket, outcome
  <2>4. ShutdownOrder'
    BY <1>0, <2>1 DEF ShutdownOrder, Started, socket, outcome
  <2> QED  BY <1>0, <2>1, <2>2, <2>3, <2>4 DEF SmokeIInv, CountersOK
<1>2. CASE ConsumerCounts
  <2>1. PICK name \in {"btc_ticks", "eth_ticks"} : Bump(name)
    BY <1>2 DEF ConsumerCounts, TicksOf
  <2>2. /\ tally' \in [Counters -> Nat] /\ tally'[name] = tally[name] + 1
        /\ \A c \in Counters \ {name} : tally'[c] = tally[c]
    BY <1>0, <2>1, Bumped DEF Counters
  <2>3. /\ tally'.received = tally.received /\ tally'.pushed = tally.pushed
        /\ tally'.parse_failures = tally.parse_failures /\ tally'.reconnects = tally.reconnects
        /\ tally'.btc_ticks + tally'.eth_ticks = tally.btc_ticks + tally.eth_ticks + 1
    <3>1. tally["btc_ticks"] \in Nat /\ tally["eth_ticks"] \in Nat
      BY <1>k, Named
    <3>2. CASE name = "btc_ticks"
      BY <1>k, <2>2, <3>1, <3>2, Named DEF Counters
    <3>3. CASE name = "eth_ticks"
      BY <1>k, <2>2, <3>1, <3>3, Named DEF Counters
    <3> QED  BY <3>2, <3>3
  <2>4. /\ ring \in Seq(Tickers) /\ ring # << >> /\ ring' = Tail(ring)
        /\ UNCHANGED <<socket, threads, outcome>> /\ consumerState # "done"
    BY <1>0, <1>2 DEF SmokeTypeOK, ConsumerCounts
  <2>5. ring' \in Seq(Tickers) /\ Len(ring') + 1 = Len(ring) /\ Len(ring') \in Nat
    BY <2>4
  <2>a. Len(ring') <= RingSize
    BY <1>0, <2>5, Numbers DEF SmokeTypeOK
  <2>6. Books'
    <3>1. wsState' = wsState /\ refused' = refused
      BY <2>4 DEF socket, outcome
    <3>2. tally'.btc_ticks \in Nat /\ tally'.eth_ticks \in Nat
      BY <2>2, Named
    <3>3. Len(ring') + 1 = Len(ring) /\ Len(ring') \in Nat
      BY <2>5
    <3>4. Len(ring') + tally'.btc_ticks + tally'.eth_ticks = Len(ring) + tally.btc_ticks + tally.eth_ticks
      <4> DEFINE m == Len(ring')
      <4>1. m + 1 = Len(ring) /\ m \in Nat
        BY <3>3
      <4> HIDE DEF m
      <4>a. PICK n \in Nat, b \in Nat, e \in Nat, c \in Nat, f \in Nat :
               /\ n = Len(ring) /\ b = tally.btc_ticks /\ e = tally.eth_ticks
               /\ c = tally'.btc_ticks /\ f = tally'.eth_ticks
        BY <1>n, <3>2, Zenon
      <4>b. c + f = b + e + 1 /\ m + 1 = n
        BY <2>3, <4>1, <4>a, Zenon
      <4>c. m + c + f = n + b + e
        BY <4>1, <4>b
      <4>2. m + tally'.btc_ticks + tally'.eth_ticks = Len(ring) + tally.btc_ticks + tally.eth_ticks
        BY <4>a, <4>c, Zenon
      <4> QED  BY <4>2 DEF m
    <3> QED  BY <1>0, <2>3, <3>1, <3>4 DEF Books, Balanced
  <2>7. SmokeTypeOK'
    BY <1>0, <2>2, <2>4, <2>5, <2>a DEF SmokeTypeOK, socket, threads, outcome
  <2>8. ShutdownOrder'
    BY <1>0, <2>3, <2>4 DEF ShutdownOrder, Started, socket, threads, outcome
  <2> QED  BY <2>2, <2>6, <2>7, <2>8 DEF SmokeIInv, CountersOK
<1> QED  BY <1>1, <1>2 DEF SmokeConsumer

LEMMA MainStep == ASSUME SmokeIInv, SmokeMain PROVE SmokeIInv'
<1>0. SmokeTypeOK /\ Books /\ ShutdownOrder /\ CountersOK
  BY DEF SmokeIInv
<1>k. tally \in [Counters -> Nat]
  BY <1>0 DEF CountersOK
<1>n. /\ tally.received \in Nat /\ tally.pushed \in Nat /\ tally.parse_failures \in Nat
      /\ tally.reconnects \in Nat /\ tally.btc_ticks \in Nat /\ tally.eth_ticks \in Nat
      /\ refused \in Nat /\ lost \in Nat /\ Len(ring) \in Nat
      /\ RingSize \in Nat /\ MaxReceived \in Nat /\ MaxDrops \in Nat
  BY Numbers
<1>1. CASE MainAwakes \/ MainClearsRunning \/ MainPrints
  <2>1. Books'
    BY <1>0, <1>1 DEF MainAwakes, MainClearsRunning, MainPrints, Books, socket, outcome
  <2>2. SmokeTypeOK'
    BY <1>0, <1>1 DEF MainAwakes, MainClearsRunning, MainPrints, SmokeTypeOK, socket, outcome
  <2>3. CASE MainAwakes
    BY <1>0, <2>1, <2>2, <2>3 DEF MainAwakes, SmokeIInv, CountersOK, ShutdownOrder, Started, socket, outcome
  <2>4. CASE MainClearsRunning
    BY <1>0, <2>1, <2>2, <2>4 DEF MainClearsRunning, SmokeIInv, CountersOK, ShutdownOrder, Started, socket, outcome
  <2>5. CASE MainPrints
    BY <1>0, <2>1, <2>2, <2>5 DEF MainPrints, SmokeIInv, CountersOK, ShutdownOrder, Started, socket, outcome
  <2> QED  BY <1>1, <2>3, <2>4, <2>5
<1>2. CASE MainStopsSocket /\ UNCHANGED <<connected, tally, baselines>> /\ ~connected
  <2>1. Books' /\ SmokeTypeOK'
    BY <1>0, <1>2 DEF MainStopsSocket, Books, SmokeTypeOK, outcome
  <2>2. tally.reconnects - lost = 0
    BY <1>0, <1>2, Numbers DEF MainStopsSocket, ShutdownOrder, Started
  <2> QED  BY <1>0, <1>2, <2>1, <2>2 DEF MainStopsSocket, SmokeIInv, CountersOK, ShutdownOrder, Started, outcome
<1>3. CASE MainStopsSocket /\ CloseOrError
  <2>1. /\ tally' \in [Counters -> Nat] /\ tally'["reconnects"] = tally["reconnects"] + 1
        /\ \A c \in Counters \ {"reconnects"} : tally'[c] = tally[c]
    BY <1>0, <1>3, Bumped DEF CloseOrError, Counters
  <2>2. /\ tally'.received = tally.received /\ tally'.pushed = tally.pushed
        /\ tally'.parse_failures = tally.parse_failures /\ tally'.reconnects = tally.reconnects + 1
        /\ tally'.btc_ticks = tally.btc_ticks /\ tally'.eth_ticks = tally.eth_ticks
    BY <1>k, <2>1, Named DEF Counters
  <2>3. Books'
    BY <1>0, <1>3, <2>2 DEF Books, MainStopsSocket, outcome
  <2>4. SmokeTypeOK'
    BY <1>0, <1>3, <2>1 DEF SmokeTypeOK, MainStopsSocket, CloseOrError, outcome
  <2>5. ShutdownOrder'
    <3>1. tally'.reconnects - lost = 1
      BY <1>0, <1>3, <2>2, Numbers DEF MainStopsSocket, ShutdownOrder, Started
    <3> QED  BY <1>0, <1>3, <3>1 DEF ShutdownOrder, Started, MainStopsSocket, CloseOrError, outcome
  <2> QED  BY <2>1, <2>3, <2>4, <2>5 DEF SmokeIInv, CountersOK
<1> QED  BY <1>1, <1>2, <1>3 DEF SmokeMain, MainStopsSocket

\* coinbase_live_smoke, for every ring size and any number of messages and
\* reconnects: the summary is exact when main prints it.
THEOREM SummaryExact == SmokeSpec => []SummaryIsExact
<1>1. SmokeIInv /\ [SmokeNext]_smokeVars => SmokeIInv'
  <2> SUFFICES ASSUME SmokeIInv, [SmokeNext]_smokeVars PROVE SmokeIInv'
    OBVIOUS
  <2>1. CASE UNCHANGED smokeVars
    BY <2>1 DEF smokeVars, socket, threads, outcome, SmokeIInv, CountersOK, SmokeTypeOK, Books, ShutdownOrder, Started
  <2> QED  BY <2>1, CallbackStep, SocketStep, ConsumerStep, MainStep DEF SmokeNext
<1>2. SmokeIInv => SummaryIsExact
  <2> SUFFICES ASSUME SmokeIInv, mainState = "done" PROVE SummaryIsExact
    BY DEF SmokeIInv, SummaryIsExact
  <2>1. ring = << >> /\ Len(ring) = 0 /\ wsState = "idle" /\ ~connected /\ tally.reconnects - lost \in {0, 1}
    BY DEF SmokeIInv, ShutdownOrder, Started
  <2>2. /\ tally.btc_ticks + tally.eth_ticks = tally.pushed
        /\ tally.received = tally.pushed + refused
        /\ tally.parse_failures <= refused
    <3>1. Balanced(0, tally.btc_ticks, tally.eth_ticks, tally.pushed, tally.received,
                   tally.parse_failures, refused, "idle")
      BY <2>1 DEF SmokeIInv, Books
    <3> QED  BY <3>1, Numbers, BalancedAtRest, Zenon
  <2> QED  BY <2>1, <2>2 DEF SmokeIInv, SummaryIsExact
<1> QED  BY <1>1, <1>2, SmokeInitial, PTL DEF SmokeSpec

-----------------------------------------------------------------------------
(* Backoff.  As long as the ceiling is below the cap it is base * 2^n      *)
(* exactly, since half the range of a duration is free above the cap.      *)

\* A number in the upper half of the range of a duration is not wrapped.
LEMMA NoWrap ==
    ASSUME NEW n \in Nat, n < Power(2, Width - 1)
    PROVE  Wrap(n) = n
<1>1. Width - 1 \in Nat /\ (Width - 1) + 1 = Width
  BY WidthAssumption
<1>2. PICK half \in Nat : half = Power(2, Width - 1)
  <2>1. 2 \in Int /\ 2 \in Nat
    OBVIOUS
  <2>2. Power(2, Width - 1) \in Nat
    BY <1>1, <2>1, PowerType, Zenon
  <2> QED  BY <2>2, Zenon
<1>3. Power(2, Width) = 2 * half
  <2>1. Power(2, (Width - 1) + 1) = 2 * Power(2, Width - 1)
    BY <1>1, PowerStep
  <2> QED  BY <1>1, <1>2, <2>1
<1>4. (n + half) % (2 * half) = n + half
  <2>1. n + half \in Nat /\ 2 * half \in Nat \ {0} /\ n + half \in 0..(2 * half - 1)
    BY <1>2
  <2>2. n + half = (2 * half) * 0 + (n + half)
    BY <2>1
  <2> DEFINE x == n + half
             m == 2 * half
  <2>3. x \in Nat /\ m \in Nat \ {0} /\ x \in 0..(m - 1) /\ 0 \in Int /\ x = m * 0 + x
    BY <2>1, <2>2
  <2> HIDE DEF x, m
  <2>4. x % m = x
    BY <2>3, RemainderUnique
  <2> QED  BY <2>4 DEF x, m
<1> QED  BY <1>2, <1>3, <1>4 DEF Wrap

LEMMA WrapType == ASSUME NEW n \in Int PROVE Wrap(n) \in Int
<1>1. Width - 1 \in Nat /\ Width \in Nat
  BY WidthAssumption
<1>2. PICK half \in Int : half = Power(2, Width - 1)
  BY <1>1, PowerType
<1>3. PICK all \in Int : all = Power(2, Width) /\ all > 0
  BY <1>1, PowerType
<1>4. (n + half) % all \in Int
  BY <1>2, <1>3
<1> QED  BY <1>2, <1>3, <1>4 DEF Wrap

\* The loop of Ceiling, as a function of the number of doublings.
Doublings(n) ==
    CHOOSE s : s = [i \in 0..n |-> IF i = 0 THEN base
                                   ELSE IF s[i - 1] < capDelay THEN Wrap(2 * s[i - 1]) ELSE s[i - 1]]

LEMMA DoublingsExist ==
    ASSUME BackoffTypeOK, NEW n \in Nat
    PROVE  /\ Scaled(n) = Doublings(n)[n]
           /\ Doublings(n)[0] = base
           /\ \A i \in 1..n : Doublings(n)[i] =
                 IF Doublings(n)[i - 1] < capDelay THEN Wrap(2 * Doublings(n)[i - 1])
                 ELSE Doublings(n)[i - 1]
<1> DEFINE h == [i \in Nat |-> [v \in Int |-> IF v < capDelay THEN Wrap(2 * v) ELSE v]]
<1>0. base \in Int
  BY DEF BackoffTypeOK
<1>1. h \in StepsOn(Int)
  <2>1. \A v \in Int : Wrap(2 * v) \in Int
    <3> TAKE v \in Int
    <3>1. 2 * v \in Int
      OBVIOUS
    <3> QED  BY <3>1, WrapType
  <2> QED  BY <2>1 DEF StepsOn
<1>2. \A i \in Nat : \A v \in Int : h[i][v] = IF v < capDelay THEN Wrap(2 * v) ELSE v
  OBVIOUS
<1> HIDE DEF h
<1>3. PICK g \in [0..n -> Int] : g[0] = base /\ \A i \in 1..n : g[i] = h[i][g[i - 1]]
  <2>1. Solutions(Int, base, h, n) # {}
    BY <1>0, <1>1, Recursion, Zenon
  <2> QED  BY <2>1 DEF Solutions
<1>4. ASSUME NEW i \in 1..n
      PROVE  g[i] = IF g[i - 1] < capDelay THEN Wrap(2 * g[i - 1]) ELSE g[i - 1]
  <2>1. g[i - 1] \in Int /\ i \in Nat
    OBVIOUS
  <2>2. g[i] = h[i][g[i - 1]]
    BY <1>3
  <2> QED  BY <1>2, <2>1, <2>2
<1>5. g = [i \in 0..n |-> IF i = 0 THEN base
                          ELSE IF g[i - 1] < capDelay THEN Wrap(2 * g[i - 1]) ELSE g[i - 1]]
  BY <1>3, <1>4
<1> DEFINE s == Doublings(n)
<1>6. s = [i \in 0..n |-> IF i = 0 THEN base
                          ELSE IF s[i - 1] < capDelay THEN Wrap(2 * s[i - 1]) ELSE s[i - 1]]
  BY <1>5, Zenon DEF Doublings
<1>7. Scaled(n) = s[n]
  BY Zenon DEF Scaled, Doublings
<1> HIDE DEF s
<1>8. s[0] = base /\ \A i \in 1..n : s[i] = IF s[i - 1] < capDelay THEN Wrap(2 * s[i - 1]) ELSE s[i - 1]
  <2>1. 0 \in 0..n /\ \A i \in 1..n : i \in 0..n /\ i # 0
    OBVIOUS
  <2>2. s[0] = base
    BY <1>6, <2>1, Zenon
  <2>3. ASSUME NEW i \in 1..n
        PROVE  s[i] = IF s[i - 1] < capDelay THEN Wrap(2 * s[i - 1]) ELSE s[i - 1]
    BY <1>6, <2>1, Zenon
  <2> QED  BY <2>2, <2>3
<1> QED  BY <1>7, <1>8 DEF s

\* What the loop computes: base * 2^n, unless that reaches the cap.
LEMMA ScaledIs ==
    ASSUME BackoffTypeOK, NEW n \in Nat
    PROVE  /\ Scaled(n) \in Nat
           /\ base * Power(2, n) < capDelay => Scaled(n) = base * Power(2, n)
           /\ base * Power(2, n) >= capDelay => Scaled(n) >= capDelay
<1> DEFINE s == Doublings(n)
           Held(i) == /\ s[i] \in Nat
                      /\ base * Power(2, i) < capDelay => s[i] = base * Power(2, i)
                      /\ base * Power(2, i) >= capDelay => s[i] >= capDelay
           S == {i \in Nat : i <= n => Held(i)}
<1>0. /\ base \in Nat \ {0} /\ capDelay \in Nat
      /\ \A v \in Nat : v < capDelay => 2 * v < Power(2, Width - 1)
  <2>1. base \in Nat \ {0} /\ capDelay \in Nat /\ capDelay <= MaxDuration /\ MaxDuration \in Nat
        /\ MaxDuration <= Power(2, Width - 2)
    <3>1. Power(2, Width - 2) \in Nat
      <4>1. Width - 2 \in Nat
        BY WidthAssumption
      <4> QED  BY <4>1, PowerType
    <3>2. MaxDuration \in Nat /\ MaxDuration <= Power(2, Width - 2)
      BY <3>1, CapAssumption
    <3> QED  BY <3>2 DEF BackoffTypeOK
  <2>2. Power(2, Width - 1) = 2 * Power(2, Width - 2) /\ Power(2, Width - 2) \in Nat
    <3>1. Width - 2 \in Nat /\ (Width - 2) + 1 = Width - 1
      BY WidthAssumption
    <3>2. Power(2, (Width - 2) + 1) = 2 * Power(2, Width - 2)
      BY <3>1, PowerStep
    <3> QED  BY <3>1, <3>2, PowerType
  <2> QED  BY <2>1, <2>2
<1>1. /\ Scaled(n) = s[n] /\ s[0] = base
      /\ \A i \in 1..n : s[i] = IF s[i - 1] < capDelay THEN Wrap(2 * s[i - 1]) ELSE s[i - 1]
  BY DoublingsExist
<1> HIDE DEF s
<1>2. 0 \in S
  <2>1. Power(2, 0) = 1
    BY PowerZero
  <2>2. base * Power(2, 0) = base
    BY <1>0, <2>1
  <2> QED  BY <1>0, <1>1, <2>2
<1>3. ASSUME NEW i \in Nat, i \in S PROVE i + 1 \in S
  <2> SUFFICES ASSUME i + 1 <= n PROVE Held(i + 1)
    OBVIOUS
  <2>1. PICK p \in Nat : p = Power(2, i)
    BY PowerType
  <2>2. Power(2, i + 1) = 2 * p
    BY <2>1, PowerStep
  <2>3. PICK x \in Nat : x = base * p
    BY <1>0, <2>1
  <2>4. base * (2 * p) = 2 * x
    BY <1>0, <2>1, <2>3
  <2>5. PICK v \in Nat : v = s[i] /\ (x < capDelay => v = x) /\ (x >= capDelay => v >= capDelay)
    BY <1>3, <2>1, <2>3
  <2>6. s[i + 1] = IF v < capDelay THEN Wrap(2 * v) ELSE v
    <3>1. i + 1 \in 1..n /\ (i + 1) - 1 = i
      OBVIOUS
    <3> QED  BY <1>1, <2>5, <3>1
  <2>7. v < capDelay => Wrap(2 * v) = 2 * v
    <3> SUFFICES ASSUME v < capDelay PROVE Wrap(2 * v) = 2 * v
      OBVIOUS
    <3>1. 2 * v \in Nat /\ 2 * v < Power(2, Width - 1)
      BY <1>0, <2>5
    <3> QED  BY <3>1, NoWrap
  <2>8. /\ s[i + 1] \in Nat
        /\ 2 * x < capDelay => s[i + 1] = 2 * x
        /\ 2 * x >= capDelay => s[i + 1] >= capDelay
    BY <1>0, <2>3, <2>5, <2>6, <2>7
  <2>9. base * Power(2, i + 1) = 2 * x
    BY <2>2, <2>4
  <2> QED  BY <2>8, <2>9
<1> HIDE DEF S
<1>4. n \in S
  BY <1>2, <1>3, Induct, Zenon
<1> QED  BY <1>1, <1>4 DEF S

\* Ceiling(n) is the smaller of base * 2^n and the cap.
LEMMA CeilingIs ==
    ASSUME BackoffTypeOK, NEW n \in Nat
    PROVE  Ceiling(n) = IF base * Power(2, n) < capDelay THEN base * Power(2, n) ELSE capDelay
<1>0. base \in Nat /\ capDelay \in Nat /\ base <= capDelay
  <2>1. MaxDuration \in Int
    <3>1. Power(2, Width - 2) \in Int
      <4>1. Width - 2 \in Nat
        BY WidthAssumption
      <4> QED  BY <4>1, PowerType
    <3> QED  BY <3>1, CapAssumption
  <2> QED  BY <2>1 DEF BackoffTypeOK
<1>1. CASE n = 0
  <2>1. base * Power(2, 0) = base
    BY <1>0, PowerZero
  <2> QED  BY <1>0, <1>1, <2>1 DEF Ceiling
<1>2. CASE n > 0
  <2>1. PICK x \in Int : x = base * Power(2, n)
    BY <1>0, PowerType
  <2>2. /\ Scaled(n) \in Nat
        /\ x < capDelay => Scaled(n) = x
        /\ x >= capDelay => Scaled(n) >= capDelay
    BY <2>1, ScaledIs
  <2>3. Ceiling(n) = IF Scaled(n) < capDelay THEN Scaled(n) ELSE capDelay
    BY <1>2 DEF Ceiling
  <2>4. Ceiling(n) = IF x < capDelay THEN x ELSE capDelay
    <3>1. CASE x < capDelay
      BY <2>2, <2>3, <3>1
    <3>2. CASE x >= capDelay
      <4>1. ~(Scaled(n) < capDelay) /\ ~(x < capDelay)
        BY <1>0, <2>2, <3>2
      <4> QED  BY <2>3, <4>1
    <3> QED  BY <1>0, <3>1, <3>2
  <2> QED  BY <2>1, <2>4, Zenon
<1>3. n = 0 \/ n > 0
  OBVIOUS
<1> QED  BY <1>1, <1>2, <1>3, Zenon

\* Backoff.Delay, for durations of any width and any base, cap and attempt: it is
\* drawn from 0 to the smaller of base * 2^attempt and the cap, computed without wrap.
THEOREM CeilingExact == BackoffSpec => []CeilingIsCappedPower
<1>0. MaxDuration \in Nat \ {0}
  <2>1. Power(2, Width - 2) \in Int
    <3>1. Width - 2 \in Nat
      BY WidthAssumption
    <3> QED  BY <3>1, PowerType
  <2> QED  BY <2>1, CapAssumption
<1>1. BackoffInit => BackoffTypeOK
  <2> SUFFICES ASSUME NEW b \in (-1)..MaxDuration, NEW c \in (-1)..MaxDuration, NewBackoff(b, c),
                      attempt = 0, delay = 0
               PROVE  BackoffTypeOK
    BY DEF BackoffInit
  <2>1. base \in 1..MaxDuration /\ capDelay \in base..MaxDuration
    BY <1>0 DEF NewBackoff, Millisecond
  <2> QED  BY <1>0, <2>1, WidthAssumption DEF BackoffTypeOK
<1>2. BackoffTypeOK /\ [BackoffNext]_backoffVars => BackoffTypeOK'
  <2> SUFFICES ASSUME BackoffTypeOK, [BackoffNext]_backoffVars PROVE BackoffTypeOK'
    OBVIOUS
  <2>1. CASE UNCHANGED backoffVars
    BY <2>1 DEF backoffVars, BackoffTypeOK
  <2>2. ASSUME NEW n \in 0..MaxAttempt, Delay(n) PROVE BackoffTypeOK'
    <3>1. /\ attempt' = n /\ base' = base /\ capDelay' = capDelay
          /\ delay' \in IF Ceiling(n) <= 0 THEN {0} ELSE 0..Ceiling(n)
      BY <2>2 DEF Delay
    <3>2. base \in Int /\ capDelay \in Nat /\ n \in Nat
      BY <1>0 DEF BackoffTypeOK
    <3>3. PICK x \in Int : x = base * Power(2, n)
      BY <3>2, PowerType
    <3>4. Ceiling(n) = IF x < capDelay THEN x ELSE capDelay
      BY <3>2, <3>3, CeilingIs
    <3>5. delay' \in 0..capDelay
      BY <3>1, <3>2, <3>3, <3>4
    <3> QED  BY <3>1, <3>5 DEF BackoffTypeOK
  <2> QED  BY <2>1, <2>2 DEF BackoffNext
<1>3. BackoffTypeOK => CeilingIsCappedPower
  <2> SUFFICES ASSUME BackoffTypeOK PROVE CeilingIsCappedPower
    OBVIOUS
  <2>1. attempt \in Nat
    BY DEF BackoffTypeOK
  <2> QED  BY <2>1, CeilingIs DEF CeilingIsCappedPower
<1> QED  BY <1>1, <1>2, <1>3, PTL DEF BackoffSpec
=============================================================================
