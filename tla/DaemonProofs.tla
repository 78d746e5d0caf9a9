---------------------------- MODULE DaemonProofs ----------------------------
(***************************************************************************)
(* The daemon's threads lose nothing between them and publish honest       *)
(* counters, for every ring capacity, number of layers, frames and drops.  *)
(***************************************************************************)
EXTENDS Daemon, TLAPS

\* How far main has come tells which threads are gone.
Joined ==
    /\ mpc # "run" => ~g_running
    /\ mpc \notin {"run", "stop"} => wpc = "stopped"
    /\ mpc \in {"joinStats", "write", "done", "doneUnwritten"} => cpc = "exited"
    /\ mpc \in {"write", "done", "doneUnwritten"} => spc = "exited"

\* While the consumer raises alerts, one is still to be raised.
PendingInv == cpc \in {"alert", "line"} => pending >= 1

\* stats.json never runs ahead of the counters nor of a write_stats under way;
\* main's own call finds the counters at rest.
SnapshotInv ==
    /\ \A c \in Reported : stats[c] <= counters[c]
    /\ spc = "write" \/ mpc = "write" =>
          \A c \in Reported : stats[c] <= begun[c] /\ begun[c] <= counters[c]
    /\ mpc = "write" => begun = Current
    /\ mpc = "done" => stats = Current

IInv ==
    /\ TypeOK
    /\ Joined
    /\ PendingInv
    /\ TicksConserved
    /\ AlertsMatchLines
    /\ ReconnectsAreDrops
    /\ SnapshotInv

LEMMA ReportedNames == Reported \subseteq Names
BY DaemonAssumption DEF Names

LEMMA InitInv == Init => IInv
<1> SUFFICES ASSUME Init PROVE IInv
  OBVIOUS
<1>1. counters \in [Names -> Nat] /\ \A c \in Names : counters[c] = 0
  BY DEF Init, Zero
<1>a. begun \in [Reported -> Nat] /\ stats \in [Reported -> Nat]
  BY DEF Init, NoneYet
<1>b. 0 \in 0..RingCapacity /\ 0 \in 0..Layers /\ 0 \in 0..MaxDrops /\ 0 \in Nat
  BY DaemonAssumption
<1>2. TypeOK
  BY <1>1, <1>a, <1>b, Zenon DEF Init, TypeOK
<1>3. Joined /\ PendingInv
  BY DEF Init, Joined, PendingInv
<1>4. TicksConserved /\ AlertsMatchLines /\ ReconnectsAreDrops
  BY <1>1 DEF Init, Names, TicksConserved, AlertsMatchLines, ReconnectsAreDrops, Owed
<1>5. SnapshotInv
  BY <1>1, ReportedNames DEF Init, SnapshotInv, NoneYet
<1> QED
  BY <1>2, <1>3, <1>4, <1>5 DEF IInv

\* fetch_add: the counters named go up by one, the others stay.
LEMMA Counting ==
    ASSUME counters \in [Names -> Nat], NEW S, Count(S)
    PROVE  /\ counters' \in [Names -> Nat]
           /\ \A c \in Names : counters[c] <= counters'[c]
           /\ \A c \in Names \cap S : counters'[c] = counters[c] + 1
           /\ \A c \in Names \ S : counters'[c] = counters[c]
BY DEF Count

\* Steps of the WebSocket and the consumer thread: they only add to counters,
\* and write_stats and main's progress are left alone.  Once main has joined
\* both, there are none.
LEMMA SnapshotKept ==
    ASSUME TypeOK, SnapshotInv,
           \A c \in Names : counters[c] <= counters'[c],
           counters' \in [Names -> Nat],
           UNCHANGED <<spc, mpc, begun, stats>>,
           mpc \in {"write", "done"} => UNCHANGED counters
    PROVE  SnapshotInv'
<1>1. \A c \in Reported : /\ counters[c] \in Nat /\ counters'[c] \in Nat
                          /\ counters[c] <= counters'[c]
  BY ReportedNames DEF TypeOK
<1>2. \A c \in Reported : stats[c] \in Nat /\ begun[c] \in Nat
  BY DEF TypeOK
<1>3. mpc \in {"write", "done"} => Current' = Current
  BY DEF Current
<1>4. (\A c \in Reported : stats[c] <= counters[c])'
  BY <1>1, <1>2 DEF SnapshotInv
<1>5. (spc = "write" \/ mpc = "write" =>
          \A c \in Reported : stats[c] <= begun[c] /\ begun[c] <= counters[c])'
  BY <1>1, <1>2 DEF SnapshotInv
<1>6. (mpc = "write" => begun = Current)' /\ (mpc = "done" => stats = Current)'
  BY <1>3 DEF SnapshotInv
<1> QED
  BY <1>4, <1>5, <1>6 DEF SnapshotInv

LEMMA WsStep == IInv /\ WsThread => IInv'
<1> SUFFICES ASSUME IInv, WsThread PROVE IInv'
  OBVIOUS
<1> USE DEF WsUnchanged, consumerVars, statsVars
<1>0. counters \in [Names -> Nat]
  BY DEF IInv, TypeOK
<1>t. \A c \in Names : counters[c] \in Nat
  BY <1>0
<1>1. UNCHANGED <<g_running, cpc, pending, spc, mpc, begun, stats>>
  BY DEF WsThread, WsReceive, WsMalformed, WsGapCount, WsGapLine, WsPush, WsRingFull,
         WsCountPush, WsDrop
<1>2. wpc # "stopped" /\ mpc \in {"run", "stop"}
  BY DEF WsThread, WsReceive, WsMalformed, WsGapCount, WsGapLine, WsPush, WsRingFull,
         WsCountPush, WsDrop, IInv, Joined, TypeOK
<1>3. counters' \in [Names -> Nat] /\ \A c \in Names : counters[c] <= counters'[c]
  <2>1. (\E S \in SUBSET Names : Count(S)) \/ UNCHANGED counters
    BY DEF WsThread, WsReceive, WsMalformed, WsGapCount, WsGapLine, WsPush, WsRingFull,
           WsCountPush, WsDrop, CloseCallback, Names
  <2>2. CASE UNCHANGED counters
    BY <1>0, <1>t, <2>2
  <2>3. CASE \E S \in SUBSET Names : Count(S)
    <3>1. PICK S \in SUBSET Names : Count(S)
      BY <2>3
    <3> QED
      BY <1>0, <3>1, Counting
  <2> QED
    BY <2>1, <2>2, <2>3
<1>4. Joined' /\ PendingInv'
  BY <1>1, <1>2 DEF IInv, Joined, PendingInv
<1>5. SnapshotInv'
  BY <1>1, <1>2, <1>3, SnapshotKept DEF IInv
<1>6. ASSUME NEW next \in {"idle", "malformed", "gap", "push"}, NEW t \in BOOLEAN,
             WsReceive(next, t)
      PROVE  TypeOK' /\ TicksConserved' /\ AlertsMatchLines' /\ ReconnectsAreDrops'
  <2>1. \A c \in Names \ {"received"} : counters'[c] = counters[c]
    BY <1>0, <1>6, Counting DEF WsReceive
  <2>2. TypeOK'
    BY <1>1, <1>3, <1>6 DEF IInv, TypeOK, WsReceive
  <2>3. TicksConserved' /\ AlertsMatchLines' /\ ReconnectsAreDrops'
    BY <1>1, <1>6, <2>1
       DEF IInv, WsReceive, TicksConserved, AlertsMatchLines, ReconnectsAreDrops, Owed, Names
  <2> QED
    BY <2>2, <2>3
<1>7. CASE WsMalformed
  <2>1. \A c \in Names \ {"parse_failures"} : counters'[c] = counters[c]
    BY <1>0, <1>7, Counting DEF WsMalformed
  <2>2. TypeOK'
    BY <1>1, <1>3, <1>7 DEF IInv, TypeOK, WsMalformed
  <2>3. TicksConserved' /\ AlertsMatchLines' /\ ReconnectsAreDrops'
    BY <1>1, <1>7, <2>1
       DEF IInv, WsMalformed, TicksConserved, AlertsMatchLines, ReconnectsAreDrops, Owed, Names
  <2> QED
    BY <1>4, <1>5, <2>2, <2>3 DEF IInv
<1>8. CASE WsGapCount
  <2>1. /\ \A c \in Names \ {"gaps", "alerts"} : counters'[c] = counters[c]
        /\ counters'["alerts"] = counters["alerts"] + 1
    BY <1>0, <1>8, Counting DEF WsGapCount, Names
  <2>2. TypeOK'
    BY <1>1, <1>3, <1>8 DEF IInv, TypeOK, WsGapCount
  <2>3. TicksConserved' /\ AlertsMatchLines' /\ ReconnectsAreDrops'
    BY <1>1, <1>t, <1>8, <2>1
       DEF IInv, TypeOK, WsGapCount, TicksConserved, AlertsMatchLines, ReconnectsAreDrops,
           Owed, Names
  <2> QED
    BY <1>4, <1>5, <2>2, <2>3 DEF IInv
<1>9. CASE WsGapLine
  <2>2. TypeOK'
    BY <1>1, <1>3, <1>9 DEF IInv, TypeOK, WsGapLine
  <2>3. TicksConserved' /\ AlertsMatchLines' /\ ReconnectsAreDrops'
    BY <1>1, <1>t, <1>9
       DEF IInv, TypeOK, WsGapLine, TicksConserved, AlertsMatchLines, ReconnectsAreDrops,
           Owed, Names
  <2> QED
    BY <1>4, <1>5, <2>2, <2>3 DEF IInv
<1>10. CASE WsPush
  <2>2. TypeOK'
    BY <1>1, <1>3, <1>10, DaemonAssumption DEF IInv, TypeOK, WsPush
  <2>3. TicksConserved' /\ AlertsMatchLines' /\ ReconnectsAreDrops'
    BY <1>1, <1>t, <1>10
       DEF IInv, TypeOK, WsPush, TicksConserved, AlertsMatchLines, ReconnectsAreDrops,
           Owed, Names
  <2> QED
    BY <1>4, <1>5, <2>2, <2>3 DEF IInv
<1>11. CASE WsRingFull
  <2>2. TypeOK'
    BY <1>1, <1>3, <1>11 DEF IInv, TypeOK, WsRingFull
  <2>3. TicksConserved' /\ AlertsMatchLines' /\ ReconnectsAreDrops'
    BY <1>1, <1>11
       DEF IInv, WsRingFull, TicksConserved, AlertsMatchLines, ReconnectsAreDrops, Owed
  <2> QED
    BY <1>4, <1>5, <2>2, <2>3 DEF IInv
<1>12. CASE WsCountPush
  <2>1. /\ \A c \in Names \ {"pushed"} : counters'[c] = counters[c]
        /\ counters'["pushed"] = counters["pushed"] + 1
    BY <1>0, <1>12, Counting DEF WsCountPush, Names
  <2>2. TypeOK'
    BY <1>1, <1>3, <1>12 DEF IInv, TypeOK, WsCountPush
  <2>3. TicksConserved' /\ AlertsMatchLines' /\ ReconnectsAreDrops'
    BY <1>1, <1>t, <1>12, <2>1
       DEF IInv, TypeOK, WsCountPush, TicksConserved, AlertsMatchLines, ReconnectsAreDrops,
           Owed, Names
  <2> QED
    BY <1>4, <1>5, <2>2, <2>3 DEF IInv
<1>13. CASE WsDrop
  <2>1. /\ \A c \in Names \ {"reconnects"} : counters'[c] = counters[c]
        /\ counters'["reconnects"] <= counters["reconnects"] + 1
    <3>1. CASE Count({"reconnects"})
      BY <1>0, <1>t, <3>1, Counting DEF Names
    <3>2. CASE UNCHANGED counters
      BY <1>t, <3>2 DEF Names
    <3> QED
      BY <1>13, <3>1, <3>2 DEF WsDrop, CloseCallback
  <2>2. TypeOK'
    BY <1>1, <1>3, <1>13, DaemonAssumption DEF IInv, TypeOK, WsDrop
  <2>3. TicksConserved' /\ AlertsMatchLines'
    BY <1>1, <1>t, <1>13, <2>1
       DEF IInv, TypeOK, WsDrop, TicksConserved, AlertsMatchLines, Owed, Names
  <2>4. ReconnectsAreDrops'
    BY <1>3, <1>t, <1>13, <2>1 DEF IInv, TypeOK, WsDrop, ReconnectsAreDrops, Names
  <2> QED
    BY <1>4, <1>5, <2>2, <2>3, <2>4 DEF IInv
<1>14. CASE \E next \in {"idle", "malformed", "gap", "push"}, t \in BOOLEAN : WsReceive(next, t)
  BY <1>4, <1>5, <1>6, <1>14 DEF IInv
<1> QED
  BY <1>7, <1>8, <1>9, <1>10, <1>11, <1>12, <1>13, <1>14 DEF WsThread

LEMMA ConsumerStep == IInv /\ Consumer => IInv'
<1> SUFFICES ASSUME IInv, Consumer PROVE IInv'
  OBVIOUS
<1> USE DEF ConsumerUnchanged, wsVars, statsVars
<1>0. counters \in [Names -> Nat]
  BY DEF IInv, TypeOK
<1>t. \A c \in Names : counters[c] \in Nat
  BY <1>0
<1>1. UNCHANGED <<g_running, wpc, tick, drops, spc, mpc, begun, stats>>
  BY DEF Consumer, ConsumerCheck, ConsumerPop, ConsumerEmpty, ConsumerProcess,
         ConsumerAlert, ConsumerLine
<1>2. cpc # "exited" /\ mpc \in {"run", "stop", "joinConsumer"}
  BY DEF Consumer, ConsumerCheck, ConsumerPop, ConsumerEmpty, ConsumerProcess,
         ConsumerAlert, ConsumerLine, IInv, Joined, TypeOK
<1>3. counters' \in [Names -> Nat] /\ \A c \in Names : counters[c] <= counters'[c]
  <2>1. (\E S \in SUBSET Names : Count(S)) \/ UNCHANGED counters
    BY DEF Consumer, ConsumerCheck, ConsumerPop, ConsumerEmpty, ConsumerProcess,
           ConsumerAlert, ConsumerLine, Names
  <2>2. CASE UNCHANGED counters
    BY <1>0, <1>t, <2>2
  <2>3. CASE \E S \in SUBSET Names : Count(S)
    <3>1. PICK S \in SUBSET Names : Count(S)
      BY <2>3
    <3> QED
      BY <1>0, <3>1, Counting
  <2> QED
    BY <2>1, <2>2, <2>3
<1>4. Joined'
  BY <1>1, <1>2 DEF IInv, Joined
<1>5. SnapshotInv'
  BY <1>1, <1>2, <1>3, SnapshotKept DEF IInv
<1>6. CASE ConsumerCheck \/ ConsumerEmpty
  <2>1. TypeOK' /\ PendingInv'
    BY <1>1, <1>3, <1>6 DEF IInv, TypeOK, PendingInv, ConsumerCheck, ConsumerEmpty
  <2>2. TicksConserved' /\ AlertsMatchLines' /\ ReconnectsAreDrops'
    BY <1>1, <1>6
       DEF IInv, ConsumerCheck, ConsumerEmpty, TicksConserved, AlertsMatchLines,
           ReconnectsAreDrops, Owed
  <2> QED
    BY <1>4, <1>5, <2>1, <2>2 DEF IInv
<1>7. CASE \E n \in 0..Layers : ConsumerPop(n)
  <2>0. PICK n \in 0..Layers : ConsumerPop(n)
    BY <1>7
  <2>1. TypeOK' /\ PendingInv'
    BY <1>1, <1>3, <2>0, DaemonAssumption DEF IInv, TypeOK, PendingInv, ConsumerPop
  <2>2. TicksConserved' /\ AlertsMatchLines' /\ ReconnectsAreDrops'
    BY <1>1, <1>t, <2>0
       DEF IInv, TypeOK, ConsumerPop, TicksConserved, AlertsMatchLines, ReconnectsAreDrops,
           Owed, Names
  <2> QED
    BY <1>4, <1>5, <2>1, <2>2 DEF IInv
<1>8. CASE ConsumerProcess
  <2>0. /\ \A c \in Names \ {"processed"} : counters'[c] = counters[c]
        /\ counters'["processed"] = counters["processed"] + 1
    BY <1>0, <1>8, Counting DEF ConsumerProcess, Names
  <2>1. TypeOK' /\ PendingInv'
    BY <1>1, <1>3, <1>8, DaemonAssumption DEF IInv, TypeOK, PendingInv, ConsumerProcess
  <2>2. TicksConserved' /\ AlertsMatchLines' /\ ReconnectsAreDrops'
    BY <1>1, <1>t, <1>8, <2>0
       DEF IInv, TypeOK, ConsumerProcess, TicksConserved, AlertsMatchLines,
           ReconnectsAreDrops, Owed, Names
  <2> QED
    BY <1>4, <1>5, <2>1, <2>2 DEF IInv
<1>9. CASE ConsumerAlert
  <2>0. /\ \A c \in Names \ {"alerts"} : counters'[c] = counters[c]
        /\ counters'["alerts"] = counters["alerts"] + 1
    BY <1>0, <1>9, Counting DEF ConsumerAlert, Names
  <2>1. TypeOK' /\ PendingInv'
    BY <1>1, <1>3, <1>9 DEF IInv, TypeOK, PendingInv, ConsumerAlert
  <2>2. TicksConserved' /\ AlertsMatchLines' /\ ReconnectsAreDrops'
    BY <1>1, <1>t, <1>9, <2>0
       DEF IInv, TypeOK, ConsumerAlert, TicksConserved, AlertsMatchLines,
           ReconnectsAreDrops, Owed, Names
  <2> QED
    BY <1>4, <1>5, <2>1, <2>2 DEF IInv
<1>10. CASE ConsumerLine
  <2>1. TypeOK' /\ PendingInv'
    BY <1>1, <1>3, <1>10, DaemonAssumption DEF IInv, TypeOK, PendingInv, ConsumerLine
  <2>2. TicksConserved' /\ AlertsMatchLines' /\ ReconnectsAreDrops'
    BY <1>1, <1>t, <1>10
       DEF IInv, TypeOK, ConsumerLine, TicksConserved, AlertsMatchLines,
           ReconnectsAreDrops, Owed, Names
  <2> QED
    BY <1>4, <1>5, <2>1, <2>2 DEF IInv
<1> QED
  BY <1>6, <1>7, <1>8, <1>9, <1>10 DEF Consumer

\* What write_stats prints lies between what it found and what there is.
LEMMA PrintedBetween ==
    ASSUME TypeOK, NEW f \in Printed
    PROVE  /\ f \in [Reported -> Nat]
           /\ \A c \in Reported : begun[c] <= f[c] /\ f[c] <= counters[c]
<1>1. \A c \in Reported : begun[c] \in Nat /\ counters[c] \in Nat
  BY ReportedNames DEF TypeOK
<1>2. \A c \in Reported : f[c] \in begun[c]..counters[c]
  BY DEF Printed
<1>3. f = [c \in Reported |-> f[c]]
  BY DEF Printed
<1>4. \A c \in Reported : f[c] \in Nat /\ begun[c] <= f[c] /\ f[c] <= counters[c]
  BY <1>1, <1>2
<1> QED
  BY <1>3, <1>4

\* Steps of the stats thread and of main, but for ws.stop(): the threads that
\* count are left alone.
LEMMA CountsKept ==
    ASSUME IInv, StatsUnchanged
    PROVE  /\ PendingInv' /\ TicksConserved' /\ AlertsMatchLines' /\ ReconnectsAreDrops'
           /\ Current' = Current
<1> USE DEF StatsUnchanged, wsVars, consumerVars
<1>1. PendingInv' /\ TicksConserved' /\ AlertsMatchLines' /\ ReconnectsAreDrops'
  BY DEF IInv, PendingInv, TicksConserved, AlertsMatchLines, ReconnectsAreDrops, Owed
<1>2. Current' = Current
  BY DEF Current
<1> QED
  BY <1>1, <1>2

LEMMA StatsStep == IInv /\ Stats => IInv'
<1> SUFFICES ASSUME IInv, Stats PROVE IInv'
  OBVIOUS
<1>0. StatsUnchanged /\ UNCHANGED mpc /\ spc # "exited"
  BY DEF Stats, StatsCheck, StatsWrite, StatsSkip
<1>1. PendingInv' /\ TicksConserved' /\ AlertsMatchLines' /\ ReconnectsAreDrops'
      /\ Current' = Current
  BY <1>0, CountsKept
<1>2. Joined' /\ mpc \notin {"write", "done"}
  BY <1>0 DEF IInv, Joined, StatsUnchanged, wsVars, consumerVars
<1>3. \A c \in Reported : counters[c] \in Nat /\ stats[c] \in Nat
  BY ReportedNames DEF IInv, TypeOK
<1>4. Current \in [Reported -> Nat] /\ \A c \in Reported : Current[c] = counters[c]
  BY <1>3 DEF Current
<1>5. NoneYet \in [Reported -> Nat]
  BY DEF NoneYet
<1>6. counters' = counters
  BY <1>0 DEF StatsUnchanged
<1>7. CASE StatsCheck
  <2>1. TypeOK'
    BY <1>0, <1>4, <1>7 DEF IInv, TypeOK, StatsCheck, StatsUnchanged, wsVars, consumerVars
  <2>2. SnapshotInv'
    BY <1>0, <1>2, <1>3, <1>4, <1>6, <1>7 DEF IInv, SnapshotInv, StatsCheck
  <2> QED
    BY <1>1, <1>2, <2>1, <2>2 DEF IInv
<1>8. CASE StatsWrite
  <2>0. /\ stats' \in [Reported -> Nat]
        /\ \A c \in Reported : stats'[c] <= counters[c]
    BY <1>8, PrintedBetween DEF IInv, StatsWrite
  <2>1. TypeOK'
    BY <1>0, <1>5, <1>8, <2>0 DEF IInv, TypeOK, StatsWrite, StatsUnchanged, wsVars, consumerVars
  <2>2. SnapshotInv'
    BY <1>0, <1>2, <1>6, <1>8, <2>0 DEF IInv, SnapshotInv, StatsWrite
  <2> QED
    BY <1>1, <1>2, <2>1, <2>2 DEF IInv
<1>9. CASE StatsSkip
  <2>1. TypeOK'
    BY <1>0, <1>5, <1>9 DEF IInv, TypeOK, StatsSkip, StatsUnchanged, wsVars, consumerVars
  <2>2. SnapshotInv'
    BY <1>0, <1>2, <1>6, <1>9 DEF IInv, SnapshotInv, StatsSkip
  <2> QED
    BY <1>1, <1>2, <2>1, <2>2 DEF IInv
<1> QED
  BY <1>7, <1>8, <1>9 DEF Stats

LEMMA MainStep == IInv /\ Main => IInv'
<1> SUFFICES ASSUME IInv, Main PROVE IInv'
  OBVIOUS
<1> USE DEF statsVars
<1>3. \A c \in Reported : counters[c] \in Nat /\ stats[c] \in Nat
  BY ReportedNames DEF IInv, TypeOK
<1>4. Current \in [Reported -> Nat] /\ \A c \in Reported : Current[c] = counters[c]
  BY <1>3 DEF Current
<1>5. NoneYet \in [Reported -> Nat]
  BY DEF NoneYet
<1>6. CASE MainStops
  <2>1. ~g_running /\ UNCHANGED counters
    BY <1>6 DEF IInv, Joined, MainStops, CloseCallback
  <2>2. TypeOK' /\ Joined' /\ PendingInv'
    BY <1>6, <2>1 DEF IInv, TypeOK, Joined, PendingInv, MainStops, consumerVars
  <2>3. TicksConserved' /\ AlertsMatchLines' /\ ReconnectsAreDrops'
    BY <1>6, <2>1
       DEF IInv, MainStops, TicksConserved, AlertsMatchLines, ReconnectsAreDrops, Owed, consumerVars
  <2>4. SnapshotInv'
    BY <1>6, <2>1 DEF IInv, SnapshotInv, MainStops, consumerVars
  <2> QED
    BY <2>2, <2>3, <2>4 DEF IInv
<1>7. ASSUME StatsUnchanged, UNCHANGED spc
      PROVE  /\ PendingInv' /\ TicksConserved' /\ AlertsMatchLines' /\ ReconnectsAreDrops'
             /\ Current' = Current /\ counters' = counters
  BY <1>7, CountsKept DEF StatsUnchanged
<1>8. CASE MainWakes \/ MainJoinsConsumer
  <2>1. TypeOK' /\ Joined'
    BY <1>8 DEF IInv, TypeOK, Joined, MainWakes, MainJoinsConsumer, StatsUnchanged, wsVars,
                consumerVars
  <2>2. SnapshotInv'
    BY <1>7, <1>8 DEF IInv, SnapshotInv, MainWakes, MainJoinsConsumer
  <2> QED
    BY <1>7, <1>8, <2>1, <2>2 DEF IInv, MainWakes, MainJoinsConsumer
<1>9. CASE MainJoinsStats
  <2>1. TypeOK' /\ Joined'
    BY <1>4, <1>9 DEF IInv, TypeOK, Joined, MainJoinsStats, StatsUnchanged, wsVars, consumerVars
  <2>2. SnapshotInv'
    BY <1>3, <1>4, <1>7, <1>9 DEF IInv, SnapshotInv, MainJoinsStats
  <2> QED
    BY <1>7, <1>9, <2>1, <2>2 DEF IInv, MainJoinsStats
<1>10. CASE MainWrites
  <2>0. /\ stats' \in [Reported -> Nat]
        /\ \A c \in Reported : begun[c] <= stats'[c] /\ stats'[c] <= counters[c]
    BY <1>10, PrintedBetween DEF IInv, MainWrites
  <2>1. TypeOK' /\ Joined'
    BY <1>5, <1>10, <2>0
       DEF IInv, TypeOK, Joined, MainWrites, StatsUnchanged, wsVars, consumerVars
  <2>2. stats' = Current
    <3>1. \A c \in Reported : begun[c] = counters[c]
      BY <1>4, <1>10 DEF IInv, SnapshotInv, MainWrites
    <3>2. \A c \in Reported : stats'[c] = counters[c]
      BY <1>3, <2>0, <3>1
    <3> QED
      BY <2>0, <3>2 DEF Current
  <2>3. spc = "exited"
    BY <1>10 DEF IInv, Joined, MainWrites
  <2>4. SnapshotInv'
    BY <1>7, <1>10, <2>0, <2>2, <2>3 DEF SnapshotInv, MainWrites
  <2> QED
    BY <1>7, <1>10, <2>1, <2>4 DEF IInv, MainWrites
<1>11. CASE MainSkipsWrite
  <2>1. TypeOK' /\ Joined'
    BY <1>5, <1>11
       DEF IInv, TypeOK, Joined, MainSkipsWrite, StatsUnchanged, wsVars, consumerVars
  <2>2. SnapshotInv'
    BY <1>7, <1>11 DEF IInv, Joined, SnapshotInv, MainSkipsWrite
  <2> QED
    BY <1>7, <1>11, <2>1, <2>2 DEF IInv, MainSkipsWrite
<1> QED
  BY <1>6, <1>8, <1>9, <1>10, <1>11 DEF Main

LEMMA NextInv == IInv /\ [Next]_vars => IInv'
<1> SUFFICES ASSUME IInv, [Next]_vars PROVE IInv'
  OBVIOUS
<1>1. CASE Signal
  <2> USE DEF Signal, wsVars, consumerVars, statsVars
  <2>1. TypeOK' /\ Joined' /\ PendingInv'
    BY <1>1 DEF IInv, TypeOK, Joined, PendingInv
  <2>2. TicksConserved' /\ AlertsMatchLines' /\ ReconnectsAreDrops'
    BY <1>1 DEF IInv, TicksConserved, AlertsMatchLines, ReconnectsAreDrops, Owed
  <2>3. SnapshotInv'
    BY <1>1 DEF IInv, SnapshotInv, Current
  <2> QED
    BY <2>1, <2>2, <2>3 DEF IInv
<1>2. CASE UNCHANGED vars
  <2> USE DEF vars, wsVars, consumerVars, statsVars
  <2>1. TypeOK' /\ Joined' /\ PendingInv'
    BY <1>2 DEF IInv, TypeOK, Joined, PendingInv
  <2>2. TicksConserved' /\ AlertsMatchLines' /\ ReconnectsAreDrops'
    BY <1>2 DEF IInv, TicksConserved, AlertsMatchLines, ReconnectsAreDrops, Owed
  <2>3. SnapshotInv'
    BY <1>2 DEF IInv, SnapshotInv, Current
  <2> QED
    BY <2>1, <2>2, <2>3 DEF IInv
<1> QED
  BY <1>1, <1>2, WsStep, ConsumerStep, StatsStep, MainStep DEF Next

LEMMA Invariance == Spec => []IInv
BY InitInv, NextInv, PTL DEF Spec

\* Between the socket, the ring, the layers and alerts.jsonl nothing is lost or
\* counted twice, whatever the interleaving of the WebSocket thread's callback
\* and the consumer thread.
THEOREM Conservation == Spec => [](TypeOK /\ TicksConserved /\ AlertsMatchLines)
<1>1. IInv => TypeOK /\ TicksConserved /\ AlertsMatchLines
  BY DEF IInv
<1> QED
  BY <1>1, Invariance, PTL

\* The final write_stats is alone and exact: main's joins leave it no company.
THEOREM CleanShutdown == Spec => [](OneStatsWriter /\ FinalStatsExact /\ ReconnectsAreDrops)
<1>1. IInv => OneStatsWriter /\ ReconnectsAreDrops
  BY DEF IInv, OneStatsWriter, Joined
<1>2. IInv => FinalStatsExact
  BY ReportedNames
     DEF IInv, TypeOK, Names, FinalStatsExact, Joined, SnapshotInv, TicksConserved,
         AlertsMatchLines, Owed
<1> QED
  BY <1>1, <1>2, Invariance, PTL

\* No counter in stats.json ever goes back, from one write_stats to the next.
THEOREM MonotoneSnapshots == Spec => StatsMonotone
<1>1. IInv /\ [Next]_vars => [\A c \in Reported : stats'[c] >= stats[c]]_vars
  <2> SUFFICES ASSUME IInv, Next PROVE \A c \in Reported : stats'[c] >= stats[c]
    OBVIOUS
  <2>1. \A c \in Reported : stats[c] \in Nat /\ begun[c] \in Nat
    BY DEF IInv, TypeOK
  <2>2. CASE UNCHANGED stats
    BY <2>1, <2>2
  <2>3. CASE StatsWrite \/ MainWrites
    <3>1. /\ stats' \in [Reported -> Nat]
          /\ \A c \in Reported : begun[c] <= stats'[c]
      BY <2>3, PrintedBetween DEF IInv, StatsWrite, MainWrites
    <3>2. \A c \in Reported : stats[c] <= begun[c]
      BY <2>3 DEF IInv, SnapshotInv, StatsWrite, MainWrites
    <3> QED
      BY <2>1, <3>1, <3>2
  <2>4. UNCHANGED stats \/ StatsWrite \/ MainWrites
    BY DEF Next, Signal, WsThread, WsReceive, WsMalformed, WsGapCount, WsGapLine, WsPush,
           WsRingFull, WsCountPush, WsDrop, Consumer, ConsumerCheck, ConsumerPop,
           ConsumerEmpty, ConsumerProcess, ConsumerAlert, ConsumerLine, Stats, StatsCheck,
           StatsSkip, Main, MainWakes, MainStops, MainJoinsConsumer, MainJoinsStats,
           MainSkipsWrite, WsUnchanged, ConsumerUnchanged, statsVars
  <2> QED
    BY <2>2, <2>3, <2>4
<1> QED
  BY <1>1, Invariance, PTL DEF Spec, StatsMonotone
=============================================================================
