------------------------------- MODULE Daemon -------------------------------
(***************************************************************************)
(* coinbase_daemon (src/feed/coinbase_daemon_main.cpp): the WebSocket      *)
(* thread, the consumer thread, the stats thread and main, around the ring *)
(* (the bounded FIFO that SpscRing implements), the relaxed atomic         *)
(* counters, alerts.jsonl and stats.json.                                  *)
(*                                                                         *)
(* What handle() finds in a frame is FeedHandler's subject; here a frame   *)
(* is only what it makes the threads do, and a processed message raises    *)
(* any number of the alerts that the detection layers can raise.           *)
(***************************************************************************)
EXTENDS Naturals, Integers

CONSTANTS RingCapacity,
          Reported,     \* the counters followed into stats.json, all alike
          Layers,       \* detection layers that can raise an alert on a message
          MaxReceived,  \* bound: frames received
          MaxDrops      \* bound: feed drops

ASSUME DaemonAssumption ==
    /\ RingCapacity \in Nat \ {0}
    /\ Reported \subseteq {"received", "pushed", "processed", "parse_failures", "gaps",
                        "reconnects", "alerts"}
    /\ Layers \in Nat
    /\ MaxReceived \in Nat
    /\ MaxDrops \in Nat

VARIABLES
    g_running,
    counters,    \* struct Counters
    lines,       \* lines in alerts.jsonl
    ring,        \* messages in the ring
    wpc,         \* WebSocket thread: what the callback has still to do
    tick,        \* its frame is a ticker, to be pushed after the gap callback
    cpc,         \* consumer thread
    pending,     \* alerts that it has still to raise for its message
    spc, mpc,    \* stats thread and main
    begun,       \* the counters when the current write_stats began, else zero
    stats,       \* the counters in stats.json
    drops        \* feed drops so far; the code keeps no such count

wsVars == <<wpc, tick, drops>>
consumerVars == <<cpc, pending>>
statsVars == <<begun, stats>>
vars == <<g_running, counters, lines, ring, wsVars, consumerVars, spc, mpc, statsVars>>

-----------------------------------------------------------------------------
Names == {"received", "pushed", "processed", "parse_failures", "gaps", "reconnects", "alerts"}

Zero == [c \in Names |-> 0]

\* The counters now, as far as they are followed.
Current == [c \in Reported |-> counters[c]]

NoneYet == [c \in Reported |-> 0]

\* fetch_add(1) on each of the counters in set.
Count(set) == counters' = [c \in Names |-> IF c \in set THEN counters[c] + 1 ELSE counters[c]]

Init ==
    /\ g_running = TRUE
    /\ counters = Zero /\ lines = 0 /\ ring = 0
    /\ wpc = "idle" /\ tick = FALSE /\ drops = 0
    /\ cpc = "check" /\ pending = 0
    /\ spc = "check" /\ mpc = "run"
    /\ begun = NoneYet /\ stats = NoneYet

\* SIGINT or SIGTERM.
Signal ==
    /\ g_running
    /\ g_running' = FALSE
    /\ UNCHANGED <<counters, lines, ring, wsVars, consumerVars, spc, mpc, statsVars>>

-----------------------------------------------------------------------------
(* The WebSocket thread.                                                   *)

WsUnchanged == UNCHANGED <<g_running, drops, consumerVars, spc, mpc, statsVars>>

\* A message: counted, and if malformed counted again; else handle() finds a
\* gap or not, a tick to push (t) or not.
WsReceive(next, t) ==
    /\ wpc = "idle"
    /\ counters["received"] < MaxReceived
    /\ Count({"received"})
    /\ wpc' = next /\ tick' = t
    /\ WsUnchanged /\ UNCHANGED <<lines, ring>>

WsMalformed ==
    /\ wpc = "malformed"
    /\ Count({"parse_failures"})
    /\ wpc' = "idle"
    /\ WsUnchanged /\ UNCHANGED <<lines, ring, tick>>

\* The gap callback: count, then write the line under the writer's mutex.
WsGapCount ==
    /\ wpc = "gap"
    /\ Count({"gaps", "alerts"})
    /\ wpc' = "line"
    /\ WsUnchanged /\ UNCHANGED <<lines, ring, tick>>

WsGapLine ==
    /\ wpc = "line"
    /\ lines' = lines + 1
    /\ wpc' = IF tick THEN "push" ELSE "idle"
    /\ WsUnchanged /\ UNCHANGED <<counters, ring, tick>>

WsPush ==
    /\ wpc = "push"
    /\ ring < RingCapacity
    /\ ring' = ring + 1
    /\ wpc' = "count"
    /\ WsUnchanged /\ UNCHANGED <<counters, lines, tick>>

\* try_push refuses: handle() returns false and the tick is not counted.
WsRingFull ==
    /\ wpc = "push"
    /\ ring = RingCapacity
    /\ wpc' = "idle"
    /\ WsUnchanged /\ UNCHANGED <<counters, lines, ring, tick>>

WsCountPush ==
    /\ wpc = "count"
    /\ Count({"pushed"})
    /\ wpc' = "idle"
    /\ WsUnchanged /\ UNCHANGED <<lines, ring, tick>>

\* The callback's Close and Error cases (the handler's reset is FeedHandler's).
CloseCallback == IF g_running THEN Count({"reconnects"}) ELSE UNCHANGED counters

\* The feed drops; the library reconnects by itself.
WsDrop ==
    /\ wpc = "idle"
    /\ drops < MaxDrops
    /\ drops' = drops + 1
    /\ CloseCallback
    /\ UNCHANGED <<g_running, lines, ring, wpc, tick, consumerVars, spc, mpc, statsVars>>

WsThread ==
    \/ \E next \in {"idle", "malformed"} : WsReceive(next, FALSE)
    \/ \E t \in BOOLEAN : WsReceive("gap", t)
    \/ WsReceive("push", TRUE)
    \/ WsMalformed \/ WsGapCount \/ WsGapLine
    \/ WsPush \/ WsRingFull \/ WsCountPush
    \/ WsDrop

-----------------------------------------------------------------------------
(* The consumer thread.                                                    *)

ConsumerUnchanged == UNCHANGED <<g_running, wsVars, spc, mpc, statsVars>>

\* The outer loop; the inner one does not look at g_running.
ConsumerCheck ==
    /\ cpc = "check"
    /\ cpc' = IF g_running THEN "pop" ELSE "exited"
    /\ ConsumerUnchanged /\ UNCHANGED <<counters, lines, ring, pending>>

\* try_pop, the processed counter, and the verdicts of the layers: n alerts.
ConsumerPop(n) ==
    /\ cpc = "pop"
    /\ ring > 0
    /\ ring' = ring - 1
    /\ pending' = n
    /\ cpc' = "process"
    /\ ConsumerUnchanged /\ UNCHANGED <<counters, lines>>

ConsumerEmpty ==
    /\ cpc = "pop"
    /\ ring = 0
    /\ cpc' = "check"
    /\ ConsumerUnchanged /\ UNCHANGED <<counters, lines, ring, pending>>

ConsumerProcessUncounted ==
    /\ cpc = "process"
    /\ cpc' = IF pending > 0 THEN "alert" ELSE "pop"
    /\ ConsumerUnchanged /\ UNCHANGED <<counters, lines, ring, pending>>

ConsumerProcess ==
    /\ cpc = "process"
    /\ Count({"processed"})
    /\ cpc' = IF pending > 0 THEN "alert" ELSE "pop"
    /\ ConsumerUnchanged /\ UNCHANGED <<lines, ring, pending>>

ConsumerAlert ==
    /\ cpc = "alert"
    /\ Count({"alerts"})
    /\ cpc' = "line"
    /\ ConsumerUnchanged /\ UNCHANGED <<lines, ring, pending>>

ConsumerLine ==
    /\ cpc = "line"
    /\ lines' = lines + 1
    /\ pending' = pending - 1
    /\ cpc' = IF pending > 1 THEN "alert" ELSE "pop"
    /\ ConsumerUnchanged /\ UNCHANGED <<counters, ring>>

Consumer ==
    \/ ConsumerCheck
    \/ \E n \in 0..Layers : ConsumerPop(n)
    \/ ConsumerEmpty \/ ConsumerProcess \/ ConsumerAlert \/ ConsumerLine

-----------------------------------------------------------------------------
(* The stats thread and main.                                              *)

\* What write_stats can print: it loads the counters one by one, in an order
\* that C++ leaves open, so each is a value it had while the call lasted.
Printed ==
    {f \in [Reported -> UNION {begun[c]..counters[c] : c \in Reported}] :
        \A c \in Reported : f[c] \in begun[c]..counters[c]}

StatsUnchanged == UNCHANGED <<g_running, counters, lines, ring, wsVars, consumerVars>>

StatsLoopIgnoresSignal ==
    /\ spc = "check"
    /\ spc' = "write"
    /\ begun' = Current
    /\ StatsUnchanged /\ UNCHANGED <<mpc, stats>>

StatsCheck ==
    /\ spc = "check"
    /\ spc' = IF g_running THEN "write" ELSE "exited"
    /\ begun' = IF g_running THEN Current ELSE begun
    /\ StatsUnchanged /\ UNCHANGED <<mpc, stats>>

\* The new file is renamed over the old one.
StatsWrite ==
    /\ spc = "write"
    /\ stats' \in Printed
    /\ begun' = NoneYet
    /\ spc' = "check"
    /\ StatsUnchanged /\ UNCHANGED mpc

\* fopen of the temporary file fails: no new file this time.
StatsSkip ==
    /\ spc = "write"
    /\ begun' = NoneYet
    /\ spc' = "check"
    /\ StatsUnchanged /\ UNCHANGED <<mpc, stats>>

MainWakes ==
    /\ mpc = "run"
    /\ ~g_running
    /\ mpc' = "stop"
    /\ StatsUnchanged /\ UNCHANGED <<spc, statsVars>>

MainStopsWithoutWaiting ==
    /\ mpc = "stop"
    /\ CloseCallback
    /\ mpc' = "joinConsumer"
    /\ UNCHANGED <<g_running, lines, ring, wsVars, consumerVars, spc, statsVars>>

\* ws.stop(): waits for the callback that is running, fires Close, and the
\* thread is gone.
MainStops ==
    /\ mpc = "stop"
    /\ wpc = "idle"
    /\ CloseCallback
    /\ wpc' = "stopped"
    /\ mpc' = "joinConsumer"
    /\ UNCHANGED <<g_running, lines, ring, tick, drops, consumerVars, spc, statsVars>>

MainJoinsConsumer ==
    /\ mpc = "joinConsumer"
    /\ cpc = "exited"
    /\ mpc' = "joinStats"
    /\ StatsUnchanged /\ UNCHANGED <<spc, statsVars>>

MainSkipsStatsJoin ==
    /\ mpc = "joinStats"
    /\ mpc' = "write"
    /\ begun' = Current
    /\ StatsUnchanged /\ UNCHANGED <<spc, stats>>

MainJoinsStats ==
    /\ mpc = "joinStats"
    /\ spc = "exited"
    /\ mpc' = "write"
    /\ begun' = Current
    /\ StatsUnchanged /\ UNCHANGED <<spc, stats>>

\* The final snapshot.
MainWrites ==
    /\ mpc = "write"
    /\ stats' \in Printed
    /\ begun' = NoneYet
    /\ mpc' = "done"
    /\ StatsUnchanged /\ UNCHANGED spc

MainSkipsWrite ==
    /\ mpc = "write"
    /\ begun' = NoneYet
    /\ mpc' = "doneUnwritten"
    /\ StatsUnchanged /\ UNCHANGED <<spc, stats>>

Stats == StatsCheck \/ StatsWrite \/ StatsSkip

Main == MainWakes \/ MainStops \/ MainJoinsConsumer \/ MainJoinsStats
           \/ MainWrites \/ MainSkipsWrite

-----------------------------------------------------------------------------
Next == Signal \/ WsThread \/ Consumer \/ Stats \/ Main

(***************************************************************************)
(* The operating system runs every thread; a callback that has begun goes  *)
(* on.  No frame, no drop and no signal is assumed to come.                *)
(***************************************************************************)
Fairness ==
    /\ WF_vars(WsMalformed \/ WsGapCount \/ WsGapLine \/ WsPush \/ WsRingFull \/ WsCountPush)
    /\ WF_vars(Consumer)
    /\ WF_vars(Stats)
    /\ WF_vars(Main)

Spec == Init /\ [][Next]_vars /\ Fairness

-----------------------------------------------------------------------------
(* Properties.                                                             *)

\* Every variable keeps its type.
TypeOK ==
    /\ g_running \in BOOLEAN
    /\ counters \in [Names -> Nat]
    /\ lines \in Nat
    /\ ring \in 0..RingCapacity
    /\ wpc \in {"idle", "malformed", "gap", "line", "push", "count", "stopped"}
    /\ tick \in BOOLEAN
    /\ drops \in 0..MaxDrops
    /\ cpc \in {"check", "pop", "process", "alert", "line", "exited"}
    /\ pending \in 0..Layers
    /\ spc \in {"check", "write", "exited"}
    /\ mpc \in {"run", "stop", "joinConsumer", "joinStats", "write", "done", "doneUnwritten"}
    /\ begun \in [Reported -> Nat]
    /\ stats \in [Reported -> Nat]

\* 1 while the condition holds: something done and not yet counted.
Owed(condition) == IF condition THEN 1 ELSE 0

\* No tick is lost or processed twice between the socket and the layers: what
\* was pushed was processed, is being taken, or is still in the ring.
TicksConserved ==
    counters["pushed"] + Owed(wpc = "count")
       = counters["processed"] + Owed(cpc = "process") + ring

\* Every line of alerts.jsonl is counted, by whichever of the two threads wrote
\* it, and a counted alert without its line is one being written just now.
AlertsMatchLines ==
    counters["alerts"] = lines + Owed(wpc = "line") + Owed(cpc = "line")

\* The two callers of write_stats never run it together (they would write the
\* same stats.json.tmp).
OneStatsWriter == ~(spc = "write" /\ mpc = "write")

\* The counters in stats.json never go back while the daemon lives, the final
\* snapshot included; the metrics exporter takes a step back for a restart.
StatsMonotone == [][\A c \in Reported : stats'[c] >= stats[c]]_vars

\* Only a drop of the feed is counted as a reconnect.
ReconnectsAreDrops == counters["reconnects"] <= drops

\* The final snapshot is exact although every counter is relaxed: it has all
\* that happened, what it leaves unprocessed is in the ring, its alerts are the
\* lines of the file, and its reconnects are drops ("The Close fired by ws.stop()
\* during shutdown is not a reconnect").
FinalStatsExact ==
    mpc = "done" =>
       /\ stats = Current
       /\ counters["pushed"] = counters["processed"] + ring
       /\ counters["alerts"] = lines
       /\ ReconnectsAreDrops

\* After a signal the daemon terminates, wherever its threads were.
SignalTerminates == ~g_running ~> mpc \in {"done", "doneUnwritten"}
=============================================================================
