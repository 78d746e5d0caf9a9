----------------------------- MODULE LiveSmoke -----------------------------
(***************************************************************************)
(* coinbase_live_smoke (src/feed/coinbase_live_main.cpp): the WebSocket    *)
(* thread pushes ticks into the ring, the consumer counts them, and main   *)
(* sleeps, stops the socket, stops the consumer and prints a summary.      *)
(*                                                                         *)
(* Sequence numbers are abstract: of a stream whose last number is known,  *)
(* the next one may be old, the next, or past a gap (FeedHandler has them).*)
(* ws.stop() returns when the WebSocket thread has ended, and fires a last *)
(* Close if it was connected.                                              *)
(***************************************************************************)
EXTENDS Integers, Sequences

CONSTANTS RingSize,     \* the slots of the ring that can be used
          MaxReceived,  \* bound: messages received
          MaxDrops      \* bound: times it is lost or cannot be made

ASSUME SmokeAssumption == RingSize \in Nat /\ MaxReceived \in Nat /\ MaxDrops \in Nat

VARIABLES
    wsState,     \* "idle", or the step of the callback that comes next
    connected,
    tick,        \* the stream of the message in the callback
    baselines,   \* the streams whose last sequence number the handler knows
    tally,       \* stats: its counters, and the two of the consumer
    ring,        \* the streams of the ticks in the ring
    consumerState, mainState,
    running,
    lost, refused   \* history: Close and Error events; messages that push nothing

socket == <<wsState, connected, tick, baselines>>
threads == <<consumerState, mainState, running>>
outcome == <<lost, refused>>
smokeVars == <<socket, tally, ring, threads, outcome>>

-----------------------------------------------------------------------------
Tickers == {1, 2}   \* the streams of BTC-USD and ETH-USD

Bump(name) == tally' = [tally EXCEPT ![name] = @ + 1]

SmokeInit ==
    /\ wsState = "idle" /\ connected = FALSE /\ tick = 1 /\ baselines = {}
    /\ tally = [received |-> 0, pushed |-> 0, parse_failures |-> 0, gaps |-> 0,
                reconnects |-> 0, btc_ticks |-> 0, eth_ticks |-> 0]
    /\ ring = << >> /\ consumerState = "test" /\ mainState = "sleeping"
    /\ running = TRUE /\ lost = 0 /\ refused = 0

\* ws.stop() has not returned: the socket may call back.
Started == mainState \in {"sleeping", "stopping"}

\* The socket connects (again), and subscribes.
SocketOpens ==
    /\ Started /\ ~connected
    /\ connected' = TRUE
    /\ UNCHANGED <<wsState, tick, baselines, tally, ring, threads, outcome>>

\* A message arrives, and parse() says what it is.
MessageArrives ==
    /\ connected /\ wsState = "idle" /\ tally.received < MaxReceived
    /\ Bump("received")
    /\ wsState' \in {"malformed", "tick", "heartbeat", "skipped"}
    /\ tick' \in Tickers
    /\ UNCHANGED <<connected, baselines, ring, threads, outcome>>

CountMalformed ==
    /\ wsState = "malformed"
    /\ Bump("parse_failures")
    /\ wsState' = "skipped"
    /\ UNCHANGED <<connected, tick, baselines, ring, threads, outcome>>

\* The gap callback: a stream's first number is never a gap.
CountGap == tick \in baselines /\ Bump("gaps")

\* accept_seq(): a number that is not newer than the stream's last is refused,
\* any other is accepted, perhaps with a gap.
AcceptSeq(accepted) ==
    \/ ~accepted /\ tick \in baselines /\ UNCHANGED <<baselines, tally>>
    \/ /\ accepted
       /\ baselines' = baselines \cup {tick}
       /\ UNCHANGED tally \/ CountGap

\* handle() returns false.
Refuse ==
    /\ wsState' = "idle" /\ refused' = refused + 1
    /\ UNCHANGED <<connected, tick, ring, threads, lost>>

HandleSkipped == wsState = "skipped" /\ Refuse /\ UNCHANGED <<baselines, tally>>

HandleHeartbeat ==
    /\ wsState = "heartbeat"
    /\ \E accepted \in BOOLEAN : AcceptSeq(accepted)
    /\ Refuse

HandleTick ==
    /\ wsState = "tick"
    /\ \/ AcceptSeq(FALSE) /\ Refuse
       \/ AcceptSeq(TRUE) /\ Len(ring) = RingSize /\ Refuse
       \/ /\ AcceptSeq(TRUE) /\ Len(ring) < RingSize
          /\ ring' = Append(ring, tick)
          /\ wsState' = "count"
          /\ UNCHANGED <<connected, tick, threads, outcome>>

CountPushed ==
    /\ wsState = "count"
    /\ Bump("pushed")
    /\ wsState' = "idle"
    /\ UNCHANGED <<connected, tick, baselines, ring, threads, outcome>>

\* Close or Error: counted as a reconnect, always; the baselines are forgotten.
CloseOrError ==
    /\ Bump("reconnects")
    /\ baselines' = {}
    /\ connected' = FALSE

\* The connection is lost, or an attempt to make one fails.
ConnectionLost ==
    /\ Started /\ wsState = "idle" /\ lost < MaxDrops
    /\ CloseOrError
    /\ lost' = lost + 1
    /\ UNCHANGED <<wsState, tick, ring, threads, refused>>

TicksOf(stream) == IF stream = 1 THEN "btc_ticks" ELSE "eth_ticks"

\* The consumer tests running.
ConsumerTest ==
    /\ consumerState = "test"
    /\ consumerState' = IF running THEN "drain" ELSE "last_drain"
    /\ UNCHANGED <<socket, tally, ring, mainState, running, outcome>>

\* Either loop pops a tick and counts it.
ConsumerCounts ==
    /\ consumerState \in {"drain", "last_drain"} /\ ring # << >>
    /\ Bump(TicksOf(Head(ring)))
    /\ ring' = Tail(ring)
    /\ UNCHANGED <<socket, threads, outcome>>

ConsumerEndsAtOnce ==
    /\ \/ consumerState = "drain" /\ ring = << >> /\ consumerState' = "test"
       \/ consumerState = "last_drain" /\ consumerState' = "done"
    /\ UNCHANGED <<socket, tally, ring, mainState, running, outcome>>

\* The ring is empty: sleep and test again, or end.
ConsumerFindsNothing ==
    /\ \/ consumerState = "drain" /\ ring = << >> /\ consumerState' = "test"
       \/ consumerState = "last_drain" /\ ring = << >> /\ consumerState' = "done"
    /\ UNCHANGED <<socket, tally, ring, mainState, running, outcome>>

\* --seconds have passed.
MainAwakes ==
    /\ mainState = "sleeping"
    /\ mainState' = "stopping"
    /\ UNCHANGED <<socket, tally, ring, consumerState, running, outcome>>

\* ws.stop(): waits for the callback that runs.
MainStopsSocket ==
    /\ mainState = "stopping" /\ wsState = "idle"
    /\ mainState' = "stopped"
    /\ \/ connected /\ CloseOrError
       \/ ~connected /\ UNCHANGED <<connected, tally, baselines>>
    /\ UNCHANGED <<wsState, tick, ring, consumerState, running, outcome>>

MainForgetsRunning ==
    /\ mainState = "stopped"
    /\ mainState' = "joining"
    /\ UNCHANGED <<socket, tally, ring, consumerState, running, outcome>>

MainClearsRunning ==
    /\ mainState = "stopped"
    /\ running' = FALSE
    /\ mainState' = "joining"
    /\ UNCHANGED <<socket, tally, ring, consumerState, outcome>>

\* consumer.join(), then the summary.
MainPrints ==
    /\ mainState = "joining" /\ consumerState = "done"
    /\ mainState' = "done"
    /\ UNCHANGED <<socket, tally, ring, consumerState, running, outcome>>

SmokeCallback ==
    CountMalformed \/ HandleSkipped \/ HandleHeartbeat \/ HandleTick \/ CountPushed
SmokeConsumer == ConsumerTest \/ ConsumerCounts \/ ConsumerFindsNothing
SmokeMain == MainAwakes \/ MainStopsSocket \/ MainClearsRunning \/ MainPrints

SmokeNext ==
    \/ SocketOpens \/ MessageArrives \/ ConnectionLost
    \/ SmokeCallback \/ SmokeConsumer \/ SmokeMain

\* The network owes nothing; each thread keeps running.
SmokeFairness ==
    WF_smokeVars(SmokeCallback) /\ WF_smokeVars(SmokeConsumer) /\ WF_smokeVars(SmokeMain)

SmokeSpec == SmokeInit /\ [][SmokeNext]_smokeVars /\ SmokeFairness

-----------------------------------------------------------------------------
(* Properties.                                                             *)

\* Every variable keeps its type; the ring keeps to its size.
SmokeTypeOK ==
    /\ wsState \in {"idle", "malformed", "tick", "heartbeat", "skipped", "count"}
    /\ connected \in BOOLEAN /\ running \in BOOLEAN
    /\ tick \in Tickers /\ baselines \subseteq Tickers
    /\ \A name \in DOMAIN tally : tally[name] \in Nat
    /\ ring \in Seq(Tickers) /\ Len(ring) <= RingSize
    /\ consumerState \in {"test", "drain", "last_drain", "done"}
    /\ mainState \in {"sleeping", "stopping", "stopped", "joining", "done"}
    /\ lost \in 0..MaxDrops /\ refused \in 0..MaxReceived

\* The summary is exact although no counter is read under a lock: every tick
\* pushed was popped and counted, every message received is accounted for, and
\* reconnects are the Close and Error events and the Close of stop(), if any.
SummaryIsExact ==
    /\ SmokeTypeOK
    /\ mainState = "done" =>
          /\ ring = << >>
          /\ tally.btc_ticks + tally.eth_ticks = tally.pushed
          /\ tally.received = tally.pushed + refused
          /\ tally.parse_failures <= refused
          /\ tally.reconnects - lost \in {0, 1} /\ ~connected
=============================================================================
