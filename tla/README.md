# Jisa in TLA+

Jisa is a telemetry anomaly engine. A C++ daemon reads a public market feed over
a WebSocket, detects gaps in it, passes ticks through a lock-free ring to a
consumer thread that runs four detection layers, and writes two files,
`stats.json` and `alerts.jsonl`. A FastAPI service copies the alerts into SQLite
and answers status requests; a metrics exporter reads the same two files; a Go
sidecar delivers alerts to HTTP subscribers.

This directory models the parts of it whose correctness depends on what several
threads, processes or messages do together, and the sequential parts whose state
outlives many calls: free lists, windows, files, registries.

## Inventory

| Part | State | Operations | Hard behaviour | What makes it correct |
|---|---|---|---|---|
| SPSC ring (`include/core/ring_buffer.hpp`) | two atomic cursors, slots | `try_push`, `try_pop` | no lock, stale loads, cursors wrap | a bounded FIFO, no data race on a slot |
| MPSC ring (same file) | cursors, a sequence number per slot | `try_push`, `try_pop` | several producers, failing compare-and-swap | the same, for all producers together |
| Feed handler (`include/feed/handler.hpp`, `coinbase.hpp`) | `last_seq_` per stream | `handle`, `accept_seq`, `reset` | lost, duplicated, reordered frames, reconnects | every missing number reported, no false report |
| Polled adapters (`adsb.hpp`, `gridradar.hpp`) | last time seen per stream | `parse_response` | overlapping, repeated and late polls, a full registry | each stream ordered, current and accounted for |
| Timestamps (`coinbase.hpp`, `gridradar.hpp`) | none | `days_from_civil`, `parse_rfc3339_ns` | leap years, unsigned wrap, two copies of the code | the exact instant, to the nanosecond |
| Daemon (`src/feed/coinbase_daemon_main.cpp`) | options, rules, counters, ring, files | start-up, WebSocket callback, consumer, stats writer, shutdown | files that fail to load, four threads, relaxed counters, signal at any moment | the configured rules or none of it, nothing lost between threads, honest final counters, it stops |
| Live smoke tool (`src/feed/coinbase_live_main.cpp`) | counters, ring | callback, consumer, summary | three threads, reconnects, order of the shutdown | it ends, its summary adds up |
| Alert file and sync (`AlertWriter`, `python/api/live.py`) | `alerts.jsonl`, table `alerts`, `sync_state` | `write`, `_sync_alerts` | torn lines, crashes, concurrent requests | every alert one row |
| Live stats (`live.py`, `app.py`) | fields of `LiveEngineSource` | `_read_stats`, `/health`, `/status` | unsynchronised threads, unreadable file | an answer is current, and one snapshot if its request was alone |
| Delivery sidecar (`go/delivery`, `go/cmd/alertd`) | dedupe set, counters, dead-letter file | `POST /v1/alerts`, `Deliver` | retries, one deadline, eviction, shutdown | each subscriber settled once and truthfully recorded |
| Metrics exporter (`python/obs/dogstatsd.py`) | previous counters, file offset | `tick`, `_drain_alerts` | restarts of either side, torn lines, truncation | deltas add up, each alert counted once |
| Pool allocator (`include/core/pool_allocator.hpp`) | free list | `allocate`, `deallocate` | links inside the blocks, exhaustion | no block handed out twice or lost |
| Detection (`include/detect`) | per-stream statistics | `check`, `zscore`, `update`, `update_and_check`, `threshold` | late and violating samples, NaN, warm-up, wrapping windows, resets | the configured bounds and rate, out-of-sample decisions, the promised quantile |
| Replay (`include/replay`) | recording file, fault injector | `write`, `next`, `digest`, `inject`, `read_labels` | files cut anywhere or damaged, failing writes, overlapping faults | a replay is the recording, labels are the truth |
| Triage agent (`python/agent`) | conversation | `investigate` | turn limit, retry, exceptions | it ends, with a memo the answers bear out, and the model sees all it said |

The parts meet in few places. The WebSocket thread and the consumer share only
the ring, the counters and the alert writer. The daemon and everything else
share only the two files, one replaced atomically, the other appended to.

## Modules

| Module | Models | Composes |
|---|---|---|
| `BoundedFifo` | what a ring promises: a bounded queue | |
| `SpscRing` | the SPSC ring, one step per cursor access and copy | refines `BoundedFifo` |
| `MpscRing` | the MPSC ring, one step per atomic access and copy | refines `BoundedFifo` |
| `FeedHandler` | gap detection behind an unreliable feed | the ring as a bounded queue |
| `Daemon` | the threads of `coinbase_daemon` | the ring and the frames by their effect |
| `AlertSync` | `alerts.jsonl` and its sync into SQLite | |
| `Delivery` | the Go sidecar | |
| `Backoff` | the sidecar's retry delay, in durations of finite width | |
| `LiveStats` | `_read_stats` and the endpoints, attribute by attribute | |
| `Exporter` | the metrics exporter and the daemon it watches | |
| `Triage` | the triage agent's tool loop | |
| `Gridradar`, `Adsb` | the polled adapters | |
| `BlockPool` | what a pool of blocks promises | |
| `PoolAllocator` | the intrusive free list | refines `BlockPool` |
| `RecordFormat` | the bytes of a record and the checksum of a stream | |
| `Replay` | recorder, file and replayer | extends `RecordFormat` |
| `FaultInjector` | fault injection, its labels and their reader | |
| `Calendar` | timestamps, in both copies of the code | |
| `Rules` | the daemon's command line and rules files, and the rule layer | |
| `Baseline` | the EWMA layer, one stream | |
| `Conformal`, `Cusum` | the window of the conformal layer and the CUSUM layer, one stream each | |
| `LiveSmoke` | the threads of `coinbase_live_smoke` | the ring and the frames by their effect |
| `Sums` | sums and powers, by recursive functions | |
| `NumberLemmas` | lemmas on `%`, on sequences, on least and largest elements, on induction, recursion, sums and powers | |
| `MCLibrary` | harness for `PoolAllocator`, `Adsb`, `Gridradar`, `Calendar`, `Replay`, `FaultInjector`, `Rules`, `Baseline`, `Conformal`, `Cusum`, `LiveStats` | one of them at a time |
| `MCServices` | harness for `Exporter`, `Triage`, `Backoff`, `LiveSmoke` | one of them at a time |
| `SpscRingProofs`, `MpscRingProofs`, `PipelineProofs`, `DaemonProofs`, `DeliveryProofs`, `ServiceProofs`, `LibraryProofs` | theorems | extend the modules they are about |

### SpscRing and MpscRing

`head_`, `tail_`, `write_cursor_`, `read_cursor_` and the slots keep the code's
names. Cursors are kept as positions that never wrap; the SPSC code sees
`Word(position)`, the wrapped `size_t`. Each call is split at every access of
shared memory, so that the copy of a payload is an interval in which the other
thread runs. An acquire load may return any value not older than the one the
thread has seen (`seenHead`, `seenTail`, `SequenceLoads`, `CursorLoads`): this is
what the C++ memory model allows of a single variable. That a thread which has
seen a cursor value also sees the payload written before it is what the
release/acquire pair guarantees, and the model takes it from there.

### FeedHandler

`wire` is the network: a set of frames from which any may arrive next, arrive
twice or be lost. `parse` is abstracted to the class of its result and the
stream and number it fills in. `base`, `accepted`, `beaten` and `missed` record
what happened on the current connection; the code keeps only `last_seq_`, and
the properties say that it is enough.

### Daemon

One program counter per thread. The relaxed counters are one function;
`write_stats` loads them one at a time, in an order that C++ leaves open, so a
snapshot holds for each counter any value it had while the call lasted
(`Printed`). `Reported` says which counters a run follows into `stats.json`: all
are treated alike, and following all of them multiplies the states for nothing.

### Rules

A behaviour is one start of the daemon: arguments in any order, then the lines of
each rules file, then samples. Every early return of `parse_args` and `main` is
an action that ends in `"exit"`; `load_rule_config` fails where it throws. The
lines of a file are the environment's, so a field may be missing, set twice, or
"nan", which `strtod` reads; comparisons with it are false, as in C++. A product
may be mapped to a stream that no rules file names, and the other way round.
`loaded` and `checks` record the files and the verdicts for the properties.

### LiveSmoke

One program counter per thread. It differs from the daemon in what it does at the
end: the consumer drains the ring once more after `running` is false, and every
Close or Error counts as a reconnect, the one that `stop()` itself causes too.
Whether a number is old, next or past a gap is left open, since `FeedHandler`
answers that.

### AlertSync

The file is a sequence of pieces, head and tail of a line; a daemon that dies in
between leaves a head to which the next line is glued. SQLite's transaction is
one step; the `SELECT` before it is another.

### Delivery

A delivery is a goroutine. The result of `attempt()` is the place in
`deliverOne`'s switch at which the goroutine then stands; the deadline can pass
between any two steps. Writing the dead-letter line is a step of its own and may
fail. `tries` and `outcome` record what really happened.

### LiveStats and Triage

The attributes of `LiveEngineSource` outlive a request and are shared by
FastAPI's thread pool, so every assignment of `_read_stats` and every read of an
endpoint is a step, and the steps of the requests in flight interleave. A value is
abstracted to the contents of `stats.json` it was computed from: one for most
attributes, up to three for the rate, whose operands are read back from the
object. A file that is missing or refused counts as a content of its own, which
gives the zeros. `/health` reads `start_time` only when it found the source
healthy (`ReadOrder`). An `/alerts` request refreshes like the others and reads
none of the attributes; to them it is a request whose reads follow at once.
`_sync_alerts`, which `refresh` calls next, touches other state and is
`AlertSync`.

With several requests in flight an answer can be a mixture, so that is not what
`AnswerIsCurrent` denies. It says that nothing in an answer is older than the
last moment at which no request was in flight (`recent` collects the contents
since then): a slow thread may put older values over newer ones, but they do not
outlive an unbroken stretch of requests. And a request that never was in flight
with another (`solo`) answers with one content that the file had since it began.

`Triage` keeps the whole control of `investigate`. The language model is
external: its reply is any of those that `_parse` and the code behind it treat
differently, among them JSON that makes the agent itself raise. The conversation
is kept message by message, an answer by its kind: the two answers of a turn with
a retry are appended at different places (`Tell`), and `ModelIsTold` says that
none is missing, doubled or out of order.

### Exporter

Both processes may be restarted at any time. One counter stands for the six. The
sample in `stats.json` carries, for the properties only, the daemon's life and
its lifetime total. A restarted daemon whose counter has already passed the
previous sample is not recognised as restarted, so the deltas may fall short of
what was counted; `DeltasAddUp` says that they never exceed it and are exact
within a life.

### Gridradar and Adsb

A response is a short sequence of samples in any order, with repeats and
malformed ones. Gridradar's time is a number of cadences and its gap callback is
assumed to be set. `Adsb` keeps stream ids modulo `Word`, the `uint32_t`.

### PoolAllocator

A pointer is an offset. The first word of a block is the link while the block is
free; while it is held, `OwnerWrites` puts anything there. Callers return only
what they hold, which `deallocate` requires. `stride_ * block_count_` is assumed
not to overflow. `odd` flips with every answer of `allocate`: handing out the same
block twice in a row would otherwise look like a stuttering step.

### Replay and FaultInjector

The file of a recorder is any prefix of what was written to its buffer, in half
records; a record that is wholly in the file is decoded from its bytes, of which
storage may have damaged one. `RecordFormat` has the code's layout, shifts and
widths with bytes of two bits, so that every field can be taken at the ends of
its range (`Recordable`); the checksum is FNV-1a over 16 bits, with the low bits
of the code's constants.

A fault injector's value is symbolic: which fault made it, from which
original, how far up the ramp. A message's position stands for its time, so
timestamps are assumed to increase within a recording. Onsets left to the
generator are any it may draw. When the labels file breaks off within a line,
`read_labels` skips the rest of the line or, if the cut is in the last number,
reads a smaller one. The output file is compared message by message with what the
faults make of the input (`OutputMatchesReference`): it is the output of an
earlier run, or the first messages of the reference, or all of them; the history
variable `lost` marks a flush whose failure `close` hides.

### Calendar

The text walks through the Gregorian calendar, kept by the textbook rules, one
day per step, and both copies of the parser must give the number of steps. Hour,
minute and second are sums the model leaves at zero (the code does not check
their range).

### Baseline, Conformal, Cusum, Backoff

`Baseline` computes with fractions of a common denominator, so mean and variance
are exact where the code has doubles. It is about the order of the calls, the
case of no variance and NaN, which is a value of its own: it passes `zscore`'s
test for a variance of zero and poisons both moments. It says nothing of a stream
whose scores rounding decides; see below. In `Conformal` and `Cusum`, scores and residuals are
integers. `Conformal` calls `is_anomalous` and `update`
in the daemon's order and computes the rank exactly; in doubles it may come out
one higher where `(1 - alpha) * n` is an integer. `Cusum` takes any residual,
since mean and variance are floating-point. `Backoff` keeps the width of
`time.Duration`; a cap beyond half its range (146 years) is excluded by an
assumption.

## Runs

| Run | Shows | Bounds |
|---|---|---|
| `spsc` | bounded FIFO, no race, every push popped | 4 slots, word of 8 values, 10 pushes: the cursor wraps with the ring full, half full and empty |
| `mpsc` | the same for two producers | 2 slots, 5 pushes: every slot is used in three laps |
| `feed` | all numbers accounted for, no false gap, order | 1 stream (streams share nothing but the ring), 4 trades, 3 frames in flight, 2 connections |
| `feed_heartbeat` | violated: a heartbeat hides the loss it announces | the same |
| `daemon` | ticks conserved, monotone and exact counters, shutdown | ring of 1, 2 frames (one overflows), 1 drop, 2 alerts per message |
| `alert_sync` | every line one row, offsets at line starts, all lines synced | 1 request, 4 alerts of which any may be torn |
| `alert_sync_concurrent` | violated: two requests insert the same lines | 2 requests, 2 alerts |
| `delivery` | settled once, counted once, truthfully recorded | 2 deliveries at once, 2 subscribers, 2 attempts |
| `delivery_dedupe` | keys return only after a full window | 3 keys, set of 2, 4 alerts |
| `baseline_nan` | violated: a z-score that is NaN | 5 ticks of 3 prices or NaN |
| `library` | the single-threaded C++ classes, below | per component, below |
| `services` | the smaller parts of the services, below | per component, below |

`library` and `services` run several components through one harness each
(`MCLibrary`, `MCServices`). The components share no state, so the variable
`component` picks one at the start and the others keep their initial state: the
state spaces add up instead of multiplying, and no behaviour of a component is
lost. `MCLibrary` takes aircraft, the streams of a recording and the requests of
the API up to symmetry: the code only compares them for equality, and its run has no liveness property.

| Component | Run | Shows | Bounds |
|---|---|---|---|
| `PoolAllocator` | `library` | sound free list, disjoint blocks, refinement of `BlockPool` | 3 blocks of 5 bytes aligned to 4 |
| `Adsb` | `library` | streams follow the polls (first come first served, ordered, current) | 3 aircraft for 2 streams, ids wrap, 3 instants, responses of 2 |
| `Gridradar` | `library` | the stream accounts for time (ordered, every second emitted or in one gap) | 5 seconds, responses of 3 |
| `Calendar` | `library` | both parsers give the exact instant | every day from 1970 to 2101 (a leap century, a common one), fractions of 10 digits 0 and 9 |
| `Replay` | `library` | a replay is faithful (a prefix that explains its end, a checksum that sees damage) | 3 records, cut or growing anywhere, two kinds of foreign file, damage in every field and both paddings |
| `FaultInjector` | `library` | values, output file and labels as the specs say, labels never beside an older output, and read back | 3 messages of 2 streams, 2 overlapping faults |
| `Rules` | `library` | the rules in force are the last loaded for each stream, or the daemon does not run; a quiet stretch is a slow one | 2 arguments (2 files), 2 streams, one product remapped, bounds that may be NaN, 3 samples that may be late or NaN |
| `Baseline` | `library` | scores are out of sample and the weighted ones | alpha 1/3, 5 ticks of 3 prices or NaN |
| `Conformal` | `library` | out-of-sample alarm over the latest scores at the promised rate | capacities 0 and 4, 8 scores: the window wraps |
| `Cusum` | `library` | alarms exactly when some run exceeds the threshold | 7 samples, warm-up of 2, alarms in both directions |
| `LiveStats` | `library` | an answer is current, and one content of the file if its request was alone | 2 requests in flight, any number one after the other, 2 snapshots, unreadable in between |
| `Exporter` | `services` | deltas add up, each alert counted once | 3 counts, 2 alerts, 2 restarts of the daemon, any number of the exporter's, 1 truncation |
| `Triage` | `services` | memos justified, the model is told all it said, it ends | 3 turns, every kind of reply at every turn |
| `Backoff` | `services` | the ceiling is min(base * 2^n, cap) without overflow | 6-bit durations, every base and cap up to 16, 8 attempts: shifts overflow from attempt 5 on |
| `LiveSmoke` | `services` | the tool ends, its summary adds up | ring of 2, 3 messages, 1 drop or failed attempt |

Related invariants are checked as one conjunction whose parts keep their names:
`RingInv` (types, `NoSlotRace`, `WithinCapacity` of the MPSC ring), `SyncInv`
(types, `RowsMatchOffset`, `OffsetsAtLineStart`), `LedgerInv` (types,
`CountersBalance`, `RecordsTruthful`), `PoolSound` (`FreeListSound`,
`HeldBlocksDisjoint`), and one property of each harness component, which includes
its type invariant. Where a type invariant and
its strengthening are proved (`SpscRing`, `FeedHandler`, `Daemon`,
`PoolAllocator`), no run repeats them.

Runs of components that really end (a process that exits, an investigation, one
injection, a bounded recording or a bounded number of samples) do not check for
deadlock; the others do.

### Where the code and its documentation disagree

Three runs are violated, each by one sentence of the documentation:

* `feed_heartbeat`: D-010 says heartbeats let the engine detect missed tickers.
  They do for numbers below the heartbeat's, but the heartbeat's own number is
  taken as seen: if that ticker was lost, no gap is reported, and if it is late,
  it is dropped.
* `alert_sync_concurrent`: `_sync_alerts` reads the offset, reads the file and
  only then opens the transaction. Two requests in FastAPI's thread pool insert
  the same lines, and the slower one can set the offset back.
* `baseline_nan`: the comment of `zscore` says "never NaN/Inf". A price "nan"
  passes `parse_decimal`, which takes whatever `strtod` takes, and from then on
  mean and variance of the stream, and so every score, are NaN. No comparison
  with NaN is true, so the conformal layer is silent for that stream until the
  daemon is restarted; so is CUSUM, whose test `var_prev > 0.0` fails.

Other things met while modelling. The models behave as described, no run is
devoted to them, and the properties are stated so as to allow them:

* With `Capacity` 1 the MPSC ring's published (`pos + 1`) and recycled
  (`pos + Capacity`) sequence numbers coincide, and a producer claims and
  overwrites a slot that has not been read. `MpscRing` allows it, its run has two
  slots, and its theorems say `Capacity # 1`.
* The error of the sidecar's dead-letter write is ignored.
* `_read_stats` assigns attributes that all request threads share, so with two
  requests in flight an answer need not be one snapshot. In particular `/health`
  may answer 503 although `stats.json` is readable, when a refresh that found it
  missing resets `healthy` late, and the module's docstring (`app.py:9-13`) says
  200 while the stats are readable; or it may find `healthy` true and then
  `start_time` 0, and answer 200 with an uptime since 1970.
* With the zeros of an unreadable file, `/status` computes the clock minus 0.0;
  `/health` asks first.
* The docstring of `ClaudeCliClient` says a failing CLI is treated as a malformed
  response; `investigate` does not catch it and raises.
* The exporter's first offset is the size of the file, which may lie within a
  line; the rest of that line is counted as malformed.
* A rules file with a bound of "nan" is accepted (`min >= max` is false) and that
  bound rejects nothing; a sample that is NaN passes every rule, and the rate is
  not checked for the sample after it.
* Two products may be mapped to one stream id; their samples then share one rule
  state and one baseline.
* A stream's baseline starts from mean 0, so the second tick of a flat stream is
  an alarm unless the price is 0 or alpha is 1. It does not stay the only one in
  doubles. With the daemon's alpha of 0.05 the mean stops within 5 to 16 ulps of
  the price near tick 670, because a twentieth of the difference rounds away, and
  the variance goes on shrinking (`baseline.hpp:31-33`); the score falls to about
  3e-8 and then rises towards 1, and about 250 ticks later it exceeds the
  conformal threshold over the window of 500: a price that never moves raises
  alarms again from about tick 910 to 925 on. These figures come from a
  computation in doubles at the prices 1, 100 and 64123.5; the model has no
  rounding and no property speaks of it.
* A label line that breaks off within its last number is read as a shorter fault.
* `StreamRecorder::close` hides a failing flush, and `inject` returns true.
* A drift cut off by the end of its stream stays below its magnitude, because the
  ramp is divided by the full duration. The head of `fault_injector.hpp` (lines
  8-9) says that it reaches exactly `magnitude` at the last affected sample;
  `ValuesMatchReference` takes the code's ramp.

## Fairness

* `SpscRing`, `MpscRing`: the consumer polls for ever (the daemon's loop), a
  store becomes visible eventually, a push past its check is finished. Producers
  are not assumed to push.
* `Daemon`: the scheduler runs every thread and a started callback. Frames, drops
  and signals are not assumed.
* `AlertSync`: the container's health check requests `/health` for ever; strong
  fairness says that a refresh is not aborted at the same place for ever.
* `Delivery`: a goroutine that can run does; the HTTP client's timeout ends every
  attempt. Deadlines, posts and signals are not assumed.
* `Triage`: the CLI call has a timeout, so every step of the loop ends.
* `LiveSmoke`: the scheduler runs the consumer, main and a started callback; main's
  sleep ends. Messages and connections are not assumed.

The other modules have no liveness property and no fairness.

## Proofs

For every value of the constants, not only those of the runs:

* `SpscRingProofs`. `CursorInv` with `TypeOK` is inductive: what each side has
  seen of the other's cursor bounds how far it may go (`tail_ <= seenHead +
  Capacity`, `head_ <= seenTail`). The full and empty tests then mean what they
  should although cursors wrap, which rests on `Capacity` dividing `WordSize`
  (`NumberLemmas!WrappedDifference`, `MaskOfWord`). `RaceFree` follows because two
  positions less than `Capacity` apart have different slots; `Refinement` shows
  that `PushStore` is the FIFO's push, `PopRead` its pop, and every other step a
  stutter.
* `PipelineProofs`, from the feed to the alarm.
  * Gap detection: `GateInv` says that `last_seq_` bounds everything that happened
    on the connection; completeness (`EverySeqAccounted`), soundness
    (`GapsAreFinal`) and order (`RingOrdered`) follow from it step by step.
  * Gridradar (`GridAccounted`): the stream is ordered as a whole, `last_ts` is its
    last sample and no gap reaches beyond it, so a new gap overlaps no earlier one.
  * ADS-B (`StreamsFollow`): the n-th arrival has the n-th id; no id is given twice
    because the cap is at most the number of ids (`NumberLemmas!RemaindersDiffer`),
    so a new stream starts on an id that has been silent.
  * Timestamps (`CalendarExact`): the days of a date are those of the years before
    it, which the code counts in eras of 400 and from March on, and those since that
    March; each step of the calendar adds one to their sum, and the two only meet at
    the end of February. The digits of a fraction are weighed one by one.
  * Rules. `RulesLoaded`: the rule of a stream is the configuration of the last
    file that names it, and no sample is checked before every file is loaded.
    `QuietIsSlow`: the state kept per stream is its last sample that was in order,
    so in a quiet run each sample was checked against the one before it, and the
    rates add up over the run by induction on its length.
  * CUSUM (`CusumExact`): each sum is the largest excess of a run that ends with the
    last sample (or 0), so it exceeds the threshold exactly if some run does.
  * The EWMA layer. `ScoreOutOfSample`: after n ticks the moments are the weighted
    sums over them, times a power of the denominator; the recursive update of the
    variance is the weighted sum of squares by the identity that `update` relies on.
  * The conformal layer (`AlarmOutOfSample`): the ring holds the most recent scores
    from `head` on, wrapped or not; the score of a rank leaves a known number of
    scores above it, and the rank of the code makes that number `alpha`'s share.
* `DaemonProofs`. Conservation of ticks and alerts, the single stats writer, and
  the monotone and exact snapshots, from an invariant that ties main's progress
  to the threads it has joined.
* `MpscRingProofs`. What a slot's `sequence` says about its position is tied to
  the cursors: positions between `read_cursor_` and `write_cursor_` are each owned
  by one producer or published, a claimed slot has been recycled, and a stale view
  of the cursor fails its compare-and-swap. `RingInv` follows, and `Refinement`
  maps the successful compare-and-swap to the FIFO's push and the copy out of a
  slot to its pop. Both need `Capacity # 1`, and say so.
* `DeliveryProofs`. The invariant walks along `deliverOne`: which subscribers are
  settled, what the counters must add up to at each step (`TalliesInv`), and that
  the map and the eviction order hold the keys accepted last (`DedupeInv`).
  `LedgerSafety` and `WindowSafety` are the run's invariants, `SettlementIsFinal`
  its action property.
* `ServiceProofs`. `SyncSafety` and `NoDuplicates`: the rows are the lines before
  `byte_offset`, which needs that every piece is written once and that a refresh
  past its SELECT still holds the stored offset (`HoldsOffset`); they are about one
  request at a time (`OneRequest`), because with two the statements are false.
  `AnswersCurrent` is about any number of requests. `recent` grows while any is in
  flight, and an attribute that a request has assigned can only be reassigned by
  one in flight with it, so it stays within `recent` until the request has read it
  back (`Assigned`, `Current`). `MemoJustified` follows the turns the triage loop
  has spent; `ModelTold` adds that the conversation lags one answer behind the log
  except at the beginning of a turn. `SummaryExact` balances the books of the smoke
  tool at every step of its three threads and ties them to the shutdown's order.
  `CeilingExact`: as long as the ceiling is below the cap it is `base * 2^n`, and
  since the cap is at most half the range of a duration, the next doubling does not
  wrap.
* `LibraryProofs`, component by component.
  * The pool. The stride is a multiple of the alignment that holds a block, so
    blocks are disjoint. The free list is an existential: some duplicate-free
    sequence of blocks is threaded by `free_head_` and the links and is the
    complement of `held`. `allocate` drops its head, `deallocate` puts a block in
    front, and an owner's write is never on it. `FreeListSound` also bounds its
    length, which follows from counting; `PoolRefinement` needs in addition that
    only blocks of the pool are held. `PoolSafety` is the two invariants together,
    the property `PoolSound` of the `library` run.
  * Fault injection (`InjectionLabelled`): within a stream the messages and their
    indexes count each other, so a fault's window is a run of the stream; values are
    those of the specs applied so far, and the messages kept with their values are
    the reference's, of which the output has a first part or all; and what `read_labels` makes of a file that
    breaks off is the labels up to there.
  * Recordings (`ReplayFaithful`). The bytes of a number and the number determine
    each other; a record's fields are where both sides expect them. A byte mixed
    into FNV-1a is a bijection of the hash (the prime is odd, an exclusive or is its
    own inverse), and different bytes give different hashes from one hash; so a
    change of one byte of a field survives all that follows it. `ReplayIInv` ties
    the position of the replayer to the number of messages it has returned.
    The theorem is about the two messages of `Recordable` in any number and order,
    with bytes of two bits as in the model; its lemmas on bytes, records and the
    checksum (`FieldNumbers` to `HarmIsSeen`) are about every message.
  * Exporter. `DeltasExact`: the last sample, `stats.json` and the daemon follow
    each other, where a later life has counted all it has after the earlier one.
    `AlertsCountedOnce`: reading from the start of a line in two chunks counts what
    reading in one would (`ChunksAddUp`), and a newline that was counted is never
    again ahead of the offset, not even after a truncation.

The proofs assume of the constants only what the `ASSUME`s of the modules say, and
of the system only the hypotheses that the theorems state: `Capacity # 1` and, for
the alert sync, one request at a time. Every inductive invariant is a conjunction of named parts, each
the property of a run or a strengthening that its proof needed.

Some of these statements are about what a recursive definition computes for every
input: sums, powers, digests, the labels that are read back. Their induction is in
`NumberLemmas`: every nonempty set of naturals has a least element
(`WellFoundedInduction`), from which follow induction over a set of naturals
(`Induct`) and the existence of the function that a recursive definition describes
(`Recursion`). A property that is to be proved by induction is the set of the
numbers that have it.

Only model-checked: the liveness properties (`EveryPushPopped` of both rings,
`SignalTerminates`, `EveryLineSynced`, `EveryAcceptedSettles`, `InvestigationEnds`,
`SmokeToolEnds`), since liveness under fairness rests on `ENABLED`, which is out of
the prover's reach. Every invariant and action property that a run checks is also
a theorem.

## Not modelled

* Rounding of doubles: the EWMA layer is exact, CUSUM takes any residual, the
  conformal rank is exact. Infinite prices ("inf") are left out; they poison the
  moments as NaN does.
* `src/bindings` (declarations only), `python/research` and the offline
  evaluation (`evaluate.py`, `run_eval.py`): no state that outlives a call.
* The replay engine (`python/api/engine.py`): one thread runs a recording through
  the modelled layers once, then serves constants.
* Cryptography (`signature.go`), JSON and number syntax: a parser is modelled by
  the classes of its results.
* The external language model, SQLite, the network, HTTP and IXWebSocket appear
  only by what the code sees of them.

## Plan

Compose `Daemon`'s snapshots with `Exporter` and `LiveStats` (all three agree on
what a sequence of `stats.json` may be).
