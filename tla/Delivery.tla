------------------------------ MODULE Delivery ------------------------------
(***************************************************************************)
(* The alert delivery sidecar (go/delivery, go/cmd/alertd).  An HTTP       *)
(* handler deduplicates a posted alert and answers at once; a goroutine    *)
(* per accepted alert then walks the subscribers one after the other, with *)
(* retries, backoff, one deadline for the whole walk, and a dead-letter    *)
(* file for what it gives up on.                                           *)
(*                                                                         *)
(* Deliveries are numbered in the order they are accepted.  An alert is    *)
(* its idempotency key; a request refused with 405 or 400 changes nothing. *)
(***************************************************************************)
EXTENDS Naturals, Integers, Sequences, FiniteSets

CONSTANTS Keys,          \* idempotency keys of the alerts posted
          Subscribers,   \* how many subscribers, served in order 1, 2, ...
          MaxAttempts,   \* cfg.MaxAttempts, at least 1 after NewDispatcher
          DedupeMax,     \* capacity of the dedupe set, at least 1
          MaxAccepted,   \* bound: alerts accepted
          MaxDuplicates  \* bound: alerts answered as duplicates

ASSUME DeliveryAssumption ==
    /\ Subscribers \in Nat \ {0}
    /\ MaxAttempts \in Nat \ {0}
    /\ DedupeMax \in Nat \ {0}
    /\ MaxAccepted \in Nat
    /\ MaxDuplicates \in Nat

VARIABLES
    process,          \* "serving", "draining" after a signal, "exited"
    ids, order,       \* Dedupe: the keys retained, and their insertion order
    accepted,         \* the keys accepted so far, delivery by delivery
    pc,               \* per delivery: where in deliverOne; a result of attempt()
                      \* is the place in the switch that handles it
    sub,              \* per delivery: the subscriber being served
    attempt,          \* per delivery: the loop counter of deliverOne
    expired,          \* per delivery: its context is done
    note,             \* per delivery: attempts argument of a deadLetter call
    delivered, retried, deadLettered, duplicate,  \* the atomic counters
    records,          \* the lines of the dead-letter file
    unwritten,        \* lines whose Write failed; the code ignores the error
    outcome, tries    \* per delivery and subscriber: how it ended, and how
                      \* often attempt() returned; the code keeps neither

dedupeVars == <<ids, order, accepted, duplicate>>
loopVars == <<sub, attempt, note>>
fileVars == <<records, unwritten>>
ghostVars == <<outcome, tries>>
counterVars == <<delivered, retried, deadLettered>>
vars == <<process, dedupeVars, pc, loopVars, expired, counterVars, fileVars, ghostVars>>

-----------------------------------------------------------------------------
Deliveries == 1..MaxAccepted
Subs == 1..Subscribers
Results == {"ok", "retryable", "permanent", "error"}

Init ==
    /\ process = "serving"
    /\ ids = {} /\ order = << >> /\ accepted = << >>
    /\ pc = [d \in Deliveries |-> "free"]
    /\ sub = [d \in Deliveries |-> 1]
    /\ attempt = [d \in Deliveries |-> 0]
    /\ expired = [d \in Deliveries |-> FALSE]
    /\ note = [d \in Deliveries |-> 0]
    /\ delivered = 0 /\ retried = 0 /\ deadLettered = 0 /\ duplicate = 0
    /\ records = {} /\ unwritten = {}
    /\ outcome = [d \in Deliveries |-> [s \in Subs |-> "none"]]
    /\ tries = [d \in Deliveries |-> [s \in Subs |-> 0]]

-----------------------------------------------------------------------------
(* handleAlerts.                                                           *)

RememberEvictingNewest(k) ==
    LET full == Len(order) >= DedupeMax IN
    /\ ids' = (IF full THEN ids \ {order[Len(order)]} ELSE ids) \cup {k}
    /\ order' = Append(IF full THEN SubSeq(order, 1, Len(order) - 1) ELSE order, k)

\* Dedupe.Check of a new key: drop the oldest key when full, keep this one.
Remember(k) ==
    LET full == Len(order) >= DedupeMax IN
    /\ ids' = (IF full THEN ids \ {Head(order)} ELSE ids) \cup {k}
    /\ order' = Append(IF full THEN Tail(order) ELSE order, k)

\* 202: a new key; the goroutine that delivers it starts.
Accept(k) ==
    /\ process = "serving"
    /\ k \notin ids
    /\ Len(accepted) < MaxAccepted
    /\ Remember(k)
    /\ accepted' = Append(accepted, k)
    /\ pc' = [pc EXCEPT ![Len(accepted) + 1] = "attempt"]
    /\ UNCHANGED <<process, duplicate, loopVars, expired, counterVars, fileVars, ghostVars>>

\* 200: a key still retained; nothing is enqueued.
AnswerDuplicate(k) ==
    /\ process = "serving"
    /\ k \in ids
    /\ duplicate < MaxDuplicates
    /\ duplicate' = duplicate + 1
    /\ UNCHANGED <<process, ids, order, accepted, pc, loopVars, expired,
                   counterVars, fileVars, ghostVars>>

-----------------------------------------------------------------------------
(* Deliver and deliverOne, by the goroutine of delivery d.                 *)

Goto(d, label) == pc' = [pc EXCEPT ![d] = label]

At(d, label) == process # "exited" /\ pc[d] = label

\* deliverOne returns: the next subscriber with a fresh counter, or the end.
NextSubscriber(d) ==
    /\ attempt' = [attempt EXCEPT ![d] = 0]
    /\ sub' = [sub EXCEPT ![d] = @ + 1]
    /\ Goto(d, IF sub[d] < Subscribers THEN "attempt" ELSE "done")
    /\ UNCHANGED note

Settle(d, how) == outcome' = [outcome EXCEPT ![d][sub[d]] = how]

\* attempt() returns r: the answer's class, or an error (no connection, no
\* answer within the client's timeout, a bad URL).  Under a context that is
\* done it can only be the error, and no request goes out.
AttemptReturns(d, r) ==
    /\ At(d, "attempt")
    /\ expired[d] => r = "error"
    /\ tries' = [tries EXCEPT ![d][sub[d]] = @ + 1]
    /\ Goto(d, r)
    /\ UNCHANGED <<process, dedupeVars, loopVars, expired, counterVars, fileVars, outcome>>

DeliveredKeepsTrying(d) ==
    /\ At(d, "ok")
    /\ delivered' = delivered + 1
    /\ Settle(d, "delivered")
    /\ Goto(d, "attempt")
    /\ UNCHANGED <<process, dedupeVars, loopVars, expired, retried, deadLettered,
                   fileVars, tries>>

\* 2xx.
Delivered(d) ==
    /\ At(d, "ok")
    /\ delivered' = delivered + 1
    /\ Settle(d, "delivered")
    /\ NextSubscriber(d)
    /\ UNCHANGED <<process, dedupeVars, expired, retried, deadLettered, fileVars, tries>>

\* deadLetter(..., n, ...): counted first, written in a step of its own.
DeadLetter(d, n) ==
    /\ deadLettered' = deadLettered + 1
    /\ Settle(d, "dead")
    /\ note' = [note EXCEPT ![d] = n]
    /\ Goto(d, "record")
    /\ UNCHANGED <<process, dedupeVars, sub, attempt, expired, delivered, retried,
                   fileVars, tries>>

\* Another 4xx, or anything else that is neither 2xx, 429 nor 5xx.
Permanent(d) == At(d, "permanent") /\ DeadLetter(d, attempt[d] + 1)

\* An error, and by now the context is done.
Cancelled(d) == At(d, "error") /\ expired[d] /\ DeadLetter(d, attempt[d] + 1)

MayRetry(d) == At(d, "retryable") \/ (At(d, "error") /\ ~expired[d])

\* The loop goes round: count the retry, start the backoff timer.
Retry(d) ==
    /\ MayRetry(d)
    /\ attempt[d] + 1 < MaxAttempts
    /\ attempt' = [attempt EXCEPT ![d] = @ + 1]
    /\ retried' = retried + 1
    /\ Goto(d, "backoff")
    /\ UNCHANGED <<process, dedupeVars, sub, note, expired, delivered, deadLettered,
                   fileVars, ghostVars>>

\* The loop ends after MaxAttempts.
Exhausted(d) ==
    /\ MayRetry(d)
    /\ attempt[d] + 1 >= MaxAttempts
    /\ DeadLetter(d, MaxAttempts)

BackoffNeedsDeadline(d) ==
    /\ At(d, "backoff")
    /\ expired[d]
    /\ Goto(d, "attempt")
    /\ UNCHANGED <<process, dedupeVars, loopVars, expired, counterVars, fileVars, ghostVars>>

\* The select takes the timer; it may do so although the context is done too.
BackoffElapsed(d) ==
    /\ At(d, "backoff")
    /\ Goto(d, "attempt")
    /\ UNCHANGED <<process, dedupeVars, loopVars, expired, counterVars, fileVars, ghostVars>>

BackoffCutCountsNext(d) ==
    At(d, "backoff") /\ expired[d] /\ DeadLetter(d, attempt[d] + 1)

\* The select takes ctx.Done().
BackoffCut(d) == At(d, "backoff") /\ expired[d] /\ DeadLetter(d, attempt[d])

Line(d) == [delivery |-> d, sub |-> sub[d], attempts |-> note[d]]

\* The line goes to the dead-letter file under deadMu...
Record(d) ==
    /\ At(d, "record")
    /\ records' = records \cup {Line(d)}
    /\ NextSubscriber(d)
    /\ UNCHANGED <<process, dedupeVars, expired, counterVars, unwritten, ghostVars>>

\* ...unless Write fails, which deadLetter does not look at.
RecordFails(d) ==
    /\ At(d, "record")
    /\ unwritten' = unwritten \cup {Line(d)}
    /\ NextSubscriber(d)
    /\ UNCHANGED <<process, dedupeVars, expired, counterVars, records, ghostVars>>

\* deliveryTimeout passes.
Expire(d) ==
    /\ process # "exited"
    /\ pc[d] \notin {"free", "done"}
    /\ ~expired[d]
    /\ expired' = [expired EXCEPT ![d] = TRUE]
    /\ UNCHANGED <<process, dedupeVars, pc, loopVars, counterVars, fileVars, ghostVars>>

-----------------------------------------------------------------------------
(* main: SIGINT or SIGTERM.  Shutdown waits for handlers, not deliveries.  *)

Signal ==
    /\ process = "serving"
    /\ process' = "draining"
    /\ UNCHANGED <<dedupeVars, pc, loopVars, expired, counterVars, fileVars, ghostVars>>

Exit ==
    /\ process = "draining"
    /\ process' = "exited"
    /\ UNCHANGED <<dedupeVars, pc, loopVars, expired, counterVars, fileVars, ghostVars>>

-----------------------------------------------------------------------------
DeliverOne(d) ==
    \/ \E r \in Results : AttemptReturns(d, r)
    \/ Delivered(d) \/ Permanent(d) \/ Cancelled(d) \/ Retry(d) \/ Exhausted(d)
    \/ BackoffElapsed(d) \/ BackoffCut(d)
    \/ Record(d) \/ RecordFails(d)

Next ==
    \/ \E k \in Keys : Accept(k) \/ AnswerDuplicate(k)
    \/ \E d \in Deliveries : DeliverOne(d) \/ Expire(d)
    \/ Signal
    \/ Exit

(***************************************************************************)
(* A goroutine that can run does: the client's timeout ends every attempt  *)
(* and a timer every backoff.  Neither posts, deadlines nor signals are    *)
(* assumed to come.                                                        *)
(***************************************************************************)
Spec == Init /\ [][Next]_vars /\ \A d \in Deliveries : WF_vars(DeliverOne(d))

-----------------------------------------------------------------------------
(* Properties.                                                             *)

Lines == [delivery : Deliveries, sub : Subs, attempts : 0..MaxAttempts]

\* Every variable keeps its type; a subscriber is tried at most MaxAttempts
\* times per delivery.
TypeOK ==
    /\ process \in {"serving", "draining", "exited"}
    /\ ids \subseteq Keys /\ order \in Seq(Keys) /\ accepted \in Seq(Keys)
    /\ pc \in [Deliveries ->
                  Results \cup {"free", "attempt", "backoff", "record", "done"}]
    /\ sub \in [Deliveries -> 1..(Subscribers + 1)]
    /\ attempt \in [Deliveries -> 0..(MaxAttempts - 1)]
    /\ expired \in [Deliveries -> BOOLEAN]
    /\ note \in [Deliveries -> 0..MaxAttempts]
    /\ delivered \in Nat /\ retried \in Nat /\ deadLettered \in Nat /\ duplicate \in Nat
    /\ records \subseteq Lines /\ unwritten \subseteq Lines
    /\ outcome \in [Deliveries -> [Subs -> {"none", "delivered", "dead"}]]
    /\ tries \in [Deliveries -> [Subs -> 0..MaxAttempts]]

\* A key is delivered a second time only after DedupeMax other alerts have been
\* accepted in between, and the map and the eviction order of Dedupe agree.
DedupeWindow ==
    /\ \A i, j \in DOMAIN accepted :
          i < j /\ accepted[i] = accepted[j] => j - i > DedupeMax
    /\ Len(order) <= DedupeMax
    /\ ids = {order[i] : i \in DOMAIN order}
    /\ Cardinality(ids) = Len(order)

Settled(how) ==
    {p \in Deliveries \X Subs : outcome[p[1]][p[2]] = how}

\* The counters of /healthz balance: what was delivered and what was given up
\* are counted once each, and a delivery has passed a subscriber exactly when
\* that subscriber is settled.
CountersBalance ==
    /\ delivered = Cardinality(Settled("delivered"))
    /\ deadLettered = Cardinality(Settled("dead"))
    /\ \A d \in Deliveries, s \in Subs :
          s # sub[d] => (outcome[d][s] # "none" <=> s < sub[d])
    /\ \A d \in Deliveries : pc[d] = "done" <=> sub[d] = Subscribers + 1

\* Written past deadLetter: the goroutine is no longer at the write.
PastRecord(d, s) == ~(pc[d] = "record" /\ sub[d] = s)

\* A dead-letter line tells the truth: there is exactly one for a subscriber
\* that was given up, none for another, and its attempts field is the number
\* of attempts really made, however deadline, backoff and answers raced.
RecordsTruthful ==
    \A d \in Deliveries, s \in Subs :
       {l \in records \cup unwritten : l.delivery = d /\ l.sub = s} =
          IF outcome[d][s] = "dead" /\ PastRecord(d, s)
          THEN {[delivery |-> d, sub |-> s, attempts |-> tries[d][s]]}
          ELSE {}

\* The books of the sidecar: counters that balance, dead-letter lines that tell
\* the truth and are only missing where a write failed, and no subscriber tried
\* more than MaxAttempts times for one alert.
LedgerInv == TypeOK /\ CountersBalance /\ RecordsTruthful

\* Once a subscriber is settled for a delivery it stays settled the same way
\* and is not tried again; in particular a 2xx is never followed by a retry.
SettledForGood ==
    [][\A d \in Deliveries, s \in Subs :
          outcome[d][s] # "none" =>
             outcome'[d][s] = outcome[d][s] /\ tries'[d][s] = tries[d][s]]_vars

\* Every accepted alert is eventually settled for every subscriber, unless the
\* process exits first (DECISIONS.md D-051: in-flight deliveries are lost then).
EveryAcceptedSettles ==
    \A d \in Deliveries :
       (pc[d] # "free") ~> (process = "exited" \/ \A s \in Subs : outcome[d][s] # "none")
=============================================================================
