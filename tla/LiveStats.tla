----------------------------- MODULE LiveStats -----------------------------
(***************************************************************************)
(* The other half of LiveEngineSource.refresh() (python/api/live.py):      *)
(* _read_stats copies stats.json into attributes of one shared object, and *)
(* the endpoints of python/api/app.py then read them back one by one.      *)
(*                                                                         *)
(* FastAPI runs the synchronous endpoints in a thread pool and nothing     *)
(* locks the object: every attribute access is a step, and the steps of    *)
(* the requests in flight interleave.  A value is abstracted to the        *)
(* contents of stats.json it was computed from: one of them for most       *)
(* attributes, up to three for the rate.  Unreadable is the content of a   *)
(* file that is missing or refused; it gives False, 0, [] or None.         *)
(***************************************************************************)
EXTENDS Integers, Sequences

CONSTANTS Requests,      \* requests that may be in flight at the same time
          MaxSnapshots   \* bound: readable contents stats.json has over time

ASSUME SnapshotAssumption == MaxSnapshots \in Nat

VARIABLES
    stats_json,  \* what stats.json holds: a snapshot, or Unreadable
    writes,      \* how many snapshots there have been
    attributes,  \* the attributes of the shared LiveEngineSource
    endpoint,    \* per request: the endpoint it asks for, with /health's 503
    serving,     \* per request: where it is
    at,          \* per request: the attributes assigned, or read back, so far
    got,         \* per request: the local stats of _read_stats
    rate,        \* per request: what the rate being computed stems from
    body,        \* per request: what its answer stems from
    recent,      \* history: contents of stats.json since the API was last idle
    solo         \* history: per request: no other was in flight at any time

statsVars == <<stats_json, writes>>
historyVars == <<recent, solo>>
liveVars == <<statsVars, attributes, endpoint, serving, at, got, rate, body, historyVars>>

-----------------------------------------------------------------------------
Unreadable == 0
Snapshots == 1..MaxSnapshots
Contents == {Unreadable} \cup Snapshots
Attributes == {"healthy", "start_time", "messages_processed", "msgs_per_sec",
               "streams", "last_message_unix"}

\* /health, which becomes "health 503" once it has found healthy False, and
\* /status.  /alerts refreshes as they do and reads none of the attributes: to
\* the others it is a request whose reads follow at once.
Endpoints == {"health", "health 503", "status"}

\* The order in which the except branch of _read_stats assigns.
ResetOrder == <<"healthy", "start_time", "messages_processed", "msgs_per_sec",
                "streams", "last_message_unix">>

\* The order in which _read_stats assigns what it has read; then the rate.
CopyOrder == <<"healthy", "start_time", "messages_processed", "streams",
               "last_message_unix">>

\* The order in which an endpoint reads them back.
ReadOrder(e) ==
    CASE e = "health" -> <<"healthy", "last_message_unix", "start_time", "messages_processed">>
      [] e = "health 503" -> <<"healthy", "last_message_unix", "messages_processed">>
      [] e = "status" -> <<"start_time", "messages_processed", "msgs_per_sec", "streams">>

InFlight(r) == serving[r] # "idle"

LiveInit ==
    /\ stats_json = Unreadable /\ writes = 0
    /\ attributes = [f \in Attributes |-> {Unreadable}]
    /\ endpoint = [r \in Requests |-> "status"]
    /\ serving = [r \in Requests |-> "idle"]
    /\ at = [r \in Requests |-> 0]
    /\ got = [r \in Requests |-> Unreadable]
    /\ rate = [r \in Requests |-> {}]
    /\ body = [r \in Requests |-> {}]
    /\ recent = {}
    /\ solo = [r \in Requests |-> FALSE]

-----------------------------------------------------------------------------
(* The daemon: a new stats.json takes the place of the old one, or one     *)
(* that json.load refuses does (write_stats renames whatever it could      *)
(* write of the temporary file).                                           *)

FileBecomes(content) ==
    /\ stats_json' = content
    /\ recent' = recent \cup {content}
    /\ UNCHANGED <<attributes, endpoint, serving, at, got, rate, body, solo>>

WriteStats ==
    /\ writes < MaxSnapshots
    /\ writes' = writes + 1
    /\ FileBecomes(writes + 1)

LoseStats ==
    /\ stats_json # Unreadable
    /\ FileBecomes(Unreadable)
    /\ UNCHANGED writes

-----------------------------------------------------------------------------
(* A request r.                                                            *)

\* The request arrives, and calls runner.refresh().
Begin(r) ==
    /\ ~InFlight(r)
    /\ serving' = [serving EXCEPT ![r] = "refresh"]
    /\ LET others == {s \in Requests : InFlight(s)}
       IN  /\ recent' = IF others = {} THEN {stats_json} ELSE recent
           /\ solo' = [s \in Requests |-> s = r /\ others = {}]
    /\ UNCHANGED <<statsVars, attributes, endpoint, at, got, rate, body>>

\* open and json.load: all of the file as it is now, or an exception.
ReadFile(r) ==
    /\ serving[r] = "refresh"
    /\ got' = [got EXCEPT ![r] = stats_json]
    /\ serving' = [serving EXCEPT ![r] = IF stats_json = Unreadable THEN "reset" ELSE "copy"]
    /\ UNCHANGED <<statsVars, attributes, endpoint, at, rate, body, historyVars>>

\* The next assignment in the order given; after the last one r goes on.
Assign(r, order, value, next) ==
    /\ attributes' = [attributes EXCEPT ![order[at[r] + 1]] = value]
    /\ at' = [at EXCEPT ![r] = (@ + 1) % Len(order)]
    /\ serving' = IF at'[r] = 0 THEN [serving EXCEPT ![r] = next] ELSE serving
    /\ UNCHANGED <<statsVars, endpoint, got, rate, body, historyVars>>

ResetForgetsStreams(r) ==
    /\ serving[r] = "reset"
    /\ Assign(r, ResetOrder, IF at[r] = 4 THEN attributes["streams"] ELSE {Unreadable}, "answer")

Reset(r) == serving[r] = "reset" /\ Assign(r, ResetOrder, {Unreadable}, "answer")

Copy(r) == serving[r] = "copy" /\ Assign(r, CopyOrder, {got[r]}, "elapsed")

\* The rate is computed from the attributes start_time and messages_processed,
\* whoever assigned them last, and from now_unix of the file that r has read.
ReadStart(r) ==
    /\ serving[r] = "elapsed"
    /\ rate' = [rate EXCEPT ![r] = {got[r]} \cup attributes["start_time"]]
    /\ serving' = [serving EXCEPT ![r] = "divide"]
    /\ UNCHANGED <<statsVars, attributes, endpoint, at, got, body, historyVars>>

\* The number of messages, which a rate of 0.0 (elapsed <= 0) does not need.
ReadProcessed(r) ==
    /\ serving[r] = "divide"
    /\ \E read \in {{}, attributes["messages_processed"]} : rate' = [rate EXCEPT ![r] = @ \cup read]
    /\ serving' = [serving EXCEPT ![r] = "rate"]
    /\ UNCHANGED <<statsVars, attributes, endpoint, at, got, body, historyVars>>

AssignRate(r) ==
    /\ serving[r] = "rate"
    /\ attributes' = [attributes EXCEPT !["msgs_per_sec"] = rate[r]]
    /\ rate' = [rate EXCEPT ![r] = {}]
    /\ got' = [got EXCEPT ![r] = Unreadable]
    /\ serving' = [serving EXCEPT ![r] = "answer"]
    /\ UNCHANGED <<statsVars, endpoint, at, body, historyVars>>

\* The endpoint, which makes no difference before, reads its next attribute.  If
\* that is healthy, and False, the status becomes 503 and start_time is not read.
ReadBack(r) ==
    /\ serving[r] = "answer"
    /\ \E e \in IF at[r] = 0 THEN {"health", "status"} ELSE {endpoint[r]} :
          LET f == ReadOrder(e)[at[r] + 1]
              status == IF f = "healthy" /\ attributes[f] = {Unreadable} THEN "health 503" ELSE e
          IN  /\ body' = [body EXCEPT ![r] = @ \cup attributes[f]]
              /\ endpoint' = [endpoint EXCEPT ![r] = status]
              /\ at' = [at EXCEPT ![r] = (@ + 1) % Len(ReadOrder(status))]
    /\ serving' = IF at'[r] = 0 THEN [serving EXCEPT ![r] = "respond"] ELSE serving
    /\ UNCHANGED <<statsVars, attributes, got, rate, historyVars>>

\* The answer goes out.
Respond(r) ==
    /\ serving[r] = "respond"
    /\ serving' = [serving EXCEPT ![r] = "idle"]
    /\ endpoint' = [endpoint EXCEPT ![r] = "status"]
    /\ body' = [body EXCEPT ![r] = {}]
    /\ solo' = [solo EXCEPT ![r] = FALSE]
    /\ UNCHANGED <<statsVars, attributes, at, got, rate, recent>>

Serve(r) ==
    \/ Begin(r) \/ ReadFile(r) \/ Reset(r) \/ Copy(r)
    \/ ReadStart(r) \/ ReadProcessed(r) \/ AssignRate(r)
    \/ ReadBack(r) \/ Respond(r)

LiveNext == WriteStats \/ LoseStats \/ \E r \in Requests : Serve(r)

LiveSpec == LiveInit /\ [][LiveNext]_liveVars

-----------------------------------------------------------------------------
(* Properties.                                                             *)

\* Every attribute and every part of an answer stems from some content.
LiveTypeOK ==
    /\ stats_json \in Contents
    /\ writes \in 0..MaxSnapshots
    /\ attributes \in [Attributes -> SUBSET Contents]
    /\ endpoint \in [Requests -> Endpoints]
    /\ serving \in [Requests -> {"idle", "refresh", "reset", "copy", "elapsed", "divide",
                                 "rate", "answer", "respond"}]
    /\ at \in [Requests -> 0..5]
    /\ got \in [Requests -> Contents]
    /\ rate \in [Requests -> SUBSET Contents]
    /\ body \in [Requests -> SUBSET Contents]
    /\ recent \subseteq Contents
    /\ solo \in [Requests -> BOOLEAN]

\* However the requests interleave, an answer shows nothing that stats.json had
\* before the last moment without a request in flight: a slow thread may put an
\* older snapshot over a newer one, but that lasts no longer than an unbroken
\* stretch of requests.  The answer of a request that was never in flight with
\* another is one content that stats.json had since it began.  The attributes
\* outlive a request, so one that a refresh leaves alone shows the past.
AnswerIsCurrent ==
    /\ LiveTypeOK
    /\ \A r \in Requests : serving[r] = "respond" =>
          /\ body[r] \subseteq recent
          /\ solo[r] => \E n \in recent : body[r] = {n}
=============================================================================
