------------------------------- MODULE Rules -------------------------------
(***************************************************************************)
(* The daemon's startup (parse_args and the head of main,                  *)
(* src/feed/coinbase_daemon_main.cpp) and the rule layer it sets up        *)
(* (include/detect/rules.hpp): the command line, the rules files, and then *)
(* RuleChecker::check on each sample the consumer pops.                    *)
(*                                                                         *)
(* The command line and the lines of the files are the environment's.  A   *)
(* line the loader skips changes nothing and is left out.  --data-dir,     *)
(* --endpoint and --stats-interval-ms only store their value and are one   *)
(* action.  strtoul() makes any text a stream id.  Values and instants are *)
(* small integers; strtod() also reads "nan", which compares as false with *)
(* everything and so passes the loader's test of min against max.  So does *)
(* the price of a sample, which parse_decimal reads the same way.          *)
(***************************************************************************)
EXTENDS Integers, Sequences

CONSTANTS NaN, Absent,    \* model values: not a number; a field not set
          StreamIds, Mins, Maxs, Rates,   \* what rules files may hold
          ProductIds,     \* the ids that --product BTC-USD=... may name
          Values,         \* the values of samples, perhaps NaN
          MaxArgs,        \* bound: arguments
          MaxChecks,      \* bound: samples checked
          MaxStamp        \* bound: instants

ASSUME RulesAssumption ==
    /\ MaxArgs \in Nat /\ MaxChecks \in Nat /\ MaxStamp \in Nat
    /\ Values \cup Mins \cup Maxs \cup Rates \subseteq Int \cup {NaN}

VARIABLES
    phase,      \* "args", "rules", "open", "running", or "exit" (return 2)
    args,       \* arguments parsed so far
    products,   \* opt.products: pairs <<name, id>>, one for each name
    paths,      \* how many --rules the command line has
    fields,     \* the fields the current file has set so far
    rules_,     \* the rule and the previous sample of each stream that has one
    loaded,     \* the configurations of the files loaded, in order
    checks      \* the samples checked, each with its verdict

rulesVars == <<phase, args, products, paths, fields, rules_, loaded, checks>>

-----------------------------------------------------------------------------
Less(a, b) == a # NaN /\ b # NaN /\ a < b
NotLess(a, b) == a # NaN /\ b # NaN /\ a >= b

\* The values a line may give each of the four required fields.
Field == [stream_id |-> StreamIds, min |-> Mins, max |-> Maxs, max_rate_of_change |-> Rates]

DefaultProducts == {<<"BTC-USD", 10>>, <<"ETH-USD", 11>>}

Unset == [key \in DOMAIN Field |-> Absent]

\* The state of a stream whose rule was just registered.
State(cfg) == [cfg |-> cfg, has_prev |-> FALSE, prev_value |-> 0, prev_ts_ns |-> 0]

RulesInit ==
    /\ phase = "args" /\ args = 0 /\ products = {} /\ paths = 0
    /\ fields = Unset /\ rules_ = [s \in {} |-> Absent]
    /\ loaded = << >> /\ checks = << >>

Fail ==
    /\ phase' = "exit"
    /\ UNCHANGED <<args, products, paths, fields, rules_, loaded, checks>>

Argument == phase = "args" /\ args < MaxArgs /\ args' = args + 1

\* --rules PATH
RulesArg ==
    /\ Argument
    /\ paths' = paths + 1
    /\ UNCHANGED <<phase, products, fields, rules_, loaded, checks>>

\* --product NAME=ID: a later one of the same name replaces the id.
ProductArg(name, id) ==
    /\ Argument
    /\ products' = {entry \in products : entry[1] # name} \cup {<<name, id>>}
    /\ UNCHANGED <<phase, paths, fields, rules_, loaded, checks>>

\* --data-dir, --endpoint, --stats-interval-ms
OtherArg ==
    /\ Argument
    /\ UNCHANGED <<phase, products, paths, fields, rules_, loaded, checks>>

\* An unknown argument, a flag without its value, or a --product without "=".
BadArg == phase = "args" /\ args < MaxArgs /\ Fail

ArgsDone ==
    /\ phase = "args"
    /\ phase' = "rules"
    /\ products' = IF products = {} THEN DefaultProducts ELSE products
    /\ UNCHANGED <<args, paths, fields, rules_, loaded, checks>>

Loading == phase = "rules" /\ Len(loaded) < paths

\* A line "key: val": the later of two lines for one key counts.
ReadLine(key, val) ==
    /\ Loading
    /\ fields' = [fields EXCEPT ![key] = val]
    /\ UNCHANGED <<phase, args, products, paths, rules_, loaded, checks>>

\* The file cannot be opened (before its first line), or a value of one of the
\* four fields does not parse.
LoadFails == Loading /\ Fail

\* No field is missing, and not min >= max.
Accepted ==
    /\ \A key \in DOMAIN fields : fields[key] # Absent
    /\ ~NotLess(fields.min, fields.max)

AddRuleOnce(cfg) ==
    [s \in DOMAIN rules_ \cup {cfg.stream_id} |->
        IF s \in DOMAIN rules_ THEN rules_[s] ELSE State(cfg)]

\* add_rule(): registers or replaces the rule, and forgets the previous sample.
AddRule(cfg) ==
    [s \in DOMAIN rules_ \cup {cfg.stream_id} |->
        IF s = cfg.stream_id THEN State(cfg) ELSE rules_[s]]

\* The end of the file: load_rule_config throws, or its configuration is added.
EndOfFile ==
    /\ Loading
    /\ \/ ~Accepted /\ Fail
       \/ /\ Accepted
          /\ rules_' = AddRule(fields)
          /\ loaded' = Append(loaded, fields)
          /\ fields' = Unset
          /\ UNCHANGED <<phase, args, products, paths, checks>>

RulesDone ==
    /\ phase = "rules" /\ Len(loaded) = paths
    /\ phase' = "open"
    /\ UNCHANGED <<args, products, paths, fields, rules_, loaded, checks>>

\* alerts.jsonl is opened for appending, or the daemon returns.
OpenAlerts ==
    /\ phase = "open"
    /\ \/ Fail
       \/ /\ phase' = "running"
          /\ UNCHANGED <<args, products, paths, fields, rules_, loaded, checks>>

Abs(n) == IF n < 0 THEN -n ELSE n

\* Whether |to - from| / dt is above the rule's rate.
TooFast(cfg, from, to, dt) ==
    /\ NaN \notin {cfg.max_rate_of_change, from, to}
    /\ Abs(to - from) > cfg.max_rate_of_change * dt

\* What check() returns for a stream in state st: bounds come before the rate.
RuleResult(st, value, ts_ns) ==
    IF Less(value, st.cfg.min) \/ Less(st.cfg.max, value) THEN "kOutOfBounds"
    ELSE IF /\ st.has_prev /\ ts_ns > st.prev_ts_ns
            /\ TooFast(st.cfg, st.prev_value, value, ts_ns - st.prev_ts_ns)
    THEN "kRateViolation"
    ELSE "kOk"

NextStateIfOk(st, value, ts_ns) ==
    IF RuleResult(st, value, ts_ns) # "kOk" THEN st
    ELSE [cfg |-> st.cfg, has_prev |-> TRUE, prev_value |-> value, prev_ts_ns |-> ts_ns]

\* The sample becomes the previous one whatever the result, and also when it
\* is late.
NextState(st, value, ts_ns) ==
    [cfg |-> st.cfg, has_prev |-> TRUE, prev_value |-> value, prev_ts_ns |-> ts_ns]

\* check(), on a message.
Check(stream_id, value, ts_ns) ==
    /\ phase = "running" /\ Len(checks) < MaxChecks
    /\ LET Record(result) ==
               checks' = Append(checks, [stream_id |-> stream_id, value |-> value,
                                         ts_ns |-> ts_ns, result |-> result])
       IN  \/ stream_id \notin DOMAIN rules_ /\ Record("kOk") /\ UNCHANGED rules_
           \/ /\ stream_id \in DOMAIN rules_
              /\ Record(RuleResult(rules_[stream_id], value, ts_ns))
              /\ rules_' = [rules_ EXCEPT ![stream_id] = NextState(@, value, ts_ns)]
    /\ UNCHANGED <<phase, args, products, paths, fields, loaded>>

RulesNext ==
    \/ RulesArg \/ OtherArg \/ BadArg \/ ArgsDone
    \/ \E id \in ProductIds : ProductArg("BTC-USD", id)
    \/ \E key \in DOMAIN Field : \E val \in Field[key] : ReadLine(key, val)
    \/ LoadFails \/ EndOfFile \/ RulesDone \/ OpenAlerts
    \* A message is of a stream that some product is mapped to.
    \/ \E entry \in products, v \in Values, t \in 1..MaxStamp : Check(entry[2], v, t)

RulesSpec == RulesInit /\ [][RulesNext]_rulesVars

-----------------------------------------------------------------------------
(* Properties.                                                             *)

\* Every variable keeps its type.
RulesTypeOK ==
    /\ phase \in {"args", "rules", "open", "running", "exit"}
    /\ args \in 0..MaxArgs /\ paths \in 0..args
    /\ products \subseteq {"BTC-USD", "ETH-USD"} \X (ProductIds \cup {10, 11})
    /\ \A key \in DOMAIN Field : fields[key] \in Field[key] \cup {Absent}
    /\ \A s \in DOMAIN rules_ : rules_[s].cfg.stream_id = s
    /\ Len(loaded) <= paths /\ Len(checks) <= MaxChecks

\* The position in loaded of the last rules file that names stream s, or 0.
LastFile(s) ==
    LET named == {i \in 1..Len(loaded) : loaded[i].stream_id = s}
    IN  IF named = {} THEN 0 ELSE CHOOSE i \in named : \A j \in named : j <= i

\* A daemon that runs has skipped no rules file ("fail loudly now rather than
\* run rule-less"): every sample it checks is reported out of bounds exactly
\* when it is below the min or above the max of the last file on the command
\* line that names its stream.  (A bound that reads "nan" rejects nothing.)
RulesInForce ==
    /\ RulesTypeOK
    /\ phase = "running" =>
          /\ Len(loaded) = paths
          /\ \A c \in {checks[i] : i \in 1..Len(checks)} :
                LET f == LastFile(c.stream_id)
                IN  c.result = "kOutOfBounds"
                      <=> /\ f > 0
                          /\ Less(c.value, loaded[f].min) \/ Less(loaded[f].max, c.value)

\* The positions of the samples of stream s, in the order they were checked.
OfStream(s) == {i \in 1..Len(checks) : checks[i].stream_id = s}

\* The samples of stream s after position i and up to j are numbers, raise
\* nothing, and come later than those from i on before them.
Quiet(s, i, j) ==
    \A l \in OfStream(s) : i < l /\ l <= j =>
        /\ checks[l].result = "kOk" /\ checks[l].value # NaN
        /\ \A k \in OfStream(s) : i <= k /\ k < l => checks[k].ts_ns < checks[l].ts_ns

\* The rate rule holds along a stretch and not only between neighbours: where a
\* stream's samples are numbers, come in order and raise nothing, the value has
\* moved by at most the allowed rate over the whole stretch, whatever came before
\* it (a violation, a late sample, one that is NaN, samples of other streams).
QuietRunIsSlow ==
    \A s \in DOMAIN rules_ : \A i, j \in OfStream(s) :
        i <= j /\ Quiet(s, i, j) =>
            ~TooFast(rules_[s].cfg, checks[i].value, checks[j].value,
                     checks[j].ts_ns - checks[i].ts_ns)
=============================================================================
