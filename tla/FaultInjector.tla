--------------------------- MODULE FaultInjector ---------------------------
(***************************************************************************)
(* FaultInjector::inject (include/replay/fault_injector.hpp): reads a      *)
(* recording, changes it as a list of fault specs says, writes it, and     *)
(* writes the labels that detection is scored against.                     *)
(*                                                                         *)
(* A message is known by its position in the input, which is also its      *)
(* time.  A value is symbolic: which fault made it, from which message's   *)
(* original value, and how far up the ramp it is.  An onset left to the    *)
(* generator is any it may draw.  Reading and writing are one step each,   *)
(* with every outcome an ofstream reports or hides; an earlier run may     *)
(* have left files under the same names.                                   *)
(***************************************************************************)
EXTENDS Integers, Sequences, FiniteSets

CONSTANTS Streams,
          MaxMessages,    \* bound: messages in the input
          MaxSpecs,       \* bound: faults to inject
          MaxDuration,    \* bound: a fault's duration
          Failures        \* what may fail: "write", "flush", "labels"

ASSUME InjectAssumption ==
    /\ MaxMessages \in Nat /\ MaxSpecs \in Nat /\ MaxDuration \in Nat
    /\ Failures \subseteq {"write", "flush", "labels"}

VARIABLES
    stage,     \* "read", "apply", "labels" or "done"
    input,     \* the stream of every message read, in write order
    applied,   \* the specs that had an effect, with the onset each one got
    taken,     \* how many specs have been looked at
    value,     \* per message: its value
    dropped,   \* the messages to leave out
    labels,    \* the labels collected
    output,    \* the output file: its messages (each has its place), or OldOutput
    labelled,  \* the labels file: its lines, or OldLabels
    result,    \* what inject returned
    lost       \* history: whether a failed flush of the output went unnoticed

memory == <<input, applied, taken, value, dropped, labels>>
injectVars == <<stage, memory, output, labelled, result, lost>>

-----------------------------------------------------------------------------
Types == {"spike", "drift", "stuck_at_value", "dropout"}
kAutoOnset == -1
OldOutput == {[at |-> 0]}
OldLabels == <<[at |-> 0]>>

Specs == [type : Types, stream_id : Streams,
          onset_index : kAutoOnset..(MaxMessages - 1), duration : 0..MaxDuration]

\* A value: fault by on the original of message of, step steps up a ramp of dur.
Value(by, of, step, dur) == [by |-> by, of |-> of, step |-> step, dur |-> dur]
Original(g) == Value("none", g, 0, 0)

\* The index of message g among the messages of its stream, and back (idx).
IndexOf(g) == Cardinality({h \in 1..(g - 1) : input[h] = input[g]})
Length(s) == Cardinality({g \in DOMAIN input : input[g] = s})
Idx(s, j) == CHOOSE g \in DOMAIN input : input[g] = s /\ IndexOf(g) = j

InjectInit ==
    /\ stage = "read"
    /\ input = << >> /\ applied = << >> /\ taken = 0
    /\ value = << >> /\ dropped = {} /\ labels = << >>
    /\ output = OldOutput /\ labelled = OldLabels
    /\ result = FALSE /\ lost = FALSE

Return(r) == stage' = "done" /\ result' = r

-----------------------------------------------------------------------------
\* The whole input is read, up to its end or a truncated record.
Read ==
    /\ stage = "read"
    /\ \E n \in 0..MaxMessages : input' \in [1..n -> Streams]
    /\ value' = [g \in DOMAIN input' |-> Original(g)]
    /\ stage' = "apply"
    /\ UNCHANGED <<applied, taken, dropped, labels, output, labelled, result, lost>>

\* The input cannot be replayed, or memory runs out: inject returns false.
Throws ==
    /\ stage \in {"read", "apply"}
    /\ Return(FALSE)
    /\ UNCHANGED <<memory, output, labelled, lost>>

\* The onsets a spec may get.
Onsets(spec) ==
    IF spec.onset_index # kAutoOnset THEN {spec.onset_index}
    ELSE 0..(IF Length(spec.stream_id) >= spec.duration
             THEN Length(spec.stream_id) - spec.duration ELSE 0)

HasEffect(spec, onset) ==
    Length(spec.stream_id) > 0 /\ spec.duration > 0 /\ onset < Length(spec.stream_id)

SkipSpec(spec, onset) ==
    /\ stage = "apply" /\ taken < MaxSpecs
    /\ ~HasEffect(spec, onset)
    /\ taken' = taken + 1
    /\ UNCHANGED <<stage, input, applied, value, dropped, labels, output, labelled, result, lost>>

\* The last index the fault reaches: it may be cut off by the end.
LastIndex(spec, onset) ==
    IF onset + spec.duration - 1 >= Length(spec.stream_id)
    THEN Length(spec.stream_id) - 1 ELSE onset + spec.duration - 1

FaultyFromCurrent(spec, onset, g) ==
    CASE spec.type = "spike" -> Value("spike", g, 1, 1)
      [] spec.type = "drift" -> Value("drift", g, IndexOf(g) - onset + 1, spec.duration)
      [] spec.type = "stuck_at_value" -> value[Idx(spec.stream_id, onset)]
      [] OTHER -> value[g]

\* The value that a fault gives to message g, from the original values.
Faulty(spec, onset, g) ==
    CASE spec.type = "spike" -> Value("spike", g, 1, 1)
      [] spec.type = "drift" -> Value("drift", g, IndexOf(g) - onset + 1, spec.duration)
      [] spec.type = "stuck_at_value" -> Original(Idx(spec.stream_id, onset))
      [] OTHER -> value[g]

\* One spec: its label, then every sample from onset to last.
ApplySpec(spec, onset) ==
    /\ stage = "apply" /\ taken < MaxSpecs
    /\ HasEffect(spec, onset)
    /\ taken' = taken + 1
    /\ applied' = Append(applied, [spec EXCEPT !.onset_index = onset])
    /\ LET s == spec.stream_id
           reached == {g \in DOMAIN input :
                          input[g] = s /\ IndexOf(g) \in onset..LastIndex(spec, onset)}
       IN  /\ labels' = Append(labels, [stream_id |-> s, type |-> spec.type,
                                        start |-> Idx(s, onset),
                                        end |-> Idx(s, LastIndex(spec, onset))])
           /\ value' = [g \in DOMAIN input |->
                           IF g \in reached THEN Faulty(spec, onset, g) ELSE value[g]]
           /\ dropped' = IF spec.type = "dropout" THEN dropped \cup reached ELSE dropped
    /\ UNCHANGED <<stage, input, output, labelled, result, lost>>

Apply == \E spec \in Specs : \E onset \in Onsets(spec) :
             SkipSpec(spec, onset) \/ ApplySpec(spec, onset)

KeptWithDropouts == {[at |-> g, value |-> value[g]] : g \in DOMAIN input}

\* The messages of the output, each with its value, and the first n of the
\* input's messages among them.
Kept == {[at |-> g, value |-> value[g]] : g \in DOMAIN input \ dropped}
KeptUpTo(n) == {m \in Kept : m.at <= n}

\* The output is written and closed.
WriteOutput ==
    /\ stage = "apply"
    /\ output' = Kept
    /\ stage' = "labels"
    /\ UNCHANGED <<memory, labelled, result, lost>>

\* The file cannot be opened, or a write fails: some of it may be in the file.
WriteFails ==
    /\ stage = "apply" /\ "write" \in Failures
    /\ UNCHANGED output \/ \E n \in 0..Len(input) : output' = KeptUpTo(n)
    /\ Return(FALSE)
    /\ UNCHANGED <<memory, labelled, lost>>

\* The buffer cannot be flushed when the file is closed, which close() hides.
FlushFails ==
    /\ stage = "apply" /\ "flush" \in Failures
    /\ \E n \in 0..Len(input) : output' = KeptUpTo(n)
    /\ lost' = TRUE
    /\ stage' = "labels"
    /\ UNCHANGED <<memory, labelled, result>>

WriteLabels ==
    /\ stage = "labels"
    /\ labelled' = labels
    /\ Return(TRUE)
    /\ UNCHANGED <<memory, output, lost>>

\* A line that breaks off: within its last number, of which the digits that are
\* there make a smaller one, or earlier, where it lacks a field.
UnreadableLine == [at |-> 1]
TornLines(l) == {UnreadableLine} \cup {[l EXCEPT !.end = n] : n \in 0..(l.end - 1)}

\* The labels cannot be opened, written or flushed; the file may break off.
LabelsFail ==
    /\ stage = "labels" /\ "labels" \in Failures
    /\ \/ UNCHANGED labelled
       \/ \E n \in 0..Len(labels) : labelled' = SubSeq(labels, 1, n)
       \/ \E k \in DOMAIN labels : \E line \in TornLines(labels[k]) :
             labelled' = Append(SubSeq(labels, 1, k - 1), line)
    /\ Return(FALSE)
    /\ UNCHANGED <<memory, output, lost>>

\* read_labels(): every line with four fields that parse; others are skipped.
ReadLabels ==
    LET read[k \in 0..Len(labelled)] ==
            IF k = 0 THEN << >>
            ELSE IF labelled[k] = UnreadableLine THEN read[k - 1]
            ELSE Append(read[k - 1], labelled[k])
    IN  read[Len(labelled)]

InjectNext ==
    \/ Read \/ Throws \/ Apply
    \/ WriteOutput \/ WriteFails \/ FlushFails \/ WriteLabels \/ LabelsFail

InjectSpec == InjectInit /\ [][InjectNext]_injectVars

-----------------------------------------------------------------------------
(* Properties.                                                             *)

\* Every variable keeps its type.
InjectTypeOK ==
    /\ stage \in {"read", "apply", "labels", "done"}
    /\ DOMAIN input \subseteq 1..MaxMessages
    /\ taken \in 0..MaxSpecs /\ Len(applied) <= taken
    /\ DOMAIN value = DOMAIN input
    /\ \A g \in DOMAIN value : /\ value[g].of \in DOMAIN input
                               /\ value[g].step \in 0..value[g].dur
    /\ dropped \subseteq DOMAIN input
    /\ Len(labels) = Len(applied)
    /\ result \in BOOLEAN /\ lost \in BOOLEAN

Covers(k, g) ==
    /\ applied[k].stream_id = input[g]
    /\ IndexOf(g) - applied[k].onset_index \in 0..(applied[k].duration - 1)

Changing(g) == {k \in DOMAIN applied : Covers(k, g) /\ applied[k].type # "dropout"}

Reference(g) ==
    IF Changing(g) = {} THEN Original(g)
    ELSE LET k == CHOOSE k \in Changing(g) : \A l \in Changing(g) : l <= k
             onset == applied[k].onset_index
         IN  CASE applied[k].type = "spike" -> Value("spike", g, 1, 1)
               [] applied[k].type = "drift" ->
                     Value("drift", g, IndexOf(g) - onset + 1, applied[k].duration)
               [] OTHER -> Original(Idx(input[g], onset))

\* What a message becomes, from the list of faults alone: those that cover it are
\* the ones whose window of duration samples it falls in; it is gone if one of
\* them is a dropout, its value is what the last of the others makes of the
\* original, and otherwise it is bit-identical.  This is the taxonomy at the head
\* of the file but for a drift that the end of its stream cuts off: its ramp is
\* still over the whole duration, so it ends below magnitude.
ValuesMatchReference ==
    /\ \A g \in DOMAIN input : value[g] = Reference(g)
    /\ dropped = {g \in DOMAIN input :
                     \E k \in DOMAIN applied : Covers(k, g) /\ applied[k].type = "dropout"}

\* The first n messages as they ought to be in the output.
ReferenceOutput(n) ==
    {[at |-> g, value |-> Reference(g)] :
        g \in {h \in DOMAIN input : h <= n /\ \A k \in DOMAIN applied :
                                    Covers(k, h) => applied[k].type # "dropout"}}

\* The output file is that of an earlier run or has the first of the messages as
\* they ought to be, and all of them once inject has turned to the labels, but
\* for a failed flush that nobody noticed.
OutputMatchesReference ==
    /\ output = OldOutput \/ \E n \in 0..Len(input) : output = ReferenceOutput(n)
    /\ (stage = "labels" \/ labelled # OldLabels \/ result) =>
          lost \/ output = ReferenceOutput(Len(input))

\* The labels are the truth: the k-th brackets, within its stream, exactly the
\* samples that the k-th fault covers; and whatever fails, the labels file is not
\* touched before the output they describe.
LabelsAreTrue ==
    /\ \A k \in DOMAIN labels : \A g \in DOMAIN input :
          input[g] = labels[k].stream_id =>
              (Covers(k, g) <=> g \in labels[k].start..labels[k].end)
    /\ labelled # OldLabels => output # OldOutput

\* What read_labels makes of the file: all of the labels if inject returned true,
\* and otherwise some of the first of them, of which the last may end too early
\* (read_labels cannot tell a number that breaks off).
LabelsReadBack ==
    (stage = "done" /\ labelled # OldLabels) =>
        /\ result => ReadLabels = labels
        /\ Len(ReadLabels) <= Len(labels)
        /\ \A k \in DOMAIN ReadLabels :
              \/ ReadLabels[k] = labels[k]
              \/ k = Len(ReadLabels) /\ ReadLabels[k] \in TornLines(labels[k])

\* An injection is what its labels say: every sample is as the faults leave it
\* (ValuesMatchReference) and so is the output file (OutputMatchesReference), every
\* label brackets its fault (LabelsAreTrue), and the labels survive their file
\* (LabelsReadBack).
InjectionIsLabelled ==
    /\ InjectTypeOK /\ ValuesMatchReference /\ OutputMatchesReference
    /\ LabelsAreTrue /\ LabelsReadBack
=============================================================================
