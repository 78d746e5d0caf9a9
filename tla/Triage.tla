------------------------------- MODULE Triage -------------------------------
(***************************************************************************)
(* TriageAgent.investigate (python/agent/triage.py): the loop in which a   *)
(* language model asks for tools, one per turn, until it answers with a    *)
(* memo.                                                                   *)
(*                                                                         *)
(* The model is external: a completion is any of the replies that _parse   *)
(* tells apart, or no reply at all (ClaudeCliClient.complete raises).      *)
(***************************************************************************)
EXTENDS Naturals, Sequences, FiniteSets

CONSTANTS MaxTurns,   \* max_turns
          Allowed,    \* allowed_hypotheses
          Other       \* a hypothesis the model may come up with, not allowed

ASSUME TurnsAssumption == MaxTurns \in Nat
ASSUME HypothesisAssumption ==
    Other \notin Allowed /\ {"unknown", "no_conclusion"} \cap Allowed = {}

VARIABLES
    step,          \* "start", "ask", "again", "act", then "memo" or "raised"
    turn,          \* turns begun
    calls,         \* completions asked for
    conversation,  \* the messages so far: who says what
    reply,         \* what the model answered last
    log,           \* every answer of the model, in order
    memo           \* the memo investigate returned, or NoMemo

triageVars == <<step, turn, calls, conversation, reply, log, memo>>

-----------------------------------------------------------------------------
NoReply == [kind |-> "none"]
NoMemo == [hypothesis |-> "none"]

Hypotheses == Allowed \cup {Other, "unknown", "no_conclusion"}

\* What the model answers, by what _parse and the code behind it do with it: a
\* memo with some hypothesis, a tool call that works or whose error is fed back,
\* anything malformed, JSON that makes the agent itself raise (a tool name that
\* cannot be looked up, evidence that is no list), or a failing CLI.
Replies ==
    [kind : {"memo"}, hypothesis : Hypotheses]
        \cup [kind : {"tool", "tool_error", "malformed", "unhashable", "no_cli"}]

\* _parse or complete() raises, and nothing catches it.
Raises(r) == r.kind \in {"unhashable", "no_cli"}

IsTool(r) == r.kind \in {"tool", "tool_error"}

\* A message of the conversation, and what the user says to an answer of a kind.
Message(role, content) == [role |-> role, content |-> content]
Opening == Message("user", "investigate")
Feedback(kind) ==
    CASE kind = "tool" -> "result"
      [] kind = "tool_error" -> "error"
      [] OTHER -> "complaint"

\* The model's last answer and the feedback to it are appended.
Tell(feedback) ==
    conversation' = conversation \o <<Message("assistant", reply.kind), Message("user", feedback)>>

TriageInit ==
    /\ step = "start" /\ turn = 0 /\ calls = 0
    /\ conversation = << >>
    /\ reply = NoReply /\ log = << >> /\ memo = NoMemo

\* A memo the loop gives up with.
NoConclusion(reason) == [hypothesis |-> "no_conclusion", evidence |-> reason]

Return(m) ==
    /\ step' = "memo"
    /\ memo' = m

-----------------------------------------------------------------------------
\* The domain card is fetched first; without one, DomainCardNotFoundError.
Start ==
    /\ step = "start"
    /\ \/ /\ step' = "ask"
          /\ conversation' = <<Opening>>
       \/ /\ step' = "raised"
          /\ UNCHANGED conversation
    /\ UNCHANGED <<turn, calls, reply, log, memo>>

\* A completion is asked for, and r is the answer.
Complete(r) ==
    /\ calls' = calls + 1
    /\ reply' = r
    /\ log' = Append(log, r.kind)

\* The first completion of a turn.
Ask ==
    /\ step = "ask"
    /\ turn < MaxTurns
    /\ turn' = turn + 1
    /\ \E r \in Replies :
          /\ Complete(r)
          /\ step' = CASE Raises(r) -> "raised"
                     [] r.kind = "malformed" -> "again"
                     [] OTHER -> "act"
    /\ UNCHANGED <<conversation, memo>>

\* The one retry of a turn: the malformed answer and a complaint are appended.
AskAgain ==
    /\ step = "again"
    /\ Tell("complaint")
    /\ \E r \in Replies :
          /\ Complete(r)
          /\ CASE Raises(r) -> step' = "raised" /\ UNCHANGED memo
               [] r.kind = "malformed" -> Return(NoConclusion("malformed_llm_response"))
               [] OTHER -> step' = "act" /\ UNCHANGED memo
    /\ UNCHANGED turn

FinalizeTrusting(h) == [hypothesis |-> h, evidence |-> "model"]

\* _finalize_memo: a hypothesis outside the allowed set becomes "unknown", and
\* goes into the evidence.
Finalize(h) ==
    IF h \in Allowed \cup {"unknown"}
    THEN [hypothesis |-> h, evidence |-> "model"]
    ELSE [hypothesis |-> "unknown", evidence |-> h]

Conclude ==
    /\ step = "act"
    /\ reply.kind = "memo"
    /\ Return(Finalize(reply.hypothesis))
    /\ UNCHANGED <<turn, calls, conversation, reply, log>>

RunToolFirstAnswer ==
    /\ step = "act"
    /\ IsTool(reply)
    /\ LET retried == calls > 1 /\ log[calls - 1] = "malformed"
           raw == IF retried THEN log[calls - 1] ELSE reply.kind
       IN  conversation' = conversation \o
              <<Message("assistant", raw), Message("user", Feedback(reply.kind))>>
    /\ step' = "ask"
    /\ UNCHANGED <<turn, calls, reply, log, memo>>

\* The tool runs; its result, or its error, is the next user message.
RunTool ==
    /\ step = "act"
    /\ IsTool(reply)
    /\ Tell(Feedback(reply.kind))
    /\ step' = "ask"
    /\ UNCHANGED <<turn, calls, reply, log, memo>>

GiveUpOffByOne ==
    /\ step = "ask"
    /\ turn > MaxTurns
    /\ Return(NoConclusion("max_turns_exceeded"))
    /\ UNCHANGED <<turn, calls, conversation, reply, log>>

\* The loop has used up its turns.
GiveUp ==
    /\ step = "ask"
    /\ turn = MaxTurns
    /\ Return(NoConclusion("max_turns_exceeded"))
    /\ UNCHANGED <<turn, calls, conversation, reply, log>>

TriageNext == Start \/ Ask \/ AskAgain \/ Conclude \/ RunTool \/ GiveUp

\* The CLI has a timeout, so every step of the loop ends.
TriageSpec == TriageInit /\ [][TriageNext]_triageVars /\ WF_triageVars(TriageNext)

-----------------------------------------------------------------------------
(* Properties.                                                             *)

Sayings ==
    {"investigate", "complaint", "result", "error"} \cup {r.kind : r \in Replies}
Said == [role : {"user", "assistant"}, content : Sayings]

\* Every variable keeps its type; a turn asks for at most two completions.
TriageTypeOK ==
    /\ step \in {"start", "ask", "again", "act", "memo", "raised"}
    /\ turn \in 0..MaxTurns
    /\ calls \in turn..(2 * turn)
    /\ conversation \in Seq(Said)
    /\ reply \in Replies \cup {NoReply}
    /\ Len(log) = calls

GaveUp(reason) == memo = NoConclusion(reason)

Spent == {i \in 1..Len(log) : log[i] \in {"tool", "tool_error"}}

\* The first n answers are in the conversation, each once and in order, and each
\* is followed by what became of it.
Told(n) ==
    /\ Len(conversation) = 2 * n + 1
    /\ conversation[1] = Opening
    /\ \A i \in 1..n : /\ conversation[2 * i] = Message("assistant", log[i])
                      /\ conversation[2 * i + 1] = Message("user", Feedback(log[i]))

\* Whenever a turn begins the model has before it all that it said and what came
\* of it, and before it acts all but the last answer.  The answers of a turn are
\* appended at two places, and what RunTool appends is the second one if there
\* was a retry.
ModelIsTold ==
    /\ step = "ask" => Told(Len(log))
    /\ step \in {"again", "act"} => Told(Len(log) - 1)

\* "no_conclusion" is reserved for the agent: it is in the memo exactly when the
\* loop gave up, for the reason the answers bear out (two malformed answers in a
\* row, or every turn spent on a tool), and whatever the model claims, the
\* hypothesis is otherwise one that evaluation knows.
MemoIsJustified ==
    /\ TriageTypeOK
    /\ step = "memo" =>
          \/ /\ GaveUp("malformed_llm_response")
             /\ \A i \in (Len(log) - 1)..Len(log) : log[i] = "malformed"
          \/ /\ GaveUp("max_turns_exceeded")
             /\ Cardinality(Spent) = MaxTurns
          \/ /\ memo.hypothesis \in Allowed \cup {"unknown"}
             /\ log[Len(log)] = "memo"
=============================================================================
