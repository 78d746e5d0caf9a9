----------------------------- MODULE MCServices -----------------------------
(***************************************************************************)
(* The smaller parts around the daemon, checked in one run: the metrics    *)
(* exporter, the triage agent, the sidecar's backoff and the live smoke    *)
(* tool.  They share nothing, so a behaviour is one of component alone,    *)
(* and the others keep their initial state.                                *)
(***************************************************************************)
EXTENDS Exporter, Triage, Backoff, LiveSmoke

VARIABLE component

-----------------------------------------------------------------------------
Components == {"exporter", "triage", "backoff", "smoke"}

Init ==
    /\ component \in Components
    /\ ExporterInit /\ TriageInit /\ BackoffInit /\ SmokeInit
    /\ component # "backoff" => base = 1 /\ capDelay = 1

\* A step A of component c, which leaves the variables rest to themselves.
Alone(c, A, rest) == component = c /\ A /\ UNCHANGED <<component, rest>>

Smoke(A) == Alone("smoke", A, <<exporterVars, triageVars, backoffVars>>)
TriageStep == Alone("triage", TriageNext, <<exporterVars, backoffVars, smokeVars>>)

Next ==
    \/ Alone("exporter", ExporterNext, <<triageVars, backoffVars, smokeVars>>)
    \/ TriageStep
    \/ Alone("backoff", BackoffNext, <<exporterVars, triageVars, smokeVars>>)
    \/ Smoke(SmokeNext)

vars == <<component, exporterVars, triageVars, backoffVars, smokeVars>>

\* The fairness of Triage and of LiveSmoke, and none of the others.
Spec ==
    /\ Init /\ [][Next]_vars
    /\ WF_vars(TriageStep)
    /\ WF_vars(Smoke(SmokeCallback)) /\ WF_vars(Smoke(SmokeConsumer)) /\ WF_vars(Smoke(SmokeMain))

\* An investigation of the triage agent ends, whatever the model answers.
InvestigationEnds == (component = "triage") ~> (step \in {"memo", "raised"})

\* The live smoke tool ends and prints its summary, whatever the feed and the
\* consumer are doing when its time is up: main waits for the socket and for
\* the consumer, and neither waits for main.
SmokeToolEnds == (component = "smoke") ~> (mainState = "done")
=============================================================================
