----------------------------- MODULE MCLibrary -----------------------------
(***************************************************************************)
(* The single-threaded C++ code and the live stats of the API, checked in  *)
(* one run.  These parts share nothing, so their interleavings are of no   *)
(* interest: a behaviour is one of component alone, and the others keep    *)
(* their initial state.                                                    *)
(***************************************************************************)
EXTENDS PoolAllocator, Adsb, Gridradar, Calendar, Replay, FaultInjector,
        Rules, Baseline, Conformal, Cusum, LiveStats, TLC

VARIABLE component

-----------------------------------------------------------------------------
Components == {"pool", "adsb", "gridradar", "calendar", "replay", "inject", "rules",
               "baseline", "conformal", "cusum", "live"}

Init ==
    /\ component \in Components
    /\ PoolInit /\ AdsbInit /\ GridInit /\ CalendarInit /\ ReplayInit /\ InjectInit
    /\ RulesInit /\ BaselineInit /\ ConformalInit /\ CusumInit /\ LiveInit
    /\ component # "conformal" => capacity_ = 0
    /\ component # "pool" => storage_

\* The variables of the feed adapters, of the files, of the detection layers.
feedVars == <<adsbVars, gridVars, calendarVars>>
fileVars == <<streamVars, injectVars>>
layerVars == <<rulesVars, baselineVars, conformalVars, cusumVars>>

\* A step A of component c, which leaves the variables rest to themselves.
Alone(c, A, rest) == component = c /\ A /\ UNCHANGED <<component, rest>>

Feed(c, A, rest) == Alone(c, A, <<poolVars, fileVars, layerVars, liveVars, rest>>)
File(c, A, rest) == Alone(c, A, <<poolVars, feedVars, layerVars, liveVars, rest>>)
Layer(c, A, rest) == Alone(c, A, <<poolVars, feedVars, fileVars, liveVars, rest>>)

Next ==
    \/ Alone("pool", PoolNext, <<feedVars, fileVars, layerVars, liveVars>>)
    \/ Feed("adsb", AdsbNext, <<gridVars, calendarVars>>)
    \/ Feed("gridradar", GridNext, <<adsbVars, calendarVars>>)
    \/ Feed("calendar", CalendarNext, <<adsbVars, gridVars>>)
    \/ File("replay", ReplayNext, injectVars)
    \/ File("inject", InjectNext, streamVars)
    \/ Layer("rules", RulesNext, <<baselineVars, conformalVars, cusumVars>>)
    \/ Layer("baseline", BaselineNext, <<rulesVars, conformalVars, cusumVars>>)
    \/ Layer("conformal", ConformalNext, <<rulesVars, baselineVars, cusumVars>>)
    \/ Layer("cusum", CusumNext, <<rulesVars, baselineVars, conformalVars>>)
    \/ Alone("live", LiveNext, <<poolVars, feedVars, fileVars, layerVars>>)

vars == <<component, poolVars, feedVars, fileVars, layerVars, liveVars>>

\* Aircraft, the streams of a recording and the requests of the API are told
\* apart only by equality.
Symmetry == Permutations(Hexes) \cup Permutations(Streams) \cup Permutations(Requests)

Spec == Init /\ [][Next]_vars
=============================================================================
