------------------------------ MODULE Telemetry ------------------------------
(***************************************************************************)
(* What runs on the plant's streams: the historian's sink (sink, module    *)
(* HistorianSink itself), and with it, one at a time, the Tennessee        *)
(* Eastman plant and its alarm watcher (alarms), the watchers of the       *)
(* reactor and the column (unit), the diagnostics runtime (diagnosis), its *)
(* online detector (detector), the signatures it compares (signatures),    *)
(* the answer cache behind the graph's deltas (cache) and the fleet of     *)
(* workers behind the queues (fleet).                                      *)
(*                                                                         *)
(* A behaviour is of one stage, chosen at the start.  A constant or a      *)
(* variable that two modules declare is declared once, and of the stage's  *)
(* module; the variables of HistorianSink move only in its stage, those of *)
(* the others stay None but in theirs.                                     *)
(***************************************************************************)
EXTENDS HistorianSink, Integers, Sequences

CONSTANTS
    None, Never, MaxRestarts, Debounce,
    MaxErrors,     \* bound: what fails in the stages alarms, unit and diagnosis
    \* PlantAlarms
    Alarms, MaxResets, MaxUnread,
    \* UnitWatchers
    ClaimTtl,
    \* DiagnosticsRuntime
    After, Cooldown, RefreshEvery, MaxAlerts, MaxStored, MaxSeconds,
    \* AnomalyDetector
    Tags, Retained, Deviations, T2Limit, SpeLimit, Persistence, WindowSize, EventCooldown,
    \* FaultSignatures: the names of the tags, their order, and windows of telemetry
    Names, Before(_, _), Windows,
    \* AnswerCache
    Questions, Nodes, Cites, Equipment, Ahead, Alike, Askers, Agents, NoEntry, NoQuestion,
    MaxEntries, MaxCommits, MaxAsks, MaxSpeculations,
    \* WorkerFleet
    MinReplicas, MaxReplicas, PerWorker, QuietTicks, Grace, MaxBacklog

VARIABLES
    stage,
    running, level, epoch, stream, channel, listening, batch, heard, alerted, calm,
    open,
    hand,
    restarts,
    errors,
    form,
    sample, checked, claims, told,
    alerts, diagnosed, indexed, telemetry, upto, episode, cool, refresh, snapshot, tail,
    scored,
    offset, at,
    library,
    history, muted, standing, event,
    todo,
    live, recorded,
    graph, entries, lru, about, read, victim, doomed, overtaken, asks, speculations, mishaps,
    backlog, listed, dead, draining, scaling, quiet, lull, taken

alarmsVars == <<running, level, epoch, stream, channel, listening, batch, heard, alerted,
                calm>>
unitVars == <<sample, checked, claims, told>>
diagnosisVars == <<alerts, diagnosed, indexed, telemetry, upto, episode, cool, refresh,
                   snapshot, tail, scored>>
diagnosisCacheVars == <<offset, at>>
detectorVars == <<history, muted, standing, event>>
signaturesVars == <<live, recorded>>
cacheVars == <<graph, entries, lru, about, read, victim, doomed, overtaken, asks,
               speculations, mishaps>>
fleetVars == <<backlog, listed, dead, draining, scaling, quiet, lull, taken>>

telemetryVars == <<vars, stage, alarmsVars, open, hand, restarts, errors, form, unitVars,
                   diagnosisVars, diagnosisCacheVars, library, detectorVars, todo,
                   signaturesVars, cacheVars, fleetVars>>

Alarm == INSTANCE PlantAlarms WITH faults <- errors, MaxFaults <- MaxErrors
Unit == INSTANCE UnitWatchers WITH faults <- errors, MaxFaults <- MaxErrors
Diagnosis == INSTANCE DiagnosticsRuntime WITH
    cursor <- offset, pc <- at, pending <- episode, faults <- errors, MaxFaults <- MaxErrors
Detector == INSTANCE AnomalyDetector
Signatures == INSTANCE FaultSignatures
Cache == INSTANCE AnswerCache WITH cursor <- offset, pc <- at, crashes <- mishaps
Fleet == INSTANCE WorkerFleet WITH faults <- errors

\* Names have an order.
NamesOrdered ==
    /\ \A s \in Names : ~ Before(s, s)
    /\ \A s, t \in Names : s # t => Before(s, t) \/ Before(t, s)
    /\ \A s, t, u \in Names : Before(s, t) /\ Before(t, u) => Before(s, u)

\* The telemetry of finitely many tags.
IsWindow(series) ==
    /\ IsFiniteSet(DOMAIN series) /\ DOMAIN series \subseteq Names
    /\ \A t \in DOMAIN series : series[t] \in Seq(Int)

ASSUME TelemetryAssumption ==
    /\ Alarm!PlantAssumption /\ Unit!UnitAssumption /\ Diagnosis!DiagnosticsAssumption
    /\ Detector!DetectorAssumption /\ Cache!CacheAssumption /\ Fleet!FleetAssumption
    /\ NamesOrdered /\ \A window \in Windows : IsWindow(window)

-----------------------------------------------------------------------------
\* A variable of the stages named is None in the others, and stays so.
Of(stages, v) == IF stage \in stages THEN TRUE ELSE v = None
Still(stages, v) == IF stage \in stages THEN TRUE ELSE UNCHANGED v

TelemetryInit ==
    /\ Init
    /\ \/ stage = "sink"
       \/ stage = "alarms" /\ Alarm!Init
       \/ stage = "unit" /\ Unit!Init
       \/ stage = "diagnosis" /\ Diagnosis!Init
       \/ stage = "detector" /\ Detector!Init
       \/ stage = "signatures" /\ live \in Windows /\ recorded \in Windows
       \/ stage = "cache" /\ Cache!Init
       \/ stage = "fleet" /\ Fleet!Init
    /\ Of({"alarms"}, running) /\ Of({"alarms"}, level) /\ Of({"alarms"}, epoch)
    /\ Of({"alarms"}, stream) /\ Of({"alarms"}, channel) /\ Of({"alarms"}, listening)
    /\ Of({"alarms"}, batch) /\ Of({"alarms"}, heard) /\ Of({"alarms"}, alerted)
    /\ Of({"alarms"}, calm)
    /\ Of({"alarms", "unit"}, open)
    /\ Of({"alarms", "diagnosis"}, hand)
    /\ Of({"alarms", "unit", "diagnosis"}, restarts)
    /\ Of({"alarms", "unit", "diagnosis", "fleet"}, errors)
    /\ Of({"unit", "fleet"}, form)
    /\ Of({"unit"}, sample) /\ Of({"unit"}, checked) /\ Of({"unit"}, claims)
    /\ Of({"unit"}, told)
    /\ Of({"diagnosis"}, alerts) /\ Of({"diagnosis"}, diagnosed) /\ Of({"diagnosis"}, indexed)
    /\ Of({"diagnosis"}, telemetry) /\ Of({"diagnosis"}, upto) /\ Of({"diagnosis"}, episode)
    /\ Of({"diagnosis"}, cool) /\ Of({"diagnosis"}, refresh) /\ Of({"diagnosis"}, snapshot)
    /\ Of({"diagnosis"}, tail) /\ Of({"diagnosis"}, scored)
    /\ Of({"diagnosis", "cache"}, offset) /\ Of({"diagnosis", "cache"}, at)
    /\ Of({"diagnosis"}, library)
    /\ Of({"detector"}, history) /\ Of({"detector"}, muted) /\ Of({"detector"}, standing)
    /\ Of({"detector"}, event)
    /\ Of({"cache"}, todo)
    /\ Of({"signatures"}, live) /\ Of({"signatures"}, recorded)
    /\ Of({"cache"}, graph) /\ Of({"cache"}, entries) /\ Of({"cache"}, lru)
    /\ Of({"cache"}, about) /\ Of({"cache"}, read) /\ Of({"cache"}, victim)
    /\ Of({"cache"}, doomed) /\ Of({"cache"}, overtaken) /\ Of({"cache"}, asks)
    /\ Of({"cache"}, speculations) /\ Of({"cache"}, mishaps)
    /\ Of({"fleet"}, backlog) /\ Of({"fleet"}, listed) /\ Of({"fleet"}, dead)
    /\ Of({"fleet"}, draining) /\ Of({"fleet"}, scaling) /\ Of({"fleet"}, quiet)
    /\ Of({"fleet"}, lull) /\ Of({"fleet"}, taken)

\* What is of other stages stays.
Elsewhere ==
    /\ UNCHANGED stage /\ Still({"sink"}, vars)
    /\ Still({"alarms"}, alarmsVars) /\ Still({"alarms", "unit"}, open)
    /\ Still({"alarms", "diagnosis"}, hand)
    /\ Still({"alarms", "unit", "diagnosis"}, restarts)
    /\ Still({"alarms", "unit", "diagnosis", "fleet"}, errors)
    /\ Still({"unit", "fleet"}, form) /\ Still({"unit"}, unitVars)
    /\ Still({"diagnosis"}, diagnosisVars)
    /\ Still({"diagnosis", "cache"}, diagnosisCacheVars)
    /\ Still({"diagnosis"}, library) /\ Still({"detector"}, detectorVars)
    /\ Still({"cache"}, todo) /\ Still({"signatures"}, signaturesVars) /\ Still({"cache"}, cacheVars)
    /\ Still({"fleet"}, fleetVars)

TelemetryNext ==
    /\ \/ stage = "sink" /\ Next
       \/ stage = "alarms" /\ Alarm!Next
       \/ stage = "unit" /\ Unit!Next
       \/ stage = "diagnosis" /\ Diagnosis!Next
       \/ stage = "detector" /\ Detector!Next
       \/ stage = "cache" /\ Cache!Next
       \/ stage = "fleet" /\ Fleet!Next
    /\ Elsewhere

\* The fairness of each module, while the behaviour is of its stage: what goes on, and
\* what else does.  A step of the stage changes its own variables.
own ==
    CASE stage = "sink" -> vars
      [] stage = "alarms" -> Alarm!vars
      [] stage = "unit" -> Unit!vars
      [] stage = "diagnosis" -> Diagnosis!vars
      [] stage = "cache" -> Cache!vars
      [] stage = "fleet" -> Fleet!vars
      [] OTHER -> stage

Goes ==
    /\ UNCHANGED stage
    /\ \/ stage = "sink" /\ Sink
       \/ stage = "alarms" /\ Alarm!Watcher!Check /\ UNCHANGED <<running, level, epoch>>
       \/ stage = "unit" /\ (Unit!Check \/ Unit!AlertLost)
       \/ stage = "diagnosis" /\ Diagnosis!Tick
       \/ stage = "cache" /\ Cache!Runtime
       \/ stage = "fleet" /\ Fleet!Tick

GoesToo ==
    /\ UNCHANGED stage
    /\ \/ /\ stage = "alarms" /\ Alarm!Plant!Emit
          /\ UNCHANGED <<listening, open, batch, hand, heard, alerted, calm, restarts>>
       \/ stage = "unit" /\ Unit!Arrives
       \/ stage = "diagnosis" /\ Diagnosis!Wait
       \/ stage = "fleet" /\ Fleet!ScaleNow

Hears ==
    /\ UNCHANGED stage
    /\ stage = "alarms" /\ Alarm!Watcher!Hear /\ UNCHANGED <<running, level, epoch>>

TelemetryFairness == WF_own(Goes) /\ WF_own(GoesToo) /\ WF_own(Hears)

TelemetrySpec == TelemetryInit /\ [][TelemetryNext]_telemetryVars /\ TelemetryFairness

-----------------------------------------------------------------------------
(* The properties of the modules, each of its own stage *)

\* Every sample lands: see HistorianSink.
SamplesLand == stage = "sink" => Lands

\* An alert does not repeat the one before it in the same excursion, and a fault that
\* persists ends under an alarm of its own: see TepWatcher and PlantAlarms.
NoRepeat ==
    [][stage = "alarms" /\ Alarm!Watcher!Raise => alerted # hand.sample.level]_own
FaultAlarms ==
    /\ NoRepeat
    /\ <>[](stage = "alarms" /\ Alarm!Upset) => <>[](stage = "alarms" /\ Alarm!Alarmed)

\* A value that stays above its highest limit is told of: see UnitWatchers.
StandingBreachTold ==
    (stage = "unit" /\ Unit!OutOfLimits) ~> (stage = "unit" => Unit!ToldOrOver)

\* An alarm that nothing covers comes to be diagnosed: see DiagnosticsRuntime.
AlarmDiagnosed ==
    \A n \in 1..MaxAlerts :
        (stage = "diagnosis" /\ Diagnosis!Uncovered(n))
            ~> (stage = "diagnosis" => Diagnosis!TakenUp(n))

\* What waits for a run of seconds or ticks waits for all of it, an event for abnormal
\* ones and a smaller fleet for quiet ones: see AnomalyDetector and WorkerFleet.
RunsWaitedOut ==
    /\ stage = "detector" => Detector!EventsPersist
    /\ stage = "fleet" => Fleet!LullKept

\* A known fault that shows itself again is put first: see FaultSignatures.
ReplayWins == stage = "signatures" => Signatures!ReplayWins(live, recorded)

\* A stale answer is about to go, or came late, and the cap holds: see AnswerCache.
CacheSound == stage = "cache" => Cache!StaleOnlyByRace /\ Cache!CapKept

\* What is outlived in the cache goes in the end: see AnswerCache.
Fades ==
    \A q \in Questions :
        (stage = "cache" /\ Cache!Outlived(q)) ~> (stage = "cache" => ~Cache!Outlived(q))

\* A backlog that settles has the workers it wants: see WorkerFleet.
Settles ==
    \A n \in MinReplicas..MaxReplicas :
        <>[](stage = "fleet" /\ Fleet!Desired = n) => <>[](stage = "fleet" /\ listed = n)

=============================================================================
