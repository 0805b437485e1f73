------------------------------ MODULE RateSweep ------------------------------
(***************************************************************************)
(* The sweep of run_rate_sweep.py: for each physics rate the host starts   *)
(* the app on the headset in benchmark mode, watches its status file,      *)
(* collects health and a trace while it warms up, and records what it      *)
(* measured. Afterwards the headset is to be as it was found.              *)
(*                                                                         *)
(* The headset goes on by itself: the app passes through its phases, dies, *)
(* and may be started again by the system with the same intent. Every call *)
(* to it may raise, before or after it took effect; a deadline is one of   *)
(* these. An interrupt from the keyboard, which could also cut the cleanup *)
(* short, is left out: a sweep is cancelled by its cancel file.            *)
(***************************************************************************)
EXTENDS Naturals, Sequences

CONSTANTS Rates,      \* the number of trials asked for
          MaxPid      \* bound: how many processes the headset starts

ASSUME SweepAssumption == Rates \in Nat \ {0} /\ MaxPid \in Nat

VARIABLES host,       \* the step the sweep is at, and what it remembers
          trials,     \* trials.jsonl
          app,        \* the app's process, or NoApp
          proximity,  \* the headset's proximity sensor
          status,     \* full-benchmark-status.json
          result,     \* full-benchmark-<run_id>.json, of the last run that wrote one
          tracing,    \* the capture child: "none", "running", "ended", "failed"
          pids,       \* processes started so far
          cancelled,  \* the cancel file
          disturbed   \* history: processes of this run asked while they measured

deviceVars == <<app, status, result, pids>>
sweepVars == <<host, trials, deviceVars, proximity, tracing, cancelled, disturbed>>

NoApp == [run |-> 0, pid |-> 0, phase |-> "none"]
Live(pid) == [run |-> 0, pid |-> pid, phase |-> "live"]
NoResult == [run |-> 0, pid |-> 0, phase |-> "none", counters |-> "none"]

SweepInit ==
    /\ proximity \in {"on", "off"} /\ cancelled = FALSE
    /\ app \in {NoApp, Live(1)} /\ pids = 1 /\ status = NoApp /\ result = NoResult
    /\ tracing = "none" /\ trials = <<>> /\ disturbed = {}
    /\ host = [at |-> "discover", run |-> 0, pid |-> 0, before |-> {}, valid |-> FALSE, hot |-> FALSE,
               severe |-> FALSE, raised |-> FALSE, errors |-> FALSE,
               app |-> FALSE, proximity |-> "off"]

(***************************************************************************)
(* The headset                                                             *)
(***************************************************************************)
Starts(run) ==
    /\ pids < MaxPid /\ pids' = pids + 1
    /\ app' = [run |-> run, pid |-> pids + 1, phase |-> IF run = 0 THEN "live" ELSE "waiting"]
    /\ status' = IF run = 0 THEN status ELSE app'

\* The worker's phases, each of which writes the status file; the last one also
\* writes the result, whose counters may be missing or inconsistent.
AppGoesOn ==
    /\ app.phase \in {"waiting", "warmup", "measuring"}
    /\ \E phase \in CASE app.phase = "waiting" -> {"warmup", "failed"}
                      [] app.phase = "warmup" -> {"measuring", "failed"}
                      [] OTHER -> {"complete", "failed"} :
         /\ app' = [app EXCEPT !.phase = phase] /\ status' = app'
         /\ IF phase \in {"complete", "failed"}
            THEN \E c \in IF phase = "complete" THEN {"short", "full"} ELSE {"none"} :
                   result' = [run |-> app.run, pid |-> app.pid, phase |-> phase, counters |-> c]
            ELSE UNCHANGED result
    /\ UNCHANGED <<host, trials, proximity, pids, tracing, cancelled, disturbed>>

\* The process of a benchmark may die; the system may start it again with the intent
\* it had.
AppDies ==
    /\ app.run # 0
    /\ \/ app' = NoApp /\ UNCHANGED <<status, pids>>
       \/ Starts(app.run)
    /\ UNCHANGED <<host, trials, proximity, result, tracing, cancelled, disturbed>>

TraceEnds ==
    /\ tracing = "running" /\ tracing' \in {"ended", "failed"}
    /\ UNCHANGED <<host, trials, deviceVars, proximity, cancelled, disturbed>>

\* The cancel file matters where it is looked at: in the loop, at the capture's end
\* and before the app is started again.
Cancel ==
    /\ ~cancelled /\ host.at \in {"poll", "drain", "relaunch"} /\ cancelled' = TRUE
    /\ UNCHANGED <<host, trials, deviceVars, proximity, tracing, disturbed>>

(***************************************************************************)
(* Sweep.run, before and around the trials                                 *)
(***************************************************************************)
Reached(step) == host.at = step
Goes(step) == host' = [host EXCEPT !.at = step]
Raises == host' = [host EXCEPT !.at = "terminate", !.raised = TRUE]

\* discover, settings and the first looks at the headset, before the try: if one
\* raises, nothing has been changed and there is no cleanup.
Discover ==
    /\ Reached("discover")
    /\ \/ \E restoreLive, leaveStopped \in BOOLEAN :
            host' = [host EXCEPT !.at = "disable", !.proximity = proximity,
                                 !.app = (restoreLive \/ app # NoApp) /\ ~leaveStopped]
       \/ host' = [host EXCEPT !.at = "refused", !.raised = TRUE]
    /\ UNCHANGED <<trials, deviceVars, proximity, tracing, cancelled, disturbed>>

\* Mutant: the sensor is turned off before the try.
DisableBeforeTry ==
    /\ Reached("disable")
    /\ IF host.proximity = "on"
       THEN /\ proximity' \in {"on", "off"}
            /\ \/ host' = [host EXCEPT !.at = "ended", !.raised = TRUE]
               \/ proximity' = "off" /\ Goes("stop")
       ELSE Goes("stop") /\ UNCHANGED proximity
    /\ UNCHANGED <<trials, deviceVars, tracing, cancelled, disturbed>>

\* The first call of the try: it may raise before or after the sensor is off.
Disable ==
    /\ Reached("disable")
    /\ IF host.proximity = "on"
       THEN /\ proximity' \in {"on", "off"}
            /\ Raises \/ (proximity' = "off" /\ Goes("stop"))
       ELSE Goes("stop") /\ UNCHANGED proximity
    /\ UNCHANGED <<trials, deviceVars, tracing, cancelled, disturbed>>

(***************************************************************************)
(* Sweep.trial                                                             *)
(***************************************************************************)
\* stopped: the app is stopped and its absence verified.
StopApp(next) ==
    \/ app' = NoApp /\ Goes(next)
    \/ app' \in {app, NoApp} /\ Raises

StopFirst ==
    /\ Reached("stop") /\ StopApp("launch")
    /\ UNCHANGED <<trials, status, result, pids, proximity, tracing, cancelled, disturbed>>

\* A fresh run id, and the process that answers to it.
Launch ==
    /\ Reached("launch")
    /\ \/ Starts(host.run + 1) /\ host' = [host EXCEPT !.at = "pid", !.run = @ + 1, !.before = {}]
       \/ Starts(host.run + 1) /\ Raises
       \/ UNCHANGED <<app, status, pids>> /\ Raises
    /\ disturbed' = {}
    /\ UNCHANGED <<trials, result, proximity, tracing, cancelled>>

FindPid ==
    /\ Reached("pid")
    /\ \/ app # NoApp /\ host' = [host EXCEPT !.at = "poll", !.pid = app.pid]
       \/ Raises
    /\ UNCHANGED <<trials, deviceVars, proximity, tracing, cancelled, disturbed>>

\* A status or result file of this run and of the process that was started for it.
Mine(file) == file.run = host.run /\ file.pid = host.pid

\* One turn of the loop: the first status in the warmup leads to the collection, a
\* measurement that began without it is given up, the end leads to the result.
Poll ==
    /\ Reached("poll")
    /\ \/ ~cancelled /\ Mine(status)
          /\ \/ status.phase = "warmup" /\ host.before = {} /\ Goes("health")
             \/ status.phase = "complete" /\ host.before # {} /\ Goes("result")
             \/ status.phase = "failed" /\ Goes("result")
       \/ Raises
    /\ UNCHANGED <<trials, deviceVars, proximity, tracing, cancelled, disturbed>>

\* What the host asks of the headset now may disturb a measurement.
Disturbs == disturbed' = disturbed \union
                (IF app.phase = "measuring" THEN {app.pid} ELSE {})

\* health: whether the thermal status is severe; the other readings decide nothing.
Severe == BOOLEAN

\* snapshot_health, of whatever process there is (0 if none); a severe thermal
\* status ends the sweep.
HealthBefore ==
    /\ Reached("health") /\ Disturbs
    /\ \/ \E severe \in Severe :
            host' = IF severe THEN [host EXCEPT !.at = "terminate", !.raised = TRUE, !.severe = TRUE]
                    ELSE [host EXCEPT !.at = "trace", !.before = {app.pid}]
       \/ Raises
    /\ UNCHANGED <<trials, deviceVars, proximity, tracing, cancelled>>

\* trace: with a trace configuration a capture is started.
StartTrace ==
    /\ Reached("trace")
    /\ \/ Goes("ready") /\ UNCHANGED <<tracing, disturbed>>
       \/ Disturbs /\ tracing' = "running" /\ Goes("ready")
       \/ Disturbs /\ Raises /\ UNCHANGED tracing
    /\ UNCHANGED <<trials, deviceVars, proximity, cancelled>>

\* Mutant: the status is not read again after the collection.
WarmingAnyway ==
    /\ Reached("ready") /\ Goes("poll")
    /\ UNCHANGED <<trials, deviceVars, proximity, tracing, cancelled, disturbed>>

\* The collection counts if the run is still warming up when it is over.
StillWarming ==
    /\ Reached("ready")
    /\ \/ Mine(status) /\ status.phase = "warmup" /\ Goes("poll")
       \/ Raises
    /\ UNCHANGED <<trials, deviceVars, proximity, tracing, cancelled, disturbed>>

\* evaluate: a result is valid if it is complete and its counters agree.
Valid(file) == file.phase = "complete" /\ file.counters = "full"

ReadResult ==
    /\ Reached("result")
    /\ \/ Mine(result) /\ host' = [host EXCEPT !.at = "after", !.valid = Valid(result)]
       \/ Raises
    /\ UNCHANGED <<trials, deviceVars, proximity, tracing, cancelled, disturbed>>

HealthAfter ==
    /\ Reached("after") /\ Disturbs
    /\ \/ \E hot \in Severe : host' = [host EXCEPT !.at = "drain", !.hot = hot]
       \/ Raises
    /\ UNCHANGED <<trials, deviceVars, proximity, tracing, cancelled>>

\* The capture must come to its end by itself.
Drain ==
    /\ Reached("drain")
    /\ \/ tracing \in {"none", "ended"} /\ Goes("record")
       \/ tracing # "none" /\ Raises
    /\ UNCHANGED <<trials, deviceVars, proximity, tracing, cancelled, disturbed>>

RecordTrial ==
    /\ Reached("record") /\ Goes("stopAfter")
    /\ trials' = Append(trials, [run |-> host.run, pid |-> host.pid, before |-> host.before,
                                 valid |-> host.valid, alone |-> host.pid \notin disturbed])
    /\ UNCHANGED <<deviceVars, proximity, tracing, cancelled, disturbed>>

StopAfter ==
    /\ Reached("stopAfter")
    /\ \/ /\ app' = NoApp
          /\ host' = IF host.hot
                     THEN [host EXCEPT !.at = "terminate", !.raised = TRUE, !.severe = TRUE]
                     ELSE [host EXCEPT !.at = IF Len(trials) = Rates THEN "terminate" ELSE "stop"]
       \/ app' \in {app, NoApp} /\ Raises
    /\ tracing' = "none"
    /\ UNCHANGED <<trials, status, result, pids, proximity, cancelled, disturbed>>

(***************************************************************************)
(* The cleanup of Sweep.run                                                *)
(***************************************************************************)
\* Each part is tried whatever became of the others; an error is noted.
Tries(step, next, done, undone) ==
    /\ Reached(step)
    /\ \/ done /\ Goes(next)
       \/ (done \/ undone) /\ host' = [host EXCEPT !.at = next, !.errors = TRUE]

TerminateCapture ==
    /\ \/ tracing = "running" /\ Tries("terminate", "cleanStop", tracing' = "ended", UNCHANGED tracing)
       \/ tracing # "running" /\ Reached("terminate") /\ Goes("cleanStop") /\ UNCHANGED tracing
    /\ UNCHANGED <<trials, deviceVars, proximity, cancelled, disturbed>>

StopLast ==
    /\ Tries("cleanStop", "enable", app' = NoApp, UNCHANGED app)
    /\ UNCHANGED <<trials, status, result, pids, proximity, tracing, cancelled, disturbed>>

Enable ==
    /\ IF host.proximity = "on"
       THEN Tries("enable", "settings", proximity' = "on", UNCHANGED proximity)
       ELSE Reached("enable") /\ Goes("settings") /\ UNCHANGED proximity
    /\ UNCHANGED <<trials, deviceVars, tracing, cancelled, disturbed>>

CheckSettings ==
    /\ Tries("settings", "relaunch", TRUE, TRUE)
    /\ UNCHANGED <<trials, deviceVars, proximity, tracing, cancelled, disturbed>>

Relaunches == host.app /\ ~host.severe /\ ~cancelled

Relaunch ==
    /\ IF Relaunches
       THEN Tries("relaunch", "ended", app' = Live(pids), UNCHANGED app)
       ELSE Reached("relaunch") /\ Goes("ended") /\ UNCHANGED app
    /\ UNCHANGED <<trials, status, result, pids, proximity, tracing, cancelled, disturbed>>

SweepNext ==
    \/ AppGoesOn \/ AppDies \/ TraceEnds \/ Cancel
    \/ Discover \/ Disable \/ StopFirst \/ Launch \/ FindPid \/ Poll \/ HealthBefore
    \/ StartTrace \/ StillWarming \/ ReadResult \/ HealthAfter \/ Drain \/ RecordTrial \/ StopAfter
    \/ TerminateCapture \/ StopLast \/ Enable \/ CheckSettings \/ Relaunch

(***************************************************************************)
(* Properties                                                              *)
(***************************************************************************)
\* A valid trial was measured by one process, which the host asked for its health
\* while it warmed up and left alone while it measured; no run is recorded twice.
TrialsAreTheirOwn ==
    \A i \in DOMAIN trials :
      /\ trials[i].run = i
      /\ trials[i].valid => /\ trials[i].before = {trials[i].pid}
                            /\ trials[i].alone

\* Whichever call of the try raised, also the first, before any trial, a cleanup
\* without errors has left the headset as it was found: the sensor, no capture, and
\* the app unless it was to stay stopped.
LeftAsFound ==
    Reached("ended") /\ ~host.errors =>
        /\ proximity = host.proximity /\ tracing # "running"
        /\ app.phase = IF Relaunches THEN "live" ELSE "none"

\* No trial after a severe thermal status; a sweep that returns has all its trials.
SweepInv ==
    /\ TrialsAreTheirOwn /\ LeftAsFound
    /\ host.severe => host.raised
    /\ Reached("ended") /\ ~host.raised => Len(trials) = Rates
==============================================================================
