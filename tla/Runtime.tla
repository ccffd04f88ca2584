------------------------------- MODULE Runtime -------------------------------
(***************************************************************************)
(* The application runtime (internal/app/app.go): start-up, the settings   *)
(* requests that replace the collector and restart the jobs, the first     *)
(* bootstrap, and shutdown.  The collector and the job runner appear as    *)
(* goroutines that start, run and end (Collector.tla, DailyJob.tla).       *)
(*                                                                         *)
(* HTTP is served before the runtime is initialised, so the main goroutine *)
(* and the handlers interleave from the beginning.  Every process starts   *)
(* at most one collector, one job runner and one start gate, which are     *)
(* named after it.  What a goroutine does while it holds r.mu or a.jobsMu  *)
(* is one step.                                                            *)
(***************************************************************************)
EXTENDS Naturals, FiniteSets

CONSTANTS
  Main,           \* the goroutine of App.Run
  Setup,          \* the handler of the bootstrap request
  Requests,       \* handlers of settings requests
  Settings, None, \* None: no settings, no process, a nil pointer
  Stored,         \* what the database may hold at start-up
  EarlyRequests,  \* may requests arrive before initializeRuntime is done?
  StoreFaults,    \* may a database call fail?
  StopTimeouts,   \* may a collector take longer than stopWait to stop?
  SlowJobs,       \* may the alert subscription miss the readiness timeout?
  StuckWorkers    \* may a job worker outlive its shutdown timeout?

Procs == Requests \cup {Main, Setup}

ASSUME RuntimeAssumption ==
  /\ Main # Setup /\ {Main, Setup} \cap Requests = {}
  /\ None \notin Settings \cup Procs \cup {"stop"} /\ "stop" \notin Procs
  /\ Stored \subseteq Settings \cup {None}
  /\ {EarlyRequests, StoreFaults, StopTimeouts, SlowJobs, StuckWorkers}
       \subseteq BOOLEAN

VARIABLES
  ctxDone,    \* the context of App.Run is done
  pc, loc,    \* per process: where it is, and its local variables
  setMu,      \* holder of a.settingsMu
  cfgMu,      \* holder of r.configureMu: a process, "stop", or None
  rt,         \* collectorRuntime: ctx is set, current collector, active
              \* settings, startGate
  released,   \* gates that were closed
  coll,       \* collector goroutines
  jobsCur,    \* a.jobsCancel, a.jobsDone: the current job runner
  jobs,       \* job runner goroutines
  stuck,      \* runners with a worker that outlives them
  stopping, retain, stopper,   \* a.stopping, a.retainResources, runtime.stop
  stored, dbOpen,              \* settings in the database
  calendar, finance,           \* locations of the two repositories
  outcome,    \* history: how the last request ended
  overtaken   \* history: the parts last configured by start-up or bootstrap
              \* with settings that a request had meanwhile replaced

rtVars   == <<setMu, cfgMu, rt, released>>
workVars == <<coll, jobsCur, jobs, stuck>>
stopVars == <<stopping, retain, stopper>>
dataVars == <<stored, dbOpen, calendar, finance, outcome, overtaken>>
vars == <<ctxDone, pc, loc, rtVars, workVars, stopVars, dataVars>>

\* want: the requested settings; old, oldActive: collector and settings found
\* by Apply; jobs: the runner waited for; wasRunning: pauseJobs found one;
\* hasCtx: runContext is not nil; error: "none" or what went wrong; wasUp
\* (history): the service was complete when the request began.
NoLocals == [want |-> None, old |-> None, oldActive |-> None, jobs |-> None,
             wasRunning |-> FALSE, hasCtx |-> TRUE, error |-> "none",
             wasUp |-> FALSE]

NoCollector == [at |-> "none", cancelled |-> FALSE, gate |-> None]
NoJobs == [at |-> "none", cancelled |-> FALSE]

Init ==
  /\ ctxDone = FALSE
  /\ pc = [p \in Procs |-> IF p = Main THEN "start" ELSE "idle"]
  /\ loc = [p \in Procs |-> NoLocals]
  /\ setMu = None /\ cfgMu = None
  /\ rt = [ctx |-> FALSE, current |-> None, active |-> None, gate |-> None]
  /\ released = {}
  /\ coll = [p \in Procs |-> NoCollector]
  /\ jobsCur = None
  /\ jobs = [p \in Procs |-> NoJobs]
  /\ stuck = {}
  /\ stopping = FALSE /\ retain = FALSE /\ stopper = "idle"
  /\ stored \in Stored /\ dbOpen = TRUE
  /\ calendar = None /\ finance = None /\ outcome = "none" /\ overtaken = {}

Goto(p, l) == pc' = [pc EXCEPT ![p] = l]
Fail(p, e) == loc' = [loc EXCEPT ![p].error = e]
CollectorStopped(p) == p # None => coll[p].at \in {"none", "ended", "gone"}
JobsStopped(p) == p # None => jobs[p].at \in {"none", "ended", "gone"}
CancelCollector(p) ==
  coll' = IF p = None THEN coll ELSE [coll EXCEPT ![p].cancelled = TRUE]
CancelJobs(p) ==
  jobs' = IF p = None THEN jobs ELSE [jobs EXCEPT ![p].cancelled = TRUE]

\* An alert worker is subscribed to the hub.
Listening == \E p \in Procs : jobs[p].at = "ready"
\* Collector and jobs both run.
Up == rt.current # None /\ jobsCur # None

-----------------------------------------------------------------------------
(* Start-up: initializeRuntime *)

Begin ==
  /\ pc[Main] = "start"
  /\ rt' = [rt EXCEPT !.ctx = TRUE]
  /\ Goto(Main, "load")
  /\ UNCHANGED <<ctxDone, loc, setMu, cfgMu, released, workVars, stopVars,
                 dataVars>>

LoadSettings ==
  /\ pc[Main] = "load"
  /\ \/ /\ stored # None
        /\ loc' = [loc EXCEPT ![Main].want = stored]
        /\ Goto(Main, "hold")
     \/ /\ stored = None \/ StoreFaults
        /\ Goto(Main, "checkOpen")
        /\ UNCHANGED loc
  /\ UNCHANGED <<ctxDone, rtVars, workVars, stopVars, dataVars>>

\* No settings: that is in order only while BootstrapOpen (there is no user),
\* which the bootstrap transaction ends together with storing settings.
CheckOpen ==
  /\ pc[Main] = "checkOpen"
  /\ \/ stored = None /\ Goto(Main, "serving") /\ UNCHANGED loc
     \/ /\ stored # None \/ StoreFaults
        /\ Goto(Main, "stopServices") /\ Fail(Main, "load")
  /\ UNCHANGED <<ctxDone, rtVars, workVars, stopVars, dataVars>>

-----------------------------------------------------------------------------
(* Requests *)

\* The server accepts requests until its Shutdown; a failed start-up closes
\* it at once, an orderly stop first stops the services.
Serving ==
  /\ pc[Main] # "exited" /\ loc[Main].error = "none"
  /\ EarlyRequests \/ pc[Main] \in {"serving", "stopServices", "stopping"}

\* A settings request of a logged-in user.
PutSettings(p, s) ==
  /\ Serving /\ pc[p] = "idle" /\ stored # None
  /\ loc' = [loc EXCEPT ![p].want = s]
  /\ Goto(p, "lock")
  /\ UNCHANGED <<ctxDone, rtVars, workVars, stopVars, dataVars>>

\* bootstrap: user, session and settings in one transaction; then Apply,
\* without a gate and without jobs.
Bootstrap(s) ==
  /\ Serving /\ pc[Setup] = "idle" /\ stored = None
  /\ stored' = s
  /\ loc' = [loc EXCEPT ![Setup].want = s]
  /\ Goto(Setup, "apply")
  /\ UNCHANGED <<ctxDone, rtVars, workVars, stopVars, dbOpen, calendar,
                 finance, outcome, overtaken>>

\* applySettings, up to pauseJobs.
LockSettings(p) ==
  /\ pc[p] = "lock" /\ setMu = None
  /\ setMu' = p
  /\ loc' = [loc EXCEPT ![p].hasCtx = rt.ctx, ![p].wasUp = Up]
  /\ Goto(p, "pause")
  /\ UNCHANGED <<ctxDone, cfgMu, rt, released, workVars, stopVars, dataVars>>

\* pauseJobs: take the runner out of the fields and cancel it ...
PauseJobs(p) ==
  /\ pc[p] \in {"pause", "pauseAgain"}
  /\ loc' = [loc EXCEPT ![p].jobs = jobsCur,
               ![p].wasRunning = IF pc[p] = "pause" THEN jobsCur # None ELSE @]
  /\ CancelJobs(jobsCur) /\ jobsCur' = None
  /\ Goto(p, IF pc[p] = "pause" THEN "paused" ELSE "pausedAgain")
  /\ UNCHANGED <<ctxDone, rtVars, coll, stuck, stopVars, dataVars>>

\* ... and wait for it.
JobsPaused(p) ==
  /\ pc[p] \in {"paused", "pausedAgain"} /\ JobsStopped(loc[p].jobs)
  /\ Goto(p, IF pc[p] = "paused" THEN "hold" ELSE "cancelCurrent")
  /\ UNCHANGED <<ctxDone, loc, rtVars, workVars, stopVars, dataVars>>

\* Mutant: collectors start without waiting for the jobs.
HoldNothing(p) ==
  /\ pc[p] = "hold"
  /\ Goto(p, "apply")
  /\ UNCHANGED <<ctxDone, loc, rtVars, workVars, stopVars, dataVars>>

\* holdCollectorStart: collectors started from now on wait for this gate.
Hold(p) ==
  /\ pc[p] = "hold"
  /\ rt' = [rt EXCEPT !.gate = p]
  /\ Goto(p, "apply")
  /\ UNCHANGED <<ctxDone, loc, setMu, cfgMu, released, workVars, stopVars,
                 dataVars>>

-----------------------------------------------------------------------------
(* collectorRuntime.Apply, under configureMu *)

ApplyBegin(p) ==
  /\ pc[p] = "apply" /\ cfgMu = None
  /\ IF rt.ctx
     THEN /\ cfgMu' = p
          /\ loc' = [loc EXCEPT ![p].old = rt.current,
                                ![p].oldActive = rt.active]
          /\ CancelCollector(rt.current)
          /\ Goto(p, "waitOld")
     ELSE /\ Fail(p, "refused")
          /\ Goto(p, "applied")
          /\ UNCHANGED <<cfgMu, coll>>
  /\ UNCHANGED <<ctxDone, setMu, rt, released, jobsCur, jobs, stuck, stopVars,
                 dataVars>>

\* Mutant: the cancelled collector is not waited for.
OldNotAwaited(p) ==
  /\ pc[p] = "waitOld"
  /\ Goto(p, "persist")
  /\ UNCHANGED <<ctxDone, loc, rtVars, workVars, stopVars, dataVars>>

OldStopped(p) ==
  /\ pc[p] = "waitOld" /\ CollectorStopped(loc[p].old)
  /\ Goto(p, "persist")
  /\ UNCHANGED <<ctxDone, loc, rtVars, workVars, stopVars, dataVars>>

\* The old collector misses stopWait: it is waited for all the same, but no
\* collector is left and the settings are refused.
OldTimesOut(p) ==
  /\ StopTimeouts
  /\ pc[p] = "waitOld" /\ ~CollectorStopped(loc[p].old)
  /\ Goto(p, "joinOld")
  /\ UNCHANGED <<ctxDone, loc, rtVars, workVars, stopVars, dataVars>>

\* Mutant: the early return keeps configureMu.
OldJoinedLocked(p) ==
  /\ pc[p] = "joinOld" /\ CollectorStopped(loc[p].old)
  /\ rt' = [rt EXCEPT !.current = None, !.active = None]
  /\ Fail(p, "stop_timeout")
  /\ Goto(p, "applied")
  /\ UNCHANGED <<ctxDone, setMu, cfgMu, released, workVars, stopVars, dataVars>>

OldJoined(p) ==
  /\ pc[p] = "joinOld" /\ CollectorStopped(loc[p].old)
  /\ rt' = [rt EXCEPT !.current = None, !.active = None]
  /\ cfgMu' = None
  /\ Fail(p, "stop_timeout")
  /\ Goto(p, "applied")
  /\ UNCHANGED <<ctxDone, setMu, released, workVars, stopVars, dataVars>>

\* startCollectorLocked (r.ctx is not nil: only stop clears it, under
\* configureMu).
startCollectorLocked(p, s) ==
  /\ rt' = [rt EXCEPT !.current = p, !.active = s]
  /\ coll' = [coll EXCEPT ![p] =
       [at |-> IF rt.gate = None THEN "running" ELSE "gated",
        cancelled |-> FALSE, gate |-> rt.gate]]

\* Mutant: the rolled back collector is recorded under the new settings.
RollbackToNew(p) == loc[p].want
RollbackSettings(p) == loc[p].oldActive

\* p configures a part with the settings it wants, and the database says now.
Overtake(p, part, now) ==
  overtaken' = (overtaken \ {part}) \cup (IF loc[p].want = now THEN {} ELSE {part})

\* ApplyLocation around the transaction (bootstrap and start-up have nothing
\* left to store), then the new collector; after an error the old one runs
\* again.
Persist(p) ==
  /\ pc[p] = "persist"
  /\ \/ /\ stored' = IF p \in Requests THEN loc[p].want ELSE stored
        /\ calendar' = loc[p].want
        /\ Overtake(p, "reader", stored')
        /\ startCollectorLocked(p, loc[p].want)
        /\ UNCHANGED loc
     \/ /\ StoreFaults /\ p \in Requests
        /\ Fail(p, "refused")
        /\ IF loc[p].old # None
           THEN startCollectorLocked(p, RollbackSettings(p))
           ELSE UNCHANGED <<rt, coll>>
        /\ UNCHANGED <<stored, calendar, overtaken>>
  /\ cfgMu' = None
  /\ Goto(p, "applied")
  /\ UNCHANGED <<ctxDone, setMu, released, jobsCur, jobs, stuck, stopVars,
                 dbOpen, finance, outcome>>

-----------------------------------------------------------------------------
(* After Apply *)

\* Where the caller goes on: bootstrap is done, start-up fails as a whole, and
\* a failed request restarts the jobs it paused before it opens its gate.
AfterApply(p) ==
  CASE p = Setup -> "done"
    [] p = Main -> IF loc[p].error = "none" THEN "startJobs" ELSE "stopServices"
    [] p \in Requests -> IF loc[p].error = "none" \/ loc[p].wasRunning
                         THEN "startJobs" ELSE "release"

Applied(p) ==
  /\ pc[p] = "applied"
  /\ IF loc[p].error = "none"
     THEN finance' = loc[p].want /\ Overtake(p, "finance", stored)
     ELSE UNCHANGED <<finance, overtaken>>
  /\ Goto(p, AfterApply(p))
  /\ UNCHANGED <<ctxDone, loc, rtVars, workVars, stopVars, stored, dbOpen,
                 calendar, outcome>>

\* startJobs: a no-op that counts as ready when there is a runner already, the
\* application is stopping, or there is no context.
StartJobs(p) ==
  /\ pc[p] = "startJobs"
  /\ IF ~loc[p].hasCtx \/ stopping \/ jobsCur # None
     THEN /\ loc' = [loc EXCEPT ![p].jobs = None]
          /\ UNCHANGED <<jobsCur, jobs>>
     ELSE /\ loc' = [loc EXCEPT ![p].jobs = p]
          /\ jobsCur' = p
          /\ jobs' = [jobs EXCEPT ![p] = [at |-> "starting", cancelled |-> FALSE]]
  /\ Goto(p, "awaitReady")
  /\ UNCHANGED <<ctxDone, rtVars, coll, stuck, stopVars, dataVars>>

JobsAreReady(p) ==
  /\ pc[p] = "awaitReady"
  /\ loc[p].jobs # None => jobs[loc[p].jobs].at # "starting"
  /\ Goto(p, "release")
  /\ UNCHANGED <<ctxDone, loc, rtVars, workVars, stopVars, dataVars>>

\* The readiness timeout, or the context.
JobsNotReady(p) ==
  /\ pc[p] = "awaitReady" /\ loc[p].hasCtx
  /\ \/ ctxDone
     \/ /\ SlowJobs /\ loc[p].jobs # None
        /\ jobs[loc[p].jobs].at = "starting"
  /\ Goto(p, IF loc[p].error = "none" THEN "pauseAgain" ELSE "cancelCurrent")
  /\ Fail(p, "jobs")
  /\ UNCHANGED <<ctxDone, rtVars, workVars, stopVars, dataVars>>

\* cancelCurrentCollector, after which the gate stays closed.
CancelCurrent(p) ==
  /\ pc[p] = "cancelCurrent"
  /\ loc' = [loc EXCEPT ![p].old = rt.current]
  /\ CancelCollector(rt.current)
  /\ Goto(p, "joinCurrent")
  /\ UNCHANGED <<ctxDone, rtVars, jobsCur, jobs, stuck, stopVars, dataVars>>

\* releaseCollector.
Release(p) ==
  /\ pc[p] = "release"
  /\ released' = released \cup {p}
  /\ rt' = [rt EXCEPT !.gate = IF @ = p THEN None ELSE @]
  /\ Goto(p, IF p = Main THEN "serving" ELSE "return")
  /\ UNCHANGED <<ctxDone, loc, setMu, cfgMu, workVars, stopVars, dataVars>>

CurrentJoined(p) ==
  /\ pc[p] = "joinCurrent" /\ CollectorStopped(loc[p].old)
  /\ Goto(p, IF p = Main THEN "stopServices" ELSE "return")
  /\ UNCHANGED <<ctxDone, loc, rtVars, workVars, stopVars, dataVars>>

\* The outcome of a request as its caller could judge it: a refused one has
\* restored what ran before.
OutcomeOf(p) ==
  CASE loc[p].error = "none" -> "ok"
    [] loc[p].error = "refused" /\ loc[p].wasUp -> "restored"
    [] OTHER -> "down"

Return(p) ==
  /\ pc[p] = "return"
  /\ setMu' = None
  /\ outcome' = OutcomeOf(p)
  /\ loc' = [loc EXCEPT ![p] = NoLocals]
  /\ Goto(p, "done")
  /\ UNCHANGED <<ctxDone, cfgMu, rt, released, workVars, stopVars,
                 stored, dbOpen, calendar, finance, overtaken>>

-----------------------------------------------------------------------------
(* Shutdown *)

ContextDone ==
  /\ ~ctxDone
  /\ ctxDone' = TRUE
  /\ UNCHANGED <<pc, loc, rtVars, workVars, stopVars, dataVars>>

\* The select of App.Run.
StopServing ==
  /\ pc[Main] = "serving" /\ ctxDone
  /\ Goto(Main, "stopServices")
  /\ UNCHANGED <<ctxDone, loc, rtVars, workVars, stopVars, dataVars>>

StopServices ==
  /\ pc[Main] = "stopServices"
  /\ stopping' = TRUE /\ stopper' = "lock"
  /\ CancelJobs(jobsCur) /\ jobsCur' = None
  /\ Goto(Main, "stopping")
  /\ UNCHANGED <<ctxDone, loc, rtVars, coll, stuck, retain, dataVars>>

\* runtime.stop, in a goroutine of its own.
RuntimeStop ==
  /\ stopper = "lock" /\ cfgMu = None
  /\ cfgMu' = "stop"
  /\ rt' = [rt EXCEPT !.ctx = FALSE]
  /\ loc' = [loc EXCEPT ![Main].old = rt.current]
  /\ CancelCollector(rt.current)
  /\ stopper' = "wait"
  /\ UNCHANGED <<ctxDone, pc, setMu, released, jobsCur, jobs, stuck, stopping,
                 retain, dataVars>>

RuntimeStopped ==
  /\ stopper = "wait" /\ CollectorStopped(loc[Main].old)
  /\ rt' = [rt EXCEPT !.current = None]
  /\ cfgMu' = None /\ stopper' = "done"
  /\ UNCHANGED <<ctxDone, pc, loc, setMu, released, workVars, stopping, retain,
                 dataVars>>

\* Mutant: only the runner's done channel is waited for.
RunnersEnded == \A p \in Procs : JobsStopped(p)

\* jobsWG.Wait: every runner's goroutine has left its last critical section.
RunnersGone == \A p \in Procs : jobs[p].at \in {"none", "gone"}

\* stopServices returns, server.Shutdown waits for handlers at most ten
\* seconds, and the database is closed unless a worker may still use it.
Exit ==
  /\ pc[Main] = "stopping" /\ RunnersGone /\ stopper = "done"
  /\ dbOpen' = retain
  /\ Goto(Main, "exited")
  /\ UNCHANGED <<ctxDone, loc, rtVars, workVars, stopVars, stored, calendar,
                 finance, outcome, overtaken>>

-----------------------------------------------------------------------------
(* Goroutines of collectors and job runners *)

CollectorRuns(p) ==
  /\ coll[p].at = "gated" /\ coll[p].gate \in released
  /\ coll' = [coll EXCEPT ![p].at = "running"]
  /\ UNCHANGED <<ctxDone, pc, loc, rtVars, jobsCur, jobs, stuck, stopVars,
                 dataVars>>

\* The context is done; Run, or the wait for the gate, returns.
CollectorEnds(p) ==
  /\ coll[p].at \in {"gated", "running"} /\ (ctxDone \/ coll[p].cancelled)
  /\ coll' = [coll EXCEPT ![p].at = "ended"]
  /\ UNCHANGED <<ctxDone, pc, loc, rtVars, jobsCur, jobs, stuck, stopVars,
                 dataVars>>

CollectorGone(p) ==
  /\ coll[p].at = "ended"
  /\ coll' = [coll EXCEPT ![p] = [NoCollector EXCEPT !.at = "gone"]]
  /\ rt' = [rt EXCEPT !.current = IF @ = p THEN None ELSE @]
  /\ UNCHANGED <<ctxDone, pc, loc, setMu, cfgMu, released, jobsCur, jobs,
                 stuck, stopVars, dataVars>>

\* The alert worker has subscribed.
JobsReady(p) ==
  /\ jobs[p].at = "starting"
  /\ jobs' = [jobs EXCEPT ![p].at = "ready"]
  /\ UNCHANGED <<ctxDone, pc, loc, rtVars, coll, jobsCur, stuck, stopVars,
                 dataVars>>

\* Runner.Run returns, perhaps with ErrShutdownTimeout.
JobsEnd(p) ==
  /\ jobs[p].at = "ready" /\ (ctxDone \/ jobs[p].cancelled)
  /\ jobs' = [jobs EXCEPT ![p].at = "ended"]
  /\ stuck' \in {stuck} \cup (IF StuckWorkers THEN {stuck \cup {p}} ELSE {})
  /\ UNCHANGED <<ctxDone, pc, loc, rtVars, coll, jobsCur, stopVars, dataVars>>

JobsGone(p) ==
  /\ jobs[p].at = "ended"
  /\ jobs' = [jobs EXCEPT ![p] = [NoJobs EXCEPT !.at = "gone"]]
  /\ retain' = (retain \/ p \in stuck)
  /\ jobsCur' = IF jobsCur = p THEN None ELSE jobsCur
  /\ UNCHANGED <<ctxDone, pc, loc, rtVars, coll, stuck, stopping, stopper,
                 dataVars>>

-----------------------------------------------------------------------------

Applying(p) ==
  \/ ApplyBegin(p) \/ OldStopped(p) \/ OldTimesOut(p) \/ OldJoined(p)
  \/ Persist(p) \/ Applied(p)

Restarting(p) ==
  \/ StartJobs(p) \/ JobsAreReady(p) \/ JobsNotReady(p)
  \/ PauseJobs(p) \/ JobsPaused(p) \/ CancelCurrent(p) \/ CurrentJoined(p)
  \/ Hold(p) \/ Release(p)

Step(p) == Applying(p) \/ Restarting(p) \/ LockSettings(p) \/ Return(p)

MainStep == Begin \/ LoadSettings \/ CheckOpen \/ StopServing \/ StopServices
            \/ Exit
StopStep == RuntimeStop \/ RuntimeStopped

Goroutines(p) ==
  \/ CollectorRuns(p) \/ CollectorEnds(p) \/ CollectorGone(p)
  \/ JobsReady(p) \/ JobsEnd(p) \/ JobsGone(p)

Next ==
  \/ ContextDone
  \/ \E s \in Settings : \/ Bootstrap(s)
                         \/ \E p \in Requests : PutSettings(p, s)
  \/ MainStep \/ StopStep
  \/ \E p \in Procs : Step(p) \/ Goroutines(p)

Spec == Init /\ [][Next]_vars

\* Every goroutine that can run does; there are finitely many requests, so
\* no lock is contended for ever.
FairSpec ==
  /\ Spec
  /\ WF_vars(MainStep) /\ WF_vars(StopStep)
  /\ \A p \in Procs : /\ WF_vars(Step(p))
                      /\ WF_vars(CollectorRuns(p) \/ CollectorEnds(p))
                      /\ WF_vars(CollectorGone(p))
                      /\ WF_vars(JobsReady(p) \/ JobsEnd(p) \/ JobsGone(p))

-----------------------------------------------------------------------------

\* Types of the runtime's variables, and who holds which lock: a request from
\* lock to return, Apply from its begin to its end, on every path.
TypeOK ==
  /\ ctxDone \in BOOLEAN /\ stopping \in BOOLEAN /\ retain \in BOOLEAN
  /\ dbOpen \in BOOLEAN
  /\ setMu \in Requests \cup {None} /\ cfgMu \in Procs \cup {"stop", None}
  /\ rt \in [ctx : BOOLEAN, current : Procs \cup {None},
             active : Settings \cup {None}, gate : Procs \cup {None}]
  /\ released \subseteq Procs /\ stuck \subseteq Procs
  /\ coll \in [Procs -> [at : {"none", "gated", "running", "ended", "gone"},
                         cancelled : BOOLEAN, gate : Procs \cup {None}]]
  /\ jobsCur \in Procs \cup {None}
  /\ jobs \in [Procs -> [at : {"none", "starting", "ready", "ended", "gone"},
                         cancelled : BOOLEAN]]
  /\ stopper \in {"idle", "lock", "wait", "done"}
  /\ {stored, calendar, finance} \subseteq Settings \cup {None}
  /\ outcome \in {"none", "ok", "restored", "down"}
  /\ overtaken \subseteq {"reader", "finance"}
  /\ \A p \in Procs :
       cfgMu = p <=> pc[p] \in {"waitOld", "joinOld", "persist"}
  /\ \A p \in Requests : setMu = p <=> pc[p] \notin {"idle", "lock", "done"}

\* At most one collector talks to the logger, which serves one connection:
\* Apply waits for the old goroutine however late it is.
OneCollector == Cardinality({p \in Procs : coll[p].at = "running"}) <= 1

\* No gate stands between the collector of p and its first poll.
LetGo(p) == /\ coll[p].at \in {"gated", "running"} /\ ~coll[p].cancelled
            /\ coll[p].gate \in released \cup {None}

\* No collector is let go before an alert worker is subscribed, else its first
\* events would reach nobody.
AlertsBeforeCollector ==
  [][\A p \in Procs : ~LetGo(p) /\ LetGo(p)' /\ ~ctxDone /\ ~stopping
       => Listening]_vars

\* No process is at work and no goroutine is about to leave.
AtRest ==
  /\ ~ctxDone
  /\ \A p \in Procs : pc[p] \in {"idle", "serving", "done", "exited"}
  /\ \A p \in Procs : coll[p].at # "ended" /\ jobs[p].at # "ended"

\* Whenever the runtime is at rest, the collector reads and the summaries are
\* stored under the settings in the database, unless start-up or bootstrap,
\* which take no settingsMu, were overtaken by a request ...
ReaderConsistent ==
  AtRest /\ rt.current # None /\ "reader" \notin overtaken =>
    rt.active = stored /\ calendar = stored

\* ... and so is the billing calendar, set by a call of its own after Apply has
\* given up configureMu.
ConfigConsistent ==
  /\ ReaderConsistent
  /\ AtRest /\ rt.current # None /\ "finance" \notin overtaken => finance = stored

\* A settings request that succeeds leaves collector and jobs running; one
\* that is refused leaves running what it found running.
ServiceRestored ==
  AtRest /\ outcome \in {"ok", "restored"} =>
    Up /\ Listening /\ LetGo(rt.current)

\* SQLite is closed only when nobody uses it: no collector, no job runner and
\* no worker that outlived its runner.
ClosedWhenQuiet ==
  ~dbOpen => /\ \A p \in Procs : CollectorStopped(p) /\ JobsStopped(p)
             /\ stuck = {}

\* A settings request always ends.
RequestEnds == \A p \in Requests : pc[p] = "lock" ~> pc[p] = "done"

\* The application stops when its context is done, in whatever state a
\* request in progress has left the runtime.
ShutdownEnds == ctxDone ~> pc[Main] = "exited"

\* Neither a settings request nor a failure in the middle of one, nor start-up
\* or bootstrap at the same time, leaves the runtime half changed, except for
\* the parts that are overtaken.
SettingsInForce == TypeOK /\ ConfigConsistent

\* Between requests the service is as complete as the last answer said, under
\* the settings in the database, and its first events reach the alert worker.
ServiceResumes ==
  [](ConfigConsistent /\ ServiceRestored) /\ AlertsBeforeCollector

\* Whoever waits for the runtime is released.
CallsEnd == RequestEnds /\ ShutdownEnds
=============================================================================
