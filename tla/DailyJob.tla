------------------------------- MODULE DailyJob -------------------------------
(***************************************************************************)
(* The job runner (internal/jobs/runner.go): the main loop of Run with the *)
(* daily job runOnce, beside the integration workers that evaluate alerts  *)
(* for collector events and refresh the weather.  The alert engine appears *)
(* here only by the time of its last evaluation: an evaluation at an older *)
(* time fails (AlertEngine.InOrder).                                       *)
(*                                                                         *)
(* The job works on the clock value it read before it started; every one   *)
(* of its steps takes time.                                                *)
(***************************************************************************)
EXTENDS Integers, FiniteSets

CONSTANTS
  DayLength,        \* time units per local day
  ScheduleOffset,   \* scheduleFor: 00:05, as an offset into the day
  RetryDelay,       \* of a failed job
  SlowSteps,        \* steps of the job during which other goroutines run
  StoreFaults,      \* may a step fail by itself?
  MaxNow, MaxRuns   \* bounds of the instance

Steps == <<"aggregate", "tariffs", "analyse", "persist", "alerts", "month",
           "prune">>
StepNames == {Steps[i] : i \in DOMAIN Steps}

ASSUME DailyJobAssumption ==
  /\ {DayLength, RetryDelay} \subseteq Nat \ {0}
  /\ ScheduleOffset \in 0 .. (DayLength - 1)
  /\ SlowSteps \subseteq StepNames
  /\ StoreFaults \in BOOLEAN /\ {MaxNow, MaxRuns} \subseteq Nat

VARIABLES
  now,
  runs,        \* how often Run was called: settings changes restart it
  cancelled,   \* the context of this Run is done
  pc,          \* "stopped", "load", a step, "retry" or "sleep"
  wake,        \* end of the current wait
  jobNow,      \* the clock value the running job works on
  lastDay,     \* local of Run: the last day done, -1 if none
  result,      \* of the last job: "none", "ok", "regressed", "fault"
  evaluatedAt, \* LastEvaluatedAt of the alert rules
  weatherDay,  \* the day of the weather the alert worker uses, 0 if none
  done,        \* tables: step -> days it was completed for
  skipped      \* history: days that were due when the job of another day
               \* ended; Run sleeps until the next schedule all the same

vars == <<now, runs, cancelled, pc, wake, jobNow, lastDay, result,
          evaluatedAt, weatherDay, done, skipped>>

Day(t) == t \div DayLength
Yesterday(t) == Day(t) - 1
scheduleFor(day) == day * DayLength + ScheduleOffset
job == Yesterday(jobNow)
InJob == pc \in StepNames

Init ==
  /\ now = DayLength /\ runs = 0 /\ cancelled = FALSE
  /\ pc = "stopped" /\ wake = 0 /\ jobNow = 0 /\ lastDay = -1
  /\ result = "none" /\ evaluatedAt = 0 /\ weatherDay = 0
  /\ done = [s \in StepNames |-> {}] /\ skipped = {}

Tick ==
  /\ now < MaxNow /\ (InJob => pc \in SlowSteps)
  /\ now' = now + 1
  /\ UNCHANGED <<runs, cancelled, pc, wake, jobNow, lastDay, result,
                 evaluatedAt, weatherDay, done, skipped>>

\* The application starts the runner, again after every change of settings:
\* lastDay is a local variable.
Start ==
  /\ pc = "stopped" /\ runs < MaxRuns
  /\ runs' = runs + 1 /\ cancelled' = FALSE
  /\ pc' = "load" /\ lastDay' = -1
  /\ UNCHANGED <<now, wake, jobNow, result, evaluatedAt, weatherDay, done,
                 skipped>>

Cancel ==
  /\ pc # "stopped" /\ ~cancelled
  /\ cancelled' = TRUE
  /\ UNCHANGED <<now, runs, pc, wake, jobNow, lastDay, result, evaluatedAt,
                 weatherDay, done, skipped>>

-----------------------------------------------------------------------------
(* The integration workers *)

WorkersRun == pc # "stopped" /\ ~cancelled /\ (InJob => pc \in SlowSteps)

\* The alert worker evaluates a collector event: at the clock, or at the
\* observation time of a snapshot.
WorkerEvaluates(at) ==
  /\ WorkersRun /\ at \in evaluatedAt .. now
  /\ evaluatedAt' = at
  /\ UNCHANGED <<now, runs, cancelled, pc, wake, jobNow, lastDay, result,
                 weatherDay, done, skipped>>

\* runWeatherIntegration fetches the weather of today.
WeatherRefresh ==
  /\ WorkersRun
  /\ weatherDay' = Day(now)
  /\ UNCHANGED <<now, runs, cancelled, pc, wake, jobNow, lastDay, result,
                 evaluatedAt, done, skipped>>

-----------------------------------------------------------------------------
(* Run *)

\* The job of yesterday is due, once in the life of this Run.
Due == now >= scheduleFor(Day(now)) /\ Yesterday(now) # lastDay

\* Mutant: always tomorrow's.
NextScheduleTomorrow == scheduleFor(Day(now) + 1)

\* The next schedule strictly after now.
NextSchedule ==
  IF scheduleFor(Day(now)) > now THEN scheduleFor(Day(now))
  ELSE scheduleFor(Day(now) + 1)

LoadSettings ==
  /\ pc = "load"
  /\ \/ /\ Due
        /\ pc' = Steps[1] /\ jobNow' = now
        /\ UNCHANGED wake
     \/ /\ ~Due
        /\ pc' = "sleep" /\ wake' = NextSchedule
        /\ UNCHANGED jobNow
     \/ /\ StoreFaults \/ cancelled
        /\ pc' = "retry" /\ wake' = now + RetryDelay
        /\ UNCHANGED jobNow
  /\ UNCHANGED <<now, runs, cancelled, lastDay, result, evaluatedAt,
                 weatherDay, done, skipped>>

\* A wait ends by its timer or by the context.
Wake ==
  /\ pc \in {"retry", "sleep"} /\ now >= wake
  /\ pc' = "load"
  /\ UNCHANGED <<now, runs, cancelled, wake, jobNow, lastDay, result,
                 evaluatedAt, weatherDay, done, skipped>>

StopWaiting ==
  /\ pc \in {"retry", "sleep"} /\ cancelled
  /\ pc' = "stopped"
  /\ UNCHANGED <<now, runs, cancelled, wake, jobNow, lastDay, result,
                 evaluatedAt, weatherDay, done, skipped>>

\* runCurrent: a failed job is retried, unless Run was cancelled meanwhile.
JobFails(class) ==
  /\ result' = class
  /\ pc' = IF cancelled THEN "stopped" ELSE "retry"
  /\ wake' = now + RetryDelay
  /\ UNCHANGED <<now, runs, cancelled, jobNow, lastDay, evaluatedAt,
                 weatherDay, done, skipped>>

\* A step fails by itself, or because runCurrent cancelled the job's context.
\* The tariff refresh never fails the job.
StepFails ==
  /\ InJob /\ pc # "tariffs" /\ (StoreFaults \/ cancelled)
  /\ JobFails("fault")

\* Mutant: retention runs without the month.
NextStepSkipsMonth(s) == IF s = "alerts" THEN "prune" ELSE
                         Steps[(CHOOSE i \in DOMAIN Steps : Steps[i] = s) + 1]

NextStep(s) == Steps[(CHOOSE i \in DOMAIN Steps : Steps[i] = s) + 1]

\* runOnce up to the analysis: aggregate the hours and the day, refresh the
\* tariff, load history and weather (which replaces the shared weather), save
\* the analysis; and the month after it.
StepDone ==
  /\ pc \in StepNames \ {"alerts", "prune"}
  /\ done' = [done EXCEPT ![pc] = @ \cup {job}]
  /\ weatherDay' = IF pc = "analyse" THEN job ELSE weatherDay
  /\ pc' = NextStep(pc)
  /\ UNCHANGED <<now, runs, cancelled, wake, jobNow, lastDay, result,
                 evaluatedAt, skipped>>

\* The daily evaluation of alerts, at the time the job began.
EvaluateAlerts ==
  /\ pc = "alerts" /\ jobNow >= evaluatedAt
  /\ evaluatedAt' = jobNow
  /\ done' = [done EXCEPT ![pc] = @ \cup {job}]
  /\ pc' = NextStep(pc)
  /\ UNCHANGED <<now, runs, cancelled, wake, jobNow, lastDay, result,
                 weatherDay, skipped>>

AlertsRegressed ==
  /\ pc = "alerts" /\ jobNow < evaluatedAt
  /\ JobFails("regressed")

\* Retention, the last step; then Run sleeps until the next schedule.
Prune ==
  /\ pc = "prune"
  /\ done' = [done EXCEPT ![pc] = @ \cup {job}]
  /\ result' = "ok"
  /\ IF cancelled
     THEN pc' = "stopped" /\ UNCHANGED <<lastDay, wake>>
     ELSE pc' = "sleep" /\ lastDay' = job /\ wake' = NextSchedule
  /\ skipped' = skipped \cup
       {d \in {Yesterday(now)} : d # job /\ now >= scheduleFor(d + 1)}
  /\ UNCHANGED <<now, runs, cancelled, jobNow, evaluatedAt, weatherDay>>

Runner ==
  \/ LoadSettings \/ Wake \/ StopWaiting
  \/ StepDone \/ StepFails \/ EvaluateAlerts \/ AlertsRegressed \/ Prune

Next ==
  \/ Tick \/ Start \/ Cancel
  \/ \E at \in 0 .. now : WorkerEvaluates(at)
  \/ WeatherRefresh
  \/ Runner

Spec == Init /\ [][Next]_vars

\* Steps end, timers fire, the clock goes on.
FairSpec == Spec /\ WF_vars(Runner) /\ WF_vars(Tick) /\ SF_vars(StopWaiting)

-----------------------------------------------------------------------------

\* Types of the runner's state.
TypeOK ==
  /\ now \in Nat /\ runs \in 0 .. MaxRuns /\ cancelled \in BOOLEAN
  /\ pc \in {"stopped", "load", "retry", "sleep"} \cup StepNames
  /\ {wake, jobNow, evaluatedAt, weatherDay} \subseteq Nat
  /\ lastDay \in Int
  /\ result \in {"none", "ok", "regressed", "fault"}
  /\ \A s \in StepNames : done[s] \subseteq 0 .. (Day(now) - 1)
  /\ skipped \subseteq Nat

\* Old samples are pruned only by a job that has aggregated and analysed its
\* day in full, month included, whatever failed and was retried before.
PrunedOnlyWhenComplete ==
  \A s \in StepNames : done["prune"] \subseteq done[s]

\* No day is worked on before it has ended and its schedule has come, and only
\* one day back.
JobIsForYesterday ==
  InJob => /\ jobNow <= now
           /\ (job + 1) * DayLength + ScheduleOffset <= now
           /\ jobNow < (job + 2) * DayLength

\* From any point on, the day that has just ended is completed, unless
\* something fails once more (the runner retries), the next day ends first, or
\* the job of the day before was still running at its schedule.
DayCompleted ==
  \A d \in 0 .. (Day(MaxNow) - 1) :
    (pc # "stopped" /\ now >= scheduleFor(d + 1)) ~>
      \/ d \in done["prune"] \cup skipped
      \/ Day(now) > d + 1 \/ cancelled \/ pc = "retry"

\* Cancelling Run stops it.
CancelStops == cancelled ~> pc = "stopped"

\* What the runner has done is sound at every moment: the right day, in the
\* right order.
JobsSound == TypeOK /\ JobIsForYesterday /\ PrunedOnlyWhenComplete

\* The runner gets its work done, and lets itself be stopped.
RunnerProgresses == DayCompleted /\ CancelStops
=============================================================================
