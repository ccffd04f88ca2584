---------------------------- MODULE DailyJobProofs ----------------------------
(***************************************************************************)
(* The daily job works on the right day and in the right order, for every  *)
(* length of day, schedule and retry delay.                                *)
(***************************************************************************)
EXTENDS DailyJob, TLAPS

\* The tables, and a clock that has seen one full day.
TablesInv == now >= DayLength /\ done \in [StepNames -> SUBSET Nat]

\* The running job began when its schedule had come.
JobInv ==
  InJob => /\ DayLength <= jobNow /\ jobNow <= now
           /\ scheduleFor(Day(jobNow)) <= jobNow

\* The job has completed, for its day, the steps before the one it is at.
StepsInv ==
  \A i, j \in DOMAIN Steps : i < j /\ pc = Steps[j] => job \in done[Steps[i]]

RunnerInv == TypeOK /\ TablesInv /\ JobInv /\ StepsInv /\ PrunedOnlyWhenComplete

-----------------------------------------------------------------------------
(* Days *)

USE DailyJobAssumption

\* A moment lies in its day.
LEMMA DayBounds ==
  ASSUME NEW t \in Nat
  PROVE  /\ Day(t) \in Nat
         /\ Day(t) * DayLength <= t /\ t < (Day(t) + 1) * DayLength
BY DEF Day

\* Days come in the order of their moments; the first day is over after
\* DayLength.
LEMMA DayMonotone ==
  ASSUME NEW t \in Nat, NEW u \in Nat, t <= u
  PROVE  Day(t) <= Day(u) /\ (DayLength <= t => Day(t) >= 1)
BY DEF Day

\* A job that began at t works on a day that had ended by t.
LEMMA JobDay ==
  ASSUME NEW t \in Nat, NEW u \in Nat, DayLength <= t, t <= u
  PROVE  Yesterday(t) \in 0 .. (Day(u) - 1)
<1>1. Day(t) \in Nat /\ Day(u) \in Nat  BY DayBounds
<1>2. Day(t) <= Day(u) /\ Day(t) >= 1  BY DayMonotone
<1> QED  BY <1>1, <1>2 DEF Yesterday

\* Days that were over stay over.
LEMMA DaysStayOver ==
  ASSUME NEW t \in Nat, NEW u \in Nat, t <= u
  PROVE  0 .. (Day(t) - 1) \subseteq 0 .. (Day(u) - 1)
BY DayMonotone, DayBounds

\* A schedule is a moment.
LEMMA ScheduleIsNat ==
  ASSUME NEW d \in Nat
  PROVE  scheduleFor(d) \in Nat
BY DEF scheduleFor

\* The next schedule is a moment.
LEMMA NextScheduleIsNat ==
  ASSUME now \in Nat
  PROVE  NextSchedule \in Nat
BY DayBounds, ScheduleIsNat DEF NextSchedule

-----------------------------------------------------------------------------
(* Steps *)

\* The steps by number.
LEMMA StepsAre ==
  /\ DOMAIN Steps = 1 .. 7
  /\ Steps[1] = "aggregate" /\ Steps[2] = "tariffs" /\ Steps[3] = "analyse"
  /\ Steps[4] = "persist" /\ Steps[5] = "alerts" /\ Steps[6] = "month"
  /\ Steps[7] = "prune"
BY DEF Steps

\* ... and by name.
LEMMA NamesAre ==
  StepNames = {"aggregate", "tariffs", "analyse", "persist", "alerts", "month", "prune"}
<1>1. StepNames = {Steps[i] : i \in 1 .. 7}  BY StepsAre DEF StepNames
<1>2. 1 .. 7 = {1, 2, 3, 4, 5, 6, 7}  OBVIOUS
<1> QED  BY <1>1, <1>2, StepsAre

\* No name stands for two steps.
LEMMA StepsDiffer ==
  ASSUME NEW i \in DOMAIN Steps, NEW j \in DOMAIN Steps, Steps[i] = Steps[j]
  PROVE  i = j
BY StepsAre

\* NextStep takes the step after.
LEMMA NextStepIs ==
  ASSUME NEW i \in 1 .. 6
  PROVE  NextStep(Steps[i]) = Steps[i + 1]
<1>1. i \in DOMAIN Steps  BY StepsAre
<1>2. (CHOOSE j \in DOMAIN Steps : Steps[j] = Steps[i]) = i  BY <1>1, StepsDiffer
<1> QED  BY <1>2 DEF NextStep

-----------------------------------------------------------------------------
(* The runner *)

\* The day of the running job has ended.
LEMMA JobIsOver ==
  ASSUME RunnerInv, InJob
  PROVE  job \in 0 .. (Day(now) - 1) /\ job \in Nat
<1>1. job \in 0 .. (Day(now) - 1)  BY JobDay DEF RunnerInv, TypeOK, JobInv, job
<1>2. Day(now) \in Nat  BY DayBounds DEF RunnerInv, TypeOK
<1> QED  BY <1>1, <1>2

\* A step that leaves the job, its day and the tables as they are.
Idle == UNCHANGED <<pc, jobNow, done>>

\* Time and the other goroutines leave the job alone.
LEMMA IdleStep ==
  ASSUME RunnerInv, Idle, now' \in Nat, now <= now'
  PROVE  /\ TablesInv' /\ JobInv' /\ StepsInv' /\ PrunedOnlyWhenComplete'
         /\ \A s \in StepNames : done'[s] \subseteq 0 .. (Day(now') - 1)
<1> USE DEF Idle
<1>1. now \in Nat /\ jobNow \in Nat  BY DEF RunnerInv, TypeOK
<1>2. TablesInv'  BY <1>1 DEF RunnerInv, TablesInv
<1>3. JobInv'  BY <1>1 DEF RunnerInv, JobInv, InJob, Day, scheduleFor
<1>4. StepsInv'  BY DEF RunnerInv, StepsInv, job, Yesterday, Day
<1>5. PrunedOnlyWhenComplete'  BY DEF RunnerInv, PrunedOnlyWhenComplete
<1>6. 0 .. (Day(now) - 1) \subseteq 0 .. (Day(now') - 1)  BY <1>1, DaysStayOver
<1> QED  BY <1>2, <1>3, <1>4, <1>5, <1>6 DEF RunnerInv, TypeOK

\* Leaving the job for a place outside of it keeps the tables.
LEMMA LeaveStep ==
  ASSUME RunnerInv, pc' \notin StepNames, UNCHANGED <<now, done>>
  PROVE  /\ TablesInv' /\ JobInv' /\ StepsInv' /\ PrunedOnlyWhenComplete'
         /\ \A s \in StepNames : done'[s] \subseteq 0 .. (Day(now') - 1)
<1>1. \A j \in DOMAIN Steps : Steps[j] \in StepNames  BY DEF StepNames
<1>2. StepsInv'  BY <1>1 DEF StepsInv
<1>3. JobInv'  BY DEF JobInv, InJob
<1>4. TablesInv'  BY DEF RunnerInv, TablesInv
<1>5. PrunedOnlyWhenComplete'  BY DEF RunnerInv, PrunedOnlyWhenComplete
<1> QED  BY <1>2, <1>3, <1>4, <1>5 DEF RunnerInv, TypeOK, Day

\* Completing step number i for the day of the job and going on with the next
\* one.
LEMMA AdvanceStep ==
  ASSUME RunnerInv, NEW i \in 1 .. 6, pc = Steps[i], pc' = Steps[i + 1],
         done' = [done EXCEPT ![pc] = @ \cup {job}], UNCHANGED <<now, jobNow>>
  PROVE  /\ TablesInv' /\ JobInv' /\ StepsInv' /\ PrunedOnlyWhenComplete'
         /\ \A s \in StepNames : done'[s] \subseteq 0 .. (Day(now') - 1)
<1>1. pc \in StepNames /\ InJob  BY StepsAre DEF StepNames, InJob
<1>2. job \in 0 .. (Day(now) - 1) /\ job \in Nat  BY <1>1, JobIsOver
<1>3. done \in [StepNames -> SUBSET Nat]  BY DEF RunnerInv, TablesInv
<1>4. job' = job  BY DEF job, Yesterday, Day
<1>5. \A s \in StepNames : done'[s] = IF s = pc THEN done[s] \cup {job} ELSE done[s]
  BY <1>3
<1>6. TablesInv'  BY <1>1, <1>2, <1>3 DEF RunnerInv, TablesInv
<1>7. JobInv'  BY <1>1 DEF RunnerInv, JobInv, Day, scheduleFor
<1>8. StepsInv'
  <2> SUFFICES ASSUME NEW k \in DOMAIN Steps, NEW j \in DOMAIN Steps, k < j, pc' = Steps[j]
               PROVE  job \in done'[Steps[k]]
    BY <1>4 DEF StepsInv
  <2>1. i \in DOMAIN Steps /\ i + 1 \in DOMAIN Steps  BY StepsAre
  <2>2. j = i + 1  BY <2>1, StepsDiffer
  <2>3. Steps[k] \in StepNames  BY DEF StepNames
  <2>4. CASE k = i  BY <1>5, <2>3, <2>4
  <2>5. CASE k < i
    <3>1. job \in done[Steps[k]]  BY <2>1, <2>5 DEF RunnerInv, StepsInv
    <3> QED  BY <1>5, <2>3, <3>1
  <2> QED  BY <2>1, <2>2, <2>4, <2>5, StepsAre
<1>9. PrunedOnlyWhenComplete'
  <2>1. pc # "prune"  BY StepsAre
  <2>2. done'["prune"] = done["prune"]  BY <1>5, <2>1, NamesAre
  <2> QED  BY <1>5, <2>2 DEF RunnerInv, PrunedOnlyWhenComplete
<1>10. \A s \in StepNames : done'[s] \subseteq 0 .. (Day(now') - 1)
  BY <1>2, <1>5 DEF RunnerInv, TypeOK, Day
<1> QED  BY <1>6, <1>7, <1>8, <1>9, <1>10

\* Retention comes after every other step of the job, for the same day.
LEMMA PruneStep ==
  ASSUME RunnerInv, Prune
  PROVE  /\ TablesInv' /\ JobInv' /\ StepsInv' /\ PrunedOnlyWhenComplete'
         /\ \A s \in StepNames : done'[s] \subseteq 0 .. (Day(now') - 1)
<1>1. pc \in StepNames /\ InJob /\ pc = "prune"  BY NamesAre DEF Prune, InJob
<1>2. job \in 0 .. (Day(now) - 1) /\ job \in Nat  BY <1>1, JobIsOver
<1>3. done \in [StepNames -> SUBSET Nat]  BY DEF RunnerInv, TablesInv
<1>4. \A s \in StepNames : done'[s] = IF s = "prune" THEN done[s] \cup {job} ELSE done[s]
  BY <1>1, <1>3 DEF Prune
<1>5. pc' \notin StepNames  BY NamesAre DEF Prune
<1>6. \A j \in DOMAIN Steps : Steps[j] \in StepNames  BY DEF StepNames
<1>7. \A s \in StepNames : s # "prune" => job \in done[s]
  <2> SUFFICES ASSUME NEW s \in StepNames, s # "prune" PROVE job \in done[s]
    OBVIOUS
  <2>1. PICK k \in DOMAIN Steps : s = Steps[k]  BY DEF StepNames
  <2>2. k < 7 /\ 7 \in DOMAIN Steps /\ pc = Steps[7]  BY <1>1, <2>1, StepsAre
  <2> QED  BY <2>1, <2>2 DEF RunnerInv, StepsInv
<1>8. PrunedOnlyWhenComplete'
  <2>1. done'["prune"] = done["prune"] \cup {job}  BY <1>4, NamesAre
  <2> QED  BY <1>4, <1>7, <2>1 DEF RunnerInv, PrunedOnlyWhenComplete
<1>9. TablesInv'  BY <1>1, <1>2, <1>3 DEF RunnerInv, TablesInv, Prune
<1>10. JobInv' /\ StepsInv'  BY <1>5, <1>6 DEF JobInv, StepsInv, InJob
<1>11. \A s \in StepNames : done'[s] \subseteq 0 .. (Day(now') - 1)
  BY <1>2, <1>4 DEF RunnerInv, TypeOK, Day, Prune
<1> QED  BY <1>8, <1>9, <1>10, <1>11

\* The rest of the types.
Scalars ==
  /\ now \in Nat /\ runs \in 0 .. MaxRuns /\ cancelled \in BOOLEAN
  /\ pc \in {"stopped", "load", "retry", "sleep"} \cup StepNames
  /\ wake \in Nat /\ jobNow \in Nat /\ evaluatedAt \in Nat /\ weatherDay \in Nat
  /\ lastDay \in Int
  /\ result \in {"none", "ok", "regressed", "fault"}
  /\ skipped \subseteq Nat

\* TypeOK in the parts that the steps below establish.
LEMMA TypeParts ==
  TypeOK <=> Scalars /\ \A s \in StepNames : done[s] \subseteq 0 .. (Day(now) - 1)
BY DEF TypeOK, Scalars

\* Every step of the runner and of its environment keeps the invariant.
LEMMA RunnerStep ==
  ASSUME RunnerInv, [Next]_vars
  PROVE  RunnerInv'
<1> DEFINE Tabs == /\ TablesInv /\ JobInv /\ StepsInv /\ PrunedOnlyWhenComplete
                   /\ \A s \in StepNames : done[s] \subseteq 0 .. (Day(now) - 1)
<1> SUFFICES Scalars' /\ Tabs'
  BY TypeParts DEF RunnerInv, TypeOK, Scalars
<1>0. Scalars  BY TypeParts DEF RunnerInv
<1>1. CASE Tick
  <2>1. Scalars' /\ Idle /\ now <= now'  BY <1>0, <1>1 DEF Tick, Scalars, Idle
  <2> QED  BY <2>1, IdleStep DEF Scalars
<1>2. CASE Start
  <2>1. pc' \notin StepNames /\ UNCHANGED <<now, done>>  BY <1>2, NamesAre DEF Start
  <2>2. Scalars'
    <3>1. lastDay' \in Int  BY <1>2 DEF Start
    <3>2. runs' \in 0 .. MaxRuns  BY <1>0, <1>2 DEF Start, Scalars
    <3> QED  BY <1>0, <1>2, <3>1, <3>2 DEF Start, Scalars
  <2> QED  BY <2>1, <2>2, LeaveStep
<1>3. CASE Cancel
  <2>1. Scalars' /\ Idle /\ now <= now'  BY <1>0, <1>3 DEF Cancel, Scalars, Idle
  <2> QED  BY <2>1, IdleStep DEF Scalars
<1>4. ASSUME NEW at \in 0 .. now, WorkerEvaluates(at) PROVE Scalars' /\ Tabs'
  <2>1. Scalars' /\ Idle /\ now <= now'  BY <1>0, <1>4 DEF WorkerEvaluates, Scalars, Idle
  <2> QED  BY <2>1, IdleStep DEF Scalars
<1>5. CASE WeatherRefresh
  <2>1. Day(now) \in Nat  BY <1>0, DayBounds DEF Scalars
  <2>2. Scalars' /\ Idle /\ now <= now'  BY <1>0, <1>5, <2>1 DEF WeatherRefresh, Scalars, Idle
  <2> QED  BY <2>2, IdleStep DEF Scalars
<1>6. CASE LoadSettings
  <2>1. NextSchedule \in Nat  BY <1>0, NextScheduleIsNat DEF Scalars
  <2>2. Scalars'
    <3>1. Steps[1] \in StepNames  BY StepsAre, NamesAre
    <3>2. pc' \in {"stopped", "load", "retry", "sleep"} \cup StepNames
      BY <1>6, <3>1 DEF LoadSettings
    <3>3. wake' \in Nat /\ jobNow' \in Nat  BY <1>0, <1>6, <2>1 DEF LoadSettings, Scalars
    <3> QED  BY <1>0, <1>6, <3>2, <3>3 DEF LoadSettings, Scalars
  <2>3. CASE pc' = Steps[1] /\ jobNow' = now /\ Due
    <3>1. JobInv'
      BY <1>0, <1>6, <2>3 DEF LoadSettings, JobInv, Due, Scalars, RunnerInv, TablesInv, Day, scheduleFor
    <3>2. \A j \in DOMAIN Steps : pc' = Steps[j] => j = 1  BY <2>3, StepsAre
    <3>3. StepsInv'  BY <3>2, StepsAre DEF StepsInv
    <3> QED
      BY <1>6, <2>2, <3>1, <3>3 DEF LoadSettings, RunnerInv, TypeOK, TablesInv, PrunedOnlyWhenComplete, Day
  <2>4. CASE pc' \in {"sleep", "retry"}
    <3>1. pc' \notin StepNames  BY <2>4, NamesAre
    <3> QED  BY <1>6, <2>2, <3>1, LeaveStep DEF LoadSettings
  <2> QED  BY <1>6, <2>3, <2>4 DEF LoadSettings
<1>7. CASE Wake
  <2>1. pc' \notin StepNames /\ UNCHANGED <<now, done>>  BY <1>7, NamesAre DEF Wake
  <2>2. Scalars'  BY <1>0, <1>7 DEF Wake, Scalars
  <2> QED  BY <2>1, <2>2, LeaveStep
<1>8. CASE StopWaiting
  <2>1. pc' \notin StepNames /\ UNCHANGED <<now, done>>  BY <1>8, NamesAre DEF StopWaiting
  <2>2. Scalars'  BY <1>0, <1>8 DEF StopWaiting, Scalars
  <2> QED  BY <2>1, <2>2, LeaveStep
<1>9. ASSUME NEW class \in {"fault", "regressed"}, JobFails(class) PROVE Scalars' /\ Tabs'
  <2>1. pc' \notin StepNames /\ UNCHANGED <<now, done>>  BY <1>9, NamesAre DEF JobFails
  <2>2. Scalars'  BY <1>0, <1>9 DEF JobFails, Scalars
  <2> QED  BY <2>1, <2>2, LeaveStep
<1>10. CASE StepDone
  <2>1. PICK i \in 1 .. 6 : pc = Steps[i]  BY <1>10, StepsAre, NamesAre DEF StepDone
  <2>2. pc' = Steps[i + 1]  BY <1>10, <2>1, NextStepIs DEF StepDone
  <2>3. pc \in StepNames /\ pc' \in StepNames  BY <2>1, <2>2, StepsAre DEF StepNames
  <2>4. job \in Nat  BY <2>3, JobIsOver DEF InJob
  <2>5. Scalars'  BY <1>0, <1>10, <2>3, <2>4 DEF StepDone, Scalars
  <2> QED  BY <1>10, <2>1, <2>2, <2>5, AdvanceStep DEF StepDone
<1>11. CASE EvaluateAlerts
  <2>1. 5 \in 1 .. 6 /\ pc = Steps[5]  BY <1>11, StepsAre DEF EvaluateAlerts
  <2>2. pc' = Steps[5 + 1]  BY <1>11, <2>1, NextStepIs DEF EvaluateAlerts
  <2>3. pc' \in StepNames  BY <2>2, StepsAre DEF StepNames
  <2>4. Scalars'  BY <1>0, <1>11, <2>3 DEF EvaluateAlerts, Scalars
  <2> QED  BY <1>11, <2>1, <2>2, <2>4, AdvanceStep DEF EvaluateAlerts
<1>12. CASE Prune
  <2>1. NextSchedule \in Nat  BY <1>0, NextScheduleIsNat DEF Scalars
  <2>2. InJob  BY <1>12, NamesAre DEF Prune, InJob
  <2>3. job \in Nat  BY <2>2, JobIsOver
  <2>4. Yesterday(now) \in Nat
    <3>1. Yesterday(now) \in 0 .. (Day(now) - 1)
      BY <1>0, JobDay DEF Scalars, RunnerInv, TablesInv
    <3>2. Day(now) \in Nat  BY <1>0, DayBounds DEF Scalars
    <3> QED  BY <3>1, <3>2
  <2>5. skipped' \subseteq Nat  BY <1>0, <1>12, <2>4 DEF Prune, Scalars
  <2>6. Scalars'  BY <1>0, <1>12, <2>1, <2>3, <2>5 DEF Prune, Scalars
  <2> QED  BY <1>12, <2>6, PruneStep
<1>13. CASE UNCHANGED vars
  <2>1. Scalars' /\ Idle /\ now <= now'  BY <1>0, <1>13 DEF vars, Scalars, Idle
  <2> QED  BY <2>1, IdleStep DEF Scalars
<1> QED
  BY <1>1, <1>2, <1>3, <1>4, <1>5, <1>6, <1>7, <1>8, <1>9, <1>10, <1>11, <1>12, <1>13
  DEF Next, Runner, StepFails, AlertsRegressed

\* At every moment the job works on the day that had just ended when it began,
\* and old samples are pruned only by a job that has aggregated and analysed
\* that day in full, whatever failed, was retried or restarted before.
THEOREM JobsStaySound == Spec => []JobsSound
<1>1. Init => RunnerInv
  <2> SUFFICES ASSUME Init PROVE RunnerInv
    OBVIOUS
  <2>1. done \in [StepNames -> SUBSET Nat] /\ \A s \in StepNames : done[s] = {}  BY DEF Init
  <2>2. pc \notin StepNames  BY NamesAre DEF Init
  <2>3. StepsInv  BY <2>2 DEF StepsInv, StepNames
  <2>4. Scalars
    <3>1. lastDay \in Int  BY DEF Init
    <3>2. runs \in 0 .. MaxRuns  BY DEF Init
    <3> QED  BY <3>1, <3>2 DEF Init, Scalars
  <2>5. TypeOK  BY <2>1, <2>4, TypeParts
  <2>6. PrunedOnlyWhenComplete  BY <2>1, NamesAre DEF PrunedOnlyWhenComplete
  <2>7. TablesInv /\ JobInv  BY <2>1, <2>2 DEF Init, TablesInv, JobInv, InJob
  <2> QED  BY <2>3, <2>5, <2>6, <2>7 DEF RunnerInv
<1>2. RunnerInv /\ [Next]_vars => RunnerInv'  BY RunnerStep
<1>3. RunnerInv => JobsSound
  <2> SUFFICES ASSUME RunnerInv, InJob
               PROVE  /\ jobNow <= now
                      /\ (job + 1) * DayLength + ScheduleOffset <= now
                      /\ jobNow < (job + 2) * DayLength
    BY DEF RunnerInv, JobsSound, JobIsForYesterday
  <2>1. jobNow \in Nat /\ now \in Nat  BY DEF RunnerInv, TypeOK
  <2>2. Day(jobNow) \in Nat /\ jobNow < (Day(jobNow) + 1) * DayLength  BY <2>1, DayBounds
  <2>3. job + 1 = Day(jobNow) /\ job + 2 = Day(jobNow) + 1  BY <2>2 DEF job, Yesterday
  <2>4. jobNow <= now /\ Day(jobNow) * DayLength + ScheduleOffset <= jobNow
    BY DEF RunnerInv, JobInv, scheduleFor
  <2>5. Day(jobNow) * DayLength + ScheduleOffset \in Nat  BY <2>2
  <2> QED  BY <2>1, <2>2, <2>3, <2>4, <2>5
<1> QED  BY <1>1, <1>2, <1>3, PTL DEF Spec
=============================================================================
