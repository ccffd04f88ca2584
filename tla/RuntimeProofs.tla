---------------------------- MODULE RuntimeProofs ----------------------------
(***************************************************************************)
(* One collector at a time, a database that is closed only when nobody     *)
(* uses it, and locks that are given back: for any number of settings      *)
(* requests, with every fault of the model and with requests that arrive   *)
(* during start-up.  And that the settings in the database are in force,   *)
(* but for what start-up and bootstrap configure too late.                 *)
(***************************************************************************)
EXTENDS Runtime, FiniteSetTheorems, TLAPS

Locals == [want : Settings \cup {None}, old : Procs \cup {None},
           oldActive : Settings \cup {None}, jobs : Procs \cup {None},
           wasRunning : BOOLEAN, hasCtx : BOOLEAN,
           error : {"none", "load", "refused", "stop_timeout", "jobs"}, wasUp : BOOLEAN]

Collectors == [at : {"none", "gated", "running", "ended", "gone"},
               cancelled : BOOLEAN, gate : Procs \cup {None}]

Runners == [at : {"none", "starting", "ready", "ended", "gone"}, cancelled : BOOLEAN]

\* Inside collectorRuntime.Apply, with configureMu held.
InApply(p) == pc[p] \in {"waitOld", "joinOld", "persist"}

\* The goroutine of the collector has not returned.
Alive(p) == coll[p].at \in {"gated", "running"}

Labels == {"start", "load", "checkOpen", "serving", "stopServices", "stopping", "exited",
           "idle", "lock", "pause", "paused", "pauseAgain", "pausedAgain", "hold", "apply",
           "waitOld", "joinOld", "persist", "applied", "startJobs", "awaitReady", "release",
           "cancelCurrent", "joinCurrent", "return", "done"}

\* Types: the processes, ...
ProcsType == pc \in [Procs -> Labels] /\ loc \in [Procs -> Locals]

\* ... the collectors, ...
CollType ==
  /\ rt \in [ctx : BOOLEAN, current : Procs \cup {None},
             active : Settings \cup {None}, gate : Procs \cup {None}]
  /\ coll \in [Procs -> Collectors]

\* ... the jobs and the shutdown.
JobsType ==
  /\ jobs \in [Procs -> Runners] /\ jobsCur \in Procs \cup {None}
  /\ stuck \subseteq Procs
  /\ retain \in BOOLEAN /\ dbOpen \in BOOLEAN
  /\ stored \in Settings \cup {None}

StopType == stopping \in BOOLEAN /\ stopper \in {"idle", "lock", "wait", "done"}

WorkType == ProcsType /\ CollType /\ JobsType /\ StopType

\* configureMu is held by the process in Apply or by runtime.stop.
ConfigureMu ==
  /\ \A p \in Procs : cfgMu = p <=> InApply(p)
  /\ cfgMu = "stop" <=> stopper = "wait"

\* A collector that lives is the runtime's current one; who holds configureMu
\* has seen it, and starts another only after it has stopped.
Collecting ==
  /\ \A p \in Procs : Alive(p) => rt.current = p
  /\ \A p \in Procs :
       /\ InApply(p) => rt.current \in {loc[p].old, None}
       /\ pc[p] = "persist" => CollectorStopped(loc[p].old)
  /\ stopper = "wait" => rt.current \in {loc[Main].old, None}

\* How far the shutdown is, and what it can rely on from there.
Stopping ==
  /\ stopper # "idle" <=> pc[Main] \in {"stopping", "exited"}
  /\ stopping <=> stopper # "idle"
  /\ stopper \in {"wait", "done"} => ~rt.ctx
  /\ stopper = "done" => \A p \in Procs : ~InApply(p) /\ ~Alive(p)
  /\ pc[Main] = "exited" => stopper = "done" /\ RunnersGone

\* A worker that outlived its runner keeps the database open from the moment
\* at which the runner is gone.
Retained ==
  /\ \A p \in stuck : retain \/ jobs[p].at \notin {"none", "gone"}
  /\ ~dbOpen => pc[Main] = "exited" /\ ~retain

RuntimeInv == WorkType /\ ConfigureMu /\ Collecting /\ Stopping /\ Retained

\* The processes.
LEMMA ProcsFacts ==
  /\ Main \in Procs /\ Setup \in Procs /\ Requests \subseteq Procs
  /\ None \notin Procs /\ "stop" \notin Procs /\ None # "stop" /\ None \notin Settings
BY RuntimeAssumption DEF Procs

USE ProcsFacts
USE DEF rtVars, workVars, stopVars, dataVars

-----------------------------------------------------------------------------
(* Types *)

\* Assigning a local variable, and two of them.
LEMMA LocalAssigned ==
  ASSUME NEW r \in Locals
  PROVE  /\ \A x \in Settings \cup {None} : /\ [r EXCEPT !.want = x] \in Locals
                                         /\ [r EXCEPT !.oldActive = x] \in Locals
         /\ \A x \in Procs \cup {None} : /\ [r EXCEPT !.old = x] \in Locals
                                      /\ [r EXCEPT !.jobs = x] \in Locals
         /\ \A x \in BOOLEAN : /\ [r EXCEPT !.wasRunning = x] \in Locals
                            /\ [r EXCEPT !.hasCtx = x] \in Locals
                            /\ [r EXCEPT !.wasUp = x] \in Locals
         /\ \A x \in {"none", "load", "refused", "stop_timeout", "jobs"} :
              [r EXCEPT !.error = x] \in Locals
<1>1. ASSUME NEW x \in Settings \cup {None} PROVE [r EXCEPT !.want = x] \in Locals
  BY DEF Locals
<1>2. ASSUME NEW x \in Settings \cup {None} PROVE [r EXCEPT !.oldActive = x] \in Locals
  BY DEF Locals
<1>3. ASSUME NEW x \in Procs \cup {None} PROVE [r EXCEPT !.old = x] \in Locals
  BY DEF Locals
<1>4. ASSUME NEW x \in Procs \cup {None} PROVE [r EXCEPT !.jobs = x] \in Locals
  BY DEF Locals
<1>5. ASSUME NEW x \in BOOLEAN PROVE [r EXCEPT !.wasRunning = x] \in Locals
  BY DEF Locals
<1>6. ASSUME NEW x \in BOOLEAN PROVE [r EXCEPT !.hasCtx = x] \in Locals
  BY DEF Locals
<1>7. ASSUME NEW x \in BOOLEAN PROVE [r EXCEPT !.wasUp = x] \in Locals
  BY DEF Locals
<1>8. ASSUME NEW x \in {"none", "load", "refused", "stop_timeout", "jobs"}
      PROVE  [r EXCEPT !.error = x] \in Locals
  BY DEF Locals
<1> QED  BY <1>1, <1>2, <1>3, <1>4, <1>5, <1>6, <1>7, <1>8

\* Several assignments at once are assignments one after the other.
LEMMA LocalsAssigned ==
  ASSUME NEW r \in Locals
  PROVE  /\ \A x, y : [r EXCEPT !.old = x, !.oldActive = y]
                    = [[r EXCEPT !.old = x] EXCEPT !.oldActive = y]
         /\ \A x, y : [r EXCEPT !.jobs = x, !.wasRunning = y]
                    = [[r EXCEPT !.jobs = x] EXCEPT !.wasRunning = y]
         /\ \A x, y : [r EXCEPT !.hasCtx = x, !.wasUp = y]
                    = [[r EXCEPT !.hasCtx = x] EXCEPT !.wasUp = y]
BY DEF Locals

\* Every step keeps the types of the locals.
LEMMA LocsTypeStep == ASSUME WorkType, [Next]_vars PROVE loc' \in [Procs -> Locals]
<1> USE DEF WorkType, ProcsType, Goto, Fail
<1>1. \A p \in Procs : loc[p] \in Locals  OBVIOUS
<1>2. ASSUME NEW p \in Procs, NEW r \in Locals PROVE [loc EXCEPT ![p] = r] \in [Procs -> Locals]
  OBVIOUS
<1>3. ASSUME NEW p \in Procs, NEW e \in {"none", "load", "refused", "stop_timeout", "jobs"}
      PROVE  [loc EXCEPT ![p].error = e] \in [Procs -> Locals]
  <2>1. [loc[p] EXCEPT !.error = e] \in Locals  BY <1>1, LocalAssigned
  <2> QED  BY <1>2, <2>1
<1>4. CASE LoadSettings
  <2>1. [loc[Main] EXCEPT !.want = stored] \in Locals  BY <1>1, LocalAssigned DEF JobsType
  <2> QED  BY <1>2, <1>4, <2>1 DEF LoadSettings
<1>5. CASE CheckOpen
  <2>1. [loc EXCEPT ![Main].error = "load"] \in [Procs -> Locals]  BY <1>3
  <2> QED  BY <1>5, <2>1 DEF CheckOpen
<1>6. CASE RuntimeStop
  <2>1. [loc[Main] EXCEPT !.old = rt.current] \in Locals  BY <1>1, LocalAssigned DEF CollType
  <2> QED  BY <1>2, <1>6, <2>1 DEF RuntimeStop
<1>7. ASSUME NEW s \in Settings, Bootstrap(s) PROVE loc' \in [Procs -> Locals]
  <2>1. [loc[Setup] EXCEPT !.want = s] \in Locals  BY <1>1, LocalAssigned
  <2> QED  BY <1>2, <1>7, <2>1 DEF Bootstrap
<1>8. ASSUME NEW s \in Settings, NEW p \in Requests, PutSettings(p, s) PROVE loc' \in [Procs -> Locals]
  <2>1. [loc[p] EXCEPT !.want = s] \in Locals  BY <1>1, LocalAssigned
  <2> QED  BY <1>2, <1>8, <2>1 DEF PutSettings
<1>9. ASSUME NEW p \in Procs, ApplyBegin(p) PROVE loc' \in [Procs -> Locals]
  <2>1. rt.current \in Procs \cup {None} /\ rt.active \in Settings \cup {None}  BY DEF CollType
  <2>2. [loc[p] EXCEPT !.old = rt.current] \in Locals  BY <1>1, <2>1, LocalAssigned
  <2>3. [[loc[p] EXCEPT !.old = rt.current] EXCEPT !.oldActive = rt.active] \in Locals
    BY <2>1, <2>2, LocalAssigned
  <2>4. [loc[p] EXCEPT !.old = rt.current, !.oldActive = rt.active] \in Locals
    BY <1>1, <2>3, LocalsAssigned
  <2>5. CASE rt.ctx
    <3>1. loc' = [loc EXCEPT ![p].old = rt.current, ![p].oldActive = rt.active]
      BY <1>9, <2>5 DEF ApplyBegin
    <3> QED  BY <1>2, <2>4, <3>1
  <2>6. CASE ~rt.ctx
    <3>1. [loc EXCEPT ![p].error = "refused"] \in [Procs -> Locals]  BY <1>3
    <3> QED  BY <1>9, <2>6, <3>1 DEF ApplyBegin
  <2> QED  BY <2>5, <2>6
<1>10. ASSUME NEW p \in Procs, LockSettings(p) PROVE loc' \in [Procs -> Locals]
  <2>1. rt.ctx \in BOOLEAN /\ Up \in BOOLEAN  BY DEF CollType, Up
  <2>2. [loc[p] EXCEPT !.hasCtx = rt.ctx] \in Locals  BY <1>1, <2>1, LocalAssigned
  <2>3. [[loc[p] EXCEPT !.hasCtx = rt.ctx] EXCEPT !.wasUp = Up] \in Locals
    BY <2>1, <2>2, LocalAssigned
  <2>4. [loc[p] EXCEPT !.hasCtx = rt.ctx, !.wasUp = Up] \in Locals
    BY <1>1, <2>3, LocalsAssigned
  <2> QED  BY <1>2, <1>10, <2>4 DEF LockSettings
<1>11. ASSUME NEW p \in Procs, PauseJobs(p) PROVE loc' \in [Procs -> Locals]
  <2> DEFINE was == IF pc[p] = "pause" THEN jobsCur # None ELSE loc[p].wasRunning
  <2>1. jobsCur \in Procs \cup {None} /\ was \in BOOLEAN  BY <1>1 DEF JobsType, Locals
  <2>2. [loc[p] EXCEPT !.jobs = jobsCur] \in Locals  BY <1>1, <2>1, LocalAssigned
  <2>3. [[loc[p] EXCEPT !.jobs = jobsCur] EXCEPT !.wasRunning = was] \in Locals
    BY <2>1, <2>2, LocalAssigned
  <2>4. [loc[p] EXCEPT !.jobs = jobsCur, !.wasRunning = was] \in Locals
    BY <1>1, <2>3, LocalsAssigned
  <2>5. loc' = [loc EXCEPT ![p].jobs = jobsCur, ![p].wasRunning = was]
    BY <1>11 DEF PauseJobs
  <2> QED  BY <1>2, <2>4, <2>5
<1>12. ASSUME NEW p \in Procs, OldJoined(p) \/ Persist(p) \/ JobsNotReady(p) PROVE loc' \in [Procs -> Locals]
  <2>1. /\ [loc EXCEPT ![p].error = "stop_timeout"] \in [Procs -> Locals]
        /\ [loc EXCEPT ![p].error = "refused"] \in [Procs -> Locals]
        /\ [loc EXCEPT ![p].error = "jobs"] \in [Procs -> Locals]
    BY <1>3
  <2> QED  BY <1>12, <2>1 DEF OldJoined, Persist, JobsNotReady
<1>13. ASSUME NEW p \in Procs, StartJobs(p) PROVE loc' \in [Procs -> Locals]
  <2>1. [loc[p] EXCEPT !.jobs = None] \in Locals /\ [loc[p] EXCEPT !.jobs = p] \in Locals
    BY <1>1, LocalAssigned
  <2> QED  BY <1>2, <1>13, <2>1 DEF StartJobs
<1>14. ASSUME NEW p \in Procs, CancelCurrent(p) PROVE loc' \in [Procs -> Locals]
  <2>1. [loc[p] EXCEPT !.old = rt.current] \in Locals  BY <1>1, LocalAssigned DEF CollType
  <2> QED  BY <1>2, <1>14, <2>1 DEF CancelCurrent
<1>15. ASSUME NEW p \in Procs, Return(p) PROVE loc' \in [Procs -> Locals]
  <2>1. NoLocals \in Locals  BY DEF NoLocals, Locals
  <2> QED  BY <1>2, <1>15, <2>1 DEF Return
<1>16. ASSUME NEW p \in Procs,
              \/ OldStopped(p) \/ OldTimesOut(p) \/ Applied(p) \/ JobsAreReady(p) \/ JobsPaused(p)
              \/ CurrentJoined(p) \/ Hold(p) \/ Release(p) \/ Goroutines(p)
       PROVE  loc' \in [Procs -> Locals]
  BY <1>16 DEF OldStopped, OldTimesOut, Applied, JobsAreReady, JobsPaused, CurrentJoined, Hold,
               Release, Goroutines, CollectorRuns, CollectorEnds, CollectorGone, JobsReady, JobsEnd,
               JobsGone
<1>17. CASE \/ ContextDone \/ Begin \/ StopServing \/ StopServices \/ Exit
            \/ RuntimeStopped \/ UNCHANGED vars
  BY <1>17 DEF ContextDone, Begin, StopServing, StopServices, Exit, RuntimeStopped, vars
<1> QED
  BY <1>4, <1>5, <1>6, <1>7, <1>8, <1>9, <1>10, <1>11, <1>12, <1>13, <1>14, <1>15, <1>16, <1>17
     DEF Next, MainStep, StopStep, Step, Applying, Restarting

\* Processes stay where they can be.
LEMMA PcsTypeStep == ASSUME WorkType, [Next]_vars PROVE pc' \in [Procs -> Labels]
<1> USE DEF WorkType, ProcsType, Goto, Fail
<1>1. CASE ContextDone  BY <1>1 DEF ContextDone
<1>2. CASE Begin  BY <1>2 DEF Begin, Labels
<1>3. CASE LoadSettings  BY <1>3 DEF LoadSettings, Labels
<1>4. CASE CheckOpen  BY <1>4 DEF CheckOpen, Labels
<1>5. CASE StopServing  BY <1>5 DEF StopServing, Labels
<1>6. CASE StopServices  BY <1>6 DEF StopServices, Labels
<1>7. CASE Exit  BY <1>7 DEF Exit, Labels
<1>8. CASE RuntimeStop  BY <1>8 DEF RuntimeStop
<1>9. CASE RuntimeStopped  BY <1>9 DEF RuntimeStopped
<1>10. ASSUME NEW s \in Settings, Bootstrap(s) PROVE pc' \in [Procs -> Labels]
  BY <1>10 DEF Bootstrap, Labels
<1>11. ASSUME NEW s \in Settings, NEW p \in Requests, PutSettings(p, s) PROVE pc' \in [Procs -> Labels]
  BY <1>11 DEF PutSettings, Labels
<1>12. ASSUME NEW p \in Procs, ApplyBegin(p) PROVE pc' \in [Procs -> Labels]
  BY <1>12 DEF ApplyBegin, Labels
<1>13. ASSUME NEW p \in Procs, OldStopped(p) PROVE pc' \in [Procs -> Labels]
  BY <1>13 DEF OldStopped, Labels
<1>14. ASSUME NEW p \in Procs, OldTimesOut(p) PROVE pc' \in [Procs -> Labels]
  BY <1>14 DEF OldTimesOut, Labels
<1>15. ASSUME NEW p \in Procs, OldJoined(p) PROVE pc' \in [Procs -> Labels]
  BY <1>15 DEF OldJoined, Labels
<1>16. ASSUME NEW p \in Procs, Persist(p) PROVE pc' \in [Procs -> Labels]
  BY <1>16 DEF Persist, Labels
<1>17. ASSUME NEW p \in Procs, Applied(p) PROVE pc' \in [Procs -> Labels]
  <2>1. AfterApply(p) \in Labels
    <3>1. p = Setup \/ p = Main \/ p \in Requests  BY DEF Procs
    <3>2. Main # Setup /\ Main \notin Requests /\ Setup \notin Requests  BY RuntimeAssumption
    <3> QED  BY <3>1, <3>2 DEF AfterApply, Labels
  <2> QED  BY <1>17, <2>1 DEF Applied
<1>18. ASSUME NEW p \in Procs, StartJobs(p) PROVE pc' \in [Procs -> Labels]
  BY <1>18 DEF StartJobs, Labels
<1>19. ASSUME NEW p \in Procs, JobsAreReady(p) PROVE pc' \in [Procs -> Labels]
  BY <1>19 DEF JobsAreReady, Labels
<1>20. ASSUME NEW p \in Procs, JobsNotReady(p) PROVE pc' \in [Procs -> Labels]
  BY <1>20 DEF JobsNotReady, Labels
<1>21. ASSUME NEW p \in Procs, PauseJobs(p) PROVE pc' \in [Procs -> Labels]
  BY <1>21 DEF PauseJobs, Labels
<1>22. ASSUME NEW p \in Procs, JobsPaused(p) PROVE pc' \in [Procs -> Labels]
  BY <1>22 DEF JobsPaused, Labels
<1>23. ASSUME NEW p \in Procs, CancelCurrent(p) PROVE pc' \in [Procs -> Labels]
  BY <1>23 DEF CancelCurrent, Labels
<1>24. ASSUME NEW p \in Procs, CurrentJoined(p) PROVE pc' \in [Procs -> Labels]
  BY <1>24 DEF CurrentJoined, Labels
<1>25. ASSUME NEW p \in Procs, Hold(p) PROVE pc' \in [Procs -> Labels]  BY <1>25 DEF Hold, Labels
<1>26. ASSUME NEW p \in Procs, Release(p) PROVE pc' \in [Procs -> Labels]
  BY <1>26 DEF Release, Labels
<1>27. ASSUME NEW p \in Procs, LockSettings(p) PROVE pc' \in [Procs -> Labels]
  BY <1>27 DEF LockSettings, Labels
<1>28. ASSUME NEW p \in Procs, Return(p) PROVE pc' \in [Procs -> Labels]
  BY <1>28 DEF Return, Labels
<1>29. ASSUME NEW p \in Procs, CollectorRuns(p) PROVE pc' \in [Procs -> Labels]
  BY <1>29 DEF CollectorRuns
<1>30. ASSUME NEW p \in Procs, CollectorEnds(p) PROVE pc' \in [Procs -> Labels]
  BY <1>30 DEF CollectorEnds
<1>31. ASSUME NEW p \in Procs, CollectorGone(p) PROVE pc' \in [Procs -> Labels]
  BY <1>31 DEF CollectorGone
<1>32. ASSUME NEW p \in Procs, JobsReady(p) PROVE pc' \in [Procs -> Labels]  BY <1>32 DEF JobsReady
<1>33. ASSUME NEW p \in Procs, JobsEnd(p) PROVE pc' \in [Procs -> Labels]  BY <1>33 DEF JobsEnd
<1>34. ASSUME NEW p \in Procs, JobsGone(p) PROVE pc' \in [Procs -> Labels]  BY <1>34 DEF JobsGone
<1>35. CASE UNCHANGED vars  BY <1>35 DEF vars
<1> QED
  BY <1>1, <1>2, <1>3, <1>4, <1>5, <1>6, <1>7, <1>8, <1>9, <1>10, <1>11, <1>12, <1>13, <1>14,
     <1>15, <1>16, <1>17, <1>18, <1>19, <1>20, <1>21, <1>22, <1>23, <1>24, <1>25, <1>26, <1>27,
     <1>28, <1>29, <1>30, <1>31, <1>32, <1>33, <1>34, <1>35
     DEF Next, MainStep, StopStep, Step, Applying, Restarting, Goroutines

\* Cancelling keeps the types.
LEMMA CancelledType ==
  ASSUME CollType, NEW p \in Procs \cup {None}, CancelCollector(p), UNCHANGED rt
  PROVE  CollType'
BY DEF CollType, CancelCollector, Collectors

\* Collectors and the runtime's fields keep their types.
LEMMA CollTypeStep == ASSUME WorkType, [Next]_vars PROVE CollType'
<1> USE DEF WorkType, CollType, Goto, Fail, CancelCollector, CancelJobs
<1>1. CASE ContextDone  BY <1>1 DEF ContextDone
<1>2. CASE Begin  BY <1>2 DEF Begin
<1>3. CASE LoadSettings  BY <1>3 DEF LoadSettings
<1>4. CASE CheckOpen  BY <1>4 DEF CheckOpen
<1>5. CASE StopServing  BY <1>5 DEF StopServing
<1>6. CASE StopServices  BY <1>6 DEF StopServices
<1>7. CASE Exit  BY <1>7 DEF Exit
<1>8. CASE RuntimeStop  BY <1>8 DEF RuntimeStop, Collectors
<1>9. CASE RuntimeStopped  BY <1>9 DEF RuntimeStopped
<1>10. ASSUME NEW s \in Settings, Bootstrap(s) PROVE CollType'  BY <1>10 DEF Bootstrap
<1>11. ASSUME NEW s \in Settings, NEW p \in Requests, PutSettings(p, s) PROVE CollType'
  BY <1>11 DEF PutSettings
<1>12. ASSUME NEW p \in Procs, ApplyBegin(p) PROVE CollType'
  BY <1>12, CancelledType DEF ApplyBegin
<1>13. ASSUME NEW p \in Procs, OldStopped(p) PROVE CollType'  BY <1>13 DEF OldStopped
<1>14. ASSUME NEW p \in Procs, OldTimesOut(p) PROVE CollType'  BY <1>14 DEF OldTimesOut
<1>15. ASSUME NEW p \in Procs, OldJoined(p) PROVE CollType'  BY <1>15 DEF OldJoined
<1>16. ASSUME NEW p \in Procs, Persist(p) PROVE CollType'
  <2>1. {loc[p].want, loc[p].oldActive} \subseteq Settings \cup {None}
    BY DEF ProcsType, Locals
  <2>2. ASSUME NEW s \in Settings \cup {None}, startCollectorLocked(p, s) PROVE CollType'
    BY <2>2 DEF startCollectorLocked, Collectors
  <2>3. CASE UNCHANGED <<rt, coll>>  BY <2>3
  <2> QED  BY <1>16, <2>1, <2>2, <2>3 DEF Persist, RollbackSettings
<1>17. ASSUME NEW p \in Procs, Applied(p) PROVE CollType'  BY <1>17 DEF Applied
<1>18. ASSUME NEW p \in Procs, StartJobs(p) PROVE CollType'  BY <1>18 DEF StartJobs
<1>19. ASSUME NEW p \in Procs, JobsAreReady(p) PROVE CollType'  BY <1>19 DEF JobsAreReady
<1>20. ASSUME NEW p \in Procs, JobsNotReady(p) PROVE CollType'  BY <1>20 DEF JobsNotReady
<1>21. ASSUME NEW p \in Procs, PauseJobs(p) PROVE CollType'  BY <1>21 DEF PauseJobs
<1>22. ASSUME NEW p \in Procs, JobsPaused(p) PROVE CollType'  BY <1>22 DEF JobsPaused
<1>23. ASSUME NEW p \in Procs, CancelCurrent(p) PROVE CollType'
  BY <1>23 DEF CancelCurrent, Collectors
<1>24. ASSUME NEW p \in Procs, CurrentJoined(p) PROVE CollType'  BY <1>24 DEF CurrentJoined
<1>25. ASSUME NEW p \in Procs, Hold(p) PROVE CollType'  BY <1>25 DEF Hold
<1>26. ASSUME NEW p \in Procs, Release(p) PROVE CollType'  BY <1>26 DEF Release
<1>27. ASSUME NEW p \in Procs, LockSettings(p) PROVE CollType'  BY <1>27 DEF LockSettings
<1>28. ASSUME NEW p \in Procs, Return(p) PROVE CollType'  BY <1>28 DEF Return
<1>29. ASSUME NEW p \in Procs, CollectorRuns(p) PROVE CollType'
  BY <1>29 DEF CollectorRuns, Collectors
<1>30. ASSUME NEW p \in Procs, CollectorEnds(p) PROVE CollType'
  BY <1>30 DEF CollectorEnds, Collectors
<1>31. ASSUME NEW p \in Procs, CollectorGone(p) PROVE CollType'
  BY <1>31 DEF CollectorGone, Collectors, NoCollector
<1>32. ASSUME NEW p \in Procs, JobsReady(p) PROVE CollType'  BY <1>32 DEF JobsReady
<1>33. ASSUME NEW p \in Procs, JobsEnd(p) PROVE CollType'  BY <1>33 DEF JobsEnd
<1>34. ASSUME NEW p \in Procs, JobsGone(p) PROVE CollType'  BY <1>34 DEF JobsGone
<1>35. CASE UNCHANGED vars  BY <1>35 DEF vars
<1> QED
  BY <1>1, <1>2, <1>3, <1>4, <1>5, <1>6, <1>7, <1>8, <1>9, <1>10, <1>11, <1>12, <1>13, <1>14,
     <1>15, <1>16, <1>17, <1>18, <1>19, <1>20, <1>21, <1>22, <1>23, <1>24, <1>25, <1>26, <1>27,
     <1>28, <1>29, <1>30, <1>31, <1>32, <1>33, <1>34, <1>35
     DEF Next, MainStep, StopStep, Step, Applying, Restarting, Goroutines

\* So do the jobs.
LEMMA JobsTypeStep == ASSUME WorkType, [Next]_vars PROVE JobsType'
<1> USE DEF WorkType, JobsType, Goto, Fail, CancelCollector, CancelJobs
<1>1. CASE ContextDone  BY <1>1 DEF ContextDone
<1>2. CASE Begin  BY <1>2 DEF Begin
<1>3. CASE LoadSettings  BY <1>3 DEF LoadSettings
<1>4. CASE CheckOpen  BY <1>4 DEF CheckOpen
<1>5. CASE StopServing  BY <1>5 DEF StopServing
<1>6. CASE StopServices  BY <1>6 DEF StopServices, Runners
<1>7. CASE Exit  BY <1>7 DEF Exit
<1>8. CASE RuntimeStop  BY <1>8 DEF RuntimeStop
<1>9. CASE RuntimeStopped  BY <1>9 DEF RuntimeStopped
<1>10. ASSUME NEW s \in Settings, Bootstrap(s) PROVE JobsType'  BY <1>10 DEF Bootstrap
<1>11. ASSUME NEW s \in Settings, NEW p \in Requests, PutSettings(p, s) PROVE JobsType'
  BY <1>11 DEF PutSettings
<1>12. ASSUME NEW p \in Procs, ApplyBegin(p) PROVE JobsType'  BY <1>12 DEF ApplyBegin
<1>13. ASSUME NEW p \in Procs, OldStopped(p) PROVE JobsType'  BY <1>13 DEF OldStopped
<1>14. ASSUME NEW p \in Procs, OldTimesOut(p) PROVE JobsType'  BY <1>14 DEF OldTimesOut
<1>15. ASSUME NEW p \in Procs, OldJoined(p) PROVE JobsType'  BY <1>15 DEF OldJoined
<1>16. ASSUME NEW p \in Procs, Persist(p) PROVE JobsType'
  <2>1. loc[p].want \in Settings \cup {None}  BY DEF ProcsType, Locals
  <2> QED  BY <1>16, <2>1 DEF Persist
<1>17. ASSUME NEW p \in Procs, Applied(p) PROVE JobsType'  BY <1>17 DEF Applied
<1>18. ASSUME NEW p \in Procs, StartJobs(p) PROVE JobsType'
  <2>1. CASE UNCHANGED <<jobsCur, jobs>>  BY <1>18, <2>1 DEF StartJobs
  <2>2. CASE /\ jobsCur' = p
             /\ jobs' = [jobs EXCEPT ![p] = [at |-> "starting", cancelled |-> FALSE]]
    BY <1>18, <2>2 DEF StartJobs, Runners
  <2> QED  BY <1>18, <2>1, <2>2 DEF StartJobs
<1>19. ASSUME NEW p \in Procs, JobsAreReady(p) PROVE JobsType'  BY <1>19 DEF JobsAreReady
<1>20. ASSUME NEW p \in Procs, JobsNotReady(p) PROVE JobsType'  BY <1>20 DEF JobsNotReady
<1>21. ASSUME NEW p \in Procs, PauseJobs(p) PROVE JobsType'  BY <1>21 DEF PauseJobs, Runners
<1>22. ASSUME NEW p \in Procs, JobsPaused(p) PROVE JobsType'  BY <1>22 DEF JobsPaused
<1>23. ASSUME NEW p \in Procs, CancelCurrent(p) PROVE JobsType'  BY <1>23 DEF CancelCurrent
<1>24. ASSUME NEW p \in Procs, CurrentJoined(p) PROVE JobsType'  BY <1>24 DEF CurrentJoined
<1>25. ASSUME NEW p \in Procs, Hold(p) PROVE JobsType'  BY <1>25 DEF Hold
<1>26. ASSUME NEW p \in Procs, Release(p) PROVE JobsType'  BY <1>26 DEF Release
<1>27. ASSUME NEW p \in Procs, LockSettings(p) PROVE JobsType'  BY <1>27 DEF LockSettings
<1>28. ASSUME NEW p \in Procs, Return(p) PROVE JobsType'  BY <1>28 DEF Return
<1>29. ASSUME NEW p \in Procs, CollectorRuns(p) PROVE JobsType'  BY <1>29 DEF CollectorRuns
<1>30. ASSUME NEW p \in Procs, CollectorEnds(p) PROVE JobsType'  BY <1>30 DEF CollectorEnds
<1>31. ASSUME NEW p \in Procs, CollectorGone(p) PROVE JobsType'  BY <1>31 DEF CollectorGone
<1>32. ASSUME NEW p \in Procs, JobsReady(p) PROVE JobsType'  BY <1>32 DEF JobsReady, Runners
<1>33. ASSUME NEW p \in Procs, JobsEnd(p) PROVE JobsType'  BY <1>33 DEF JobsEnd, Runners
<1>34. ASSUME NEW p \in Procs, JobsGone(p) PROVE JobsType'  BY <1>34 DEF JobsGone, Runners, NoJobs
<1>35. CASE UNCHANGED vars  BY <1>35 DEF vars
<1> QED
  BY <1>1, <1>2, <1>3, <1>4, <1>5, <1>6, <1>7, <1>8, <1>9, <1>10, <1>11, <1>12, <1>13, <1>14,
     <1>15, <1>16, <1>17, <1>18, <1>19, <1>20, <1>21, <1>22, <1>23, <1>24, <1>25, <1>26, <1>27,
     <1>28, <1>29, <1>30, <1>31, <1>32, <1>33, <1>34, <1>35
     DEF Next, MainStep, StopStep, Step, Applying, Restarting, Goroutines

\* So does the shutdown.
LEMMA StopTypeStep == ASSUME WorkType, [Next]_vars PROVE StopType'
<1> USE DEF WorkType, StopType, Goto, Fail, CancelCollector, CancelJobs
<1>1. CASE ContextDone  BY <1>1 DEF ContextDone
<1>2. CASE Begin  BY <1>2 DEF Begin
<1>3. CASE LoadSettings  BY <1>3 DEF LoadSettings
<1>4. CASE CheckOpen  BY <1>4 DEF CheckOpen
<1>5. CASE StopServing  BY <1>5 DEF StopServing
<1>6. CASE StopServices  BY <1>6 DEF StopServices
<1>7. CASE Exit  BY <1>7 DEF Exit
<1>8. CASE RuntimeStop  BY <1>8 DEF RuntimeStop
<1>9. CASE RuntimeStopped  BY <1>9 DEF RuntimeStopped
<1>10. ASSUME NEW s \in Settings, Bootstrap(s) PROVE StopType'  BY <1>10 DEF Bootstrap
<1>11. ASSUME NEW s \in Settings, NEW p \in Requests, PutSettings(p, s) PROVE StopType'
  BY <1>11 DEF PutSettings
<1>12. ASSUME NEW p \in Procs, ApplyBegin(p) PROVE StopType'  BY <1>12 DEF ApplyBegin
<1>13. ASSUME NEW p \in Procs, OldStopped(p) PROVE StopType'  BY <1>13 DEF OldStopped
<1>14. ASSUME NEW p \in Procs, OldTimesOut(p) PROVE StopType'  BY <1>14 DEF OldTimesOut
<1>15. ASSUME NEW p \in Procs, OldJoined(p) PROVE StopType'  BY <1>15 DEF OldJoined
<1>16. ASSUME NEW p \in Procs, Persist(p) PROVE StopType'  BY <1>16 DEF Persist
<1>17. ASSUME NEW p \in Procs, Applied(p) PROVE StopType'  BY <1>17 DEF Applied
<1>18. ASSUME NEW p \in Procs, StartJobs(p) PROVE StopType'  BY <1>18 DEF StartJobs
<1>19. ASSUME NEW p \in Procs, JobsAreReady(p) PROVE StopType'  BY <1>19 DEF JobsAreReady
<1>20. ASSUME NEW p \in Procs, JobsNotReady(p) PROVE StopType'  BY <1>20 DEF JobsNotReady
<1>21. ASSUME NEW p \in Procs, PauseJobs(p) PROVE StopType'  BY <1>21 DEF PauseJobs
<1>22. ASSUME NEW p \in Procs, JobsPaused(p) PROVE StopType'  BY <1>22 DEF JobsPaused
<1>23. ASSUME NEW p \in Procs, CancelCurrent(p) PROVE StopType'  BY <1>23 DEF CancelCurrent
<1>24. ASSUME NEW p \in Procs, CurrentJoined(p) PROVE StopType'  BY <1>24 DEF CurrentJoined
<1>25. ASSUME NEW p \in Procs, Hold(p) PROVE StopType'  BY <1>25 DEF Hold
<1>26. ASSUME NEW p \in Procs, Release(p) PROVE StopType'  BY <1>26 DEF Release
<1>27. ASSUME NEW p \in Procs, LockSettings(p) PROVE StopType'  BY <1>27 DEF LockSettings
<1>28. ASSUME NEW p \in Procs, Return(p) PROVE StopType'  BY <1>28 DEF Return
<1>29. ASSUME NEW p \in Procs, CollectorRuns(p) PROVE StopType'  BY <1>29 DEF CollectorRuns
<1>30. ASSUME NEW p \in Procs, CollectorEnds(p) PROVE StopType'  BY <1>30 DEF CollectorEnds
<1>31. ASSUME NEW p \in Procs, CollectorGone(p) PROVE StopType'  BY <1>31 DEF CollectorGone
<1>32. ASSUME NEW p \in Procs, JobsReady(p) PROVE StopType'  BY <1>32 DEF JobsReady
<1>33. ASSUME NEW p \in Procs, JobsEnd(p) PROVE StopType'  BY <1>33 DEF JobsEnd
<1>34. ASSUME NEW p \in Procs, JobsGone(p) PROVE StopType'  BY <1>34 DEF JobsGone
<1>35. CASE UNCHANGED vars  BY <1>35 DEF vars
<1> QED
  BY <1>1, <1>2, <1>3, <1>4, <1>5, <1>6, <1>7, <1>8, <1>9, <1>10, <1>11, <1>12, <1>13, <1>14,
     <1>15, <1>16, <1>17, <1>18, <1>19, <1>20, <1>21, <1>22, <1>23, <1>24, <1>25, <1>26, <1>27,
     <1>28, <1>29, <1>30, <1>31, <1>32, <1>33, <1>34, <1>35
     DEF Next, MainStep, StopStep, Step, Applying, Restarting, Goroutines

\* Every step keeps WorkType.
LEMMA WorkStep == ASSUME WorkType, [Next]_vars PROVE WorkType'
BY LocsTypeStep, PcsTypeStep, CollTypeStep, JobsTypeStep, StopTypeStep DEF WorkType, ProcsType

-----------------------------------------------------------------------------
(* The collector *)

\* Where a process goes on after Apply.
LEMMA AfterApplyLabel ==
  ASSUME NEW p \in Procs
  PROVE  /\ AfterApply(p) \in {"done", "startJobs", "stopServices", "release"}
         /\ p = Main => AfterApply(p) \in {"startJobs", "stopServices"}
<1>1. p = Setup \/ p = Main \/ p \in Requests  BY DEF Procs
<1>2. Main # Setup /\ Main \notin Requests /\ Setup \notin Requests  BY RuntimeAssumption
<1> QED  BY <1>1, <1>2 DEF AfterApply

\* Cancelling stops nothing by itself.
LEMMA CancelKeeps ==
  ASSUME CollType, NEW c \in Procs \cup {None}, CancelCollector(c)
  PROVE  \A p \in Procs : coll'[p].at = coll[p].at /\ coll'[p].gate = coll[p].gate
BY DEF CollType, CancelCollector, Collectors

\* configureMu is taken and given up as stated.
LEMMA ConfigureMuStep == ASSUME RuntimeInv, [Next]_vars PROVE ConfigureMu'
<1> USE DEF RuntimeInv, WorkType, ProcsType, CollType, JobsType, StopType, ConfigureMu,
             InApply, Goto, Fail
<1>1. CASE ContextDone  BY <1>1 DEF ContextDone
<1>2. CASE Begin  BY <1>2 DEF Begin
<1>3. CASE LoadSettings  BY <1>3 DEF LoadSettings
<1>4. CASE CheckOpen  BY <1>4 DEF CheckOpen
<1>5. CASE StopServing  BY <1>5 DEF StopServing
<1>6. CASE StopServices  BY <1>6 DEF StopServices, Stopping
<1>7. CASE Exit  BY <1>7 DEF Exit
<1>8. CASE RuntimeStop  BY <1>8 DEF RuntimeStop
<1>9. CASE RuntimeStopped  BY <1>9 DEF RuntimeStopped
<1>10. ASSUME NEW s \in Settings, Bootstrap(s) PROVE ConfigureMu'  BY <1>10 DEF Bootstrap
<1>11. ASSUME NEW s \in Settings, NEW p \in Requests, PutSettings(p, s) PROVE ConfigureMu'
  BY <1>11 DEF PutSettings
<1>12. ASSUME NEW p \in Procs, ApplyBegin(p) PROVE ConfigureMu'  BY <1>12 DEF ApplyBegin
<1>13. ASSUME NEW p \in Procs, OldStopped(p) PROVE ConfigureMu'  BY <1>13 DEF OldStopped
<1>14. ASSUME NEW p \in Procs, OldTimesOut(p) PROVE ConfigureMu'  BY <1>14 DEF OldTimesOut
<1>15. ASSUME NEW p \in Procs, OldJoined(p) PROVE ConfigureMu'  BY <1>15 DEF OldJoined
<1>16. ASSUME NEW p \in Procs, Persist(p) PROVE ConfigureMu'  BY <1>16 DEF Persist
<1>17. ASSUME NEW p \in Procs, Applied(p) PROVE ConfigureMu'  BY <1>17, AfterApplyLabel DEF Applied
<1>18. ASSUME NEW p \in Procs, StartJobs(p) PROVE ConfigureMu'  BY <1>18 DEF StartJobs
<1>19. ASSUME NEW p \in Procs, JobsAreReady(p) PROVE ConfigureMu'  BY <1>19 DEF JobsAreReady
<1>20. ASSUME NEW p \in Procs, JobsNotReady(p) PROVE ConfigureMu'  BY <1>20 DEF JobsNotReady
<1>21. ASSUME NEW p \in Procs, PauseJobs(p) PROVE ConfigureMu'  BY <1>21 DEF PauseJobs
<1>22. ASSUME NEW p \in Procs, JobsPaused(p) PROVE ConfigureMu'  BY <1>22 DEF JobsPaused
<1>23. ASSUME NEW p \in Procs, CancelCurrent(p) PROVE ConfigureMu'  BY <1>23 DEF CancelCurrent
<1>24. ASSUME NEW p \in Procs, CurrentJoined(p) PROVE ConfigureMu'  BY <1>24 DEF CurrentJoined
<1>25. ASSUME NEW p \in Procs, Hold(p) PROVE ConfigureMu'  BY <1>25 DEF Hold
<1>26. ASSUME NEW p \in Procs, Release(p) PROVE ConfigureMu'  BY <1>26 DEF Release
<1>27. ASSUME NEW p \in Procs, LockSettings(p) PROVE ConfigureMu'  BY <1>27 DEF LockSettings
<1>28. ASSUME NEW p \in Procs, Return(p) PROVE ConfigureMu'  BY <1>28 DEF Return
<1>29. ASSUME NEW p \in Procs, CollectorRuns(p) PROVE ConfigureMu'  BY <1>29 DEF CollectorRuns
<1>30. ASSUME NEW p \in Procs, CollectorEnds(p) PROVE ConfigureMu'  BY <1>30 DEF CollectorEnds
<1>31. ASSUME NEW p \in Procs, CollectorGone(p) PROVE ConfigureMu'  BY <1>31 DEF CollectorGone
<1>32. ASSUME NEW p \in Procs, JobsReady(p) PROVE ConfigureMu'  BY <1>32 DEF JobsReady
<1>33. ASSUME NEW p \in Procs, JobsEnd(p) PROVE ConfigureMu'  BY <1>33 DEF JobsEnd
<1>34. ASSUME NEW p \in Procs, JobsGone(p) PROVE ConfigureMu'  BY <1>34 DEF JobsGone
<1>35. CASE UNCHANGED vars  BY <1>35 DEF vars
<1> QED
  BY <1>1, <1>2, <1>3, <1>4, <1>5, <1>6, <1>7, <1>8, <1>9, <1>10, <1>11, <1>12, <1>13, <1>14,
     <1>15, <1>16, <1>17, <1>18, <1>19, <1>20, <1>21, <1>22, <1>23, <1>24, <1>25, <1>26, <1>27,
     <1>28, <1>29, <1>30, <1>31, <1>32, <1>33, <1>34, <1>35
     DEF Next, MainStep, StopStep, Step, Applying, Restarting, Goroutines

\* No step lets a collector live that is not the current one.
LEMMA CollectingStep == ASSUME RuntimeInv, [Next]_vars PROVE Collecting'
<1> USE DEF RuntimeInv, WorkType, ProcsType, CollType, JobsType, StopType, ConfigureMu, Collecting,
             InApply, Goto, Fail
<1>1. CASE ContextDone  BY <1>1 DEF ContextDone, CollectorStopped, Alive
<1>2. CASE Begin  BY <1>2 DEF Begin, CollectorStopped, Alive
<1>3. CASE LoadSettings
  <2>1. \A q \in Procs : loc'[q].old = loc[q].old  BY <1>3 DEF LoadSettings, Locals
  <2> QED  BY <1>3, <2>1 DEF LoadSettings, CollectorStopped, Alive
<1>4. CASE CheckOpen
  <2>1. \A q \in Procs : loc'[q].old = loc[q].old  BY <1>4 DEF CheckOpen, Locals
  <2> QED  BY <1>4, <2>1 DEF CheckOpen, CollectorStopped, Alive
<1>5. CASE StopServing  BY <1>5 DEF StopServing, CollectorStopped, Alive
<1>6. CASE StopServices  BY <1>6 DEF StopServices, CollectorStopped, Alive
<1>7. CASE Exit  BY <1>7 DEF Exit, CollectorStopped, Alive
<1>8. CASE RuntimeStop  BY <1>8 DEF RuntimeStop, CollectorStopped, Alive, CancelCollector
<1>9. CASE RuntimeStopped  BY <1>9 DEF RuntimeStopped, CollectorStopped, Alive
<1>10. ASSUME NEW s \in Settings, Bootstrap(s) PROVE Collecting'
  BY <1>10 DEF Bootstrap, CollectorStopped, Alive
<1>11. ASSUME NEW s \in Settings, NEW p \in Requests, PutSettings(p, s) PROVE Collecting'
  BY <1>11 DEF PutSettings, CollectorStopped, Alive
<1>12. ASSUME NEW p \in Procs, ApplyBegin(p) PROVE Collecting'
  <2>1. CASE rt.ctx
    <3>1. \A q \in Procs : coll'[q].at = coll[q].at  BY <1>12, <2>1, CancelKeeps DEF ApplyBegin
    <3>2. /\ cfgMu = None /\ pc' = [pc EXCEPT ![p] = "waitOld"] /\ UNCHANGED <<rt, stopper>>
          /\ \A q \in Procs \ {p} : loc'[q] = loc[q]
          /\ loc'[p].old = rt.current
      BY <1>12, <2>1 DEF ApplyBegin, Locals
    <3>3. \A q \in Procs : ~InApply(q)  BY <3>2
    <3>4. stopper # "wait"  BY <3>2
    <3> QED  BY <3>1, <3>2, <3>3, <3>4 DEF Alive
  <2>2. CASE ~rt.ctx
    <3>1. /\ pc' = [pc EXCEPT ![p] = "applied"] /\ UNCHANGED <<rt, stopper, coll>>
          /\ \A q \in Procs : loc'[q].old = loc[q].old
      BY <1>12, <2>2 DEF ApplyBegin, Locals
    <3> QED  BY <3>1 DEF Alive, CollectorStopped
  <2> QED  BY <2>1, <2>2
<1>13. ASSUME NEW p \in Procs, OldStopped(p) PROVE Collecting'
  BY <1>13 DEF OldStopped, CollectorStopped, Alive
<1>14. ASSUME NEW p \in Procs, OldTimesOut(p) PROVE Collecting'
  BY <1>14 DEF OldTimesOut, CollectorStopped, Alive
<1>15. ASSUME NEW p \in Procs, OldJoined(p) PROVE Collecting'
  BY <1>15 DEF OldJoined, CollectorStopped, Alive
<1>16. ASSUME NEW p \in Procs, Persist(p) PROVE Collecting'
  <2>1. \A q \in Procs : ~Alive(q)
    <3>1. CollectorStopped(loc[p].old) /\ rt.current \in {loc[p].old, None}  BY <1>16 DEF Persist
    <3> QED  BY <3>1 DEF CollectorStopped, Alive
  <2>2. /\ cfgMu = p /\ \A q \in Procs \ {p} : ~InApply(q) /\ pc'[q] = pc[q]
        /\ stopper # "wait" /\ stopper' = stopper /\ ~InApply(p)'
    BY <1>16 DEF Persist
  <2>3. CASE UNCHANGED <<rt, coll>>  BY <2>1, <2>2, <2>3 DEF Alive
  <2>4. ASSUME NEW t, startCollectorLocked(p, t) PROVE Collecting'
    <3>1. rt'.current = p /\ \A q \in Procs \ {p} : coll'[q] = coll[q]
      BY <2>4 DEF startCollectorLocked
    <3> QED  BY <2>1, <2>2, <3>1 DEF Alive
  <2> QED  BY <1>16, <2>3, <2>4 DEF Persist
<1>17. ASSUME NEW p \in Procs, Applied(p) PROVE Collecting'
  BY <1>17, AfterApplyLabel DEF Applied, CollectorStopped, Alive
<1>18. ASSUME NEW p \in Procs, StartJobs(p) PROVE Collecting'
  BY <1>18 DEF StartJobs, CollectorStopped, Alive, Locals
<1>19. ASSUME NEW p \in Procs, JobsAreReady(p) PROVE Collecting'
  BY <1>19 DEF JobsAreReady, CollectorStopped, Alive
<1>20. ASSUME NEW p \in Procs, JobsNotReady(p) PROVE Collecting'
  BY <1>20 DEF JobsNotReady, CollectorStopped, Alive
<1>21. ASSUME NEW p \in Procs, PauseJobs(p) PROVE Collecting'
  BY <1>21 DEF PauseJobs, CollectorStopped, Alive
<1>22. ASSUME NEW p \in Procs, JobsPaused(p) PROVE Collecting'
  BY <1>22 DEF JobsPaused, CollectorStopped, Alive
<1>23. ASSUME NEW p \in Procs, CancelCurrent(p) PROVE Collecting'
  BY <1>23 DEF CancelCurrent, CollectorStopped, Alive, CancelCollector
<1>24. ASSUME NEW p \in Procs, CurrentJoined(p) PROVE Collecting'
  BY <1>24 DEF CurrentJoined, CollectorStopped, Alive
<1>25. ASSUME NEW p \in Procs, Hold(p) PROVE Collecting'
  BY <1>25 DEF Hold, CollectorStopped, Alive
<1>26. ASSUME NEW p \in Procs, Release(p) PROVE Collecting'
  BY <1>26 DEF Release, CollectorStopped, Alive
<1>27. ASSUME NEW p \in Procs, LockSettings(p) PROVE Collecting'
  BY <1>27 DEF LockSettings, CollectorStopped, Alive
<1>28. ASSUME NEW p \in Procs, Return(p) PROVE Collecting'
  <2>1. \A q \in Procs \ {p} : loc'[q] = loc[q] /\ pc'[q] = pc[q]  BY <1>28 DEF Return
  <2>2. stopper = "wait" => p # Main  BY <1>28 DEF Return, Stopping
  <2> QED  BY <1>28, <2>1, <2>2 DEF Return, CollectorStopped, Alive
<1>29. ASSUME NEW p \in Procs, CollectorRuns(p) PROVE Collecting'
  BY <1>29 DEF CollectorRuns, CollectorStopped, Alive
<1>30. ASSUME NEW p \in Procs, CollectorEnds(p) PROVE Collecting'
  BY <1>30 DEF CollectorEnds, CollectorStopped, Alive
<1>31. ASSUME NEW p \in Procs, CollectorGone(p) PROVE Collecting'
  BY <1>31 DEF CollectorGone, CollectorStopped, Alive, NoCollector
<1>32. ASSUME NEW p \in Procs, JobsReady(p) PROVE Collecting'
  BY <1>32 DEF JobsReady, CollectorStopped, Alive
<1>33. ASSUME NEW p \in Procs, JobsEnd(p) PROVE Collecting'
  BY <1>33 DEF JobsEnd, CollectorStopped, Alive
<1>34. ASSUME NEW p \in Procs, JobsGone(p) PROVE Collecting'
  BY <1>34 DEF JobsGone, CollectorStopped, Alive
<1>35. CASE UNCHANGED vars  BY <1>35 DEF vars, CollectorStopped, Alive
<1> QED
  BY <1>1, <1>2, <1>3, <1>4, <1>5, <1>6, <1>7, <1>8, <1>9, <1>10, <1>11, <1>12, <1>13, <1>14,
     <1>15, <1>16, <1>17, <1>18, <1>19, <1>20, <1>21, <1>22, <1>23, <1>24, <1>25, <1>26, <1>27,
     <1>28, <1>29, <1>30, <1>31, <1>32, <1>33, <1>34, <1>35
     DEF Next, MainStep, StopStep, Step, Applying, Restarting, Goroutines

\* Shutdown never goes back.
LEMMA StoppingStep == ASSUME RuntimeInv, [Next]_vars PROVE Stopping'
<1> USE DEF RuntimeInv, WorkType, ProcsType, CollType, JobsType, StopType, ConfigureMu, Stopping,
             InApply, Goto, Fail
<1>1. CASE ContextDone  BY <1>1 DEF ContextDone, Alive, RunnersGone, CollectorStopped
<1>2. CASE Begin  BY <1>2 DEF Begin, Alive, RunnersGone, CollectorStopped
<1>3. CASE LoadSettings  BY <1>3 DEF LoadSettings, Alive, RunnersGone, CollectorStopped
<1>4. CASE CheckOpen  BY <1>4 DEF CheckOpen, Alive, RunnersGone, CollectorStopped
<1>5. CASE StopServing  BY <1>5 DEF StopServing, Alive, RunnersGone, CollectorStopped
<1>6. CASE StopServices  BY <1>6 DEF StopServices, Alive, RunnersGone, CancelJobs, CollectorStopped
<1>7. CASE Exit  BY <1>7 DEF Exit, Alive, RunnersGone, CollectorStopped
<1>8. CASE RuntimeStop  BY <1>8 DEF RuntimeStop, RunnersGone
<1>9. CASE RuntimeStopped  BY <1>9 DEF RuntimeStopped, Collecting, Alive, CollectorStopped
<1>10. ASSUME NEW s \in Settings, Bootstrap(s) PROVE Stopping'
  BY <1>10 DEF Bootstrap, Alive, RunnersGone, CollectorStopped
<1>11. ASSUME NEW s \in Settings, NEW p \in Requests, PutSettings(p, s) PROVE Stopping'
  BY <1>11 DEF PutSettings, Alive, RunnersGone, CollectorStopped
<1>12. ASSUME NEW p \in Procs, ApplyBegin(p) PROVE Stopping'
  BY <1>12 DEF ApplyBegin, Alive, RunnersGone, CancelCollector, CollectorStopped
<1>13. ASSUME NEW p \in Procs, OldStopped(p) PROVE Stopping'
  BY <1>13 DEF OldStopped, Alive, RunnersGone, CollectorStopped
<1>14. ASSUME NEW p \in Procs, OldTimesOut(p) PROVE Stopping'
  BY <1>14 DEF OldTimesOut, Alive, RunnersGone, CollectorStopped
<1>15. ASSUME NEW p \in Procs, OldJoined(p) PROVE Stopping'
  BY <1>15 DEF OldJoined, Alive, RunnersGone, CollectorStopped
<1>16. ASSUME NEW p \in Procs, Persist(p) PROVE Stopping'
  BY <1>16 DEF Persist, Alive, RunnersGone, startCollectorLocked, CollectorStopped
<1>17. ASSUME NEW p \in Procs, Applied(p) PROVE Stopping'
  BY <1>17, AfterApplyLabel DEF Applied, Alive, RunnersGone
<1>18. ASSUME NEW p \in Procs, StartJobs(p) PROVE Stopping'
  BY <1>18 DEF StartJobs, Alive, RunnersGone, CollectorStopped
<1>19. ASSUME NEW p \in Procs, JobsAreReady(p) PROVE Stopping'
  BY <1>19 DEF JobsAreReady, Alive, RunnersGone, CollectorStopped
<1>20. ASSUME NEW p \in Procs, JobsNotReady(p) PROVE Stopping'
  BY <1>20 DEF JobsNotReady, Alive, RunnersGone, CollectorStopped
<1>21. ASSUME NEW p \in Procs, PauseJobs(p) PROVE Stopping'
  BY <1>21 DEF PauseJobs, Alive, RunnersGone, CancelJobs, CollectorStopped
<1>22. ASSUME NEW p \in Procs, JobsPaused(p) PROVE Stopping'
  BY <1>22 DEF JobsPaused, Alive, RunnersGone, CollectorStopped
<1>23. ASSUME NEW p \in Procs, CancelCurrent(p) PROVE Stopping'
  BY <1>23 DEF CancelCurrent, Alive, RunnersGone, CancelCollector, CollectorStopped
<1>24. ASSUME NEW p \in Procs, CurrentJoined(p) PROVE Stopping'
  BY <1>24 DEF CurrentJoined, Alive, RunnersGone, CollectorStopped
<1>25. ASSUME NEW p \in Procs, Hold(p) PROVE Stopping'
  BY <1>25 DEF Hold, Alive, RunnersGone, CollectorStopped
<1>26. ASSUME NEW p \in Procs, Release(p) PROVE Stopping'
  BY <1>26 DEF Release, Alive, RunnersGone, CollectorStopped
<1>27. ASSUME NEW p \in Procs, LockSettings(p) PROVE Stopping'
  BY <1>27 DEF LockSettings, Alive, RunnersGone, CollectorStopped
<1>28. ASSUME NEW p \in Procs, Return(p) PROVE Stopping'
  BY <1>28 DEF Return, Alive, RunnersGone, CollectorStopped
<1>29. ASSUME NEW p \in Procs, CollectorRuns(p) PROVE Stopping'
  BY <1>29 DEF CollectorRuns, Alive, RunnersGone, CollectorStopped
<1>30. ASSUME NEW p \in Procs, CollectorEnds(p) PROVE Stopping'
  BY <1>30 DEF CollectorEnds, Alive, RunnersGone, CollectorStopped
<1>31. ASSUME NEW p \in Procs, CollectorGone(p) PROVE Stopping'
  BY <1>31 DEF CollectorGone, Alive, RunnersGone, NoCollector, CollectorStopped
<1>32. ASSUME NEW p \in Procs, JobsReady(p) PROVE Stopping'
  BY <1>32 DEF JobsReady, Alive, RunnersGone, CollectorStopped
<1>33. ASSUME NEW p \in Procs, JobsEnd(p) PROVE Stopping'
  BY <1>33 DEF JobsEnd, Alive, RunnersGone, CollectorStopped
<1>34. ASSUME NEW p \in Procs, JobsGone(p) PROVE Stopping'
  BY <1>34 DEF JobsGone, Alive, RunnersGone, NoJobs, CollectorStopped
<1>35. CASE UNCHANGED vars  BY <1>35 DEF vars, Alive, RunnersGone, CollectorStopped
<1> QED
  BY <1>1, <1>2, <1>3, <1>4, <1>5, <1>6, <1>7, <1>8, <1>9, <1>10, <1>11, <1>12, <1>13, <1>14,
     <1>15, <1>16, <1>17, <1>18, <1>19, <1>20, <1>21, <1>22, <1>23, <1>24, <1>25, <1>26, <1>27,
     <1>28, <1>29, <1>30, <1>31, <1>32, <1>33, <1>34, <1>35
     DEF Next, MainStep, StopStep, Step, Applying, Restarting, Goroutines

\* The database is closed under a worker by no step.
LEMMA RetainedStep == ASSUME RuntimeInv, [Next]_vars PROVE Retained'
<1> USE DEF RuntimeInv, WorkType, ProcsType, CollType, JobsType, StopType, ConfigureMu, Retained,
             InApply, Goto, Fail
<1>1. CASE ContextDone  BY <1>1 DEF ContextDone, RunnersGone
<1>2. CASE Begin  BY <1>2 DEF Begin, RunnersGone
<1>3. CASE LoadSettings  BY <1>3 DEF LoadSettings, RunnersGone
<1>4. CASE CheckOpen  BY <1>4 DEF CheckOpen, RunnersGone
<1>5. CASE StopServing  BY <1>5 DEF StopServing, RunnersGone
<1>6. CASE StopServices  BY <1>6 DEF StopServices, RunnersGone, CancelJobs
<1>7. CASE Exit  BY <1>7 DEF Exit, RunnersGone
<1>8. CASE RuntimeStop  BY <1>8 DEF RuntimeStop, RunnersGone
<1>9. CASE RuntimeStopped  BY <1>9 DEF RuntimeStopped, RunnersGone
<1>10. ASSUME NEW s \in Settings, Bootstrap(s) PROVE Retained'  BY <1>10 DEF Bootstrap, RunnersGone
<1>11. ASSUME NEW s \in Settings, NEW p \in Requests, PutSettings(p, s) PROVE Retained'
  BY <1>11 DEF PutSettings, RunnersGone
<1>12. ASSUME NEW p \in Procs, ApplyBegin(p) PROVE Retained'  BY <1>12 DEF ApplyBegin, RunnersGone
<1>13. ASSUME NEW p \in Procs, OldStopped(p) PROVE Retained'  BY <1>13 DEF OldStopped, RunnersGone
<1>14. ASSUME NEW p \in Procs, OldTimesOut(p) PROVE Retained'
  BY <1>14 DEF OldTimesOut, RunnersGone
<1>15. ASSUME NEW p \in Procs, OldJoined(p) PROVE Retained'  BY <1>15 DEF OldJoined, RunnersGone
<1>16. ASSUME NEW p \in Procs, Persist(p) PROVE Retained'  BY <1>16 DEF Persist, RunnersGone
<1>17. ASSUME NEW p \in Procs, Applied(p) PROVE Retained'  BY <1>17 DEF Applied, RunnersGone
<1>18. ASSUME NEW p \in Procs, StartJobs(p) PROVE Retained'  BY <1>18 DEF StartJobs, RunnersGone
<1>19. ASSUME NEW p \in Procs, JobsAreReady(p) PROVE Retained'
  BY <1>19 DEF JobsAreReady, RunnersGone
<1>20. ASSUME NEW p \in Procs, JobsNotReady(p) PROVE Retained'
  BY <1>20 DEF JobsNotReady, RunnersGone
<1>21. ASSUME NEW p \in Procs, PauseJobs(p) PROVE Retained'
  BY <1>21 DEF PauseJobs, RunnersGone, CancelJobs
<1>22. ASSUME NEW p \in Procs, JobsPaused(p) PROVE Retained'  BY <1>22 DEF JobsPaused, RunnersGone
<1>23. ASSUME NEW p \in Procs, CancelCurrent(p) PROVE Retained'
  BY <1>23 DEF CancelCurrent, RunnersGone
<1>24. ASSUME NEW p \in Procs, CurrentJoined(p) PROVE Retained'
  BY <1>24 DEF CurrentJoined, RunnersGone
<1>25. ASSUME NEW p \in Procs, Hold(p) PROVE Retained'  BY <1>25 DEF Hold, RunnersGone
<1>26. ASSUME NEW p \in Procs, Release(p) PROVE Retained'  BY <1>26 DEF Release, RunnersGone
<1>27. ASSUME NEW p \in Procs, LockSettings(p) PROVE Retained'
  BY <1>27 DEF LockSettings, RunnersGone
<1>28. ASSUME NEW p \in Procs, Return(p) PROVE Retained'  BY <1>28 DEF Return, RunnersGone
<1>29. ASSUME NEW p \in Procs, CollectorRuns(p) PROVE Retained'
  BY <1>29 DEF CollectorRuns, RunnersGone
<1>30. ASSUME NEW p \in Procs, CollectorEnds(p) PROVE Retained'
  BY <1>30 DEF CollectorEnds, RunnersGone
<1>31. ASSUME NEW p \in Procs, CollectorGone(p) PROVE Retained'
  BY <1>31 DEF CollectorGone, RunnersGone, NoCollector
<1>32. ASSUME NEW p \in Procs, JobsReady(p) PROVE Retained'  BY <1>32 DEF JobsReady, RunnersGone
<1>33. ASSUME NEW p \in Procs, JobsEnd(p) PROVE Retained'  BY <1>33 DEF JobsEnd, RunnersGone
<1>34. ASSUME NEW p \in Procs, JobsGone(p) PROVE Retained'
  <2>1. /\ jobs[p].at = "ended" /\ retain' = (retain \/ p \in stuck) /\ UNCHANGED <<pc, stuck, dbOpen>>
        /\ \A q \in Procs \ {p} : jobs'[q] = jobs[q]
    BY <1>34 DEF JobsGone
  <2>2. pc[Main] # "exited"  BY <2>1 DEF Stopping, RunnersGone
  <2>3. \A q \in stuck : retain' \/ jobs'[q].at \notin {"none", "gone"}
    BY <2>1
  <2> QED  BY <2>1, <2>2, <2>3
<1>35. CASE UNCHANGED vars  BY <1>35 DEF vars, RunnersGone
<1> QED
  BY <1>1, <1>2, <1>3, <1>4, <1>5, <1>6, <1>7, <1>8, <1>9, <1>10, <1>11, <1>12, <1>13, <1>14,
     <1>15, <1>16, <1>17, <1>18, <1>19, <1>20, <1>21, <1>22, <1>23, <1>24, <1>25, <1>26, <1>27,
     <1>28, <1>29, <1>30, <1>31, <1>32, <1>33, <1>34, <1>35
     DEF Next, MainStep, StopStep, Step, Applying, Restarting, Goroutines

\* The invariant holds at first.
LEMMA RuntimeInit == ASSUME Init PROVE RuntimeInv
<1> USE DEF Init
<1>1. WorkType
  <2>1. NoLocals \in Locals  BY DEF NoLocals, Locals
  <2>2. NoCollector \in Collectors /\ NoJobs \in Runners  BY DEF NoCollector, Collectors, NoJobs, Runners
  <2>3. stored \in Settings \cup {None}  BY RuntimeAssumption
  <2> QED  BY <2>1, <2>2, <2>3 DEF WorkType, ProcsType, CollType, JobsType, StopType, Labels
<1>2. ConfigureMu  BY DEF ConfigureMu, InApply
<1>3. Collecting  BY DEF Collecting, Alive, InApply, NoCollector
<1>4. Stopping  BY DEF Stopping
<1>5. Retained  BY DEF Retained
<1> QED  BY <1>1, <1>2, <1>3, <1>4, <1>5 DEF RuntimeInv

\* Every behaviour keeps it.
LEMMA RuntimeAlways == Spec => []RuntimeInv
<1>1. Init => RuntimeInv  BY RuntimeInit
<1>2. RuntimeInv /\ [Next]_vars => RuntimeInv'
  BY WorkStep, ConfigureMuStep, CollectingStep, StoppingStep, RetainedStep DEF RuntimeInv
<1> QED  BY <1>1, <1>2, PTL DEF Spec

\* At most one collector goroutine talks to the logger, however many settings
\* requests there are, whenever they come (during start-up too), whatever fails
\* and however late a cancelled collector stops: collectorRuntime.Apply and
\* stop replace r.current only under configureMu, after the old one has ended.
THEOREM OnlyOneCollector == Spec => []OneCollector
<1>1. ASSUME RuntimeInv PROVE OneCollector
  <2> DEFINE R == {p \in Procs : coll[p].at = "running"}
  <2>1. R \subseteq {rt.current}  BY <1>1 DEF RuntimeInv, Collecting, Alive
  <2>2. R = {} \/ R = {rt.current}  BY <2>1
  <2>3. Cardinality({}) = 0 /\ Cardinality({rt.current}) = 1
    BY FS_EmptySet, FS_Singleton
  <2> HIDE DEF R
  <2>4. Cardinality(R) <= 1
    <3>1. CASE R = {}  BY <2>3, <3>1
    <3>2. CASE R = {rt.current}  BY <2>3, <3>2
    <3> QED  BY <2>2, <3>1, <3>2
  <2> QED  BY <2>4 DEF OneCollector, R
<1> QED  BY <1>1, RuntimeAlways, PTL

\* closeDatabaseUnlessRetained closes SQLite only when no collector and no job
\* runner is left and no worker outlived its runner: stopServices has set
\* stopping and taken r.ctx away, so that no handler still running can start
\* another one.
THEOREM ClosesWhenQuiet == Spec => []ClosedWhenQuiet
<1>1. ASSUME RuntimeInv PROVE ClosedWhenQuiet
  <2> SUFFICES ASSUME ~dbOpen
               PROVE  /\ \A p \in Procs : CollectorStopped(p) /\ JobsStopped(p)
                      /\ stuck = {}
    BY DEF ClosedWhenQuiet
  <2>1. pc[Main] = "exited" /\ ~retain  BY <1>1 DEF RuntimeInv, Retained
  <2>2. RunnersGone /\ \A p \in Procs : ~Alive(p)  BY <1>1, <2>1 DEF RuntimeInv, Stopping
  <2>3. coll \in [Procs -> Collectors] /\ stuck \subseteq Procs
    BY <1>1 DEF RuntimeInv, WorkType, CollType, JobsType
  <2>4. \A p \in Procs : CollectorStopped(p) /\ JobsStopped(p)
    BY <2>2, <2>3 DEF CollectorStopped, JobsStopped, RunnersGone, Alive, Collectors
  <2>5. stuck = {}  BY <1>1, <2>1, <2>2, <2>3 DEF RuntimeInv, Retained, RunnersGone
  <2> QED  BY <2>4, <2>5
<1> QED  BY <1>1, RuntimeAlways, PTL

-----------------------------------------------------------------------------
(* Locks, and the order of things after start-up *)

\* Where the main goroutine, the bootstrap handler and the handlers of
\* settings requests can be.
Roles ==
  /\ pc[Main] \in Labels \ {"idle", "lock", "pause", "paused", "return", "done"}
  /\ pc[Setup] \in {"idle", "apply", "waitOld", "joinOld", "persist", "applied", "done"}
  /\ \A p \in Requests :
       pc[p] \in Labels \ {"start", "load", "checkOpen", "serving", "stopServices",
                           "stopping", "exited"}

\* A request holds settingsMu from lock to return, on every path.
SettingsMu ==
  /\ setMu \in Requests \cup {None}
  /\ \A p \in Requests : setMu = p <=> pc[p] \notin {"idle", "lock", "done"}

DataType ==
  /\ ctxDone \in BOOLEAN /\ released \subseteq Procs
  /\ {calendar, finance} \subseteq Settings \cup {None}
  /\ outcome \in {"none", "ok", "restored", "down"}
  /\ overtaken \subseteq {"reader", "finance"}
  /\ cfgMu \in Procs \cup {"stop", None}

LocksInv == RuntimeInv /\ Roles /\ SettingsMu /\ DataType

\* The processes are different from each other.
LEMMA Kinds ==
  /\ Main # Setup /\ Main \notin Requests /\ Setup \notin Requests /\ None \notin Requests
  /\ \A p \in Procs : p = Setup \/ p = Main \/ p \in Requests
BY RuntimeAssumption DEF Procs

\* Nobody leaves its part of the code.
LEMMA RolesStep == ASSUME LocksInv, [Next]_vars PROVE Roles'
<1> USE DEF LocksInv, RuntimeInv, WorkType, ProcsType, Goto, Roles
<1>1. CASE ContextDone  BY <1>1, Kinds DEF ContextDone, Labels
<1>2. CASE Begin  BY <1>2, Kinds DEF Begin, Labels
<1>3. CASE LoadSettings  BY <1>3, Kinds DEF LoadSettings, Labels
<1>4. CASE CheckOpen  BY <1>4, Kinds DEF CheckOpen, Labels
<1>5. CASE StopServing  BY <1>5, Kinds DEF StopServing, Labels
<1>6. CASE StopServices  BY <1>6, Kinds DEF StopServices, Labels
<1>7. CASE Exit  BY <1>7, Kinds DEF Exit, Labels
<1>8. CASE RuntimeStop  BY <1>8, Kinds DEF RuntimeStop, Labels
<1>9. CASE RuntimeStopped  BY <1>9, Kinds DEF RuntimeStopped, Labels
<1>10. ASSUME NEW s \in Settings, Bootstrap(s) PROVE Roles'  BY <1>10, Kinds DEF Bootstrap, Labels
<1>11. ASSUME NEW s \in Settings, NEW p \in Requests, PutSettings(p, s) PROVE Roles'
  BY <1>11, Kinds DEF PutSettings, Labels
<1>12. ASSUME NEW p \in Procs, ApplyBegin(p) PROVE Roles'  BY <1>12, Kinds DEF ApplyBegin, Labels
<1>13. ASSUME NEW p \in Procs, OldStopped(p) PROVE Roles'  BY <1>13, Kinds DEF OldStopped, Labels
<1>14. ASSUME NEW p \in Procs, OldTimesOut(p) PROVE Roles'
  BY <1>14, Kinds DEF OldTimesOut, Labels
<1>15. ASSUME NEW p \in Procs, OldJoined(p) PROVE Roles'  BY <1>15, Kinds DEF OldJoined, Labels
<1>16. ASSUME NEW p \in Procs, Persist(p) PROVE Roles'  BY <1>16, Kinds DEF Persist, Labels
<1>17. ASSUME NEW p \in Procs, Applied(p) PROVE Roles'
  <2>1. /\ p = Setup => AfterApply(p) = "done"
        /\ p = Main => AfterApply(p) \in {"startJobs", "stopServices"}
        /\ p \in Requests => AfterApply(p) \in {"startJobs", "release"}
    BY Kinds DEF AfterApply
  <2> QED  BY <1>17, <2>1, Kinds DEF Applied, Labels
<1>18. ASSUME NEW p \in Procs, StartJobs(p) PROVE Roles'  BY <1>18, Kinds DEF StartJobs, Labels
<1>19. ASSUME NEW p \in Procs, JobsAreReady(p) PROVE Roles'
  BY <1>19, Kinds DEF JobsAreReady, Labels
<1>20. ASSUME NEW p \in Procs, JobsNotReady(p) PROVE Roles'
  BY <1>20, Kinds DEF JobsNotReady, Labels
<1>21. ASSUME NEW p \in Procs, PauseJobs(p) PROVE Roles'  BY <1>21, Kinds DEF PauseJobs, Labels
<1>22. ASSUME NEW p \in Procs, JobsPaused(p) PROVE Roles'  BY <1>22, Kinds DEF JobsPaused, Labels
<1>23. ASSUME NEW p \in Procs, CancelCurrent(p) PROVE Roles'
  BY <1>23, Kinds DEF CancelCurrent, Labels
<1>24. ASSUME NEW p \in Procs, CurrentJoined(p) PROVE Roles'
  BY <1>24, Kinds DEF CurrentJoined, Labels
<1>25. ASSUME NEW p \in Procs, Hold(p) PROVE Roles'  BY <1>25, Kinds DEF Hold, Labels
<1>26. ASSUME NEW p \in Procs, Release(p) PROVE Roles'  BY <1>26, Kinds DEF Release, Labels
<1>27. ASSUME NEW p \in Procs, LockSettings(p) PROVE Roles'
  BY <1>27, Kinds DEF LockSettings, Labels
<1>28. ASSUME NEW p \in Procs, Return(p) PROVE Roles'  BY <1>28, Kinds DEF Return, Labels
<1>29. ASSUME NEW p \in Procs, CollectorRuns(p) PROVE Roles'
  BY <1>29, Kinds DEF CollectorRuns, Labels
<1>30. ASSUME NEW p \in Procs, CollectorEnds(p) PROVE Roles'
  BY <1>30, Kinds DEF CollectorEnds, Labels
<1>31. ASSUME NEW p \in Procs, CollectorGone(p) PROVE Roles'
  BY <1>31, Kinds DEF CollectorGone, Labels
<1>32. ASSUME NEW p \in Procs, JobsReady(p) PROVE Roles'  BY <1>32, Kinds DEF JobsReady, Labels
<1>33. ASSUME NEW p \in Procs, JobsEnd(p) PROVE Roles'  BY <1>33, Kinds DEF JobsEnd, Labels
<1>34. ASSUME NEW p \in Procs, JobsGone(p) PROVE Roles'  BY <1>34, Kinds DEF JobsGone, Labels
<1>35. CASE UNCHANGED vars  BY <1>35, Kinds DEF vars, Labels
<1> QED
  BY <1>1, <1>2, <1>3, <1>4, <1>5, <1>6, <1>7, <1>8, <1>9, <1>10, <1>11, <1>12, <1>13, <1>14,
     <1>15, <1>16, <1>17, <1>18, <1>19, <1>20, <1>21, <1>22, <1>23, <1>24, <1>25, <1>26,
     <1>27, <1>28, <1>29, <1>30, <1>31, <1>32, <1>33, <1>34, <1>35
     DEF Next, MainStep, StopStep, Step, Applying, Restarting, Goroutines

\* settingsMu is taken and given up as stated.
LEMMA SettingsMuStep == ASSUME LocksInv, [Next]_vars PROVE SettingsMu'
<1> USE DEF LocksInv, RuntimeInv, WorkType, ProcsType, Goto, Roles, SettingsMu
<1>1. CASE ContextDone  BY <1>1, Kinds DEF ContextDone
<1>2. CASE Begin  BY <1>2, Kinds DEF Begin
<1>3. CASE LoadSettings  BY <1>3, Kinds DEF LoadSettings
<1>4. CASE CheckOpen  BY <1>4, Kinds DEF CheckOpen
<1>5. CASE StopServing  BY <1>5, Kinds DEF StopServing
<1>6. CASE StopServices  BY <1>6, Kinds DEF StopServices
<1>7. CASE Exit  BY <1>7, Kinds DEF Exit
<1>8. CASE RuntimeStop  BY <1>8, Kinds DEF RuntimeStop
<1>9. CASE RuntimeStopped  BY <1>9, Kinds DEF RuntimeStopped
<1>10. ASSUME NEW s \in Settings, Bootstrap(s) PROVE SettingsMu'  BY <1>10, Kinds DEF Bootstrap
<1>11. ASSUME NEW s \in Settings, NEW p \in Requests, PutSettings(p, s) PROVE SettingsMu'
  BY <1>11, Kinds DEF PutSettings
<1>12. ASSUME NEW p \in Procs, ApplyBegin(p) PROVE SettingsMu'  BY <1>12, Kinds DEF ApplyBegin
<1>13. ASSUME NEW p \in Procs, OldStopped(p) PROVE SettingsMu'  BY <1>13, Kinds DEF OldStopped
<1>14. ASSUME NEW p \in Procs, OldTimesOut(p) PROVE SettingsMu'  BY <1>14, Kinds DEF OldTimesOut
<1>15. ASSUME NEW p \in Procs, OldJoined(p) PROVE SettingsMu'  BY <1>15, Kinds DEF OldJoined
<1>16. ASSUME NEW p \in Procs, Persist(p) PROVE SettingsMu'  BY <1>16, Kinds DEF Persist
<1>17. ASSUME NEW p \in Procs, Applied(p) PROVE SettingsMu'
  <2>1. /\ p = Setup => AfterApply(p) = "done"
        /\ p \in Requests => AfterApply(p) \in {"startJobs", "release"}
    BY Kinds DEF AfterApply
  <2> QED  BY <1>17, <2>1, Kinds DEF Applied
<1>18. ASSUME NEW p \in Procs, StartJobs(p) PROVE SettingsMu'  BY <1>18, Kinds DEF StartJobs
<1>19. ASSUME NEW p \in Procs, JobsAreReady(p) PROVE SettingsMu'  BY <1>19, Kinds DEF JobsAreReady
<1>20. ASSUME NEW p \in Procs, JobsNotReady(p) PROVE SettingsMu'  BY <1>20, Kinds DEF JobsNotReady
<1>21. ASSUME NEW p \in Procs, PauseJobs(p) PROVE SettingsMu'  BY <1>21, Kinds DEF PauseJobs
<1>22. ASSUME NEW p \in Procs, JobsPaused(p) PROVE SettingsMu'  BY <1>22, Kinds DEF JobsPaused
<1>23. ASSUME NEW p \in Procs, CancelCurrent(p) PROVE SettingsMu'
  BY <1>23, Kinds DEF CancelCurrent
<1>24. ASSUME NEW p \in Procs, CurrentJoined(p) PROVE SettingsMu'
  BY <1>24, Kinds DEF CurrentJoined
<1>25. ASSUME NEW p \in Procs, Hold(p) PROVE SettingsMu'  BY <1>25, Kinds DEF Hold
<1>26. ASSUME NEW p \in Procs, Release(p) PROVE SettingsMu'  BY <1>26, Kinds DEF Release
<1>27. ASSUME NEW p \in Procs, LockSettings(p) PROVE SettingsMu'  BY <1>27, Kinds DEF LockSettings
<1>28. ASSUME NEW p \in Procs, Return(p) PROVE SettingsMu'  BY <1>28, Kinds DEF Return
<1>29. ASSUME NEW p \in Procs, CollectorRuns(p) PROVE SettingsMu'
  BY <1>29, Kinds DEF CollectorRuns
<1>30. ASSUME NEW p \in Procs, CollectorEnds(p) PROVE SettingsMu'
  BY <1>30, Kinds DEF CollectorEnds
<1>31. ASSUME NEW p \in Procs, CollectorGone(p) PROVE SettingsMu'
  BY <1>31, Kinds DEF CollectorGone
<1>32. ASSUME NEW p \in Procs, JobsReady(p) PROVE SettingsMu'  BY <1>32, Kinds DEF JobsReady
<1>33. ASSUME NEW p \in Procs, JobsEnd(p) PROVE SettingsMu'  BY <1>33, Kinds DEF JobsEnd
<1>34. ASSUME NEW p \in Procs, JobsGone(p) PROVE SettingsMu'  BY <1>34, Kinds DEF JobsGone
<1>35. CASE UNCHANGED vars  BY <1>35, Kinds DEF vars
<1> QED
  BY <1>1, <1>2, <1>3, <1>4, <1>5, <1>6, <1>7, <1>8, <1>9, <1>10, <1>11, <1>12, <1>13, <1>14,
     <1>15, <1>16, <1>17, <1>18, <1>19, <1>20, <1>21, <1>22, <1>23, <1>24, <1>25, <1>26,
     <1>27, <1>28, <1>29, <1>30, <1>31, <1>32, <1>33, <1>34, <1>35
     DEF Next, MainStep, StopStep, Step, Applying, Restarting, Goroutines

\* The rest of the types.
LEMMA DataTypeStep == ASSUME LocksInv, [Next]_vars PROVE DataType'
<1> USE DEF LocksInv, RuntimeInv, WorkType, ProcsType, Goto, DataType
<1>1. CASE ContextDone  BY <1>1 DEF ContextDone
<1>2. CASE Begin  BY <1>2 DEF Begin
<1>3. CASE LoadSettings  BY <1>3 DEF LoadSettings
<1>4. CASE CheckOpen  BY <1>4 DEF CheckOpen
<1>5. CASE StopServing  BY <1>5 DEF StopServing
<1>6. CASE StopServices  BY <1>6 DEF StopServices
<1>7. CASE Exit  BY <1>7 DEF Exit
<1>8. CASE RuntimeStop  BY <1>8 DEF RuntimeStop
<1>9. CASE RuntimeStopped  BY <1>9 DEF RuntimeStopped
<1>10. ASSUME NEW s \in Settings, Bootstrap(s) PROVE DataType'  BY <1>10 DEF Bootstrap
<1>11. ASSUME NEW s \in Settings, NEW p \in Requests, PutSettings(p, s) PROVE DataType'
  BY <1>11 DEF PutSettings
<1>12. ASSUME NEW p \in Procs, ApplyBegin(p) PROVE DataType'  BY <1>12 DEF ApplyBegin
<1>13. ASSUME NEW p \in Procs, OldStopped(p) PROVE DataType'  BY <1>13 DEF OldStopped
<1>14. ASSUME NEW p \in Procs, OldTimesOut(p) PROVE DataType'  BY <1>14 DEF OldTimesOut
<1>15. ASSUME NEW p \in Procs, OldJoined(p) PROVE DataType'  BY <1>15 DEF OldJoined
<1>16. ASSUME NEW p \in Procs, Persist(p) PROVE DataType'
  <2>1. loc[p].want \in Settings \cup {None}  BY DEF Locals
  <2> QED  BY <1>16, <2>1 DEF Persist, Overtake
<1>17. ASSUME NEW p \in Procs, Applied(p) PROVE DataType'
  <2>1. loc[p].want \in Settings \cup {None}  BY DEF Locals
  <2> QED  BY <1>17, <2>1 DEF Applied, Overtake
<1>18. ASSUME NEW p \in Procs, StartJobs(p) PROVE DataType'  BY <1>18 DEF StartJobs
<1>19. ASSUME NEW p \in Procs, JobsAreReady(p) PROVE DataType'  BY <1>19 DEF JobsAreReady
<1>20. ASSUME NEW p \in Procs, JobsNotReady(p) PROVE DataType'  BY <1>20 DEF JobsNotReady
<1>21. ASSUME NEW p \in Procs, PauseJobs(p) PROVE DataType'  BY <1>21 DEF PauseJobs
<1>22. ASSUME NEW p \in Procs, JobsPaused(p) PROVE DataType'  BY <1>22 DEF JobsPaused
<1>23. ASSUME NEW p \in Procs, CancelCurrent(p) PROVE DataType'  BY <1>23 DEF CancelCurrent
<1>24. ASSUME NEW p \in Procs, CurrentJoined(p) PROVE DataType'  BY <1>24 DEF CurrentJoined
<1>25. ASSUME NEW p \in Procs, Hold(p) PROVE DataType'  BY <1>25 DEF Hold
<1>26. ASSUME NEW p \in Procs, Release(p) PROVE DataType'  BY <1>26 DEF Release
<1>27. ASSUME NEW p \in Procs, LockSettings(p) PROVE DataType'  BY <1>27 DEF LockSettings
<1>28. ASSUME NEW p \in Procs, Return(p) PROVE DataType'
  <2>1. OutcomeOf(p) \in {"ok", "restored", "down"}  BY DEF OutcomeOf
  <2> QED  BY <1>28, <2>1 DEF Return
<1>29. ASSUME NEW p \in Procs, CollectorRuns(p) PROVE DataType'  BY <1>29 DEF CollectorRuns
<1>30. ASSUME NEW p \in Procs, CollectorEnds(p) PROVE DataType'  BY <1>30 DEF CollectorEnds
<1>31. ASSUME NEW p \in Procs, CollectorGone(p) PROVE DataType'  BY <1>31 DEF CollectorGone
<1>32. ASSUME NEW p \in Procs, JobsReady(p) PROVE DataType'  BY <1>32 DEF JobsReady
<1>33. ASSUME NEW p \in Procs, JobsEnd(p) PROVE DataType'  BY <1>33 DEF JobsEnd
<1>34. ASSUME NEW p \in Procs, JobsGone(p) PROVE DataType'  BY <1>34 DEF JobsGone
<1>35. CASE UNCHANGED vars  BY <1>35 DEF vars
<1> QED
  BY <1>1, <1>2, <1>3, <1>4, <1>5, <1>6, <1>7, <1>8, <1>9, <1>10, <1>11, <1>12, <1>13, <1>14,
     <1>15, <1>16, <1>17, <1>18, <1>19, <1>20, <1>21, <1>22, <1>23, <1>24, <1>25, <1>26,
     <1>27, <1>28, <1>29, <1>30, <1>31, <1>32, <1>33, <1>34, <1>35
     DEF Next, MainStep, StopStep, Step, Applying, Restarting, Goroutines

\* The invariant of the locks holds at first ...
LEMMA LocksInit == ASSUME Init PROVE LocksInv
<1>1. RuntimeInv  BY RuntimeInit
<1>2. Roles  BY Kinds DEF Init, Roles, Labels
<1>3. SettingsMu  BY Kinds DEF Init, SettingsMu
<1>4. DataType  BY DEF Init, DataType
<1> QED  BY <1>1, <1>2, <1>3, <1>4 DEF LocksInv

\* ... and always.
LEMMA LocksAlways == Spec => []LocksInv
<1>1. Init => LocksInv  BY LocksInit
<1>2. LocksInv /\ [Next]_vars => LocksInv'
  <2> SUFFICES ASSUME LocksInv, [Next]_vars PROVE LocksInv'
    OBVIOUS
  <2>1. RuntimeInv'
    BY WorkStep, ConfigureMuStep, CollectingStep, StoppingStep, RetainedStep DEF LocksInv, RuntimeInv
  <2> QED  BY <2>1, RolesStep, SettingsMuStep, DataTypeStep DEF LocksInv
<1> QED  BY <1>1, <1>2, PTL DEF Spec

\* It includes TypeOK.
LEMMA LocksBalanced == ASSUME LocksInv PROVE TypeOK
BY DEF LocksInv, RuntimeInv, WorkType, ProcsType, CollType, JobsType, StopType, ConfigureMu, InApply,
       SettingsMu, DataType, TypeOK, Collectors, Runners

\* The types of the runtime, and its two locks: configureMu is held exactly
\* inside Apply (or by stop), settingsMu exactly from applySettings' lock to its
\* return, whichever of the early returns is taken.
THEOREM LocksStayBalanced == Spec => []TypeOK
<1>1. LocksInv => TypeOK  BY LocksBalanced
<1> QED  BY <1>1, LocksAlways, PTL

-----------------------------------------------------------------------------
(* Settings in force *)

\* Between the arrival of a settings request, or the load of start-up, and the
\* end of its Apply.
InFlight == {"lock", "pause", "paused", "hold", "apply", "waitOld", "joinOld", "persist",
             "applied"}

\* Nothing has gone wrong on the way to Persist, and there are settings to apply.
Asking ==
  \A p \in Procs :
    /\ pc[p] \in ({"start", "load", "idle"} \cup InFlight) \ {"applied"} =>
         loc[p].error = "none"
    /\ pc[p] \in InFlight => loc[p].want # None

\* Who wants what: nobody anything of an empty database, and start-up and
\* bootstrap what the database says, as long as nothing has been applied.
Wants ==
  /\ stored = None => calendar = None /\ \A p \in Procs : loc[p].want = None
  /\ calendar = None => \A p \in {Main, Setup} : loc[p].want \in {None, stored}

\* The reader: there is a collector only under some settings, in Apply they are
\* those that a failure goes back to, and only an overtaken process leaves
\* others than those in the database.
Reading ==
  /\ rt.current # None => rt.active # None
  /\ rt.active # None => calendar # None
  /\ \A p \in Procs : InApply(p) =>
       /\ rt.active = loc[p].oldActive
       /\ loc[p].old # None => rt.active # None
  /\ rt.active # None /\ "reader" \notin overtaken =>
       rt.active = stored /\ calendar = stored

\* The process is about to set the billing calendar to what the database says.
Billing(p) == pc[p] = "applied" /\ loc[p].error = "none" /\ loc[p].want = stored

\* The billing calendar: once settings were applied, it is right, or somebody is
\* about to make it so, or an overtaken process came last.
Billed ==
  calendar # None =>
    finance = stored \/ "finance" \in overtaken \/ \E p \in Procs : Billing(p)

InForce == Asking /\ Wants /\ Reading /\ Billed

\* What goes on in Apply is not gone wrong, nor without settings.
LEMMA AskingStep == ASSUME LocksInv, InForce, [Next]_vars PROVE Asking'
<1> USE DEF LocksInv, RuntimeInv, WorkType, ProcsType, Goto, Fail, Roles, InForce, Asking, InFlight
<1>1. CASE ContextDone  BY <1>1, Kinds DEF ContextDone
<1>2. CASE Begin  BY <1>2, Kinds DEF Begin
<1>3. CASE LoadSettings  BY <1>3, Kinds DEF LoadSettings, Procs, Locals
<1>4. CASE CheckOpen  BY <1>4, Kinds DEF CheckOpen
<1>5. CASE StopServing  BY <1>5, Kinds DEF StopServing
<1>6. CASE StopServices  BY <1>6, Kinds DEF StopServices
<1>7. CASE Exit  BY <1>7, Kinds DEF Exit
<1>8. CASE RuntimeStop  BY <1>8, Kinds DEF RuntimeStop
<1>9. CASE RuntimeStopped  BY <1>9, Kinds DEF RuntimeStopped
<1>10. ASSUME NEW s \in Settings, Bootstrap(s) PROVE Asking'
  BY <1>10, Kinds, RuntimeAssumption DEF Bootstrap, Locals, Wants
<1>11. ASSUME NEW s \in Settings, NEW p \in Requests, PutSettings(p, s) PROVE Asking'
  BY <1>11, Kinds, RuntimeAssumption DEF PutSettings, Locals
<1>12. ASSUME NEW p \in Procs, ApplyBegin(p) PROVE Asking'
  <2>1. \A q \in Procs : loc'[q].want = loc[q].want /\ (q # p => loc'[q] = loc[q])
    BY <1>12 DEF ApplyBegin, Locals
  <2>2. pc' = [pc EXCEPT ![p] = IF rt.ctx THEN "waitOld" ELSE "applied"]
        /\ (rt.ctx => loc'[p].error = loc[p].error)
    BY <1>12 DEF ApplyBegin, Locals
  <2> QED  BY <1>12, <2>1, <2>2 DEF ApplyBegin
<1>13. ASSUME NEW p \in Procs, OldStopped(p) PROVE Asking'
  BY <1>13, Kinds DEF OldStopped
<1>14. ASSUME NEW p \in Procs, OldTimesOut(p) PROVE Asking'
  BY <1>14, Kinds DEF OldTimesOut
<1>15. ASSUME NEW p \in Procs, OldJoined(p) PROVE Asking'  BY <1>15, Kinds DEF OldJoined
<1>16. ASSUME NEW p \in Procs, Persist(p) PROVE Asking'
  <2>1. \A q \in Procs : loc'[q].want = loc[q].want /\ (q # p => loc'[q] = loc[q])
    BY <1>16 DEF Persist, Locals
  <2>2. pc' = [pc EXCEPT ![p] = "applied"] /\ loc[p].want # None  BY <1>16 DEF Persist
  <2> QED  BY <2>1, <2>2
<1>17. ASSUME NEW p \in Procs, Applied(p) PROVE Asking'
  BY <1>17, AfterApplyLabel DEF Applied
<1>18. ASSUME NEW p \in Procs, StartJobs(p) PROVE Asking'  BY <1>18, Kinds DEF StartJobs
<1>19. ASSUME NEW p \in Procs, JobsAreReady(p) PROVE Asking'
  BY <1>19, Kinds DEF JobsAreReady
<1>20. ASSUME NEW p \in Procs, JobsNotReady(p) PROVE Asking'
  BY <1>20, Kinds DEF JobsNotReady
<1>21. ASSUME NEW p \in Procs, PauseJobs(p) PROVE Asking'  BY <1>21, Kinds DEF PauseJobs
<1>22. ASSUME NEW p \in Procs, JobsPaused(p) PROVE Asking'
  BY <1>22, Kinds DEF JobsPaused
<1>23. ASSUME NEW p \in Procs, CancelCurrent(p) PROVE Asking'
  BY <1>23, Kinds DEF CancelCurrent
<1>24. ASSUME NEW p \in Procs, CurrentJoined(p) PROVE Asking'
  BY <1>24, Kinds DEF CurrentJoined
<1>25. ASSUME NEW p \in Procs, Hold(p) PROVE Asking'  BY <1>25, Kinds DEF Hold
<1>26. ASSUME NEW p \in Procs, Release(p) PROVE Asking'  BY <1>26, Kinds DEF Release
<1>27. ASSUME NEW p \in Procs, LockSettings(p) PROVE Asking'
  BY <1>27, Kinds DEF LockSettings
<1>28. ASSUME NEW p \in Procs, Return(p) PROVE Asking'
  BY <1>28, Kinds DEF Return, NoLocals
<1>29. ASSUME NEW p \in Procs, CollectorRuns(p) PROVE Asking'
  BY <1>29, Kinds DEF CollectorRuns
<1>30. ASSUME NEW p \in Procs, CollectorEnds(p) PROVE Asking'
  BY <1>30, Kinds DEF CollectorEnds
<1>31. ASSUME NEW p \in Procs, CollectorGone(p) PROVE Asking'
  BY <1>31, Kinds DEF CollectorGone
<1>32. ASSUME NEW p \in Procs, JobsReady(p) PROVE Asking'  BY <1>32, Kinds DEF JobsReady
<1>33. ASSUME NEW p \in Procs, JobsEnd(p) PROVE Asking'  BY <1>33, Kinds DEF JobsEnd
<1>34. ASSUME NEW p \in Procs, JobsGone(p) PROVE Asking'  BY <1>34, Kinds DEF JobsGone
<1>35. CASE UNCHANGED vars  BY <1>35 DEF vars
<1> QED
  BY <1>1, <1>2, <1>3, <1>4, <1>5, <1>6, <1>7, <1>8, <1>9, <1>10, <1>11, <1>12, <1>13,
     <1>14, <1>15, <1>16, <1>17, <1>18, <1>19, <1>20, <1>21, <1>22, <1>23, <1>24,
     <1>25, <1>26, <1>27, <1>28, <1>29, <1>30, <1>31, <1>32, <1>33, <1>34, <1>35
     DEF Next, MainStep, StopStep, Step, Applying, Restarting, Goroutines

\* Nobody wants what was never stored.
LEMMA WantsStep == ASSUME LocksInv, InForce, [Next]_vars PROVE Wants'
<1> USE DEF LocksInv, RuntimeInv, WorkType, ProcsType, Goto, Fail, Roles, InForce, Wants
<1>1. CASE ContextDone  BY <1>1, Kinds DEF ContextDone
<1>2. CASE Begin  BY <1>2, Kinds DEF Begin
<1>3. CASE LoadSettings  BY <1>3, Kinds DEF LoadSettings, Procs, Locals
<1>4. CASE CheckOpen  BY <1>4, Kinds DEF CheckOpen, Procs, Locals
<1>5. CASE StopServing  BY <1>5, Kinds DEF StopServing
<1>6. CASE StopServices  BY <1>6, Kinds DEF StopServices
<1>7. CASE Exit  BY <1>7, Kinds DEF Exit
<1>8. CASE RuntimeStop  BY <1>8, Kinds DEF RuntimeStop
<1>9. CASE RuntimeStopped  BY <1>9, Kinds DEF RuntimeStopped
<1>10. ASSUME NEW s \in Settings, Bootstrap(s) PROVE Wants'
  BY <1>10, Kinds, RuntimeAssumption DEF Bootstrap, Procs, Locals
<1>11. ASSUME NEW s \in Settings, NEW p \in Requests, PutSettings(p, s) PROVE Wants'
  BY <1>11, Kinds DEF PutSettings, Procs, Locals
<1>12. ASSUME NEW p \in Procs, ApplyBegin(p) PROVE Wants'
  <2>1. \A q \in Procs : loc'[q].want = loc[q].want /\ (q # p => loc'[q] = loc[q])
    BY <1>12 DEF ApplyBegin, Locals
  <2>2. pc' = [pc EXCEPT ![p] = IF rt.ctx THEN "waitOld" ELSE "applied"]
        /\ (rt.ctx => loc'[p].error = loc[p].error)
    BY <1>12 DEF ApplyBegin, Locals
  <2> QED  BY <1>12, <2>1, <2>2 DEF ApplyBegin
<1>13. ASSUME NEW p \in Procs, OldStopped(p) PROVE Wants'  BY <1>13, Kinds DEF OldStopped
<1>14. ASSUME NEW p \in Procs, OldTimesOut(p) PROVE Wants'
  BY <1>14, Kinds DEF OldTimesOut
<1>15. ASSUME NEW p \in Procs, OldJoined(p) PROVE Wants'  BY <1>15, Kinds DEF OldJoined
<1>16. ASSUME NEW p \in Procs, Persist(p) PROVE Wants'
  <2>1. loc[p].want # None /\ stored # None  BY <1>16 DEF Persist, Asking, InFlight
  <2> QED  BY <1>16, <2>1, Kinds DEF Persist
<1>17. ASSUME NEW p \in Procs, Applied(p) PROVE Wants'  BY <1>17, Kinds DEF Applied
<1>18. ASSUME NEW p \in Procs, StartJobs(p) PROVE Wants'
  BY <1>18, Kinds DEF StartJobs, Locals
<1>19. ASSUME NEW p \in Procs, JobsAreReady(p) PROVE Wants'
  BY <1>19, Kinds DEF JobsAreReady
<1>20. ASSUME NEW p \in Procs, JobsNotReady(p) PROVE Wants'
  BY <1>20, Kinds DEF JobsNotReady
<1>21. ASSUME NEW p \in Procs, PauseJobs(p) PROVE Wants'  BY <1>21, Kinds DEF PauseJobs
<1>22. ASSUME NEW p \in Procs, JobsPaused(p) PROVE Wants'  BY <1>22, Kinds DEF JobsPaused
<1>23. ASSUME NEW p \in Procs, CancelCurrent(p) PROVE Wants'
  BY <1>23, Kinds DEF CancelCurrent
<1>24. ASSUME NEW p \in Procs, CurrentJoined(p) PROVE Wants'
  BY <1>24, Kinds DEF CurrentJoined
<1>25. ASSUME NEW p \in Procs, Hold(p) PROVE Wants'  BY <1>25, Kinds DEF Hold
<1>26. ASSUME NEW p \in Procs, Release(p) PROVE Wants'  BY <1>26, Kinds DEF Release
<1>27. ASSUME NEW p \in Procs, LockSettings(p) PROVE Wants'
  BY <1>27, Kinds DEF LockSettings
<1>28. ASSUME NEW p \in Procs, Return(p) PROVE Wants'  BY <1>28, Kinds DEF Return, NoLocals
<1>29. ASSUME NEW p \in Procs, CollectorRuns(p) PROVE Wants'
  BY <1>29, Kinds DEF CollectorRuns
<1>30. ASSUME NEW p \in Procs, CollectorEnds(p) PROVE Wants'
  BY <1>30, Kinds DEF CollectorEnds
<1>31. ASSUME NEW p \in Procs, CollectorGone(p) PROVE Wants'
  BY <1>31, Kinds DEF CollectorGone
<1>32. ASSUME NEW p \in Procs, JobsReady(p) PROVE Wants'  BY <1>32, Kinds DEF JobsReady
<1>33. ASSUME NEW p \in Procs, JobsEnd(p) PROVE Wants'  BY <1>33, Kinds DEF JobsEnd
<1>34. ASSUME NEW p \in Procs, JobsGone(p) PROVE Wants'  BY <1>34, Kinds DEF JobsGone
<1>35. CASE UNCHANGED vars  BY <1>35 DEF vars
<1> QED
  BY <1>1, <1>2, <1>3, <1>4, <1>5, <1>6, <1>7, <1>8, <1>9, <1>10, <1>11, <1>12, <1>13,
     <1>14, <1>15, <1>16, <1>17, <1>18, <1>19, <1>20, <1>21, <1>22, <1>23, <1>24,
     <1>25, <1>26, <1>27, <1>28, <1>29, <1>30, <1>31, <1>32, <1>33, <1>34, <1>35
     DEF Next, MainStep, StopStep, Step, Applying, Restarting, Goroutines

\* The collector reads under the settings in the database, or was overtaken.
LEMMA ReadingStep == ASSUME LocksInv, InForce, [Next]_vars PROVE Reading'
<1> USE DEF LocksInv, RuntimeInv, WorkType, ProcsType, CollType, Goto, Fail, Roles, InForce,
            Reading, InApply
<1>1. CASE ContextDone  BY <1>1, Kinds DEF ContextDone
<1>2. CASE Begin  BY <1>2, Kinds DEF Begin
<1>3. CASE LoadSettings  BY <1>3, Kinds DEF LoadSettings
<1>4. CASE CheckOpen  BY <1>4, Kinds DEF CheckOpen
<1>5. CASE StopServing  BY <1>5, Kinds DEF StopServing
<1>6. CASE StopServices  BY <1>6, Kinds DEF StopServices
<1>7. CASE Exit  BY <1>7, Kinds DEF Exit
<1>8. CASE RuntimeStop
  BY <1>8, Kinds, RuntimeAssumption DEF RuntimeStop, ConfigureMu, Procs
<1>9. CASE RuntimeStopped  BY <1>9, Kinds DEF RuntimeStopped
<1>10. ASSUME NEW s \in Settings, Bootstrap(s) PROVE Reading'
  BY <1>10, Kinds, RuntimeAssumption DEF Bootstrap, Procs, Locals, Wants
<1>11. ASSUME NEW s \in Settings, NEW p \in Requests, PutSettings(p, s) PROVE Reading'
  BY <1>11, Kinds DEF PutSettings
<1>12. ASSUME NEW p \in Procs, ApplyBegin(p) PROVE Reading'
  <2>1. CASE rt.ctx
    <3>1. /\ loc'[p].old = rt.current /\ loc'[p].oldActive = rt.active
          /\ \A q \in Procs \ {p} : loc'[q] = loc[q] /\ ~InApply(q)
      BY <1>12, <2>1 DEF ApplyBegin, Locals, ConfigureMu
    <3>2. pc' = [pc EXCEPT ![p] = "waitOld"]
          /\ UNCHANGED <<rt, calendar, overtaken, stored>>
      BY <1>12, <2>1 DEF ApplyBegin
    <3> QED  BY <3>1, <3>2
  <2>2. CASE ~rt.ctx
    <3>1. /\ \A q \in Procs \ {p} : loc'[q] = loc[q] /\ pc'[q] = pc[q]
          /\ pc'[p] = "applied"
      BY <1>12, <2>2 DEF ApplyBegin
    <3> QED  BY <1>12, <3>1 DEF ApplyBegin
  <2> QED  BY <2>1, <2>2
<1>13. ASSUME NEW p \in Procs, OldStopped(p) PROVE Reading'
  BY <1>13, Kinds DEF OldStopped
<1>14. ASSUME NEW p \in Procs, OldTimesOut(p) PROVE Reading'
  BY <1>14, Kinds DEF OldTimesOut
<1>15. ASSUME NEW p \in Procs, OldJoined(p) PROVE Reading'
  BY <1>15, Kinds DEF OldJoined, ConfigureMu
<1>16. ASSUME NEW p \in Procs, Persist(p) PROVE Reading'
  <2>1. \A q \in Procs \ {p} : ~InApply(q)  BY <1>16 DEF Persist, ConfigureMu
  <2>2. \A q \in Procs : pc'[q] \notin {"waitOld", "joinOld", "persist"}
    BY <1>16, <2>1 DEF Persist
  <2>3. loc[p].want # None  BY <1>16 DEF Persist, Asking, InFlight
  <2>4. CASE /\ stored' = (IF p \in Requests THEN loc[p].want ELSE stored)
             /\ calendar' = loc[p].want
             /\ Overtake(p, "reader", stored')
             /\ startCollectorLocked(p, loc[p].want)
    <3>1. rt'.active = loc[p].want /\ calendar' = loc[p].want
      BY <2>4 DEF startCollectorLocked
    <3>2. "reader" \notin overtaken' => loc[p].want = stored'  BY <2>4 DEF Overtake
    <3> QED  BY <2>2, <2>3, <3>1, <3>2
  <2>5. CASE /\ IF loc[p].old # None
                THEN startCollectorLocked(p, RollbackSettings(p)) ELSE UNCHANGED <<rt, coll>>
             /\ UNCHANGED <<stored, calendar, overtaken>>
    <3>1. rt'.active = rt.active /\ (rt'.current # None => rt.active # None)
      BY <1>16, <2>5 DEF Persist, startCollectorLocked, RollbackSettings
    <3> QED  BY <2>2, <2>5, <3>1
  <2> QED  BY <1>16, <2>4, <2>5 DEF Persist
<1>17. ASSUME NEW p \in Procs, Applied(p) PROVE Reading'
  <2>1. "reader" \in overtaken' <=> "reader" \in overtaken  BY <1>17 DEF Applied, Overtake
  <2> QED  BY <1>17, <2>1, AfterApplyLabel DEF Applied
<1>18. ASSUME NEW p \in Procs, StartJobs(p) PROVE Reading'  BY <1>18, Kinds DEF StartJobs
<1>19. ASSUME NEW p \in Procs, JobsAreReady(p) PROVE Reading'
  BY <1>19, Kinds DEF JobsAreReady
<1>20. ASSUME NEW p \in Procs, JobsNotReady(p) PROVE Reading'
  BY <1>20, Kinds DEF JobsNotReady
<1>21. ASSUME NEW p \in Procs, PauseJobs(p) PROVE Reading'  BY <1>21, Kinds DEF PauseJobs
<1>22. ASSUME NEW p \in Procs, JobsPaused(p) PROVE Reading'
  BY <1>22, Kinds DEF JobsPaused
<1>23. ASSUME NEW p \in Procs, CancelCurrent(p) PROVE Reading'
  BY <1>23 DEF CancelCurrent, ConfigureMu
<1>24. ASSUME NEW p \in Procs, CurrentJoined(p) PROVE Reading'
  BY <1>24, Kinds DEF CurrentJoined
<1>25. ASSUME NEW p \in Procs, Hold(p) PROVE Reading'  BY <1>25, Kinds DEF Hold
<1>26. ASSUME NEW p \in Procs, Release(p) PROVE Reading'  BY <1>26, Kinds DEF Release
<1>27. ASSUME NEW p \in Procs, LockSettings(p) PROVE Reading'
  BY <1>27, Kinds DEF LockSettings
<1>28. ASSUME NEW p \in Procs, Return(p) PROVE Reading'
  BY <1>28, Kinds DEF Return, NoLocals
<1>29. ASSUME NEW p \in Procs, CollectorRuns(p) PROVE Reading'
  BY <1>29, Kinds DEF CollectorRuns
<1>30. ASSUME NEW p \in Procs, CollectorEnds(p) PROVE Reading'
  BY <1>30, Kinds DEF CollectorEnds
<1>31. ASSUME NEW p \in Procs, CollectorGone(p) PROVE Reading'
  BY <1>31, Kinds DEF CollectorGone
<1>32. ASSUME NEW p \in Procs, JobsReady(p) PROVE Reading'  BY <1>32, Kinds DEF JobsReady
<1>33. ASSUME NEW p \in Procs, JobsEnd(p) PROVE Reading'  BY <1>33, Kinds DEF JobsEnd
<1>34. ASSUME NEW p \in Procs, JobsGone(p) PROVE Reading'  BY <1>34, Kinds DEF JobsGone
<1>35. CASE UNCHANGED vars  BY <1>35 DEF vars
<1> QED
  BY <1>1, <1>2, <1>3, <1>4, <1>5, <1>6, <1>7, <1>8, <1>9, <1>10, <1>11, <1>12, <1>13,
     <1>14, <1>15, <1>16, <1>17, <1>18, <1>19, <1>20, <1>21, <1>22, <1>23, <1>24,
     <1>25, <1>26, <1>27, <1>28, <1>29, <1>30, <1>31, <1>32, <1>33, <1>34, <1>35
     DEF Next, MainStep, StopStep, Step, Applying, Restarting, Goroutines

\* The billing calendar follows, or was overtaken.
LEMMA BilledStep == ASSUME LocksInv, InForce, [Next]_vars PROVE Billed'
<1> USE DEF LocksInv, RuntimeInv, WorkType, ProcsType, Goto, Fail, Roles, InForce, Billed, Billing
<1>1. CASE ContextDone  BY <1>1, Kinds DEF ContextDone
<1>2. CASE Begin  BY <1>2, Kinds DEF Begin
<1>3. CASE LoadSettings  BY <1>3, Kinds DEF LoadSettings
<1>4. CASE CheckOpen  BY <1>4, Kinds DEF CheckOpen
<1>5. CASE StopServing  BY <1>5, Kinds DEF StopServing
<1>6. CASE StopServices  BY <1>6, Kinds DEF StopServices
<1>7. CASE Exit  BY <1>7, Kinds DEF Exit
<1>8. CASE RuntimeStop  BY <1>8, Kinds DEF RuntimeStop
<1>9. CASE RuntimeStopped  BY <1>9, Kinds DEF RuntimeStopped
<1>10. ASSUME NEW s \in Settings, Bootstrap(s) PROVE Billed'  BY <1>10 DEF Bootstrap, Wants
<1>11. ASSUME NEW s \in Settings, NEW p \in Requests, PutSettings(p, s) PROVE Billed'
  BY <1>11, Kinds DEF PutSettings
<1>12. ASSUME NEW p \in Procs, ApplyBegin(p) PROVE Billed'
  BY <1>12, Kinds DEF ApplyBegin
<1>13. ASSUME NEW p \in Procs, OldStopped(p) PROVE Billed'
  BY <1>13, Kinds DEF OldStopped
<1>14. ASSUME NEW p \in Procs, OldTimesOut(p) PROVE Billed'
  BY <1>14, Kinds DEF OldTimesOut
<1>15. ASSUME NEW p \in Procs, OldJoined(p) PROVE Billed'  BY <1>15, Kinds DEF OldJoined
<1>16. ASSUME NEW p \in Procs, Persist(p) PROVE Billed'
  <2>1. CASE /\ stored' = (IF p \in Requests THEN loc[p].want ELSE stored)
             /\ UNCHANGED loc
    <3>1. loc[p].error = "none" /\ loc[p].want # None /\ pc'[p] = "applied"
      BY <1>16 DEF Persist, Asking, InFlight
    <3>2. CASE loc[p].want = stored'  BY <2>1, <3>1, <3>2
    <3>3. CASE loc[p].want # stored'
      <4>1. p \in {Main, Setup} /\ stored' = stored  BY <2>1, <3>3, Kinds
      <4>2. calendar # None  BY <3>1, <3>3, <4>1 DEF Wants
      <4>3. "finance" \in overtaken => "finance" \in overtaken'
        BY <1>16 DEF Persist, Overtake
      <4>4. ASSUME NEW q \in Procs, Billing(q) PROVE Billing(q)'
        BY <1>16, <2>1, <4>1, <4>4 DEF Persist
      <4> QED  BY <1>16, <4>1, <4>2, <4>3, <4>4 DEF Persist
    <3> QED  BY <3>2, <3>3
  <2>2. CASE p \in Requests /\ Fail(p, "refused") /\ UNCHANGED <<stored, calendar, overtaken>>
    <3>1. ASSUME NEW q \in Procs, Billing(q) PROVE Billing(q)'
      BY <1>16, <2>2, <3>1 DEF Persist
    <3> QED  BY <1>16, <2>2, <3>1 DEF Persist
  <2> QED  BY <1>16, <2>1, <2>2 DEF Persist
<1>17. ASSUME NEW p \in Procs, Applied(p) PROVE Billed'
  <2>1. CASE loc[p].error = "none"  BY <1>17, <2>1 DEF Applied, Overtake
  <2>2. CASE loc[p].error # "none"
    <3>1. ASSUME NEW q \in Procs, Billing(q) PROVE Billing(q)'
      BY <1>17, <2>2, <3>1 DEF Applied
    <3> QED  BY <1>17, <2>2, <3>1 DEF Applied
  <2> QED  BY <2>1, <2>2
<1>18. ASSUME NEW p \in Procs, StartJobs(p) PROVE Billed'  BY <1>18, Kinds DEF StartJobs
<1>19. ASSUME NEW p \in Procs, JobsAreReady(p) PROVE Billed'
  BY <1>19, Kinds DEF JobsAreReady
<1>20. ASSUME NEW p \in Procs, JobsNotReady(p) PROVE Billed'
  BY <1>20, Kinds DEF JobsNotReady
<1>21. ASSUME NEW p \in Procs, PauseJobs(p) PROVE Billed'  BY <1>21, Kinds DEF PauseJobs
<1>22. ASSUME NEW p \in Procs, JobsPaused(p) PROVE Billed'
  BY <1>22, Kinds DEF JobsPaused
<1>23. ASSUME NEW p \in Procs, CancelCurrent(p) PROVE Billed'
  BY <1>23, Kinds DEF CancelCurrent
<1>24. ASSUME NEW p \in Procs, CurrentJoined(p) PROVE Billed'
  BY <1>24, Kinds DEF CurrentJoined
<1>25. ASSUME NEW p \in Procs, Hold(p) PROVE Billed'  BY <1>25, Kinds DEF Hold
<1>26. ASSUME NEW p \in Procs, Release(p) PROVE Billed'  BY <1>26, Kinds DEF Release
<1>27. ASSUME NEW p \in Procs, LockSettings(p) PROVE Billed'
  BY <1>27, Kinds DEF LockSettings
<1>28. ASSUME NEW p \in Procs, Return(p) PROVE Billed'  BY <1>28, Kinds DEF Return
<1>29. ASSUME NEW p \in Procs, CollectorRuns(p) PROVE Billed'
  BY <1>29, Kinds DEF CollectorRuns
<1>30. ASSUME NEW p \in Procs, CollectorEnds(p) PROVE Billed'
  BY <1>30, Kinds DEF CollectorEnds
<1>31. ASSUME NEW p \in Procs, CollectorGone(p) PROVE Billed'
  BY <1>31, Kinds DEF CollectorGone
<1>32. ASSUME NEW p \in Procs, JobsReady(p) PROVE Billed'  BY <1>32, Kinds DEF JobsReady
<1>33. ASSUME NEW p \in Procs, JobsEnd(p) PROVE Billed'  BY <1>33, Kinds DEF JobsEnd
<1>34. ASSUME NEW p \in Procs, JobsGone(p) PROVE Billed'  BY <1>34, Kinds DEF JobsGone
<1>35. CASE UNCHANGED vars  BY <1>35 DEF vars
<1> QED
  BY <1>1, <1>2, <1>3, <1>4, <1>5, <1>6, <1>7, <1>8, <1>9, <1>10, <1>11, <1>12, <1>13,
     <1>14, <1>15, <1>16, <1>17, <1>18, <1>19, <1>20, <1>21, <1>22, <1>23, <1>24,
     <1>25, <1>26, <1>27, <1>28, <1>29, <1>30, <1>31, <1>32, <1>33, <1>34, <1>35
     DEF Next, MainStep, StopStep, Step, Applying, Restarting, Goroutines

\* At first nothing was applied.
LEMMA InForceInit == ASSUME Init PROVE InForce
<1>1. Asking  BY Kinds DEF Init, Asking, InFlight, NoLocals
<1>2. Wants /\ Billed  BY DEF Init, Wants, Billed, NoLocals, Procs
<1>3. Reading  BY Kinds DEF Init, Reading, InApply
<1> QED  BY <1>1, <1>2, <1>3 DEF InForce

\* And so it goes on.
LEMMA InForceAlways == Spec => [](LocksInv /\ InForce)
<1>1. Init => InForce  BY InForceInit
<1>2. LocksInv /\ InForce /\ [Next]_vars => InForce'
  BY AskingStep, WantsStep, ReadingStep, BilledStep DEF InForce
<1> QED  BY <1>1, <1>2, LocksAlways, PTL DEF Spec

\* For any number of concurrent settings requests, with bootstrap, start-up,
\* shutdown, failing saves, slow collectors and slow jobs interleaved in any
\* way: whenever the runtime is at rest, the collector, the summaries and the
\* billing calendar follow the settings in the database, whether the requests
\* succeeded or failed.  The one exception is what start-up or bootstrap
\* configured with settings that a request had replaced since they were read.
THEOREM SettingsStayInForce == Spec => []SettingsInForce
<1>1. ASSUME LocksInv, InForce PROVE SettingsInForce
  <2>1. ReaderConsistent  BY <1>1 DEF InForce, Reading, ReaderConsistent
  <2>2. AtRest /\ rt.current # None /\ "finance" \notin overtaken => finance = stored
    BY <1>1 DEF InForce, Reading, Billed, Billing, AtRest
  <2> QED  BY <1>1, <2>1, <2>2, LocksBalanced DEF SettingsInForce, ConfigConsistent
<1> QED  BY <1>1, InForceAlways, PTL

=============================================================================
