----------------------------- MODULE AlertEngine -----------------------------
(***************************************************************************)
(* The alert engine (internal/alerts/engine.go), its tables in SQLite      *)
(* (internal/storage/alerts.go), and the two callers that race for it: the *)
(* alert worker, which evaluates collector events in order, and the daily  *)
(* job.  A snapshot is evaluated at its observation time, every other      *)
(* collector event at the worker's clock, the daily analysis at the time   *)
(* its job began; whichever arrives with an older time than the last       *)
(* evaluation is refused ("clock regressed") and nothing is saved.         *)
(*                                                                         *)
(* Engine.Evaluate is one database transaction, so it is one action; a     *)
(* crash keeps the tables as they were before or after it.                 *)
(***************************************************************************)
EXTENDS AlertRules, FiniteSets

CONSTANTS
  DayLength,        \* time units per local day
  Causes,           \* which callers an instance lets run
  Reports,          \* what a snapshot may report
  MaxNow            \* bound on the clock

ASSUME EngineAssumption ==
  /\ {DayLength, MaxNow} \subseteq Nat \ {0}
  /\ Causes \subseteq {"telemetry", "daily"}
  /\ Reports \subseteq [power : {-1, 0, 1}, sunny : BOOLEAN, fault : BOOLEAN,
                         voltageOut : BOOLEAN, frequencyOut : BOOLEAN]

VARIABLES
  now,
  observed,     \* observation time of the newest snapshot event, 0 if none
  states,       \* table alert_rule_state: rule -> State
  open,         \* table alerts: rules with an open row
  noticed,      \* LastSuccess in the newest stale notice: markStale sends one
                \* for a success at most
  analysed,     \* history: days the underproduction rule has been shown, and
  streak,       \* those among them behind its count
  evidence      \* history: the first collector event saved at each time since
                \* the last snapshot, that snapshot included

vars == <<now, observed, states, open, noticed, analysed, streak, evidence>>

Init ==
  /\ now = 1 /\ observed = 0
  /\ states = [r \in Rules |-> ZeroState]
  /\ open = {}
  /\ noticed = 0 /\ analysed = {} /\ streak = {} /\ evidence = {}

\* Engine.Evaluate refuses an input older than a rule's last evaluation.
InOrder(in) ==
  \A r \in Rules : states[r].lastEvaluatedAt = 0
                   \/ in.at >= states[r].lastEvaluatedAt

Decisions(in) ==
  [r \in Rules |-> Evaluate(r, in, states[r], r \in open)]

\* Transact's upsert keeps the newer state.
Upsert(old, new) ==
  IF new.lastEvaluatedAt >= old.lastEvaluatedAt THEN new ELSE old

\* History of the underproduction rule: a qualifying day seen for the first
\* time extends the streak or ends it; a transition starts a new one.
StreakAfter(in) ==
  LET u == "persistent_underproduction"
      d == Decisions(in)[u]
  IN  IF d.opens \/ d.resolves THEN {}
      ELSE IF in.analysis = "none" \/ ~in.qualifies \/ in.day \in analysed
      THEN streak
      ELSE IF in.analysis = (IF u \in open THEN "high" ELSE "low")
      THEN streak \cup {in.day} ELSE {}

\* validateInput refuses the one, "clock regressed" the other.
Accepted(in) == ValidInput(in) /\ InOrder(in)

\* Engine.Evaluate in AlertRepository.Transact.
EvaluateInput(in) ==
  IF Accepted(in)
  THEN LET d == Decisions(in)
       IN  /\ states' = [r \in Rules |-> Upsert(states[r], d[r].next)]
           /\ open' = {r \in Rules : \/ r \notin open /\ d[r].opens
                                     \/ r \in open /\ ~d[r].resolves}
           /\ streak' = StreakAfter(in)
           /\ analysed' = analysed \cup ({in.day} \ {0})
  ELSE UNCHANGED <<states, open, analysed, streak>>

\* History: what the engine has heard of the logger.
Heard(kind, in) ==
  evidence' =
    IF ~Accepted(in) \/ \E e \in evidence : e.at = in.at THEN evidence
    ELSE (IF kind = "snapshot" THEN {} ELSE evidence)
         \cup {[at |-> in.at, kind |-> kind]}

Tick ==
  /\ now < MaxNow
  /\ now' = now + 1
  /\ UNCHANGED <<observed, states, open, noticed, analysed, streak, evidence>>

\* The input that evaluateCollectorEvent builds of a snapshot.
SnapshotInput(at, report) ==
  [NoInput EXCEPT
     !.at = at, !.poll = "ok", !.telemetry = TRUE, !.lastTelemetryAt = at,
     !.power = report.power, !.sunny = report.sunny, !.fault = report.fault,
     !.voltageOut = report.voltageOut, !.frequencyOut = report.frequencyOut]

\* evaluateCollectorEvent on a "snapshot" event: evaluated at ObservedAt, which
\* is later than that of the snapshot before it but may be long past.
SnapshotEvent(at, report) ==
  /\ "telemetry" \in Causes /\ at > observed
  /\ observed' = at
  /\ EvaluateInput(SnapshotInput(at, report))
  /\ Heard("snapshot", SnapshotInput(at, report))
  /\ UNCHANGED <<now, noticed>>

\* ... and of any "state" event: a poll was observed and did not succeed
\* (PollObserved, PollSucceeded), be it that of a stale notice.  The zero voltage
\* and frequency of an input without telemetry lie outside their limits.
StateInput(lastSuccess) ==
  [NoInput EXCEPT !.at = now, !.poll = "failed",
                  !.lastTelemetryAt = lastSuccess,
                  !.voltageOut = TRUE, !.frequencyOut = TRUE]

\* ... on a "state" event, evaluated at the worker's clock: recordError of a
\* "poll" that failed, or markStale's "notice".  It carries the collector's
\* LastSuccess, the time the newest snapshot was recorded, or none after a
\* restart.  A notice comes when that is StaleAfter old (the application gives
\* the collector and the rules the same 30 seconds), from the other goroutine,
\* before or after the snapshots beside it.  (recordError of a failed flush finds the worker gone:
\* the application stops it before it cancels the collector.)
StateEvent(kind, lastSuccess) ==
  /\ "telemetry" \in Causes
  /\ \/ /\ kind = "poll" /\ lastSuccess \in {0} \cup observed .. now
        /\ UNCHANGED noticed
     \/ /\ kind = "notice" /\ noticed < lastSuccess
        /\ now >= lastSuccess + StaleAfter
        /\ noticed' = lastSuccess
  /\ EvaluateInput(StateInput(lastSuccess))
  /\ Heard(kind, StateInput(lastSuccess))
  /\ UNCHANGED <<now, observed>>

\* The analysis of the day before the job that began at `start`.
DailyInput(start, ratio, qualifies) ==
  [NoInput EXCEPT !.at = start, !.analysis = ratio, !.qualifies = qualifies,
                  !.day = start \div DayLength,
                  !.voltageOut = TRUE, !.frequencyOut = TRUE]

\* analyzeDay of a job that began at `start`: yesterday's analysis.  A job that
\* failed is repeated for the same day, one that restarts begins again.
DailyEvaluation(start, ratio, qualifies) ==
  /\ "daily" \in Causes /\ start <= now
  /\ start \div DayLength > 0
  /\ EvaluateInput(DailyInput(start, ratio, qualifies))
  /\ UNCHANGED <<now, observed, noticed, evidence>>

\* ApplySettings with another timezone forgets the underproduction rule.
ChangeTimezone ==
  /\ "daily" \in Causes
  /\ states' = [states EXCEPT !["persistent_underproduction"] = ZeroState]
  /\ open' = open \ {"persistent_underproduction"}
  /\ analysed' = {} /\ streak' = {}
  /\ UNCHANGED <<now, observed, noticed, evidence>>

Next ==
  \/ Tick
  \/ \E at \in 1 .. now, report \in Reports : SnapshotEvent(at, report)
  \/ \E kind \in {"poll", "notice"}, lastSuccess \in 0 .. now :
       StateEvent(kind, lastSuccess)
  \/ \E start \in 1 .. now, ratio \in {"low", "middle", "high"},
        qualifies \in BOOLEAN : DailyEvaluation(start, ratio, qualifies)
  \/ ChangeTimezone

Spec == Init /\ [][Next]_vars

-----------------------------------------------------------------------------

\* Types of what is known of the events.
EventsType ==
  /\ observed \in 0 .. MaxNow /\ noticed \in 0 .. MaxNow
  /\ evidence \subseteq [at : 1 .. MaxNow, kind : {"snapshot", "poll", "notice"}]

\* Types of the engine's tables.
TypeOK ==
  /\ EventsType
  /\ now \in 1 .. MaxNow
  /\ states \in [Rules -> [pendingSince : Nat, lastEvidenceAt : Nat,
                           consecutive : Nat, lastKey : Nat,
                           lastEvaluatedAt : 0 .. MaxNow]]
  /\ open \subseteq Rules
  /\ analysed \subseteq 1 .. MaxNow /\ streak \subseteq analysed

\* Every state that is saved passes validateAlertState when it is loaded
\* again.  One that did not would make each later Evaluate fail.
StatesReloadable == \A r \in Rules : ValidState(states[r])

\* What the engine has heard since the last snapshot, one event for each time.
FailedPolls == {e \in evidence : e.kind = "poll"}
Silence == {e \in evidence : e.kind \in {"poll", "notice"}}

\* The logger is reported offline exactly after three events without telemetry
\* since the last snapshot the engine saved, each at a time of its own, whatever
\* was repeated, refused or evaluated in between: three failed polls always
\* open the alert.  The rule calls every one of the three a failed poll; a stale
\* notice counts as one too.
OfflineIsSilence ==
  /\ Cardinality(FailedPolls) >= 3 => "logger_offline" \in open
  /\ "logger_offline" \in open <=> Cardinality(Silence) >= 3

\* While no alert of rule r is open, its condition has lasted less than duration.
NotOverdue(r, duration) ==
  r \notin open /\ states[r].pendingSince # 0 =>
    states[r].lastEvaluatedAt - states[r].pendingSince < duration

\* An alert on a lasting condition is never late: while it is closed, the
\* condition has been pending for less than its duration.
NothingOverdue ==
  /\ NotOverdue("zero_sunny_generation", ZeroGenerationFor)
  /\ NotOverdue("grid_voltage", VoltageFor)
  /\ NotOverdue("grid_frequency", FrequencyFor)

\* The underproduction count is a count of distinct days, however often the
\* daily job repeats one of them.
DaysCountedOnce ==
  states["persistent_underproduction"].consecutive = Cardinality(streak)

\* Missing data is not recovery: an alert about what the inverter reports is
\* resolved only by a snapshot newer than all before it, never by a failed
\* poll, a stale notice, a daily job or a change of the timezone.
ResolvedByTelemetry ==
  [][\A r \in open \ open' :
       r \notin {"persistent_underproduction", "telemetry_stale"}
         => observed' > observed]_vars

\* The two tables of the engine stay fit for the next evaluation, whatever is
\* repeated, refused or evaluated late: the counts mean what they say.
StatesSound ==
  TypeOK /\ StatesReloadable /\ OfflineIsSilence /\ DaysCountedOnce
=============================================================================
