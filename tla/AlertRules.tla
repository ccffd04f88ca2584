------------------------------ MODULE AlertRules ------------------------------
(***************************************************************************)
(* The alert rules (internal/alerts/rules.go): each maps an input, the     *)
(* rule's stored state and whether its alert is open to a decision.  Times *)
(* are naturals and days are numbered; 0 stands for Go's zero time and for *)
(* the empty day key.  Evidence and wording are left out.                  *)
(***************************************************************************)
EXTENDS Integers

CONSTANTS StaleAfter, ZeroGenerationFor, VoltageFor, FrequencyFor,
          UnderproductionDays, RecoveryDays

\* validateConfig.
ASSUME RuleConfigAssumption ==
  {StaleAfter, ZeroGenerationFor, VoltageFor, FrequencyFor,
   UnderproductionDays, RecoveryDays} \subseteq Nat \ {0}

Rules == {"logger_offline", "telemetry_stale", "inverter_fault",
          "zero_sunny_generation", "persistent_underproduction",
          "grid_voltage", "grid_frequency"}

\* State.
ZeroState == [pendingSince |-> 0, lastEvidenceAt |-> 0, consecutive |-> 0,
              lastKey |-> 0, lastEvaluatedAt |-> 0]

\* Input.  poll: was a poll observed and did it succeed.  telemetry: observed
\* and fresh.  power: sign of the AC power.  sunny: weather is available and
\* elevation, irradiance and coverage reach their minima.  analysis: the
\* day's ratio, low (under UnderproductionRatio), high (at RecoveryRatio or
\* more) or in between; qualifies: a qualifying day with weather.
NoInput == [at |-> 0, poll |-> "none", telemetry |-> FALSE,
            lastTelemetryAt |-> 0, power |-> 0, sunny |-> FALSE,
            fault |-> FALSE, voltageOut |-> FALSE, frequencyOut |-> FALSE,
            analysis |-> "none", qualifies |-> FALSE, day |-> 0]

\* Decision: the next state, ShouldOpen, ShouldResolve.
Decide(next, opens, resolves) ==
  [next |-> next, opens |-> opens, resolves |-> resolves]

evaluateLoggerOffline(in, st, isOpen) ==
  LET failed == [st EXCEPT !.lastEvidenceAt = in.at, !.consecutive = @ + 1,
                   !.pendingSince = IF st.consecutive = 0 THEN in.at ELSE @]
  IN  CASE in.poll = "none" \/ in.at = st.lastEvidenceAt ->
             Decide(st, FALSE, FALSE)
        [] in.poll = "ok" /\ in.at # st.lastEvidenceAt ->
             Decide([st EXCEPT !.lastEvidenceAt = in.at, !.consecutive = 0,
                       !.pendingSince = 0], FALSE, isOpen)
        [] in.poll = "failed" /\ in.at # st.lastEvidenceAt ->
             Decide(failed, ~isOpen /\ failed.consecutive >= 3, FALSE)

evaluateTelemetryStale(in, st, isOpen) ==
  LET stale == in.at - in.lastTelemetryAt >= StaleAfter
      known == in.lastTelemetryAt # 0
  IN  Decide(st, known /\ ~isOpen /\ stale, known /\ isOpen /\ ~stale)

evaluateInverterFault(in, st, isOpen) ==
  LET clears == isOpen /\ ~in.fault
      next   == [st EXCEPT !.lastEvidenceAt = in.at,
                   !.consecutive = IF clears THEN @ + 1 ELSE 0]
  IN  IF ~in.telemetry \/ in.at = st.lastEvidenceAt
      THEN Decide(st, FALSE, FALSE)
      ELSE Decide(next, in.fault /\ ~isOpen, clears /\ next.consecutive >= 2)

\* evaluateDuration, and the same pattern in evaluateZeroGeneration: a
\* condition that must hold at every evaluation for a whole duration.
Pending(in, st, holds) ==
  [st EXCEPT !.pendingSince = IF ~holds THEN 0
                              ELSE IF @ = 0 THEN in.at ELSE @]
\* Mutant: longer than the duration, instead of at least as long.
LastedLonger(in, st, holds, duration) ==
  holds /\ in.at - Pending(in, st, holds).pendingSince > duration
LastedFor(in, st, holds, duration) ==
  holds /\ in.at - Pending(in, st, holds).pendingSince >= duration

evaluateZeroGeneration(in, st, isOpen) ==
  LET qualifies == in.telemetry /\ in.sunny /\ ~in.fault /\ in.power <= 0
  IN  Decide(Pending(in, st, qualifies),
             ~isOpen /\ LastedFor(in, st, qualifies, ZeroGenerationFor),
             isOpen /\ in.telemetry /\ in.power > 0)

\* Mutant: unobserved telemetry counts as a value inside the limits.
DurationResolvesBlind(in, st, isOpen, outside, duration) ==
  LET holds == in.telemetry /\ outside
  IN  Decide(Pending(in, st, holds),
             ~isOpen /\ LastedFor(in, st, holds, duration),
             isOpen /\ ~holds)

evaluateDuration(in, st, isOpen, outside, duration) ==
  LET holds == in.telemetry /\ outside
  IN  Decide(Pending(in, st, holds),
             ~isOpen /\ LastedFor(in, st, holds, duration),
             isOpen /\ in.telemetry /\ ~outside)

\* Mutant: an analysis of a day already seen is evaluated again.
UnderproductionRepeatsDay(in, st, isOpen) ==
  LET towards == in.analysis = IF isOpen THEN "high" ELSE "low"
      count   == IF towards THEN st.consecutive + 1 ELSE 0
      needed  == IF isOpen THEN RecoveryDays ELSE UnderproductionDays
      seen    == [st EXCEPT !.lastKey = in.day]
  IN  IF in.analysis = "none" THEN Decide(st, FALSE, FALSE)
      ELSE IF ~in.qualifies THEN Decide(seen, FALSE, FALSE)
      ELSE Decide([seen EXCEPT !.consecutive = IF count >= needed THEN 0
                                               ELSE count],
                  ~isOpen /\ count >= needed, isOpen /\ count >= needed)

\* Days count once and only forwards; a day that does not qualify leaves the
\* count alone; low days open, high days resolve.
evaluateUnderproduction(in, st, isOpen) ==
  LET towards == in.analysis = IF isOpen THEN "high" ELSE "low"
      count   == IF towards THEN st.consecutive + 1 ELSE 0
      needed  == IF isOpen THEN RecoveryDays ELSE UnderproductionDays
      seen    == [st EXCEPT !.lastKey = in.day]
  IN  IF in.analysis = "none" \/ (st.lastKey # 0 /\ in.day <= st.lastKey)
      THEN Decide(st, FALSE, FALSE)
      ELSE IF ~in.qualifies THEN Decide(seen, FALSE, FALSE)
      ELSE Decide([seen EXCEPT !.consecutive = IF count >= needed THEN 0
                                               ELSE count],
                  ~isOpen /\ count >= needed, isOpen /\ count >= needed)

evalRule(r, in, st, isOpen) ==
  CASE r = "logger_offline"        -> evaluateLoggerOffline(in, st, isOpen)
    [] r = "telemetry_stale"       -> evaluateTelemetryStale(in, st, isOpen)
    [] r = "inverter_fault"        -> evaluateInverterFault(in, st, isOpen)
    [] r = "zero_sunny_generation" -> evaluateZeroGeneration(in, st, isOpen)
    [] r = "persistent_underproduction" ->
         evaluateUnderproduction(in, st, isOpen)
    [] r = "grid_voltage" ->
         evaluateDuration(in, st, isOpen, in.voltageOut, VoltageFor)
    [] r = "grid_frequency" ->
         evaluateDuration(in, st, isOpen, in.frequencyOut, FrequencyFor)

\* rule.Evaluate stamps the state with the evaluation time, never backwards.
Stamp(st, at) ==
  [st EXCEPT !.lastEvaluatedAt = IF @ = 0 \/ at >= @ THEN at ELSE @]

Evaluate(r, in, st, isOpen) ==
  LET d == evalRule(r, in, st, isOpen)
  IN  [d EXCEPT !.next = Stamp(@, in.at)]

\* The checks of validateInput that a real event can fail.
ValidInput(in) == in.at # 0 /\ in.lastTelemetryAt <= in.at /\ in.power >= 0

\* validateAlertState, applied whenever states are loaded or saved.
ValidState(st) ==
  /\ st.consecutive >= 0
  /\ st.lastEvaluatedAt # 0 => /\ st.pendingSince <= st.lastEvaluatedAt
                               /\ st.lastEvidenceAt <= st.lastEvaluatedAt
=============================================================================
