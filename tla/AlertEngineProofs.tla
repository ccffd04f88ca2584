-------------------------- MODULE AlertEngineProofs --------------------------
(***************************************************************************)
(* The alert engine's tables stay sound for every configuration of the     *)
(* rules, every length of day and whatever the snapshots report.           *)
(***************************************************************************)
EXTENDS AlertEngine, FiniteSetTheorems, TLAPS

U == "persistent_underproduction"

\* What the engine is given, and a row of its state table.
Input == [at : Nat \ {0}, poll : {"none", "ok", "failed"}, telemetry : BOOLEAN,
          lastTelemetryAt : Nat, power : {-1, 0, 1}, sunny : BOOLEAN,
          fault : BOOLEAN, voltageOut : BOOLEAN, frequencyOut : BOOLEAN,
          analysis : {"none", "low", "middle", "high"}, qualifies : BOOLEAN,
          day : Nat]
State == [pendingSince : Nat, lastEvidenceAt : Nat, consecutive : Nat,
          lastKey : Nat, lastEvaluatedAt : Nat]

\* Neither clock is ahead of the time, and no row remembers a time after its
\* last evaluation, the first one included.
TimesInv ==
  /\ observed <= now
  /\ \A r \in Rules : /\ states[r].lastEvaluatedAt <= now
                      /\ states[r].pendingSince <= states[r].lastEvaluatedAt
                      /\ states[r].lastEvidenceAt <= states[r].lastEvaluatedAt

\* The underproduction rule remembers the last day it was shown, which had
\* begun at its last evaluation.
DaysInv ==
  /\ \A d \in analysed : d <= states[U].lastKey
  /\ states[U].lastKey # 0 => states[U].lastKey \in analysed
  /\ states[U].lastKey <= states[U].lastEvaluatedAt \div DayLength

\* The alert table agrees with the count in the state table.
OfflineMatchesCount ==
  "logger_offline" \in open <=> states["logger_offline"].consecutive >= 3

EngineInv == TypeOK /\ TimesInv /\ OfflineMatchesCount /\ NothingOverdue
             /\ DaysInv /\ DaysCountedOnce

Decision == [next : State, opens : BOOLEAN, resolves : BOOLEAN]

\* A daily input names the day that had ended when its job began; the others
\* name none.
DayFits(in) == IF in.analysis = "none" THEN in.day = 0
               ELSE in.day > 0 /\ in.day = in.at \div DayLength

\* The times of a row are not after its last evaluation.
Ordered(st) == /\ st.pendingSince <= st.lastEvaluatedAt
               /\ st.lastEvidenceAt <= st.lastEvaluatedAt

-----------------------------------------------------------------------------
(* The rules *)

\* The parts of a decision.
LEMMA DecideParts ==
  ASSUME NEW next \in State, NEW opens \in BOOLEAN, NEW resolves \in BOOLEAN
  PROVE  /\ Decide(next, opens, resolves) \in Decision
         /\ Decide(next, opens, resolves).next = next
         /\ Decide(next, opens, resolves).opens = opens
         /\ Decide(next, opens, resolves).resolves = resolves
BY DEF Decide, Decision

\* A row with another count.
LEMMA CountRow ==
  ASSUME NEW st \in State, NEW c \in Nat
  PROVE  LET new == [st EXCEPT !.consecutive = c]
         IN  /\ new \in State /\ new.lastEvaluatedAt = st.lastEvaluatedAt
             /\ new.pendingSince = st.pendingSince
             /\ new.lastEvidenceAt = st.lastEvidenceAt
             /\ new.consecutive = c /\ new.lastKey = st.lastKey
BY DEF State

\* What the underproduction rule decides: a day it has seen, or one before,
\* changes nothing; one that does not qualify is only remembered; any other
\* extends the count, or ends it by a transition or as the wrong kind of day.
DecidesOnDays(in, st, isOpen, d) ==
  LET known   == st.lastKey # 0 /\ in.day <= st.lastKey
      towards == in.analysis = IF isOpen THEN "high" ELSE "low"
  IN  /\ d \in Decision /\ d.next.lastEvaluatedAt = st.lastEvaluatedAt
      /\ d.next.pendingSince = st.pendingSince
      /\ d.next.lastEvidenceAt = st.lastEvidenceAt
      /\ in.analysis = "none" \/ known =>
           d.next = st /\ ~d.opens /\ ~d.resolves
      /\ in.analysis # "none" /\ ~known => d.next.lastKey = in.day
      /\ in.analysis # "none" /\ ~known /\ ~in.qualifies =>
           d.next.consecutive = st.consecutive /\ ~d.opens /\ ~d.resolves
      /\ in.analysis # "none" /\ ~known /\ in.qualifies =>
           d.next.consecutive = IF d.opens \/ d.resolves \/ ~towards THEN 0
                                ELSE st.consecutive + 1

\* evaluateUnderproduction decides as described.
LEMMA UnderproductionDecides ==
  ASSUME NEW in \in Input, NEW st \in State, NEW isOpen \in BOOLEAN
  PROVE  DecidesOnDays(in, st, isOpen, evaluateUnderproduction(in, st, isOpen))
<1> DEFINE towards == in.analysis = IF isOpen THEN "high" ELSE "low"
           count   == IF towards THEN st.consecutive + 1 ELSE 0
           needed  == IF isOpen THEN RecoveryDays ELSE UnderproductionDays
           seen    == [st EXCEPT !.lastKey = in.day]
           left    == IF count >= needed THEN 0 ELSE count
           next    == [seen EXCEPT !.consecutive = left]
           known   == st.lastKey # 0 /\ in.day <= st.lastKey
           d       == evaluateUnderproduction(in, st, isOpen)
<1>1. d = IF in.analysis = "none" \/ known THEN Decide(st, FALSE, FALSE)
          ELSE IF ~in.qualifies THEN Decide(seen, FALSE, FALSE)
          ELSE Decide(next, ~isOpen /\ count >= needed, isOpen /\ count >= needed)
  BY DEF evaluateUnderproduction
<1>2. count \in Nat /\ needed \in Nat \ {0} /\ left \in Nat
  BY RuleConfigAssumption DEF State
<1>3. /\ seen \in State /\ seen.lastKey = in.day
      /\ seen.consecutive = st.consecutive
      /\ seen.lastEvaluatedAt = st.lastEvaluatedAt
      /\ seen.pendingSince = st.pendingSince
      /\ seen.lastEvidenceAt = st.lastEvidenceAt
  BY DEF State, Input
<1> HIDE DEF seen, left, d
<1>4. /\ next \in State /\ next.lastKey = in.day
      /\ next.consecutive = left
      /\ next.lastEvaluatedAt = st.lastEvaluatedAt
      /\ next.pendingSince = st.pendingSince
      /\ next.lastEvidenceAt = st.lastEvidenceAt
  BY <1>2, <1>3, CountRow
<1> HIDE DEF next, count, needed
<1> SUFFICES DecidesOnDays(in, st, isOpen, d)
  BY DEF d
<1>5. CASE in.analysis = "none" \/ known
  <2>1. d = Decide(st, FALSE, FALSE)  BY <1>1, <1>5
  <2>2. d \in Decision /\ d.next = st /\ ~d.opens /\ ~d.resolves
    BY <2>1, DecideParts
  <2> QED  BY <2>2, <1>5 DEF DecidesOnDays
<1>6. CASE ~(in.analysis = "none" \/ known) /\ ~in.qualifies
  <2>1. d = Decide(seen, FALSE, FALSE)  BY <1>1, <1>6
  <2>2. d \in Decision /\ d.next = seen /\ ~d.opens /\ ~d.resolves
    BY <2>1, <1>3, DecideParts
  <2> QED  BY <2>2, <1>3, <1>6 DEF DecidesOnDays
<1>7. CASE ~(in.analysis = "none" \/ known) /\ in.qualifies
  <2>1. d = Decide(next, ~isOpen /\ count >= needed, isOpen /\ count >= needed)
    BY <1>1, <1>7
  <2>2. /\ d \in Decision /\ d.next = next
        /\ d.opens = (~isOpen /\ count >= needed)
        /\ d.resolves = (isOpen /\ count >= needed)
    BY <2>1, <1>4, DecideParts
  <2>3. left = IF d.opens \/ d.resolves \/ ~towards THEN 0
               ELSE st.consecutive + 1
    BY <2>2 DEF left, count
  <2> QED  BY <2>2, <2>3, <1>4, <1>7 DEF DecidesOnDays
<1> QED  BY <1>5, <1>6, <1>7

\* A rule only counts, and remembers no time but the old ones and that of the
\* input.
LEMMA RuleDecides ==
  ASSUME NEW in \in Input, NEW st \in State, NEW isOpen \in BOOLEAN,
         NEW r \in Rules, Ordered(st), st.lastEvaluatedAt <= in.at
  PROVE  LET d == evalRule(r, in, st, isOpen)
         IN  /\ d \in Decision
             /\ d.next.lastEvaluatedAt = st.lastEvaluatedAt
             /\ d.next.pendingSince <= in.at /\ d.next.lastEvidenceAt <= in.at
<1>1. CASE r = "logger_offline"
  <2> DEFINE d == evaluateLoggerOffline(in, st, isOpen)
  <2>1. evalRule(r, in, st, isOpen) = d
    BY <1>1 DEF evalRule
  <2>2. CASE in.poll = "none" \/ in.at = st.lastEvidenceAt
    <3>1. d = Decide(st, FALSE, FALSE)
      BY <2>2 DEF evaluateLoggerOffline
    <3> QED  BY <2>1, <3>1 DEF Decide, Decision, State, Input, Ordered
  <2>3. CASE in.poll = "ok" /\ in.at # st.lastEvidenceAt
    <3> DEFINE new == [st EXCEPT !.lastEvidenceAt = in.at, !.consecutive = 0,
                                 !.pendingSince = 0]
    <3>1. d = Decide(new, FALSE, isOpen)
      BY <2>3 DEF evaluateLoggerOffline
    <3>2. in.at \in Nat /\ 0 \in Nat /\ in.at >= 0  BY DEF Input
    <3>3. /\ new \in State /\ new.lastEvaluatedAt = st.lastEvaluatedAt
          /\ new.pendingSince = 0 /\ new.lastEvidenceAt = in.at
      BY <3>2 DEF State
    <3> HIDE DEF new, d
    <3>4. d \in Decision /\ d.next = new  BY <3>1, <3>3, DecideParts
    <3> QED  BY <2>1, <3>2, <3>3, <3>4
  <2>4. CASE in.poll = "failed" /\ in.at # st.lastEvidenceAt
    <3> DEFINE since == IF st.consecutive = 0 THEN in.at ELSE st.pendingSince
               failed == [st EXCEPT !.lastEvidenceAt = in.at,
                            !.consecutive = st.consecutive + 1,
                            !.pendingSince = since]
    <3>1. d = Decide(failed, ~isOpen /\ failed.consecutive >= 3, FALSE)
      BY <2>4 DEF evaluateLoggerOffline, State
    <3>2. /\ in.at \in Nat /\ st.consecutive + 1 \in Nat
          /\ since \in Nat /\ since <= in.at
      BY DEF Input, State, Ordered
    <3> HIDE DEF since
    <3>3. /\ failed \in State /\ failed.lastEvaluatedAt = st.lastEvaluatedAt
          /\ failed.pendingSince = since /\ failed.lastEvidenceAt = in.at
      BY <3>2 DEF State
    <3> HIDE DEF failed, d
    <3>4. d \in Decision /\ d.next = failed  BY <3>1, <3>3, DecideParts
    <3> QED  BY <2>1, <3>2, <3>3, <3>4
  <2> QED  BY <2>2, <2>3, <2>4 DEF Input
<1>2. CASE r = "telemetry_stale"
  BY <1>2 DEF evalRule, evaluateTelemetryStale, Decide, Decision, Input, State, Ordered
<1>3. CASE r = "inverter_fault"
  <2> DEFINE d == evaluateInverterFault(in, st, isOpen)
             clears == isOpen /\ ~in.fault
             next == [st EXCEPT !.lastEvidenceAt = in.at,
                        !.consecutive = IF clears THEN @ + 1 ELSE 0]
  <2>1. evalRule(r, in, st, isOpen) = d
    BY <1>3 DEF evalRule
  <2>2. d = IF ~in.telemetry \/ in.at = st.lastEvidenceAt
            THEN Decide(st, FALSE, FALSE)
            ELSE Decide(next, in.fault /\ ~isOpen,
                        clears /\ next.consecutive >= 2)
    BY DEF evaluateInverterFault
  <2>3. /\ next \in State /\ next.lastEvaluatedAt = st.lastEvaluatedAt
        /\ next.pendingSince <= in.at /\ next.lastEvidenceAt <= in.at
    <3> DEFINE c == IF clears THEN st.consecutive + 1 ELSE 0
               p == st.pendingSince
    <3>1. c \in Nat /\ p \in Nat /\ p <= in.at /\ in.at \in Nat
      BY DEF State, Input, Ordered
    <3>2. next = [st EXCEPT !.lastEvidenceAt = in.at, !.consecutive = c,
                            !.pendingSince = p]
      BY DEF State
    <3>3. in.at <= in.at  BY <3>1
    <3> HIDE DEF next, c, p
    <3> QED  BY <3>1, <3>2, <3>3 DEF State
  <2> HIDE DEF d, next
  <2>4. /\ Decide(st, FALSE, FALSE) \in Decision
        /\ Decide(st, FALSE, FALSE).next = st
    BY DEF Decide, Decision
  <2>5. /\ d \in Decision /\ d.next \in {st, next}
    BY <2>2, <2>3, <2>4 DEF Decide, Decision, Input
  <2> QED  BY <2>1, <2>3, <2>5 DEF State, Input, Ordered
<1>4. CASE r = "zero_sunny_generation"
  BY <1>4 DEF evalRule, evaluateZeroGeneration, Pending, LastedFor, Decide,
              Decision, Input, State, Ordered
<1>5. CASE r = U
  <2> DEFINE d == evaluateUnderproduction(in, st, isOpen)
  <2>1. evalRule(r, in, st, isOpen) = d
    BY <1>5 DEF evalRule, U
  <2>2. /\ d \in Decision /\ d.next.lastEvaluatedAt = st.lastEvaluatedAt
        /\ d.next.pendingSince = st.pendingSince
        /\ d.next.lastEvidenceAt = st.lastEvidenceAt
    BY UnderproductionDecides DEF DecidesOnDays
  <2> QED  BY <2>1, <2>2 DEF State, Input, Ordered
<1>6. CASE r = "grid_voltage"
  BY <1>6 DEF evalRule, evaluateDuration, Pending, LastedFor, Decide, Decision,
              Input, State, Ordered
<1>7. CASE r = "grid_frequency"
  BY <1>7 DEF evalRule, evaluateDuration, Pending, LastedFor, Decide, Decision,
              Input, State, Ordered
<1> QED  BY <1>1, <1>2, <1>3, <1>4, <1>5, <1>6, <1>7 DEF Rules, U

\* Evaluate adds the stamp: it is the time of the input.
LEMMA EvaluateStamps ==
  ASSUME NEW in \in Input, NEW st \in State, NEW isOpen \in BOOLEAN,
         NEW r \in Rules, Ordered(st), st.lastEvaluatedAt <= in.at
  PROVE  LET d == Evaluate(r, in, st, isOpen)
             e == evalRule(r, in, st, isOpen)
         IN  /\ d \in Decision /\ Ordered(d.next)
             /\ d.next.lastEvaluatedAt = in.at
             /\ d.opens = e.opens /\ d.resolves = e.resolves
             /\ d.next.pendingSince = e.next.pendingSince
             /\ d.next.consecutive = e.next.consecutive
             /\ d.next.lastEvidenceAt = e.next.lastEvidenceAt
             /\ d.next.lastKey = e.next.lastKey
<1> DEFINE e == evalRule(r, in, st, isOpen)
<1>1. /\ e \in Decision /\ e.next.lastEvaluatedAt = st.lastEvaluatedAt
      /\ e.next.pendingSince <= in.at /\ e.next.lastEvidenceAt <= in.at
  BY RuleDecides
<1>2. Evaluate(r, in, st, isOpen) = [e EXCEPT !.next = Stamp(@, in.at)]
  BY DEF Evaluate
<1> HIDE DEF e
<1>3. Stamp(e.next, in.at) = [e.next EXCEPT !.lastEvaluatedAt = in.at]
  BY <1>1 DEF Stamp, Decision, State, Input
<1> QED  BY <1>1, <1>2, <1>3 DEF Decision, State, Input, Ordered, e

-----------------------------------------------------------------------------
(* One transaction *)

\* An input that is evaluated in order replaces every row by its decision.
LEMMA RowsAfter ==
  ASSUME EngineInv, NEW in \in Input, InOrder(in),
         states' = [r \in Rules |-> Upsert(states[r], Decisions(in)[r].next)]
  PROVE  \A r \in Rules :
           LET e == evalRule(r, in, states[r], r \in open)
           IN  /\ states[r] \in State /\ Ordered(states[r])
               /\ states[r].lastEvaluatedAt <= in.at
               /\ Decisions(in)[r] \in Decision
               /\ states'[r] = Decisions(in)[r].next
               /\ states'[r] \in State /\ Ordered(states'[r])
               /\ states'[r].lastEvaluatedAt = in.at
               /\ states'[r].pendingSince = e.next.pendingSince
               /\ states'[r].consecutive = e.next.consecutive
               /\ states'[r].lastEvidenceAt = e.next.lastEvidenceAt
               /\ states'[r].lastKey = e.next.lastKey
               /\ Decisions(in)[r].opens = e.opens
               /\ Decisions(in)[r].resolves = e.resolves
<1> TAKE r \in Rules
<1> DEFINE st == states[r]
           d == Evaluate(r, in, st, r \in open)
<1>1. st \in State /\ st.lastEvaluatedAt \in Nat
  BY EngineAssumption DEF EngineInv, TypeOK, State
<1>2. Ordered(st)  BY DEF EngineInv, TimesInv, Ordered
<1>3. st.lastEvaluatedAt <= in.at
  BY <1>1 DEF InOrder, Input
<1>4. (r \in open) \in BOOLEAN  OBVIOUS
<1>5. Decisions(in)[r] = d  BY DEF Decisions
<1>6. /\ d \in Decision /\ Ordered(d.next) /\ d.next.lastEvaluatedAt = in.at
      /\ LET e == evalRule(r, in, st, r \in open)
         IN  /\ d.opens = e.opens /\ d.resolves = e.resolves
             /\ d.next.pendingSince = e.next.pendingSince
             /\ d.next.consecutive = e.next.consecutive
             /\ d.next.lastEvidenceAt = e.next.lastEvidenceAt
             /\ d.next.lastKey = e.next.lastKey
  BY <1>1, <1>2, <1>3, <1>4, EvaluateStamps
<1> HIDE DEF d
<1>7. states'[r] = d.next
  BY <1>1, <1>3, <1>5, <1>6 DEF Upsert, Input
<1>8. d.next \in State  BY <1>6 DEF Decision
<1> QED  BY <1>1, <1>2, <1>3, <1>5, <1>6, <1>7, <1>8

\* The offline alert opens and resolves with its count.
LEMMA OfflineKept ==
  ASSUME NEW in \in Input, NEW st \in State, NEW isOpen \in BOOLEAN,
         isOpen <=> st.consecutive >= 3,
         NEW e, e = evaluateLoggerOffline(in, st, isOpen)
  PROVE  (~isOpen /\ e.opens) \/ (isOpen /\ ~e.resolves)
           <=> e.next.consecutive >= 3
<1>1. CASE in.poll = "none" \/ in.at = st.lastEvidenceAt
  <2>1. e = Decide(st, FALSE, FALSE)  BY <1>1 DEF evaluateLoggerOffline
  <2> QED  BY <2>1 DEF Decide
<1>2. CASE in.poll = "ok" /\ in.at # st.lastEvidenceAt
  <2> DEFINE new == [st EXCEPT !.lastEvidenceAt = in.at, !.consecutive = 0,
                               !.pendingSince = 0]
  <2>1. e = Decide(new, FALSE, isOpen)
    BY <1>2 DEF evaluateLoggerOffline
  <2>2. new.consecutive = 0  BY DEF State
  <2> HIDE DEF new
  <2>3. e.next = new /\ e.opens = FALSE /\ e.resolves = isOpen
    BY <2>1 DEF Decide
  <2> QED  BY <2>2, <2>3
<1>3. CASE in.poll = "failed" /\ in.at # st.lastEvidenceAt
  <2> DEFINE since == IF st.consecutive = 0 THEN in.at ELSE st.pendingSince
             failed == [st EXCEPT !.lastEvidenceAt = in.at,
                          !.consecutive = st.consecutive + 1,
                          !.pendingSince = since]
  <2>1. e = Decide(failed, ~isOpen /\ failed.consecutive >= 3, FALSE)
    BY <1>3 DEF evaluateLoggerOffline, State
  <2> HIDE DEF since
  <2>2. failed.consecutive = st.consecutive + 1 /\ st.consecutive \in Nat
    BY DEF State
  <2> HIDE DEF failed
  <2>3. /\ e.next = failed /\ e.resolves = FALSE
        /\ e.opens = (~isOpen /\ failed.consecutive >= 3)
    BY <2>1 DEF Decide
  <2>4. CASE isOpen
    <3>1. st.consecutive >= 3  BY <2>4
    <3>2. failed.consecutive >= 3  BY <3>1, <2>2
    <3> QED  BY <3>2, <2>3, <2>4
  <2>5. CASE ~isOpen
    BY <2>2, <2>3, <2>5
  <2> QED  BY <2>4, <2>5
<1> QED  BY <1>1, <1>2, <1>3 DEF Input

\* What a rule with a duration decides of its condition: it opens when the
\* condition has lasted, and resolves only when it does not hold.
DecidesOnDuration(in, st, isOpen, duration, e) ==
  \E holds \in BOOLEAN :
    /\ e.next.pendingSince = Pending(in, st, holds).pendingSince
    /\ e.opens = (~isOpen /\ LastedFor(in, st, holds, duration))
    /\ e.resolves => ~holds

\* What has not lasted for a duration has lasted less.
LEMMA NotAsLong ==
  ASSUME NEW at \in Nat, NEW since \in Nat, NEW duration \in Nat,
         ~(at - since >= duration)
  PROVE  at - since < duration
OBVIOUS

\* A condition that is pending has lasted less than its duration, or is
\* reported; what resolves the alert also ends the condition.
LEMMA DurationKept ==
  ASSUME NEW in \in Input, NEW st \in State, NEW isOpen \in BOOLEAN,
         NEW duration \in Nat, NEW e,
         DecidesOnDuration(in, st, isOpen, duration, e),
         ~(~isOpen /\ e.opens), ~(isOpen /\ ~e.resolves),
         e.next.pendingSince # 0
  PROVE  in.at - e.next.pendingSince < duration
<1> DEFINE since == e.next.pendingSince
<1> PICK holds \in BOOLEAN :
      /\ since = Pending(in, st, holds).pendingSince
      /\ e.opens = (~isOpen /\ LastedFor(in, st, holds, duration))
      /\ e.resolves => ~holds
  BY DEF DecidesOnDuration
<1>1. since = IF ~holds THEN 0 ELSE IF st.pendingSince = 0 THEN in.at
              ELSE st.pendingSince
  BY DEF Pending, State
<1>2. holds /\ since \in Nat  BY <1>1 DEF State, Input
<1>3. ~isOpen /\ ~e.opens  BY <1>2
<1>4. ~(in.at - since >= duration)  BY <1>2, <1>3 DEF LastedFor
<1>5. in.at \in Nat  BY DEF Input
<1> QED  BY <1>2, <1>4, <1>5, NotAsLong

\* evaluateDuration decides like that.
LEMMA DurationRule ==
  ASSUME NEW in \in Input, NEW st \in State, NEW isOpen \in BOOLEAN,
         NEW outside \in BOOLEAN, NEW duration
  PROVE  DecidesOnDuration(in, st, isOpen, duration,
           evaluateDuration(in, st, isOpen, outside, duration))
<1> DEFINE holds == in.telemetry /\ outside
           e == evaluateDuration(in, st, isOpen, outside, duration)
<1>1. e = Decide(Pending(in, st, holds),
                 ~isOpen /\ LastedFor(in, st, holds, duration),
                 isOpen /\ in.telemetry /\ ~outside)
  BY DEF evaluateDuration
<1>2. holds \in BOOLEAN /\ (~outside => ~holds)  OBVIOUS
<1> HIDE DEF holds, e
<1>3. /\ e.next = Pending(in, st, holds)
      /\ e.opens = (~isOpen /\ LastedFor(in, st, holds, duration))
      /\ e.resolves = (isOpen /\ in.telemetry /\ ~outside)
  BY <1>1 DEF Decide
<1>4. DecidesOnDuration(in, st, isOpen, duration, e)
  BY <1>2, <1>3 DEF DecidesOnDuration
<1> QED  BY <1>4 DEF e

\* The three rules with a duration decide like that.
LEMMA DurationRules ==
  ASSUME NEW in \in Input, NEW st \in State, NEW isOpen \in BOOLEAN
  PROVE  /\ DecidesOnDuration(in, st, isOpen, ZeroGenerationFor,
              evalRule("zero_sunny_generation", in, st, isOpen))
         /\ DecidesOnDuration(in, st, isOpen, VoltageFor,
              evalRule("grid_voltage", in, st, isOpen))
         /\ DecidesOnDuration(in, st, isOpen, FrequencyFor,
              evalRule("grid_frequency", in, st, isOpen))
<1>1. DecidesOnDuration(in, st, isOpen, ZeroGenerationFor,
        evalRule("zero_sunny_generation", in, st, isOpen))
  <2> DEFINE holds == in.telemetry /\ in.sunny /\ ~in.fault /\ in.power <= 0
             e == evalRule("zero_sunny_generation", in, st, isOpen)
  <2>1. e = Decide(Pending(in, st, holds),
                   ~isOpen /\ LastedFor(in, st, holds, ZeroGenerationFor),
                   isOpen /\ in.telemetry /\ in.power > 0)
    BY DEF evalRule, evaluateZeroGeneration
  <2>2. holds \in BOOLEAN /\ (in.power > 0 => ~holds)  BY DEF Input
  <2> HIDE DEF holds, e
  <2>3. /\ e.next = Pending(in, st, holds)
        /\ e.opens = (~isOpen /\ LastedFor(in, st, holds, ZeroGenerationFor))
        /\ e.resolves = (isOpen /\ in.telemetry /\ in.power > 0)
    BY <2>1 DEF Decide
  <2>4. DecidesOnDuration(in, st, isOpen, ZeroGenerationFor, e)
    BY <2>2, <2>3 DEF DecidesOnDuration
  <2> QED  BY <2>4 DEF e
<1>2. DecidesOnDuration(in, st, isOpen, VoltageFor,
        evalRule("grid_voltage", in, st, isOpen))
  <2>1. evalRule("grid_voltage", in, st, isOpen)
          = evaluateDuration(in, st, isOpen, in.voltageOut, VoltageFor)
    BY DEF evalRule
  <2> QED  BY <2>1, DurationRule DEF Input
<1>3. DecidesOnDuration(in, st, isOpen, FrequencyFor,
        evalRule("grid_frequency", in, st, isOpen))
  <2>1. evalRule("grid_frequency", in, st, isOpen)
          = evaluateDuration(in, st, isOpen, in.frequencyOut, FrequencyFor)
    BY DEF evalRule
  <2> QED  BY <2>1, DurationRule DEF Input
<1> QED  BY <1>1, <1>2, <1>3

\* Days come in the order of their moments, and there are no more of them.
LEMMA DayOrder ==
  ASSUME NEW t \in Nat, NEW u \in Nat, t <= u
  PROVE  /\ t \div DayLength \in Nat /\ u \div DayLength \in Nat
         /\ t \div DayLength <= u \div DayLength
         /\ u \div DayLength <= u
BY EngineAssumption

\* What a transaction writes for an input in order.
Saves(in) ==
  /\ states' = [r \in Rules |-> Upsert(states[r], Decisions(in)[r].next)]
  /\ open' = {r \in Rules : \/ r \notin open /\ Decisions(in)[r].opens
                            \/ r \in open /\ ~Decisions(in)[r].resolves}
  /\ streak' = StreakAfter(in)
  /\ analysed' = analysed \cup ({in.day} \ {0})

\* The underproduction rule counts a day when it sees it for the first time.
LEMMA DaysKept ==
  ASSUME EngineInv, NEW in \in Input, DayFits(in), in.at <= now, InOrder(in),
         Saves(in)
  PROVE  /\ analysed' \subseteq 1 .. MaxNow /\ streak' \subseteq analysed'
         /\ DaysInv' /\ DaysCountedOnce'
<1> DEFINE st == states[U]
           d == Decisions(in)[U]
           e == evalRule(U, in, st, U \in open)
           known == st.lastKey # 0 /\ in.day <= st.lastKey
           towards == in.analysis = IF U \in open THEN "high" ELSE "low"
<1>1. U \in Rules  BY DEF U, Rules
<1>2. /\ st \in State /\ st.lastEvaluatedAt <= in.at
      /\ states'[U].lastEvaluatedAt = in.at
      /\ states'[U].consecutive = e.next.consecutive
      /\ states'[U].lastKey = e.next.lastKey
      /\ d.opens = e.opens /\ d.resolves = e.resolves
  BY <1>1, RowsAfter DEF Saves
<1>3. DecidesOnDays(in, st, U \in open, e)
  <2>1. e = evaluateUnderproduction(in, st, U \in open)
    BY DEF evalRule, U
  <2>2. (U \in open) \in BOOLEAN  OBVIOUS
  <2> QED  BY <2>1, <2>2, <1>2, UnderproductionDecides
<1>4. /\ in.at \in Nat /\ in.day \in Nat /\ st.lastKey \in Nat
      /\ st.lastEvaluatedAt \in Nat /\ st.consecutive \in Nat
      /\ now \in Nat /\ MaxNow \in Nat /\ in.at <= MaxNow
  BY <1>2, EngineAssumption DEF Input, State, EngineInv, TypeOK
<1>5. /\ st.lastEvaluatedAt \div DayLength \in Nat
      /\ in.at \div DayLength \in Nat
      /\ st.lastEvaluatedAt \div DayLength <= in.at \div DayLength
      /\ in.at \div DayLength <= in.at
  BY <1>2, <1>4, DayOrder
<1>6. /\ \A x \in analysed : x <= st.lastKey
      /\ st.lastKey # 0 => st.lastKey \in analysed
      /\ st.lastKey <= st.lastEvaluatedAt \div DayLength
      /\ st.consecutive = Cardinality(streak)
      /\ analysed \subseteq 1 .. MaxNow /\ streak \subseteq analysed
  BY DEF EngineInv, DaysInv, DaysCountedOnce, TypeOK, U
<1>7. streak' = IF d.opens \/ d.resolves THEN {}
                ELSE IF in.analysis = "none" \/ ~in.qualifies \/ in.day \in analysed
                THEN streak
                ELSE IF towards THEN streak \cup {in.day} ELSE {}
  BY DEF Saves, StreakAfter, U
<1>8. analysed' = analysed \cup ({in.day} \ {0})  BY DEF Saves
<1> SUFFICES /\ analysed' \subseteq 1 .. MaxNow /\ streak' \subseteq analysed'
             /\ \A x \in analysed' : x <= states'[U].lastKey
             /\ states'[U].lastKey # 0 => states'[U].lastKey \in analysed'
             /\ states'[U].lastKey <= in.at \div DayLength
             /\ states'[U].consecutive = Cardinality(streak')
  BY <1>2 DEF DaysInv, DaysCountedOnce, U
<1>9. CASE in.analysis = "none"
  <2>1. in.day = 0  BY <1>9 DEF DayFits
  <2>2. e.next = st /\ ~e.opens /\ ~e.resolves
    BY <1>3, <1>9 DEF DecidesOnDays
  <2>3. analysed' = analysed /\ streak' = streak
    BY <2>1, <2>2, <1>2, <1>7, <1>8, <1>9
  <2>4. st.lastKey <= in.at \div DayLength  BY <1>4, <1>5, <1>6
  <2> QED  BY <2>2, <2>3, <2>4, <1>2, <1>6
<1>10. CASE in.analysis # "none" /\ known
  <2>1. in.day > 0 /\ in.day = in.at \div DayLength  BY <1>10 DEF DayFits
  <2>2. e.next = st /\ ~e.opens /\ ~e.resolves
    BY <1>3, <1>10 DEF DecidesOnDays
  <2>3. st.lastKey <= in.at \div DayLength  BY <1>4, <1>5, <1>6
  <2>4. in.day = st.lastKey  BY <2>1, <2>3, <1>4, <1>10
  <2>5. in.day \in analysed  BY <2>4, <1>6, <1>10
  <2>6. analysed' = analysed /\ streak' = streak
    BY <2>2, <2>5, <1>2, <1>7, <1>8
  <2> QED  BY <2>2, <2>3, <2>6, <1>2, <1>6
<1>11. CASE in.analysis # "none" /\ ~known
  <2>1. in.day > 0 /\ in.day = in.at \div DayLength  BY <1>11 DEF DayFits
  <2>2. \A x \in analysed : x <= in.day /\ x # in.day
    <3> TAKE x \in analysed
    <3>1. x \in Nat /\ x >= 1 /\ x <= st.lastKey  BY <1>4, <1>6
    <3> QED  BY <3>1, <2>1, <1>4, <1>11
  <2>3. in.day \notin analysed  BY <2>2
  <2>4. in.day # 0 /\ in.day \in 1 .. MaxNow  BY <2>1, <1>4, <1>5
  <2>5. analysed' = analysed \cup {in.day}  BY <2>4, <1>8
  <2>6. states'[U].lastKey = in.day
    BY <1>2, <1>3, <1>11 DEF DecidesOnDays
  <2>7. in.day <= in.day /\ in.day <= in.at \div DayLength  BY <2>1, <1>4
  <2>8. IsFiniteSet(streak)
    <3>1. IsFiniteSet(1 .. MaxNow)  BY FS_Interval, <1>4
    <3> QED  BY <3>1, <1>6, FS_Subset
  <2>9. streak' \subseteq analysed' /\ states'[U].consecutive = Cardinality(streak')
    <3>1. CASE ~in.qualifies
      <4>1. e.next.consecutive = st.consecutive /\ ~e.opens /\ ~e.resolves
        BY <1>3, <1>11, <3>1 DEF DecidesOnDays
      <4>2. streak' = streak  BY <4>1, <3>1, <1>2, <1>7
      <4> QED  BY <4>1, <4>2, <2>5, <1>2, <1>6
    <3>2. CASE in.qualifies
      <4>1. e.next.consecutive = IF e.opens \/ e.resolves \/ ~towards THEN 0
                                 ELSE st.consecutive + 1
        BY <1>3, <1>11, <3>2 DEF DecidesOnDays
      <4>2. streak' = IF e.opens \/ e.resolves \/ ~towards THEN {}
                      ELSE streak \cup {in.day}
        BY <1>2, <1>7, <1>11, <2>3, <3>2
      <4>3. Cardinality({}) = 0  BY FS_EmptySet
      <4>4. Cardinality(streak \cup {in.day}) = st.consecutive + 1
        BY <2>3, <2>8, <1>6, FS_AddElement
      <4> QED  BY <4>1, <4>2, <4>3, <4>4, <2>5, <1>2, <1>6
    <3> QED  BY <3>1, <3>2
  <2> QED  BY <2>2, <2>4, <2>5, <2>6, <2>7, <2>9, <1>6
<1> QED  BY <1>9, <1>10, <1>11

\* The alert that reports the logger offline agrees with its count.
LEMMA OfflineAfter ==
  ASSUME EngineInv, NEW in \in Input, InOrder(in), Saves(in)
  PROVE  OfflineMatchesCount'
<1> DEFINE r == "logger_offline"
           e == evalRule(r, in, states[r], r \in open)
<1>1. r \in Rules  BY DEF Rules
<1>2. /\ states[r] \in State /\ states'[r].consecutive = e.next.consecutive
      /\ Decisions(in)[r].opens = e.opens
      /\ Decisions(in)[r].resolves = e.resolves
  BY <1>1, RowsAfter DEF Saves
<1>3. e = evaluateLoggerOffline(in, states[r], r \in open)  BY DEF evalRule
<1>4. (r \in open) \in BOOLEAN /\ (r \in open <=> states[r].consecutive >= 3)
  BY DEF EngineInv, OfflineMatchesCount
<1>5. (~(r \in open) /\ e.opens) \/ (r \in open /\ ~e.resolves)
        <=> e.next.consecutive >= 3
  BY <1>2, <1>3, <1>4, OfflineKept
<1>6. r \in open' <=> (~(r \in open) /\ e.opens) \/ (r \in open /\ ~e.resolves)
  BY <1>1, <1>2 DEF Saves
<1> QED  BY <1>2, <1>5, <1>6 DEF OfflineMatchesCount

\* No alert on a lasting condition is late.
LEMMA NothingOverdueAfter ==
  ASSUME EngineInv, NEW in \in Input, InOrder(in), Saves(in)
  PROVE  NothingOverdue'
<1>1. ASSUME NEW r \in Rules, NEW duration \in Nat,
             DecidesOnDuration(in, states[r], r \in open, duration,
                               evalRule(r, in, states[r], r \in open))
      PROVE  NotOverdue(r, duration)'
  <2> DEFINE e == evalRule(r, in, states[r], r \in open)
  <2>1. /\ states[r] \in State /\ states'[r].lastEvaluatedAt = in.at
        /\ states'[r].pendingSince = e.next.pendingSince
        /\ Decisions(in)[r].opens = e.opens
        /\ Decisions(in)[r].resolves = e.resolves
    BY RowsAfter DEF Saves
  <2>2. r \in open' <=> (~(r \in open) /\ e.opens) \/ (r \in open /\ ~e.resolves)
    BY <2>1 DEF Saves
  <2>3. (r \in open) \in BOOLEAN  OBVIOUS
  <2>4. DecidesOnDuration(in, states[r], r \in open, duration, e)  BY <1>1
  <2> HIDE DEF e
  <2>5. ASSUME r \notin open', states'[r].pendingSince # 0
        PROVE  in.at - e.next.pendingSince < duration
    BY <2>1, <2>2, <2>3, <2>4, <2>5, DurationKept
  <2> QED  BY <2>1, <2>5 DEF NotOverdue
<1>2. {"zero_sunny_generation", "grid_voltage", "grid_frequency"} \subseteq Rules
  BY DEF Rules
<1>3. \A r \in Rules : states[r] \in State /\ (r \in open) \in BOOLEAN
  BY RowsAfter DEF Saves
<1>4. {ZeroGenerationFor, VoltageFor, FrequencyFor} \subseteq Nat
  BY RuleConfigAssumption
<1>5. NotOverdue("zero_sunny_generation", ZeroGenerationFor)'
  BY <1>1, <1>2, <1>3, <1>4, DurationRules
<1>6. NotOverdue("grid_voltage", VoltageFor)'
  BY <1>1, <1>2, <1>3, <1>4, DurationRules
<1>7. NotOverdue("grid_frequency", FrequencyFor)'
  BY <1>1, <1>2, <1>3, <1>4, DurationRules
<1> QED  BY <1>5, <1>6, <1>7 DEF NothingOverdue

\* A transaction keeps the invariant, whether it saves or refuses.
LEMMA EvaluateInputKeeps ==
  ASSUME EngineInv, NEW in \in Input, DayFits(in), in.at <= now,
         EvaluateInput(in), now' = now, observed' \in 0 .. now, EventsType'
  PROVE  EngineInv'
<1> USE EngineAssumption DEF EngineInv
<1>2. now' \in 1 .. MaxNow /\ observed' <= now' /\ now \in 1 .. MaxNow
      /\ observed' \in 0 .. MaxNow
  BY DEF TypeOK
<1>3. CASE Accepted(in)
  <2>1. InOrder(in) /\ Saves(in)
    BY <1>3 DEF EvaluateInput, Accepted, Saves
  <2>2. \A r \in Rules : /\ states'[r] \in State /\ Ordered(states'[r])
                         /\ states'[r].lastEvaluatedAt = in.at
    BY <2>1, RowsAfter DEF Saves
  <2>3. in.at \in 0 .. MaxNow /\ in.at <= now'
    BY DEF Input, TypeOK
  <2>4. states' = [r \in Rules |-> states'[r]]
    BY <2>1 DEF Saves
  <2>5. states' \in [Rules -> [pendingSince : Nat, lastEvidenceAt : Nat,
                               consecutive : Nat, lastKey : Nat,
                               lastEvaluatedAt : 0 .. MaxNow]]
    <3>1. \A r \in Rules : states'[r] \in
            [pendingSince : Nat, lastEvidenceAt : Nat, consecutive : Nat,
             lastKey : Nat, lastEvaluatedAt : 0 .. MaxNow]
      BY <2>2, <2>3 DEF State
    <3> QED  BY <2>4, <3>1
  <2>6. open' \subseteq Rules  BY <2>1 DEF Saves
  <2>7. /\ analysed' \subseteq 1 .. MaxNow /\ streak' \subseteq analysed'
        /\ DaysInv' /\ DaysCountedOnce'
    BY <2>1, DaysKept
  <2>8. TypeOK'
    BY <1>2, <2>5, <2>6, <2>7 DEF TypeOK
  <2>9. TimesInv'
    BY <1>2, <2>2, <2>3 DEF TimesInv, Ordered
  <2> QED  BY <2>1, <2>7, <2>8, <2>9, OfflineAfter, NothingOverdueAfter
<1>4. CASE ~Accepted(in)
  <2>1. UNCHANGED <<states, open, analysed, streak>>
    BY <1>4 DEF EvaluateInput
  <2> QED  BY <1>2, <2>1 DEF TypeOK, TimesInv, OfflineMatchesCount,
              NothingOverdue, NotOverdue, DaysInv, DaysCountedOnce, U
<1> QED  BY <1>3, <1>4

-----------------------------------------------------------------------------
(* What the engine has heard of the logger *)

L == "logger_offline"

\* The row of the offline rule says what was heard since the last snapshot: the
\* time of the newest event and the number of those without telemetry.
HeardInv ==
  /\ IsFiniteSet(evidence)
  /\ \A e \in evidence : e.at <= states[L].lastEvidenceAt
  /\ states[L].lastEvidenceAt # 0 =>
       \E e \in evidence : e.at = states[L].lastEvidenceAt
  /\ states[L].consecutive = Cardinality(Silence)

\* What the offline rule makes of its row.
LEMMA OfflineCounts ==
  ASSUME NEW in \in Input, NEW st \in State, NEW isOpen \in BOOLEAN
  PROVE  LET new == evaluateLoggerOffline(in, st, isOpen).next
         IN  /\ in.poll = "none" \/ in.at = st.lastEvidenceAt => new = st
             /\ in.poll # "none" /\ in.at # st.lastEvidenceAt =>
                  /\ new.lastEvidenceAt = in.at
                  /\ new.consecutive = IF in.poll = "ok" THEN 0
                                       ELSE st.consecutive + 1
<1>1. CASE in.poll = "none" \/ in.at = st.lastEvidenceAt
  BY <1>1 DEF evaluateLoggerOffline, Decide
<1>2. CASE in.poll = "ok" /\ in.at # st.lastEvidenceAt
  BY <1>2 DEF evaluateLoggerOffline, Decide, State
<1>3. CASE in.poll = "failed" /\ in.at # st.lastEvidenceAt
  <2> DEFINE since == IF st.consecutive = 0 THEN in.at ELSE st.pendingSince
             failed == [st EXCEPT !.lastEvidenceAt = in.at,
                          !.consecutive = st.consecutive + 1,
                          !.pendingSince = since]
  <2>1. evaluateLoggerOffline(in, st, isOpen) =
          Decide(failed, ~isOpen /\ failed.consecutive >= 3, FALSE)
    BY <1>3 DEF evaluateLoggerOffline, State
  <2> HIDE DEF since
  <2>2. failed.consecutive = st.consecutive + 1 /\ failed.lastEvidenceAt = in.at
    BY DEF State
  <2> HIDE DEF failed
  <2> QED  BY <1>3, <2>1, <2>2 DEF Decide
<1> QED  BY <1>1, <1>2, <1>3 DEF Input

\* ... in a transaction that saves.
LEMMA OfflineRow ==
  ASSUME EngineInv, NEW in \in Input, EvaluateInput(in), Accepted(in)
  PROVE  LET st == states[L]
         IN  /\ st \in State /\ st.lastEvidenceAt <= in.at
             /\ in.poll = "none" \/ in.at = st.lastEvidenceAt =>
                  /\ states'[L].lastEvidenceAt = st.lastEvidenceAt
                  /\ states'[L].consecutive = st.consecutive
             /\ in.poll # "none" /\ in.at # st.lastEvidenceAt =>
                  /\ states'[L].lastEvidenceAt = in.at
                  /\ states'[L].consecutive = IF in.poll = "ok" THEN 0
                                              ELSE st.consecutive + 1
<1> DEFINE e == evalRule(L, in, states[L], L \in open)
           f == evaluateLoggerOffline(in, states[L], L \in open)
<1>1. L \in Rules  BY DEF L, Rules
<1>2. InOrder(in) /\ Saves(in)  BY DEF EvaluateInput, Accepted, Saves
<1>3. /\ states[L] \in State /\ Ordered(states[L])
      /\ states[L].lastEvaluatedAt <= in.at
      /\ states'[L].consecutive = e.next.consecutive
      /\ states'[L].lastEvidenceAt = e.next.lastEvidenceAt
  BY <1>1, <1>2, RowsAfter DEF Saves
<1>4. e = f  BY DEF evalRule, L
<1>5. (L \in open) \in BOOLEAN  OBVIOUS
<1>6. states[L].lastEvidenceAt <= in.at  BY <1>3 DEF Ordered, State, Input
<1>7. /\ in.poll = "none" \/ in.at = states[L].lastEvidenceAt =>
           f.next = states[L]
      /\ in.poll # "none" /\ in.at # states[L].lastEvidenceAt =>
           /\ f.next.lastEvidenceAt = in.at
           /\ f.next.consecutive = IF in.poll = "ok" THEN 0
                                   ELSE states[L].consecutive + 1
  BY <1>3, <1>5, OfflineCounts
<1> HIDE DEF e, f
<1> QED  BY <1>3, <1>4, <1>6, <1>7

\* An event of the collector is heard once for its time.
LEMMA HeardKeeps ==
  ASSUME EngineInv, HeardInv, NEW in \in Input, EvaluateInput(in),
         NEW kind \in {"snapshot", "poll", "notice"}, Heard(kind, in),
         in.poll = IF kind = "snapshot" THEN "ok" ELSE "failed"
  PROVE  HeardInv'
<1> DEFINE st == states[L]
           new == [at |-> in.at, kind |-> kind]
<1>1. CASE ~Accepted(in)
  BY <1>1 DEF EvaluateInput, Heard, HeardInv, Silence
<1>2. CASE Accepted(in)
  <2>1. /\ st \in State /\ st.lastEvidenceAt <= in.at
        /\ in.at = st.lastEvidenceAt =>
             /\ states'[L].lastEvidenceAt = st.lastEvidenceAt
             /\ states'[L].consecutive = st.consecutive
        /\ in.at # st.lastEvidenceAt =>
             /\ states'[L].lastEvidenceAt = in.at
             /\ states'[L].consecutive = IF kind = "snapshot" THEN 0
                                         ELSE st.consecutive + 1
    BY <1>2, OfflineRow
  <2>2. in.at \in Nat /\ in.at # 0 /\ st.lastEvidenceAt \in Nat
        /\ st.consecutive \in Nat
    BY <2>1 DEF Input, State
  <2>3. \A e \in evidence : e.at \in Nat
    BY EngineAssumption DEF EngineInv, TypeOK, EventsType
  <2>4. (\E e \in evidence : e.at = in.at) <=> in.at = st.lastEvidenceAt
    BY <2>1, <2>2, <2>3 DEF HeardInv
  <2>5. CASE in.at = st.lastEvidenceAt
    BY <1>2, <2>1, <2>4, <2>5 DEF Heard, HeardInv, Silence
  <2>6. CASE in.at # st.lastEvidenceAt /\ kind = "snapshot"
    <3>1. evidence' = {new}  BY <1>2, <2>4, <2>6 DEF Heard
    <3>2. Silence' = {}  BY <3>1, <2>6 DEF Silence
    <3>3. IsFiniteSet(evidence') /\ Cardinality(Silence') = 0
      BY <3>1, <3>2, FS_EmptySet, FS_Singleton
    <3>4. /\ \A x \in evidence' : x.at <= in.at
          /\ \E x \in evidence' : x.at = in.at
      BY <2>2, <3>1
    <3> QED  BY <2>1, <2>6, <3>3, <3>4 DEF HeardInv
  <2>7. CASE in.at # st.lastEvidenceAt /\ kind # "snapshot"
    <3>1. evidence' = evidence \cup {new} /\ new \notin evidence
      BY <1>2, <2>4, <2>7 DEF Heard
    <3>2. Silence' = Silence \cup {new} /\ new \notin Silence
      BY <3>1, <2>7 DEF Silence
    <3>3. IsFiniteSet(Silence) /\ IsFiniteSet(evidence')
      BY <3>1, FS_Subset, FS_AddElement DEF HeardInv, Silence
    <3>4. Cardinality(Silence') = Cardinality(Silence) + 1
      BY <3>2, <3>3, FS_AddElement
    <3>5. \A e \in evidence' : e.at <= in.at
      BY <2>1, <2>2, <2>3, <3>1 DEF HeardInv
    <3> QED  BY <2>1, <2>7, <3>1, <3>3, <3>4, <3>5 DEF HeardInv
  <2> QED  BY <2>5, <2>6, <2>7
<1> QED  BY <1>1, <1>2

\* The daily analysis says nothing of the logger.
LEMMA NothingHeard ==
  ASSUME EngineInv, HeardInv, NEW in \in Input, EvaluateInput(in),
         in.poll = "none", evidence' = evidence
  PROVE  HeardInv'
<1>1. CASE ~Accepted(in)  BY <1>1 DEF EvaluateInput, HeardInv, Silence
<1>2. CASE Accepted(in)  BY <1>2, OfflineRow DEF HeardInv, Silence
<1> QED  BY <1>1, <1>2

-----------------------------------------------------------------------------
(* The specification *)

\* The tables are empty at first.
LEMMA InitEngine == Init => EngineInv
<1> SUFFICES ASSUME Init PROVE EngineInv
  OBVIOUS
<1> USE EngineAssumption DEF Init, ZeroState
<1>1. TypeOK  BY DEF TypeOK, EventsType
<1>2. TimesInv  BY DEF TimesInv
<1>3. OfflineMatchesCount  BY DEF OfflineMatchesCount, Rules
<1>4. NothingOverdue  BY DEF NothingOverdue, NotOverdue, Rules
<1>5. 0 \div DayLength \in Nat  BY DayOrder
<1>6. DaysInv  BY <1>5 DEF DaysInv, Rules, U
<1>7. DaysCountedOnce  BY FS_EmptySet DEF DaysCountedOnce, Rules
<1> QED  BY <1>1, <1>2, <1>3, <1>4, <1>6, <1>7 DEF EngineInv

\* The zero input.
LEMMA NoInputFields ==
  /\ NoInput \in [at : Nat, poll : {"none", "ok", "failed"},
       telemetry : BOOLEAN, lastTelemetryAt : Nat, power : {-1, 0, 1},
       sunny : BOOLEAN, fault : BOOLEAN, voltageOut : BOOLEAN,
       frequencyOut : BOOLEAN, analysis : {"none", "low", "middle", "high"},
       qualifies : BOOLEAN, day : Nat]
  /\ NoInput.poll = "none" /\ NoInput.telemetry = FALSE
  /\ NoInput.analysis = "none" /\ NoInput.day = 0
BY DEF NoInput

\* A snapshot gives the engine an input of its type, without an analysis.
LEMMA SnapshotFits ==
  ASSUME NEW at \in Nat \ {0}, NEW report \in Reports
  PROVE  LET in == SnapshotInput(at, report)
         IN  in \in Input /\ DayFits(in) /\ in.at = at /\ in.poll = "ok"
<1>1. /\ report.power \in {-1, 0, 1} /\ report.sunny \in BOOLEAN
      /\ report.fault \in BOOLEAN /\ report.voltageOut \in BOOLEAN
      /\ report.frequencyOut \in BOOLEAN
  BY EngineAssumption
<1> QED  BY <1>1, NoInputFields DEF SnapshotInput, Input, DayFits

\* An input without telemetry and without a poll that succeeded.
Blind(in) == in.poll # "ok" /\ in.telemetry = FALSE

\* A failed poll gives such an input.
LEMMA StateFits ==
  ASSUME NEW lastSuccess \in Nat, now \in Nat \ {0}
  PROVE  /\ StateInput(lastSuccess) \in Input
         /\ DayFits(StateInput(lastSuccess))
         /\ StateInput(lastSuccess).at = now
         /\ StateInput(lastSuccess).poll = "failed"
         /\ Blind(StateInput(lastSuccess))
BY NoInputFields DEF StateInput, Input, DayFits, Blind

\* What a daily job may be given: a start on a day that has one before it.
DailyArguments(start, ratio, qualifies) ==
  /\ start \in Nat \ {0} /\ start \div DayLength > 0
  /\ ratio \in {"low", "middle", "high"} /\ qualifies \in BOOLEAN

\* The daily job's input names its day.
LEMMA DailyFits ==
  ASSUME NEW start, NEW ratio, NEW qualifies,
         DailyArguments(start, ratio, qualifies)
  PROVE  /\ DailyInput(start, ratio, qualifies) \in Input
         /\ DayFits(DailyInput(start, ratio, qualifies))
         /\ DailyInput(start, ratio, qualifies).at = start
         /\ DailyInput(start, ratio, qualifies).poll = "none"
         /\ Blind(DailyInput(start, ratio, qualifies))
<1> USE DEF DailyArguments
<1>1. start \div DayLength \in Nat /\ ratio # "none"  BY DayOrder
<1> QED  BY <1>1, NoInputFields DEF DailyInput, Input, DayFits, Blind

\* What can be heard.
Events == [at : 1 .. MaxNow, kind : {"snapshot", "poll", "notice"}]

\* What is heard has the time of its input.
LEMMA HeardTyped ==
  ASSUME EngineInv, NEW kind \in {"snapshot", "poll", "notice"}, NEW in,
         in.at \in 1 .. MaxNow, Heard(kind, in)
  PROVE  evidence' \subseteq Events
BY DEF EngineInv, TypeOK, EventsType, Heard, Events

\* Every step keeps the invariant.
LEMMA NextEngine ==
  ASSUME EngineInv, [Next]_vars
  PROVE  EngineInv'
<1> USE DEF EngineInv
<1>1. now \in 1 .. MaxNow /\ now \in Nat /\ MaxNow \in Nat \ {0}
      /\ observed \in 0 .. now
  BY EngineAssumption DEF TypeOK, EventsType, TimesInv
<1>2. CASE Tick
  <2>1. /\ now' = now + 1 /\ now' \in 1 .. MaxNow
        /\ UNCHANGED <<observed, states, open, noticed, analysed, streak, evidence>>
    BY <1>1, <1>2 DEF Tick
  <2>2. TypeOK'  BY <2>1 DEF TypeOK, EventsType
  <2>3. TimesInv'
    <3>1. \A r \in Rules : states[r].lastEvaluatedAt \in Nat
      BY <1>1 DEF TypeOK
    <3> QED  BY <1>1, <2>1, <3>1 DEF TimesInv
  <2> QED  BY <2>1, <2>2, <2>3 DEF OfflineMatchesCount, NothingOverdue,
              NotOverdue, DaysInv, DaysCountedOnce, U
<1>3. ASSUME NEW at \in 1 .. now, NEW report \in Reports,
             SnapshotEvent(at, report)
      PROVE  EngineInv'
  <2>1. observed' \in 0 .. now /\ now' = now
    BY <1>1, <1>3 DEF SnapshotEvent
  <2>2. at \in Nat \ {0} /\ at <= now  BY <1>1
  <2>3. EventsType'
    <3>1. evidence' \subseteq Events
      BY <1>1, <1>3, <2>2, SnapshotFits, HeardTyped DEF SnapshotEvent
    <3>2. noticed' \in 0 .. MaxNow
      BY <1>3 DEF SnapshotEvent, TypeOK, EventsType
    <3> QED  BY <1>1, <2>1, <3>1, <3>2 DEF EventsType, Events
  <2> QED  BY <1>3, <2>1, <2>2, <2>3, SnapshotFits, EvaluateInputKeeps DEF SnapshotEvent
<1>4. ASSUME NEW kind \in {"poll", "notice"}, NEW lastSuccess \in 0 .. now,
             StateEvent(kind, lastSuccess)
      PROVE  EngineInv'
  <2>1. observed' = observed /\ observed' \in 0 .. now /\ now' = now
    BY <1>1, <1>4 DEF StateEvent
  <2>2. lastSuccess \in Nat /\ now \in Nat \ {0} /\ now <= now  BY <1>1
  <2>3. EventsType'
    <3>1. evidence' \subseteq Events
      BY <1>1, <1>4, <2>2, StateFits, HeardTyped DEF StateEvent
    <3>2. noticed' \in 0 .. MaxNow
      BY <1>1, <1>4 DEF StateEvent, TypeOK, EventsType
    <3> QED  BY <1>1, <2>1, <3>1, <3>2 DEF EventsType, Events
  <2> QED  BY <1>4, <2>1, <2>2, <2>3, StateFits, EvaluateInputKeeps DEF StateEvent
<1>5. ASSUME NEW start \in 1 .. now, NEW ratio \in {"low", "middle", "high"},
             NEW qualifies \in BOOLEAN, DailyEvaluation(start, ratio, qualifies)
      PROVE  EngineInv'
  <2>1. observed' \in 0 .. now /\ now' = now /\ start \div DayLength > 0
    BY <1>1, <1>5 DEF DailyEvaluation
  <2>5. EventsType'
    BY <1>5 DEF DailyEvaluation, TypeOK, EventsType
  <2>2. DailyArguments(start, ratio, qualifies) /\ start <= now
    BY <1>1, <2>1 DEF DailyArguments
  <2> DEFINE in == DailyInput(start, ratio, qualifies)
  <2>3. in \in Input /\ DayFits(in) /\ in.at = start
    BY <2>2, DailyFits
  <2>4. EvaluateInput(in)  BY <1>5 DEF DailyEvaluation
  <2> HIDE DEF in
  <2> QED  BY <2>1, <2>2, <2>3, <2>4, <2>5, EvaluateInputKeeps
<1>6. CASE ChangeTimezone
  <2>1. /\ states' = [states EXCEPT ![U] = ZeroState]
        /\ open' = open \ {U} /\ analysed' = {} /\ streak' = {}
        /\ UNCHANGED <<now, observed, noticed, evidence>>
    BY <1>6 DEF ChangeTimezone, U
  <2>2. U \in Rules /\ U \notin {"logger_offline", "zero_sunny_generation",
                                 "grid_voltage", "grid_frequency"}
        /\ {"logger_offline", "zero_sunny_generation", "grid_voltage",
            "grid_frequency"} \subseteq Rules
    BY DEF U, Rules
  <2>3. states'[U] = ZeroState /\ \A r \in Rules \ {U} : states'[r] = states[r]
    BY <2>1, <2>2 DEF TypeOK
  <2>4. TypeOK'
    <3>1. ZeroState \in [pendingSince : Nat, lastEvidenceAt : Nat,
                         consecutive : Nat, lastKey : Nat,
                         lastEvaluatedAt : 0 .. MaxNow]
      BY <1>1 DEF ZeroState
    <3> QED  BY <2>1, <3>1 DEF TypeOK, EventsType
  <2>5. TimesInv'
    BY <1>1, <2>1, <2>3 DEF TimesInv, ZeroState
  <2>6. OfflineMatchesCount'
    BY <2>1, <2>2, <2>3 DEF OfflineMatchesCount
  <2>7. NothingOverdue'
    BY <2>1, <2>2, <2>3 DEF NothingOverdue, NotOverdue
  <2>8. 0 \div DayLength \in Nat  BY DayOrder
  <2>9. DaysInv'
    BY <2>1, <2>3, <2>8 DEF DaysInv, ZeroState
  <2>10. DaysCountedOnce'
    BY <2>1, <2>3, FS_EmptySet DEF DaysCountedOnce, ZeroState, U
  <2> QED  BY <2>4, <2>5, <2>6, <2>7, <2>9, <2>10
<1>7. CASE UNCHANGED vars
  BY <1>7 DEF vars, TypeOK, EventsType, TimesInv, OfflineMatchesCount, NothingOverdue,
              NotOverdue, DaysInv, DaysCountedOnce, U
<1> QED  BY <1>2, <1>3, <1>4, <1>5, <1>6, <1>7 DEF Next

\* ... and what the engine has heard stays in its row.
LEMMA NextHeard ==
  ASSUME EngineInv, HeardInv, [Next]_vars
  PROVE  HeardInv'
<1>1. now \in Nat \ {0} /\ L \in Rules /\ L # U
  BY EngineAssumption DEF EngineInv, TypeOK, L, U, Rules
<1>2. CASE Tick \/ UNCHANGED vars
  BY <1>2 DEF Tick, vars, HeardInv, Silence
<1>3. ASSUME NEW at \in 1 .. now, NEW report \in Reports, SnapshotEvent(at, report)
      PROVE  HeardInv'
  <2> DEFINE in == SnapshotInput(at, report)
  <2>1. in \in Input /\ in.poll = "ok"  BY <1>1, SnapshotFits
  <2>2. EvaluateInput(in) /\ Heard("snapshot", in)  BY <1>3 DEF SnapshotEvent
  <2> HIDE DEF in
  <2> QED  BY <2>1, <2>2, HeardKeeps
<1>4. ASSUME NEW kind \in {"poll", "notice"}, NEW lastSuccess \in 0 .. now,
             StateEvent(kind, lastSuccess)
      PROVE  HeardInv'
  <2> DEFINE in == StateInput(lastSuccess)
  <2>1. in \in Input /\ in.poll = "failed"  BY <1>1, StateFits
  <2>2. EvaluateInput(in) /\ Heard(kind, in)  BY <1>4 DEF StateEvent
  <2> HIDE DEF in
  <2> QED  BY <2>1, <2>2, HeardKeeps
<1>5. ASSUME NEW start \in 1 .. now, NEW ratio \in {"low", "middle", "high"},
             NEW qualifies \in BOOLEAN, DailyEvaluation(start, ratio, qualifies)
      PROVE  HeardInv'
  <2> DEFINE in == DailyInput(start, ratio, qualifies)
  <2>1. DailyArguments(start, ratio, qualifies)
    BY <1>1, <1>5 DEF DailyArguments, DailyEvaluation
  <2>2. in \in Input /\ in.poll = "none"  BY <2>1, DailyFits
  <2>3. EvaluateInput(in) /\ evidence' = evidence  BY <1>5 DEF DailyEvaluation
  <2> HIDE DEF in
  <2> QED  BY <2>2, <2>3, NothingHeard
<1>6. CASE ChangeTimezone
  <2>1. states'[L] = states[L] /\ evidence' = evidence
    BY <1>1, <1>6 DEF ChangeTimezone, EngineInv, TypeOK, U
  <2> QED  BY <2>1 DEF HeardInv, Silence
<1> QED  BY <1>2, <1>3, <1>4, <1>5, <1>6 DEF Next

\* The invariant of the engine holds for ever.
LEMMA EngineInductive == Spec => []EngineInv
<1>1. EngineInv /\ [Next]_vars => EngineInv'  BY NextEngine
<1> QED  BY <1>1, InitEngine, PTL DEF Spec

\* Whatever is repeated, refused, evaluated late or reset, the two tables stay
\* fit for the next evaluation: rows pass validateAlertState, the logger is
\* reported offline exactly after three polls or stale notices since the last
\* snapshot, and the underproduction rule counts distinct days.
THEOREM TablesStaySound == Spec => []StatesSound
<1>1. Init => HeardInv
  BY FS_EmptySet DEF Init, HeardInv, Silence, L, Rules, ZeroState
<1>2. EngineInv /\ HeardInv /\ [Next]_vars => HeardInv'  BY NextHeard
<1>3. EngineInv /\ HeardInv => OfflineIsSilence
  <2> SUFFICES ASSUME EngineInv, HeardInv PROVE OfflineIsSilence  OBVIOUS
  <2>1. IsFiniteSet(Silence) /\ FailedPolls \subseteq Silence
    BY FS_Subset DEF HeardInv, Silence, FailedPolls
  <2>2. /\ Cardinality(FailedPolls) <= Cardinality(Silence)
        /\ Cardinality(FailedPolls) \in Nat /\ Cardinality(Silence) \in Nat
    BY <2>1, FS_Subset, FS_CardinalityType
  <2>3. L \in open <=> Cardinality(Silence) >= 3
    BY DEF EngineInv, OfflineMatchesCount, HeardInv, L
  <2> QED  BY <2>2, <2>3 DEF OfflineIsSilence, L
<1>4. EngineInv /\ OfflineIsSilence => StatesSound
  BY DEF EngineInv, StatesSound, TimesInv, StatesReloadable, ValidState, TypeOK
<1> QED  BY <1>1, <1>2, <1>3, <1>4, EngineInductive, PTL DEF Spec

\* No alert on a lasting condition is late: while it is closed the condition
\* has been pending for less than its duration (evaluateDuration,
\* evaluateZeroGeneration).
THEOREM NeverOverdue == Spec => []NothingOverdue
<1>1. EngineInv => NothingOverdue  BY DEF EngineInv
<1> QED  BY <1>1, EngineInductive, PTL

\* On such an input no rule resolves but those on the day and on the age of the
\* telemetry.
LEMMA BlindResolvesNothing ==
  ASSUME NEW in \in Input, NEW st, NEW isOpen \in BOOLEAN,
         NEW r \in Rules \ {U, "telemetry_stale"},
         Blind(in)
  PROVE  ~Evaluate(r, in, st, isOpen).resolves
<1> USE DEF Blind
<1>1. ~evalRule(r, in, st, isOpen).resolves
  <2>1. CASE r = "logger_offline"
    <3>1. evalRule(r, in, st, isOpen) = evaluateLoggerOffline(in, st, isOpen)
      BY <2>1 DEF evalRule
    <3>2. CASE in.poll = "none" \/ in.at = st.lastEvidenceAt
      BY <3>1, <3>2 DEF evaluateLoggerOffline, Decide
    <3>3. CASE in.poll = "failed" /\ in.at # st.lastEvidenceAt
      BY <3>1, <3>3 DEF evaluateLoggerOffline, Decide
    <3> QED  BY <3>2, <3>3 DEF Input
  <2>2. CASE r = "inverter_fault"
    BY <2>2 DEF evalRule, evaluateInverterFault, Decide
  <2>3. CASE r = "zero_sunny_generation"
    BY <2>3 DEF evalRule, evaluateZeroGeneration, Decide
  <2>4. CASE r = "grid_voltage"
    BY <2>4 DEF evalRule, evaluateDuration, Decide
  <2>5. CASE r = "grid_frequency"
    BY <2>5 DEF evalRule, evaluateDuration, Decide
  <2> QED  BY <2>1, <2>2, <2>3, <2>4, <2>5 DEF Rules, U
<1>2. Evaluate(r, in, st, isOpen).resolves = evalRule(r, in, st, isOpen).resolves
  BY DEF Evaluate
<1> QED  BY <1>1, <1>2

\* Missing data is not recovery: an alert about what the inverter reports is
\* resolved only by a fresh snapshot (rules.go), never by a failed poll, a
\* daily job, a change of the timezone or an input that is refused.
THEOREM OnlyTelemetryResolves == Spec => ResolvedByTelemetry
<1> DEFINE Step == \A r \in open \ open' :
              r \notin {"persistent_underproduction", "telemetry_stale"}
                => observed' > observed
<1>1. ASSUME EngineInv, [Next]_vars
      PROVE  Step
  <2> SUFFICES ASSUME NEW r \in open \ open', r \notin {U, "telemetry_stale"}
               PROVE  observed' > observed
    BY DEF U
  <2>1. r \in Rules /\ now \in Nat \ {0}
    BY <1>1, EngineAssumption DEF EngineInv, TypeOK
  <2>2. ASSUME NEW in, EvaluateInput(in)
        PROVE  Evaluate(r, in, states[r], r \in open).resolves
    BY <2>1, <2>2 DEF EvaluateInput, Decisions
  <2>3. CASE Tick \/ UNCHANGED vars
    BY <2>3 DEF Tick, vars
  <2>4. ASSUME NEW at, NEW report, SnapshotEvent(at, report)
        PROVE  observed' > observed
    BY <2>4 DEF SnapshotEvent
  <2>5. ASSUME NEW kind \in {"poll", "notice"}, NEW lastSuccess \in 0 .. now,
               StateEvent(kind, lastSuccess)
        PROVE  FALSE
    <3>1. lastSuccess \in Nat  BY <2>1
    <3>2. (r \in open) \in BOOLEAN /\ r \in Rules \ {U, "telemetry_stale"}
      BY <2>1
    <3> QED  BY <2>1, <2>2, <2>5, <3>1, <3>2, StateFits, BlindResolvesNothing
                DEF StateEvent
  <2>6. ASSUME NEW start \in 1 .. now, NEW ratio \in {"low", "middle", "high"},
               NEW qualifies \in BOOLEAN,
               DailyEvaluation(start, ratio, qualifies)
        PROVE  FALSE
    <3> DEFINE in == DailyInput(start, ratio, qualifies)
    <3>1. EvaluateInput(in) /\ start \div DayLength > 0
      BY <2>6 DEF DailyEvaluation
    <3>2. DailyArguments(start, ratio, qualifies)
      BY <2>1, <3>1 DEF DailyArguments
    <3>3. in \in Input /\ Blind(in)  BY <3>2, DailyFits
    <3>4. (r \in open) \in BOOLEAN /\ r \in Rules \ {U, "telemetry_stale"}
      BY <2>1
    <3> HIDE DEF in
    <3> QED  BY <2>2, <3>1, <3>3, <3>4, BlindResolvesNothing
  <2>7. CASE ChangeTimezone
    BY <2>7 DEF ChangeTimezone, U
  <2> QED  BY <1>1, <2>3, <2>4, <2>5, <2>6, <2>7 DEF Next
<1> QED  BY <1>1, EngineInductive, PTL DEF ResolvedByTelemetry, Spec
=============================================================================
