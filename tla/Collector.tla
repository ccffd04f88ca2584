------------------------------ MODULE Collector ------------------------------
(***************************************************************************)
(* The telemetry collector (internal/collector): the polling loop Run, the *)
(* goroutine monitorFreshness it starts, the state they share under c.mu,  *)
(* the retry Backoff, and the minute rows and events it saves.             *)
(*                                                                         *)
(* Both goroutines change c.state while they hold c.mu and publish a copy  *)
(* of it after they have released it; the two halves are two actions here, *)
(* so that the other goroutine may run in between.  Delivery by the hub is *)
(* one step (Hub.tla shows why a Publish always ends).                     *)
(*                                                                         *)
(* Time is a counter; 0 is Go's zero time.  A reading is its observation   *)
(* time and what the event log compares: the inverter status and faults.   *)
(* A read or a database call takes any amount of time.                     *)
(***************************************************************************)
EXTENDS Integers, FiniteSets

CONSTANTS
  PollInterval, StaleAfter, RetryMin, RetryMax,   \* Config durations
  MinuteLength,     \* time units per stored minute row
  Statuses, Faults, \* what a reading may report (Faults: sets of codes)
  None,             \* the status of the nil reading
  StoreFaults,      \* may a database call fail by itself?
  RestartKinds,     \* how the application runtime starts a collector again:
                    \* "new" object, or the same one after a "rollback"
  MaxNow, MaxRuns   \* bounds of the instance

ASSUME DurationsAssumption ==
  /\ PollInterval \in Nat \ {0} /\ StaleAfter \in Nat \ {0}
  /\ RetryMin \in Nat \ {0} /\ RetryMax \in Nat /\ RetryMax >= RetryMin
  /\ MinuteLength \in Nat \ {0}
ASSUME ReadingAssumption == None \notin Statuses
ASSUME BoundsAssumption ==
  /\ MaxNow \in Nat \ {0} /\ MaxRuns \in Nat
  /\ StoreFaults \in BOOLEAN /\ RestartKinds \subseteq {"new", "rollback"}

VARIABLES
  now,        \* config.Clock
  runs,       \* how many times Run was called
  cancelled,  \* ctx of the current run is done
  \* the goroutine of Run
  pc, wake, copy, pending, previous, storageErrors, next,
  \* Collector.state, and the number of times it was assigned
  state, version,
  \* the goroutine of monitorFreshness, and the channel of capacity one
  mon, deadline, updates,
  \* versions carried by the Publish each goroutine is about to make, and by
  \* the event the hub delivered last
  pollEvent, monEvent, delivered,
  \* the database: newest observation per minute row, and saved events
  rows, events,
  \* history: newest reading of every minute, readings whose SaveMinute
  \* failed, and consecutive failed polls
  newest, lost, failures

pollVars  == <<wake, copy, pending, previous, storageErrors, next>>
stateVars == <<state, version>>
monVars   == <<mon, deadline, updates>>
hubVars   == <<pollEvent, monEvent, delivered>>
storeVars == <<rows, events>>
histVars  == <<newest, lost, failures>>
vars == <<now, runs, cancelled, pc, pollVars, stateVars, monVars, hubVars,
          storeVars, histVars>>

Times    == 0 .. MaxNow
Minutes  == 0 .. MaxNow
Reading  == [at : 1 .. MaxNow, status : Statuses, faults : Faults]
NoReading == [at |-> 0, status |-> None, faults |-> {}]
minuteOf(r) == r.at \div MinuteLength
EmptyState == [snapshot |-> NoReading, lastSuccess |-> 0, errorClass |-> "none",
               stale |-> FALSE]

Init ==
  /\ now = 1 /\ runs = 0 /\ cancelled = FALSE
  /\ pc = "off" /\ wake = 0 /\ copy = NoReading /\ pending = NoReading
  /\ previous = NoReading /\ storageErrors = FALSE /\ next = RetryMin
  /\ state = EmptyState /\ version = 0
  /\ mon = "off" /\ deadline = 0 /\ updates = 0
  /\ pollEvent = 0 /\ monEvent = 0 /\ delivered = 0
  /\ rows = [m \in Minutes |-> 0] /\ events = {}
  /\ newest = [m \in Minutes |-> 0] /\ lost = {} /\ failures = 0

-----------------------------------------------------------------------------
(* The environment *)

Tick ==
  /\ now < MaxNow
  /\ now' = now + 1
  /\ UNCHANGED <<runs, cancelled, pc, pollVars, stateVars, monVars, hubVars,
                 storeVars, histVars>>

\* Run: beginRun refuses a second call (pc # "off"), then the monitor starts
\* and the locals are fresh; the first poll is immediate.  A "new" collector
\* has an empty state and a reset backoff, a "rollback" keeps both.
Start(kind) ==
  /\ pc = "off" /\ runs < MaxRuns
  /\ kind \in RestartKinds /\ (kind = "rollback" => runs > 0)
  /\ runs' = runs + 1 /\ cancelled' = FALSE
  /\ pc' = "read"
  /\ wake' = 0 /\ copy' = NoReading /\ storageErrors' = FALSE
  /\ pending' = NoReading /\ previous' = NoReading
  /\ mon' = "select" /\ deadline' = 0 /\ updates' = 0
  /\ IF kind = "new"
     THEN /\ state' = EmptyState /\ version' = version + 1
          /\ next' = RetryMin /\ failures' = 0
     ELSE UNCHANGED <<state, version, next, failures>>
  /\ UNCHANGED <<now, hubVars, storeVars, newest, lost>>

\* The application cancels the context of the run.
Cancel ==
  /\ pc # "off" /\ ~cancelled
  /\ cancelled' = TRUE
  /\ UNCHANGED <<now, runs, pc, pollVars, stateVars, monVars, hubVars,
                 storeVars, histVars>>

-----------------------------------------------------------------------------
(* Run *)

\* The delay has passed.  A read begun under a done context fails before it
\* talks to the logger (Client.ReadHoldingRegisters), and the run ends.
PollTimer ==
  /\ pc = "wait" /\ now >= wake
  /\ pc' = IF cancelled THEN "flush" ELSE "read"
  /\ UNCHANGED <<now, runs, cancelled, pollVars, stateVars, monVars, hubVars,
                 storeVars, histVars>>

WaitCancelled ==
  /\ pc = "wait" /\ cancelled
  /\ pc' = "flush"
  /\ UNCHANGED <<now, runs, cancelled, pollVars, stateVars, monVars, hubVars,
                 storeVars, histVars>>

\* Mutant: an off-by-one at the middle.
BackoffJumpsEarly(n) ==
  IF n < RetryMax THEN (IF n >= RetryMax \div 2 THEN RetryMax ELSE 2 * n)
  ELSE n

\* Backoff.Next: the delay after a delay of n.
BackoffNext(n) ==
  IF n < RetryMax THEN (IF n > RetryMax \div 2 THEN RetryMax ELSE 2 * n) ELSE n

\* recordError, under c.mu.
StateAfterError == [state EXCEPT !.errorClass = "communication"]

\* c.read failed.  A cancelled run ends; otherwise recordError.
ReadFails ==
  /\ pc = "read"
  /\ IF cancelled
     THEN /\ pc' = "flush"
          /\ UNCHANGED <<stateVars, pollEvent, failures>>
     ELSE /\ pc' = "publishError"
          /\ state' = StateAfterError /\ version' = version + 1
          /\ pollEvent' = version + 1
          /\ failures' = failures + 1
  /\ UNCHANGED <<now, runs, cancelled, pollVars, monVars, monEvent, delivered,
                 storeVars, newest, lost>>

\* The Publish of recordError, and the retry delay.
PublishError ==
  /\ pc = "publishError"
  /\ delivered' = pollEvent
  /\ wake' = now + next /\ next' = BackoffNext(next)
  /\ pc' = "wait"
  /\ UNCHANGED <<now, runs, cancelled, copy, pending, previous, storageErrors,
                 stateVars, monVars, pollEvent, monEvent, storeVars, histVars>>

\* c.read succeeded, perhaps just before a cancellation could interrupt it: a
\* new snapshot, observed now.  Only a rollover to another
\* minute saves the pending one first.
ReadSucceeds(s, f) ==
  /\ pc = "read"
  /\ copy' = [at |-> now, status |-> s, faults |-> f]
  /\ storageErrors' = FALSE
  /\ newest' = [newest EXCEPT ![minuteOf(copy')] = now]
  /\ pc' = IF pending # NoReading /\ minuteOf(pending) # minuteOf(copy')
           THEN "saveMinute" ELSE "saveEvents"
  /\ UNCHANGED <<now, runs, cancelled, wake, pending, previous, next,
                 stateVars, monVars, hubVars, storeVars, lost, failures>>

\* Mutant: an insert that keeps the row a minute already has.
SaveRowOnce(r) ==
  rows' = [rows EXCEPT ![minuteOf(r)] = IF @ = 0 THEN r.at ELSE @]

\* TelemetryRepository.SaveMinute: one row per minute, keeping the newest.
SaveRow(r) ==
  rows' = [rows EXCEPT ![minuteOf(r)] = IF r.at >= @ THEN r.at ELSE @]

\* The rollover's SaveMinute runs under the context of the run: once that is
\* cancelled the database refuses it.  The pending reading is dropped anyway.
SaveMinute ==
  /\ pc = "saveMinute"
  /\ \/ /\ ~cancelled
        /\ SaveRow(pending)
        /\ UNCHANGED <<storageErrors, lost>>
     \/ /\ cancelled \/ StoreFaults
        /\ storageErrors' = TRUE /\ lost' = lost \cup {pending.at}
        /\ UNCHANGED rows
  /\ pending' = NoReading
  /\ pc' = "saveEvents"
  /\ UNCHANGED <<now, runs, cancelled, wake, copy, previous, next, stateVars,
                 monVars, hubVars, events, newest, failures>>

\* The kinds of event to save for the new snapshot.
Changes ==
  IF previous = NoReading THEN {}
  ELSE (IF previous.status # copy.status THEN {"status_change"} ELSE {})
       \cup (IF previous.faults # copy.faults THEN {"fault_change"} ELSE {})

\* pending takes the new snapshot unless it is older; changes become events,
\* each of which may fail by itself (all of them once the run is cancelled).
SaveEvents ==
  /\ pc = "saveEvents"
  /\ pending' = IF pending = NoReading \/ copy.at >= pending.at
                THEN copy ELSE pending
  /\ \E saved \in SUBSET Changes :
       /\ cancelled => saved = {}
       /\ ~cancelled /\ ~StoreFaults => saved = Changes
       /\ events' = events \cup {[at |-> copy.at, kind |-> k] : k \in saved}
       /\ storageErrors' = (storageErrors \/ saved # Changes)
  /\ previous' = copy
  /\ pc' = "record"
  /\ UNCHANGED <<now, runs, cancelled, wake, copy, next, stateVars, monVars,
                 hubVars, rows, histVars>>

\* recordSuccess: the whole state is replaced.
RecordSuccess ==
  /\ pc = "record"
  /\ state' = [snapshot |-> copy, lastSuccess |-> now,
               errorClass |-> IF storageErrors THEN "storage" ELSE "none",
               stale |-> FALSE]
  /\ version' = version + 1 /\ pollEvent' = version + 1
  /\ pc' = "publishSnapshot"
  /\ UNCHANGED <<now, runs, cancelled, pollVars, monVars, monEvent, delivered,
                 storeVars, histVars>>

PublishSnapshot ==
  /\ pc = "publishSnapshot"
  /\ delivered' = pollEvent
  /\ pc' = "signal"
  /\ UNCHANGED <<now, runs, cancelled, pollVars, stateVars, monVars, pollEvent,
                 monEvent, storeVars, histVars>>

\* signalLatestTime puts the time into the channel: at once when there is
\* room (its first select), or after the old value has been taken out (the
\* second send, which would block if the channel were full).  Then
\* backoff.Reset; the next poll is due after PollInterval.
Signal ==
  /\ pc \in {"signal", "resend"} /\ updates = 0
  /\ updates' = state.lastSuccess
  /\ next' = RetryMin /\ failures' = 0
  /\ wake' = now + PollInterval
  /\ pc' = "wait"
  /\ UNCHANGED <<now, runs, cancelled, copy, pending, previous, storageErrors,
                 stateVars, mon, deadline, hubVars, storeVars, newest, lost>>

\* Mutant: a full channel keeps its old value and the new one is dropped.
SkipWhenFull ==
  /\ pc = "signal" /\ updates # 0
  /\ next' = RetryMin /\ failures' = 0
  /\ wake' = now + PollInterval
  /\ pc' = "wait"
  /\ UNCHANGED <<now, runs, cancelled, copy, pending, previous, storageErrors,
                 stateVars, monVars, hubVars, storeVars, newest, lost>>

\* The first select finds the channel full.
SignalFull ==
  /\ pc = "signal" /\ updates # 0
  /\ pc' = "drain"
  /\ UNCHANGED <<now, runs, cancelled, pollVars, stateVars, monVars, hubVars,
                 storeVars, histVars>>

\* Mutant: the second send without the receive before it.
DrainNothing ==
  /\ pc = "drain"
  /\ pc' = "resend"
  /\ UNCHANGED <<now, runs, cancelled, pollVars, stateVars, monVars, hubVars,
                 storeVars, histVars>>

\* The inner select: the old value is taken out, unless the monitor received
\* it in the meantime.
Drain ==
  /\ pc = "drain"
  /\ updates' = 0
  /\ pc' = "resend"
  /\ UNCHANGED <<now, runs, cancelled, pollVars, stateVars, mon, deadline,
                 hubVars, storeVars, histVars>>

\* flushPending, under a context of its own.  A failure is a recordError.
Flush ==
  /\ pc = "flush"
  /\ \/ /\ IF pending = NoReading THEN UNCHANGED rows ELSE SaveRow(pending)
        /\ pc' = "join"
        /\ UNCHANGED <<stateVars, pollEvent, lost>>
     \/ /\ pending # NoReading /\ StoreFaults
        /\ state' = StateAfterError /\ version' = version + 1
        /\ pollEvent' = version + 1
        /\ lost' = lost \cup {pending.at}
        /\ pc' = "publishFlushError"
        /\ UNCHANGED rows
  /\ pending' = NoReading
  /\ UNCHANGED <<now, runs, cancelled, wake, copy, previous, storageErrors,
                 next, monVars, monEvent, delivered, events, newest, failures>>

PublishFlushError ==
  /\ pc = "publishFlushError"
  /\ delivered' = pollEvent
  /\ pc' = "join"
  /\ UNCHANGED <<now, runs, cancelled, pollVars, stateVars, monVars, pollEvent,
                 monEvent, storeVars, histVars>>

\* The deferred calls: wait for the monitor (freshnessDone), then endRun.
Join ==
  /\ pc = "join" /\ mon = "off"
  /\ pc' = "off"
  /\ UNCHANGED <<now, runs, cancelled, pollVars, stateVars, monVars, hubVars,
                 storeVars, histVars>>

-----------------------------------------------------------------------------
(* monitorFreshness *)

MonitorUpdate ==
  /\ mon = "select" /\ updates # 0
  /\ deadline' = updates + StaleAfter /\ updates' = 0
  /\ UNCHANGED <<now, runs, cancelled, pc, pollVars, stateVars, mon, hubVars,
                 storeVars, histVars>>

\* Mutants: no second look at the clock; one unit late at the boundary.
StillFreshUnchecked == state.lastSuccess = 0 \/ state.stale
StillFreshAtBoundary ==
  \/ state.lastSuccess = 0
  \/ state.stale
  \/ now <= state.lastSuccess + StaleAfter

\* markStale's early return, under c.mu.
StillFresh ==
  \/ state.lastSuccess = 0
  \/ state.stale
  \/ now < state.lastSuccess + StaleAfter

\* markStale, under c.mu: an error class already shown is kept.
StateAfterStale ==
  [state EXCEPT !.stale = TRUE, !.errorClass = IF @ = "none" THEN "stale" ELSE @]

\* The deadline passed: markStale.
MonitorExpire ==
  /\ mon = "select" /\ deadline # 0 /\ now >= deadline
  /\ deadline' = 0
  /\ IF StillFresh
     THEN UNCHANGED <<stateVars, mon, monEvent>>
     ELSE /\ state' = StateAfterStale
          /\ version' = version + 1 /\ monEvent' = version + 1
          /\ mon' = "publish"
  /\ UNCHANGED <<now, runs, cancelled, pc, pollVars, updates, pollEvent,
                 delivered, storeVars, histVars>>

MonitorPublish ==
  /\ mon = "publish"
  /\ delivered' = monEvent
  /\ mon' = "select"
  /\ UNCHANGED <<now, runs, cancelled, pc, pollVars, stateVars, deadline,
                 updates, pollEvent, monEvent, storeVars, histVars>>

MonitorCancelled ==
  /\ mon = "select" /\ cancelled
  /\ mon' = "off"
  /\ UNCHANGED <<now, runs, cancelled, pc, pollVars, stateVars, deadline,
                 updates, hubVars, storeVars, histVars>>

-----------------------------------------------------------------------------

Poller ==
  \/ PollTimer \/ WaitCancelled
  \/ ReadFails \/ PublishError
  \/ \E s \in Statuses, f \in Faults : ReadSucceeds(s, f)
  \/ SaveMinute \/ SaveEvents \/ RecordSuccess \/ PublishSnapshot
  \/ Signal \/ SignalFull \/ Drain
  \/ Flush \/ PublishFlushError \/ Join

Monitor ==
  MonitorUpdate \/ MonitorExpire \/ MonitorPublish \/ MonitorCancelled

Environment == Tick \/ Cancel \/ \E kind \in {"new", "rollback"} : Start(kind)

Next == Environment \/ Poller \/ Monitor

Spec == Init /\ [][Next]_vars

\* The Go scheduler runs both goroutines; a read ends by ReadTimeout, a
\* database call and a Publish end.  A select whose context is done does not
\* prefer the poll timer for ever.
Fairness ==
  WF_vars(Poller) /\ WF_vars(Monitor) /\ SF_vars(WaitCancelled)

FairSpec == Spec /\ Fairness

-----------------------------------------------------------------------------
(* Properties *)

\* Types of all variables, for any code path of collector.go.
ControlType ==
  /\ now \in 1 .. MaxNow /\ runs \in 0 .. MaxRuns
  /\ pc \in {"off", "wait", "read", "publishError", "saveMinute",
             "saveEvents", "record", "publishSnapshot", "signal", "drain",
             "resend", "flush", "publishFlushError", "join"}
  /\ wake \in Nat /\ next \in RetryMin .. RetryMax /\ failures \in Nat
  /\ mon \in {"off", "select", "publish"}
  /\ deadline \in Nat /\ updates \in Times
  /\ version \in Nat /\ pollEvent \in Nat /\ monEvent \in Nat
  /\ delivered \in Nat
FlagType == cancelled \in BOOLEAN /\ storageErrors \in BOOLEAN
ReadingType ==
  /\ copy \in Reading \cup {NoReading}
  /\ pending \in Reading \cup {NoReading}
  /\ previous \in Reading \cup {NoReading}
StateType ==
  state \in [snapshot : Reading \cup {NoReading}, lastSuccess : Times,
            errorClass : {"none", "storage", "communication", "stale"},
            stale : BOOLEAN]
StoreType ==
  /\ rows \in [Minutes -> Times] /\ newest \in [Minutes -> Times]
  /\ lost \subseteq Times
  /\ events \subseteq [at : Times, kind : {"status_change", "fault_change"}]
TypeOK ==
  ControlType /\ FlagType /\ ReadingType /\ StateType /\ StoreType

\* markStale never marks a state that a success has just refreshed: stale
\* telemetry is at least StaleAfter old, however the timer, the channel and a
\* late success interleave.
StaleIsOld == state.stale => now >= state.lastSuccess + StaleAfter

\* Every reading is accounted for: the newest one of each minute is in the
\* database, still pending (or in the hands of Run), or its SaveMinute failed.
NoSilentLoss ==
  \A m \in Minutes : newest[m] # 0 =>
    \/ rows[m] = newest[m]
    \/ pending.at = newest[m]
    \/ copy.at = newest[m] /\ pc \in {"saveMinute", "saveEvents"}
    \/ newest[m] \in lost

\* The facts about rows, history and program counter that make NoSilentLoss
\* inductive: newest is indexed by its own minutes and bounds every row, and
\* where Run still has a reading in hand.
MinutesAccounted ==
  \A m \in Minutes :
    /\ newest[m] # 0 => newest[m] \div MinuteLength = m
    /\ rows[m] <= newest[m] /\ newest[m] <= now
InHand ==
  /\ pending.at <= now
  /\ pending # NoReading => pending.at <= newest[minuteOf(pending)]
  /\ pc \in {"saveMinute", "saveEvents"} =>
       /\ copy # NoReading
       /\ copy.at = newest[minuteOf(copy)] /\ copy.at >= pending.at
  /\ pc = "saveMinute" => pending # NoReading
  /\ pc = "saveEvents" /\ pending # NoReading =>
       minuteOf(pending) = minuteOf(copy)
  /\ pc \in {"off", "publishFlushError", "join"} => pending = NoReading
Accounting == MinutesAccounted /\ InHand /\ NoSilentLoss

\* A failed save in the last successful poll stays visible in the state until
\* the next poll: freshness monitoring does not overwrite it.
StorageFailureShown ==
  pc \in {"publishSnapshot", "signal", "drain", "resend", "wait", "read", "join"}
  /\ storageErrors
    => state.errorClass \in {"storage", "communication"}

\* The same, with the program points at which it has to be known already.
StorageFailureKept ==
  pc \in {"publishSnapshot", "signal", "drain", "resend", "wait", "read",
          "publishError", "flush", "publishFlushError", "join"} /\ storageErrors
    => state.errorClass \in {"storage", "communication"}

PowerOfTwo[n \in Nat] == IF n = 0 THEN 1 ELSE 2 * PowerOfTwo[n - 1]

DelayAfter(n) ==
  LET d == RetryMin * PowerOfTwo[n] IN IF d < RetryMax THEN d ELSE RetryMax

\* Retries double from RetryMin up to RetryMax, and any success resets them:
\* Backoff against the closed form.
BackoffExponential == pc # "publishError" => next = DelayAfter(failures)

\* The second send of signalLatestTime finds room: nobody but Run sends.
SignalNeverBlocks == pc = "resend" => updates = 0

\* Between a success and the send that tells the monitor of it.
Informing == {"record", "publishSnapshot", "signal", "drain", "resend"}

\* Fresh telemetry of this run is being watched: once Run has signalled it,
\* the channel or the monitor's deadline is for the newest success and not an
\* older one, whatever the monitor took out, marked or missed in between.
NewestSuccessWatched ==
  previous # NoReading /\ pc \notin Informing \cup {"off"} /\ mon # "off"
  /\ ~state.stale
    => \/ updates = state.lastSuccess
       \/ deadline = state.lastSuccess + StaleAfter

\* The monitor hears of the newest success, and Run never waits to tell it.
MonitorInformed == SignalNeverBlocks /\ NewestSuccessWatched

\* Telemetry that reached StaleAfter is still marked fresh.
Expired ==
  /\ pc # "off" /\ ~cancelled
  /\ state.lastSuccess # 0 /\ ~state.stale
  /\ now >= state.lastSuccess + StaleAfter

\* Telemetry that reached StaleAfter is not left marked fresh for ever while
\* the collector runs: it becomes stale, is refreshed, or the run is stopped.
\* For a success of the current run only (previous is a local of Run): the
\* monitor of a collector that was restarted does not know an earlier one.
OwnExpiryNoticed == Expired /\ previous # NoReading ~> ~Expired

\* Cancelling the context ends the run, whatever both goroutines are doing.
CancelStops == cancelled ~> pc = "off"

\* What State() shows is true: "stale" only of telemetry that is old, and a
\* failed save until the next poll.
StateTruthful == StaleIsOld /\ StorageFailureShown
=============================================================================
