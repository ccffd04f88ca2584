# Helio: TLA+ models, checks and proofs

Helio is a self-hosted monitor for a solar inverter: one Go process polls the
inverter's data logger on the local network, stores minute rows in SQLite,
publishes live events to browsers, evaluates alerts, runs a daily job
(aggregation, analysis, tariffs, alerts, retention) and serves a web interface
behind a password. A second process, the Alexa relay, runs elsewhere and shows
the newest reading on Alexa widgets. The models here follow the Go code under
`internal/`, the TypeScript of the web interface under `web/src/` and the
JavaScript of the relay under `integrations/alexa-relay/src/`; paths below are
relative to the repository root. `PROJECT.json` holds the machine readable side:
which lines each definition models, the runs with their properties, a mutant per
property, the hazards and the findings.

To check a run: `tlc -workers 2 -config MCCollector.cfg MCCollector` (module and
cfg of every run are in the table below). To check the proofs: `tlapm M.tla` for
each of the eight modules `CollectorProofs` (which also has the hub's),
`AlertEngineProofs`, `DailyJobProofs`, `LimiterProofs`, `RuntimeProofs`,
`AlexaRelayProofs`, `LiveViewProofs` and `WebAppProofs` (a few minutes each).

## 1. Inventory

| component | state | operations | talks to | what is hard | what makes it correct |
|---|---|---|---|---|---|
| telemetry collector (`internal/collector/collector.go`, `backoff.go`) | `c.state` under `c.mu`, pending minute, previous reading, backoff, channel of capacity one to the freshness monitor | `Run`, `monitorFreshness`, `recordSuccess`, `recordError`, `markStale`, `flushPending` | reads the LAN client, writes the telemetry store, publishes on the hub; started and cancelled by the runtime | two goroutines share one state and publish after unlocking; cancellation anywhere; restart of the same object; failing saves | no reading lost without a trace, stale exactly when old, cancel ends, events in order |
| event hub (`hub.go`) | two maps of channels under `h.mu` | `Subscribe`, `SubscribeBuffered`, unsubscribe, `Publish` | collector → SSE streams, alert worker, cloud recovery, Alexa push | blocking send with the mutex held; unsubscribing while a publish is under way | newest state for plain readers, gap-free order for buffered ones, no deadlock |
| alert rules and engine (`internal/alerts`, `internal/storage/alerts.go`) | per rule: pending since, counts, last evaluation and day; open alerts | `Engine.Evaluate` in one transaction, reset on a timezone change | alert worker and daily job | three clocks feed one ordered engine; states are validated again on every load | nothing overdue, counts agree with open alerts, days counted once, states always reloadable |
| job runner (`internal/jobs/runner.go`) | `lastDay`, the job's `now`, weather and alert workers | `Run`, `runCurrent`, `runOnce`, `analyzeDay`, workers | stores, weather, tariffs, alert engine | a job works on a clock value read before it; retry from the start; restart with every settings change | retention only after completion, right day, every day done, stops on cancel |
| application runtime (`internal/app/app.go`) | current collector, start gate, job runner, `settingsMu`, `configureMu`, `jobsMu`, `stopping` | start-up, settings request, bootstrap, `collectorRuntime.Apply`, job restart, shutdown | everything above, HTTP | requests are served during start-up; a failing save must roll back; stop timeouts; shutdown against a request | one collector, stored and active settings agree, service restored after failure, database closed only when unused |
| login limiter (`internal/auth/limiter.go`) | buckets by key, expiry and eviction lists | `Admit`, `Succeed`, `Fail`, `Cancel` of an admission | login and confirmation handlers | attempts in flight while their bucket expires, is evicted or reset | bounded attempts, bounded memory, consistent lists |
| telemetry store (`internal/storage/telemetry.go`) | minute, day and month rows, calendar | upserts, aggregation, rebuild, pruning | collector, jobs, API | concurrent writers, timezone changes, repeated writes | newest reading kept, days complete before pruning |
| settings store | settings document, timezone reset | load, save | runtime, API | part of a larger transaction | stored = active |
| sessions, confirmation, CSRF (`internal/auth/session.go`) | sessions, confirmations | create, authenticate, touch, confirm, consume, logout | every handler | a request in flight while its session ends | no resurrection, one-shot confirmation |
| Solarman LAN client (`internal/solarman`) | connection, sequence number | `ReadRegisters` with retry | collector | late answers, half-read connections | an answer belongs to its request |
| Sofar decoder (`internal/sofar`) | none | registers to a snapshot | collector | signed and 32-bit words | decode = reference |
| Solarman cloud recovery (`internal/api/solarman.go`) | offline flag, cooldown, credentials | schedule, recover, test, save | hub, cloud API | flag cleared before recovery is accepted | every outage is answered once |
| weather (`internal/weather`) | cached hours | refresh, read | jobs, API | hours of different age | freshness is that of the oldest hour |
| production analysis (`internal/analysis`) | none (saved per day) | statistics | daily job | floating point | — |
| finance and tariffs (`internal/finance`, `internal/tariff`, `internal/storage/finance.go`) | bills, credit lots, proposals | record, consume, reconcile, approve | API, daily job | long sequences of bills | lots sum to the balance |
| HTTP API, SSE (`internal/api`) | per-stream subscription | handlers | all | first state against queued events; the token that a GET replaces | order on a stream |
| Alexa relay (`integrations/alexa-relay/src`) | newest snapshot and devices in memory and in a file, write queue, `running` and `pending` of the push scheduler, cached token | ingest, install, remove, push, restart | Helio's publisher, Alexa's Data Store | snapshots late and out of order, clocks that differ, failing writes, crashes, the gap between a loop's end and its `finally` | never older, durable once acknowledged, no lost wake-up, one push at a time |
| web access (`routes/__root.tsx`, `app`, `api`, `LoginForm.tsx`, `OnboardingWizard.tsx`, `AppShell.tsx`) | two cached queries, CSRF token in memory, form states, the address | gate, login, set-up, logout, 401 handler | auth and bootstrap handlers, other tabs | every answer may be lost or late; tabs share a session; set-up is open to whoever is first | no page loads for ever, one submission, forms usable again |
| web settings editor, forms (`features/settings`, `onboarding/schema.ts`, `steps.tsx`) | cached settings, typed values, original, conflict, saving | type, save, confirm, resolve a conflict | settings handlers, other sessions | refetches and saves of others while the user types; three implementations of the same limits | edits kept, changes noticed, saves end, forms and server agree |
| web live page (`useLiveTelemetry.ts`, `live-events.ts`) | cached state, stream state, fetch in flight, own clock | event, fetch, reconnect, badge | SSE, GET `/live` | fetches and events overtake each other; connections break; the server restarts | never back in time, catches up, outages noticed |
| web history page (`HistoryPage.tsx`, `history-model.ts`) | period, address, entries of the browser, cached answers | choose, back and forward, parse, sum, draw | GET `/history`, settings | time zones that change their offset; an address read at another time; answers of other periods | local periods, no drift, sums that agree with the curve |
| Alexa publisher, other web pages, backup, database and migrations, password hashing, configuration, demo | see `PROJECT.json` | | | | |

The hazards (`PROJECT.json`) are the list this project works from; each
names the line where it bites and either the properties that catch it or why
none does yet.

## 2. Plan

Done, in this order: `Collector`, `Hub`, `AlertRules` + `AlertEngine`,
`DailyJob`, `Limiter`, `Runtime`, `CollectorProofs`; then the relay
(`AlexaRelay`, its abstract specification `LatestRegister` and
`AlexaRelayProofs`) and the web interface: `LiveView`; `WebAccess`,
`SettingsEditor` and `FormFields`, composed in `WebApp`; `HistoryModel` and
`HistoryPage`; then the proofs of the safety properties of the Go process and of
the live page (`DailyJobProofs`, `LimiterProofs`, `LiveViewProofs`,
`RuntimeProofs`, `AlertEngineProofs`, the hub's in `CollectorProofs`) and of the
other web pages (`WebAppProofs`). To follow:

1. `TelemetryStore`: locks, upsert, calendar rebuild, aggregation and pruning,
   against concurrent writers; composed with `DailyJob` (what pruning removes).
   A rollover saved under a context that is cancelled in between belongs here
   (`collector.go:131`).
2. `Sessions`: expiry and touch, logout against requests in flight
   (`auth/session.go:210`), concurrent bootstraps; `api/settings.go:48`, the
   decision on a settings value read before the lock.
3. `CreditLots`: lots, consumption, reconciliation with the reported balance
   (`storage/finance.go:222`); tariff proposals.
4. `SolarmanClient` (sequence numbers, retries, late answers,
   `solarman/client.go:85`) and `SolarmanRecovery` (the offline flag cleared
   before a recovery is accepted, `api/solarman.go:214`; credentials read before
   a test and written after it, `:114`).
5. `WeatherCache` (`weather/cache.go:75`); `SofarDecoder` as operators over
   16-bit words against a reference definition.
6. The Alexa publisher, composed with `AlexaRelay`.
7. Abstract specifications: a FIFO with back-pressure that `Hub` implements for
   a buffered reader; "one service with one configuration" for `Runtime`.
8. Theorems: the refinements of 7, from the invariants `HubInv` and `RuntimeInv`
   that are proved; `CoverageExact`, once sums over sets can be reasoned about.

## 3. Modules and the code

**Collector.** One action per step between two points where the other goroutine
or the context can act. `pc` is the place of `Run`: waiting for the poll timer,
reading, saving the rolled-over minute, saving events, recording under `c.mu`,
publishing after it, signalling the monitor (a send that may find the channel
full, the drain, the second send), flushing, joining the monitor.
`mon` is the place of `monitorFreshness`. A read or a database call takes any
time and may fail (`StoreFaults`); a call under a cancelled context fails.
`Start` is what `collectorRuntime` does: a new object, or the same object
after a rollback (`RestartKinds`), which keeps `c.state`. `version` numbers the
assignments of `c.state`, `delivered` is the one the hub delivered last;
`newest`, `lost` and `failures` are history. Reading the clock and assigning in
`recordSuccess` are one step; jitter is left out because the application passes
none; a hub delivery is one step (`Hub` shows that it ends).

**Hub.** `mu` is held from `PublishBegin` to the end of the walk over the
subscribers; every channel operation is a step. `phase` is where Publish is with
a plain subscriber: the send, the drain of a full slot, the send after it, and its
reader may act in between. Unsubscribing a buffered reader
closes its `done` channel first and takes the mutex second. Events are numbers.

**AlertRules, AlertEngine.** The seven rules as functions from an input and a
stored state to a decision; `EvaluateInput` is the whole transaction, with input
validation, the regressed-clock check, the decisions and the upsert. Snapshots
are evaluated at their observation time, state events at the clock, the daily
analysis at the time its job began, exactly as `jobs/runner.go` passes them. A
state event comes from a failed poll or from the collector's own notice that
telemetry is stale (`kind`); the engine is not told which. `evidence` is history:
what was heard, and when, since the last snapshot that was evaluated. `noticed` keeps
the environment to one notice per success. A state event after a failed final save
is left out: the application stops the alert worker before it cancels the collector.

**DailyJob.** The main loop, the job as its sequence of steps on `jobNow`, the
retry, and the workers that run beside a slow step. `done` is what each step has
completed, `skipped` the days it left out. The engine appears by the time of its last evaluation only. A job
that outlives the shutdown budget is covered in `Runtime` (`StuckWorkers`).

**Limiter.** Each operation holds `l.mu` and is one action; a bucket's identity
is a serial number, so that a completion can find another bucket under its key.
The expiry list is a set because it is sorted by construction.

**Runtime.** Every process (main goroutine, bootstrap handler, settings
handlers) has a program counter and locals; locks are variables; collectors and
runners are goroutines named after the process that started them. What is done
under `r.mu` or `a.jobsMu` is one step. `overtaken` is history: the parts
(reader and calendar, or finance) that start-up or bootstrap, which do not take
`settingsMu`, configured last with settings that a request had replaced since they
were read. A listener that fails by itself is not modelled.

**LatestRegister, AlexaRelay.** Node runs one callback at a time, so a step is
the code between two awaits. A handler that must save waits in `saves` (the
promise chain `#writeQueue`, each entry with the content captured when it was
asked for), then in `settled` until it continues. A push loop is a record with
its phase; the model has places for two of them, so that "one at a time" is a
statement and not a shape. The end of a loop and its `finally` are two steps,
which is where a wake-up could be lost. Requests whose signature, age or body is
wrong change nothing; the age of a signed one and its clock are inputs. A failed
write rejects the queue for good, as the code's promise chain does. A crash may
come at any point and leaves the file. `excused`, `acked` are history.
`LatestRegister` is what the relay promises of its snapshot; the refinement maps
memory (or the file while the relay is down) and the file to it.

**LiveView.** The hook with its cache, its `EventSource`, at most one fetch in
flight, the interval's clock and the badge; and the server as the browser can
tell it apart: the newest state, a subscription with one unread event, the
greeting, and connections that break after any part of what was sent. react-query
is modelled from how the hook uses it: an event cancels a running fetch, a
refetch replaces one unless there are no data yet.

**WebAccess, SettingsEditor, WebApp.** One browser tab and the server as it sees
it. `WebAccess` has the gate, the login form, the wizard, the logout button, the
token and the 401 handler; a navigation loads the document again and forgets
everything but the cookie, as `replaceLocation` does. `SettingsEditor` extends
it by the settings page: `Within` says what a step of the gate does to the
mounted editor. A settings document is a model value and a text is a record with
the document it stands for; saves, confirmations and refetches are separate
steps. Other tabs and browsers log in, out, set up, load and save at any time.
`WebApp` puts the two together with `FormFields`.

**FormFields.** What is typed, as records of what the checks can tell of a text;
the checks and conversions of the wizard (`schema.ts`) and of the editor
(`settings-model.ts`), the server's checks in their order and its normalisation
(`settingsDTO.domain`, which refuses an explicit zero before any default applies,
and `config.ValidateSettings`), and the mapping of a refusal to a field. The three
operators `WizardIsAccepted`, `StoredReopens` and `RefusalsPlaced` quantify over
every form in which up to two fields have unusual contents; `WebApp` states them
of the pages. `TextsOf` is the set of all texts of a field as the checks can tell
them apart, from which the samples are taken and over which `EveryFormAgrees`
(section 5) quantifies.

**HistoryModel, HistoryPage.** `HistoryModel` translates `history-model.ts`:
calendar arithmetic in hours (minutes of the chart are scaled, nothing compares
the two scales), the search for a local midnight by three corrections, parsing
and serialising the address, segments, gaps, sums, and the rows of the chart.
`HistoryPage` is the component over it: the address and the browser's entries,
`popstate`, the picker, the two queries with their cache, and the settings query
that gives the zone. The server's side is what `api/history.go` and
`storage/telemetry.go` answer: summaries are kept under the names of local days and
months, and a name becomes an instant as Go parses it (`ParseInLocation`).

The `MC*` modules only give names to instances. Operators above a definition
marked `Mutant` are deliberately wrong variants; they take part in no
specification.

## 4. Runs

| run | cfg (module) | checks | result |
|---|---|---|---|
| `collector` | `MCCollector` | `StateTruthful`, `NoSilentLoss`, `BackoffExponential`, `MonitorInformed`, `OwnExpiryNoticed`, `CancelStops` | holds |
| `hub` | `MCHub` | `ChannelsSound`, `PlainHasNewest`, `BufferedGapFree`, `CallsEnd` | holds |
| `alerts` | `MCAlertEngine` | `StatesSound`, `NothingOverdue`, `ResolvedByTelemetry` | holds |
| `dailyjob` | `MCDailyJob` | `JobsSound`, `RunnerProgresses` | holds |
| `limiter` | `MCLimiter` | `AccountsBalance`, `PendingNotEvicted` | holds |
| `runtime` | `MCRuntime` | `ServiceResumes` | holds |
| `runtime_live` | `MCRuntimeLive` (`MCRuntime`) | `SettingsInForce`, `OneCollector`, `ClosedWhenQuiet`, `CallsEnd` | holds |
| `alexa_relay` | `MCAlexaRelay` | `RelaySound`, `NoLostUpdate`, `AckedIsDurable`, `RegisterSpec`, `WakeupServed` | holds |
| `live_view` | `MCLiveView` | `PageIsCurrent`, `NeverBack`, `CatchesUp`, `OutageNoticed` | holds |
| `live_state_events` | `MCLiveViewStale` (`MCLiveView`) | `StaleReachesPage` | violated, see below |
| `web_app` | `MCWebApp` | `RequestsSound`, `EditorHonest`, `FormsAgree`, `AccessProgress`, `EditorProgress` | holds |
| `history` | `MCHistoryPage` | `PageSound`, `ViewExact`, `PeriodIsLocal`, `EntryKeepsPeriod` | holds |

Several of these are conjunctions of named parts, each stated and explained on
its own in its module (the text below uses the names of the parts):

| property | parts |
|---|---|
| `StateTruthful`; `MonitorInformed` | `StaleIsOld`, `StorageFailureShown`; `SignalNeverBlocks`, `NewestSuccessWatched` |
| `ChannelsSound`; `CallsEnd` of `Hub` | `HubTypeOK`, `NoSendOnClosed`; `PublishEnds`, `UnsubscribeEnds` |
| `StatesSound` | `TypeOK`, `StatesReloadable`, `OfflineIsSilence`, `DaysCountedOnce` |
| `JobsSound`; `RunnerProgresses` | `TypeOK`, `JobIsForYesterday`, `PrunedOnlyWhenComplete`; `DayCompleted`, `CancelStops` |
| `AccountsBalance` | `TypeOK`, `WithinCapacity`, `ListsExact`, `PendingAccounted`, `AttemptsBounded` |
| `SettingsInForce`; `CallsEnd` of `Runtime` | `TypeOK`, `ConfigConsistent` (with `ReaderConsistent`); `RequestEnds`, `ShutdownEnds` |
| `ServiceResumes` | `ConfigConsistent`, `ServiceRestored`, `AlertsBeforeCollector` |
| `RelaySound` | `FileFollowsMemory`, `NotFromTheFuture`, `OnePush`, `DevicesWithinLimit` |
| `PageIsCurrent` | `TypeOK`, `ReadingAndTimeAgree`, `QuietIsCurrent` |
| `RequestsSound`; `EditorHonest` | `TypeOK`, `OneSubmission`, `TokenReplaced`; `EditsKept`, `ConflictIsForeign` |
| `FormsAgree` | `ValidatedIsAccepted`, `StoredIsEditable`, `RefusalAtItsField` |
| `AccessProgress`; `EditorProgress` | `AccessSettles`, `FormUsable`, `LoserLeavesWizard`; `ChangeNoticed`, `SaveEnds` |
| `PageSound`; `ViewExact` | `PageTypeOK`, `AddressNamesPeriod`, `AnswerIsOfPeriod`; `EnergyUnderCurve`, `CoverageExact`, `RowsInsidePeriod` |

`TypeOK` of `Collector` and of `AlexaRelay` is proved (section 5) and therefore
in no run.

What each of the newer runs shows:

- `alexa_relay`: with snapshots arriving in any order, writes that fail, a crash
  and devices that come and go, the relay's file is never behind for good, what
  was acknowledged survives, no update of a widget is forgotten, pushes do not
  overlap, and the state store implements `LatestRegister`.
- `live_view`: the page never goes back in time within one server process, its
  reading and the time shown with it belong together, it has the newest reading
  once nothing is on its way, and its badge notices silence.
- `web_app`: the gate always settles on a page, the forms submit once and can be
  used again after every outcome, the page's token is replaced by its own
  fetches, typed settings are kept and foreign changes announced, every save
  ends; and what the forms let through the server accepts.
- `runtime`, `runtime_live`: after every request the service is as complete as its
  answer said and follows the settings in the database; with bootstrap and every
  fault there is never a second collector, SQLite is closed only when unused, and
  every call ends.
- `history`: periods are whole local days, weeks, months and years in zones that
  change their offset at midnight or some time after it; the address names the
  period, entries of the browser keep theirs, answers belong to the period shown,
  and the sums agree with the curve.

### Finding

`live_state_events`: the stream sends a hub event as it is, an object with `kind`
and `state` (`internal/api/sse.go:62`), while `parseLiveEvent('state', …)`
expects the bare state (`web/src/api/live-events.ts:34`, `:45`), as the greeting
has it. So the page drops every "state" event but the first; that telemetry has
become stale, or that a poll failed, does not reach it. The hook's test emits a
bare state with `stale: true` and expects the cache to follow
(`useLiveTelemetry.test.ts:64`). The page's own clock makes up for most of it
(`OutageNoticed`).

### Met on the way

Allowed by the properties above, and worth a reader's attention.

In the Go process:

- `recordSuccess`, `recordError` and `markStale` publish after releasing `c.mu`
  (`collector.go:206`), so two goroutines can deliver in the opposite order of
  their assignments; a reader may hold a stale event although the state is fresh.
- A collector restarted after a failed save of settings keeps its last success,
  but its new monitor starts without a deadline (`collector.go:240`): if the
  logger is gone the telemetry stays fresh. For a success of the current run
  `OwnExpiryNoticed` holds.
- A slow tariff refresh lets the alert worker evaluate later than the job's own
  time; the job's evaluation (`runner.go:494`) is then refused as a regressed
  clock and the job fails, although a refresh "must not fail daily telemetry
  processing" (`runner.go:390`).
- The offline alert says "Três tentativas consecutivas não receberam telemetria."
  (`internal/api/alerts.go:86`), and its evidence "three consecutive logger polls
  failed" (`internal/alerts/rules.go:92`). But the alert worker sets `PollObserved`
  for every state event (`runner.go:703`), the collector's own notice that
  telemetry is stale included (`collector.go:233`): two failed polls and the notice
  between them open it. `OfflineIsSilence` says what is true: three failed polls
  always open it, and it is open exactly after three failed polls or notices.
- The first bootstrap starts a collector with no gate and no jobs
  (`bootstrap.go:66`); `AlertsBeforeCollector` is checked for an installation
  that has its settings.
- HTTP is served before `initializeRuntime` (`app.go:283`). A settings request
  that is served between start-up's load of the settings and its `Apply`
  (`app.go:335`) succeeds and is then overwritten: the database has the new
  settings and the collector, or the billing calendar, follows the old ones until
  the next request or restart. The first bootstrap and a settings request can meet
  in the same way. `overtaken` marks exactly these cases: `ConfigConsistent` excuses
  the part that was configured too late and nothing else. The run `runtime_live`
  reaches both of its values through bootstrap, and `SettingsStayInForce` is proved
  with requests served at any time.
- With requests served during start-up `ServiceRestored` fails too: one that
  begins before `runtime.start` has nothing to restart its jobs with, and may still
  stop the runner that start-up has started meanwhile; it answers that all is well
  and no jobs run. When the alert worker misses the readiness timeout (`SlowJobs`),
  the failed request leaves the service down, and the next one, if it is refused,
  may let a collector go with no alert worker. `ServiceResumes` is therefore
  checked, not proved, for an installation that has its settings, is served after
  start-up, and whose workers are ready in time.
- A rollover whose context is cancelled between the read and the save drops the
  previous minute (it counts as a failed save in `NoSilentLoss`); a snapshot that
  reaches the alert engine after anything evaluated at a later time is refused as
  a whole (`AlertEngine.InOrder`); a daily job that begins before midnight and
  ends after the next schedule makes `Run` skip a day (`DailyJob.skipped`, an
  exception named in `DayCompleted`); after a stop timeout the runtime has no
  collector until the next settings change (`ServiceRestored` speaks of the other
  outcomes).

In the relay:

- One failed write rejects `#writeQueue` for the life of the process: every later
  save fails (`state.js:80`).
- A snapshot whose save failed is answered with an error but stays in memory; the
  repetition is then "not news" and is never pushed (`excused` in
  `NoLostUpdate`). After a restart nothing is pushed until the next change.

In the web interface:

- A failed *background* refetch of the settings replaces the editor by an error
  page that says "Os dados inseridos não foram alterados."
  (`SettingsPage.tsx:25`) and with it the edits; so does the page about an
  unavailable session (`__root.tsx:37`). What is typed while a save runs is
  overwritten when it succeeds (`SettingsPage.tsx:87`). The save carries no
  version: the last writer wins. When the error page takes the editor away while
  its save runs, and the settings come back before the save has ended, the new
  editor reports that save as "alteradas em outra sessão" (`SettingsPage.tsx:51`);
  `ConflictIsForeign` names the case, which the attempt to prove it brought out.
- A fetch of the session in one tab replaces the token of all (`queries.ts:31`,
  `api/auth.go:62`): saves and logout of another tab are refused until it fetches
  the session again; the logout button says nothing of it.
- The set-up page, reached without a session after set-up is closed, may wait for
  a query that its own 401 handler removed (an exception in `AccessSettles`).
- An `EventSource` refused with an HTTP status is closed for good while the badge
  says that it reconnects (an exception in `CatchesUp`). Before the first reading of
  a server process the badge says "Dados desatualizados", not "Ao vivo": the server
  sends Go's zero time (`omitempty` omits no struct, `collector/hub.go:12`), which
  the page takes for an old reading (`useLiveTelemetry.ts:116`).
  Among events with equal times an older one may change `stale` back.
- Three corrections do not find the first instant of a day east of Greenwich
  whose midnight is skipped or repeated (Beirut, Amman): the day begins at 23:00
  of the day before (`history-model.ts:91`; `Regular` in `PeriodIsLocal`). The
  proof of `FirstInstant` needed a second exception: where a change skips several
  hours, midnight not being the first of them, the day begins too late. The server
  has the opposite weakness: where midnight is skipped west of Greenwich (São
  Paulo until 2018) or repeated east of it, Go parses a day's name to 23:00 of the day
  before or to the second midnight (`storage/telemetry.go:123`), so the bucket
  lies outside its day; if it is the first of the period it is left out there and
  answered in the period before (`ServerRegular` in `CoverageExact`). A zone
  changed in the settings leaves the mounted page with the old period
  (`HistoryPage.tsx:62`). A failed background refetch hides data that are there.
- Coordinates below 10^-6 are shown with an exponent, which the editor then
  refuses (`Readable`); the wizard refuses spaces around a tariff and the editor
  does not; a browser knows spellings of time zones that Go refuses
  (`Unforeseen`); a refusal about count or wattage is always shown at the count.

### Bounds, and why they are enough

- *Collector*: `PollInterval` 1, `StaleAfter` 1, `RetryMin` 1, `RetryMax` 3 (not
  a power of two, so that the cap cuts a doubling), minutes of 2 units,
  `MaxNow` 3, `MaxRuns` 2. Several readings per minute, a rollover, an expiry,
  a doubling beyond the cap and a restart all fit, and all safety properties are
  proved without bounds. Status and faults enter the
  code in the same way, so the instance varies the status only.
- *Hub*: 2 publishers (there are two goroutines), 1 plain and 2 buffered
  readers, `Capacity` 2 and 3 events: more than fit a buffer, so Publish blocks.
- *Alerts*: durations 1 and 2, three low days to open and one high day to
  resolve, four days of one unit each, four kinds of snapshot between which
  every field that a rule reads changes alone or with others. Rules share only
  the order of evaluation times and the validity of an input.
- *DailyJob*: days of 4 units with the schedule at 1, retry after 1, two starts,
  two schedules; every step may be slow and may fail.
- *Limiter*: 3 keys for 2 buckets, 3 attempts against a limit of 2, window 2.
- *Runtime*: 2 settings requests with database faults and stop timeouts; or
  bootstrap, 1 request and every fault, stuck workers included; two settings in
  both. Requests during start-up multiply the interleavings beyond what can be
  explored (more than thirteen million states) and are left out (`EarlyRequests`);
  that they never lead to a second collector, to a database closed too early, or
  to settings that are not in force without having been overtaken, is proved
  (`OnlyOneCollector`, `ClosesWhenQuiet`, `SettingsStayInForce`).
- *AlexaRelay*: 2 devices with a limit of 1, 2 readings (one of them stale, at
  different times), a tolerated difference of 1, 2 handlers at a time, one
  failing write and one crash. A handler, a loop and its `finally` can meet in
  every order, the limit is reached, and a snapshot can be too old, too new or
  repeated; all invariants are proved without bounds.
- *LiveView*: two readings (`MaxNow` 2), telemetry stale after 1 and old on the
  page after any time at all, one break, refusal or restart, and two messages on
  the wire (`MaxWire`). An event can be replaced, overtake a
  fetch, be cut off by a break, and come from a process that has restarted.
- *WebApp*: two documents, of which one has another logger, so that confirmation
  is needed one way and the other; a wizard of three steps, a wait of one second,
  one step of others or failure (`MaxEvents`), two edits. `FormFields` tries every
  pair of fields with texts at, below and above each limit. Two events make the
  liveness properties too slow; the safety ones are proved without bounds, and
  the proof needed a case that takes two events (section 4, "Met on the way").
- *History*: zones like São Paulo (a skipped midnight), Havana (a repeated one)
  and Denver (a skipped hour after midnight), their changes moved to Sunday
  2026-11-01, at two instants, with two links, a picker that offers all four
  periods, up to two entries and two events; answers are empty, or have a hole and both
  cadences, or a missing bucket among full and half full ones (a full answer adds
  the same terms without the hole). `Months` bounds the calendar:
  `MCHistoryPage` assumes, and TLC evaluates, that it reaches two years beyond
  every address such a page can come to (`CalendarReaches(Addresses)`), which is
  the only hypothesis of the page's theorems.

Deadlock checking is off in every cfg: the clocks and counters of an instance
end at their bounds, requests and events run out, and a process that has exited
stays exited. Absence of deadlock where the code must go on is stated as
liveness (`CancelStops`, `PublishEnds`, `UnsubscribeEnds`, `RequestEnds`,
`ShutdownEnds`, `WakeupServed`, `CatchesUp`, `AccessSettles`, `FormUsable`,
`SaveEnds`).

### Fairness

- *Collector*: weak fairness of both goroutines (the Go scheduler runs a
  runnable goroutine), strong fairness of the wait seeing the context: its timer
  and `ctx.Done` may be ready together and `select` chooses at random.
- *Hub*: weak fairness of each publisher and of a buffered reader that goes on
  reading or leaves; strong fairness of taking `h.mu` in order to leave, as Go's
  mutex hands itself over to a starving waiter.
- *DailyJob*: weak fairness of the runner and of time, strong fairness of
  noticing the context in a wait.
- *Runtime*: weak fairness of every goroutine; a collector and a runner that was
  cancelled ends (shown by the two `CancelStops`), possibly after a timeout.
- *AlexaRelay*: weak fairness of writes ending, of handlers continuing, of
  immediates and of each push loop: Node's event loop runs what is ready, and both
  requests to Amazon have a timeout of ten seconds.
- *LiveView*: weak fairness of the stream's goroutine, of what the browser has
  received, of a fetch that has its result, of the interval, of the collector
  marking old telemetry (`OwnExpiryNoticed` of `Collector`), and of time. A fetch
  need not be answered.
- *WebApp*: weak fairness of the answer, or failure, of a request that was sent
  (the browser and the server both have timeouts), of the handlers of what has
  arrived, of effects and drawing, and of the countdown's interval. Nothing that
  the user or another tab does is fair.

No environment action (a request, a cancellation, a fault) is fair.

## 5. Proofs

`CollectorProofs` proves for every value of the constants that satisfies the
named assumptions of `Collector` (positive durations, `RetryMin <= RetryMax`,
`None` not a status):

| theorem | states | argument |
|---|---|---|
| `TypeCorrect` | `Spec => []TypeOK` | inductive as it stands; one lemma for the range of the backoff and one for the minute of a reading |
| `NewestStaysWatched` | `Spec => []MonitorInformed` | only the collector fills the channel, so it is empty after the drain; a success replaces what the channel holds, and the monitor takes its deadline from there |
| `StaleTelemetryIsOld` | `Spec => []StaleIsOld` | needs that a success time is never in the future; then `StillFresh` is the reason that `MonitorExpire` may mark |
| `ReadingsAccounted` | `Spec => []NoSilentLoss` | the inductive invariant `Accounting` |
| `StorageFailureStays` | `Spec => []StorageFailureShown` | strengthened to the program points before the ones it speaks of (`StorageFailureKept`) |
| `StateIsTruthful` | `Spec => []StateTruthful` | the conjunction of `StaleTelemetryIsOld` and `StorageFailureStays`, as the run checks it |
| `RetriesDouble` | `Spec => []BackoffExponential` | `BackoffInv`: doubling and then cutting off (`DelayNext`) gives the closed form for one more failure |

`NoSilentLoss` alone is not inductive: a save of `pending` keeps it only if the
row that is already there is not newer than what history knows
(`MinutesAccounted`), and dropping `pending` is right only if the reading in
hand belongs to another minute, or is newer in the same one (`InHand`).

The closed form of the backoff uses the recursive function `PowerOfTwo`. That it
satisfies its own equation (`PowerOfTwoDef`) is proved and not taken for granted:
initial segments of the powers exist for every length and agree where they
overlap, both by looking at the least number for which they would not
(`LeastElement`, from the well-foundedness of the numbers), since induction
over a predicate is out of the prover's reach.

`AlexaRelayProofs` proves for every set of devices and readings and every bound
that satisfies the named assumptions of `AlexaRelay`:

| theorem | states | argument |
|---|---|---|
| `Typing` | `Spec => []TypeOK` | inductive, with one lemma per kind of step of the push loop |
| `SafetyInductive` | `Spec => []SafeInv` | the common inductive invariant, below |
| `OnePushAtATime` | `Spec => []OnePush` | `LoopInv`: a loop is under way exactly while `running` is set |
| `FutureKeptOut` | `Spec => []NotFromTheFuture` | memory, file and every queued write together; time only grows |
| `FileCatchesUp` | `Spec => []FileFollowsMemory` | every change of memory queues its content; a failed write ends `healthy` |
| `AcknowledgedSurvives` | `Spec => []AckedIsDurable` | `QueueInv`: times along the file and the queue never fall, and a settled success is already in the file |
| `LimitKept` | `Spec => []DevicesWithinLimit` | `DeviceInv` also for every queued write |
| `PartsAgree` | `Spec => []RelaySound` | the conjunction of the four statements that the run checks as one |
| `NoUpdateLost` | `Spec => []NoLostUpdate` | `FreshInv`, which also covers the phases in which a push has ended and `finally` has not run |
| `Implements` | `Spec => RegisterSpec` | initial states map to initial states; `Ingest` is `Accept`, `WriteDone` is `Persist` or a stutter, `Crash` is `Reload`, every other step stutters |

`SafeInv` is the conjunction of `TypeOK`, `DownInv` (a process that is down has
no queue, handler or loop, and a rejected queue is empty), `LoopInv`, `QueueInv`, `DeviceInv`,
`NotFromTheFuture` and `FileFollowsMemory`. None of the statements about the file
is inductive alone: `WriteDone` replaces the file by the head of the queue, so
every entry of the queue must already have the property, and `Restart` loads
the file into memory, so the file must have it too. The refinement needs the
order of the queue (`QueueInv`): `Persist` may not go back in time.

`CollectorProofs` also extends `Hub`, for any publishers, channels
and capacity that satisfy `HubAssumption`:

| theorem | states | argument |
|---|---|---|
| `ChannelsStaySound` | `HubSpec => []ChannelsSound` | `HubInv`: while the mutex is free nobody is to be served, and whoever is to be served is registered; `CloseDone` does not touch the table |
| `PlainGetsNewest` | `HubSpec => []PlainHasNewest` | `PlainInv`: the property in the middle of a Publish, for the subscribers that were served already |
| `BufferedSeesAll` | `HubSpec => []BufferedGapFree` | inductive given `HubInv`; two lemmas on runs of consecutive numbers (`RunGrows`, `RunShrinks`) |

`AlertEngineProofs`, for every configuration that `validateConfig` accepts, every
length of day and every set of reports:

| theorem | states | argument |
|---|---|---|
| `TablesStaySound` | `Spec => []StatesSound` | the inductive invariant `EngineInv`, below |
| `NeverOverdue` | `Spec => []NothingOverdue` | the three rules with a duration open when the condition has lasted, and resolve only when it does not hold (`DecidesOnDuration`) |
| `OnlyTelemetryResolves` | `Spec => ResolvedByTelemetry` | an input without telemetry and without a successful poll resolves no such rule (`BlindResolvesNothing`) |

Of `EngineInv`, `TimesInv` says that no row remembers a time after its last
evaluation, the first one included, which makes states reloadable. That
underproduction counts days once needs `DaysInv`: the days shown to the rule are
at most `lastKey`, `lastKey` is one of them, and it is not after the day of the
last evaluation. Only then does the refusal of older inputs (`InOrder`) exclude a
day that lies before `lastKey` and was never seen. That the offline alert stands
for silence relates the rule's count to the history `evidence` (`HeardInv`): the
rule has counted the distinct times of the failed polls and notices since the last
snapshot that was evaluated, and none is after the last evidence it remembers.

`DailyJobProofs`, for every length of day, schedule and retry delay:

| theorem | states | argument |
|---|---|---|
| `JobsStaySound` | `Spec => []JobsSound` | `RunnerInv`: a job has completed, for its day, every step before the one it is at (`StepsInv`), and began when its schedule had come (`JobInv`) |

`LimiterProofs`, for any finite sets of keys and attempts, limit, window and
capacity:

| theorem | states | argument |
|---|---|---|
| `AccountsStayBalanced` | `Spec => []AccountsBalance` | `LimiterInv`, kept by each helper of the code in turn (`removeEvictable`, expiry, eviction, insertion) and then by the operations |
| `PendingIsSpared` | `Spec => PendingNotEvicted` | only listed buckets are evicted, and a bucket is listed exactly when nothing is pending |

The books need more than the property says: serial numbers are distinct and none
is larger than the counter, so that a completion that finds another bucket under
its key cannot take it for its own; `own` never exceeds `failures`; and a bucket
that does not exist is `NoBucket` in every field.

`RuntimeProofs`, for any number of settings requests, served during start-up or
not, and every fault of the model:

| theorem | states | argument |
|---|---|---|
| `OnlyOneCollector` | `Spec => []OneCollector` | `Collecting`: a living collector is the runtime's current one; who holds `configureMu` has seen it and starts another only after it has stopped |
| `ClosesWhenQuiet` | `Spec => []ClosedWhenQuiet` | `Stopping` (what each phase of the shutdown can rely on) and `Retained` (a worker that outlived its runner sets `retainResources` before the runner is gone) |
| `LocksStayBalanced` | `Spec => []TypeOK` | `LocksInv`: each mutex is held by the process whose program counter says so |
| `SettingsStayInForce` | `Spec => []SettingsInForce` | `InForce`: the reader's settings and the summaries' calendar are those in the database or overtaken, and inside `Apply` those that a failure goes back to (`Reading`); the billing calendar is right, overtaken, or about to be set by a process whose `Apply` has just succeeded (`Billed`); nothing has failed on the way to the save (`Asking`), and before the first `Apply` nobody wants anything else than what is stored (`Wants`) |

`LiveViewProofs`, for every bound on time, breaks and the wire:

| theorem | states | argument |
|---|---|---|
| `PageNeverGoesBack` | `Spec => NeverBack` | `ViewInv`: what is in the slot, on the wire, in the fetch and in the cache are states the server has been in, and an answer is never older than the cache, because applying an event cancels the fetch |
| `PageStaysCurrent` | `Spec => []PageIsCurrent` | `Whereabouts`: while the stream is open the newest reading is in the slot, on the wire or in the cache with no older answer on its way, or was replaced |

`WebAppProofs`, for any documents, texts, wizard and bounds (it extends `WebApp` and `HistoryPage`):

| theorem | states | argument |
|---|---|---|
| `RequestsStaySound` | `Spec => []RequestsSound` | `AccessInv`: a form that has sent is not `started` again before its answer; a token is old by the page's own doing only while the answer with the new one is on its way |
| `EditorStaysHonest` | `Spec => []EditorHonest` | `EditorInv`, below |
| `EveryFormAgrees` | for every form (`IsForm`): passed by the wizard ⇒ converted without an exception; passed by the wizard or the editor ⇒ refused only for a public address or an unknown zone; stored ⇒ reopens valid, unchanged and with the same logger; refused ⇒ shown at a field of the check | a form without errors converts to `Proper` settings, which no check but those two refuses and which the editor's texts give back (`TariffBack`, `IntegerBack`, `DecimalBack`) |
| `FormsStayAgreed` | `Spec => []FormsAgree` | the forms of an instance are forms (`FilledForm`) |
| `PageStaysSound` | `PageSpec => []PageSound` | `PageInv`: every entry that was shown is read as the period it was shown with, at any time, in its zone (`EntriesSound`), answers lie under their own dates (`AnswersKeyed`), and the mounted period is that of the current entry (`MountSound`) |
| `EntriesKeepPeriods` | `PageSpec => EntryKeepsPeriod` | from `PageInv` |
| `PeriodsAreLocal` | `PageSpec => PeriodIsLocal` | `LocalPeriod`, below |
| `CorrectionsSuffice` | `zonedCalendarToDate` finds an instant with the wanted local time in any zone with one change of its offset, wherever there is one; of two, the one its first correction gives | `Civil` undoes `UTC` (`CivilBack`); then the three candidates are compared with the instant of the change |

`EditorHonest` is not inductive. That a notice is about others needs `StoredInv`:
as long as only this editor saves, what the page has is what the server has,
except while the answer of its own save is on the way, and then the answer has it;
and `SaveInv`: a save is the editor's own exactly while the editor says that it
saves. The attempt found the case of an editor that loses its save (section 4).

The three theorems about the history page assume `CalendarReaches(Addresses)`:
the page's addresses are two years away from the ends of the modelled calendar.
Nothing is assumed of what the calendar computes. Months have 28 to 31 days and
years 365 or 366 and follow each other without holes (`MonthLength`, `YearLength`,
`MonthsInOrder`), so `periodStart` and `shiftCalendar` give the first local hour of
the period, of the next and of the one before (`StartIs`, `Neighbours`). Their
instants are off by one of the zone's two offsets (`Ends`). As these differ by less
than half a day, the middle of the dates lies in the period again, so the address
names it (`AddressNames`), whether or not the zone is `Regular`; and in a `Regular`
zone they are the first instants of local days (`FirstInstant`), so the period is
exactly the local one (`LocalPeriod`).

Assumptions on constants are named in the modules and evaluated by
every run. They are what the code gives for granted: positive durations, limits
and bounds; finite sets of keys and attempts; offsets of a day at most that
change by less than half a day; `None` is not a state, an event, a
process or a document.

Only model-checked:

- liveness and everything that needs `ENABLED`, which the prover does not support:
  `OwnExpiryNoticed`, `CancelStops`, `CallsEnd`, `RunnerProgresses`,
  `WakeupServed`, `CatchesUp`, `OutageNoticed`, `AccessProgress`,
  `EditorProgress`;
- `ViewExact`: sums over sequences of any length are folds, and what a fold
  computes needs induction over data.

## 6. Not modelled

What pages draw, styles, themes, the finance, insight and Solarman panels (fetch
and show, or one request each), the CSV link; the computation of signatures and
tokens; wording and formatting of errors, statuses and evidence; frame and CRC layouts
(test vectors cover them); floating point statistics and solar geometry (out of
TLC's reach); page parsing of tariff and weather sources; HTTP decoding, static
routing and configuration; backups (one SQLite statement); migrations (run
before anything else). SQLite transactions are atomic actions. The components
that are planned and not yet modelled are in section 2 and, with the reason, in
`PROJECT.json`.
