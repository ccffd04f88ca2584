------------------------------ MODULE AlexaRelay ------------------------------
(***************************************************************************)
(* The Alexa relay (integrations/alexa-relay): it receives signed          *)
(* snapshots from Helio, keeps the newest one and the installed devices in *)
(* memory and in a file, and pushes the snapshot to every widget through   *)
(* Alexa's Data Store.  Any snapshot may arrive at any time: the publisher *)
(* retries, and what it gave up on may still be on its way.                *)
(*                                                                         *)
(* The relay is one Node process: a step is the code between two awaits.   *)
(* A request that must be saved waits in saves until its write has ended,  *)
(* then in settled until its handler continues.                            *)
(***************************************************************************)
EXTENDS Naturals, Sequences, FiniteSets

CONSTANTS
  Devices,        \* Alexa devices that may install the widget
  Readings,       \* snapshots Helio may publish
  None,
  DeviceLimit,    \* 20 in state.js
  Window,         \* tolerated clock difference, five minutes in app.js
  MaxNow,         \* bound on the clock
  MaxFaults,      \* bound: failing writes of the state file
  MaxCrashes,     \* bound: ends of the relay process
  MaxHandlers     \* bound: handlers waiting for a save, and immediates

Snapshot == [at : Nat \ {0}, stale : BOOLEAN, normal : BOOLEAN]

ASSUME ReadingsAssumption == Readings \subseteq Snapshot /\ None \notin Snapshot
ASSUME BoundsAssumption ==
  /\ DeviceLimit \in Nat /\ Window \in Nat /\ MaxNow \in Nat
  /\ MaxFaults \in Nat /\ MaxCrashes \in Nat /\ MaxHandlers \in Nat

VARIABLES
  now,          \* clock
  up,           \* the relay process runs
  data,         \* StateStore.#data
  file,         \* state.json
  saves,        \* StateStore.#writeQueue: writes not yet ended
  settled,      \* handlers whose save has ended
  healthy,      \* #writeQueue is not rejected
  running,      \* pushScheduler
  pending,      \* pushScheduler
  immediates,   \* setImmediate(schedule) not yet run
  loops,        \* the push loops; one at most in correct code
  widget,       \* what each device shows
  excused,      \* history: devices whose last push failed or was never made
  acked,        \* history: time of the newest snapshot answered as updated
  faults,       \* failed writes so far
  crashes       \* ends of the process so far

store == <<data, file, saves, healthy>>
scheduler == <<running, pending, immediates, loops>>
bounds == <<now, acked, faults, crashes>>
vars == <<now, up, data, file, saves, settled, healthy, running, pending, immediates, loops,
          widget, excused, acked, faults, crashes>>

At(s) == IF s = None THEN 0 ELSE s.at
EmptyState == [snapshot |-> None, devices |-> {}]
State == [snapshot : Readings \cup {None}, devices : SUBSET Devices]
Continuation == [kind : {"ingest", "install", "remove"}, at : Nat]
Write == [content : State, then : Continuation]      \* a save in the queue
Outcome == [then : Continuation, ok : BOOLEAN]       \* a save that has ended

Loops == 1..2
NoLoop == [phase |-> "off", snapshot |-> None, devices |-> {}, retry |-> TRUE]
Loop == [phase : {"off", "empty", "exit"}, snapshot : Readings \cup {None},
         devices : SUBSET Devices, retry : BOOLEAN]
        \cup [phase : {"token", "send"}, snapshot : Readings,
              devices : SUBSET Devices, retry : BOOLEAN]

(* What a widget shows for a snapshot: displaySnapshot. *)
Look == {"blank", "outdated", "normal", "check"}
Blank == [at |-> 0, look |-> "blank"]

Display(s) ==
  [at |-> s.at,
   look |-> IF s.stale THEN "outdated" ELSE IF s.normal THEN "normal" ELSE "check"]

Init ==
  /\ now = 0
  /\ up = TRUE /\ data = EmptyState /\ file = EmptyState
  /\ saves = <<>> /\ settled = <<>> /\ healthy = TRUE
  /\ running = FALSE /\ pending = FALSE /\ immediates = 0
  /\ loops = [l \in Loops |-> NoLoop]
  /\ widget = [d \in Devices |-> Blank]
  /\ excused = {}
  /\ acked = 0
  /\ faults = 0 /\ crashes = 0

-----------------------------------------------------------------------------
(* The state store.  A save captures its content when it is asked for and   *)
(* is written after all earlier ones; one failed write rejects the queue    *)
(* and with it every later save.                                            *)

AnswerFirst(content, continuation) ==       \* Mutant: the handler does not await the save
  /\ saves' = Append(saves, [content |-> content, then |-> continuation])
  /\ settled' = Append(settled, [then |-> continuation, ok |-> TRUE])

Save(content, continuation) ==
  IF healthy
  THEN /\ saves' = Append(saves, [content |-> content, then |-> continuation])
       /\ UNCHANGED settled
  ELSE /\ settled' = Append(settled, [then |-> continuation, ok |-> FALSE])
       /\ UNCHANGED saves

ParallelSaves ==       \* Mutant: writes do not wait for each other
  \E i \in 1..Len(saves) :
    /\ file' = saves[i].content
    /\ saves' = [j \in 1..(Len(saves) - 1) |-> IF j < i THEN saves[j] ELSE saves[j + 1]]
    /\ settled' = Append(settled, [then |-> saves[i].then, ok |-> TRUE])
    /\ UNCHANGED <<now, up, data, healthy, scheduler, widget, excused, acked, faults, crashes>>

(* Temporary file and rename: the content is there as a whole or not at all. *)
WriteDone ==
  /\ up /\ healthy /\ saves # <<>>
  /\ file' = Head(saves).content
  /\ saves' = Tail(saves)
  /\ settled' = Append(settled, [then |-> Head(saves).then, ok |-> TRUE])
  /\ UNCHANGED <<now, up, data, healthy, scheduler, widget, excused, acked, faults, crashes>>

WriteFails ==
  /\ up /\ healthy /\ saves # <<>> /\ faults < MaxFaults
  /\ healthy' = FALSE
  /\ faults' = faults + 1
  /\ settled' = settled \o [i \in 1..Len(saves) |-> [then |-> saves[i].then, ok |-> FALSE]]
  /\ saves' = <<>>
  /\ UNCHANGED <<now, up, data, file, scheduler, widget, excused, acked, crashes>>

HandlerFree == Len(saves) + Len(settled) + immediates < MaxHandlers
-----------------------------------------------------------------------------
(* The push scheduler.  schedule starts a loop unless one runs; the loop's  *)
(* end and the promise's finally are separate microtasks.                   *)

Push == [phase |-> IF data.snapshot = None \/ data.devices = {} THEN "empty" ELSE "token",
         snapshot |-> data.snapshot, devices |-> data.devices, retry |-> TRUE]

FreeLoop == CHOOSE l \in Loops : loops[l].phase = "off"

Schedule ==
  /\ running' = TRUE
  /\ IF running
     THEN pending' = TRUE /\ UNCHANGED loops
     ELSE pending' = FALSE /\ loops' = [loops EXCEPT ![FreeLoop] = Push]
  /\ excused' = {}

(* A push has ended; devices in failed may still show something else. *)
LoopGoesOn(l, failed) ==
  IF pending
  THEN /\ pending' = FALSE
       /\ loops' = [loops EXCEPT ![l] = Push]
       /\ excused' = {}
  ELSE /\ loops' = [loops EXCEPT ![l] = [NoLoop EXCEPT !.phase = "exit"]]
       /\ excused' = excused \cup failed
       /\ UNCHANGED pending

PushEmpty(l) ==
  /\ loops[l].phase = "empty"
  /\ LoopGoesOn(l, {})
  /\ UNCHANGED <<up, store, settled, running, immediates, widget, bounds>>

(* #accessToken: a cached token, a granted one, or an error. *)
AccessToken(l) ==
  /\ loops[l].phase = "token"
  /\ \/ /\ loops' = [loops EXCEPT ![l].phase = "send"]
        /\ UNCHANGED <<pending, excused>>
     \/ LoopGoesOn(l, loops[l].devices)
  /\ UNCHANGED <<up, store, settled, running, immediates, widget, bounds>>

Shown(l, reached) ==
  [d \in Devices |-> IF d \in reached THEN Display(loops[l].snapshot) ELSE widget[d]]

(* The Data Store answers: the devices in reached took the content. *)
SendAnswered(l) ==
  /\ loops[l].phase = "send"
  /\ \E reached \in SUBSET loops[l].devices :
       /\ widget' = Shown(l, reached)
       /\ LoopGoesOn(l, loops[l].devices \ reached)
  /\ UNCHANGED <<up, store, settled, running, immediates, bounds>>

AlwaysRetry(l) ==       \* Mutant: every 401 is tried again
  /\ loops[l].phase = "send"
  /\ loops' = [loops EXCEPT ![l].phase = "token"]
  /\ UNCHANGED <<up, store, settled, running, pending, immediates,
                 widget, excused, bounds>>

(* The first 401 drops the cached token and starts over. *)
SendUnauthorized(l) ==
  /\ loops[l].phase = "send"
  /\ IF loops[l].retry
     THEN /\ loops' = [loops EXCEPT ![l].phase = "token", ![l].retry = FALSE]
          /\ UNCHANGED <<pending, excused>>
     ELSE LoopGoesOn(l, loops[l].devices)
  /\ UNCHANGED <<up, store, settled, running, immediates, widget, bounds>>

ForgetfulFinally(l) ==       \* Mutant: what was scheduled since the loop ended is dropped
  /\ loops[l].phase = "exit"
  /\ loops' = [loops EXCEPT ![l] = NoLoop]
  /\ running' = FALSE
  /\ UNCHANGED <<up, store, settled, pending, immediates, widget, excused, bounds>>

Finally(l) ==
  /\ loops[l].phase = "exit"
  /\ loops' = [loops EXCEPT ![l] = NoLoop]
  /\ running' = FALSE
  /\ immediates' = IF pending THEN immediates + 1 ELSE immediates
  /\ UNCHANGED <<up, store, settled, pending, widget, excused, bounds>>

Immediate ==
  /\ immediates > 0
  /\ immediates' = immediates - 1
  /\ Schedule
  /\ UNCHANGED <<up, store, settled, widget, bounds>>
-----------------------------------------------------------------------------
(* HTTP handlers.  A request whose body, timestamp or signature is wrong    *)
(* changes nothing; age is how long a signed one was on its way.            *)

Refused(s, age) == age > Window \/ s.at > now + Window

OnlyIdentical(s) == data.snapshot = s       \* Mutant: an older snapshot replaces a newer one

(* updateSnapshot leaves the state alone: older, or the same as now. *)
NotNews(s) == At(data.snapshot) > s.at \/ data.snapshot = s

Ingest(s, age) ==
  /\ up /\ HandlerFree
  /\ ~Refused(s, age) /\ ~NotNews(s)
  /\ data' = [data EXCEPT !.snapshot = s]
  /\ Save(data', [kind |-> "ingest", at |-> s.at])
  /\ UNCHANGED <<up, file, healthy, scheduler, widget, excused, bounds>>

(* UsagesInstalled.  A known device only asks for another push; one beyond *)
(* the limit is an error and changes nothing.                              *)
Install(d) ==
  /\ up /\ HandlerFree
  /\ IF d \in data.devices
     THEN Schedule /\ UNCHANGED <<data, saves, settled>>
     ELSE /\ Cardinality(data.devices) < DeviceLimit
          /\ data' = [data EXCEPT !.devices = @ \cup {d}]
          /\ Save(data', [kind |-> "install", at |-> 0])
          /\ UNCHANGED <<running, pending, loops, excused>>
  /\ UNCHANGED <<up, file, healthy, immediates, widget, bounds>>

Remove(d) ==
  /\ up /\ HandlerFree
  /\ d \in data.devices
  /\ data' = [data EXCEPT !.devices = @ \ {d}]
  /\ Save(data', [kind |-> "remove", at |-> 0])
  /\ UNCHANGED <<up, file, healthy, scheduler, widget, excused, bounds>>

(* The handler goes on after its save: schedulePush and the answer, or the *)
(* error, after which nobody schedules what memory already holds.          *)
Resume ==
  /\ settled # <<>>
  /\ LET h == Head(settled)
     IN  /\ IF h.ok /\ h.then.kind # "remove" THEN Schedule
            ELSE /\ excused' = IF h.ok THEN excused ELSE Devices
                 /\ UNCHANGED <<running, pending, loops>>
         /\ acked' = IF h.ok /\ h.then.at > acked THEN h.then.at ELSE acked
  /\ settled' = Tail(settled)
  /\ UNCHANGED <<up, store, immediates, widget, now, faults, crashes>>

-----------------------------------------------------------------------------
Tick ==
  /\ now < MaxNow
  /\ now' = now + 1
  /\ UNCHANGED <<up, store, settled, scheduler, widget, excused, acked, faults, crashes>>

(* The process ends, by a crash or by a signal: memory and promises are gone. *)
Crash ==
  /\ up /\ crashes < MaxCrashes
  /\ up' = FALSE /\ crashes' = crashes + 1
  /\ data' = EmptyState /\ saves' = <<>> /\ settled' = <<>> /\ healthy' = TRUE
  /\ running' = FALSE /\ pending' = FALSE /\ immediates' = 0
  /\ loops' = [l \in Loops |-> NoLoop]
  /\ excused' = Devices
  /\ UNCHANGED <<now, file, widget, acked, faults>>

(* server.js loads the file before it listens. *)
Restart ==
  /\ ~up
  /\ up' = TRUE
  /\ data' = file
  /\ UNCHANGED <<file, saves, settled, healthy, scheduler, widget, excused, bounds>>

PushStep(l) ==
  PushEmpty(l) \/ AccessToken(l) \/ SendAnswered(l) \/ SendUnauthorized(l) \/ Finally(l)

Next ==
  \/ \E s \in Readings, age \in 0..(Window + 1) : Ingest(s, age)
  \/ \E d \in Devices : Install(d) \/ Remove(d)
  \/ WriteDone \/ WriteFails \/ Resume
  \/ \E l \in Loops : PushStep(l)
  \/ Immediate \/ Tick \/ Crash \/ Restart

Spec == Init /\ [][Next]_vars

(* Node runs what is ready, a write ends, and both requests to Amazon have *)
(* a timeout of ten seconds.                                               *)
FairSpec ==
  /\ Spec
  /\ WF_vars(WriteDone \/ WriteFails) /\ WF_vars(Resume) /\ WF_vars(Immediate)
  /\ \A l \in Loops : WF_vars(PushStep(l))

-----------------------------------------------------------------------------
StoreType ==
  /\ data \in State /\ file \in State
  /\ saves \in Seq(Write) /\ settled \in Seq(Outcome)

SchedulerType == immediates \in Nat /\ loops \in [Loops -> Loop]

WidgetType == widget \in [Devices -> [at : Nat, look : Look]] /\ excused \subseteq Devices

FlagType == up \in BOOLEAN /\ healthy \in BOOLEAN /\ running \in BOOLEAN /\ pending \in BOOLEAN

CountType ==
  now \in 0..MaxNow /\ acked \in Nat /\ faults \in 0..MaxFaults /\ crashes \in 0..MaxCrashes

(* Types of the relay's state, in memory, in the file and on the widgets. *)
TypeOK == StoreType /\ SchedulerType /\ WidgetType /\ FlagType /\ CountType

(* What the write queue will leave in the file is what memory holds: the    *)
(* file of a relay whose writes succeed is never behind for good.           *)
FileFollowsMemory ==
  up /\ healthy => (IF saves = <<>> THEN file ELSE saves[Len(saves)].content) = data

(* No snapshot from beyond the tolerated clock difference is kept, in       *)
(* memory, in the file or on its way there: such a one would shut out every *)
(* later snapshot until the clock has passed it.                            *)
NotFromTheFuture ==
  /\ At(data.snapshot) <= now + Window /\ At(file.snapshot) <= now + Window
  /\ \A i \in 1..Len(saves) : At(saves[i].content.snapshot) <= now + Window

(* No lost wake-up in pushScheduler: an installed device that does not show *)
(* the snapshot in memory has a push under way with it, a push scheduled,   *)
(* or a handler that will schedule one; unless its push failed.             *)
NoLostUpdate ==
  up /\ data.snapshot # None =>
    \A d \in data.devices \ excused :
      \/ widget[d] = Display(data.snapshot)
      \/ immediates > 0 \/ (pending /\ running)
      \/ \E l \in Loops : /\ loops[l].phase \in {"token", "send"}
                          /\ d \in loops[l].devices
                          /\ loops[l].snapshot = data.snapshot
      \/ \E i \in 1..Len(saves) : saves[i].then.kind # "remove"
      \/ \E i \in 1..Len(settled) : settled[i].then.kind # "remove"

(* Two pushes never overlap, so a widget cannot receive an older content    *)
(* after a newer one.                                                       *)
OnePush == Cardinality({l \in Loops : loops[l].phase # "off"}) <= 1

(* The limit of devices holds in memory and in the file, whatever the order *)
(* of installations, removals and restarts.                                 *)
DevicesWithinLimit ==
  Cardinality(data.devices) <= DeviceLimit /\ Cardinality(file.devices) <= DeviceLimit

(* StateStore implements the register of the newest snapshot. *)
Register == INSTANCE LatestRegister WITH
  Values <- Readings, NoValue <- None,
  value <- IF up THEN data.snapshot ELSE file.snapshot, durable <- file.snapshot
RegisterSpec == Register!Spec

(* What was scheduled while a push ran is served: the push ends, however    *)
(* often Alexa answers 401, and the loop or its finally starts another.     *)
WakeupServed == pending ~> ~pending

(* A snapshot answered with "updated" is in the file, so a crash does not   *)
(* take it back.                                                            *)
AckedIsDurable == acked <= At(file.snapshot)

(* The parts of the relay agree with each other at every moment: file and   *)
(* memory, clock and snapshot, pushes, and devices.                         *)
RelaySound == FileFollowsMemory /\ NotFromTheFuture /\ OnePush /\ DevicesWithinLimit
=============================================================================
