------------------------------- MODULE LiveView -------------------------------
(***************************************************************************)
(* The live page: useLiveTelemetry keeps one cached state, filled by       *)
(* fetches of /api/v1/live and by the events of an EventSource.  The       *)
(* server's side of the stream (internal/api/sse.go) and its newest state  *)
(* are here as far as the browser can tell: a subscription holds one       *)
(* unread event, the stream begins with the newest state, connections      *)
(* break, the process restarts.                                            *)
(*                                                                         *)
(* A reading is known by its time; 0 is none, Go's zero time.  boot        *)
(* numbers the server processes and is history in the browser's copies.    *)
(***************************************************************************)
EXTENDS Naturals, Sequences

CONSTANTS
  None,
  StaleAfter,     \* collector: age at which telemetry is marked stale (30 s)
  OldAfter,       \* useLiveTelemetry: age at which data are old (30 s)
  MaxNow,         \* bound on the clock
  MaxBreaks,      \* bound: broken connections, restarts and refused streams
  MaxWire         \* bound: events on the wire that let the server write more

ASSUME AgesAssumption == StaleAfter \in Nat \ {0} /\ OldAfter \in Nat
ASSUME LimitsAssumption == {MaxNow, MaxWire} \subseteq Nat \ {0} /\ MaxBreaks \in Nat

VARIABLES
  now,          \* real time
  latest,       \* server: collector state
  conn,         \* server: "closed", "greeting" (subscribed), "open"
  slot,         \* server: unread event of the subscription
  cut,          \* history: newest reading whose event a "state" event replaced in the slot
  wire,         \* what the stream has sent and the browser not yet seen
  source,       \* EventSource: "connecting", "open", "failed"
  stream,       \* streamState
  cache,        \* query.data
  status,       \* query.status
  fetch,        \* GET /api/v1/live: phase, and the state in an answer
  clock,        \* the hook's clock
  offline,      \* navigator is offline
  breaks        \* broken connections, restarts and refusals so far

server == <<latest, conn, slot, cut>>
browser == <<source, stream, cache, status, fetch, clock, offline>>
vars == <<now, latest, conn, slot, cut, wire, source, stream, cache, status, fetch, clock,
          offline, breaks>>

Times == 0..MaxNow
LiveState == [last : Times, snap : Times, stale : BOOLEAN, boot : 0..MaxBreaks]
NoReading(b) == [last |-> 0, snap |-> 0, stale |-> FALSE, boot |-> b]
Event == [kind : {"snapshot", "state"}, bare : BOOLEAN, state : LiveState]
ASSUME NoneAssumption == None \notin LiveState \cup Event
Signals == {"open", "error", "refused"}
Signal(k) == [kind |-> k, bare |-> FALSE, state |-> None]
Fetch(p) == [phase |-> p, state |-> None]
Answer(s) == [phase |-> "answered", state |-> s]

Init ==
  /\ now = 1
  /\ latest = NoReading(0)
  /\ conn = "closed" /\ slot = None /\ cut = 0 /\ wire = <<>>
  /\ source = "connecting" /\ stream = "connecting"
  /\ cache = None /\ status = "pending" /\ fetch = Fetch("asked")
  /\ clock = 1 /\ offline = FALSE
  /\ breaks = 0

-----------------------------------------------------------------------------
(* The server. *)

(* Hub.Publish: the newest event replaces an unread one. *)
Publish(kind, state) ==
  /\ slot' = IF conn = "closed" THEN None ELSE [kind |-> kind, bare |-> FALSE, state |-> state]
  /\ cut' = IF kind = "state" /\ slot # None /\ slot.kind = "snapshot" THEN slot.state.last ELSE cut

ReadLogger ==
  /\ latest.last < now
  /\ latest' = [latest EXCEPT !.last = now, !.snap = now, !.stale = FALSE]
  /\ Publish("snapshot", latest')
  /\ UNCHANGED <<now, conn, wire, browser, breaks>>

(* recordError keeps the reading; the error's text is left out. *)
ReadFails ==
  /\ Publish("state", latest)
  /\ UNCHANGED <<now, latest, conn, wire, browser, breaks>>

MarkStale ==
  /\ latest.last > 0 /\ ~latest.stale /\ now - latest.last >= StaleAfter
  /\ latest' = [latest EXCEPT !.stale = TRUE]
  /\ Publish("state", latest')
  /\ UNCHANGED <<now, conn, wire, browser, breaks>>

(* events subscribes first and reads the newest state second. *)
Subscribe ==
  /\ source = "connecting" /\ conn = "closed" /\ wire = <<>>
  /\ conn' = "greeting" /\ slot' = None
  /\ UNCHANGED <<now, latest, cut, wire, browser, breaks>>

Greet ==
  /\ conn = "greeting"
  /\ conn' = "open"
  /\ wire' = <<Signal("open"), [kind |-> "state", bare |-> TRUE, state |-> latest]>>
  /\ UNCHANGED <<now, latest, slot, cut, browser, breaks>>

(* writeSSE sends the hub's event as it is: the state of a "state" event is *)
(* a field of it, unlike in the greeting.                                   *)
WriteEvent ==
  /\ conn = "open" /\ slot # None /\ Len(wire) < MaxWire
  /\ wire' = Append(wire, slot) /\ slot' = None
  /\ UNCHANGED <<now, latest, conn, cut, browser, breaks>>

(* The connection breaks after some of what was sent; or it is not accepted *)
(* at all, and with an HTTP status an EventSource gives up for good.        *)
Break ==
  /\ conn # "closed" /\ breaks < MaxBreaks
  /\ conn' = "closed" /\ slot' = None
  /\ \E k \in 0..Len(wire) : wire' = Append(SubSeq(wire, 1, k), Signal("error"))
  /\ breaks' = breaks + 1
  /\ UNCHANGED <<now, latest, cut, browser>>

RefuseStream ==
  /\ source = "connecting" /\ conn = "closed" /\ wire = <<>> /\ breaks < MaxBreaks
  /\ wire' = <<Signal("refused")>>
  /\ breaks' = breaks + 1
  /\ UNCHANGED <<now, server, browser>>

RestartServer ==
  /\ breaks < MaxBreaks
  /\ latest' = NoReading(latest.boot + 1)
  /\ conn' = "closed" /\ slot' = None /\ cut' = 0
  /\ wire' = IF conn = "closed" THEN wire ELSE Append(wire, Signal("error"))
  /\ breaks' = breaks + 1
  /\ UNCHANGED <<now, browser>>

(* GET /api/v1/live reads the newest state; the answer takes its time. *)
AnswerFetch ==
  /\ fetch.phase = "asked" /\ ~offline
  /\ fetch' \in {Answer(latest), Fetch("failed")}
  /\ UNCHANGED <<now, server, wire, source, stream, cache, status, clock, offline, breaks>>

-----------------------------------------------------------------------------
(* The browser. *)

MixedMerge(current, incoming) ==       \* Mutant: the event's snapshot is taken whatever its time
  IF current = None THEN incoming
  ELSE LET fresh == incoming.last >= current.last
       IN  [(IF fresh THEN incoming ELSE current) EXCEPT !.snap = incoming.snap]

MergeState(current, incoming) ==
  IF current = None THEN incoming
  ELSE LET fresh == incoming.last >= current.last
       IN  [(IF fresh THEN incoming ELSE current) EXCEPT
              !.snap = IF incoming.snap >= current.snap THEN incoming.snap ELSE current.snap]

(* isState finds no field "stale" in a "state" event that is not bare. *)
ParseLiveEvent(m) ==
  IF m.kind = "snapshot" \/ m.bare THEN m.state ELSE None

(* refetchQueries: a running fetch is started over, unless there are no     *)
(* data yet, when it goes on.                                               *)
Refetch ==
  /\ fetch' = IF cache = None /\ fetch.phase # "none" THEN fetch ELSE Fetch("asked")
  /\ status' = IF cache = None THEN "pending" ELSE status
  /\ UNCHANGED cache

ApplyKeepsFetch(m) ==       \* Mutant: no cancelQueries
  LET parsed == ParseLiveEvent(m)
  IN  IF parsed = None THEN UNCHANGED <<cache, status, fetch, stream>>
      ELSE /\ cache' = MergeState(cache, parsed)
           /\ status' = "success" /\ stream' = "connected"
           /\ UNCHANGED fetch

Apply(m) ==
  LET parsed == ParseLiveEvent(m)
  IN  IF parsed = None THEN UNCHANGED <<cache, status, fetch, stream>>
      ELSE /\ fetch' = Fetch("none")
           /\ cache' = MergeState(cache, parsed)
           /\ status' = "success" /\ stream' = "connected"

NoReconnect ==       \* Mutant: the error handler closes the source
  /\ stream' = "reconnecting"
  /\ Refetch
  /\ UNCHANGED source

(* EventSource reconnects by itself after a broken connection. *)
OnError ==
  /\ stream' = "reconnecting" /\ source' = "connecting"
  /\ Refetch

Receive ==
  /\ wire # <<>>
  /\ wire' = Tail(wire)
  /\ LET m == Head(wire)
     IN  \/ /\ m.kind = "open"
            /\ stream' = "connected" /\ source' = "open"
            /\ Refetch
         \/ m.kind = "error" /\ OnError
         \/ /\ m.kind = "refused"
            /\ stream' = "reconnecting" /\ source' = "failed"
            /\ Refetch
         \/ m.kind \in {"snapshot", "state"} /\ Apply(m) /\ UNCHANGED source
  /\ UNCHANGED <<now, server, clock, offline, breaks>>

FetchDone ==
  /\ fetch.phase = "answered"
  /\ cache' = fetch.state /\ status' = "success" /\ fetch' = Fetch("none")
  /\ UNCHANGED <<now, server, wire, source, stream, clock, offline, breaks>>

(* After its retries: the data stay, the status changes. *)
FetchFails ==
  /\ fetch.phase = "failed"
  /\ status' = "error" /\ fetch' = Fetch("none")
  /\ UNCHANGED <<now, server, wire, source, stream, cache, clock, offline, breaks>>

(* Window focus, network reconnect and the button refetch too. *)
Focus ==
  /\ fetch.phase = "none"
  /\ Refetch
  /\ UNCHANGED <<now, server, wire, source, stream, clock, offline, breaks>>

ClockTick ==
  /\ clock # now
  /\ clock' = now
  /\ UNCHANGED <<now, server, wire, source, stream, cache, status, fetch, offline, breaks>>

Online ==
  /\ offline' = ~offline
  /\ UNCHANGED <<now, server, wire, source, stream, cache, status, fetch, clock, breaks>>

Tick ==
  /\ now < MaxNow
  /\ now' = now + 1
  /\ UNCHANGED <<server, wire, browser, breaks>>

NoClock ==       \* Mutant: only the server's flag counts
  IF offline THEN "offline"
  ELSE IF (cache = None \/ cache.snap = 0) /\ status = "error" THEN "unavailable"
  ELSE IF status = "pending" \/ stream = "connecting" THEN "loading"
  ELSE IF stream = "reconnecting" THEN "reconnecting"
  ELSE IF cache.stale THEN "stale"
  ELSE "connected"

(* isOld. A server without a reading sends Go's zero time, the year 1, as   *)
(* its last success (omitempty keeps a time.Time), which is always old.     *)
IsOld(last, at) == last = 0 \/ at > last + OldAfter

(* The badge. *)
ConnectionState ==
  IF offline THEN "offline"
  ELSE IF (cache = None \/ cache.snap = 0) /\ status = "error" THEN "unavailable"
  ELSE IF status = "pending" \/ stream = "connecting" THEN "loading"
  ELSE IF stream = "reconnecting" THEN "reconnecting"
  ELSE IF cache.stale \/ IsOld(cache.last, clock) THEN "stale"
  ELSE "connected"

Next ==
  \/ ReadLogger \/ ReadFails \/ MarkStale \/ Subscribe \/ Greet \/ WriteEvent
  \/ Break \/ RefuseStream \/ RestartServer \/ AnswerFetch
  \/ Receive \/ FetchDone \/ FetchFails \/ Focus \/ ClockTick \/ Online \/ Tick

Spec == Init /\ [][Next]_vars

(* The stream's goroutine and the browser's event loop run what is ready;   *)
(* the interval goes on; the collector marks what is old; time passes.      *)
FairSpec ==
  /\ Spec
  /\ WF_vars(Subscribe) /\ WF_vars(Greet) /\ WF_vars(WriteEvent) /\ WF_vars(Receive)
  /\ WF_vars(FetchDone \/ FetchFails) /\ WF_vars(ClockTick)
  /\ WF_vars(MarkStale) /\ WF_vars(Tick)

-----------------------------------------------------------------------------
(* Types of the state at the server, on the stream and on the page. *)
TypeOK ==
  /\ now \in 1..MaxNow /\ clock \in 1..MaxNow
  /\ latest \in LiveState /\ conn \in {"closed", "greeting", "open"}
  /\ slot \in Event \cup {None} /\ cut \in Times
  /\ wire \in Seq(Event \cup {Signal(k) : k \in Signals})
  /\ source \in {"connecting", "open", "failed"}
  /\ stream \in {"connecting", "connected", "reconnecting"}
  /\ cache \in LiveState \cup {None}
  /\ status \in {"pending", "success", "error"}
  /\ fetch \in [phase : {"none", "asked", "failed", "answered"}, state : LiveState \cup {None}]
  /\ offline \in BOOLEAN /\ breaks \in 0..MaxBreaks

(* Neither a late answer nor a late event takes the page back in time; only *)
(* an answer of a new server process may.                                   *)
NeverBack ==
  [][cache # None /\ cache'.boot = cache.boot
       => cache'.last >= cache.last /\ cache'.snap >= cache.snap]_vars

(* The page dates a reading by lastSuccess: it is the time of that reading, *)
(* although mergeState chooses the two apart.                               *)
ReadingAndTimeAgree == cache # None => cache.snap = cache.last

(* When the stream is open and nothing is on its way, the page has the      *)
(* server's newest reading, whatever was lost while it reconnected; only a  *)
(* reading whose event was replaced by one parseLiveEvent drops is missing. *)
QuietIsCurrent ==
  conn = "open" /\ slot = None /\ wire = <<>>
    => cache # None /\ (cache.last >= latest.last \/ cut = latest.last)

(* Every reading, or a newer one, reaches a page whose stream was not       *)
(* refused, unless its event was replaced or the server restarts.           *)
CatchesUp ==
  \A t \in 1..MaxNow :
    latest.last = t ~> \/ cache # None /\ cache.last >= t
                      \/ source = "failed" \/ cut >= t \/ latest.last = 0

(* What the page shows is whole and, in a quiet moment, the newest. *)
PageIsCurrent == TypeOK /\ ReadingAndTimeAgree /\ QuietIsCurrent

(* "Ao vivo" ends once the readings are old, with the stream silent, and    *)
(* does not stay over a page that has none: also after it took over the     *)
(* empty state of a restarted server.                                       *)
OutageNoticed ==
  (cache # None /\ IsOld(cache.last, now))
    ~> (ConnectionState # "connected" \/ ~IsOld(cache.last, now))

(* useLiveTelemetry.test.ts: a 'state' event that says stale makes the      *)
(* cache stale.  So the stream of a stale server does.                      *)
StaleReachesPage ==
  (latest.stale /\ conn = "open" /\ source = "open" /\ cache # None)
    ~> (cache # None /\ cache.stale) \/ ~latest.stale \/ conn # "open"
=============================================================================
