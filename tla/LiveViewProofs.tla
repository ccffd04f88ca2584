---------------------------- MODULE LiveViewProofs ----------------------------
(***************************************************************************)
(* What the live page shows is never older than what it has shown, and in  *)
(* a quiet moment it is the newest: for every bound on time, breaks and    *)
(* the wire.                                                               *)
(***************************************************************************)
EXTENDS LiveView, SequenceTheorems, TLAPS

\* A state that the server has been in, up to its newest: of the same process
\* and not newer, or of an earlier process.  Its reading is of its time.
Past(s, newest) ==
  /\ s \in LiveState /\ s.snap = s.last
  /\ s.boot <= newest.boot
  /\ s.boot = newest.boot => s.last <= newest.last

PastEvents(newest) == {e \in Event : Past(e.state, newest)}
Message(newest) == PastEvents(newest) \cup {Signal(k) : k \in Signals}

\* The scalars of TypeOK.
ScalarsOK ==
  /\ now \in 1..MaxNow /\ clock \in 1..MaxNow
  /\ conn \in {"closed", "greeting", "open"} /\ cut \in Times
  /\ source \in {"connecting", "open", "failed"}
  /\ stream \in {"connecting", "connected", "reconnecting"}
  /\ status \in {"pending", "success", "error"}
  /\ offline \in BOOLEAN /\ breaks \in 0..MaxBreaks

ServerOK ==
  /\ latest \in LiveState /\ latest.snap = latest.last
  /\ latest.last <= now /\ latest.boot <= breaks
  /\ slot \in PastEvents(latest) \cup {None}

WireOK == wire \in Seq(Message(latest))

\* The fetch and the cached state; an answer is no older than the cache, since
\* applying an event cancels the fetch.
FetchOK ==
  /\ fetch \in [phase : {"none", "asked", "failed", "answered"}, state : LiveState \cup {None}]
  /\ fetch.phase = "answered" => Past(fetch.state, latest)

CacheOK == cache # None => Past(cache, latest)

NoOldAnswer ==
  fetch.phase = "answered" /\ cache # None /\ fetch.state.boot = cache.boot
    => fetch.state.last >= cache.last

ViewInv == ScalarsOK /\ ServerOK /\ WireOK /\ FetchOK /\ CacheOK /\ NoOldAnswer

\* Message m takes a reading to the page that is as new as t.
Carries(m, t) == (m.kind = "snapshot" \/ m.bare) /\ m.state.last >= t

InSlot == slot # None /\ slot.kind = "snapshot" /\ slot.state.last = latest.last
OnWire == \E i \in 1..Len(wire) : Carries(wire[i], latest.last)

\* The page has the newest reading, and no answer on its way will replace it
\* by an older one.
InCache ==
  /\ cache # None /\ cache.last >= latest.last
  /\ fetch.phase = "answered" => fetch.state.last >= latest.last

\* Where the newest reading is while the stream is open; the greeting is on
\* the wire until the page has data; and the slot holds no old reading.
Whereabouts ==
  /\ conn = "open" => /\ InSlot \/ OnWire \/ InCache \/ cut = latest.last
                      /\ cache # None \/ \E i \in 1..Len(wire) : Carries(wire[i], 0)
  /\ slot # None /\ slot.kind = "snapshot" => InSlot

USE AgesAssumption, LimitsAssumption, NoneAssumption

-----------------------------------------------------------------------------
(* States and messages *)

\* A message that carries a reading is an event of the past.
LEMMA CarrierIsEvent ==
  ASSUME NEW newest, NEW m \in Message(newest), NEW t, Carries(m, t)
  PROVE  m \in PastEvents(newest) /\ Past(m.state, newest) /\ m.state.last \in Nat
<1>1. ASSUME NEW k \in Signals, m = Signal(k) PROVE FALSE
  BY <1>1 DEF Carries, Signal, Signals
<1>2. m \in PastEvents(newest)  BY <1>1 DEF Message
<1> QED  BY <1>2 DEF PastEvents, Past, LiveState, Times

\* The newest state is a state of the past.
LEMMA LatestIsPast ==
  ASSUME NEW newest \in LiveState, newest.snap = newest.last
  PROVE  Past(newest, newest)
BY DEF Past, LiveState, Times

\* Merging two states of the past gives the later of the two.
LEMMA MergePast ==
  ASSUME NEW newest, NEW c, c # None => Past(c, newest), NEW s, Past(s, newest)
  PROVE  /\ Past(MergeState(c, s), newest) /\ MergeState(c, s).last >= s.last
         /\ MergeState(c, s) # None
         /\ c # None => /\ MergeState(c, s).last >= c.last
                        /\ MergeState(c, s).snap >= c.snap
<1>1. CASE c = None
  <2>1. MergeState(c, s) = s  BY <1>1 DEF MergeState
  <2> QED  BY <1>1, <2>1 DEF Past, LiveState, Times
<1>2. CASE c # None
  <2>1. Past(c, newest)  BY <1>2
  <2>2. /\ s.last \in Nat /\ s.snap = s.last /\ c.last \in Nat /\ c.snap = c.last
        /\ s \in LiveState /\ c \in LiveState
    BY <2>1 DEF Past, LiveState, Times
  <2>3. MergeState(c, s) = IF s.last >= c.last THEN s ELSE c
    <3>1. CASE s.last >= c.last
      <4>1. MergeState(c, s) = [s EXCEPT !.snap = s.snap]
        BY <1>2, <2>2, <3>1 DEF MergeState
      <4>2. [s EXCEPT !.snap = s.snap] = s  BY <2>2 DEF LiveState
      <4> QED  BY <3>1, <4>1, <4>2
    <3>2. CASE ~(s.last >= c.last)
      <4>1. MergeState(c, s) = [c EXCEPT !.snap = c.snap]
        BY <1>2, <2>2, <3>2 DEF MergeState
      <4>2. [c EXCEPT !.snap = c.snap] = c  BY <2>2 DEF LiveState
      <4> QED  BY <3>2, <4>1, <4>2
    <3> QED  BY <3>1, <3>2
  <2> QED  BY <1>2, <2>1, <2>2, <2>3
<1> QED  BY <1>1, <1>2

\* The server's state moves on from l to n.
MovesOn(l, n) ==
  /\ {l, n} \subseteq LiveState
  /\ l.boot <= n.boot /\ (n.boot = l.boot => l.last <= n.last)

\* What was past stays past.
LEMMA PastStays ==
  ASSUME NEW l, NEW n, MovesOn(l, n)
  PROVE  /\ \A s : Past(s, l) => Past(s, n)
         /\ PastEvents(l) \subseteq PastEvents(n)
         /\ \A w \in Seq(Message(l)) : w \in Seq(Message(n))
<1>1. ASSUME NEW s, Past(s, l) PROVE Past(s, n)
  BY <1>1 DEF Past, MovesOn, LiveState, Times
<1>2. PastEvents(l) \subseteq PastEvents(n)  BY <1>1 DEF PastEvents
<1>3. Message(l) \subseteq Message(n)  BY <1>2 DEF Message
<1>4. \A w \in Seq(Message(l)) : w \in Seq(Message(n))  BY <1>3, SeqMonotonic
<1> QED  BY <1>1, <1>2, <1>4

-----------------------------------------------------------------------------
(* The invariant of the states *)

\* What a step of the server does to the states held elsewhere.
LEMMA ServerMoves ==
  ASSUME ViewInv, MovesOn(latest, latest'), UNCHANGED <<cache, fetch>>
  PROVE  /\ wire \in Seq(Message(latest')) /\ FetchOK' /\ CacheOK' /\ NoOldAnswer'
         /\ slot \in PastEvents(latest') \cup {None}
<1> USE DEF ViewInv
<1>1. wire \in Seq(Message(latest'))  BY PastStays DEF WireOK
<1>2. FetchOK'  BY PastStays DEF FetchOK
<1>3. CacheOK'  BY PastStays DEF CacheOK
<1>4. NoOldAnswer'  BY DEF NoOldAnswer
<1>5. slot \in PastEvents(latest') \cup {None}  BY PastStays DEF ServerOK
<1> QED  BY <1>1, <1>2, <1>3, <1>4, <1>5

\* Publish leaves an event of the past in the slot.
LEMMA PublishSlot ==
  ASSUME NEW kind \in {"snapshot", "state"}, NEW s, Publish(kind, s), Past(s, latest'),
         slot \in PastEvents(latest) \cup {None}, cut \in Times
  PROVE  slot' \in PastEvents(latest') \cup {None} /\ cut' \in Times
<1>1. s \in LiveState  BY DEF Past
<1>2. [kind |-> kind, bare |-> FALSE, state |-> s] \in PastEvents(latest')
  BY <1>1 DEF PastEvents, Event
<1>3. slot' \in PastEvents(latest') \cup {None}  BY <1>2 DEF Publish
<1>4. cut' \in Times
  <2>1. slot # None => slot.state.last \in Times  BY DEF PastEvents, Past, LiveState
  <2> QED  BY <2>1 DEF Publish
<1> QED  BY <1>3, <1>4

\* A fetch that is started, or not touched.
LEMMA RefetchOK ==
  ASSUME ViewInv, Refetch, UNCHANGED latest
  PROVE  FetchOK' /\ CacheOK' /\ NoOldAnswer' /\ status' \in {"pending", "success", "error"}
<1> USE DEF ViewInv, Refetch
<1>1. status' \in {"pending", "success", "error"}  BY DEF ScalarsOK
<1>2. CacheOK'  BY DEF CacheOK
<1>3. CASE fetch' = fetch  BY <1>1, <1>2, <1>3 DEF FetchOK, NoOldAnswer
<1>4. CASE fetch' = Fetch("asked")  BY <1>1, <1>2, <1>4 DEF FetchOK, NoOldAnswer, Fetch
<1> QED  BY <1>3, <1>4

\* Steps of the server.
LEMMA ServerStep ==
  ASSUME ViewInv,
         \/ ReadLogger \/ ReadFails \/ MarkStale \/ Subscribe \/ Greet \/ WriteEvent
         \/ Break \/ RefuseStream \/ RestartServer \/ Tick
  PROVE  ViewInv'
<1>0. /\ ScalarsOK /\ ServerOK /\ WireOK
      /\ latest \in LiveState /\ latest.last \in Nat /\ latest.boot \in Nat
      /\ now \in Nat /\ breaks \in Nat /\ Len(wire) \in Nat
  BY DEF ViewInv, ServerOK, LiveState, Times, ScalarsOK, WireOK
<1>00. \A k \in Signals : Signal(k) \in Message(latest)  BY DEF Message
<1>1. CASE ReadLogger
  <2>1. /\ latest' = [latest EXCEPT !.last = now, !.snap = now, !.stale = FALSE]
        /\ Publish("snapshot", latest') /\ latest.last < now
        /\ UNCHANGED <<now, conn, wire, browser, breaks>>
    BY <1>1 DEF ReadLogger
  <2>2. /\ latest' \in LiveState /\ latest'.last = now /\ latest'.snap = now
        /\ latest'.boot = latest.boot
    <3>1. now \in Times  BY <1>0 DEF Times, ScalarsOK
    <3> QED  BY <1>0, <2>1, <3>1 DEF LiveState
  <2>3. MovesOn(latest, latest')  BY <1>0, <2>1, <2>2 DEF MovesOn
  <2>4. Past(latest', latest')  BY <2>2, LatestIsPast
  <2>5. slot' \in PastEvents(latest') \cup {None} /\ cut' \in Times
    BY <1>0, <2>1, <2>4, PublishSlot DEF ServerOK, ScalarsOK
  <2>6. ServerOK'  BY <1>0, <2>1, <2>2, <2>5 DEF ServerOK
  <2>7. ScalarsOK'  BY <1>0, <2>1, <2>5 DEF ScalarsOK, browser
  <2> QED  BY <2>1, <2>3, <2>6, <2>7, ServerMoves DEF ViewInv, WireOK, browser
<1>2. CASE ReadFails
  <2>1. Publish("state", latest) /\ UNCHANGED <<now, latest, conn, wire, browser, breaks>>
    BY <1>2 DEF ReadFails
  <2>2. MovesOn(latest, latest')  BY <1>0, <2>1 DEF MovesOn
  <2>3. Past(latest, latest')  BY <1>0, <2>1, LatestIsPast DEF ServerOK
  <2>4. slot' \in PastEvents(latest') \cup {None} /\ cut' \in Times
    BY <1>0, <2>1, <2>3, PublishSlot DEF ServerOK, ScalarsOK
  <2>5. ServerOK' /\ ScalarsOK'  BY <1>0, <2>1, <2>4 DEF ServerOK, ScalarsOK, browser
  <2> QED  BY <2>1, <2>2, <2>5, ServerMoves DEF ViewInv, WireOK, browser
<1>3. CASE MarkStale
  <2>1. /\ latest' = [latest EXCEPT !.stale = TRUE] /\ Publish("state", latest')
        /\ UNCHANGED <<now, conn, wire, browser, breaks>>
    BY <1>3 DEF MarkStale
  <2>2. /\ latest' \in LiveState /\ latest'.last = latest.last /\ latest'.snap = latest.snap
        /\ latest'.boot = latest.boot
    BY <1>0, <2>1 DEF LiveState
  <2>3. MovesOn(latest, latest')  BY <1>0, <2>2 DEF MovesOn
  <2>4. Past(latest', latest')  BY <1>0, <2>2, LatestIsPast DEF ServerOK
  <2>5. slot' \in PastEvents(latest') \cup {None} /\ cut' \in Times
    BY <1>0, <2>1, <2>4, PublishSlot DEF ServerOK, ScalarsOK
  <2>6. ServerOK' /\ ScalarsOK'  BY <1>0, <2>1, <2>2, <2>5 DEF ServerOK, ScalarsOK, browser
  <2> QED  BY <2>1, <2>3, <2>6, ServerMoves DEF ViewInv, WireOK, browser
<1>4. ASSUME UNCHANGED latest, wire' \in Seq(Message(latest)), UNCHANGED browser,
             slot' \in PastEvents(latest) \cup {None}, ScalarsOK', now' >= now, breaks' >= breaks
      PROVE  ViewInv'
  <2>1. MovesOn(latest, latest')  BY <1>0, <1>4 DEF MovesOn
  <2>2. ServerOK'  BY <1>0, <1>4 DEF ServerOK, ScalarsOK
  <2> QED  BY <1>4, <2>1, <2>2, ServerMoves DEF ViewInv, WireOK, browser
<1>5. CASE Subscribe
  BY <1>0, <1>4, <1>5 DEF Subscribe, ScalarsOK, WireOK, browser
<1>6. CASE Greet
  <2>1. [kind |-> "state", bare |-> TRUE, state |-> latest] \in Message(latest)
    BY <1>0, LatestIsPast DEF Message, PastEvents, Event, ServerOK
  <2>2. Signal("open") \in Message(latest)  BY <1>00 DEF Signals
  <2>3. wire' \in Seq(Message(latest))  BY <1>6, <2>1, <2>2 DEF Greet
  <2> QED  BY <1>0, <1>4, <1>6, <2>3 DEF Greet, ScalarsOK, ServerOK, browser
<1>7. CASE WriteEvent
  <2>1. slot \in Message(latest)  BY <1>0, <1>7 DEF WriteEvent, ServerOK, Message
  <2>2. wire' \in Seq(Message(latest))  BY <1>0, <1>7, <2>1 DEF WriteEvent, WireOK
  <2> QED  BY <1>0, <1>4, <1>7, <2>2 DEF WriteEvent, ScalarsOK, browser
<1>8. CASE Break
  <2>1. PICK k \in 0..Len(wire) : wire' = Append(SubSeq(wire, 1, k), Signal("error"))
    BY <1>8 DEF Break
  <2>2. \A i \in 1..k : wire[i] \in Message(latest)  BY <1>0 DEF WireOK
  <2>3. SubSeq(wire, 1, k) \in Seq(Message(latest))  BY <1>0, <2>2, SubSeqProperties
  <2>4. Signal("error") \in Message(latest)  BY <1>00 DEF Signals
  <2>5. wire' \in Seq(Message(latest))  BY <2>1, <2>3, <2>4
  <2> QED  BY <1>0, <1>4, <1>8, <2>5 DEF Break, ScalarsOK, browser
<1>9. CASE RefuseStream
  <2>1. Signal("refused") \in Message(latest)  BY <1>00 DEF Signals
  <2>2. wire' \in Seq(Message(latest))  BY <1>9, <2>1 DEF RefuseStream
  <2> QED  BY <1>0, <1>4, <1>9, <2>2 DEF RefuseStream, ScalarsOK, ServerOK, browser, server
<1>10. CASE RestartServer
  <2>1. latest' = NoReading(latest.boot + 1) /\ breaks < MaxBreaks /\ breaks' = breaks + 1
        /\ conn' = "closed" /\ slot' = None /\ cut' = 0 /\ UNCHANGED <<now, browser>>
    BY <1>10 DEF RestartServer
  <2>2. latest.boot + 1 \in 0..MaxBreaks /\ latest.boot + 1 <= breaks'
    BY <1>0, <2>1 DEF ServerOK
  <2>3. /\ latest' \in LiveState /\ latest'.last = 0 /\ latest'.snap = 0
        /\ latest'.boot = latest.boot + 1
    BY <2>1, <2>2 DEF NoReading, LiveState, Times
  <2>4. MovesOn(latest, latest')  BY <1>0, <2>3 DEF MovesOn
  <2>5. Signal("error") \in Message(latest')  BY DEF Message, Signals
  <2>6. wire \in Seq(Message(latest')) /\ FetchOK' /\ CacheOK' /\ NoOldAnswer'
    BY <2>1, <2>4, ServerMoves DEF browser
  <2>7. wire' \in Seq(Message(latest'))
    <3>1. Append(wire, Signal("error")) \in Seq(Message(latest'))  BY <2>5, <2>6
    <3>2. wire' = wire \/ wire' = Append(wire, Signal("error"))  BY <1>10 DEF RestartServer
    <3> QED  BY <2>6, <3>1, <3>2
  <2>8. ScalarsOK'  BY <1>0, <2>1 DEF ScalarsOK, browser, Times
  <2>9. ServerOK'  BY <1>0, <2>1, <2>2, <2>3 DEF ServerOK
  <2> QED  BY <2>6, <2>7, <2>8, <2>9 DEF ViewInv, WireOK
<1>11. CASE Tick
  <2>1. now' \in 1..MaxNow /\ now' >= now  BY <1>0, <1>11 DEF Tick, ScalarsOK
  <2> QED  BY <1>0, <1>4, <1>11, <2>1 DEF Tick, ScalarsOK, ServerOK, WireOK, browser, server
<1> QED
  BY <1>1, <1>2, <1>3, <1>5, <1>6, <1>7, <1>8, <1>9, <1>10, <1>11

\* The browser takes a message off the wire.
LEMMA HeadOfWire ==
  ASSUME ViewInv, Receive
  PROVE  /\ Head(wire) \in Message(latest) /\ wire' \in Seq(Message(latest))
         /\ Head(wire) = wire[1] /\ Len(wire') = Len(wire) - 1
         /\ \A i \in 1..Len(wire') : wire'[i] = wire[i + 1]
         /\ Len(wire) \in Nat \ {0}
<1>1. wire \in Seq(Message(latest)) /\ wire # <<>> /\ wire' = Tail(wire)
  BY DEF ViewInv, WireOK, Receive
<1> QED  BY <1>1, HeadTailProperties

\* An event that is applied, or dropped.
LEMMA ApplyOK ==
  ASSUME ViewInv, NEW m \in Message(latest), m.kind \in {"snapshot", "state"}, Apply(m),
         UNCHANGED latest
  PROVE  /\ FetchOK' /\ CacheOK' /\ NoOldAnswer'
         /\ status' \in {"pending", "success", "error"}
         /\ stream' \in {"connecting", "connected", "reconnecting"}
         /\ cache # None => /\ cache' # None /\ cache'.last >= cache.last
                            /\ cache'.snap >= cache.snap
         /\ \/ UNCHANGED <<cache, fetch>> /\ ~(m.kind = "snapshot" \/ m.bare)
            \/ /\ cache' # None /\ cache'.last >= m.state.last /\ fetch' = Fetch("none")
               /\ m.kind = "snapshot" \/ m.bare
<1>1. m \in Event /\ Past(m.state, latest)
  BY DEF Message, PastEvents, Signal, Signals
<1>2. m.state # None  BY <1>1 DEF Past
<1>3. CASE ~(m.kind = "snapshot" \/ m.bare)
  <2>1. UNCHANGED <<cache, status, fetch, stream>>  BY <1>3 DEF Apply, ParseLiveEvent
  <2>2. cache # None => cache.last \in Nat /\ cache.snap \in Nat
    BY DEF ViewInv, CacheOK, Past, LiveState, Times
  <2> QED
    BY <1>3, <2>1, <2>2 DEF ViewInv, FetchOK, CacheOK, NoOldAnswer, ScalarsOK
<1>4. CASE m.kind = "snapshot" \/ m.bare
  <2>1. /\ fetch' = Fetch("none") /\ cache' = MergeState(cache, m.state)
        /\ status' = "success" /\ stream' = "connected"
    BY <1>2, <1>4 DEF Apply, ParseLiveEvent
  <2>2. cache # None => Past(cache, latest)  BY DEF ViewInv, CacheOK
  <2>3. /\ Past(cache', latest) /\ cache'.last >= m.state.last /\ cache' # None
        /\ cache # None => cache'.last >= cache.last /\ cache'.snap >= cache.snap
    BY <1>1, <2>1, <2>2, MergePast
  <2>4. FetchOK' /\ NoOldAnswer'  BY <2>1 DEF FetchOK, NoOldAnswer, Fetch
  <2> QED  BY <1>4, <2>1, <2>3, <2>4 DEF CacheOK
<1> QED  BY <1>3, <1>4

\* Steps of the browser.
LEMMA BrowserStep ==
  ASSUME ViewInv,
         AnswerFetch \/ Receive \/ FetchDone \/ FetchFails \/ Focus \/ ClockTick \/ Online
  PROVE  ViewInv'
<1>0. ScalarsOK /\ ServerOK /\ WireOK /\ FetchOK /\ CacheOK /\ NoOldAnswer  BY DEF ViewInv
<1>00. ASSUME UNCHANGED <<now, latest, slot, breaks>>, ScalarsOK', FetchOK', CacheOK',
              NoOldAnswer', wire' \in Seq(Message(latest))
       PROVE  ViewInv'
  BY <1>0, <1>00 DEF ViewInv, ServerOK, WireOK
<1>1. CASE AnswerFetch
  <2>1. UNCHANGED <<now, server, wire, source, stream, cache, status, clock, offline, breaks>>
    BY <1>1 DEF AnswerFetch
  <2>2. Past(latest, latest)  BY <1>0, LatestIsPast DEF ServerOK
  <2>3. FetchOK' /\ NoOldAnswer'
    <3>1. CASE fetch' = Fetch("failed")  BY <3>1 DEF FetchOK, NoOldAnswer, Fetch
    <3>2. CASE fetch' = Answer(latest)
      <4>1. FetchOK'  BY <2>1, <2>2, <3>2 DEF FetchOK, Answer, Past, server
      <4>2. cache # None /\ latest.boot = cache.boot => latest.last >= cache.last
        BY <1>0 DEF CacheOK, Past, LiveState, Times, ServerOK
      <4>3. NoOldAnswer'  BY <2>1, <3>2, <4>2 DEF NoOldAnswer, Answer
      <4> QED  BY <4>1, <4>3
    <3> QED  BY <1>1, <3>1, <3>2 DEF AnswerFetch
  <2>4. ScalarsOK' /\ CacheOK'  BY <1>0, <2>1 DEF ScalarsOK, CacheOK, server
  <2> QED  BY <1>0, <1>00, <2>1, <2>3, <2>4 DEF server, WireOK
<1>2. CASE Receive
  <2> DEFINE m == Head(wire)
  <2>1. UNCHANGED <<now, server, clock, offline, breaks>>  BY <1>2 DEF Receive
  <2>2. m \in Message(latest) /\ wire' \in Seq(Message(latest))  BY <1>2, HeadOfWire
  <2>3. \/ /\ Refetch /\ stream' \in {"connected", "reconnecting"}
           /\ source' \in {"connecting", "open", "failed"}
        \/ m.kind \in {"snapshot", "state"} /\ Apply(m) /\ UNCHANGED source
    BY <1>2 DEF Receive, OnError
  <2> HIDE DEF m
  <2>4. /\ FetchOK' /\ CacheOK' /\ NoOldAnswer' /\ status' \in {"pending", "success", "error"}
        /\ stream' \in {"connecting", "connected", "reconnecting"}
        /\ source' \in {"connecting", "open", "failed"}
    BY <1>0, <2>1, <2>2, <2>3, RefetchOK, ApplyOK DEF server, ScalarsOK
  <2>5. ScalarsOK'  BY <1>0, <2>1, <2>4 DEF ScalarsOK, server
  <2> QED  BY <1>00, <2>1, <2>2, <2>4, <2>5 DEF server
<1>3. CASE FetchDone
  <2>1. /\ fetch.phase = "answered" /\ cache' = fetch.state /\ status' = "success"
        /\ fetch' = Fetch("none")
        /\ UNCHANGED <<now, server, wire, source, stream, clock, offline, breaks>>
    BY <1>3 DEF FetchDone
  <2>2. Past(cache', latest)  BY <1>0, <2>1 DEF FetchOK
  <2>3. CacheOK' /\ FetchOK' /\ NoOldAnswer'
    BY <2>1, <2>2 DEF CacheOK, FetchOK, NoOldAnswer, Fetch, server
  <2>4. ScalarsOK'  BY <1>0, <2>1 DEF ScalarsOK, server
  <2> QED  BY <1>0, <1>00, <2>1, <2>3, <2>4 DEF server, WireOK
<1>4. CASE FetchFails
  <2>1. /\ status' = "error" /\ fetch' = Fetch("none")
        /\ UNCHANGED <<now, server, wire, source, stream, cache, clock, offline, breaks>>
    BY <1>4 DEF FetchFails
  <2>2. CacheOK' /\ FetchOK' /\ NoOldAnswer'
    BY <1>0, <2>1 DEF CacheOK, FetchOK, NoOldAnswer, Fetch, server
  <2>3. ScalarsOK'  BY <1>0, <2>1 DEF ScalarsOK, server
  <2> QED  BY <1>0, <1>00, <2>1, <2>2, <2>3 DEF server, WireOK
<1>5. CASE Focus
  <2>1. Refetch /\ UNCHANGED <<now, server, wire, source, stream, clock, offline, breaks>>
    BY <1>5 DEF Focus
  <2>2. FetchOK' /\ CacheOK' /\ NoOldAnswer' /\ status' \in {"pending", "success", "error"}
    BY <2>1, RefetchOK DEF server
  <2>3. ScalarsOK'  BY <1>0, <2>1, <2>2 DEF ScalarsOK, server
  <2> QED  BY <1>0, <1>00, <2>1, <2>2, <2>3 DEF server, WireOK
<1>6. CASE ClockTick \/ Online
  <2>1. UNCHANGED <<now, server, wire, source, stream, cache, status, fetch, breaks>>
    BY <1>6 DEF ClockTick, Online
  <2>2. ScalarsOK'  BY <1>0, <1>6, <2>1 DEF ScalarsOK, server, ClockTick, Online
  <2>3. FetchOK' /\ CacheOK' /\ NoOldAnswer'
    BY <1>0, <2>1 DEF FetchOK, CacheOK, NoOldAnswer, server
  <2> QED  BY <1>0, <1>00, <2>1, <2>2, <2>3 DEF server, WireOK
<1> QED  BY <1>1, <1>2, <1>3, <1>4, <1>5, <1>6

\* The invariant of the states is one.
LEMMA ViewInvariant == Spec => []ViewInv
<1>1. Init => ViewInv
  <2> SUFFICES ASSUME Init PROVE ViewInv
    OBVIOUS
  <2>1. ScalarsOK
    <3>1. 1 \in 1..MaxNow /\ 0 \in Times /\ 0 \in 0..MaxBreaks  BY DEF Times
    <3> QED  BY <3>1 DEF Init, ScalarsOK
  <2>2. ServerOK
    <3>1. latest \in LiveState /\ latest.last = 0 /\ latest.snap = 0 /\ latest.boot = 0
      BY DEF Init, NoReading, LiveState, Times
    <3> QED  BY <3>1 DEF Init, ServerOK
  <2>3. WireOK /\ FetchOK /\ CacheOK /\ NoOldAnswer
    BY DEF Init, WireOK, FetchOK, CacheOK, NoOldAnswer, Fetch
  <2> QED  BY <2>1, <2>2, <2>3 DEF ViewInv
<1>2. ASSUME ViewInv, [Next]_vars PROVE ViewInv'
  <2>1. CASE UNCHANGED vars
    BY <1>2, <2>1
    DEF vars, ViewInv, ScalarsOK, ServerOK, WireOK, FetchOK, CacheOK, NoOldAnswer
  <2> QED  BY <1>2, <2>1, ServerStep, BrowserStep DEF Next
<1> QED  BY <1>1, <1>2, PTL DEF Spec

\* Neither a late answer nor a late event takes the page back in time: applying
\* an event cancels the running fetch, and mergeState keeps the newer reading.
THEOREM PageNeverGoesBack == Spec => NeverBack
<1>1. ASSUME ViewInv, [Next]_vars, cache # None, cache'.boot = cache.boot
      PROVE  cache'.last >= cache.last /\ cache'.snap >= cache.snap
  <2>1. cache.last \in Nat /\ cache.snap \in Nat /\ cache.snap = cache.last
    BY <1>1 DEF ViewInv, CacheOK, Past, LiveState, Times
  <2>2. CASE UNCHANGED cache  BY <2>1, <2>2
  <2>3. CASE FetchDone
    <3>1. fetch.phase = "answered" /\ cache' = fetch.state  BY <2>3 DEF FetchDone
    <3>2. fetch.state.last >= cache.last /\ fetch.state.snap = fetch.state.last
      BY <1>1, <3>1 DEF ViewInv, NoOldAnswer, FetchOK, Past
    <3> QED  BY <2>1, <3>1, <3>2
  <2>4. CASE Receive /\ ~(UNCHANGED cache)
    <3>1. Head(wire).kind \in {"snapshot", "state"} /\ Apply(Head(wire)) /\ UNCHANGED latest
      BY <2>4 DEF Receive, OnError, Refetch, server
    <3>2. Head(wire) \in Message(latest)  BY <1>1, <2>4, HeadOfWire
    <3> QED  BY <1>1, <3>1, <3>2, ApplyOK
  <2> QED
    BY <1>1, <2>2, <2>3, <2>4
    DEF Next, vars, ReadLogger, ReadFails, MarkStale, Subscribe, Greet, WriteEvent, Break,
        RefuseStream, RestartServer, AnswerFetch, FetchFails, Focus, Refetch, ClockTick, Online,
        Tick, browser
<1>2. ViewInv /\ [Next]_vars =>
        [cache # None /\ cache'.boot = cache.boot
           => cache'.last >= cache.last /\ cache'.snap >= cache.snap]_vars
  BY <1>1
<1> QED  BY <1>2, ViewInvariant, PTL DEF Spec, NeverBack

-----------------------------------------------------------------------------
(* Where the newest reading is *)

\* Steps that touch neither the page nor the way to it.
LEMMA WhereaboutsSame ==
  ASSUME Whereabouts, UNCHANGED <<latest, conn, slot, cut, wire, cache, fetch>>
  PROVE  Whereabouts'
BY DEF Whereabouts, InSlot, OnWire, InCache

\* Publishing an event that carries no reading: a reading it replaces in the
\* slot is noted in cut.
LEMMA WhereaboutsState ==
  ASSUME ViewInv, Whereabouts, Publish("state", latest'), latest'.last = latest.last,
         UNCHANGED <<conn, wire, cache, fetch>>
  PROVE  Whereabouts'
<1>1. slot' # None => slot'.kind = "state"  BY DEF Publish
<1>2. slot # None /\ slot.kind = "snapshot" => cut' = latest.last
  BY DEF Publish, Whereabouts, InSlot
<1>3. ~(slot # None /\ slot.kind = "snapshot") => cut' = cut  BY DEF Publish
<1>4. ASSUME conn = "open"
      PROVE  /\ InSlot' \/ OnWire' \/ InCache' \/ cut' = latest'.last
             /\ cache' # None \/ \E i \in 1..Len(wire') : Carries(wire'[i], 0)
  <2>1. cache' # None \/ \E i \in 1..Len(wire') : Carries(wire'[i], 0)
    BY <1>4 DEF Whereabouts
  <2>2. CASE slot # None /\ slot.kind = "snapshot"  BY <1>2, <2>1, <2>2
  <2>3. CASE OnWire  BY <2>1, <2>3 DEF OnWire
  <2>4. CASE InCache  BY <2>1, <2>4 DEF InCache
  <2>5. CASE cut = latest.last /\ ~(slot # None /\ slot.kind = "snapshot")
    BY <1>3, <2>1, <2>5
  <2> QED  BY <1>4, <2>2, <2>3, <2>4, <2>5 DEF Whereabouts, InSlot
<1> QED  BY <1>1, <1>4 DEF Whereabouts

\* A message that the page parses carries a reading.
LEMMA CarriesAny ==
  ASSUME NEW newest, NEW m \in Message(newest), m.kind = "snapshot" \/ m.bare
  PROVE  Carries(m, 0)
<1>1. ASSUME NEW k \in Signals, m = Signal(k) PROVE FALSE
  BY <1>1 DEF Signal, Signals
<1>2. m \in PastEvents(newest)  BY <1>1 DEF Message
<1>3. m.state.last \in Nat  BY <1>2 DEF PastEvents, Past, LiveState, Times
<1> QED  BY <1>3 DEF Carries

\* The page takes a message.
LEMMA WhereaboutsReceive ==
  ASSUME ViewInv, Whereabouts, Receive
  PROVE  Whereabouts'
<1> DEFINE m == Head(wire)
<1>1. UNCHANGED <<latest, conn, slot, cut>>  BY DEF Receive, server
<1>2. /\ m \in Message(latest) /\ m = wire[1] /\ Len(wire') = Len(wire) - 1
      /\ \A i \in 1..Len(wire') : wire'[i] = wire[i + 1]
      /\ Len(wire) \in Nat \ {0}
  BY HeadOfWire
<1>3. \/ Refetch /\ m.kind \in Signals
      \/ m.kind \in {"snapshot", "state"} /\ Apply(m)
  BY DEF Receive, OnError, Signals
<1> HIDE DEF m
\* What else was on the wire still is.
<1>4. ASSUME NEW t, NEW i \in 1..Len(wire), Carries(wire[i], t), ~Carries(m, t)
      PROVE  \E j \in 1..Len(wire') : Carries(wire'[j], t)
  <2>1. i # 1  BY <1>2, <1>4
  <2>2. i - 1 \in 1..Len(wire') /\ wire'[i - 1] = wire[i]
    <3>1. i - 1 \in 1..Len(wire')  BY <1>2, <2>1
    <3>2. wire'[i - 1] = wire[(i - 1) + 1]  BY <1>2, <3>1
    <3> QED  BY <3>1, <3>2
  <2> QED  BY <1>4, <2>2
<1>5. slot' # None /\ slot'.kind = "snapshot" => InSlot'
  BY <1>1 DEF Whereabouts, InSlot
<1>6. ASSUME ~(m.kind = "snapshot" \/ m.bare), UNCHANGED cache,
             cache # None => fetch' = fetch \/ fetch' = Fetch("asked"), conn = "open"
      PROVE  Whereabouts'
  <2>1. \A t : ~Carries(m, t)  BY <1>6 DEF Carries
  <2>2. cache' # None \/ \E j \in 1..Len(wire') : Carries(wire'[j], 0)
    BY <1>4, <1>6, <2>1 DEF Whereabouts
  <2>3. InSlot => InSlot'  BY <1>1 DEF InSlot
  <2>4. OnWire => OnWire'  BY <1>1, <1>4, <2>1 DEF OnWire
  <2>5. InCache => InCache'
    <3> SUFFICES ASSUME InCache PROVE InCache'
      OBVIOUS
    <3>1. fetch' = fetch \/ fetch' = Fetch("asked")  BY <1>6 DEF InCache
    <3> QED  BY <1>1, <1>6, <3>1 DEF InCache, Fetch
  <2> QED  BY <1>1, <1>5, <1>6, <2>2, <2>3, <2>4, <2>5 DEF Whereabouts
<1>7. ASSUME m.kind = "snapshot" \/ m.bare, cache' # None, cache'.last >= m.state.last,
             cache # None => cache'.last >= cache.last, fetch' = Fetch("none"), conn = "open",
             CacheOK'
      PROVE  Whereabouts'
  <2>1. cache'.last \in Nat /\ latest.last \in Nat /\ m.state.last \in Nat
    <3>1. Carries(m, 0)  BY <1>2, <1>7, CarriesAny
    <3>2. m.state.last \in Nat  BY <1>2, <3>1, CarrierIsEvent
    <3>3. cache' \in LiveState /\ latest \in LiveState
      BY <1>7 DEF CacheOK, Past, ViewInv, ServerOK
    <3> QED  BY <3>2, <3>3 DEF LiveState, Times
  <2>2. fetch'.phase # "answered"  BY <1>7 DEF Fetch
  <2>3. InSlot => InSlot'  BY <1>1 DEF InSlot
  <2>4. OnWire => OnWire' \/ InCache'
    <3> SUFFICES ASSUME NEW i \in 1..Len(wire), Carries(wire[i], latest.last)
                 PROVE  OnWire' \/ InCache'
      BY DEF OnWire
    <3>1. CASE Carries(m, latest.last)
      <4>1. cache'.last >= latest.last  BY <1>7, <2>1, <3>1 DEF Carries
      <4> QED  BY <1>1, <1>7, <2>2, <4>1 DEF InCache
    <3>2. CASE ~Carries(m, latest.last)  BY <1>1, <1>4, <3>2 DEF OnWire
    <3> QED  BY <3>1, <3>2
  <2>5. InCache => InCache'
    <3> SUFFICES ASSUME InCache PROVE InCache'
      OBVIOUS
    <3>1. cache.last \in Nat  BY DEF InCache, ViewInv, CacheOK, Past, LiveState, Times
    <3>2. cache'.last >= latest.last  BY <1>7, <2>1, <3>1 DEF InCache
    <3> QED  BY <1>1, <1>7, <2>2, <3>2 DEF InCache
  <2> QED  BY <1>1, <1>5, <1>7, <2>3, <2>4, <2>5 DEF Whereabouts
<1>8. CASE conn # "open"  BY <1>1, <1>5, <1>8 DEF Whereabouts
<1>9. CASE conn = "open" /\ Refetch /\ m.kind \in Signals
  <2>1. ~(m.kind = "snapshot" \/ m.bare)
    <3>1. m \notin PastEvents(latest)  BY <1>9 DEF PastEvents, Event, Signals
    <3> QED  BY <1>2, <1>9, <3>1 DEF Message, Signal, Signals
  <2> QED  BY <1>6, <1>9, <2>1 DEF Refetch
<1>10. CASE conn = "open" /\ m.kind \in {"snapshot", "state"} /\ Apply(m)
  <2>1. /\ CacheOK'
        /\ cache # None => cache'.last >= cache.last
        /\ \/ UNCHANGED <<cache, fetch>> /\ ~(m.kind = "snapshot" \/ m.bare)
           \/ /\ cache' # None /\ cache'.last >= m.state.last /\ fetch' = Fetch("none")
              /\ m.kind = "snapshot" \/ m.bare
    BY <1>1, <1>2, <1>10, ApplyOK
  <2> QED  BY <1>6, <1>7, <1>10, <2>1
<1> QED  BY <1>3, <1>8, <1>9, <1>10

\* Every step keeps track of the newest reading.
LEMMA WhereaboutsStep ==
  ASSUME ViewInv, Whereabouts, [Next]_vars
  PROVE  Whereabouts'
<1>0. /\ latest \in LiveState /\ latest.last \in Nat /\ Len(wire) \in Nat
      /\ wire \in Seq(Message(latest))
  BY DEF ViewInv, ServerOK, WireOK, LiveState, Times
<1>1. CASE ReadLogger
  <2>1. Publish("snapshot", latest') /\ UNCHANGED <<conn, wire, cache, fetch>>
    BY <1>1 DEF ReadLogger, browser
  <2>2. slot' # None => InSlot'  BY <2>1 DEF Publish, InSlot
  <2>3. conn = "open" => slot' = [kind |-> "snapshot", bare |-> FALSE, state |-> latest']
    BY <2>1 DEF Publish
  <2>4. conn = "open" => InSlot'
    <3>1. latest' \in LiveState
      <4>1. now \in Times  BY DEF ViewInv, ScalarsOK, Times
      <4> QED  BY <1>0, <1>1, <4>1 DEF ReadLogger, LiveState
    <3>2. [kind |-> "snapshot", bare |-> FALSE, state |-> latest'] \in Event  BY <3>1 DEF Event
    <3>3. [kind |-> "snapshot", bare |-> FALSE, state |-> latest'] # None  BY <3>2
    <3> QED  BY <2>2, <2>3, <3>3
  <2> QED  BY <2>1, <2>2, <2>4 DEF Whereabouts
<1>2. CASE ReadFails \/ MarkStale
  <2>1. /\ Publish("state", latest') /\ latest'.last = latest.last
        /\ UNCHANGED <<conn, wire, cache, fetch>>
    BY <1>0, <1>2 DEF ReadFails, MarkStale, browser, LiveState
  <2> QED  BY <2>1, WhereaboutsState
<1>3. CASE Subscribe \/ Break \/ RestartServer
  BY <1>3 DEF Subscribe, Break, RestartServer, Whereabouts
<1>4. CASE Greet
  <2> DEFINE g == [kind |-> "state", bare |-> TRUE, state |-> latest]
  <2>1. wire' = <<Signal("open"), g>> /\ UNCHANGED <<latest, slot, cut, cache, fetch>>
    BY <1>4 DEF Greet, browser
  <2>2. Carries(g, latest.last) /\ Carries(g, 0)  BY <1>0 DEF Carries
  <2> HIDE DEF g
  <2>3. 2 \in 1..Len(wire') /\ wire'[2] = g  BY <2>1
  <2>4. OnWire' /\ \E i \in 1..Len(wire') : Carries(wire'[i], 0)
    BY <2>1, <2>2, <2>3 DEF OnWire
  <2>5. slot' # None /\ slot'.kind = "snapshot" => InSlot'
    BY <2>1 DEF Whereabouts, InSlot
  <2> QED  BY <2>4, <2>5 DEF Whereabouts
<1>5. CASE WriteEvent
  <2>1. /\ conn = "open" /\ slot # None /\ wire' = Append(wire, slot) /\ slot' = None
        /\ UNCHANGED <<latest, conn, cut, cache, fetch>>
    BY <1>5 DEF WriteEvent, browser
  <2>2. /\ Len(wire') = Len(wire) + 1 /\ wire'[Len(wire) + 1] = slot
        /\ \A i \in 1..Len(wire) : wire'[i] = wire[i]
    BY <1>0, <2>1
  <2>3. \A i \in 1..Len(wire) : i \in 1..Len(wire')  BY <1>0, <2>2
  <2>4. OnWire => OnWire'  BY <2>1, <2>2, <2>3 DEF OnWire
  <2>5. InSlot => OnWire'
    <3>1. InSlot => Carries(slot, latest.last)  BY <1>0 DEF InSlot, Carries
    <3>2. Len(wire) + 1 \in 1..Len(wire')  BY <1>0, <2>2
    <3> QED  BY <2>1, <2>2, <3>1, <3>2 DEF OnWire
  <2>6. InCache => InCache'  BY <2>1 DEF InCache
  <2>7. cache' # None \/ \E i \in 1..Len(wire') : Carries(wire'[i], 0)
    BY <2>1, <2>2, <2>3 DEF Whereabouts
  <2> QED  BY <2>1, <2>4, <2>5, <2>6, <2>7 DEF Whereabouts
<1>6. CASE RefuseStream
  <2>1. conn = "closed" /\ UNCHANGED <<latest, conn, slot>>  BY <1>6 DEF RefuseStream, server
  <2> QED  BY <2>1 DEF Whereabouts, InSlot
<1>7. ASSUME UNCHANGED <<latest, conn, slot, cut, wire>>,
             InCache => InCache', cache # None => cache' # None
      PROVE  Whereabouts'
  BY <1>7 DEF Whereabouts, InSlot, OnWire
<1>8. CASE AnswerFetch
  <2>1. UNCHANGED <<latest, conn, slot, cut, wire, cache>>  BY <1>8 DEF AnswerFetch, server
  <2>2. fetch' = Answer(latest) \/ fetch' = Fetch("failed")  BY <1>8 DEF AnswerFetch
  <2>3. InCache => InCache'  BY <1>0, <2>1, <2>2 DEF InCache, Answer, Fetch
  <2> QED  BY <1>7, <2>1, <2>3
<1>9. CASE FetchDone
  <2>1. /\ UNCHANGED <<latest, conn, slot, cut, wire>> /\ fetch.phase = "answered"
        /\ cache' = fetch.state /\ fetch' = Fetch("none")
    BY <1>9 DEF FetchDone, server
  <2>2. cache' # None  BY <2>1 DEF ViewInv, FetchOK, Past
  <2>3. InCache => InCache'  BY <2>1, <2>2 DEF InCache, Fetch
  <2> QED  BY <1>7, <2>1, <2>2, <2>3
<1>10. CASE FetchFails \/ Focus
  <2>1. UNCHANGED <<latest, conn, slot, cut, wire, cache>>
    BY <1>10 DEF FetchFails, Focus, Refetch, server
  <2>2. fetch' = Fetch("none") \/ fetch' = Fetch("asked")
    BY <1>10 DEF FetchFails, Focus, Refetch
  <2>3. InCache => InCache'  BY <2>1, <2>2 DEF InCache, Fetch
  <2> QED  BY <1>7, <2>1, <2>3
<1>11. CASE ClockTick \/ Online \/ Tick \/ UNCHANGED vars
  <2>1. UNCHANGED <<latest, conn, slot, cut, wire, cache, fetch>>
    BY <1>11 DEF ClockTick, Online, Tick, vars, server, browser
  <2> QED  BY <2>1, WhereaboutsSame
<1> QED
  BY <1>1, <1>2, <1>3, <1>4, <1>5, <1>6, <1>8, <1>9, <1>10, <1>11, WhereaboutsReceive DEF Next

\* What the page shows is whole and, in a quiet moment of an open stream, the
\* newest: however the connection broke and the server restarted before, only
\* a reading whose event was replaced in the slot is missing.
THEOREM PageStaysCurrent == Spec => []PageIsCurrent
<1>1. Init => Whereabouts  BY DEF Init, Whereabouts
<1>2. ViewInv /\ Whereabouts /\ [Next]_vars => Whereabouts'  BY WhereaboutsStep
<1>3. ASSUME ViewInv, Whereabouts PROVE PageIsCurrent
  <2>1. PastEvents(latest) \subseteq Event  BY DEF PastEvents
  <2>2. wire \in Seq(Event \cup {Signal(k) : k \in Signals})
    <3>1. Message(latest) \subseteq Event \cup {Signal(k) : k \in Signals}
      BY <2>1 DEF Message
    <3> QED  BY <1>3, <3>1, SeqMonotonic DEF ViewInv, WireOK
  <2>3. TypeOK
    BY <1>3, <2>1, <2>2 DEF ViewInv, ScalarsOK, ServerOK, FetchOK, CacheOK, Past, TypeOK
  <2>4. ReadingAndTimeAgree  BY <1>3 DEF ViewInv, CacheOK, Past, ReadingAndTimeAgree
  <2>5. QuietIsCurrent
    <3> SUFFICES ASSUME conn = "open", slot = None, wire = <<>>
                 PROVE  cache # None /\ (cache.last >= latest.last \/ cut = latest.last)
      BY DEF QuietIsCurrent
    <3>1. ~InSlot /\ ~OnWire  BY DEF InSlot, OnWire
    <3> QED  BY <1>3, <3>1 DEF Whereabouts, InCache
  <2> QED  BY <2>3, <2>4, <2>5 DEF PageIsCurrent
<1> QED  BY <1>1, <1>2, <1>3, ViewInvariant, PTL DEF Spec
=============================================================================
