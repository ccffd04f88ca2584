--------------------------------- MODULE Hub ---------------------------------
(***************************************************************************)
(* The event hub of the collector (internal/collector/hub.go).  Publish    *)
(* holds h.mu while it offers the event to every subscriber: a plain       *)
(* subscriber has a channel of one slot whose content is replaced, a       *)
(* buffered one a bounded FIFO on which Publish blocks when it is full.    *)
(* Unsubscribing a buffered channel closes its done channel before it      *)
(* takes h.mu, which is what releases a blocked Publish.                   *)
(*                                                                         *)
(* Events are numbered in the order in which Publish takes the mutex.      *)
(***************************************************************************)
EXTENDS Naturals, Sequences, FiniteSets

CONSTANTS
  Publishers,         \* goroutines that call Publish
  Plain, Buffered,    \* channels made by Subscribe and by SubscribeBuffered
  Capacity,           \* of the buffered channels
  Free,               \* nobody holds h.mu
  MaxEvents           \* bound on the events of an instance

ASSUME HubAssumption ==
  /\ Plain \cap Buffered = {} /\ Free \notin Publishers
  /\ Capacity \in Nat \ {0} /\ MaxEvents \in Nat

VARIABLES
  mu,        \* holder of h.mu while it delivers, or Free
  todo,      \* subscribers the running Publish has still to serve
  phase,     \* per plain channel, its next operation in Publish: "try" to
             \* send, "drain" the full slot, or "send" for the second time
  count,     \* events published so far; the last is the one being delivered
  sub,       \* per channel: "none", "on", "closing" (done is closed), "off"
  queue,     \* what each channel holds
  last       \* per channel, the last event its reader took

hubState == <<mu, todo, phase, count, sub, queue, last>>

Channels == Plain \cup Buffered
Registered == {c \in Channels : sub[c] \in {"on", "closing"}}

HubInit ==
  /\ mu = Free /\ todo = {} /\ count = 0
  /\ phase = [c \in Plain |-> "try"]
  /\ sub = [c \in Channels |-> "none"]
  /\ queue = [c \in Channels |-> <<>>]
  /\ last = [c \in Channels |-> 0]

\* Subscribe, SubscribeBuffered: the map insertion under h.mu.
Subscribe(c) ==
  /\ mu = Free /\ sub[c] = "none"
  /\ sub' = [sub EXCEPT ![c] = "on"]
  /\ last' = [last EXCEPT ![c] = count]
  /\ UNCHANGED <<mu, todo, phase, count, queue>>

\* Publish takes h.mu; the map ranges it will walk cannot change while it is
\* held.
PublishBegin(p) ==
  /\ mu = Free /\ count < MaxEvents
  /\ mu' = p /\ todo' = Registered /\ count' = count + 1
  /\ UNCHANGED <<phase, sub, queue, last>>

\* Plain subscribers come first, one at a time, and never block.
Serving(p, c) ==
  /\ mu = p /\ c \in todo \cap Plain
  /\ \A d \in Plain : phase[d] # "try" => d = c

\* The event goes into the empty slot: the first select, or the second send.
DeliverPlain(p, c) ==
  /\ Serving(p, c) /\ phase[c] \in {"try", "send"} /\ queue[c] = <<>>
  /\ queue' = [queue EXCEPT ![c] = <<count>>]
  /\ todo' = todo \ {c} /\ phase' = [phase EXCEPT ![c] = "try"]
  /\ UNCHANGED <<mu, count, sub, last>>

\* Mutant: a full slot keeps its old event.
PlainKeepsOld(p, c) ==
  /\ Serving(p, c) /\ phase[c] = "try" /\ queue[c] # <<>>
  /\ todo' = todo \ {c}
  /\ UNCHANGED <<mu, phase, count, sub, queue, last>>

\* The first select finds an unread event.
PlainFull(p, c) ==
  /\ Serving(p, c) /\ phase[c] = "try" /\ queue[c] # <<>>
  /\ phase' = [phase EXCEPT ![c] = "drain"]
  /\ UNCHANGED <<mu, todo, count, sub, queue, last>>

\* The inner select takes it out, unless the reader has done so meanwhile.
DrainPlain(p, c) ==
  /\ Serving(p, c) /\ phase[c] = "drain"
  /\ queue' = [queue EXCEPT ![c] = <<>>]
  /\ phase' = [phase EXCEPT ![c] = "send"]
  /\ UNCHANGED <<mu, todo, count, sub, last>>

\* Mutants: the wait ignores done; a full buffer drops the event instead of
\* blocking.
BufferedIgnoresDone(p, c) ==
  /\ mu = p /\ c \in todo \cap Buffered /\ todo \cap Plain = {}
  /\ Len(queue[c]) < Capacity
  /\ queue' = [queue EXCEPT ![c] = Append(@, count)]
  /\ todo' = todo \ {c}
  /\ UNCHANGED <<mu, phase, count, sub, last>>
BufferedDrops(p, c) ==
  /\ mu = p /\ c \in todo \cap Buffered /\ todo \cap Plain = {}
  /\ queue' = [queue EXCEPT ![c] = IF Len(@) < Capacity THEN Append(@, count)
                                   ELSE @]
  /\ todo' = todo \ {c}
  /\ UNCHANGED <<mu, phase, count, sub, last>>

\* A buffered subscriber gets the event when there is room, or is passed over
\* when its done channel is closed; otherwise Publish waits.
DeliverBuffered(p, c) ==
  /\ mu = p /\ c \in todo \cap Buffered /\ todo \cap Plain = {}
  /\ \/ /\ Len(queue[c]) < Capacity
        /\ queue' = [queue EXCEPT ![c] = Append(@, count)]
     \/ /\ sub[c] = "closing"
        /\ UNCHANGED queue
  /\ todo' = todo \ {c}
  /\ UNCHANGED <<mu, phase, count, sub, last>>

PublishEnd(p) ==
  /\ mu = p /\ todo = {}
  /\ mu' = Free
  /\ UNCHANGED <<todo, phase, count, sub, queue, last>>

\* The reader of a channel takes its oldest event.
Receive(c) ==
  /\ sub[c] = "on" /\ queue[c] # <<>>
  /\ last' = [last EXCEPT ![c] = Head(queue[c])]
  /\ queue' = [queue EXCEPT ![c] = Tail(@)]
  /\ UNCHANGED <<mu, todo, phase, count, sub>>

\* Mutant: delete and close without taking the mutex.
UnsubscribePlainUnlocked(c) ==
  /\ sub[c] = "on"
  /\ sub' = [sub EXCEPT ![c] = "off"]
  /\ UNCHANGED <<mu, todo, phase, count, queue, last>>

\* The unsubscribe function of Subscribe: delete and close under h.mu.
UnsubscribePlain(c) ==
  /\ mu = Free /\ sub[c] = "on"
  /\ sub' = [sub EXCEPT ![c] = "off"]
  /\ UNCHANGED <<mu, todo, phase, count, queue, last>>

\* The unsubscribe function of SubscribeBuffered closes done first. From here
\* on nobody reads the channel.
CloseDone(c) ==
  /\ sub[c] = "on"
  /\ sub' = [sub EXCEPT ![c] = "closing"]
  /\ UNCHANGED <<mu, todo, phase, count, queue, last>>

\* ... then deletes and closes the channel under h.mu.
UnsubscribeBuffered(c) ==
  /\ mu = Free /\ sub[c] = "closing"
  /\ sub' = [sub EXCEPT ![c] = "off"]
  /\ UNCHANGED <<mu, todo, phase, count, queue, last>>

PublishStep(p) ==
  \/ \E c \in Plain : DeliverPlain(p, c) \/ PlainFull(p, c) \/ DrainPlain(p, c)
  \/ \E c \in Buffered : DeliverBuffered(p, c)
  \/ PublishEnd(p)

HubNext ==
  \/ \E p \in Publishers : PublishBegin(p) \/ PublishStep(p)
  \/ \E c \in Channels : Subscribe(c) \/ Receive(c)
  \/ \E c \in Plain : UnsubscribePlain(c)
  \/ \E c \in Buffered : CloseDone(c) \/ UnsubscribeBuffered(c)

HubSpec == HubInit /\ [][HubNext]_hubState

\* A running Publish takes its next possible step; h.mu does not starve an
\* unsubscribing goroutine.  The reader of a buffered channel (the alert
\* worker) takes events or unsubscribes; once it has decided to stop, by its
\* context, it does not read again, so no fairness of Receive is assumed
\* beyond the choice between the two.  Plain readers may stop reading.
HubFairness ==
  /\ \A p \in Publishers : WF_hubState(PublishStep(p))
  /\ \A c \in Buffered : /\ WF_hubState(Receive(c) \/ CloseDone(c))
                         /\ SF_hubState(UnsubscribeBuffered(c))

FairHub == HubSpec /\ HubFairness

-----------------------------------------------------------------------------

\* Types of the hub's variables.
HubTypeOK ==
  /\ mu \in Publishers \cup {Free}
  /\ todo \subseteq Channels
  /\ phase \in [Plain -> {"try", "drain", "send"}]
  /\ count \in 0 .. MaxEvents
  /\ sub \in [Channels -> {"none", "on", "closing", "off"}]
  /\ queue \in [Channels -> Seq(1 .. MaxEvents)]
  /\ last \in [Channels -> 0 .. MaxEvents]

\* Publish never sends on a closed channel (Go would panic): whoever is still
\* to be served is registered.
NoSendOnClosed == todo \subseteq Registered

\* Between two Publish calls a plain subscriber either holds exactly the
\* newest event or has already read it, however slow it was.
PlainHasNewest ==
  mu = Free => \A c \in Plain : sub[c] = "on" =>
    \/ queue[c] = <<>> /\ last[c] = count
    \/ queue[c] = <<count>>

\* A buffered subscriber sees every event since it subscribed, once and in
\* order: what it holds continues what it read, up to the newest event.
BufferedGapFree ==
  \A c \in Buffered : sub[c] = "on" =>
    /\ queue[c] = [i \in 1 .. Len(queue[c]) |-> last[c] + i]
    /\ last[c] + Len(queue[c]) = IF c \in todo THEN count - 1 ELSE count

\* Every Publish ends: backpressure lasts only until the reader of the full
\* channel takes an event or unsubscribes.
PublishEnds == \A p \in Publishers : mu = p ~> mu # p

\* Unsubscribing ends although a Publish may be blocked on this very channel.
UnsubscribeEnds == \A c \in Buffered : sub[c] = "closing" ~> sub[c] = "off"

\* The subscriber lists that Publish walks and the channels they name agree,
\* however subscribing, unsubscribing and publishing interleave.
ChannelsSound == HubTypeOK /\ NoSendOnClosed

\* No caller of the hub waits for ever.
CallsEnd == PublishEnds /\ UnsubscribeEnds
=============================================================================
