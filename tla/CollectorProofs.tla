--------------------------- MODULE CollectorProofs ---------------------------
(***************************************************************************)
(* Proofs about the package internal/collector: what the event hub         *)
(* promises its callers, for any publishers, channels and capacity, and    *)
(* what the collector promises, for any durations, readings and bounds.    *)
(* The two specifications share no variable.                               *)
(***************************************************************************)
EXTENDS Collector, Hub, SequenceTheorems, WellFoundedInduction, TLAPS

-----------------------------------------------------------------------------
(* The hub *)

\* The hub by its mutex: nobody is to be served while it is free, and whoever
\* holds it delivers an event that has a number.  A channel that was not yet
\* subscribed is empty, and only unsubscribing a buffered one takes two steps.
MutexInv ==
  /\ mu = Free => todo = {}
  /\ mu # Free => count > 0
  /\ \A c \in Channels : sub[c] = "none" => queue[c] = <<>>
  /\ \A c \in Plain : sub[c] # "closing"

HubInv == HubTypeOK /\ NoSendOnClosed /\ MutexInv

\* What a plain subscriber that was served holds, also in the middle of a
\* Publish.
Served(c) == \/ queue[c] = <<>> /\ last[c] = count
             \/ queue[c] = <<count>>

PlainInv == \A c \in Plain : sub[c] = "on" /\ c \notin todo => Served(c)

\* One buffered subscriber of BufferedGapFree.
GapFree(c) ==
  /\ queue[c] = [i \in 1 .. Len(queue[c]) |-> last[c] + i]
  /\ last[c] + Len(queue[c]) = IF c \in todo THEN count - 1 ELSE count

\* Runs of consecutive numbers.
Run(l, n) == [i \in 1 .. n |-> l + i]

\* Appending the next number.
LEMMA RunGrows ==
  ASSUME NEW l \in Nat, NEW n \in Nat
  PROVE  Append(Run(l, n), l + n + 1) = Run(l, n + 1)
<1>1. Run(l, n) \in Seq(Nat) /\ Len(Run(l, n)) = n  BY DEF Run
<1>2. Append(Run(l, n), l + n + 1) =
        [i \in 1 .. (n + 1) |-> IF i = n + 1 THEN l + n + 1 ELSE Run(l, n)[i]]
  BY <1>1
<1> QED  BY <1>2 DEF Run

\* Taking the first number.
LEMMA RunShrinks ==
  ASSUME NEW l \in Nat, NEW n \in Nat, n # 0
  PROVE  Head(Run(l, n)) = l + 1 /\ Tail(Run(l, n)) = Run(l + 1, n - 1)
<1>1. Run(l, n) \in Seq(Nat) /\ Len(Run(l, n)) = n  BY DEF Run
<1>2. Head(Run(l, n)) = Run(l, n)[1]  BY <1>1
<1>3. Run(l, n) # <<>>  BY <1>1
<1>4. Run(l + 1, n - 1) \in Seq(Nat) /\ Len(Run(l + 1, n - 1)) = n - 1  BY DEF Run
<1>5. /\ Tail(Run(l, n)) \in Seq(Nat) /\ Len(Tail(Run(l, n))) = n - 1
      /\ \A i \in 1 .. (n - 1) : Tail(Run(l, n))[i] = Run(l, n)[i + 1]
  BY <1>1, <1>3, HeadTailProperties
<1>6. \A i \in 1 .. (n - 1) : Run(l, n)[i + 1] = Run(l + 1, n - 1)[i]  BY DEF Run
<1>7. Tail(Run(l, n)) = Run(l + 1, n - 1)  BY <1>4, <1>5, <1>6, SeqEqual
<1>8. Run(l, n)[1] = l + 1  BY DEF Run
<1> QED  BY <1>2, <1>7, <1>8

\* Every step of the hub keeps its bookkeeping.
LEMMA HubStep ==
  ASSUME HubInv, [HubNext]_hubState
  PROVE  HubInv'
<1> USE HubAssumption DEF HubInv, HubAssumption, HubTypeOK, NoSendOnClosed, MutexInv, Registered, Channels
<1>1. ASSUME NEW p \in Publishers, PublishBegin(p) PROVE HubInv'
  BY <1>1 DEF PublishBegin
<1>2. ASSUME NEW p \in Publishers, NEW c \in Plain,
             DeliverPlain(p, c) \/ PlainFull(p, c) \/ DrainPlain(p, c)
      PROVE  HubInv'
  <2>1. CASE DeliverPlain(p, c)  BY <2>1 DEF DeliverPlain, Serving
  <2>2. CASE PlainFull(p, c)  BY <2>2 DEF PlainFull, Serving
  <2>3. CASE DrainPlain(p, c)  BY <2>3 DEF DrainPlain, Serving
  <2> QED  BY <1>2, <2>1, <2>2, <2>3
<1>3. ASSUME NEW p \in Publishers, NEW c \in Buffered, DeliverBuffered(p, c) PROVE HubInv'
  <2>1. count \in 1 .. MaxEvents  BY <1>3 DEF DeliverBuffered
  <2>2. Append(queue[c], count) \in Seq(1 .. MaxEvents)  BY <2>1
  <2>3. queue' \in [Channels -> Seq(1 .. MaxEvents)]  BY <1>3, <2>2 DEF DeliverBuffered
  <2>4. \A d \in Channels : d # c => queue'[d] = queue[d]  BY <1>3 DEF DeliverBuffered
  <2>5. sub[c] # "none"  BY <1>3 DEF DeliverBuffered
  <2>6. MutexInv'  BY <1>3, <2>4, <2>5 DEF DeliverBuffered
  <2> QED  BY <1>3, <2>3, <2>6 DEF DeliverBuffered
<1>4. ASSUME NEW p \in Publishers, PublishEnd(p) PROVE HubInv'
  BY <1>4 DEF PublishEnd
<1>5. ASSUME NEW c \in Channels, Subscribe(c) PROVE HubInv'
  BY <1>5 DEF Subscribe
<1>6. ASSUME NEW c \in Channels, Receive(c) PROVE HubInv'
  <2>1. Head(queue[c]) \in 1 .. MaxEvents /\ Tail(queue[c]) \in Seq(1 .. MaxEvents)
    BY <1>6, HeadTailProperties DEF Receive
  <2>2. queue' \in [Channels -> Seq(1 .. MaxEvents)]  BY <1>6, <2>1 DEF Receive
  <2>3. last' \in [Channels -> 0 .. MaxEvents]  BY <1>6, <2>1 DEF Receive
  <2>4. \A d \in Channels : d # c => queue'[d] = queue[d]  BY <1>6 DEF Receive
  <2>5. MutexInv'  BY <1>6, <2>4 DEF Receive
  <2> QED  BY <1>6, <2>2, <2>3, <2>5 DEF Receive
<1>7. ASSUME NEW c \in Plain, UnsubscribePlain(c) PROVE HubInv'
  BY <1>7 DEF UnsubscribePlain
<1>8. ASSUME NEW c \in Buffered, CloseDone(c) PROVE HubInv'
  BY <1>8 DEF CloseDone
<1>9. ASSUME NEW c \in Buffered, UnsubscribeBuffered(c) PROVE HubInv'
  BY <1>9 DEF UnsubscribeBuffered
<1>10. CASE UNCHANGED hubState
  BY <1>10 DEF hubState
<1> QED
  BY <1>1, <1>2, <1>3, <1>4, <1>5, <1>6, <1>7, <1>8, <1>9, <1>10 DEF HubNext, PublishStep

\* ... so it holds in every state.
LEMMA HubInvariant == HubSpec => []HubInv
<1>1. HubInit => HubInv
  BY HubAssumption DEF HubAssumption, HubInit, HubInv, HubTypeOK, NoSendOnClosed, MutexInv, Channels
<1> QED  BY <1>1, HubStep, PTL DEF HubSpec

\* Publish never sends on a closed channel, however subscribing, unsubscribing
\* and publishing interleave.
THEOREM ChannelsStaySound == HubSpec => []ChannelsSound
<1>1. HubInv => ChannelsSound  BY DEF HubInv, ChannelsSound
<1> QED  BY <1>1, HubInvariant, PTL

-----------------------------------------------------------------------------
(* Plain subscribers *)

\* A plain channel keeps the newest event until its reader takes it.
LEMMA PlainStep ==
  ASSUME HubInv, PlainInv, [HubNext]_hubState
  PROVE  PlainInv'
<1> USE HubAssumption DEF HubInv, HubAssumption, HubTypeOK, NoSendOnClosed, MutexInv, Registered, Channels, PlainInv, Served
<1>1. ASSUME NEW p \in Publishers, PublishBegin(p) PROVE PlainInv'
  BY <1>1 DEF PublishBegin
<1>2. ASSUME NEW p \in Publishers, NEW c \in Plain,
             DeliverPlain(p, c) \/ PlainFull(p, c) \/ DrainPlain(p, c)
      PROVE  PlainInv'
  BY <1>2 DEF DeliverPlain, PlainFull, DrainPlain, Serving
<1>3. ASSUME NEW p \in Publishers, NEW c \in Buffered, DeliverBuffered(p, c) PROVE PlainInv'
  BY <1>3 DEF DeliverBuffered
<1>4. ASSUME NEW p \in Publishers, PublishEnd(p) PROVE PlainInv'
  BY <1>4 DEF PublishEnd
<1>5. ASSUME NEW c \in Channels, Subscribe(c) PROVE PlainInv'
  BY <1>5 DEF Subscribe
<1>6. ASSUME NEW c \in Channels, Receive(c) PROVE PlainInv'
  <2> SUFFICES ASSUME NEW d \in Plain, sub[d] = "on", d \notin todo PROVE Served(d)'
    BY <1>6 DEF Receive
  <2>1. CASE d # c  BY <1>6, <2>1 DEF Receive
  <2>2. CASE d = c
    <3>1. queue[c] = <<count>>  BY <1>6, <2>2 DEF Receive
    <3>2. Head(queue[c]) = count /\ Tail(queue[c]) = <<>>  BY <3>1
    <3> QED  BY <1>6, <2>2, <3>2 DEF Receive
  <2> QED  BY <2>1, <2>2
<1>7. ASSUME NEW c \in Plain, UnsubscribePlain(c) PROVE PlainInv'
  BY <1>7 DEF UnsubscribePlain
<1>8. ASSUME NEW c \in Buffered, CloseDone(c) PROVE PlainInv'
  BY <1>8 DEF CloseDone
<1>9. ASSUME NEW c \in Buffered, UnsubscribeBuffered(c) PROVE PlainInv'
  BY <1>9 DEF UnsubscribeBuffered
<1>10. CASE UNCHANGED hubState
  BY <1>10 DEF hubState
<1> QED
  BY <1>1, <1>2, <1>3, <1>4, <1>5, <1>6, <1>7, <1>8, <1>9, <1>10 DEF HubNext, PublishStep

\* Between two Publish calls every plain subscriber holds the newest event or
\* has read it: the replaced slot never keeps an older one.
THEOREM PlainGetsNewest == HubSpec => []PlainHasNewest
<1>1. HubInit => PlainInv  BY DEF HubInit, PlainInv, Channels
<1>2. HubInv /\ PlainInv /\ [HubNext]_hubState => PlainInv'  BY PlainStep
<1>3. HubInv /\ PlainInv => PlainHasNewest
  BY DEF HubInv, MutexInv, PlainInv, Served, PlainHasNewest
<1> QED  BY <1>1, <1>2, <1>3, HubInvariant, PTL DEF HubSpec

-----------------------------------------------------------------------------
(* Buffered subscribers *)

\* A buffered channel continues what its reader has read.
LEMMA BufferedStep ==
  ASSUME HubInv, BufferedGapFree, [HubNext]_hubState
  PROVE  BufferedGapFree'
<1> USE HubAssumption DEF HubInv, HubAssumption, HubTypeOK, NoSendOnClosed, MutexInv, Registered, Channels, BufferedGapFree, GapFree
<1>1. ASSUME NEW p \in Publishers, PublishBegin(p) PROVE BufferedGapFree'
  BY <1>1 DEF PublishBegin
<1>2. ASSUME NEW p \in Publishers, NEW c \in Plain,
             DeliverPlain(p, c) \/ PlainFull(p, c) \/ DrainPlain(p, c)
      PROVE  BufferedGapFree'
  <2> SUFFICES ASSUME NEW d \in Buffered, sub[d] = "on" PROVE GapFree(d)'
    BY <1>2 DEF DeliverPlain, PlainFull, DrainPlain
  <2>1. queue'[d] = queue[d] /\ last' = last /\ count' = count
    BY <1>2 DEF DeliverPlain, PlainFull, DrainPlain
  <2>2. d \in todo' <=> d \in todo  BY <1>2 DEF DeliverPlain, PlainFull, DrainPlain
  <2>3. GapFree(d)  OBVIOUS
  <2> QED  BY <2>1, <2>2, <2>3
<1>3. ASSUME NEW p \in Publishers, NEW c \in Buffered, DeliverBuffered(p, c)
      PROVE  BufferedGapFree'
  <2> SUFFICES ASSUME NEW d \in Buffered, sub[d] = "on" PROVE GapFree(d)'
    BY <1>3 DEF DeliverBuffered
  <2>1. CASE d # c
    <3>1. queue'[d] = queue[d] /\ last' = last /\ count' = count  BY <1>3, <2>1 DEF DeliverBuffered
    <3>2. d \in todo' <=> d \in todo  BY <1>3, <2>1 DEF DeliverBuffered
    <3>3. GapFree(d)  OBVIOUS
    <3> QED  BY <3>1, <3>2, <3>3
  <2>2. CASE d = c
    <3>1. last[c] + Len(queue[c]) = count - 1  BY <1>3, <2>2 DEF DeliverBuffered
    <3>2. queue'[c] = Append(queue[c], count)  BY <1>3, <2>2 DEF DeliverBuffered
    <3>3. last[c] \in Nat /\ count \in Nat /\ queue[c] \in Seq(1 .. MaxEvents)  OBVIOUS
    <3>4. queue[c] = [i \in 1 .. Len(queue[c]) |-> last[c] + i]  BY <2>2
    <3>5. Append(queue[c], count) = [i \in 1 .. (Len(queue[c]) + 1) |-> last[c] + i]
      <4>0. Len(queue[c]) \in Nat  BY <3>3
      <4>1. count = last[c] + Len(queue[c]) + 1  BY <3>1, <3>3, <4>0
      <4>2. queue[c] = Run(last[c], Len(queue[c]))  BY <3>4 DEF Run
      <4> QED  BY <3>3, <4>0, <4>1, <4>2, RunGrows DEF Run
    <3>6. Len(queue'[c]) = Len(queue[c]) + 1  BY <3>2, <3>3
    <3> QED  BY <1>3, <2>2, <3>1, <3>2, <3>3, <3>5, <3>6 DEF DeliverBuffered
  <2> QED  BY <2>1, <2>2
<1>4. ASSUME NEW p \in Publishers, PublishEnd(p) PROVE BufferedGapFree'
  BY <1>4 DEF PublishEnd
<1>5. ASSUME NEW c \in Channels, Subscribe(c) PROVE BufferedGapFree'
  <2> SUFFICES ASSUME NEW d \in Buffered, sub'[d] = "on" PROVE GapFree(d)'
    OBVIOUS
  <2>1. CASE d # c  BY <1>5, <2>1 DEF Subscribe
  <2>2. CASE d = c
    <3>1. queue'[c] = <<>> /\ last'[c] = count /\ todo' = {} /\ count' = count
      BY <1>5 DEF Subscribe
    <3>2. <<>> = [i \in 1 .. 0 |-> count + i]  OBVIOUS
    <3> QED  BY <2>2, <3>1, <3>2
  <2> QED  BY <2>1, <2>2
<1>6. ASSUME NEW c \in Channels, Receive(c) PROVE BufferedGapFree'
  <2> SUFFICES ASSUME NEW d \in Buffered, sub[d] = "on" PROVE GapFree(d)'
    BY <1>6 DEF Receive
  <2>1. CASE d # c  BY <1>6, <2>1 DEF Receive
  <2>2. CASE d = c
    <3>1. queue[c] = [i \in 1 .. Len(queue[c]) |-> last[c] + i]  BY <1>6, <2>2
    <3>2. queue[c] \in Seq(1 .. MaxEvents) /\ queue[c] # <<>> /\ last[c] \in Nat
      BY <1>6 DEF Receive
    <3>3. last'[c] = Head(queue[c]) /\ queue'[c] = Tail(queue[c])  BY <1>6 DEF Receive
    <3>4. Len(queue[c]) \in Nat /\ Len(queue[c]) # 0  BY <3>2
    <3>5. /\ last'[c] = last[c] + 1
          /\ queue'[c] = [i \in 1 .. (Len(queue[c]) - 1) |-> last[c] + 1 + i]
      <4>1. queue[c] = Run(last[c], Len(queue[c]))  BY <3>1 DEF Run
      <4>2. /\ Head(Run(last[c], Len(queue[c]))) = last[c] + 1
            /\ Tail(Run(last[c], Len(queue[c]))) = Run(last[c] + 1, Len(queue[c]) - 1)
        BY <3>2, <3>4, RunShrinks
      <4>3. /\ Head(queue[c]) = last[c] + 1
            /\ Tail(queue[c]) = Run(last[c] + 1, Len(queue[c]) - 1)
        BY <4>1, <4>2
      <4> QED  BY <3>3, <4>3 DEF Run
    <3>6. Len(queue'[c]) = Len(queue[c]) - 1  BY <3>2, <3>3
    <3> QED  BY <1>6, <2>2, <3>2, <3>4, <3>5, <3>6 DEF Receive
  <2> QED  BY <2>1, <2>2
<1>7. ASSUME NEW c \in Plain, UnsubscribePlain(c) PROVE BufferedGapFree'
  BY <1>7 DEF UnsubscribePlain
<1>8. ASSUME NEW c \in Buffered, CloseDone(c) PROVE BufferedGapFree'
  BY <1>8 DEF CloseDone
<1>9. ASSUME NEW c \in Buffered, UnsubscribeBuffered(c) PROVE BufferedGapFree'
  BY <1>9 DEF UnsubscribeBuffered
<1>10. CASE UNCHANGED hubState
  BY <1>10 DEF hubState
<1> QED
  BY <1>1, <1>2, <1>3, <1>4, <1>5, <1>6, <1>7, <1>8, <1>9, <1>10 DEF HubNext, PublishStep

\* A buffered subscriber sees every event since it subscribed, once and in
\* order, whatever the capacity and however often Publish had to wait for it.
THEOREM BufferedSeesAll == HubSpec => []BufferedGapFree
<1>1. HubInit => BufferedGapFree  BY DEF HubInit, BufferedGapFree, Channels
<1>2. HubInv /\ BufferedGapFree /\ [HubNext]_hubState => BufferedGapFree'  BY BufferedStep
<1> QED  BY <1>1, <1>2, HubInvariant, PTL DEF HubSpec

-----------------------------------------------------------------------------
(* Powers of two *)

\* The least element of a set of numbers.
LEMMA LeastElement ==
  ASSUME NEW S \in SUBSET Nat, S # {}
  PROVE  \E m \in S : \A n \in S : m <= n
<1> DEFINE R == OpToRel(<, Nat)
<1>1. \E x \in S : \A y \in S : ~(<<y, x>> \in R)
  <2> HIDE DEF R
  <2>1. IsWellFoundedOn(R, Nat)  BY NatLessThanWellFounded DEF R
  <2> QED  BY <2>1, WFMin
<1>2. \A x \in Nat, y \in Nat : y < x => <<y, x>> \in R  BY DEF OpToRel
<1> HIDE DEF R
<1>3. PICK x \in S : \A y \in S : ~(<<y, x>> \in R)  BY <1>1
<1>4. \A y \in S : ~(y < x)  BY <1>2, <1>3
<1> QED  BY <1>4

\* The powers of two up to an exponent.
Powers(n) == {g \in [0 .. n -> Nat] : g[0] = 1 /\ \A i \in 1 .. n : g[i] = 2 * g[i - 1]}

\* There are such tables,
LEMMA PowersExist == \A n \in Nat : \E g : g \in Powers(n)
<1> DEFINE S == {n \in Nat : ~\E g : g \in Powers(n)}
<1> SUFFICES ASSUME S # {} PROVE FALSE  OBVIOUS
<1>1. PICK m \in S : \A n \in S : m <= n  BY LeastElement
<1>2. m \in Nat /\ ~\E g : g \in Powers(m)  OBVIOUS
<1>3. CASE m = 0
  <2>1. [i \in 0 .. 0 |-> 1] \in Powers(0)  BY SMT DEF Powers
  <2> QED  BY <1>2, <1>3, <2>1
<1>4. CASE m # 0
  <2>1. m - 1 \in Nat /\ ~(m <= m - 1)  BY <1>2, <1>4, SMT
  <2>2. PICK g : g \in Powers(m - 1)  BY <1>1, <2>1
  <2> DEFINE h == [i \in 0 .. m |-> IF i = m THEN 2 * g[m - 1] ELSE g[i]]
  <2>3. /\ g \in [0 .. (m - 1) -> Nat] /\ g[0] = 1
        /\ \A i \in 1 .. (m - 1) : g[i] = 2 * g[i - 1]
    BY <2>2 DEF Powers
  <2>4. m - 1 \in 0 .. (m - 1) /\ \A i \in 0 .. m : i # m => i \in 0 .. (m - 1)
    BY <1>2, <1>4, SMT
  <2>5. h \in [0 .. m -> Nat]  BY <2>3, <2>4, SMT
  <2>6. h[0] = 1  BY <1>2, <1>4, <2>3, SMT
  <2>7. ASSUME NEW i \in 1 .. m PROVE h[i] = 2 * h[i - 1]
    <3>1. i \in 0 .. m /\ i - 1 \in 0 .. m /\ i - 1 # m  BY <1>2, SMT
    <3>2. h[i - 1] = g[i - 1]  BY <3>1
    <3>3. CASE i = m  BY <3>1, <3>2, <3>3
    <3>4. CASE i # m
      <4>1. i \in 1 .. (m - 1)  BY <1>2, <3>4, SMT
      <4> QED  BY <2>3, <3>1, <3>2, <3>4, <4>1
    <3> QED  BY <3>3, <3>4
  <2>8. h \in Powers(m)  BY <2>5, <2>6, <2>7 DEF Powers
  <2> QED  BY <1>2, <2>8
<1> QED  BY <1>3, <1>4

\* ... and any two agree where both are defined.
LEMMA PowersAgree ==
  ASSUME NEW n \in Nat, NEW m \in Nat, NEW g \in Powers(n), NEW h \in Powers(m),
         NEW k \in Nat, k <= n, k <= m
  PROVE  g[k] = h[k]
<1> DEFINE S == {i \in Nat : i <= n /\ i <= m /\ g[i] # h[i]}
<1> SUFFICES ASSUME S # {} PROVE FALSE  OBVIOUS
<1>1. PICK l \in S : \A i \in S : l <= i  BY LeastElement
<1>2. l \in Nat /\ l <= n /\ l <= m /\ g[l] # h[l]  OBVIOUS
<1>3. l # 0  BY <1>2 DEF Powers
<1>4. l - 1 \in Nat /\ ~(l <= l - 1) /\ l - 1 <= n /\ l - 1 <= m /\ l \in 1 .. n /\ l \in 1 .. m
  BY <1>2, <1>3, SMT
<1>5. g[l - 1] = h[l - 1]  BY <1>1, <1>4
<1>6. g[l] = 2 * g[l - 1] /\ h[l] = 2 * h[l - 1]  BY <1>4 DEF Powers
<1> QED  BY <1>2, <1>5, <1>6

\* The recursive definition says what it seems to say.
LEMMA PowerOfTwoDef ==
  PowerOfTwo = [n \in Nat |-> IF n = 0 THEN 1 ELSE 2 * PowerOfTwo[n - 1]]
<1> DEFINE T(n) == CHOOSE g : g \in Powers(n)
           F == [n \in Nat |-> T(n)[n]]
<1>1. \A n \in Nat : T(n) \in Powers(n)  BY PowersExist
<1> HIDE DEF T
<1>2. ASSUME NEW n \in Nat PROVE F[n] = IF n = 0 THEN 1 ELSE 2 * F[n - 1]
  <2>1. F[n] = T(n)[n]  OBVIOUS
  <2>2. CASE n = 0  BY <1>1, <2>1, <2>2 DEF Powers
  <2>3. CASE n # 0
    <3>1. n - 1 \in Nat /\ n \in 1 .. n /\ n - 1 <= n /\ n - 1 <= n - 1  BY <2>3, SMT
    <3>2. T(n)[n] = 2 * T(n)[n - 1]  BY <1>1, <3>1 DEF Powers
    <3>3. T(n)[n - 1] = T(n - 1)[n - 1]  BY <1>1, <3>1, PowersAgree
    <3>4. F[n - 1] = T(n - 1)[n - 1]  BY <3>1
    <3> QED  BY <2>1, <2>3, <3>2, <3>3, <3>4
  <2> QED  BY <2>2, <2>3
<1>3. F = [n \in Nat |-> IF n = 0 THEN 1 ELSE 2 * F[n - 1]]
  <2>1. F = [n \in Nat |-> F[n]]  OBVIOUS
  <2> HIDE DEF F
  <2> QED  BY <1>2, <2>1
<1> HIDE DEF F
<1>4. \E f : f = [n \in Nat |-> IF n = 0 THEN 1 ELSE 2 * f[n - 1]]  BY <1>3
<1> QED  BY <1>4 DEF PowerOfTwo

\* Powers of two by doubling.
LEMMA Doubling ==
  /\ PowerOfTwo[0] = 1
  /\ \A n \in Nat : PowerOfTwo[n] \in Nat /\ PowerOfTwo[n + 1] = 2 * PowerOfTwo[n]
<1>1. \A n \in Nat : PowerOfTwo[n] = IF n = 0 THEN 1 ELSE 2 * PowerOfTwo[n - 1]
  <2> DEFINE P == PowerOfTwo
  <2>1. P = [n \in Nat |-> IF n = 0 THEN 1 ELSE 2 * P[n - 1]]  BY PowerOfTwoDef
  <2> HIDE DEF P
  <2>2. \A n \in Nat : P[n] = IF n = 0 THEN 1 ELSE 2 * P[n - 1]  BY <2>1
  <2> QED  BY <2>2 DEF P
<1>2. \A n \in Nat : PowerOfTwo[n + 1] = 2 * PowerOfTwo[n]
  <2> TAKE n \in Nat
  <2>1. n + 1 \in Nat /\ n + 1 # 0 /\ (n + 1) - 1 = n  BY SMT
  <2> QED  BY <1>1, <2>1
<1>3. \A n \in Nat : PowerOfTwo[n] \in Nat
  <2> DEFINE S == {n \in Nat : PowerOfTwo[n] \notin Nat}
  <2> SUFFICES ASSUME S # {} PROVE FALSE  OBVIOUS
  <2>1. PICK m \in S : \A n \in S : m <= n  BY LeastElement
  <2>2. m \in Nat /\ PowerOfTwo[m] \notin Nat  OBVIOUS
  <2>3. m # 0  BY <1>1, <2>2
  <2>4. m - 1 \in Nat /\ ~(m <= m - 1)  BY <2>2, <2>3, SMT
  <2>5. PowerOfTwo[m - 1] \in Nat  BY <2>1, <2>4
  <2>6. PowerOfTwo[m] = 2 * PowerOfTwo[m - 1]  BY <1>1, <2>2, <2>3
  <2> QED  BY <2>2, <2>5, <2>6, SMT
<1> QED  BY <1>1, <1>2, <1>3

-----------------------------------------------------------------------------
(* The collector *)

USE DurationsAssumption, ReadingAssumption, BoundsAssumption
USE DEF pollVars, stateVars, monVars, hubVars, storeVars, histVars

\* The minute of a reading taken in 1 .. MaxNow is one of the stored minutes.
LEMMA MinuteInRange ==
  ASSUME NEW t \in 0 .. MaxNow
  PROVE  t \div MinuteLength \in Minutes
BY SMT DEF Minutes

\* Backoff.Next stays within the configured delays.
LEMMA BackoffInRange ==
  ASSUME NEW n \in RetryMin .. RetryMax
  PROVE  BackoffNext(n) \in RetryMin .. RetryMax
BY SMT DEF BackoffNext

\* SaveMinute keeps the table well typed.
LEMMA SaveRowType ==
  ASSUME rows \in [Minutes -> Times], NEW r, r.at \in Times, SaveRow(r)
  PROVE  rows' \in [Minutes -> Times]
<1>1. minuteOf(r) \in Minutes  BY MinuteInRange DEF minuteOf, Times
<1>2. rows[minuteOf(r)] \in Times  BY <1>1
<1> QED  BY <1>2 DEF SaveRow

-----------------------------------------------------------------------------
(* Types *)

\* The two Booleans, set by cancellation and by failed saves.
LEMMA FlagStep == FlagType /\ [Next]_vars => FlagType'
BY Zenon
   DEF FlagType, Next, Environment, Poller, Monitor, vars, Tick, Cancel, Start, PollTimer,
       WaitCancelled, ReadFails, PublishError, ReadSucceeds, SaveMinute,
       SaveEvents, RecordSuccess, PublishSnapshot, Signal, SignalFull, Drain, Flush,
       PublishFlushError, Join, MonitorUpdate, MonitorExpire, MonitorPublish,
       MonitorCancelled

\* The remaining variables.
OtherTypes == ControlType /\ ReadingType /\ StateType /\ StoreType

\* Every step keeps their types.
LEMMA OtherStep == ASSUME TypeOK, [Next]_vars PROVE OtherTypes'
<1> USE DEF TypeOK, OtherTypes, ControlType, ReadingType, StateType, StoreType
<1>1. CASE Tick
  BY <1>1 DEF Tick
<1>2. CASE Cancel
  BY <1>2 DEF Cancel
<1>3. CASE PollTimer
  BY <1>3 DEF PollTimer
<1>4. CASE WaitCancelled
  BY <1>4 DEF WaitCancelled
<1>5. CASE ReadFails
  BY <1>5 DEF ReadFails, StateAfterError
<1>6. CASE PublishError
  BY <1>6, BackoffInRange DEF PublishError
<1>7. CASE SaveMinute
  <2>1. ControlType' /\ ReadingType' /\ StateType'  BY <1>7 DEF SaveMinute
  <2>2. pending.at \in Times  BY DEF Reading, NoReading, Times
  <2>3. lost' \subseteq Times  BY <1>7, <2>2 DEF SaveMinute
  <2>4. rows' \in [Minutes -> Times]
    BY <1>7, <2>2, SaveRowType DEF SaveMinute
  <2> QED  BY <1>7, <2>1, <2>3, <2>4 DEF SaveMinute
<1>8. CASE SaveEvents
  BY <1>8 DEF SaveEvents, Changes, Times, Reading, NoReading
<1>9. CASE RecordSuccess
  BY <1>9 DEF RecordSuccess, Times, Reading, NoReading
<1>10. CASE PublishSnapshot
  BY <1>10 DEF PublishSnapshot
<1>11. CASE Signal \/ SignalFull \/ Drain
  <2>1. CASE Signal  BY <2>1 DEF Signal, Times
  <2>2. CASE SignalFull  BY <2>2 DEF SignalFull
  <2>3. CASE Drain  BY <2>3 DEF Drain, Times
  <2> QED  BY <1>11, <2>1, <2>2, <2>3
<1>12. CASE Flush
  BY <1>12, SaveRowType DEF Flush, StateAfterError, Reading, NoReading, Times
<1>13. CASE PublishFlushError
  BY <1>13 DEF PublishFlushError
<1>14. CASE Join
  BY <1>14 DEF Join
<1>15. CASE MonitorUpdate
  BY <1>15 DEF MonitorUpdate, Times
<1>16. CASE MonitorExpire
  <2>1. ControlType' /\ ReadingType' /\ StoreType'  BY <1>16 DEF MonitorExpire
  <2>2. StateType'  BY <1>16, Zenon DEF MonitorExpire, StateAfterStale
  <2> QED  BY <2>1, <2>2
<1>17. CASE MonitorPublish
  BY <1>17 DEF MonitorPublish
<1>18. CASE MonitorCancelled
  BY <1>18 DEF MonitorCancelled
<1>19. ASSUME NEW kind \in {"new", "rollback"}, Start(kind) PROVE OtherTypes'
  <2>1. ControlType' /\ ReadingType' /\ StoreType'  BY <1>19 DEF Start, Times
  <2>2. EmptyState \in [snapshot : Reading \cup {NoReading},
            lastSuccess : Times,
            errorClass : {"none", "storage", "communication", "stale"},
            stale : BOOLEAN]
    BY DEF EmptyState, Times
  <2>3. StateType'  BY <1>19, <2>2 DEF Start
  <2> QED  BY <2>1, <2>3
<1>20. ASSUME NEW s \in Statuses, NEW f \in Faults, ReadSucceeds(s, f)
       PROVE  OtherTypes'
  <2>1. ControlType' /\ StateType'  BY <1>20 DEF ReadSucceeds
  <2>2. copy' \in Reading  BY <1>20 DEF ReadSucceeds, Reading
  <2>3. ReadingType'  BY <1>20, <2>2 DEF ReadSucceeds
  <2>4. now \in Times  BY DEF Times
  <2>5. newest' \in [Minutes -> Times]  BY <1>20, <2>4 DEF ReadSucceeds
  <2>6. StoreType'  BY <1>20, <2>5 DEF ReadSucceeds
  <2> QED  BY <2>1, <2>3, <2>6
<1>21. CASE UNCHANGED vars
  BY <1>21 DEF vars
<1> QED
  BY ONLY [Next]_vars, <1>1, <1>2, <1>3, <1>4, <1>5, <1>6, <1>7, <1>8,
     <1>9, <1>10, <1>11, <1>12, <1>13, <1>14, <1>15, <1>16, <1>17, <1>18,
     <1>19, <1>20, <1>21
  DEF Next, Environment, Poller, Monitor

\* TypeOK holds in every reachable state, for every instance: whatever is read,
\* saved, lost or published, and however often the collector is restarted.
THEOREM TypeCorrect == Spec => []TypeOK
<1>1. Init => TypeOK
  <2> SUFFICES ASSUME Init PROVE TypeOK  OBVIOUS
  <2>1. ControlType  BY DEF Init, ControlType, Times
  <2>2. FlagType  BY Zenon DEF Init, FlagType
  <2>3. ReadingType  BY DEF Init, ReadingType
  <2>4. StateType  BY DEF Init, StateType, EmptyState, Times
  <2>5. StoreType  BY DEF Init, StoreType, Times
  <2> QED  BY <2>1, <2>2, <2>3, <2>4, <2>5 DEF TypeOK
<1>2. TypeOK /\ [Next]_vars => TypeOK'
  BY FlagStep, OtherStep DEF TypeOK, OtherTypes
<1> QED  BY <1>1, <1>2, PTL DEF Spec

-----------------------------------------------------------------------------
(* The two goroutines *)

\* The strengthening of StaleIsOld: a success is never recorded in the future.
SuccessIsPast == state.lastSuccess <= now

\* Telemetry marked stale is at least StaleAfter old, for every interleaving of
\* markStale with recordSuccess: the check under c.mu is what makes it so.
THEOREM StaleTelemetryIsOld == Spec => []StaleIsOld
<1> DEFINE Inv == SuccessIsPast /\ StaleIsOld
<1>1. Init => Inv
  BY DEF Init, SuccessIsPast, StaleIsOld, EmptyState
<1>2. TypeOK /\ Inv /\ [Next]_vars => Inv'
  <2> SUFFICES ASSUME TypeOK, Inv, [Next]_vars PROVE Inv'  OBVIOUS
  <2> USE DEF SuccessIsPast, StaleIsOld
  <2>0. now \in Nat /\ state.lastSuccess \in Nat
    BY DEF TypeOK, ControlType, StateType, Times
  <2>1. CASE state' = state /\ now' \in {now, now + 1}
    BY <2>0, <2>1
  <2>2. CASE state' = StateAfterError /\ now' = now
    BY <2>0, <2>2 DEF StateAfterError, TypeOK, StateType
  <2>3. CASE RecordSuccess
    BY <2>0, <2>3 DEF RecordSuccess
  <2>4. CASE MonitorExpire /\ ~StillFresh
    <3>1. now >= state.lastSuccess + StaleAfter
      BY <2>0, <2>4 DEF StillFresh
    <3>2. state'.lastSuccess = state.lastSuccess /\ now' = now
      BY <2>4 DEF MonitorExpire, StateAfterStale, TypeOK, StateType
    <3> QED  BY <2>0, <3>1, <3>2
  <2>5. CASE state' = EmptyState /\ now' = now
    BY <2>0, <2>5 DEF EmptyState
  <2> QED
    BY <2>1, <2>2, <2>3, <2>4, <2>5
    DEF Next, Environment, Poller, Monitor, vars, Tick, Cancel, Start, PollTimer,
       WaitCancelled, ReadFails, PublishError, ReadSucceeds, SaveMinute,
       SaveEvents, PublishSnapshot, Signal, SignalFull, Drain, Flush,
       PublishFlushError, Join, MonitorUpdate, MonitorExpire, MonitorPublish,
       MonitorCancelled
<1>3. Inv => StaleIsOld  OBVIOUS
<1> QED  BY <1>1, <1>2, <1>3, TypeCorrect, PTL DEF Spec

\* What makes MonitorInformed inductive: a success has a time, and what is in
\* the channel after a signal is the newest one.
WatchInv ==
  /\ previous # NoReading /\ pc # "record" => state.lastSuccess # 0
  /\ updates # 0 /\ pc \notin Informing => updates = state.lastSuccess
  /\ MonitorInformed

\* The monitor is told of the newest success, and Run never waits to tell it:
\* whatever the monitor took out of the channel, marked or missed before,
\* fresh telemetry of this run is watched by the channel or by the deadline.
THEOREM NewestStaysWatched == Spec => []MonitorInformed
<1> DEFINE Fields == [snapshot : Reading \cup {NoReading}, lastSuccess : Times,
                      errorClass : {"none", "storage", "communication", "stale"},
                      stale : BOOLEAN]
<1>1. Init => WatchInv
  BY DEF Init, WatchInv, MonitorInformed, SignalNeverBlocks, NewestSuccessWatched
<1>2. TypeOK /\ WatchInv /\ [Next]_vars => WatchInv'
  <2> SUFFICES ASSUME TypeOK, WatchInv, [Next]_vars PROVE WatchInv'
    OBVIOUS
  <2>0. /\ now \in Nat /\ now # 0 /\ state.lastSuccess \in Nat
        /\ updates \in Nat /\ deadline \in Nat /\ state \in Fields
    BY DEF TypeOK, ControlType, StateType, Times
  <2> USE DEF WatchInv, MonitorInformed, SignalNeverBlocks, NewestSuccessWatched, Informing
  <2>1. CASE Tick \/ Cancel \/ UNCHANGED vars  BY <2>1 DEF Tick, Cancel, vars
  <2>2. ASSUME NEW kind, Start(kind) PROVE WatchInv'  BY <2>2 DEF Start
  <2>3. CASE PollTimer \/ WaitCancelled \/ PublishError \/ SaveMinute
    BY <2>3 DEF PollTimer, WaitCancelled, PublishError, SaveMinute
  <2>4. ASSUME StateAfterError.lastSuccess = state.lastSuccess,
               StateAfterError.stale = state.stale,
               ReadFails \/ Flush
        PROVE  WatchInv'
    BY <2>4 DEF ReadFails, Flush
  <2>5. ASSUME NEW s \in Statuses, NEW f \in Faults, ReadSucceeds(s, f)
        PROVE  WatchInv'
    BY <2>5 DEF ReadSucceeds
  <2>6. CASE SaveEvents  BY <2>6 DEF SaveEvents
  <2>7. CASE RecordSuccess  BY <2>0, <2>7 DEF RecordSuccess
  <2>8. CASE PublishSnapshot \/ SignalFull \/ Drain
    BY <2>8 DEF PublishSnapshot, SignalFull, Drain
  <2>9. CASE Signal  BY <2>9 DEF Signal
  <2>10. CASE PublishFlushError \/ Join  BY <2>10 DEF PublishFlushError, Join
  <2>11. CASE MonitorUpdate  BY <2>0, <2>11 DEF MonitorUpdate
  <2>12. CASE MonitorExpire
    <3>1. CASE StillFresh
      <4>1. UNCHANGED <<pc, previous, mon, state, updates>> /\ now >= deadline
        BY <2>12, <3>1 DEF MonitorExpire
      <4>2. state.lastSuccess # 0 /\ ~state.stale =>
              deadline # state.lastSuccess + StaleAfter
        BY <2>0, <3>1, <4>1 DEF StillFresh
      <4> QED  BY <4>1, <4>2
    <3>2. CASE ~StillFresh
      <4>1. /\ UNCHANGED <<pc, previous, updates>> /\ state'.stale
            /\ state'.lastSuccess = state.lastSuccess
        BY <2>0, <2>12, <3>2 DEF MonitorExpire, StateAfterStale
      <4> QED  BY <4>1
    <3> QED  BY <3>1, <3>2
  <2>13. CASE MonitorPublish \/ MonitorCancelled
    BY <2>13 DEF MonitorPublish, MonitorCancelled
  <2>14. /\ StateAfterError.lastSuccess = state.lastSuccess
         /\ StateAfterError.stale = state.stale
    BY <2>0 DEF StateAfterError
  <2> QED
    BY <2>1, <2>2, <2>3, <2>4, <2>5, <2>6, <2>7, <2>8, <2>9, <2>10, <2>11, <2>12, <2>13, <2>14
    DEF Next, Environment, Poller, Monitor
<1>3. WatchInv => MonitorInformed  BY DEF WatchInv
<1> QED  BY <1>1, <1>2, <1>3, TypeCorrect, PTL DEF Spec

-----------------------------------------------------------------------------
(* Readings *)

\* The types the accounting of readings needs.
LEMMA ReadingFacts ==
  ASSUME TypeOK
  PROVE  /\ now \in 1 .. MaxNow
         /\ rows \in [Minutes -> Times] /\ newest \in [Minutes -> Times]
         /\ copy \in Reading \cup {NoReading}
         /\ pending \in Reading \cup {NoReading}
         /\ copy.at \in Times /\ pending.at \in Times
         /\ minuteOf(copy) \in Minutes /\ minuteOf(pending) \in Minutes
         /\ pending.at = 0 <=> pending = NoReading
<1>1. /\ now \in 1 .. MaxNow
      /\ rows \in [Minutes -> Times] /\ newest \in [Minutes -> Times]
      /\ copy \in Reading \cup {NoReading}
      /\ pending \in Reading \cup {NoReading}
  BY DEF TypeOK, ControlType, ReadingType, StoreType
<1>2. copy.at \in 0 .. MaxNow /\ pending.at \in 0 .. MaxNow
  BY <1>1 DEF Reading, NoReading
<1>3. minuteOf(copy) \in Minutes /\ minuteOf(pending) \in Minutes
  BY <1>2, MinuteInRange DEF minuteOf
<1>4. pending.at = 0 <=> pending = NoReading
  BY <1>1 DEF Reading, NoReading
<1> QED  BY <1>1, <1>2, <1>3, <1>4 DEF Times

\* Steps that handle no reading, and do not enter or leave the points where
\* Run has one in hand.
LEMMA IdleStep ==
  ASSUME TypeOK, Accounting,
         UNCHANGED <<rows, newest, lost, pending, copy>>,
         now' \in {now, now + 1},
         \/ pc' = pc
         \/ /\ pc \notin {"saveMinute", "saveEvents"}
            /\ pc' \notin {"saveMinute", "saveEvents"}
            /\ pc' \in {"off", "publishFlushError", "join"} =>
                 pc \in {"off", "publishFlushError", "join"}
  PROVE  Accounting'
<1> USE ReadingFacts DEF Accounting
<1>1. MinutesAccounted'
  <2> SUFFICES ASSUME NEW m \in Minutes
               PROVE  /\ newest[m] # 0 => newest[m] \div MinuteLength = m
                      /\ rows[m] <= newest[m] /\ newest[m] <= now'
    BY DEF MinutesAccounted
  <2>1. newest[m] \in Nat  BY DEF Times
  <2> QED  BY <2>1 DEF MinutesAccounted
<1>2. InHand'  BY DEF InHand, minuteOf, Times
<1>3. NoSilentLoss'  BY DEF NoSilentLoss
<1> QED  BY <1>1, <1>2, <1>3

\* A successful read replaces the newest reading of its minute and has it in
\* hand.
LEMMA ReadStep ==
  ASSUME TypeOK, Accounting,
         NEW s \in Statuses, NEW f \in Faults, ReadSucceeds(s, f)
  PROVE  Accounting'
<1> DEFINE m0 == now \div MinuteLength
<1> USE ReadingFacts DEF Accounting
<1>1. copy'.at = now /\ minuteOf(copy') = m0 /\ copy' # NoReading
  BY DEF ReadSucceeds, minuteOf, NoReading
<1>2. m0 \in Minutes  BY MinuteInRange
<1>3. newest' = [newest EXCEPT ![m0] = now]  BY <1>1 DEF ReadSucceeds
<1>4. UNCHANGED <<rows, lost, pending, now>>  BY DEF ReadSucceeds
<1>5. pc = "read" /\ pc' \in {"saveMinute", "saveEvents"}  BY DEF ReadSucceeds
<1>6. MinutesAccounted'
  <2> SUFFICES ASSUME NEW m \in Minutes
               PROVE  /\ newest'[m] # 0 => newest'[m] \div MinuteLength = m
                      /\ rows'[m] <= newest'[m] /\ newest'[m] <= now'
    BY DEF MinutesAccounted
  <2>1. CASE m = m0  BY <1>2, <1>3, <1>4, <2>1 DEF MinutesAccounted, Times
  <2>2. CASE m # m0  BY <1>2, <1>3, <1>4, <2>2 DEF MinutesAccounted
  <2> QED  BY <2>1, <2>2
<1>7. InHand'
  <2>1. pending'.at <= now' /\ copy'.at >= pending'.at
    BY <1>1, <1>4 DEF InHand, Times
  <2>2. ASSUME pending # NoReading
        PROVE  pending'.at <= newest'[minuteOf(pending')]
    <3>1. CASE minuteOf(pending) = m0
      BY <1>2, <1>3, <1>4, <3>1 DEF InHand, minuteOf
    <3>2. CASE minuteOf(pending) # m0
      BY <1>2, <1>3, <1>4, <2>2, <3>2 DEF InHand, minuteOf
    <3> QED  BY <3>1, <3>2
  <2>3. copy'.at = newest'[minuteOf(copy')]  BY <1>1, <1>2, <1>3
  <2>4. /\ pc' = "saveMinute" => pending # NoReading
        /\ pc' = "saveEvents" /\ pending # NoReading =>
             minuteOf(pending) = minuteOf(copy')
    BY DEF ReadSucceeds
  <2>5. minuteOf(pending') = minuteOf(pending)  BY <1>4 DEF minuteOf
  <2> QED  BY <1>1, <1>4, <1>5, <2>1, <2>2, <2>3, <2>4, <2>5 DEF InHand
<1>8. NoSilentLoss'
  <2> SUFFICES ASSUME NEW m \in Minutes, newest'[m] # 0
               PROVE  \/ rows'[m] = newest'[m]
                      \/ pending'.at = newest'[m]
                      \/ /\ copy'.at = newest'[m]
                         /\ pc' \in {"saveMinute", "saveEvents"}
                      \/ newest'[m] \in lost'
    BY DEF NoSilentLoss
  <2>1. CASE m = m0  BY <1>1, <1>2, <1>3, <1>5, <2>1
  <2>2. CASE m # m0  BY <1>2, <1>3, <1>4, <1>5, <2>2 DEF NoSilentLoss
  <2> QED  BY <2>1, <2>2
<1> QED  BY <1>6, <1>7, <1>8

\* Saving the pending reading, at a rollover or at the end: the row of its
\* minute becomes the newest reading of that minute, or the reading is lost.
LEMMA SaveStep ==
  ASSUME TypeOK, Accounting, pending # NoReading,
         \/ SaveRow(pending) /\ lost' = lost
         \/ rows' = rows /\ lost' = lost \cup {pending.at},
         pending' = NoReading, UNCHANGED <<copy, newest, now>>,
         \/ pc = "saveMinute" /\ pc' = "saveEvents"
         \/ pc = "flush" /\ pc' \in {"join", "publishFlushError"}
  PROVE  Accounting'
<1> DEFINE m0 == minuteOf(pending)
<1> USE ReadingFacts DEF Accounting
<1>1. m0 \in Minutes /\ pending.at <= newest[m0]  BY DEF InHand
<1>2. ASSUME NEW m \in Minutes, pending.at = newest[m] PROVE m = m0
  BY <1>2 DEF MinutesAccounted, minuteOf
<1>3. ASSUME NEW m \in Minutes
      PROVE  /\ rows'[m] <= newest[m]
             /\ rows[m] = newest[m] => rows'[m] = newest[m]
             /\ pending.at = newest[m] =>
                  rows'[m] = newest[m] \/ newest[m] \in lost'
  <2>1. CASE rows' = rows /\ lost' = lost \cup {pending.at}
    BY <2>1 DEF MinutesAccounted
  <2>2. CASE SaveRow(pending) /\ m # m0
    BY <1>1, <1>2, <2>2 DEF SaveRow, MinutesAccounted
  <2>3. CASE SaveRow(pending) /\ m = m0
    <3>1. rows'[m0] = IF pending.at >= rows[m0] THEN pending.at ELSE rows[m0]
      BY <1>1, <2>3 DEF SaveRow
    <3>2. rows[m0] <= newest[m0]  BY <1>1 DEF MinutesAccounted
    <3> QED  BY <1>1, <2>3, <3>1, <3>2 DEF Times
  <2> QED  BY <2>1, <2>2, <2>3
<1>4. MinutesAccounted'  BY <1>3 DEF MinutesAccounted
<1>5. InHand'
  <2>1. pending'.at = 0  BY DEF NoReading
  <2>2. minuteOf(copy') = minuteOf(copy)  BY DEF minuteOf
  <2> QED  BY <2>1, <2>2 DEF InHand, Times
<1>6. NoSilentLoss'
  <2> SUFFICES ASSUME NEW m \in Minutes, newest[m] # 0
               PROVE  \/ rows'[m] = newest[m]
                      \/ /\ copy.at = newest[m]
                         /\ pc' \in {"saveMinute", "saveEvents"}
                      \/ newest[m] \in lost'
    BY DEF NoSilentLoss
  <2>1. lost \subseteq lost'  OBVIOUS
  <2> QED  BY <1>3, <2>1 DEF NoSilentLoss
<1> QED  BY <1>4, <1>5, <1>6

\* The new reading becomes the pending one.
LEMMA KeepStep ==
  ASSUME TypeOK, Accounting, SaveEvents
  PROVE  Accounting'
<1> USE ReadingFacts DEF Accounting
<1>1. copy # NoReading /\ copy.at = newest[minuteOf(copy)]
      /\ copy.at >= pending.at
  BY DEF SaveEvents, InHand
<1>2. pending' = copy  BY <1>1 DEF SaveEvents
<1>3. UNCHANGED <<now, copy, rows, newest, lost>> /\ pc' = "record"
  BY DEF SaveEvents
<1>4. ASSUME NEW m \in Minutes, pending.at = newest[m], newest[m] # 0
      PROVE  newest[m] = copy.at
  <2>1. pending # NoReading  BY <1>4
  <2>2. minuteOf(pending) = minuteOf(copy)  BY <2>1 DEF SaveEvents, InHand
  <2>3. minuteOf(pending) = m  BY <1>4 DEF MinutesAccounted, minuteOf
  <2> QED  BY <1>1, <2>2, <2>3
<1>5. MinutesAccounted'  BY <1>3 DEF MinutesAccounted
<1>6. InHand'
  <2>1. copy.at <= now  BY <1>1 DEF MinutesAccounted
  <2>2. minuteOf(pending') = minuteOf(copy)  BY <1>2 DEF minuteOf
  <2> QED  BY <1>1, <1>2, <1>3, <2>1, <2>2 DEF InHand, Times
<1>7. NoSilentLoss'
  BY <1>2, <1>3, <1>4 DEF NoSilentLoss
<1> QED  BY <1>5, <1>6, <1>7

\* No reading is lost silently, whatever the interleaving of polls, rollovers,
\* failed saves, cancellations and restarts: the newest reading of every minute
\* is stored, pending, in the hands of Run, or its save failed.
THEOREM ReadingsAccounted == Spec => []NoSilentLoss
<1>1. Init => Accounting
  BY MinuteInRange
  DEF Init, Accounting, MinutesAccounted, InHand, NoSilentLoss, NoReading, Minutes
<1>2. TypeOK /\ Accounting /\ [Next]_vars => Accounting'
  <2> SUFFICES ASSUME TypeOK, Accounting, [Next]_vars PROVE Accounting'
    OBVIOUS
  <2>1. CASE Tick  BY <2>1, IdleStep DEF Tick
  <2>2. CASE Cancel  BY <2>2, IdleStep DEF Cancel
  <2>3. ASSUME NEW kind, Start(kind) PROVE Accounting'
    <3>1. pending = NoReading  BY <2>3 DEF Start, Accounting, InHand
    <3>2. /\ UNCHANGED <<now, rows, newest, lost>>
          /\ pending' = pending /\ pc = "off" /\ pc' = "read"
      BY <2>3, <3>1 DEF Start
    <3> QED
      BY <3>1, <3>2, ReadingFacts
      DEF Accounting, MinutesAccounted, InHand, NoSilentLoss
  <2>4. CASE PollTimer  BY <2>4, IdleStep DEF PollTimer
  <2>5. CASE WaitCancelled  BY <2>5, IdleStep DEF WaitCancelled
  <2>6. CASE ReadFails  BY <2>6, IdleStep DEF ReadFails
  <2>7. CASE PublishError  BY <2>7, IdleStep DEF PublishError
  <2>8. ASSUME NEW s \in Statuses, NEW f \in Faults, ReadSucceeds(s, f)
        PROVE  Accounting'
    BY <2>8, ReadStep
  <2>9. CASE SaveMinute
    <3>1. pending # NoReading  BY <2>9 DEF SaveMinute, Accounting, InHand
    <3> QED  BY <2>9, <3>1, SaveStep DEF SaveMinute
  <2>10. CASE SaveEvents  BY <2>10, KeepStep
  <2>11. CASE RecordSuccess  BY <2>11, IdleStep DEF RecordSuccess
  <2>12. CASE PublishSnapshot  BY <2>12, IdleStep DEF PublishSnapshot
  <2>13. CASE Signal \/ SignalFull \/ Drain
    BY <2>13, IdleStep DEF Signal, SignalFull, Drain
  <2>14. CASE Flush
    <3>1. CASE pending # NoReading  BY <2>14, <3>1, SaveStep DEF Flush
    <3>2. CASE pending = NoReading
      <4>1. /\ UNCHANGED <<now, copy, rows, newest, lost, pending>>
            /\ pc = "flush" /\ pc' = "join"
        BY <2>14, <3>2 DEF Flush
      <4> QED
        BY <3>2, <4>1, ReadingFacts
        DEF Accounting, MinutesAccounted, InHand, NoSilentLoss
    <3> QED  BY <3>1, <3>2
  <2>15. CASE PublishFlushError  BY <2>15, IdleStep DEF PublishFlushError
  <2>16. CASE Join  BY <2>16, IdleStep DEF Join
  <2>17. CASE MonitorUpdate  BY <2>17, IdleStep DEF MonitorUpdate
  <2>18. CASE MonitorExpire  BY <2>18, IdleStep DEF MonitorExpire
  <2>19. CASE MonitorPublish  BY <2>19, IdleStep DEF MonitorPublish
  <2>20. CASE MonitorCancelled  BY <2>20, IdleStep DEF MonitorCancelled
  <2>21. CASE UNCHANGED vars  BY <2>21, IdleStep DEF vars
  <2> QED
    BY <2>1, <2>2, <2>3, <2>4, <2>5, <2>6, <2>7, <2>8, <2>9, <2>10, <2>11,
       <2>12, <2>13, <2>14, <2>15, <2>16, <2>17, <2>18, <2>19, <2>20, <2>21
    DEF Next, Environment, Poller, Monitor
<1>3. Accounting => NoSilentLoss  BY DEF Accounting
<1> QED  BY <1>1, <1>2, <1>3, TypeCorrect, PTL DEF Spec

\* A failed save stays visible until the next poll: the freshness monitor never
\* overwrites it.  StorageFailureKept is the inductive form.
THEOREM StorageFailureStays == Spec => []StorageFailureShown
<1>1. Init => StorageFailureKept  BY Zenon DEF Init, StorageFailureKept
<1>2. TypeOK /\ StorageFailureKept /\ [Next]_vars => StorageFailureKept'
  <2> SUFFICES ASSUME TypeOK, StorageFailureKept, [Next]_vars
               PROVE  StorageFailureKept'
    OBVIOUS
  <2> USE DEF StorageFailureKept
  <2>1. CASE RecordSuccess  BY <2>1 DEF RecordSuccess
  <2>2. CASE MonitorExpire
    BY <2>2 DEF MonitorExpire, StateAfterStale, TypeOK, StateType
  <2>3. CASE ReadFails
    BY <2>3 DEF ReadFails, StateAfterError, TypeOK, StateType
  <2>4. CASE Flush
    BY <2>4 DEF Flush, StateAfterError, TypeOK, StateType
  <2> QED
    BY <2>1, <2>2, <2>3, <2>4
    DEF Next, Environment, Poller, Monitor, vars, Tick, Cancel, Start,
        PollTimer, WaitCancelled, PublishError, ReadSucceeds, SaveMinute,
        SaveEvents, PublishSnapshot, Signal, SignalFull, Drain,
        PublishFlushError, Join,
        MonitorUpdate, MonitorPublish, MonitorCancelled
<1>3. StorageFailureKept => StorageFailureShown
  BY DEF StorageFailureKept, StorageFailureShown
<1> QED  BY <1>1, <1>2, <1>3, TypeCorrect, PTL DEF Spec

\* The state that State() returns is truthful: stale telemetry is old, and a
\* failed save is shown.
THEOREM StateIsTruthful == Spec => []StateTruthful
<1> QED  BY StaleTelemetryIsOld, StorageFailureStays, PTL DEF StateTruthful

-----------------------------------------------------------------------------
(* Backoff *)

\* Backoff.Next goes from one delay of the closed form to the following one.
LEMMA DelayNext ==
  ASSUME NEW k \in Nat
  PROVE  BackoffNext(DelayAfter(k)) = DelayAfter(k + 1)
<1> DEFINE d == RetryMin * PowerOfTwo[k]
<1>1. d \in Nat
  <2>1. PowerOfTwo[k] \in Nat  BY Doubling
  <2> QED  BY <2>1, SMT
<1>2. RetryMin * PowerOfTwo[k + 1] = 2 * d
  <2>1. PowerOfTwo[k] \in Nat /\ PowerOfTwo[k + 1] = 2 * PowerOfTwo[k]  BY Doubling
  <2> QED  BY <2>1, SMT
<1>3. DelayAfter(k) = IF d < RetryMax THEN d ELSE RetryMax  BY DEF DelayAfter
<1>4. DelayAfter(k + 1) = IF 2 * d < RetryMax THEN 2 * d ELSE RetryMax  BY <1>2 DEF DelayAfter
<1> HIDE DEF d
<1>5. CASE d >= RetryMax  BY <1>1, <1>3, <1>4, <1>5, SMT DEF BackoffNext
<1>6. CASE d < RetryMax  BY <1>1, <1>3, <1>4, <1>6, SMT DEF BackoffNext
<1> QED  BY <1>1, <1>5, <1>6, SMT

\* Between a failed read and the choice of the delay the failure is counted already.
BackoffInv ==
  IF pc = "publishError" THEN failures > 0 /\ next = DelayAfter(failures - 1)
                         ELSE next = DelayAfter(failures)

\* The first delay is RetryMin.
LEMMA FirstDelay == DelayAfter(0) = RetryMin
<1>1. RetryMin * PowerOfTwo[0] = RetryMin  BY Doubling, SMT
<1> QED  BY <1>1, SMT DEF DelayAfter

\* Every step keeps the delay on the closed form.
LEMMA BackoffStep == TypeOK /\ BackoffInv /\ [Next]_vars => BackoffInv'
<1> SUFFICES ASSUME TypeOK, BackoffInv, [Next]_vars PROVE BackoffInv'  OBVIOUS
<1>1. CASE ReadFails
  <2>1. failures \in Nat  BY DEF TypeOK, ControlType
  <2>2. pc = "read" /\ next = DelayAfter(failures) /\ next' = next
    BY <1>1 DEF ReadFails, BackoffInv
  <2>3. CASE cancelled  BY <1>1, <2>2, <2>3 DEF ReadFails, BackoffInv
  <2>4. CASE ~cancelled
    <3>1. pc' = "publishError" /\ failures' = failures + 1  BY <1>1, <2>4 DEF ReadFails
    <3>2. failures' > 0 /\ failures' - 1 = failures  BY <2>1, <3>1, SMT
    <3> QED  BY <2>2, <3>1, <3>2 DEF BackoffInv
  <2> QED  BY <2>3, <2>4
<1>2. CASE PublishError
  <2>1. failures \in Nat  BY DEF TypeOK, ControlType
  <2>2. /\ failures > 0 /\ next = DelayAfter(failures - 1)
        /\ next' = BackoffNext(next) /\ failures' = failures /\ pc' = "wait"
    BY <1>2 DEF PublishError, BackoffInv
  <2>3. failures - 1 \in Nat /\ (failures - 1) + 1 = failures  BY <2>1, <2>2, SMT
  <2>4. BackoffNext(DelayAfter(failures - 1)) = DelayAfter(failures)  BY <2>3, DelayNext
  <2> QED  BY <2>2, <2>4 DEF BackoffInv
<1>3. CASE Signal  BY <1>3, FirstDelay DEF Signal, BackoffInv
<1>4. CASE \E kind \in {"new", "rollback"} : Start(kind)
  BY <1>4, FirstDelay DEF Start, BackoffInv
<1>5. CASE Tick \/ Cancel \/ Monitor \/ UNCHANGED vars
  BY <1>5 DEF Tick, Cancel, Monitor, MonitorUpdate, MonitorExpire, MonitorPublish,
              MonitorCancelled, vars, BackoffInv
<1>6. CASE PollTimer \/ WaitCancelled \/ SignalFull \/ Drain \/ Flush \/ PublishFlushError \/ Join
  BY <1>6 DEF PollTimer, WaitCancelled, SignalFull, Drain, Flush, PublishFlushError, Join, BackoffInv
<1>7. CASE \/ \E s \in Statuses, f \in Faults : ReadSucceeds(s, f)
           \/ SaveMinute \/ SaveEvents \/ RecordSuccess \/ PublishSnapshot
  BY <1>7 DEF ReadSucceeds, SaveMinute, SaveEvents, RecordSuccess, PublishSnapshot, BackoffInv
<1> QED
  BY <1>1, <1>2, <1>3, <1>4, <1>5, <1>6, <1>7 DEF Next, Environment, Poller

\* Retries double from RetryMin up to RetryMax, and any success resets them:
\* after any number of failures the next delay of Backoff.Next is the closed
\* form, for every RetryMin and RetryMax.
THEOREM RetriesDouble == Spec => []BackoffExponential
<1>1. Init => BackoffInv  BY FirstDelay DEF Init, BackoffInv
<1>2. BackoffInv => BackoffExponential  BY DEF BackoffInv, BackoffExponential
<1> QED  BY <1>1, <1>2, BackoffStep, TypeCorrect, PTL DEF Spec
=============================================================================
