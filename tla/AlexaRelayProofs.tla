--------------------------- MODULE AlexaRelayProofs ---------------------------
(***************************************************************************)
(* Proofs about the Alexa relay, for any devices, readings and bounds.     *)
(***************************************************************************)
EXTENDS AlexaRelay, SequenceTheorems, FiniteSetTheorems, TLAPS

USE ReadingsAssumption, BoundsAssumption
USE DEF store, scheduler, bounds

-----------------------------------------------------------------------------
(* Types *)

\* The time of a snapshot, or of none, is a number.
LEMMA AtIsNat == ASSUME NEW s \in Readings \cup {None} PROVE At(s) \in Nat
BY DEF At, Snapshot

\* Display fits a widget.
LEMMA DisplayType == ASSUME NEW s \in Readings PROVE Display(s) \in [at : Nat, look : Look]
BY DEF Display, Look, Snapshot

\* A save leaves the queue and the settled handlers well typed.
LEMMA SaveType ==
  ASSUME StoreType, NEW content \in State, NEW c \in Continuation, Save(content, c)
  PROVE  saves' \in Seq(Write) /\ settled' \in Seq(Outcome)
<1>1. CASE healthy
  <2>1. [content |-> content, then |-> c] \in Write  BY DEF Write
  <2> QED  BY <1>1, <2>1, AppendProperties DEF Save, StoreType
<1>2. CASE ~healthy
  <2>1. [then |-> c, ok |-> FALSE] \in Outcome  BY DEF Outcome
  <2> QED  BY <1>2, <2>1, AppendProperties DEF Save, StoreType
<1> QED  BY <1>1, <1>2

\* What a push is started with.
LEMMA PushType == ASSUME StoreType PROVE Push \in Loop
BY DEF StoreType, State, Push, Loop

\* Scheduling keeps the loops well typed.
LEMMA ScheduleType ==
  ASSUME StoreType, SchedulerType, Schedule
  PROVE  loops' \in [Loops -> Loop] /\ excused' \subseteq Devices
<1>1. Push \in Loop  BY PushType
<1>2. loops' = loops \/ loops' = [loops EXCEPT ![FreeLoop] = Push]  BY DEF Schedule
<1> QED  BY <1>1, <1>2 DEF SchedulerType, Schedule

\* So does the end of a push.
LEMMA GoesOnType ==
  ASSUME StoreType, SchedulerType, WidgetType, NEW l \in Loops, NEW failed \in SUBSET Devices,
         LoopGoesOn(l, failed)
  PROVE  loops' \in [Loops -> Loop] /\ excused' \subseteq Devices
<1>1. Push \in Loop  BY PushType
<1>2. [NoLoop EXCEPT !.phase = "exit"] \in Loop  BY DEF NoLoop, Loop
<1>3. \/ loops' = [loops EXCEPT ![l] = Push] /\ excused' = {}
      \/ /\ loops' = [loops EXCEPT ![l] = [NoLoop EXCEPT !.phase = "exit"]]
         /\ excused' = excused \cup failed
  BY DEF LoopGoesOn
<1> QED  BY <1>1, <1>2, <1>3 DEF SchedulerType, WidgetType

\* Every step keeps memory, file, write queue and settled handlers well typed.
LEMMA StoreStep == ASSUME TypeOK, [Next]_vars PROVE StoreType'
<1> USE DEF TypeOK, StoreType
<1>1. ASSUME NEW s \in Readings, NEW age \in 0..(Window + 1), Ingest(s, age) PROVE StoreType'
  <2>1. data' \in State /\ file' = file  BY <1>1 DEF Ingest, State
  <2>2. [kind |-> "ingest", at |-> s.at] \in Continuation  BY DEF Continuation, Snapshot
  <2> QED  BY <1>1, <2>1, <2>2, SaveType DEF Ingest
<1>2. ASSUME NEW d \in Devices, Install(d) PROVE StoreType'
  <2>1. CASE d \in data.devices
    BY <1>2, <2>1 DEF Install
  <2>2. CASE d \notin data.devices
    <3>1. data' \in State /\ file' = file  BY <1>2, <2>2 DEF Install, State
    <3>2. [kind |-> "install", at |-> 0] \in Continuation  BY DEF Continuation
    <3> QED  BY <1>2, <2>2, <3>1, <3>2, SaveType DEF Install
  <2> QED  BY <2>1, <2>2
<1>3. ASSUME NEW d \in Devices, Remove(d) PROVE StoreType'
  <2>1. data' \in State /\ file' = file  BY <1>3 DEF Remove, State
  <2>2. [kind |-> "remove", at |-> 0] \in Continuation  BY DEF Continuation
  <2> QED  BY <1>3, <2>1, <2>2, SaveType DEF Remove
<1>4. CASE WriteDone
  <2>1. Head(saves) \in Write /\ Tail(saves) \in Seq(Write)
    BY <1>4, HeadTailProperties DEF WriteDone
  <2>2. [then |-> Head(saves).then, ok |-> TRUE] \in Outcome  BY <2>1 DEF Write, Outcome
  <2>3. settled' \in Seq(Outcome)  BY <1>4, <2>2, AppendProperties DEF WriteDone
  <2> QED  BY <1>4, <2>1, <2>3 DEF WriteDone, Write
<1>5. CASE WriteFails
  <2> DEFINE failed == [i \in 1..Len(saves) |-> [then |-> saves[i].then, ok |-> FALSE]]
  <2>1. \A i \in 1..Len(saves) : saves[i] \in Write  BY ElementOfSeq
  <2>2. \A i \in 1..Len(saves) : [then |-> saves[i].then, ok |-> FALSE] \in Outcome
    BY <2>1 DEF Write, Outcome
  <2>3. failed \in Seq(Outcome)  BY <2>2, LenProperties, IsASeq
  <2>4. settled' \in Seq(Outcome)  BY <1>5, <2>3, ConcatProperties DEF WriteFails
  <2>5. saves' \in Seq(Write)  BY <1>5 DEF WriteFails
  <2> QED  BY <1>5, <2>4, <2>5 DEF WriteFails
<1>6. CASE Resume
  BY <1>6, HeadTailProperties DEF Resume
<1>7. ASSUME NEW l \in Loops, PushStep(l) PROVE StoreType'
  BY <1>7 DEF PushStep, PushEmpty, AccessToken, SendAnswered, SendUnauthorized, Finally
<1>8. CASE Immediate \/ Tick
  BY <1>8 DEF Immediate, Tick
<1>9. CASE Crash
  <2>1. EmptyState \in State  BY DEF EmptyState, State
  <2> QED  BY <1>9, <2>1 DEF Crash
<1>10. CASE Restart
  BY <1>10 DEF Restart
<1>11. CASE UNCHANGED vars
  BY <1>11 DEF vars
<1> QED  BY <1>1, <1>2, <1>3, <1>4, <1>5, <1>6, <1>7, <1>8, <1>9, <1>10, <1>11 DEF Next

\* Every step keeps the push scheduler well typed.
LEMMA SchedulerStep == ASSUME TypeOK, [Next]_vars PROVE SchedulerType' /\ excused' \subseteq Devices
<1> USE DEF TypeOK, SchedulerType
<1> DEFINE Goal == SchedulerType' /\ excused' \subseteq Devices
<1>1. ASSUME NEW s \in Readings, NEW age \in 0..(Window + 1), Ingest(s, age) PROVE Goal
  BY <1>1 DEF Ingest, WidgetType
<1>2. ASSUME NEW d \in Devices, Install(d) PROVE Goal
  <2>1. CASE d \in data.devices
    BY <1>2, <2>1, ScheduleType DEF Install
  <2>2. CASE d \notin data.devices
    BY <1>2, <2>2 DEF Install, WidgetType
  <2> QED  BY <2>1, <2>2
<1>3. ASSUME NEW d \in Devices, Remove(d) PROVE Goal
  BY <1>3 DEF Remove, WidgetType
<1>4. CASE WriteDone \/ WriteFails
  BY <1>4 DEF WriteDone, WriteFails, WidgetType
<1>5. CASE Resume
  <2>1. CASE Schedule
    BY <1>5, <2>1, ScheduleType DEF Resume
  <2>2. CASE ~Schedule
    BY <1>5, <2>2 DEF Resume, WidgetType
  <2> QED  BY <2>1, <2>2
<1>6. ASSUME NEW l \in Loops, PushStep(l) PROVE Goal
  <2>1. loops[l] \in Loop /\ loops[l].devices \subseteq Devices  BY DEF Loop
  <2>2. CASE PushEmpty(l)
    <3>1. LoopGoesOn(l, {})  BY <2>2 DEF PushEmpty
    <3>2. loops' \in [Loops -> Loop] /\ excused' \subseteq Devices  BY <3>1, GoesOnType
    <3> QED  BY <2>2, <3>2 DEF PushEmpty
  <2>3. CASE AccessToken(l)
    <3>1. CASE loops' = [loops EXCEPT ![l].phase = "send"] /\ UNCHANGED <<pending, excused>>
      <4>1. [loops[l] EXCEPT !.phase = "send"] \in Loop  BY <2>1, <2>3 DEF Loop, AccessToken
      <4> QED  BY <2>3, <3>1, <4>1 DEF AccessToken, WidgetType
    <3>2. CASE LoopGoesOn(l, loops[l].devices)
      BY <2>1, <2>3, <3>2, GoesOnType DEF AccessToken
    <3> QED  BY <2>3, <3>1, <3>2 DEF AccessToken
  <2>4. CASE SendAnswered(l)
    <3>1. PICK reached \in SUBSET loops[l].devices : LoopGoesOn(l, loops[l].devices \ reached)
      BY <2>4 DEF SendAnswered
    <3>2. loops' \in [Loops -> Loop] /\ excused' \subseteq Devices  BY <2>1, <3>1, GoesOnType
    <3> QED  BY <2>4, <3>2 DEF SendAnswered
  <2>5. CASE SendUnauthorized(l)
    <3>1. CASE loops[l].retry
      <4>1. [loops[l] EXCEPT !.phase = "token", !.retry = FALSE] \in Loop
        BY <2>1, <2>5 DEF Loop, SendUnauthorized
      <4>2. loops' = [loops EXCEPT ![l] = [loops[l] EXCEPT !.phase = "token", !.retry = FALSE]]
        BY <2>5, <3>1 DEF SendUnauthorized
      <4> QED  BY <2>5, <3>1, <4>1, <4>2 DEF SendUnauthorized, WidgetType
    <3>2. CASE ~loops[l].retry
      BY <2>1, <2>5, <3>2, GoesOnType DEF SendUnauthorized
    <3> QED  BY <3>1, <3>2
  <2>6. CASE Finally(l)
    <3>1. NoLoop \in Loop  BY DEF NoLoop, Loop
    <3> QED  BY <2>6, <3>1 DEF Finally, WidgetType
  <2> QED  BY <1>6, <2>2, <2>3, <2>4, <2>5, <2>6 DEF PushStep
<1>7. CASE Immediate
  BY <1>7, ScheduleType DEF Immediate
<1>8. CASE Tick \/ Restart
  BY <1>8 DEF Tick, Restart, WidgetType
<1>9. CASE Crash
  <2>1. NoLoop \in Loop  BY DEF NoLoop, Loop
  <2> QED  BY <1>9, <2>1 DEF Crash
<1>10. CASE UNCHANGED vars
  BY <1>10 DEF vars, WidgetType
<1> QED  BY <1>1, <1>2, <1>3, <1>4, <1>5, <1>6, <1>7, <1>8, <1>9, <1>10 DEF Next

\* Only an answered push changes a widget, and it shows the display of a snapshot.
LEMMA WidgetStep ==
  ASSUME TypeOK, [Next]_vars PROVE widget' \in [Devices -> [at : Nat, look : Look]]
<1> USE DEF TypeOK, WidgetType
<1>1. ASSUME NEW l \in Loops, SendAnswered(l)
      PROVE  widget' \in [Devices -> [at : Nat, look : Look]]
  <2>1. loops[l].snapshot \in Readings  BY <1>1 DEF SendAnswered, SchedulerType, Loop
  <2>2. Display(loops[l].snapshot) \in [at : Nat, look : Look]  BY <2>1, DisplayType
  <2>3. PICK reached \in SUBSET loops[l].devices : widget' = Shown(l, reached)
    BY <1>1 DEF SendAnswered
  <2> QED  BY <2>2, <2>3 DEF Shown
<1>2. CASE UNCHANGED widget
  BY <1>2
<1>3. UNCHANGED widget \/ \E l \in Loops : SendAnswered(l)
  BY DEF Next, vars, PushStep, Ingest, Install, Remove, WriteDone, WriteFails, Resume, PushEmpty,
         AccessToken, SendUnauthorized, Finally, Immediate, Tick, Crash, Restart
<1> QED  BY <1>1, <1>2, <1>3

\* Every step keeps the clock and the counters in range.
LEMMA CountStep == ASSUME TypeOK, [Next]_vars PROVE CountType'
<1> USE DEF TypeOK, CountType
<1>1. CASE Resume
  <2>1. Head(settled) \in Outcome  BY <1>1, HeadTailProperties DEF Resume, StoreType
  <2>2. Head(settled).then.at \in Nat  BY <2>1 DEF Outcome, Continuation
  <2> QED  BY <1>1, <2>2 DEF Resume
<1>2. CASE Tick
  BY <1>2 DEF Tick
<1>3. CASE WriteFails
  BY <1>3 DEF WriteFails
<1>4. CASE Crash
  BY <1>4 DEF Crash
<1>5. CASE UNCHANGED bounds
  BY <1>5
<1>6. Resume \/ Tick \/ WriteFails \/ Crash \/ UNCHANGED bounds
  BY DEF Next, vars, PushStep, Ingest, Install, Remove, WriteDone, PushEmpty,
         AccessToken, SendAnswered, SendUnauthorized, Finally, Immediate, Restart
<1> QED  BY <1>1, <1>2, <1>3, <1>4, <1>5, <1>6

\* Every step keeps the flags Boolean.
LEMMA FlagStep == FlagType /\ [Next]_vars => FlagType'
BY Zenon
   DEF FlagType, Next, vars, PushStep, Ingest, Install, Remove, WriteDone, WriteFails, Resume,
       Save, Schedule, LoopGoesOn, PushEmpty, AccessToken, SendAnswered, SendUnauthorized,
       Finally, Immediate, Tick, Crash, Restart

\* The types hold initially.
LEMMA TypeInit == ASSUME Init PROVE TypeOK
<1>1. StoreType  BY DEF Init, StoreType, EmptyState, State
<1>2. SchedulerType  BY DEF Init, SchedulerType, NoLoop, Loop
<1>3. WidgetType  BY DEF Init, WidgetType, Blank, Look
<1>4. FlagType  BY DEF Init, FlagType
<1>5. CountType  BY DEF Init, CountType
<1> QED  BY <1>1, <1>2, <1>3, <1>4, <1>5 DEF TypeOK

\* Every step keeps them.
LEMMA TypeStep == ASSUME TypeOK, [Next]_vars PROVE TypeOK'
<1>1. StoreType'  BY StoreStep
<1>2. SchedulerType' /\ WidgetType'  BY SchedulerStep, WidgetStep DEF WidgetType
<1>3. FlagType'  BY FlagStep DEF TypeOK
<1>4. CountType'  BY CountStep
<1> QED  BY <1>1, <1>2, <1>3, <1>4 DEF TypeOK

\* TypeOK is inductive: every step of the relay keeps the types of its state.
THEOREM Typing == Spec => []TypeOK
<1>1. Init => TypeOK  BY TypeInit
<1>2. TypeOK /\ [Next]_vars => TypeOK'  BY TypeStep
<1> QED  BY <1>1, <1>2, PTL DEF Spec

-----------------------------------------------------------------------------
(* The inductive invariants.  A relay that is down has nothing under way;   *)
(* running covers the one push loop; the queue is in the order of time      *)
(* between the file and memory; a loop that sends what memory no longer     *)
(* holds is followed by another; the sets of devices are finite and small.  *)

Handler ==
  \/ \E i \in 1..Len(saves) : saves[i].then.kind # "remove"
  \/ \E i \in 1..Len(settled) : settled[i].then.kind # "remove"

DownInv ==
  /\ ~up => saves = <<>> /\ settled = <<>> /\ immediates = 0 /\ ~running /\ excused = Devices
  /\ ~healthy => saves = <<>>

LoopInv ==
  /\ \A l \in Loops : loops[l].phase # "off" => running
  /\ \A l, m \in Loops : loops[l].phase # "off" /\ loops[m].phase # "off" => l = m

QueueInv ==
  /\ up => At(file.snapshot) <= At(data.snapshot)
  /\ \A i \in 1..Len(saves) :
       /\ At(file.snapshot) <= At(saves[i].content.snapshot)
       /\ At(saves[i].content.snapshot) <= At(data.snapshot)
       /\ saves[i].then.at <= At(saves[i].content.snapshot)
  /\ \A i, j \in 1..Len(saves) :
       i < j => At(saves[i].content.snapshot) <= At(saves[j].content.snapshot)
  /\ \A i \in 1..Len(settled) : settled[i].ok => settled[i].then.at <= At(file.snapshot)
  /\ acked <= At(file.snapshot)

FreshInv ==
  up => \A l \in Loops :
          loops[l].phase \in {"token", "send"} =>
            loops[l].snapshot = data.snapshot \/ pending \/ Handler \/ excused = Devices

Small(devices) == IsFiniteSet(devices) /\ Cardinality(devices) <= DeviceLimit

DeviceInv ==
  /\ Small(data.devices) /\ Small(file.devices)
  /\ \A i \in 1..Len(saves) : Small(saves[i].content.devices)

-----------------------------------------------------------------------------
(* The queue, element by element *)

\* A save adds one element at the end of the queue, or one failure at the
\* end of the settled handlers.
LEMMA SavedQueue ==
  ASSUME StoreType, NEW content \in State, NEW c \in Continuation, Save(content, c)
  PROVE  /\ \/ /\ healthy /\ Len(saves') = Len(saves) + 1
               /\ saves'[Len(saves) + 1] = [content |-> content, then |-> c]
               /\ \A i \in 1..Len(saves) : saves'[i] = saves[i]
               /\ settled' = settled
            \/ /\ ~healthy /\ saves' = saves /\ Len(settled') = Len(settled) + 1
               /\ settled'[Len(settled) + 1] = [then |-> c, ok |-> FALSE]
               /\ \A i \in 1..Len(settled) : settled'[i] = settled[i]
         /\ Len(saves) \in Nat /\ Len(settled) \in Nat
BY DEF Save, StoreType

\* So every element of the queue was there before or is the new one.
LEMMA SavedElements ==
  ASSUME StoreType, NEW content \in State, NEW c \in Continuation, Save(content, c)
  PROVE  \A i \in 1..Len(saves') :
           \/ i \in 1..Len(saves) /\ saves'[i] = saves[i]
           \/ /\ \A j \in 1..Len(saves) : j < i /\ saves'[j] = saves[j]
              /\ i = Len(saves) + 1
              /\ saves'[i].content = content /\ saves'[i].then = c
<1>1. CASE saves' = saves
  BY <1>1
<1>2. CASE saves' # saves
  <2>1. /\ Len(saves) \in Nat /\ Len(saves') = Len(saves) + 1
        /\ saves'[Len(saves) + 1] = [content |-> content, then |-> c]
        /\ \A i \in 1..Len(saves) : saves'[i] = saves[i]
    BY <1>2, SavedQueue
  <2>2. saves'[Len(saves) + 1].content = content /\ saves'[Len(saves) + 1].then = c
    BY <2>1
  <2> QED  BY <2>1, <2>2
<1> QED  BY <1>1, <1>2

\* A completed write takes the first element of the queue, and adds its
\* handler to the settled ones.
LEMMA WrittenQueue ==
  ASSUME StoreType, WriteDone
  PROVE  /\ Len(saves) \in Nat \ {0} /\ Len(saves') = Len(saves) - 1
         /\ Head(saves) = saves[1] /\ saves[1] \in Write
         /\ \A i \in 1..Len(saves') : saves'[i] = saves[i + 1]
         /\ Len(settled) \in Nat /\ Len(settled') = Len(settled) + 1
         /\ settled'[Len(settled) + 1] = [then |-> saves[1].then, ok |-> TRUE]
         /\ \A i \in 1..Len(settled) : settled'[i] = settled[i]
<1>1. Len(saves) \in Nat \ {0} /\ Head(saves) = saves[1] /\ saves[1] \in Write
  BY DEF StoreType, WriteDone
<1>2. Len(saves') = Len(saves) - 1 /\ \A i \in 1..Len(saves') : saves'[i] = saves[i + 1]
  BY HeadTailProperties DEF StoreType, WriteDone
<1>3. /\ Len(settled) \in Nat /\ Len(settled') = Len(settled) + 1
      /\ settled'[Len(settled) + 1] = [then |-> saves[1].then, ok |-> TRUE]
      /\ \A i \in 1..Len(settled) : settled'[i] = settled[i]
  <2> DEFINE e == [then |-> saves[1].then, ok |-> TRUE]
  <2>1. e \in Outcome  BY <1>1 DEF Write, Outcome
  <2>2. settled' = Append(settled, e) /\ settled \in Seq(Outcome)
    BY <1>1 DEF StoreType, WriteDone
  <2> HIDE DEF e
  <2>3. /\ Len(settled) \in Nat /\ Len(settled') = Len(settled) + 1
        /\ settled'[Len(settled) + 1] = e
        /\ \A i \in 1..Len(settled) : settled'[i] = settled[i]
    BY <2>1, <2>2, AppendProperties, LenProperties
  <2> QED  BY <2>3 DEF e
<1> QED  BY <1>1, <1>2, <1>3

\* A failed write empties the queue; all its handlers fail.
LEMMA FailedQueue ==
  ASSUME StoreType, WriteFails
  PROVE  /\ saves' = <<>> /\ Len(saves) \in Nat /\ Len(settled) \in Nat
         /\ Len(settled') = Len(settled) + Len(saves)
         /\ \A i \in 1..Len(settled) : settled'[i] = settled[i]
         /\ \A i \in 1..Len(saves) :
              settled'[Len(settled) + i] = [then |-> saves[i].then, ok |-> FALSE]
<1> DEFINE failed == [i \in 1..Len(saves) |-> [then |-> saves[i].then, ok |-> FALSE]]
<1>1. saves \in Seq(Write) /\ settled \in Seq(Outcome) /\ Len(saves) \in Nat /\ Len(settled) \in Nat
  BY DEF StoreType
<1>2. \A i \in 1..Len(saves) : [then |-> saves[i].then, ok |-> FALSE] \in Outcome
  <2>1. \A i \in 1..Len(saves) : saves[i] \in Write  BY <1>1, ElementOfSeq
  <2> QED  BY <2>1 DEF Write, Outcome
<1>3. failed \in Seq(Outcome) /\ Len(failed) = Len(saves)
  BY <1>1, <1>2, LenProperties, IsASeq
<1>4. settled' = settled \o failed  BY DEF WriteFails
<1>5. /\ Len(settled \o failed) = Len(settled) + Len(failed)
      /\ \A i \in 1..(Len(settled) + Len(failed)) :
           (settled \o failed)[i] = IF i <= Len(settled) THEN settled[i]
                                    ELSE failed[i - Len(settled)]
  BY <1>1, <1>3, ConcatProperties
<1>6. saves' = <<>>  BY DEF WriteFails
<1>7. \A i \in 1..Len(settled) : settled'[i] = settled[i]
  BY <1>1, <1>3, <1>4, <1>5
<1>8. ASSUME NEW i \in 1..Len(saves)
      PROVE  settled'[Len(settled) + i] = [then |-> saves[i].then, ok |-> FALSE]
  <2>1. (settled \o failed)[Len(settled) + i] = failed[i]
    <3>1. Len(settled) + i \in 1..(Len(settled) + Len(failed)) /\ ~(Len(settled) + i <= Len(settled))
          /\ Len(settled) + i - Len(settled) = i
      BY <1>1, <1>3
    <3> HIDE DEF failed
    <3> QED  BY <1>5, <3>1
  <2> QED  BY <1>4, <2>1
<1> QED  BY <1>1, <1>3, <1>4, <1>5, <1>6, <1>7, <1>8

\* Resuming a handler takes the first settled one.
LEMMA ResumedQueue ==
  ASSUME StoreType, Resume
  PROVE  /\ Len(settled) \in Nat \ {0} /\ Len(settled') = Len(settled) - 1
         /\ Head(settled) = settled[1] /\ settled[1] \in Outcome
         /\ \A i \in 1..Len(settled') : settled'[i] = settled[i + 1]
BY HeadTailProperties DEF StoreType, Resume

-----------------------------------------------------------------------------
(* One push at a time *)

\* Scheduling starts a loop only when none is there.
LEMMA ScheduledLoops ==
  ASSUME SchedulerType, LoopInv, Schedule
  PROVE  /\ running' = TRUE
         /\ \/ running /\ pending' = TRUE /\ loops' = loops
            \/ /\ ~running /\ pending' = FALSE
               /\ \E m \in Loops : /\ loops[m].phase = "off"
                                   /\ loops' = [loops EXCEPT ![m] = Push]
<1>1. CASE running
  BY <1>1 DEF Schedule
<1>2. CASE ~running
  <2>1. 1 \in Loops /\ loops[1].phase = "off"  BY <1>2 DEF LoopInv, Loops
  <2>2. FreeLoop \in Loops /\ loops[FreeLoop].phase = "off"  BY <2>1 DEF FreeLoop
  <2> QED  BY <1>2, <2>2 DEF Schedule
<1> QED  BY <1>1, <1>2

\* Scheduling keeps the push loops apart.
LEMMA ScheduleOne ==
  ASSUME StoreType, SchedulerType, LoopInv, Schedule PROVE LoopInv'
<1>1. running' = TRUE  BY DEF Schedule
<1>2. CASE running
  BY <1>1, <1>2 DEF Schedule, LoopInv
<1>3. CASE ~running
  <2>1. PICK m \in Loops : loops' = [loops EXCEPT ![m] = Push]  BY <1>3, ScheduledLoops
  <2>2. \A l \in Loops : l # m => loops'[l].phase = "off"
    BY <1>3, <2>1 DEF LoopInv, SchedulerType
  <2> QED  BY <1>1, <2>1, <2>2 DEF LoopInv
<1> QED  BY <1>2, <1>3

\* running covers every loop and there is one at most: schedule looks at
\* running, and only the promise's finally clears it.
LEMMA LoopStep == ASSUME TypeOK, DownInv, LoopInv, [Next]_vars PROVE LoopInv'
<1> USE DEF TypeOK
<1>1. CASE UNCHANGED <<loops, running>>
  BY <1>1 DEF LoopInv
<1>2. CASE Schedule
  BY <1>2, ScheduleOne
<1>3. ASSUME NEW l \in Loops, NEW x, loops[l].phase # "off", loops' = [loops EXCEPT ![l] = x],
             UNCHANGED running
      PROVE  LoopInv'
  BY <1>3 DEF LoopInv, SchedulerType
<1>4. ASSUME NEW l \in Loops, Finally(l) PROVE LoopInv'
  BY <1>4 DEF Finally, LoopInv, SchedulerType, NoLoop
<1>5. CASE Crash
  BY <1>5 DEF Crash, LoopInv, NoLoop
<1>6. ASSUME NEW l \in Loops, PushStep(l), ~Finally(l) PROVE LoopInv'
  <2>1. loops[l].phase # "off"
    BY <1>6 DEF PushStep, PushEmpty, AccessToken, SendAnswered, SendUnauthorized
  <2>2. \E x : loops' = [loops EXCEPT ![l] = x]
    <3>1. CASE loops' = [loops EXCEPT ![l].phase = "send"]
      BY <3>1 DEF SchedulerType
    <3>2. CASE loops' = [loops EXCEPT ![l].phase = "token", ![l].retry = FALSE]
      BY <3>2 DEF SchedulerType
    <3>3. CASE \E f : LoopGoesOn(l, f)
      BY <3>3 DEF LoopGoesOn
    <3> QED  BY <1>6, <3>1, <3>2, <3>3
             DEF PushStep, PushEmpty, AccessToken, SendAnswered, SendUnauthorized
  <2>3. UNCHANGED running
    BY <1>6 DEF PushStep, PushEmpty, AccessToken, SendAnswered, SendUnauthorized
  <2> QED  BY <1>3, <2>1, <2>2, <2>3
<1>7. \/ UNCHANGED <<loops, running>> \/ Schedule \/ Crash \/ \E l \in Loops : PushStep(l)
  BY DEF Next, vars, Ingest, Install, Remove, WriteDone, WriteFails, Resume, Immediate, Tick, Restart
<1> QED  BY <1>1, <1>2, <1>4, <1>5, <1>6, <1>7

\* What is under way when the process ends is gone with it.
LEMMA DownStep == ASSUME TypeOK, DownInv, LoopInv, [Next]_vars PROVE DownInv'
<1> USE DEF TypeOK
<1>1. ASSUME up, up', healthy' = healthy \/ saves' = <<>>, ~healthy => saves' = saves PROVE DownInv'
  BY <1>1 DEF DownInv
<1>2. ASSUME NEW s \in Readings, NEW age \in 0..(Window + 1), Ingest(s, age) PROVE DownInv'
  BY <1>1, <1>2 DEF Ingest, Save
<1>3. ASSUME NEW d \in Devices, Install(d) \/ Remove(d) PROVE DownInv'
  BY <1>1, <1>3 DEF Install, Remove, Save
<1>4. CASE WriteDone \/ WriteFails
  BY <1>1, <1>4 DEF WriteDone, WriteFails
<1>5. CASE Resume \/ Immediate
  <2>1. up  BY <1>5 DEF DownInv, Resume, Immediate
  <2> QED  BY <1>1, <1>5, <2>1 DEF Resume, Immediate
<1>6. ASSUME NEW l \in Loops, PushStep(l) PROVE DownInv'
  <2>1. loops[l].phase # "off"
    BY <1>6 DEF PushStep, PushEmpty, AccessToken, SendAnswered, SendUnauthorized, Finally
  <2>2. up  BY <2>1 DEF DownInv, LoopInv
  <2> QED  BY <1>1, <1>6, <2>2
           DEF PushStep, PushEmpty, AccessToken, SendAnswered, SendUnauthorized, Finally
<1>7. CASE Tick \/ UNCHANGED vars
  BY <1>7 DEF DownInv, Tick, vars
<1>8. CASE Crash
  BY <1>8 DEF DownInv, Crash
<1>9. CASE Restart
  BY <1>9 DEF DownInv, Restart
<1> QED  BY <1>2, <1>3, <1>4, <1>5, <1>6, <1>7, <1>8, <1>9 DEF Next

-----------------------------------------------------------------------------
(* Times and the file *)

\* The refusal in ingest keeps snapshots from the future out of memory, and
\* so out of the queue and the file.
LEMMA FutureStep == ASSUME TypeOK, NotFromTheFuture, [Next]_vars PROVE NotFromTheFuture'
<1> USE DEF TypeOK
<1>1. /\ now \in Nat /\ At(data.snapshot) \in Nat /\ At(file.snapshot) \in Nat
      /\ \A i \in 1..Len(saves) : At(saves[i].content.snapshot) \in Nat
  <2>1. \A i \in 1..Len(saves) : saves[i] \in Write  BY ElementOfSeq DEF StoreType
  <2> QED  BY <2>1, AtIsNat DEF StoreType, CountType, State, Write
<1>2. ASSUME NEW content \in State, NEW c \in Continuation, Save(content, c), data' = content,
             UNCHANGED <<now, file>>, At(content.snapshot) <= now + Window
      PROVE  NotFromTheFuture'
  <2>1. \A i \in 1..Len(saves') : \/ i \in 1..Len(saves) /\ saves'[i] = saves[i]
                                  \/ saves'[i].content = content
    BY <1>2, SavedElements
  <2> QED  BY <1>2, <2>1 DEF NotFromTheFuture
<1>3. ASSUME NEW s \in Readings, NEW age \in 0..(Window + 1), Ingest(s, age)
      PROVE  NotFromTheFuture'
  <2>1. data' \in State /\ data'.snapshot = s  BY <1>3 DEF Ingest, State, StoreType
  <2>2. [kind |-> "ingest", at |-> s.at] \in Continuation  BY DEF Continuation, Snapshot
  <2>3. At(s) <= now + Window  BY <1>1, <1>3 DEF Ingest, Refused, At, Snapshot
  <2> QED  BY <1>2, <1>3, <2>1, <2>2, <2>3 DEF Ingest
<1>4. ASSUME NEW d \in Devices, Install(d) PROVE NotFromTheFuture'
  <2>1. CASE d \in data.devices
    BY <1>4, <2>1 DEF Install, NotFromTheFuture
  <2>2. CASE d \notin data.devices
    <3>1. data' \in State /\ data'.snapshot = data.snapshot
      BY <1>4, <2>2 DEF Install, State, StoreType
    <3>2. [kind |-> "install", at |-> 0] \in Continuation  BY DEF Continuation
    <3> QED  BY <1>2, <1>4, <2>2, <3>1, <3>2 DEF Install, NotFromTheFuture
  <2> QED  BY <2>1, <2>2
<1>5. ASSUME NEW d \in Devices, Remove(d) PROVE NotFromTheFuture'
  <2>1. data' \in State /\ data'.snapshot = data.snapshot
    BY <1>5 DEF Remove, State, StoreType
  <2>2. [kind |-> "remove", at |-> 0] \in Continuation  BY DEF Continuation
  <2> QED  BY <1>2, <1>5, <2>1, <2>2 DEF Remove, NotFromTheFuture
<1>6. CASE WriteDone
  BY <1>6, WrittenQueue DEF WriteDone, NotFromTheFuture
<1>7. CASE WriteFails
  BY <1>7, FailedQueue DEF WriteFails, NotFromTheFuture
<1>8. CASE Tick
  BY <1>1, <1>8 DEF Tick, NotFromTheFuture
<1>9. CASE Crash
  BY <1>1, <1>9 DEF Crash, NotFromTheFuture, EmptyState, At
<1>10. CASE Restart
  BY <1>10 DEF Restart, NotFromTheFuture
<1>11. CASE UNCHANGED <<now, data, file, saves>>
  BY <1>11 DEF NotFromTheFuture
<1>12. CASE Resume \/ Immediate \/ UNCHANGED vars \/ \E l \in Loops : PushStep(l)
  BY <1>11, <1>12 DEF vars, Resume, Immediate, PushStep, PushEmpty, AccessToken, SendAnswered,
                      SendUnauthorized, Finally
<1> QED  BY <1>3, <1>4, <1>5, <1>6, <1>7, <1>8, <1>9, <1>10, <1>12 DEF Next

\* The last save in the queue holds what memory holds.
LEMMA FileStep == ASSUME TypeOK, DownInv, FileFollowsMemory, [Next]_vars PROVE FileFollowsMemory'
<1> USE DEF TypeOK
<1>1. ASSUME NEW content \in State, NEW c \in Continuation, Save(content, c), data' = content,
             UNCHANGED <<up, healthy>>
      PROVE  FileFollowsMemory'
  <2>1. CASE healthy
    <3>1. /\ Len(saves) \in Nat /\ Len(saves') = Len(saves) + 1
          /\ saves'[Len(saves) + 1] = [content |-> content, then |-> c]
      BY <1>1, <2>1, SavedQueue
    <3>2. saves' # <<>>  BY <3>1
    <3> QED  BY <1>1, <3>1, <3>2 DEF FileFollowsMemory
  <2>2. CASE ~healthy
    BY <1>1, <2>2 DEF FileFollowsMemory
  <2> QED  BY <2>1, <2>2
<1>2. ASSUME NEW s \in Readings, NEW age \in 0..(Window + 1), Ingest(s, age)
      PROVE  FileFollowsMemory'
  <2>1. data' \in State  BY <1>2 DEF Ingest, State, StoreType
  <2>2. [kind |-> "ingest", at |-> s.at] \in Continuation  BY DEF Continuation, Snapshot
  <2> QED  BY <1>1, <1>2, <2>1, <2>2 DEF Ingest
<1>3. ASSUME NEW d \in Devices, Install(d) PROVE FileFollowsMemory'
  <2>1. CASE d \in data.devices
    BY <1>3, <2>1 DEF Install, FileFollowsMemory
  <2>2. CASE d \notin data.devices
    <3>1. data' \in State  BY <1>3, <2>2 DEF Install, State, StoreType
    <3>2. [kind |-> "install", at |-> 0] \in Continuation  BY DEF Continuation
    <3> QED  BY <1>1, <1>3, <2>2, <3>1, <3>2 DEF Install
  <2> QED  BY <2>1, <2>2
<1>4. ASSUME NEW d \in Devices, Remove(d) PROVE FileFollowsMemory'
  <2>1. data' \in State  BY <1>4 DEF Remove, State, StoreType
  <2>2. [kind |-> "remove", at |-> 0] \in Continuation  BY DEF Continuation
  <2> QED  BY <1>1, <1>4, <2>1, <2>2 DEF Remove
<1>5. CASE WriteDone
  <2>1. /\ Len(saves) \in Nat \ {0} /\ Len(saves') = Len(saves) - 1 /\ Head(saves) = saves[1]
        /\ \A i \in 1..Len(saves') : saves'[i] = saves[i + 1]
    BY <1>5, WrittenQueue
  <2>2. saves[Len(saves)].content = data  BY <1>5, <2>1 DEF WriteDone, FileFollowsMemory
  <2>3. CASE saves' = <<>>
    <3>1. Len(saves) = 1  BY <2>1, <2>3
    <3> QED  BY <1>5, <2>1, <2>2, <2>3, <3>1 DEF WriteDone, FileFollowsMemory
  <2>4. CASE saves' # <<>>
    <3>1. saves' \in Seq(Write)  BY <1>5, HeadTailProperties DEF WriteDone, StoreType
    <3>2. Len(saves') # 0  BY <2>4, <3>1, EmptySeq
    <3>3. saves'[Len(saves')] = saves[Len(saves)]  BY <2>1, <3>2
    <3> QED  BY <1>5, <2>2, <2>4, <3>3 DEF WriteDone, FileFollowsMemory
  <2> QED  BY <2>3, <2>4
<1>6. CASE WriteFails \/ Crash
  BY <1>6 DEF WriteFails, Crash, FileFollowsMemory
<1>7. CASE Restart
  BY <1>7 DEF Restart, DownInv, FileFollowsMemory
<1>8. CASE UNCHANGED <<up, healthy, data, file, saves>>
  BY <1>8 DEF FileFollowsMemory
<1>9. CASE Resume \/ Immediate \/ Tick \/ UNCHANGED vars \/ \E l \in Loops : PushStep(l)
  BY <1>8, <1>9 DEF vars, Resume, Immediate, Tick, PushStep, PushEmpty, AccessToken, SendAnswered,
                    SendUnauthorized, Finally
<1> QED  BY <1>2, <1>3, <1>4, <1>5, <1>6, <1>7, <1>9 DEF Next

\* The queue stays in the order of time, between the file and memory, and
\* behind what its handlers will acknowledge.
LEMMA QueueStep == ASSUME TypeOK, DownInv, QueueInv, [Next]_vars PROVE QueueInv'
<1> USE DEF TypeOK
<1>1. /\ At(data.snapshot) \in Nat /\ At(file.snapshot) \in Nat /\ acked \in Nat
      /\ \A i \in 1..Len(saves) : /\ At(saves[i].content.snapshot) \in Nat
                                  /\ saves[i].then.at \in Nat
  <2>1. \A i \in 1..Len(saves) : saves[i] \in Write  BY ElementOfSeq DEF StoreType
  <2> QED  BY <2>1, AtIsNat DEF StoreType, CountType, State, Write, Continuation
<1>2. ASSUME NEW content \in State, NEW c \in Continuation, Save(content, c), data' = content,
             UNCHANGED <<up, file, acked>>, up,
             At(data.snapshot) <= At(content.snapshot), c.at <= At(content.snapshot)
      PROVE  QueueInv'
  <2>1. At(content.snapshot) \in Nat /\ At(file.snapshot) <= At(content.snapshot)
    BY <1>1, <1>2, AtIsNat DEF State, QueueInv
  <2>2. \A i \in 1..Len(saves') :
          /\ At(file.snapshot) <= At(saves'[i].content.snapshot)
          /\ At(saves'[i].content.snapshot) <= At(content.snapshot)
          /\ saves'[i].then.at <= At(saves'[i].content.snapshot)
    <3> TAKE i \in 1..Len(saves')
    <3>1. CASE i \in 1..Len(saves) /\ saves'[i] = saves[i]
      BY <1>1, <1>2, <2>1, <3>1 DEF QueueInv
    <3>2. CASE saves'[i].content = content /\ saves'[i].then = c
      BY <1>2, <2>1, <3>2
    <3> QED  BY <1>2, <3>1, <3>2, SavedElements
  <2>3. \A i, j \in 1..Len(saves') :
          i < j => At(saves'[i].content.snapshot) <= At(saves'[j].content.snapshot)
    <3> SUFFICES ASSUME NEW i \in 1..Len(saves'), NEW j \in 1..Len(saves'), i < j
                 PROVE  At(saves'[i].content.snapshot) <= At(saves'[j].content.snapshot)
      OBVIOUS
    <3>1. CASE saves'[j].content = content
      BY <2>2, <3>1
    <3>2. CASE j \in 1..Len(saves) /\ saves'[j] = saves[j]
      <4>1. Len(saves) \in Nat  BY <1>2, SavedQueue
      <4>2. i \in 1..Len(saves) /\ i # Len(saves) + 1  BY <3>2, <4>1
      <4>3. saves'[i] = saves[i]  BY <1>2, <4>2, SavedElements
      <4> QED  BY <3>2, <4>2, <4>3 DEF QueueInv
    <3> QED  BY <1>2, <3>1, <3>2, SavedElements
  <2>4. \A i \in 1..Len(settled') : settled'[i].ok => settled'[i].then.at <= At(file.snapshot)
    <3>1. CASE settled' = settled
      BY <3>1 DEF QueueInv
    <3>2. CASE settled' # settled
      <4>1. /\ Len(settled) \in Nat /\ Len(settled') = Len(settled) + 1
            /\ settled'[Len(settled) + 1] = [then |-> c, ok |-> FALSE]
            /\ \A i \in 1..Len(settled) : settled'[i] = settled[i]
        BY <1>2, <3>2, SavedQueue
      <4>2. ~settled'[Len(settled) + 1].ok  BY <4>1
      <4> QED  BY <4>1, <4>2 DEF QueueInv
    <3> QED  BY <3>1, <3>2
  <2> QED  BY <1>2, <2>1, <2>2, <2>3, <2>4 DEF QueueInv
<1>3. ASSUME NEW s \in Readings, NEW age \in 0..(Window + 1), Ingest(s, age)
      PROVE  QueueInv'
  <2>1. data' \in State /\ data'.snapshot = s  BY <1>3 DEF Ingest, State, StoreType
  <2>2. [kind |-> "ingest", at |-> s.at] \in Continuation  BY DEF Continuation, Snapshot
  <2>3. At(s) = s.at /\ s.at \in Nat /\ At(data.snapshot) <= s.at
    BY <1>1, <1>3 DEF Ingest, NotNews, At, Snapshot
  <2>4. /\ Save(data', [kind |-> "ingest", at |-> s.at])
        /\ up /\ UNCHANGED <<up, file, acked>>
    BY <1>3 DEF Ingest
  <2>5. [kind |-> "ingest", at |-> s.at].at = At(s)  BY <2>3
  <2> QED  BY <1>2, <2>1, <2>2, <2>3, <2>4, <2>5
<1>4. ASSUME NEW d \in Devices, Install(d) PROVE QueueInv'
  <2>1. CASE d \in data.devices
    BY <1>4, <2>1 DEF Install, QueueInv
  <2>2. CASE d \notin data.devices
    <3>1. data' \in State /\ data'.snapshot = data.snapshot
      BY <1>4, <2>2 DEF Install, State, StoreType
    <3>2. [kind |-> "install", at |-> 0] \in Continuation  BY DEF Continuation
    <3>3. Save(data', [kind |-> "install", at |-> 0])  BY <1>4, <2>2 DEF Install
    <3> QED  BY <1>1, <1>2, <1>4, <2>2, <3>1, <3>2, <3>3 DEF Install
  <2> QED  BY <2>1, <2>2
<1>5. ASSUME NEW d \in Devices, Remove(d) PROVE QueueInv'
  <2>1. data' \in State /\ data'.snapshot = data.snapshot
    BY <1>5 DEF Remove, State, StoreType
  <2>2. [kind |-> "remove", at |-> 0] \in Continuation  BY DEF Continuation
  <2>3. /\ Save(data', [kind |-> "remove", at |-> 0])
        /\ up /\ UNCHANGED <<up, file, acked>>
    BY <1>5 DEF Remove
  <2>4. [kind |-> "remove", at |-> 0].at <= At(data.snapshot)  BY <1>1
  <2> QED  BY <1>1, <1>2, <2>1, <2>2, <2>3, <2>4
<1>6. CASE WriteDone
  <2> DEFINE t == At(saves[1].content.snapshot)
  <2>1. /\ file' = saves[1].content /\ UNCHANGED <<up, data, acked>>  BY <1>6, WrittenQueue DEF WriteDone
  <2>2. t \in Nat /\ At(file.snapshot) <= t /\ t <= At(data.snapshot) /\ saves[1].then.at <= t
    BY <1>1, <1>6, WrittenQueue DEF QueueInv
  <2>3. At(file'.snapshot) = t  BY <2>1
  <2>4. \A i \in 1..Len(saves') :
          /\ t <= At(saves'[i].content.snapshot)
          /\ At(saves'[i].content.snapshot) <= At(data.snapshot)
          /\ saves'[i].then.at <= At(saves'[i].content.snapshot)
    <3> TAKE i \in 1..Len(saves')
    <3>1. /\ i + 1 \in 1..Len(saves) /\ 1 \in 1..Len(saves) /\ 1 < i + 1
          /\ saves'[i] = saves[i + 1]
      BY <1>6, WrittenQueue
    <3> QED  BY <3>1 DEF QueueInv
  <2>5. \A i, j \in 1..Len(saves') :
          i < j => At(saves'[i].content.snapshot) <= At(saves'[j].content.snapshot)
    <3> TAKE i, j \in 1..Len(saves')
    <3>1. /\ i + 1 \in 1..Len(saves) /\ j + 1 \in 1..Len(saves) /\ (i < j => i + 1 < j + 1)
          /\ saves'[i] = saves[i + 1] /\ saves'[j] = saves[j + 1]
      BY <1>6, WrittenQueue
    <3> QED  BY <3>1 DEF QueueInv
  <2>6. \A i \in 1..Len(settled') : settled'[i].ok => settled'[i].then.at <= t
    <3> TAKE i \in 1..Len(settled')
    <3>1. CASE i \in 1..Len(settled)
      <4>1. settled[i].then.at \in Nat
        <5>1. settled[i] \in Outcome  BY <3>1, ElementOfSeq DEF StoreType
        <5> QED  BY <5>1 DEF Outcome, Continuation
      <4>2. settled'[i] = settled[i]  BY <1>6, <3>1, WrittenQueue
      <4> QED  BY <1>1, <2>2, <3>1, <4>1, <4>2 DEF QueueInv
    <3>2. CASE i = Len(settled) + 1
      BY <1>6, <2>2, <3>2, WrittenQueue
    <3> QED  BY <1>6, <3>1, <3>2, WrittenQueue
  <2>7. acked <= t  BY <1>1, <2>2 DEF QueueInv
  <2> HIDE DEF t
  <2> QED  BY <2>1, <2>2, <2>3, <2>4, <2>5, <2>6, <2>7 DEF QueueInv
<1>7. CASE WriteFails
  <2>1. \A i \in 1..Len(settled') : settled'[i].ok => settled'[i].then.at <= At(file.snapshot)
    <3> TAKE i \in 1..Len(settled')
    <3>1. CASE i \in 1..Len(settled)
      BY <1>7, <3>1, FailedQueue DEF QueueInv
    <3>2. CASE i \notin 1..Len(settled)
      <4>1. i - Len(settled) \in 1..Len(saves) /\ Len(settled) + (i - Len(settled)) = i
        BY <1>7, <3>2, FailedQueue
      <4>2. settled'[i] = [then |-> saves[i - Len(settled)].then, ok |-> FALSE]
        BY <1>7, <4>1, FailedQueue
      <4> QED  BY <4>2
    <3> QED  BY <3>1, <3>2
  <2> QED  BY <1>7, <2>1 DEF WriteFails, QueueInv
<1>8. CASE Resume
  <2>1. \A i \in 1..Len(settled') : settled'[i].ok => settled'[i].then.at <= At(file.snapshot)
    BY <1>8, ResumedQueue DEF QueueInv
  <2>2. acked' <= At(file.snapshot)
    BY <1>8, ResumedQueue DEF Resume, QueueInv
  <2> QED  BY <1>8, <2>1, <2>2 DEF Resume, QueueInv
<1>9. CASE Crash
  BY <1>1, <1>9 DEF Crash, QueueInv
<1>10. CASE Restart
  <2>1. up' = TRUE /\ data' = file /\ saves = <<>> /\ UNCHANGED <<file, saves, settled, acked>>
    BY <1>10 DEF Restart, DownInv
  <2> QED  BY <1>1, <2>1 DEF QueueInv
<1>11. CASE UNCHANGED <<up, data, file, saves, settled, acked>>
  BY <1>11 DEF QueueInv
<1>12. CASE Immediate \/ Tick \/ UNCHANGED vars \/ \E l \in Loops : PushStep(l)
  BY <1>11, <1>12 DEF vars, Immediate, Tick, PushStep, PushEmpty, AccessToken, SendAnswered,
                      SendUnauthorized, Finally
<1> QED  BY <1>3, <1>4, <1>5, <1>6, <1>7, <1>8, <1>9, <1>10, <1>12 DEF Next

\* The limit is looked at when a device is added, and a device that is known
\* is not added again.
LEMMA DeviceStep == ASSUME TypeOK, DeviceInv, [Next]_vars PROVE DeviceInv'
<1> USE DEF TypeOK
<1>1. ASSUME NEW content \in State, NEW c \in Continuation, Save(content, c), data' = content,
             UNCHANGED file, Small(content.devices)
      PROVE  DeviceInv'
  <2>1. \A i \in 1..Len(saves') : \/ i \in 1..Len(saves) /\ saves'[i] = saves[i]
                                  \/ saves'[i].content = content
    BY <1>1, SavedElements
  <2> QED  BY <1>1, <2>1 DEF DeviceInv
<1>2. ASSUME NEW s \in Readings, NEW age \in 0..(Window + 1), Ingest(s, age) PROVE DeviceInv'
  <2>1. data' \in State /\ data'.devices = data.devices  BY <1>2 DEF Ingest, State, StoreType
  <2>2. [kind |-> "ingest", at |-> s.at] \in Continuation  BY DEF Continuation, Snapshot
  <2> QED  BY <1>1, <1>2, <2>1, <2>2 DEF Ingest, DeviceInv
<1>3. ASSUME NEW d \in Devices, Install(d) PROVE DeviceInv'
  <2>1. CASE d \in data.devices
    BY <1>3, <2>1 DEF Install, DeviceInv
  <2>2. CASE d \notin data.devices
    <3>1. data' \in State /\ data'.devices = data.devices \cup {d}
      BY <1>3, <2>2 DEF Install, State, StoreType
    <3>2. Cardinality(data.devices) \in Nat /\ IsFiniteSet(data.devices)
      BY FS_CardinalityType DEF DeviceInv, Small
    <3>3. /\ IsFiniteSet(data.devices \cup {d})
          /\ Cardinality(data.devices \cup {d}) = Cardinality(data.devices) + 1
      BY <2>2, <3>2, FS_AddElement
    <3>4. Small(data'.devices)  BY <1>3, <2>2, <3>1, <3>2, <3>3 DEF Install, Small
    <3>5. [kind |-> "install", at |-> 0] \in Continuation  BY DEF Continuation
    <3> QED  BY <1>1, <1>3, <2>2, <3>1, <3>4, <3>5 DEF Install
  <2> QED  BY <2>1, <2>2
<1>4. ASSUME NEW d \in Devices, Remove(d) PROVE DeviceInv'
  <2>1. data' \in State /\ data'.devices = data.devices \ {d}
    BY <1>4 DEF Remove, State, StoreType
  <2>2. IsFiniteSet(data.devices) /\ Cardinality(data.devices) \in Nat
    BY FS_CardinalityType DEF DeviceInv, Small
  <2>3. IsFiniteSet(data.devices \ {d}) /\ Cardinality(data.devices \ {d}) <= Cardinality(data.devices)
        /\ Cardinality(data.devices \ {d}) \in Nat
    BY <2>2, FS_Subset, FS_CardinalityType
  <2>4. Small(data'.devices)  BY <2>1, <2>2, <2>3 DEF DeviceInv, Small
  <2>5. [kind |-> "remove", at |-> 0] \in Continuation  BY DEF Continuation
  <2> QED  BY <1>1, <1>4, <2>1, <2>4, <2>5 DEF Remove
<1>5. CASE WriteDone
  BY <1>5, WrittenQueue DEF WriteDone, DeviceInv
<1>6. CASE WriteFails
  BY <1>6, FailedQueue DEF WriteFails, DeviceInv
<1>7. CASE Crash
  <2>1. Small(EmptyState.devices)  BY FS_EmptySet DEF EmptyState, Small
  <2> QED  BY <1>7, <2>1 DEF Crash, DeviceInv
<1>8. CASE Restart
  BY <1>8 DEF Restart, DeviceInv
<1>9. CASE UNCHANGED <<data, file, saves>>
  BY <1>9 DEF DeviceInv
<1>10. CASE Resume \/ Immediate \/ Tick \/ UNCHANGED vars \/ \E l \in Loops : PushStep(l)
  BY <1>9, <1>10 DEF vars, Resume, Immediate, Tick, PushStep, PushEmpty, AccessToken, SendAnswered,
                     SendUnauthorized, Finally
<1> QED  BY <1>2, <1>3, <1>4, <1>5, <1>6, <1>7, <1>8, <1>10 DEF Next

-----------------------------------------------------------------------------
(* The theorems *)

SafeInv ==
  TypeOK /\ DownInv /\ LoopInv /\ QueueInv /\ DeviceInv /\ NotFromTheFuture /\ FileFollowsMemory

\* The conjunction of all of them is inductive.
THEOREM SafetyInductive == Spec => []SafeInv
<1>1. Init => SafeInv
  <2> SUFFICES ASSUME Init PROVE SafeInv
    OBVIOUS
  <2>1. TypeOK  BY TypeInit
  <2>2. DownInv  BY DEF Init, DownInv
  <2>3. LoopInv  BY DEF Init, LoopInv, NoLoop
  <2>4. QueueInv  BY DEF Init, QueueInv, EmptyState, At
  <2>5. DeviceInv
    <3>1. Small({})  BY FS_EmptySet DEF Small
    <3> QED  BY <3>1 DEF Init, DeviceInv, EmptyState
  <2>6. NotFromTheFuture  BY DEF Init, NotFromTheFuture, EmptyState, At
  <2>7. FileFollowsMemory  BY DEF Init, FileFollowsMemory
  <2> QED  BY <2>1, <2>2, <2>3, <2>4, <2>5, <2>6, <2>7 DEF SafeInv
<1>2. SafeInv /\ [Next]_vars => SafeInv'
  BY TypeStep, DownStep, LoopStep, QueueStep, DeviceStep, FutureStep, FileStep DEF SafeInv
<1> QED  BY <1>1, <1>2, PTL DEF Spec

\* pushScheduler: two pushes never overlap, however handlers, immediates and
\* the promise's finally interleave.
THEOREM OnePushAtATime == Spec => []OnePush
<1>1. SafeInv => OnePush
  <2> SUFFICES ASSUME LoopInv PROVE OnePush
    BY DEF SafeInv
  <2> DEFINE active == {l \in Loops : loops[l].phase # "off"}
  <2>1. CASE active = {}
    BY <2>1, FS_EmptySet DEF OnePush
  <2>2. CASE active # {}
    <3>1. PICK l \in active : TRUE  BY <2>2
    <3>2. active = {l}  BY <3>1 DEF LoopInv
    <3>3. Cardinality({l}) = 1  BY FS_Singleton
    <3> HIDE DEF active
    <3>4. Cardinality(active) <= 1  BY <3>2, <3>3
    <3> QED  BY <3>4 DEF OnePush, active
  <2> QED  BY <2>1, <2>2
<1> QED  BY <1>1, SafetyInductive, PTL

\* app.js's timestamp check: no snapshot from the future is kept anywhere.
THEOREM FutureKeptOut == Spec => []NotFromTheFuture
<1>1. SafeInv => NotFromTheFuture  BY DEF SafeInv
<1> QED  BY <1>1, SafetyInductive, PTL

\* StateStore's write queue leaves in the file what memory holds.
THEOREM FileCatchesUp == Spec => []FileFollowsMemory
<1>1. SafeInv => FileFollowsMemory  BY DEF SafeInv
<1> QED  BY <1>1, SafetyInductive, PTL

\* A snapshot the relay acknowledged survives its process.
THEOREM AcknowledgedSurvives == Spec => []AckedIsDurable
<1>1. SafeInv => AckedIsDurable  BY DEF SafeInv, QueueInv, AckedIsDurable
<1> QED  BY <1>1, SafetyInductive, PTL

\* addDevice's limit holds in memory and in the file.
THEOREM LimitKept == Spec => []DevicesWithinLimit
<1>1. SafeInv => DevicesWithinLimit  BY DEF SafeInv, DeviceInv, Small, DevicesWithinLimit
<1> QED  BY <1>1, SafetyInductive, PTL

\* The parts of the relay agree in every reachable state, for any devices,
\* readings, limit and window.
THEOREM PartsAgree == Spec => []RelaySound
<1> QED
  BY OnePushAtATime, FutureKeptOut, FileCatchesUp, LimitKept, PTL DEF RelaySound

-----------------------------------------------------------------------------
(* The refinement *)

\* The time of a snapshot means the same in both specifications.
LEMMA SameTime == ASSUME NEW s \in Readings \cup {None} PROVE Register!Time(s) = At(s)
BY DEF Register!Time, At

\* Every step of the store is a step of the register, or changes nothing it
\* shows: ingest accepts, a write persists, the end of the process reloads.
LEMMA RegisterStep ==
  ASSUME SafeInv, [Next]_vars
  PROVE  [Register!Next]_<<IF up THEN data.snapshot ELSE file.snapshot, file.snapshot>>
<1> DEFINE value == IF up THEN data.snapshot ELSE file.snapshot
<1> DEFINE durable == file.snapshot
<1>0. /\ TypeOK /\ DownInv /\ QueueInv
      /\ value \in Readings \cup {None} /\ durable \in Readings \cup {None}
  BY DEF SafeInv, TypeOK, StoreType, State
<1>1. CASE UNCHANGED <<up, file>> /\ data'.snapshot = data.snapshot
  BY <1>1
<1>2. ASSUME NEW s \in Readings, NEW age \in 0..(Window + 1), Ingest(s, age)
      PROVE  Register!Accept
  <2>1. up /\ up' /\ file' = file /\ data'.snapshot = s
    BY <1>0, <1>2 DEF Ingest, TypeOK, StoreType, State
  <2>2. At(data.snapshot) \in Nat /\ s.at \in Nat /\ At(s) = s.at
    BY <1>0, AtIsNat DEF TypeOK, StoreType, State, At, Snapshot
  <2>3. At(data.snapshot) <= At(s)  BY <1>2, <2>2 DEF Ingest, NotNews
  <2>4. Register!Time(value) <= Register!Time(s)
    BY <1>0, <2>1, <2>3, SameTime
  <2> QED  BY <2>1, <2>4 DEF Register!Accept
<1>3. CASE WriteDone
  <2> DEFINE v == saves[1].content.snapshot
  <2>1. /\ 1 \in 1..Len(saves) /\ saves[1] \in Write /\ Head(saves) = saves[1]
    BY <1>0, <1>3, WrittenQueue DEF TypeOK
  <2>2. v \in Readings \cup {None}  BY <2>1 DEF Write, State
  <2>3. At(file.snapshot) <= At(v) /\ At(v) <= At(data.snapshot)
    BY <1>0, <2>1 DEF QueueInv
  <2>4. up /\ up' /\ data' = data /\ file'.snapshot = v  BY <1>3, <2>1 DEF WriteDone
  <2>5. /\ Register!Time(durable) <= Register!Time(v)
        /\ Register!Time(v) <= Register!Time(value)
    BY <1>0, <2>2, <2>3, <2>4, SameTime
  <2> HIDE DEF v
  <2> QED  BY <2>2, <2>4, <2>5 DEF Register!Next, Register!Persist, Register!Held
<1>4. CASE Crash
  BY <1>4 DEF Crash, Register!Next, Register!Reload
<1>5. CASE Restart
  BY <1>5 DEF Restart
<1>6. ASSUME NEW d \in Devices, Install(d) \/ Remove(d)
      PROVE  UNCHANGED <<up, file>> /\ data'.snapshot = data.snapshot
  BY <1>0, <1>6 DEF Install, Remove, TypeOK, StoreType, State
<1>7. CASE WriteFails \/ Resume \/ Immediate \/ Tick \/ UNCHANGED vars
           \/ \E l \in Loops : PushStep(l)
  BY <1>1, <1>7 DEF vars, WriteFails, Resume, Immediate, Tick, PushStep, PushEmpty, AccessToken,
                    SendAnswered, SendUnauthorized, Finally
<1> QED  BY <1>1, <1>2, <1>3, <1>4, <1>5, <1>6, <1>7 DEF Next, Register!Next

\* StateStore implements the register of the newest snapshot: readers never
\* see it go back while the process lives, and a restart loses only what was
\* not yet written.
THEOREM Implements == Spec => RegisterSpec
<1>1. Init => Register!Init  BY DEF Init, EmptyState, Register!Init
<1>2. SafeInv /\ [Next]_vars =>
        [Register!Next]_<<IF up THEN data.snapshot ELSE file.snapshot, file.snapshot>>
  BY RegisterStep
<1> QED  BY <1>1, <1>2, SafetyInductive, PTL DEF Spec, RegisterSpec, Register!Spec

-----------------------------------------------------------------------------
(* No lost wake-up *)

\* After schedule, a push with what memory holds runs or will run.
LEMMA ScheduleServes ==
  ASSUME TypeOK, LoopInv, Schedule, UNCHANGED data
  PROVE  /\ \/ pending' /\ running'
            \/ \E m \in Loops :
                 /\ loops'[m].snapshot = data.snapshot /\ loops'[m].devices = data.devices
                 /\ (data.snapshot # None /\ data.devices # {}) => loops'[m].phase = "token"
                 /\ \A l \in Loops : l # m => loops'[l].phase = "off"
<1>1. CASE running
  BY <1>1 DEF Schedule
<1>2. CASE ~running
  <2>1. PICK m \in Loops : loops' = [loops EXCEPT ![m] = Push]
    BY <1>2, ScheduledLoops DEF TypeOK
  <2>2. loops'[m] = Push  BY <2>1 DEF TypeOK, SchedulerType
  <2>3. \A l \in Loops : l # m => loops'[l].phase = "off"
    BY <1>2, <2>1 DEF LoopInv, TypeOK, SchedulerType
  <2> QED  BY <2>2, <2>3 DEF Push
<1> QED  BY <1>1, <1>2

\* A handler that will schedule a push stays in the queue until it resumes.
LEMMA HandlerKept ==
  ASSUME TypeOK
  PROVE  /\ \A content \in State, c \in Continuation :
              Save(content, c) /\ (Handler \/ c.kind # "remove") => Handler'
         /\ (WriteDone \/ WriteFails) /\ Handler => Handler'
         /\ Resume /\ Handler => Handler' \/ Head(settled).then.kind # "remove"
<1> USE DEF TypeOK
<1>1. ASSUME NEW content \in State, NEW c \in Continuation, Save(content, c),
             Handler \/ c.kind # "remove"
      PROVE  Handler'
  <2>1. CASE healthy
    <3>1. /\ Len(saves) \in Nat /\ Len(saves') = Len(saves) + 1 /\ settled' = settled
          /\ saves'[Len(saves) + 1] = [content |-> content, then |-> c]
          /\ \A i \in 1..Len(saves) : saves'[i] = saves[i]
      BY <1>1, <2>1, SavedQueue
    <3>2. CASE c.kind # "remove"
      <4>1. saves'[Len(saves) + 1].then.kind # "remove" /\ Len(saves) + 1 \in 1..Len(saves')
        BY <3>1, <3>2
      <4> QED  BY <4>1 DEF Handler
    <3>3. CASE Handler
      <4>1. \A i \in 1..Len(saves) : i \in 1..Len(saves')  BY <3>1
      <4> QED  BY <3>1, <3>3, <4>1 DEF Handler
    <3> QED  BY <1>1, <3>2, <3>3
  <2>2. CASE ~healthy
    <3>1. /\ Len(settled) \in Nat /\ Len(settled') = Len(settled) + 1 /\ saves' = saves
          /\ settled'[Len(settled) + 1] = [then |-> c, ok |-> FALSE]
          /\ \A i \in 1..Len(settled) : settled'[i] = settled[i]
      BY <1>1, <2>2, SavedQueue
    <3>2. CASE c.kind # "remove"
      <4>1. settled'[Len(settled) + 1].then.kind # "remove" /\ Len(settled) + 1 \in 1..Len(settled')
        BY <3>1, <3>2
      <4> QED  BY <4>1 DEF Handler
    <3>3. CASE Handler
      <4>1. \A i \in 1..Len(settled) : i \in 1..Len(settled')  BY <3>1
      <4> QED  BY <3>1, <3>3, <4>1 DEF Handler
    <3> QED  BY <1>1, <3>2, <3>3
  <2> QED  BY <2>1, <2>2
<1>2. ASSUME WriteDone, Handler PROVE Handler'
  <2>1. CASE \E i \in 1..Len(settled) : settled[i].then.kind # "remove"
    <3>1. \A i \in 1..Len(settled) : i \in 1..Len(settled') /\ settled'[i] = settled[i]
      BY <1>2, WrittenQueue
    <3> QED  BY <2>1, <3>1 DEF Handler
  <2>2. ASSUME NEW i \in 1..Len(saves), saves[i].then.kind # "remove" PROVE Handler'
    <3>1. CASE i = 1
      <4>1. /\ Len(settled) + 1 \in 1..Len(settled')
            /\ settled'[Len(settled) + 1].then = saves[1].then
        BY <1>2, WrittenQueue
      <4> QED  BY <2>2, <3>1, <4>1 DEF Handler
    <3>2. CASE i # 1
      <4>1. i - 1 \in 1..Len(saves') /\ (i - 1) + 1 = i  BY <1>2, <3>2, WrittenQueue
      <4>2. saves'[i - 1] = saves[i]  BY <1>2, <4>1, WrittenQueue
      <4> QED  BY <2>2, <4>1, <4>2 DEF Handler
    <3> QED  BY <3>1, <3>2
  <2> QED  BY <1>2, <2>1, <2>2 DEF Handler
<1>3. ASSUME WriteFails, Handler PROVE Handler'
  <2>1. CASE \E i \in 1..Len(settled) : settled[i].then.kind # "remove"
    <3>1. \A i \in 1..Len(settled) : i \in 1..Len(settled') /\ settled'[i] = settled[i]
      BY <1>3, FailedQueue
    <3> QED  BY <2>1, <3>1 DEF Handler
  <2>2. ASSUME NEW i \in 1..Len(saves), saves[i].then.kind # "remove" PROVE Handler'
    <3>1. Len(settled) + i \in 1..Len(settled')  BY <1>3, FailedQueue
    <3>2. settled'[Len(settled) + i] = [then |-> saves[i].then, ok |-> FALSE]
      BY <1>3, FailedQueue
    <3>3. settled'[Len(settled) + i].then = saves[i].then  BY <3>2
    <3> QED  BY <2>2, <3>1, <3>3 DEF Handler
  <2> QED  BY <1>3, <2>1, <2>2 DEF Handler
<1>4. ASSUME Resume, Handler PROVE Handler' \/ Head(settled).then.kind # "remove"
  <2>1. UNCHANGED saves  BY <1>4 DEF Resume
  <2>2. CASE \E i \in 1..Len(saves) : saves[i].then.kind # "remove"
    BY <2>1, <2>2 DEF Handler
  <2>3. ASSUME NEW i \in 1..Len(settled), settled[i].then.kind # "remove", i # 1 PROVE Handler'
    <3>1. i - 1 \in 1..Len(settled') /\ (i - 1) + 1 = i  BY <1>4, <2>3, ResumedQueue
    <3>2. settled'[i - 1] = settled[i]  BY <1>4, <3>1, ResumedQueue
    <3> QED  BY <2>3, <3>1, <3>2 DEF Handler
  <2>4. Head(settled) = settled[1]  BY <1>4, ResumedQueue
  <2> QED  BY <1>4, <2>2, <2>3, <2>4 DEF Handler
<1> QED  BY <1>1, <1>2, <1>3, <1>4

\* A push that has ended is followed by another, or it is known whom it
\* reached.
LEMMA LoopServes ==
  ASSUME TypeOK, LoopInv, NEW l \in Loops, loops[l].phase # "off", NEW failed,
         LoopGoesOn(l, failed)
  PROVE  /\ \A m \in Loops : m # l => loops'[m].phase = "off"
         /\ \/ pending /\ loops'[l] = Push
            \/ ~pending /\ loops'[l].phase = "exit" /\ excused' = excused \cup failed
BY DEF LoopGoesOn, LoopInv, TypeOK, SchedulerType, NoLoop

\* FreshInv and NoLostUpdate carry each other from step to step.
LEMMA LostStep ==
  ASSUME SafeInv, SafeInv', FreshInv, NoLostUpdate, [Next]_vars PROVE FreshInv' /\ NoLostUpdate'
<1> DEFINE Goal == FreshInv' /\ NoLostUpdate'
<1>0. /\ TypeOK /\ DownInv /\ LoopInv
      /\ data.devices \subseteq Devices /\ data'.devices \subseteq Devices
      /\ immediates \in Nat /\ immediates' \in Nat /\ excused \subseteq Devices
      /\ loops \in [Loops -> Loop] /\ loops' \in [Loops -> Loop]
  BY DEF SafeInv, TypeOK, StoreType, State, SchedulerType, WidgetType
<1>1. ASSUME Handler' PROVE Goal
  BY <1>1 DEF FreshInv, NoLostUpdate, Handler
<1>2. ASSUME excused' = Devices PROVE Goal
  BY <1>0, <1>2 DEF FreshInv, NoLostUpdate
<1>3. ASSUME Schedule, UNCHANGED data PROVE Goal
  <2>1. CASE pending' /\ running'
    BY <2>1 DEF FreshInv, NoLostUpdate
  <2>2. ASSUME NEW m \in Loops,
               loops'[m].snapshot = data.snapshot, loops'[m].devices = data.devices,
               (data.snapshot # None /\ data.devices # {}) => loops'[m].phase = "token",
               \A l \in Loops : l # m => loops'[l].phase = "off"
        PROVE  Goal
    <3>1. FreshInv'  BY <1>3, <2>2 DEF FreshInv
    <3>2. NoLostUpdate'  BY <1>3, <2>2 DEF NoLostUpdate
    <3> QED  BY <3>1, <3>2
  <2> QED  BY <1>0, <1>3, <2>1, <2>2, ScheduleServes
<1>4. ASSUME Handler => Handler', data'.snapshot = data.snapshot,
             data'.devices \subseteq data.devices,
             UNCHANGED <<up, loops, running, pending, immediates, widget, excused>>
      PROVE  Goal
  <2>1. FreshInv'  BY <1>4 DEF FreshInv
  <2>2. NoLostUpdate'  BY <1>4 DEF NoLostUpdate, Handler
  <2> QED  BY <2>1, <2>2
<1>5. ASSUME NEW s \in Readings, NEW age \in 0..(Window + 1), Ingest(s, age) PROVE Goal
  <2>1. data' \in State  BY DEF SafeInv, TypeOK, StoreType
  <2>2. [kind |-> "ingest", at |-> s.at] \in Continuation  BY DEF Continuation, Snapshot
  <2>3. Save(data', [kind |-> "ingest", at |-> s.at])  BY <1>5 DEF Ingest
  <2>4. Handler'  BY <1>0, <2>1, <2>2, <2>3, HandlerKept
  <2> QED  BY <1>1, <2>4
<1>6. ASSUME NEW d \in Devices, Install(d) PROVE Goal
  <2>1. CASE d \in data.devices
    BY <1>3, <1>6, <2>1 DEF Install
  <2>2. CASE d \notin data.devices
    <3>1. data' \in State  BY DEF SafeInv, TypeOK, StoreType
    <3>2. [kind |-> "install", at |-> 0] \in Continuation  BY DEF Continuation
    <3>3. Save(data', [kind |-> "install", at |-> 0])  BY <1>6, <2>2 DEF Install
    <3>4. Handler'  BY <1>0, <3>1, <3>2, <3>3, HandlerKept
    <3> QED  BY <1>1, <3>4
  <2> QED  BY <2>1, <2>2
<1>7. ASSUME NEW d \in Devices, Remove(d) PROVE Goal
  <2>1. data' \in State /\ data'.snapshot = data.snapshot /\ data'.devices \subseteq data.devices
    BY <1>0, <1>7 DEF Remove, SafeInv, TypeOK, StoreType, State
  <2>2. [kind |-> "remove", at |-> 0] \in Continuation  BY DEF Continuation
  <2>3. Save(data', [kind |-> "remove", at |-> 0])  BY <1>7 DEF Remove
  <2>4. Handler => Handler'  BY <1>0, <2>1, <2>2, <2>3, HandlerKept
  <2> QED  BY <1>4, <1>7, <2>1, <2>4 DEF Remove
<1>8. CASE WriteDone \/ WriteFails
  <2>1. Handler => Handler'  BY <1>0, <1>8, HandlerKept
  <2> QED  BY <1>4, <1>8, <2>1 DEF WriteDone, WriteFails
<1>9. CASE Resume
  <2>1. CASE Schedule
    BY <1>3, <1>9, <2>1 DEF Resume
  <2>2. CASE ~Head(settled).ok
    BY <1>2, <1>9, <2>2 DEF Resume
  <2>3. CASE Head(settled).ok /\ Head(settled).then.kind = "remove"
    <3>1. Handler => Handler'  BY <1>0, <1>9, <2>3, HandlerKept
    <3> QED  BY <1>4, <1>9, <2>3, <3>1 DEF Resume
  <2> QED  BY <1>9, <2>1, <2>2, <2>3 DEF Resume
<1>10. ASSUME NEW l \in Loops, PushStep(l) PROVE Goal
  <2>1. /\ loops[l].phase # "off" /\ UNCHANGED <<up, data, saves, settled>>
    BY <1>10 DEF PushStep, PushEmpty, AccessToken, SendAnswered, SendUnauthorized, Finally
  <2>2. up /\ (Handler <=> Handler')  BY <1>0, <2>1 DEF DownInv, LoopInv, Handler
  <2>3. \A m \in Loops : m # l => loops[m].phase = "off"  BY <1>0, <2>1 DEF LoopInv
  <2>4. ASSUME NEW failed, LoopGoesOn(l, failed), UNCHANGED immediates,
               \A d \in Devices :
                 d \notin failed /\ loops[l].phase \in {"token", "send"} /\ d \in loops[l].devices
                   => \/ widget'[d] = Display(data.snapshot) \/ pending \/ Handler
                      \/ excused = Devices,
               \A d \in Devices : d \notin loops[l].devices => widget'[d] = widget[d],
               UNCHANGED widget \/ loops[l].phase \in {"token", "send"}
        PROVE  Goal
    <3>1. CASE pending
      <4>1. loops'[l] = Push /\ \A m \in Loops : m # l => loops'[m].phase = "off"
        BY <1>0, <2>1, <2>4, <3>1, LoopServes
      <4>2. FreshInv'  BY <2>1, <4>1 DEF FreshInv, Push
      <4>3. NoLostUpdate'  BY <2>1, <4>1 DEF NoLostUpdate, Push
      <4> QED  BY <4>2, <4>3
    <3>2. CASE ~pending
      <4>1. /\ loops'[l].phase = "exit" /\ excused' = excused \cup failed
            /\ \A m \in Loops : m # l => loops'[m].phase = "off"
        BY <1>0, <2>1, <2>4, <3>2, LoopServes
      <4>2. FreshInv'  BY <4>1 DEF FreshInv
      <4>3. CASE Handler
        BY <1>1, <2>2, <4>3
      <4>4. CASE immediates > 0
        BY <2>4, <4>2, <4>4 DEF NoLostUpdate
      <4>5. CASE ~Handler /\ ~(immediates > 0)
        <5> SUFFICES ASSUME data.snapshot # None, NEW d \in data.devices, d \notin excused, d \notin failed
                     PROVE  widget'[d] = Display(data.snapshot)
          BY <2>1, <4>1, <4>2 DEF NoLostUpdate
        <5>1. \/ widget[d] = Display(data.snapshot)
              \/ /\ loops[l].phase \in {"token", "send"} /\ d \in loops[l].devices
                 /\ loops[l].snapshot = data.snapshot
          BY <2>2, <2>3, <3>2, <4>5 DEF NoLostUpdate, Handler
        <5>2. excused # Devices /\ d \in Devices  BY <1>0
        <5>3. CASE d \in loops[l].devices /\ loops[l].phase \in {"token", "send"}
          BY <2>4, <3>2, <4>5, <5>2, <5>3
        <5>4. CASE ~(d \in loops[l].devices /\ loops[l].phase \in {"token", "send"})
          BY <2>4, <5>1, <5>2, <5>4
        <5> QED  BY <5>3, <5>4
      <4> QED  BY <4>3, <4>4, <4>5
    <3> QED  BY <3>1, <3>2
  <2>5. CASE PushEmpty(l)
    BY <2>4, <2>5 DEF PushEmpty
  <2>6. ASSUME UNCHANGED <<pending, excused, running, immediates, widget>>,
               loops'[l].phase \in {"token", "send"}, loops[l].phase \in {"token", "send"},
               loops'[l].snapshot = loops[l].snapshot, loops'[l].devices = loops[l].devices,
               \A m \in Loops : m # l => loops'[m].phase = "off"
        PROVE  Goal
    <3>1. FreshInv'  BY <2>1, <2>2, <2>6 DEF FreshInv
    <3>2. NoLostUpdate'  BY <2>1, <2>2, <2>3, <2>6 DEF NoLostUpdate
    <3> QED  BY <3>1, <3>2
  <2>7. CASE AccessToken(l)
    <3>1. CASE loops' = [loops EXCEPT ![l].phase = "send"] /\ UNCHANGED <<pending, excused>>
      <4>1. /\ loops'[l] = [loops[l] EXCEPT !.phase = "send"] /\ loops[l] \in Loop
            /\ \A m \in Loops : m # l => loops'[m] = loops[m]
        BY <1>0, <3>1
      <4>2. /\ loops'[l].phase = "send" /\ loops'[l].snapshot = loops[l].snapshot
            /\ loops'[l].devices = loops[l].devices
        BY <4>1 DEF Loop
      <4> QED  BY <2>3, <2>6, <2>7, <3>1, <4>1, <4>2 DEF AccessToken
    <3>2. CASE LoopGoesOn(l, loops[l].devices)
      BY <2>4, <2>7, <3>2 DEF AccessToken
    <3> QED  BY <2>7, <3>1, <3>2 DEF AccessToken
  <2>8. CASE SendAnswered(l)
    <3>1. PICK reached \in SUBSET loops[l].devices :
            widget' = Shown(l, reached) /\ LoopGoesOn(l, loops[l].devices \ reached)
      BY <2>8 DEF SendAnswered
    <3>2. /\ loops[l].phase = "send" /\ UNCHANGED immediates  BY <2>8 DEF SendAnswered
    <3>3. \A d \in Devices : d \in reached => widget'[d] = Display(loops[l].snapshot)
      BY <3>1 DEF Shown
    <3>4. \A d \in Devices : d \notin reached => widget'[d] = widget[d]
      BY <3>1 DEF Shown
    <3>5. loops[l].snapshot = data.snapshot \/ pending \/ Handler \/ excused = Devices
      BY <2>2, <3>2 DEF FreshInv
    <3> QED  BY <2>4, <3>1, <3>2, <3>3, <3>4, <3>5
  <2>9. CASE SendUnauthorized(l)
    <3>1. CASE loops[l].retry
      <4>1. /\ loops' = [loops EXCEPT ![l] = [loops[l] EXCEPT !.phase = "token", !.retry = FALSE]]
            /\ loops[l].phase = "send"
            /\ UNCHANGED <<pending, excused, running, immediates, widget>>
        BY <2>9, <3>1 DEF SendUnauthorized
      <4>2. /\ loops'[l] = [loops[l] EXCEPT !.phase = "token", !.retry = FALSE] /\ loops[l] \in Loop
            /\ \A m \in Loops : m # l => loops'[m] = loops[m]
        BY <1>0, <4>1
      <4>3. /\ loops'[l].phase = "token" /\ loops'[l].snapshot = loops[l].snapshot
            /\ loops'[l].devices = loops[l].devices
        BY <4>2 DEF Loop
      <4> QED  BY <2>3, <2>6, <4>1, <4>2, <4>3
    <3>2. CASE ~loops[l].retry
      BY <2>4, <2>9, <3>2 DEF SendUnauthorized
    <3> QED  BY <3>1, <3>2
  <2>10. CASE Finally(l)
    <3>1. \A m \in Loops : loops'[m].phase = "off"  BY <1>0, <2>3, <2>10 DEF Finally, NoLoop
    <3>2. FreshInv'  BY <3>1 DEF FreshInv
    <3>3. loops[l].phase = "exit" /\ UNCHANGED <<widget, excused>>  BY <2>10 DEF Finally
    <3>4. CASE immediates' > 0
      BY <3>2, <3>4 DEF NoLostUpdate
    <3>5. CASE ~(immediates' > 0)
      <4>1. ~(immediates > 0) /\ ~pending  BY <1>0, <2>10, <3>5 DEF Finally
      <4>2. NoLostUpdate'  BY <2>1, <2>2, <2>3, <3>3, <4>1 DEF NoLostUpdate
      <4> QED  BY <3>2, <4>2
    <3> QED  BY <3>4, <3>5
  <2> QED  BY <1>10, <2>5, <2>7, <2>8, <2>9, <2>10 DEF PushStep
<1>11. CASE Immediate
  BY <1>3, <1>11 DEF Immediate
<1>12. CASE Tick \/ UNCHANGED vars
  <2>1. Handler => Handler'  BY <1>12 DEF Tick, vars, Handler
  <2> QED  BY <1>4, <1>12, <2>1 DEF Tick, vars
<1>13. CASE Crash
  BY <1>13, <1>2 DEF Crash
<1>14. CASE Restart
  BY <1>0, <1>2, <1>14 DEF Restart, DownInv
<1> QED  BY <1>5, <1>6, <1>7, <1>8, <1>9, <1>10, <1>11, <1>12, <1>13, <1>14 DEF Next

\* No wake-up of pushScheduler is lost: a device that does not show what
\* memory holds has a push, a scheduled push or a handler coming for it.
THEOREM NoUpdateLost == Spec => []NoLostUpdate
<1>1. Init => FreshInv /\ NoLostUpdate
  BY DEF Init, FreshInv, NoLostUpdate, NoLoop, EmptyState
<1>2. SafeInv /\ SafeInv' /\ FreshInv /\ NoLostUpdate /\ [Next]_vars => FreshInv' /\ NoLostUpdate'
  BY LostStep
<1>3. Spec => [](FreshInv /\ NoLostUpdate)
  BY <1>1, <1>2, SafetyInductive, PTL DEF Spec
<1> QED  BY <1>3, PTL

=============================================================================
