------------------------------- MODULE Limiter -------------------------------
(***************************************************************************)
(* The login limiter (internal/auth/limiter.go): one bucket of failures    *)
(* and pending attempts per key, a hard bound on the number of buckets,    *)
(* expiry after a fixed window, and eviction of idle buckets, those with   *)
(* the fewest failures first.  Every operation runs under l.mu and is one  *)
(* action; between Admit and the completion of an attempt (the password    *)
(* hash) anything may happen to its bucket.                                *)
(*                                                                         *)
(* A bucket's identity (the Go pointer) is a serial number.  The lists are *)
(* sets: the expiry list is sorted because every bucket gets the same      *)
(* window from a clock that does not go back, so pruning its front is      *)
(* removing what has expired; which of the equally bad idle buckets is     *)
(* evicted is left open.                                                   *)
(***************************************************************************)
EXTENDS Integers, FiniteSets

CONSTANTS
  Keys,              \* keyed hashes of address and username
  Attempts,          \* login attempts that can be in flight together
  loginFailureLimit, loginWindow, capacity,
  MaxNow, MaxSerial  \* bounds of the instance

\* newLimiter panics on a smaller capacity.  A key is a hash of fixed length,
\* an attempt a request being served.
ASSUME LimiterAssumption ==
  /\ IsFiniteSet(Keys) /\ IsFiniteSet(Attempts)
  /\ {loginFailureLimit, loginWindow} \subseteq Nat \ {0}
  /\ capacity \in Nat /\ capacity >= loginFailureLimit
  /\ {MaxNow, MaxSerial} \subseteq Nat

VARIABLES
  now,
  serial,       \* buckets made so far
  buckets,      \* map: key -> bucket or NoBucket
  evictable,    \* failures -> keys in that list
  admission     \* attempt -> [key, serial] it was admitted for, serial 0 if
                \* it is not in flight

vars == <<now, serial, buckets, evictable, admission>>

\* own counts the failures of the bucket's own admissions (history); the rest
\* are late failures of older buckets.  listed: evictionElement is not nil.
NoBucket == [serial |-> 0, failures |-> 0, pending |-> 0, expiresAt |-> 0,
             listed |-> FALSE, own |-> 0]
Counts == 0 .. loginFailureLimit

Init ==
  /\ now = 0 /\ serial = 0
  /\ buckets = [k \in Keys |-> NoBucket]
  /\ evictable = [f \in Counts |-> {}]
  /\ admission \in [Attempts -> {[key |-> k, serial |-> 0] : k \in Keys}]
  /\ \A a, b \in Attempts : admission[a] = admission[b]

-----------------------------------------------------------------------------
(* Helpers on the pair of a bucket map b and the lists e *)

Tables(b, e) == [b |-> b, e |-> e]
Live(t) == {k \in Keys : t.b[k].serial # 0}

removeEvictable(t, k) ==
  IF t.b[k].listed
  THEN Tables([t.b EXCEPT ![k].listed = FALSE],
              [t.e EXCEPT ![t.b[k].failures] = @ \ {k}])
  ELSE t

addEvictable(t, k) ==
  IF t.b[k].listed THEN t
  ELSE Tables([t.b EXCEPT ![k].listed = TRUE],
              [t.e EXCEPT ![t.b[k].failures] = @ \cup {k}])

deleteBucket(t, k) ==
  Tables([t.b EXCEPT ![k] = NoBucket], removeEvictable(t, k).e)

Expired(t, k) == t.b[k].serial # 0 /\ now >= t.b[k].expiresAt

pruneExpired(t) ==
  Tables([k \in Keys |-> IF Expired(t, k) THEN NoBucket ELSE t.b[k]],
         [f \in Counts |-> t.e[f] \ {k \in Keys : /\ Expired(t, k)
                                                  /\ t.b[k].listed
                                                  /\ t.b[k].failures = f}])

\* Idle buckets with the fewest failures.
Victims(t) ==
  {k \in Keys : \E f \in Counts : /\ k \in t.e[f]
                                  /\ \A g \in Counts : g < f => t.e[g] = {}}

\* Mutant: any bucket may go.
makeRoomAny(t) ==
  IF Cardinality(Live(t)) < capacity THEN {t}
  ELSE {deleteBucket(t, k) : k \in Live(t)}

\* makeRoom: the possible tables with room for one more; {} means no.
makeRoom(t) ==
  IF Cardinality(Live(t)) < capacity THEN {t}
  ELSE {deleteBucket(t, k) : k \in Victims(t)}

NewBucket(failures, pending) ==
  [serial |-> serial + 1, failures |-> failures, pending |-> pending,
   expiresAt |-> now + loginWindow, listed |-> FALSE, own |-> 0]

SetTables(t) == buckets' = t.b /\ evictable' = t.e
Pruned == pruneExpired(Tables(buckets, evictable))

-----------------------------------------------------------------------------

Tick ==
  /\ now < MaxNow
  /\ now' = now + 1
  /\ UNCHANGED <<serial, buckets, evictable, admission>>

\* Admit counts what failed and what is still in flight.
MayAdmit(b) == b.failures + b.pending < loginFailureLimit

\* Admit on a key with a bucket: one more pending attempt.
AdmitKnown(a, k) ==
  LET b == Pruned.b[k]
      t == removeEvictable(Pruned, k)
  IN  /\ admission[a].serial = 0 /\ b.serial # 0
      /\ MayAdmit(b)
      /\ SetTables(Tables([t.b EXCEPT ![k].pending = @ + 1], t.e))
      /\ admission' = [admission EXCEPT ![a] = [key |-> k, serial |-> b.serial]]
      /\ UNCHANGED <<now, serial>>

\* Admit on a new key, when there is room or can be made.
AdmitNew(a, k) ==
  /\ admission[a].serial = 0 /\ Pruned.b[k].serial = 0 /\ serial < MaxSerial
  /\ \E t \in makeRoom(Pruned) :
       SetTables(Tables([t.b EXCEPT ![k] = NewBucket(0, 1)], t.e))
  /\ serial' = serial + 1
  /\ admission' = [admission EXCEPT ![a] = [key |-> k, serial |-> serial + 1]]
  /\ UNCHANGED now

\* Admit refuses; the expired buckets are gone nevertheless.
Refuse(k) ==
  LET b == Pruned.b[k]
  IN  /\ \/ b.serial # 0 /\ ~MayAdmit(b)
         \/ b.serial = 0 /\ makeRoom(Pruned) = {}
      /\ SetTables(Pruned)
      /\ UNCHANGED <<now, serial, admission>>

Done(a) == admission' = [admission EXCEPT ![a].serial = 0]

\* Success forgets the key, whichever bucket it has by now.
Success(a) ==
  /\ admission[a].serial # 0
  /\ SetTables(deleteBucket(Pruned, admission[a].key))
  /\ Done(a)
  /\ UNCHANGED <<now, serial>>

\* Mutant: the attempt is not released.
SettledLeak(b, failed) ==
  [b EXCEPT !.failures = IF failed /\ @ < loginFailureLimit THEN @ + 1 ELSE @,
            !.own = IF failed THEN @ + 1 ELSE @]

\* One pending attempt of bucket b ends.
Settled(b, failed) ==
  [b EXCEPT !.pending = IF @ > 0 THEN @ - 1 ELSE @,
            !.failures = IF failed /\ @ < loginFailureLimit THEN @ + 1 ELSE @,
            !.own = IF failed THEN @ + 1 ELSE @]

\* Failure or Cancel while the admission's bucket is still the current one.
Settle(a, failed) ==
  LET k == admission[a].key
      b == Settled(Pruned.b[k], failed)
      t == Tables([Pruned.b EXCEPT ![k] = b], Pruned.e)
  IN  /\ admission[a].serial # 0
      /\ Pruned.b[k].serial = admission[a].serial
      /\ SetTables(IF b.pending # 0 THEN t
                   ELSE IF b.failures = 0 THEN deleteBucket(t, k)
                   ELSE addEvictable(t, k))
      /\ Done(a)
      /\ UNCHANGED <<now, serial>>

\* recordLateFailure on a key that has a bucket.
AddFailure(t, k) ==
  LET r == removeEvictable(t, k)
      c == Tables([r.b EXCEPT ![k].failures =
                     IF @ < loginFailureLimit THEN @ + 1 ELSE @], r.e)
  IN  IF c.b[k].pending = 0 THEN addEvictable(c, k) ELSE c

\* A failure whose bucket is gone counts in the current one, or in a new one if
\* there is room.
LateFailure(a) ==
  LET k == admission[a].key
  IN  /\ admission[a].serial # 0
      /\ Pruned.b[k].serial # admission[a].serial
      /\ \/ /\ Pruned.b[k].serial # 0
            /\ SetTables(AddFailure(Pruned, k))
            /\ UNCHANGED serial
         \/ /\ Pruned.b[k].serial = 0 /\ serial < MaxSerial
            /\ \E t \in makeRoom(Pruned) :
                 SetTables(addEvictable(
                   Tables([t.b EXCEPT ![k] = NewBucket(1, 0)], t.e), k))
            /\ serial' = serial + 1
         \/ /\ Pruned.b[k].serial = 0 /\ makeRoom(Pruned) = {}
            /\ SetTables(Pruned)
            /\ UNCHANGED serial
      /\ Done(a)
      /\ UNCHANGED now

\* A cancelled attempt whose bucket is gone leaves nothing.
LateCancel(a) ==
  /\ admission[a].serial # 0
  /\ Pruned.b[admission[a].key].serial # admission[a].serial
  /\ SetTables(Pruned)
  /\ Done(a)
  /\ UNCHANGED <<now, serial>>

Next ==
  \/ Tick
  \/ \E k \in Keys : Refuse(k)
  \/ \E a \in Attempts, k \in Keys : AdmitKnown(a, k) \/ AdmitNew(a, k)
  \/ \E a \in Attempts : \/ Success(a) \/ LateFailure(a) \/ LateCancel(a)
                         \/ \E failed \in BOOLEAN : Settle(a, failed)

Spec == Init /\ [][Next]_vars

-----------------------------------------------------------------------------

Bucket == [serial : Nat, failures : Counts, pending : Counts, expiresAt : Nat,
           listed : BOOLEAN, own : Nat]

\* Types of the limiter's tables.
TypeOK ==
  /\ now \in Nat /\ serial \in Nat
  /\ buckets \in [Keys -> Bucket]
  /\ evictable \in [Counts -> SUBSET Keys]
  /\ admission \in [Attempts -> [key : Keys, serial : Nat]]

\* The hard memory bound holds whatever keys arrive.
WithinCapacity == Cardinality(Live(Tables(buckets, evictable))) <= capacity

\* The eviction lists hold exactly the idle buckets, each in the list of its
\* present number of failures: a bucket left in another list could never be
\* removed from it again, one missing could never be evicted.
ListsExact ==
  \A k \in Keys, f \in Counts :
    k \in evictable[f] <=> /\ buckets[k].serial # 0
                           /\ buckets[k].pending = 0
                           /\ buckets[k].failures = f

\* A bucket's pending count is the number of its admissions in flight: none is
\* leaked by a completion that finds another bucket, none is released twice.
PendingAccounted ==
  \A k \in Keys : buckets[k].serial # 0 =>
    buckets[k].pending =
      Cardinality({a \in Attempts : admission[a].serial = buckets[k].serial})

\* A bucket never admits more than the permitted attempts: those that failed
\* and those still in flight together.
AttemptsBounded ==
  \A k \in Keys : buckets[k].own + buckets[k].pending <= loginFailureLimit

\* Eviction spares attempts in flight: an unexpired bucket with pending work
\* disappears only as an attempt for its key is completed, never to make room
\* for another key.
PendingNotEvicted ==
  [][\A k \in Keys :
       /\ buckets[k].pending > 0 /\ now < buckets[k].expiresAt
       /\ buckets'[k].serial # buckets[k].serial
       => \E a \in Attempts : /\ admission[a].key = k /\ admission[a].serial # 0
                              /\ admission'[a].serial = 0]_vars

\* The limiter's books balance after every admission, completion, expiry and
\* eviction: lists, counters and bounds agree.
AccountsBalance ==
  TypeOK /\ WithinCapacity /\ ListsExact /\ PendingAccounted /\ AttemptsBounded
=============================================================================
