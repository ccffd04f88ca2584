---------------------------- MODULE LimiterProofs ----------------------------
(***************************************************************************)
(* The books of the login limiter balance for any keys, attempts, limit,   *)
(* window and capacity.                                                    *)
(***************************************************************************)
EXTENDS Limiter, FiniteSetTheorems, TLAPS

\* The attempts in flight that were admitted by the bucket with serial s.
Holders(adm, s) == {a \in Attempts : adm[a].serial = s}

\* Tables whose lists say of every key what its bucket says of itself.
Sound(t) ==
  /\ t.b \in [Keys -> Bucket] /\ t.e \in [Counts -> SUBSET Keys]
  /\ \A k \in Keys, f \in Counts : k \in t.e[f] <=> t.b[k].listed /\ t.b[k].failures = f

\* Bucket b of key k after n buckets were made: its counters, its listing and
\* the admissions it stands for.
RowOK(b, k, adm, n) ==
  /\ b.serial = 0 => b = NoBucket
  /\ b.serial <= n
  /\ b.listed <=> b.serial # 0 /\ b.pending = 0
  /\ b.own <= b.failures /\ b.own + b.pending <= loginFailureLimit
  /\ b.serial # 0 => /\ b.pending = Cardinality(Holders(adm, b.serial))
                     /\ \A a \in Attempts : adm[a].serial = b.serial => adm[a].key = k

\* No two keys share a bucket.
Distinct(t) ==
  \A j, k \in Keys : t.b[j].serial = t.b[k].serial /\ t.b[j].serial # 0 => j = k

Books(t, adm, n) ==
  /\ Sound(t) /\ Distinct(t)
  /\ \A k \in Keys : RowOK(t.b[k], k, adm, n)
  /\ Cardinality(Live(t)) <= capacity

Admissions(adm, n) ==
  /\ adm \in [Attempts -> [key : Keys, serial : Nat]]
  /\ \A a \in Attempts : adm[a].serial <= n

LimiterInv ==
  /\ now \in Nat /\ serial \in Nat
  /\ Admissions(admission, serial)
  /\ Books(Tables(buckets, evictable), admission, serial)

USE LimiterAssumption

-----------------------------------------------------------------------------
(* The helpers *)

\* Tables u are t but for the bucket of k.
Only(t, u, k) == \A j \in Keys \ {k} : u.b[j] = t.b[j]

\* The empty bucket is a bucket.
LEMMA NoBucketOK == NoBucket \in Bucket
BY DEF NoBucket, Bucket, Counts

\* Buckets b and c are the same but for being listed.
Same(b, c) ==
  /\ c.serial = b.serial /\ c.failures = b.failures /\ c.pending = b.pending
  /\ c.expiresAt = b.expiresAt /\ c.own = b.own

\* Tables u differ from t in that bucket k became c, and the lists follow.
Follows(t, u, k, c) ==
  /\ u.b = [t.b EXCEPT ![k] = c] /\ u.e \in [Counts -> SUBSET Keys]
  /\ \A j \in Keys \ {k}, f \in Counts : j \in u.e[f] <=> j \in t.e[f]
  /\ \A f \in Counts : k \in u.e[f] <=> c.listed /\ c.failures = f

\* ... which keeps the tables sound.
LEMMA SetRow ==
  ASSUME NEW t, Sound(t), NEW k \in Keys, NEW c \in Bucket, NEW u, Follows(t, u, k, c)
  PROVE  Sound(u) /\ Only(t, u, k) /\ u.b[k] = c
<1> USE DEF Follows
<1>1. u.b \in [Keys -> Bucket] /\ u.b[k] = c /\ Only(t, u, k)  BY DEF Sound, Only
<1>2. ASSUME NEW j \in Keys, NEW f \in Counts
      PROVE  j \in u.e[f] <=> u.b[j].listed /\ u.b[j].failures = f
  <2>1. CASE j = k  BY <1>1, <2>1
  <2>2. CASE j # k
    <3>1. u.b[j] = t.b[j]  BY <1>1, <2>2 DEF Only
    <3>2. j \in u.e[f] <=> j \in t.e[f]  BY <2>2
    <3>3. j \in t.e[f] <=> t.b[j].listed /\ t.b[j].failures = f  BY DEF Sound
    <3> QED  BY <3>1, <3>2, <3>3
  <2> QED  BY <2>1, <2>2
<1> QED  BY <1>1, <1>2 DEF Sound

\* The list of failures of a bucket exists, and one list changes at a time.
LEMMA ListOf ==
  ASSUME NEW t, Sound(t), NEW k \in Keys
  PROVE  /\ t.b[k] \in Bucket /\ t.b[k].failures \in Counts
         /\ \A f \in Counts : k \in t.e[f] <=> t.b[k].listed /\ t.b[k].failures = f
         /\ t.e \in [Counts -> SUBSET Keys]
BY DEF Sound, Bucket

\* removeEvictable takes a bucket out of the list it is in.
LEMMA RemoveRow ==
  ASSUME NEW t, Sound(t), NEW k \in Keys
  PROVE  LET u == removeEvictable(t, k)
         IN  Sound(u) /\ Only(t, u, k) /\ Same(t.b[k], u.b[k]) /\ ~u.b[k].listed
<1> DEFINE u == removeEvictable(t, k)
           c == [t.b[k] EXCEPT !.listed = FALSE]
           g == t.b[k].failures
<1>1. CASE t.b[k].listed
  <2>1. u.b = [t.b EXCEPT ![k] = c] /\ u.e = [t.e EXCEPT ![g] = @ \ {k}]
    BY <1>1 DEF removeEvictable, Tables
  <2>2. c \in Bucket /\ Same(t.b[k], c) /\ ~c.listed  BY ListOf DEF Bucket, Same
  <2> HIDE DEF c, u
  <2>3. u.e \in [Counts -> SUBSET Keys]  BY <2>1, ListOf
  <2>4. \A j \in Keys \ {k}, f \in Counts : j \in u.e[f] <=> j \in t.e[f]  BY <2>1, ListOf
  <2>5. \A f \in Counts : k \in u.e[f] <=> c.listed /\ c.failures = f  BY <2>1, <2>2, ListOf
  <2>6. Follows(t, u, k, c)  BY <2>1, <2>3, <2>4, <2>5 DEF Follows
  <2>7. Sound(u) /\ Only(t, u, k) /\ u.b[k] = c  BY <2>2, <2>6, SetRow
  <2> QED  BY <2>2, <2>7 DEF u
<1>2. CASE ~t.b[k].listed
  <2>1. u = t  BY <1>2 DEF removeEvictable
  <2> HIDE DEF u
  <2> QED  BY <1>2, <2>1 DEF Only, Same, u
<1> QED  BY <1>1, <1>2

\* addEvictable puts it in the list of its failures.
LEMMA AddRow ==
  ASSUME NEW t, Sound(t), NEW k \in Keys
  PROVE  LET u == addEvictable(t, k)
         IN  Sound(u) /\ Only(t, u, k) /\ Same(t.b[k], u.b[k]) /\ u.b[k].listed
<1> DEFINE u == addEvictable(t, k)
           c == [t.b[k] EXCEPT !.listed = TRUE]
           g == t.b[k].failures
<1>1. CASE ~t.b[k].listed
  <2>1. u.b = [t.b EXCEPT ![k] = c] /\ u.e = [t.e EXCEPT ![g] = @ \cup {k}]
    BY <1>1 DEF addEvictable, Tables
  <2>2. c \in Bucket /\ Same(t.b[k], c) /\ c.listed  BY ListOf DEF Bucket, Same
  <2> HIDE DEF c, u
  <2>3. u.e \in [Counts -> SUBSET Keys]  BY <2>1, ListOf
  <2>4. \A j \in Keys \ {k}, f \in Counts : j \in u.e[f] <=> j \in t.e[f]  BY <2>1, ListOf
  <2>5. \A f \in Counts : k \in u.e[f] <=> c.listed /\ c.failures = f
    BY <1>1, <2>1, <2>2, ListOf DEF Same
  <2>6. Follows(t, u, k, c)  BY <2>1, <2>3, <2>4, <2>5 DEF Follows
  <2>7. Sound(u) /\ Only(t, u, k) /\ u.b[k] = c  BY <2>2, <2>6, SetRow
  <2> QED  BY <2>2, <2>7 DEF u
<1>2. CASE t.b[k].listed
  <2>1. u = t  BY <1>2 DEF addEvictable
  <2> HIDE DEF u
  <2> QED  BY <1>2, <2>1 DEF Only, Same, u
<1> QED  BY <1>1, <1>2

\* A bucket that is in no list may change its counters.
LEMMA UpdateRow ==
  ASSUME NEW t, Sound(t), NEW k \in Keys, ~t.b[k].listed, NEW c \in Bucket, ~c.listed
  PROVE  LET u == Tables([t.b EXCEPT ![k] = c], t.e)
         IN  Sound(u) /\ Only(t, u, k) /\ u.b[k] = c
<1> DEFINE u == Tables([t.b EXCEPT ![k] = c], t.e)
<1>1. u.b = [t.b EXCEPT ![k] = c] /\ u.e = t.e  BY DEF Tables
<1> HIDE DEF u
<1>2. u.e \in [Counts -> SUBSET Keys]  BY <1>1, ListOf
<1>3. \A j \in Keys \ {k}, f \in Counts : j \in u.e[f] <=> j \in t.e[f]  BY <1>1
<1>4. \A f \in Counts : k \in u.e[f] <=> c.listed /\ c.failures = f  BY <1>1, ListOf
<1>5. Follows(t, u, k, c)  BY <1>1, <1>2, <1>3, <1>4 DEF Follows
<1>6. Sound(u) /\ Only(t, u, k) /\ u.b[k] = c  BY <1>5, SetRow
<1> QED  BY <1>6 DEF u

\* deleteBucket leaves no trace of the key.
LEMMA DeleteRow ==
  ASSUME NEW t, Sound(t), NEW k \in Keys
  PROVE  LET u == deleteBucket(t, k)
         IN  Sound(u) /\ Only(t, u, k) /\ u.b[k] = NoBucket
<1> DEFINE u == deleteBucket(t, k)
           r == removeEvictable(t, k)
<1>1. Sound(r) /\ Only(t, r, k) /\ ~r.b[k].listed  BY RemoveRow
<1>2. u.b = [t.b EXCEPT ![k] = NoBucket] /\ u.e = r.e  BY DEF deleteBucket, Tables
<1> HIDE DEF r, u
<1>3. u.e \in [Counts -> SUBSET Keys]  BY <1>1, <1>2, ListOf
<1>4. \A f \in Counts : k \in u.e[f] <=> NoBucket.listed /\ NoBucket.failures = f
  BY <1>1, <1>2, ListOf DEF NoBucket
<1>5. \A j \in Keys \ {k}, f \in Counts : j \in u.e[f] <=> j \in t.e[f]
  <2> SUFFICES ASSUME NEW j \in Keys \ {k}, NEW f \in Counts PROVE j \in r.e[f] <=> j \in t.e[f]
    BY <1>2
  <2>1. r.b[j] = t.b[j]  BY <1>1 DEF Only
  <2> QED  BY <1>1, <2>1, ListOf
<1>6. NoBucket \in Bucket /\ ~NoBucket.listed  BY NoBucketOK DEF NoBucket
<1>7. Follows(t, u, k, NoBucket)  BY <1>2, <1>3, <1>4, <1>5 DEF Follows
<1>8. Sound(u) /\ Only(t, u, k) /\ u.b[k] = NoBucket  BY <1>6, <1>7, SetRow
<1> QED  BY <1>8 DEF u

\* pruneExpired deletes the buckets whose window is over.
LEMMA PruneRows ==
  ASSUME NEW t, Sound(t)
  PROVE  /\ Sound(pruneExpired(t))
         /\ \A k \in Keys : pruneExpired(t).b[k] = IF Expired(t, k) THEN NoBucket ELSE t.b[k]
<1> DEFINE p == pruneExpired(t)
<1>1. p = [b |-> [k \in Keys |-> IF Expired(t, k) THEN NoBucket ELSE t.b[k]],
           e |-> [f \in Counts |-> t.e[f] \ {k \in Keys : /\ Expired(t, k)
                                                          /\ t.b[k].listed
                                                          /\ t.b[k].failures = f}]]
  BY DEF pruneExpired, Tables
<1>2. \A k \in Keys : p.b[k] = IF Expired(t, k) THEN NoBucket ELSE t.b[k]  BY <1>1
<1>3. p.b \in [Keys -> Bucket] /\ p.e \in [Counts -> SUBSET Keys]
  BY <1>1, NoBucketOK DEF Sound
<1>4. \A k \in Keys, f \in Counts : k \in p.e[f] <=> p.b[k].listed /\ p.b[k].failures = f
  <2> SUFFICES ASSUME NEW k \in Keys, NEW f \in Counts
               PROVE  k \in p.e[f] <=> p.b[k].listed /\ p.b[k].failures = f
    OBVIOUS
  <2>1. k \in p.e[f] <=> k \in t.e[f] /\ ~(Expired(t, k) /\ t.b[k].listed /\ t.b[k].failures = f)
    BY <1>1
  <2>2. k \in t.e[f] <=> t.b[k].listed /\ t.b[k].failures = f  BY DEF Sound
  <2>3. ~NoBucket.listed  BY DEF NoBucket
  <2> HIDE DEF p
  <2> QED  BY <1>2, <2>1, <2>2, <2>3
<1> QED  BY <1>2, <1>3, <1>4 DEF Sound

-----------------------------------------------------------------------------
(* Fewer buckets *)

\* The live buckets can be counted.
LEMMA LiveFinite ==
  ASSUME NEW t
  PROVE  IsFiniteSet(Live(t)) /\ Cardinality(Live(t)) \in Nat
<1>1. Live(t) \in SUBSET Keys  BY DEF Live
<1>2. IsFiniteSet(Live(t))  BY <1>1, FS_Subset
<1> QED  BY <1>2, FS_CardinalityType

\* No bucket is a good bucket, whatever was admitted.
LEMMA NoBucketRow ==
  ASSUME NEW k \in Keys, NEW adm, NEW n \in Nat
  PROVE  RowOK(NoBucket, k, adm, n) /\ ~NoBucket.listed /\ NoBucket.serial = 0
BY DEF RowOK, NoBucket

\* Deleting buckets keeps the books.
LEMMA FewerBuckets ==
  ASSUME NEW t, NEW u, NEW adm, NEW n \in Nat, Books(t, adm, n), Sound(u),
         \A k \in Keys : u.b[k] \in {t.b[k], NoBucket}
  PROVE  Books(u, adm, n)
<1>1. \A k \in Keys : RowOK(u.b[k], k, adm, n)
  <2> SUFFICES ASSUME NEW k \in Keys PROVE RowOK(u.b[k], k, adm, n)
    OBVIOUS
  <2>1. RowOK(t.b[k], k, adm, n) /\ RowOK(NoBucket, k, adm, n)  BY NoBucketRow DEF Books
  <2>2. u.b[k] = t.b[k] \/ u.b[k] = NoBucket  OBVIOUS
  <2> QED  BY <2>1, <2>2
<1>2. \A k \in Keys : u.b[k].serial # 0 => u.b[k] = t.b[k]
  <2>1. NoBucket.serial = 0  BY DEF NoBucket
  <2> QED  BY <2>1
<1>3. Distinct(u)  BY <1>2 DEF Books, Distinct
<1>4. Live(u) \in SUBSET Live(t)  BY <1>2 DEF Live
<1>5. Cardinality(Live(u)) <= Cardinality(Live(t))  BY <1>4, LiveFinite, FS_Subset
<1>6. Cardinality(Live(u)) <= capacity  BY <1>5, LiveFinite DEF Books
<1> QED  BY <1>1, <1>3, <1>6 DEF Books

\* What an operation finds after it has pruned the expired buckets.
LEMMA PrunedBooks ==
  ASSUME LimiterInv
  PROVE  /\ Books(Pruned, admission, serial)
         /\ \A k \in Keys : /\ Pruned.b[k] \in {buckets[k], NoBucket}
                            /\ \/ Pruned.b[k] = buckets[k]
                               \/ buckets[k].serial # 0 /\ now >= buckets[k].expiresAt
<1> DEFINE t == Tables(buckets, evictable)
<1>1. Books(t, admission, serial) /\ serial \in Nat  BY DEF LimiterInv
<1>2. t.b = buckets  BY DEF Tables
<1>3. Sound(t)  BY <1>1 DEF Books
<1>4. Pruned = pruneExpired(t)  BY DEF Pruned
<1> HIDE DEF t
<1>5. Sound(Pruned) /\ \A k \in Keys : Pruned.b[k] = IF Expired(t, k) THEN NoBucket ELSE t.b[k]
  BY <1>3, <1>4, PruneRows
<1>6. \A k \in Keys : Pruned.b[k] \in {t.b[k], NoBucket}  BY <1>5
<1>7. Books(Pruned, admission, serial)  BY <1>1, <1>5, <1>6, FewerBuckets
<1>8. \A k \in Keys : \/ Pruned.b[k] = buckets[k]
                      \/ buckets[k].serial # 0 /\ now >= buckets[k].expiresAt
  BY <1>2, <1>5 DEF Expired
<1> QED  BY <1>2, <1>6, <1>7, <1>8

\* Only idle buckets are evicted.
LEMMA VictimIdle ==
  ASSUME NEW t, NEW adm, NEW n \in Nat, Books(t, adm, n), NEW k \in Victims(t)
  PROVE  k \in Live(t) /\ t.b[k].pending = 0
<1>1. k \in Keys /\ \E f \in Counts : k \in t.e[f]  BY DEF Victims
<1>2. t.b[k].listed  BY <1>1 DEF Books, Sound
<1>3. RowOK(t.b[k], k, adm, n)  BY <1>1 DEF Books
<1> QED  BY <1>1, <1>2, <1>3 DEF RowOK, Live

\* makeRoom evicts at most one idle bucket, and then there is room.
LEMMA RoomMade ==
  ASSUME NEW t, NEW adm, NEW n \in Nat, Books(t, adm, n), NEW u \in makeRoom(t)
  PROVE  /\ Books(u, adm, n) /\ Cardinality(Live(u)) < capacity
         /\ \A k \in Keys : u.b[k] = t.b[k] \/ (u.b[k] = NoBucket /\ t.b[k].pending = 0)
<1>1. CASE Cardinality(Live(t)) < capacity
  <2>1. u = t  BY <1>1 DEF makeRoom
  <2> QED  BY <1>1, <2>1
<1>2. CASE ~(Cardinality(Live(t)) < capacity)
  <2>1. PICK v \in Victims(t) : u = deleteBucket(t, v)  BY <1>2 DEF makeRoom
  <2>2. v \in Keys /\ v \in Live(t) /\ t.b[v].pending = 0  BY VictimIdle DEF Live
  <2>3. Sound(u) /\ Only(t, u, v) /\ u.b[v] = NoBucket  BY <2>1, <2>2, DeleteRow DEF Books
  <2>4. \A k \in Keys : k # v => u.b[k] = t.b[k]  BY <2>3 DEF Only
  <2>5. \A k \in Keys : u.b[k] \in {t.b[k], NoBucket}  BY <2>3, <2>4
  <2>6. Books(u, adm, n)  BY <2>3, <2>5, FewerBuckets
  <2>7. Live(u) = Live(t) \ {v}
    <3>1. NoBucket.serial = 0  BY DEF NoBucket
    <3> QED  BY <2>2, <2>3, <2>4, <3>1 DEF Live
  <2>8. Cardinality(Live(u)) = Cardinality(Live(t)) - 1
    BY <2>2, <2>7, LiveFinite, FS_RemoveElement
  <2>9. Cardinality(Live(t)) \in Nat /\ Cardinality(Live(t)) <= capacity
    BY LiveFinite DEF Books
  <2>10. Cardinality(Live(u)) < capacity  BY <2>8, <2>9
  <2> QED  BY <2>2, <2>3, <2>4, <2>6, <2>10
<1> QED  BY <1>1, <1>2

-----------------------------------------------------------------------------
(* Admissions *)

\* The admissions of a bucket can be counted.
LEMMA HoldersFinite ==
  ASSUME NEW adm, NEW s
  PROVE  IsFiniteSet(Holders(adm, s)) /\ Cardinality(Holders(adm, s)) \in Nat
<1>1. Holders(adm, s) \in SUBSET Attempts  BY DEF Holders
<1>2. IsFiniteSet(Holders(adm, s))  BY <1>1, FS_Subset
<1> QED  BY <1>2, FS_CardinalityType

\* A row speaks only of the admissions with its own serial.
LEMMA OtherAdmissions ==
  ASSUME NEW b \in Bucket, NEW k \in Keys, NEW adm, NEW new, NEW m \in Nat, NEW n \in Nat,
         RowOK(b, k, adm, m), m <= n,
         b.serial # 0 => \A a \in Attempts : /\ adm[a].serial = b.serial <=> new[a].serial = b.serial
                                             /\ new[a].serial = b.serial => new[a].key = adm[a].key
  PROVE  RowOK(b, k, new, n)
<1>1. b.serial # 0 => Holders(new, b.serial) = Holders(adm, b.serial)  BY DEF Holders
<1>2. b.serial # 0 => b.pending = Cardinality(Holders(new, b.serial))  BY <1>1 DEF RowOK
<1>3. b.serial # 0 => \A a \in Attempts : new[a].serial = b.serial => new[a].key = k
  BY DEF RowOK
<1>4. b.serial <= n  BY DEF RowOK, Bucket
<1> QED  BY <1>2, <1>3, <1>4 DEF RowOK

\* An attempt ends.
Ended(a) == [admission EXCEPT ![a].serial = 0]

\* The buckets that did not admit it notice nothing, and its own has one less.
LEMMA EndedAdmissions ==
  ASSUME LimiterInv, NEW a \in Attempts, admission[a].serial # 0
  PROVE  /\ Admissions(Ended(a), serial)
         /\ \A t, k : k \in Keys /\ Books(t, admission, serial)
                      /\ t.b[k].serial # admission[a].serial
                      => RowOK(t.b[k], k, Ended(a), serial)
         /\ LET s == admission[a].serial
            IN  /\ Cardinality(Holders(admission, s)) > 0
                /\ Cardinality(Holders(Ended(a), s)) = Cardinality(Holders(admission, s)) - 1
<1>1. admission \in [Attempts -> [key : Keys, serial : Nat]]
  BY DEF LimiterInv, Admissions
<1>2. \A b \in Attempts : Ended(a)[b] = IF b = a THEN [admission[a] EXCEPT !.serial = 0]
                                         ELSE admission[b]
  BY <1>1 DEF Ended
<1>3. Ended(a)[a].serial = 0 /\ Ended(a)[a].key = admission[a].key  BY <1>1, <1>2
<1>4. \A b \in Attempts : b # a => Ended(a)[b] = admission[b]  BY <1>2
<1>5. Admissions(Ended(a), serial)
  <2>1. Ended(a) \in [Attempts -> [key : Keys, serial : Nat]]  BY <1>1 DEF Ended
  <2>2. serial \in Nat /\ \A b \in Attempts : admission[b].serial <= serial
    BY DEF LimiterInv, Admissions
  <2> QED  BY <1>3, <1>4, <2>1, <2>2 DEF Admissions
<1>6. ASSUME NEW t, NEW k \in Keys, Books(t, admission, serial),
             t.b[k].serial # admission[a].serial
      PROVE  RowOK(t.b[k], k, Ended(a), serial)
  <2>1. t.b[k] \in Bucket /\ RowOK(t.b[k], k, admission, serial)  BY <1>6 DEF Books, Sound
  <2>2. serial \in Nat /\ serial <= serial  BY DEF LimiterInv
  <2>3. ASSUME t.b[k].serial # 0, NEW b \in Attempts
        PROVE  /\ admission[b].serial = t.b[k].serial <=> Ended(a)[b].serial = t.b[k].serial
               /\ Ended(a)[b].serial = t.b[k].serial => Ended(a)[b].key = admission[b].key
    BY <1>3, <1>4, <1>6, <2>3
  <2> QED  BY <2>1, <2>2, <2>3, OtherAdmissions
<1> DEFINE s == admission[a].serial
<1>7. Holders(Ended(a), s) = Holders(admission, s) \ {a} /\ a \in Holders(admission, s)
  BY <1>3, <1>4 DEF Holders
<1>8. Cardinality(Holders(Ended(a), s)) = Cardinality(Holders(admission, s)) - 1
  <2>1. IsFiniteSet(Holders(admission, s))  BY HoldersFinite
  <2>2. Cardinality(Holders(admission, s) \ {a}) = Cardinality(Holders(admission, s)) - 1
    BY <1>7, <2>1, FS_RemoveElement
  <2> QED  BY <1>7, <2>2
<1>9. Cardinality(Holders(admission, s)) > 0
  <2>1. Cardinality(Holders(Ended(a), s)) \in Nat /\ Cardinality(Holders(admission, s)) \in Nat
    BY HoldersFinite
  <2> QED  BY <1>8, <2>1
<1> QED  BY <1>5, <1>6, <1>8, <1>9

\* Replacing the bucket of one key by a later state of itself, or by none.
LEMMA ReplaceRow ==
  ASSUME NEW t, NEW u, NEW k \in Keys, NEW adm, NEW new, NEW n \in Nat,
         Books(t, adm, n), Sound(u), Only(t, u, k),
         u.b[k].serial \in {0, t.b[k].serial}, RowOK(u.b[k], k, new, n),
         \A j \in Keys \ {k} : RowOK(t.b[j], j, new, n)
  PROVE  Books(u, new, n)
<1>1. \A j \in Keys : j # k => u.b[j] = t.b[j]  BY DEF Only
<1>2. \A j \in Keys : u.b[j].serial # 0 => u.b[j].serial = t.b[j].serial  BY <1>1
<1>3. Distinct(u)  BY <1>2 DEF Books, Distinct
<1>4. Live(u) \in SUBSET Live(t)  BY <1>2 DEF Live
<1>5. Cardinality(Live(u)) <= Cardinality(Live(t))  BY <1>4, LiveFinite, FS_Subset
<1>6. Cardinality(Live(u)) <= capacity  BY <1>5, LiveFinite DEF Books
<1>7. \A j \in Keys : RowOK(u.b[j], j, new, n)  BY <1>1
<1> QED  BY <1>3, <1>6, <1>7 DEF Books

\* Adding a bucket for a key that has none, when there is room.
LEMMA NewRow ==
  ASSUME NEW t, NEW u, NEW k \in Keys, NEW adm, NEW new, NEW n \in Nat,
         Books(t, adm, n), Cardinality(Live(t)) < capacity, t.b[k].serial = 0,
         Sound(u), Only(t, u, k), u.b[k].serial = n + 1, RowOK(u.b[k], k, new, n + 1),
         \A j \in Keys \ {k} : RowOK(t.b[j], j, new, n + 1)
  PROVE  Books(u, new, n + 1)
<1>1. \A j \in Keys : j # k => u.b[j] = t.b[j]  BY DEF Only
<1>2. \A j \in Keys : t.b[j].serial \in Nat /\ t.b[j].serial <= n
  BY DEF Books, Sound, Bucket, RowOK
<1>3. Distinct(u)
  <2> SUFFICES ASSUME NEW i \in Keys, NEW j \in Keys, u.b[i].serial = u.b[j].serial,
                      u.b[i].serial # 0
               PROVE  i = j
    BY DEF Distinct
  <2>1. \A m \in Keys : m # k => u.b[m].serial # n + 1  BY <1>1, <1>2
  <2>2. CASE i = k \/ j = k  BY <2>1, <2>2
  <2>3. CASE i # k /\ j # k  BY <1>1, <2>3 DEF Books, Distinct
  <2> QED  BY <2>2, <2>3
<1>4. Live(u) = Live(t) \cup {k} /\ k \notin Live(t)  BY <1>1 DEF Live
<1>5. Cardinality(Live(u)) = Cardinality(Live(t)) + 1  BY <1>4, LiveFinite, FS_AddElement
<1>6. Cardinality(Live(u)) <= capacity  BY <1>5, LiveFinite
<1>7. \A j \in Keys : RowOK(u.b[j], j, new, n + 1)  BY <1>1
<1> QED  BY <1>3, <1>6, <1>7 DEF Books

-----------------------------------------------------------------------------
(* The operations *)

\* Writing tables back.
LEMMA WriteBack ==
  ASSUME NEW t, SetTables(t), Books(t, admission', serial'), Admissions(admission', serial'),
         now' \in Nat, serial' \in Nat
  PROVE  LimiterInv'
<1> DEFINE u == Tables(buckets', evictable')
<1>1. u.b = t.b /\ u.e = t.e  BY DEF SetTables, Tables
<1> HIDE DEF u
<1>2. Books(u, admission', serial')  BY <1>1 DEF Books, Sound, Distinct, Live
<1>3. LimiterInv' <=> /\ now' \in Nat /\ serial' \in Nat
                      /\ Admissions(admission', serial')
                      /\ Books(u, admission', serial')
  BY DEF LimiterInv, Admissions, Books, Sound, Distinct, Live, RowOK, Holders, Tables, u
<1> QED  BY <1>2, <1>3

\* Success.
LEMMA SuccessStep ==
  ASSUME LimiterInv, NEW a \in Attempts, Success(a)
  PROVE  LimiterInv'
<1> DEFINE k == admission[a].key
           u == deleteBucket(Pruned, k)
<1>1. admission[a].serial # 0 /\ SetTables(u) /\ admission' = Ended(a) /\ serial' = serial /\ now' = now
  BY DEF Success, Done, Ended
<1>2. k \in Keys /\ serial \in Nat /\ now \in Nat  BY DEF LimiterInv, Admissions
<1>3. Books(Pruned, admission, serial)  BY PrunedBooks
<1> HIDE DEF u, k
<1>4. Sound(u) /\ Only(Pruned, u, k) /\ u.b[k] = NoBucket
  BY <1>2, <1>3, DeleteRow DEF Books, u
<1>5. u.b[k].serial = 0 /\ RowOK(u.b[k], k, Ended(a), serial)  BY <1>2, <1>4, NoBucketRow
<1>6. ASSUME NEW j \in Keys \ {k} PROVE RowOK(Pruned.b[j], j, Ended(a), serial)
  <2>1. RowOK(Pruned.b[j], j, admission, serial)  BY <1>3 DEF Books
  <2>2. Pruned.b[j].serial # admission[a].serial  BY <1>1, <2>1 DEF RowOK, k
  <2> QED  BY <1>1, <1>3, <2>2, EndedAdmissions
<1>7. Books(u, Ended(a), serial)  BY <1>2, <1>3, <1>4, <1>5, <1>6, ReplaceRow
<1>8. Admissions(Ended(a), serial)  BY <1>1, EndedAdmissions
<1> QED  BY <1>1, <1>2, <1>7, <1>8, WriteBack

\* An attempt whose bucket is gone ends: nobody counted it any more.
LEMMA LateRows ==
  ASSUME LimiterInv, NEW a \in Attempts, admission[a].serial # 0,
         Pruned.b[admission[a].key].serial # admission[a].serial
  PROVE  Books(Pruned, Ended(a), serial)
<1>1. Books(Pruned, admission, serial)  BY PrunedBooks
<1>2. ASSUME NEW j \in Keys PROVE RowOK(Pruned.b[j], j, Ended(a), serial)
  <2>1. RowOK(Pruned.b[j], j, admission, serial)  BY <1>1 DEF Books
  <2>2. Pruned.b[j].serial # admission[a].serial  BY <2>1 DEF RowOK
  <2> QED  BY <1>1, <2>2, EndedAdmissions
<1> QED  BY <1>1, <1>2 DEF Books

\* A cancelled attempt whose bucket is gone.
LEMMA LateCancelStep ==
  ASSUME LimiterInv, NEW a \in Attempts, LateCancel(a)
  PROVE  LimiterInv'
<1>1. admission[a].serial # 0 /\ SetTables(Pruned) /\ admission' = Ended(a)
      /\ serial' = serial /\ now' = now
  BY DEF LateCancel, Done, Ended
<1>2. serial \in Nat /\ now \in Nat  BY DEF LimiterInv
<1>3. Books(Pruned, Ended(a), serial)  BY LateRows DEF LateCancel
<1>4. Admissions(Ended(a), serial)  BY <1>1, EndedAdmissions
<1> QED  BY <1>1, <1>2, <1>3, <1>4, WriteBack

\* Failure or Cancel of an attempt whose bucket is still the current one.
LEMMA SettleStep ==
  ASSUME LimiterInv, NEW a \in Attempts, NEW failed \in BOOLEAN, Settle(a, failed)
  PROVE  LimiterInv'
<1> DEFINE k == admission[a].key
           o == Pruned.b[k]
           c == Settled(o, failed)
           t == Tables([Pruned.b EXCEPT ![k] = c], Pruned.e)
           u == IF c.pending # 0 THEN t
                ELSE IF c.failures = 0 THEN deleteBucket(t, k) ELSE addEvictable(t, k)
<1>1. /\ admission[a].serial # 0 /\ o.serial = admission[a].serial
      /\ SetTables(u) /\ admission' = Ended(a) /\ serial' = serial /\ now' = now
  BY DEF Settle, Done, Ended
<1>2. k \in Keys /\ serial \in Nat /\ now \in Nat  BY DEF LimiterInv, Admissions
<1>3. Books(Pruned, admission, serial)  BY PrunedBooks
<1>4. o \in Bucket /\ RowOK(o, k, admission, serial)  BY <1>2, <1>3 DEF Books, Sound
<1>5. /\ Cardinality(Holders(admission, o.serial)) > 0
      /\ Cardinality(Holders(Ended(a), o.serial)) = Cardinality(Holders(admission, o.serial)) - 1
  BY <1>1, EndedAdmissions
<1> HIDE DEF o, k
<1>6. /\ o.pending > 0 /\ ~o.listed /\ o.own <= o.failures /\ o.own + o.pending <= loginFailureLimit
      /\ o.serial # 0 /\ o.serial <= serial
      /\ o.pending - 1 = Cardinality(Holders(Ended(a), o.serial))
  BY <1>1, <1>4, <1>5 DEF RowOK
<1>7. /\ o.failures \in 0 .. loginFailureLimit /\ o.pending \in 0 .. loginFailureLimit
      /\ o.own \in Nat /\ o.serial \in Nat /\ o.expiresAt \in Nat
  BY <1>4 DEF Bucket, Counts
<1>8. /\ c.pending = o.pending - 1 /\ c.serial = o.serial /\ c.expiresAt = o.expiresAt
      /\ c.failures = (IF failed /\ o.failures < loginFailureLimit THEN o.failures + 1 ELSE o.failures)
      /\ c.own = (IF failed THEN o.own + 1 ELSE o.own)
      /\ ~c.listed
  BY <1>4, <1>6 DEF Settled, Bucket
<1>9. c \in Bucket
  <2> DEFINE x == IF o.pending > 0 THEN o.pending - 1 ELSE o.pending
             y == IF failed /\ o.failures < loginFailureLimit THEN o.failures + 1 ELSE o.failures
             z == IF failed THEN o.own + 1 ELSE o.own
  <2>1. x \in Counts /\ y \in Counts /\ z \in Nat  BY <1>6, <1>7 DEF Counts
  <2>2. c = [o EXCEPT !.pending = x, !.failures = y, !.own = z]  BY DEF Settled
  <2> HIDE DEF c, x, y, z
  <2> QED  BY <1>4, <2>1, <2>2 DEF Bucket
<1> HIDE DEF c
<1>10. c.own <= c.failures /\ c.own + c.pending <= loginFailureLimit
  BY <1>6, <1>7, <1>8
<1>11. \A b \in Attempts : Ended(a)[b].serial = o.serial => Ended(a)[b].key = k
  <2>1. \A b \in Attempts : admission[b].serial = o.serial => admission[b].key = k
    BY <1>4, <1>6 DEF RowOK
  <2>2. \A b \in Attempts : Ended(a)[b].serial # 0 => Ended(a)[b] = admission[b]
    BY DEF Ended, LimiterInv, Admissions
  <2> QED  BY <1>6, <2>1, <2>2
<1>12. Sound(t) /\ Only(Pruned, t, k) /\ t.b[k] = c
  BY <1>2, <1>3, <1>6, <1>8, <1>9, UpdateRow DEF Books, o
<1> HIDE DEF t
<1>13. Sound(u) /\ Only(Pruned, u, k) /\ u.b[k].serial \in {0, o.serial}
       /\ RowOK(u.b[k], k, Ended(a), serial)
  <2>1. CASE c.pending # 0
    <3>1. u = t  BY <2>1
    <3>2. RowOK(c, k, Ended(a), serial)  BY <1>6, <1>8, <1>10, <1>11, <2>1 DEF RowOK
    <3> QED  BY <1>8, <1>12, <3>1, <3>2
  <2>2. CASE c.pending = 0 /\ c.failures = 0
    <3>1. u = deleteBucket(t, k)  BY <2>2
    <3> HIDE DEF u
    <3>2. Sound(u) /\ Only(t, u, k) /\ u.b[k] = NoBucket  BY <1>2, <1>12, <3>1, DeleteRow
    <3>3. u.b[k].serial = 0 /\ RowOK(u.b[k], k, Ended(a), serial)  BY <1>2, <3>2, NoBucketRow
    <3> QED  BY <1>12, <3>2, <3>3 DEF Only
  <2>3. CASE c.pending = 0 /\ c.failures # 0
    <3>1. u = addEvictable(t, k)  BY <2>3
    <3> HIDE DEF u
    <3>2. Sound(u) /\ Only(t, u, k) /\ Same(c, u.b[k]) /\ u.b[k].listed
      BY <1>2, <1>12, <3>1, AddRow
    <3>3. RowOK(u.b[k], k, Ended(a), serial)
      BY <1>6, <1>8, <1>10, <1>11, <2>3, <3>2 DEF RowOK, Same
    <3> QED  BY <1>8, <1>12, <3>2, <3>3 DEF Only, Same
  <2> QED  BY <2>1, <2>2, <2>3
<1> HIDE DEF u
<1>14. ASSUME NEW j \in Keys \ {k} PROVE RowOK(Pruned.b[j], j, Ended(a), serial)
  <2>1. Pruned.b[j].serial # o.serial  BY <1>2, <1>3, <1>6 DEF Books, Distinct, o
  <2> QED  BY <1>1, <1>3, <2>1, EndedAdmissions
<1>15. Books(u, Ended(a), serial)  BY <1>2, <1>3, <1>13, <1>14, ReplaceRow DEF o
<1>16. Admissions(Ended(a), serial)  BY <1>1, EndedAdmissions
<1> QED  BY <1>1, <1>2, <1>15, <1>16, WriteBack

\* The failure of an attempt whose bucket is gone.
LEMMA LateFailureStep ==
  ASSUME LimiterInv, NEW a \in Attempts, LateFailure(a)
  PROVE  LimiterInv'
<1> DEFINE k == admission[a].key
           P == Pruned
<1>1. admission[a].serial # 0 /\ P.b[k].serial # admission[a].serial /\ admission' = Ended(a)
      /\ now' = now
  BY DEF LateFailure, Done, Ended
<1>2. k \in Keys /\ serial \in Nat /\ now \in Nat  BY DEF LimiterInv, Admissions
<1>3. Books(P, Ended(a), serial)  BY <1>1, LateRows
<1>4. Admissions(Ended(a), serial)  BY <1>1, EndedAdmissions
<1> HIDE DEF k, P
<1>5. CASE P.b[k].serial # 0 /\ SetTables(AddFailure(P, k)) /\ serial' = serial
  <2> DEFINE r == removeEvictable(P, k)
             o == r.b[k]
             c == [o EXCEPT !.failures = IF @ < loginFailureLimit THEN @ + 1 ELSE @]
             t == Tables([r.b EXCEPT ![k] = c], r.e)
             u == IF t.b[k].pending = 0 THEN addEvictable(t, k) ELSE t
  <2>1. Sound(r) /\ Only(P, r, k) /\ Same(P.b[k], o) /\ ~o.listed
    BY <1>2, <1>3, RemoveRow DEF Books
  <2>2. r.b \in [Keys -> Bucket] /\ o \in Bucket  BY <1>2, <2>1 DEF Sound
  <2>3. t = Tables([r.b EXCEPT ![k].failures = IF @ < loginFailureLimit THEN @ + 1 ELSE @], r.e)
    OBVIOUS
  <2>4. AddFailure(P, k) = u  BY <2>3 DEF AddFailure
  <2> HIDE DEF r, o
  <2>5. /\ o.failures \in 0 .. loginFailureLimit /\ o.pending \in 0 .. loginFailureLimit
        /\ o.own \in Nat /\ o.serial \in Nat
    BY <2>2 DEF Bucket, Counts
  <2>6. /\ c \in Bucket /\ ~c.listed /\ c.serial = o.serial /\ c.pending = o.pending
        /\ c.own = o.own /\ c.failures >= o.failures
    <3> DEFINE y == IF o.failures < loginFailureLimit THEN o.failures + 1 ELSE o.failures
    <3>1. y \in Counts /\ y >= o.failures  BY <2>5 DEF Counts
    <3>2. c = [o EXCEPT !.failures = y]  OBVIOUS
    <3> HIDE DEF c, y
    <3> QED  BY <2>1, <2>2, <3>1, <3>2 DEF Bucket
  <2>7. RowOK(P.b[k], k, Ended(a), serial)  BY <1>2, <1>3 DEF Books
  <2> HIDE DEF c
  <2>8. /\ c.own <= c.failures /\ c.own + c.pending <= loginFailureLimit
        /\ c.serial # 0 /\ c.serial <= serial /\ c.pending = Cardinality(Holders(Ended(a), c.serial))
        /\ \A b \in Attempts : Ended(a)[b].serial = c.serial => Ended(a)[b].key = k
    <3>1. c.failures \in Nat  BY <2>6 DEF Bucket, Counts
    <3> QED  BY <1>5, <2>1, <2>5, <2>6, <2>7, <3>1 DEF RowOK, Same
  <2>9. Sound(t) /\ Only(r, t, k) /\ t.b[k] = c  BY <1>2, <2>1, <2>6, UpdateRow DEF o
  <2> HIDE DEF t
  <2>10. Sound(u) /\ Only(t, u, k) /\ Same(c, u.b[k]) /\ (u.b[k].listed <=> c.pending = 0)
    <3>1. CASE c.pending = 0
      <4>1. u = addEvictable(t, k)  BY <2>9, <3>1
      <4> HIDE DEF u
      <4> QED  BY <1>2, <2>9, <3>1, <4>1, AddRow
    <3>2. CASE c.pending # 0
      <4>1. u = t  BY <2>9, <3>2
      <4> HIDE DEF u
      <4> QED  BY <2>6, <2>9, <3>2, <4>1 DEF Only, Same
    <3> QED  BY <3>1, <3>2
  <2> HIDE DEF u
  <2>11. Only(P, u, k)  BY <2>1, <2>9, <2>10 DEF Only
  <2>12. RowOK(u.b[k], k, Ended(a), serial)  BY <2>8, <2>10 DEF RowOK, Same
  <2>13. u.b[k].serial \in {0, P.b[k].serial}  BY <2>1, <2>6, <2>10 DEF Same
  <2>14. \A j \in Keys \ {k} : RowOK(P.b[j], j, Ended(a), serial)  BY <1>3 DEF Books
  <2>15. Books(u, Ended(a), serial)
    BY <1>2, <1>3, <2>10, <2>11, <2>12, <2>13, <2>14, ReplaceRow
  <2> QED  BY <1>1, <1>2, <1>4, <1>5, <2>4, <2>15, WriteBack
<1>6. ASSUME P.b[k].serial = 0, serial' = serial + 1, NEW r \in makeRoom(P),
             SetTables(addEvictable(Tables([r.b EXCEPT ![k] = NewBucket(1, 0)], r.e), k))
      PROVE  LimiterInv'
  <2> DEFINE c == NewBucket(1, 0)
             t == Tables([r.b EXCEPT ![k] = c], r.e)
             u == addEvictable(t, k)
  <2>1. /\ Books(r, Ended(a), serial) /\ Cardinality(Live(r)) < capacity
        /\ \A j \in Keys : r.b[j] = P.b[j] \/ r.b[j] = NoBucket
    BY <1>2, <1>3, RoomMade
  <2>2. r.b[k].serial = 0 /\ ~r.b[k].listed
    <3>1. RowOK(r.b[k], k, Ended(a), serial)  BY <1>2, <2>1 DEF Books
    <3>2. r.b[k].serial = 0  BY <1>2, <1>6, <2>1 DEF NoBucket
    <3> QED  BY <3>1, <3>2 DEF RowOK
  <2>3. /\ c \in Bucket /\ ~c.listed /\ c.serial = serial + 1 /\ c.pending = 0 /\ c.own = 0
        /\ c.failures = 1
    BY <1>2 DEF NewBucket, Bucket, Counts
  <2> HIDE DEF c
  <2>4. Sound(t) /\ Only(r, t, k) /\ t.b[k] = c
    BY <1>2, <2>1, <2>2, <2>3, UpdateRow DEF Books
  <2> HIDE DEF t
  <2>5. Sound(u) /\ Only(t, u, k) /\ Same(c, u.b[k]) /\ u.b[k].listed  BY <1>2, <2>4, AddRow
  <2>6. SetTables(u)  BY <1>6 DEF c, t
  <2> HIDE DEF u
  <2>7. Holders(Ended(a), serial + 1) = {}  BY <1>2, <1>4 DEF Holders, Admissions
  <2>8. Cardinality(Holders(Ended(a), serial + 1)) = 0  BY <2>7, FS_EmptySet
  <2>9. RowOK(u.b[k], k, Ended(a), serial + 1)
    <3>1. \A b \in Attempts : Ended(a)[b].serial # serial + 1  BY <2>7 DEF Holders
    <3> QED  BY <1>2, <2>3, <2>5, <2>8, <3>1 DEF RowOK, Same
  <2>10. ASSUME NEW j \in Keys \ {k} PROVE RowOK(r.b[j], j, Ended(a), serial + 1)
    <3>1. r.b[j] \in Bucket /\ RowOK(r.b[j], j, Ended(a), serial)  BY <2>1 DEF Books, Sound
    <3>2. serial + 1 \in Nat /\ serial <= serial + 1  BY <1>2
    <3> QED  BY <1>2, <3>1, <3>2, OtherAdmissions
  <2>11. Only(r, u, k) /\ u.b[k].serial = serial + 1  BY <2>3, <2>4, <2>5 DEF Only, Same
  <2>12. Books(u, Ended(a), serial + 1)
    BY <1>2, <2>1, <2>2, <2>5, <2>9, <2>10, <2>11, NewRow
  <2>13. Admissions(Ended(a), serial + 1)  BY <1>2, <1>4 DEF Admissions
  <2> QED  BY <1>1, <1>2, <1>6, <2>6, <2>12, <2>13, WriteBack
<1>7. CASE SetTables(P) /\ serial' = serial
  BY <1>1, <1>2, <1>3, <1>4, <1>7, WriteBack
<1> QED  BY <1>5, <1>6, <1>7 DEF LateFailure, k, P

\* An attempt is admitted.
Admitted(a, k, s) == [admission EXCEPT ![a] = [key |-> k, serial |-> s]]

\* The other buckets notice nothing, and its own has one more in flight.
LEMMA AdmittedRows ==
  ASSUME LimiterInv, NEW a \in Attempts, admission[a].serial = 0, NEW k \in Keys,
         NEW s \in Nat, s # 0, NEW n \in Nat, s <= n, serial <= n
  PROVE  /\ Admissions(Admitted(a, k, s), n)
         /\ \A t, j : j \in Keys /\ Books(t, admission, serial) /\ t.b[j].serial # s
                      => RowOK(t.b[j], j, Admitted(a, k, s), n)
         /\ Cardinality(Holders(Admitted(a, k, s), s)) = Cardinality(Holders(admission, s)) + 1
         /\ \A b \in Attempts : b # a => Admitted(a, k, s)[b] = admission[b]
         /\ Admitted(a, k, s)[a] = [key |-> k, serial |-> s]
<1> DEFINE new == Admitted(a, k, s)
<1>1. admission \in [Attempts -> [key : Keys, serial : Nat]]
      /\ serial \in Nat /\ \A b \in Attempts : admission[b].serial <= serial
  BY DEF LimiterInv, Admissions
<1>2. /\ \A b \in Attempts : b # a => new[b] = admission[b]
      /\ new[a] = [key |-> k, serial |-> s]
      /\ new \in [Attempts -> [key : Keys, serial : Nat]]
  BY <1>1 DEF Admitted
<1> HIDE DEF new
<1>3. Admissions(new, n)
  <2>1. ASSUME NEW b \in Attempts PROVE new[b].serial <= n
    <3>1. CASE b = a  BY <1>2, <3>1
    <3>2. CASE b # a  BY <1>1, <1>2, <3>2
    <3> QED  BY <3>1, <3>2
  <2> QED  BY <1>2, <2>1 DEF Admissions
<1>4. ASSUME NEW t, NEW j \in Keys, Books(t, admission, serial), t.b[j].serial # s
      PROVE  RowOK(t.b[j], j, new, n)
  <2>1. t.b[j] \in Bucket /\ RowOK(t.b[j], j, admission, serial)  BY <1>4 DEF Books, Sound
  <2>2. ASSUME t.b[j].serial # 0, NEW b \in Attempts
        PROVE  /\ admission[b].serial = t.b[j].serial <=> new[b].serial = t.b[j].serial
               /\ new[b].serial = t.b[j].serial => new[b].key = admission[b].key
    <3>1. CASE b = a  BY <1>2, <1>4, <2>2, <3>1
    <3>2. CASE b # a  BY <1>2, <3>2
    <3> QED  BY <3>1, <3>2
  <2> QED  BY <1>1, <2>1, <2>2, OtherAdmissions
<1>5. Holders(new, s) = Holders(admission, s) \cup {a} /\ a \notin Holders(admission, s)
  BY <1>2 DEF Holders
<1>6. Cardinality(Holders(new, s)) = Cardinality(Holders(admission, s)) + 1
  <2>1. IsFiniteSet(Holders(admission, s))  BY HoldersFinite
  <2>2. Cardinality(Holders(admission, s) \cup {a}) = Cardinality(Holders(admission, s)) + 1
    BY <1>5, <2>1, FS_AddElement
  <2> QED  BY <1>5, <2>2
<1> QED  BY <1>2, <1>3, <1>4, <1>6 DEF new

\* Admit on a key with a bucket.
LEMMA AdmitKnownStep ==
  ASSUME LimiterInv, NEW a \in Attempts, NEW k \in Keys, AdmitKnown(a, k)
  PROVE  LimiterInv'
<1> DEFINE P == Pruned
           p == P.b[k]
           r == removeEvictable(P, k)
           o == r.b[k]
           c == [o EXCEPT !.pending = @ + 1]
           u == Tables([r.b EXCEPT ![k] = c], r.e)
           new == Admitted(a, k, p.serial)
<1>1. /\ admission[a].serial = 0 /\ p.serial # 0 /\ MayAdmit(p)
      /\ SetTables(Tables([r.b EXCEPT ![k].pending = @ + 1], r.e))
      /\ admission' = new /\ serial' = serial /\ now' = now
  BY DEF AdmitKnown, Admitted
<1>2. serial \in Nat /\ now \in Nat  BY DEF LimiterInv
<1>3. Books(P, admission, serial)  BY PrunedBooks
<1>4. p \in Bucket /\ RowOK(p, k, admission, serial)  BY <1>3 DEF Books, Sound
<1>5. Sound(r) /\ Only(P, r, k) /\ Same(p, o) /\ ~o.listed  BY <1>3, RemoveRow DEF Books
<1>6. SetTables(u)  BY <1>1
<1>7. o \in Bucket  BY <1>5 DEF Sound
<1> HIDE DEF P, p, r, o
<1>8. /\ o.failures \in 0 .. loginFailureLimit /\ o.pending \in 0 .. loginFailureLimit
      /\ o.own \in Nat /\ o.serial \in Nat
  BY <1>7 DEF Bucket, Counts
<1>9. o.failures + o.pending < loginFailureLimit  BY <1>1, <1>5 DEF MayAdmit, Same
<1>10. /\ c \in Bucket /\ ~c.listed /\ c.serial = o.serial /\ c.pending = o.pending + 1
       /\ c.own = o.own /\ c.failures = o.failures
  <2>1. o.pending + 1 \in Counts  BY <1>8, <1>9 DEF Counts
  <2> QED  BY <1>5, <1>7, <2>1 DEF Bucket
<1> HIDE DEF c
<1>11. Sound(u) /\ Only(r, u, k) /\ u.b[k] = c  BY <1>5, <1>7, <1>10, UpdateRow DEF o
<1> HIDE DEF u
<1>12. p.serial \in Nat /\ p.serial <= serial  BY <1>4 DEF Bucket, RowOK
<1>13. /\ Admissions(new, serial)
       /\ \A j \in Keys : P.b[j].serial # p.serial => RowOK(P.b[j], j, new, serial)
       /\ Cardinality(Holders(new, p.serial)) = Cardinality(Holders(admission, p.serial)) + 1
       /\ \A b \in Attempts : b # a => new[b] = admission[b]
       /\ new[a] = [key |-> k, serial |-> p.serial]
  <2>1. serial <= serial  BY <1>2
  <2> QED  BY <1>1, <1>2, <1>3, <1>12, <2>1, AdmittedRows
<1> HIDE DEF new
<1>14. RowOK(c, k, new, serial)
  <2>1. c.own <= c.failures /\ c.own + c.pending <= loginFailureLimit
    BY <1>4, <1>5, <1>8, <1>9, <1>10 DEF RowOK, Same
  <2>2. c.serial # 0 /\ c.serial <= serial /\ c.serial = p.serial
    BY <1>1, <1>4, <1>5, <1>10 DEF RowOK, Same
  <2>3. c.pending = Cardinality(Holders(new, c.serial))
    BY <1>1, <1>4, <1>5, <1>10, <1>13, <2>2 DEF RowOK, Same
  <2>4. \A b \in Attempts : new[b].serial = c.serial => new[b].key = k
    BY <1>1, <1>4, <1>13, <2>2 DEF RowOK
  <2>5. c.pending # 0  BY <1>8, <1>10
  <2> QED  BY <1>10, <2>1, <2>2, <2>3, <2>4, <2>5 DEF RowOK
<1>15. ASSUME NEW j \in Keys \ {k} PROVE RowOK(P.b[j], j, new, serial)
  <2>1. P.b[j].serial # p.serial  BY <1>1, <1>3 DEF Books, Distinct, p
  <2> QED  BY <1>13, <2>1
<1>16. Only(P, u, k) /\ u.b[k].serial \in {0, P.b[k].serial} /\ RowOK(u.b[k], k, new, serial)
  BY <1>5, <1>10, <1>11, <1>14 DEF Only, Same, p
<1>17. Books(u, new, serial)  BY <1>2, <1>3, <1>11, <1>15, <1>16, ReplaceRow
<1> QED  BY <1>1, <1>2, <1>6, <1>13, <1>17, WriteBack

\* Admit on a new key.
LEMMA AdmitNewStep ==
  ASSUME LimiterInv, NEW a \in Attempts, NEW k \in Keys, AdmitNew(a, k)
  PROVE  LimiterInv'
<1> DEFINE P == Pruned
           c == NewBucket(0, 1)
           new == Admitted(a, k, serial + 1)
<1>1. /\ admission[a].serial = 0 /\ P.b[k].serial = 0
      /\ admission' = new /\ serial' = serial + 1 /\ now' = now
  BY DEF AdmitNew, Admitted
<1>2. PICK r \in makeRoom(P) : SetTables(Tables([r.b EXCEPT ![k] = c], r.e))  BY DEF AdmitNew
<1>3. serial \in Nat /\ now \in Nat  BY DEF LimiterInv
<1>4. Books(P, admission, serial)  BY PrunedBooks
<1> HIDE DEF P
<1>5. /\ Books(r, admission, serial) /\ Cardinality(Live(r)) < capacity
      /\ \A j \in Keys : r.b[j] = P.b[j] \/ r.b[j] = NoBucket
  BY <1>3, <1>4, RoomMade
<1>6. r.b[k].serial = 0 /\ ~r.b[k].listed
  <2>1. RowOK(r.b[k], k, admission, serial)  BY <1>5 DEF Books
  <2>2. r.b[k].serial = 0  BY <1>1, <1>5 DEF NoBucket
  <2> QED  BY <2>1, <2>2 DEF RowOK
<1>7. /\ c \in Bucket /\ ~c.listed /\ c.serial = serial + 1 /\ c.pending = 1 /\ c.own = 0
      /\ c.failures = 0
  BY <1>3 DEF NewBucket, Bucket, Counts
<1> DEFINE u == Tables([r.b EXCEPT ![k] = c], r.e)
<1> HIDE DEF c
<1>8. Sound(u) /\ Only(r, u, k) /\ u.b[k] = c  BY <1>5, <1>6, <1>7, UpdateRow DEF Books
<1>9. SetTables(u)  BY <1>2
<1> HIDE DEF u
<1>10. /\ Admissions(new, serial + 1)
       /\ \A j \in Keys : r.b[j].serial # serial + 1 => RowOK(r.b[j], j, new, serial + 1)
       /\ Cardinality(Holders(new, serial + 1)) = Cardinality(Holders(admission, serial + 1)) + 1
       /\ \A b \in Attempts : b # a => new[b] = admission[b]
       /\ new[a] = [key |-> k, serial |-> serial + 1]
  <2>1. serial + 1 \in Nat /\ serial + 1 # 0 /\ serial + 1 <= serial + 1 /\ serial <= serial + 1
    BY <1>3
  <2> QED  BY <1>1, <1>5, <2>1, AdmittedRows
<1> HIDE DEF new
<1>11. \A b \in Attempts : admission[b].serial \in Nat /\ admission[b].serial <= serial
  BY DEF LimiterInv, Admissions
<1>12. Cardinality(Holders(admission, serial + 1)) = 0
  <2>1. Holders(admission, serial + 1) = {}  BY <1>3, <1>11 DEF Holders
  <2> QED  BY <2>1, FS_EmptySet
<1>13. RowOK(c, k, new, serial + 1)
  <2>1. \A b \in Attempts : new[b].serial = serial + 1 => new[b].key = k
    BY <1>3, <1>10, <1>11
  <2> QED  BY <1>3, <1>7, <1>10, <1>12, <2>1 DEF RowOK
<1>14. ASSUME NEW j \in Keys \ {k} PROVE RowOK(r.b[j], j, new, serial + 1)
  <2>1. r.b[j] \in Bucket /\ RowOK(r.b[j], j, admission, serial)  BY <1>5 DEF Books, Sound
  <2>2. r.b[j].serial # serial + 1  BY <1>3, <2>1 DEF RowOK, Bucket
  <2> QED  BY <1>10, <2>2
<1>15. Books(u, new, serial + 1)
  BY <1>3, <1>5, <1>6, <1>7, <1>8, <1>13, <1>14, NewRow
<1> QED  BY <1>1, <1>3, <1>9, <1>10, <1>15, WriteBack

\* Every operation keeps the books.
LEMMA LimiterStep ==
  ASSUME LimiterInv, [Next]_vars
  PROVE  LimiterInv'
<1> DEFINE T == Tables(buckets, evictable)
<1>1. CASE UNCHANGED <<serial, buckets, evictable, admission>> /\ now' \in Nat
  <2>1. SetTables(T)  BY <1>1 DEF SetTables, Tables
  <2>2. Books(T, admission, serial)  BY DEF LimiterInv
  <2> HIDE DEF T
  <2>3. Books(T, admission', serial')  BY <1>1, <2>2
  <2>4. serial' \in Nat /\ Admissions(admission', serial')  BY <1>1 DEF LimiterInv
  <2> QED  BY <1>1, <2>1, <2>3, <2>4, WriteBack
<1>2. ASSUME NEW k \in Keys, Refuse(k) PROVE LimiterInv'
  <2>1. SetTables(Pruned) /\ UNCHANGED <<now, serial, admission>>  BY <1>2 DEF Refuse
  <2>2. Books(Pruned, admission, serial)  BY PrunedBooks
  <2>3. now' \in Nat /\ serial' \in Nat /\ Admissions(admission', serial')
    BY <2>1 DEF LimiterInv, Admissions
  <2>4. Books(Pruned, admission', serial')  BY <2>1, <2>2
  <2> QED  BY <2>1, <2>3, <2>4, WriteBack
<1>3. CASE Tick \/ UNCHANGED vars  BY <1>1, <1>3 DEF Tick, vars, LimiterInv
<1> QED
  BY <1>2, <1>3, AdmitKnownStep, AdmitNewStep, SuccessStep, LateFailureStep,
     LateCancelStep, SettleStep
  DEF Next

\* The books balance in every state.
LEMMA LimiterInvariant == Spec => []LimiterInv
<1>1. ASSUME Init PROVE LimiterInv
  <2> DEFINE t == Tables(buckets, evictable)
  <2>1. t.b = [k \in Keys |-> NoBucket] /\ t.e = [f \in Counts |-> {}]
    BY <1>1 DEF Init, Tables
  <2>2. Admissions(admission, serial)  BY <1>1 DEF Init, Admissions
  <2> HIDE DEF t
  <2>3. \A k \in Keys : t.b[k] = NoBucket  BY <2>1
  <2>4. t.b \in [Keys -> Bucket] /\ t.e \in [Counts -> SUBSET Keys]  BY <2>1, NoBucketOK
  <2>5. Sound(t)  BY <2>1, <2>3, <2>4 DEF Sound, NoBucket
  <2>6. Live(t) = {} /\ Distinct(t)  BY <2>3 DEF Live, Distinct, NoBucket
  <2>7. Cardinality(Live(t)) <= capacity  BY <2>6, FS_EmptySet
  <2>8. \A k \in Keys : RowOK(t.b[k], k, admission, 0)  BY <2>3, NoBucketRow
  <2>9. now = 0 /\ serial = 0  BY <1>1 DEF Init
  <2> QED  BY <2>2, <2>5, <2>6, <2>7, <2>8, <2>9 DEF LimiterInv, Books, t
<1> QED  BY <1>1, LimiterStep, PTL DEF Spec

\* The limiter's books balance after every admission, completion, expiry and
\* eviction: the number of buckets keeps within the capacity, the eviction
\* lists hold exactly the idle buckets, the pending counts are the admissions
\* in flight, and no bucket admits more than the permitted attempts.
THEOREM AccountsStayBalanced == Spec => []AccountsBalance
<1>1. ASSUME LimiterInv PROVE AccountsBalance
  <2> DEFINE t == Tables(buckets, evictable)
  <2>1. t.b = buckets /\ t.e = evictable  BY DEF Tables
  <2>2. Books(t, admission, serial)  BY <1>1 DEF LimiterInv
  <2> HIDE DEF t
  <2>3. TypeOK  BY <1>1, <2>1, <2>2 DEF LimiterInv, Admissions, Books, Sound, TypeOK
  <2>4. WithinCapacity  BY <2>2 DEF Books, WithinCapacity, t
  <2>5. \A k \in Keys : RowOK(buckets[k], k, admission, serial)  BY <2>1, <2>2 DEF Books
  <2>6. ListsExact  BY <2>1, <2>2, <2>5 DEF Books, Sound, RowOK, ListsExact
  <2>7. PendingAccounted  BY <2>5 DEF RowOK, Holders, PendingAccounted
  <2>8. AttemptsBounded  BY <2>5 DEF RowOK, AttemptsBounded
  <2> QED  BY <2>3, <2>4, <2>6, <2>7, <2>8 DEF AccountsBalance
<1> QED  BY <1>1, LimiterInvariant, PTL

-----------------------------------------------------------------------------
(* Eviction *)

\* What PendingNotEvicted says of one key and one step.
Spared(k) ==
  /\ buckets[k].pending > 0 /\ now < buckets[k].expiresAt
  /\ buckets'[k].serial # buckets[k].serial
  => \E a \in Attempts : /\ admission[a].key = k /\ admission[a].serial # 0
                         /\ admission'[a].serial = 0

\* Every step spares the buckets with attempts in flight.
LEMMA SparedStep ==
  ASSUME LimiterInv, [Next]_vars, NEW k \in Keys
  PROVE  Spared(k)
<1> DEFINE P == Pruned
           Kept == buckets'[k].serial = buckets[k].serial
<1> SUFFICES ASSUME buckets[k].pending > 0, now < buckets[k].expiresAt,
                    \A a \in Attempts : ~(/\ admission[a].key = k /\ admission[a].serial # 0
                                          /\ admission'[a].serial = 0)
             PROVE  Kept
  BY DEF Spared
<1>1. /\ Books(P, admission, serial) /\ P.b[k] = buckets[k]
  <2>1. Books(P, admission, serial) /\ (P.b[k] = buckets[k] \/ now >= buckets[k].expiresAt)
    BY PrunedBooks
  <2>2. now \in Nat /\ buckets[k].expiresAt \in Nat
    BY DEF LimiterInv, Books, Sound, Bucket, Tables
  <2> QED  BY <2>1, <2>2
<1>2. Sound(P) /\ serial \in Nat  BY <1>1 DEF Books, LimiterInv
<1>3. buckets[k].pending # 0 /\ buckets[k].serial # 0
  <2>1. P.b[k] \in Bucket /\ RowOK(P.b[k], k, admission, serial)  BY <1>1, <1>2 DEF Books, Sound
  <2>2. P.b[k].pending \in Nat  BY <2>1 DEF Bucket, Counts
  <2> QED  BY <1>1, <2>1, <2>2 DEF RowOK, NoBucket
<1>4. \A a \in Attempts : admission[a].serial # 0 /\ Done(a) => admission[a].key # k
  BY DEF Done, LimiterInv, Admissions
<1>5. \A a \in Attempts : admission[a].key \in Keys  BY DEF LimiterInv, Admissions
<1> HIDE DEF P
<1>6. ASSUME NEW r \in makeRoom(P) PROVE r.b[k] = buckets[k] /\ r.b \in [Keys -> Bucket]
  <2>1. /\ Books(r, admission, serial)
        /\ \A j \in Keys : r.b[j] = P.b[j] \/ (r.b[j] = NoBucket /\ P.b[j].pending = 0)
    BY <1>1, <1>2, RoomMade
  <2>2. r.b[k] = buckets[k]  BY <1>1, <1>3, <2>1
  <2> QED  BY <2>1, <2>2 DEF Books, Sound
<1>7. CASE UNCHANGED buckets  BY <1>7
<1>8. CASE SetTables(P)  BY <1>1, <1>8 DEF SetTables
<1>9. ASSUME NEW a \in Attempts, NEW j \in Keys, AdmitKnown(a, j) PROVE Kept
  <2> DEFINE r == removeEvictable(P, j)
  <2>1. buckets' = [r.b EXCEPT ![j].pending = @ + 1]
    BY <1>9 DEF AdmitKnown, SetTables, Tables, P
  <2>2. Sound(r) /\ Only(P, r, j) /\ Same(P.b[j], r.b[j])  BY <1>2, RemoveRow
  <2> HIDE DEF r
  <2>3. r.b[k].serial = P.b[k].serial  BY <2>2 DEF Only, Same
  <2>4. r.b \in [Keys -> Bucket]  BY <2>2 DEF Sound
  <2>5. buckets'[k].serial = r.b[k].serial  BY <2>1, <2>4 DEF Bucket
  <2> QED  BY <1>1, <2>3, <2>5
<1>10. ASSUME NEW a \in Attempts, NEW j \in Keys, AdmitNew(a, j) PROVE Kept
  <2>1. PICK r \in makeRoom(P) : buckets' = [r.b EXCEPT ![j] = NewBucket(0, 1)]
    BY <1>10 DEF AdmitNew, SetTables, Tables, P
  <2>2. j # k  BY <1>1, <1>3, <1>10 DEF AdmitNew, P
  <2> QED  BY <1>6, <2>1, <2>2
<1>11. ASSUME NEW a \in Attempts, Success(a) PROVE Kept
  <2> DEFINE u == deleteBucket(P, admission[a].key)
  <2>1. admission[a].key # k /\ buckets' = u.b  BY <1>4, <1>11 DEF Success, SetTables, P
  <2>2. Only(P, u, admission[a].key)  BY <1>2, <1>5, DeleteRow
  <2> HIDE DEF u
  <2> QED  BY <1>1, <2>1, <2>2 DEF Only
<1>12. ASSUME NEW a \in Attempts, NEW failed \in BOOLEAN, Settle(a, failed) PROVE Kept
  <2> DEFINE j == admission[a].key
             c == Settled(P.b[j], failed)
             t == Tables([P.b EXCEPT ![j] = c], P.e)
  <2>1. admission[a].serial # 0 /\ Done(a)  BY <1>12 DEF Settle
  <2>2. j # k /\ j \in Keys  BY <1>4, <1>5, <2>1
  <2>3. \/ buckets' = t.b \/ buckets' = deleteBucket(t, j).b \/ buckets' = addEvictable(t, j).b
    BY <1>12 DEF Settle, SetTables, P
  <2> HIDE DEF j, c
  <2>4. t.b[k] = P.b[k]  BY <1>2, <2>2 DEF Tables, Sound
  <2>5. deleteBucket(t, j).b[k] = t.b[k]  BY <1>2, <2>2 DEF deleteBucket, Tables, Sound
  <2>6. addEvictable(t, j).b[k] = t.b[k]  BY <1>2, <2>2 DEF addEvictable, Tables, Sound
  <2> QED  BY <1>1, <2>3, <2>4, <2>5, <2>6
<1>13. ASSUME NEW a \in Attempts, LateFailure(a) PROVE Kept
  <2> DEFINE j == admission[a].key
  <2>1. admission[a].serial # 0 /\ Done(a)  BY <1>13 DEF LateFailure
  <2>2. j # k /\ j \in Keys  BY <1>4, <1>5, <2>1
  <2>3. \/ buckets' = AddFailure(P, j).b
        \/ \E r \in makeRoom(P) :
             buckets' = addEvictable(Tables([r.b EXCEPT ![j] = NewBucket(1, 0)], r.e), j).b
        \/ buckets' = P.b
    BY <1>13 DEF LateFailure, SetTables, P
  <2> HIDE DEF j
  <2>4. CASE buckets' = AddFailure(P, j).b
    <3>1. AddFailure(P, j).b[k] = P.b[k]
      BY <1>2, <2>2 DEF AddFailure, removeEvictable, addEvictable, Tables, Sound
    <3> QED  BY <1>1, <2>4, <3>1
  <2>5. ASSUME NEW r \in makeRoom(P),
               buckets' = addEvictable(Tables([r.b EXCEPT ![j] = NewBucket(1, 0)], r.e), j).b
        PROVE  Kept
    <3>1. r.b[k] = buckets[k] /\ r.b \in [Keys -> Bucket]  BY <1>6
    <3>2. addEvictable(Tables([r.b EXCEPT ![j] = NewBucket(1, 0)], r.e), j).b[k] = r.b[k]
      BY <2>2, <3>1 DEF addEvictable, Tables
    <3> QED  BY <2>5, <3>1, <3>2
  <2>6. CASE buckets' = P.b  BY <1>1, <2>6
  <2> QED  BY <2>3, <2>4, <2>5, <2>6
<1> QED
  BY <1>7, <1>8, <1>9, <1>10, <1>11, <1>12, <1>13
  DEF Next, Tick, Refuse, LateCancel, vars, P

\* Eviction spares attempts in flight: an unexpired bucket with pending work
\* disappears only when an attempt for its key ends.
THEOREM PendingIsSpared == Spec => PendingNotEvicted
<1>1. LimiterInv /\ [Next]_vars => \A k \in Keys : Spared(k)  BY SparedStep
<1>2. LimiterInv /\ [Next]_vars =>
        [\A k \in Keys :
           /\ buckets[k].pending > 0 /\ now < buckets[k].expiresAt
           /\ buckets'[k].serial # buckets[k].serial
           => \E a \in Attempts : /\ admission[a].key = k /\ admission[a].serial # 0
                                  /\ admission'[a].serial = 0]_vars
  BY <1>1 DEF Spared
<1> QED  BY <1>2, LimiterInvariant, PTL DEF Spec, PendingNotEvicted
=============================================================================
