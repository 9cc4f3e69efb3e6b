-------------------------- MODULE RateLimiterProofs --------------------------
(***************************************************************************)
(* Proofs about RateLimiter for every limit, window, cap, delay and set of *)
(* requests and keys.                                                      *)
(***************************************************************************)
EXTENDS RateLimiter, FiniteSetTheorems, TLAPS

LEMMA Settings == limit \in Nat \ {0} /\ window \in Nat \ {0}
BY LimiterAssumption DEF limit, window

-----------------------------------------------------------------------------
(* Typing *)

(* The bucket a request is counted in is one it found or one it opens. *)
LEMMA BucketCounted ==
  ASSUME TypeOK, NEW k \in Keys, NEW t \in 0..clock
  PROVE  /\ Kept(t) \subseteq DOMAIN buckets
         /\ Counted(k, t) \in [start : 0..clock, count : Nat \ {0}]
         /\ \/ /\ k \in Kept(t) /\ ~Expired(buckets[k], t)
               /\ Counted(k, t).start = buckets[k].start
               /\ Counted(k, t).count = buckets[k].count + 1
            \/ /\ k \notin Kept(t) \/ Expired(buckets[k], t)
               /\ Counted(k, t) = [start |-> t, count |-> 1]
<1>1. Kept(t) \subseteq DOMAIN buckets
  BY DEF Kept
<1>2. CASE k \in Kept(t) /\ ~Expired(buckets[k], t)
  <2>1. buckets[k] \in [start : 0..clock, count : Nat \ {0}]
    BY <1>1, <1>2 DEF TypeOK
  <2> QED BY <1>1, <1>2, <2>1 DEF Counted, CurrentBucket
<1>3. CASE ~(k \in Kept(t) /\ ~Expired(buckets[k], t))
  BY <1>1, <1>3 DEF Counted, CurrentBucket, TypeOK
<1> QED BY <1>2, <1>3

(* What the section under the mutex does to the table of buckets. *)
LEMMA BucketsHandled ==
  ASSUME TypeOK, NEW r \in Requests, Handle(r)
  PROVE  /\ key[r] \in Keys /\ now[r] \in 0..clock
         /\ DOMAIN buckets' = Kept(now[r]) \cup {key[r]}
         /\ buckets'[key[r]] = Counted(key[r], now[r])
         /\ \A k \in Kept(now[r]) : k # key[r] => buckets'[k] = buckets[k]
BY DEF Handle, TypeOK

(* Variables have their types, which rests on the limiter never dating a   *)
(* window in the future.                                                   *)
THEOREM Typing == Spec => []TypeOK
<1>1. Init => TypeOK
  BY Settings, LimiterAssumption DEF Init, TypeOK
<1>2. ASSUME TypeOK, [Next]_vars
      PROVE  TypeOK'
  <2>1. CASE Tick
    <3>1. clock' = clock + 1 /\ clock' \in 0..MaxTime
      BY <1>2, <2>1, LimiterAssumption DEF Tick, TypeOK
    <3>2. 0..clock \subseteq 0..clock'
      BY <1>2, <3>1 DEF TypeOK
    <3> QED BY <1>2, <2>1, <3>1, <3>2 DEF Tick, TypeOK
  <2>2. ASSUME NEW r \in Requests, Stamp(r)
        PROVE  TypeOK'
    <3>1. clock \in 0..clock
      BY <1>2 DEF TypeOK
    <3> QED BY <1>2, <2>2, <3>1 DEF Stamp, TypeOK
  <2>3. ASSUME NEW r \in Requests, Handle(r)
        PROVE  TypeOK'
    <3>1. Counted(key[r], now[r]) \in [start : 0..clock, count : Nat \ {0}]
      BY <1>2, <2>3, BucketsHandled, BucketCounted
    <3>2. Kept(now[r]) \subseteq DOMAIN buckets
      BY DEF Kept
    <3>3. \A k \in DOMAIN buckets' :
            k \in Keys /\ buckets'[k] \in [start : 0..clock, count : Nat \ {0}]
      <4>1. /\ key[r] \in Keys /\ DOMAIN buckets' = Kept(now[r]) \cup {key[r]}
            /\ buckets'[key[r]] = Counted(key[r], now[r])
            /\ \A k \in Kept(now[r]) : k # key[r] => buckets'[k] = buckets[k]
        BY <1>2, <2>3, BucketsHandled
      <4> QED BY <1>2, <3>1, <3>2, <4>1 DEF TypeOK
    <3>4. clock \in 0..clock /\ Counted(key[r], now[r]).start \in Int
      BY <1>2, <3>1 DEF TypeOK
    <3>5. clock' = clock /\ key' = key /\ now' = now
      BY <2>3 DEF Handle
    <3>6. lastStart' \in [Keys -> Int]
      BY <1>2, <2>3, <3>4 DEF Handle, TypeOK
    <3>7. /\ pc' \in [Requests -> {"idle", "stamped", "through", "refused"}]
          /\ handledAt' \in [Requests -> 0..clock]
      BY <1>2, <2>3, <3>4 DEF Handle, TypeOK
    <3> QED BY <1>2, <3>3, <3>5, <3>6, <3>7 DEF TypeOK
  <2> QED
    BY <1>2, <2>1, <2>2, <2>3 DEF Next, vars, TypeOK
<1> QED BY <1>1, <1>2, PTL DEF Spec

-----------------------------------------------------------------------------
(* Windows *)

(* A bucket is missing only when its window is over; that is what lets the *)
(* next request open another one, whatever time it was stamped with.       *)
WindowInv ==
  /\ \A r \in Requests : pc[r] = "stamped" => clock - now[r] <= MaxDelay
  /\ \A k \in DOMAIN buckets : lastStart[k] = buckets[k].start
  /\ \A k \in Keys \ DOMAIN buckets : clock - lastStart[k] >= window

LEMMA WindowInit == Init => WindowInv
BY Settings DEF Init, WindowInv

LEMMA WindowStep ==
  ASSUME TypeOK, WindowInv, [Next]_vars
  PROVE  WindowInv'
<1>1. CASE Tick
  BY <1>1, Settings, LimiterAssumption DEF Tick, Waiting, WindowInv, TypeOK
<1>2. ASSUME NEW r \in Requests, Stamp(r)
      PROVE  WindowInv'
  BY <1>2, LimiterAssumption DEF Stamp, WindowInv, TypeOK
<1>3. ASSUME NEW r \in Requests, Handle(r)
      PROVE  WindowInv'
  <2>1. /\ lastStart' = [lastStart EXCEPT ![key[r]] = Counted(key[r], now[r]).start]
        /\ clock' = clock /\ now' = now
        /\ \A q \in Requests : pc'[q] = "stamped" => pc[q] = "stamped"
    BY <1>3 DEF Handle, TypeOK
  <2>2. \A k \in DOMAIN buckets' : lastStart'[k] = buckets'[k].start
    <3>1. /\ key[r] \in Keys /\ DOMAIN buckets' = Kept(now[r]) \cup {key[r]}
          /\ buckets'[key[r]] = Counted(key[r], now[r])
          /\ \A k \in Kept(now[r]) : k # key[r] => buckets'[k] = buckets[k]
      BY <1>3, BucketsHandled
    <3>2. Kept(now[r]) \subseteq DOMAIN buckets /\ DOMAIN buckets \subseteq Keys
      BY DEF Kept, TypeOK
    <3>3. lastStart'[key[r]] = buckets'[key[r]].start
      BY <2>1, <3>1 DEF TypeOK
    <3>4. ASSUME NEW k \in Kept(now[r]), k # key[r]
          PROVE  lastStart'[k] = buckets'[k].start
      BY <2>1, <3>1, <3>2, <3>4 DEF WindowInv, TypeOK
    <3> QED BY <3>1, <3>3, <3>4
  <2>3. ASSUME NEW k \in Keys \ DOMAIN buckets'
        PROVE  clock - lastStart'[k] >= window
    <3>1. k # key[r] /\ k \notin Kept(now[r]) /\ lastStart'[k] = lastStart[k]
      BY <1>3, <2>1, <2>3, BucketsHandled DEF TypeOK
    <3>2. CASE k \in DOMAIN buckets
      <4>1. now[r] - buckets[k].start >= window
        BY <3>1, <3>2 DEF Kept, Expired
      <4>2. now[r] \in 0..clock /\ buckets[k].start \in 0..clock /\ clock \in Int
        BY <3>2 DEF TypeOK
      <4> QED BY <3>1, <3>2, <4>1, <4>2, Settings DEF WindowInv
    <3> QED BY <2>3, <3>1, <3>2 DEF WindowInv
  <2> QED BY <2>1, <2>2, <2>3 DEF WindowInv
<1> QED BY <1>1, <1>2, <1>3 DEF Next, vars, WindowInv

LEMMA WindowOpened ==
  ASSUME TypeOK, WindowInv, [Next]_vars, NEW k \in Keys, Opens(k)
  PROVE  buckets'[k].start - lastStart[k] >= window - MaxDelay
<1>1. buckets' # buckets
  BY DEF Opens
<1>2. PICK r \in Requests : Handle(r)
  BY <1>1 DEF Next, Tick, Stamp, vars
<1>3. k = key[r]
  BY <1>2, BucketsHandled DEF Opens, Kept
<1>4. /\ k \notin Kept(now[r]) \/ Expired(buckets[k], now[r])
      /\ buckets'[k].start = now[r]
  <2>1. \A n \in Nat \ {0} : n + 1 # 1
    OBVIOUS
  <2>2. CASE k \in Kept(now[r]) /\ ~Expired(buckets[k], now[r])
    <3>1. k \in DOMAIN buckets /\ buckets[k].count \in Nat \ {0}
      BY <2>2 DEF Kept, TypeOK
    <3>2. buckets'[k].count = buckets[k].count + 1
      BY <1>2, <1>3, <2>2, BucketsHandled, BucketCounted
    <3> QED BY <2>1, <3>1, <3>2 DEF Opens
  <2>3. CASE ~(k \in Kept(now[r]) /\ ~Expired(buckets[k], now[r]))
    <3>1. now[r] \in 0..clock /\ buckets'[k] = Counted(k, now[r])
      BY <1>2, <1>3, BucketsHandled
    <3>2. Counted(k, now[r]) = [start |-> now[r], count |-> 1]
      BY <2>3, <3>1, BucketCounted
    <3> QED BY <2>3, <3>1, <3>2
  <2> QED BY <2>2, <2>3
<1>5. now[r] \in 0..clock /\ clock - now[r] <= MaxDelay /\ lastStart[k] \in Int
  BY <1>2 DEF Handle, WindowInv, TypeOK
<1>6. CASE k \in DOMAIN buckets
  <2>1. now[r] - buckets[k].start >= window
    BY <1>4, <1>6 DEF Kept, Expired
  <2>2. buckets[k].start = lastStart[k]
    BY <1>6 DEF WindowInv
  <2> QED BY <1>4, <1>5, <2>1, <2>2, Settings, LimiterAssumption
<1>7. CASE k \notin DOMAIN buckets
  <2>1. clock - lastStart[k] >= window /\ clock \in Int
    BY <1>7 DEF WindowInv, TypeOK
  <2> QED BY <1>4, <1>5, <2>1, Settings, LimiterAssumption
<1> QED BY <1>6, <1>7

(* However many buckets the limiter removes and in whatever order stamped  *)
(* requests get the mutex, a key's windows start at least a window's       *)
(* length, less the longest wait, apart.                                   *)
THEOREM SpacedWindows == Spec => WindowsApart
<1>1. TypeOK /\ WindowInv /\ [Next]_vars
        => [\A k \in Keys : Opens(k) =>
              buckets'[k].start - lastStart[k] >= window - MaxDelay]_vars
  BY WindowOpened
<1> QED
  BY <1>1, WindowInit, WindowStep, Typing, PTL DEF Spec, WindowsApart

-----------------------------------------------------------------------------
(* Quotas *)

AtLeast(k, from, n) == Cardinality(LetThrough(k, from .. clock)) >= n

(* A bucket's count is backed by requests let through since its start, up  *)
(* to the limit.                                                           *)
QuotaInv ==
  \A k \in DOMAIN buckets :
    \/ AtLeast(k, buckets[k].start, buckets[k].count)
    \/ AtLeast(k, buckets[k].start, limit)

LEMMA SmallerSet ==
  ASSUME NEW S, NEW T, S \subseteq T, IsFiniteSet(T)
  PROVE  Cardinality(S) <= Cardinality(T)
BY FS_Subset

LEMMA LetThroughFinite ==
  ASSUME NEW k, NEW S
  PROVE  IsFiniteSet(LetThrough(k, S)) /\ Cardinality(LetThrough(k, S)) \in Nat
<1>1. LetThrough(k, S) \subseteq Requests
  BY DEF LetThrough, Through
<1> QED BY <1>1, FS_Subset, FS_CardinalityType, LimiterAssumption

(* Who was let through stays let through. *)
LEMMA LetThroughGrows ==
  ASSUME TypeOK, [Next]_vars, NEW k, NEW from \in Int
  PROVE  LetThrough(k, from .. clock) \subseteq LetThrough(k, from .. clock)'
<1> SUFFICES ASSUME NEW q \in Requests, pc[q] = "through", key[q] = k,
                    handledAt[q] \in from .. clock
             PROVE  pc'[q] = "through" /\ key'[q] = k /\ handledAt'[q] \in from .. clock'
  BY DEF LetThrough, Through
<1>1. CASE Tick
  BY <1>1 DEF Tick, TypeOK
<1>2. ASSUME NEW r \in Requests, Stamp(r)
      PROVE  pc'[q] = "through" /\ key'[q] = k /\ handledAt'[q] \in from .. clock'
  BY <1>2 DEF Stamp, TypeOK
<1>3. ASSUME NEW r \in Requests, Handle(r)
      PROVE  pc'[q] = "through" /\ key'[q] = k /\ handledAt'[q] \in from .. clock'
  BY <1>3 DEF Handle, TypeOK
<1> QED BY <1>1, <1>2, <1>3 DEF Next, vars

LEMMA AtLeastGrows ==
  ASSUME TypeOK, [Next]_vars, NEW k, NEW from \in Int, NEW n \in Int, AtLeast(k, from, n)
  PROVE  AtLeast(k, from, n)'
<1>1. IsFiniteSet(LetThrough(k, from .. clock)')
  <2>1. LetThrough(k, from .. clock)' \subseteq Requests
    BY DEF LetThrough, Through
  <2> QED BY <2>1, FS_Subset, LimiterAssumption
<1>2. Cardinality(LetThrough(k, from .. clock)') \in Nat
  BY <1>1, FS_CardinalityType
<1>3. Cardinality(LetThrough(k, from .. clock)) <= Cardinality(LetThrough(k, from .. clock)')
  BY <1>1, LetThroughGrows, SmallerSet
<1>4. Cardinality(LetThrough(k, from .. clock)) \in Nat
  BY LetThroughFinite
<1> QED BY <1>2, <1>3, <1>4 DEF AtLeast

(* A request that is let through adds one to its key's quota. *)
LEMMA OneMoreThrough ==
  ASSUME TypeOK, NEW r \in Requests, Handle(r), pc'[r] = "through",
         NEW k, k = key[r], NEW from \in Int, from <= clock,
         NEW n \in Int, AtLeast(k, from, n)
  PROVE  AtLeast(k, from, n + 1)'
<1> DEFINE S == LetThrough(k, from .. clock)
           T == {q \in Requests : pc'[q] = "through" /\ key[q] = k
                                    /\ handledAt'[q] \in from .. clock}
<1>1. T = S \cup {r} /\ r \notin S
  BY DEF Handle, LetThrough, Through, TypeOK
<1>2. IsFiniteSet(S) /\ Cardinality(S) \in Nat /\ Cardinality(S) >= n
  BY LetThroughFinite DEF AtLeast
<1>3. Cardinality(T) = Cardinality(S) + 1
  BY <1>1, <1>2, FS_AddElement
<1>4. LetThrough(k, from .. clock)' = T
  BY DEF Handle, LetThrough, Through
<1>5. Cardinality(T) >= n + 1
  BY <1>2, <1>3
<1> QED BY <1>4, <1>5 DEF AtLeast

LEMMA QuotaStep ==
  ASSUME TypeOK, QuotaInv, [Next]_vars
  PROVE  QuotaInv'
<1> SUFFICES ASSUME NEW k, NEW s, NEW n,
                    k \in DOMAIN buckets', buckets'[k].start = s, buckets'[k].count = n
             PROVE  AtLeast(k, s, n)' \/ AtLeast(k, s, limit)'
  BY DEF QuotaInv, AtLeast
<1>1. CASE k \in DOMAIN buckets /\ buckets'[k] = buckets[k]
  <2>1. s \in Int /\ n \in Int /\ limit \in Int
    BY <1>1, Settings DEF TypeOK
  <2>2. AtLeast(k, s, n) \/ AtLeast(k, s, limit)
    BY <1>1 DEF QuotaInv
  <2> QED BY <2>1, <2>2, AtLeastGrows
<1>2. CASE ~(k \in DOMAIN buckets /\ buckets'[k] = buckets[k])
  <2>1. PICK r \in Requests : Handle(r)
    BY <1>2 DEF Next, Tick, Stamp, vars
  <2>2. k = key[r] /\ k \in Keys /\ now[r] \in 0..clock
    BY <1>2, <2>1, BucketsHandled DEF Kept
  <2>3. buckets'[k] = Counted(k, now[r])
    BY <2>1, <2>2, BucketsHandled
  <2>4. s \in 0..clock /\ n \in Nat \ {0} /\ clock \in Int /\ limit \in Nat \ {0}
    BY <2>2, <2>3, BucketCounted, Settings DEF TypeOK
  <2>5. AtLeast(k, s, n - 1) \/ AtLeast(k, s, limit)
    <3>1. CASE k \in Kept(now[r]) /\ ~Expired(buckets[k], now[r])
      <4>1. k \in DOMAIN buckets /\ s = buckets[k].start /\ n = buckets[k].count + 1
        BY <2>2, <2>3, <3>1, BucketCounted DEF Kept
      <4>2. buckets[k].count = n - 1
        BY <4>1 DEF TypeOK
      <4> QED BY <4>1, <4>2 DEF QuotaInv
    <3>2. CASE ~(k \in Kept(now[r]) /\ ~Expired(buckets[k], now[r]))
      <4>1. n = 1
        BY <2>2, <2>3, <3>2, BucketCounted
      <4>2. Cardinality(LetThrough(k, s .. clock)) \in Nat
        BY LetThroughFinite
      <4> QED BY <4>1, <4>2 DEF AtLeast
    <3> QED BY <3>1, <3>2
  <2>6. CASE pc'[r] = "through"
    <3>1. CASE AtLeast(k, s, n - 1)
      <4>1. AtLeast(k, s, (n - 1) + 1)'
        BY <2>1, <2>2, <2>4, <2>6, <3>1, OneMoreThrough
      <4> QED BY <2>4, <4>1
    <3>2. CASE AtLeast(k, s, limit)
      BY <2>4, <3>2, AtLeastGrows
    <3> QED BY <2>5, <3>1, <3>2
  <2>7. CASE pc'[r] # "through"
    <3>1. n > limit
      BY <2>1, <2>2, <2>3, <2>7 DEF Handle, Exceeded, TypeOK
    <3>2. AtLeast(k, s, n - 1) => AtLeast(k, s, limit)
      <4>1. Cardinality(LetThrough(k, s .. clock)) \in Nat
        BY LetThroughFinite
      <4> QED BY <2>4, <3>1, <4>1 DEF AtLeast
    <3> QED BY <2>4, <2>5, <3>2, AtLeastGrows
  <2> QED BY <2>6, <2>7
<1> QED BY <1>1, <1>2

(* Every refusal is backed by a full quota; the quota of the bucket that   *)
(* refused the request is one that started after its time less a window.   *)
LEMMA JustStep ==
  ASSUME TypeOK, TypeOK', QuotaInv', RefusalsAreJust, [Next]_vars
  PROVE  RefusalsAreJust'
<1> SUFFICES ASSUME NEW q \in Requests, NEW k, NEW from,
                    pc'[q] = "refused", key'[q] = k, now'[q] - window + 1 = from
             PROVE  AtLeast(k, from, limit)'
  BY DEF RefusalsAreJust, AtLeast
<1>1. now'[q] \in Int /\ from \in Int /\ limit \in Int /\ window \in Int
  BY Settings DEF TypeOK
<1>2. CASE pc[q] = "refused"
  <2>1. key'[q] = key[q] /\ now'[q] = now[q]
    BY <1>2 DEF Next, Tick, Stamp, Handle, vars, TypeOK
  <2>2. AtLeast(k, from, limit)
    BY <1>2, <2>1 DEF RefusalsAreJust, AtLeast
  <2> QED BY <1>1, <2>2, AtLeastGrows
<1>3. CASE pc[q] # "refused"
  <2>1. Handle(q)
    <3>1. pc'[q] # pc[q]
      BY <1>3
    <3>2. PICK r \in Requests : Stamp(r) \/ Handle(r)
      BY <3>1 DEF Next, Tick, vars
    <3>3. r = q
      BY <3>1, <3>2 DEF Stamp, Handle, TypeOK
    <3>4. ~Stamp(q)
      BY DEF Stamp, TypeOK
    <3> QED BY <3>2, <3>3, <3>4
  <2>2. k = key[q] /\ k \in Keys /\ now[q] \in 0..clock /\ now'[q] = now[q]
    BY <2>1, BucketsHandled DEF Handle
  <2>3. buckets'[k] = Counted(k, now[q]) /\ k \in DOMAIN buckets'
    BY <2>1, <2>2, BucketsHandled
  <2>4. Exceeded(buckets'[k])
    BY <2>1, <2>2, <2>3 DEF Handle, TypeOK
  <2>5. k \in Kept(now[q]) /\ ~Expired(buckets[k], now[q])
    <3>1. CASE ~(k \in Kept(now[q]) /\ ~Expired(buckets[k], now[q]))
      BY <2>2, <2>3, <2>4, <3>1, BucketCounted, Settings DEF Exceeded
    <3> QED BY <3>1
  <2>6. PICK s \in Int, n \in Int : s = buckets'[k].start /\ n = buckets'[k].count
    BY <2>3 DEF TypeOK
  <2>7. s >= from /\ n > limit
    <3>1. Counted(k, now[q]).start = buckets[k].start
      BY <2>2, <2>5, BucketCounted
    <3>2. buckets[k].start = s /\ now[q] - s < window
      BY <1>1, <2>2, <2>3, <2>5, <2>6, <3>1 DEF Expired
    <3> QED BY <1>1, <2>2, <2>4, <2>6, <3>2 DEF Exceeded
  <2>8. AtLeast(k, s, n)' \/ AtLeast(k, s, limit)'
    BY <2>3, <2>6 DEF QuotaInv, AtLeast
  <2>9. /\ Cardinality(LetThrough(k, s .. clock)') \in Nat
        /\ Cardinality(LetThrough(k, from .. clock)') \in Nat
        /\ Cardinality(LetThrough(k, s .. clock)')
             <= Cardinality(LetThrough(k, from .. clock)')
    <3>1. /\ LetThrough(k, s .. clock)' \subseteq LetThrough(k, from .. clock)'
          /\ LetThrough(k, from .. clock)' \subseteq Requests
      BY <1>1, <2>6, <2>7 DEF LetThrough, Through, TypeOK
    <3>2. /\ IsFiniteSet(LetThrough(k, from .. clock)')
          /\ IsFiniteSet(LetThrough(k, s .. clock)')
      BY <3>1, FS_Subset, LimiterAssumption
    <3> QED BY <3>1, <3>2, SmallerSet, FS_CardinalityType
  <2> QED BY <1>1, <2>6, <2>7, <2>8, <2>9 DEF AtLeast
<1> QED BY <1>2, <1>3

(* No request is refused unless its key used up a full quota within the    *)
(* last window, for every limit, window and cap and however long requests  *)
(* wait for the mutex.                                                     *)
THEOREM JustRefusals == Spec => []RefusalsAreJust
<1>1. Init => QuotaInv /\ RefusalsAreJust
  BY DEF Init, QuotaInv, RefusalsAreJust
<1> QED BY <1>1, QuotaStep, JustStep, Typing, PTL DEF Spec

-----------------------------------------------------------------------------
(* Bursts *)

Of(k) == {r \in Through : key[r] = k}
Older(k, latest, t) == {q \in Of(k) \ latest : handledAt[q] >= t}

(* The requests let through so far are those of the latest window, opened  *)
(* at h, and those before.  A stretch that reaches h or later touches at   *)
(* most one quota of the latter.                                           *)
Split(k, h, latest) ==
  /\ latest \subseteq Of(k) /\ Cardinality(latest) <= limit
  /\ k \in DOMAIN buckets => Cardinality(latest) <= buckets[k].count
  /\ h <= clock /\ h <= lastStart[k] + MaxDelay
  /\ \A q \in Of(k) \ latest : handledAt[q] <= h
  /\ \A t \in Int : t > h - window + MaxDelay
                      => Cardinality(Older(k, latest, t)) <= limit

SplitInv == \A k \in Keys : \E h \in Int, latest \in SUBSET Requests : Split(k, h, latest)

Bounded ==
  \A k \in Keys, t \in Int :
    Cardinality(LetThrough(k, t .. t + window - MaxDelay - 1)) <= 2 * limit

LEMMA SomeRequests ==
  ASSUME NEW S, S \subseteq Requests
  PROVE  IsFiniteSet(S) /\ Cardinality(S) \in Nat
BY FS_Subset, FS_CardinalityType, LimiterAssumption

LEMMA FewerRequests ==
  ASSUME NEW S, NEW T, S \subseteq T, T \subseteq Requests
  PROVE  Cardinality(S) <= Cardinality(T)
BY SomeRequests, SmallerSet

LEMMA OfHandled ==
  ASSUME TypeOK, NEW r \in Requests, Handle(r)
  PROVE  /\ \A k : r \notin Of(k)
         /\ \A k : k # key[r] \/ pc'[r] # "through" => Of(k)' = Of(k)
         /\ pc'[r] = "through" => Of(key[r])' = Of(key[r]) \cup {r}
         /\ \A q \in Requests : q # r => handledAt'[q] = handledAt[q]
         /\ handledAt'[r] = clock /\ clock' = clock
<1>1. /\ pc[r] = "stamped" /\ key' = key /\ clock' = clock
      /\ \A q \in Requests : q # r => pc'[q] = pc[q] /\ handledAt'[q] = handledAt[q]
      /\ handledAt'[r] = clock
  BY DEF Handle, TypeOK
<1>2. \A k : r \notin Of(k)
  BY <1>1 DEF Of, Through
<1>3. ASSUME NEW k, k # key[r] \/ pc'[r] # "through"
      PROVE  Of(k)' = Of(k)
  BY <1>1, <1>3 DEF Of, Through
<1>4. ASSUME pc'[r] = "through"
      PROVE  Of(key[r])' = Of(key[r]) \cup {r}
  BY <1>1, <1>4 DEF Of, Through
<1> QED BY <1>1, <1>2, <1>3, <1>4

LEMMA SplitInit == Init => SplitInv /\ Bounded
<1> SUFFICES ASSUME Init PROVE SplitInv /\ Bounded
  OBVIOUS
<1>1. Cardinality({}) = 0 /\ limit \in Nat \ {0} /\ window \in Nat \ {0} /\ MaxDelay \in Nat
  BY FS_EmptySet, Settings, LimiterAssumption
<1>2. \A k : Of(k) = {}
  BY DEF Init, Of, Through
<1>3. ASSUME NEW k \in Keys
      PROVE  Split(k, -window, {})
  <2>1. \A t : Older(k, {}, t) = {}
    BY <1>2 DEF Older
  <2>2. k \notin DOMAIN buckets /\ clock = 0 /\ lastStart[k] = -window
    BY DEF Init
  <2> QED BY <1>1, <1>2, <2>1, <2>2 DEF Split
<1>4. SplitInv
  BY <1>1, <1>3 DEF SplitInv
<1>5. ASSUME NEW k \in Keys, NEW t \in Int
      PROVE  Cardinality(LetThrough(k, t .. t + window - MaxDelay - 1)) <= 2 * limit
  <2>1. LetThrough(k, t .. t + window - MaxDelay - 1) = {}
    BY DEF Init, LetThrough, Through
  <2>2. 0 <= 2 * limit
    BY <1>1
  <2> QED BY <1>1, <2>1, <2>2
<1> QED BY <1>4, <1>5 DEF Bounded

(* Nothing happens to the requests of k; its bucket may be removed. *)
LEMMA SplitKept ==
  ASSUME TypeOK, NEW k \in Keys, NEW h \in Int, NEW latest \in SUBSET Requests,
         Split(k, h, latest), Of(k)' = Of(k),
         \A q \in Of(k) : handledAt'[q] = handledAt[q],
         lastStart'[k] = lastStart[k], clock' \in Int, clock' >= clock,
         k \in DOMAIN buckets'
           => k \in DOMAIN buckets /\ buckets'[k].count \in Int
                /\ buckets'[k].count >= buckets[k].count
  PROVE  Split(k, h, latest)'
<1>1. \A t \in Int : Older(k, latest, t)' = Older(k, latest, t)
  BY DEF Older
<1>2. Cardinality(latest) \in Nat
  BY SomeRequests
<1>3. h <= clock' /\ (k \in DOMAIN buckets => buckets[k].count \in Int)
  BY DEF Split, TypeOK
<1> QED BY <1>1, <1>2, <1>3 DEF Split, TypeOK

LEMMA SplitHandled ==
  ASSUME TypeOK, TypeOK', WindowInv, NEW r \in Requests, Handle(r),
         NEW k \in Keys, k = key[r], NEW h \in Int, NEW latest \in SUBSET Requests,
         Split(k, h, latest)
  PROVE  \E g \in Int, next \in SUBSET Requests : Split(k, g, next)'
<1>1. /\ limit \in Nat \ {0} /\ window \in Nat \ {0} /\ MaxDelay \in Nat
      /\ clock \in Nat /\ clock' = clock /\ Cardinality(latest) \in Nat
      /\ lastStart[k] \in Int /\ now[r] \in 0..clock
  BY Settings, LimiterAssumption, SomeRequests DEF TypeOK, Handle
<1>2. /\ buckets'[k] = Counted(k, now[r]) /\ k \in DOMAIN buckets'
      /\ lastStart'[k] = buckets'[k].start
      /\ pc'[r] = IF buckets'[k].count > limit THEN "refused" ELSE "through"
  BY BucketsHandled DEF Handle, Exceeded, TypeOK
<1>3. /\ r \notin Of(k)
      /\ Of(k)' = IF pc'[r] = "through" THEN Of(k) \cup {r} ELSE Of(k)
      /\ \A q \in Of(k) : handledAt'[q] = handledAt[q]
      /\ Of(k) \subseteq Requests
  BY OfHandled DEF Of, Through
<1>4. CASE k \in Kept(now[r]) /\ ~Expired(buckets[k], now[r])
  <2>1. /\ k \in DOMAIN buckets /\ buckets[k].count \in Nat
        /\ buckets'[k].start = buckets[k].start /\ buckets'[k].count = buckets[k].count + 1
        /\ lastStart[k] = buckets[k].start
    BY <1>1, <1>2, <1>4, BucketCounted DEF Kept, TypeOK, WindowInv
  <2>2. CASE pc'[r] # "through"
    <3>1. Split(k, h, latest)'
      BY <1>1, <1>2, <1>3, <2>1, <2>2, SplitKept
    <3> QED BY <3>1
  <2>3. CASE pc'[r] = "through"
    <3>1. Cardinality(latest \cup {r}) = Cardinality(latest) + 1
      BY <1>3, SomeRequests, FS_AddElement DEF Split
    <3>2. /\ Cardinality(latest) + 1 <= buckets'[k].count
          /\ buckets'[k].count <= limit
      BY <1>1, <1>2, <2>1, <2>3 DEF Split
    <3>3. Of(k)' \ (latest \cup {r}) = Of(k) \ latest
      BY <1>3, <2>3 DEF Split
    <3>4. \A t \in Int : Older(k, latest \cup {r}, t)' = Older(k, latest, t)
      BY <1>3, <3>3 DEF Older
    <3>5. PICK next \in SUBSET Requests : next = latest \cup {r}
      OBVIOUS
    <3>6. /\ next \subseteq Of(k)' /\ Cardinality(next) <= limit
          /\ Cardinality(next) <= buckets'[k].count
      BY <1>1, <1>3, <2>1, <2>3, <3>1, <3>2, <3>5 DEF Split
    <3>7. h <= clock' /\ h <= lastStart'[k] + MaxDelay
      BY <1>1, <1>2, <2>1 DEF Split
    <3>8. \A q \in Of(k)' \ next : handledAt'[q] <= h
      BY <1>3, <3>3, <3>5 DEF Split
    <3>9. \A t \in Int : t > h - window + MaxDelay => Cardinality(Older(k, next, t)') <= limit
      BY <3>4, <3>5 DEF Split
    <3>10. Split(k, h, next)'
      BY <3>6, <3>7, <3>8, <3>9 DEF Split
    <3> QED BY <3>10
  <2> QED BY <2>2, <2>3
<1>5. CASE ~(k \in Kept(now[r]) /\ ~Expired(buckets[k], now[r]))
  <2>1. buckets'[k] = [start |-> now[r], count |-> 1] /\ pc'[r] = "through"
    BY <1>1, <1>2, <1>5, BucketCounted
  <2>2. clock - lastStart[k] >= window
    <3>1. CASE k \in DOMAIN buckets
      <4>1. now[r] - buckets[k].start >= window /\ buckets[k].start \in Int
        BY <1>5, <3>1 DEF Kept, Expired, TypeOK
      <4> QED BY <1>1, <3>1, <4>1 DEF WindowInv
    <3>2. CASE k \notin DOMAIN buckets
      BY <3>2 DEF WindowInv
    <3> QED BY <3>1, <3>2
  <2>3. PICK g \in Int : g = clock
    BY <1>1
  <2>4. g <= clock' /\ g <= lastStart'[k] + MaxDelay
    BY <1>1, <1>2, <2>1, <2>3 DEF WindowInv, Handle
  <2>5. Cardinality({r}) = 1 /\ {r} \subseteq Of(k)' /\ Of(k)' \ {r} = Of(k)
    BY <1>3, <2>1, FS_Singleton
  <2>6. \A q \in Of(k) : handledAt'[q] <= g
    BY <1>1, <1>3, <2>3 DEF TypeOK
  <2>7. ASSUME NEW t \in Int, t > g - window + MaxDelay
        PROVE  Cardinality(Older(k, {r}, t)') <= limit
    <3>1. Older(k, {r}, t)' \subseteq latest
      <4>1. t > h
        BY <1>1, <2>2, <2>3, <2>7 DEF Split
      <4>2. \A q \in Of(k) \ latest : handledAt[q] <= h /\ handledAt[q] \in Int
        BY <1>3 DEF Split, TypeOK
      <4> QED BY <1>3, <2>5, <4>1, <4>2 DEF Older
    <3>2. Cardinality(Older(k, {r}, t)') <= Cardinality(latest)
          /\ Cardinality(Older(k, {r}, t)') \in Nat
      BY <3>1, FewerRequests, SomeRequests
    <3> QED BY <1>1, <3>2 DEF Split
  <2>8. PICK next \in SUBSET Requests : next = {r}
    OBVIOUS
  <2>9. /\ next \subseteq Of(k)' /\ Cardinality(next) <= limit
        /\ Cardinality(next) <= buckets'[k].count
    BY <1>1, <2>1, <2>5, <2>8
  <2>10. \A q \in Of(k)' \ next : handledAt'[q] <= g
    BY <2>5, <2>6, <2>8
  <2>11. \A t \in Int : t > g - window + MaxDelay => Cardinality(Older(k, next, t)') <= limit
    BY <2>7, <2>8
  <2>12. Split(k, g, next)'
    BY <2>4, <2>9, <2>10, <2>11 DEF Split
  <2> QED BY <2>12
<1> QED BY <1>4, <1>5

LEMMA SplitStep ==
  ASSUME TypeOK, TypeOK', WindowInv, SplitInv, [Next]_vars
  PROVE  SplitInv'
<1> SUFFICES ASSUME NEW k \in Keys
             PROVE  \E g \in Int, next \in SUBSET Requests : Split(k, g, next)'
  BY DEF SplitInv
<1>1. PICK h \in Int, latest \in SUBSET Requests : Split(k, h, latest)
  BY DEF SplitInv
<1>2. clock \in Int /\ clock' \in Int /\ \A j \in DOMAIN buckets : buckets[j].count \in Int
  BY DEF TypeOK
<1>3. CASE Tick \/ UNCHANGED vars \/ \E r \in Requests : Stamp(r)
  <2>1. UNCHANGED <<buckets, key, handledAt, lastStart>> /\ clock' >= clock
        /\ \A q \in Requests : pc'[q] = "through" <=> pc[q] = "through"
    BY <1>2, <1>3 DEF Tick, Stamp, vars, TypeOK
  <2>2. /\ Of(k)' = Of(k) /\ lastStart'[k] = lastStart[k]
        /\ \A q \in Of(k) : handledAt'[q] = handledAt[q]
    BY <2>1 DEF Of, Through
  <2>3. k \in DOMAIN buckets'
          => k \in DOMAIN buckets /\ buckets'[k].count \in Int
               /\ buckets'[k].count >= buckets[k].count
    BY <1>2, <2>1
  <2>4. clock' \in Int /\ clock' >= clock
    BY <1>2, <2>1
  <2> QED BY <1>1, <2>2, <2>3, <2>4, SplitKept
<1>4. ASSUME NEW r \in Requests, Handle(r), key[r] # k
      PROVE  Split(k, h, latest)'
  <2>1. /\ k \in DOMAIN buckets' => k \in DOMAIN buckets /\ buckets'[k] = buckets[k]
        /\ lastStart'[k] = lastStart[k]
    BY <1>4, BucketsHandled DEF Kept, Handle, TypeOK
  <2>2. Of(k)' = Of(k) /\ (\A q \in Of(k) : handledAt'[q] = handledAt[q]) /\ clock' >= clock
    BY <1>2, <1>4, OfHandled DEF Of, Through
  <2>3. k \in DOMAIN buckets'
          => k \in DOMAIN buckets /\ buckets'[k].count \in Int
               /\ buckets'[k].count >= buckets[k].count
    BY <1>2, <2>1
  <2>4. clock' \in Int
    BY <1>2
  <2> QED BY <1>1, <2>1, <2>2, <2>3, <2>4, SplitKept
<1> QED
  BY <1>1, <1>3, <1>4, SplitHandled DEF Next

LEMMA BurstStep ==
  ASSUME TypeOK, TypeOK', SplitInv', Bounded, [Next]_vars
  PROVE  Bounded'
<1> SUFFICES ASSUME NEW k \in Keys, NEW t \in Int, NEW u \in Int,
                    u = t + window - MaxDelay - 1
             PROVE  Cardinality(LetThrough(k, t .. u)') <= 2 * limit
  BY Settings, LimiterAssumption DEF Bounded
<1>1. /\ limit \in Nat \ {0} /\ window \in Nat \ {0} /\ MaxDelay \in Nat
      /\ clock \in Nat
  BY Settings, LimiterAssumption DEF TypeOK
<1>2. CASE LetThrough(k, t .. u)' = LetThrough(k, t .. u)
  BY <1>2 DEF Bounded
<1>3. CASE LetThrough(k, t .. u)' # LetThrough(k, t .. u)
  <2>1. PICK r \in Requests : Handle(r)
    BY <1>3 DEF Next, Tick, Stamp, vars, LetThrough, Through, TypeOK
  <2>2. clock \in t .. u /\ clock' = clock
    BY <1>3, <2>1 DEF Handle, LetThrough, Through, TypeOK
  <2>3. PICK h \in Int, latest \in SUBSET Requests : Split(k, h, latest)'
    BY DEF SplitInv
  <2>4. t > h - window + MaxDelay
    BY <1>1, <2>2, <2>3 DEF Split
  <2> DEFINE before == Older(k, latest, t)'
  <2>5. Cardinality(before) <= limit /\ Cardinality(latest) <= limit
    BY <2>3, <2>4 DEF Split
  <2>6. before \subseteq Requests /\ latest \subseteq Requests
    BY DEF Older, Of, Through
  <2>7. LetThrough(k, t .. u)' \subseteq before \cup latest
    BY DEF LetThrough, Older, Of, Through, TypeOK
  <2> HIDE DEF before
  <2>8. Cardinality(before \cup latest)
          = Cardinality(before) + Cardinality(latest) - Cardinality(before \cap latest)
    BY <2>6, SomeRequests, FS_Union
  <2>9. /\ Cardinality(before) \in Nat /\ Cardinality(latest) \in Nat
        /\ Cardinality(before \cap latest) \in Nat
        /\ Cardinality(before \cup latest) \in Nat
    BY <2>6, SomeRequests
  <2>10. /\ Cardinality(LetThrough(k, t .. u)') <= Cardinality(before \cup latest)
         /\ Cardinality(LetThrough(k, t .. u)') \in Nat
    BY <2>6, <2>7, FewerRequests, SomeRequests
  <2> QED BY <1>1, <2>5, <2>8, <2>9, <2>10
<1> QED BY <1>2, <1>3

(* Over any stretch as long as the window less the longest wait for the    *)
(* mutex a key gets at most two quotas through, whatever buckets the       *)
(* limiter removes and in whatever order requests get the mutex.           *)
THEOREM BoundedBursts == Spec => []BurstIsBounded
<1>1. TypeOK /\ Bounded => BurstIsBounded
  BY DEF TypeOK, Bounded, BurstIsBounded
<1> QED
  BY <1>1, SplitInit, WindowInit, WindowStep, SplitStep, BurstStep, Typing, PTL DEF Spec
=============================================================================
