---------------------------- MODULE RateLimiter ----------------------------
(***************************************************************************)
(* The fixed-window rate limiter in front of /auth/register and            *)
(* /auth/login.  A request reads the clock first and takes the limiter's   *)
(* mutex afterwards, so requests may be counted in another order than that *)
(* of the times they were stamped with.  One life of the server process:   *)
(* the buckets live in its memory and are empty after a restart.           *)
(***************************************************************************)
EXTENDS Integers, FiniteSets

CONSTANTS Requests,    \* the requests of a behaviour, each sent once
          Keys,        \* client address and route
          Limit,       \* AUTH_RATE_LIMIT
          WindowSecs,  \* AUTH_RATE_WINDOW_SECONDS
          Cap,         \* buckets from which expired ones are removed (4096)
          MaxDelay,    \* assumption: longest wait between clock and mutex
          MaxTime      \* bound on the clock

ASSUME LimiterAssumption ==
  /\ IsFiniteSet(Requests)
  /\ Limit \in Int /\ WindowSecs \in Int
  /\ Cap \in Nat /\ MaxDelay \in Nat /\ MaxTime \in Nat

limit == IF Limit <= 0 THEN 10 ELSE Limit
window == IF WindowSecs <= 0 THEN 60 ELSE WindowSecs

VARIABLES clock,      \* time.Now()
          buckets,    \* for some keys, when its window started and its count
          key,        \* the key of a request
          now,        \* the time a request was stamped with
          pc,         \* "idle", "stamped", then "through" or "refused"
          handledAt,  \* history: when a request was counted
          lastStart   \* history: start of the latest window of a key

vars == <<clock, buckets, key, now, pc, handledAt, lastStart>>

Arrived == {r \in Requests : pc[r] # "idle"}
Waiting == {r \in Requests : pc[r] = "stamped"}
Through == {r \in Requests : pc[r] = "through"}

-----------------------------------------------------------------------------
(* Buckets, as a request stamped with time t finds them *)

(* Mutant: a window is over at half its length. *)
Expired_HalfWindow(bucket, t) == t - bucket.start >= window \div 2

Expired(bucket, t) == t - bucket.start >= window

(* Mutant: a full table is cleared, not pruned. *)
Kept_Cleared(t) == IF Cardinality(DOMAIN buckets) >= Cap THEN {} ELSE DOMAIN buckets

Kept(t) == IF Cardinality(DOMAIN buckets) >= Cap
           THEN {k \in DOMAIN buckets : ~Expired(buckets[k], t)}
           ELSE DOMAIN buckets

CurrentBucket(k, t) ==
  IF k \in Kept(t) /\ ~Expired(buckets[k], t) THEN buckets[k]
  ELSE [start |-> t, count |-> 0]

(* Mutant: the request that opens a window is not counted. *)
Counted_FirstFree(k, t) ==
  IF k \in Kept(t) /\ ~Expired(buckets[k], t)
  THEN [buckets[k] EXCEPT !.count = @ + 1] ELSE CurrentBucket(k, t)

Counted(k, t) == [CurrentBucket(k, t) EXCEPT !.count = @ + 1]

(* Mutant: the limit itself is refused already. *)
Exceeded_Early(bucket) == bucket.count >= limit

Exceeded(bucket) == bucket.count > limit

-----------------------------------------------------------------------------
(* Actions *)

Init ==
  /\ clock = 0
  /\ buckets = [k \in {} |-> [start |-> 0, count |-> 0]]
  /\ key \in [Requests -> Keys]
  /\ now = [r \in Requests |-> 0]
  /\ pc = [r \in Requests |-> "idle"]
  /\ handledAt = [r \in Requests |-> 0]
  /\ lastStart = [k \in Keys |-> -window]

(* The request arrives and reads the clock. *)
Stamp(r) ==
  /\ pc[r] = "idle"
  /\ now' = [now EXCEPT ![r] = clock]
  /\ pc' = [pc EXCEPT ![r] = "stamped"]
  /\ UNCHANGED <<clock, buckets, key, handledAt, lastStart>>

(* The section under the mutex, and the answer it decides. *)
Handle(r) ==
  LET k == key[r]
      b == Counted(k, now[r])
  IN /\ pc[r] = "stamped"
     /\ buckets' = [j \in Kept(now[r]) \cup {k} |-> IF j = k THEN b ELSE buckets[j]]
     /\ pc' = [pc EXCEPT ![r] = IF Exceeded(b) THEN "refused" ELSE "through"]
     /\ handledAt' = [handledAt EXCEPT ![r] = clock]
     /\ lastStart' = [lastStart EXCEPT ![k] = b.start]
     /\ UNCHANGED <<clock, key, now>>

Tick ==
  /\ clock < MaxTime
  /\ \A r \in Waiting : clock - now[r] < MaxDelay
  /\ clock' = clock + 1
  /\ UNCHANGED <<buckets, key, now, pc, handledAt, lastStart>>

Next == Tick \/ \E r \in Requests : Stamp(r) \/ Handle(r)

Spec == Init /\ [][Next]_vars

-----------------------------------------------------------------------------
(* Properties *)

(* Variables have their types; a bucket has counted the request it was     *)
(* opened for, and its window did not start in the future.                 *)
TypeOK ==
  /\ clock \in 0..MaxTime
  /\ DOMAIN buckets \subseteq Keys
  /\ \A k \in DOMAIN buckets :
       buckets[k] \in [start : 0..clock, count : Nat \ {0}]
  /\ key \in [Requests -> Keys]
  /\ now \in [Requests -> 0..clock]
  /\ pc \in [Requests -> {"idle", "stamped", "through", "refused"}]
  /\ handledAt \in [Requests -> 0..clock]
  /\ lastStart \in [Keys -> Int]

(* Requests of k that were let through at a time of S. *)
LetThrough(k, S) == {r \in Through : key[r] = k /\ handledAt[r] \in S}

(* A request is refused only when the window's whole quota has been used:  *)
(* as many requests of its key as the limit allows were let through less   *)
(* than a window before the time it was stamped with.  Neither requests    *)
(* counted out of order nor the removal of expired buckets refuse anyone   *)
(* else (b.count > limit, middleware_rate_limit.go).                       *)
RefusalsAreJust ==
  \A r \in Requests : pc[r] = "refused" =>
    Cardinality(LetThrough(key[r], now[r] - window + 1 .. clock)) >= limit

(* Over any stretch of time as long as the window, less the time requests  *)
(* may wait for the mutex, a key gets at most two quotas through: a window *)
(* is never reopened early, not even when its bucket was removed to make   *)
(* room and the next request carries an older stamp.                       *)
BurstIsBounded ==
  \A k \in Keys, t \in 0..clock :
    Cardinality(LetThrough(k, t .. t + window - MaxDelay - 1)) <= 2 * limit

(* A step opens a window for k. *)
Opens(k) ==
  /\ k \in DOMAIN buckets'
  /\ buckets'[k].count = 1
  /\ k \in DOMAIN buckets => buckets'[k] # buckets[k]

(* Windows of one key start a window's length apart, less the time a       *)
(* request may wait for the mutex.                                         *)
WindowsApart ==
  [][\A k \in Keys : Opens(k) =>
       buckets'[k].start - lastStart[k] >= window - MaxDelay]_vars
=============================================================================
