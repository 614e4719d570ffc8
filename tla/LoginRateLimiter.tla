-------------------------- MODULE LoginRateLimiter --------------------------
(***************************************************************************)
(* The limiter of login attempts (auth/rate_limit.py) and the route that   *)
(* uses it (login in auth/router.py).  An attempt reserves a place in      *)
(* three buckets, those of its (user, address) pair, its user and its      *)
(* address, before the password is looked at, and is settled afterwards;   *)
(* the three buckets share one event.  Logins run in threads of their own; *)
(* every operation of the limiter holds its lock.                          *)
(*                                                                         *)
(* A deque is in the order of its sequence numbers, so that a bucket is a  *)
(* set of them and an untracked key has the empty set.  The indexed heap   *)
(* is the map from key to time it maintains; 0 says that the key is absent.*)
(***************************************************************************)
EXTENDS Naturals, Sequences, FiniteSets

CONSTANTS
  Names, Ips,     \* normalised names and client addresses
  PairLimit, UserLimit, IpLimit,
  Window,         \* window_seconds
  Ticks,          \* steps of the clock in a second
  MaxKeys,        \* max_tracked_keys
  MaxAttempts,    \* bound: attempts that are let in
  MaxTime         \* bound: ticks

ASSUME LimiterAssumption ==
  /\ PairLimit \in Nat \ {0} /\ UserLimit \in Nat \ {0} /\ IpLimit \in Nat \ {0}
  /\ Window \in Nat \ {0} /\ Ticks \in Nat \ {0}
  /\ MaxKeys \in Nat /\ MaxKeys >= 3
  /\ MaxAttempts \in Nat /\ MaxTime \in Nat

VARIABLES
  now,      \* time.monotonic()
  attempt,  \* every attempt let in, by sequence number: its event and lease
  bucket,   \* _buckets: the events of each key
  expiry    \* _expirations: when the last event of a key expires

limiterVars == <<now, attempt, bucket, expiry>>

PairKey(u, i) == [scope |-> "pair", user |-> u, ip |-> i]
UserKey(u)    == [scope |-> "username", user |-> u]
IpKey(i)      == [scope |-> "ip", ip |-> i]
KeysOf(u, i)  == {PairKey(u, i), UserKey(u), IpKey(i)}
Keys == UNION {KeysOf(u, i) : u \in Names, i \in Ips}

Limit(k) == CASE k.scope = "pair"     -> PairLimit
              [] k.scope = "username" -> UserLimit
              [] k.scope = "ip"       -> IpLimit

(* "pending" and "failed" are the states of the shared event; the others   *)
(* are those of a lease that is settled: by a success, by cancel, or when  *)
(* its event had gone from all three buckets.                              *)
AttemptState == {"pending", "failed", "succeeded", "cancelled", "late"}

LimiterInit ==
  /\ now = 0
  /\ attempt = <<>>
  /\ bucket = [k \in Keys |-> {}]
  /\ expiry = [k \in Keys |-> 0]

-----------------------------------------------------------------------------
ExpiresAt(s)   == attempt[s].at + Window * Ticks
Live(S, t)     == {s \in S : ExpiresAt(s) > t}
Earliest(S)       == CHOOSE s \in S : \A x \in S : s <= x
Latest(S)        == CHOOSE s \in S : \A x \in S : x <= s
KeysOfAttempt(s) == KeysOf(attempt[s].user, attempt[s].ip)
Tracked(b)     == {k \in Keys : b[k] # {}}

(* _expire_due: keys whose last event has expired go; _current_events:     *)
(* the expired events of the keys looked at go, and the key with them if   *)
(* none is left.                                                           *)
Scanned(K, t) ==
  [k \in Keys |-> IF expiry[k] <= t THEN {}
                  ELSE IF k \in K THEN Live(bucket[k], t) ELSE bucket[k]]
Kept(b) == [k \in Keys |-> IF b[k] = {} THEN 0 ELSE expiry[k]]

Scan(K) ==
  /\ bucket' = Scanned(K, now)
  /\ expiry' = Kept(Scanned(K, now))

(* Mutant of Filter: the heap is not told when the last event is taken.     *)
FilterKeepsExpiry(gone) ==
  LET kept == [k \in Keys |-> IF k \in DOMAIN gone THEN bucket[k] \ gone[k] ELSE bucket[k]]
  IN  bucket' = kept /\ expiry' = Kept(kept)

(* _filter_bucket on some keys: gone[k] leaves, the heap is told the time  *)
(* of the last event that stays.                                           *)
Filter(gone) ==
  /\ bucket' = [k \in Keys |-> IF k \in DOMAIN gone THEN bucket[k] \ gone[k] ELSE bucket[k]]
  /\ expiry' = [k \in Keys |->
       CASE k \notin DOMAIN gone \/ bucket[k] = {} -> expiry[k]
         [] k \in DOMAIN gone /\ bucket[k] # {} /\ bucket[k] \subseteq gone[k] -> 0
         [] OTHER -> ExpiresAt(Latest(bucket[k] \ gone[k]))]

-----------------------------------------------------------------------------
(* _retry_after_for, in seconds and 0 if the attempt may be made at t, for *)
(* buckets b that have been scanned.                                       *)
(* Mutants of CeilSeconds, Full and Untracked: a part of a second is cut   *)
(* off; only failures use up a budget; keys about to be added do not count. *)
FloorSeconds(d)      == d \div Ticks
FullOfFailures(b, K) == {k \in K : Cardinality({s \in b[k] : attempt[s].state = "failed"}) >= Limit(k)}
UntrackedIgnored(b, K) == {}

CeilSeconds(d) == (d + Ticks - 1) \div Ticks
Full(b, K)     == {k \in K : b[k] # {} /\ Cardinality(b[k]) >= Limit(k)}
Untracked(b, K)  == {k \in K : b[k] = {}}
Waits(b, K, t) ==
  {CeilSeconds(ExpiresAt(Earliest(b[k])) - t) : k \in Full(b, K)}
    \cup (IF Full(b, K) # {} THEN {1} ELSE {})
    \cup (IF Cardinality(Tracked(b)) + Cardinality(Untracked(b, K)) > MaxKeys
          THEN {Window} ELSE {})
RetryAfter(b, K, t) == Latest({0} \cup Waits(b, K, t))

(* begin_attempt.  The reservation appends to the three buckets; it raises *)
(* if one of them is full or the table is, which BudgetsHold excludes.     *)
Reserve(u, i) ==
  LET s == Len(attempt) + 1
      K == KeysOf(u, i)
      b == Scanned(K, now)
  IN  /\ attempt' = Append(attempt, [user |-> u, ip |-> i, at |-> now, state |-> "pending"])
      /\ bucket' = [k \in Keys |-> IF k \in K THEN b[k] \cup {s} ELSE b[k]]
      /\ expiry' = [k \in Keys |-> IF k \in K THEN now + Window * Ticks ELSE Kept(b)[k]]

BeginAttempt(u, i) ==
  /\ RetryAfter(Scanned(KeysOf(u, i), now), KeysOf(u, i), now) = 0
  /\ Len(attempt) < MaxAttempts
  /\ Reserve(u, i)
  /\ UNCHANGED now

(* A refusal (429) only removes what has expired.                          *)
Blocked(u, i) ==
  /\ RetryAfter(Scanned(KeysOf(u, i), now), KeysOf(u, i), now) > 0
  /\ Scan(KeysOf(u, i))
  /\ UNCHANGED <<now, attempt>>

-----------------------------------------------------------------------------
(* The route settles its lease once.  _find_lease_event looks for the      *)
(* event in the three buckets.                                             *)
Found(s) == \E k \in KeysOfAttempt(s) : s \in bucket[k]
Settle(s, state) == attempt' = [attempt EXCEPT ![s].state = state]

FinalizeFailure(s) ==
  /\ attempt[s].state = "pending"
  /\ Settle(s, IF Found(s) THEN "failed" ELSE "late")
  /\ UNCHANGED <<now, bucket, expiry>>

(* Mutant of ClearedBySuccess: it also takes logins that are still open.   *)
ClearedWithPending(s) == 1..s

(* What a success takes from its pair's and its user's buckets: its own    *)
(* event and the failures that began before it.                            *)
ClearedBySuccess(s) == {s} \cup {e \in 1..s : attempt[e].state = "failed"}

FinalizeSuccess(s) ==
  /\ attempt[s].state = "pending"
  /\ Found(s)
  /\ Filter([k \in KeysOfAttempt(s) |->
              IF k.scope = "ip" THEN {s} ELSE ClearedBySuccess(s)])
  /\ Settle(s, "succeeded")
  /\ UNCHANGED now

(* The password check raised: the attempt is not counted.                  *)
Cancel(s) ==
  /\ attempt[s].state = "pending"
  /\ Found(s)
  /\ Filter([k \in KeysOfAttempt(s) |-> {s}])
  /\ Settle(s, "cancelled")
  /\ UNCHANGED now

(* finalize_success and cancel of an event that is no longer there.        *)
SettleLate(s) ==
  /\ attempt[s].state = "pending"
  /\ ~Found(s)
  /\ Settle(s, "late")
  /\ UNCHANGED <<now, bucket, expiry>>

Tick ==
  /\ now < MaxTime
  /\ now' = now + 1
  /\ UNCHANGED <<attempt, bucket, expiry>>

LimiterNext ==
  \/ \E u \in Names, i \in Ips : BeginAttempt(u, i) \/ Blocked(u, i)
  \/ \E s \in DOMAIN attempt :
       FinalizeFailure(s) \/ FinalizeSuccess(s) \/ Cancel(s) \/ SettleLate(s)
  \/ Tick

LimiterSpec == LimiterInit /\ [][LimiterNext]_limiterVars

-----------------------------------------------------------------------------
(* The types of the variables.                                             *)
LimiterTypeOK ==
  /\ now \in Nat
  /\ attempt \in Seq([user : Names, ip : Ips, at : Nat, state : AttemptState])
  /\ bucket \in [Keys -> SUBSET (DOMAIN attempt)]
  /\ expiry \in [Keys -> Nat]

(* The checks made before a reservation are enough for it: no bucket ever  *)
(* holds more events than its limit and no more keys are tracked than      *)
(* allowed, so that _append_event never raises in the midst of the three   *)
(* appends (rate_limit.py:328-339).                                        *)
BudgetsHold ==
  /\ \A k \in Keys : Cardinality(bucket[k]) <= Limit(k)
  /\ Cardinality(Tracked(bucket)) <= MaxKeys

(* The heap and the table speak of the same keys, and a key is due exactly *)
(* when the last of its events is, although buckets are purged from the    *)
(* front, filtered in the middle and dropped (rate_limit.py:305-381).      *)
HeapMatchesBuckets ==
  \A k \in Keys :
    expiry[k] = IF bucket[k] = {} THEN 0 ELSE ExpiresAt(Latest(bucket[k]))

(* No attempt is forgotten within its window: one that is undecided or has *)
(* failed is in its address's bucket, and in its user's and its pair's     *)
(* unless it had failed when a later attempt of the user, or of the pair,  *)
(* succeeded.  Overlapping logins, cancellations, successes from other     *)
(* addresses and purges of some of the three buckets leave it alone        *)
(* (rate_limit.py:193-221, 341-377).                                       *)
Counts(s) == attempt[s].state \in {"pending", "failed"} /\ ExpiresAt(s) > now
Overtakes(x, s) == x > s /\ attempt[x].state = "succeeded" /\ attempt[s].state = "failed"

EveryGuessIsCounted ==
  \A s \in DOMAIN attempt : Counts(s) =>
    LET u == attempt[s].user
        i == attempt[s].ip
    IN  /\ s \in bucket[IpKey(i)]
        /\ \/ s \in bucket[UserKey(u)]
           \/ \E x \in DOMAIN attempt : Overtakes(x, s) /\ attempt[x].user = u
        /\ \/ s \in bucket[PairKey(u, i)]
           \/ \E x \in DOMAIN attempt :
                Overtakes(x, s) /\ attempt[x].user = u /\ attempt[x].ip = i

(* What the limiter is for: whatever the order in which logins overlap,    *)
(* succeed, fail and expire, the attempts of a user within a window that   *)
(* are undecided or have failed since the user's latest success are within *)
(* the user's limit, and those from an address within the address's, which *)
(* no success resets.                                                      *)
SinceSuccess(u) ==
  {s \in DOMAIN attempt :
     /\ attempt[s].user = u /\ Counts(s)
     /\ \A x \in DOMAIN attempt :
          attempt[x].user = u /\ attempt[x].state = "succeeded" => x < s}
FromAddress(i) == {s \in DOMAIN attempt : attempt[s].ip = i /\ Counts(s)}

GuessesAreBounded ==
  /\ \A u \in Names : Cardinality(SinceSuccess(u)) <= UserLimit
  /\ \A i \in Ips : Cardinality(FromAddress(i)) <= IpLimit

(* A client told to come back is let in if it does and nothing else has    *)
(* happened: the answer in whole seconds is never too early.               *)
RetryAfterSuffices ==
  \A u \in Names, i \in Ips :
    LET K == KeysOf(u, i)
        wait == RetryAfter(Scanned(K, now), K, now)
        later == now + wait * Ticks
    IN  RetryAfter(Scanned(K, later), K, later) = 0
=============================================================================
