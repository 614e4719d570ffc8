----------------------- MODULE LoginRateLimiter_proofs -----------------------
(***************************************************************************)
(* Proofs about LoginRateLimiter, for any users, addresses, limits, window *)
(* and resolution of the clock, and any number of overlapping logins.      *)
(***************************************************************************)
EXTENDS LoginRateLimiter, FiniteSetTheorems, WellFoundedInduction, TLAPS

-----------------------------------------------------------------------------
(* The first and the last event of a bucket.                               *)
LEMMA LeastExists ==
  ASSUME NEW S \in SUBSET Nat, S # {}
  PROVE  \E x \in S : \A y \in S : x <= y
<1> DEFINE R == OpToRel(<, Nat)
<1>1. IsWellFoundedOn(R, Nat)
  BY NatLessThanWellFounded
<1>2. \A x, y \in Nat : <<y, x>> \in R <=> y < x
  BY DEF OpToRel
<1> HIDE DEF R
<1>3. PICK x \in S : \A y \in S : ~ (<<y, x>> \in R)
  BY <1>1, WFMin
<1>4. ASSUME NEW y \in S PROVE x <= y
  <2>1. x \in Nat /\ y \in Nat
    OBVIOUS
  <2>2. ~ (y < x)
    BY <1>2, <1>3, <2>1
  <2> QED BY <2>1, <2>2
<1> QED BY <1>4

(* A set of numbers up to n has a greatest one.                            *)
LEMMA GreatestExists ==
  ASSUME NEW n \in Nat, NEW S \in SUBSET (0..n), S # {}
  PROVE  \E x \in S : \A y \in S : y <= x
<1> DEFINE T == {n - x : x \in S}
<1>1. T \in SUBSET Nat /\ T # {}
  <2>1. \A x \in S : x \in 0..n
    OBVIOUS
  <2>2. \A x \in S : n - x \in Nat
    BY <2>1
  <2> QED BY <2>2
<1>2. PICK d \in T : \A e \in T : d <= e
  BY <1>1, LeastExists
<1>3. PICK x \in S : d = n - x
  OBVIOUS
<1>4. \A y \in S : d <= n - y
  BY <1>2
<1> QED BY <1>3, <1>4

(* Latest is the greatest element, if there is one.                        *)
LEMMA LastIs ==
  ASSUME NEW S \in SUBSET Int, NEW m \in S, \A x \in S : x <= m
  PROVE  Latest(S) = m
<1>1. \A s \in S : (\A x \in S : x <= s) => s = m
  OBVIOUS
<1> QED BY <1>1 DEF Latest

LEMMA LastOfBucket ==
  ASSUME NEW n \in Nat, NEW S \in SUBSET (1..n), S # {}
  PROVE  Latest(S) \in S /\ \A x \in S : x <= Latest(S)
<1>1. S \in SUBSET (0..n)
  OBVIOUS
<1>2. PICK m \in S : \A x \in S : x <= m
  BY <1>1, GreatestExists
<1>3. Latest(S) = m
  BY <1>2, LastIs
<1> QED BY <1>2, <1>3

LEMMA FirstOfBucket ==
  ASSUME NEW n \in Nat, NEW S \in SUBSET (1..n), S # {}
  PROVE  Earliest(S) \in S
<1>1. S \in SUBSET Nat
  OBVIOUS
<1> QED BY <1>1, LeastExists DEF Earliest

-----------------------------------------------------------------------------
(* The inductive invariant.  Besides what the runs check: an event that    *)
(* was let in later was not let in earlier by the clock, so that a key     *)
(* whose last event has expired has none that has not.                     *)
InOrder ==
  \A r \in DOMAIN attempt :
    /\ attempt[r].at <= now
    /\ \A s \in 1..r : attempt[s].at <= attempt[r].at

IInv ==
  /\ LimiterTypeOK
  /\ InOrder
  /\ HeapMatchesBuckets
  /\ IsFiniteSet(Tracked(bucket)) /\ BudgetsHold
  /\ EveryGuessIsCounted

Attempt == [user : Names, ip : Ips, at : Nat, state : AttemptState]

LEMMA Constants ==
  /\ Window * Ticks \in Nat /\ Window * Ticks > 0
  /\ Ticks \in Nat /\ Ticks > 0 /\ Window \in Nat /\ Window > 0
  /\ \A k \in Keys : Limit(k) \in Nat /\ Limit(k) >= 1
<1>1. /\ Ticks \in Nat /\ Ticks > 0 /\ Window \in Nat /\ Window > 0
  BY LimiterAssumption
<1>2. Window * Ticks \in Nat /\ Window * Ticks > 0
  BY <1>1
<1>3. \A k \in Keys : Limit(k) \in Nat /\ Limit(k) >= 1
  BY LimiterAssumption DEF Keys, KeysOf, PairKey, UserKey, IpKey, Limit
<1> QED BY <1>1, <1>2, <1>3

LEMMA KeysAreKeys ==
  ASSUME NEW u \in Names, NEW i \in Ips
  PROVE  UserKey(u) \in Keys /\ IpKey(i) \in Keys /\ PairKey(u, i) \in Keys
<1>1. KeysOf(u, i) \subseteq Keys
  BY DEF Keys
<1> QED BY <1>1 DEF KeysOf

(* What the type invariant says of an attempt and of a bucket.             *)
LEMMA Facts ==
  ASSUME LimiterTypeOK
  PROVE  /\ Len(attempt) \in Nat /\ DOMAIN attempt = 1..Len(attempt) /\ now \in Nat
         /\ \A s \in 1..Len(attempt) :
              /\ attempt[s] \in Attempt
              /\ attempt[s].user \in Names /\ attempt[s].ip \in Ips
              /\ attempt[s].at \in Nat /\ attempt[s].state \in AttemptState
              /\ ExpiresAt(s) \in Nat
              /\ KeysOfAttempt(s) \subseteq Keys
         /\ \A k \in Keys : bucket[k] \subseteq 1..Len(attempt) /\ expiry[k] \in Nat
         /\ \A k \in Keys : IsFiniteSet(bucket[k])
<1>1. Len(attempt) \in Nat /\ DOMAIN attempt = 1..Len(attempt) /\ now \in Nat
  BY DEF LimiterTypeOK
<1>2. ASSUME NEW s \in 1..Len(attempt)
      PROVE  /\ attempt[s] \in Attempt
             /\ attempt[s].user \in Names /\ attempt[s].ip \in Ips
             /\ attempt[s].at \in Nat /\ attempt[s].state \in AttemptState
  <2>1. attempt \in Seq(Attempt)
    BY DEF LimiterTypeOK, Attempt
  <2>2. attempt[s] \in Attempt
    BY <1>1, <2>1
  <2> QED BY <2>2 DEF Attempt
<1>3. ASSUME NEW s \in 1..Len(attempt) PROVE ExpiresAt(s) \in Nat
  BY <1>2, Constants DEF ExpiresAt
<1>4. ASSUME NEW s \in 1..Len(attempt) PROVE KeysOfAttempt(s) \subseteq Keys
  BY <1>2 DEF KeysOfAttempt, Keys
<1>5. \A k \in Keys : bucket[k] \subseteq 1..Len(attempt) /\ expiry[k] \in Nat
  BY <1>1 DEF LimiterTypeOK
<1>6. IsFiniteSet(1..Len(attempt))
  BY <1>1, FS_Interval
<1>7. \A k \in Keys : IsFiniteSet(bucket[k])
  BY <1>5, <1>6, FS_Subset
<1> QED BY <1>1, <1>2, <1>3, <1>4, <1>5, <1>7

(* What a scan removes has expired; what stays keeps its last event.       *)
LEMMA ScanRemovesExpired ==
  ASSUME IInv, NEW K
  PROVE  \A k \in Keys :
           LET b == Scanned(K, now)
           IN  /\ b[k] \subseteq bucket[k]
               /\ \A s \in bucket[k] : ExpiresAt(s) > now => s \in b[k]
               /\ Kept(b)[k] = IF b[k] = {} THEN 0 ELSE ExpiresAt(Latest(b[k]))
<1> DEFINE b == Scanned(K, now)
<1> SUFFICES ASSUME NEW k \in Keys
    PROVE  /\ b[k] \subseteq bucket[k]
           /\ \A s \in bucket[k] : ExpiresAt(s) > now => s \in b[k]
           /\ Kept(b)[k] = IF b[k] = {} THEN 0 ELSE ExpiresAt(Latest(b[k]))
  OBVIOUS
<1>0. LimiterTypeOK
  BY DEF IInv
<1>1. /\ bucket[k] \subseteq 1..Len(attempt) /\ Len(attempt) \in Nat /\ now \in Nat
      /\ \A s \in 1..Len(attempt) : ExpiresAt(s) \in Nat
  BY <1>0, Facts
<1>2. b[k] = IF expiry[k] <= now THEN {}
             ELSE IF k \in K THEN Live(bucket[k], now) ELSE bucket[k]
  BY DEF Scanned
<1>3. b[k] \subseteq bucket[k]
  BY <1>2 DEF Live
<1>4. Kept(b)[k] = IF b[k] = {} THEN 0 ELSE expiry[k]
  BY DEF Kept
<1>5. CASE bucket[k] = {}
  BY <1>3, <1>4, <1>5
<1>6. CASE bucket[k] # {}
  <2> DEFINE m == Latest(bucket[k])
  <2>1. m \in bucket[k] /\ \A x \in bucket[k] : x <= m
    BY <1>1, <1>6, LastOfBucket
  <2>2. expiry[k] = ExpiresAt(m)
    BY <1>6 DEF IInv, HeapMatchesBuckets
  <2>3. ASSUME NEW s \in bucket[k] PROVE ExpiresAt(s) <= ExpiresAt(m)
    <3>1. m \in 1..Len(attempt) /\ s \in 1..m
      BY <1>1, <2>1
    <3>2. attempt[s].at <= attempt[m].at
      BY <1>0, <3>1, Facts DEF IInv, InOrder
    <3>3. attempt[s].at \in Nat /\ attempt[m].at \in Nat /\ Window * Ticks \in Nat
      BY <1>0, <1>1, <3>1, Facts, Constants
    <3> QED BY <3>2, <3>3 DEF ExpiresAt
  <2> HIDE DEF m
  <2>4. \A s \in bucket[k] : ExpiresAt(s) > now => s \in b[k]
    BY <1>1, <1>2, <2>1, <2>2, <2>3 DEF Live
  <2>5. ASSUME b[k] # {} PROVE expiry[k] = ExpiresAt(Latest(b[k]))
    <3>1. expiry[k] > now
      BY <1>1, <1>2, <2>1, <2>2, <2>5
    <3>2. m \in b[k]
      BY <2>1, <2>2, <2>4, <3>1
    <3>3. Latest(b[k]) = m
      <4>1. b[k] \in SUBSET Int /\ \A x \in b[k] : x <= m
        BY <1>1, <1>3, <2>1
      <4> HIDE DEF b
      <4> QED BY <3>2, <4>1, LastIs
    <3> QED BY <2>2, <3>3
  <2> QED BY <1>3, <1>4, <2>4, <2>5
<1> QED BY <1>5, <1>6

-----------------------------------------------------------------------------
(* A change of one attempt's state.                                        *)
LEMMA SettleFacts ==
  ASSUME LimiterTypeOK, NEW s \in DOMAIN attempt, NEW state \in AttemptState, Settle(s, state)
  PROVE  /\ attempt' \in Seq(Attempt) /\ DOMAIN attempt' = DOMAIN attempt
         /\ Len(attempt') = Len(attempt)
         /\ \A r \in DOMAIN attempt :
              /\ attempt'[r].user = attempt[r].user /\ attempt'[r].ip = attempt[r].ip
              /\ attempt'[r].at = attempt[r].at
              /\ attempt'[r].state = IF r = s THEN state ELSE attempt[r].state
         /\ \A r \in DOMAIN attempt : ExpiresAt(r)' = ExpiresAt(r)
<1>1. attempt \in Seq(Attempt) /\ attempt[s] \in Attempt
  BY Facts DEF LimiterTypeOK, Attempt
<1> DEFINE new == [attempt[s] EXCEPT !.state = state]
<1>2. /\ new \in Attempt /\ new.user = attempt[s].user /\ new.ip = attempt[s].ip
      /\ new.at = attempt[s].at /\ new.state = state
  BY <1>1 DEF Attempt
<1>3. attempt' = [attempt EXCEPT ![s] = new]
  BY DEF Settle
<1> HIDE DEF new
<1>4. /\ attempt' \in Seq(Attempt) /\ DOMAIN attempt' = DOMAIN attempt
      /\ Len(attempt') = Len(attempt)
  BY <1>1, <1>2, <1>3
<1>5. \A r \in DOMAIN attempt : attempt'[r] = IF r = s THEN new ELSE attempt[r]
  BY <1>1, <1>3
<1>6. \A r \in DOMAIN attempt :
        /\ attempt'[r].user = attempt[r].user /\ attempt'[r].ip = attempt[r].ip
        /\ attempt'[r].at = attempt[r].at
        /\ attempt'[r].state = IF r = s THEN state ELSE attempt[r].state
  BY <1>2, <1>5
<1> QED BY <1>4, <1>6 DEF ExpiresAt

(* Buckets that only lose events keep within their budgets.                *)
LEMMA FewerEvents ==
  ASSUME IInv, bucket' \in [Keys -> SUBSET (DOMAIN attempt)],
         \A k \in Keys : bucket'[k] \subseteq bucket[k]
  PROVE  IsFiniteSet(Tracked(bucket'))  /\ BudgetsHold'
<1>1. Tracked(bucket') \in SUBSET Tracked(bucket)
  BY DEF Tracked
<1>2. /\ IsFiniteSet(Tracked(bucket'))
      /\ Cardinality(Tracked(bucket')) <= Cardinality(Tracked(bucket))
      /\ Cardinality(Tracked(bucket')) \in Nat /\ Cardinality(Tracked(bucket)) \in Nat
  BY <1>1, FS_Subset, FS_CardinalityType DEF IInv
<1>3. ASSUME NEW k \in Keys PROVE Cardinality(bucket'[k]) <= Limit(k)
  <2>1. IsFiniteSet(bucket[k])
    BY Facts DEF IInv
  <2>2. /\ Cardinality(bucket'[k]) <= Cardinality(bucket[k]) /\ IsFiniteSet(bucket'[k])
    BY <2>1, FS_Subset
  <2>3. Cardinality(bucket'[k]) \in Nat /\ Cardinality(bucket[k]) \in Nat
    BY <2>1, <2>2, FS_CardinalityType
  <2>4. Cardinality(bucket[k]) <= Limit(k) /\ Limit(k) \in Nat
    BY Constants DEF IInv, BudgetsHold
  <2> QED BY <2>2, <2>3, <2>4
<1>4. Cardinality(Tracked(bucket)) <= MaxKeys /\ MaxKeys \in Nat
  BY LimiterAssumption DEF IInv, BudgetsHold
<1>5. Cardinality(Tracked(bucket')) <= MaxKeys
  BY <1>2, <1>4
<1> QED BY <1>2, <1>3, <1>5 DEF BudgetsHold

(* Attempts that go on, or are settled in a way that is not a success, and *)
(* buckets that lose only expired events or settled ones.                  *)
LEMMA StillCounted ==
  ASSUME IInv, now' \in Nat, now' >= now, DOMAIN attempt' = DOMAIN attempt,
         \A r \in DOMAIN attempt :
           /\ attempt'[r].user = attempt[r].user /\ attempt'[r].ip = attempt[r].ip
           /\ ExpiresAt(r)' = ExpiresAt(r)
           /\ attempt[r].state # "pending" => attempt'[r].state = attempt[r].state,
         \A r \in DOMAIN attempt : \A k \in KeysOfAttempt(r) :
           /\ r \in bucket[k] /\ r \notin bucket'[k] /\ Counts(r)'
           => /\ k \in {UserKey(attempt[r].user), PairKey(attempt[r].user, attempt[r].ip)}
              /\ attempt'[r].state = "failed"
              /\ \E x \in DOMAIN attempt :
                   /\ x > r /\ attempt'[x].state = "succeeded"
                   /\ attempt[x].user = attempt[r].user
                   /\ k = PairKey(attempt[r].user, attempt[r].ip) => attempt[x].ip = attempt[r].ip
  PROVE  EveryGuessIsCounted'
<1> SUFFICES ASSUME NEW s \in DOMAIN attempt, Counts(s)'
    PROVE  LET u == attempt[s].user
               i == attempt[s].ip
           IN  /\ s \in bucket'[IpKey(i)]
               /\ \/ s \in bucket'[UserKey(u)]
                  \/ \E x \in DOMAIN attempt : Overtakes(x, s)' /\ attempt[x].user = u
               /\ \/ s \in bucket'[PairKey(u, i)]
                  \/ \E x \in DOMAIN attempt :
                       Overtakes(x, s)' /\ attempt[x].user = u /\ attempt[x].ip = i
  BY DEF EveryGuessIsCounted
<1> DEFINE u == attempt[s].user
           i == attempt[s].ip
<1>1. Counts(s) /\ attempt[s].state \in {"pending", "failed"}
  <2>1. now \in Nat /\ ExpiresAt(s) \in Nat /\ attempt[s].state \in AttemptState
    BY Facts DEF IInv
  <2>2. ExpiresAt(s) > now
    BY <2>1 DEF Counts
  <2> QED BY <2>1, <2>2 DEF Counts, AttemptState
<1>2. /\ s \in bucket[IpKey(i)]
      /\ \/ s \in bucket[UserKey(u)]
         \/ \E x \in DOMAIN attempt : Overtakes(x, s) /\ attempt[x].user = u
      /\ \/ s \in bucket[PairKey(u, i)]
         \/ \E x \in DOMAIN attempt :
              Overtakes(x, s) /\ attempt[x].user = u /\ attempt[x].ip = i
  BY <1>1 DEF IInv, EveryGuessIsCounted
<1>3. \A x \in DOMAIN attempt : Overtakes(x, s) => Overtakes(x, s)'
  BY DEF Overtakes
<1>4. /\ {IpKey(i), UserKey(u), PairKey(u, i)} = KeysOfAttempt(s)
      /\ IpKey(i) \notin {UserKey(u), PairKey(u, i)} /\ UserKey(u) # PairKey(u, i)
  BY DEF KeysOfAttempt, KeysOf, IpKey, UserKey, PairKey
<1>5. s \in bucket'[IpKey(i)]
  BY <1>2, <1>4
<1>6. s \in bucket[UserKey(u)] =>
        \/ s \in bucket'[UserKey(u)]
        \/ \E x \in DOMAIN attempt : Overtakes(x, s)' /\ attempt[x].user = u
  BY <1>4 DEF Overtakes
<1>7. s \in bucket[PairKey(u, i)] =>
        \/ s \in bucket'[PairKey(u, i)]
        \/ \E x \in DOMAIN attempt :
             Overtakes(x, s)' /\ attempt[x].user = u /\ attempt[x].ip = i
  BY <1>4 DEF Overtakes
<1> QED BY <1>2, <1>3, <1>5, <1>6, <1>7

-----------------------------------------------------------------------------
(* Each action keeps the invariant.                                        *)
LEMMA TickKeeps == IInv /\ Tick => IInv'
<1> SUFFICES ASSUME IInv, Tick PROVE IInv'
  OBVIOUS
<1>0. /\ now' = now + 1 /\ UNCHANGED <<attempt, bucket, expiry>>
      /\ LimiterTypeOK /\ now \in Nat /\ Len(attempt) \in Nat /\ DOMAIN attempt = 1..Len(attempt)
      /\ \A r \in DOMAIN attempt : attempt[r].at \in Nat
  BY Facts DEF IInv, Tick
<1>1. LimiterTypeOK'
  BY <1>0 DEF LimiterTypeOK
<1>2. InOrder'
  BY <1>0 DEF IInv, InOrder
<1>3. HeapMatchesBuckets'
  BY <1>0 DEF IInv, HeapMatchesBuckets, ExpiresAt
<1>4. IsFiniteSet(Tracked(bucket))' /\ BudgetsHold'
  BY <1>0 DEF IInv, BudgetsHold, Tracked
<1>5. EveryGuessIsCounted'
  <2>1. \A r \in DOMAIN attempt : ExpiresAt(r)' = ExpiresAt(r)
    BY <1>0 DEF ExpiresAt
  <2>2. now' \in Nat /\ now' >= now
    BY <1>0
  <2> QED BY <1>0, <2>1, <2>2, StillCounted
<1> QED BY <1>1, <1>2, <1>3, <1>4, <1>5 DEF IInv

LEMMA BlockedKeeps ==
  ASSUME IInv, NEW u \in Names, NEW i \in Ips, Blocked(u, i)
  PROVE  IInv'
<1> DEFINE b == Scanned(KeysOf(u, i), now)
<1>0. /\ bucket' = b /\ expiry' = Kept(b) /\ now' = now /\ attempt' = attempt
      /\ LimiterTypeOK /\ now \in Nat
  BY Facts DEF IInv, Blocked, Scan
<1>1. \A k \in Keys :
        /\ bucket'[k] \subseteq bucket[k]
        /\ \A s \in bucket[k] : ExpiresAt(s) > now => s \in bucket'[k]
        /\ expiry'[k] = IF bucket'[k] = {} THEN 0 ELSE ExpiresAt(Latest(bucket'[k]))
  BY <1>0, ScanRemovesExpired
<1>2. /\ bucket' = [k \in Keys |-> bucket'[k]] /\ expiry' = [k \in Keys |-> expiry'[k]]
  BY <1>0 DEF Scanned, Kept
<1> HIDE DEF b
<1>3. bucket' \in [Keys -> SUBSET (DOMAIN attempt)]
  BY <1>0, <1>1, <1>2 DEF LimiterTypeOK
<1>4. \A k \in Keys : expiry'[k] \in Nat
  <2> SUFFICES ASSUME NEW k \in Keys, bucket'[k] # {} PROVE ExpiresAt(Latest(bucket'[k])) \in Nat
    BY <1>1
  <2>1. bucket'[k] \in SUBSET (1..Len(attempt)) /\ Len(attempt) \in Nat
    BY <1>0, <1>3, Facts
  <2>2. Latest(bucket'[k]) \in 1..Len(attempt)
    BY <2>1, LastOfBucket
  <2> QED BY <1>0, <2>2, Facts
<1>5. LimiterTypeOK'
  BY <1>0, <1>2, <1>3, <1>4 DEF LimiterTypeOK
<1>6. InOrder'
  BY <1>0 DEF IInv, InOrder
<1>7. HeapMatchesBuckets'
  BY <1>0, <1>1 DEF HeapMatchesBuckets, ExpiresAt
<1>8. IsFiniteSet(Tracked(bucket))' /\ BudgetsHold'
  <2>1. IsFiniteSet(Tracked(bucket')) /\ BudgetsHold'
    BY <1>1, <1>3, FewerEvents
  <2> QED BY <2>1 DEF Tracked
<1>9. EveryGuessIsCounted'
  <2>1. \A r \in DOMAIN attempt : ExpiresAt(r)' = ExpiresAt(r)
    BY <1>0 DEF ExpiresAt
  <2>2. \A r \in DOMAIN attempt : \A k \in KeysOfAttempt(r) :
          ~ (r \in bucket[k] /\ r \notin bucket'[k] /\ Counts(r)')
    <3> SUFFICES ASSUME NEW r \in DOMAIN attempt, NEW k \in KeysOfAttempt(r),
                        r \in bucket[k], Counts(r)'
        PROVE  r \in bucket'[k]
      OBVIOUS
    <3>1. k \in Keys
      BY <1>0, Facts
    <3>2. ExpiresAt(r) > now
      BY <1>0, <2>1 DEF Counts
    <3> QED BY <1>1, <3>1, <3>2
  <2>3. now' \in Nat /\ now' >= now
    BY <1>0
  <2> QED BY <1>0, <2>1, <2>2, <2>3, StillCounted
<1> QED BY <1>5, <1>6, <1>7, <1>8, <1>9 DEF IInv

(* A lease that is settled while no bucket changes.                        *)
LEMMA SettledInPlace ==
  ASSUME IInv, NEW s \in DOMAIN attempt, NEW state \in AttemptState, Settle(s, state),
         attempt[s].state = "pending", UNCHANGED <<now, bucket, expiry>>
  PROVE  IInv'
<1>0. LimiterTypeOK /\ now \in Nat /\ Len(attempt) \in Nat /\ DOMAIN attempt = 1..Len(attempt)
  BY Facts DEF IInv
<1>1. /\ attempt' \in Seq(Attempt) /\ DOMAIN attempt' = DOMAIN attempt
      /\ Len(attempt') = Len(attempt)
      /\ \A r \in DOMAIN attempt :
           /\ attempt'[r].user = attempt[r].user /\ attempt'[r].ip = attempt[r].ip
           /\ attempt'[r].at = attempt[r].at
           /\ attempt'[r].state = IF r = s THEN state ELSE attempt[r].state
      /\ \A r \in DOMAIN attempt : ExpiresAt(r)' = ExpiresAt(r)
  BY <1>0, SettleFacts
<1>2. LimiterTypeOK'
  BY <1>0, <1>1 DEF LimiterTypeOK, Attempt
<1>3. InOrder'
  BY <1>0, <1>1 DEF IInv, InOrder
<1>4. HeapMatchesBuckets'
  <2> SUFFICES ASSUME NEW k \in Keys
      PROVE  expiry[k] = IF bucket[k] = {} THEN 0 ELSE ExpiresAt(Latest(bucket[k]))'
    BY DEF HeapMatchesBuckets, ExpiresAt
  <2>1. bucket[k] # {} => Latest(bucket[k]) \in DOMAIN attempt
    BY <1>0, Facts, LastOfBucket
  <2>2. bucket[k] # {} => ExpiresAt(Latest(bucket[k]))' = ExpiresAt(Latest(bucket[k]))
    BY <1>1, <2>1 DEF ExpiresAt
  <2> QED BY <2>2 DEF IInv, HeapMatchesBuckets
<1>5. IsFiniteSet(Tracked(bucket))' /\ BudgetsHold'
  BY DEF IInv, BudgetsHold, Tracked
<1>6. EveryGuessIsCounted'
  <2>1. \A r \in DOMAIN attempt : \A k \in KeysOfAttempt(r) :
          ~ (r \in bucket[k] /\ r \notin bucket'[k] /\ Counts(r)')
    OBVIOUS
  <2>2. now' \in Nat /\ now' >= now
    BY <1>0
  <2> QED BY <1>1, <2>1, <2>2, StillCounted
<1> QED BY <1>2, <1>3, <1>4, <1>5, <1>6 DEF IInv

LEMMA FinalizeFailureKeeps ==
  ASSUME IInv, NEW s \in DOMAIN attempt, FinalizeFailure(s)
  PROVE  IInv'
<1> DEFINE state == IF Found(s) THEN "failed" ELSE "late"
<1>1. state \in AttemptState /\ Settle(s, state)
  BY DEF FinalizeFailure, AttemptState
<1> HIDE DEF state
<1> QED BY <1>1, SettledInPlace DEF FinalizeFailure

LEMMA SettleLateKeeps ==
  ASSUME IInv, NEW s \in DOMAIN attempt, SettleLate(s)
  PROVE  IInv'
<1>1. "late" \in AttemptState
  BY DEF AttemptState
<1> QED BY <1>1, SettledInPlace DEF SettleLate

(* A settlement that takes events out of some buckets.                     *)
LEMMA FilterKeeps ==
  ASSUME IInv, NEW s \in DOMAIN attempt, NEW state \in AttemptState, Settle(s, state),
         attempt[s].state = "pending", UNCHANGED now,
         NEW gone, Filter(gone),
         \A r \in DOMAIN attempt : \A k \in KeysOfAttempt(r) :
           /\ r \in bucket[k] /\ k \in DOMAIN gone /\ r \in gone[k] /\ Counts(r)'
           => /\ k \in {UserKey(attempt[r].user), PairKey(attempt[r].user, attempt[r].ip)}
              /\ attempt'[r].state = "failed"
              /\ \E x \in DOMAIN attempt :
                   /\ x > r /\ attempt'[x].state = "succeeded"
                   /\ attempt[x].user = attempt[r].user
                   /\ k = PairKey(attempt[r].user, attempt[r].ip) => attempt[x].ip = attempt[r].ip
  PROVE  IInv'
<1>0. LimiterTypeOK /\ now \in Nat /\ Len(attempt) \in Nat /\ DOMAIN attempt = 1..Len(attempt)
  BY Facts DEF IInv
<1>1. /\ attempt' \in Seq(Attempt) /\ DOMAIN attempt' = DOMAIN attempt
      /\ Len(attempt') = Len(attempt)
      /\ \A r \in DOMAIN attempt :
           /\ attempt'[r].user = attempt[r].user /\ attempt'[r].ip = attempt[r].ip
           /\ attempt'[r].at = attempt[r].at
           /\ attempt'[r].state = IF r = s THEN state ELSE attempt[r].state
      /\ \A r \in DOMAIN attempt : ExpiresAt(r)' = ExpiresAt(r)
  BY <1>0, SettleFacts
<1>2. /\ bucket' = [k \in Keys |-> IF k \in DOMAIN gone THEN bucket[k] \ gone[k] ELSE bucket[k]]
      /\ \A k \in Keys :
           /\ bucket'[k] = IF k \in DOMAIN gone THEN bucket[k] \ gone[k] ELSE bucket[k]
           /\ bucket'[k] \subseteq bucket[k]
  BY DEF Filter
<1>3. bucket' \in [Keys -> SUBSET (DOMAIN attempt)]
  BY <1>0, <1>2 DEF LimiterTypeOK
<1>4. ASSUME NEW k \in Keys
      PROVE  /\ expiry'[k] = IF bucket'[k] = {} THEN 0 ELSE ExpiresAt(Latest(bucket'[k]))
             /\ bucket'[k] # {} => Latest(bucket'[k]) \in DOMAIN attempt
  <2>1. expiry[k] = IF bucket[k] = {} THEN 0 ELSE ExpiresAt(Latest(bucket[k]))
    BY DEF IInv, HeapMatchesBuckets
  <2>2. expiry'[k] =
          CASE k \notin DOMAIN gone \/ bucket[k] = {} -> expiry[k]
            [] k \in DOMAIN gone /\ bucket[k] # {} /\ bucket[k] \subseteq gone[k] -> 0
            [] OTHER -> ExpiresAt(Latest(bucket[k] \ gone[k]))
    BY DEF Filter
  <2>3. bucket'[k] # {} => Latest(bucket'[k]) \in DOMAIN attempt
    BY <1>0, <1>3, LastOfBucket
  <2>4. CASE k \notin DOMAIN gone \/ bucket[k] = {}
    <3>1. bucket'[k] = bucket[k] /\ expiry'[k] = expiry[k]
      BY <1>2, <2>2, <2>4
    <3> QED BY <2>1, <2>3, <3>1
  <2>5. CASE k \in DOMAIN gone /\ bucket[k] # {} /\ bucket[k] \subseteq gone[k]
    <3>1. bucket'[k] = {} /\ expiry'[k] = 0
      BY <1>2, <2>2, <2>5
    <3> QED BY <3>1
  <2>6. CASE k \in DOMAIN gone /\ bucket[k] # {} /\ ~ (bucket[k] \subseteq gone[k])
    <3>1. bucket'[k] = bucket[k] \ gone[k] /\ bucket'[k] # {}
      BY <1>2, <2>6
    <3>2. expiry'[k] = ExpiresAt(Latest(bucket[k] \ gone[k]))
      BY <2>2, <2>6
    <3> QED BY <2>3, <3>1, <3>2
  <2> QED BY <2>4, <2>5, <2>6
<1>5. LimiterTypeOK'
  <2>1. expiry' \in [Keys -> Nat]
    <3>1. expiry' = [k \in Keys |-> expiry'[k]]
      BY DEF Filter
    <3>2. \A k \in Keys : expiry'[k] \in Nat
      BY <1>0, <1>4, Facts
    <3> QED BY <3>1, <3>2
  <2> QED BY <1>0, <1>1, <1>3, <2>1 DEF LimiterTypeOK, Attempt
<1>6. InOrder'
  BY <1>0, <1>1 DEF IInv, InOrder
<1>7. HeapMatchesBuckets'
  <2> SUFFICES ASSUME NEW k \in Keys
      PROVE  expiry'[k] = IF bucket'[k] = {} THEN 0 ELSE ExpiresAt(Latest(bucket[k]))'
    BY DEF HeapMatchesBuckets
  <2>1. bucket'[k] # {} => ExpiresAt(Latest(bucket[k]))' = ExpiresAt(Latest(bucket'[k]))
    BY <1>1, <1>4 DEF ExpiresAt
  <2> QED BY <1>4, <2>1
<1>8. IsFiniteSet(Tracked(bucket))' /\ BudgetsHold'
  <2>1. IsFiniteSet(Tracked(bucket')) /\ BudgetsHold'
    BY <1>2, <1>3, FewerEvents
  <2> QED BY <2>1 DEF Tracked
<1>9. EveryGuessIsCounted'
  <2>1. \A r \in DOMAIN attempt : \A k \in KeysOfAttempt(r) :
          r \in bucket[k] /\ r \notin bucket'[k] => k \in DOMAIN gone /\ r \in gone[k]
    BY <1>0, <1>2, Facts
  <2>2. now' \in Nat /\ now' >= now
    BY <1>0
  <2> QED BY <1>1, <2>1, <2>2, StillCounted
<1> QED BY <1>5, <1>6, <1>7, <1>8, <1>9 DEF IInv

LEMMA CancelKeeps ==
  ASSUME IInv, NEW s \in DOMAIN attempt, Cancel(s)
  PROVE  IInv'
<1> DEFINE gone == [k \in KeysOfAttempt(s) |-> {s}]
<1>1. Filter(gone) /\ Settle(s, "cancelled") /\ attempt[s].state = "pending" /\ UNCHANGED now
  BY DEF Cancel
<1>2. "cancelled" \in AttemptState
  BY DEF AttemptState
<1>3. attempt'[s].state = "cancelled"
  BY <1>1, <1>2, SettleFacts DEF IInv
<1>4. ~ Counts(s)'
  BY <1>3 DEF Counts
<1>5. \A k \in DOMAIN gone : gone[k] = {s}
  OBVIOUS
<1> HIDE DEF gone
<1>6. \A r \in DOMAIN attempt : \A k \in KeysOfAttempt(r) :
        ~ (k \in DOMAIN gone /\ r \in gone[k] /\ Counts(r)')
  BY <1>4, <1>5
<1> QED BY <1>1, <1>2, <1>6, FilterKeeps

LEMMA FinalizeSuccessKeeps ==
  ASSUME IInv, NEW s \in DOMAIN attempt, FinalizeSuccess(s)
  PROVE  IInv'
<1> DEFINE gone == [k \in KeysOfAttempt(s) |-> IF k.scope = "ip" THEN {s} ELSE ClearedBySuccess(s)]
<1>1. Filter(gone) /\ Settle(s, "succeeded") /\ attempt[s].state = "pending" /\ UNCHANGED now
  BY DEF FinalizeSuccess
<1>2. "succeeded" \in AttemptState
  BY DEF AttemptState
<1>3. \A r \in DOMAIN attempt :
        attempt'[r].state = IF r = s THEN "succeeded" ELSE attempt[r].state
  BY <1>1, <1>2, SettleFacts DEF IInv
<1>4. ~ Counts(s)'
  BY <1>3 DEF Counts
<1>5. DOMAIN gone = KeysOfAttempt(s)
  OBVIOUS
<1>6. ASSUME NEW r \in DOMAIN attempt, NEW k \in KeysOfAttempt(r),
             k \in DOMAIN gone, r \in gone[k], Counts(r)'
      PROVE  /\ k \in {UserKey(attempt[r].user), PairKey(attempt[r].user, attempt[r].ip)}
             /\ attempt'[r].state = "failed"
             /\ \E x \in DOMAIN attempt :
                  /\ x > r /\ attempt'[x].state = "succeeded"
                  /\ attempt[x].user = attempt[r].user
                  /\ k = PairKey(attempt[r].user, attempt[r].ip) => attempt[x].ip = attempt[r].ip
  <2>1. r # s
    BY <1>4, <1>6
  <2>2. k.scope # "ip" /\ r \in 1..s /\ attempt[r].state = "failed"
    BY <1>5, <1>6, <2>1 DEF ClearedBySuccess
  <2>3. k \in {UserKey(attempt[r].user), PairKey(attempt[r].user, attempt[r].ip)}
    BY <2>2 DEF KeysOfAttempt, KeysOf, IpKey, UserKey, PairKey
  <2>4. k \in KeysOf(attempt[s].user, attempt[s].ip)
    BY <1>5, <1>6 DEF KeysOfAttempt
  <2>5. /\ attempt[s].user = attempt[r].user
        /\ k = PairKey(attempt[r].user, attempt[r].ip) => attempt[s].ip = attempt[r].ip
    <3>1. CASE k = UserKey(attempt[r].user)
      BY <2>4, <3>1 DEF KeysOf, IpKey, UserKey, PairKey
    <3>2. CASE k = PairKey(attempt[r].user, attempt[r].ip)
      BY <2>4, <3>2 DEF KeysOf, IpKey, UserKey, PairKey
    <3> QED BY <2>3, <3>1, <3>2
  <2>6. s > r /\ attempt'[s].state = "succeeded" /\ attempt'[r].state = "failed"
    <3>1. Len(attempt) \in Nat /\ DOMAIN attempt = 1..Len(attempt)
      BY Facts DEF IInv
    <3> QED BY <1>3, <2>1, <2>2, <3>1
  <2> QED BY <2>3, <2>5, <2>6
<1> HIDE DEF gone
<1> QED BY <1>1, <1>2, <1>6, FilterKeeps

-----------------------------------------------------------------------------
(* A reservation.  The waits of an attempt are few, so that the longest    *)
(* exists.                                                                 *)
LEMMA OneMore ==
  ASSUME NEW S \in SUBSET Int, \E x \in S : \A y \in S : y <= x, NEW T, NEW e \in Int,
         T = {} \/ T = {e}
  PROVE  S \cup T \in SUBSET Int /\ \E x \in S \cup T : \A y \in S \cup T : y <= x
<1>1. PICK x \in S : \A y \in S : y <= x
  OBVIOUS
<1>2. CASE T = {}
  BY <1>1, <1>2
<1>3. CASE T = {e} /\ e <= x
  BY <1>1, <1>3
<1>4. CASE T = {e} /\ ~ (e <= x)
  <2>1. \A y \in S : y <= e
    BY <1>1, <1>4
  <2> QED BY <1>4, <2>1
<1> QED BY <1>2, <1>3, <1>4

LEMMA WaitIsLongest ==
  ASSUME IInv, NEW u \in Names, NEW i \in Ips
  PROVE  LET K == KeysOf(u, i)
             b == Scanned(K, now)
             w == RetryAfter(b, K, now)
         IN  /\ IsFiniteSet(Tracked(b)) /\ IsFiniteSet(Untracked(b, K))
             /\ w \in Nat
             /\ \A k \in Full(b, K) : CeilSeconds(ExpiresAt(Earliest(b[k])) - now) <= w
             /\ Full(b, K) # {} => 1 <= w
             /\ Cardinality(Tracked(b)) + Cardinality(Untracked(b, K)) > MaxKeys => Window <= w
<1> DEFINE K == KeysOf(u, i)
           b == Scanned(K, now)
           F == Full(b, K)
           wait(k) == CeilSeconds(ExpiresAt(Earliest(b[k])) - now)
           crowded == Cardinality(Tracked(b)) + Cardinality(Untracked(b, K)) > MaxKeys
           waits(k) == IF k \in F THEN {wait(k)} ELSE {}
<1>1. /\ K \subseteq Keys /\ K = {PairKey(u, i), UserKey(u), IpKey(i)}
      /\ \A k \in Keys : b[k] \subseteq bucket[k]
  BY ScanRemovesExpired DEF Keys, KeysOf
<1>2. IsFiniteSet(Tracked(b)) /\ IsFiniteSet(Untracked(b, K))
  <2>1. Tracked(b) \in SUBSET Tracked(bucket)
    BY <1>1 DEF Tracked
  <2>2. IsFiniteSet({PairKey(u, i)})
    BY FS_Singleton
  <2>3. IsFiniteSet(({PairKey(u, i)} \cup {UserKey(u)}) \cup {IpKey(i)})
    BY <2>2, FS_AddElement
  <2>4. Untracked(b, K) \in SUBSET (({PairKey(u, i)} \cup {UserKey(u)}) \cup {IpKey(i)})
    BY <1>1 DEF Untracked
  <2> QED BY <2>1, <2>3, <2>4, FS_Subset DEF IInv
<1>3. /\ Cardinality(Tracked(b)) \in Nat /\ Cardinality(Untracked(b, K)) \in Nat
      /\ MaxKeys \in Nat /\ Window \in Nat /\ Window > 0
  BY <1>2, FS_CardinalityType, LimiterAssumption
<1>4. ASSUME NEW k \in F PROVE wait(k) \in Int
  <2>1. k \in Keys /\ b[k] # {} /\ b[k] \subseteq bucket[k]
    BY <1>1 DEF Full
  <2>2. b[k] \in SUBSET (1..Len(attempt)) /\ Len(attempt) \in Nat /\ now \in Nat
    BY <2>1, Facts DEF IInv
  <2>3. Earliest(b[k]) \in 1..Len(attempt)
    BY <2>1, <2>2, FirstOfBucket
  <2>4. ExpiresAt(Earliest(b[k])) \in Nat
    BY <2>3, Facts DEF IInv
  <2>5. Ticks \in Nat /\ Ticks > 0
    BY Constants
  <2> HIDE DEF b
  <2> QED BY <2>2, <2>4, <2>5 DEF CeilSeconds
<1> DEFINE W == {0} \cup Waits(b, K, now)
           one == IF F # {} THEN {1} ELSE {}
           window == IF crowded THEN {Window} ELSE {}
<1>5. W = (((({0} \cup waits(PairKey(u, i))) \cup waits(UserKey(u))) \cup waits(IpKey(i)))
            \cup one) \cup window
  <2>1. F \subseteq {PairKey(u, i), UserKey(u), IpKey(i)}
    BY <1>1 DEF Full
  <2>2. {wait(k) : k \in F} = (waits(PairKey(u, i)) \cup waits(UserKey(u))) \cup waits(IpKey(i))
    <3> HIDE DEF F, wait
    <3> QED BY <2>1
  <2>3. Waits(b, K, now) = ({wait(k) : k \in F} \cup one) \cup window
    BY DEF Waits
  <2> HIDE DEF F, wait, waits, one, window
  <2> QED BY <2>2, <2>3
<1>6. \E x \in W : \A y \in W : y <= x
  <2>1. \A k \in {PairKey(u, i), UserKey(u), IpKey(i)} :
          \E e \in Int : waits(k) = {} \/ waits(k) = {e}
    BY <1>4
  <2>2. \E e \in Int : one = {} \/ one = {e}
    <3>1. one = {} \/ one = {1}
      OBVIOUS
    <3> HIDE DEF one
    <3> QED BY <3>1
  <2>3. \E e \in Int : window = {} \/ window = {e}
    <3>1. window = {} \/ window = {Window}
      OBVIOUS
    <3> HIDE DEF window
    <3> QED BY <1>3, <3>1
  <2> HIDE DEF waits, one, window, W
  <2> DEFINE W1 == {0} \cup waits(PairKey(u, i))
             W2 == W1 \cup waits(UserKey(u))
             W3 == W2 \cup waits(IpKey(i))
             W4 == W3 \cup one
  <2>4. W1 \in SUBSET Int /\ \E x \in W1 : \A y \in W1 : y <= x
    <3>1. {0} \in SUBSET Int /\ \E x \in {0} : \A y \in {0} : y <= x
      OBVIOUS
    <3> QED BY <2>1, <3>1, OneMore
  <2> HIDE DEF W1
  <2>5. W2 \in SUBSET Int /\ \E x \in W2 : \A y \in W2 : y <= x
    <3> DEFINE T == waits(UserKey(u))
    <3>1. PICK e \in Int : T = {} \/ T = {e}
      BY <2>1
    <3> HIDE DEF T
    <3>2. W1 \cup T \in SUBSET Int /\ \E x \in W1 \cup T : \A y \in W1 \cup T : y <= x
      BY <2>4, <3>1, OneMore
    <3> QED BY <3>2 DEF T
  <2> HIDE DEF W2
  <2>6. W3 \in SUBSET Int /\ \E x \in W3 : \A y \in W3 : y <= x
    <3> DEFINE T == waits(IpKey(i))
    <3>1. PICK e \in Int : T = {} \/ T = {e}
      BY <2>1
    <3> HIDE DEF T
    <3>2. W2 \cup T \in SUBSET Int /\ \E x \in W2 \cup T : \A y \in W2 \cup T : y <= x
      BY <2>5, <3>1, OneMore
    <3> QED BY <3>2 DEF T
  <2> HIDE DEF W3
  <2>7. W4 \in SUBSET Int /\ \E x \in W4 : \A y \in W4 : y <= x
    BY <2>2, <2>6, OneMore
  <2> HIDE DEF W4
  <2>8. W4 \cup window \in SUBSET Int /\ \E x \in W4 \cup window : \A y \in W4 \cup window : y <= x
    BY <1>3, <2>3, <2>7, OneMore
  <2>9. W = W4 \cup window
    BY <1>5 DEF W1, W2, W3, W4
  <2> QED BY <2>8, <2>9
<1>7. W \in SUBSET Int
  BY <1>3, <1>4, <1>5
<1>8. Latest(W) \in W /\ \A y \in W : y <= Latest(W)
  <2> HIDE DEF W
  <2> QED BY <1>6, <1>7, LastIs
<1>9. /\ 0 \in W /\ (F # {} => 1 \in W)
      /\ crowded => Window \in W
      /\ \A k \in F : wait(k) \in W
  <2> HIDE DEF F, wait, waits, crowded
  <2>1. \A k \in F : k \in {PairKey(u, i), UserKey(u), IpKey(i)}
    BY <1>1 DEF F, Full
  <2> QED BY <1>5, <2>1 DEF waits
<1>10. Latest(W) \in Nat
  <2>1. Latest(W) \in Int /\ 0 <= Latest(W)
    <3> HIDE DEF W
    <3> QED BY <1>7, <1>8, <1>9
  <2> QED BY <2>1
<1>11. RetryAfter(b, K, now) = Latest(W)
  BY DEF RetryAfter
<1> HIDE DEF F, W
<1> QED BY <1>2, <1>8, <1>9, <1>10, <1>11 DEF F

(* Nobody is told to wait who is let in.                                   *)
LEMMA NoWait ==
  ASSUME IInv, NEW u \in Names, NEW i \in Ips,
         RetryAfter(Scanned(KeysOf(u, i), now), KeysOf(u, i), now) = 0
  PROVE  LET K == KeysOf(u, i)
             b == Scanned(K, now)
         IN  /\ Full(b, K) = {}
             /\ IsFiniteSet(Tracked(b)) /\ IsFiniteSet(Untracked(b, K))
             /\ Cardinality(Tracked(b)) + Cardinality(Untracked(b, K)) <= MaxKeys
<1> DEFINE K == KeysOf(u, i)
           b == Scanned(K, now)
<1>1. /\ IsFiniteSet(Tracked(b)) /\ IsFiniteSet(Untracked(b, K))
      /\ Full(b, K) # {} => 1 <= 0
      /\ Cardinality(Tracked(b)) + Cardinality(Untracked(b, K)) > MaxKeys => Window <= 0
  BY WaitIsLongest
<1>2. /\ Cardinality(Tracked(b)) \in Nat /\ Cardinality(Untracked(b, K)) \in Nat
      /\ MaxKeys \in Nat /\ Window \in Nat /\ Window > 0
  BY <1>1, FS_CardinalityType, LimiterAssumption
<1>3. /\ Full(b, K) = {}
      /\ Cardinality(Tracked(b)) + Cardinality(Untracked(b, K)) <= MaxKeys
  <2> HIDE DEF b, K
  <2> QED BY <1>1, <1>2
<1> QED BY <1>1, <1>3

(* The reservation itself.                                                 *)
LEMMA BeginKeeps ==
  ASSUME IInv, NEW u \in Names, NEW i \in Ips, BeginAttempt(u, i)
  PROVE  IInv'
<1> DEFINE K == KeysOf(u, i)
           b == Scanned(K, now)
           n == Len(attempt)
           s == n + 1
           new == [user |-> u, ip |-> i, at |-> now, state |-> "pending"]
<1>0. /\ LimiterTypeOK /\ now \in Nat /\ n \in Nat /\ DOMAIN attempt = 1..n
      /\ now' = now /\ K \subseteq Keys
  BY Facts DEF IInv, BeginAttempt, Keys
<1>1. /\ attempt' = Append(attempt, new)
      /\ bucket' = [k \in Keys |-> IF k \in K THEN b[k] \cup {s} ELSE b[k]]
      /\ expiry' = [k \in Keys |-> IF k \in K THEN now + Window * Ticks ELSE Kept(b)[k]]
  BY DEF BeginAttempt, Reserve
<1>2. new \in Attempt
  BY <1>0 DEF Attempt, AttemptState
<1>3. /\ attempt' \in Seq(Attempt) /\ Len(attempt') = s /\ DOMAIN attempt' = 1..s
      /\ attempt'[s] = new /\ \A r \in 1..n : attempt'[r] = attempt[r]
  <2>1. attempt \in Seq(Attempt)
    BY <1>0 DEF LimiterTypeOK, Attempt
  <2> HIDE DEF new
  <2> QED BY <1>0, <1>1, <1>2, <2>1
<1>4. \A k \in Keys :
        /\ b[k] \subseteq bucket[k] /\ bucket[k] \subseteq 1..n /\ IsFiniteSet(b[k])
        /\ \A r \in bucket[k] : ExpiresAt(r) > now => r \in b[k]
        /\ Kept(b)[k] = IF b[k] = {} THEN 0 ELSE ExpiresAt(Latest(b[k]))
  <2>1. \A k \in Keys : bucket[k] \subseteq 1..n /\ IsFiniteSet(bucket[k])
    BY <1>0, Facts
  <2> HIDE DEF b, n
  <2> QED BY <2>1, ScanRemovesExpired, FS_Subset DEF b
<1>5. /\ Full(b, K) = {}
      /\ IsFiniteSet(Tracked(b)) /\ IsFiniteSet(Untracked(b, K))
      /\ Cardinality(Tracked(b)) + Cardinality(Untracked(b, K)) <= MaxKeys
  BY NoWait DEF BeginAttempt
<1> HIDE DEF K, b, new
<1>6. \A k \in Keys : bucket'[k] = IF k \in K THEN b[k] \cup {s} ELSE b[k]
  BY <1>1
<1>7. \A k \in Keys : expiry'[k] = IF k \in K THEN now + Window * Ticks ELSE Kept(b)[k]
  BY <1>1
<1>8. /\ \A r \in 1..n : ExpiresAt(r)' = ExpiresAt(r)
      /\ attempt'[s].at = now
  BY <1>3 DEF ExpiresAt, new
<1>14. \A k \in Keys : b[k] \in SUBSET (1..n)
  BY <1>4
<1>15. s \notin 1..n /\ s \in 1..s /\ 1..n \subseteq 1..s
  BY <1>0
<1>9. LimiterTypeOK'
  <2>1. bucket' \in [Keys -> SUBSET (DOMAIN attempt')]
    <3>1. \A k \in Keys : bucket'[k] \subseteq 1..s
      BY <1>6, <1>14, <1>15
    <3> QED BY <1>1, <1>3, <3>1
  <2>2. ASSUME NEW k \in Keys PROVE expiry'[k] \in Nat
    <3>1. CASE k \in K
      BY <1>0, <1>7, <3>1, Constants
    <3>2. CASE k \notin K /\ b[k] = {}
      BY <1>4, <1>7, <3>2
    <3>3. CASE k \notin K /\ b[k] # {}
      <4>1. b[k] \in SUBSET (1..n)
        BY <1>4
      <4>2. Latest(b[k]) \in 1..n
        BY <1>0, <3>3, <4>1, LastOfBucket
      <4>3. ExpiresAt(Latest(b[k])) \in Nat
        BY <1>0, <4>2, Facts
      <4> QED BY <1>4, <1>7, <3>3, <4>3
    <3> QED BY <3>1, <3>2, <3>3
  <2>3. expiry' \in [Keys -> Nat]
    BY <1>1, <2>2
  <2> QED BY <1>0, <1>3, <2>1, <2>3 DEF LimiterTypeOK, Attempt
<1>10. InOrder'
  <2>1. ASSUME NEW r \in 1..s PROVE attempt'[r].at <= now' /\ \A x \in 1..r : attempt'[x].at <= attempt'[r].at
    <3>1. \A x \in 1..n : attempt[x].at \in Nat /\ attempt[x].at <= now
      BY <1>0, Facts DEF IInv, InOrder
    <3>2. new.at = now
      BY DEF new
    <3>3. CASE r \in 1..n
      BY <1>0, <1>3, <3>1, <3>3 DEF IInv, InOrder
    <3>4. CASE r = s
      <4>1. attempt'[r].at = now
        BY <1>3, <3>2, <3>4
      <4>2. ASSUME NEW x \in 1..r PROVE attempt'[x].at <= now
        <5>1. CASE x = s
          BY <1>0, <1>3, <3>2, <5>1
        <5>2. CASE x \in 1..n
          BY <1>3, <3>1, <5>2
        <5> QED BY <1>0, <3>4, <5>1, <5>2
      <4> QED BY <1>0, <4>1, <4>2
    <3> QED BY <1>0, <3>3, <3>4
  <2> QED BY <1>3, <2>1 DEF InOrder
<1>11. HeapMatchesBuckets'
  <2> SUFFICES ASSUME NEW k \in Keys
      PROVE  expiry'[k] = IF bucket'[k] = {} THEN 0 ELSE ExpiresAt(Latest(bucket[k]))'
    BY DEF HeapMatchesBuckets
  <2>1. CASE k \in K
    <3>1. bucket'[k] = b[k] \cup {s} /\ b[k] \subseteq 1..n
      BY <1>4, <1>6, <2>1
    <3>2. bucket'[k] \in SUBSET Int /\ s \in bucket'[k] /\ \A x \in bucket'[k] : x <= s
      BY <1>0, <3>1
    <3>3. Latest(bucket'[k]) = s
      BY <3>2, LastIs
    <3>4. ExpiresAt(Latest(bucket[k]))' = attempt'[Latest(bucket'[k])].at + Window * Ticks
      BY DEF ExpiresAt
    <3>5. ExpiresAt(Latest(bucket[k]))' = now + Window * Ticks
      BY <1>8, <3>3, <3>4
    <3> QED BY <1>7, <2>1, <3>2, <3>5
  <2>2. CASE k \notin K
    <3>1. bucket'[k] = b[k] /\ expiry'[k] = Kept(b)[k] /\ b[k] \in SUBSET (1..n)
      BY <1>4, <1>6, <1>7, <2>2
    <3>2. b[k] # {} => Latest(b[k]) \in 1..n
      BY <1>0, <3>1, LastOfBucket
    <3>3. b[k] # {} => ExpiresAt(Latest(bucket[k]))' = ExpiresAt(Latest(b[k]))
      BY <1>8, <3>1, <3>2 DEF ExpiresAt
    <3> QED BY <1>4, <3>1, <3>3
  <2> QED BY <2>1, <2>2
<1>12. IsFiniteSet(Tracked(bucket))' /\ BudgetsHold'
  <2>1. Tracked(bucket') = Tracked(b) \cup Untracked(b, K)
    BY <1>0, <1>6 DEF Tracked, Untracked
  <2>2. Tracked(b) \cap Untracked(b, K) = {}
    BY DEF Tracked, Untracked
  <2>3. /\ IsFiniteSet(Tracked(bucket'))
        /\ Cardinality(Tracked(bucket'))
             = Cardinality(Tracked(b)) + Cardinality(Untracked(b, K)) - Cardinality({})
    BY <1>5, <2>1, <2>2, FS_Union
  <2>4. Cardinality(Tracked(bucket')) <= MaxKeys
    <3>1. Cardinality(Tracked(b)) \in Nat /\ Cardinality(Untracked(b, K)) \in Nat
      BY <1>5, FS_CardinalityType
    <3> QED BY <1>5, <2>3, <3>1, FS_EmptySet
  <2>5. ASSUME NEW k \in Keys PROVE Cardinality(bucket'[k]) <= Limit(k)
    <3>1. IsFiniteSet(b[k]) /\ IsFiniteSet(bucket[k]) /\ Limit(k) \in Nat /\ Limit(k) >= 1
      BY <1>0, <1>4, Facts, Constants
    <3>2. Cardinality(b[k]) \in Nat /\ Cardinality(bucket[k]) \in Nat
      BY <3>1, FS_CardinalityType
    <3>3. Cardinality(b[k]) <= Limit(k)
      <4>1. Cardinality(b[k]) <= Cardinality(bucket[k])
        BY <1>4, <3>1, FS_Subset
      <4>2. Cardinality(bucket[k]) <= Limit(k)
        BY DEF IInv, BudgetsHold
      <4> QED BY <3>1, <3>2, <4>1, <4>2
    <3>4. CASE k \notin K
      BY <1>6, <3>3, <3>4
    <3>5. CASE k \in K
      <4>1. b[k] = {} \/ ~ (Cardinality(b[k]) >= Limit(k))
        BY <1>5, <3>5 DEF Full
      <4>2. Cardinality(b[k]) < Limit(k)
        BY <3>1, <3>2, <4>1, FS_EmptySet
      <4>3. bucket'[k] = b[k] \cup {s} /\ s \notin b[k]
        BY <1>6, <1>14, <1>15, <3>5
      <4>4. Cardinality(bucket'[k]) = Cardinality(b[k]) + 1
        BY <3>1, <4>3, FS_AddElement
      <4> QED BY <3>1, <3>2, <4>2, <4>4
    <3> QED BY <3>4, <3>5
  <2> QED BY <2>3, <2>4, <2>5 DEF BudgetsHold, Tracked
<1>13. EveryGuessIsCounted'
  <2> SUFFICES ASSUME NEW r \in 1..s, Counts(r)'
      PROVE  LET v == attempt'[r].user
                 j == attempt'[r].ip
             IN  /\ r \in bucket'[IpKey(j)]
                 /\ \/ r \in bucket'[UserKey(v)]
                    \/ \E x \in DOMAIN attempt' : Overtakes(x, r)' /\ attempt'[x].user = v
                 /\ \/ r \in bucket'[PairKey(v, j)]
                    \/ \E x \in DOMAIN attempt' :
                         Overtakes(x, r)' /\ attempt'[x].user = v /\ attempt'[x].ip = j
    BY <1>3 DEF EveryGuessIsCounted
  <2>1. CASE r = s
    <3>1. attempt'[r].user = u /\ attempt'[r].ip = i
      BY <1>3, <2>1 DEF new
    <3>2. /\ IpKey(i) \in Keys /\ UserKey(u) \in Keys /\ PairKey(u, i) \in Keys
          /\ IpKey(i) \in K /\ UserKey(u) \in K /\ PairKey(u, i) \in K
      BY <1>0 DEF K, KeysOf
    <3> QED BY <1>6, <2>1, <3>1, <3>2
  <2>2. CASE r \in 1..n
    <3> DEFINE v == attempt[r].user
               j == attempt[r].ip
    <3>1. attempt'[r] = attempt[r] /\ v \in Names /\ j \in Ips /\ ExpiresAt(r) > now /\ Counts(r)
      BY <1>0, <1>3, <1>8, <2>2, Facts DEF Counts
    <3>2. /\ IpKey(j) \in Keys /\ UserKey(v) \in Keys /\ PairKey(v, j) \in Keys
      BY <3>1, KeysAreKeys
    <3>3. \A k \in Keys : r \in bucket[k] => r \in bucket'[k]
      BY <1>4, <1>6, <3>1
    <3>4. \A x \in 1..n : attempt'[x] = attempt[x] /\ (Overtakes(x, r) => Overtakes(x, r)')
      BY <1>3, <3>1 DEF Overtakes
    <3>5. /\ r \in bucket[IpKey(j)]
          /\ \/ r \in bucket[UserKey(v)]
             \/ \E x \in 1..n : Overtakes(x, r) /\ attempt[x].user = v
          /\ \/ r \in bucket[PairKey(v, j)]
             \/ \E x \in 1..n : Overtakes(x, r) /\ attempt[x].user = v /\ attempt[x].ip = j
      BY <1>0, <2>2, <3>1 DEF IInv, EveryGuessIsCounted
    <3>6. 1..n \subseteq DOMAIN attempt'
      BY <1>0, <1>3
    <3> QED BY <3>1, <3>2, <3>3, <3>4, <3>5, <3>6
  <2> QED BY <1>0, <2>1, <2>2
<1> QED BY <1>9, <1>10, <1>11, <1>12, <1>13 DEF IInv

-----------------------------------------------------------------------------
(* The invariant is inductive.                                             *)
LEMMA InvariantInit == LimiterInit => IInv
<1> SUFFICES ASSUME LimiterInit PROVE IInv
  OBVIOUS
<1>1. /\ now = 0 /\ attempt = <<>> /\ DOMAIN attempt = {}
      /\ \A k \in Keys : bucket[k] = {} /\ expiry[k] = 0
  BY DEF LimiterInit
<1>2. LimiterTypeOK
  BY <1>1 DEF LimiterInit, LimiterTypeOK
<1>3. InOrder /\ EveryGuessIsCounted /\ HeapMatchesBuckets
  BY <1>1 DEF InOrder, EveryGuessIsCounted, HeapMatchesBuckets
<1>4. Tracked(bucket) = {}
  BY <1>1 DEF Tracked
<1>5. ASSUME NEW k \in Keys PROVE Cardinality(bucket[k]) <= Limit(k)
  <2>1. Cardinality(bucket[k]) = 0
    BY <1>1, FS_EmptySet
  <2>2. Limit(k) \in Nat
    BY Constants
  <2> QED BY <2>1, <2>2
<1>6. IsFiniteSet(Tracked(bucket)) /\ Cardinality(Tracked(bucket)) <= MaxKeys
  BY <1>4, FS_EmptySet, LimiterAssumption
<1> QED BY <1>2, <1>3, <1>5, <1>6 DEF IInv, BudgetsHold

LEMMA InvariantStep == IInv /\ [LimiterNext]_limiterVars => IInv'
<1> SUFFICES ASSUME IInv, [LimiterNext]_limiterVars PROVE IInv'
  OBVIOUS
<1>1. ASSUME NEW u \in Names, NEW i \in Ips, BeginAttempt(u, i) PROVE IInv'
  BY <1>1, BeginKeeps
<1>2. ASSUME NEW u \in Names, NEW i \in Ips, Blocked(u, i) PROVE IInv'
  BY <1>2, BlockedKeeps
<1>3. ASSUME NEW s \in DOMAIN attempt, FinalizeFailure(s) PROVE IInv'
  BY <1>3, FinalizeFailureKeeps
<1>4. ASSUME NEW s \in DOMAIN attempt, FinalizeSuccess(s) PROVE IInv'
  BY <1>4, FinalizeSuccessKeeps
<1>5. ASSUME NEW s \in DOMAIN attempt, Cancel(s) PROVE IInv'
  BY <1>5, CancelKeeps
<1>6. ASSUME NEW s \in DOMAIN attempt, SettleLate(s) PROVE IInv'
  BY <1>6, SettleLateKeeps
<1>7. CASE Tick
  BY <1>7, TickKeeps
<1>8. CASE UNCHANGED limiterVars
  <2>1. UNCHANGED now /\ UNCHANGED attempt /\ UNCHANGED bucket /\ UNCHANGED expiry
    BY <1>8 DEF limiterVars
  <2> QED BY <2>1 DEF IInv, LimiterTypeOK, InOrder, HeapMatchesBuckets, BudgetsHold, Tracked,
                      EveryGuessIsCounted, Counts, Overtakes, ExpiresAt
<1> QED BY <1>1, <1>2, <1>3, <1>4, <1>5, <1>6, <1>7, <1>8 DEF LimiterNext

(* With what every bucket holds, and what its limit is, the attempts that  *)
(* count are bounded.                                                      *)
LEMMA CountedIsBounded == IInv => GuessesAreBounded
<1> SUFFICES ASSUME IInv PROVE GuessesAreBounded
  OBVIOUS
<1>0. LimiterTypeOK
  BY DEF IInv
<1>1. ASSUME NEW u \in Names PROVE Cardinality(SinceSuccess(u)) <= UserLimit
  <2>1. ASSUME NEW s \in SinceSuccess(u) PROVE s \in bucket[UserKey(u)]
    <3>1. /\ s \in DOMAIN attempt /\ attempt[s].user = u /\ Counts(s)
          /\ \A x \in DOMAIN attempt :
               attempt[x].user = u /\ attempt[x].state = "succeeded" => x < s
      BY DEF SinceSuccess
    <3>2. \A x \in DOMAIN attempt : ~ (attempt[x].user = u /\ Overtakes(x, s))
      <4>1. DOMAIN attempt = 1..Len(attempt) /\ Len(attempt) \in Nat
        BY <1>0, Facts
      <4> QED BY <3>1, <4>1 DEF Overtakes
    <3> QED BY <3>1, <3>2 DEF IInv, EveryGuessIsCounted
  <2> QED
    <3>1. SinceSuccess(u) = {} \/ SinceSuccess(u) # {}
      OBVIOUS
    <3>2. SinceSuccess(u) \in SUBSET bucket[UserKey(u)]
      BY <2>1
    <3>3. CASE SinceSuccess(u) # {}
      <4>1. UserKey(u) \in Keys
        <5>1. PICK s \in SinceSuccess(u) : TRUE
          BY <3>3
        <5>2. s \in DOMAIN attempt /\ attempt[s].user = u
          BY <5>1 DEF SinceSuccess
        <5>3. attempt[s].ip \in Ips
          BY <1>0, <5>2, Facts
        <5> QED BY <5>3, KeysAreKeys
      <4>2. IsFiniteSet(bucket[UserKey(u)])
        BY <1>0, <4>1, Facts
      <4>3. /\ Cardinality(SinceSuccess(u)) <= Cardinality(bucket[UserKey(u)])
            /\ IsFiniteSet(SinceSuccess(u))
        BY <3>2, <4>2, FS_Subset
      <4>4. Cardinality(bucket[UserKey(u)]) <= Limit(UserKey(u))
        BY <4>1 DEF IInv, BudgetsHold
      <4>5. Limit(UserKey(u)) = UserLimit
        BY DEF Limit, UserKey
      <4>6. /\ Cardinality(SinceSuccess(u)) \in Nat /\ Cardinality(bucket[UserKey(u)]) \in Nat
            /\ UserLimit \in Nat
        BY <4>2, <4>3, FS_CardinalityType, LimiterAssumption
      <4> QED BY <4>3, <4>4, <4>5, <4>6
    <3>4. CASE SinceSuccess(u) = {}
      BY <3>4, FS_EmptySet, LimiterAssumption
    <3> QED BY <3>1, <3>3, <3>4
<1>2. ASSUME NEW i \in Ips PROVE Cardinality(FromAddress(i)) <= IpLimit
  <2>1. FromAddress(i) \in SUBSET bucket[IpKey(i)]
    BY DEF FromAddress, IInv, EveryGuessIsCounted
  <2>2. CASE FromAddress(i) # {}
    <3>1. IpKey(i) \in Keys
      <4>1. PICK s \in FromAddress(i) : TRUE
        BY <2>2
      <4>2. s \in DOMAIN attempt /\ attempt[s].ip = i
        BY <4>1 DEF FromAddress
      <4>3. attempt[s].user \in Names
        BY <1>0, <4>2, Facts
      <4> QED BY <4>3, KeysAreKeys
    <3>2. IsFiniteSet(bucket[IpKey(i)])
      BY <1>0, <3>1, Facts
    <3>3. /\ Cardinality(FromAddress(i)) <= Cardinality(bucket[IpKey(i)])
          /\ IsFiniteSet(FromAddress(i))
      BY <2>1, <3>2, FS_Subset
    <3>4. Cardinality(bucket[IpKey(i)]) <= Limit(IpKey(i)) /\ Limit(IpKey(i)) = IpLimit
      BY <3>1 DEF IInv, BudgetsHold, Limit, IpKey
    <3>5. /\ Cardinality(FromAddress(i)) \in Nat /\ Cardinality(bucket[IpKey(i)]) \in Nat
          /\ IpLimit \in Nat
      BY <3>2, <3>3, FS_CardinalityType, LimiterAssumption
    <3> QED BY <3>3, <3>4, <3>5
  <2>3. CASE FromAddress(i) = {}
    BY <2>3, FS_EmptySet, LimiterAssumption
  <2> QED BY <2>2, <2>3
<1> QED BY <1>1, <1>2 DEF GuessesAreBounded

-----------------------------------------------------------------------------
(* The time to wait.                                                       *)

(* Products of times.                                                      *)
LEMMA NatProduct ==
  ASSUME NEW x \in Nat, NEW y \in Nat
  PROVE  x * y \in Nat
  OBVIOUS

LEMMA OnlyLonger ==
  ASSUME NEW x \in Nat, NEW y \in Nat, NEW z \in Nat, x <= y
  PROVE  x * z <= y * z
  OBVIOUS

(* Rounding a wait up to whole seconds never cuts it.                      *)
LEMMA CeilSuffices ==
  ASSUME NEW d \in Nat
  PROVE  CeilSeconds(d) \in Nat /\ d <= CeilSeconds(d) * Ticks
<1> DEFINE n == d + Ticks - 1
           q == n \div Ticks
<1>1. Ticks \in Nat /\ Ticks > 0 /\ n \in Nat
  BY Constants
<1>2. q \in Nat /\ n % Ticks \in 0..(Ticks - 1) /\ n = Ticks * q + (n % Ticks)
  <2> HIDE DEF n
  <2> QED BY <1>1
<1>3. Ticks * q \in Nat /\ Ticks * q = q * Ticks
  <2> HIDE DEF q
  <2> QED BY <1>1, <1>2
<1>4. d <= Ticks * q
  <2> HIDE DEF q
  <2> QED BY <1>1, <1>2, <1>3
<1> QED BY <1>2, <1>3, <1>4 DEF CeilSeconds

(* A scan at a later time keeps no more.                                   *)
LEMMA ScanLater ==
  ASSUME IInv, NEW K \in SUBSET Keys, NEW later \in Nat, now <= later
  PROVE  \A k \in Keys :
           /\ Scanned(K, later)[k] \subseteq Scanned(K, now)[k]
           /\ Scanned(K, now)[k] \subseteq bucket[k]
           /\ k \in K => \A s \in Scanned(K, later)[k] : ExpiresAt(s) > later
           /\ k \in K => \A s \in Scanned(K, now)[k] : ExpiresAt(s) > now
<1> SUFFICES ASSUME NEW k \in Keys
    PROVE  /\ Scanned(K, later)[k] \subseteq Scanned(K, now)[k]
           /\ Scanned(K, now)[k] \subseteq bucket[k]
           /\ k \in K => \A s \in Scanned(K, later)[k] : ExpiresAt(s) > later
           /\ k \in K => \A s \in Scanned(K, now)[k] : ExpiresAt(s) > now
  OBVIOUS
<1>1. /\ now \in Nat /\ expiry[k] \in Nat
      /\ \A s \in bucket[k] : ExpiresAt(s) \in Nat
  BY Facts DEF IInv
<1> QED BY <1>1 DEF Scanned, Live

(* After a whole window every event that there is has expired.             *)
LEMMA WindowPasses ==
  ASSUME IInv, NEW K \in SUBSET Keys, NEW later \in Nat, now + Window * Ticks <= later
  PROVE  \A k \in Keys : Scanned(K, later)[k] = {}
<1> SUFFICES ASSUME NEW k \in Keys PROVE expiry[k] <= later
  BY DEF Scanned
<1>1. CASE bucket[k] = {}
  BY <1>1 DEF IInv, HeapMatchesBuckets
<1>2. CASE bucket[k] # {}
  <2> DEFINE m == Latest(bucket[k])
  <2>1. bucket[k] \subseteq 1..Len(attempt) /\ Len(attempt) \in Nat /\ now \in Nat
    BY Facts DEF IInv
  <2>2. m \in 1..Len(attempt)
    BY <1>2, <2>1, LastOfBucket
  <2> HIDE DEF m
  <2>3. attempt[m].at <= now /\ attempt[m].at \in Nat /\ Window * Ticks \in Nat
    BY <2>2, Facts, Constants DEF IInv, InOrder
  <2>4. expiry[k] = ExpiresAt(m)
    BY <1>2 DEF IInv, HeapMatchesBuckets, m
  <2> QED BY <2>1, <2>3, <2>4 DEF ExpiresAt
<1> QED BY <1>1, <1>2

(* The keys of an attempt are three at most.                               *)
LEMMA ThreeKeys ==
  ASSUME NEW u \in Names, NEW i \in Ips
  PROVE  IsFiniteSet(KeysOf(u, i)) /\ Cardinality(KeysOf(u, i)) <= MaxKeys
<1>1. IsFiniteSet({PairKey(u, i)}) /\ Cardinality({PairKey(u, i)}) = 1
  BY FS_Singleton
<1> DEFINE two == {PairKey(u, i)} \cup {UserKey(u)}
<1>2. IsFiniteSet(two) /\ Cardinality(two) \in Nat /\ Cardinality(two) <= 2
  <2>1. /\ IsFiniteSet(two)
        /\ \/ Cardinality(two) = Cardinality({PairKey(u, i)})
           \/ Cardinality(two) = Cardinality({PairKey(u, i)}) + 1
    BY <1>1, FS_AddElement
  <2> QED BY <1>1, <2>1
<1> HIDE DEF two
<1>3. IsFiniteSet(two \cup {IpKey(i)}) /\ Cardinality(two \cup {IpKey(i)}) <= 3
  <2>1. /\ IsFiniteSet(two \cup {IpKey(i)})
        /\ \/ Cardinality(two \cup {IpKey(i)}) = Cardinality(two)
           \/ Cardinality(two \cup {IpKey(i)}) = Cardinality(two) + 1
    BY <1>2, FS_AddElement
  <2> QED BY <1>2, <2>1
<1>4. KeysOf(u, i) = two \cup {IpKey(i)}
  BY DEF KeysOf, two
<1>5. Cardinality(KeysOf(u, i)) \in Nat
  BY <1>3, <1>4, FS_CardinalityType
<1> QED BY <1>3, <1>4, <1>5, LimiterAssumption

(* Keys that are tracked, or about to be, are those of a union.            *)
LEMMA Crowd ==
  ASSUME NEW b, NEW K \in SUBSET Keys, IsFiniteSet(Tracked(b)), IsFiniteSet(K)
  PROVE  /\ IsFiniteSet(Tracked(b) \cup K)
         /\ Cardinality(Tracked(b)) + Cardinality(Untracked(b, K)) = Cardinality(Tracked(b) \cup K)
<1>1. IsFiniteSet(Untracked(b, K))
  <2>1. Untracked(b, K) \in SUBSET K
    BY DEF Untracked
  <2> QED BY <2>1, FS_Subset
<1>2. Tracked(b) \cap Untracked(b, K) = {} /\ Tracked(b) \cup Untracked(b, K) = Tracked(b) \cup K
  BY DEF Tracked, Untracked
<1>3. /\ IsFiniteSet(Tracked(b) \cup Untracked(b, K))
      /\ Cardinality(Tracked(b) \cup Untracked(b, K)) =
           Cardinality(Tracked(b)) + Cardinality(Untracked(b, K)) - Cardinality({})
  BY <1>1, <1>2, FS_Union
<1>4. Cardinality({}) = 0 /\ Cardinality(Tracked(b)) \in Nat /\ Cardinality(Untracked(b, K)) \in Nat
  BY <1>1, FS_EmptySet, FS_CardinalityType
<1>5. /\ IsFiniteSet(Tracked(b) \cup K)
      /\ Cardinality(Tracked(b) \cup K) = Cardinality(Tracked(b)) + Cardinality(Untracked(b, K)) - 0
  BY <1>2, <1>3, <1>4
<1> QED BY <1>4, <1>5

(* Whoever waits as long as told finds room in every bucket: the first     *)
(* event of each full one has expired ...                                  *)
LEMMA BucketsHaveRoom ==
  ASSUME IInv, NEW u \in Names, NEW i \in Ips, NEW later \in Nat,
         later = now + RetryAfter(Scanned(KeysOf(u, i), now), KeysOf(u, i), now) * Ticks,
         now <= later
  PROVE  Full(Scanned(KeysOf(u, i), later), KeysOf(u, i)) = {}
<1> DEFINE K == KeysOf(u, i)
           b == Scanned(K, now)
           c == Scanned(K, later)
           w == RetryAfter(b, K, now)
<1> SUFFICES ASSUME NEW k \in Full(c, K) PROVE FALSE
  OBVIOUS
<1>1. K \in SUBSET Keys /\ k \in Keys /\ k \in K
  BY DEF Keys, Full
<1>2. /\ c[k] \subseteq b[k] /\ b[k] \subseteq bucket[k]
      /\ \A s \in c[k] : ExpiresAt(s) > later
      /\ \A s \in b[k] : ExpiresAt(s) > now
  BY <1>1, ScanLater
<1>3. IsFiniteSet(bucket[k]) /\ Cardinality(bucket[k]) <= Limit(k) /\ Limit(k) \in Nat
  BY <1>1, Facts, Constants DEF IInv, BudgetsHold
<1>4. c[k] # {} /\ Cardinality(c[k]) >= Limit(k)
  BY DEF Full
<1> HIDE DEF b, c
<1>5. /\ IsFiniteSet(b[k]) /\ Cardinality(b[k]) <= Cardinality(bucket[k])
      /\ IsFiniteSet(c[k]) /\ Cardinality(c[k]) <= Cardinality(b[k])
      /\ Cardinality(c[k]) = Cardinality(b[k]) => c[k] = b[k]
  BY <1>2, <1>3, FS_Subset
<1>6. /\ Cardinality(bucket[k]) \in Nat /\ Cardinality(b[k]) \in Nat
      /\ Cardinality(c[k]) \in Nat
  BY <1>3, <1>5, FS_CardinalityType
<1>7. c[k] = b[k] /\ k \in Full(b, K)
  BY <1>1, <1>3, <1>4, <1>5, <1>6 DEF Full
<1> DEFINE f == Earliest(b[k])
<1>8. /\ f \in b[k] /\ ExpiresAt(f) > later /\ ExpiresAt(f) > now
      /\ ExpiresAt(f) \in Nat /\ now \in Nat
  <2>1. /\ bucket[k] \subseteq 1..Len(attempt) /\ Len(attempt) \in Nat /\ now \in Nat
        /\ \A s \in 1..Len(attempt) : ExpiresAt(s) \in Nat
    BY <1>1, Facts DEF IInv
  <2>2. b[k] \in SUBSET (1..Len(attempt)) /\ b[k] # {}
    BY <1>2, <1>4, <1>7, <2>1
  <2>3. f \in b[k]
    BY <2>1, <2>2, FirstOfBucket
  <2> QED BY <1>2, <1>7, <2>1, <2>2, <2>3
<1> HIDE DEF f
<1>9. CeilSeconds(ExpiresAt(f) - now) <= w /\ w \in Nat
  BY <1>7, WaitIsLongest DEF b, f
<1>10. ExpiresAt(f) - now \in Nat
  BY <1>8
<1>11. /\ CeilSeconds(ExpiresAt(f) - now) \in Nat
       /\ ExpiresAt(f) - now <= CeilSeconds(ExpiresAt(f) - now) * Ticks
  BY <1>10, CeilSuffices
<1>12. later = now + w * Ticks
  BY DEF b
<1> HIDE DEF w
<1>13. CeilSeconds(ExpiresAt(f) - now) * Ticks <= w * Ticks
  BY <1>9, <1>11, Constants, OnlyLonger
<1>14. ExpiresAt(f) <= later
  <2>1. CeilSeconds(ExpiresAt(f) - now) * Ticks \in Nat /\ w * Ticks \in Nat
    BY <1>9, <1>11, Constants, NatProduct
  <2> QED BY <1>8, <1>11, <1>12, <1>13, <2>1
<1> QED BY <1>8, <1>14

(* ... and in the table: if it was crowded the whole window has passed.    *)
LEMMA TableHasRoom ==
  ASSUME IInv, NEW u \in Names, NEW i \in Ips, NEW later \in Nat,
         later = now + RetryAfter(Scanned(KeysOf(u, i), now), KeysOf(u, i), now) * Ticks,
         now <= later
  PROVE  LET K == KeysOf(u, i)
             c == Scanned(K, later)
         IN  ~ (Cardinality(Tracked(c)) + Cardinality(Untracked(c, K)) > MaxKeys)
<1> DEFINE K == KeysOf(u, i)
           b == Scanned(K, now)
           c == Scanned(K, later)
           w == RetryAfter(b, K, now)
<1>1. K \in SUBSET Keys
  BY DEF Keys
<1>2. Tracked(c) \in SUBSET Tracked(b)
  BY <1>1, ScanLater DEF Tracked
<1>3. /\ IsFiniteSet(K) /\ Cardinality(K) <= MaxKeys
      /\ IsFiniteSet(Tracked(b)) /\ IsFiniteSet(Tracked(c))
  BY <1>2, ThreeKeys, WaitIsLongest, FS_Subset
<1>4. w \in Nat
  BY WaitIsLongest
<1>5. /\ IsFiniteSet(Tracked(b) \cup K) /\ IsFiniteSet(Tracked(c) \cup K)
      /\ Cardinality(Tracked(b)) + Cardinality(Untracked(b, K)) = Cardinality(Tracked(b) \cup K)
      /\ Cardinality(Tracked(c)) + Cardinality(Untracked(c, K)) = Cardinality(Tracked(c) \cup K)
  BY <1>1, <1>3, Crowd
<1>6. /\ Cardinality(Tracked(b) \cup K) \in Nat /\ Cardinality(Tracked(c) \cup K) \in Nat
      /\ Cardinality(K) \in Nat /\ MaxKeys \in Nat
  BY <1>3, <1>5, FS_CardinalityType, LimiterAssumption
<1>7. ASSUME Cardinality(Tracked(b) \cup K) <= MaxKeys
      PROVE  Cardinality(Tracked(c) \cup K) <= MaxKeys
  <2>1. Tracked(c) \cup K \in SUBSET (Tracked(b) \cup K)
    BY <1>2
  <2>2. Cardinality(Tracked(c) \cup K) <= Cardinality(Tracked(b) \cup K)
    BY <1>5, <2>1, FS_Subset
  <2> HIDE DEF b, c, K
  <2> QED BY <1>6, <1>7, <2>2
<1>8. ASSUME ~ (Cardinality(Tracked(b) \cup K) <= MaxKeys)
      PROVE  Cardinality(Tracked(c) \cup K) <= MaxKeys
  <2>1. Window <= w
    <3>1. Cardinality(Tracked(b)) + Cardinality(Untracked(b, K)) > MaxKeys
      BY <1>5, <1>6, <1>8
    <3> QED BY <3>1, WaitIsLongest
  <2>2. now + Window * Ticks <= later
    <3>1. now \in Nat /\ Window * Ticks \in Nat /\ w * Ticks \in Nat
      BY <1>4, Facts, Constants, NatProduct DEF IInv
    <3>2. Window * Ticks <= w * Ticks
      BY <1>4, <2>1, Constants, OnlyLonger
    <3> HIDE DEF w
    <3> QED BY <3>1, <3>2 DEF w
  <2>3. Tracked(c) = {}
    BY <1>1, <2>2, WindowPasses DEF Tracked
  <2>4. Tracked(c) \cup K = K
    BY <2>3
  <2> QED BY <1>3, <2>4
<1>9. ~ (Cardinality(Tracked(c)) + Cardinality(Untracked(c, K)) > MaxKeys)
  <2> HIDE DEF b, c, K
  <2> QED BY <1>5, <1>6, <1>7, <1>8
<1> QED BY <1>9

(* So it is not told to wait again.                                        *)
LEMMA WaitingSuffices == IInv => RetryAfterSuffices
<1> SUFFICES ASSUME IInv, NEW u \in Names, NEW i \in Ips
    PROVE  LET K == KeysOf(u, i)
               later == now + RetryAfter(Scanned(K, now), K, now) * Ticks
           IN  RetryAfter(Scanned(K, later), K, later) = 0
  BY DEF RetryAfterSuffices
<1> DEFINE K == KeysOf(u, i)
           w == RetryAfter(Scanned(K, now), K, now)
           later == now + w * Ticks
           c == Scanned(K, later)
<1>1. later \in Nat /\ now <= later
  <2>1. now \in Nat /\ w \in Nat
    BY Facts, WaitIsLongest DEF IInv
  <2> HIDE DEF w
  <2>2. w * Ticks \in Nat
    BY <2>1, Constants, NatProduct
  <2> QED BY <2>1, <2>2
<1> HIDE DEF later
<1>2. later = now + RetryAfter(Scanned(KeysOf(u, i), now), KeysOf(u, i), now) * Ticks
  BY DEF later
<1>3. Full(c, K) = {}
  BY <1>1, <1>2, BucketsHaveRoom
<1>4. ~ (Cardinality(Tracked(c)) + Cardinality(Untracked(c, K)) > MaxKeys)
  BY <1>1, <1>2, TableHasRoom
<1> HIDE DEF c, K
<1>5. {0} \cup Waits(c, K, later) = {0}
  BY <1>3, <1>4 DEF Waits
<1>6. Latest({0}) = 0
  BY DEF Latest
<1>7. RetryAfter(c, K, later) = 0
  BY <1>5, <1>6 DEF RetryAfter
<1> QED BY <1>7 DEF c, K, later

(* The limiter's variables keep their types.                               *)
THEOREM TypeCorrect == LimiterSpec => []LimiterTypeOK
<1>1. IInv => LimiterTypeOK
  BY DEF IInv
<1> QED BY <1>1, InvariantInit, InvariantStep, PTL DEF LimiterSpec

(* No reservation is refused by a bucket or by the table: what was checked *)
(* before it is enough.                                                    *)
THEOREM BudgetsAlwaysHold == LimiterSpec => []BudgetsHold
<1>1. IInv => BudgetsHold
  BY DEF IInv
<1> QED BY <1>1, InvariantInit, InvariantStep, PTL DEF LimiterSpec

(* The heap and the buckets always speak of the same keys and times.       *)
THEOREM HeapAlwaysMatchesBuckets == LimiterSpec => []HeapMatchesBuckets
<1>1. IInv => HeapMatchesBuckets
  BY DEF IInv
<1> QED BY <1>1, InvariantInit, InvariantStep, PTL DEF LimiterSpec

(* No attempt is forgotten within its window, however logins overlap.      *)
THEOREM EveryGuessIsAlwaysCounted == LimiterSpec => []EveryGuessIsCounted
<1>1. IInv => EveryGuessIsCounted
  BY DEF IInv
<1> QED BY <1>1, InvariantInit, InvariantStep, PTL DEF LimiterSpec

(* What the limiter is for: guesses at a user's password, and from an      *)
(* address, are within their limits in every window.                       *)
THEOREM GuessesAreAlwaysBounded == LimiterSpec => []GuessesAreBounded
<1> QED BY CountedIsBounded, InvariantInit, InvariantStep, PTL DEF LimiterSpec

(* A client that comes back after the seconds it was told is let in, if    *)
(* nothing else has happened: Retry-After is never too early, whichever of *)
(* the three buckets or the table refused it (_retry_after_for).           *)
THEOREM RetryAfterAlwaysSuffices == LimiterSpec => []RetryAfterSuffices
<1> QED BY WaitingSuffices, InvariantInit, InvariantStep, PTL DEF LimiterSpec
=============================================================================
