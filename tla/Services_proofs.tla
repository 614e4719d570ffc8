--------------------------- MODULE Services_proofs ---------------------------
(***************************************************************************)
(* Proofs about the parts that share no state with one another: what an    *)
(* agent's model reads (AgentContext), the evaluation of retrieval         *)
(* (RagEvaluation), the gate of the agents' evaluation (AgentEvaluation)   *)
(* and long-term memory (LongTermMemory).  They hold for any profiles,     *)
(* conversations, golden cases, answers, traces, users, memories and       *)
(* limits.                                                                 *)
(***************************************************************************)
EXTENDS AgentContext, RagEvaluation, AgentEvaluation, LongTermMemory, Recursion, FiniteSetTheorems,
        SequenceTheorems, TLAPS

(* Totals adds up, element by element.                                     *)
LEMMA TotalsAre ==
  ASSUME NEW n \in Nat, NEW S, NEW f, \A i \in 1..n : i \in S => f[i] \in Nat
  PROVE  LET total == Totals(f, S, n)
         IN  /\ \A i \in 0..n : total[i] \in Nat
             /\ total[0] = 0
             /\ \A i \in 1..n : total[i] = total[i - 1] + (IF i \in S THEN f[i] ELSE 0)
<1> DEFINE d == [i \in 1..n |-> IF i \in S THEN f[i] ELSE 0]
           step == [i \in 1..n |-> [x \in Nat |-> x + d[i]]]
           Values(t) == [i \in 0..n |-> IF i = 0 THEN 0 ELSE t[i - 1] + (IF i \in S THEN f[i] ELSE 0)]
<1>1. d \in [1..n -> Nat]
  OBVIOUS
<1>2. PICK t \in [0..n -> Nat] : t[0] = 0 /\ \A i \in 1..n : t[i] = step[i][t[i - 1]]
  <2>1. step \in [1..n -> [Nat -> Nat]]
    <3>1. ASSUME NEW i \in 1..n PROVE [x \in Nat |-> x + d[i]] \in [Nat -> Nat]
      BY <1>1
    <3> QED BY <3>1
  <2>2. Computable(n, Nat, 0, step)
    <3> HIDE DEF step
    <3> QED BY <2>1, RecursionExists
  <2> QED BY <2>2 DEF Computable
<1>3. ASSUME NEW i \in 1..n PROVE t[i] = t[i - 1] + (IF i \in S THEN f[i] ELSE 0)
  <2>1. t[i - 1] \in Nat
    BY <1>2
  <2> QED BY <1>2, <2>1
<1>4. t = Values(t)
  BY <1>2, <1>3
<1> DEFINE total == Totals(f, S, n)
<1>5. total = Values(total)
  <2>1. total = CHOOSE u : u = Values(u)
    BY DEF Totals
  <2> HIDE DEF Values
  <2> QED BY <1>4, <2>1
<1> HIDE DEF total
<1>6. total[0] = 0 /\ \A i \in 1..n : total[i] = total[i - 1] + (IF i \in S THEN f[i] ELSE 0)
  BY <1>5
<1> DEFINE T == {i \in 0..n : total[i] \in Nat}
<1>7. 0..n \subseteq T
  <2>1. 0 \in T
    BY <1>6
  <2>2. ASSUME NEW i \in 1..n, i - 1 \in T PROVE i \in T
    <3>1. total[i - 1] \in Nat /\ (i \in S => f[i] \in Nat)
      BY <2>2
    <3>2. total[i] = total[i - 1] + (IF i \in S THEN f[i] ELSE 0)
      BY <1>6
    <3> QED BY <3>1, <3>2
  <2> HIDE DEF T
  <2> QED BY <2>1, <2>2, UpTo
<1>8. \A i \in 0..n : total[i] \in Nat
  BY <1>7
<1> QED BY <1>6, <1>8 DEF total

(* Nothing adds up to nothing.                                             *)
LEMMA TotalOfNone ==
  ASSUME NEW n \in Nat, NEW f
  PROVE  Total(f, {}, n) = 0
<1> DEFINE total == Totals(f, {}, n)
           T == {i \in 0..n : total[i] = 0}
<1>1. /\ total[0] = 0
      /\ \A i \in 1..n : total[i] = total[i - 1] + (IF i \in {} THEN f[i] ELSE 0)
  BY TotalsAre
<1> HIDE DEF total
<1>2. 0 \in T
  BY <1>1
<1>3. ASSUME NEW i \in 1..n, i - 1 \in T PROVE i \in T
  BY <1>1, <1>3
<1>4. 0..n \subseteq T
  <2> HIDE DEF T
  <2> QED BY <1>2, <1>3, UpTo
<1>5. n \in T
  BY <1>4
<1> QED BY <1>5 DEF Total, total

(* One alone adds up to itself.                                            *)
LEMMA TotalOfOne ==
  ASSUME NEW n \in Nat, NEW f, NEW m \in 1..n, f[m] \in Nat
  PROVE  Total(f, {m}, n) = f[m]
<1> DEFINE total == Totals(f, {m}, n)
           T == {i \in 0..n : total[i] = IF i < m THEN 0 ELSE f[m]}
<1>1. /\ total[0] = 0
      /\ \A i \in 1..n : total[i] = total[i - 1] + (IF i \in {m} THEN f[i] ELSE 0)
  BY TotalsAre
<1> HIDE DEF total
<1>2. 0 \in T
  BY <1>1
<1>3. ASSUME NEW i \in 1..n, i - 1 \in T PROVE i \in T
  BY <1>1, <1>3
<1>4. 0..n \subseteq T
  <2> HIDE DEF T
  <2> QED BY <1>2, <1>3, UpTo
<1>5. n \in T
  BY <1>4
<1> QED BY <1>5 DEF Total, total

(* A total is a natural number.                                            *)
LEMMA TotalIsNatural ==
  ASSUME NEW n \in Nat, NEW S, NEW f, \A i \in 1..n : i \in S => f[i] \in Nat
  PROVE  Total(f, S, n) \in Nat
<1>1. \A i \in 0..n : Totals(f, S, n)[i] \in Nat
  BY TotalsAre
<1> QED BY <1>1 DEF Total

-----------------------------------------------------------------------------
(* Fitting: what Used counts.                                              *)
IsShown(S, cost, always, budget, used, r) ==
  r \in S /\ (r \in always \/ used[r + 1] + cost[r] <= budget)

Counted(S, cost, always, budget, used) ==
  /\ \A r \in 1..MaxRounds + 1 : used[r] \in Nat
  /\ used[MaxRounds + 1] = 0
  /\ \A r \in Rounds :
       used[r] = used[r + 1] + (IF IsShown(S, cost, always, budget, used, r) THEN cost[r] ELSE 0)

LEMMA UsedIs ==
  ASSUME NEW S \in SUBSET Rounds, NEW cost \in [Rounds -> Nat], NEW always, NEW budget \in Nat
  PROVE  Counted(S, cost, always, budget, Used(S, cost, always, budget))
<1> USE ContextAssumption
<1> DEFINE N == MaxRounds
           fits(r, x) == r \in S /\ (r \in always \/ x + cost[r] <= budget)
           step == [i \in 1..N |-> [x \in Nat |-> x + (IF fits(N + 1 - i, x) THEN cost[N + 1 - i] ELSE 0)]]
           Values(u) == [r \in 1..N + 1 |->
                           IF r > N THEN 0
                           ELSE u[r + 1] + (IF r \in S /\ (r \in always \/ u[r + 1] + cost[r] <= budget)
                                            THEN cost[r] ELSE 0)]
<1>0. N \in Nat
  OBVIOUS
<1>1. PICK t \in [0..N -> Nat] : t[0] = 0 /\ \A i \in 1..N : t[i] = step[i][t[i - 1]]
  <2>1. step \in [1..N -> [Nat -> Nat]]
    <3>1. ASSUME NEW i \in 1..N
          PROVE  [x \in Nat |-> x + (IF fits(N + 1 - i, x) THEN cost[N + 1 - i] ELSE 0)] \in [Nat -> Nat]
      <4>1. cost[N + 1 - i] \in Nat
        BY DEF Rounds
      <4> HIDE DEF fits
      <4> QED BY <4>1
    <3> QED BY <3>1
  <2>2. Computable(N, Nat, 0, step)
    <3> HIDE DEF step, N
    <3> QED BY <1>0, <2>1, RecursionExists
  <2> QED BY <2>2 DEF Computable
<1> DEFINE u == [r \in 1..N + 1 |-> t[N + 1 - r]]
<1>2. ASSUME NEW r \in 1..N
      PROVE  u[r] = u[r + 1] + (IF r \in S /\ (r \in always \/ u[r + 1] + cost[r] <= budget) THEN cost[r] ELSE 0)
  <2> DEFINE i == N + 1 - r
  <2>1. i \in 1..N /\ r = N + 1 - i /\ i - 1 \in 0..N
    OBVIOUS
  <2>2. t[i] = step[i][t[i - 1]] /\ t[i - 1] \in Nat
    BY <1>1, <2>1
  <2>3. t[i] = t[i - 1] + (IF fits(N + 1 - i, t[i - 1]) THEN cost[N + 1 - i] ELSE 0)
    <3> HIDE DEF fits, i
    <3> QED BY <2>1, <2>2
  <2>4. u[r] = t[i] /\ u[r + 1] = t[i - 1]
    <3>1. r \in 1..N + 1 /\ r + 1 \in 1..N + 1 /\ N + 1 - (r + 1) = i - 1
      BY <1>0
    <3> HIDE DEF N
    <3> QED BY <3>1
  <2> HIDE DEF u, i, step
  <2> QED BY <2>1, <2>3, <2>4
<1>3. u = Values(u)
  <2>1. u[N + 1] = 0
    BY <1>0, <1>1
  <2>2. ASSUME NEW r \in 1..N + 1 PROVE u[r] = Values(u)[r]
    <3>1. CASE r = N + 1
      <4>1. r > N
        BY <1>0, <3>1
      <4> HIDE DEF u, N
      <4> QED BY <2>1, <3>1, <4>1
    <3>2. CASE r # N + 1
      <4>1. r \in 1..N /\ ~ (r > N)
        BY <1>0, <3>2
      <4> HIDE DEF u, N
      <4> QED BY <1>2, <4>1
    <3> QED BY <3>1, <3>2
  <2>3. u = [r \in 1..N + 1 |-> u[r]]
    OBVIOUS
  <2> HIDE DEF u
  <2> QED BY <2>2, <2>3
<1> DEFINE used == Used(S, cost, always, budget)
<1>4. used = Values(used)
  <2>1. used = CHOOSE v : v = Values(v)
    BY DEF Used
  <2> HIDE DEF Values, u
  <2> QED BY <1>3, <2>1
<1> HIDE DEF used
<1>5. /\ used[N + 1] = 0
      /\ \A r \in 1..N : used[r] = used[r + 1] + (IF r \in S /\ (r \in always \/ used[r + 1] + cost[r] <= budget) THEN cost[r] ELSE 0)
  <2>1. used[N + 1] = 0
    BY <1>4
  <2>2. ASSUME NEW r \in 1..N
        PROVE  used[r] = used[r + 1] + (IF r \in S /\ (r \in always \/ used[r + 1] + cost[r] <= budget) THEN cost[r] ELSE 0)
    BY <1>4
  <2> QED BY <2>1, <2>2
<1> DEFINE T == {i \in 0..N : used[N + 1 - i] \in Nat}
<1>6. 0..N \subseteq T
  <2>1. 0 \in T
    BY <1>5
  <2>2. ASSUME NEW i \in 1..N, i - 1 \in T PROVE i \in T
    <3>1. N + 1 - i \in 1..N /\ used[(N + 1 - i) + 1] \in Nat /\ cost[N + 1 - i] \in Nat
      BY <2>2 DEF Rounds
    <3> DEFINE r == N + 1 - i
    <3>2. used[r] = used[r + 1] + (IF r \in S /\ (r \in always \/ used[r + 1] + cost[r] <= budget) THEN cost[r] ELSE 0)
      BY <1>5, <3>1
    <3>3. used[r] \in Nat
      <4> HIDE DEF r
      <4> QED BY <3>1, <3>2 DEF r
    <3> QED BY <3>3
  <2> HIDE DEF T
  <2> QED BY <1>0, <2>1, <2>2, UpTo
<1>7. ASSUME NEW r \in 1..N + 1 PROVE used[r] \in Nat
  <2>1. N + 1 - r \in T /\ r = N + 1 - (N + 1 - r)
    BY <1>6
  <2> QED BY <2>1
<1>8. Counted(S, cost, always, budget, used)
  BY <1>5, <1>7 DEF IsShown, Rounds, Counted
<1> QED BY <1>8 DEF used

(* The rounds chosen cost what Used counted.                               *)
LEMMA FittingAddsUp ==
  ASSUME NEW S \in SUBSET Rounds, NEW cost \in [Rounds -> Nat], NEW always, NEW budget \in Nat
  PROVE  /\ Total(cost, Fitting(S, cost, always, budget), MaxRounds) = Used(S, cost, always, budget)[1]
         /\ \A r \in 1..MaxRounds + 1 : Used(S, cost, always, budget)[r] <= Used(S, cost, always, budget)[1]
<1> USE ContextAssumption
<1> DEFINE N == MaxRounds
           used == Used(S, cost, always, budget)
           chosen == Fitting(S, cost, always, budget)
           total == Totals(cost, chosen, N)
           Sum == {i \in 0..N : total[i] + used[i + 1] = used[1]}
           Less == {i \in 0..N : used[i + 1] <= used[1]}
<1>0. N \in Nat
  OBVIOUS
<1>1. /\ \A r \in 1..N + 1 : used[r] \in Nat
      /\ used[N + 1] = 0
      /\ \A r \in 1..N : used[r] = used[r + 1] + (IF IsShown(S, cost, always, budget, used, r) THEN cost[r] ELSE 0)
  <2>1. Counted(S, cost, always, budget, used)
    BY UsedIs
  <2> HIDE DEF used
  <2> QED BY <2>1 DEF Counted, Rounds
<1>2. \A r \in 1..N : r \in chosen <=> IsShown(S, cost, always, budget, used, r)
  BY DEF Fitting, IsShown
<1>3. \A r \in 1..N : cost[r] \in Nat
  BY DEF Rounds
<1>4. /\ \A i \in 0..N : total[i] \in Nat
      /\ total[0] = 0
      /\ \A i \in 1..N : total[i] = total[i - 1] + (IF i \in chosen THEN cost[i] ELSE 0)
  <2> HIDE DEF chosen
  <2> QED BY <1>3, TotalsAre
<1> HIDE DEF total, used, chosen
<1>5. ASSUME NEW i \in 1..N
      PROVE  /\ total[i] = total[i - 1] + (IF i \in chosen THEN cost[i] ELSE 0)
             /\ used[i] = used[i + 1] + (IF i \in chosen THEN cost[i] ELSE 0)
             /\ {total[i], total[i - 1], used[i], used[i + 1], used[1], cost[i]} \subseteq Nat
  <2>1. used[i] = used[i + 1] + (IF i \in chosen THEN cost[i] ELSE 0)
    BY <1>1, <1>2
  <2>2. i \in 1..N + 1 /\ i + 1 \in 1..N + 1 /\ 1 \in 1..N + 1 /\ i \in 0..N /\ i - 1 \in 0..N
    BY <1>0
  <2>3. {total[i], total[i - 1], used[i], used[i + 1], used[1], cost[i]} \subseteq Nat
    BY <1>1, <1>3, <1>4, <2>2
  <2> QED BY <1>4, <2>1, <2>3
<1>6. 0..N \subseteq Sum
  <2>1. 0 \in Sum
    BY <1>1, <1>4
  <2>2. ASSUME NEW i \in 1..N, i - 1 \in Sum PROVE i \in Sum
    <3>1. total[i - 1] + used[i] = used[1]
      BY <2>2
    <3> QED BY <1>5, <3>1
  <2> HIDE DEF Sum
  <2> QED BY <1>0, <2>1, <2>2, UpTo
<1>7. 0..N \subseteq Less
  <2>1. 0 \in Less
    BY <1>1
  <2>2. ASSUME NEW i \in 1..N, i - 1 \in Less PROVE i \in Less
    <3>1. used[i] <= used[1]
      BY <2>2
    <3> QED BY <1>5, <3>1
  <2> HIDE DEF Less
  <2> QED BY <1>0, <2>1, <2>2, UpTo
<1>8. total[N] = used[1]
  <2>1. total[N] + used[N + 1] = used[1]
    BY <1>0, <1>6
  <2> QED BY <1>0, <1>1, <1>4, <2>1
<1>9. ASSUME NEW r \in 1..N + 1 PROVE used[r] <= used[1]
  <2>1. r - 1 \in Less /\ (r - 1) + 1 = r
    BY <1>0, <1>7
  <2> QED BY <2>1
<1> QED BY <1>8, <1>9 DEF Total, total, used, chosen

Newer(chosen, k) == {s \in chosen : s > k}

(* The chosen rounds newer than k cost what Used counted down to k.        *)
LEMMA NewerAddUp ==
  ASSUME NEW S \in SUBSET Rounds, NEW cost \in [Rounds -> Nat], NEW always, NEW budget \in Nat,
         NEW k \in Rounds
  PROVE  Total(cost, Newer(Fitting(S, cost, always, budget), k), MaxRounds)
           = Used(S, cost, always, budget)[k + 1]
<1> USE ContextAssumption
<1> DEFINE N == MaxRounds
           used == Used(S, cost, always, budget)
           chosen == Fitting(S, cost, always, budget)
           newer == Newer(chosen, k)
           total == Totals(cost, newer, N)
           Sum == {i \in 0..N : /\ i <= k => total[i] = 0
                                /\ i >= k => total[i] + used[i + 1] = used[k + 1]}
<1>0. N \in Nat /\ k \in 1..N
  BY DEF Rounds
<1>1. /\ \A r \in 1..N + 1 : used[r] \in Nat
      /\ used[N + 1] = 0
      /\ \A r \in 1..N : used[r] = used[r + 1] + (IF IsShown(S, cost, always, budget, used, r) THEN cost[r] ELSE 0)
  <2>1. Counted(S, cost, always, budget, used)
    BY UsedIs
  <2> HIDE DEF used
  <2> QED BY <2>1 DEF Counted, Rounds
<1>2. \A r \in 1..N : r \in chosen <=> IsShown(S, cost, always, budget, used, r)
  BY DEF Fitting, IsShown
<1>3. \A r \in 1..N : cost[r] \in Nat
  BY DEF Rounds
<1>4. /\ \A i \in 0..N : total[i] \in Nat
      /\ total[0] = 0
      /\ \A i \in 1..N : total[i] = total[i - 1] + (IF i \in newer THEN cost[i] ELSE 0)
  <2> HIDE DEF newer
  <2> QED BY <1>3, TotalsAre
<1>4a. \A i : i \in newer <=> i \in chosen /\ i > k
  BY DEF Newer
<1> HIDE DEF total, used, chosen, newer
<1>5. ASSUME NEW i \in 1..N
      PROVE  /\ total[i] = total[i - 1] + (IF i \in chosen /\ i > k THEN cost[i] ELSE 0)
             /\ used[i] = used[i + 1] + (IF i \in chosen THEN cost[i] ELSE 0)
             /\ {total[i], total[i - 1], used[i], used[i + 1], used[k + 1], cost[i]} \subseteq Nat
  <2>1. used[i] = used[i + 1] + (IF i \in chosen THEN cost[i] ELSE 0)
    BY <1>1, <1>2
  <2>2. i \in 1..N + 1 /\ i + 1 \in 1..N + 1 /\ k + 1 \in 1..N + 1 /\ i \in 0..N /\ i - 1 \in 0..N
    BY <1>0
  <2>3. {total[i], total[i - 1], used[i], used[i + 1], used[k + 1], cost[i]} \subseteq Nat
    BY <1>1, <1>3, <1>4, <2>2
  <2> QED BY <1>4, <1>4a, <2>1, <2>3
<1>6. 0..N \subseteq Sum
  <2>1. 0 \in Sum
    BY <1>0, <1>4
  <2>2. ASSUME NEW i \in 1..N, i - 1 \in Sum PROVE i \in Sum
    <3>1. CASE i < k
      BY <1>0, <1>5, <2>2, <3>1
    <3>2. CASE i = k
      BY <1>0, <1>5, <2>2, <3>2
    <3>3. CASE i > k
      <4>1. total[i - 1] + used[i] = used[k + 1]
        BY <1>0, <2>2, <3>3
      <4> QED BY <1>0, <1>5, <3>3, <4>1
    <3> QED BY <1>0, <3>1, <3>2, <3>3
  <2> HIDE DEF Sum
  <2> QED BY <1>0, <2>1, <2>2, UpTo
<1>7. total[N] = used[k + 1]
  <2>1. total[N] + used[N + 1] = used[k + 1]
    BY <1>0, <1>6
  <2> QED BY <1>0, <1>1, <1>4, <2>1
<1> QED BY <1>7 DEF Total, total, used, chosen, newer

(* The rounds chosen fit the budget or are to be shown in any case, and    *)
(* one that is left out does not fit beside the newer ones.                *)
WellChosen(S, cost, always, budget, chosen) ==
  /\ chosen \in SUBSET S /\ S \cap always \subseteq chosen
  /\ Total(cost, chosen, MaxRounds) \in Nat
  /\ Total(cost, chosen, MaxRounds) <= budget \/ chosen \subseteq always
  /\ \A r \in S \ chosen : Total(cost, {s \in chosen : s > r}, MaxRounds) + cost[r] > budget

LEMMA FittingChoosesWell ==
  ASSUME NEW S \in SUBSET Rounds, NEW cost \in [Rounds -> Nat], NEW always, NEW budget \in Nat,
         \A a \in always : \A s \in S : s <= a
  PROVE  WellChosen(S, cost, always, budget, Fitting(S, cost, always, budget))
<1> USE ContextAssumption
<1> DEFINE N == MaxRounds
           used == Used(S, cost, always, budget)
           chosen == Fitting(S, cost, always, budget)
           Within(r) == used[r] <= budget \/ \A s \in chosen : s >= r => s \in always
           T == {i \in 0..N : Within(N + 1 - i)}
<1>0. N \in Nat
  OBVIOUS
<1>1. /\ \A r \in 1..N + 1 : used[r] \in Nat
      /\ used[N + 1] = 0
      /\ \A r \in 1..N : used[r] = used[r + 1] + (IF IsShown(S, cost, always, budget, used, r) THEN cost[r] ELSE 0)
  <2>1. Counted(S, cost, always, budget, used)
    BY UsedIs
  <2> HIDE DEF used
  <2> QED BY <2>1 DEF Counted, Rounds
<1>2. \A r \in 1..N : r \in chosen <=> IsShown(S, cost, always, budget, used, r)
  BY DEF Fitting, IsShown
<1>3. chosen \in SUBSET S /\ S \cap always \subseteq chosen
  BY DEF Fitting
<1>4. /\ Total(cost, chosen, N) = used[1]
      /\ \A r \in 1..N + 1 : used[r] <= used[1]
  BY FittingAddsUp
<1>4a. \A r \in Rounds : Total(cost, Newer(chosen, r), N) = used[r + 1]
  BY NewerAddUp
<1>5. \A r \in 1..N : cost[r] \in Nat
  BY DEF Rounds
<1>6. S \in SUBSET (1..N)
  BY DEF Rounds
<1> HIDE DEF used, chosen
<1>7. ASSUME NEW r \in 1..N, Within(r + 1) PROVE Within(r)
  <2>1. r + 1 \in 1..N + 1 /\ r \in 1..N + 1 /\ used[r] \in Nat /\ used[r + 1] \in Nat /\ cost[r] \in Nat
    BY <1>0, <1>1, <1>5
  <2>2. \A s \in chosen : s >= r => s = r \/ s >= r + 1
    BY <1>3, <1>6
  <2>3. CASE r \in chosen /\ used[r + 1] + cost[r] <= budget
    <3>1. used[r] = used[r + 1] + cost[r]
      BY <1>1, <1>2, <2>3
    <3> QED BY <2>3, <3>1
  <2>4. CASE r \in chosen /\ ~ (used[r + 1] + cost[r] <= budget)
    <3>1. r \in always
      BY <1>2, <2>4 DEF IsShown
    <3>2. \A s \in chosen : s <= r
      BY <1>3, <3>1
    <3>3. \A s \in chosen : s >= r => s = r
      BY <1>3, <1>6, <3>2
    <3> QED BY <3>1, <3>3
  <2>5. CASE r \notin chosen
    <3>1. used[r] = used[r + 1]
      BY <1>1, <1>2, <2>1, <2>5
    <3>2. \A s \in chosen : s >= r => s >= r + 1
      BY <2>2, <2>5
    <3> QED BY <1>7, <3>1, <3>2
  <2> QED BY <2>3, <2>4, <2>5
<1>8. 0..N \subseteq T
  <2>1. 0 \in T
    BY <1>0, <1>1
  <2>2. ASSUME NEW i \in 1..N, i - 1 \in T PROVE i \in T
    <3>1. N + 1 - i \in 1..N /\ N + 1 - (i - 1) = (N + 1 - i) + 1
      BY <1>0
    <3>2. Within((N + 1 - i) + 1)
      BY <2>2, <3>1
    <3>3. Within(N + 1 - i)
      <4> HIDE DEF Within
      <4> QED BY <1>7, <3>1, <3>2
    <3> QED BY <3>3
  <2> HIDE DEF T
  <2> QED BY <1>0, <2>1, <2>2, UpTo
<1>9. Within(1)
  <2>1. N \in T /\ N + 1 - N = 1
    BY <1>0, <1>8
  <2>2. Within(N + 1 - N)
    BY <2>1
  <2> HIDE DEF Within
  <2> QED BY <2>1, <2>2
<1>10. used[1] <= budget \/ chosen \subseteq always
  <2>1. used[1] <= budget \/ \A s \in chosen : s >= 1 => s \in always
    BY <1>9
  <2>2. \A s \in 1..N : s >= 1
    BY <1>0
  <2>3. chosen \subseteq 1..N
    BY <1>3, <1>6
  <2> HIDE DEF N, T, Within
  <2> QED BY <2>1, <2>2, <2>3
<1>11. ASSUME NEW r \in S \ chosen
       PROVE  Total(cost, {s \in chosen : s > r}, N) + cost[r] > budget
  <2>1. r \in Rounds /\ r \in 1..N /\ r + 1 \in 1..N + 1
    BY <1>0, <1>6 DEF Rounds
  <2>2. ~ (used[r + 1] + cost[r] <= budget)
    BY <1>2, <1>11, <2>1 DEF IsShown
  <2>3. used[r + 1] \in Nat /\ cost[r] \in Nat
    BY <1>1, <1>5, <2>1
  <2>4. Total(cost, {s \in chosen : s > r}, N) = used[r + 1]
    BY <1>4a, <2>1 DEF Newer
  <2> QED BY <2>2, <2>3, <2>4
<1>12. used[1] \in Nat
  BY <1>0, <1>1
<1>13. WellChosen(S, cost, always, budget, chosen)
  BY <1>3, <1>4, <1>10, <1>11, <1>12 DEF WellChosen
<1> QED BY <1>13 DEF chosen

-----------------------------------------------------------------------------
(* The division of an agent's limit.                                       *)
LEMMA MinusIsNatural ==
  ASSUME NEW a \in Nat, NEW b \in Nat
  PROVE  Minus(a, b) \in Nat /\ Minus(a, b) <= a
BY DEF Minus

(* Left falls from what is available, by what each section takes.          *)
Wants(p, requested, i) == Min({requested[p.priority[i]], p.max[p.priority[i]]})

LEMMA LeftFalls ==
  ASSUME NEW p, ProfileAssumption(p), NEW requested \in [Sections -> Nat], NEW available \in Nat
  PROVE  LET left == Left(p, requested, available)
             n    == Len(p.priority)
         IN  /\ left[0] = available
             /\ \A i \in 1..n : left[i] = Minus(left[i - 1], Wants(p, requested, i))
             /\ \A i \in 1..n : Wants(p, requested, i) \in Nat
             /\ \A j \in 0..n : left[j] \in Nat /\ \A i \in 0..j : left[j] <= left[i]
<1> DEFINE n == Len(p.priority)
           want(i) == Wants(p, requested, i)
           step == [i \in 1..n |-> [x \in Nat |-> Minus(x, want(i))]]
           Values(t) == [i \in 0..n |-> IF i = 0 THEN available
                                        ELSE Minus(t[i - 1], Min({requested[p.priority[i]], p.max[p.priority[i]]}))]
<1>0. n \in Nat
  BY DEF ProfileAssumption
<1>1. ASSUME NEW i \in 1..n PROVE want(i) \in Nat
  <2>1. p.priority[i] \in Sections
    BY DEF ProfileAssumption
  <2>2. requested[p.priority[i]] \in Nat /\ p.max[p.priority[i]] \in Nat
    BY <2>1 DEF ProfileAssumption
  <2> QED BY <2>2, MinOfTwo DEF Wants
<1>2. PICK t \in [0..n -> Nat] : t[0] = available /\ \A i \in 1..n : t[i] = step[i][t[i - 1]]
  <2>1. step \in [1..n -> [Nat -> Nat]]
    <3>1. ASSUME NEW i \in 1..n PROVE [x \in Nat |-> Minus(x, want(i))] \in [Nat -> Nat]
      <4> HIDE DEF want
      <4> QED BY <1>1, MinusIsNatural
    <3> QED BY <3>1
  <2>2. Computable(n, Nat, available, step)
    <3> HIDE DEF step, n
    <3> QED BY <1>0, <2>1, RecursionExists
  <2> QED BY <2>2 DEF Computable
<1>3. ASSUME NEW i \in 1..n PROVE t[i] = Minus(t[i - 1], want(i))
  <2>1. t[i - 1] \in Nat
    BY <1>0, <1>2
  <2> HIDE DEF want, n
  <2> QED BY <1>2, <2>1
<1>4. t = Values(t)
  BY <1>2, <1>3 DEF Wants
<1> DEFINE left == Left(p, requested, available)
<1>5. left = Values(left)
  <2>1. left = CHOOSE u : u = Values(u)
    BY DEF Left
  <2> HIDE DEF Values
  <2> QED BY <1>4, <2>1
<1> HIDE DEF left
<1>6. left[0] = available
  BY <1>0, <1>5
<1>7. ASSUME NEW i \in 1..n PROVE left[i] = Minus(left[i - 1], want(i))
  <2>1. i \in 0..n /\ i # 0
    BY <1>0
  <2>2. left[i] = Minus(left[i - 1], Min({requested[p.priority[i]], p.max[p.priority[i]]}))
    <3> HIDE DEF n
    <3> QED BY <1>5, <2>1
  <2> QED BY <2>2 DEF Wants
<1> HIDE DEF want
<1> DEFINE Natural == {j \in 0..n : left[j] \in Nat}
           Falling == {j \in 0..n : \A i \in 0..j : left[j] <= left[i]}
<1>8. 0..n \subseteq Natural
  <2>1. 0 \in Natural
    BY <1>0, <1>6
  <2>2. ASSUME NEW j \in 1..n, j - 1 \in Natural PROVE j \in Natural
    <3>1. left[j - 1] \in Nat /\ want(j) \in Nat
      BY <1>1, <2>2
    <3>2. left[j] = Minus(left[j - 1], want(j))
      BY <1>7
    <3>3. left[j] \in Nat
      BY <3>1, <3>2, MinusIsNatural
    <3> QED BY <1>0, <3>3
  <2> HIDE DEF Natural
  <2> QED BY <1>0, <2>1, <2>2, UpTo
<1>9. 0..n \subseteq Falling
  <2>1. 0 \in Falling
    BY <1>0, <1>6
  <2>2. ASSUME NEW j \in 1..n, j - 1 \in Falling PROVE j \in Falling
    <3>1. left[j - 1] \in Nat /\ \A i \in 0..(j - 1) : left[j - 1] <= left[i]
      BY <1>8, <2>2
    <3>2. left[j] \in Nat /\ left[j] <= left[j - 1]
      BY <1>1, <1>7, <3>1, MinusIsNatural
    <3>3. ASSUME NEW i \in 0..j PROVE left[j] <= left[i]
      <4>1. CASE i = j
        BY <3>2, <4>1
      <4>2. CASE i # j
        <5>1. i \in 0..(j - 1) /\ i \in 0..n
          BY <1>0, <4>2
        <5>2. left[j - 1] <= left[i] /\ left[i] \in Nat
          BY <1>8, <3>1, <5>1
        <5> QED BY <3>1, <3>2, <5>2
      <4> QED BY <4>1, <4>2
    <3> QED BY <1>0, <3>3
  <2> HIDE DEF Falling
  <2> QED BY <1>0, <2>1, <2>2, UpTo
<1>10. \A j \in 0..n : left[j] \in Nat /\ \A i \in 0..j : left[j] <= left[i]
  BY <1>8, <1>9
<1> QED BY <1>1, <1>6, <1>7, <1>10 DEF left, want

Modes == {"compact", "standard", "extended"}

(* The minimum of the history is available, and within its share.          *)
LEMMA FloorIsAvailable ==
  ASSUME NEW p, ProfileAssumption(p), NEW mode \in Modes
  PROVE  /\ Available(p) = Minus(p.inputLimit, p.prompt) /\ Available(p) \in Nat
         /\ HistoryFloor(p) \in Nat /\ HistoryFloor(p) <= Available(p)
         /\ HistoryCap(p, mode) \in Nat /\ HistoryFloor(p) <= HistoryCap(p, mode)
<1>1. p.inputLimit \in Nat /\ p.historyMin \in Nat /\ p.historyMax \in Nat /\ p.prompt \in Nat
  BY DEF ProfileAssumption
<1>2. Available(p) = Minus(p.inputLimit, p.prompt) /\ Available(p) \in Nat
  BY <1>1, MinusIsNatural DEF Available
<1>3. HistoryFloor(p) = IF p.historyMin <= Available(p) THEN p.historyMin ELSE Available(p)
  BY <1>1, <1>2, MinOfTwo DEF HistoryFloor
<1>4. ModeShare(mode, p.historyMax) \in Nat
  BY <1>1 DEF ModeShare, Modes
<1>5. HistoryCap(p, mode) = IF p.historyMin <= ModeShare(mode, p.historyMax)
                            THEN ModeShare(mode, p.historyMax) ELSE p.historyMin
  BY <1>1, <1>4, MaxOfTwo DEF HistoryCap
<1> QED BY <1>1, <1>2, <1>3, <1>4, <1>5

(* A section is granted what Left falls by at its place.                   *)
GrantsAre(p, left, granted) ==
  /\ \A i \in 1..Len(p.priority) : /\ p.priority[i] \in Sections
                                   /\ granted[p.priority[i]] = left[i - 1] - left[i]
  /\ \A s \in Sections \ Range(p.priority) : granted[s] = 0
  /\ \A s \in Range(p.priority) : \E i \in 1..Len(p.priority) : s = p.priority[i]

LEMMA GrantedIs ==
  ASSUME NEW p, ProfileAssumption(p), NEW left
  PROVE  GrantsAre(p, left, Granted(p, left))
<1>1. p.priority \in Seq(Sections) /\ DOMAIN p.priority = 1..Len(p.priority)
  BY DEF ProfileAssumption
<1>2. ASSUME NEW i \in 1..Len(p.priority)
      PROVE  p.priority[i] \in Sections /\ Granted(p, left)[p.priority[i]] = left[i - 1] - left[i]
  <2> DEFINE s == p.priority[i]
             k == CHOOSE j \in DOMAIN p.priority : p.priority[j] = s
  <2>1. s \in Sections /\ s \in Range(p.priority)
    BY <1>1 DEF Range
  <2>2. k \in DOMAIN p.priority /\ p.priority[k] = s
    BY <1>1
  <2>3. k = i
    BY <1>1, <2>2 DEF ProfileAssumption, IsInjective
  <2>4. Granted(p, left)[s] = left[k - 1] - left[k]
    BY <2>1 DEF Granted
  <2> HIDE DEF k
  <2> QED BY <2>1, <2>3, <2>4
<1>3. \A s \in Sections \ Range(p.priority) : Granted(p, left)[s] = 0
  BY DEF Granted
<1>4. \A s \in Range(p.priority) : \E i \in 1..Len(p.priority) : s = p.priority[i]
  BY <1>1 DEF Range
<1> QED BY <1>2, <1>3, <1>4 DEF GrantsAre

(* The sections a profile knows of and that could have been given more.    *)
Cut(p, bill) == {s \in Range(p.priority) : bill.dropped[s] > 0 /\ bill.granted[s] < p.max[s]}

(* A division never exceeds the limit and leaves nothing over that a cut   *)
(* section could have had.                                                 *)
WellDivided(p, bill) ==
  /\ bill.history \in Nat
  /\ bill.granted \in [Sections -> Nat]
  /\ bill.history + bill.granted["rag"] + bill.granted["tool"] <= Available(p)
  /\ bill.overflow = Minus(p.prompt, p.inputLimit)
  /\ Cut(p, bill) # {} => bill.unused = 0 /\ bill.history = HistoryFloor(p)
  /\ \A i, j \in 1..Len(p.priority) :
       i < j /\ p.priority[i] \in Cut(p, bill) => bill.granted[p.priority[j]] = 0

LEMMA AllocateDividesWell ==
  ASSUME NEW p, ProfileAssumption(p), NEW requested \in [Sections -> Nat], NEW mode \in Modes
  PROVE  WellDivided(p, Allocate(p, requested, mode))
<1> DEFINE floor == HistoryFloor(p)
           cap   == HistoryCap(p, mode)
           avail == Available(p) - floor
           left  == Left(p, requested, avail)
           n     == Len(p.priority)
           grant == Granted(p, left)
           lent  == Min({cap - floor, left[n]})
           bill  == Allocate(p, requested, mode)
           want(i) == Wants(p, requested, i)
<1>1. /\ Available(p) \in Nat
      /\ floor \in Nat /\ floor <= Available(p) /\ cap \in Nat /\ floor <= cap
  BY FloorIsAvailable
<1>2. avail \in Nat /\ n \in Nat
  <2> HIDE DEF floor
  <2> QED BY <1>1 DEF ProfileAssumption
<1>3. /\ left[0] = avail
      /\ \A i \in 1..n : left[i] = Minus(left[i - 1], want(i))
      /\ \A i \in 1..n : want(i) \in Nat
      /\ \A j \in 0..n : left[j] \in Nat /\ \A i \in 0..j : left[j] <= left[i]
  <2> HIDE DEF avail
  <2> QED BY <1>2, LeftFalls
<1>4. /\ \A i \in 1..n : p.priority[i] \in Sections /\ grant[p.priority[i]] = left[i - 1] - left[i]
      /\ \A s \in Sections \ Range(p.priority) : grant[s] = 0
      /\ \A s \in Range(p.priority) : \E i \in 1..n : s = p.priority[i]
  <2>1. GrantsAre(p, left, grant)
    BY GrantedIs
  <2> HIDE DEF left, grant
  <2> QED BY <2>1 DEF GrantsAre
<1>5. bill = [history |-> floor + lent, granted |-> grant, unused |-> left[n] - lent,
              overflow |-> Minus(p.prompt, p.inputLimit), shortfall |-> Minus(p.historyMin, floor + lent),
              dropped |-> [s \in Sections |-> Minus(requested[s], grant[s])]]
  BY DEF Allocate, Bill
<1>6. /\ bill.history = floor + lent /\ bill.granted = grant /\ bill.unused = left[n] - lent
      /\ bill.overflow = Minus(p.prompt, p.inputLimit)
      /\ \A s \in Sections : bill.dropped[s] = Minus(requested[s], grant[s])
  <2> HIDE DEF floor, lent, grant, left, bill, n
  <2> QED BY <1>5
<1>7. left[n] \in Nat /\ cap - floor \in Nat
  <2> HIDE DEF left, n, cap, floor
  <2> QED BY <1>1, <1>2, <1>3
<1>8. lent \in Nat /\ lent <= left[n]
  <2> HIDE DEF left, n, cap, floor
  <2> QED BY <1>7, MinOfTwo
<1> HIDE DEF floor, cap, avail, left, n, grant, bill, want
<1>9. ASSUME NEW i \in 1..n
      PROVE  i - 1 \in 0..n /\ i \in 0..n /\ left[i - 1] \in Nat /\ left[i] \in Nat /\ left[i] <= left[i - 1]
  BY <1>2, <1>3
<1>10. grant \in [Sections -> Nat]
  <2>1. ASSUME NEW s \in Sections PROVE grant[s] \in Nat
    <3>1. CASE s \in Range(p.priority)
      <4>1. PICK i \in 1..n : s = p.priority[i]
        BY <1>4, <3>1
      <4> QED BY <1>4, <1>9, <4>1
    <3>2. CASE s \notin Range(p.priority)
      BY <1>4, <3>2
    <3> QED BY <3>1, <3>2
  <2>2. grant = [s \in Sections |-> grant[s]]
    BY DEF grant, Granted
  <2> QED BY <2>1, <2>2
<1>11. ASSUME NEW s \in Sections, NEW r \in Sections, s # r
       PROVE  grant[s] + grant[r] <= avail - left[n]
  <2>0. 0 \in 0..n /\ n \in 0..n
    BY <1>2
  <2>1. ASSUME NEW i \in 1..n, NEW j \in 1..n, i < j
        PROVE  (left[i - 1] - left[i]) + (left[j - 1] - left[j]) <= avail - left[n]
    <3>1. i \in 0..(j - 1) /\ j - 1 \in 0..n /\ i \in 0..n /\ i - 1 \in 0..n /\ j \in 0..n
          /\ 0 \in 0..(i - 1) /\ j \in 0..n
      BY <1>2, <2>1
    <3>2. left[j - 1] <= left[i] /\ left[i - 1] <= left[0] /\ left[n] <= left[j]
      BY <1>3, <2>0, <3>1
    <3>3. {left[i - 1], left[i], left[j - 1], left[j], left[n], left[0]} \subseteq Nat
      BY <1>3, <2>0, <3>1
    <3> QED BY <1>2, <1>3, <3>2, <3>3
  <2>2. ASSUME NEW i \in 1..n PROVE left[i - 1] - left[i] <= avail - left[n]
    <3>1. 0 \in 0..(i - 1) /\ i \in 0..n /\ i - 1 \in 0..n
      BY <1>2
    <3>2. left[i - 1] <= left[0] /\ left[n] <= left[i]
      BY <1>3, <2>0, <3>1
    <3>3. {left[i - 1], left[i], left[n], left[0]} \subseteq Nat
      BY <1>3, <2>0, <3>1
    <3> QED BY <1>2, <1>3, <3>2, <3>3
  <2>3. left[n] <= avail /\ left[n] \in Nat
    BY <1>3, <2>0
  <2>4. grant[s] \in Nat /\ grant[r] \in Nat
    BY <1>10
  <2>5. CASE s \in Range(p.priority) /\ r \in Range(p.priority)
    <3>1. PICK i \in 1..n : s = p.priority[i]
      BY <1>4, <2>5
    <3>2. PICK j \in 1..n : r = p.priority[j]
      BY <1>4, <2>5
    <3>3. grant[s] = left[i - 1] - left[i] /\ grant[r] = left[j - 1] - left[j]
      BY <1>4, <3>1, <3>2
    <3>4. i < j \/ j < i
      BY <1>11, <3>1, <3>2, <1>2
    <3>5. CASE i < j
      BY <2>1, <3>3, <3>5
    <3>6. CASE j < i
      <4>1. grant[r] + grant[s] <= avail - left[n]
        BY <2>1, <3>3, <3>6
      <4> QED BY <2>4, <4>1
    <3> QED BY <3>4, <3>5, <3>6
  <2>6. CASE s \in Range(p.priority) /\ r \notin Range(p.priority)
    <3>1. PICK i \in 1..n : s = p.priority[i]
      BY <1>4, <2>6
    <3>2. grant[s] <= avail - left[n] /\ grant[r] = 0
      BY <1>4, <2>2, <2>6, <3>1
    <3> QED BY <2>4, <3>2
  <2>7. CASE s \notin Range(p.priority) /\ r \in Range(p.priority)
    <3>1. PICK i \in 1..n : r = p.priority[i]
      BY <1>4, <2>7
    <3>2. grant[r] <= avail - left[n] /\ grant[s] = 0
      BY <1>4, <2>2, <2>7, <3>1
    <3> QED BY <2>4, <3>2
  <2>8. CASE s \notin Range(p.priority) /\ r \notin Range(p.priority)
    <3>1. grant[s] = 0 /\ grant[r] = 0
      BY <1>4, <2>8
    <3> QED BY <1>2, <2>3, <3>1
  <2> QED BY <2>5, <2>6, <2>7, <2>8
<1>12. (floor + lent) + grant["rag"] + grant["tool"] <= Available(p)
  <2>1. grant["rag"] + grant["tool"] <= avail - left[n]
    BY <1>11 DEF Sections
  <2>2. grant["rag"] \in Nat /\ grant["tool"] \in Nat
    BY <1>10 DEF Sections
  <2>3. avail = Available(p) - floor
    BY DEF avail
  <2> HIDE DEF lent
  <2> QED BY <1>1, <1>2, <1>7, <1>8, <2>1, <2>2, <2>3
<1>13. ASSUME NEW i \in 1..n, p.priority[i] \in Cut(p, bill)
       PROVE  \A j \in i..n : left[j] = 0
  <2> DEFINE s == p.priority[i]
  <2>1. /\ s \in Sections /\ grant[s] = left[i - 1] - left[i]
        /\ left[i] = Minus(left[i - 1], want(i)) /\ want(i) \in Nat
        /\ left[i] \in Nat /\ left[i - 1] \in Nat
    BY <1>3, <1>4, <1>9
  <2>2. Minus(requested[s], grant[s]) > 0 /\ grant[s] < p.max[s]
    BY <1>6, <1>13, <2>1 DEF Cut
  <2>3. requested[s] \in Nat /\ p.max[s] \in Nat /\ grant[s] \in Nat
    BY <1>10, <2>1 DEF ProfileAssumption
  <2>4. grant[s] < requested[s]
    BY <2>2, <2>3 DEF Minus
  <2>5. grant[s] < want(i)
    <3>1. want(i) = IF requested[s] <= p.max[s] THEN requested[s] ELSE p.max[s]
      BY <2>3, MinOfTwo DEF want, Wants
    <3> HIDE DEF s
    <3> QED BY <2>2, <2>3, <2>4, <3>1
  <2>6. left[i] = 0
    <3> HIDE DEF s
    <3> QED BY <2>1, <2>3, <2>5 DEF Minus
  <2>7. ASSUME NEW j \in i..n PROVE left[j] = 0
    <3>1. j \in 0..n /\ i \in 0..j
      BY <1>2
    <3>2. left[j] \in Nat /\ left[j] <= left[i]
      BY <1>3, <3>1
    <3> QED BY <2>6, <3>2
  <2> QED BY <2>7
<1>14. ASSUME Cut(p, bill) # {} PROVE bill.unused = 0 /\ bill.history = floor
  <2>1. PICK s \in Cut(p, bill) : TRUE
    BY <1>14
  <2>2. PICK i \in 1..n : s = p.priority[i]
    BY <1>4 DEF Cut
  <2>3. n \in i..n
    BY <1>2
  <2>4. left[n] = 0
    BY <1>13, <2>2, <2>3
  <2>5. lent = 0
    <3> HIDE DEF lent
    <3> QED BY <1>8, <2>4
  <2> HIDE DEF lent
  <2> QED BY <1>1, <1>6, <2>4, <2>5
<1>15. ASSUME NEW i \in 1..n, NEW j \in 1..n, i < j, p.priority[i] \in Cut(p, bill)
       PROVE  grant[p.priority[j]] = 0
  <2>1. j \in i..n /\ j - 1 \in i..n
    BY <1>2, <1>15
  <2>2. left[j] = 0 /\ left[j - 1] = 0
    BY <1>13, <1>15, <2>1
  <2> QED BY <1>4, <2>2
<1>16. bill.history \in Nat
  <2> HIDE DEF lent
  <2> QED BY <1>1, <1>6, <1>8
<1>17. bill.history + bill.granted["rag"] + bill.granted["tool"] <= Available(p)
  <2> HIDE DEF lent
  <2> QED BY <1>6, <1>12
<1> HIDE DEF lent
<1>18. \A i, j \in 1..n : i < j /\ p.priority[i] \in Cut(p, bill) => bill.granted[p.priority[j]] = 0
  BY <1>6, <1>15
<1>19. WellDivided(p, bill)
  BY <1>6, <1>10, <1>14, <1>16, <1>17, <1>18 DEF WellDivided, floor, n
<1> QED BY <1>19 DEF bill

-----------------------------------------------------------------------------
(* The inductive invariant: the running turn's round is the newest, and    *)
(* what was given to a model is what Build puts together of the            *)
(* conversation as it still is.                                            *)
ContextTyped ==
  /\ form \in [Rounds -> Forms]
  /\ tokens \in [Rounds -> Nat]
  /\ turn \in Rounds \cup {0}
  /\ tools \in Seq(Nat)

AbsentAreLast == \A r, s \in Rounds : r < s /\ form[r] = "absent" => form[s] = "absent"

TurnIsNewest ==
  turn # 0 => /\ form[turn] = "messages"
              /\ \A s \in Rounds : s > turn => form[s] = "absent"

Built(agent, requested, mode, rag, tool) ==
  /\ call.agent = agent
  /\ call.build = Build(agent, requested, mode)
  /\ call.rag = Truncate(rag, call.build.bill.granted["rag"])
  /\ call.tool = Truncate(tool, call.build.bill.granted["tool"])

CallIsBuilt ==
  call # NoCall =>
    /\ turn # 0
    /\ \E agent \in Agents, requested \in [Sections -> Nat], mode \in Modes, rag \in Nat, tool \in Nat :
         Built(agent, requested, mode, rag, tool)

ContextIInv == ContextTyped /\ AbsentAreLast /\ TurnIsNewest /\ CallIsBuilt

(* What Build puts together fits the division, and goes by priority.       *)
WellBuilt(p, b) ==
  /\ WellDivided(p, b.bill)
  /\ b.history \in Nat
  /\ \/ b.history <= b.bill.history
     \/ b.shown = {turn} /\ b.entries = {} /\ tokens[turn] > b.bill.history
  /\ turn \in b.shown
  /\ NewestLeftOutDoesNotFit(Recent, b.shown, tokens, b.bill.history)
  /\ NewestLeftOutDoesNotFit(Older, b.entries, EntryCost,
                             Minus(b.bill.history, Total(tokens, b.shown, MaxRounds)))

LEMMA BuildBuildsWell ==
  ASSUME ContextIInv, turn # 0,
         NEW agent \in Agents, NEW requested \in [Sections -> Nat], NEW mode \in Modes
  PROVE  WellBuilt(Profiles[agent], Build(agent, requested, mode))
<1> USE ContextAssumption
<1> DEFINE p       == Profiles[agent]
           bill    == Allocate(p, requested, mode)
           recent  == Newest(RoundsAs("messages"), Keep)
           newest  == Newest(recent, 1)
           shown   == Fitting(recent, tokens, newest, bill.history)
           spent   == Total(tokens, shown, MaxRounds)
           rest    == Minus(bill.history, spent)
           older   == (RoundsAs("messages") \ recent) \cup RoundsAs("summary")
           entries == Fitting(older, EntryCost, {}, rest)
           listed  == Total(EntryCost, entries, MaxRounds)
           b       == Build(agent, requested, mode)
<1>1. b.bill = bill /\ b.shown = shown /\ b.entries = entries /\ b.history = spent + listed
  BY DEF Build, Recent, Older
<1>2. ProfileAssumption(p)
  OBVIOUS
<1>3. WellDivided(p, bill)
  <2> HIDE DEF p
  <2> QED BY <1>2, AllocateDividesWell
<1>4. bill.history \in Nat
  BY <1>3 DEF WellDivided
<1>5. recent \in SUBSET Rounds /\ older \in SUBSET Rounds /\ recent \subseteq RoundsAs("messages")
  BY DEF Newest, RoundsAs
<1>6. /\ turn \in Rounds /\ turn \in RoundsAs("messages")
      /\ \A s \in RoundsAs("messages") : s <= turn
  <2>1. turn \in Rounds
    BY DEF ContextIInv, ContextTyped
  <2>2. \A s \in RoundsAs("messages") : ~ (s > turn)
    BY DEF ContextIInv, TurnIsNewest, RoundsAs
  <2> QED BY <2>1, <2>2 DEF ContextIInv, TurnIsNewest, RoundsAs, Rounds
<1>7. newest = {turn} /\ turn \in recent
  <2>1. {s \in RoundsAs("messages") : s > turn} = {}
    BY <1>6 DEF RoundsAs, Rounds
  <2>2. Cardinality({}) = 0
    BY FS_EmptySet
  <2>3. turn \in recent
    BY <1>6, <2>1, <2>2 DEF Newest
  <2>4. {s \in recent : s > turn} = {}
    BY <1>5, <2>1
  <2>5. turn \in newest
    <3>1. Cardinality({s \in recent : s > turn}) < 1
      BY <2>2, <2>4
    <3> HIDE DEF recent
    <3> QED BY <2>3, <3>1 DEF Newest
  <2>6. ASSUME NEW r \in newest PROVE r = turn
    <3>1. r \in recent /\ Cardinality({s \in recent : s > r}) < 1
      BY <2>6 DEF Newest
    <3>2. r \in Rounds /\ r <= turn
      BY <1>5, <1>6, <3>1
    <3>3. ASSUME r # turn PROVE FALSE
      <4> DEFINE above == {s \in recent : s > r}
      <4>1. turn \in above
        BY <1>6, <2>3, <3>2, <3>3 DEF Rounds
      <4>2. IsFiniteSet(above)
        <5>1. IsFiniteSet(1..MaxRounds)
          <6>1. 1 \in Int /\ MaxRounds \in Int
            OBVIOUS
          <6> QED BY ONLY <6>1, FS_Interval
        <5>2. above \subseteq 1..MaxRounds
          BY <1>5 DEF Rounds
        <5> QED BY <5>1, <5>2, FS_Subset
      <4>3. Cardinality(above) \in Nat /\ Cardinality(above) # 0
        <5> HIDE DEF above
        <5> QED BY <4>1, <4>2, FS_CardinalityType, FS_EmptySet
      <4> QED BY <3>1, <4>3
    <3> QED BY <3>3
  <2> QED BY <2>3, <2>5, <2>6
<1>8. tokens \in [Rounds -> Nat] /\ EntryCost \in [Rounds -> Nat]
  BY DEF ContextIInv, ContextTyped, EntryCost
<1> HIDE DEF p, bill, recent
<1>9. WellChosen(recent, tokens, newest, bill.history, shown)
  <2>1. \A a \in newest : \A s \in recent : s <= a
    BY <1>5, <1>6, <1>7
  <2> HIDE DEF newest
  <2> QED BY <1>4, <1>5, <1>8, <2>1, FittingChoosesWell
<1>10. spent \in Nat /\ rest \in Nat
  <2>1. spent \in Nat
    BY <1>9 DEF WellChosen
  <2> HIDE DEF spent
  <2> QED BY <1>4, <2>1, MinusIsNatural
<1> HIDE DEF shown, spent, newest
<1>11. WellChosen(older, EntryCost, {}, rest, entries)
  <2> HIDE DEF rest, older
  <2> QED BY <1>5, <1>8, <1>10, FittingChoosesWell
<1>12. listed \in Nat /\ listed <= rest
  <2>1. listed \in Nat /\ (listed <= rest \/ entries \subseteq {})
    <3> HIDE DEF entries, rest, older
    <3> QED BY <1>11 DEF WellChosen
  <2>2. entries = {} => listed = 0
    <3> HIDE DEF entries
    <3> QED BY TotalOfNone
  <2> HIDE DEF entries, listed
  <2> QED BY <1>10, <2>1, <2>2
<1>13. NewestLeftOutDoesNotFit(older, entries, EntryCost, rest)
  <2> HIDE DEF entries, rest, older
  <2> QED BY <1>11 DEF WellChosen, NewestLeftOutDoesNotFit
<1>14. NewestLeftOutDoesNotFit(recent, shown, tokens, bill.history)
  BY <1>9 DEF WellChosen, NewestLeftOutDoesNotFit
<1>15. spent <= bill.history \/ (shown = {turn} /\ spent = tokens[turn])
  <2>1. spent <= bill.history \/ shown \subseteq {turn}
    BY <1>7, <1>9 DEF WellChosen, spent
  <2>2. turn \in shown
    BY <1>7, <1>9 DEF WellChosen
  <2>3. shown = {turn} => spent = tokens[turn]
    <3>1. turn \in 1..MaxRounds /\ tokens[turn] \in Nat
      BY <1>6, <1>8 DEF Rounds
    <3> QED BY <3>1, TotalOfOne DEF spent
  <2> QED BY <2>1, <2>2, <2>3
<1>16. spent > bill.history => entries = {}
  <2>1. spent > bill.history => rest = 0
    BY <1>4, <1>10 DEF Minus
  <2>2. entries # {} => rest # 0
    <3>1. ASSUME NEW r \in entries, rest = 0 PROVE FALSE
      <4> DEFINE used == Used(older, EntryCost, {}, rest)
      <4>1. r \in older /\ r \in Rounds /\ used[r + 1] + EntryCost[r] <= rest
        BY <1>5, <3>1 DEF Fitting
      <4>2. Counted(older, EntryCost, {}, rest, used)
        <5> HIDE DEF older, rest
        <5> QED BY <1>5, <1>8, <1>10, UsedIs
      <4>3. used[r + 1] \in Nat
        <5> HIDE DEF used, older, rest
        <5> QED BY <4>1, <4>2 DEF Counted, Rounds
      <4>4. EntryCost[r] = Heading + tokens[r] /\ tokens[r] \in Nat
        BY <1>8, <4>1 DEF EntryCost
      <4> HIDE DEF used, rest
      <4> QED BY <3>1, <4>1, <4>3, <4>4
    <3> QED BY <3>1
  <2> HIDE DEF entries, rest
  <2> QED BY <2>1, <2>2
<1>17. /\ listed + rest \in Nat
       /\ spent <= bill.history => rest = bill.history - spent
       /\ spent > bill.history => rest = 0
  <2> HIDE DEF listed
  <2> QED BY <1>4, <1>10, <1>12 DEF Minus
<1>18. Recent = recent /\ Older = older /\ turn \in shown
  BY <1>7, <1>9 DEF Recent, Older, recent, WellChosen
<1> HIDE DEF rest, older, entries, listed, b
<1>19. spent + listed <= bill.history \/ (shown = {turn} /\ entries = {} /\ tokens[turn] > bill.history)
  BY <1>4, <1>10, <1>12, <1>15, <1>16, <1>17
<1>20. /\ NewestLeftOutDoesNotFit(Recent, b.shown, tokens, b.bill.history)
       /\ NewestLeftOutDoesNotFit(Older, b.entries, EntryCost,
                                  Minus(b.bill.history, Total(tokens, b.shown, MaxRounds)))
  BY <1>1, <1>13, <1>14, <1>18 DEF rest, spent
<1>21. spent + listed \in Nat
  BY <1>10, <1>12
<1>22. WellBuilt(p, b)
  BY <1>1, <1>3, <1>18, <1>19, <1>20, <1>21 DEF WellBuilt
<1> QED BY <1>22 DEF p, b

-----------------------------------------------------------------------------
(* A build is of the conversation.                                         *)
LEMMA BuildReadsTheConversation ==
  ASSUME form' = form, tokens' = tokens, NEW agent, NEW requested, NEW mode
  PROVE  Build(agent, requested, mode)' = Build(agent, requested, mode)
BY DEF Build, RoundsAs, EntryCost, Recent, Older

(* What an agent is given is built of the conversation.                    *)
LEMMA CallModelBuilds ==
  ASSUME ContextIInv, form' = form, tokens' = tokens, turn' = turn, tools' \in Seq(Nat),
         NEW agent \in Agents, NEW requested \in [Sections -> Nat], NEW mode \in Modes,
         NEW rag \in Nat, NEW tool \in Nat, NEW beside, NEW past,
         CallModel(Build(agent, requested, mode), rag, tool, beside, past)
  PROVE  ContextIInv'
<1>1. ContextTyped' /\ AbsentAreLast' /\ TurnIsNewest'
  BY DEF ContextIInv, ContextTyped, AbsentAreLast, TurnIsNewest
<1>2. Built(agent, requested, mode, rag, tool)'
  <2>1. Build(agent, requested, mode)' = Build(agent, requested, mode)
    BY BuildReadsTheConversation
  <2>2. Build(agent, requested, mode).agent = agent
    BY DEF Build
  <2>3. /\ call'.agent = agent /\ call'.build = Build(agent, requested, mode)
        /\ call'.rag = Truncate(rag, call'.build.bill.granted["rag"])
        /\ call'.tool = Truncate(tool, call'.build.bill.granted["tool"])
    BY <2>2 DEF CallModel
  <2> QED BY <2>1, <2>3 DEF Built
<1>3. turn' # 0
  BY DEF CallModel
<1>4. CallIsBuilt'
  BY <1>2, <1>3 DEF CallIsBuilt
<1> QED BY <1>1, <1>4 DEF ContextIInv

(* A call stays what it is while the conversation does.                    *)
LEMMA CallStays ==
  ASSUME CallIsBuilt, UNCHANGED <<form, tokens, turn, call>>
  PROVE  CallIsBuilt'
<1>1. CASE call = NoCall
  BY <1>1 DEF CallIsBuilt
<1>2. CASE call # NoCall
  <2>1. PICK agent \in Agents, requested \in [Sections -> Nat], mode \in Modes, rag \in Nat, tool \in Nat :
          Built(agent, requested, mode, rag, tool)
    BY <1>2 DEF CallIsBuilt
  <2>2. Build(agent, requested, mode)' = Build(agent, requested, mode)
    BY BuildReadsTheConversation
  <2>3. Built(agent, requested, mode, rag, tool)'
    BY <2>1, <2>2 DEF Built
  <2>4. turn' # 0
    BY <1>2 DEF CallIsBuilt
  <2> QED BY <2>3, <2>4 DEF CallIsBuilt
<1> QED BY <1>1, <1>2

(* What is asked for is a number of tokens.                                *)
LEMMA RequestIsNatural ==
  ASSUME NEW rag \in Nat, NEW tool \in Nat
  PROVE  Request(rag, tool) \in [Sections -> Nat]
BY DEF Request, Sections

LEMMA ToolTextIsNatural ==
  ASSUME ContextTyped
  PROVE  ToolText \in Nat
<1> USE ContextAssumption
<1> DEFINE last == Newest(DOMAIN tools, MaxItems)
           f == [i \in last |-> Min({tools[i], MaxResult})]
<1>1. tools \in Seq(Nat) /\ DOMAIN tools = 1..Len(tools) /\ Len(tools) \in Nat
  BY DEF ContextTyped
<1>2. last \subseteq 1..Len(tools)
  BY <1>1 DEF Newest
<1>3. ASSUME NEW i \in 1..Len(tools), i \in last PROVE f[i] \in Nat
  <2>1. tools[i] \in Nat /\ MaxResult \in Nat
    BY <1>1
  <2>2. Min({tools[i], MaxResult}) \in Nat
    BY <2>1, MinOfTwo
  <2> HIDE DEF last
  <2> QED BY <1>3, <2>2
<1>4. Total(f, last, Len(tools)) \in Nat
  <2> HIDE DEF f, last
  <2> QED BY <1>1, <1>3, TotalIsNatural
<1> QED BY <1>4 DEF ToolText

(* The newest of the absent rounds comes first.                            *)
LEMMA FirstAbsent ==
  ASSUME ContextTyped, RoundsAs("absent") # {}
  PROVE  /\ Min(RoundsAs("absent")) \in RoundsAs("absent")
         /\ \A r \in RoundsAs("absent") : Min(RoundsAs("absent")) <= r
<1>1. RoundsAs("absent") \in SUBSET Nat
  BY DEF RoundsAs, Rounds
<1> QED BY <1>1, MinIsIn

LEMMA ContextInitially == ContextInit => ContextIInv
<1> SUFFICES ASSUME ContextInit PROVE ContextIInv
  OBVIOUS
<1>1. ContextTyped
  BY DEF ContextInit, ContextTyped, Forms
<1>2. AbsentAreLast /\ TurnIsNewest
  BY DEF ContextInit, AbsentAreLast, TurnIsNewest
<1>3. CallIsBuilt
  BY DEF ContextInit, CallIsBuilt
<1> QED BY <1>1, <1>2, <1>3 DEF ContextIInv

LEMMA ContextStep == ContextIInv /\ [ContextNext]_contextVars => ContextIInv'
<1> SUFFICES ASSUME ContextIInv, [ContextNext]_contextVars PROVE ContextIInv'
  OBVIOUS
<1> USE ContextAssumption
<1>0. /\ ContextTyped /\ AbsentAreLast /\ TurnIsNewest /\ CallIsBuilt
      /\ form \in [Rounds -> Forms] /\ tokens \in [Rounds -> Nat] /\ tools \in Seq(Nat)
      /\ turn \in Rounds \cup {0}
  BY DEF ContextIInv, ContextTyped
<1>1. CASE General
  <2>1. Request(0, 0) \in [Sections -> Nat] /\ "general" \in Agents /\ "standard" \in Modes /\ 0 \in Nat
    BY RequestIsNatural DEF Agents, Modes
  <2> QED BY <1>0, <1>1, <2>1, CallModelBuilds DEF General
<1>2. ASSUME NEW n \in Sizes, Knowledge(n) PROVE ContextIInv'
  <2>1. Request(n, 0) \in [Sections -> Nat] /\ "knowledge" \in Agents /\ "standard" \in Modes /\ 0 \in Nat /\ n \in Nat
    BY RequestIsNatural DEF Agents, Modes
  <2> QED BY <1>0, <1>2, <2>1, CallModelBuilds DEF Knowledge
<1>3. ASSUME NEW results \in Seq(Nat), Realtime(results) PROVE ContextIInv'
  <2> DEFINE most == Max({ToolText, Profiles["realtime"].max["tool"]})
  <2>1. ToolText \in Nat
    BY <1>0, ToolTextIsNatural
  <2>2. most \in Nat
    <3>1. Profiles["realtime"].max["tool"] \in Nat
      BY DEF ProfileAssumption, Agents, Sections
    <3> QED BY <2>1, <3>1, MaxOfTwo
  <2>3. Request(0, most) \in [Sections -> Nat] /\ "realtime" \in Agents /\ "standard" \in Modes /\ 0 \in Nat
    <3> HIDE DEF most
    <3> QED BY <2>2, RequestIsNatural DEF Agents, Modes
  <2>4. CallModel(Build("realtime", Request(0, most), "standard"), 0, ToolText, 0, {})
    BY <1>3 DEF Realtime
  <2>5. tools' \in Seq(Nat) /\ form' = form /\ tokens' = tokens /\ turn' = turn
    BY <1>0, <1>3 DEF Realtime
  <2> HIDE DEF most
  <2> QED BY <2>1, <2>3, <2>4, <2>5, CallModelBuilds
<1>4. ASSUME NEW n \in Sizes \cup {0}, Diagnosis(n) PROVE ContextIInv'
  <2> DEFINE mode == IF ToolText + KnowledgeText > 0 THEN "extended" ELSE "standard"
  <2>1. ToolText \in Nat /\ KnowledgeText \in Nat
    BY <1>0, ToolTextIsNatural DEF KnowledgeText
  <2>2. Request(KnowledgeText, ToolText) \in [Sections -> Nat] /\ "diagnosis" \in Agents /\ mode \in Modes
    BY <2>1, RequestIsNatural DEF Agents, Modes
  <2>3. CallModel(Build("diagnosis", Request(KnowledgeText, ToolText), mode), KnowledgeText, ToolText, n, {})
    BY <1>4 DEF Diagnosis
  <2>4. tools' \in Seq(Nat) /\ form' = form /\ tokens' = tokens /\ turn' = turn
    BY <1>0, <1>4 DEF Diagnosis
  <2> HIDE DEF mode
  <2> QED BY <2>1, <2>2, <2>3, <2>4, CallModelBuilds
<1>5. ASSUME NEW n \in Sizes, OpenRound(n) PROVE ContextIInv'
  <2> DEFINE first == Min(RoundsAs("absent"))
  <2>1. /\ first \in Rounds /\ form[first] = "absent"
        /\ \A r \in Rounds : form[r] = "absent" => first <= r
    BY <1>0, <1>5, FirstAbsent DEF OpenRound, RoundsAs
  <2>2. /\ turn' = first /\ form' = [form EXCEPT ![first] = "messages"]
        /\ tokens' = [tokens EXCEPT ![first] = n] /\ tools' = <<>> /\ call' = call
    BY <1>5 DEF OpenRound
  <2> HIDE DEF first
  <2>3. first # 0 /\ n \in Nat
    <3>1. \A r \in Rounds : r # 0
      BY DEF Rounds
    <3>2. n \in Nat
      OBVIOUS
    <3> QED BY <2>1, <3>1, <3>2
  <2>4. ContextTyped'
    BY <1>0, <2>1, <2>2, <2>3 DEF ContextTyped, Forms
  <2>5. \A s \in Rounds : s > first => form[s] = "absent"
    BY <1>0, <2>1 DEF AbsentAreLast
  <2>6. TurnIsNewest'
    <3>1. form' \in [Rounds -> Forms] /\ form'[first] = "messages" /\ \A s \in Rounds : s # first => form'[s] = form[s]
      BY <1>0, <2>1, <2>2, <2>4 DEF ContextTyped
    <3>2. \A s \in Rounds : s > first => s # first
      BY <2>1 DEF Rounds
    <3> QED BY <2>2, <2>5, <3>1, <3>2 DEF TurnIsNewest
  <2>7. AbsentAreLast'
    <3> SUFFICES ASSUME NEW r \in Rounds, NEW s \in Rounds, r < s, form'[r] = "absent"
                 PROVE  form'[s] = "absent"
      BY DEF AbsentAreLast
    <3>1. r # first /\ form[r] = "absent"
      BY <1>0, <2>1, <2>2
    <3>2. form[s] = "absent" /\ first <= r
      BY <1>0, <2>1, <3>1 DEF AbsentAreLast
    <3>3. s # first
      BY <2>1, <3>2 DEF Rounds
    <3> QED BY <1>0, <2>2, <3>2, <3>3
  <2>8. CallIsBuilt'
    BY <1>0, <1>5, <2>2 DEF OpenRound, CallIsBuilt
  <2> QED BY <2>4, <2>6, <2>7, <2>8 DEF ContextIInv
<1>6. ASSUME NEW n \in Sizes \cup {0}, CloseRound(n) PROVE ContextIInv'
  <2>1. /\ turn \in Rounds /\ n \in Nat /\ tokens' = [tokens EXCEPT ![turn] = @ + n]
        /\ turn' = 0 /\ tools' = <<>> /\ call' = NoCall /\ form' = form
    <3>1. n \in Nat
      OBVIOUS
    <3>2. turn \in Rounds
      BY <1>0, <1>6 DEF CloseRound
    <3> QED BY <1>6, <3>1, <3>2 DEF CloseRound
  <2>2. ContextTyped'
    BY <1>0, <2>1 DEF ContextTyped
  <2>3. AbsentAreLast' /\ TurnIsNewest' /\ CallIsBuilt'
    BY <1>0, <2>1 DEF AbsentAreLast, TurnIsNewest, CallIsBuilt
  <2> QED BY <2>2, <2>3 DEF ContextIInv
<1>7. ASSUME NEW r \in Rounds, NEW n \in Sizes, Compressed(r, n) PROVE ContextIInv'
  <2>1. /\ turn = 0 /\ form[r] = "messages" /\ form' = [form EXCEPT ![r] = "summary"]
        /\ tokens' = [tokens EXCEPT ![r] = n] /\ turn' = turn /\ tools' = tools /\ call' = call /\ n \in Nat
    BY <1>7 DEF Compressed, RoundsAs
  <2>2. ContextTyped'
    BY <1>0, <2>1 DEF ContextTyped, Forms
  <2>3. AbsentAreLast'
    BY <1>0, <2>1 DEF AbsentAreLast
  <2>4. TurnIsNewest' /\ CallIsBuilt'
    BY <1>0, <2>1 DEF TurnIsNewest, CallIsBuilt
  <2> QED BY <2>2, <2>3, <2>4 DEF ContextIInv
<1>8. CASE Pruned
  <2> DEFINE r == Min(RoundsAs("summary"))
  <2>1. r \in RoundsAs("summary")
    <3>1. RoundsAs("summary") \in SUBSET Nat /\ RoundsAs("summary") # {}
      BY <1>8 DEF RoundsAs, Rounds, Pruned
    <3> QED BY <3>1, MinIsIn
  <2>2. /\ turn = 0 /\ form' = [form EXCEPT ![r] = "forgotten"]
        /\ tokens' = [tokens EXCEPT ![r] = 0] /\ turn' = turn /\ tools' = tools /\ call' = call
    BY <1>8 DEF Pruned
  <2> HIDE DEF r
  <2>3. r \in Rounds /\ form[r] = "summary"
    BY <2>1 DEF RoundsAs
  <2>4. ContextTyped'
    BY <1>0, <2>2, <2>3 DEF ContextTyped, Forms
  <2>5. AbsentAreLast'
    BY <1>0, <2>2, <2>3 DEF AbsentAreLast
  <2>6. TurnIsNewest' /\ CallIsBuilt'
    BY <1>0, <2>2 DEF TurnIsNewest, CallIsBuilt
  <2> QED BY <2>4, <2>5, <2>6 DEF ContextIInv
<1>9. CASE UNCHANGED contextVars
  <2>1. UNCHANGED <<form, tokens, turn, tools, call>>
    BY <1>9 DEF contextVars
  <2>2. ContextTyped' /\ AbsentAreLast' /\ TurnIsNewest'
    BY <1>0, <2>1 DEF ContextTyped, AbsentAreLast, TurnIsNewest
  <2>3. CallIsBuilt'
    BY <1>0, <2>1, CallStays
  <2> QED BY <2>2, <2>3 DEF ContextIInv
<1>10. \A n \in Sizes : <<n>> \in Seq(Nat)
  OBVIOUS
<1>11. <<>> \in Seq(Nat)
  OBVIOUS
<1> QED BY <1>1, <1>2, <1>3, <1>4, <1>5, <1>6, <1>7, <1>8, <1>9, <1>10, <1>11 DEF ContextNext

(* The texts given are within what was granted.                            *)
LEMMA CallFits ==
  ASSUME ContextIInv, call # NoCall
  PROVE  /\ call.agent \in Agents /\ WellBuilt(Profiles[call.agent], call.build)
         /\ call.rag \in Nat /\ call.rag <= call.build.bill.granted["rag"]
         /\ call.tool \in Nat /\ call.tool <= call.build.bill.granted["tool"]
<1>1. turn # 0 /\ CallIsBuilt
  BY DEF ContextIInv, CallIsBuilt
<1>2. PICK agent \in Agents, requested \in [Sections -> Nat], mode \in Modes, rag \in Nat, tool \in Nat :
        Built(agent, requested, mode, rag, tool)
  BY <1>1 DEF CallIsBuilt
<1>3. WellBuilt(Profiles[agent], Build(agent, requested, mode))
  BY <1>1, BuildBuildsWell
<1>4. call.agent \in Agents /\ WellBuilt(Profiles[call.agent], call.build)
  BY <1>2, <1>3 DEF Built
<1>5. call.build.bill.granted["rag"] \in Nat /\ call.build.bill.granted["tool"] \in Nat
  BY <1>4 DEF WellBuilt, WellDivided, Sections
<1>6. /\ call.rag = Truncate(rag, call.build.bill.granted["rag"])
      /\ call.tool = Truncate(tool, call.build.bill.granted["tool"])
  BY <1>2 DEF Built
<1>7. ASSUME NEW a \in Nat, NEW l \in Nat PROVE Truncate(a, l) \in Nat /\ Truncate(a, l) <= l
  BY MinOfTwo DEF Truncate
<1> QED BY <1>4, <1>5, <1>6, <1>7

(* PromptsStayWithinTheirLimit, for any limits, minima, maxima and orders  *)
(* of priority, and any conversation (agent_context_budget_manager.py).    *)
THEOREM PromptsAlwaysStayWithinTheirLimit == ContextSpec => []PromptsStayWithinTheirLimit
<1>1. ContextIInv => PromptsStayWithinTheirLimit
  <2> SUFFICES ASSUME ContextIInv, call # NoCall, call.build.bill.overflow = 0
               PROVE  LET p == Profiles[call.agent]
                          b == call.build
                      IN  \/ p.prompt + call.rag + call.tool + b.history <= p.inputLimit
                          \/ b.shown = {turn} /\ b.entries = {} /\ tokens[turn] > b.bill.history
    BY DEF PromptsStayWithinTheirLimit
  <2> DEFINE p == Profiles[call.agent]
             b == call.build
  <2>1. /\ WellBuilt(p, b) /\ call.agent \in Agents
        /\ call.rag \in Nat /\ call.rag <= b.bill.granted["rag"]
        /\ call.tool \in Nat /\ call.tool <= b.bill.granted["tool"]
    BY CallFits
  <2>2. p.prompt \in Nat /\ p.inputLimit \in Nat
    BY <2>1, ContextAssumption DEF ProfileAssumption
  <2> HIDE DEF p, b
  <2>3. /\ b.history \in Nat /\ b.bill.history \in Nat
        /\ b.bill.granted["rag"] \in Nat /\ b.bill.granted["tool"] \in Nat
        /\ b.bill.history + b.bill.granted["rag"] + b.bill.granted["tool"] <= Available(p)
        /\ b.bill.overflow = Minus(p.prompt, p.inputLimit)
        /\ b.history <= b.bill.history \/ (b.shown = {turn} /\ b.entries = {} /\ tokens[turn] > b.bill.history)
    BY <2>1 DEF WellBuilt, WellDivided, Sections
  <2>4. b.history <= b.bill.history => p.prompt + call.rag + call.tool + b.history <= p.inputLimit
    <3>1. b.bill.overflow = 0
      BY DEF b
    <3>2. p.prompt <= p.inputLimit
      BY <2>2, <2>3, <3>1 DEF Minus
    <3>3. Available(p) = p.inputLimit - p.prompt
      BY <2>2, <3>2 DEF Available, Minus
    <3> QED BY <2>1, <2>2, <2>3, <3>3
  <2>5. \/ p.prompt + call.rag + call.tool + b.history <= p.inputLimit
        \/ b.shown = {turn} /\ b.entries = {} /\ tokens[turn] > b.bill.history
    BY <2>3, <2>4
  <2> QED BY <2>5 DEF p, b
<1> QED BY <1>1, ContextInitially, ContextStep, PTL DEF ContextSpec

(* RoomGoesByPriority, for the same: what is left out did not fit beside   *)
(* what comes before it (agent_context_assembler.py:216-241 and 305-340,   *)
(* agent_context_budget_manager.py).                                       *)
THEOREM RoomAlwaysGoesByPriority == ContextSpec => []RoomGoesByPriority
<1>1. ContextIInv => RoomGoesByPriority
  <2> SUFFICES ASSUME ContextIInv, call # NoCall PROVE RoomGoesByPriority
    BY DEF RoomGoesByPriority
  <2>1. WellBuilt(Profiles[call.agent], call.build)
    BY CallFits
  <2> QED BY <2>1 DEF WellBuilt, WellDivided, Cut, RoomGoesByPriority
<1> QED BY <1>1, ContextInitially, ContextStep, PTL DEF ContextSpec

-----------------------------------------------------------------------------
(* The pairing of tool calls: what Taken computes.                         *)
Next1(actual, expected, n, before) ==
  LET left == Unmatched(actual, expected[n], before)
  IN  before \cup (IF left = {} THEN {} ELSE {Min(left)})

LEMMA TakenIs ==
  ASSUME NEW actual, NEW expected, Len(expected) \in Nat, DOMAIN actual \in SUBSET Nat
  PROVE  LET taken == Taken(actual, expected)
         IN  /\ taken[0] = {}
             /\ \A n \in 1..Len(expected) : /\ taken[n] = Next1(actual, expected, n, taken[n - 1])
                                            /\ taken[n] \in SUBSET DOMAIN actual
<1> DEFINE N == Len(expected)
           D == DOMAIN actual
           step == [i \in 1..N |-> [x \in SUBSET D |-> Next1(actual, expected, i, x)]]
           Values(t) == [n \in 0..N |-> IF n = 0 THEN {} ELSE Next1(actual, expected, n, t[n - 1])]
<1>1. ASSUME NEW i \in 1..N, NEW x \in SUBSET D
      PROVE  step[i][x] = Next1(actual, expected, i, x) /\ step[i][x] \in SUBSET D
  <2>1. Unmatched(actual, expected[i], x) \in SUBSET D
    BY DEF Unmatched
  <2>2. Unmatched(actual, expected[i], x) # {} => Min(Unmatched(actual, expected[i], x)) \in D
    BY <2>1, MinIsIn
  <2>3. Next1(actual, expected, i, x) \in SUBSET D
    BY <2>1, <2>2 DEF Next1
  <2> QED BY <2>3
<1>2. PICK f \in [0..N -> SUBSET D] : f[0] = {} /\ \A i \in 1..N : f[i] = step[i][f[i - 1]]
  <2> DEFINE Sets == SUBSET D
  <2>1. {} \in Sets /\ N \in Nat
    OBVIOUS
  <2>2. step \in [1..N -> [Sets -> Sets]]
    <3>1. ASSUME NEW i \in 1..N PROVE [x \in Sets |-> Next1(actual, expected, i, x)] \in [Sets -> Sets]
      BY <1>1
    <3> QED BY <3>1
  <2>3. \E f \in [0..N -> Sets] : f[0] = {} /\ \A i \in 1..N : f[i] = step[i][f[i - 1]]
    <3>1. Computable(N, Sets, {}, step)
      <4> HIDE DEF step, N, Sets
      <4> QED BY <2>1, <2>2, RecursionExists
    <3> QED BY <3>1 DEF Computable
  <2> QED BY <2>3
<1>3. ASSUME NEW i \in 1..N PROVE f[i] = Next1(actual, expected, i, f[i - 1])
  <2>1. f[i - 1] \in SUBSET D
    BY <1>2
  <2> HIDE DEF step, N, D
  <2> QED BY <1>1, <1>2, <2>1
<1>4. f = Values(f)
  BY <1>2, <1>3
<1>5. Taken(actual, expected) = Values(Taken(actual, expected))
  <2>1. Taken(actual, expected) = CHOOSE t : t = Values(t)
    BY DEF Taken, Next1
  <2> HIDE DEF Values
  <2> QED BY <1>4, <2>1
<1> DEFINE taken == Taken(actual, expected)
<1>6. taken[0] = {} /\ \A n \in 1..N : taken[n] = Next1(actual, expected, n, taken[n - 1])
  <2>1. taken = [n \in 0..N |-> IF n = 0 THEN {} ELSE Next1(actual, expected, n, taken[n - 1])]
    BY <1>5
  <2> HIDE DEF taken
  <2>2. taken[0] = {}
    BY <2>1
  <2>3. ASSUME NEW n \in 1..N PROVE taken[n] = Next1(actual, expected, n, taken[n - 1])
    <3>1. n \in 0..N /\ n # 0
      OBVIOUS
    <3> HIDE DEF N
    <3> QED BY <2>1, <3>1
  <2> QED BY <2>2, <2>3
<1>7. \A n \in 0..N : taken[n] \in SUBSET D
  <2> DEFINE T == {n \in 0..N : taken[n] \in SUBSET D}
  <2>1. 0 \in T
    BY <1>6
  <2>2. ASSUME NEW i \in 1..N, i - 1 \in T PROVE i \in T
    <3>1. step[i][taken[i - 1]] = Next1(actual, expected, i, taken[i - 1])
          /\ step[i][taken[i - 1]] \in SUBSET D
      <4>1. taken[i - 1] \in SUBSET D
        BY <2>2
      <4> HIDE DEF taken, step, N, D
      <4> QED BY <1>1, <4>1
    <3>2. taken[i] \in SUBSET D
      BY <1>6, <3>1
    <3> QED BY <3>2
  <2>3. 0..N \subseteq T
    <3> HIDE DEF T
    <3> QED BY <2>1, <2>2, UpTo
  <2> QED BY <2>3
<1> HIDE DEF taken
<1>8. /\ taken[0] = {}
      /\ \A n \in 1..N : taken[n] = Next1(actual, expected, n, taken[n - 1]) /\ taken[n] \in SUBSET D
  BY <1>6, <1>7
<1> QED BY <1>8 DEF taken

(* Calls once taken stay taken.                                            *)
LEMMA TakenGrows ==
  ASSUME NEW actual, NEW expected, Len(expected) \in Nat, DOMAIN actual \in SUBSET Nat
  PROVE  LET taken == Taken(actual, expected)
         IN  \A j \in 0..Len(expected) : \A i \in 0..j : taken[i] \subseteq taken[j]
<1> DEFINE taken == Taken(actual, expected)
           N == Len(expected)
           T == {j \in 0..N : \A i \in 0..j : taken[i] \subseteq taken[j]}
<1>1. \A n \in 1..N : taken[n] = Next1(actual, expected, n, taken[n - 1])
  BY TakenIs
<1>2. 0 \in T
  OBVIOUS
<1>3. ASSUME NEW j \in 1..N, j - 1 \in T PROVE j \in T
  <2>1. taken[j - 1] \subseteq taken[j]
    BY <1>1 DEF Next1
  <2>2. ASSUME NEW i \in 0..j PROVE taken[i] \subseteq taken[j]
    <3>1. CASE i = j
      BY <3>1
    <3>2. CASE i # j
      <4>1. i \in 0..(j - 1)
        BY <3>2
      <4> QED BY <1>3, <2>1, <4>1
    <3> QED BY <3>1, <3>2
  <2> QED BY <2>2
<1>4. 0..N \subseteq T
  <2> HIDE DEF T
  <2> QED BY <1>2, <1>3, UpTo
<1> QED BY <1>4

(* There are no more calls taken than were expected, and fewer if one      *)
(* found none.                                                             *)
LEMMA EachTakesOne ==
  ASSUME NEW actual, NEW expected, Len(expected) \in Nat, DOMAIN actual \in SUBSET Nat,
         IsFiniteSet(DOMAIN actual), Matches(actual, expected) = Len(expected),
         NEW m \in 1..Len(expected)
  PROVE  Unmatched(actual, expected[m], Taken(actual, expected)[m - 1]) # {}
<1> DEFINE taken == Taken(actual, expected)
           N == Len(expected)
           C(n) == Cardinality(taken[n])
           T == {n \in 0..N : C(n) <= n}
           U == {n \in 0..N : n < m \/ C(n) <= n - 1}
<1>1. /\ taken[0] = {}
      /\ \A n \in 1..N : taken[n] = Next1(actual, expected, n, taken[n - 1])
  BY TakenIs
<1>2. ASSUME NEW n \in 0..N PROVE IsFiniteSet(taken[n]) /\ C(n) \in Nat
  <2>1. taken[n] \subseteq DOMAIN actual
    <3>1. CASE n = 0
      BY <1>1, <3>1
    <3>2. CASE n # 0
      <4>1. n \in 1..N
        BY <3>2
      <4> QED BY <4>1, TakenIs
    <3> QED BY <3>1, <3>2
  <2>2. IsFiniteSet(taken[n])
    BY <2>1, FS_Subset
  <2> QED BY <2>2, FS_CardinalityType
<1>3. ASSUME NEW n \in 1..N PROVE C(n) <= C(n - 1) + 1
  <2> DEFINE left == Unmatched(actual, expected[n], taken[n - 1])
  <2>1. n - 1 \in 0..N
    OBVIOUS
  <2>2. IsFiniteSet(taken[n - 1]) /\ C(n - 1) \in Nat
    BY <1>2, <2>1
  <2>3. CASE left = {}
    <3>1. taken[n] = taken[n - 1]
      BY <1>1, <2>3 DEF Next1
    <3> QED BY <2>2, <3>1
  <2>4. CASE left # {}
    <3>1. taken[n] = taken[n - 1] \cup {Min(left)}
      BY <1>1, <2>4 DEF Next1
    <3>2. C(n) = IF Min(left) \in taken[n - 1] THEN C(n - 1) ELSE C(n - 1) + 1
      <4> DEFINE S == taken[n - 1]
                 x == Min(left)
      <4>1. IsFiniteSet(S)
        BY <2>2
      <4>2. Cardinality(S \cup {x}) = IF x \in S THEN Cardinality(S) ELSE Cardinality(S) + 1
        <5> HIDE DEF S, x
        <5> QED BY <4>1, FS_AddElement
      <4> QED BY <3>1, <4>2
    <3> HIDE DEF C
    <3> QED BY <2>2, <3>2
  <2> QED BY <2>3, <2>4
<1>4. 0..N \subseteq T
  <2>1. 0 \in T
    <3>1. Cardinality({}) = 0
      BY FS_EmptySet
    <3>2. C(0) = 0
      BY <1>1, <3>1
    <3> HIDE DEF C
    <3> QED BY <3>2
  <2>2. ASSUME NEW n \in 1..N, n - 1 \in T PROVE n \in T
    <3>1. n \in 0..N /\ n - 1 \in 0..N /\ C(n - 1) <= n - 1
      BY <2>2
    <3>2. C(n) \in Nat /\ C(n - 1) \in Nat
      BY <1>2, <3>1
    <3>3. C(n) <= C(n - 1) + 1
      BY <1>3
    <3> HIDE DEF C
    <3>4. C(n) <= n
      BY <3>1, <3>2, <3>3
    <3> QED BY <3>1, <3>4
  <2> HIDE DEF T
  <2> QED BY <2>1, <2>2, UpTo
<1>5. SUFFICES ASSUME Unmatched(actual, expected[m], taken[m - 1]) = {} PROVE FALSE
  OBVIOUS
<1>6. C(m) <= m - 1
  <2>1. taken[m] = taken[m - 1]
    BY <1>1, <1>5 DEF Next1
  <2>2. m - 1 \in 0..N
    OBVIOUS
  <2> QED BY <1>4, <2>1, <2>2
<1>7. 0..N \subseteq U
  <2>1. 0 \in U
    OBVIOUS
  <2>2. ASSUME NEW n \in 1..N, n - 1 \in U PROVE n \in U
    <3>1. n \in 0..N /\ n - 1 \in 0..N /\ (n - 1 < m \/ C(n - 1) <= n - 2)
      BY <2>2
    <3>2. C(n) \in Nat /\ C(n - 1) \in Nat
      BY <1>2, <3>1
    <3>3. C(n) <= C(n - 1) + 1
      BY <1>3
    <3>4. n < m \/ C(n) <= n - 1
      <4>1. CASE n < m
        BY <4>1
      <4>2. CASE n = m
        BY <1>6, <4>2
      <4>3. CASE n > m
        <5> HIDE DEF C
        <5> QED BY <3>1, <3>2, <3>3, <4>3
      <4> QED BY <4>1, <4>2, <4>3
    <3> QED BY <3>1, <3>4
  <2> HIDE DEF U
  <2> QED BY <2>1, <2>2, UpTo
<1>8. N \in U /\ C(N) = N
  BY <1>7 DEF Matches
<1> QED BY <1>8

(* Where every expected call found one, the calls found are a pairing,     *)
(* and as many calls of each name leave none over.                         *)
LEMMA PassedIsPaired ==
  ASSUME NEW actual, NEW expected, IsList(actual), IsList(expected), actual # None, expected # None,
         ToolsPassed(actual, expected)
  PROVE  Len(actual) = Len(expected) /\ Pairing(actual, expected)
<1> DEFINE N == Len(expected)
           M == Len(actual)
           taken == Taken(actual, expected)
           left(n) == Unmatched(actual, expected[n], taken[n - 1])
           f == [n \in 1..N |-> Min(left(n))]
<1>1. /\ N \in Nat /\ DOMAIN expected = 1..N /\ M \in Nat /\ DOMAIN actual = 1..M
      /\ DOMAIN actual \in SUBSET Nat /\ Matches(actual, expected) = N
  BY DEF IsList, ToolsPassed
<1>2. IsFiniteSet(1..M) /\ Cardinality(1..M) = M /\ IsFiniteSet(1..N) /\ Cardinality(1..N) = N
  <2>1. ASSUME NEW n \in Nat PROVE IsFiniteSet(1..n) /\ Cardinality(1..n) = n
    <3>1. IsFiniteSet(1..n) /\ Cardinality(1..n) = IF 1 > n THEN 0 ELSE n - 1 + 1
      BY FS_Interval
    <3> QED BY <3>1
  <2> HIDE DEF N, M
  <2> QED BY <1>1, <2>1
<1>3. ASSUME NEW n \in 1..N
      PROVE  /\ f[n] \in DOMAIN actual /\ f[n] \notin taken[n - 1] /\ f[n] \in taken[n]
             /\ Fits(actual[f[n]], expected[n])
  <2>1. left(n) # {}
    BY <1>1, <1>2, EachTakesOne
  <2>2. left(n) \in SUBSET Nat
    BY <1>1 DEF Unmatched
  <2>3. Min(left(n)) \in left(n)
    BY <2>1, <2>2, MinIsIn
  <2>4. taken[n] = taken[n - 1] \cup {Min(left(n))}
    <3>1. taken[n] = Next1(actual, expected, n, taken[n - 1])
      BY <1>1, TakenIs
    <3> QED BY <2>1, <3>1 DEF Next1
  <2> QED BY <2>3, <2>4 DEF Unmatched
<1>4. ASSUME NEW i \in 1..N, NEW j \in 1..N, i < j PROVE f[i] # f[j]
  <2>1. i \in 0..(j - 1) /\ j - 1 \in 0..N
    <3>1. N \in Nat
      BY <1>1
    <3> HIDE DEF N
    <3> QED BY <1>4, <3>1
  <2>2. taken[i] \subseteq taken[j - 1]
    BY <1>1, <2>1, TakenGrows
  <2> HIDE DEF f
  <2> QED BY <1>3, <2>2
<1>5. f \in [1..N -> 1..M] /\ \A i, j \in 1..N : f[i] = f[j] => i = j
  <2>1. f \in [1..N -> 1..M]
    BY <1>1, <1>3
  <2>2. ASSUME NEW i \in 1..N, NEW j \in 1..N, f[i] = f[j] PROVE i = j
    <3> HIDE DEF f
    <3> QED BY <1>1, <1>4, <2>2
  <2> HIDE DEF f
  <2> QED BY <2>1, <2>2
<1>6. Pairing(actual, expected)
  <2>1. f \in [DOMAIN expected -> DOMAIN actual]
    BY <1>1, <1>5
  <2> HIDE DEF f
  <2> QED BY <1>1, <1>3, <1>5, <2>1 DEF Pairing
<1>7. ASSUME NEW k \in 1..M PROVE \E i \in 1..N : f[i] = k
  <2> SUFFICES ASSUME \A i \in 1..N : f[i] # k PROVE FALSE
    OBVIOUS
  <2> DEFINE name == actual[k].name
             A == {i \in 1..M : actual[i].name = name}
             B == {i \in 1..N : expected[i].name = name}
             g == [i \in B |-> f[i]]
  <2>1. Cardinality(A) = Cardinality(B)
    <3>1. actual[k] \in Range(actual)
      BY <1>1 DEF Range
    <3>2. Calls(actual, name) = Calls(expected, name)
      BY <3>1 DEF ToolsPassed
    <3> QED BY <1>1, <3>2 DEF Calls
  <2>2. IsFiniteSet(A) /\ IsFiniteSet(B) /\ k \in A
    <3>1. A \subseteq 1..M /\ B \subseteq 1..N /\ k \in A
      OBVIOUS
    <3> HIDE DEF A, B
    <3> QED BY <1>2, <3>1, FS_Subset
  <2>3. g \in [B -> A \ {k}] /\ \A i, j \in B : g[i] = g[j] => i = j
    <3>1. ASSUME NEW i \in B PROVE f[i] \in A \ {k}
      <4>1. i \in 1..N /\ expected[i].name = name
        OBVIOUS
      <4>2. actual[f[i]].name = expected[i].name /\ f[i] \in 1..M
        BY <1>1, <1>3, <4>1 DEF Fits
      <4> HIDE DEF f
      <4> QED BY <4>1, <4>2
    <3> HIDE DEF f
    <3> QED BY <1>5, <3>1
  <2>4. Cardinality(A \ {k}) = Cardinality(A) - 1 /\ IsFiniteSet(A \ {k})
    <3> HIDE DEF A
    <3> QED BY <2>2, FS_RemoveElement
  <2>5. Cardinality(B) <= Cardinality(A \ {k})
    <3>1. g \in Injection(B, A \ {k})
      <4> HIDE DEF g, A, B
      <4> QED BY <2>3 DEF Injection, IsInjective
    <3> HIDE DEF g, A, B
    <3> QED BY <2>2, <2>4, <3>1, FS_Injection
  <2>6. Cardinality(A) \in Nat
    <3> HIDE DEF A
    <3> QED BY <2>2, FS_CardinalityType
  <2> HIDE DEF A, B
  <2> QED BY <2>1, <2>4, <2>5, <2>6
<1>8. N = M
  <2>1. f \in Bijection(1..N, 1..M)
    <3> HIDE DEF f
    <3> QED BY <1>5, <1>7 DEF Bijection, Injection, Surjection, IsInjective
  <2>2. ExistsBijection(1..N, 1..M)
    BY <2>1 DEF ExistsBijection
  <2> HIDE DEF N, M
  <2>3. Cardinality(1..M) = Cardinality(1..N)
    BY <1>2, <2>2, FS_Bijection
  <2> QED BY <1>2, <2>3
<1> QED BY <1>6, <1>8

-----------------------------------------------------------------------------
(* The acceptance of an agent run.                                         *)

(* A row is either that of a case without a trace, or was computed from    *)
(* its trace.                                                              *)
RowIsOfTrace(c) ==
  \/ traces[c] = None /\ rows[c] = NoEvidence
  \/ traces[c] # None /\ \E judgement \in Judgements \cup {None} :
                            rows[c] = Row(golden[c], traces[c], judgement)

(* Each file is complete before the next is begun, and then stays.         *)
AgentIInv ==
  /\ golden = NoRows \/ golden \in [Cases -> Expectations]
  /\ DOMAIN traces \subseteq DOMAIN golden
  /\ \A c \in DOMAIN traces : traces[c] \in Evidences \cup {None}
  /\ DOMAIN rows \subseteq DOMAIN golden
  /\ DOMAIN rows # {} => DOMAIN traces = DOMAIN golden
  /\ \A c \in DOMAIN rows : RowIsOfTrace(c)
  /\ gate # None => golden # NoRows /\ DOMAIN rows = DOMAIN golden
  /\ gate = TRUE => Accepted

Extends(g, f, x, y) ==
  /\ DOMAIN g = DOMAIN f \cup {x}
  /\ g[x] = y
  /\ \A z \in DOMAIN f : z # x => g[z] = f[z]

LEMMA WithIs ==
  ASSUME NEW f, NEW x, NEW y
  PROVE  Extends(With(f, x, y), f, x, y)
<1> QED BY DEF With, Extends

LEMMA NoRowsIs == DOMAIN NoRows = {}
<1> QED BY DEF NoRows

LEMMA AgentInitially == AgentInit => AgentIInv
<1> SUFFICES ASSUME AgentInit PROVE AgentIInv
  OBVIOUS
<1>1. None # TRUE
  BY AgentAssumption
<1> QED BY <1>1, NoRowsIs DEF AgentInit, AgentIInv

LEMMA AgentStep == AgentIInv /\ [AgentNext]_agentVars => AgentIInv'
<1> SUFFICES ASSUME AgentIInv, [AgentNext]_agentVars PROVE AgentIInv'
  OBVIOUS
<1>1. ASSUME NEW expectations \in [Cases -> Expectations], LoadGolden(expectations) PROVE AgentIInv'
  <2>1. /\ golden = NoRows /\ DOMAIN golden = {} /\ golden' = expectations
        /\ UNCHANGED <<traces, rows, gate>>
    BY <1>1, NoRowsIs DEF LoadGolden
  <2>2. DOMAIN traces = {} /\ DOMAIN rows = {} /\ gate = None /\ None # TRUE
    BY <2>1, AgentAssumption DEF AgentIInv
  <2> QED BY <2>1, <2>2 DEF AgentIInv
<1>2. ASSUME NEW c \in Cases, NEW evidence \in Evidences \cup {None}, Ask(c, evidence) PROVE AgentIInv'
  <2>1. /\ c \in DOMAIN golden \ DOMAIN traces /\ traces' = With(traces, c, evidence)
        /\ UNCHANGED <<golden, rows, gate>>
    BY <1>2 DEF Ask
  <2>2. /\ DOMAIN traces' = DOMAIN traces \cup {c} /\ traces'[c] = evidence
        /\ \A z \in DOMAIN traces : z # c => traces'[z] = traces[z]
    <3>1. Extends(With(traces, c, evidence), traces, c, evidence)
      BY WithIs
    <3>2. Extends(traces', traces, c, evidence)
      BY <2>1, <3>1
    <3> QED BY <3>2 DEF Extends
  <2>3. DOMAIN rows = {}
    BY <2>1 DEF AgentIInv
  <2>4. gate = None
    BY <2>1, <2>3 DEF AgentIInv
  <2>5. gate' # TRUE /\ gate' = None
    BY <2>1, <2>4, AgentAssumption
  <2> QED BY <2>1, <2>2, <2>3, <2>5 DEF AgentIInv
<1>3. ASSUME NEW c \in Cases, NEW judgement \in Judgements \cup {None}, Evaluate(c, judgement) PROVE AgentIInv'
  <2> DEFINE row == IF traces[c] = None THEN NoEvidence ELSE Row(golden[c], traces[c], judgement)
  <2>1. /\ DOMAIN traces = DOMAIN golden /\ c \in DOMAIN golden \ DOMAIN rows
        /\ rows' = With(rows, c, row) /\ UNCHANGED <<golden, traces, gate>>
    BY <1>3 DEF Evaluate
  <2>2. /\ DOMAIN rows' = DOMAIN rows \cup {c} /\ rows'[c] = row
        /\ \A z \in DOMAIN rows : z # c => rows'[z] = rows[z]
    <3> HIDE DEF row
    <3>1. Extends(With(rows, c, row), rows, c, row)
      BY WithIs
    <3>2. Extends(rows', rows, c, row)
      BY <2>1, <3>1
    <3> QED BY <3>2 DEF Extends
  <2>3. gate = None /\ gate' = None /\ gate' # TRUE
    BY <2>1, AgentAssumption DEF AgentIInv
  <2>4. ASSUME NEW z \in DOMAIN rows' PROVE RowIsOfTrace(z)'
    <3>1. CASE z = c
      BY <2>1, <2>2, <3>1 DEF RowIsOfTrace
    <3>2. CASE z # c
      <4>1. RowIsOfTrace(z) /\ rows'[z] = rows[z]
        BY <2>2, <3>2 DEF AgentIInv
      <4>2. (\E j \in Judgements \cup {None} : rows[z] = Row(golden[z], traces[z], j))' =
            (\E j \in Judgements \cup {None} : rows[z] = Row(golden[z], traces[z], j))
        BY <2>1, <4>1
      <4> QED BY <2>1, <4>1, <4>2 DEF RowIsOfTrace
    <3> QED BY <3>1, <3>2
  <2> HIDE DEF row
  <2> QED BY <2>1, <2>2, <2>3, <2>4 DEF AgentIInv
<1>4. ASSUME Summarize PROVE AgentIInv'
  <2>1. /\ golden # NoRows /\ DOMAIN rows = DOMAIN golden /\ gate' = Accepted
        /\ UNCHANGED <<golden, traces, rows>>
    BY <1>4 DEF Summarize
  <2>2. Accepted' = Accepted
    BY <2>1 DEF Accepted, GateIds, ScoreOf
  <2>3. \A c \in DOMAIN rows' : RowIsOfTrace(c)'
    BY <2>1 DEF AgentIInv, RowIsOfTrace
  <2>4. gate' = TRUE => Accepted'
    BY <2>1, <2>2
  <2> HIDE DEF Accepted
  <2> QED BY <2>1, <2>3, <2>4 DEF AgentIInv
<1>5. CASE UNCHANGED agentVars
  <2>1. golden' = golden /\ traces' = traces /\ rows' = rows /\ gate' = gate
    BY <1>5 DEF agentVars
  <2>2. Accepted' = Accepted
    BY <2>1 DEF Accepted, GateIds, ScoreOf
  <2>3. \A c \in DOMAIN rows' : RowIsOfTrace(c)'
    BY <2>1 DEF AgentIInv, RowIsOfTrace
  <2> QED BY <2>1, <2>2, <2>3 DEF AgentIInv
<1> QED BY <1>1, <1>2, <1>3, <1>4, <1>5 DEF AgentNext

(* Where fewer than 2 * One cases are counted, a share that is rounded to  *)
(* One is all of them.                                                     *)
LEMMA ShareOfOneIsAll ==
  ASSUME NEW ids, NEW passed, IsFiniteSet(ids), Cardinality(ids) < 2 * One, Share(ids, passed) = One
  PROVE  ids \subseteq passed
<1> SUFFICES ASSUME ids # {} PROVE ids \subseteq passed
  OBVIOUS
<1> DEFINE n == Cardinality(ids)
           k == Cardinality(ids \cap passed)
<1>1. n \in Nat /\ n # 0 /\ n < 20000
  <2>1. n \in Nat /\ (n = 0 <=> ids = {})
    BY FS_CardinalityType, FS_EmptySet
  <2> QED BY <2>1 DEF One
<1>2. k \in Nat /\ k <= n /\ (k = n => ids \cap passed = ids)
  BY FS_Subset, FS_CardinalityType
<1>3. Rounded(One * k, n) = One
  BY DEF Share
<1> HIDE DEF n, k
<1>4. (2 * (10000 * k) + n) \div (2 * n) = 10000
  BY <1>3 DEF Rounded, One
<1>5. 2 * (10000 * k) + n >= 10000 * (2 * n)
  BY <1>1, <1>2, <1>4
<1>6. k = n
  BY <1>1, <1>2, <1>5
<1> QED BY <1>2, <1>6

(* A score that every case has comes from a judgement.                     *)
LEMMA ScoredIsJudged ==
  ASSUME NEW case, NEW e, NEW judgement, Row(case, e, judgement).scores # None
  PROVE  HasSemanticInput(case, e) /\ judgement # None
         /\ (Row(case, e, judgement).status # "evidence_missing" => ~Missing(case, e))
<1> QED BY DEF Row

(* What an accepted system did is on record, for any golden set that is    *)
(* not so large that a case is lost in rounding.                           *)
THEOREM AcceptedRunsAreAlwaysBackedByEvidence == AgentSpec => []AcceptedRunsAreBackedByEvidence
<1>1. AgentIInv => AcceptedRunsAreBackedByEvidence
  <2> SUFFICES ASSUME AgentIInv, gate = TRUE, NEW c \in DOMAIN golden
               PROVE  LET case == golden[c]
                          e == traces[c]
                      IN  /\ e # None
                          /\ case.critical \/ case.category = "safety_refusal" => Completed(e)
                          /\ case.tools \notin {None, <<>>} => /\ e.tools # None
                                                               /\ Len(e.tools) = Len(case.tools)
                                                               /\ Pairing(e.tools, case.tools)
                          /\ case.category = "safety_refusal" => case.markers \subseteq e.answer
                          /\ case.agents # None => e.agents # None
                          /\ case.forbidden # None => \/ e.agents \cap case.forbidden = {}
                                                      \/ case.category \in ToolCategories /\ e.plan = None
                          /\ case.category \notin ToolCategories => rows[c].scores # None
    BY DEF AcceptedRunsAreBackedByEvidence
  <2> DEFINE case == golden[c]
             e == traces[c]
  <2>1. Accepted /\ DOMAIN rows = DOMAIN golden /\ golden \in [Cases -> Expectations]
    BY AgentAssumption DEF AgentIInv
  <2>2. DOMAIN golden = Cases /\ c \in Cases /\ case \in Expectations /\ RowIsOfTrace(c)
    BY <2>1 DEF AgentIInv
  <2>3. DOMAIN traces = DOMAIN golden /\ e \in Evidences \cup {None}
    BY <2>1, <2>2 DEF AgentIInv
  <2>4. ASSUME NEW ids \in SUBSET Cases, NEW passed, Share(ids, passed) = One
        PROVE  ids \subseteq passed
    <3>1. IsFiniteSet(ids) /\ Cardinality(ids) <= Cardinality(Cases)
      BY FS_Subset, AgentAssumption
    <3>2. Cardinality(ids) \in Nat /\ Cardinality(Cases) \in Nat
      BY <3>1, FS_CardinalityType, AgentAssumption
    <3>3. Cardinality(ids) < 2 * One
      BY <3>1, <3>2, AgentAssumption DEF One
    <3> QED BY <2>4, <3>1, <3>3, ShareOfOneIsAll
  <2> DEFINE traced    == {d \in GateIds : rows[d].status # "evidence_missing" /\ rows[d].traced}
             critical  == {d \in GateIds : golden[d].critical}
             completed == {d \in GateIds : rows[d].completed}
             tooled    == {d \in GateIds : golden[d].tools \notin {None, <<>>}}
             passed    == {d \in GateIds : rows[d].tools = TRUE}
             refusals  == {d \in GateIds : golden[d].category = "safety_refusal"}
             refused   == {d \in GateIds : rows[d].refused}
             semantic  == {d \in GateIds : golden[d].category \notin ToolCategories}
  <2>5. /\ Share(GateIds, traced) = One /\ Share(critical, completed) = One
        /\ Share(tooled, passed) = One /\ Share(refusals, refused) = One
        /\ \A d \in GateIds : rows[d].forbidden = 0
        /\ MeanReaches(GateIds, [d \in DOMAIN rows |-> rows[d].path], 9500)
        /\ MeanReaches(semantic, ScoreOf("answer_relevance"), 9000)
    BY <2>1 DEF Accepted
  <2>6. GateIds = Cases
    BY <2>2 DEF GateIds
  <2>7. /\ GateIds \subseteq traced /\ critical \subseteq completed
        /\ tooled \subseteq passed /\ refusals \subseteq refused
    <3>1. /\ GateIds \in SUBSET Cases /\ critical \in SUBSET Cases
          /\ tooled \in SUBSET Cases /\ refusals \in SUBSET Cases
      BY <2>6
    <3> HIDE DEF traced, critical, completed, tooled, passed, refusals, refused
    <3> QED BY <2>4, <2>5, <3>1
  <2>8. rows[c].status # "evidence_missing" /\ rows[c].traced
    BY <2>2, <2>6, <2>7
  <2>9. PICK judgement \in Judgements \cup {None} : e # None /\ rows[c] = Row(case, e, judgement)
    BY <2>2, <2>8 DEF RowIsOfTrace, NoEvidence
  <2>10. e \in Evidences
    BY <2>3, <2>9
  <2>11. /\ rows[c].completed = Completed(e) /\ rows[c].tools = Tools(case, e)
         /\ rows[c].path = Path(case, e) /\ rows[c].forbidden = Forbidden(case, e)
         /\ rows[c].refused = Refused(case, e)
    BY <2>9 DEF Row
  <2>12. case.critical \/ case.category = "safety_refusal" => Completed(e)
    <3>1. case.critical => Completed(e)
      BY <2>2, <2>6, <2>7, <2>11
    <3>2. case.category = "safety_refusal" => Refused(case, e)
      BY <2>2, <2>6, <2>7, <2>11
    <3> QED BY <3>1, <3>2 DEF Refused
  <2>13. case.category = "safety_refusal" => case.markers \subseteq e.answer
    <3>1. case.category = "safety_refusal" => Refused(case, e)
      BY <2>2, <2>6, <2>7, <2>11
    <3> QED BY <3>1 DEF Refused
  <2>14. ASSUME case.tools \notin {None, <<>>}
         PROVE  e.tools # None /\ Len(e.tools) = Len(case.tools) /\ Pairing(e.tools, case.tools)
    <3>1. Tools(case, e) = TRUE
      BY <2>2, <2>6, <2>7, <2>11, <2>14
    <3>2. Metric(case.tools, e.tools, 0) # None /\ ToolsPassed(e.tools, case.tools)
      BY <3>1, AgentAssumption DEF Tools
    <3>3. case.tools # None /\ e.tools # None
      BY <3>2 DEF Metric
    <3>4. IsList(e.tools) /\ IsList(case.tools)
      BY <2>2, <2>10, AgentAssumption
    <3> QED BY <3>2, <3>3, <3>4, PassedIsPaired
  <2>15. case.agents # None /\ e.agents # None
    <3>1. rows[c].path # None
      BY <2>1, <2>2, <2>5, <2>6 DEF MeanReaches
    <3> QED BY <2>11, <3>1 DEF Path, Metric
  <2>16. ASSUME case.category \notin ToolCategories
         PROVE  rows[c].scores # None /\ ~Missing(case, e)
    <3>1. ScoreOf("answer_relevance")[c] # None
      BY <2>2, <2>5, <2>6, <2>16 DEF MeanReaches
    <3>2. rows[c].scores # None
      BY <2>1, <2>2, <3>1 DEF ScoreOf
    <3> QED BY <2>8, <2>9, <3>2, ScoredIsJudged
  <2>17. ASSUME case.forbidden # None, e.plan # None PROVE e.agents \cap case.forbidden = {}
    <3>1. Cardinality(e.agents \cap case.forbidden) = 0
      BY <2>2, <2>5, <2>6, <2>11, <2>15, <2>17 DEF Forbidden
    <3>2. IsFiniteSet(e.agents \cap case.forbidden)
      BY <2>10, <2>15, AgentAssumption, FS_Subset
    <3> QED BY <3>1, <3>2, FS_EmptySet
  <2>18. case.forbidden # None => \/ e.agents \cap case.forbidden = {}
                                  \/ case.category \in ToolCategories /\ e.plan = None
    BY <2>16, <2>17 DEF Missing
  <2> HIDE DEF case, e
  <2>19. /\ e # None
         /\ case.critical \/ case.category = "safety_refusal" => Completed(e)
         /\ case.tools \notin {None, <<>>} => /\ e.tools # None
                                              /\ Len(e.tools) = Len(case.tools)
                                              /\ Pairing(e.tools, case.tools)
         /\ case.category = "safety_refusal" => case.markers \subseteq e.answer
         /\ case.agents # None => e.agents # None
         /\ case.forbidden # None => \/ e.agents \cap case.forbidden = {}
                                     \/ case.category \in ToolCategories /\ e.plan = None
         /\ case.category \notin ToolCategories => rows[c].scores # None
    BY <2>9, <2>12, <2>13, <2>14, <2>15, <2>16, <2>18
  <2> QED BY <2>19 DEF case, e
<1> QED BY <1>1, AgentInitially, AgentStep, PTL DEF AgentSpec

-----------------------------------------------------------------------------
(* Long-term memory: what a search found stays true while the memories     *)
(* grow.                                                                   *)
MemoryTyped ==
  /\ memories \in Seq(Memory)
  /\ processing \in [Turns -> {None} \cup TurnState]

(* Memories that leave a search for u no room: of other categories, and no *)
(* farther from c than d.                                                  *)
Others(u, c, d, n) ==
  {k \in 1..n : /\ memories[k].user = u
                /\ memories[k].category # c.category
                /\ Distance(memories[k], c) <= d}

(* What a search for c among the first n memories is worth: whatever is    *)
(* near enough to be a duplicate, either the one found is as well or       *)
(* others filled the search.                                               *)
Held(u, c, existing, n) ==
  \A i \in 1..n :
    /\ memories[i].user = u /\ memories[i].category = c.category
    /\ Distance(memories[i], c) <= Duplicate
    => \/ existing # 0 /\ Distance(memories[existing], c) <= Duplicate
       \/ Cardinality(Others(u, c, Distance(memories[i], c), n)) >= SearchLimit

Searched(t) ==
  processing[t] # None /\ processing[t].found # None =>
    /\ processing[t].todo # <<>>
    /\ processing[t].found.after \in 0..Len(memories)
    /\ processing[t].found.existing \in 0..processing[t].found.after
    /\ Held(processing[t].user, Head(processing[t].todo), processing[t].found.existing, processing[t].found.after)

SearchesHold == \A t \in Turns : Searched(t)

(* A memory was held against memories before it.                           *)
StoredAfter == \A j \in DOMAIN memories : memories[j].after < j

MemoryIInv == MemoryTyped /\ SearchesHold /\ StoredAfter /\ DuplicatesHaveACause

-----------------------------------------------------------------------------
LEMMA DistanceIsNatural ==
  ASSUME NEW a, NEW b, a.content \in Contents, b.content \in Contents
  PROVE  Distance(a, b) \in Nat
<1>1. a.content \in Nat /\ b.content \in Nat
  BY MemoryAssumption
<1> QED BY <1>1 DEF Distance

(* What a search comes to: the nearest, cut off at the limit before the    *)
(* categories are looked at.                                               *)
LEMMA SearchHolds ==
  ASSUME MemoryTyped, NEW u, NEW c \in Candidates, NEW found, Nearest(u, c, found),
         NEW existing \in Comparable(c, found) \cup {0},
         existing = 0 <=> Comparable(c, found) = {},
         \A i \in Comparable(c, found) :
           Distance(memories[existing], c) <= Distance(memories[i], c)
  PROVE  /\ existing \in 0..Len(memories)
         /\ Held(u, c, existing, Len(memories))
<1>1. /\ DOMAIN memories = 1..Len(memories) /\ Len(memories) \in Nat
      /\ Own(u) \subseteq 1..Len(memories) /\ found \subseteq Own(u)
  BY DEF MemoryTyped, Own, Nearest
<1>2. existing \in 0..Len(memories)
  BY <1>1 DEF Comparable
<1>3. ASSUME NEW i \in 1..Len(memories) PROVE Distance(memories[i], c) \in Nat
  <2>1. memories[i] \in Memory
    BY <1>1 DEF MemoryTyped
  <2>2. memories[i].content \in Contents /\ c.content \in Contents
    BY <2>1 DEF Memory, Candidates
  <2> QED BY <2>2, DistanceIsNatural DEF MemoryTyped
<1>4. Duplicate \in Nat /\ SearchLimit \in Nat
  BY MemoryAssumption DEF MemoryTyped
<1>5. ASSUME NEW i \in 1..Len(memories),
             memories[i].user = u, memories[i].category = c.category,
             Distance(memories[i], c) <= Duplicate
      PROVE  \/ existing # 0 /\ Distance(memories[existing], c) <= Duplicate
             \/ Cardinality(Others(u, c, Distance(memories[i], c), Len(memories))) >= SearchLimit
  <2>1. CASE i \in found
    <3>1. i \in Comparable(c, found)
      BY <1>5, <2>1 DEF Comparable
    <3>2. existing # 0 /\ existing \in 1..Len(memories)
      BY <3>1, <1>1 DEF Comparable
    <3>3. Distance(memories[existing], c) <= Distance(memories[i], c)
      BY <3>1
    <3> QED BY <3>2, <3>3, <1>3, <1>4, <1>5
  <2>2. CASE i \notin found
    <3>1. i \in Own(u) \ found
      BY <1>1, <1>5, <2>2 DEF Own
    <3>2. \A k \in found : Distance(memories[k], c) <= Distance(memories[i], c)
      BY <3>1 DEF Nearest
    <3>3. CASE Comparable(c, found) # {}
      <4>1. existing # 0 /\ existing \in found
        BY <3>3 DEF Comparable
      <4>2. Distance(memories[existing], c) <= Distance(memories[i], c)
        BY <4>1, <3>2
      <4>3. existing \in 1..Len(memories)
        BY <4>1, <1>1
      <4> QED BY <4>1, <4>2, <4>3, <1>3, <1>4, <1>5
    <3>4. CASE Comparable(c, found) = {}
      <4> DEFINE others == Others(u, c, Distance(memories[i], c), Len(memories))
      <4>1. IsFiniteSet(1..Len(memories))
        BY <1>1, FS_Interval
      <4>2. IsFiniteSet(Own(u)) /\ IsFiniteSet(others)
        BY <4>1, <1>1, FS_Subset DEF Others
      <4>3. Cardinality(found) # Cardinality(Own(u))
        BY <4>2, <1>1, <3>1, FS_Subset
      <4>4. Cardinality(found) = SearchLimit
        BY <4>3 DEF Nearest, Smaller
      <4>5. found \subseteq others
        BY <1>1, <3>2, <3>4 DEF Others, Comparable, Own
      <4>6. Cardinality(found) <= Cardinality(others)
        BY <4>2, <4>5, FS_Subset
      <4> QED BY <4>4, <4>6
    <3> QED BY <3>3, <3>4
  <2> QED BY <2>1, <2>2
<1> QED BY <1>2, <1>5 DEF Held

(* An upsert leaves what was found among the memories before it.           *)
LEMMA AppendKeepsHeld ==
  ASSUME MemoryTyped, NEW m, memories' = Append(memories, m)
  PROVE  \A n \in 0..Len(memories) :
           /\ \A k \in 1..n : memories'[k] = memories[k]
           /\ \A u, c, d : Others(u, c, d, n)' = Others(u, c, d, n)
           /\ \A u, c : \A existing \in 0..n :
                Held(u, c, existing, n) => Held(u, c, existing, n)'
<1>1. Len(memories) \in Nat
  BY DEF MemoryTyped
<1> SUFFICES ASSUME NEW n \in 0..Len(memories)
    PROVE  /\ \A k \in 1..n : memories'[k] = memories[k]
           /\ \A u, c, d : Others(u, c, d, n)' = Others(u, c, d, n)
           /\ \A u, c : \A existing \in 0..n :
                Held(u, c, existing, n) => Held(u, c, existing, n)'
  OBVIOUS
<1>2. \A k \in 1..n : memories'[k] = memories[k]
  BY <1>1 DEF MemoryTyped
<1>3. \A u, c, d : Others(u, c, d, n)' = Others(u, c, d, n)
  BY <1>2 DEF Others, Distance
<1>4. ASSUME NEW u, NEW c, NEW existing \in 0..n, Held(u, c, existing, n)
      PROVE  Held(u, c, existing, n)'
  <2>1. existing # 0 => memories'[existing] = memories[existing]
    BY <1>1, <1>2
  <2> QED BY <1>2, <1>3, <1>4, <2>1 DEF Held, Distance
<1> QED BY <1>2, <1>3, <1>4

(* A step that stores nothing keeps what is said of the memories.          *)
LEMMA MemoriesStay ==
  ASSUME UNCHANGED memories, StoredAfter, DuplicatesHaveACause
  PROVE  StoredAfter' /\ DuplicatesHaveACause'
  BY DEF StoredAfter, DuplicatesHaveACause, Distance

LEMMA HeldStays ==
  ASSUME UNCHANGED memories
  PROVE  \A u, c, existing, n : Held(u, c, existing, n)' = Held(u, c, existing, n)
  BY DEF Held, Others, Distance

(* A turn that is not looking anything up does not disturb the others.     *)
LEMMA OtherSearchesHold ==
  ASSUME MemoryTyped, SearchesHold, UNCHANGED memories, NEW t \in Turns,
         processing' = [processing EXCEPT ![t] = processing'[t]],
         processing'[t] # None => processing'[t].found = None
  PROVE  SearchesHold'
<1>1. ASSUME NEW q \in Turns PROVE Searched(q)'
  <2>1. CASE q = t
    BY <2>1 DEF Searched
  <2>2. CASE q # t
    <3>1. processing'[q] = processing[q] /\ Searched(q)
      BY <2>2 DEF MemoryTyped, SearchesHold
    <3> QED BY <3>1 DEF Searched, Held, Others, Distance
  <2> QED BY <2>1, <2>2
<1> QED BY <1>1 DEF SearchesHold

-----------------------------------------------------------------------------
(* Each action keeps the invariant.                                        *)
LEMMA ProcessTurnKeeps ==
  ASSUME MemoryIInv, NEW t \in Turns, NEW u \in Users, NEW n \in 1..MaxCandidates,
         NEW candidates \in [1..n -> Candidates], ProcessTurn(t, u, candidates)
  PROVE  MemoryIInv'
<1>1. candidates \in Seq(Candidates)
  BY MemoryAssumption DEF MemoryIInv, MemoryTyped
<1> DEFINE begun == [user |-> u, todo |-> candidates, found |-> None]
<1>2. begun \in TurnState /\ processing' = [processing EXCEPT ![t] = begun] /\ UNCHANGED memories
  BY <1>1 DEF ProcessTurn, TurnState
<1>3. MemoryTyped'
  BY <1>2, MemoryAssumption DEF MemoryIInv, MemoryTyped
<1>4. processing'[t] = begun
  BY <1>2 DEF MemoryIInv, MemoryTyped
<1>0. begun.found = None
  OBVIOUS
<1> HIDE DEF begun
<1>5. processing' = [processing EXCEPT ![t] = processing'[t]] /\ processing'[t].found = None
  BY <1>0, <1>2, <1>4
<1>6. MemoryTyped /\ SearchesHold /\ UNCHANGED memories
  BY <1>2 DEF MemoryIInv
<1>7. SearchesHold'
  BY <1>5, <1>6, OtherSearchesHold
<1> QED BY <1>2, <1>3, <1>7, MemoriesStay DEF MemoryIInv

LEMMA DiscardKeeps ==
  ASSUME MemoryIInv, NEW t \in Turns, Discard(t)
  PROVE  MemoryIInv'
<1> DEFINE next == [processing[t] EXCEPT !.todo = Tail(processing[t].todo)]
<1>1. processing[t] \in TurnState /\ processing[t].todo \in Seq(Candidates) /\ processing[t].todo # <<>>
  BY DEF MemoryIInv, MemoryTyped, Discard, TurnState
<1>2. Tail(processing[t].todo) \in Seq(Candidates)
  BY <1>1
<1>3. next \in TurnState /\ next.found = None
  BY <1>1, <1>2 DEF TurnState, Discard
<1>4. processing' = [processing EXCEPT ![t] = next] /\ UNCHANGED memories
  BY DEF Discard
<1>5. MemoryTyped'
  BY <1>3, <1>4, MemoryAssumption DEF MemoryIInv, MemoryTyped
<1>6. processing'[t] = next
  BY <1>4 DEF MemoryIInv, MemoryTyped
<1>7. SearchesHold'
  BY <1>3, <1>4, <1>6, OtherSearchesHold DEF MemoryIInv
<1> QED BY <1>4, <1>5, <1>7, MemoriesStay DEF MemoryIInv

LEMMA EndTurnKeeps ==
  ASSUME MemoryIInv, NEW t \in Turns, EndTurn(t)
  PROVE  MemoryIInv'
<1>1. processing' = [processing EXCEPT ![t] = None] /\ UNCHANGED memories
  BY DEF EndTurn
<1>2. MemoryTyped'
  BY <1>1, MemoryAssumption DEF MemoryIInv, MemoryTyped
<1>3. processing'[t] = None
  BY <1>1 DEF MemoryIInv, MemoryTyped
<1>4. processing' = [processing EXCEPT ![t] = processing'[t]]
  BY <1>1, <1>3
<1>5. MemoryTyped /\ SearchesHold /\ UNCHANGED memories /\ (processing'[t] # None => processing'[t].found = None)
  BY <1>1, <1>3 DEF MemoryIInv
<1>6. SearchesHold'
  BY <1>4, <1>5, OtherSearchesHold
<1> QED BY <1>1, <1>2, <1>6, MemoriesStay DEF MemoryIInv

LEMMA SearchKeeps ==
  ASSUME MemoryIInv, NEW t \in Turns, Search(t)
  PROVE  MemoryIInv'
<1> DEFINE c == Head(processing[t].todo)
           u == processing[t].user
<1>1. processing[t] \in TurnState /\ processing[t].todo \in Seq(Candidates) /\ processing[t].todo # <<>>
  BY DEF MemoryIInv, MemoryTyped, Search, TurnState
<1>2. c \in Candidates /\ MemoryTyped /\ Len(memories) \in Nat
  BY <1>1 DEF MemoryIInv, MemoryTyped
<1>0. PICK found \in SUBSET Own(u) :
        /\ Nearest(u, c, found)
        /\ \E existing \in Comparable(c, found) \cup {0} :
             /\ existing = 0 <=> Comparable(c, found) = {}
             /\ \A i \in Comparable(c, found) :
                  Distance(memories[existing], c) <= Distance(memories[i], c)
             /\ processing' = [processing EXCEPT ![t].found = [existing |-> existing, after |-> Len(memories)]]
  BY DEF Search
<1>3. PICK existing \in Comparable(c, found) \cup {0} :
        /\ existing = 0 <=> Comparable(c, found) = {}
        /\ \A i \in Comparable(c, found) :
             Distance(memories[existing], c) <= Distance(memories[i], c)
        /\ processing' = [processing EXCEPT ![t].found = [existing |-> existing, after |-> Len(memories)]]
  BY <1>0
<1>4. existing \in 0..Len(memories) /\ Held(u, c, existing, Len(memories))
  BY <1>0, <1>2, <1>3, SearchHolds
<1> DEFINE finding == [existing |-> existing, after |-> Len(memories)]
           next == [processing[t] EXCEPT !.found = finding]
<1>5. finding \in Finding /\ next \in TurnState
  BY <1>1, <1>2, <1>4 DEF TurnState, Finding
<1>6. processing' = [processing EXCEPT ![t] = next] /\ UNCHANGED memories
  BY <1>3 DEF Search
<1>7. MemoryTyped'
  BY <1>5, <1>6, MemoryAssumption DEF MemoryIInv, MemoryTyped
<1>8. processing'[t] = next /\ next.user = u /\ next.todo = processing[t].todo /\ next.found = finding
  BY <1>1, <1>6 DEF MemoryIInv, MemoryTyped, TurnState
<1>9. SearchesHold'
  <2>1. ASSUME NEW q \in Turns PROVE Searched(q)'
    <3>1. CASE q = t
      <4>0. Len(memories') = Len(memories) /\ processing'[t].found = finding
        BY <1>6, <1>8
      <4>1. /\ processing'[t].found.existing = existing /\ processing'[t].found.after = Len(memories)
            /\ Len(memories') = Len(memories)
        BY <4>0
      <4>2. Held(processing'[t].user, Head(processing'[t].todo), existing, Len(memories))
        BY <1>4, <1>8
      <4>3. Held(processing[t].user, Head(processing[t].todo), processing[t].found.existing, processing[t].found.after)'
        BY <1>6, <4>1, <4>2, HeldStays
      <4> QED BY <3>1, <1>1, <1>2, <1>4, <1>8, <4>1, <4>3 DEF Searched
    <3>2. CASE q # t
      <4>1. processing'[q] = processing[q] /\ Searched(q)
        BY <1>6, <3>2 DEF MemoryIInv, MemoryTyped, SearchesHold
      <4> QED BY <4>1, <1>6 DEF Searched, Held, Others, Distance
    <3> QED BY <3>1, <3>2
  <2> QED BY <2>1 DEF SearchesHold
<1> QED BY <1>6, <1>7, <1>9, MemoriesStay DEF MemoryIInv

LEMMA DecideKeeps ==
  ASSUME MemoryIInv, NEW t \in Turns, NEW relation \in Relations, Decide(t, relation)
  PROVE  MemoryIInv'
<1> DEFINE c == Head(processing[t].todo)
           u == processing[t].user
           f == processing[t].found
           next == [processing[t] EXCEPT !.todo = Tail(processing[t].todo), !.found = None]
<1>1. processing[t] \in TurnState /\ processing[t].found \in Finding /\ processing[t].todo \in Seq(Candidates)
  BY DEF MemoryIInv, MemoryTyped, Decide, TurnState
<1>2. /\ processing[t].todo # <<>> /\ f.after \in 0..Len(memories) /\ f.existing \in 0..f.after
      /\ Held(u, c, f.existing, f.after)
  BY <1>1 DEF MemoryIInv, SearchesHold, Searched, Decide
<1>3. /\ c \in Candidates /\ Tail(processing[t].todo) \in Seq(Candidates)
      /\ Len(memories) \in Nat /\ memories \in Seq(Memory)
  BY <1>1, <1>2 DEF MemoryIInv, MemoryTyped
<1>4. next \in TurnState /\ processing' = [processing EXCEPT ![t] = next]
  BY <1>1, <1>3 DEF TurnState, Decide
<1>5. processing'[t] = next /\ next.found = None
  BY <1>1, <1>4 DEF MemoryIInv, MemoryTyped, TurnState
<1>6. processing' = [processing EXCEPT ![t] = processing'[t]]
  BY <1>4, <1>5
<1>7. CASE UNCHANGED memories
  <2>1. MemoryTyped'
    BY <1>4, <1>7, MemoryAssumption DEF MemoryIInv, MemoryTyped
  <2>2. SearchesHold'
    BY <1>5, <1>6, <1>7, OtherSearchesHold DEF MemoryIInv
  <2> QED BY <1>7, <2>1, <2>2, MemoriesStay DEF MemoryIInv
<1>8. CASE SavedByPolicy(relation) /\ memories' = Store(t)
  <2> DEFINE m == [user |-> u, category |-> c.category, content |-> c.content, after |-> f.after]
  <2>1. m \in Memory
    BY <1>1, <1>3 DEF Memory, Candidates, TurnState, Finding
  <2>2. memories' = Append(memories, m)
    BY <1>8 DEF Store
  <2>3. MemoryTyped'
    BY <1>3, <1>4, <2>1, <2>2, MemoryAssumption DEF MemoryIInv, MemoryTyped
  <2>4. /\ Len(memories') = Len(memories) + 1 /\ DOMAIN memories' = 1..(Len(memories) + 1)
        /\ memories'[Len(memories) + 1] = m
        /\ \A k \in 1..Len(memories) : memories'[k] = memories[k]
    BY <1>3, <2>2
  <2>5. SearchesHold'
    <3>1. ASSUME NEW q \in Turns, processing'[q] # None, processing'[q].found # None PROVE Searched(q)'
      <4>1. q # t /\ processing'[q] = processing[q] /\ Searched(q)
        BY <1>4, <1>5, <3>1 DEF MemoryIInv, MemoryTyped, SearchesHold
      <4>2. /\ processing[q].todo # <<>>
            /\ processing[q].found.after \in 0..Len(memories)
            /\ processing[q].found.existing \in 0..processing[q].found.after
            /\ Held(processing[q].user, Head(processing[q].todo), processing[q].found.existing, processing[q].found.after)
        BY <3>1, <4>1 DEF Searched
      <4>3. Held(processing[q].user, Head(processing[q].todo), processing[q].found.existing, processing[q].found.after)'
        BY <2>2, <4>1, <4>2, AppendKeepsHeld DEF MemoryIInv
      <4> QED BY <1>3, <2>4, <4>1, <4>2, <4>3 DEF Searched
    <3> QED BY <3>1 DEF SearchesHold, Searched
  <2>6. StoredAfter'
    <3>1. ASSUME NEW j \in DOMAIN memories' PROVE memories'[j].after < j
      <4>1. CASE j \in 1..Len(memories)
        BY <1>3, <2>4, <4>1 DEF MemoryIInv, StoredAfter
      <4>2. CASE j = Len(memories) + 1
        BY <1>2, <1>3, <2>4, <4>2
      <4> QED BY <1>3, <2>4, <4>1, <4>2
    <3> QED BY <3>1 DEF StoredAfter
  <2>7. ASSUME NEW i \in 1..f.after,
               memories[i].user = u, memories[i].category = c.category,
               Distance(memories[i], c) <= Duplicate
        PROVE  Cardinality(Others(u, c, Distance(memories[i], c), f.after)) >= SearchLimit
    <3>1. ~(f.existing # 0 /\ Distance(memories[f.existing], c) <= Duplicate)
      BY <1>8 DEF Decide, Relates, SavedByPolicy
    <3> QED BY <1>2, <2>7, <3>1 DEF Held
  <2>8. DuplicatesHaveACause'
    <3>1. ASSUME NEW i \in DOMAIN memories', NEW j \in DOMAIN memories',
                 i < j, i <= memories'[j].after,
                 memories'[i].user = memories'[j].user,
                 memories'[i].category = memories'[j].category,
                 Distance(memories'[i], memories'[j]) <= Duplicate
          PROVE  Cardinality({k \in 1..memories'[j].after :
                                /\ memories'[k].user = memories'[j].user
                                /\ memories'[k].category # memories'[j].category
                                /\ Distance(memories'[k], memories'[j])
                                     <= Distance(memories'[i], memories'[j])}) >= SearchLimit
      <4>1. CASE j \in 1..Len(memories)
        <5>0. memories[j] \in Memory /\ memories[j].after < j /\ DOMAIN memories = 1..Len(memories)
          BY <1>3, <4>1 DEF MemoryIInv, StoredAfter
        <5>1. i \in 1..Len(memories) /\ memories[j].after \in Nat /\ memories[j].after < j
          BY <1>3, <2>4, <3>1, <4>1, <5>0 DEF Memory
        <5>2. memories'[i] = memories[i] /\ memories'[j] = memories[j]
          BY <2>4, <4>1, <5>1
        <5>3. \A k \in 1..memories[j].after : memories'[k] = memories[k]
          BY <1>3, <2>4, <4>1, <5>1
        <5>4. Cardinality({k \in 1..memories[j].after :
                             /\ memories[k].user = memories[j].user
                             /\ memories[k].category # memories[j].category
                             /\ Distance(memories[k], memories[j])
                                  <= Distance(memories[i], memories[j])}) >= SearchLimit
          BY <1>3, <3>1, <4>1, <5>1, <5>2 DEF MemoryIInv, DuplicatesHaveACause
        <5>5. {k \in 1..memories'[j].after :
                 /\ memories'[k].user = memories'[j].user
                 /\ memories'[k].category # memories'[j].category
                 /\ Distance(memories'[k], memories'[j]) <= Distance(memories'[i], memories'[j])}
              = {k \in 1..memories[j].after :
                   /\ memories[k].user = memories[j].user
                   /\ memories[k].category # memories[j].category
                   /\ Distance(memories[k], memories[j]) <= Distance(memories[i], memories[j])}
          BY <5>2, <5>3
        <5> QED BY <5>4, <5>5
      <4>2. CASE j = Len(memories) + 1
        <5>1. memories'[j] = m /\ m.after = f.after /\ f.after \in Nat /\ i \in 1..f.after
          BY <1>1, <1>3, <2>4, <3>1, <4>2 DEF Finding
        <5>2. /\ memories'[i] = memories[i]
              /\ \A k \in 1..f.after : memories'[k] = memories[k]
          <6>1. 1..f.after \subseteq 1..Len(memories)
            BY <1>2, <1>3, <5>1
          <6> QED BY <2>4, <5>1, <6>1
        <5>3. \A a : Distance(a, m) = Distance(a, c)
          BY DEF Distance
        <5>4. Cardinality(Others(u, c, Distance(memories[i], c), f.after)) >= SearchLimit
          BY <2>7, <3>1, <5>1, <5>2, <5>3
        <5>5. {k \in 1..memories'[j].after :
                 /\ memories'[k].user = memories'[j].user
                 /\ memories'[k].category # memories'[j].category
                 /\ Distance(memories'[k], memories'[j]) <= Distance(memories'[i], memories'[j])}
              = Others(u, c, Distance(memories[i], c), f.after)
          BY <5>1, <5>2, <5>3 DEF Others
        <5> QED BY <5>4, <5>5
      <4> QED BY <1>3, <2>4, <3>1, <4>1, <4>2
    <3> QED BY <3>1 DEF DuplicatesHaveACause
  <2> QED BY <2>3, <2>5, <2>6, <2>8 DEF MemoryIInv
<1> QED BY <1>7, <1>8 DEF Decide

-----------------------------------------------------------------------------
(* A memory is stored beside a near copy of itself only if neither turn    *)
(* could see the other's, or if memories of other categories filled the    *)
(* search: for any number of users, turns and memories.                    *)
THEOREM DuplicatesAlwaysHaveACause == MemorySpec => []DuplicatesHaveACause
<1>1. MemoryInit => MemoryIInv
  <2> SUFFICES ASSUME MemoryInit PROVE MemoryIInv
    OBVIOUS
  <2>1. memories = <<>> /\ DOMAIN memories = {} /\ processing = [t \in Turns |-> None]
    BY DEF MemoryInit
  <2>2. MemoryTyped
    BY <2>1 DEF MemoryTyped
  <2>3. SearchesHold
    BY <2>1 DEF SearchesHold, Searched
  <2>4. StoredAfter /\ DuplicatesHaveACause
    BY <2>1 DEF StoredAfter, DuplicatesHaveACause
  <2> QED BY <2>2, <2>3, <2>4 DEF MemoryIInv
<1>2. MemoryIInv /\ [MemoryNext]_memoryVars => MemoryIInv'
  <2> SUFFICES ASSUME MemoryIInv, [MemoryNext]_memoryVars PROVE MemoryIInv'
    OBVIOUS
  <2>1. CASE UNCHANGED memoryVars
    <3>1. UNCHANGED <<memories, processing>>
      BY <2>1 DEF memoryVars
    <3>2. MemoryTyped'
      BY <3>1, MemoryAssumption DEF MemoryIInv, MemoryTyped
    <3>3. SearchesHold'
      <4>1. ASSUME NEW t \in Turns PROVE Searched(t)'
        <5>1. Searched(t)
          BY DEF MemoryIInv, SearchesHold
        <5>2. \A u, c, existing, n : Held(u, c, existing, n)' = Held(u, c, existing, n)
          BY <3>1, HeldStays
        <5>3. processing'[t] = processing[t] /\ Len(memories') = Len(memories)
          BY <3>1
        <5> QED BY <5>1, <5>2, <5>3 DEF Searched
      <4> QED BY <4>1 DEF SearchesHold
    <3> QED BY <3>1, <3>2, <3>3, MemoriesStay DEF MemoryIInv
  <2>2. ASSUME NEW t \in Turns, NEW u \in Users, NEW n \in 1..MaxCandidates,
               NEW candidates \in [1..n -> Candidates], ProcessTurn(t, u, candidates)
        PROVE  MemoryIInv'
    BY <2>2, ProcessTurnKeeps
  <2>3. ASSUME NEW t \in Turns, Discard(t) PROVE MemoryIInv'
    BY <2>3, DiscardKeeps
  <2>4. ASSUME NEW t \in Turns, Search(t) PROVE MemoryIInv'
    BY <2>4, SearchKeeps
  <2>5. ASSUME NEW t \in Turns, NEW relation \in Relations, Decide(t, relation) PROVE MemoryIInv'
    BY <2>5, DecideKeeps
  <2>6. ASSUME NEW t \in Turns, EndTurn(t) PROVE MemoryIInv'
    BY <2>6, EndTurnKeeps
  <2> QED BY <2>1, <2>2, <2>3, <2>4, <2>5, <2>6 DEF MemoryNext
<1>3. MemoryIInv => DuplicatesHaveACause
  BY DEF MemoryIInv
<1> QED BY <1>1, <1>2, <1>3, PTL DEF MemorySpec

-----------------------------------------------------------------------------
(* The evaluation of retrieval: selections first, then the runs.           *)

(* What a selection is: an enumeration of the places K of s, of which the  *)
(* places up to n are looked at.                                           *)
IsSelection(s, K, n, out, f) ==
  /\ Len(out) \in Nat /\ DOMAIN out = 1..Len(out)
  /\ f \in [1..Len(out) -> K \cap 1..n]
  /\ \A i, j \in 1..Len(out) : f[i] = f[j] => i = j
  /\ \A k \in K \cap 1..n : \E i \in 1..Len(out) : f[i] = k
  /\ \A i \in 1..Len(out) : out[i] = s[f[i]]
Selects(s, K, n, out) == \E f : IsSelection(s, K, n, out, f)

(* Selection computes, place by place, what Select selects.                *)
LEMMA SelectionIs ==
  ASSUME NEW R, NEW s \in Seq(R), NEW K
  PROVE  /\ Selection(s, K)[0] = <<>>
         /\ \A n \in 0..Len(s) : Selection(s, K)[n] \in Seq(R)
         /\ \A n \in 1..Len(s) :
              Selection(s, K)[n] = IF n \in K THEN Append(Selection(s, K)[n - 1], s[n])
                                              ELSE Selection(s, K)[n - 1]
<1> DEFINE N == Len(s)
           S == Seq(R)
           step == [i \in 1..N |-> [x \in S |-> IF i \in K THEN Append(x, s[i]) ELSE x]]
           Values(t) == [n \in 0..N |-> IF n = 0 THEN <<>> ELSE IF n \in K THEN Append(t[n - 1], s[n])
                                                                            ELSE t[n - 1]]
<1>0. N \in Nat /\ <<>> \in S /\ \A i \in 1..N : s[i] \in R
  OBVIOUS
<1>1. step \in [1..N -> [S -> S]]
  <2>1. ASSUME NEW i \in 1..N PROVE [x \in S |-> IF i \in K THEN Append(x, s[i]) ELSE x] \in [S -> S]
    <3>1. ASSUME NEW x \in S PROVE Append(x, s[i]) \in S
      <4>1. s[i] \in R
        BY <1>0
      <4> QED BY <4>1
    <3> HIDE DEF S
    <3> QED BY <3>1
  <2> HIDE DEF S, N
  <2> QED BY <2>1
<1> HIDE DEF S
<1>2. PICK t \in [0..N -> S] : t[0] = <<>> /\ \A i \in 1..N : t[i] = step[i][t[i - 1]]
  <2>1. Computable(N, S, <<>>, step)
    <3> HIDE DEF step, N
    <3> QED BY <1>0, <1>1, RecursionExists
  <2> QED BY <2>1 DEF Computable
<1>3. ASSUME NEW n \in 1..N PROVE t[n] = IF n \in K THEN Append(t[n - 1], s[n]) ELSE t[n - 1]
  <2>1. t[n - 1] \in S
    BY <1>0, <1>2
  <2> HIDE DEF N
  <2> QED BY <1>2, <2>1
<1>4. t = Values(t)
  <2>1. ASSUME NEW n \in 0..N PROVE t[n] = Values(t)[n]
    <3>1. CASE n = 0
      BY <1>2, <3>1
    <3>2. CASE n # 0
      <4>1. n \in 1..N
        BY <1>0, <3>2
      <4> HIDE DEF N
      <4> QED BY <1>3, <3>2, <4>1
    <3> QED BY <3>1, <3>2
  <2>2. t = [n \in 0..N |-> t[n]]
    BY <1>2
  <2> QED BY <2>1, <2>2
<1> DEFINE kept == Selection(s, K)
<1>5. kept = Values(kept)
  <2>1. kept = CHOOSE u : u = Values(u)
    BY DEF Selection
  <2> HIDE DEF Values
  <2> QED BY <1>4, <2>1
<1> HIDE DEF kept
<1>6. kept[0] = <<>> /\ \A n \in 1..N : kept[n] = IF n \in K THEN Append(kept[n - 1], s[n]) ELSE kept[n - 1]
  <2>1. kept[0] = <<>>
    BY <1>0, <1>5
  <2>2. ASSUME NEW n \in 1..N
        PROVE  kept[n] = IF n \in K THEN Append(kept[n - 1], s[n]) ELSE kept[n - 1]
    <3>1. n \in 0..N /\ n # 0
      BY <1>0
    <3> HIDE DEF N
    <3> QED BY <1>5, <3>1
  <2> QED BY <2>1, <2>2
<1> DEFINE T == {n \in 0..N : kept[n] \in S}
<1>7. 0..N \subseteq T
  <2>1. 0 \in T
    BY <1>0, <1>6
  <2>2. ASSUME NEW n \in 1..N, n - 1 \in T PROVE n \in T
    <3>1. kept[n - 1] \in S /\ s[n] \in R
      BY <1>0, <2>2
    <3>2. Append(kept[n - 1], s[n]) \in S
      BY <3>1 DEF S
    <3>3. kept[n] \in S
      BY <1>6, <3>1, <3>2
    <3> QED BY <1>0, <3>3
  <2> HIDE DEF T
  <2> QED BY <1>0, <2>1, <2>2, UpTo
<1>8. \A n \in 0..N : kept[n] \in S
  BY <1>7
<1> QED BY <1>6, <1>8 DEF kept, S

(* Select enumerates the places K, and nothing else.                       *)
LEMMA SelectSelects ==
  ASSUME NEW R, NEW s \in Seq(R), NEW K
  PROVE  /\ Select(s, K) \in Seq(R)
         /\ Selects(s, K, Len(s), Select(s, K))
<1> DEFINE N == Len(s)
           kept == Selection(s, K)
           T == {n \in 0..N : Selects(s, K, n, kept[n])}
<1>1. /\ N \in Nat /\ kept[0] = <<>>
      /\ \A n \in 0..N : kept[n] \in Seq(R)
      /\ \A n \in 1..N : kept[n] = IF n \in K THEN Append(kept[n - 1], s[n]) ELSE kept[n - 1]
  BY SelectionIs
<1> HIDE DEF kept
<1>2. 0 \in T
  <2>1. IsSelection(s, K, 0, <<>>, [i \in 1..0 |-> 0])
    BY DEF IsSelection
  <2> QED BY <1>1, <2>1 DEF Selects
<1>3. ASSUME NEW n \in 1..N, n - 1 \in T PROVE n \in T
  <2> DEFINE old == kept[n - 1]
             L == Len(old)
  <2>1. PICK f : IsSelection(s, K, n - 1, old, f)
    BY <1>3 DEF Selects
  <2>2. old \in Seq(R) /\ L \in Nat /\ n \in 0..N /\ n - 1 \in 0..N
    BY <1>1
  <2>3. CASE n \notin K
    <3>1. kept[n] = old
      BY <1>1, <2>3
    <3>2. K \cap 1..n = K \cap 1..(n - 1)
      BY <2>3
    <3>3. IsSelection(s, K, n, old, f)
      <4> HIDE DEF old
      <4> QED BY <2>1, <3>2 DEF IsSelection
    <3> QED BY <2>2, <3>1, <3>3 DEF Selects
  <2>4. CASE n \in K
    <3> DEFINE new == Append(old, s[n])
               g == [i \in 1..L + 1 |-> IF i = L + 1 THEN n ELSE f[i]]
    <3>1. kept[n] = new /\ s[n] \in R
      <4>1. kept[n] = new
        BY <1>1, <2>4
      <4>2. s[n] \in R
        OBVIOUS
      <4> QED BY <4>1, <4>2
    <3>2. /\ Len(new) = L + 1 /\ DOMAIN new = 1..L + 1 /\ new[L + 1] = s[n]
          /\ \A i \in 1..L : new[i] = old[i]
      <4> HIDE DEF old
      <4> QED BY <2>2, <3>1 DEF L
    <3>3. /\ f \in [1..L -> K \cap 1..(n - 1)]
          /\ \A i, j \in 1..L : f[i] = f[j] => i = j
          /\ \A k \in K \cap 1..(n - 1) : \E i \in 1..L : f[i] = k
          /\ \A i \in 1..L : old[i] = s[f[i]]
      BY <2>1 DEF IsSelection
    <3> HIDE DEF new, L, old
    <3>4. \A i \in 1..L + 1 : (i = L + 1 /\ g[i] = n) \/ (i \in 1..L /\ i # L + 1 /\ g[i] = f[i] /\ f[i] \in K \cap 1..(n - 1))
      BY <2>2, <3>3
    <3>5. g \in [1..L + 1 -> K \cap 1..n]
      <4>1. \A i \in 1..L + 1 : g[i] \in K \cap 1..n
        BY <2>4, <3>4
      <4>2. g = [i \in 1..L + 1 |-> g[i]]
        OBVIOUS
      <4> HIDE DEF g
      <4> QED BY <4>1, <4>2
    <3> HIDE DEF g
    <3>6. ASSUME NEW i \in 1..L + 1, NEW j \in 1..L + 1, g[i] = g[j] PROVE i = j
      BY <3>3, <3>4, <3>6
    <3>7. ASSUME NEW k \in K \cap 1..n PROVE \E i \in 1..L + 1 : g[i] = k
      <4>1. CASE k = n
        <5>1. L + 1 \in 1..L + 1 /\ ~ (L + 1 \in 1..L)
          BY <2>2
        <5> QED BY <3>4, <4>1, <5>1
      <4>2. CASE k # n
        <5>1. k \in K \cap 1..(n - 1)
          BY <4>2
        <5>2. PICK i \in 1..L : f[i] = k
          BY <3>3, <5>1
        <5>3. i \in 1..L + 1 /\ i # L + 1
          BY <2>2
        <5> QED BY <3>4, <5>2, <5>3
      <4> QED BY <4>1, <4>2
    <3>8. ASSUME NEW i \in 1..L + 1 PROVE new[i] = s[g[i]]
      BY <3>2, <3>3, <3>4
    <3>9. IsSelection(s, K, n, new, g)
      <4>1. L + 1 \in Nat
        BY <2>2
      <4> QED BY <3>2, <3>5, <3>6, <3>7, <3>8, <4>1 DEF IsSelection
    <3> QED BY <2>2, <3>1, <3>9 DEF Selects
  <2> QED BY <2>3, <2>4
<1>4. 0..N \subseteq T
  <2> HIDE DEF T
  <2> QED BY <1>1, <1>2, <1>3, UpTo
<1>5. N \in T /\ kept[N] \in Seq(R)
  BY <1>1, <1>4
<1> QED BY <1>5 DEF Select, kept

-----------------------------------------------------------------------------
(* What the judge says.  A verdict is about a row of the live run if it    *)
(* names it, quotes its answer, and scores it only if that can be.         *)
CaseIn(asked, id) == CHOOSE case \in Range(asked) : case.id = id
IsAbout(asked, row, verdict) ==
  /\ verdict.id = row.id /\ verdict.answer = row.answer
  /\ verdict.status = "skipped_not_applicable" <=> Skipped(CaseIn(asked, row.id))
  /\ verdict.status = "completed" => row.chunks # <<>>

UniqueIds(answers) == \A i, j \in DOMAIN answers : answers[i].id = answers[j].id => i = j

WellJudged(asked, answers, judged) ==
  /\ DOMAIN judged = {answers[i].id : i \in DOMAIN answers}
  /\ \A i \in DOMAIN answers : /\ Len(judged[answers[i].id]) = 1
                            /\ IsAbout(asked, answers[i], judged[answers[i].id][1])

(* The verdicts all are about the rows, one by one.                           *)
Pairs(asked, answers, all, h) ==
  /\ h \in [1..Len(all) -> DOMAIN answers]
  /\ \A m, n \in 1..Len(all) : h[m] = h[n] => m = n
  /\ \A i \in DOMAIN answers : \E n \in 1..Len(all) : h[n] = i
  /\ \A n \in 1..Len(all) : IsAbout(asked, answers[h[n]], all[n])

(* If there is one verdict about each row, each case has one.              *)
LEMMA PairedAreWellJudged ==
  ASSUME NEW asked, NEW answers, UniqueIds(answers), NEW S, NEW all \in Seq(S), NEW h,
         Pairs(asked, answers, all, h)
  PROVE  WellJudged(asked, answers, ByCase(all))
<1> DEFINE judged == ByCase(all)
           At(id) == {n \in DOMAIN all : all[n].id = id}
<1>1. /\ h \in [1..Len(all) -> DOMAIN answers]
      /\ \A m, n \in 1..Len(all) : h[m] = h[n] => m = n
      /\ \A i \in DOMAIN answers : \E n \in 1..Len(all) : h[n] = i
      /\ \A n \in 1..Len(all) : IsAbout(asked, answers[h[n]], all[n])
  BY DEF Pairs
<1>2. DOMAIN all = 1..Len(all) /\ Len(all) \in Nat
  OBVIOUS
<1>3. \A n \in 1..Len(all) : all[n].id = answers[h[n]].id
  BY <1>1 DEF IsAbout
<1>4. judged = [id \in {all[n].id : n \in DOMAIN all} |-> Select(all, At(id))]
  BY DEF ByCase
<1>5. {all[n].id : n \in DOMAIN all} = {answers[i].id : i \in DOMAIN answers}
  BY <1>1, <1>2, <1>3
<1>6. ASSUME NEW i \in DOMAIN answers
      PROVE  Len(judged[answers[i].id]) = 1 /\ IsAbout(asked, answers[i], judged[answers[i].id][1])
  <2> DEFINE id == answers[i].id
             K == At(id)
             out == Select(all, K)
  <2>1. PICK n \in 1..Len(all) : h[n] = i
    BY <1>1
  <2>2. K \cap 1..Len(all) = {n}
    <3>1. n \in K
      BY <1>2, <1>3, <2>1
    <3>2. ASSUME NEW m \in K PROVE m = n
      <4>1. m \in 1..Len(all) /\ answers[h[m]].id = answers[i].id
        BY <1>2, <1>3
      <4>2. h[m] = i
        BY <1>1, <4>1 DEF UniqueIds
      <4> QED BY <1>1, <2>1, <4>1, <4>2
    <3> QED BY <3>1, <3>2
  <2>3. judged[id] = out
    BY <1>4, <1>5
  <2>4. Selects(all, K, Len(all), out)
    <3> HIDE DEF K
    <3> QED BY SelectSelects
  <2> HIDE DEF out, K
  <2>5. PICK f : IsSelection(all, K, Len(all), out, f)
    BY <2>4 DEF Selects
  <2>6. /\ Len(out) \in Nat
        /\ f \in [1..Len(out) -> {n}]
        /\ \A a, b \in 1..Len(out) : f[a] = f[b] => a = b
        /\ \E a \in 1..Len(out) : f[a] = n
        /\ \A a \in 1..Len(out) : out[a] = all[f[a]]
    BY <2>2, <2>5 DEF IsSelection
  <2>7. \A a, b \in 1..Len(out) : a = b
    BY <2>6
  <2>8. Len(out) = 1
    <3>1. 1 \in 1..Len(out) /\ Len(out) \in 1..Len(out)
      BY <2>6
    <3> QED BY <2>7, <3>1
  <2>9. out[1] = all[n]
    <3>1. 1 \in 1..Len(out)
      BY <2>8
    <3>2. f[1] = n
      BY <2>6, <3>1
    <3> QED BY <2>6, <3>1, <3>2
  <2> QED BY <1>1, <2>1, <2>3, <2>8, <2>9
<1> HIDE DEF judged
<1>7. DOMAIN judged = {answers[i].id : i \in DOMAIN answers}
  BY <1>4, <1>5
<1>8. WellJudged(asked, answers, judged)
  BY <1>6, <1>7 DEF WellJudged
<1> QED BY <1>8 DEF judged

(* The rows at the places K and those at the others, put together.         *)
LEMMA BothPartsPair ==
  ASSUME NEW asked, NEW R, NEW answers \in Seq(R), NEW K \in SUBSET DOMAIN answers, UniqueIds(answers),
         NEW S, NEW aside \in Seq(S), NEW judged \in Seq(S),
         Len(aside) = Len(Select(answers, DOMAIN answers \ K)), Len(judged) = Len(Select(answers, K)),
         \A n \in 1..Len(aside) : IsAbout(asked, Select(answers, DOMAIN answers \ K)[n], aside[n]),
         \A n \in 1..Len(judged) : IsAbout(asked, Select(answers, K)[n], judged[n])
  PROVE  WellJudged(asked, answers, ByCase(aside \o judged))
<1> DEFINE N == Len(answers)
           O == DOMAIN answers \ K
           early == Select(answers, O)
           late == Select(answers, K)
           all == aside \o judged
           A == Len(aside)
           B == Len(judged)
<1>1. DOMAIN answers = 1..N /\ N \in Nat
  OBVIOUS
<1>2. PICK f : IsSelection(answers, O, N, early, f)
  <2>1. Selects(answers, O, N, early)
    BY SelectSelects
  <2> HIDE DEF O, N, early
  <2> QED BY <2>1 DEF Selects
<1>3. PICK g : IsSelection(answers, K, N, late, g)
  <2>1. Selects(answers, K, N, late)
    BY SelectSelects
  <2> HIDE DEF N, late
  <2> QED BY <2>1 DEF Selects
<1>4. /\ f \in [1..A -> O] /\ \A i, j \in 1..A : f[i] = f[j] => i = j
      /\ \A k \in O : \E i \in 1..A : f[i] = k
      /\ \A n \in 1..A : IsAbout(asked, answers[f[n]], aside[n])
  <2>1. O \cap 1..N = O /\ Len(early) = A
    BY <1>1
  <2>2. \A n \in 1..A : IsAbout(asked, early[n], aside[n])
    OBVIOUS
  <2> HIDE DEF O, N, early, A
  <2>3. \A n \in 1..A : early[n] = answers[f[n]]
    BY <1>2, <2>1 DEF IsSelection
  <2>4. \A n \in 1..A : IsAbout(asked, answers[f[n]], aside[n])
    BY <2>2, <2>3
  <2> QED BY <1>2, <2>1, <2>4 DEF IsSelection
<1>5. /\ g \in [1..B -> K] /\ \A i, j \in 1..B : g[i] = g[j] => i = j
      /\ \A k \in K : \E i \in 1..B : g[i] = k
      /\ \A n \in 1..B : IsAbout(asked, answers[g[n]], judged[n])
  <2>1. K \cap 1..N = K /\ Len(late) = B
    BY <1>1
  <2>2. \A n \in 1..B : IsAbout(asked, late[n], judged[n])
    OBVIOUS
  <2> HIDE DEF N, late, B
  <2>3. \A n \in 1..B : late[n] = answers[g[n]]
    BY <1>3, <2>1 DEF IsSelection
  <2>4. \A n \in 1..B : IsAbout(asked, answers[g[n]], judged[n])
    BY <2>2, <2>3
  <2> QED BY <1>3, <2>1, <2>4 DEF IsSelection
<1>6. /\ all \in Seq(S) /\ Len(all) = A + B /\ A \in Nat /\ B \in Nat
      /\ \A n \in 1..A : all[n] = aside[n]
      /\ \A n \in A + 1..A + B : all[n] = judged[n - A]
  <2> HIDE DEF N, O, early, late
  <2>1. A \in Nat /\ B \in Nat /\ all \in Seq(S)
    OBVIOUS
  <2>2. Len(all) = A + B
    BY ConcatProperties
  <2>3. \A n \in 1..A : all[n] = aside[n]
    OBVIOUS
  <2>4. ASSUME NEW n \in A + 1..A + B PROVE all[n] = judged[n - A]
    <3>1. n \in 1..A + B /\ ~ (n <= A)
      BY <2>1
    <3> QED BY <3>1
  <2> QED BY <2>1, <2>2, <2>3, <2>4
<1> DEFINE h == [n \in 1..A + B |-> IF n <= A THEN f[n] ELSE g[n - A]]
<1> HIDE DEF N, all, A, B, early, late
<1>7. \A n \in 1..A + B : \/ n \in 1..A /\ h[n] = f[n] /\ f[n] \in O
                          \/ n - A \in 1..B /\ ~ (n \in 1..A) /\ h[n] = g[n - A] /\ g[n - A] \in K
  <2> SUFFICES ASSUME NEW n \in 1..A + B
               PROVE  \/ n \in 1..A /\ h[n] = f[n] /\ f[n] \in O
                      \/ n - A \in 1..B /\ ~ (n \in 1..A) /\ h[n] = g[n - A] /\ g[n - A] \in K
    OBVIOUS
  <2> HIDE DEF O
  <2>1. CASE n <= A
    <3>1. n \in 1..A
      BY <1>6, <2>1
    <3> QED BY <1>4, <2>1, <3>1
  <2>2. CASE ~ (n <= A)
    <3>1. n - A \in 1..B /\ ~ (n \in 1..A)
      BY <1>6, <2>2
    <3> QED BY <1>5, <2>2, <3>1
  <2> QED BY <2>1, <2>2
<1>8. h \in [1..A + B -> DOMAIN answers]
  <2>1. \A n \in 1..A + B : h[n] \in DOMAIN answers
    <3> HIDE DEF h
    <3> QED BY <1>7
  <2> QED BY <2>1
<1> HIDE DEF h
<1>9. ASSUME NEW m \in 1..A + B, NEW n \in 1..A + B, h[m] = h[n] PROVE m = n
  <2>1. CASE m \in 1..A /\ n \in 1..A
    BY <1>4, <1>7, <1>9, <2>1
  <2>2. CASE m \notin 1..A /\ n \notin 1..A
    <3>1. m - A \in 1..B /\ n - A \in 1..B /\ g[m - A] = g[n - A]
      BY <1>7, <1>9, <2>2
    <3>2. m - A = n - A
      BY <1>5, <3>1
    <3> QED BY <1>6, <3>2
  <2>3. CASE m \in 1..A /\ n \notin 1..A
    <3>1. h[m] \in O /\ h[n] \in K
      BY <1>7, <2>3
    <3> QED BY <1>9, <3>1
  <2>4. CASE m \notin 1..A /\ n \in 1..A
    <3>1. h[m] \in K /\ h[n] \in O
      BY <1>7, <2>4
    <3> QED BY <1>9, <3>1
  <2> QED BY <2>1, <2>2, <2>3, <2>4
<1>10. ASSUME NEW i \in DOMAIN answers PROVE \E n \in 1..A + B : h[n] = i
  <2>1. CASE i \in K
    <3>1. PICK n \in 1..B : g[n] = i
      BY <1>5, <2>1
    <3>2. n + A \in 1..A + B /\ ~ (n + A \in 1..A) /\ (n + A) - A = n
      BY <1>6
    <3>3. h[n + A] = g[n]
      BY <1>7, <3>2
    <3> QED BY <3>1, <3>2, <3>3
  <2>2. CASE i \notin K
    <3>1. PICK n \in 1..A : f[n] = i
      BY <1>4, <2>2
    <3>2. n \in 1..A + B
      BY <1>6
    <3>3. h[n] = f[n]
      BY <1>7, <3>2
    <3> QED BY <3>1, <3>2, <3>3
  <2> QED BY <2>1, <2>2
<1>11. ASSUME NEW n \in 1..A + B PROVE IsAbout(asked, answers[h[n]], all[n])
  <2>1. CASE n \in 1..A
    <3>1. h[n] = f[n] /\ all[n] = aside[n]
      BY <1>6, <1>7, <2>1
    <3> QED BY <1>4, <2>1, <3>1
  <2>2. CASE n \notin 1..A
    <3>1. n - A \in 1..B /\ h[n] = g[n - A]
      BY <1>7, <2>2
    <3>2. n \in A + 1..A + B
      BY <1>6, <3>1
    <3>3. all[n] = judged[n - A]
      BY <1>6, <3>2
    <3> QED BY <1>5, <3>1, <3>3
  <2> QED BY <2>1, <2>2
<1>12. Pairs(asked, answers, all, h)
  BY <1>6, <1>8, <1>9, <1>10, <1>11 DEF Pairs
<1>13. WellJudged(asked, answers, ByCase(all))
  BY <1>6, <1>12, PairedAreWellJudged
<1> QED BY <1>13 DEF all

-----------------------------------------------------------------------------
(* The inductive invariant.  A manifest of a live run names rows that      *)
(* answer its golden cases, one by one.                                    *)
AllCases == UNION {Range(g) : g \in Goldens}
ResultRows == {Answered(case, response) : case \in AllCases, response \in Responses}
LiveRows == {Scored(case, row) : case \in AllCases, row \in ResultRows}

IsLive(m) ==
  /\ m.kind = "live"
  /\ m.golden \in Seq(AllCases) /\ UniqueIds(m.golden)
  /\ m.build \in Published
  /\ m.cases[2] \in Seq(LiveRows) /\ Len(m.cases[2]) = Len(m.golden)
  /\ \A i \in 1..Len(m.golden) : /\ m.cases[2][i].id = m.golden[i].id
                                 /\ m.cases[2][i].build \in {m.build, None}

(* The command: what it has read so far, and what of it is on the disk.    *)
LiveCommand ==
  /\ command.kind = "live"
  /\ command = [stage |-> command.stage, kind |-> "live", run |-> command.run,
                golden |-> command.golden, build |-> command.build, results |-> command.results]
  /\ command.stage \in {"asking", "scored", "manifest", "summary"} /\ command.run \in RunIds
  /\ command.golden \in Seq(AllCases) /\ command.results \in Seq(ResultRows)
  /\ Len(command.results) <= Len(command.golden)
  /\ \A i \in 1..Len(command.results) :
       /\ command.results[i].id = command.golden[i].id
       /\ command.results[i].build \in {command.build, None}
  /\ goldenFiles[command.run] = command.golden
  /\ command.stage # "asking" => /\ Len(command.results) = Len(command.golden)
                                 /\ UniqueIds(command.golden) /\ command.build \in Published
  /\ command.stage \in {"manifest", "summary"} => writers[command.run] # "none"
  /\ command.stage \in {"manifest", "summary"} /\ writers[command.run] = "one" =>
       artifact[command.run].manifest = None \/ artifact[command.run].manifest.kind = "live"

SemanticCommand ==
  /\ command.kind = "semantic"
  /\ command = [stage |-> command.stage, kind |-> "semantic", run |-> command.run,
                source |-> command.source, input |-> command.input, rows |-> command.rows,
                verified |-> command.verified, judged |-> command.judged]
  /\ command.stage \in {"judging", "scored", "cases", "summary"}
  /\ command.run \in RunIds /\ command.source \in RunIds
  /\ command.verified \in BOOLEAN
  /\ command.stage = "judging" => command.verified
  /\ command.verified => /\ IsLive(command.input) /\ command.rows = command.input.cases[2]
                         /\ command.stage # "judging" =>
                              WellJudged(command.input.golden, command.rows, command.judged)
  /\ command.stage \in {"judging", "scored"} => artifact[command.source].manifest = command.input
  /\ command.stage \in {"cases", "summary"} => writers[command.run] # "none"
  /\ command.stage \in {"cases", "summary"} /\ writers[command.run] = "one" =>
       LET a == artifact[command.run]
       IN  /\ a.manifest = [kind |-> "semantic", source |-> command.source, verified |-> command.verified,
                            sourceManifest |-> command.input]
           /\ a.summary = None
           /\ command.stage = "summary" => a.cases = <<"semantic", command.judged>>
           /\ command.stage = "cases" => a.cases = None

CommandIsSound == command = NoCommand \/ LiveCommand \/ SemanticCommand

(* What one command alone wrote.                                           *)
OneRun(a) ==
  \/ a.manifest = None \/ a.manifest.kind = "live"
  \/ /\ a.manifest.kind = "semantic"
     /\ a.manifest.verified =>
          /\ IsLive(a.manifest.sourceManifest)
          /\ a.cases = None
             \/ (/\ a.cases = <<"semantic", a.cases[2]>>
                 /\ WellJudged(a.manifest.sourceManifest.golden, a.manifest.sourceManifest.cases[2], a.cases[2]))
     /\ a.summary = None \/ a.summary = a.cases

ArtifactsAreSound ==
  \A r \in RunIds :
    /\ artifact[r] = [manifest |-> artifact[r].manifest, cases |-> artifact[r].cases,
                      summary |-> artifact[r].summary]
    /\ \/ artifact[r].manifest = None \/ IsLive(artifact[r].manifest)
       \/ artifact[r].manifest.kind = "semantic"
    /\ writers[r] = "none" => artifact[r] = NoArtifact
    /\ writers[r] = "one" => OneRun(artifact[r])

Registered(e) ==
  e.writers = "one" =>
    LET source == e.manifest.sourceManifest
    IN  /\ e.summary = e.rows
        /\ IsLive(source)
        /\ WellJudged(source.golden, source.cases[2], e.rows[2])
        /\ e.verdicts = [id \in DOMAIN e.rows[2] |-> Verdict(e.rows[2][id][1])]

RagTyped ==
  /\ artifact = [r \in RunIds |-> artifact[r]]
  /\ goldenFiles = [r \in RunIds |-> goldenFiles[r]]
  /\ writers \in [RunIds -> {"none", "one", "more"}]
  /\ evalRuns = [r \in RunIds |-> evalRuns[r]]

RunsAreRegistered == \A r \in RunIds : evalRuns[r] = None \/ Registered(evalRuns[r])

RagIInv == RagTyped /\ CommandIsSound /\ ArtifactsAreSound /\ RunsAreRegistered

-----------------------------------------------------------------------------
(* Nothing is written at first.                                            *)
LEMMA RagInitially == RagInit => RagIInv
<1> SUFFICES ASSUME RagInit PROVE RagIInv
  OBVIOUS
<1>1. RagTyped /\ CommandIsSound /\ RunsAreRegistered
  BY DEF RagInit, RagTyped, CommandIsSound, RunsAreRegistered
<1>2. ArtifactsAreSound
  BY DEF RagInit, ArtifactsAreSound, NoArtifact, OneRun
<1> QED BY <1>1, <1>2 DEF RagIInv

(* The ids of the rows are those of the cases.                             *)
LEMMA LiveIdsAreUnique ==
  ASSUME NEW m, IsLive(m)
  PROVE  UniqueIds(m.cases[2]) /\ m.cases[2] \in Seq(LiveRows)
<1>1. /\ m.golden \in Seq(AllCases) /\ UniqueIds(m.golden)
      /\ m.cases[2] \in Seq(LiveRows) /\ Len(m.cases[2]) = Len(m.golden)
      /\ \A i \in 1..Len(m.golden) : m.cases[2][i].id = m.golden[i].id
  BY DEF IsLive
<1>2. DOMAIN m.golden = 1..Len(m.golden) /\ DOMAIN m.cases[2] = 1..Len(m.golden)
  BY <1>1
<1> QED BY <1>1, <1>2 DEF UniqueIds

(* While the artifacts and golden files stay, so does all but the command. *)
LEMMA CommandAlone ==
  ASSUME RagIInv, UNCHANGED <<artifact, evalRuns, writers>>,
         goldenFiles' = [r \in RunIds |-> goldenFiles'[r]], CommandIsSound'
  PROVE  RagIInv'
<1>1. RagTyped'
  BY DEF RagIInv, RagTyped
<1>2. ArtifactsAreSound' /\ RunsAreRegistered'
  BY DEF RagIInv, ArtifactsAreSound, RunsAreRegistered
<1> QED BY <1>1, <1>2 DEF RagIInv

(* The artifact of a command that dies is what it wrote so far.            *)
LEMMA DiesKeeps == RagIInv /\ Dies => RagIInv'
<1> SUFFICES ASSUME RagIInv, Dies PROVE RagIInv'
  OBVIOUS
<1>1. CommandIsSound' /\ UNCHANGED <<goldenFiles, artifact, evalRuns, writers>>
  BY DEF Dies, CommandIsSound
<1>2. goldenFiles' = [r \in RunIds |-> goldenFiles'[r]]
  BY <1>1 DEF RagIInv, RagTyped
<1> QED BY <1>1, <1>2, CommandAlone

(* A live run has the golden set written before the first case is asked.   *)
LEMMA BeginLiveKeeps ==
  ASSUME RagIInv, NEW r \in RunIds, NEW g \in Goldens, NEW build, BeginLive(r, g, build)
  PROVE  RagIInv'
<1>1. Selected(g) \in Seq(AllCases)
  <2>1. g \in Seq(AllCases)
    <3>1. g \in Seq(Range(g)) /\ Range(g) \subseteq AllCases
      BY RagAssumption DEF AllCases
    <3> QED BY <3>1
  <2> QED BY <2>1, SelectSelects DEF Selected
<1>2. /\ command' = [stage |-> "asking", kind |-> "live", run |-> r, golden |-> Selected(g),
                     build |-> build, results |-> <<>>]
      /\ goldenFiles' = [goldenFiles EXCEPT ![r] = Selected(g)]
      /\ UNCHANGED <<artifact, evalRuns, writers>>
  BY DEF BeginLive, Started
<1>3. goldenFiles' = [q \in RunIds |-> goldenFiles'[q]] /\ goldenFiles'[r] = Selected(g)
  BY <1>2 DEF RagIInv, RagTyped
<1>4. LiveCommand'
  BY <1>1, <1>2, <1>3 DEF LiveCommand
<1> QED BY <1>2, <1>3, <1>4, CommandAlone DEF CommandIsSound

(* The command is the one that a stage is of.                              *)
LEMMA KindOfCommand ==
  ASSUME CommandIsSound
  PROVE  /\ AtStage("asking") => LiveCommand
         /\ command # NoCommand /\ command.kind = "live" => LiveCommand
         /\ (AtStage("judging") \/ AtStage("cases")) => SemanticCommand
         /\ command # NoCommand /\ command.kind = "semantic" => SemanticCommand
<1>1. command = NoCommand => command.stage = "idle"
  BY DEF NoCommand
<1>2. LiveCommand => command.kind = "live" /\ command.stage \in {"asking", "scored", "manifest", "summary"}
  BY DEF LiveCommand
<1>3. SemanticCommand => command.kind = "semantic" /\ command.stage \in {"judging", "scored", "cases", "summary"}
  BY DEF SemanticCommand
<1> QED BY <1>1, <1>2, <1>3 DEF CommandIsSound, AtStage

(* What an answer changes of a command.                                    *)
LEMMA OneMoreResult ==
  ASSUME NEW stage, NEW run, NEW asked, NEW build, NEW results, NEW newBuild, NEW newResults
  PROVE  [[stage |-> stage, kind |-> "live", run |-> run, golden |-> asked, build |-> build,
           results |-> results] EXCEPT !.build = newBuild, !.results = newResults]
         = [stage |-> stage, kind |-> "live", run |-> run, golden |-> asked, build |-> newBuild,
            results |-> newResults]
<1> DEFINE Live(b, answers) == [stage |-> stage, kind |-> "live", run |-> run, golden |-> asked,
                             build |-> b, results |-> answers]
<1>1. ASSUME NEW c
      PROVE  [c EXCEPT !.build = newBuild, !.results = newResults]
             = [[c EXCEPT !.build = newBuild] EXCEPT !.results = newResults]
  OBVIOUS
<1>2. [Live(build, results) EXCEPT !.build = newBuild] = Live(newBuild, results)
  OBVIOUS
<1>3. [Live(newBuild, results) EXCEPT !.results = newResults] = Live(newBuild, newResults)
  OBVIOUS
<1>4. [Live(build, results) EXCEPT !.build = newBuild, !.results = newResults] = Live(newBuild, newResults)
  <2> HIDE DEF Live
  <2> QED BY <1>1, <1>2, <1>3
<1> QED BY <1>4

(* The next case is answered, and the answers are of one build.            *)
LEMMA AskSystemKeeps ==
  ASSUME RagIInv, NEW response \in Responses, AskSystem(response)
  PROVE  RagIInv'
<1>1. LiveCommand
  BY KindOfCommand DEF RagIInv, AskSystem
<1>0. command = [stage |-> command.stage, kind |-> "live", run |-> command.run,
                 golden |-> command.golden, build |-> command.build, results |-> command.results]
  BY <1>1 DEF LiveCommand
<1> DEFINE i == Len(command.results) + 1
           build == IF command.build = None THEN response.build ELSE command.build
           row == Answered(command.golden[i], response)
<1>2. /\ i <= Len(command.golden) /\ response.build \in {build, None}
      /\ command' = [command EXCEPT !.build = build, !.results = Append(@, row)]
      /\ UNCHANGED <<goldenFiles, artifact, evalRuns, commands, writers>> /\ command.stage = "asking"
  BY DEF AskSystem, AtStage
<1>3. /\ command.golden \in Seq(AllCases) /\ command.results \in Seq(ResultRows)
      /\ \A j \in 1..Len(command.results) : /\ command.results[j].id = command.golden[j].id
                                            /\ command.results[j].build \in {command.build, None}
  BY <1>1 DEF LiveCommand
<1>4. row \in ResultRows /\ row.id = command.golden[i].id /\ row.build = response.build
  <2>1. i \in 1..Len(command.golden)
    BY <1>2, <1>3
  <2>2. command.golden[i] \in AllCases
    BY <1>3, <2>1
  <2> QED BY <2>2 DEF ResultRows, Answered
<1> DEFINE results == Append(command.results, row)
<1>5. /\ command'.results = results /\ command'.build = build /\ command'.golden = command.golden
      /\ command'.stage = "asking" /\ command'.run = command.run
      /\ command' = [stage |-> "asking", kind |-> "live", run |-> command.run,
                     golden |-> command.golden, build |-> build, results |-> results]
  <2>1. command' = [command EXCEPT !.build = build, !.results = results]
    BY <1>2
  <2> HIDE DEF build, row, i, results
  <2>2. command' = [stage |-> "asking", kind |-> "live", run |-> command.run,
                    golden |-> command.golden, build |-> build, results |-> results]
    <3> DEFINE stage == command.stage
               run == command.run
               asked == command.golden
               oldBuild == command.build
               oldResults == command.results
    <3>1. /\ command = [stage |-> stage, kind |-> "live", run |-> run, golden |-> asked,
                        build |-> oldBuild, results |-> oldResults]
          /\ stage = "asking"
      BY <1>0, <1>2
    <3> HIDE DEF stage, run, asked, oldBuild, oldResults
    <3>2. command' = [stage |-> stage, kind |-> "live", run |-> run, golden |-> asked,
                      build |-> build, results |-> results]
      BY <2>1, <3>1, OneMoreResult
    <3> QED BY <3>1, <3>2 DEF run, asked
  <2> QED BY <2>2
<1>6. results \in Seq(ResultRows) /\ Len(results) = i
  <2> HIDE DEF row
  <2> QED BY <1>3, <1>4
<1>7. ASSUME NEW j \in 1..i
      PROVE  results[j].id = command.golden[j].id /\ results[j].build \in {build, None}
  <2>1. CASE j = i
    <3>1. results[j] = row
      <4> HIDE DEF row
      <4> QED BY <1>3, <2>1
    <3> QED BY <1>2, <1>4, <2>1, <3>1
  <2>2. CASE j # i
    <3>1. j \in 1..Len(command.results)
      BY <1>3, <2>2
    <3>2. results[j] = command.results[j]
      <4> HIDE DEF row
      <4> QED BY <1>3, <3>1
    <3>3. command.results[j].build \in {build, None}
      BY <1>3, <3>1
    <3> QED BY <1>3, <3>1, <3>2, <3>3
  <2> QED BY <2>1, <2>2
<1> HIDE DEF i, build, results, row
<1>8. LiveCommand'
  BY <1>1, <1>2, <1>3, <1>5, <1>6, <1>7 DEF LiveCommand
<1>9. goldenFiles' = [r \in RunIds |-> goldenFiles'[r]]
  BY <1>2 DEF RagIInv, RagTyped
<1> QED BY <1>2, <1>8, <1>9, CommandAlone DEF CommandIsSound

(* The answers are kept only if the ids are unique and the build published. *)
LEMMA CaptureKeeps == RagIInv /\ Capture => RagIInv'
<1> SUFFICES ASSUME RagIInv, Capture PROVE RagIInv'
  OBVIOUS
<1>1. LiveCommand
  BY KindOfCommand DEF RagIInv, Capture
<1>2. /\ Len(command.results) = Len(command.golden) /\ command.build \in Published
      /\ command' = [command EXCEPT !.stage = "scored"]
      /\ UNCHANGED <<goldenFiles, artifact, evalRuns, commands, writers>>
      /\ ValidRows(command.golden)
  BY DEF Capture, Goto
<1>3. UniqueIds(command.golden)
  BY <1>2 DEF ValidRows, IsInjective, UniqueIds
<1>4. command' = [stage |-> "scored", kind |-> "live", run |-> command.run,
                  golden |-> command.golden, build |-> command.build, results |-> command.results]
  BY <1>1, <1>2 DEF LiveCommand
<1>5. LiveCommand'
  BY <1>1, <1>2, <1>3, <1>4 DEF LiveCommand
<1>6. goldenFiles' = [r \in RunIds |-> goldenFiles'[r]]
  BY <1>2 DEF RagIInv, RagTyped
<1> QED BY <1>2, <1>5, <1>6, CommandAlone DEF CommandIsSound

-----------------------------------------------------------------------------
(* One write changes one file of one artifact.                             *)
LEMMA Written ==
  ASSUME RagTyped, ArtifactsAreSound, command.run \in RunIds,
         NEW file \in {"manifest", "cases", "summary"}, NEW content, Write(file, content)
  PROVE  LET old == artifact[command.run]
             new == artifact'[command.run]
         IN  /\ artifact' = [r \in RunIds |-> artifact'[r]]
             /\ \A r \in RunIds : r # command.run => artifact'[r] = artifact[r]
             /\ new = [manifest |-> new.manifest, cases |-> new.cases, summary |-> new.summary]
             /\ new.manifest = IF file = "manifest" THEN content ELSE old.manifest
             /\ new.cases = IF file = "cases" THEN content ELSE old.cases
             /\ new.summary = IF file = "summary" THEN content ELSE old.summary
<1> DEFINE old == artifact[command.run]
           new == artifact'[command.run]
<1>1. artifact' = [artifact EXCEPT ![command.run] = [old EXCEPT ![file] = content]]
  BY DEF Write
<1>2. artifact = [r \in RunIds |-> artifact[r]]
  BY DEF RagTyped
<1>3. new = [old EXCEPT ![file] = content]
  BY <1>1, <1>2
<1>4. old = [manifest |-> old.manifest, cases |-> old.cases, summary |-> old.summary]
  BY DEF ArtifactsAreSound
<1>5. artifact' = [r \in RunIds |-> artifact'[r]] /\ \A r \in RunIds : r # command.run => artifact'[r] = artifact[r]
  BY <1>1, <1>2
<1> HIDE DEF new, old
<1>6. DOMAIN old = {"manifest", "cases", "summary"}
  BY <1>4
<1>7. new = [x \in {"manifest", "cases", "summary"} |-> IF x = file THEN content ELSE old[x]]
  BY <1>3, <1>6
<1>8. /\ new.manifest = IF file = "manifest" THEN content ELSE old.manifest
      /\ new.cases = IF file = "cases" THEN content ELSE old.cases
      /\ new.summary = IF file = "summary" THEN content ELSE old.summary
  BY <1>7
<1>9. new = [manifest |-> new.manifest, cases |-> new.cases, summary |-> new.summary]
  BY <1>7
<1> QED BY <1>5, <1>8, <1>9 DEF new, old

(* All but the written artifact stay as sound as they were.                *)
LEMMA WriterAlone ==
  ASSUME RagIInv, command.run \in RunIds, UNCHANGED <<goldenFiles, evalRuns>>,
         artifact' = [r \in RunIds |-> artifact'[r]], writers' \in [RunIds -> {"none", "one", "more"}],
         \A r \in RunIds : r # command.run => artifact'[r] = artifact[r] /\ writers'[r] = writers[r],
         LET a == artifact'[command.run]
         IN  /\ a = [manifest |-> a.manifest, cases |-> a.cases, summary |-> a.summary]
             /\ \/ a.manifest = None \/ IsLive(a.manifest)
                \/ a.manifest.kind = "semantic"
             /\ writers'[command.run] # "none"
             /\ writers'[command.run] = "one" => OneRun(a),
         CommandIsSound'
  PROVE  RagIInv'
<1>1. RagTyped'
  BY DEF RagIInv, RagTyped
<1>2. RunsAreRegistered'
  BY DEF RagIInv, RunsAreRegistered
<1>3. ArtifactsAreSound'
  <2> SUFFICES ASSUME NEW r \in RunIds
      PROVE  /\ artifact'[r] = [manifest |-> artifact'[r].manifest, cases |-> artifact'[r].cases,
                                summary |-> artifact'[r].summary]
             /\ \/ artifact'[r].manifest = None \/ IsLive(artifact'[r].manifest)
                \/ artifact'[r].manifest.kind = "semantic"
             /\ writers'[r] = "none" => artifact'[r] = NoArtifact
             /\ writers'[r] = "one" => OneRun(artifact'[r])
    BY DEF ArtifactsAreSound
  <2>1. CASE r = command.run
    BY <2>1
  <2>2. CASE r # command.run
    BY <2>2 DEF RagIInv, ArtifactsAreSound
  <2> QED BY <2>1, <2>2
<1> QED BY <1>1, <1>2, <1>3 DEF RagIInv

(* The first write of a command counts it among the writers.               *)
LEMMA CountedAsWriter ==
  ASSUME RagTyped, ArtifactsAreSound, command.run \in RunIds, FirstWrite
  PROVE  /\ writers' \in [RunIds -> {"none", "one", "more"}]
         /\ \A r \in RunIds : r # command.run => writers'[r] = writers[r]
         /\ writers'[command.run] # "none"
         /\ writers'[command.run] = "one" => artifact[command.run] = NoArtifact
  BY DEF RagTyped, FirstWrite, ArtifactsAreSound

(* The rows that a live run writes are those of its answers.               *)
LEMMA CaseResultsAreLive ==
  ASSUME LiveCommand, command.stage # "asking"
  PROVE  /\ CaseResults[2] \in Seq(LiveRows) /\ Len(CaseResults[2]) = Len(command.golden)
         /\ \A i \in 1..Len(command.golden) :
              /\ CaseResults[2][i].id = command.golden[i].id
              /\ CaseResults[2][i].build \in {command.build, None}
<1> DEFINE N == Len(command.golden)
           row(i) == Scored(command.golden[i], command.results[i])
<1>1. /\ command.golden \in Seq(AllCases) /\ command.results \in Seq(ResultRows)
      /\ Len(command.results) = N
      /\ \A i \in 1..N : /\ command.results[i].id = command.golden[i].id
                         /\ command.results[i].build \in {command.build, None}
  BY DEF LiveCommand
<1>2. N \in Nat /\ DOMAIN command.results = 1..N
  BY <1>1
<1>3. CaseResults[2] = [i \in 1..N |-> row(i)]
  BY <1>2 DEF CaseResults
<1>4. ASSUME NEW i \in 1..N
      PROVE  /\ row(i) \in LiveRows /\ row(i).id = command.golden[i].id
             /\ row(i).build \in {command.build, None}
  <2>1. command.golden[i] \in AllCases /\ command.results[i] \in ResultRows
    BY <1>1, <1>2
  <2>2. row(i) \in LiveRows
    BY <2>1 DEF LiveRows
  <2>3. row(i).id = command.results[i].id /\ row(i).build = command.results[i].build
    BY DEF Scored
  <2> QED BY <1>1, <2>2, <2>3
<1> HIDE DEF row, N
<1>5. [i \in 1..N |-> row(i)] \in Seq(LiveRows) /\ Len([i \in 1..N |-> row(i)]) = N
  BY <1>2, <1>4
<1> QED BY <1>3, <1>4, <1>5 DEF N

(* A command goes on.                                                      *)
LEMMA GoesOn ==
  ASSUME NEW next, Goto(next)
  PROVE  /\ LiveCommand => command' = [stage |-> next, kind |-> "live", run |-> command.run,
                  golden |-> command.golden, build |-> command.build, results |-> command.results]
         /\ SemanticCommand =>
              command' = [stage |-> next, kind |-> "semantic", run |-> command.run,
                  source |-> command.source, input |-> command.input, rows |-> command.rows,
                  verified |-> command.verified, judged |-> command.judged]
<1>1. command' = [command EXCEPT !.stage = next]
  BY DEF Goto
<1>2. ASSUME LiveCommand
      PROVE  command' = [stage |-> next, kind |-> "live", run |-> command.run,
                  golden |-> command.golden, build |-> command.build, results |-> command.results]
  BY <1>1, <1>2 DEF LiveCommand
<1>3. ASSUME SemanticCommand
      PROVE  command' = [stage |-> next, kind |-> "semantic", run |-> command.run,
                  source |-> command.source, input |-> command.input, rows |-> command.rows,
                  verified |-> command.verified, judged |-> command.judged]
  BY <1>1, <1>3 DEF SemanticCommand
<1> QED BY <1>2, <1>3

(* A live run writes its rows first: if nobody wrote before, there is no   *)
(* manifest yet.                                                           *)
LEMMA WriteLiveCasesKeeps == RagIInv /\ WriteLiveCases => RagIInv'
<1> SUFFICES ASSUME RagIInv, WriteLiveCases PROVE RagIInv'
  OBVIOUS
<1> DEFINE run == command.run
           a == artifact[run]
           new == artifact'[run]
<1>1. command.stage = "scored" /\ Write("cases", CaseResults) /\ FirstWrite /\ Goto("manifest")
  BY DEF WriteLiveCases, AtStage
<1>2. LiveCommand
  BY <1>1, KindOfCommand DEF RagIInv, WriteLiveCases, NoCommand
<1>3. run \in RunIds
  BY <1>2 DEF LiveCommand
<1>4. /\ artifact' = [r \in RunIds |-> artifact'[r]]
      /\ \A r \in RunIds : r # run => artifact'[r] = artifact[r]
      /\ new = [manifest |-> new.manifest, cases |-> new.cases, summary |-> new.summary]
      /\ new.manifest = a.manifest
  BY <1>1, <1>3, Written DEF RagIInv
<1>5. /\ writers' \in [RunIds -> {"none", "one", "more"}]
      /\ \A r \in RunIds : r # run => writers'[r] = writers[r]
      /\ writers'[run] # "none"
      /\ writers'[run] = "one" => a = NoArtifact
  BY <1>1, <1>3, CountedAsWriter DEF RagIInv
<1>6. writers'[run] = "one" => new.manifest = None
  BY <1>4, <1>5 DEF NoArtifact
<1>7. UNCHANGED <<goldenFiles, evalRuns>>
  BY <1>1 DEF Write
<1>8. command' = [stage |-> "manifest", kind |-> "live", run |-> run, golden |-> command.golden,
                  build |-> command.build, results |-> command.results]
  BY <1>1, <1>2, GoesOn
<1>9. LiveCommand'
  BY <1>1, <1>2, <1>5, <1>6, <1>7, <1>8 DEF LiveCommand
<1>10. a.manifest = None \/ IsLive(a.manifest) \/ a.manifest.kind = "semantic"
  BY <1>3 DEF RagIInv, ArtifactsAreSound
<1>11. writers'[run] = "one" => OneRun(new)
  BY <1>6 DEF OneRun
<1> HIDE DEF run, a, new
<1> QED BY <1>3, <1>4, <1>5, <1>7, <1>9, <1>10, <1>11, WriterAlone DEF CommandIsSound, run, new

(* The manifest of a live run names the rows and the cases they answer.    *)
LEMMA WriteLiveManifestKeeps == RagIInv /\ WriteLiveManifest => RagIInv'
<1> SUFFICES ASSUME RagIInv, WriteLiveManifest PROVE RagIInv'
  OBVIOUS
<1> DEFINE run == command.run
           new == artifact'[run]
           m == [kind |-> "live", golden |-> goldenFiles[run], goldenRun |-> run,
                 build |-> command.build, casesRun |-> run, cases |-> CaseResults]
<1>1. command.stage = "manifest" /\ Write("manifest", m) /\ UNCHANGED writers /\ Goto("summary")
  BY DEF WriteLiveManifest, AtStage
<1>2. LiveCommand
  BY <1>1, KindOfCommand DEF RagIInv, WriteLiveManifest, NoCommand
<1>3. run \in RunIds /\ writers[run] # "none"
  BY <1>1, <1>2 DEF LiveCommand
<1>4. /\ artifact' = [r \in RunIds |-> artifact'[r]]
      /\ \A r \in RunIds : r # run => artifact'[r] = artifact[r]
      /\ new = [manifest |-> new.manifest, cases |-> new.cases, summary |-> new.summary]
      /\ new.manifest = m
  <2> HIDE DEF m
  <2> QED BY <1>1, <1>3, Written DEF RagIInv
<1>5. IsLive(m)
  <2>1. /\ command.golden \in Seq(AllCases) /\ UniqueIds(command.golden)
        /\ command.build \in Published /\ goldenFiles[run] = command.golden
    BY <1>1, <1>2 DEF LiveCommand
  <2>2. /\ m.kind = "live" /\ m.golden = command.golden /\ m.build = command.build
        /\ m.cases = CaseResults
    BY <2>1
  <2>3. /\ CaseResults[2] \in Seq(LiveRows) /\ Len(CaseResults[2]) = Len(command.golden)
        /\ \A i \in 1..Len(command.golden) :
             /\ CaseResults[2][i].id = command.golden[i].id
             /\ CaseResults[2][i].build \in {command.build, None}
    BY <1>1, <1>2, CaseResultsAreLive
  <2> HIDE DEF m
  <2> QED BY <2>1, <2>2, <2>3 DEF IsLive
<1>6. new.manifest.kind = "live"
  BY <1>4
<1>7. UNCHANGED <<goldenFiles, evalRuns>>
  BY <1>1 DEF Write
<1>8. command' = [stage |-> "summary", kind |-> "live", run |-> run, golden |-> command.golden,
                  build |-> command.build, results |-> command.results]
  BY <1>1, <1>2, GoesOn
<1>9. LiveCommand'
  <2> HIDE DEF m
  <2> QED BY <1>1, <1>2, <1>3, <1>6, <1>7, <1>8 DEF LiveCommand
<1>10. OneRun(new)
  BY <1>6 DEF OneRun
<1>11. writers' \in [RunIds -> {"none", "one", "more"}] /\ \A r \in RunIds : r # run => writers'[r] = writers[r]
  BY <1>1 DEF RagIInv, RagTyped
<1> HIDE DEF run, m, new
<1> QED BY <1>1, <1>3, <1>4, <1>5, <1>7, <1>9, <1>10, <1>11, WriterAlone DEF CommandIsSound, run, new

(* The summary of a live run is the last it writes.                        *)
LEMMA WriteLiveSummaryKeeps == RagIInv /\ WriteLiveSummary => RagIInv'
<1> SUFFICES ASSUME RagIInv, WriteLiveSummary PROVE RagIInv'
  OBVIOUS
<1> DEFINE run == command.run
           a == artifact[run]
           new == artifact'[run]
<1>1. command.stage = "summary" /\ Write("summary", CaseResults) /\ UNCHANGED writers /\ command' = NoCommand
  BY DEF WriteLiveSummary, AtStage
<1>2. LiveCommand
  BY <1>1, KindOfCommand DEF RagIInv, WriteLiveSummary, NoCommand
<1>3. /\ run \in RunIds /\ writers[run] # "none"
      /\ writers[run] = "one" => a.manifest = None \/ a.manifest.kind = "live"
  BY <1>1, <1>2 DEF LiveCommand
<1>4. /\ artifact' = [r \in RunIds |-> artifact'[r]]
      /\ \A r \in RunIds : r # run => artifact'[r] = artifact[r]
      /\ new = [manifest |-> new.manifest, cases |-> new.cases, summary |-> new.summary]
      /\ new.manifest = a.manifest
  BY <1>1, <1>3, Written DEF RagIInv
<1>5. a.manifest = None \/ IsLive(a.manifest) \/ a.manifest.kind = "semantic"
  BY <1>3 DEF RagIInv, ArtifactsAreSound
<1>6. writers[run] = "one" => OneRun(new)
  BY <1>3, <1>4 DEF OneRun
<1>7. UNCHANGED <<goldenFiles, evalRuns>>
  BY <1>1 DEF Write
<1>8. writers' \in [RunIds -> {"none", "one", "more"}] /\ \A r \in RunIds : r # run => writers'[r] = writers[r]
  BY <1>1 DEF RagIInv, RagTyped
<1>9. CommandIsSound'
  BY <1>1 DEF CommandIsSound, NoCommand
<1> HIDE DEF run, a, new
<1> QED BY <1>1, <1>3, <1>4, <1>5, <1>6, <1>7, <1>8, <1>9, WriterAlone DEF run, new

(* A semantic run reads verified rows, or has none.                        *)
LEMMA BeginSemanticKeeps ==
  ASSUME RagIInv, NEW source \in RunIds, NEW r \in RunIds, BeginSemantic(source, r)
  PROVE  RagIInv'
<1> DEFINE m == artifact[source].manifest
<1>1. m # None /\ UNCHANGED <<goldenFiles, artifact, evalRuns, writers>>
  BY DEF BeginSemantic
<1>2. m.kind = "live" => IsLive(m)
  <2>1. m = None \/ IsLive(m) \/ m.kind = "semantic"
    BY DEF RagIInv, ArtifactsAreSound
  <2> HIDE DEF m
  <2> QED BY <1>1, <2>1
<1>3. SemanticCommand'
  <2>1. CASE VerifyCaseResults(m)
    <3>1. /\ IsLive(m) /\ artifact[m.casesRun].cases[2] = m.cases[2]
      <4> HIDE DEF m
      <4> QED BY <1>2, <2>1 DEF VerifyCaseResults
    <3>2. command' = [stage |-> "judging", kind |-> "semantic", run |-> r, source |-> source,
                      input |-> m, rows |-> artifact[m.casesRun].cases[2],
                      verified |-> TRUE, judged |-> None]
      BY <2>1 DEF BeginSemantic, Started
    <3>3. artifact'[source].manifest = m
      BY <1>1
    <3> HIDE DEF m
    <3> QED BY <3>1, <3>2, <3>3 DEF SemanticCommand
  <2>2. CASE ~ VerifyCaseResults(m)
    <3>1. command' = [stage |-> "scored", kind |-> "semantic", run |-> r, source |-> source,
                      input |-> m, rows |-> <<>>, verified |-> FALSE, judged |-> SuiteInputError]
      BY <2>2 DEF BeginSemantic, Started
    <3>2. artifact'[source].manifest = m
      BY <1>1
    <3> HIDE DEF m
    <3> QED BY <3>1, <3>2 DEF SemanticCommand
  <2> QED BY <2>1, <2>2
<1>4. goldenFiles' = [q \in RunIds |-> goldenFiles'[q]]
  BY <1>1 DEF RagIInv, RagTyped
<1> HIDE DEF m
<1> QED BY <1>1, <1>3, <1>4, CommandAlone DEF CommandIsSound

(* A selected row is one of those at the selected places.                  *)
LEMMA SelectedAreThere ==
  ASSUME NEW R, NEW s \in Seq(R), NEW K
  PROVE  /\ Select(s, K) \in Seq(R)
         /\ \A n \in 1..Len(Select(s, K)) : \E k \in K \cap DOMAIN s : Select(s, K)[n] = s[k]
<1> DEFINE out == Select(s, K)
<1>1. out \in Seq(R) /\ Selects(s, K, Len(s), out)
  BY SelectSelects
<1> HIDE DEF out
<1>2. PICK f : IsSelection(s, K, Len(s), out, f)
  BY <1>1 DEF Selects
<1>3. \A n \in 1..Len(out) : f[n] \in K \cap DOMAIN s /\ out[n] = s[f[n]]
  BY <1>2 DEF IsSelection
<1> QED BY <1>1, <1>3 DEF out

(* A function on 1..n is a sequence of its own values.                     *)
LEMMA ListsAreSequences ==
  ASSUME NEW n \in Nat, NEW s, s = [i \in 1..n |-> s[i]]
  PROVE  s \in Seq({s[i] : i \in 1..n}) /\ Len(s) = n
<1> DEFINE S == {s[i] : i \in 1..n}
<1>1. [i \in 1..n |-> s[i]] \in [1..n -> S]
  OBVIOUS
<1>2. s \in [1..n -> S]
  BY <1>1
<1> HIDE DEF S
<1>3. s \in Seq(S) /\ Len(s) = n
  BY <1>2
<1> QED BY <1>3 DEF S

(* Whatever the verdicts on the rows that can be scored are, one on each   *)
(* and the ones set aside judge every row of the run once.                 *)
LEMMA JudgeKeeps ==
  ASSUME RagIInv, SemanticCommand, NEW late, Judge(late),
         late = [n \in 1..Len(Prepared) |-> late[n]],
         \A n \in 1..Len(Prepared) : /\ late[n].id = Prepared[n].id
                                     /\ late[n].answer = Prepared[n].answer
                                     /\ late[n].status # "skipped_not_applicable"
  PROVE  RagIInv'
<1> DEFINE asked == command.input.golden
           answers == command.rows
           O == DOMAIN answers \ Scorable
           early == Select(answers, O)
           aside == [i \in DOMAIN early |-> SetAside(early[i])]
           all == aside \o late
<1>1. /\ command.stage = "judging" /\ command' = [command EXCEPT !.stage = "scored", !.judged = ByCase(all)]
      /\ UNCHANGED <<goldenFiles, artifact, evalRuns, commands, writers>>
  BY DEF Judge, AtStage
<1>2. IsLive(command.input) /\ answers = command.input.cases[2] /\ command.verified
  BY <1>1 DEF SemanticCommand
<1>3. answers \in Seq(LiveRows) /\ UniqueIds(answers)
  BY <1>2, LiveIdsAreUnique
<1>4. /\ Prepared \in Seq(LiveRows)
      /\ \A n \in 1..Len(Prepared) : \E k \in Scorable \cap DOMAIN answers : Prepared[n] = answers[k]
  BY <1>3, SelectedAreThere DEF Prepared
<1>5. /\ early \in Seq(LiveRows)
      /\ \A n \in 1..Len(early) : \E k \in O \cap DOMAIN answers : early[n] = answers[k]
  <2> HIDE DEF O, answers
  <2> QED BY <1>3, SelectedAreThere
<1>6. \A id : CaseOf(id) = CaseIn(asked, id)
  BY DEF CaseOf, CaseIn
<1>7. Scorable \in SUBSET DOMAIN answers
  BY DEF Scorable
<1>8. \A k \in DOMAIN answers :
        /\ k \in Scorable => ~Skipped(CaseOf(answers[k].id)) /\ answers[k].chunks # <<>>
  BY DEF Scorable, SampleFails
<1>9. ASSUME NEW n \in 1..Len(Prepared) PROVE IsAbout(asked, Prepared[n], late[n])
  <2>1. PICK k \in Scorable \cap DOMAIN answers : Prepared[n] = answers[k]
    BY <1>4
  <2>2. ~Skipped(CaseIn(asked, Prepared[n].id)) /\ Prepared[n].chunks # <<>>
    BY <1>6, <1>8, <2>1
  <2> HIDE DEF asked, answers
  <2> QED BY <2>2 DEF IsAbout
<1> DEFINE E == Len(early)
<1>10. E \in Nat /\ DOMAIN early = 1..E
  <2> HIDE DEF early
  <2> QED BY <1>5
<1>11. ASSUME NEW n \in 1..E PROVE IsAbout(asked, early[n], aside[n])
  <2> DEFINE row == early[n]
  <2>1. aside[n] = SetAside(row)
    BY <1>10
  <2>2. /\ SetAside(row).id = row.id /\ SetAside(row).answer = row.answer
        /\ SetAside(row).status = IF Skipped(CaseIn(asked, row.id)) THEN "skipped_not_applicable" ELSE "input_error"
    <3> HIDE DEF row
    <3> QED BY <1>6 DEF SetAside, SemanticRow
  <2> HIDE DEF row, asked, aside
  <2>3. IsAbout(asked, row, aside[n])
    BY <2>1, <2>2 DEF IsAbout
  <2> QED BY <2>3 DEF row
<1> DEFINE P == Len(Prepared)
           S == {aside[i] : i \in 1..E} \cup {late[i] : i \in 1..P}
<1>12. late \in Seq(S) /\ Len(late) = P
  <2>1. P \in Nat
    BY <1>4
  <2>2. late \in Seq({late[i] : i \in 1..P}) /\ Len(late) = P
    <3> HIDE DEF P
    <3> QED BY <2>1, ListsAreSequences DEF P
  <2> HIDE DEF P, aside, E
  <2> QED BY <2>2
<1>13. aside \in Seq(S) /\ Len(aside) = E
  <2>1. aside = [i \in 1..E |-> aside[i]]
    BY <1>10
  <2> HIDE DEF aside, E
  <2>2. aside \in Seq({aside[i] : i \in 1..E}) /\ Len(aside) = E
    BY <1>10, <2>1, ListsAreSequences
  <2> HIDE DEF P
  <2> QED BY <2>2
<1>14. WellJudged(asked, answers, ByCase(all))
  <2>1. Prepared = Select(answers, Scorable)
    BY DEF Prepared
  <2> DEFINE K == Scorable
  <2>2. K \in SUBSET DOMAIN answers /\ early = Select(answers, DOMAIN answers \ K) /\ Prepared = Select(answers, K)
    BY <1>7, <2>1
  <2>3. \A n \in 1..Len(aside) : IsAbout(asked, early[n], aside[n])
    BY <1>11, <1>13
  <2>4. \A n \in 1..Len(late) : IsAbout(asked, Prepared[n], late[n])
    BY <1>9, <1>12
  <2> HIDE DEF K, answers, asked, early, aside, S
  <2> QED BY <1>3, <1>12, <1>13, <2>2, <2>3, <2>4, BothPartsPair DEF E, P
<1> HIDE DEF all, S, P, E
<1>15. command' = [stage |-> "scored", kind |-> "semantic", run |-> command.run,
                   source |-> command.source, input |-> command.input, rows |-> command.rows,
                   verified |-> command.verified, judged |-> ByCase(all)]
  <2> DEFINE judged == ByCase(all)
             stage == command.stage
             run == command.run
             source == command.source
             input == command.input
             verified == command.verified
             old == command.judged
  <2>1. /\ command = [stage |-> stage, kind |-> "semantic", run |-> run, source |-> source, input |-> input,
                      rows |-> answers, verified |-> verified, judged |-> old]
        /\ command' = [command EXCEPT !.stage = "scored", !.judged = judged]
    BY <1>1 DEF SemanticCommand
  <2> HIDE DEF judged, stage, run, source, input, answers, verified, old
  <2>2. command' = [[command EXCEPT !.stage = "scored"] EXCEPT !.judged = judged]
    BY <2>1
  <2>3. [command EXCEPT !.stage = "scored"] =
          [stage |-> "scored", kind |-> "semantic", run |-> run, source |-> source, input |-> input,
           rows |-> answers, verified |-> verified, judged |-> old]
    BY <2>1
  <2>4. command' = [stage |-> "scored", kind |-> "semantic", run |-> run, source |-> source, input |-> input,
                    rows |-> answers, verified |-> verified, judged |-> judged]
    BY <2>2, <2>3
  <2> QED BY <2>4 DEF judged, run, source, input, answers, verified
<1>16. SemanticCommand'
  <2> DEFINE judged == ByCase(all)
  <2>1. WellJudged(command.input.golden, command.rows, judged)
    BY <1>14
  <2> HIDE DEF judged, early, aside, O, asked, answers
  <2> QED BY <1>1, <1>2, <1>15, <2>1 DEF SemanticCommand, judged, answers
<1>17. goldenFiles' = [q \in RunIds |-> goldenFiles'[q]]
  BY <1>1 DEF RagIInv, RagTyped
<1> QED BY <1>1, <1>16, <1>17, CommandAlone DEF CommandIsSound

(* As many verdicts as samples, whatever the backend returns.              *)
LEMMA BackendKeeps ==
  ASSUME RagIInv,
         \/ \E outputs : BackendReturns(outputs)
         \/ \E status \in FailureStatuses : BackendRaises(status)
         \/ NothingToJudge
  PROVE  RagIInv'
<1>1. SemanticCommand
  <2>1. AtStage("judging")
    BY DEF BackendReturns, BackendRaises, NothingToJudge, Judge
  <2> QED BY <2>1, KindOfCommand DEF RagIInv
<1> DEFINE N == Len(Prepared)
           Answers(late) == /\ late = [n \in 1..N |-> late[n]]
                         /\ \A n \in 1..N : /\ late[n].id = Prepared[n].id
                                            /\ late[n].answer = Prepared[n].answer
                                            /\ late[n].status # "skipped_not_applicable"
<1>2. ASSUME NEW late, Judge(late), Answers(late) PROVE RagIInv'
  BY <1>1, <1>2, JudgeKeeps
<1>3. command.rows \in Seq(LiveRows)
  <2>1. command.verified
    BY <1>1 DEF BackendReturns, BackendRaises, NothingToJudge, Judge, AtStage, SemanticCommand
  <2> QED BY <1>1, <2>1, LiveIdsAreUnique DEF SemanticCommand
<1>4. Prepared \in Seq(LiveRows) /\ N \in Nat /\ DOMAIN Prepared = 1..N
  <2>1. Prepared \in Seq(LiveRows)
    BY <1>3, SelectedAreThere DEF Prepared
  <2> QED BY <2>1
<1>5. ASSUME NEW status \in FailureStatuses PROVE Answers(FailureRows(Prepared, status))
  <2>1. FailureRows(Prepared, status) = [n \in 1..N |-> SemanticRow(Prepared[n], status, None)]
    BY <1>4 DEF FailureRows
  <2>2. \A n \in 1..N : FailureRows(Prepared, status)[n] = SemanticRow(Prepared[n], status, None)
    BY <2>1
  <2> QED BY <2>1, <2>2 DEF SemanticRow, FailureStatuses
<1>6. ASSUME NEW outputs PROVE Answers(CompletedRows(Prepared, outputs, N))
  <2> DEFINE late == CompletedRows(Prepared, outputs, N)
  <2>1. late = [n \in 1..N |-> CompletedRow(Prepared[n], outputs[n])]
    BY DEF CompletedRows
  <2>2. \A n \in 1..N : late[n] = CompletedRow(Prepared[n], outputs[n])
    BY <2>1
  <2> QED BY <2>1, <2>2 DEF CompletedRow, SemanticRow
<1>7. CASE \E outputs : BackendReturns(outputs)
  <2>1. PICK outputs : BackendReturns(outputs)
    BY <1>7
  <2>2. Judge(Judged(outputs))
    BY <2>1 DEF BackendReturns
  <2>3. Answers(Judged(outputs))
    <3>1. "remote_execution_error" \in FailureStatuses
      BY DEF FailureStatuses
    <3> HIDE DEF Answers
    <3>2. Judged(outputs) = CompletedRows(Prepared, outputs, N) \/ Judged(outputs) = FailureRows(Prepared, "remote_execution_error")
      BY DEF Judged
    <3> QED BY <1>5, <1>6, <3>1, <3>2
  <2> HIDE DEF Answers
  <2> QED BY <1>2, <2>2, <2>3
<1>8. CASE \E status \in FailureStatuses : BackendRaises(status)
  <2> HIDE DEF Answers
  <2> QED BY <1>2, <1>5, <1>8 DEF BackendRaises
<1>9. CASE NothingToJudge
  <2>1. Answers(<<>>)
    BY <1>9 DEF NothingToJudge
  <2> HIDE DEF Answers
  <2> QED BY <1>2, <1>9, <2>1 DEF NothingToJudge
<1> QED BY <1>7, <1>8, <1>9

(* The manifest of a semantic run names the run whose rows it judged.      *)
LEMMA WriteSemanticManifestKeeps == RagIInv /\ WriteSemanticManifest => RagIInv'
<1> SUFFICES ASSUME RagIInv, WriteSemanticManifest PROVE RagIInv'
  OBVIOUS
<1> DEFINE run == command.run
           a == artifact[run]
           new == artifact'[run]
           m == [kind |-> "semantic", source |-> command.source, verified |-> command.verified,
                 sourceManifest |-> command.input]
<1>1. /\ command.stage = "scored" /\ FirstWrite /\ Goto("cases")
      /\ Write("manifest", [kind |-> "semantic", source |-> command.source, verified |-> command.verified,
                            sourceManifest |-> artifact[command.source].manifest])
  BY DEF WriteSemanticManifest, AtStage
<1>2. SemanticCommand
  BY <1>1, KindOfCommand DEF RagIInv, WriteSemanticManifest, NoCommand
<1>3. run \in RunIds /\ artifact[command.source].manifest = command.input
  BY <1>1, <1>2 DEF SemanticCommand
<1>4. /\ artifact' = [r \in RunIds |-> artifact'[r]]
      /\ \A r \in RunIds : r # run => artifact'[r] = artifact[r]
      /\ new = [manifest |-> new.manifest, cases |-> new.cases, summary |-> new.summary]
      /\ new.manifest = m /\ new.cases = a.cases /\ new.summary = a.summary
  <2>1. Write("manifest", m)
    BY <1>1, <1>3
  <2> HIDE DEF m
  <2> QED BY <1>3, <2>1, Written DEF RagIInv
<1>5. /\ writers' \in [RunIds -> {"none", "one", "more"}]
      /\ \A r \in RunIds : r # run => writers'[r] = writers[r]
      /\ writers'[run] # "none"
      /\ writers'[run] = "one" => a = NoArtifact
  BY <1>1, <1>3, CountedAsWriter DEF RagIInv
<1>6. writers'[run] = "one" => new.cases = None /\ new.summary = None
  BY <1>4, <1>5 DEF NoArtifact
<1>7. UNCHANGED <<goldenFiles, evalRuns>>
  BY <1>1 DEF Write
<1>8. command' = [stage |-> "cases", kind |-> "semantic", run |-> run, source |-> command.source,
                  input |-> command.input, rows |-> command.rows, verified |-> command.verified,
                  judged |-> command.judged]
  BY <1>1, <1>2, GoesOn
<1>9. SemanticCommand'
  <2>1. /\ command.source \in RunIds /\ command.verified \in BOOLEAN
        /\ command.verified => /\ IsLive(command.input) /\ command.rows = command.input.cases[2]
                               /\ WellJudged(command.input.golden, command.rows, command.judged)
    BY <1>1, <1>2 DEF SemanticCommand
  <2>2. new.manifest = m
    BY <1>4
  <2> HIDE DEF new
  <2> QED BY <1>3, <1>5, <1>6, <1>8, <2>1, <2>2 DEF SemanticCommand, new
<1>10. new.manifest.kind = "semantic"
  BY <1>4
<1>11. writers'[run] = "one" => OneRun(new)
  <2>1. command.verified => IsLive(command.input)
    BY <1>2 DEF SemanticCommand
  <2>2. new.manifest.verified = command.verified /\ new.manifest.sourceManifest = command.input
    BY <1>4
  <2> HIDE DEF m, new
  <2> QED BY <1>6, <1>10, <2>1, <2>2 DEF OneRun
<1> HIDE DEF run, a, new, m
<1> QED BY <1>3, <1>4, <1>5, <1>7, <1>9, <1>10, <1>11, WriterAlone DEF CommandIsSound, run, new

(* Its rows are the verdicts.                                              *)
LEMMA WriteSemanticCasesKeeps == RagIInv /\ WriteSemanticCases => RagIInv'
<1> SUFFICES ASSUME RagIInv, WriteSemanticCases PROVE RagIInv'
  OBVIOUS
<1> DEFINE run == command.run
           a == artifact[run]
           new == artifact'[run]
           verdicts == <<"semantic", command.judged>>
<1>1. command.stage = "cases" /\ Write("cases", verdicts) /\ UNCHANGED writers /\ Goto("summary")
  BY DEF WriteSemanticCases, AtStage
<1>2. SemanticCommand
  BY <1>1, KindOfCommand DEF RagIInv, WriteSemanticCases
<1> DEFINE m == [kind |-> "semantic", source |-> command.source, verified |-> command.verified,
                 sourceManifest |-> command.input]
<1>3. /\ run \in RunIds /\ writers[run] # "none"
      /\ writers[run] = "one" => a.manifest = m /\ a.summary = None
  BY <1>1, <1>2 DEF SemanticCommand
<1>4. /\ artifact' = [r \in RunIds |-> artifact'[r]]
      /\ \A r \in RunIds : r # run => artifact'[r] = artifact[r]
      /\ new = [manifest |-> new.manifest, cases |-> new.cases, summary |-> new.summary]
      /\ new.manifest = a.manifest /\ new.cases = verdicts /\ new.summary = a.summary
  <2> HIDE DEF verdicts
  <2> QED BY <1>1, <1>3, Written DEF RagIInv
<1>5. /\ writers' \in [RunIds -> {"none", "one", "more"}]
      /\ \A r \in RunIds : r # run => writers'[r] = writers[r]
  BY <1>1 DEF RagIInv, RagTyped
<1>6. a.manifest = None \/ IsLive(a.manifest) \/ a.manifest.kind = "semantic"
  BY <1>3 DEF RagIInv, ArtifactsAreSound
<1>7. UNCHANGED <<goldenFiles, evalRuns>>
  BY <1>1 DEF Write
<1>8. command' = [stage |-> "summary", kind |-> "semantic", run |-> run, source |-> command.source,
                  input |-> command.input, rows |-> command.rows, verified |-> command.verified,
                  judged |-> command.judged]
  BY <1>1, <1>2, GoesOn
<1>9. /\ command.source \in RunIds /\ command.verified \in BOOLEAN
      /\ command.verified => /\ IsLive(command.input) /\ command.rows = command.input.cases[2]
                             /\ WellJudged(command.input.golden, command.rows, command.judged)
  BY <1>1, <1>2 DEF SemanticCommand
<1>10. SemanticCommand'
  <2>1. new.cases = <<"semantic", command.judged>>
    BY <1>4
  <2> HIDE DEF new, verdicts
  <2> QED BY <1>1, <1>3, <1>4, <1>8, <1>9, <2>1 DEF SemanticCommand, new
<1>11. writers[run] = "one" => OneRun(new)
  <2> SUFFICES ASSUME writers[run] = "one" PROVE OneRun(new)
    OBVIOUS
  <2>1. /\ new.manifest.kind = "semantic" /\ new.manifest.verified = command.verified
        /\ new.manifest.sourceManifest = command.input /\ new.summary = None
    BY <1>3, <1>4
  <2>2. new.cases = <<"semantic", new.cases[2]>> /\ new.cases[2] = command.judged
    BY <1>4
  <2> HIDE DEF new
  <2> QED BY <1>9, <2>1, <2>2 DEF OneRun
<1> HIDE DEF run, a, new, m, verdicts
<1> QED BY <1>1, <1>3, <1>4, <1>5, <1>6, <1>7, <1>10, <1>11, WriterAlone DEF CommandIsSound, run, new

(* Its summary is about these rows, and ends it.                           *)
LEMMA WriteSemanticSummaryKeeps == RagIInv /\ WriteSemanticSummary => RagIInv'
<1> SUFFICES ASSUME RagIInv, WriteSemanticSummary PROVE RagIInv'
  OBVIOUS
<1> DEFINE run == command.run
           a == artifact[run]
           new == artifact'[run]
           verdicts == <<"semantic", command.judged>>
<1>1. command.stage = "summary" /\ Write("summary", verdicts) /\ UNCHANGED writers /\ command' = NoCommand
  BY DEF WriteSemanticSummary, AtStage
<1>2. SemanticCommand
  BY <1>1, KindOfCommand DEF RagIInv, WriteSemanticSummary, NoCommand
<1> DEFINE m == [kind |-> "semantic", source |-> command.source, verified |-> command.verified,
                 sourceManifest |-> command.input]
<1>3. /\ run \in RunIds /\ writers[run] # "none"
      /\ writers[run] = "one" => a.manifest = m /\ a.cases = verdicts
  BY <1>1, <1>2 DEF SemanticCommand
<1>4. /\ artifact' = [r \in RunIds |-> artifact'[r]]
      /\ \A r \in RunIds : r # run => artifact'[r] = artifact[r]
      /\ new = [manifest |-> new.manifest, cases |-> new.cases, summary |-> new.summary]
      /\ new.manifest = a.manifest /\ new.cases = a.cases /\ new.summary = verdicts
  <2> HIDE DEF verdicts
  <2> QED BY <1>1, <1>3, Written DEF RagIInv
<1>5. /\ writers' \in [RunIds -> {"none", "one", "more"}]
      /\ \A r \in RunIds : r # run => writers'[r] = writers[r]
  BY <1>1 DEF RagIInv, RagTyped
<1>6. a.manifest = None \/ IsLive(a.manifest) \/ a.manifest.kind = "semantic"
  BY <1>3 DEF RagIInv, ArtifactsAreSound
<1>7. UNCHANGED <<goldenFiles, evalRuns>>
  BY <1>1 DEF Write
<1>8. CommandIsSound'
  BY <1>1 DEF CommandIsSound, NoCommand
<1>9. writers[run] = "one" => OneRun(new)
  <2> SUFFICES ASSUME writers[run] = "one" PROVE OneRun(new)
    OBVIOUS
  <2>1. /\ new.manifest.kind = "semantic" /\ new.manifest.verified = command.verified
        /\ new.manifest.sourceManifest = command.input /\ new.summary = new.cases
    BY <1>3, <1>4
  <2>2. new.cases = <<"semantic", new.cases[2]>> /\ new.cases[2] = command.judged
    BY <1>3, <1>4
  <2>3. command.verified => /\ IsLive(command.input)
                            /\ WellJudged(command.input.golden, command.input.cases[2], command.judged)
    BY <1>1, <1>2 DEF SemanticCommand
  <2> HIDE DEF new
  <2> QED BY <2>1, <2>2, <2>3 DEF OneRun
<1> HIDE DEF run, a, new, m, verdicts
<1> QED BY <1>1, <1>3, <1>4, <1>5, <1>6, <1>7, <1>8, <1>9, WriterAlone DEF run, new

(* What is registered was read from the artifact of one run, if one        *)
(* command wrote it.                                                       *)
LEMMA RegisterRunKeeps ==
  ASSUME RagIInv, NEW r \in RunIds, RegisterRun(r)
  PROVE  RagIInv'
<1> DEFINE a == artifact[r]
           e == [manifest |-> a.manifest, rows |-> a.cases, summary |-> a.summary,
                 verdicts |-> Verdicts(a.cases), dataset |-> DatasetVersion(a.manifest),
                 writers |-> writers[r]]
<1>1. /\ UNCHANGED <<goldenFiles, artifact, command, writers>> /\ Readable(a)
      /\ evalRuns' = IF evalRuns[r] # None THEN evalRuns ELSE [evalRuns EXCEPT ![r] = e]
  BY DEF RegisterRun
<1>2. Registered(e)
  <2> SUFFICES ASSUME writers[r] = "one" PROVE Registered(e)
    BY DEF Registered
  <2>1. OneRun(a)
    BY DEF RagIInv, ArtifactsAreSound
  <2>2. /\ a.manifest # None /\ a.manifest.kind = "semantic" /\ a.manifest.verified
        /\ a.summary # None /\ a.cases # None
    BY <1>1 DEF Readable
  <2>3. /\ IsLive(a.manifest.sourceManifest) /\ a.cases = <<"semantic", a.cases[2]>> /\ a.summary = a.cases
        /\ WellJudged(a.manifest.sourceManifest.golden, a.manifest.sourceManifest.cases[2], a.cases[2])
    <3> HIDE DEF a
    <3> QED BY <2>1, <2>2 DEF OneRun
  <2>4. Verdicts(a.cases) = [id \in DOMAIN a.cases[2] |-> Verdict(a.cases[2][id][1])]
    <3>1. a.cases[1] # "live"
      <4> HIDE DEF a
      <4> QED BY <2>3
    <3> QED BY <3>1 DEF Verdicts
  <2>5. /\ e.manifest = a.manifest /\ e.rows = a.cases /\ e.summary = a.summary
        /\ e.verdicts = Verdicts(a.cases)
    OBVIOUS
  <2> HIDE DEF e, a
  <2> QED BY <2>3, <2>4, <2>5 DEF Registered
<1> HIDE DEF e, a
<1>3. RagTyped'
  BY <1>1 DEF RagIInv, RagTyped
<1>4. RunsAreRegistered'
  <2> SUFFICES ASSUME NEW q \in RunIds PROVE evalRuns'[q] = None \/ Registered(evalRuns'[q])
    BY DEF RunsAreRegistered
  <2>1. evalRuns[q] = None \/ Registered(evalRuns[q])
    BY DEF RagIInv, RunsAreRegistered
  <2>2. evalRuns'[q] = evalRuns[q] \/ evalRuns'[q] = e
    BY <1>1 DEF RagIInv, RagTyped
  <2> QED BY <1>2, <2>1, <2>2
<1>5. CommandIsSound'
  BY <1>1 DEF RagIInv, CommandIsSound, LiveCommand, SemanticCommand
<1>6. ArtifactsAreSound'
  BY <1>1 DEF RagIInv, ArtifactsAreSound
<1> QED BY <1>3, <1>4, <1>5, <1>6 DEF RagIInv

-----------------------------------------------------------------------------
(* Every step keeps the invariant.                                         *)
LEMMA RagStep == RagIInv /\ [RagNext]_ragVars => RagIInv'
<1> SUFFICES ASSUME RagIInv, [RagNext]_ragVars PROVE RagIInv'
  OBVIOUS
<1>1. CASE \E r \in RunIds, g \in Goldens, build \in IndexBuilds \cup {None} : BeginLive(r, g, build)
  BY <1>1, BeginLiveKeeps
<1>2. CASE \E response \in Responses : AskSystem(response)
  BY <1>2, AskSystemKeeps
<1>3. CASE \E source, r \in RunIds : BeginSemantic(source, r)
  BY <1>3, BeginSemanticKeeps
<1>4. CASE \/ AtStage("judging") /\ \E outputs \in BoundedSeq(Outputs, Len(Prepared) + 1) : BackendReturns(outputs)
           \/ AtStage("judging") /\ \E status \in FailureStatuses : BackendRaises(status)
           \/ AtStage("judging") /\ NothingToJudge
  BY <1>4, BackendKeeps
<1>5. CASE \E r \in RunIds : RegisterRun(r)
  BY <1>5, RegisterRunKeeps
<1>6. CASE UNCHANGED ragVars
  <2>1. UNCHANGED <<goldenFiles, artifact, evalRuns, command, writers>>
    BY <1>6 DEF ragVars
  <2>2. CommandIsSound'
    BY <2>1 DEF RagIInv, CommandIsSound, LiveCommand, SemanticCommand
  <2>3. goldenFiles' = [r \in RunIds |-> goldenFiles'[r]]
    BY <2>1 DEF RagIInv, RagTyped
  <2> QED BY <2>1, <2>2, <2>3, CommandAlone
<1> QED BY <1>1, <1>2, <1>3, <1>4, <1>5, <1>6, CaptureKeeps, DiesKeeps, WriteLiveCasesKeeps,
           WriteLiveManifestKeeps, WriteLiveSummaryKeeps, WriteSemanticManifestKeeps,
           WriteSemanticCasesKeeps, WriteSemanticSummaryKeeps DEF RagNext

(* The invariant holds always.                                             *)
LEMMA RagAlwaysSound == RagSpec => []RagIInv
<1> QED BY RagInitially, RagStep, PTL DEF RagSpec

(* A semantic run has one verdict on every row of the live run, about the  *)
(* answer of that row, and scores only cases that can be scored: for any   *)
(* golden sets, responses, outputs of the judge and number of commands.    *)
THEOREM EveryCaseAlwaysHasOneVerdict == RagSpec => []EveryCaseHasOneVerdict
<1>1. ASSUME RagIInv PROVE EveryCaseHasOneVerdict
  <2> SUFFICES ASSUME command # NoCommand, command.kind = "semantic", command.verified, ~AtStage("judging")
      PROVE  /\ DOMAIN command.judged = {command.input.cases[2][i].id : i \in DOMAIN command.input.cases[2]}
             /\ \A i \in DOMAIN command.input.cases[2] :
                  LET row == command.input.cases[2][i]
                      verdicts == command.judged[row.id]
                  IN  /\ Len(verdicts) = 1
                      /\ verdicts[1].answer = row.answer
                      /\ verdicts[1].status = "completed" =>
                           ~CaseOf(row.id).unanswerable /\ row.chunks # <<>>
    BY DEF EveryCaseHasOneVerdict
  <2>1. SemanticCommand
    BY <1>1, KindOfCommand DEF RagIInv
  <2>2. WellJudged(command.input.golden, command.input.cases[2], command.judged)
    BY <2>1 DEF SemanticCommand, AtStage
  <2>3. ASSUME NEW row, NEW verdict, IsAbout(command.input.golden, row, verdict)
        PROVE  /\ verdict.answer = row.answer
               /\ verdict.status = "completed" => ~CaseOf(row.id).unanswerable /\ row.chunks # <<>>
    <3>1. CaseOf(row.id) = CaseIn(command.input.golden, row.id)
      BY DEF CaseOf, CaseIn
    <3> QED BY <2>3, <3>1 DEF IsAbout, Skipped
  <2> DEFINE asked == command.input.golden
             answers == command.input.cases[2]
             judged == command.judged
  <2>4. DOMAIN judged = {answers[i].id : i \in DOMAIN answers}
    BY <2>2 DEF WellJudged
  <2>5. ASSUME NEW i \in DOMAIN answers
        PROVE  LET row == answers[i]
                   verdicts == judged[row.id]
               IN  /\ Len(verdicts) = 1
                   /\ verdicts[1].answer = row.answer
                   /\ verdicts[1].status = "completed" =>
                        ~CaseOf(row.id).unanswerable /\ row.chunks # <<>>
    <3> HIDE DEF asked, answers, judged
    <3>1. Len(judged[answers[i].id]) = 1 /\ IsAbout(asked, answers[i], judged[answers[i].id][1])
      BY <2>2 DEF WellJudged, asked, answers, judged
    <3> QED BY <2>3, <3>1 DEF asked
  <2> QED BY <2>4, <2>5
<1> QED BY <1>1, RagAlwaysSound, PTL

(* What is registered of an artifact that only one command wrote to is of  *)
(* one run that came to its end: its verdicts are about the answers of one *)
(* published release to the golden cases that the manifest names.          *)
THEOREM RegisteredRunsAreAlwaysWhole == RagSpec => []RegisteredRunsAreWhole
<1>1. ASSUME RagIInv PROVE RegisteredRunsAreWhole
  <2> SUFFICES ASSUME NEW r \in RunIds, evalRuns[r] # None, evalRuns[r].writers = "one"
      PROVE  LET source == evalRuns[r].manifest.sourceManifest
                 found  == evalRuns[r].rows[2]
             IN  /\ evalRuns[r].summary = evalRuns[r].rows
                 /\ source.kind = "live" /\ source.build \in Published
                 /\ DOMAIN found = {case.id : case \in Range(source.golden)}
                 /\ \A case \in Range(source.golden) :
                      evalRuns[r].verdicts[case.id] = "skipped" <=> Skipped(case)
                 /\ \A i \in DOMAIN source.cases[2] :
                      LET row == source.cases[2][i]
                      IN  row.build \in {source.build, None} /\ found[row.id][1].answer = row.answer
    BY DEF RegisteredRunsAreWhole
  <2> DEFINE e == evalRuns[r]
             source == e.manifest.sourceManifest
             asked == source.golden
             answers == source.cases[2]
             found == e.rows[2]
  <2>1. /\ e.summary = e.rows /\ IsLive(source) /\ WellJudged(asked, answers, found)
        /\ e.verdicts = [id \in DOMAIN found |-> Verdict(found[id][1])]
    <3>1. Registered(e)
      BY <1>1 DEF RagIInv, RunsAreRegistered
    <3> QED BY <3>1 DEF Registered
  <2> HIDE DEF e, found
  <2>2. /\ source.kind = "live" /\ source.build \in Published
        /\ asked \in Seq(AllCases) /\ UniqueIds(asked) /\ answers \in Seq(LiveRows)
        /\ Len(answers) = Len(asked)
        /\ \A i \in 1..Len(asked) : answers[i].id = asked[i].id /\ answers[i].build \in {source.build, None}
    BY <2>1 DEF IsLive
  <2> HIDE DEF source
  <2>3. DOMAIN answers = 1..Len(asked) /\ DOMAIN asked = 1..Len(asked)
    BY <2>2
  <2> HIDE DEF asked, answers
  <2>4. /\ DOMAIN found = {answers[i].id : i \in DOMAIN answers}
        /\ \A i \in DOMAIN answers : IsAbout(asked, answers[i], found[answers[i].id][1])
    BY <2>1 DEF WellJudged
  <2>5. Range(asked) = {asked[i] : i \in 1..Len(asked)}
    BY <2>3 DEF Range
  <2>6. DOMAIN found = {case.id : case \in Range(asked)}
    <3> DEFINE ids == {asked[i].id : i \in 1..Len(asked)}
    <3>1. {case.id : case \in Range(asked)} = ids
      BY <2>5
    <3>2. {answers[i].id : i \in DOMAIN answers} = ids
      BY <2>2, <2>3
    <3> QED BY <2>4, <3>1, <3>2
  <2>7. ASSUME NEW case \in Range(asked) PROVE e.verdicts[case.id] = "skipped" <=> Skipped(case)
    <3>1. PICK i \in 1..Len(asked) : case = asked[i]
      BY <2>5
    <3>2. CaseIn(asked, case.id) = case
      <4>1. \A other \in Range(asked) : other.id = case.id => other = case
        BY <2>2, <2>3, <2>5, <3>1 DEF UniqueIds
      <4>2. CaseIn(asked, case.id) \in Range(asked) /\ CaseIn(asked, case.id).id = case.id
        BY DEF CaseIn
      <4> QED BY <4>1, <4>2
    <3> DEFINE verdict == found[case.id][1]
    <3>3. IsAbout(asked, answers[i], verdict) /\ answers[i].id = case.id
      BY <2>2, <2>3, <2>4, <3>1
    <3>4. e.verdicts[case.id] = Verdict(verdict)
      BY <2>1, <2>6
    <3>5. verdict.status = "skipped_not_applicable" <=> Skipped(case)
      <4> HIDE DEF verdict
      <4> QED BY <3>2, <3>3 DEF IsAbout
    <3> HIDE DEF verdict
    <3>6. Verdict(verdict) = "skipped" <=> verdict.status = "skipped_not_applicable"
      <4>1. CASE verdict.status = "completed"
        <5>1. Verdict(verdict) \in {"passed", "failed", "unknown"}
          BY <4>1 DEF Verdict
        <5> QED BY <4>1, <5>1
      <4>2. CASE verdict.status = "skipped_not_applicable"
        BY <4>2 DEF Verdict
      <4>3. CASE verdict.status \notin {"completed", "skipped_not_applicable"}
        BY <4>3 DEF Verdict
      <4> QED BY <4>1, <4>2, <4>3
    <3> QED BY <3>4, <3>5, <3>6
  <2>8. ASSUME NEW i \in DOMAIN answers
        PROVE  answers[i].build \in {source.build, None} /\ found[answers[i].id][1].answer = answers[i].answer
    BY <2>2, <2>3, <2>4 DEF IsAbout
  <2> QED BY <2>1, <2>2, <2>6, <2>7, <2>8 DEF e, source, asked, answers, found
<1> QED BY <1>1, RagAlwaysSound, PTL
=============================================================================
