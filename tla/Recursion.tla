----------------------------- MODULE Recursion -----------------------------
(***************************************************************************)
(* What the proofs need of the natural numbers: induction up to a bound,   *)
(* the existence of what is computed step by step or by recursion on       *)
(* smaller arguments, least and greatest elements.                         *)
(***************************************************************************)
EXTENDS Integers, FiniteSetsExt, FiniteSetTheorems, WellFoundedInduction, TLAPS

(* Induction, as an appeal to the least counterexample.                    *)
LEMMA LeastExists ==
  ASSUME NEW S \in SUBSET Nat, S # {}
  PROVE  \E x \in S : \A y \in S : x <= y
<1> DEFINE R == OpToRel(<, Nat)
<1>1. IsWellFoundedOn(R, Nat)
  BY NatLessThanWellFounded
<1>2. \A x, y \in Nat : <<y, x>> \in R <=> y < x
  BY DEF OpToRel
<1> HIDE DEF R
<1>3. PICK x \in S : \A y \in S : ~ (<<y, x>> \in R)
  BY <1>1, WFMin
<1>4. ASSUME NEW y \in S PROVE x <= y
  <2>1. x \in Nat /\ y \in Nat
    OBVIOUS
  <2>2. ~ (y < x)
    BY <1>2, <1>3, <2>1
  <2> QED BY <2>1, <2>2
<1> QED BY <1>4

(* A set of numbers that has 0, and i with i - 1, has all up to n.         *)
LEMMA UpTo ==
  ASSUME NEW n \in Nat, NEW T, 0 \in T,
         \A i \in 1..n : i - 1 \in T => i \in T
  PROVE  0..n \subseteq T
<1> SUFFICES ASSUME ~ (0..n \subseteq T) PROVE FALSE
  OBVIOUS
<1> DEFINE S == (0..n) \ T
<1>1. S \in SUBSET Nat /\ S # {}
  OBVIOUS
<1>2. PICK x \in S : \A y \in S : x <= y
  BY <1>1, LeastExists
<1>3. x \in 1..n /\ x - 1 \in 0..n /\ ~ (x <= x - 1)
  BY <1>2
<1>4. x - 1 \in T
  BY <1>2, <1>3
<1> QED BY <1>2, <1>3, <1>4

(* What is computed from 0 to n, each value from the one before, exists.   *)
Computable(n, S, base, step) ==
  \E f \in [0..n -> S] : f[0] = base /\ \A i \in 1..n : f[i] = step[i][f[i - 1]]

LEMMA RecursionExists ==
  ASSUME NEW n \in Nat, NEW S, NEW base \in S, NEW step \in [1..n -> [S -> S]]
  PROVE  Computable(n, S, base, step)
<1> DEFINE Computed(m, f) == f[0] = base /\ \A i \in 1..m : f[i] = step[i][f[i - 1]]
           T == {m \in 0..n : \E f \in [0..m -> S] : Computed(m, f)}
<1>1. 0 \in T
  <2>1. [i \in 0..0 |-> base] \in [0..0 -> S]
    OBVIOUS
  <2>2. Computed(0, [i \in 0..0 |-> base])
    OBVIOUS
  <2> HIDE DEF Computed
  <2>3. \E f \in [0..0 -> S] : Computed(0, f)
    BY <2>1, <2>2
  <2> QED BY <2>3
<1>2. ASSUME NEW m \in 1..n, m - 1 \in T PROVE m \in T
  <2>1. PICK f \in [0..(m - 1) -> S] : Computed(m - 1, f)
    BY <1>2
  <2> DEFINE g == [i \in 0..m |-> IF i = m THEN step[m][f[m - 1]] ELSE f[i]]
  <2>2. f[m - 1] \in S
    BY <2>1
  <2>3. g \in [0..m -> S]
    <3>1. step[m][f[m - 1]] \in S
      BY <2>2
    <3>2. ASSUME NEW i \in 0..m PROVE g[i] \in S
      BY <2>1, <3>1
    <3> QED BY <3>2
  <2>4. Computed(m, g)
    <3>1. g[0] = base
      BY <2>1
    <3>2. ASSUME NEW i \in 1..m PROVE g[i] = step[i][g[i - 1]]
      <4>1. g[i - 1] = f[i - 1]
        OBVIOUS
      <4>2. CASE i = m
        <5>1. g[m] = step[m][f[m - 1]]
          OBVIOUS
        <5> HIDE DEF g
        <5> QED BY <4>1, <4>2, <5>1
      <4>3. CASE i # m
        <5>1. i \in 1..(m - 1) /\ g[i] = f[i]
          BY <4>3
        <5>2. f[i] = step[i][f[i - 1]]
          BY <2>1, <5>1
        <5> HIDE DEF g
        <5> QED BY <4>1, <5>1, <5>2
      <4> QED BY <4>2, <4>3
    <3> QED BY <3>1, <3>2
  <2> HIDE DEF Computed
  <2> QED BY <2>3, <2>4
<1> HIDE DEF Computed
<1>3. 0..n \subseteq T
  <2> HIDE DEF T
  <2> QED BY <1>1, <1>2, UpTo
<1>4. n \in T
  BY <1>3
<1>5. \E f \in [0..n -> S] : Computed(n, f)
  BY <1>4
<1> QED BY <1>5 DEF Computed, Computable

-----------------------------------------------------------------------------
(* A computation of values of arguments that looks only at arguments of a  *)
(* smaller size.                                                           *)
LooksDown(A, R, size, body) ==
  \A a \in A : \A f, g \in [A -> R] :
    (\A b \in A : size[b] < size[a] => f[b] = g[b]) => body[a][f] = body[a][g]
Approximates(A, size, body, n, f) == \A a \in A : size[a] < n => f[a] = body[a][f]
Solvable(A, R, body) == \E f \in [A -> R] : \A a \in A : f[a] = body[a][f]

(* What is computed of the arguments below a size is determined.           *)
LEMMA ApproximationsAgree ==
  ASSUME NEW A, NEW R, NEW size \in [A -> Nat], NEW body, LooksDown(A, R, size, body),
         NEW n \in Nat, NEW f \in [A -> R], NEW g \in [A -> R],
         Approximates(A, size, body, n, f), Approximates(A, size, body, n, g)
  PROVE  \A a \in A : size[a] < n => f[a] = g[a]
<1> DEFINE Differ == {a \in A : size[a] < n /\ f[a] # g[a]}
           S == {size[a] : a \in Differ}
<1> SUFFICES ASSUME Differ # {} PROVE FALSE
  OBVIOUS
<1>1. S \in SUBSET Nat /\ S # {}
  OBVIOUS
<1>2. PICK m \in S : \A k \in S : m <= k
  BY <1>1, LeastExists
<1>3. PICK a \in Differ : m = size[a]
  OBVIOUS
<1>4. ASSUME NEW b \in A, size[b] < size[a] PROVE f[b] = g[b]
  <2>1. size[b] \in Nat /\ size[a] \in Nat /\ size[a] < n
    BY <1>3
  <2>2. ~ (size[b] \in S)
    BY <1>2, <1>3, <1>4, <2>1
  <2> QED BY <1>4, <2>1, <2>2
<1>5. body[a][f] = body[a][g]
  BY <1>3, <1>4 DEF LooksDown
<1>6. f[a] = body[a][f] /\ g[a] = body[a][g]
  BY <1>3 DEF Approximates
<1> QED BY <1>3, <1>5, <1>6

(* Such a computation has a result.                                        *)
LEMMA MeasuredRecursionExists ==
  ASSUME NEW A, NEW R, R # {}, NEW size \in [A -> Nat], NEW body \in [A -> [[A -> R] -> R]],
         LooksDown(A, R, size, body)
  PROVE  Solvable(A, R, body)
<1> DEFINE Near(n, f) == Approximates(A, size, body, n, f)
<1>1. ASSUME NEW n \in Nat PROVE \E f \in [A -> R] : Near(n, f)
  <2> DEFINE T == {k \in Nat : \E f \in [A -> R] : Near(k, f)}
  <2>1. 0 \in T
    <3>1. PICK r : r \in R
      OBVIOUS
    <3>2. [a \in A |-> r] \in [A -> R]
      BY <3>1
    <3>3. Near(0, [a \in A |-> r])
      BY DEF Approximates
    <3> HIDE DEF Near
    <3>4. \E f \in [A -> R] : Near(0, f)
      BY <3>2, <3>3
    <3> QED BY <3>4
  <2>2. ASSUME NEW i \in 1..n, i - 1 \in T PROVE i \in T
    <3>1. PICK f \in [A -> R] : Near(i - 1, f)
      BY <2>2
    <3> DEFINE g == [a \in A |-> body[a][f]]
    <3>2. g \in [A -> R]
      OBVIOUS
    <3>3. ASSUME NEW a \in A, size[a] < i PROVE g[a] = body[a][g]
      <4>1. ASSUME NEW b \in A, size[b] < size[a] PROVE f[b] = g[b]
        <5>1. size[b] < i - 1
          <6>1. size[a] \in Nat /\ size[b] \in Nat
            OBVIOUS
          <6> QED BY <3>3, <4>1, <6>1
        <5>2. f[b] = body[b][f]
          BY <3>1, <5>1 DEF Approximates
        <5> QED BY <5>2
      <4>2. body[a][f] = body[a][g]
        <5> HIDE DEF g
        <5> QED BY <3>2, <4>1 DEF LooksDown
      <4>3. g[a] = body[a][f]
        OBVIOUS
      <4> QED BY <4>2, <4>3
    <3> HIDE DEF g
    <3>4. Near(i, g)
      BY <3>3 DEF Approximates
    <3> HIDE DEF Near
    <3>5. \E h \in [A -> R] : Near(i, h)
      BY <3>2, <3>4
    <3> QED BY <3>5
  <2> HIDE DEF T
  <2>3. 0..n \subseteq T
    BY <2>1, <2>2, UpTo
  <2> USE DEF T
  <2>4. n \in T
    BY <2>3
  <2> QED BY <2>4
<1> DEFINE Result(n) == CHOOSE f \in [A -> R] : Near(n, f)
           f == [a \in A |-> Result(size[a] + 1)[a]]
<1>2. ASSUME NEW n \in Nat PROVE Result(n) \in [A -> R] /\ Near(n, Result(n))
  <2> HIDE DEF Near
  <2> QED BY <1>1
<1> HIDE DEF Result
<1>3. \A a \in A : size[a] \in Nat /\ size[a] + 1 \in Nat
  OBVIOUS
<1>4. f \in [A -> R]
  <2>1. ASSUME NEW a \in A PROVE Result(size[a] + 1)[a] \in R
    BY <1>2, <1>3
  <2> QED BY <2>1
<1>5. ASSUME NEW a \in A PROVE f[a] = body[a][f]
  <2> DEFINE g == Result(size[a] + 1)
  <2>1. g \in [A -> R] /\ Near(size[a] + 1, g)
    BY <1>2, <1>3
  <2>2. f[a] = g[a] /\ g[a] = body[a][g]
    BY <1>3, <2>1 DEF Approximates
  <2> HIDE DEF g
  <2>3. ASSUME NEW b \in A, size[b] < size[a] PROVE f[b] = g[b]
    <3> DEFINE h == Result(size[b] + 1)
    <3>1. h \in [A -> R] /\ Near(size[b] + 1, h)
      BY <1>2, <1>3
    <3>2. f[b] = h[b]
      OBVIOUS
    <3>3. Near(size[b] + 1, g)
      BY <1>3, <2>1, <2>3 DEF Approximates
    <3> HIDE DEF h
    <3> DEFINE n == size[b] + 1
    <3>4. n \in Nat /\ size[b] < n
      BY <1>3
    <3>5. Approximates(A, size, body, n, h) /\ Approximates(A, size, body, n, g)
      BY <3>1, <3>3
    <3> HIDE DEF n
    <3>6. \A c \in A : size[c] < n => h[c] = g[c]
      BY <2>1, <3>1, <3>4, <3>5, ApproximationsAgree
    <3>7. h[b] = g[b]
      BY <3>4, <3>6
    <3> QED BY <3>2, <3>7
  <2> HIDE DEF f
  <2>4. body[a][f] = body[a][g]
    BY <1>4, <2>1, <2>3 DEF LooksDown
  <2> QED BY <2>2, <2>4
<1> HIDE DEF f
<1> QED BY <1>4, <1>5 DEF Solvable

-----------------------------------------------------------------------------
(* A finite set of numbers has a greatest one.                             *)
LEMMA GreatestExists ==
  ASSUME NEW S \in SUBSET Nat, IsFiniteSet(S), S # {}
  PROVE  \E x \in S : \A y \in S : y <= x
<1>1. PICK N \in Nat : \E f : f \in Bijection(1..N, S)
  BY FS_NatBijection DEF ExistsBijection
<1>2. PICK f : f \in Bijection(1..N, S)
  BY <1>1
<1>3. f \in [1..N -> S] /\ \A y \in S : \E n \in 1..N : f[n] = y
  BY <1>2 DEF Bijection, Surjection
<1> DEFINE T == {k \in 0..N : \E B \in Nat : \A n \in 1..k : f[n] <= B}
<1>4. 0 \in T
  OBVIOUS
<1>5. ASSUME NEW k \in 1..N, k - 1 \in T PROVE k \in T
  <2>1. PICK B \in Nat : \A n \in 1..(k - 1) : f[n] <= B
    BY <1>5
  <2>2. \A n \in 1..N : f[n] \in Nat
    BY <1>3
  <2> DEFINE C == B + f[k]
  <2>3. C \in Nat /\ \A n \in 1..k : f[n] <= C
    BY <2>1, <2>2
  <2> HIDE DEF C
  <2> QED BY <2>3
<1>6. 0..N \subseteq T
  <2> HIDE DEF T
  <2> QED BY <1>4, <1>5, UpTo
<1>7. PICK B \in Nat : \A n \in 1..N : f[n] <= B
  BY <1>6
<1>8. \A y \in S : y \in Nat /\ y <= B
  BY <1>3, <1>7
<1> DEFINE D == {B - y : y \in S}
<1>9. D \in SUBSET Nat /\ D # {}
  <2>1. \A y \in S : B - y \in Nat
    BY <1>8
  <2> QED BY <2>1
<1> HIDE DEF D
<1>10. PICK d \in D : \A e \in D : d <= e
  BY <1>9, LeastExists
<1>11. PICK x \in S : d = B - x
  BY DEF D
<1>12. ASSUME NEW y \in S PROVE y <= x
  <2>1. B - y \in D
    BY DEF D
  <2>2. B - x <= B - y
    BY <1>10, <1>11, <2>1
  <2> QED BY <1>8, <2>2
<1> QED BY <1>12

(* The least element of a set is one of it, and least.                     *)
LEMMA MinIsIn ==
  ASSUME NEW S \in SUBSET Nat, S # {}
  PROVE  Min(S) \in S /\ \A y \in S : Min(S) <= y
<1>1. \E x \in S : \A y \in S : x <= y
  BY LeastExists
<1> QED BY <1>1 DEF Min

(* The lesser of two numbers.                                              *)
LEMMA MinOfTwo ==
  ASSUME NEW a \in Nat, NEW b \in Nat
  PROVE  Min({a, b}) = IF a <= b THEN a ELSE b
<1>1. Min({a, b}) \in {a, b} /\ \A y \in {a, b} : Min({a, b}) <= y
  <2>1. {a, b} \in SUBSET Nat /\ {a, b} # {}
    OBVIOUS
  <2> QED BY <2>1, MinIsIn
<1> QED BY <1>1

(* The greater of two numbers.                                             *)
LEMMA MaxOfTwo ==
  ASSUME NEW a \in Nat, NEW b \in Nat
  PROVE  Max({a, b}) = IF a <= b THEN b ELSE a
<1>1. \E x \in {a, b} : \A y \in {a, b} : x >= y
  OBVIOUS
<1>2. Max({a, b}) \in {a, b} /\ \A y \in {a, b} : Max({a, b}) >= y
  BY <1>1 DEF Max
<1> QED BY <1>2
=============================================================================
