----------------------------- MODULE Foundations -----------------------------
(***************************************************************************)
(* What the proofs need that is not about schedulers.  Induction over the  *)
(* naturals and recursive functions on 0 .. n, stated with sets and        *)
(* functions in place of operator parameters, so that the provers can      *)
(* instantiate them; sums; and queues, sequences without duplicates, with  *)
(* the set of their members.                                               *)
(***************************************************************************)
EXTENDS Sums, TLAPS, WellFoundedInduction, SequenceTheorems, FiniteSetTheorems

\* The least-number principle.
LEMMA LeastNatural ==
  ASSUME NEW S, S \subseteq Nat, S # {}
  PROVE  \E m \in S : \A k \in S : m <= k
<1>1. PICK m \in S : \A k \in S : ~(<< k, m >> \in OpToRel(<, Nat))
  BY NatLessThanWellFounded, WFMin, Zenon
<1>2. \A k \in S : ~(k < m)
  BY <1>1 DEF OpToRel
<1> QED
  BY <1>2

\* A set of naturals with a bound has a greatest element.
LEMMA GreatestNatural ==
  ASSUME NEW n \in Nat, NEW S, S \subseteq 0 .. n, S # {}
  PROVE  \E m \in S : \A k \in S : k <= m
<1> DEFINE below == {i \in 0 .. n : n - i \in S}
<1>1. below \subseteq Nat /\ below # {}
  <2>1. PICK k \in S : k \in 0 .. n
    OBVIOUS
  <2>2. n - k \in 0 .. n /\ n - (n - k) = k
    BY <2>1
  <2>3. n - k \in below
    BY <2>2
  <2>4. below \subseteq Nat
    OBVIOUS
  <2> HIDE DEF below
  <2> QED
    BY <2>3, <2>4
<1>2. PICK i \in below : \A j \in below : i <= j
  <2> HIDE DEF below
  <2> QED
    BY <1>1, LeastNatural
<1>3. ASSUME NEW k \in S PROVE k <= n - i
  <2>1. k \in 0 .. n /\ n - k \in 0 .. n /\ n - (n - k) = k
    OBVIOUS
  <2>2. i <= n - k /\ i \in 0 .. n
    BY <1>2, <2>1
  <2> QED
    BY <2>1, <2>2
<1> QED
  BY <1>2, <1>3

\* Induction up to n: S holds the numbers that have the property.
LEMMA UpTo ==
  ASSUME NEW n \in Nat, NEW S, 0 \in S, \A i \in 0 .. n - 1 : i \in S => i + 1 \in S
  PROVE  \A i \in 0 .. n : i \in S
<1> DEFINE rest == (0 .. n) \ S
<1> SUFFICES ASSUME rest # {} PROVE FALSE
  OBVIOUS
<1>1. PICK m \in rest : \A k \in rest : m <= k
  <2>1. rest \subseteq Nat
    OBVIOUS
  <2> HIDE DEF rest
  <2> QED
    BY <2>1, LeastNatural
<1>2. m - 1 \in 0 .. n - 1 /\ m - 1 \in S
  BY <1>1
<1> QED
  BY <1>2

\* Recursion on 0 .. n: a function that starts at base and takes these steps exists.
Follows(f, n, base, step) == f[0] = base /\ \A i \in 1 .. n : f[i] = step[i][f[i - 1]]

LEMMA RecursiveFunction ==
  ASSUME NEW n \in Nat, NEW V, NEW base \in V, NEW step \in [1 .. n -> [V -> V]]
  PROVE  \E f \in [0 .. n -> V] : Follows(f, n, base, step)
<1> DEFINE Part(m, f) == \A i \in 0 .. m : f[i] = IF i = 0 THEN base ELSE step[i][f[i - 1]]
           S == {m \in 0 .. n : \E f \in [0 .. n -> V] : Part(m, f)}
<1>1. 0 \in S
  <2> DEFINE f == [i \in 0 .. n |-> base]
  <2>1. f \in [0 .. n -> V] /\ Part(0, f)
    OBVIOUS
  <2> HIDE DEF f, Part
  <2> QED
    BY <2>1
<1>2. ASSUME NEW m \in 0 .. n - 1, m \in S PROVE m + 1 \in S
  <2>1. PICK f \in [0 .. n -> V] : Part(m, f)
    BY <1>2
  <2> DEFINE v == step[m + 1][f[m]]
             g == [f EXCEPT ![m + 1] = v]
  <2>2. v \in V
    OBVIOUS
  <2> HIDE DEF v
  <2>3. g \in [0 .. n -> V]
    BY <2>2
  <2>4. g[m + 1] = v /\ \A i \in 0 .. m : g[i] = f[i]
    OBVIOUS
  <2> HIDE DEF g
  <2>5. ASSUME NEW i \in 0 .. m + 1
        PROVE  g[i] = IF i = 0 THEN base ELSE step[i][g[i - 1]]
    <3>1. CASE i = m + 1
      BY <2>4, <3>1 DEF v
    <3>2. CASE i \in 0 .. m
      <4>1. i = 0 \/ i - 1 \in 0 .. m
        BY <3>2
      <4> QED
        BY <2>1, <2>4, <3>2, <4>1
    <3> QED
      BY <3>1, <3>2
  <2>6. Part(m + 1, g)
    BY <2>5
  <2> HIDE DEF Part
  <2> QED
    BY <2>3, <2>6
<1>3. n \in S
  <2> HIDE DEF S
  <2>1. \A i \in 0 .. n : i \in S
    BY <1>1, <1>2, UpTo
  <2> QED
    BY <2>1
<1>4. PICK f \in [0 .. n -> V] : Part(n, f)
  BY <1>3
<1> QED
  BY <1>4 DEF Follows
-----------------------------------------------------------------------------
(***************************************************************************)
(* Sums.                                                                   *)
(***************************************************************************)
\* A sum is the last of its partial sums.
LEMMA TotalSteps ==
  ASSUME NEW n \in Nat, NEW f \in [1 .. n -> Int]
  PROVE  \E sum \in [0 .. n -> Int] :
           /\ sum[0] = 0 /\ \A k \in 1 .. n : sum[k] = sum[k - 1] + f[k]
           /\ Total(n, f) = sum[n]
<1> DEFINE step == [k \in 1 .. n |-> [v \in Int |-> v + f[k]]]
           Loop(g) == [k \in 0 .. n |-> IF k = 0 THEN 0 ELSE g[k - 1] + f[k]]
           sum == CHOOSE g : g = Loop(g)
<1>1. 0 \in Int /\ step \in [1 .. n -> [Int -> Int]]
  OBVIOUS
<1>2. PICK g \in [0 .. n -> Int] : Follows(g, n, 0, step)
  <2> HIDE DEF step
  <2> QED
    BY <1>1, RecursiveFunction
<1>3. g = Loop(g)
  <2>1. ASSUME NEW k \in 1 .. n PROVE g[k] = g[k - 1] + f[k]
    <3>1. g[k - 1] \in Int /\ g[k] = step[k][g[k - 1]]
      <4> HIDE DEF step
      <4>1. k - 1 \in 0 .. n
        OBVIOUS
      <4> QED
        BY <1>2, <4>1 DEF Follows
    <3> QED
      BY <3>1
  <2>2. g[0] = 0
    BY <1>2 DEF Follows
  <2> HIDE DEF step
  <2> QED
    BY <2>1, <2>2
<1>4. sum = Loop(sum)
  <2> HIDE DEF Loop
  <2> QED
    BY <1>3, Zenon
<1>5. Total(n, f) = sum[n]
  BY DEF Total
<1> HIDE DEF sum
<1>6. /\ sum = [k \in 0 .. n |-> sum[k]] /\ sum[0] = 0
      /\ \A k \in 1 .. n : sum[k] = sum[k - 1] + f[k]
  <2>1. \A h : /\ Loop(h) = [k \in 0 .. n |-> Loop(h)[k]] /\ Loop(h)[0] = 0
               /\ \A k \in 1 .. n : Loop(h)[k] = h[k - 1] + f[k]
    OBVIOUS
  <2> HIDE DEF Loop
  <2> QED
    BY <1>4, <2>1
<1>7. \A k \in 0 .. n : sum[k] \in Int
  <2> DEFINE S == {k \in 0 .. n : sum[k] \in Int}
  <2>1. 0 \in S
    BY <1>6
  <2>2. ASSUME NEW k \in 0 .. n - 1, k \in S PROVE k + 1 \in S
    <3>1. k + 1 \in 1 .. n /\ (k + 1) - 1 = k
      OBVIOUS
    <3>2. sum[k + 1] = sum[k] + f[k + 1]
      BY <1>6, <3>1
    <3> QED
      BY <2>2, <3>1, <3>2
  <2> HIDE DEF S
  <2>3. \A k \in 0 .. n : k \in S
    BY <2>1, <2>2, UpTo
  <2> QED
    BY <2>3 DEF S
<1>8. sum \in [0 .. n -> Int]
  BY <1>6, <1>7
<1> QED
  BY <1>5, <1>6, <1>8

LEMMA TotalIsInt ==
  ASSUME NEW n \in Nat, NEW f \in [1 .. n -> Int]
  PROVE  Total(n, f) \in Int
<1>1. PICK s \in [0 .. n -> Int] : Total(n, f) = s[n]
  BY TotalSteps
<1> QED
  BY <1>1

\* One more term.
LEMMA TotalGrows ==
  ASSUME NEW n \in Nat, NEW f \in [1 .. n + 1 -> Int], NEW g \in [1 .. n -> Int],
         \A k \in 1 .. n : g[k] = f[k]
  PROVE  Total(n + 1, f) = Total(n, g) + f[n + 1]
<1>1. PICK s \in [0 .. n + 1 -> Int] : /\ s[0] = 0
                                      /\ \A k \in 1 .. n + 1 : s[k] = s[k - 1] + f[k]
                                      /\ Total(n + 1, f) = s[n + 1]
  <2>1. n + 1 \in Nat
    OBVIOUS
  <2> QED
    BY <2>1, TotalSteps, Zenon
<1>2. PICK t \in [0 .. n -> Int] : /\ t[0] = 0 /\ \A k \in 1 .. n : t[k] = t[k - 1] + g[k]
                                  /\ Total(n, g) = t[n]
  BY TotalSteps
<1> DEFINE S == {k \in 0 .. n : s[k] = t[k]}
<1>3. 0 \in S
  BY <1>1, <1>2
<1>4. ASSUME NEW k \in 0 .. n - 1, k \in S PROVE k + 1 \in S
  <2>1. k + 1 \in 1 .. n /\ k + 1 \in 1 .. n + 1 /\ (k + 1) - 1 = k
    OBVIOUS
  <2>2. s[k + 1] = s[k] + f[k + 1] /\ t[k + 1] = t[k] + g[k + 1]
    BY <1>1, <1>2, <2>1
  <2> QED
    BY <1>4, <2>1, <2>2
<1> HIDE DEF S
<1>5. \A k \in 0 .. n : k \in S
  BY <1>3, <1>4, UpTo
<1>6. s[n] = t[n]
  BY <1>5 DEF S
<1>7. n + 1 \in 1 .. n + 1 /\ (n + 1) - 1 = n
  OBVIOUS
<1> QED
  BY <1>1, <1>2, <1>6, <1>7

LEMMA TotalIsMonotonic ==
  ASSUME NEW n \in Nat, NEW f \in [1 .. n -> Int], NEW g \in [1 .. n -> Int],
         \A k \in 1 .. n : f[k] <= g[k]
  PROVE  Total(n, f) <= Total(n, g)
<1>1. PICK s \in [0 .. n -> Int] : /\ s[0] = 0 /\ \A k \in 1 .. n : s[k] = s[k - 1] + f[k]
                                  /\ Total(n, f) = s[n]
  BY TotalSteps
<1>2. PICK t \in [0 .. n -> Int] : /\ t[0] = 0 /\ \A k \in 1 .. n : t[k] = t[k - 1] + g[k]
                                  /\ Total(n, g) = t[n]
  BY TotalSteps
<1> DEFINE S == {k \in 0 .. n : s[k] <= t[k]}
<1>3. 0 \in S
  BY <1>1, <1>2
<1>4. ASSUME NEW k \in 0 .. n - 1, k \in S PROVE k + 1 \in S
  <2>1. k + 1 \in 1 .. n /\ (k + 1) - 1 = k
    OBVIOUS
  <2>2. /\ s[k + 1] = s[k] + f[k + 1] /\ t[k + 1] = t[k] + g[k + 1]
        /\ f[k + 1] <= g[k + 1] /\ f[k + 1] \in Int /\ g[k + 1] \in Int
    BY <1>1, <1>2, <2>1
  <2> QED
    BY <1>4, <2>1, <2>2
<1> HIDE DEF S
<1>5. \A k \in 0 .. n : k \in S
  BY <1>3, <1>4, UpTo
<1> QED
  BY <1>1, <1>2, <1>5 DEF S

\* The sum of sums.
LEMMA TotalOfSums ==
  ASSUME NEW n \in Nat, NEW f \in [1 .. n -> Int], NEW g \in [1 .. n -> Int],
         NEW h \in [1 .. n -> Int], \A k \in 1 .. n : h[k] = f[k] + g[k]
  PROVE  Total(n, h) = Total(n, f) + Total(n, g)
<1>1. PICK s \in [0 .. n -> Int] : /\ s[0] = 0 /\ \A k \in 1 .. n : s[k] = s[k - 1] + f[k]
                                  /\ Total(n, f) = s[n]
  BY TotalSteps
<1>2. PICK t \in [0 .. n -> Int] : /\ t[0] = 0 /\ \A k \in 1 .. n : t[k] = t[k - 1] + g[k]
                                  /\ Total(n, g) = t[n]
  BY TotalSteps
<1>3. PICK u \in [0 .. n -> Int] : /\ u[0] = 0 /\ \A k \in 1 .. n : u[k] = u[k - 1] + h[k]
                                  /\ Total(n, h) = u[n]
  BY TotalSteps
<1> DEFINE S == {k \in 0 .. n : u[k] = s[k] + t[k]}
<1>4. 0 \in S
  BY <1>1, <1>2, <1>3
<1>5. ASSUME NEW k \in 0 .. n - 1, k \in S PROVE k + 1 \in S
  <2>1. k + 1 \in 1 .. n /\ k + 1 \in 0 .. n /\ (k + 1) - 1 = k /\ k \in 0 .. n
    OBVIOUS
  <2>2. /\ u[k + 1] = u[k] + h[k + 1] /\ s[k + 1] = s[k] + f[k + 1]
        /\ t[k + 1] = t[k] + g[k + 1] /\ h[k + 1] = f[k + 1] + g[k + 1]
    BY <1>1, <1>2, <1>3, <2>1
  <2>3. s[k] \in Int /\ t[k] \in Int /\ f[k + 1] \in Int /\ g[k + 1] \in Int
    BY <2>1
  <2>4. u[k + 1] = s[k + 1] + t[k + 1]
    BY <1>5, <2>2, <2>3
  <2> QED
    BY <2>1, <2>4
<1> HIDE DEF S
<1>6. \A k \in 0 .. n : k \in S
  BY <1>4, <1>5, UpTo
<1>7. u[n] = s[n] + t[n]
  BY <1>6 DEF S
<1> QED
  BY <1>1, <1>2, <1>3, <1>7

\* A sum with one term that is not 0.
LEMMA TotalOfOne ==
  ASSUME NEW n \in Nat, NEW p \in 1 .. n, NEW f \in [1 .. n -> Int],
         \A k \in 1 .. n : k # p => f[k] = 0
  PROVE  Total(n, f) = f[p]
<1>1. PICK s \in [0 .. n -> Int] : /\ s[0] = 0 /\ \A k \in 1 .. n : s[k] = s[k - 1] + f[k]
                                  /\ Total(n, f) = s[n]
  BY TotalSteps
<1> DEFINE S == {k \in 0 .. n : s[k] = IF k < p THEN 0 ELSE f[p]}
<1>2. 0 \in S
  BY <1>1
<1>3. ASSUME NEW k \in 0 .. n - 1, k \in S PROVE k + 1 \in S
  <2>1. k + 1 \in 1 .. n /\ k + 1 \in 0 .. n /\ (k + 1) - 1 = k
    OBVIOUS
  <2>2. s[k + 1] = s[k] + f[k + 1] /\ f[p] \in Int
    BY <1>1, <2>1
  <2>3. CASE k + 1 = p
    <3>1. s[k] = 0 /\ s[k + 1] = f[p]
      BY <1>3, <2>2, <2>3
    <3> QED
      BY <2>1, <2>3, <3>1
  <2>4. CASE k + 1 # p
    <3>1. f[k + 1] = 0 /\ (k < p <=> k + 1 < p)
      BY <2>1, <2>4
    <3>2. s[k] \in Int /\ s[k + 1] = s[k]
      BY <2>1, <2>2, <3>1
    <3> QED
      BY <1>3, <2>1, <3>1, <3>2
  <2> QED
    BY <2>3, <2>4
<1> HIDE DEF S
<1>4. \A k \in 0 .. n : k \in S
  BY <1>2, <1>3, UpTo
<1>5. s[n] = f[p]
  BY <1>4 DEF S
<1> QED
  BY <1>1, <1>5

LEMMA DisjointSizes ==
  ASSUME NEW A, NEW B, IsFiniteSet(A), IsFiniteSet(B), A \cap B = {},
         Cardinality(A) \in Int, Cardinality(B) \in Int
  PROVE  /\ IsFiniteSet(A \cup B)
         /\ Cardinality(A \cup B) = Cardinality(A) + Cardinality(B)
<1>1. /\ IsFiniteSet(A \cup B)
      /\ Cardinality(A \cup B) = Cardinality(A) + Cardinality(B) - Cardinality(A \cap B)
  BY FS_Union
<1>2. Cardinality(A \cap B) = 0
  BY FS_EmptySet
<1> QED
  BY <1>1, <1>2

\* Counting pairs: the sizes of the sets S[k] add up.
LEMMA TotalOfSizes ==
  ASSUME NEW n \in Nat, NEW S, \A k \in 1 .. n : IsFiniteSet(S[k])
  PROVE  LET pairs == UNION {{k} \X S[k] : k \in 1 .. n}
         IN  /\ IsFiniteSet(pairs)
             /\ Cardinality(pairs) = Total(n, [k \in 1 .. n |-> Cardinality(S[k])])
<1> DEFINE f == [k \in 1 .. n |-> Cardinality(S[k])]
           Pairs(m) == UNION {{k} \X S[k] : k \in 1 .. m}
<1>1. f \in [1 .. n -> Int] /\ \A k \in 1 .. n : f[k] = Cardinality(S[k]) /\ f[k] \in Nat
  BY FS_CardinalityType
<1> HIDE DEF f
<1>2. PICK s \in [0 .. n -> Int] : /\ s[0] = 0 /\ \A k \in 1 .. n : s[k] = s[k - 1] + f[k]
                                  /\ Total(n, f) = s[n]
  BY <1>1, TotalSteps
<1> DEFINE Q == {m \in 0 .. n : IsFiniteSet(Pairs(m)) /\ Cardinality(Pairs(m)) = s[m]}
<1>3. 0 \in Q
  <2>1. Pairs(0) = {}
    OBVIOUS
  <2>2. IsFiniteSet({}) /\ Cardinality({}) = 0 /\ 0 \in 0 .. n
    BY FS_EmptySet
  <2> HIDE DEF Pairs
  <2> QED
    BY <1>2, <2>1, <2>2
<1>4. ASSUME NEW m \in 0 .. n - 1, m \in Q PROVE m + 1 \in Q
  <2> DEFINE new == {m + 1} \X S[m + 1]
  <2>1. m + 1 \in 1 .. n /\ (m + 1) - 1 = m
    OBVIOUS
  <2>2. Pairs(m + 1) = Pairs(m) \cup new
    <3>1. 1 .. m + 1 = (1 .. m) \cup {m + 1}
      OBVIOUS
    <3> QED
      BY <3>1
  <2>3. Pairs(m) \cap new = {}
    OBVIOUS
  <2>4. IsFiniteSet(new) /\ Cardinality(new) = f[m + 1]
    <3>1. IsFiniteSet({m + 1}) /\ Cardinality({m + 1}) = 1
      BY FS_Singleton
    <3>2. IsFiniteSet(S[m + 1]) /\ Cardinality(S[m + 1]) = f[m + 1] /\ f[m + 1] \in Nat
      BY <1>1, <2>1
    <3>3. IsFiniteSet(new) /\ Cardinality(new) = Cardinality({m + 1}) * Cardinality(S[m + 1])
      BY <3>1, <3>2, FS_Product
    <3> QED
      BY <3>1, <3>2, <3>3
  <2>5. IsFiniteSet(Pairs(m)) /\ Cardinality(Pairs(m)) = s[m] /\ s[m] \in Int
    BY <1>4
  <2>6. s[m + 1] = s[m] + f[m + 1] /\ f[m + 1] \in Nat
    BY <1>1, <1>2, <2>1
  <2>7. IsFiniteSet(Pairs(m) \cup new) /\ Cardinality(Pairs(m) \cup new) = s[m] + f[m + 1]
    <3>1. f[m + 1] \in Int
      BY <2>6
    <3>2. Cardinality(Pairs(m)) \in Int /\ Cardinality(new) \in Int
      BY <2>4, <2>5, <3>1, Zenon
    <3>3. /\ IsFiniteSet(Pairs(m) \cup new)
          /\ Cardinality(Pairs(m) \cup new) = Cardinality(Pairs(m)) + Cardinality(new)
      BY <2>3, <2>4, <2>5, <3>2, DisjointSizes, Zenon
    <3> QED
      BY <2>4, <2>5, <3>3, Zenon
  <2>8. m + 1 \in 0 .. n
    OBVIOUS
  <2>9. IsFiniteSet(Pairs(m + 1)) /\ Cardinality(Pairs(m + 1)) = s[m + 1]
    BY <2>2, <2>6, <2>7, Zenon
  <2> QED
    BY <2>8, <2>9
<1>5. IsFiniteSet(Pairs(n)) /\ Cardinality(Pairs(n)) = s[n]
  <2> HIDE DEF Q
  <2>1. \A m \in 0 .. n : m \in Q
    BY <1>3, <1>4, UpTo
  <2> QED
    BY <2>1 DEF Q
<1> QED
  BY <1>2, <1>5 DEF f
-----------------------------------------------------------------------------
(***************************************************************************)
(* Queues without duplicates, and what they hold.                          *)
(***************************************************************************)
Distinct(q) == \A i, j \in 1 .. Len(q) : q[i] = q[j] => i = j
Members(q)  == {q[i] : i \in 1 .. Len(q)}

LEMMA EnqueueMembers ==
  ASSUME NEW S, NEW q \in Seq(S), NEW p \in S, Distinct(q), p \notin Members(q)
  PROVE  /\ Append(q, p) \in Seq(S)
         /\ Distinct(Append(q, p))
         /\ Members(Append(q, p)) = Members(q) \cup {p}
<1> DEFINE longer == Append(q, p)
<1>1. /\ longer \in Seq(S)
      /\ Len(longer) = Len(q) + 1
      /\ \A i \in 1 .. Len(q) : longer[i] = q[i]
      /\ longer[Len(q) + 1] = p
  BY AppendProperties
<1>2. Len(q) \in Nat
  BY LenProperties
<1> HIDE DEF longer
<1>3. \A i \in 1 .. Len(longer) : i \in 1 .. Len(q) \/ i = Len(q) + 1
  BY <1>1, <1>2
<1>4. \A i \in 1 .. Len(q) : i \in 1 .. Len(longer) /\ q[i] # p
  BY <1>1, <1>2 DEF Members
<1>5. Distinct(longer)
  BY <1>1, <1>3, <1>4 DEF Distinct
<1>6. Len(q) + 1 \in 1 .. Len(longer)
  BY <1>1, <1>2
<1>7. Members(longer) = Members(q) \cup {p}
  BY <1>1, <1>3, <1>4, <1>6 DEF Members
<1> QED
  BY <1>1, <1>5, <1>7 DEF longer

LEMMA DequeueMembers ==
  ASSUME NEW S, NEW q \in Seq(S), q # << >>, Distinct(q)
  PROVE  /\ Head(q) \in Members(q) \cap S
         /\ Tail(q) \in Seq(S)
         /\ Distinct(Tail(q))
         /\ Members(Tail(q)) = Members(q) \ {Head(q)}
<1> DEFINE rest == Tail(q)
           first == Head(q)
<1>1. /\ first \in S
      /\ rest \in Seq(S)
      /\ Len(rest) = Len(q) - 1
      /\ \A i \in 1 .. Len(rest) : rest[i] = q[i + 1]
  BY HeadTailProperties
<1>2. Len(q) \in Nat \ {0}
  BY EmptySeq
<1>3. first = q[1]
  OBVIOUS
<1> HIDE DEF rest, first
<1>4. /\ 1 \in 1 .. Len(q)
      /\ \A i \in 1 .. Len(rest) : i + 1 \in 1 .. Len(q) /\ i + 1 # 1
      /\ \A i \in 1 .. Len(q) : i = 1 \/ (i - 1 \in 1 .. Len(rest) /\ (i - 1) + 1 = i)
      /\ \A i, j \in 1 .. Len(rest) : i + 1 = j + 1 => i = j
  BY <1>1, <1>2
<1>5. Distinct(rest)
  BY <1>1, <1>4 DEF Distinct
<1>6. first \in Members(q)
  BY <1>3, <1>4 DEF Members
<1>7. \A i \in 1 .. Len(rest) : rest[i] \in Members(q) /\ rest[i] # first
  BY <1>1, <1>3, <1>4 DEF Distinct, Members
<1>8. \A i \in 1 .. Len(q) : q[i] = first \/ q[i] \in Members(rest)
  <2> SUFFICES ASSUME NEW i \in 1 .. Len(q), i # 1 PROVE q[i] \in Members(rest)
    BY <1>3
  <2>1. i - 1 \in 1 .. Len(rest) /\ rest[i - 1] = q[i]
    BY <1>1, <1>4
  <2> QED
    BY <2>1 DEF Members
<1>9. Members(rest) = Members(q) \ {first}
  BY <1>7, <1>8 DEF Members
<1> QED
  BY <1>1, <1>5, <1>6, <1>9 DEF rest, first

LEMMA JoinMembers ==
  ASSUME NEW S, NEW q \in Seq(S), NEW r \in Seq(S), Distinct(q), Distinct(r),
         Members(q) \cap Members(r) = {}
  PROVE  /\ q \o r \in Seq(S)
         /\ Distinct(q \o r)
         /\ Members(q \o r) = Members(q) \cup Members(r)
<1> DEFINE both == q \o r
<1>1. /\ both \in Seq(S)
      /\ Len(both) = Len(q) + Len(r)
      /\ \A i \in 1 .. Len(both) : both[i] = IF i <= Len(q) THEN q[i] ELSE r[i - Len(q)]
  BY ConcatProperties
<1>2. Len(q) \in Nat /\ Len(r) \in Nat
  BY LenProperties
<1> HIDE DEF both
<1>3. \A i \in 1 .. Len(both) :
        \/ i \in 1 .. Len(q) /\ both[i] = q[i]
        \/ i - Len(q) \in 1 .. Len(r) /\ both[i] = r[i - Len(q)]
  BY <1>1, <1>2
<1>4. /\ \A i \in 1 .. Len(q) : i \in 1 .. Len(both) /\ both[i] = q[i]
      /\ \A i \in 1 .. Len(r) : i + Len(q) \in 1 .. Len(both) /\ both[i + Len(q)] = r[i]
  BY <1>1, <1>2
<1>5. \A i \in 1 .. Len(q), j \in 1 .. Len(r) : q[i] # r[j]
  BY DEF Members
<1>6. Distinct(both)
  <2> SUFFICES ASSUME NEW i \in 1 .. Len(both), NEW j \in 1 .. Len(both), both[i] = both[j]
               PROVE  i = j
    BY DEF Distinct
  <2>1. CASE i \in 1 .. Len(q) /\ both[i] = q[i]
    BY <1>3, <1>5, <2>1 DEF Distinct
  <2>2. CASE i - Len(q) \in 1 .. Len(r) /\ both[i] = r[i - Len(q)]
    <3>1. j - Len(q) \in 1 .. Len(r) /\ both[j] = r[j - Len(q)]
      BY <1>3, <1>5, <2>2
    <3>2. i - Len(q) = j - Len(q)
      BY <2>2, <3>1 DEF Distinct
    <3> QED
      BY <1>2, <3>2
  <2> QED
    BY <1>3, <2>1, <2>2
<1>7. Members(both) = Members(q) \cup Members(r)
  <2>1. ASSUME NEW x \in Members(both) PROVE x \in Members(q) \cup Members(r)
    BY <1>3 DEF Members
  <2>2. ASSUME NEW x \in Members(q) \cup Members(r) PROVE x \in Members(both)
    BY <1>4 DEF Members
  <2> QED
    BY <2>1, <2>2
<1> QED
  BY <1>1, <1>6, <1>7 DEF both

LEMMA NoMembers ==
  ASSUME NEW S
  PROVE  << >> \in Seq(S) /\ Distinct(<< >>) /\ Members(<< >>) = {}
<1>1. << >> \in Seq(S) /\ Len(<< >>) = 0
  BY EmptySeq
<1> QED
  BY <1>1 DEF Distinct, Members

\* A queue without duplicates is no longer than the set it draws from.
LEMMA DistinctLength ==
  ASSUME NEW S, NEW q \in Seq(S), Distinct(q), NEW T, IsFiniteSet(T), Members(q) \subseteq T
  PROVE  Len(q) <= Cardinality(T)
<1>1. Len(q) \in Nat
  BY LenProperties
<1> DEFINE f == [i \in 1 .. Len(q) |-> q[i]]
<1>2. f \in [1 .. Len(q) -> T]
  BY DEF Members
<1>3. f \in Injection(1 .. Len(q), T)
  BY <1>2 DEF Injection, IsInjective, Distinct
<1> HIDE DEF f
<1>4. Cardinality(1 .. Len(q)) <= Cardinality(T)
  BY <1>3, FS_Injection
<1>5. Cardinality(1 .. Len(q)) = Len(q)
  <2>1. ASSUME NEW n \in Nat PROVE Cardinality(1 .. n) = n
    <3>1. Cardinality(1 .. n) = IF 1 > n THEN 0 ELSE n - 1 + 1
      BY FS_Interval
    <3> QED
      BY <3>1
  <2> QED
    BY <1>1, <2>1
<1> QED
  BY <1>4, <1>5
=============================================================================
