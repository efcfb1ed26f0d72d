------------------------------ MODULE UsoLemmas -----------------------------
(***************************************************************************)
(* Facts about indexes, recursive functions and division that the proofs   *)
(* of the components share.                                                *)
(***************************************************************************)
EXTENDS Integers, Sequences, FiniteSetTheorems, WellFoundedInduction, TLAPS

\* A set of indexes of a sequence has a least element.
LEMMA LeastIndex ==
  ASSUME NEW n \in Nat, NEW T, T \subseteq 1 .. n, T # {}
  PROVE  \E i \in T : \A j \in T : i <= j
<1> DEFINE prefixes == {1 .. i : i \in T}
           R == StrictSubsetOrdering(1 .. n)
<1>1. IsWellFoundedOn(R, FiniteSubsetsOf(1 .. n))
  BY FS_StrictSubsetOrderingWellFounded
<1>2. FiniteSubsetsOf(1 .. n) = SUBSET (1 .. n)
  <2>1. IsFiniteSet(1 .. n)
    BY FS_Interval
  <2> QED
    BY <2>1, FS_FiniteSubsetsOfFinite
<1>3. prefixes \subseteq SUBSET (1 .. n) /\ prefixes # {}
  <2>1. \A i \in T : 1 .. i \in prefixes /\ 1 .. i \subseteq 1 .. n
    OBVIOUS
  <2> QED
    BY <2>1
<1>4. \E p \in prefixes : \A q \in prefixes : ~ (<<q, p>> \in R)
  <2> HIDE DEF prefixes, R
  <2> QED
    BY <1>1, <1>2, <1>3, WFMin, ZenonT(60)
<1>5. PICK i \in T : \A j \in T : ~ (<<1 .. j, 1 .. i>> \in R)
  BY <1>4
<1>6. ASSUME NEW j \in T, j < i
      PROVE  FALSE
  <2>1. 1 .. j \subseteq 1 .. i /\ i \in 1 .. i /\ i \notin 1 .. j
    BY <1>6
  <2>2. <<1 .. j, 1 .. i>> \in R
    BY <2>1 DEF StrictSubsetOrdering
  <2> QED
    BY <2>2, <1>5
<1> QED
  BY <1>6

-----------------------------------------------------------------------------
(* Induction over the indexes of a sequence goes through the least index     *)
(* at which a claim fails.                                                   *)

LEMMA LeastNumber ==
  ASSUME NEW T, T \subseteq Nat, T # {}
  PROVE  \E i \in T : \A j \in T : i <= j
<1>1. PICK t \in T : t \in Nat
  OBVIOUS
<1> DEFINE U == {x \in 1 .. t + 1 : x - 1 \in T}
<1>2. U \subseteq 1 .. t + 1 /\ t + 1 \in U /\ t + 1 \in Nat
  BY <1>1
<1>3. PICK u \in U : \A x \in U : u <= x
  BY <1>2, LeastIndex
<1>4. u \in Nat /\ u - 1 \in T /\ u <= t + 1
  BY <1>2, <1>3
<1>5. ASSUME NEW x \in T
      PROVE  u - 1 <= x
  <2>1. CASE x <= t
    <3>1. x \in Nat /\ x + 1 \in 1 .. t + 1 /\ x + 1 - 1 \in T
      BY <1>1, <2>1
    <3> QED
      BY <1>3, <1>4, <3>1
  <2>2. CASE ~ (x <= t)
    BY <1>1, <1>4, <2>2
  <2> QED
    BY <2>1, <2>2
<1> QED
  BY <1>4, <1>5

\* Induction, with the set of the numbers for which a claim holds
LEMMA Upwards ==
  ASSUME NEW n \in Nat, NEW S, 0 \in S, \A m \in 0 .. n - 1 : m \in S => m + 1 \in S
  PROVE  \A m \in 0 .. n : m \in S
<1> DEFINE T == {m \in 0 .. n : m \notin S}
<1>1. SUFFICES ASSUME T # {} PROVE FALSE
  OBVIOUS
<1>2. T \subseteq Nat
  OBVIOUS
<1>3. PICK m \in T : \A x \in T : m <= x
  BY <1>1, <1>2, LeastNumber
<1>4. m \in 0 .. n /\ m \notin S /\ m # 0
  BY <1>3
<1>5. m - 1 \in 0 .. n - 1 /\ m - 1 + 1 = m /\ m - 1 \in 0 .. n /\ m - 1 < m
  BY <1>4
<1>6. m - 1 \notin T
  BY <1>3, <1>4, <1>5
<1> QED
  BY <1>4, <1>5, <1>6

\* The same with all the smaller numbers as the hypothesis
LEMMA UpwardsFromAll ==
  ASSUME NEW n \in Nat, NEW S, \A m \in 0 .. n : (\A x \in 0 .. m - 1 : x \in S) => m \in S
  PROVE  \A m \in 0 .. n : m \in S
<1> DEFINE T == {m \in 0 .. n : m \notin S}
<1>1. SUFFICES ASSUME T # {} PROVE FALSE
  OBVIOUS
<1>2. T \subseteq Nat
  OBVIOUS
<1>3. PICK m \in T : \A x \in T : m <= x
  BY <1>1, <1>2, LeastNumber
<1>4. m \in 0 .. n /\ m \notin S
  BY <1>3
<1>5. ASSUME NEW x \in 0 .. m - 1
      PROVE  x \in S
  BY <1>3, <1>4
<1> QED
  BY <1>4, <1>5

\* An injection of indexes into themselves reaches each of them.
LEMMA Onto ==
  ASSUME NEW n \in Nat, NEW p \in [1 .. n -> 1 .. n],
         \A k, l \in 1 .. n : p[k] = p[l] => k = l
  PROVE  \A k \in 1 .. n : \E l \in 1 .. n : p[l] = k
<1>1. p \in Injection(1 .. n, 1 .. n)
  BY DEF Injection, IsInjective
<1>2. IsFiniteSet(1 .. n)
  BY FS_Interval
<1>3. p \in Surjection(1 .. n, 1 .. n)
  BY <1>1, <1>2, FS_Injection
<1> QED
  BY <1>3 DEF Surjection

\* Numbers can be put in order.
LEMMA SortingOrder ==
  ASSUME NEW n \in Nat, NEW f \in [1 .. n -> Nat]
  PROVE  \E p \in [1 .. n -> 1 .. n] :
           /\ \A k, l \in 1 .. n : p[k] = p[l] => k = l
           /\ \A k, l \in 1 .. n : k < l => f[p[k]] <= f[p[l]]
<1> DEFINE Least(p, m) ==
             /\ p \in [1 .. m -> 1 .. n]
             /\ \A k, l \in 1 .. m : p[k] = p[l] => k = l
             /\ \A k, l \in 1 .. m : k < l => f[p[k]] <= f[p[l]]
             /\ \A k \in 1 .. m, x \in 1 .. n : (\A l \in 1 .. m : p[l] # x) => f[p[k]] <= f[x]
           Some(m) == \E p : Least(p, m)
           S == {m \in 0 .. n : Some(m)}
<1>1. Least(<< >>, 0)
  OBVIOUS
<1>2. Some(0)
  BY <1>1
<1>3. ASSUME NEW d \in 0 .. n - 1, Some(d)
      PROVE  Some(d + 1)
  <2>6. d \in Nat /\ d < n
    OBVIOUS
  <2>5. PICK p : Least(p, d)
    BY <1>3
  <2>7. Least(p, d)
    BY <2>5
  <2> DEFINE Rest == {x \in 1 .. n : \A l \in 1 .. d : p[l] # x}
  <2>8. Rest # {}
    <3>1. SUFFICES ASSUME Rest = {} PROVE FALSE
      OBVIOUS
    <3>2. p \in Surjection(1 .. d, 1 .. n)
      <4>1. p \in [1 .. d -> 1 .. n]
        BY <2>7
      <4>2. \A x \in 1 .. n : \E l \in 1 .. d : p[l] = x
        BY <3>1
      <4> QED
        BY <4>1, <4>2, Zenon DEF Surjection
    <3>3. IsFiniteSet(1 .. d) /\ Cardinality(1 .. d) = d /\ Cardinality(1 .. n) = n
      <4>1. \A m \in Nat : /\ IsFiniteSet(1 .. m)
                           /\ Cardinality(1 .. m) = IF 1 > m THEN 0 ELSE m - 1 + 1
        BY FS_Interval
      <4> QED
        BY <2>6, <4>1
    <3>4. Cardinality(1 .. n) <= Cardinality(1 .. d)
      BY <3>2, <3>3, FS_Surjection
    <3> QED
      BY <2>6, <3>3, <3>4
  <2>9. PICK x \in Rest : \A y \in Rest : f[x] <= f[y]
    <3>1. {f[y] : y \in Rest} \subseteq Nat /\ {f[y] : y \in Rest} # {}
      BY <2>8
    <3>2. PICK v \in {f[y] : y \in Rest} : \A w \in {f[y] : y \in Rest} : v <= w
      BY <3>1, LeastNumber
    <3> QED
      BY <3>2
  <2> DEFINE q == [k \in 1 .. d + 1 |-> IF k = d + 1 THEN x ELSE p[k]]
  <2>10. q \in [1 .. d + 1 -> 1 .. n] /\ q[d + 1] = x /\ \A k \in 1 .. d : q[k] = p[k]
    BY <2>6, <2>7, <2>9
  <2>11. \A k \in 1 .. d + 1 : k \in 1 .. d \/ k = d + 1
    BY <2>6
  <2>12. \A k \in 1 .. d : k \in 1 .. d + 1 /\ k < d + 1 /\ p[k] \in 1 .. n /\ p[k] # x
    BY <2>6, <2>7, <2>9
  <2>13. \A y \in 1 .. n : (\A l \in 1 .. d + 1 : q[l] # y) => y \in Rest
    BY <2>10, <2>12
  <2> HIDE DEF q, Rest
  <2>14. \A k, l \in 1 .. d + 1 : q[k] = q[l] => k = l
    BY <2>7, <2>10, <2>11, <2>12
  <2>15. \A k, l \in 1 .. d + 1 : k < l => f[q[k]] <= f[q[l]]
    <3>1. SUFFICES ASSUME NEW k \in 1 .. d + 1, NEW l \in 1 .. d + 1, k < l
                   PROVE  f[q[k]] <= f[q[l]]
      OBVIOUS
    <3>2. k \in 1 .. d
      BY <2>6, <3>1
    <3>3. CASE l \in 1 .. d
      BY <2>7, <2>10, <3>1, <3>2, <3>3
    <3>4. CASE l = d + 1
      BY <2>7, <2>9, <2>10, <3>2, <3>4 DEF Rest
    <3> QED
      BY <2>11, <3>3, <3>4
  <2>16. \A k \in 1 .. d + 1, y \in 1 .. n :
           (\A l \in 1 .. d + 1 : q[l] # y) => f[q[k]] <= f[y]
    <3>1. SUFFICES ASSUME NEW k \in 1 .. d + 1, NEW y \in 1 .. n,
                          \A l \in 1 .. d + 1 : q[l] # y
                   PROVE  f[q[k]] <= f[y]
      OBVIOUS
    <3>2. y \in Rest
      BY <2>13, <3>1
    <3>3. CASE k \in 1 .. d
      BY <2>7, <2>10, <3>2, <3>3 DEF Rest
    <3>4. CASE k = d + 1
      BY <2>9, <2>10, <3>2, <3>4
    <3> QED
      BY <2>11, <3>3, <3>4
  <2>17. Least(q, d + 1)
    BY <2>6, <2>10, <2>14, <2>15, <2>16
  <2> QED
    BY <2>17
<1> HIDE DEF Some
<1>4. 0 \in S /\ \A m \in 0 .. n - 1 : m \in S => m + 1 \in S
  BY <1>2, <1>3
<1>5. n \in S
  <2> HIDE DEF S
  <2>1. \A m \in 0 .. n : m \in S
    BY <1>4, Upwards
  <2> QED
    BY <2>1
<1>6. \E p : Least(p, n)
  BY <1>5 DEF Some
<1> QED
  BY <1>6

\* A sum that grows by more than d[k] at each index k: its recursive definition has a
\* value.
LEMMA RunningSum ==
  ASSUME NEW n \in Nat, NEW a \in Nat, NEW d \in [1 .. n -> Nat]
  PROVE  \E g \in [0 .. n -> Nat] : g[0] = a /\ \A k \in 1 .. n : g[k] = g[k - 1] + d[k] + 1
<1> DEFINE Is(g, m) ==
             /\ g \in [0 .. m -> Nat] /\ g[0] = a
             /\ \A k \in 1 .. m : g[k] = g[k - 1] + d[k] + 1
           Some(m) == \E g : Is(g, m)
           S == {m \in 0 .. n : Some(m)}
<1>1. Some(0)
  <2>1. Is([k \in 0 .. 0 |-> a], 0)
    OBVIOUS
  <2> QED
    BY <2>1
<1>2. ASSUME NEW m \in 0 .. n - 1, Some(m)
      PROVE  Some(m + 1)
  <2>1. PICK g : Is(g, m)
    BY <1>2
  <2>2. m + 1 \in 1 .. n /\ d[m + 1] \in Nat /\ g[m] \in Nat
    BY <2>1
  <2> DEFINE h == [k \in 0 .. m + 1 |-> IF k = m + 1 THEN g[m] + d[m + 1] + 1 ELSE g[k]]
  <2>3. h[m + 1] = g[m] + d[m + 1] + 1 /\ \A k \in 0 .. m : h[k] = g[k]
    OBVIOUS
  <2>4. h \in [0 .. m + 1 -> Nat]
    BY <2>1, <2>2
  <2>5. \A k \in 1 .. m + 1 : h[k] = h[k - 1] + d[k] + 1
    <3> HIDE DEF h
    <3>1. SUFFICES ASSUME NEW k \in 1 .. m + 1 PROVE h[k] = h[k - 1] + d[k] + 1
      OBVIOUS
    <3>2. CASE k = m + 1
      BY <2>3, <3>2
    <3>3. CASE k \in 1 .. m
      <4>1. k \in 0 .. m /\ k - 1 \in 0 .. m
        BY <3>3
      <4> QED
        BY <2>1, <2>3, <3>3, <4>1
    <3> QED
      BY <3>2, <3>3
  <2>6. h[0] = a
    BY <2>1
  <2>7. Is(h, m + 1)
    BY <2>4, <2>5, <2>6
  <2> QED
    BY <2>7
<1>3. 0 \in S /\ \A m \in 0 .. n - 1 : m \in S => m + 1 \in S
  <2> HIDE DEF Some
  <2> QED
    BY <1>1, <1>2
<1>4. n \in S
  <2> HIDE DEF S
  <2>1. \A m \in 0 .. n : m \in S
    BY <1>3, Upwards
  <2> QED
    BY <2>1
<1> QED
  BY <1>4

\* And it grows.
LEMMA SumGrows ==
  ASSUME NEW n \in Nat, NEW d, \A k \in 1 .. n : d[k] \in Nat,
         NEW sum, sum[0] \in Nat, \A k \in 1 .. n : sum[k] = sum[k - 1] + d[k] + 1
  PROVE  /\ \A k \in 0 .. n : sum[k] \in Nat
         /\ \A k, l \in 0 .. n : k < l => sum[k] < sum[l]
<1> DEFINE U == {m \in 0 .. n : sum[m] \in Nat}
<1>1. \A m \in 0 .. n : m \in U
  <2>1. 0 \in U
    OBVIOUS
  <2>2. ASSUME NEW m \in 0 .. n - 1, m \in U PROVE m + 1 \in U
    <3>1. m + 1 \in 1 .. n /\ m + 1 - 1 = m
      OBVIOUS
    <3> QED
      BY <2>2, <3>1
  <2> HIDE DEF U
  <2> QED
    BY <2>1, <2>2, Upwards
<1>2. \A k \in 1 .. n : sum[k - 1] < sum[k] /\ sum[k] \in Nat /\ sum[k - 1] \in Nat
  <2>1. SUFFICES ASSUME NEW k \in 1 .. n
                 PROVE  sum[k - 1] < sum[k] /\ sum[k] \in Nat /\ sum[k - 1] \in Nat
    OBVIOUS
  <2>2. k \in 0 .. n /\ k - 1 \in 0 .. n /\ d[k] \in Nat
    OBVIOUS
  <2> QED
    BY <1>1, <2>2
<1> DEFINE V == {m \in 0 .. n : \A k \in 0 .. n : k < m => sum[k] < sum[m]}
<1>3. \A m \in 0 .. n : m \in V
  <2>1. 0 \in V
    OBVIOUS
  <2>2. ASSUME NEW m \in 0 .. n - 1, m \in V PROVE m + 1 \in V
    <3>1. m + 1 \in 1 .. n /\ m + 1 - 1 = m /\ m + 1 \in 0 .. n /\ m \in 0 .. n
      OBVIOUS
    <3>2. sum[m] < sum[m + 1] /\ sum[m] \in Nat /\ sum[m + 1] \in Nat
      BY <1>2, <3>1
    <3>3. ASSUME NEW k \in 0 .. n, k < m + 1 PROVE sum[k] < sum[m + 1]
      <4>1. k = m \/ k < m
        BY <3>3
      <4>2. sum[k] \in Nat
        BY <1>1
      <4>3. k < m => sum[k] < sum[m]
        BY <2>2
      <4> QED
        BY <3>2, <4>1, <4>2, <4>3
    <3> QED
      BY <3>1, <3>3
  <2> HIDE DEF V
  <2> QED
    BY <2>1, <2>2, Upwards
<1>4. \A k, l \in 0 .. n : k < l => sum[k] < sum[l]
  BY <1>3
<1> QED
  BY <1>1, <1>4

-----------------------------------------------------------------------------
(* Sequences and recursive functions. *)

\* One element of a sequence is replaced.
LEMMA Replaced ==
  ASSUME NEW S, NEW q \in Seq(S), NEW k \in 1 .. Len(q), NEW v \in S
  PROVE  LET r == [q EXCEPT ![k] = v]
         IN  /\ r \in Seq(S) /\ Len(r) = Len(q) /\ DOMAIN r = DOMAIN q /\ r[k] = v
             /\ \A l \in DOMAIN q : l # k => r[l] = q[l]
OBVIOUS

\* One of finitely many numbers is the greatest.
LEMMA GreatestOf ==
  ASSUME NEW n \in Nat, NEW f \in [1 .. n -> Nat], NEW a \in Nat
  PROVE  \E m \in {a} \cup {f[k] : k \in 1 .. n} :
            \A x \in {a} \cup {f[k] : k \in 1 .. n} : x <= m
<1> DEFINE Upto(l) == {a} \cup {f[k] : k \in 1 .. l}
           S == {l \in 0 .. n : \E m \in Upto(l) : m \in Nat /\ \A x \in Upto(l) : x <= m}
<1>1. 0 \in S
  <2>1. Upto(0) = {a} /\ a <= a
    OBVIOUS
  <2> QED
    BY <2>1
<1>2. ASSUME NEW l \in 0 .. n - 1, l \in S
      PROVE  l + 1 \in S
  <2>1. PICK m \in Upto(l) : m \in Nat /\ \A x \in Upto(l) : x <= m
    BY <1>2
  <2>2. PICK b \in Nat : b = f[l + 1]
    OBVIOUS
  <2>3. 1 .. l + 1 = (1 .. l) \cup {l + 1}
    OBVIOUS
  <2>4. Upto(l + 1) = Upto(l) \cup {b}
    BY <2>2, <2>3
  <2> HIDE DEF Upto
  <2>5. CASE m <= b
    <3>1. \A x \in Upto(l + 1) : x <= b
      <4>1. Upto(l) \subseteq Nat
        BY DEF Upto
      <4> QED
        BY <2>1, <2>4, <2>5, <4>1
    <3> QED
      BY SMTT(30), <2>4, <3>1
  <2>6. CASE ~ (m <= b)
    <3>1. \A x \in Upto(l + 1) : x <= m
      BY <2>1, <2>2, <2>4, <2>6
    <3> QED
      BY <2>1, <2>4, <3>1
  <2> QED
    BY <2>5, <2>6
<1>3. n \in S
  <2> HIDE DEF S
  <2>1. \A l \in 0 .. n : l \in S
    BY <1>1, <1>2, Upwards
  <2> QED
    BY <2>1
<1> QED
  BY <1>3

\* f is defined by recursion along 1 .. n, from d with the functions g[i], which give
\* values in D[0], ..., D[n].
Leads(n, D, d, g) == d \in D[0] /\ \A i \in 1 .. n : \A x \in D[i - 1] : g[i][x] \in D[i]
Recurs(f, n, D, d, g) == f[0] = d /\ \A i \in 1 .. n : f[i] = g[i][f[i - 1]] /\ f[i] \in D[i]

\* Such a function exists.
LEMMA Recursion ==
  ASSUME NEW n \in Nat, NEW D, NEW d, NEW g, Leads(n, D, d, g)
  PROVE  \E f : Recurs(f, n, D, d, g)
<1>0. d \in D[0] /\ \A i \in 1 .. n : \A x \in D[i - 1] : g[i][x] \in D[i]
  BY DEF Leads
<1> DEFINE Is(f, m) == /\ f = [i \in 0 .. m |-> IF i = 0 THEN d ELSE g[i][f[i - 1]]]
                       /\ \A i \in 0 .. m : f[i] \in D[i]
           S == {m \in 0 .. n : \E f : Is(f, m)}
<1>1. 0 \in S
  <2> DEFINE f == [i \in 0 .. 0 |-> d]
  <2>1. \A i \in 0 .. 0 : i = 0 /\ f[i] = d /\ f[i] \in D[i]
    BY <1>0
  <2>2. f = [i \in 0 .. 0 |-> IF i = 0 THEN d ELSE g[i][f[i - 1]]]
    BY <2>1
  <2>3. Is(f, 0)
    BY <2>1, <2>2
  <2> HIDE DEF Is
  <2> QED
    BY <2>3
<1>2. ASSUME NEW m \in 0 .. n - 1, m \in S
      PROVE  m + 1 \in S
  <2>1. PICK f : Is(f, m)
    BY <1>2
  <2> DEFINE h == [i \in 0 .. m + 1 |-> IF i = m + 1 THEN g[m + 1][f[m]] ELSE f[i]]
  <2>2. /\ \A i \in 0 .. m : h[i] = f[i] /\ f[i] = (IF i = 0 THEN d ELSE g[i][f[i - 1]])
        /\ h[m + 1] = g[m + 1][f[m]]
    BY <2>1
  <2>3. \A i \in 0 .. m + 1 : h[i] = IF i = 0 THEN d ELSE g[i][h[i - 1]]
    <3>1. SUFFICES ASSUME NEW i \in 0 .. m + 1
                   PROVE  h[i] = IF i = 0 THEN d ELSE g[i][h[i - 1]]
      OBVIOUS
    <3> HIDE DEF h
    <3>2. CASE i = 0
      BY <2>2, <3>2
    <3>3. CASE i \in 1 .. m
      <4>1. i - 1 \in 0 .. m /\ i \in 0 .. m /\ i # 0
        BY <3>3
      <4> QED
        BY <2>2, <4>1
    <3>4. CASE i = m + 1
      <4>1. i - 1 = m /\ m \in 0 .. m /\ i # 0
        BY <3>4
      <4> QED
        BY <2>2, <3>4, <4>1
    <3> QED
      BY <3>2, <3>3, <3>4
  <2>4. \A i \in 0 .. m + 1 : h[i] \in D[i]
    <3>1. \A i \in 0 .. m : h[i] \in D[i]
      BY <2>1, <2>2
    <3>2. f[m] \in D[m + 1 - 1] /\ m + 1 \in 1 .. n
      <4>1. m + 1 - 1 = m
        OBVIOUS
      <4> QED
        BY <2>1, <4>1
    <3>3. h[m + 1] \in D[m + 1]
      BY <1>0, <2>2, <3>2
    <3> QED
      BY <3>1, <3>3
  <2>5. h = [i \in 0 .. m + 1 |-> h[i]]
    OBVIOUS
  <2>6. h = [i \in 0 .. m + 1 |-> IF i = 0 THEN d ELSE g[i][h[i - 1]]]
    <3> HIDE DEF h
    <3> QED
      BY <2>3, <2>5
  <2>7. Is(h, m + 1)
    <3> HIDE DEF h
    <3> QED
      BY <2>4, <2>6
  <2> HIDE DEF Is, h
  <2> QED
    BY <2>7
<1>3. \A m \in 0 .. n : m \in S
  <2> HIDE DEF S
  <2> QED
    BY <1>1, <1>2, Upwards
<1>4. PICK f : Is(f, n)
  BY <1>3
<1>5. f[0] = d /\ \A i \in 1 .. n : f[i] = g[i][f[i - 1]]
  <2>1. \A i \in 0 .. n : f[i] = IF i = 0 THEN d ELSE g[i][f[i - 1]]
    BY <1>4
  <2> QED
    BY <2>1
<1>6. \A i \in 1 .. n : f[i] \in D[i]
  BY <1>4
<1> QED
  BY <1>5, <1>6 DEF Recurs

\* The value of f is found by walking from a place to the next until a stop; each step
\* brings the walk nearer to an end.
Approaches(D, N, far, stop, next) ==
  far \in [D -> 0 .. N] /\ \A y \in D : ~ stop[y] => next[y] \in D /\ far[next[y]] < far[y]
Walks(f, D, stop, out, next) == \A y \in D : f[y] = IF stop[y] THEN out[y] ELSE f[next[y]]

\* Such a function exists.
LEMMA WalkIs ==
  ASSUME NEW D, NEW N \in Nat, NEW far, NEW stop, NEW out, NEW next, Approaches(D, N, far, stop, next)
  PROVE  \E f : Walks(f, D, stop, out, next)
<1>0. far \in [D -> 0 .. N] /\ \A y \in D : ~ stop[y] => next[y] \in D /\ far[next[y]] < far[y]
  BY DEF Approaches
<1> DEFINE Near(m) == {y \in D : far[y] <= m}
           Is(f, m) == f = [y \in Near(m) |-> IF stop[y] THEN out[y] ELSE f[next[y]]]
           S == {m \in 0 .. N : \E f : Is(f, m)}
<1>1. 0 \in S
  <2> DEFINE f == [y \in Near(0) |-> out[y]]
  <2>1. \A y \in Near(0) : stop[y]
    BY <1>0
  <2>2. f = [y \in Near(0) |-> IF stop[y] THEN out[y] ELSE f[next[y]]]
    <3> HIDE DEF Near
    <3> QED
      BY <2>1
  <2>3. Is(f, 0)
    BY <2>2
  <2> HIDE DEF Is
  <2> QED
    BY <2>3
<1>2. ASSUME NEW m \in 0 .. N - 1, m \in S
      PROVE  m + 1 \in S
  <2>1. PICK f : Is(f, m)
    BY <1>2
  <2> DEFINE h == [y \in Near(m + 1) |-> IF stop[y] THEN out[y] ELSE f[next[y]]]
  <2>2. \A y \in Near(m + 1) : ~ stop[y] => next[y] \in Near(m) /\ next[y] \in Near(m + 1)
    BY <1>0
  <2>3. \A y \in Near(m) : y \in Near(m + 1)
    BY <1>0
  <2>4. \A y \in Near(m) : h[y] = f[y]
    <3> HIDE DEF Near
    <3>1. \A y \in Near(m) : f[y] = IF stop[y] THEN out[y] ELSE f[next[y]]
      BY <2>1
    <3> QED
      BY <2>3, <3>1
  <2>5. \A y \in Near(m + 1) : h[y] = IF stop[y] THEN out[y] ELSE h[next[y]]
    <3>1. SUFFICES ASSUME NEW y \in Near(m + 1)
                   PROVE  h[y] = IF stop[y] THEN out[y] ELSE h[next[y]]
      OBVIOUS
    <3>2. h[y] = IF stop[y] THEN out[y] ELSE f[next[y]]
      OBVIOUS
    <3>3. ~ stop[y] => h[next[y]] = f[next[y]]
      BY <2>2, <2>4
    <3> HIDE DEF h, Near
    <3> QED
      BY <3>2, <3>3
  <2>6. h = [y \in Near(m + 1) |-> IF stop[y] THEN out[y] ELSE h[next[y]]]
    <3>1. h = [y \in Near(m + 1) |-> h[y]]
      OBVIOUS
    <3> HIDE DEF h, Near
    <3> QED
      BY <2>5, <3>1
  <2>7. Is(h, m + 1)
    <3> HIDE DEF h, Near
    <3> QED
      BY <2>6
  <2> HIDE DEF Is, h
  <2> QED
    BY <2>7
<1>3. PICK f : Is(f, N)
  <2>1. \A m \in 0 .. N : m \in S
    <3> HIDE DEF S
    <3> QED
      BY <1>1, <1>2, Upwards
  <2> HIDE DEF Is
  <2> QED
    BY <2>1
<1>4. Near(N) = D
  BY <1>0
<1>5. \A y \in D : f[y] = IF stop[y] THEN out[y] ELSE f[next[y]]
  <2> HIDE DEF Near
  <2> QED
    BY <1>3, <1>4
<1> QED
  BY <1>5 DEF Walks

----------------------------------------------------------------------

-------
LEMMA Distribute ==
  ASSUME NEW a \in Int, NEW b \in Int, NEW c \in Int
  PROVE  (a + b) * c = a * c + b * c /\ c * (a + b) = c * a + c * b /\ a * c = c * a
OBVIOUS

LEMMA DivMod ==
  ASSUME NEW a \in Nat, NEW n \in Nat \ {0}
  PROVE  /\ a = n * (a \div n) + (a % n)
         /\ a % n \in 0 .. n - 1 /\ a \div n \in Nat
OBVIOUS

\* Quotient and remainder are the only ones.
LEMMA DivModOf ==
  ASSUME NEW n \in Nat \ {0}, NEW q \in Nat, NEW r \in 0 .. n - 1
  PROVE  (n * q + r) \div n = q /\ (n * q + r) % n = r
<1>1. n * q \in Nat /\ n * q + r \in Nat
  OBVIOUS
<1> QED
  BY <1>1

LEMMA ModPlusMultiple ==
  ASSUME NEW a \in Nat, NEW k \in Nat, NEW n \in Nat \ {0}
  PROVE  (a + n * k) % n = a % n
<1>1. PICK q \in Nat, r \in 0 .. n - 1 : a = n * q + r /\ r = a % n
  BY DivMod
<1>2. a + n * k = n * (q + k) + r
  BY <1>1
<1>3. q + k \in Nat
  OBVIOUS
<1>4. (n * (q + k) + r) % n = r
  BY <1>3, DivModOf
<1> QED
  BY <1>1, <1>2, <1>4

LEMMA ModPlusSelf ==
  ASSUME NEW a \in Nat, NEW n \in Nat \ {0}
  PROVE  (a + n) % n = a % n
<1>1. n * 1 = n
  OBVIOUS
<1>2. (a + n * 1) % n = a % n
  BY ModPlusMultiple
<1> QED
  BY <1>1, <1>2, Zenon

LEMMA ModOfSum ==
  ASSUME NEW a \in Nat, NEW b \in Nat, NEW n \in Nat \ {0}
  PROVE  ((a % n) + b) % n = (a + b) % n
<1>1. PICK q \in Nat, r \in 0 .. n - 1 : a = n * q + r /\ r = a % n
  BY DivMod
<1>2. a + b = (r + b) + n * q
  BY <1>1
<1>3. r + b \in Nat
  OBVIOUS
<1>4. ((r + b) + n * q) % n = (r + b) % n
  BY <1>3, ModPlusMultiple
<1> QED
  BY <1>1, <1>2, <1>4

\* A remainder by a multiple of n has the same remainder by n.
LEMMA ModOfMod ==
  ASSUME NEW a \in Nat, NEW n \in Nat \ {0}, NEW m \in Nat \ {0}
  PROVE  (a % (n * m)) % n = a % n
<1>1. PICK p \in Nat \ {0} : p = n * m
  OBVIOUS
<1>2. PICK q \in Nat, r \in Nat : a = p * q + r /\ r = a % p
  <2>1. a = p * (a \div p) + (a % p) /\ a % p \in Nat /\ a \div p \in Nat
    BY DivMod
  <2> QED
    BY <2>1
<1>3. m * q \in Nat
  OBVIOUS
<1>4. (n * m) * q = n * (m * q)
  OBVIOUS
<1>5. a = r + n * (m * q)
  BY <1>1, <1>2, <1>4
<1>6. (r + n * (m * q)) % n = r % n
  BY <1>3, ModPlusMultiple
<1> QED
  BY <1>1, <1>2, <1>5, <1>6

=============================================================================
