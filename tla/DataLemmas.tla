----------------------------- MODULE DataLemmas -----------------------------
(***************************************************************************)
(* Facts about data that the proofs of several modules need: induction     *)
(* over the naturals for a set of numbers, recursive functions on them,    *)
(* the ranks of the elements of a finite linear order, and what the loops  *)
(* of Loops.tla compute.                                                   *)
(***************************************************************************)
EXTENDS Loops, Integers, Sequences, FiniteSets, FiniteSetTheorems, WellFoundedInduction, TLAPS

(* Every nonempty set of naturals has a least element. *)
LEMMA LeastElement ==
  ASSUME NEW T \in SUBSET Nat, T # {}
  PROVE  \E n \in T : \A m \in T : n <= m
<1>1. PICK n \in T : \A m \in T : <<m, n>> \notin OpToRel(<, Nat)
  <2>1. IsWellFoundedOn(OpToRel(<, Nat), Nat)
    BY NatLessThanWellFounded
  <2> QED BY <2>1, WFMin
<1>2. ASSUME NEW m \in T PROVE ~ (m < n)
  <2>1. <<m, n>> \notin OpToRel(<, Nat) /\ <<m, n>> \in Nat \X Nat
    BY <1>1
  <2> QED BY <2>1, Zenon DEF OpToRel
<1>3. \A m \in T : n <= m
  BY <1>2
<1> QED BY <1>3

(* A set that contains 0 and with every number the next contains them all. *)
LEMMA SetInduction ==
  ASSUME NEW P \in SUBSET Nat, 0 \in P, \A n \in P : n + 1 \in P
  PROVE  P = Nat
<1>1. SUFFICES ASSUME Nat \ P # {} PROVE FALSE
  OBVIOUS
<1>2. PICK n \in Nat \ P : \A m \in Nat \ P : n <= m
  BY <1>1, LeastElement
<1>3. n # 0 /\ n - 1 \in Nat /\ n - 1 + 1 = n
  BY <1>2
<1>4. n - 1 \in P
  BY <1>2, <1>3
<1> QED BY <1>2, <1>3, <1>4

(* A function on the naturals may be given by its first value and a step.  *)
Recurs(f, S, c, step) ==
  /\ f \in [Nat -> S]
  /\ f[0] = c
  /\ \A n \in Nat : f[n + 1] = step[<<f[n], n + 1>>]

LEMMA RecursionOnNat ==
  ASSUME NEW S, NEW c \in S, NEW step \in [S \X Nat -> S]
  PROVE  \E f : Recurs(f, S, c, step)
<1> DEFINE Starts(g, n) == /\ g \in [0..n -> S]
                           /\ g[0] = c
                           /\ \A k \in 0..n : k + 1 <= n => g[k + 1] = step[<<g[k], k + 1>>]
           P == {n \in Nat : \E g : Starts(g, n)}
<1>1. \A n \in Nat : \E g : Starts(g, n)
  <2>1. 0 \in P
    <3>1. Starts([k \in 0..0 |-> c], 0)
      OBVIOUS
    <3> QED BY <3>1
  <2>2. ASSUME NEW n \in P PROVE n + 1 \in P
    <3>1. PICK g : Starts(g, n)
      OBVIOUS
    <3> DEFINE h == [k \in 0..(n + 1) |-> IF k <= n THEN g[k] ELSE step[<<g[n], n + 1>>]]
    <3>2. n \in Nat /\ g[n] \in S /\ step[<<g[n], n + 1>>] \in S
      BY <3>1
    <3>3. h \in [0..(n + 1) -> S] /\ h[0] = c
      BY <3>1, <3>2
    <3>4. ASSUME NEW k \in 0..(n + 1), k + 1 <= n + 1 PROVE h[k + 1] = step[<<h[k], k + 1>>]
      <4>1. k \in 0..n /\ h[k] = g[k]
        BY <3>2, <3>4
      <4>2. CASE k + 1 <= n
        <5>1. h[k + 1] = g[k + 1]
          BY <3>2, <4>1, <4>2
        <5> QED BY <3>1, <4>1, <4>2, <5>1
      <4>3. CASE k = n
        <5>1. h[n + 1] = step[<<g[n], n + 1>>]
          BY <3>2
        <5> QED BY <4>1, <4>3, <5>1
      <4> QED BY <4>1, <4>2, <4>3, <3>2
    <3>5. Starts(h, n + 1)
      BY <3>2, <3>3, <3>4
    <3> HIDE DEF h
    <3> QED BY <3>2, <3>5
  <2> HIDE DEF Starts
  <2>3. P \in SUBSET Nat
    OBVIOUS
  <2>4. P = Nat
    <3> HIDE DEF P
    <3> QED BY <2>1, <2>2, <2>3, SetInduction
  <2> QED BY <2>4
<1>2. ASSUME NEW m \in Nat, NEW g, Starts(g, m), NEW h, Starts(h, m + 1)
      PROVE  \A k \in 0..m : g[k] = h[k]
  <2> DEFINE Q == {k \in Nat : k <= m => g[k] = h[k]}
  <2>1. 0 \in Q
    BY <1>2
  <2>2. ASSUME NEW k \in Q PROVE k + 1 \in Q
    <3>1. SUFFICES ASSUME k + 1 <= m PROVE g[k + 1] = h[k + 1]
      OBVIOUS
    <3>2. k \in 0..m /\ k \in 0..(m + 1) /\ k + 1 <= m + 1 /\ g[k] = h[k]
      BY <3>1
    <3> QED BY <1>2, <3>1, <3>2
  <2>3. Q = Nat
    <3>1. Q \in SUBSET Nat
      OBVIOUS
    <3> HIDE DEF Q
    <3> QED BY <2>1, <2>2, <3>1, SetInduction
  <2> QED BY <2>3
<1> DEFINE G(n) == CHOOSE g : Starts(g, n)
           f == [n \in Nat |-> G(n)[n]]
<1>3. \A n \in Nat : Starts(G(n), n)
  <2> HIDE DEF Starts
  <2> QED BY <1>1
<1>4. f \in [Nat -> S]
  <2> HIDE DEF G
  <2> QED BY <1>3
<1>5. f[0] = c
  <2> HIDE DEF G
  <2> QED BY <1>3
<1>6. ASSUME NEW n \in Nat PROVE f[n + 1] = step[<<f[n], n + 1>>]
  <2>1. Starts(G(n), n) /\ Starts(G(n + 1), n + 1)
    <3>1. n + 1 \in Nat
      OBVIOUS
    <3> HIDE DEF Starts, G
    <3> QED BY <1>3, <3>1
  <2>2. G(n)[n] = G(n + 1)[n]
    <3>1. n \in 0..n
      OBVIOUS
    <3> HIDE DEF Starts, G
    <3>2. \A k \in 0..n : G(n)[k] = G(n + 1)[k]
      BY <1>2, <2>1
    <3> QED BY <3>1, <3>2
  <2> HIDE DEF G
  <2>3. G(n + 1)[n + 1] = step[<<G(n + 1)[n], n + 1>>]
    BY <2>1
  <2> QED BY <2>2, <2>3
<1> HIDE DEF f
<1> QED BY <1>4, <1>5, <1>6 DEF Recurs

-----------------------------------------------------------------------------
(* In a linear order B of 1..n, the element with k - 1 elements before it  *)
(* is at place k: every place is taken, and the places keep the order.     *)
LEMMA Ranks ==
  ASSUME NEW n \in Nat, NEW B \in SUBSET ((1..n) \X (1..n)),
         \A i \in 1..n : <<i, i>> \notin B,
         \A i, j, k \in 1..n : <<i, j>> \in B /\ <<j, k>> \in B => <<i, k>> \in B,
         \A i, j \in 1..n : i # j => <<i, j>> \in B \/ <<j, i>> \in B
  PROVE  LET Rank(i) == Cardinality({j \in 1..n : <<j, i>> \in B}) IN
           /\ \A k \in 1..n : \E i \in 1..n : Rank(i) = k - 1
           /\ \A i, j \in 1..n : <<i, j>> \in B => Rank(i) < Rank(j)
           /\ \A i \in 1..n : Rank(i) \in 0..(n - 1)
<1> DEFINE D == 1..n
           Less(i) == {j \in D : <<j, i>> \in B}
           Rank(i) == Cardinality(Less(i))
           R == [i \in D |-> Rank(i)]
<1>1. IsFiniteSet(D) /\ Cardinality(D) = n
  BY FS_Interval
<1>2. \A i \in D : IsFiniteSet(Less(i)) /\ Rank(i) \in Nat
  <2> SUFFICES ASSUME NEW i \in D PROVE IsFiniteSet(Less(i)) /\ Rank(i) \in Nat
    OBVIOUS
  <2>1. Less(i) \in SUBSET D
    OBVIOUS
  <2> HIDE DEF D, Less
  <2> QED BY <2>1, <1>1, FS_Subset, FS_CardinalityType
<1>3. ASSUME NEW i \in D, NEW j \in D, <<i, j>> \in B PROVE Rank(i) < Rank(j)
  <2>1. Less(i) \in SUBSET Less(j) /\ i \in Less(j) /\ i \notin Less(i)
    BY <1>3
  <2> HIDE DEF D, Less
  <2>2. Rank(i) <= Rank(j) /\ Rank(i) # Rank(j)
    BY <2>1, <1>2, FS_Subset
  <2> QED BY <2>2, <1>2
<1>4. ASSUME NEW i \in D PROVE Rank(i) \in 0..(n - 1)
  <2>1. Less(i) \in SUBSET D /\ i \notin Less(i)
    OBVIOUS
  <2>2. Rank(i) <= n /\ Rank(i) # n
    <3> HIDE DEF D, Less
    <3>1. Cardinality(Less(i)) <= Cardinality(D) /\ Cardinality(D) # Cardinality(Less(i))
      BY <2>1, <1>1, FS_Subset
    <3> QED BY <3>1, <1>1
  <2>3. Rank(i) \in Nat
    BY <1>2
  <2> HIDE DEF Rank
  <2> QED BY <2>2, <2>3
<1>5. \A k \in 1..n : \E i \in D : Rank(i) = k - 1
  <2>1. R \in Injection(D, 0..(n - 1))
    <3>1. R \in [D -> 0..(n - 1)]
      BY <1>4
    <3>2. ASSUME NEW i \in D, NEW j \in D, R[i] = R[j] PROVE i = j
      <4>1. Rank(i) = Rank(j) /\ Rank(i) \in Nat
        BY <3>2, <1>2
      <4> HIDE DEF D, Less, Rank
      <4>2. i # j => Rank(i) < Rank(j) \/ Rank(j) < Rank(i)
        BY <1>3 DEF D
      <4> QED BY <4>1, <4>2
    <3> HIDE DEF R
    <3>3. DOMAIN R = D
      BY <3>1
    <3> QED BY <3>1, <3>2, <3>3 DEF Injection, IsInjective
  <2>2. IsFiniteSet(0..(n - 1)) /\ Cardinality(0..(n - 1)) = n
    BY FS_Interval
  <2>3. R \in Surjection(D, 0..(n - 1))
    <3> HIDE DEF D, R
    <3> QED BY <2>1, <2>2, <1>1, FS_Injection
  <2>4. \A t \in 0..(n - 1) : \E i \in D : R[i] = t
    BY <2>3 DEF Surjection
  <2> QED BY <2>4
<1> QED BY <1>3, <1>4, <1>5

(* So choosing the element of every rank lists 1..n in the order B. *)
LEMMA SortedByRank ==
  ASSUME NEW n \in Nat, NEW B \in SUBSET ((1..n) \X (1..n)),
         \A i \in 1..n : <<i, i>> \notin B,
         \A i, j, k \in 1..n : <<i, j>> \in B /\ <<j, k>> \in B => <<i, k>> \in B,
         \A i, j \in 1..n : i # j => <<i, j>> \in B \/ <<j, i>> \in B
  PROVE  LET At(k) == CHOOSE i \in 1..n : Cardinality({j \in 1..n : <<j, i>> \in B}) = k - 1 IN
           /\ \A k \in 1..n : At(k) \in 1..n
           /\ \A k, l \in 1..n : k < l => <<At(k), At(l)>> \in B
           /\ \A i \in 1..n : \E k \in 1..n : At(k) = i
<1> DEFINE Rank(i) == Cardinality({j \in 1..n : <<j, i>> \in B})
           At(k) == CHOOSE i \in 1..n : Rank(i) = k - 1
<1>1. /\ \A k \in 1..n : \E i \in 1..n : Rank(i) = k - 1
      /\ \A i, j \in 1..n : <<i, j>> \in B => Rank(i) < Rank(j)
      /\ \A i \in 1..n : Rank(i) \in 0..(n - 1)
  BY Ranks
<1> HIDE DEF Rank
<1>2. \A k \in 1..n : At(k) \in 1..n /\ Rank(At(k)) = k - 1
  BY <1>1
<1> HIDE DEF At
<1>3. ASSUME NEW k \in 1..n, NEW l \in 1..n, k < l PROVE <<At(k), At(l)>> \in B
  <2>1. Rank(At(k)) < Rank(At(l)) /\ Rank(At(k)) \in Nat /\ Rank(At(l)) \in Nat
    BY <1>2, <1>3
  <2>2. At(k) # At(l) /\ At(k) \in 1..n /\ At(l) \in 1..n
    BY <1>2, <2>1
  <2>3. <<At(l), At(k)>> \in B => Rank(At(l)) < Rank(At(k))
    BY <1>1, <2>2
  <2> QED BY <2>1, <2>2, <2>3
<1>4. ASSUME NEW i \in 1..n PROVE \E k \in 1..n : At(k) = i
  <2>1. Rank(i) + 1 \in 1..n /\ Rank(i) \in Nat
    BY <1>1
  <2>2. PICK k \in 1..n : k = Rank(i) + 1
    BY <2>1
  <2>3. At(k) \in 1..n /\ Rank(At(k)) = Rank(i)
    BY <1>2, <2>1, <2>2
  <2>4. ~ (<<i, At(k)>> \in B) /\ ~ (<<At(k), i>> \in B)
    BY <1>1, <2>1, <2>3
  <2>5. At(k) = i
    BY <2>3, <2>4
  <2> QED BY <2>5
<1> QED BY <1>2, <1>3, <1>4 DEF At, Rank
-----------------------------------------------------------------------------
(* The recursive function Total exists, so that it has the values it is    *)
(* given by.                                                               *)
LEMMA Totals ==
  ASSUME NEW ws \in Seq(Nat)
  PROVE  /\ Total(ws)[0] = 0
         /\ \A k \in Nat : k <= Len(ws) => Total(ws)[k] \in Nat
         /\ \A k \in Nat : k < Len(ws) => Total(ws)[k + 1] = Total(ws)[k] + ws[k + 1]
<1> DEFINE step == [p \in Nat \X Nat |-> IF 1 <= p[2] /\ p[2] <= Len(ws) THEN p[1] + ws[p[2]] ELSE p[1]]
           Adds(g) == g = [k \in 0..Len(ws) |-> IF k = 0 THEN 0 ELSE g[k - 1] + ws[k]]
<1>0. Len(ws) \in Nat /\ \A k \in Nat : 1 <= k /\ k <= Len(ws) => ws[k] \in Nat
  OBVIOUS
<1>1. PICK f : Recurs(f, Nat, 0, step)
  <2>1. step \in [Nat \X Nat -> Nat] /\ 0 \in Nat
    BY <1>0
  <2> HIDE DEF step
  <2> QED BY <2>1, RecursionOnNat
<1>2. /\ f[0] = 0 /\ f \in [Nat -> Nat]
      /\ \A k \in Nat : k < Len(ws) => f[k + 1] = f[k] + ws[k + 1]
  <2>1. \A a, b \in Nat : 1 <= b /\ b <= Len(ws) => step[<<a, b>>] = a + ws[b]
    OBVIOUS
  <2> HIDE DEF step
  <2>2. f \in [Nat -> Nat] /\ f[0] = 0 /\ \A k \in Nat : f[k + 1] = step[<<f[k], k + 1>>]
    BY <1>1 DEF Recurs
  <2>3. ASSUME NEW k \in Nat, k < Len(ws) PROVE f[k + 1] = f[k] + ws[k + 1]
    <3>1. k + 1 \in Nat /\ 1 <= k + 1 /\ k + 1 <= Len(ws) /\ f[k] \in Nat
      BY <2>2, <2>3, <1>0
    <3>2. f[k + 1] = step[<<f[k], k + 1>>]
      BY <2>2
    <3> QED BY <2>1, <3>1, <3>2
  <2> QED BY <2>2, <2>3
<1>3. Adds([k \in 0..Len(ws) |-> f[k]])
  <2> DEFINE g == [k \in 0..Len(ws) |-> f[k]]
  <2>1. ASSUME NEW k \in 0..Len(ws) PROVE g[k] = IF k = 0 THEN 0 ELSE g[k - 1] + ws[k]
    <3>1. CASE k = 0
      BY <3>1, <1>0, <1>2
    <3>2. CASE k # 0
      <4>1. k - 1 \in Nat /\ k - 1 + 1 = k /\ k - 1 < Len(ws) /\ k - 1 \in 0..Len(ws)
        BY <3>2, <1>0
      <4>2. f[k] = f[k - 1] + ws[k]
        BY <4>1, <1>2
      <4> QED BY <3>2, <4>1, <4>2
    <3> QED BY <3>1, <3>2
  <2> QED BY <2>1
<1>4. Adds(Total(ws))
  <2> HIDE DEF Adds
  <2>1. Total(ws) = CHOOSE g : Adds(g)
    BY Zenon DEF Total, Adds
  <2> QED BY <1>3, <2>1
<1> DEFINE t == Total(ws)
<1>5. t = [k \in 0..Len(ws) |-> IF k = 0 THEN 0 ELSE t[k - 1] + ws[k]]
  BY <1>4
<1> HIDE DEF t
<1>6. \A k \in 0..Len(ws) : t[k] = IF k = 0 THEN 0 ELSE t[k - 1] + ws[k]
  BY <1>5
<1>7. t[0] = 0
  BY <1>6, <1>0
<1>8. ASSUME NEW k \in Nat, k < Len(ws) PROVE t[k + 1] = t[k] + ws[k + 1]
  <2>1. k + 1 \in 0..Len(ws) /\ k + 1 # 0 /\ k + 1 - 1 = k
    BY <1>8, <1>0
  <2> QED BY <1>6, <2>1
<1>9. \A k \in Nat : k <= Len(ws) => t[k] \in Nat
  <2> DEFINE T == {k \in Nat : k <= Len(ws) => t[k] \in Nat}
  <2>1. T \in SUBSET Nat /\ 0 \in T
    BY <1>7
  <2>2. ASSUME NEW k \in T PROVE k + 1 \in T
    <3>1. k \in Nat /\ (k <= Len(ws) => t[k] \in Nat)
      OBVIOUS
    <3>2. SUFFICES ASSUME k + 1 <= Len(ws) PROVE t[k + 1] \in Nat
      BY <3>1
    <3>3. k < Len(ws) /\ k <= Len(ws) /\ ws[k + 1] \in Nat
      BY <3>1, <3>2, <1>0
    <3> QED BY <3>1, <3>3, <1>8
  <2>3. T = Nat
    <3> HIDE DEF T
    <3> QED BY <2>1, <2>2, SetInduction
  <2> QED BY <2>3
<1> QED BY <1>7, <1>8, <1>9 DEF t

(* More words, more characters. *)
LEMMA TotalsGrow ==
  ASSUME NEW ws \in Seq(Nat), NEW k \in Nat, NEW l \in Nat, k <= l, l <= Len(ws)
  PROVE  Total(ws)[k] <= Total(ws)[l]
<1> DEFINE T == {n \in Nat : k + n <= Len(ws) => Total(ws)[k] <= Total(ws)[k + n]}
<1>0. Len(ws) \in Nat /\ \A n \in Nat : 1 <= n /\ n <= Len(ws) => ws[n] \in Nat
  OBVIOUS
<1>1. T \in SUBSET Nat /\ 0 \in T
  <2>1. Total(ws)[k] \in Nat
    BY <1>0, Totals
  <2>2. k + 0 = k
    OBVIOUS
  <2> QED BY <2>1, <2>2
<1>2. ASSUME NEW n \in T PROVE n + 1 \in T
  <2>1. SUFFICES ASSUME k + n + 1 <= Len(ws) PROVE Total(ws)[k] <= Total(ws)[k + n + 1]
    <3>1. k + (n + 1) = k + n + 1 /\ n + 1 \in Nat
      OBVIOUS
    <3> QED BY <3>1
  <2>2. k + n \in Nat /\ k + n < Len(ws) /\ k + n <= Len(ws) /\ k <= Len(ws)
    BY <2>1, <1>0
  <2>3. Total(ws)[k] <= Total(ws)[k + n]
    BY <2>2
  <2>4. Total(ws)[k + n + 1] = Total(ws)[k + n] + ws[k + n + 1]
    BY <2>2, Totals
  <2>5. Total(ws)[k + n] \in Nat /\ Total(ws)[k] \in Nat /\ ws[k + n + 1] \in Nat
    BY <2>1, <2>2, <1>0, Totals
  <2> QED BY <2>3, <2>4, <2>5
<1>3. T = Nat
  <2> HIDE DEF T
  <2> QED BY <1>1, <1>2, SetInduction
<1>4. l - k \in Nat /\ k + (l - k) = l
  OBVIOUS
<1>5. l - k \in T
  BY <1>3, <1>4
<1> QED BY <1>4, <1>5

-----------------------------------------------------------------------------
(* The filter exists as well. *)
LEMMA FilterSteps ==
  ASSUME NEW S, NEW s \in Seq(S), NEW T
  PROVE  /\ FilterUpTo(s, T)[0] = <<>>
         /\ \A k \in Nat : k < Len(s) =>
              FilterUpTo(s, T)[k + 1] = IF s[k + 1] \in T
                                      THEN Append(FilterUpTo(s, T)[k], s[k + 1])
                                      ELSE FilterUpTo(s, T)[k]
<1> DEFINE step == [p \in Seq(S) \X Nat |->
                      IF 1 <= p[2] /\ p[2] <= Len(s) /\ s[p[2]] \in T
                      THEN Append(p[1], s[p[2]]) ELSE p[1]]
           Keeps(g) == g = [k \in 0..Len(s) |->
                              IF k = 0 THEN <<>>
                              ELSE IF s[k] \in T THEN Append(g[k - 1], s[k]) ELSE g[k - 1]]
<1>0. Len(s) \in Nat /\ \A k \in Nat : 1 <= k /\ k <= Len(s) => s[k] \in S
  OBVIOUS
<1>1. PICK f : Recurs(f, Seq(S), <<>>, step)
  <2>1. ASSUME NEW q \in Seq(S), NEW k \in Nat
        PROVE  (IF 1 <= k /\ k <= Len(s) /\ s[k] \in T THEN Append(q, s[k]) ELSE q) \in Seq(S)
    <3>1. CASE 1 <= k /\ k <= Len(s) /\ s[k] \in T
      <4>1. s[k] \in S
        BY <3>1, <1>0
      <4>2. Append(q, s[k]) \in Seq(S)
        BY <4>1
      <4> QED BY <3>1, <4>2
    <3>2. CASE ~ (1 <= k /\ k <= Len(s) /\ s[k] \in T)
      BY <3>2, Zenon
    <3> QED BY <3>1, <3>2
  <2>2. step \in [Seq(S) \X Nat -> Seq(S)]
    BY <2>1
  <2>3. <<>> \in Seq(S)
    OBVIOUS
  <2> HIDE DEF step
  <2> QED BY <2>2, <2>3, RecursionOnNat
<1>2. /\ f[0] = <<>>
      /\ \A k \in Nat : k < Len(s) =>
           f[k + 1] = IF s[k + 1] \in T THEN Append(f[k], s[k + 1]) ELSE f[k]
  <2>1. \A a \in Seq(S), b \in Nat : 1 <= b /\ b <= Len(s) =>
          step[<<a, b>>] = IF s[b] \in T THEN Append(a, s[b]) ELSE a
    OBVIOUS
  <2> HIDE DEF step
  <2>2. /\ f \in [Nat -> Seq(S)] /\ f[0] = <<>>
        /\ \A k \in Nat : f[k + 1] = step[<<f[k], k + 1>>]
    BY <1>1 DEF Recurs
  <2>3. ASSUME NEW k \in Nat, k < Len(s)
        PROVE  f[k + 1] = IF s[k + 1] \in T THEN Append(f[k], s[k + 1]) ELSE f[k]
    <3>1. k + 1 \in Nat /\ 1 <= k + 1 /\ k + 1 <= Len(s)
      BY <2>3, <1>0
    <3>2. f[k] \in Seq(S)
      BY <2>2
    <3>3. f[k + 1] = step[<<f[k], k + 1>>]
      BY <2>2
    <3> QED BY <2>1, <3>1, <3>2, <3>3
  <2> QED BY <2>2, <2>3
<1>3. Keeps([k \in 0..Len(s) |-> f[k]])
  <2> DEFINE g == [k \in 0..Len(s) |-> f[k]]
  <2>1. ASSUME NEW k \in 0..Len(s)
        PROVE  g[k] = IF k = 0 THEN <<>>
                      ELSE IF s[k] \in T THEN Append(g[k - 1], s[k]) ELSE g[k - 1]
    <3>1. CASE k = 0
      BY <3>1, <1>0, <1>2
    <3>2. CASE k # 0
      <4>1. k - 1 \in Nat /\ k - 1 + 1 = k /\ k - 1 < Len(s) /\ k - 1 \in 0..Len(s)
        BY <3>2, <1>0
      <4>2. f[k] = IF s[k] \in T THEN Append(f[k - 1], s[k]) ELSE f[k - 1]
        BY <4>1, <1>2
      <4>3. g[k] = f[k] /\ g[k - 1] = f[k - 1]
        BY <4>1
      <4> HIDE DEF g
      <4> QED BY <3>2, <4>2, <4>3, Zenon
    <3> QED BY <3>1, <3>2
  <2> QED BY <2>1
<1>4. Keeps(FilterUpTo(s, T))
  <2> HIDE DEF Keeps
  <2>1. FilterUpTo(s, T) = CHOOSE g : Keeps(g)
    BY Zenon DEF FilterUpTo, Keeps
  <2> QED BY <1>3, <2>1
<1> DEFINE u == FilterUpTo(s, T)
<1>5. \A k \in 0..Len(s) :
        u[k] = IF k = 0 THEN <<>> ELSE IF s[k] \in T THEN Append(u[k - 1], s[k]) ELSE u[k - 1]
  <2> HIDE DEF u
  <2>1. Keeps(u)
    BY <1>4 DEF u
  <2> QED BY <2>1
<1> HIDE DEF u
<1>6. u[0] = <<>>
  BY <1>5, <1>0
<1>7. ASSUME NEW k \in Nat, k < Len(s)
      PROVE  u[k + 1] = IF s[k + 1] \in T THEN Append(u[k], s[k + 1]) ELSE u[k]
  <2>1. k + 1 \in 0..Len(s) /\ k + 1 # 0 /\ k + 1 - 1 = k
    BY <1>7, <1>0
  <2> QED BY <1>5, <2>1
<1> QED BY <1>6, <1>7 DEF u

(* What is kept are the elements in T, each of them, and in their order.   *)
KeepsOrder(s, T, k, q) ==
  /\ \A m \in DOMAIN q : q[m] \in T /\ \E i \in Nat : 1 <= i /\ i <= k /\ q[m] = s[i]
  /\ \A l, m \in DOMAIN q : l < m =>
       \E i, j \in Nat : 1 <= i /\ i < j /\ j <= k /\ q[l] = s[i] /\ q[m] = s[j]
  /\ \A i \in Nat : 1 <= i /\ i <= k /\ s[i] \in T => \E m \in DOMAIN q : q[m] = s[i]

LEMMA FilteredSoFar ==
  ASSUME NEW S, NEW s \in Seq(S), NEW T
  PROVE  \A k \in Nat : k <= Len(s) =>
           FilterUpTo(s, T)[k] \in Seq(S) /\ KeepsOrder(s, T, k, FilterUpTo(s, T)[k])
<1> DEFINE u == FilterUpTo(s, T)
           Good(k) == u[k] \in Seq(S) /\ KeepsOrder(s, T, k, u[k])
           P == {k \in Nat : k <= Len(s) => Good(k)}
<1>0. Len(s) \in Nat /\ \A k \in Nat : 1 <= k /\ k <= Len(s) => s[k] \in S
  OBVIOUS
<1>1. /\ u[0] = <<>>
      /\ \A k \in Nat : k < Len(s) =>
           u[k + 1] = IF s[k + 1] \in T THEN Append(u[k], s[k + 1]) ELSE u[k]
  BY FilterSteps
<1> HIDE DEF u
<1>2. 0 \in P /\ P \in SUBSET Nat
  <2>1. <<>> \in Seq(S) /\ DOMAIN <<>> = {}
    OBVIOUS
  <2>2. Good(0)
    BY <1>1, <2>1 DEF KeepsOrder
  <2> HIDE DEF Good
  <2> QED BY <2>2
<1>3. ASSUME NEW k \in P PROVE k + 1 \in P
  <2>0. SUFFICES ASSUME k + 1 <= Len(s) PROVE Good(k + 1)
    OBVIOUS
  <2>1. k \in Nat /\ k < Len(s) /\ k <= Len(s) /\ k + 1 \in Nat /\ 1 <= k + 1
    BY <2>0, <1>0
  <2>2. Good(k)
    BY <2>1
  <2> HIDE DEF P
  <2>3. PICK old \in Seq(S) : old = u[k]
    BY <2>2
  <2>4. PICK x \in S : x = s[k + 1]
    BY <2>0, <2>1, <1>0
  <2>5. KeepsOrder(s, T, k, old)
    BY <2>2, <2>3
  <2>6. CASE x \notin T
    <3>1. u[k + 1] = old
      BY <2>1, <2>3, <2>4, <2>6, <1>1
    <3>2. \A m \in DOMAIN old : old[m] \in T /\ \E i \in Nat : 1 <= i /\ i <= k + 1 /\ old[m] = s[i]
      <4>1. ASSUME NEW m \in DOMAIN old
            PROVE  old[m] \in T /\ \E i \in Nat : 1 <= i /\ i <= k + 1 /\ old[m] = s[i]
        <5>1. PICK i \in Nat : 1 <= i /\ i <= k /\ old[m] = s[i]
          BY <2>5 DEF KeepsOrder
        <5>2. old[m] \in T
          BY <2>5 DEF KeepsOrder
        <5>3. i <= k + 1
          BY <5>1, <2>1
        <5> QED BY <5>1, <5>2, <5>3
      <4> QED BY <4>1
    <3>3. ASSUME NEW l \in DOMAIN old, NEW m \in DOMAIN old, l < m
          PROVE  \E i, j \in Nat : 1 <= i /\ i < j /\ j <= k + 1 /\ old[l] = s[i] /\ old[m] = s[j]
      <4>1. PICK i \in Nat, j \in Nat : 1 <= i /\ i < j /\ j <= k /\ old[l] = s[i] /\ old[m] = s[j]
        BY <2>5, <3>3 DEF KeepsOrder
      <4>2. j <= k + 1
        BY <4>1, <2>1
      <4> QED BY <4>1, <4>2
    <3>4. \A i \in Nat : 1 <= i /\ i <= k + 1 /\ s[i] \in T => \E m \in DOMAIN old : old[m] = s[i]
      BY <2>1, <2>4, <2>5, <2>6 DEF KeepsOrder
    <3>5. KeepsOrder(s, T, k + 1, old)
      BY <3>2, <3>3, <3>4 DEF KeepsOrder
    <3> QED BY <3>1, <3>5
  <2>7. CASE x \in T
    <3>1. PICK new : new = Append(old, x)
      OBVIOUS
    <3>2. u[k + 1] = new
      BY <2>1, <2>3, <2>4, <2>7, <3>1, <1>1
    <3>3. /\ new \in Seq(S) /\ Len(old) \in Nat /\ Len(new) = Len(old) + 1
          /\ DOMAIN old = 1..Len(old) /\ DOMAIN new = 1..(Len(old) + 1)
      BY <3>1
    <3>4. new[Len(old) + 1] = x /\ \A m \in DOMAIN old : new[m] = old[m] /\ m \in DOMAIN new
      BY <3>1
    <3>5. ASSUME NEW m \in DOMAIN new PROVE m \in DOMAIN old \/ m = Len(old) + 1
      BY <3>3
    <3>6. ASSUME NEW m \in DOMAIN new
          PROVE  new[m] \in T /\ \E i \in Nat : 1 <= i /\ i <= k + 1 /\ new[m] = s[i]
      <4>1. CASE m \in DOMAIN old
        <5>1. PICK i \in Nat : 1 <= i /\ i <= k /\ old[m] = s[i]
          BY <4>1, <2>5 DEF KeepsOrder
        <5>2. old[m] \in T
          BY <4>1, <2>5 DEF KeepsOrder
        <5>3. i <= k + 1
          BY <5>1, <2>1
        <5> QED BY <4>1, <5>1, <5>2, <5>3, <3>4
      <4>2. CASE m = Len(old) + 1
        BY <4>2, <2>1, <2>4, <2>7, <3>4
      <4> QED BY <3>5, <4>1, <4>2
    <3>7. ASSUME NEW l \in DOMAIN new, NEW m \in DOMAIN new, l < m
          PROVE  \E i, j \in Nat : 1 <= i /\ i < j /\ j <= k + 1 /\ new[l] = s[i] /\ new[m] = s[j]
      <4>1. l \in DOMAIN old
        BY <3>3, <3>7
      <4>2. CASE m \in DOMAIN old
        <5>1. PICK i \in Nat, j \in Nat : 1 <= i /\ i < j /\ j <= k /\ old[l] = s[i] /\ old[m] = s[j]
          BY <4>1, <4>2, <2>5, <3>7 DEF KeepsOrder
        <5>2. j <= k + 1
          BY <5>1, <2>1
        <5> QED BY <4>1, <4>2, <5>1, <5>2, <3>4
      <4>3. CASE m = Len(old) + 1
        <5>1. PICK i \in Nat : 1 <= i /\ i <= k /\ old[l] = s[i]
          BY <4>1, <2>5 DEF KeepsOrder
        <5>2. i < k + 1 /\ new[l] = s[i] /\ new[m] = s[k + 1]
          BY <4>1, <4>3, <5>1, <2>1, <2>4, <3>4
        <5> QED BY <5>1, <5>2, <2>1
      <4> QED BY <3>5, <4>2, <4>3
    <3>8. ASSUME NEW i \in Nat, 1 <= i, i <= k + 1, s[i] \in T
          PROVE  \E m \in DOMAIN new : new[m] = s[i]
      <4>1. CASE i <= k
        <5>1. PICK m \in DOMAIN old : old[m] = s[i]
          BY <4>1, <2>5, <3>8 DEF KeepsOrder
        <5> QED BY <5>1, <3>4
      <4>2. CASE i = k + 1
        <5>1. Len(old) + 1 \in DOMAIN new
          BY <3>3
        <5> QED BY <4>2, <5>1, <2>4, <3>4
      <4> QED BY <4>1, <4>2, <2>1, <3>8
    <3>9. KeepsOrder(s, T, k + 1, new)
      BY <3>6, <3>7, <3>8 DEF KeepsOrder
    <3> QED BY <3>2, <3>3, <3>9
  <2> QED BY <2>6, <2>7
<1>4. P = Nat
  <2> HIDE DEF P
  <2> QED BY <1>2, <1>3, SetInduction
<1> QED BY <1>4 DEF u

LEMMA Filtering ==
  ASSUME NEW S, NEW s \in Seq(S), NEW T
  PROVE  Filter(s, T) \in Seq(S) /\ KeepsOrder(s, T, Len(s), Filter(s, T))
<1>1. Len(s) \in Nat
  OBVIOUS
<1> QED BY <1>1, FilteredSoFar DEF Filter

(* One more element: the filter keeps it at the end or drops it. *)
LEMMA FilterAppend ==
  ASSUME NEW S, NEW s \in Seq(S), NEW x \in S, NEW T
  PROVE  Filter(Append(s, x), T) = IF x \in T THEN Append(Filter(s, T), x) ELSE Filter(s, T)
<1> DEFINE t == Append(s, x)
           P == {k \in Nat : k <= Len(s) => FilterUpTo(t, T)[k] = FilterUpTo(s, T)[k]}
<1>1. /\ t \in Seq(S) /\ Len(s) \in Nat /\ Len(t) = Len(s) + 1 /\ t[Len(s) + 1] = x
      /\ \A k \in Nat : 1 <= k /\ k <= Len(s) => t[k] = s[k]
  OBVIOUS
<1> HIDE DEF t
<1>2. 0 \in P /\ P \in SUBSET Nat
  BY <1>1, FilterSteps
<1>3. ASSUME NEW k \in P PROVE k + 1 \in P
  <2>1. SUFFICES ASSUME k + 1 <= Len(s) PROVE FilterUpTo(t, T)[k + 1] = FilterUpTo(s, T)[k + 1]
    OBVIOUS
  <2>2. k \in Nat /\ k < Len(s) /\ k <= Len(s) /\ k < Len(t) /\ 1 <= k + 1 /\ k + 1 \in Nat
    BY <2>1, <1>1
  <2>3. t[k + 1] = s[k + 1] /\ FilterUpTo(t, T)[k] = FilterUpTo(s, T)[k]
    BY <2>1, <2>2, <1>1
  <2>4. FilterUpTo(t, T)[k + 1] = IF t[k + 1] \in T THEN Append(FilterUpTo(t, T)[k], t[k + 1])
                                  ELSE FilterUpTo(t, T)[k]
    BY <2>2, <1>1, FilterSteps
  <2>5. FilterUpTo(s, T)[k + 1] = IF s[k + 1] \in T THEN Append(FilterUpTo(s, T)[k], s[k + 1])
                                  ELSE FilterUpTo(s, T)[k]
    BY <2>2, FilterSteps
  <2> QED BY <2>3, <2>4, <2>5
<1>4. P = Nat
  <2> HIDE DEF P
  <2> QED BY <1>2, <1>3, SetInduction
<1>5. FilterUpTo(t, T)[Len(s)] = FilterUpTo(s, T)[Len(s)]
  BY <1>1, <1>4
<1>6. FilterUpTo(t, T)[Len(s) + 1] = IF x \in T THEN Append(FilterUpTo(t, T)[Len(s)], x)
                                     ELSE FilterUpTo(t, T)[Len(s)]
  <2>1. Len(s) < Len(t) /\ Len(s) \in Nat
    BY <1>1
  <2> QED BY <2>1, <1>1, FilterSteps
<1> QED BY <1>1, <1>5, <1>6 DEF Filter, t

(* One more number: the sum grows by it. *)
LEMMA TotalAppend ==
  ASSUME NEW ws \in Seq(Nat), NEW x \in Nat
  PROVE  Total(Append(ws, x))[Len(ws) + 1] = Total(ws)[Len(ws)] + x
<1> DEFINE t == Append(ws, x)
           P == {k \in Nat : k <= Len(ws) => Total(t)[k] = Total(ws)[k]}
<1>1. /\ t \in Seq(Nat) /\ Len(ws) \in Nat /\ Len(t) = Len(ws) + 1 /\ t[Len(ws) + 1] = x
      /\ \A k \in Nat : 1 <= k /\ k <= Len(ws) => t[k] = ws[k]
  OBVIOUS
<1> HIDE DEF t
<1>2. 0 \in P /\ P \in SUBSET Nat
  BY <1>1, Totals
<1>3. ASSUME NEW k \in P PROVE k + 1 \in P
  <2>1. SUFFICES ASSUME k + 1 <= Len(ws) PROVE Total(t)[k + 1] = Total(ws)[k + 1]
    OBVIOUS
  <2>2. k \in Nat /\ k < Len(ws) /\ k <= Len(ws) /\ k < Len(t) /\ 1 <= k + 1 /\ k + 1 \in Nat
    BY <2>1, <1>1
  <2>3. t[k + 1] = ws[k + 1] /\ Total(t)[k] = Total(ws)[k]
    BY <2>1, <2>2, <1>1
  <2>4. Total(t)[k + 1] = Total(t)[k] + t[k + 1]
    BY <2>2, <1>1, Totals
  <2>5. Total(ws)[k + 1] = Total(ws)[k] + ws[k + 1]
    BY <2>2, Totals
  <2> QED BY <2>3, <2>4, <2>5, Zenon
<1>4. P = Nat
  <2> HIDE DEF P
  <2> QED BY <1>2, <1>3, SetInduction
<1>5. Total(t)[Len(ws)] = Total(ws)[Len(ws)]
  BY <1>1, <1>4
<1>6. Total(t)[Len(ws) + 1] = Total(t)[Len(ws)] + x
  <2>1. Len(ws) < Len(t) /\ Len(ws) \in Nat
    BY <1>1
  <2> QED BY <2>1, <1>1, Totals
<1> QED BY <1>5, <1>6 DEF t
=============================================================================
