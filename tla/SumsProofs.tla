----------------------------- MODULE SumsProofs -----------------------------
(***************************************************************************)
(* What a sum over positions does when positions change. The induction     *)
(* these facts need is drawn from the cardinality of finite sets: a set of *)
(* numbers that is closed under the successor cannot stop below its bound. *)
(***************************************************************************)
EXTENDS Sums, FiniteSetTheorems, TLAPS

(* A set with 0 and every successor below n reaches n.                     *)
LEMMA Reaches ==
    ASSUME NEW n \in Nat, NEW G \in SUBSET (0..n), 0 \in G,
           \A i \in 0..n - 1 : i \in G => i + 1 \in G
    PROVE  n \in G
<1> SUFFICES ASSUME n \notin G PROVE FALSE
  OBVIOUS
<1> DEFINE f == [i \in G |-> i + 1]
<1>1. IsFiniteSet(G) /\ Cardinality(G) \in Nat
  <2>1. IsFiniteSet(0..n)
    BY FS_Interval, SMT
  <2>2. IsFiniteSet(G)
    BY <2>1, FS_Subset
  <2> QED
    BY <2>2, FS_CardinalityType
<1>2. IsFiniteSet(G \ {0}) /\ Cardinality(G \ {0}) = Cardinality(G) - 1
  BY <1>1, FS_RemoveElement
<1>3. f \in Injection(G, G \ {0})
  <2>1. \A i \in G : i \in 0..n - 1 /\ i + 1 \in G \ {0}
    BY SMT
  <2>2. f \in [G -> G \ {0}]
    BY <2>1
  <2>3. \A i, j \in G : f[i] = f[j] => i = j
    BY SMT
  <2> QED
    BY <2>2, <2>3, Zenon DEF Injection, IsInjective
<1>4. Cardinality(G) <= Cardinality(G \ {0})
  BY <1>2, <1>3, FS_Injection
<1> QED
  BY <1>1, <1>2, <1>4, SMT

(* Induction up to n, for a set.                                           *)
LEMMA Climb ==
    ASSUME NEW n \in Nat, NEW G \in SUBSET (0..n), 0 \in G,
           \A i \in 0..n - 1 : i \in G => i + 1 \in G
    PROVE  \A m \in 0..n : m \in G
<1> TAKE m \in 0..n
<1> DEFINE H == G \cap (0..m)
<1>1. m \in Nat /\ H \in SUBSET (0..m) /\ 0 \in H
  OBVIOUS
<1>2. \A i \in 0..m - 1 : i \in H => i + 1 \in H
  OBVIOUS
<1>3. m \in H
  <2> HIDE DEF H
  <2> QED
    BY <1>1, <1>2, Reaches
<1> QED
  BY <1>3

----------------------------------------------------------------------------
(* s holds the partial sums of f.                                          *)
PartialSums(s, f, n) ==
    /\ s \in [0..n -> Int]
    /\ s[0] = 0
    /\ \A i \in 1..n : s[i] = s[i - 1] + f[i]

LEMMA PartialSumsExist ==
    ASSUME NEW n \in Nat, NEW f \in [1..n -> Int]
    PROVE  \E s : PartialSums(s, f, n)
<1> DEFINE G == {k \in 0..n : \E s : PartialSums(s, f, k)}
<1>1. 0 \in G
  <2>1. PartialSums([i \in 0..0 |-> 0], f, 0)
    BY SMT DEF PartialSums
  <2> QED
    BY <2>1
<1>2. ASSUME NEW k \in 0..n - 1, k \in G
      PROVE  k + 1 \in G
  <2>1. PICK s : PartialSums(s, f, k)
    BY <1>2
  <2> DEFINE t == [i \in 0..k + 1 |-> IF i = k + 1 THEN s[k] + f[k + 1] ELSE s[i]]
  <2>2. PartialSums(t, f, k + 1)
    <3>1. s \in [0..k -> Int] /\ s[0] = 0 /\ \A i \in 1..k : s[i] = s[i - 1] + f[i]
      BY <2>1 DEF PartialSums
    <3>2. k \in Nat /\ f[k + 1] \in Int /\ s[k] \in Int
      BY <3>1, SMT
    <3>3. t \in [0..k + 1 -> Int]
      <4> SUFFICES ASSUME NEW i \in 0..k + 1 PROVE t[i] \in Int
        OBVIOUS
      <4>1. CASE i = k + 1
        BY <3>2, <4>1, SMT
      <4>2. CASE i # k + 1
        <5>1. i \in 0..k
          BY <3>2, <4>2, SMT
        <5> QED
          BY <3>1, <4>2, <5>1
      <4> QED
        BY <4>1, <4>2
    <3>4. t[0] = 0
      BY <3>1, <3>2, SMT
    <3>5. ASSUME NEW i \in 1..k + 1 PROVE t[i] = t[i - 1] + f[i]
      <4>1. i \in 0..k + 1 /\ i - 1 \in 0..k + 1 /\ i - 1 # k + 1
        BY <3>2, SMT
      <4>2. t[i - 1] = s[i - 1]
        BY <4>1
      <4>3. CASE i = k + 1
        BY <3>2, <4>1, <4>2, <4>3, SMT
      <4>4. CASE i # k + 1
        <5>1. i \in 1..k
          BY <3>2, <4>4, SMT
        <5> QED
          BY <3>1, <4>1, <4>2, <4>4, <5>1
      <4> QED
        BY <4>3, <4>4
    <3> QED
      <4> HIDE DEF t
      <4> QED
        BY <3>3, <3>4, <3>5 DEF PartialSums
  <2> QED
    BY <2>2, SMT
<1>3. n \in G
  <2>1. G \in SUBSET (0..n)
    OBVIOUS
  <2> HIDE DEF G
  <2> QED
    BY <1>1, <1>2, <2>1, Reaches
<1> QED
  BY <1>3

(* SumTo is the last of the partial sums.                                  *)
LEMMA SumIsPartial ==
    ASSUME NEW n \in Nat, NEW f \in [1..n -> Int]
    PROVE  \E s : PartialSums(s, f, n) /\ SumTo(f, n) = s[n]
<1> DEFINE IsRec(s) == s = [i \in 0..n |-> IF i = 0 THEN 0 ELSE s[i - 1] + f[i]]
           sums == CHOOSE s : IsRec(s)
<1>1. PICK s : PartialSums(s, f, n)
  BY PartialSumsExist
<1>2. IsRec(s)
  BY <1>1, SMT DEF PartialSums
<1>3. IsRec(sums)
  BY <1>2
<1>4. SumTo(f, n) = sums[n]
  BY DEF SumTo
<1>5. \A i \in 0..n : sums[i] = IF i = 0 THEN 0 ELSE sums[i - 1] + f[i]
  BY <1>3
<1>6. sums = [i \in 0..n |-> sums[i]]
  BY <1>3
<1> HIDE DEF sums
<1>7. \A i \in 0..n : sums[i] \in Int
  <2> DEFINE G == {i \in 0..n : sums[i] \in Int}
  <2>1. 0 \in G
    BY <1>5
  <2>2. \A i \in 0..n - 1 : i \in G => i + 1 \in G
    BY <1>5, SMT
  <2>3. G \in SUBSET (0..n)
    OBVIOUS
  <2>4. \A i \in 0..n : i \in G
    <3> HIDE DEF G
    <3> QED
      BY <2>1, <2>2, <2>3, Climb
  <2> QED
    BY <2>4
<1>8. PartialSums(sums, f, n)
  <2>1. sums \in [0..n -> Int]
    BY <1>6, <1>7, Zenon
  <2>2. sums[0] = 0
    BY <1>5
  <2>3. \A i \in 1..n : sums[i] = sums[i - 1] + f[i]
    BY <1>5, SMT
  <2> QED
    BY <2>1, <2>2, <2>3 DEF PartialSums
<1> QED
  BY <1>4, <1>8

----------------------------------------------------------------------------
(* Changing one summand changes the sum by as much.                        *)
LEMMA SumChange ==
    ASSUME NEW n \in Nat, NEW f \in [1..n -> Int], NEW g \in [1..n -> Int], NEW h \in 1..n,
           \A i \in 1..n : i # h => g[i] = f[i]
    PROVE  /\ SumTo(f, n) \in Int
           /\ SumTo(g, n) = SumTo(f, n) + g[h] - f[h]
<1>1. PICK s : PartialSums(s, f, n) /\ SumTo(f, n) = s[n]
  BY SumIsPartial
<1>2. PICK t : PartialSums(t, g, n) /\ SumTo(g, n) = t[n]
  BY SumIsPartial
<1> DEFINE G == {i \in 0..n : t[i] = s[i] + (IF i >= h THEN g[h] - f[h] ELSE 0)}
<1>3. 0 \in G
  BY <1>1, <1>2, SMT DEF PartialSums
<1>4. ASSUME NEW i \in 0..n - 1, i \in G
      PROVE  i + 1 \in G
  <2>1. /\ i + 1 \in 1..n /\ i \in 0..n /\ (i + 1) - 1 = i
        /\ s[i] \in Int /\ f[i + 1] \in Int /\ g[i + 1] \in Int /\ f[h] \in Int /\ g[h] \in Int
    BY <1>1, SMT DEF PartialSums
  <2>2. s[i + 1] = s[i] + f[i + 1]
    BY <1>1, <2>1 DEF PartialSums
  <2>3. t[i + 1] = t[i] + g[i + 1]
    BY <1>2, <2>1 DEF PartialSums
  <2>4. CASE i + 1 = h
    BY <1>4, <2>1, <2>2, <2>3, <2>4, SMT
  <2>5. CASE i + 1 # h
    <3>1. g[i + 1] = f[i + 1]
      BY <2>1, <2>5
    <3> QED
      BY <1>4, <2>1, <2>2, <2>3, <2>5, <3>1, SMT
  <2> QED
    BY <2>4, <2>5
<1>5. n \in G
  <2>1. G \in SUBSET (0..n)
    OBVIOUS
  <2> HIDE DEF G
  <2> QED
    BY <1>3, <1>4, <2>1, Reaches
<1> QED
  BY <1>1, <1>2, <1>5, SMT DEF PartialSums

(* No summand exceeds a sum of naturals.                                   *)
LEMMA SumCovers ==
    ASSUME NEW n \in Nat, NEW f \in [1..n -> Nat]
    PROVE  /\ SumTo(f, n) \in Nat
           /\ \A h \in 1..n : f[h] <= SumTo(f, n)
<1>0. f \in [1..n -> Int]
  BY SMT
<1>1. PICK s : PartialSums(s, f, n) /\ SumTo(f, n) = s[n]
  BY <1>0, SumIsPartial
<1> DEFINE G == {i \in 0..n : s[i] \in Nat /\ \A h \in 1..i : f[h] <= s[i]}
<1>2. 0 \in G
  BY <1>1, SMT DEF PartialSums
<1>3. ASSUME NEW i \in 0..n - 1, i \in G
      PROVE  i + 1 \in G
  <2>1. i + 1 \in 1..n /\ i \in 0..n /\ (i + 1) - 1 = i /\ f[i + 1] \in Nat
    BY SMT
  <2>2. s[i + 1] = s[i] + f[i + 1]
    BY <1>1, <2>1 DEF PartialSums
  <2>3. s[i + 1] \in Nat
    BY <1>3, <2>1, <2>2, SMT
  <2>4. ASSUME NEW h \in 1..i + 1 PROVE f[h] <= s[i + 1]
    <3>1. CASE h = i + 1
      BY <1>3, <2>1, <2>2, <3>1, SMT
    <3>2. CASE h # i + 1
      <4>1. h \in 1..i /\ h \in 1..n
        BY <2>1, <3>2, SMT
      <4>2. f[h] <= s[i] /\ f[h] \in Nat /\ s[i] \in Nat
        BY <1>3, <4>1
      <4> QED
        BY <2>1, <2>2, <4>2, SMT
    <3> QED
      BY <3>1, <3>2
  <2> QED
    BY <2>1, <2>3, <2>4, SMT
<1>4. n \in G
  <2>1. G \in SUBSET (0..n)
    OBVIOUS
  <2> HIDE DEF G
  <2> QED
    BY <1>2, <1>3, <2>1, Reaches
<1> QED
  BY <1>1, <1>4

(* Of nothing but zeros the sum is zero.                                   *)
LEMMA SumOfZeros ==
    ASSUME NEW n \in Nat, NEW f \in [1..n -> Int], \A h \in 1..n : f[h] = 0
    PROVE  SumTo(f, n) = 0
<1>1. PICK s : PartialSums(s, f, n) /\ SumTo(f, n) = s[n]
  BY SumIsPartial
<1> DEFINE G == {i \in 0..n : s[i] = 0}
<1>2. 0 \in G
  BY <1>1, SMT DEF PartialSums
<1>3. ASSUME NEW i \in 0..n - 1, i \in G
      PROVE  i + 1 \in G
  <2>1. i + 1 \in 1..n /\ (i + 1) - 1 = i
    BY SMT
  <2>2. s[i + 1] = s[i] + f[i + 1]
    BY <1>1, <2>1 DEF PartialSums
  <2> QED
    BY <1>3, <2>1, <2>2, SMT
<1>4. n \in G
  <2>1. G \in SUBSET (0..n)
    OBVIOUS
  <2> HIDE DEF G
  <2> QED
    BY <1>2, <1>3, <2>1, Reaches
<1> QED
  BY <1>1, <1>4

----------------------------------------------------------------------------
(* Sums are linear in their summands, and monotonic.                       *)
LEMMA SumAdds ==
    ASSUME NEW n \in Nat, NEW f \in [1..n -> Int], NEW g \in [1..n -> Int],
           NEW w \in [1..n -> Int], NEW d \in Int, \A i \in 1..n : g[i] = f[i] + d * w[i]
    PROVE  /\ SumTo(f, n) \in Int /\ SumTo(w, n) \in Int
           /\ SumTo(g, n) = SumTo(f, n) + d * SumTo(w, n)
<1>1. PICK s : PartialSums(s, f, n) /\ SumTo(f, n) = s[n]
  BY SumIsPartial
<1>2. PICK t : PartialSums(t, g, n) /\ SumTo(g, n) = t[n]
  BY SumIsPartial
<1>3. PICK u : PartialSums(u, w, n) /\ SumTo(w, n) = u[n]
  BY SumIsPartial
<1> DEFINE G == {i \in 0..n : t[i] = s[i] + d * u[i]}
<1>4. 0 \in G
  BY <1>1, <1>2, <1>3, SMT DEF PartialSums
<1>5. ASSUME NEW i \in 0..n - 1, i \in G
      PROVE  i + 1 \in G
  <2>1. /\ i + 1 \in 1..n /\ i \in 0..n /\ (i + 1) - 1 = i
        /\ s[i] \in Int /\ u[i] \in Int /\ f[i + 1] \in Int /\ w[i + 1] \in Int
    BY <1>1, <1>3, SMT DEF PartialSums
  <2>2. s[i + 1] = s[i] + f[i + 1] /\ t[i + 1] = t[i] + g[i + 1] /\ u[i + 1] = u[i] + w[i + 1]
    BY <1>1, <1>2, <1>3, <2>1 DEF PartialSums
  <2>3. t[i] = s[i] + d * u[i] /\ g[i + 1] = f[i + 1] + d * w[i + 1]
    BY <1>5, <2>1
  <2>4. d * (u[i] + w[i + 1]) = d * u[i] + d * w[i + 1] /\ d * u[i] \in Int /\ d * w[i + 1] \in Int
    BY <2>1, SMT
  <2>5. t[i + 1] = s[i + 1] + d * u[i + 1]
    BY <2>1, <2>2, <2>3, <2>4
  <2> QED
    BY <2>1, <2>5
<1>6. n \in G
  <2>1. G \in SUBSET (0..n)
    OBVIOUS
  <2> HIDE DEF G
  <2> QED
    BY <1>4, <1>5, <2>1, Reaches
<1> QED
  BY <1>1, <1>2, <1>3, <1>6 DEF PartialSums

LEMMA SumIsMonotonic ==
    ASSUME NEW n \in Nat, NEW f \in [1..n -> Int], NEW g \in [1..n -> Int],
           \A i \in 1..n : f[i] <= g[i]
    PROVE  SumTo(f, n) \in Int /\ SumTo(g, n) \in Int /\ SumTo(f, n) <= SumTo(g, n)
<1>1. PICK s : PartialSums(s, f, n) /\ SumTo(f, n) = s[n]
  BY SumIsPartial
<1>2. PICK t : PartialSums(t, g, n) /\ SumTo(g, n) = t[n]
  BY SumIsPartial
<1> DEFINE G == {i \in 0..n : s[i] <= t[i]}
<1>3. 0 \in G
  BY <1>1, <1>2, SMT DEF PartialSums
<1>4. ASSUME NEW i \in 0..n - 1, i \in G
      PROVE  i + 1 \in G
  <2>1. /\ i + 1 \in 1..n /\ i \in 0..n /\ (i + 1) - 1 = i
        /\ s[i] \in Int /\ t[i] \in Int /\ f[i + 1] \in Int /\ g[i + 1] \in Int
    BY <1>1, <1>2, SMT DEF PartialSums
  <2>2. s[i + 1] = s[i] + f[i + 1] /\ t[i + 1] = t[i] + g[i + 1]
    BY <1>1, <1>2, <2>1 DEF PartialSums
  <2>3. s[i] <= t[i] /\ f[i + 1] <= g[i + 1]
    BY <1>4, <2>1
  <2> QED
    BY <2>1, <2>2, <2>3
<1>5. n \in G
  <2>1. G \in SUBSET (0..n)
    OBVIOUS
  <2> HIDE DEF G
  <2> QED
    BY <1>3, <1>4, <2>1, Reaches
<1> QED
  BY <1>1, <1>2, <1>5 DEF PartialSums

LEMMA SumOfMultiples ==
    ASSUME NEW n \in Nat, NEW f \in [1..n -> Int], NEW g \in [1..n -> Int], NEW a \in Int,
           \A i \in 1..n : g[i] = a * f[i]
    PROVE  SumTo(f, n) \in Int /\ SumTo(g, n) = a * SumTo(f, n)
<1> DEFINE zero == [i \in 1..n |-> 0]
<1>1. zero \in [1..n -> Int] /\ \A i \in 1..n : zero[i] = 0
  OBVIOUS
<1>2. \A i \in 1..n : g[i] = zero[i] + a * f[i]
  <2>1. \A i \in 1..n : f[i] \in Int /\ a * f[i] \in Int
    BY SMT
  <2> QED
    BY <1>1, <2>1
<1> HIDE DEF zero
<1>3. SumTo(zero, n) = 0
  BY <1>1, SumOfZeros
<1>4. SumTo(f, n) \in Int /\ SumTo(g, n) = SumTo(zero, n) + a * SumTo(f, n)
  BY <1>1, <1>2, SumAdds
<1>5. a * SumTo(f, n) \in Int
  BY <1>4, SMT
<1> QED
  BY <1>3, <1>4, <1>5

LEMMA SumScales ==
    ASSUME NEW n \in Nat, NEW f \in [1..n -> Int], NEW g \in [1..n -> Int],
           NEW a \in Int, NEW b \in Int, \A i \in 1..n : a * f[i] <= b * g[i]
    PROVE  /\ SumTo(f, n) \in Int /\ SumTo(g, n) \in Int
           /\ a * SumTo(f, n) <= b * SumTo(g, n)
<1> DEFINE af == [i \in 1..n |-> a * f[i]]
           bg == [i \in 1..n |-> b * g[i]]
<1>1. \A i \in 1..n : a * f[i] \in Int /\ b * g[i] \in Int
  BY SMT
<1>2. af \in [1..n -> Int] /\ \A i \in 1..n : af[i] = a * f[i]
  BY <1>1
<1>3. bg \in [1..n -> Int] /\ \A i \in 1..n : bg[i] = b * g[i]
  BY <1>1
<1>4. \A i \in 1..n : af[i] <= bg[i]
  BY <1>2, <1>3
<1> HIDE DEF af, bg
<1>5. SumTo(f, n) \in Int /\ SumTo(af, n) = a * SumTo(f, n)
  BY <1>2, SumOfMultiples
<1>6. SumTo(g, n) \in Int /\ SumTo(bg, n) = b * SumTo(g, n)
  BY <1>3, SumOfMultiples
<1>7. SumTo(af, n) <= SumTo(bg, n)
  BY <1>2, <1>3, <1>4, SumIsMonotonic
<1> QED
  BY <1>5, <1>6, <1>7
=============================================================================
