----------------------------- MODULE BasicFacts -----------------------------
(***************************************************************************)
(* Facts the proofs about the components rest on: about % and \div, for    *)
(* the sliding buffer's index arithmetic; induction over the numbers up to *)
(* a bound; and about subsequences, for what a fetch collects and what the *)
(* list of assets holds.                                                   *)
(***************************************************************************)
EXTENDS Subsequences, FiniteSetTheorems, WellFoundedInduction, TLAPS

(* The slot of a sequence number is a slot of the buffer.                  *)
LEMMA ModRange ==
  ASSUME NEW n \in Nat \ {0}, NEW s \in Nat
  PROVE  s % n \in 0 .. n - 1
OBVIOUS

(* Quotients are natural numbers.                                          *)
LEMMA DivNat ==
  ASSUME NEW n \in Nat \ {0}, NEW s \in Nat
  PROVE  s \div n \in Nat
OBVIOUS

(* Division with remainder.                                                *)
LEMMA DivMod ==
  ASSUME NEW n \in Nat \ {0}, NEW s \in Nat
  PROVE  s = n * (s \div n) + (s % n)
OBVIOUS

(* The remainder is determined by any decomposition.                       *)
LEMMA ModUnique ==
  ASSUME NEW n \in Nat \ {0}, NEW q \in Nat, NEW r \in 0 .. n - 1
  PROVE  (n * q + r) % n = r
OBVIOUS

(* So is the quotient.                                                     *)
LEMMA DivUnique ==
  ASSUME NEW n \in Nat \ {0}, NEW q \in Nat, NEW r \in 0 .. n - 1
  PROVE  (n * q + r) \div n = q
OBVIOUS

(* Whole laps do not change the slot.                                      *)
LEMMA ModLaps ==
  ASSUME NEW n \in Nat \ {0}, NEW s \in Nat, NEW q \in Nat
  PROVE  (s + n * q) % n = s % n
<1> DEFINE a == s \div n
           r == s % n
<1>1. a \in Nat /\ r \in 0 .. n - 1 /\ s = n * a + r
  BY DivMod, DivNat, ModRange
<1> HIDE DEF a, r
<1>2. n * a + n * q = n * (a + q)
  BY <1>1
<1>3. n * a \in Nat /\ n * q \in Nat /\ n * (a + q) \in Nat
  BY <1>1
<1>4. s + n * q = n * (a + q) + r
  BY <1>1, <1>2, <1>3
<1>5. (n * (a + q) + r) % n = r
  BY <1>1, ModUnique
<1>6. QED
  BY <1>4, <1>5 DEF r

(* Two sequence numbers less than a lap apart have different slots.        *)
LEMMA ModInjective ==
  ASSUME NEW n \in Nat \ {0}, NEW s \in Nat, NEW t \in Nat, s < t, t - s < n
  PROVE  s % n # t % n
<1> SUFFICES ASSUME s % n = t % n
             PROVE  FALSE
  OBVIOUS
<1> DEFINE a == s \div n
           b == t \div n
<1>1. a \in Nat /\ b \in Nat
  BY DivNat
<1>2. t - s = n * b - n * a
  BY DivMod, DivNat, ModRange
<1> HIDE DEF a, b
<1>3. n * b - n * a = n * (b - a)
  BY <1>1
<1>4. CASE b <= a
  BY <1>1, <1>2, <1>3, <1>4
<1>5. CASE b >= a + 1
  <2>1. b - a - 1 \in Nat
    BY <1>1, <1>5
  <2>2. n * (b - a) = n * (b - a - 1) + n
    BY <1>1
  <2>3. n * (b - a - 1) >= 0
    BY <2>1
  <2>4. QED
    BY <1>1, <1>2, <1>3, <2>1, <2>2, <2>3
<1>6. QED
  BY <1>1, <1>4, <1>5

(* Going back inside a lap goes back in the buffer.                        *)
LEMMA ModBack ==
  ASSUME NEW n \in Nat \ {0}, NEW s \in Nat, NEW d \in Nat, d <= s % n
  PROVE  (s - d) % n = (s % n) - d
OBVIOUS

(* A full window has a member in every slot.                               *)
LEMMA ModCovers ==
  ASSUME NEW n \in Nat \ {0}, NEW s \in Nat, NEW t \in Nat, s <= t
  PROVE  \E u \in t - n + 1 .. t : u >= s /\ u % n = s % n
<1> DEFINE q == (t - s) \div n
           r == (t - s) % n
           u == s + n * q
<1>1. q \in Nat /\ r \in 0 .. n - 1 /\ t - s = n * q + r
  BY DivMod, DivNat, ModRange
<1>2. n * q \in Nat
  BY <1>1
<1> HIDE DEF q, r
<1>3. u % n = s % n
  BY <1>1, ModLaps
<1>4. u \in t - n + 1 .. t /\ u >= s
  BY <1>1, <1>2
<1>5. QED
  BY <1>3, <1>4

(* Periodic checkpoints: the checkpoint at or before slot k.               *)
LEMMA ClosestMultiple ==
  ASSUME NEW f \in Nat \ {0}, NEW k \in Nat
  PROVE  /\ (k \div f) * f \in 0 .. k
         /\ k - (k \div f) * f < f
         /\ ((k \div f) * f) % f = 0
         /\ ((k \div f) * f) \div f = k \div f
<1> DEFINE q == k \div f
           r == k % f
<1>1. q \in Nat /\ r \in 0 .. f - 1 /\ k = f * q + r
  BY DivMod, DivNat, ModRange
<1> HIDE DEF q, r
<1>2. q * f = f * q + 0 /\ f * q \in Nat
  BY <1>1
<1>3. (q * f) % f = 0 /\ (q * f) \div f = q
  BY <1>1, <1>2, ModUnique, DivUnique
<1>4. QED
  BY <1>1, <1>2, <1>3 DEF q

(* Different multiples of f are different checkpoints.                     *)
LEMMA MultipleInjective ==
  ASSUME NEW f \in Nat \ {0}, NEW j \in Nat, NEW k \in Nat,
         j % f = 0, k % f = 0, j \div f = k \div f
  PROVE  j = k
BY DivMod, DivNat

(* A smaller slot has no later checkpoint.                                 *)
LEMMA DivMonotone ==
  ASSUME NEW f \in Nat \ {0}, NEW j \in Nat, NEW k \in Nat, j <= k
  PROVE  j \div f \in 0 .. k \div f
<1> DEFINE a == j \div f
           b == k \div f
<1>1. /\ a \in Nat /\ b \in Nat
      /\ j % f \in 0 .. f - 1 /\ k % f \in 0 .. f - 1
      /\ j = f * a + (j % f) /\ k = f * b + (k % f)
  BY DivMod, DivNat, ModRange
<1> HIDE DEF a, b
<1>2. CASE a >= b + 1
  <2>1. f * a = f * b + f * (a - b)
    BY <1>1
  <2>2. f * (a - b) = f * (a - b - 1) + f /\ a - b - 1 \in Nat
    BY <1>1, <1>2
  <2>3. f * (a - b - 1) >= 0
    BY <2>2
  <2>4. f * (a - b) >= f
    BY <1>1, <2>2, <2>3
  <2>5. f * a \in Nat /\ f * b \in Nat
    BY <1>1
  <2>6. QED
    BY <1>1, <2>1, <2>4, <2>5
<1>3. a <= b
  BY <1>1, <1>2
<1>4. QED
  BY <1>1, <1>3 DEF a, b
-----------------------------------------------------------------------------
(* Induction over the natural numbers up to N, for a set of them.          *)
LEMMA UpTo ==
  ASSUME NEW N \in Nat, NEW T,
         0 \in T,
         \A n \in 0 .. N - 1 : n \in T => n + 1 \in T
  PROVE  \A n \in 0 .. N : n \in T
<1> DEFINE bad == {n \in 0 .. N : n \notin T}
<1>1. SUFFICES ASSUME bad # {}
               PROVE  FALSE
  OBVIOUS
<1>0. bad \subseteq Nat
  OBVIOUS
<1>2. PICK n \in bad : \A j \in bad : ~ (<<j, n>> \in OpToRel(<, Nat))
  <2> HIDE DEF bad
  <2> QED
    BY <1>0, <1>1, WFMin, NatLessThanWellFounded
<1>3. \A j \in bad : ~ (j < n)
  <2> HIDE DEF bad
  <2> QED
    BY <1>0, <1>2 DEF OpToRel
<1>4. n # 0 /\ n - 1 \in 0 .. N - 1 /\ n - 1 \notin bad
  BY <1>3
<1> QED
  BY <1>4

(* What has been selected of the first n elements.                         *)
IsUpto(u, s, K, N) ==
  u = [n \in 0 .. N |->
         IF n = 0 THEN <<>>
         ELSE IF n \in K THEN Append(u[n - 1], s[n]) ELSE u[n - 1]]

(* The recursion of Subsequence has a solution.                            *)
LEMMA UptoExists ==
  ASSUME NEW s, NEW K, NEW N \in Nat
  PROVE  \E u : IsUpto(u, s, K, N)
<1> DEFINE T == {n \in 0 .. N : \E u : IsUpto(u, s, K, n)}
<1>1. 0 \in T
  <2> DEFINE u == [n \in 0 .. 0 |-> <<>>]
  <2>1. IsUpto(u, s, K, 0)
    BY DEF IsUpto
  <2> QED
    BY <2>1
<1>2. ASSUME NEW n \in 0 .. N - 1, n \in T
      PROVE  n + 1 \in T
  <2>1. PICK u : IsUpto(u, s, K, n)
    BY <1>2
  <2> DEFINE next == IF n + 1 \in K THEN Append(u[n], s[n + 1]) ELSE u[n]
             v == [m \in 0 .. n + 1 |-> IF m = n + 1 THEN next ELSE u[m]]
  <2>2. \A m \in 0 .. n : v[m] = u[m]
    OBVIOUS
  <2>3. v[n + 1] = next
    OBVIOUS
  <2>4. \A m \in 0 .. n : u[m] = IF m = 0 THEN <<>>
                                ELSE IF m \in K THEN Append(u[m - 1], s[m]) ELSE u[m - 1]
    BY <2>1 DEF IsUpto
  <2> HIDE DEF v
  <2>5. \A m \in 0 .. n + 1 : v[m] = IF m = 0 THEN <<>>
                                ELSE IF m \in K THEN Append(v[m - 1], s[m]) ELSE v[m - 1]
    <3> SUFFICES ASSUME NEW m \in 0 .. n + 1
                 PROVE  v[m] = IF m = 0 THEN <<>>
                               ELSE IF m \in K THEN Append(v[m - 1], s[m]) ELSE v[m - 1]
      OBVIOUS
    <3>1. CASE m = n + 1
      BY <2>2, <2>3, <3>1
    <3>2. CASE m = 0
      BY <2>2, <2>4, <3>2
    <3>3. CASE m \in 1 .. n
      <4>1. m - 1 \in 0 .. n /\ m \in 0 .. n
        BY <3>3
      <4> QED
        BY <2>2, <2>4, <3>3, <4>1
    <3> QED
      BY <3>1, <3>2, <3>3
  <2>6. IsUpto(v, s, K, n + 1)
    BY <2>5 DEF IsUpto, v
  <2> QED
    BY <2>6
<1> HIDE DEF T
<1>3. N \in T
  BY <1>1, <1>2, UpTo
<1> QED
  BY <1>3 DEF T
(* t has the elements of s at the positions K: its k-th is at h[k].        *)
Selects(t, s, K, h) ==
  /\ h \in [1 .. Len(t) -> K]
  /\ \A i, j \in 1 .. Len(t) : i < j => h[i] < h[j]
  /\ \A k \in K : \E i \in 1 .. Len(t) : h[i] = k
  /\ \A i \in 1 .. Len(t) : t[i] = s[h[i]]

(* One position more, behind the others.                                   *)
LEMMA SelectsAppend ==
  ASSUME NEW S, NEW s, NEW t \in Seq(S), NEW K \in SUBSET Nat, NEW h, Selects(t, s, K, h),
         NEW k \in Nat, \A j \in K : j < k, s[k] \in S
  PROVE  \E g : Selects(Append(t, s[k]), s, K \cup {k}, g)
<1> DEFINE n == Len(t)
           u == Append(t, s[k])
           g == [i \in 1 .. n + 1 |-> IF i = n + 1 THEN k ELSE h[i]]
<1>1. n \in Nat /\ Len(u) = n + 1 /\ u[n + 1] = s[k] /\ \A i \in 1 .. n : u[i] = t[i]
  OBVIOUS
<1>2. g[n + 1] = k /\ \A i \in 1 .. n : g[i] = h[i]
  BY <1>1
<1>3. /\ h \in [1 .. n -> K]
      /\ \A i, j \in 1 .. n : i < j => h[i] < h[j]
      /\ \A j \in K : \E i \in 1 .. n : h[i] = j
      /\ \A i \in 1 .. n : t[i] = s[h[i]]
  BY DEF Selects
<1>4. g \in [1 .. n + 1 -> K \cup {k}]
  BY <1>1, <1>3
<1> HIDE DEF g, u, n
<1>5. \A i, j \in 1 .. n + 1 : i < j => g[i] < g[j]
  <2> SUFFICES ASSUME NEW i \in 1 .. n + 1, NEW j \in 1 .. n + 1, i < j
               PROVE  g[i] < g[j]
    OBVIOUS
  <2>1. i \in 1 .. n /\ h[i] \in K
    BY <1>1, <1>3
  <2>2. CASE j = n + 1
    BY <1>2, <2>1, <2>2
  <2>3. CASE j \in 1 .. n
    BY <1>2, <1>3, <2>1, <2>3
  <2> QED
    BY <1>1, <2>2, <2>3
<1>6. \A j \in K \cup {k} : \E i \in 1 .. n + 1 : g[i] = j
  <2>1. n + 1 \in 1 .. n + 1 /\ \A i \in 1 .. n : i \in 1 .. n + 1
    BY <1>1
  <2> QED
    BY <1>2, <1>3, <2>1
<1>7. \A i \in 1 .. n + 1 : u[i] = s[g[i]]
  <2>1. \A i \in 1 .. n + 1 : i = n + 1 \/ i \in 1 .. n
    BY <1>1
  <2> QED
    BY <1>1, <1>2, <1>3, <2>1
<1>8. Selects(u, s, K \cup {k}, g)
  BY <1>1, <1>4, <1>5, <1>6, <1>7 DEF Selects
<1> QED
  BY <1>8 DEF u

(* One position more, before the others.                                   *)
LEMMA SelectsPrepend ==
  ASSUME NEW S, NEW s, NEW t \in Seq(S), NEW K \in SUBSET Nat, NEW h, Selects(t, s, K, h),
         NEW k \in Nat, \A j \in K : k < j, s[k] \in S
  PROVE  \E g : Selects(<<s[k]>> \o t, s, K \cup {k}, g)
<1> DEFINE n == Len(t)
           u == <<s[k]>> \o t
           g == [i \in 1 .. n + 1 |-> IF i = 1 THEN k ELSE h[i - 1]]
<1>1. n \in Nat /\ Len(u) = n + 1 /\ u[1] = s[k] /\ \A i \in 2 .. n + 1 : u[i] = t[i - 1]
  <2>1. <<s[k]>> \in Seq(S) /\ Len(<<s[k]>>) = 1 /\ <<s[k]>>[1] = s[k]
    OBVIOUS
  <2> QED
    BY <2>1
<1>2. g[1] = k /\ \A i \in 2 .. n + 1 : g[i] = h[i - 1]
  BY <1>1
<1>3. /\ h \in [1 .. n -> K]
      /\ \A i, j \in 1 .. n : i < j => h[i] < h[j]
      /\ \A j \in K : \E i \in 1 .. n : h[i] = j
      /\ \A i \in 1 .. n : t[i] = s[h[i]]
  BY DEF Selects
<1>4. g \in [1 .. n + 1 -> K \cup {k}]
  BY <1>1, <1>3
<1> HIDE DEF g, u, n
<1>0. \A i \in 2 .. n + 1 : i - 1 \in 1 .. n
  BY <1>1
<1>5. \A i, j \in 1 .. n + 1 : i < j => g[i] < g[j]
  <2> SUFFICES ASSUME NEW i \in 1 .. n + 1, NEW j \in 1 .. n + 1, i < j
               PROVE  g[i] < g[j]
    OBVIOUS
  <2>1. j \in 2 .. n + 1 /\ j - 1 \in 1 .. n /\ h[j - 1] \in K
    BY <1>0, <1>1, <1>3
  <2>2. CASE i = 1
    BY <1>2, <2>1, <2>2
  <2>3. CASE i \in 2 .. n + 1
    <3>1. i - 1 \in 1 .. n /\ i - 1 < j - 1
      BY <1>1, <2>3
    <3> QED
      BY <1>2, <1>3, <2>1, <2>3, <3>1
  <2> QED
    BY <1>1, <2>2, <2>3
<1>6. \A j \in K \cup {k} : \E i \in 1 .. n + 1 : g[i] = j
  <2>1. 1 \in 1 .. n + 1
    BY <1>1
  <2>2. ASSUME NEW j \in K
        PROVE  \E i \in 1 .. n + 1 : g[i] = j
    <3>1. PICK i \in 1 .. n : h[i] = j
      BY <1>3
    <3>2. i + 1 \in 2 .. n + 1 /\ (i + 1) - 1 = i /\ i + 1 \in 1 .. n + 1
      BY <1>1
    <3> QED
      BY <1>2, <3>1, <3>2
  <2> QED
    BY <1>2, <2>1, <2>2
<1>7. \A i \in 1 .. n + 1 : u[i] = s[g[i]]
  <2>1. \A i \in 1 .. n + 1 : i = 1 \/ i \in 2 .. n + 1
    BY <1>1
  <2> QED
    BY <1>0, <1>1, <1>2, <1>3, <2>1
<1>8. Selects(u, s, K \cup {k}, g)
  BY <1>1, <1>4, <1>5, <1>6, <1>7 DEF Selects
<1> QED
  BY <1>8 DEF u

(* The positions determine where each element comes from.                  *)
LEMMA SelectsAgree ==
  ASSUME NEW S, NEW s, NEW K \in SUBSET Nat,
         NEW t \in Seq(S), NEW g, Selects(t, s, K, g),
         NEW u \in Seq(S), NEW h, Selects(u, s, K, h)
  PROVE  \A i \in 1 .. Len(t) : i \in 1 .. Len(u) /\ g[i] = h[i]
<1> DEFINE n == Len(t)
           m == Len(u)
           T == {k \in 0 .. n : \A i \in 1 .. k : i \in 1 .. m /\ g[i] = h[i]}
<1>0. n \in Nat /\ m \in Nat
  OBVIOUS
<1>1. /\ \A i \in 1 .. n : g[i] \in K
      /\ \A i, j \in 1 .. n : i < j => g[i] < g[j]
      /\ \A k \in K : \E i \in 1 .. n : g[i] = k
      /\ \A i \in 1 .. m : h[i] \in K
      /\ \A i, j \in 1 .. m : i < j => h[i] < h[j]
      /\ \A k \in K : \E i \in 1 .. m : h[i] = k
  BY DEF Selects
<1>6. (\A i \in 1 .. n : g[i] \in Nat) /\ (\A i \in 1 .. m : h[i] \in Nat)
  BY <1>1
<1> HIDE DEF n, m
<1>2. 0 \in T
  BY <1>0
<1>3. ASSUME NEW k \in 0 .. n - 1, k \in T
      PROVE  k + 1 \in T
  <2>1. k + 1 \in 1 .. n /\ \A i \in 1 .. k : i \in 1 .. m /\ i \in 1 .. n /\ g[i] = h[i]
    BY <1>0, <1>3
  <2>2. PICK j \in 1 .. m : h[j] = g[k + 1]
    BY <1>1, <2>1
  <2>3. j > k
    <3>1. SUFFICES ASSUME j \in 1 .. k PROVE FALSE
      BY <1>0
    <3>2. g[j] < g[k + 1]
      BY <1>1, <2>1, <3>1
    <3>3. g[j] = h[j] /\ g[k + 1] \in Nat
      BY <1>6, <2>1, <3>1
    <3> QED
      BY <2>2, <3>2, <3>3
  <2>4. k + 1 \in 1 .. m
    BY <1>0, <2>3
  <2>5. PICK i \in 1 .. n : g[i] = h[k + 1]
    BY <1>1, <2>4
  <2>6. i > k
    <3>1. SUFFICES ASSUME i \in 1 .. k PROVE FALSE
      BY <1>0
    <3>2. h[i] < h[k + 1]
      BY <1>1, <2>1, <2>4, <3>1
    <3>3. g[i] = h[i] /\ h[k + 1] \in Nat
      BY <1>6, <2>1, <2>4, <3>1
    <3> QED
      BY <2>5, <3>2, <3>3
  <2>7. g[k + 1] = h[k + 1]
    <3>1. g[k + 1] \in Nat /\ h[k + 1] \in Nat
      BY <1>1, <2>1, <2>4
    <3>2. i = k + 1 \/ g[k + 1] < g[i]
      BY <1>0, <1>1, <2>1, <2>6
    <3>3. j = k + 1 \/ h[k + 1] < h[j]
      BY <1>0, <1>1, <2>3, <2>4
    <3> QED
      BY <2>2, <2>5, <3>1, <3>2, <3>3
  <2>8. \A l \in 1 .. k + 1 : l = k + 1 \/ l \in 1 .. k
    OBVIOUS
  <2> QED
    BY <1>0, <2>1, <2>4, <2>7, <2>8
<1> HIDE DEF T
<1>4. \A k \in 0 .. n : k \in T
  BY <1>0, <1>2, <1>3, UpTo
<1>5. n \in T
  BY <1>0, <1>4
<1> QED
  BY <1>5 DEF T, n, m

(* And so is the selected sequence.                                        *)
LEMMA SelectsUnique ==
  ASSUME NEW S, NEW s, NEW K \in SUBSET Nat,
         NEW t \in Seq(S), NEW g, Selects(t, s, K, g),
         NEW u \in Seq(S), NEW h, Selects(u, s, K, h)
  PROVE  t = u
<1>1. \A i \in 1 .. Len(t) : i \in 1 .. Len(u) /\ g[i] = h[i]
  BY SelectsAgree
<1>2. \A i \in 1 .. Len(u) : i \in 1 .. Len(t) /\ h[i] = g[i]
  BY SelectsAgree
<1>3. Len(t) = Len(u)
  BY <1>1, <1>2
<1>4. \A i \in 1 .. Len(t) : t[i] = u[i]
  BY <1>1, <1>3 DEF Selects
<1> QED
  BY <1>3, <1>4
(* A subsequence is the selection of its positions.                        *)
LEMMA SubsequenceSelects ==
  ASSUME NEW S, NEW s \in Seq(S), NEW K \in SUBSET (1 .. Len(s))
  PROVE  /\ Subsequence(s, K) \in Seq(S)
         /\ \E h : Selects(Subsequence(s, K), s, K, h)
<1> DEFINE N == Len(s)
           u == CHOOSE u : IsUpto(u, s, K, N)
           K0(n) == K \cap 1 .. n
           T == {n \in 0 .. N : u[n] \in Seq(S) /\ \E h : Selects(u[n], s, K0(n), h)}
<1>1. N \in Nat /\ \A n \in 1 .. N : s[n] \in S
  OBVIOUS
<1>2. Subsequence(s, K) = u[N]
  BY DEF Subsequence, IsUpto
<1>3. IsUpto(u, s, K, N)
  BY <1>1, UptoExists
<1> HIDE DEF N, u
<1>4. \A n \in 0 .. N : u[n] = IF n = 0 THEN <<>>
                               ELSE IF n \in K THEN Append(u[n - 1], s[n]) ELSE u[n - 1]
  BY <1>3 DEF IsUpto
<1>5. 0 \in T
  <2>1. u[0] = <<>>
    BY <1>1, <1>4
  <2> DEFINE h == [i \in 1 .. 0 |-> 0]
  <2>2. K0(0) = {} /\ 1 .. Len(<<>>) = {}
    OBVIOUS
  <2>3. h \in [1 .. Len(<<>>) -> {}]
    BY <2>2
  <2>4. Selects(<<>>, s, K0(0), h)
    BY <2>2, <2>3 DEF Selects
  <2>5. <<>> \in Seq(S)
    OBVIOUS
  <2>6. \E g : Selects(u[0], s, K0(0), g)
    BY <2>1, <2>4
  <2>7. 0 \in 0 .. N /\ u[0] \in Seq(S)
    BY <1>1, <2>1, <2>5
  <2> HIDE DEF K0
  <2> QED
    BY <2>6, <2>7
<1>6. ASSUME NEW n \in 0 .. N - 1, n \in T
      PROVE  n + 1 \in T
  <2>1. n + 1 \in 0 .. N /\ n + 1 \in 1 .. N /\ (n + 1) - 1 = n /\ n + 1 # 0
    BY <1>1
  <2>2. PICK h : Selects(u[n], s, K0(n), h)
    BY <1>6
  <2>3. u[n] \in Seq(S) /\ s[n + 1] \in S
    BY <1>1, <1>6, <2>1
  <2>4. CASE n + 1 \in K
    <3>1. u[n + 1] = Append(u[n], s[n + 1])
      BY <1>4, <2>1, <2>4
    <3>2. K0(n + 1) = K0(n) \cup {n + 1}
      BY <1>1, <2>4
    <3>3. K0(n) \in SUBSET Nat /\ n + 1 \in Nat /\ \A j \in K0(n) : j < n + 1
      BY <1>1
    <3> HIDE DEF K0
    <3>4. \E g : Selects(Append(u[n], s[n + 1]), s, K0(n) \cup {n + 1}, g)
      BY <2>2, <2>3, <3>3, SelectsAppend
    <3>5. u[n + 1] \in Seq(S)
      BY <2>3, <3>1
    <3> QED
      BY <2>1, <3>1, <3>2, <3>4, <3>5
  <2>5. CASE n + 1 \notin K
    <3>1. u[n + 1] = u[n]
      BY <1>4, <2>1, <2>5
    <3>2. K0(n + 1) = K0(n)
      BY <1>1, <2>5
    <3> HIDE DEF K0
    <3> QED
      BY <2>1, <2>2, <2>3, <3>1, <3>2
  <2> QED
    BY <2>4, <2>5
<1> HIDE DEF T
<1>7. \A n \in 0 .. N : n \in T
  BY <1>1, <1>5, <1>6, UpTo
<1>8. N \in T
  BY <1>1, <1>7
<1>9. K0(N) = K
  BY <1>1 DEF N
<1> HIDE DEF K0
<1> QED
  BY <1>2, <1>8, <1>9 DEF T

(* What is selected from a sequence is its subsequence.                    *)
LEMMA SubsequenceUnique ==
  ASSUME NEW S, NEW s \in Seq(S), NEW K \in SUBSET (1 .. Len(s)),
         NEW t \in Seq(S), NEW h, Selects(t, s, K, h)
  PROVE  t = Subsequence(s, K)
<1>1. K \in SUBSET Nat
  OBVIOUS
<1>2. PICK g : Selects(Subsequence(s, K), s, K, g)
  BY SubsequenceSelects
<1>3. Subsequence(s, K) \in Seq(S)
  BY SubsequenceSelects
<1> QED
  BY <1>1, <1>2, <1>3, SelectsUnique

(* It has as many elements as there are positions.                         *)
LEMMA SelectsCardinality ==
  ASSUME NEW S, NEW s, NEW t \in Seq(S), NEW K \in SUBSET Nat, NEW h, Selects(t, s, K, h)
  PROVE  IsFiniteSet(K) /\ Cardinality(K) = Len(t)
<1>1. Len(t) \in Nat
  OBVIOUS
<1>2. IsFiniteSet(1 .. Len(t)) /\ Cardinality(1 .. Len(t)) = Len(t)
  BY <1>1, FS_Interval
<1>3. \A i, j \in 1 .. Len(t) : i # j => h[i] # h[j]
  <2> SUFFICES ASSUME NEW i \in 1 .. Len(t), NEW j \in 1 .. Len(t), i < j
               PROVE  h[i] # h[j]
    BY <1>1
  <2>1. h[i] < h[j] /\ h[i] \in K
    BY DEF Selects
  <2>2. h[i] \in Nat
    BY <2>1
  <2> QED
    BY <2>1, <2>2
<1>6. h \in [1 .. Len(t) -> K] /\ \A k \in K : \E i \in 1 .. Len(t) : h[i] = k
  BY DEF Selects
<1>7. h \in Injection(1 .. Len(t), K)
  BY <1>3, <1>6 DEF Injection, IsInjective
<1>8. h \in Surjection(1 .. Len(t), K)
  BY <1>6 DEF Surjection
<1>4. h \in Bijection(1 .. Len(t), K)
  BY <1>7, <1>8 DEF Bijection
<1>5. ExistsBijection(1 .. Len(t), K)
  BY <1>4 DEF ExistsBijection
<1> QED
  BY <1>2, <1>5, FS_Bijection
(* No position.                                                            *)
LEMMA SubsequenceEmpty ==
  ASSUME NEW S, NEW s \in Seq(S)
  PROVE  Subsequence(s, {}) = <<>>
<1> DEFINE h == [i \in {} |-> 0]
<1>1. <<>> \in Seq(S) /\ 1 .. Len(<<>>) = {} /\ {} \in SUBSET (1 .. Len(s))
  OBVIOUS
<1>2. Selects(<<>>, s, {}, h)
  BY <1>1 DEF Selects
<1> QED
  BY <1>1, <1>2, SubsequenceUnique

(* A position behind the others appends its element.                       *)
LEMMA SubsequenceAppend ==
  ASSUME NEW S, NEW s \in Seq(S), NEW K \in SUBSET (1 .. Len(s)),
         NEW k \in 1 .. Len(s), \A j \in K : j < k
  PROVE  Subsequence(s, K \cup {k}) = Append(Subsequence(s, K), s[k])
<1>1. Subsequence(s, K) \in Seq(S) /\ s[k] \in S
  BY SubsequenceSelects
<1>2. PICK h : Selects(Subsequence(s, K), s, K, h)
  BY SubsequenceSelects
<1>3. K \in SUBSET Nat /\ k \in Nat /\ K \cup {k} \in SUBSET (1 .. Len(s))
  OBVIOUS
<1>4. \E g : Selects(Append(Subsequence(s, K), s[k]), s, K \cup {k}, g)
  BY <1>1, <1>2, <1>3, SelectsAppend
<1>5. Append(Subsequence(s, K), s[k]) \in Seq(S)
  BY <1>1
<1> QED
  BY <1>3, <1>4, <1>5, SubsequenceUnique

(* A position before the others puts its element first.                    *)
LEMMA SubsequencePrepend ==
  ASSUME NEW S, NEW s \in Seq(S), NEW K \in SUBSET (1 .. Len(s)),
         NEW k \in 1 .. Len(s), \A j \in K : k < j
  PROVE  Subsequence(s, K \cup {k}) = <<s[k]>> \o Subsequence(s, K)
<1>1. Subsequence(s, K) \in Seq(S) /\ s[k] \in S
  BY SubsequenceSelects
<1>2. PICK h : Selects(Subsequence(s, K), s, K, h)
  BY SubsequenceSelects
<1>3. K \in SUBSET Nat /\ k \in Nat /\ K \cup {k} \in SUBSET (1 .. Len(s))
  OBVIOUS
<1>4. \E g : Selects(<<s[k]>> \o Subsequence(s, K), s, K \cup {k}, g)
  BY <1>1, <1>2, <1>3, SelectsPrepend
<1>5. <<s[k]>> \o Subsequence(s, K) \in Seq(S)
  BY <1>1
<1> QED
  BY <1>3, <1>4, <1>5, SubsequenceUnique

(* What is appended later does not count.                                  *)
LEMMA SubsequenceOfAppend ==
  ASSUME NEW S, NEW s \in Seq(S), NEW K \in SUBSET (1 .. Len(s)), NEW x \in S
  PROVE  Subsequence(Append(s, x), K) = Subsequence(s, K)
<1> DEFINE t == Subsequence(s, K)
<1>1. t \in Seq(S)
  BY SubsequenceSelects
<1>2. PICK h : Selects(t, s, K, h)
  BY SubsequenceSelects
<1>3. Append(s, x) \in Seq(S) /\ Len(Append(s, x)) = Len(s) + 1
  OBVIOUS
<1>4. \A k \in K : Append(s, x)[k] = s[k]
  OBVIOUS
<1>5. K \in SUBSET (1 .. Len(Append(s, x)))
  BY <1>3
<1> HIDE DEF t
<1>6. Selects(t, Append(s, x), K, h)
  BY <1>2, <1>4 DEF Selects
<1>7. t = Subsequence(Append(s, x), K)
  BY <1>1, <1>3, <1>5, <1>6, SubsequenceUnique
<1> QED
  BY <1>7 DEF t

(* Prepending reverses to appending.                                       *)
LEMMA BackwardPrepend ==
  ASSUME NEW S, NEW t \in Seq(S), NEW x \in S
  PROVE  Append(Backward(t), x) = Backward(<<x>> \o t)
<1> DEFINE n == Len(t)
           u == <<x>> \o t
<1>1. n \in Nat /\ Len(u) = n + 1 /\ u \in Seq(S) /\ u[1] = x /\ \A k \in 2 .. n + 1 : u[k] = t[k - 1]
  OBVIOUS
<1> HIDE DEF u
<1>2. Backward(t) \in Seq(S) /\ Len(Backward(t)) = n
  BY <1>1 DEF Backward
<1>3. \A k \in 1 .. n : Backward(t)[k] = t[n + 1 - k]
  BY DEF Backward
<1>4. Backward(u) = [k \in 1 .. n + 1 |-> u[n + 2 - k]]
  BY <1>1 DEF Backward
<1>5. ASSUME NEW k \in 1 .. n + 1
      PROVE  Append(Backward(t), x)[k] = u[n + 2 - k]
  <2>1. CASE k = n + 1
    BY <1>1, <1>2, <2>1
  <2>2. CASE k # n + 1
    <3>1. k \in 1 .. n /\ n + 2 - k \in 2 .. n + 1 /\ (n + 2 - k) - 1 = n + 1 - k
      BY <1>1, <2>2
    <3>2. Append(Backward(t), x)[k] = Backward(t)[k]
      BY <1>2, <3>1
    <3>3. u[n + 2 - k] = t[n + 1 - k]
      BY <1>1, <3>1
    <3>4. QED
      BY <1>3, <3>1, <3>2, <3>3
  <2>3. QED
    BY <2>1, <2>2
<1>6. Append(Backward(t), x) = [k \in 1 .. n + 1 |-> Append(Backward(t), x)[k]]
  <2> DEFINE v == Append(Backward(t), x)
  <2>1. v \in Seq(S) /\ Len(v) = n + 1
    BY <1>2
  <2> HIDE DEF v
  <2>2. v = [k \in 1 .. Len(v) |-> v[k]]
    BY <2>1
  <2>3. QED
    BY <2>1, <2>2 DEF v
<1>7. QED
  BY <1>4, <1>5, <1>6 DEF u

-----------------------------------------------------------------------------
(* What FlattenSeq has put together of the first sequences of q.           *)
IsFlat(f, q, N) == f = [n \in 1 .. N |-> IF n = 1 THEN q[n] ELSE f[n - 1] \o q[n]]

(* The recursion of FlattenSeq has a solution.                             *)
LEMMA FlatExists ==
  ASSUME NEW q, NEW N \in Nat
  PROVE  \E f : IsFlat(f, q, N)
<1> DEFINE T == {n \in 0 .. N : \E f : IsFlat(f, q, n)}
<1>1. 0 \in T
  <2> DEFINE f == [n \in 1 .. 0 |-> <<>>]
  <2>1. IsFlat(f, q, 0)
    BY DEF IsFlat
  <2> QED
    BY <2>1
<1>2. ASSUME NEW n \in 0 .. N - 1, n \in T
      PROVE  n + 1 \in T
  <2>1. PICK f : IsFlat(f, q, n)
    BY <1>2
  <2> DEFINE next == IF n = 0 THEN q[n + 1] ELSE f[n] \o q[n + 1]
             g == [m \in 1 .. n + 1 |-> IF m = n + 1 THEN next ELSE f[m]]
  <2>2. \A m \in 1 .. n : g[m] = f[m]
    OBVIOUS
  <2>3. g[n + 1] = next
    OBVIOUS
  <2>4. \A m \in 1 .. n : f[m] = IF m = 1 THEN q[m] ELSE f[m - 1] \o q[m]
    BY <2>1 DEF IsFlat
  <2> HIDE DEF g
  <2>5. \A m \in 1 .. n + 1 : g[m] = IF m = 1 THEN q[m] ELSE g[m - 1] \o q[m]
    <3> SUFFICES ASSUME NEW m \in 1 .. n + 1
                 PROVE  g[m] = IF m = 1 THEN q[m] ELSE g[m - 1] \o q[m]
      OBVIOUS
    <3>1. CASE m = n + 1
      BY <2>2, <2>3, <3>1
    <3>2. CASE m \in 1 .. n
      <4>1. m # 1 => m - 1 \in 1 .. n
        BY <3>2
      <4> QED
        BY <2>2, <2>4, <3>2, <4>1
    <3> QED
      BY <3>1, <3>2
  <2>6. IsFlat(g, q, n + 1)
    BY <2>5 DEF IsFlat, g
  <2> QED
    BY <2>6
<1> HIDE DEF T
<1>3. N \in T
  BY <1>1, <1>2, UpTo
<1> QED
  BY <1>3 DEF T

(* What is left of a sequence that is taken from the front.                *)
EndOf(rest, follow) ==
  Len(rest) <= Len(follow) /\ rest = SubSeq(follow, Len(follow) + 1 - Len(rest), Len(follow))

(* The first element of what is left is the next one of the sequence.      *)
LEMMA RestAdvances ==
  ASSUME NEW S, NEW follow \in Seq(S), NEW rest \in Seq(S), rest # <<>>, EndOf(rest, follow)
  PROVE  /\ Len(rest) \in 1 .. Len(follow)
         /\ Head(rest) = follow[Len(follow) + 1 - Len(rest)]
         /\ Tail(rest) \in Seq(S) /\ Len(Tail(rest)) = Len(rest) - 1
         /\ EndOf(Tail(rest), follow)
<1>1. Len(rest) \in Nat /\ Len(rest) > 0 /\ Len(follow) \in Nat
  OBVIOUS
<1>2. Len(Tail(rest)) = Len(rest) - 1 /\ Tail(rest) \in Seq(S)
  BY <1>1
<1>3. Len(rest) <= Len(follow) /\ \A k \in 1 .. Len(rest) : rest[k] = follow[Len(follow) + 1 - Len(rest) + k - 1]
  BY DEF EndOf
<1>4. Head(rest) = rest[1]
  BY <1>1
<1>5. \A k \in 1 .. Len(rest) - 1 : Tail(rest)[k] = rest[k + 1]
  BY <1>1
<1>6. EndOf(Tail(rest), follow)
  BY <1>1, <1>2, <1>3, <1>5 DEF EndOf
<1> QED
  BY <1>1, <1>2, <1>3, <1>4, <1>6
=============================================================================
