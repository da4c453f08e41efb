-------------------------- MODULE AssetStoreProofs --------------------------
(***************************************************************************)
(* Proofs about AssetStore: the list of assets and the map agree, and the  *)
(* list holds the most recently stored assets in their order.              *)
(***************************************************************************)
EXTENDS AssetStore, BasicFacts

(* A pointer leads to the map or to a local variable.                      *)
LEMMA PointerFacts ==
  /\ \A id \in Ids : Entry(id) \in Pointer /\ Entry(id).to = "entry" /\ Entry(id).at = id
  /\ \A a \in Frames : Local(a) \in Pointer /\ Local(a).to = "local"
  /\ \A p \in Pointer : p.to = "entry" => p.at \in Ids /\ p = Entry(p.at)
  /\ \A p \in Pointer : p.to # "entry" => p.to = "local"
BY DEF Pointer, Entry, Local

(* What Without leaves, and where it was: all but x, in the same order.    *)
Leaves(u, s, x, h) ==
  /\ \A i \in DOMAIN u : h[i] \in DOMAIN s /\ u[i] = s[h[i]] /\ u[i] # x
  /\ \A i, j \in DOMAIN u : i < j <=> h[i] < h[j]
  /\ \A k \in DOMAIN s : s[k] # x => \E i \in DOMAIN u : h[i] = k

(* What is left of a list without an id are the other pointers, in order.  *)
LEMMA WithoutLeaves ==
  ASSUME NEW S, NEW s \in Seq(S), NEW x
  PROVE  /\ Without(s, x) \in Seq(S)
         /\ \E h : Leaves(Without(s, x), s, x, h)
<1> DEFINE K == {k \in DOMAIN s : s[k] # x}
           u == Subsequence(s, K)
<1>1. Len(s) \in Nat /\ DOMAIN s = 1 .. Len(s) /\ K \in SUBSET (1 .. Len(s))
  OBVIOUS
<1>2. u \in Seq(S)
  BY <1>1, SubsequenceSelects
<1>3. PICK h : Selects(u, s, K, h)
  BY <1>1, SubsequenceSelects
<1>4. Len(u) \in Nat /\ DOMAIN u = 1 .. Len(u)
  BY <1>2
<1>5. Without(s, x) = u
  BY DEF Without
<1>6. \A k \in K : k \in Nat /\ k \in DOMAIN s /\ s[k] # x
  BY <1>1
<1>7. \A k \in DOMAIN s : s[k] # x => k \in K
  OBVIOUS
<1> HIDE DEF u, K
<1>8. /\ \A i \in DOMAIN u : h[i] \in K /\ u[i] = s[h[i]]
      /\ \A i, j \in DOMAIN u : i < j => h[i] < h[j]
      /\ \A k \in K : \E i \in DOMAIN u : h[i] = k
  BY <1>3, <1>4 DEF Selects
<1>9. \A i \in DOMAIN u : h[i] \in Nat /\ h[i] \in DOMAIN s /\ s[h[i]] # x
  BY <1>8, <1>6
<1>10. \A i, j \in DOMAIN u : h[i] < h[j] => i < j
  <2> SUFFICES ASSUME NEW i \in DOMAIN u, NEW j \in DOMAIN u, h[i] < h[j], ~ (i < j)
               PROVE  FALSE
    OBVIOUS
  <2>1. i \in Nat /\ j \in Nat /\ h[i] \in Nat /\ h[j] \in Nat
    BY <1>4, <1>9
  <2>2. i = j \/ j < i
    BY <2>1
  <2>3. j < i => h[j] < h[i]
    BY <1>8
  <2> QED
    BY <2>1, <2>2, <2>3
<1>11. \A k \in DOMAIN s : s[k] # x => \E i \in DOMAIN u : h[i] = k
  BY <1>8, <1>7
<1>12. Leaves(u, s, x, h)
  BY <1>8, <1>9, <1>10, <1>11 DEF Leaves
<1> QED
  BY <1>2, <1>5, <1>12

(* What is listed after Without.                                           *)
LEMMA WithoutLists ==
  ASSUME NEW list \in Seq(Pointer), NEW x, NEW id
  PROVE  Lists(Without(list, x), id) <=> Lists(list, id) /\ Entry(id) # x
<1>1. Without(list, x) \in Seq(Pointer)
  BY WithoutLeaves
<1>2. PICK h : Leaves(Without(list, x), list, x, h)
  BY WithoutLeaves
<1> QED
  BY <1>2 DEF Leaves, Lists

(* Taking one id out of both keeps the list in the order.                  *)
LEMMA FollowsWithout ==
  ASSUME NEW list \in Seq(Pointer), NEW order \in Seq(Ids), NEW id \in Ids,
         Follows(list, order)
  PROVE  Follows(Without(list, Entry(id)), Without(order, id))
<1> DEFINE u == Without(list, Entry(id))
           v == Without(order, id)
<1>1. PICK h : Leaves(u, list, Entry(id), h)
  BY WithoutLeaves
<1>2. PICK g : Leaves(v, order, id, g)
  BY WithoutLeaves
<1>3. u \in Seq(Pointer) /\ v \in Seq(Ids)
  BY WithoutLeaves
<1>4. \A y : Lists(u, y) <=> Lists(list, y) /\ Entry(y) # Entry(id)
  BY WithoutLists
<1>5. \A y : Entry(y) = Entry(id) <=> y = id
  BY DEF Entry
<1> HIDE DEF u, v
<1>6. /\ \A i \in DOMAIN u : i \in Nat /\ h[i] \in Nat
      /\ \A i \in DOMAIN v : i \in Nat /\ g[i] \in Nat /\ v[i] \in Ids
  BY <1>1, <1>2, <1>3 DEF Leaves
<1>7. \A j, k \in DOMAIN u : u[j].to = "entry" /\ u[j] = u[k] => j = k
  <2> SUFFICES ASSUME NEW j \in DOMAIN u, NEW k \in DOMAIN u, u[j].to = "entry", u[j] = u[k]
               PROVE  j = k
    OBVIOUS
  <2>1. h[j] = h[k]
    BY <1>1 DEF Leaves, Follows
  <2> QED
    BY <1>1, <1>6, <2>1 DEF Leaves
<1>8. \A p, q \in DOMAIN v : v[p] = v[q] => p = q
  <2> SUFFICES ASSUME NEW p \in DOMAIN v, NEW q \in DOMAIN v, v[p] = v[q]
               PROVE  p = q
    OBVIOUS
  <2>1. g[p] = g[q]
    BY <1>2 DEF Leaves, Follows
  <2> QED
    BY <1>2, <1>6, <2>1 DEF Leaves
<1>9. \A y \in Ids : Lists(u, y) => \E p \in DOMAIN v : v[p] = y
  <2> SUFFICES ASSUME NEW y \in Ids, Lists(u, y)
               PROVE  \E p \in DOMAIN v : v[p] = y
    OBVIOUS
  <2>1. Lists(list, y) /\ y # id
    BY <1>4, <1>5
  <2>2. PICK p \in DOMAIN order : order[p] = y
    BY <2>1 DEF Follows
  <2>3. PICK i \in DOMAIN v : g[i] = p
    BY <1>2, <2>1, <2>2 DEF Leaves
  <2> QED
    BY <1>2, <2>2, <2>3 DEF Leaves
<1>10. \A j, k \in DOMAIN u, p, q \in DOMAIN v :
         j < k /\ u[j] = Entry(v[p]) /\ u[k] = Entry(v[q]) => p < q
  <2> SUFFICES ASSUME NEW j \in DOMAIN u, NEW k \in DOMAIN u, NEW p \in DOMAIN v, NEW q \in DOMAIN v,
                      j < k, u[j] = Entry(v[p]), u[k] = Entry(v[q])
               PROVE  p < q
    OBVIOUS
  <2>1. /\ h[j] \in DOMAIN list /\ h[k] \in DOMAIN list /\ h[j] < h[k]
        /\ list[h[j]] = u[j] /\ list[h[k]] = u[k]
    BY <1>1 DEF Leaves
  <2>2. /\ g[p] \in DOMAIN order /\ g[q] \in DOMAIN order
        /\ order[g[p]] = v[p] /\ order[g[q]] = v[q]
    BY <1>2 DEF Leaves
  <2>3. g[p] < g[q]
    BY <2>1, <2>2 DEF Follows
  <2> QED
    BY <1>2, <2>3 DEF Leaves
<1>11. \A p, q \in DOMAIN v : p < q /\ Lists(u, v[p]) => Lists(u, v[q])
  <2> SUFFICES ASSUME NEW p \in DOMAIN v, NEW q \in DOMAIN v, p < q, Lists(u, v[p])
               PROVE  Lists(u, v[q])
    OBVIOUS
  <2>1. /\ g[p] \in DOMAIN order /\ g[q] \in DOMAIN order /\ g[p] < g[q]
        /\ order[g[p]] = v[p] /\ order[g[q]] = v[q] /\ v[q] # id
    BY <1>2 DEF Leaves
  <2>2. Lists(list, v[q])
    BY <1>4, <2>1 DEF Follows
  <2> QED
    BY <1>4, <1>5, <2>1, <2>2
<1>12. Follows(u, v)
  BY <1>7, <1>8, <1>9, <1>10, <1>11 DEF Follows
<1> QED
  BY <1>12 DEF u, v

(* What is listed after the first pointer is gone.                         *)
LEMMA TailLists ==
  ASSUME NEW list \in Seq(Pointer), NEW order, Follows(list, order), list # <<>>,
         list[1].to = "entry", NEW id
  PROVE  Lists(Tail(list), id) <=> Lists(list, id) /\ Entry(id) # list[1]
<1> DEFINE n == Len(list)
           u == Tail(list)
<1>1. /\ n \in Nat \ {0} /\ DOMAIN list = 1 .. n /\ DOMAIN u = 1 .. n - 1
      /\ \A k \in 1 .. n - 1 : u[k] = list[k + 1]
  OBVIOUS
<1> HIDE DEF n, u
<1>2. \A j, k \in 1 .. n : list[j].to = "entry" /\ list[j] = list[k] => j = k
  BY <1>1 DEF Follows
<1>3. Lists(u, id) <=> \E k \in 1 .. n - 1 : list[k + 1] = Entry(id)
  BY <1>1 DEF Lists
<1>4. Lists(list, id) <=> \E k \in 1 .. n : list[k] = Entry(id)
  BY <1>1 DEF Lists
<1>5. ASSUME Lists(u, id)
      PROVE  Lists(list, id) /\ Entry(id) # list[1]
  <2>1. PICK k \in 1 .. n - 1 : list[k + 1] = Entry(id)
    BY <1>3, <1>5
  <2>2. k + 1 \in 1 .. n /\ k + 1 # 1 /\ 1 \in 1 .. n
    BY <1>1
  <2> QED
    BY <1>2, <1>4, <2>1, <2>2
<1>6. ASSUME Lists(list, id), Entry(id) # list[1]
      PROVE  Lists(u, id)
  <2>1. PICK k \in 1 .. n : list[k] = Entry(id)
    BY <1>4, <1>6
  <2>2. k - 1 \in 1 .. n - 1 /\ (k - 1) + 1 = k
    BY <1>1, <1>6, <2>1
  <2> QED
    BY <1>3, <2>1, <2>2
<1> QED
  BY <1>5, <1>6 DEF u

(* Dropping the first pointer drops the first listed id of the order.      *)
LEMMA FollowsTail ==
  ASSUME NEW list \in Seq(Pointer), NEW order \in Seq(Ids), Follows(list, order), list # <<>>,
         list[1].to = "entry"
  PROVE  Follows(Tail(list), order)
<1> DEFINE n == Len(list)
           u == Tail(list)
<1>1. /\ n \in Nat \ {0} /\ DOMAIN list = 1 .. n /\ DOMAIN u = 1 .. n - 1
      /\ \A k \in 1 .. n - 1 : u[k] = list[k + 1] /\ k + 1 \in 1 .. n
  OBVIOUS
<1>2. \A id : Lists(u, id) <=> Lists(list, id) /\ Entry(id) # list[1]
  BY TailLists
<1>3. DOMAIN order \subseteq Nat /\ \A p \in DOMAIN order : order[p] \in Ids
  OBVIOUS
<1> HIDE DEF n, u
<1>4. /\ \A j, k \in 1 .. n : list[j].to = "entry" /\ list[j] = list[k] => j = k
      /\ \A p, q \in DOMAIN order : order[p] = order[q] => p = q
      /\ \A id \in Ids : Lists(list, id) => \E p \in DOMAIN order : order[p] = id
      /\ \A j, k \in 1 .. n, p, q \in DOMAIN order :
           j < k /\ list[j] = Entry(order[p]) /\ list[k] = Entry(order[q]) => p < q
      /\ \A p, q \in DOMAIN order : p < q /\ Lists(list, order[p]) => Lists(list, order[q])
  BY <1>1 DEF Follows
<1>5. \A j, k \in DOMAIN u : u[j].to = "entry" /\ u[j] = u[k] => j = k
  <2> SUFFICES ASSUME NEW j \in 1 .. n - 1, NEW k \in 1 .. n - 1, u[j].to = "entry", u[j] = u[k]
               PROVE  j = k
    BY <1>1
  <2>1. /\ j + 1 \in 1 .. n /\ k + 1 \in 1 .. n
        /\ list[j + 1].to = "entry" /\ list[j + 1] = list[k + 1]
    BY <1>1
  <2>2. j + 1 = k + 1
    BY <1>4, <2>1
  <2> QED
    BY <2>2
<1>6. \A j, k \in DOMAIN u, p, q \in DOMAIN order :
        j < k /\ u[j] = Entry(order[p]) /\ u[k] = Entry(order[q]) => p < q
  <2> SUFFICES ASSUME NEW j \in 1 .. n - 1, NEW k \in 1 .. n - 1,
                      NEW p \in DOMAIN order, NEW q \in DOMAIN order,
                      j < k, u[j] = Entry(order[p]), u[k] = Entry(order[q])
               PROVE  p < q
    BY <1>1
  <2>1. j + 1 \in 1 .. n /\ k + 1 \in 1 .. n /\ j + 1 < k + 1
    BY <1>1
  <2> QED
    BY <1>1, <1>4, <2>1
<1>7. \A p, q \in DOMAIN order : p < q /\ Lists(u, order[p]) => Lists(u, order[q])
  <2> SUFFICES ASSUME NEW p \in DOMAIN order, NEW q \in DOMAIN order, p < q, Lists(u, order[p]),
                      Entry(order[q]) = list[1]
               PROVE  FALSE
    BY <1>2, <1>4
  <2>1. PICK k \in 1 .. n - 1 : u[k] = Entry(order[p])
    BY <1>1 DEF Lists
  <2>2. k + 1 \in 1 .. n /\ 1 \in 1 .. n /\ 1 < k + 1 /\ list[k + 1] = Entry(order[p])
    BY <1>1, <2>1
  <2>3. q < p
    BY <1>4, <2>2
  <2> QED
    BY <1>3, <2>3
<1>8. Follows(u, order)
  BY <1>2, <1>4, <1>5, <1>6, <1>7 DEF Follows
<1> QED
  BY <1>8 DEF u

(* What is listed after one pointer more.                                  *)
LEMMA AppendLists ==
  ASSUME NEW list \in Seq(Pointer), NEW p \in Pointer, NEW id
  PROVE  Lists(Append(list, p), id) <=> Lists(list, id) \/ p = Entry(id)
<1> DEFINE n == Len(list)
           u == Append(list, p)
<1>1. /\ n \in Nat /\ DOMAIN list = 1 .. n /\ DOMAIN u = 1 .. n + 1
      /\ u[n + 1] = p /\ \A k \in 1 .. n : u[k] = list[k]
  OBVIOUS
<1> HIDE DEF n, u
<1>2. \A k : k \in 1 .. n + 1 <=> k = n + 1 \/ k \in 1 .. n
  BY <1>1
<1>3. Lists(u, id) <=> Lists(list, id) \/ p = Entry(id)
  BY <1>1, <1>2 DEF Lists
<1> QED
  BY <1>3 DEF u

(* An id that is new comes last in both.                                   *)
LEMMA FollowsAppend ==
  ASSUME NEW list \in Seq(Pointer), NEW order \in Seq(Ids), Follows(list, order), NEW id \in Ids,
         \A p \in DOMAIN order : order[p] # id
  PROVE  Follows(Append(list, Entry(id)), Append(order, id))
<1> DEFINE n == Len(list)
           m == Len(order)
           u == Append(list, Entry(id))
           v == Append(order, id)
<1>0. Entry(id) \in Pointer
  BY PointerFacts
<1>1. /\ n \in Nat /\ DOMAIN list = 1 .. n /\ DOMAIN u = 1 .. n + 1
      /\ u[n + 1] = Entry(id) /\ \A k \in 1 .. n : u[k] = list[k]
  BY <1>0
<1>2. /\ m \in Nat /\ DOMAIN order = 1 .. m /\ DOMAIN v = 1 .. m + 1
      /\ v[m + 1] = id /\ \A p \in 1 .. m : v[p] = order[p] /\ order[p] # id
  OBVIOUS
<1>3. \A y : Lists(u, y) <=> Lists(list, y) \/ y = id
  <2>1. \A y : Entry(id) = Entry(y) <=> y = id
    BY DEF Entry
  <2> QED
    BY <1>0, <2>1, AppendLists
<1>4. /\ \A k \in 1 .. n + 1 : k = n + 1 \/ k \in 1 .. n
      /\ \A k \in 1 .. m + 1 : k = m + 1 \/ k \in 1 .. m
  BY <1>1, <1>2
<1>5. \A y, z : Entry(y) = Entry(z) => y = z
  BY DEF Entry
<1> HIDE DEF n, m, u, v
<1>6. /\ \A j, k \in 1 .. n : list[j].to = "entry" /\ list[j] = list[k] => j = k
      /\ \A p, q \in 1 .. m : order[p] = order[q] => p = q
      /\ \A y \in Ids : Lists(list, y) => \E p \in 1 .. m : order[p] = y
      /\ \A j, k \in 1 .. n, p, q \in 1 .. m :
           j < k /\ list[j] = Entry(order[p]) /\ list[k] = Entry(order[q]) => p < q
      /\ \A p, q \in 1 .. m : p < q /\ Lists(list, order[p]) => Lists(list, order[q])
  BY <1>1, <1>2 DEF Follows
<1>7. \A k \in 1 .. n : list[k] # Entry(id)
  <2> SUFFICES ASSUME NEW k \in 1 .. n, list[k] = Entry(id)
               PROVE  FALSE
    OBVIOUS
  <2>1. Lists(list, id)
    BY <1>1 DEF Lists
  <2> QED
    BY <1>2, <1>6, <2>1
<1>8. \A j, k \in DOMAIN u : u[j].to = "entry" /\ u[j] = u[k] => j = k
  BY <1>1, <1>4, <1>6, <1>7
<1>9. \A p, q \in DOMAIN v : v[p] = v[q] => p = q
  BY <1>2, <1>4, <1>6
<1>10. \A y \in Ids : Lists(u, y) => \E p \in DOMAIN v : v[p] = y
  <2> SUFFICES ASSUME NEW y \in Ids, Lists(u, y)
               PROVE  \E p \in 1 .. m + 1 : v[p] = y
    BY <1>2
  <2>1. CASE y = id
    <3>1. m + 1 \in 1 .. m + 1
      BY <1>2
    <3> QED
      BY <1>2, <2>1, <3>1
  <2>2. CASE Lists(list, y)
    <3>1. PICK p \in 1 .. m : order[p] = y
      BY <1>6, <2>2
    <3>2. p \in 1 .. m + 1
      BY <1>2
    <3> QED
      BY <1>2, <3>1, <3>2
  <2> QED
    BY <1>3, <2>1, <2>2
<1>11. \A j, k \in DOMAIN u, p, q \in DOMAIN v :
         j < k /\ u[j] = Entry(v[p]) /\ u[k] = Entry(v[q]) => p < q
  <2> SUFFICES ASSUME NEW j \in 1 .. n + 1, NEW k \in 1 .. n + 1,
                      NEW p \in 1 .. m + 1, NEW q \in 1 .. m + 1,
                      j < k, u[j] = Entry(v[p]), u[k] = Entry(v[q])
               PROVE  p < q
    BY <1>1, <1>2
  <2>1. j \in 1 .. n /\ u[j] = list[j]
    BY <1>1, <1>4
  <2>2. p \in 1 .. m /\ v[p] = order[p]
    BY <1>2, <1>4, <1>7, <2>1
  <2>3. CASE k = n + 1
    <3>1. v[q] = id
      BY <1>1, <1>5, <2>3
    <3>2. q = m + 1
      BY <1>2, <1>4, <3>1
    <3> QED
      BY <1>2, <2>2, <3>2
  <2>4. CASE k \in 1 .. n
    <3>1. u[k] = list[k]
      BY <1>1, <2>4
    <3>2. q \in 1 .. m /\ v[q] = order[q]
      BY <1>2, <1>4, <1>7, <2>4, <3>1
    <3> QED
      BY <1>6, <2>1, <2>2, <2>4, <3>1, <3>2
  <2> QED
    BY <1>4, <2>3, <2>4
<1>12. \A p, q \in DOMAIN v : p < q /\ Lists(u, v[p]) => Lists(u, v[q])
  <2> SUFFICES ASSUME NEW p \in 1 .. m + 1, NEW q \in 1 .. m + 1, p < q, Lists(u, v[p])
               PROVE  Lists(u, v[q])
    BY <1>2
  <2>1. p \in 1 .. m /\ v[p] = order[p] /\ v[p] # id
    BY <1>2, <1>4
  <2>2. Lists(list, order[p])
    BY <1>3, <2>1
  <2>3. q = m + 1 \/ q \in 1 .. m
    BY <1>4
  <2> QED
    BY <1>2, <1>3, <1>6, <2>1, <2>2, <2>3
<1>13. Follows(u, v)
  BY <1>8, <1>9, <1>10, <1>11, <1>12 DEF Follows
<1> QED
  BY <1>13 DEF u, v

(* Pointers to local variables do not count.                               *)
LEMMA FollowsWithoutLocal ==
  ASSUME NEW list \in Seq(Pointer), NEW order \in Seq(Ids), NEW a \in Frames,
         Follows(list, order)
  PROVE  /\ Follows(Without(list, Local(a)), order)
         /\ \A id : Lists(Without(list, Local(a)), id) <=> Lists(list, id)
<1> DEFINE u == Without(list, Local(a))
<1>1. PICK h : Leaves(u, list, Local(a), h)
  BY WithoutLeaves
<1>2. u \in Seq(Pointer)
  BY WithoutLeaves
<1>3. \A id : Lists(u, id) <=> Lists(list, id)
  <2>1. \A id : Entry(id) # Local(a)
    BY DEF Entry, Local
  <2> QED
    BY <2>1, WithoutLists
<1> HIDE DEF u
<1>4. \A i \in DOMAIN u : i \in Nat /\ h[i] \in Nat
  BY <1>1, <1>2 DEF Leaves
<1>5. \A j, k \in DOMAIN u : u[j].to = "entry" /\ u[j] = u[k] => j = k
  <2> SUFFICES ASSUME NEW j \in DOMAIN u, NEW k \in DOMAIN u, u[j].to = "entry", u[j] = u[k]
               PROVE  j = k
    OBVIOUS
  <2>1. h[j] = h[k]
    BY <1>1 DEF Leaves, Follows
  <2> QED
    BY <1>1, <1>4, <2>1 DEF Leaves
<1>6. \A j, k \in DOMAIN u, p, q \in DOMAIN order :
        j < k /\ u[j] = Entry(order[p]) /\ u[k] = Entry(order[q]) => p < q
  <2> SUFFICES ASSUME NEW j \in DOMAIN u, NEW k \in DOMAIN u,
                      NEW p \in DOMAIN order, NEW q \in DOMAIN order,
                      j < k, u[j] = Entry(order[p]), u[k] = Entry(order[q])
               PROVE  p < q
    OBVIOUS
  <2>1. /\ h[j] \in DOMAIN list /\ h[k] \in DOMAIN list /\ h[j] < h[k]
        /\ list[h[j]] = u[j] /\ list[h[k]] = u[k]
    BY <1>1 DEF Leaves
  <2> QED
    BY <2>1 DEF Follows
<1>7. Follows(u, order)
  BY <1>3, <1>5, <1>6 DEF Follows
<1> QED
  BY <1>3, <1>7 DEF u

(* A pointer to a local variable at the end of a list changes no order.    *)
LEMMA FollowsAppendLocal ==
  ASSUME NEW list \in Seq(Pointer), NEW order \in Seq(Ids), NEW a \in Frames,
         Follows(list, order)
  PROVE  /\ Follows(Append(list, Local(a)), order)
         /\ \A id : Lists(Append(list, Local(a)), id) <=> Lists(list, id)
<1> DEFINE n == Len(list)
           u == Append(list, Local(a))
<1>0. Local(a) \in Pointer /\ Local(a).to = "local" /\ \A id : Entry(id) # Local(a)
  BY PointerFacts DEF Entry, Local
<1>1. /\ n \in Nat /\ DOMAIN list = 1 .. n /\ DOMAIN u = 1 .. n + 1
      /\ u[n + 1] = Local(a) /\ \A k \in 1 .. n : u[k] = list[k]
  BY <1>0
<1>2. \A id : Lists(u, id) <=> Lists(list, id)
  BY <1>0, AppendLists
<1> HIDE DEF n, u
<1>3. \A k \in 1 .. n + 1 : k = n + 1 \/ k \in 1 .. n
  BY <1>1
<1>4. /\ \A j, k \in 1 .. n : list[j].to = "entry" /\ list[j] = list[k] => j = k
      /\ \A p, q \in DOMAIN order : order[p] = order[q] => p = q
      /\ \A id \in Ids : Lists(list, id) => \E p \in DOMAIN order : order[p] = id
      /\ \A j, k \in 1 .. n, p, q \in DOMAIN order :
           j < k /\ list[j] = Entry(order[p]) /\ list[k] = Entry(order[q]) => p < q
      /\ \A p, q \in DOMAIN order : p < q /\ Lists(list, order[p]) => Lists(list, order[q])
  BY <1>1 DEF Follows
<1>5. \A j, k \in DOMAIN u : u[j].to = "entry" /\ u[j] = u[k] => j = k
  <2> SUFFICES ASSUME NEW j \in 1 .. n + 1, NEW k \in 1 .. n + 1, u[j].to = "entry", u[j] = u[k]
               PROVE  j = k
    BY <1>1
  <2>1. j \in 1 .. n /\ k \in 1 .. n
    BY <1>0, <1>1, <1>3
  <2> QED
    BY <1>1, <1>4, <2>1
<1>6. \A j, k \in DOMAIN u, p, q \in DOMAIN order :
        j < k /\ u[j] = Entry(order[p]) /\ u[k] = Entry(order[q]) => p < q
  <2> SUFFICES ASSUME NEW j \in 1 .. n + 1, NEW k \in 1 .. n + 1,
                      NEW p \in DOMAIN order, NEW q \in DOMAIN order,
                      j < k, u[j] = Entry(order[p]), u[k] = Entry(order[q])
               PROVE  p < q
    BY <1>1
  <2>1. j \in 1 .. n /\ k \in 1 .. n
    BY <1>0, <1>1, <1>3
  <2> QED
    BY <1>1, <1>4, <2>1
<1>7. Follows(u, order)
  BY <1>2, <1>4, <1>5, <1>6 DEF Follows
<1> QED
  BY <1>2, <1>7 DEF u

(* A list lists no more ids than it has pointers.                          *)
ListedIn(list) == {id \in Ids : Lists(list, id)}

(* The ids that are listed are finitely many, and no more than the list is *)
(* long.                                                                   *)
LEMMA ListedFinite ==
  ASSUME NEW list \in Seq(Pointer)
  PROVE  /\ IsFiniteSet(ListedIn(list))
         /\ Cardinality(ListedIn(list)) \in Nat
         /\ Cardinality(ListedIn(list)) <= Len(list)
<1> DEFINE n == Len(list)
           L == ListedIn(list)
           E == {k \in 1 .. n : list[k].to = "entry"}
           f == [k \in E |-> list[k].at]
<1>1. n \in Nat /\ DOMAIN list = 1 .. n /\ \A k \in 1 .. n : list[k] \in Pointer
  OBVIOUS
<1> HIDE DEF n
<1>2. IsFiniteSet(1 .. n) /\ Cardinality(1 .. n) = n
  BY <1>1, FS_Interval
<1>3. E \subseteq 1 .. n
  OBVIOUS
<1>4. IsFiniteSet(E) /\ Cardinality(E) <= n /\ Cardinality(E) \in Nat
  <2> HIDE DEF E
  <2> QED
    BY <1>2, <1>3, FS_Subset, FS_CardinalityType
<1>5. \A k \in E : list[k].at \in Ids /\ list[k] = Entry(list[k].at)
  BY <1>1, PointerFacts
<1>6. \A k \in E : list[k].at \in L
  BY <1>1, <1>5 DEF ListedIn, Lists
<1>7. ASSUME NEW id \in L
      PROVE  \E k \in E : f[k] = id
  <2>1. PICK k \in 1 .. n : list[k] = Entry(id)
    BY <1>1 DEF ListedIn, Lists
  <2>2. k \in E /\ list[k].at = id
    BY <2>1, PointerFacts DEF ListedIn
  <2> QED
    BY <2>2
<1>8. f \in [E -> L]
  BY <1>6
<1>9. f \in Surjection(E, L)
  <2> HIDE DEF f, E, L
  <2> QED
    BY <1>7, <1>8 DEF Surjection
<1> HIDE DEF f, E, L
<1>10. IsFiniteSet(L) /\ Cardinality(L) <= Cardinality(E)
  BY <1>4, <1>9, FS_Surjection
<1>11. Cardinality(L) \in Nat
  BY <1>10, FS_CardinalityType
<1>12. Cardinality(L) <= n
  BY <1>1, <1>4, <1>10, <1>11
<1> QED
  BY <1>10, <1>11, <1>12 DEF L, n

(* The pointers of a list to the map.                                      *)
EntriesOf(list) == Subsequence(list, {k \in DOMAIN list : list[k].to = "entry"})

(* The pointers e are to the last ids of the order.                        *)
IsEnd(e, order) ==
  /\ Len(e) <= Len(order)
  /\ \A k \in 1 .. Len(e) : e[k] = Entry(order[Len(order) - Len(e) + k])

(* A list that follows an order has the end of the order.                  *)
LEMMA FollowsIsEnd ==
  ASSUME NEW list \in Seq(Pointer), NEW order \in Seq(Ids), Follows(list, order),
         NEW e, e = EntriesOf(list), NEW n, n = Len(e), NEW m, m = Len(order)
  PROVE  /\ e \in Seq(Pointer) /\ n \in Nat
         /\ IsEnd(e, order)
         /\ \A j, k \in 1 .. n : e[j] = e[k] => j = k
         /\ n <= Cardinality(ListedIn(list))
<1> DEFINE E == {k \in DOMAIN list : list[k].to = "entry"}
           K == {p \in 1 .. m : Lists(list, order[p])}
<1>1. /\ E \in SUBSET (1 .. Len(list)) /\ DOMAIN list = 1 .. Len(list)
      /\ Len(list) \in Nat /\ \A k \in DOMAIN list : list[k] \in Pointer
  OBVIOUS
<1>2. m \in Nat /\ DOMAIN order = 1 .. m /\ \A p \in 1 .. m : order[p] \in Ids
  OBVIOUS
<1>3. e = Subsequence(list, E)
  BY DEF EntriesOf
<1>4. e \in Seq(Pointer)
  BY <1>1, <1>3, SubsequenceSelects
<1>5. PICK h : Selects(e, list, E, h)
  BY <1>1, <1>3, SubsequenceSelects
<1>6. n \in Nat /\ DOMAIN e = 1 .. n
  BY <1>4
<1>7. \A k \in E : k \in DOMAIN list /\ k \in Nat /\ list[k].to = "entry"
  BY <1>1
<1>8. \A k \in DOMAIN list : list[k].to = "entry" => k \in E
  OBVIOUS
<1>9. \A p : p \in K <=> p \in 1 .. m /\ Lists(list, order[p])
  OBVIOUS
<1> HIDE DEF E, K
<1>10. /\ \A i \in 1 .. n : h[i] \in E /\ e[i] = list[h[i]]
       /\ \A i, j \in 1 .. n : i < j => h[i] < h[j]
       /\ \A k \in E : \E i \in 1 .. n : h[i] = k
  BY <1>5 DEF Selects
<1>11. \A i \in 1 .. n : e[i].at \in Ids /\ e[i] = Entry(e[i].at) /\ Lists(list, e[i].at)
  <2> SUFFICES ASSUME NEW i \in 1 .. n
               PROVE  e[i].at \in Ids /\ e[i] = Entry(e[i].at) /\ Lists(list, e[i].at)
    OBVIOUS
  <2>1. h[i] \in DOMAIN list /\ list[h[i]].to = "entry" /\ list[h[i]] \in Pointer /\ e[i] = list[h[i]]
    BY <1>1, <1>7, <1>10
  <2>2. e[i].at \in Ids /\ e[i] = Entry(e[i].at)
    BY <2>1, PointerFacts
  <2> QED
    BY <2>1, <2>2 DEF Lists
<1>12. \A i \in 1 .. n : \E p \in 1 .. m : order[p] = e[i].at
  BY <1>2, <1>11 DEF Follows
<1>13. PICK g \in [1 .. n -> 1 .. m] : \A i \in 1 .. n : order[g[i]] = e[i].at
  <2> DEFINE f == [i \in 1 .. n |-> CHOOSE p \in 1 .. m : order[p] = e[i].at]
  <2>1. \A i \in 1 .. n : f[i] \in 1 .. m /\ order[f[i]] = e[i].at
    BY <1>12
  <2>2. f \in [1 .. n -> 1 .. m]
    BY <2>1
  <2> HIDE DEF f
  <2> QED
    BY <2>1, <2>2
<1>14. \A i, j \in 1 .. n : i < j => g[i] < g[j]
  <2> SUFFICES ASSUME NEW i \in 1 .. n, NEW j \in 1 .. n, i < j
               PROVE  g[i] < g[j]
    OBVIOUS
  <2>1. /\ h[i] \in DOMAIN list /\ h[j] \in DOMAIN list /\ h[i] < h[j]
        /\ list[h[i]] = e[i] /\ list[h[j]] = e[j]
    BY <1>7, <1>10
  <2>2. g[i] \in DOMAIN order /\ g[j] \in DOMAIN order
    BY <1>2, <1>13
  <2>3. e[i] = Entry(order[g[i]]) /\ e[j] = Entry(order[g[j]])
    BY <1>11, <1>13
  <2> QED
    BY <2>1, <2>2, <2>3 DEF Follows
<1>15. \A i \in 1 .. n : g[i] \in K
  BY <1>9, <1>11, <1>13
<1>16. \A p \in K : \E i \in 1 .. n : g[i] = p
  <2> SUFFICES ASSUME NEW p \in K
               PROVE  \E i \in 1 .. n : g[i] = p
    OBVIOUS
  <2>1. p \in 1 .. m
    BY <1>9
  <2>2. PICK j \in DOMAIN list : list[j] = Entry(order[p])
    BY <1>9 DEF Lists
  <2>3. list[j].to = "entry" /\ list[j].at = order[p]
    BY <1>2, <2>1, <2>2, PointerFacts
  <2>4. PICK i \in 1 .. n : h[i] = j
    BY <1>8, <1>10, <2>3
  <2>5. order[g[i]] = order[p] /\ g[i] \in 1 .. m
    BY <1>10, <1>13, <2>3, <2>4
  <2>6. g[i] = p
    BY <1>2, <2>1, <2>5 DEF Follows
  <2> QED
    BY <2>6
<1>17. \A p, q \in 1 .. m : p < q /\ p \in K => q \in K
  BY <1>2, <1>9 DEF Follows
<1> DEFINE t == [i \in 1 .. n |-> e[i].at]
<1>18. t \in Seq(Ids) /\ Len(t) = n /\ \A i \in 1 .. n : t[i] = order[g[i]]
  BY <1>6, <1>11, <1>13
<1> HIDE DEF t
<1>19. Selects(t, order, K, g)
  <2>1. g \in [1 .. n -> K]
    BY <1>13, <1>15
  <2> QED
    BY <1>14, <1>16, <1>18, <2>1 DEF Selects
<1>20. K \in SUBSET Nat /\ K \subseteq 1 .. m
  BY <1>2, <1>9
<1>21. IsFiniteSet(K) /\ Cardinality(K) = n
  BY <1>18, <1>19, <1>20, SelectsCardinality
<1>22. n <= m /\ \A k \in 1 .. n : g[k] = m - n + k
  <2>1. CASE n = 0
    BY <1>2, <2>1
  <2>2. CASE n # 0
    <3> DEFINE b == g[1]
    <3>1. 1 \in 1 .. n /\ b \in 1 .. m /\ b \in K
      BY <1>6, <1>13, <1>15, <2>2
    <3> HIDE DEF b
    <3>2. ASSUME NEW p \in K
          PROVE  p \in b .. m
      <4>1. PICK i \in 1 .. n : g[i] = p
        BY <1>16
      <4>2. i = 1 \/ 1 < i
        BY <1>6
      <4>3. p \in 1 .. m
        BY <1>20
      <4>4. b = p \/ b < p
        BY <1>14, <3>1, <4>1, <4>2 DEF b
      <4> QED
        BY <1>2, <3>1, <4>3, <4>4
    <3>3. ASSUME NEW p \in b .. m
          PROVE  p \in K
      <4>1. p \in 1 .. m /\ (p = b \/ b < p)
        BY <1>2, <3>1
      <4> QED
        BY <1>17, <3>1, <4>1
    <3>4. K = b .. m
      BY <3>2, <3>3
    <3>5. Cardinality(b .. m) = m - b + 1
      BY <1>2, <3>1, FS_Interval
    <3>6. n = m - b + 1 /\ n <= m
      BY <1>2, <1>21, <3>1, <3>4, <3>5
    <3> DEFINE f == [i \in 1 .. n |-> m - n + i]
               u == [i \in 1 .. n |-> order[m - n + i]]
    <3>7. \A i \in 1 .. n : m - n + i \in b .. m /\ m - n + i \in 1 .. m
      BY <1>2, <1>6, <3>1, <3>6
    <3>8. u \in Seq(Ids) /\ Len(u) = n /\ \A i \in 1 .. n : u[i] = order[f[i]]
      BY <1>2, <1>6, <3>7
    <3>9. f \in [1 .. n -> K] /\ \A i, j \in 1 .. n : i < j => f[i] < f[j]
      <4>1. \A i \in 1 .. n : f[i] = m - n + i /\ f[i] \in K
        BY <3>4, <3>7
      <4>2. \A i, j \in 1 .. n : i < j => m - n + i < m - n + j
        BY <1>2, <1>6
      <4> QED
        BY <4>1, <4>2
    <3>10. ASSUME NEW p \in K
           PROVE  \E i \in 1 .. n : f[i] = p
      <4>1. p \in b .. m
        BY <3>4
      <4>2. p - m + n \in 1 .. n /\ f[p - m + n] = p
        BY <1>2, <1>6, <3>1, <3>6, <4>1
      <4> QED
        BY <4>2
    <3>11. \A i \in 1 .. n : f[i] = m - n + i
      OBVIOUS
    <3> HIDE DEF f, u
    <3>12. Selects(u, order, K, f)
      BY <3>8, <3>9, <3>10 DEF Selects
    <3>13. \A i \in 1 .. Len(t) : i \in 1 .. Len(u) /\ g[i] = f[i]
      <4>1. t \in Seq(Ids) /\ u \in Seq(Ids) /\ K \in SUBSET Nat
        BY <1>18, <1>20, <3>8
      <4> QED
        BY <1>19, <3>12, <4>1, SelectsAgree
    <3> QED
      BY <1>18, <3>6, <3>11, <3>13
  <2> QED
    BY <2>1, <2>2
<1>23. \A k \in 1 .. n : e[k] = Entry(order[m - n + k])
  BY <1>11, <1>13, <1>22
<1>24. \A j, k \in 1 .. n : e[j] = e[k] => j = k
  <2> SUFFICES ASSUME NEW j \in 1 .. n, NEW k \in 1 .. n, e[j] = e[k], j < k
               PROVE  FALSE
    BY <1>6
  <2>1. h[j] = h[k]
    BY <1>7, <1>10 DEF Follows
  <2>2. h[j] < h[k] /\ h[j] \in Nat
    BY <1>7, <1>10
  <2> QED
    BY <2>1, <2>2
<1>25. n <= Cardinality(ListedIn(list))
  <2> DEFINE f == [p \in K |-> order[p]]
  <2>1. f \in [K -> ListedIn(list)] /\ \A p \in K : f[p] = order[p]
    BY <1>2, <1>9 DEF ListedIn
  <2>2. \A p, q \in K : f[p] = f[q] => p = q
    BY <1>2, <1>20 DEF Follows
  <2> HIDE DEF f
  <2>3. f \in Injection(K, ListedIn(list))
    BY <2>1, <2>2 DEF Injection, IsInjective
  <2>4. IsFiniteSet(ListedIn(list))
    BY ListedFinite
  <2> QED
    BY <1>21, <2>3, <2>4, FS_Injection
<1>26. IsEnd(e, order)
  BY <1>22, <1>23 DEF IsEnd
<1> QED
  BY <1>4, <1>6, <1>24, <1>25, <1>26

-----------------------------------------------------------------------------
(* What the operations keep of a list, a map and an order.                 *)
StoreInv(list, map, order) ==
  /\ list \in Seq(Pointer)
  /\ map \in [Ids -> Asset \cup {Null}]
  /\ order \in Seq(Ids)
  /\ Follows(list, order)
  /\ \A id \in Ids : Lists(list, id) => map[id] # Null
  /\ \A id \in Ids : map[id] # Null /\ ~ map[id].removed => Lists(list, id)
  /\ Cardinality(ListedIn(list)) <= MaxAssets

(* The invariant is the lock's and the store's part.                       *)
LEMMA StorePart ==
  TypeOK => (IInv <=> LockInv /\ StoreInv(m_assets, m_assetMap, recency))
<1>1. Listed = ListedIn(m_assets)
  BY DEF Listed, ListedIn
<1>2. (\A id \in Listed : m_assetMap[id] # Null)
        <=> \A id \in Ids : Lists(m_assets, id) => m_assetMap[id] # Null
  BY DEF Listed
<1> QED
  BY <1>1, <1>2 DEF IInv, TypeOK, StoreInv, PresentIsListed, Listed

(* A list that lists less keeps the bound.                                 *)
LEMMA FewerListed ==
  ASSUME NEW list \in Seq(Pointer), NEW less \in Seq(Pointer),
         \A id \in Ids : Lists(less, id) => Lists(list, id)
  PROVE  Cardinality(ListedIn(less)) <= Cardinality(ListedIn(list))
<1>1. ListedIn(less) \in SUBSET ListedIn(list)
  BY DEF ListedIn
<1>2. IsFiniteSet(ListedIn(list))
  BY ListedFinite
<1> QED
  BY <1>1, <1>2, FS_Subset

(* removeAsset and removeAllAssets mark an asset.                          *)
LEMMA MarkStore ==
  ASSUME NEW list, NEW map, NEW order, StoreInv(list, map, order), NEW id \in Ids, map[id] # Null
  PROVE  StoreInv(list, [map EXCEPT ![id].removed = TRUE], order)
<1> DEFINE m == [map EXCEPT ![id].removed = TRUE]
<1>1. map \in [Ids -> Asset \cup {Null}] /\ map[id] \in Asset
  BY DEF StoreInv
<1>2. m = [map EXCEPT ![id] = [map[id] EXCEPT !.removed = TRUE]]
  OBVIOUS
<1>3. PICK a : a = [map[id] EXCEPT !.removed = TRUE]
  OBVIOUS
<1>4. a \in Asset /\ a.removed
  BY <1>1, <1>3 DEF Asset
<1>5. a # Null
  BY <1>4, AssetAssumption
<1>6. m = [map EXCEPT ![id] = a]
  BY <1>2, <1>3
<1> HIDE DEF m
<1>7. m \in [Ids -> Asset \cup {Null}] /\ m[id] = a /\ \A x \in Ids : x # id => m[x] = map[x]
  BY <1>1, <1>4, <1>6
<1>8. \A x \in Ids : Lists(list, x) => m[x] # Null
  BY <1>5, <1>7 DEF StoreInv
<1>9. \A x \in Ids : m[x] # Null /\ ~ m[x].removed => Lists(list, x)
  BY <1>4, <1>7 DEF StoreInv
<1>10. StoreInv(list, m, order)
  BY <1>7, <1>8, <1>9 DEF StoreInv
<1> QED
  BY <1>10 DEF m

(* updateAsset enlists a local variable.                                   *)
LEMMA LocalStore ==
  ASSUME NEW list, NEW map, NEW order, StoreInv(list, map, order), NEW a \in Frames
  PROVE  StoreInv(Append(Without(list, Local(a)), Local(a)), map, order)
<1> DEFINE u == Without(list, Local(a))
           v == Append(u, Local(a))
<1>1. list \in Seq(Pointer) /\ order \in Seq(Ids) /\ Follows(list, order)
  BY DEF StoreInv
<1>2. u \in Seq(Pointer) /\ Local(a) \in Pointer
  BY <1>1, WithoutLeaves, PointerFacts
<1>3. Follows(u, order) /\ \A id : Lists(u, id) <=> Lists(list, id)
  BY <1>1, FollowsWithoutLocal
<1> HIDE DEF u
<1>4. Follows(v, order) /\ \A id : Lists(v, id) <=> Lists(u, id)
  BY <1>1, <1>2, <1>3, FollowsAppendLocal
<1>5. v \in Seq(Pointer)
  BY <1>2
<1> HIDE DEF v
<1>6. ListedIn(v) = ListedIn(list)
  BY <1>3, <1>4 DEF ListedIn
<1>7. StoreInv(v, map, order)
  BY <1>3, <1>4, <1>5, <1>6 DEF StoreInv
<1> QED
  BY <1>7 DEF u, v

(* addAsset is given an asset that is not removed: once there is room, it  *)
(* becomes the most recent.                                                *)
LEMMA EnlistStore ==
  ASSUME NEW list \in Seq(Pointer), NEW order \in Seq(Ids), Follows(list, order),
         NEW id \in Ids, \A p \in DOMAIN order : order[p] # id,
         NEW map \in [Ids -> Asset \cup {Null}],
         \A x \in Ids : x # id /\ Lists(list, x) => map[x] # Null,
         \A x \in Ids : x # id /\ map[x] # Null /\ ~ map[x].removed => Lists(list, x),
         Cardinality(ListedIn(list)) < MaxAssets,
         NEW doc \in Asset
  PROVE  StoreInv(Append(list, Entry(id)), [map EXCEPT ![id] = doc], Append(order, id))
<1> DEFINE u == Append(list, Entry(id))
           m == [map EXCEPT ![id] = doc]
           o == Append(order, id)
<1>1. Entry(id) \in Pointer /\ \A x : Entry(id) = Entry(x) <=> x = id
  BY PointerFacts DEF Entry
<1>2. u \in Seq(Pointer) /\ o \in Seq(Ids)
  BY <1>1
<1>3. Follows(u, o)
  BY FollowsAppend
<1>4. \A x : Lists(u, x) <=> Lists(list, x) \/ x = id
  BY <1>1, AppendLists
<1>5. m \in [Ids -> Asset \cup {Null}] /\ m[id] = doc /\ \A x \in Ids : x # id => m[x] = map[x]
  OBVIOUS
<1>6. doc # Null
  BY AssetAssumption
<1> HIDE DEF u, m, o
<1>7. ListedIn(u) = ListedIn(list) \cup {id}
  BY <1>4 DEF ListedIn
<1>8. IsFiniteSet(ListedIn(list)) /\ Cardinality(ListedIn(list)) \in Nat
  BY ListedFinite
<1>9. Cardinality(ListedIn(u)) <= Cardinality(ListedIn(list)) + 1
  <2>1. PICK L : L = ListedIn(list)
    OBVIOUS
  <2>2. Cardinality(L \cup {id}) = IF id \in L THEN Cardinality(L) ELSE Cardinality(L) + 1
    BY <1>8, <2>1, FS_AddElement
  <2> QED
    BY <1>7, <1>8, <2>1, <2>2
<1>10. Cardinality(ListedIn(u)) \in Nat
  BY <1>2, ListedFinite
<1>11. Cardinality(ListedIn(u)) <= MaxAssets
  BY <1>8, <1>9, <1>10, AssetAssumption
<1>12. \A x \in Ids : Lists(u, x) => m[x] # Null
  BY <1>4, <1>5, <1>6
<1>13. \A x \in Ids : m[x] # Null /\ ~ m[x].removed => Lists(u, x)
  BY <1>4, <1>5
<1>14. StoreInv(u, m, o)
  BY <1>2, <1>3, <1>5, <1>11, <1>12, <1>13 DEF StoreInv
<1> QED
  BY <1>14 DEF u, m, o

(* addAsset is given a removed asset: the list only gets shorter.          *)
LEMMA RemovedStore ==
  ASSUME NEW list, NEW map, NEW order, StoreInv(list, map, order), NEW id \in Ids,
         NEW doc \in Asset, doc.removed
  PROVE  StoreInv(list, [map EXCEPT ![id] = doc], order)
<1> DEFINE m == [map EXCEPT ![id] = doc]
<1>1. map \in [Ids -> Asset \cup {Null}] /\ doc # Null
  BY AssetAssumption DEF StoreInv
<1>2. m \in [Ids -> Asset \cup {Null}] /\ m[id] = doc /\ \A x \in Ids : x # id => m[x] = map[x]
  BY <1>1
<1> HIDE DEF m
<1>3. StoreInv(list, m, order)
  BY <1>1, <1>2 DEF StoreInv
<1> QED
  BY <1>3 DEF m

(* The oldest asset makes room.                                            *)
LEMMA DropStore ==
  ASSUME NEW list \in Seq(Pointer), NEW order \in Seq(Ids), Follows(list, order),
         list # <<>>, list[1].to = "entry",
         NEW map \in [Ids -> Asset \cup {Null}],
         NEW h, h = list[1].at
  PROVE  /\ h \in Ids
         /\ Tail(list) \in Seq(Pointer)
         /\ Follows(Tail(list), order)
         /\ \A id : Lists(Tail(list), id) <=> Lists(list, id) /\ id # h
         /\ Cardinality(ListedIn(Tail(list))) = Cardinality(ListedIn(list)) - 1
         /\ [map EXCEPT ![h] = Null] \in [Ids -> Asset \cup {Null}]
         /\ [map EXCEPT ![h] = Null][h] = Null
         /\ \A id \in Ids : id # h => [map EXCEPT ![h] = Null][id] = map[id]
<1>1. list[1] \in Pointer /\ 1 \in DOMAIN list /\ Tail(list) \in Seq(Pointer)
  OBVIOUS
<1>2. h \in Ids /\ list[1] = Entry(h) /\ \A id : Entry(id) = Entry(h) <=> id = h
  BY <1>1, PointerFacts DEF Entry
<1>3. Follows(Tail(list), order)
  BY FollowsTail
<1>4. \A id : Lists(Tail(list), id) <=> Lists(list, id) /\ id # h
  BY <1>2, TailLists
<1>5. Lists(list, h)
  BY <1>1, <1>2 DEF Lists
<1>6. ListedIn(Tail(list)) = ListedIn(list) \ {h} /\ h \in ListedIn(list)
  BY <1>2, <1>4, <1>5 DEF ListedIn
<1>7. Cardinality(ListedIn(Tail(list))) = Cardinality(ListedIn(list)) - 1
  <2>1. PICK L : L = ListedIn(list)
    OBVIOUS
  <2>2. IsFiniteSet(L)
    BY <2>1, ListedFinite
  <2>3. Cardinality(L \ {h}) = IF h \in L THEN Cardinality(L) - 1 ELSE Cardinality(L)
    BY <2>2, FS_RemoveElement
  <2> QED
    BY <1>6, <2>1, <2>3
<1>8. /\ [map EXCEPT ![h] = Null] \in [Ids -> Asset \cup {Null}]
      /\ [map EXCEPT ![h] = Null][h] = Null
      /\ \A id \in Ids : id # h => [map EXCEPT ![h] = Null][id] = map[id]
  BY <1>2
<1> QED
  BY <1>1, <1>2, <1>3, <1>4, <1>7, <1>8

(* addAsset, whether it has to make room or not.                           *)
MakesRoom(u, map, v, m) ==
  \/ Len(u) < MaxAssets /\ v = u /\ m = map
  \/ /\ Len(u) >= MaxAssets /\ u[1].to = "entry"
     /\ v = Tail(u) /\ m = [map EXCEPT ![u[1].at] = Null]

(* What addAsset makes of the store keeps the store's part: the old        *)
(* pointer leaves the list, room is made, and the entry is stored and,     *)
(* unless it is marked removed, listed last.                               *)
LEMMA AddStore ==
  ASSUME NEW list, NEW map, NEW order, StoreInv(list, map, order), NEW id \in Ids, NEW doc \in Asset,
         NEW u, u = IF doc.removed THEN list ELSE Without(list, Entry(id)),
         NEW v, NEW m, MakesRoom(u, map, v, m)
  PROVE  StoreInv(IF doc.removed THEN v ELSE Append(v, Entry(id)), [m EXCEPT ![id] = doc],
                  IF doc.removed THEN order ELSE Append(Without(order, id), id))
<1>1. /\ list \in Seq(Pointer) /\ order \in Seq(Ids) /\ Follows(list, order)
      /\ map \in [Ids -> Asset \cup {Null}]
      /\ \A x \in Ids : Lists(list, x) => map[x] # Null
      /\ \A x \in Ids : map[x] # Null /\ ~ map[x].removed => Lists(list, x)
      /\ Cardinality(ListedIn(list)) <= MaxAssets
  BY DEF StoreInv
<1>2. MaxAssets \in Nat \ {0}
  BY AssetAssumption
<1> DEFINE o == IF doc.removed THEN order ELSE Without(order, id)
<1>3. u \in Seq(Pointer) /\ o \in Seq(Ids)
  BY <1>1, WithoutLeaves
<1>4. Follows(u, o)
  BY <1>1, FollowsWithout
<1>5. \A x : Lists(u, x) => Lists(list, x)
  BY <1>1, WithoutLists
<1>6. \A x : Lists(list, x) /\ (doc.removed \/ x # id) => Lists(u, x)
  <2>1. \A x : Entry(x) = Entry(id) <=> x = id
    BY DEF Entry
  <2> QED
    BY <1>1, <2>1, WithoutLists
<1>7. Cardinality(ListedIn(u)) <= Cardinality(ListedIn(list))
  BY <1>1, <1>3, <1>5, FewerListed
<1>8. Cardinality(ListedIn(u)) \in Nat /\ Cardinality(ListedIn(u)) <= Len(u) /\ Len(u) \in Nat
  BY <1>3, ListedFinite
<1>9. Cardinality(ListedIn(list)) \in Nat
  BY <1>1, ListedFinite
<1> HIDE DEF o
<1>10. /\ v \in Seq(Pointer) /\ Follows(v, o) /\ m \in [Ids -> Asset \cup {Null}]
       /\ \A x \in Ids : Lists(v, x) => m[x] # Null
       /\ \A x \in Ids : m[x] # Null /\ ~ m[x].removed /\ (doc.removed \/ x # id) => Lists(v, x)
       /\ Cardinality(ListedIn(v)) < MaxAssets
  <2>1. CASE Len(u) < MaxAssets /\ v = u /\ m = map
    BY <1>1, <1>2, <1>3, <1>4, <1>5, <1>6, <1>8, <2>1
  <2>2. CASE /\ Len(u) >= MaxAssets /\ u[1].to = "entry"
             /\ v = Tail(u) /\ m = [map EXCEPT ![u[1].at] = Null]
    <3>1. PICK h : h = u[1].at
      OBVIOUS
    <3>2. u # <<>>
      BY <1>2, <1>3, <2>2
    <3>3. /\ h \in Ids /\ v \in Seq(Pointer) /\ Follows(v, o)
          /\ \A x : Lists(v, x) <=> Lists(u, x) /\ x # h
          /\ Cardinality(ListedIn(v)) = Cardinality(ListedIn(u)) - 1
          /\ m \in [Ids -> Asset \cup {Null}]
          /\ m[h] = Null /\ \A x \in Ids : x # h => m[x] = map[x]
      BY <1>1, <1>3, <1>4, <2>2, <3>1, <3>2, DropStore
    <3>4. Cardinality(ListedIn(v)) < MaxAssets
      BY <1>1, <1>2, <1>7, <1>8, <1>9, <3>3
    <3> QED
      BY <1>1, <1>5, <1>6, <3>3, <3>4
  <2> QED
    BY <2>1, <2>2 DEF MakesRoom
<1>11. CASE doc.removed
  <2>1. o = order
    BY <1>11 DEF o
  <2>2. Cardinality(ListedIn(v)) \in Nat
    BY <1>10, ListedFinite
  <2>3. StoreInv(v, m, order)
    BY <1>1, <1>2, <1>10, <1>11, <2>1, <2>2 DEF StoreInv
  <2> QED
    BY <1>11, <2>3, RemovedStore
<1>12. CASE ~ doc.removed
  <2>1. o = Without(order, id)
    BY <1>12 DEF o
  <2>2. PICK g : Leaves(o, order, id, g)
    BY <1>1, <2>1, WithoutLeaves
  <2>3. \A p \in DOMAIN o : o[p] # id
    BY <2>2 DEF Leaves
  <2>4. StoreInv(Append(v, Entry(id)), [m EXCEPT ![id] = doc], Append(o, id))
    BY <1>3, <1>10, <1>12, <2>3, EnlistStore
  <2> QED
    BY <1>12, <2>1, <2>4
<1> QED
  BY <1>11, <1>12

-----------------------------------------------------------------------------
(* The operations threads can be in.                                       *)
LEMMA Operations ==
  /\ Idle \in Operation /\ Idle.pc = "idle"
  /\ \A kind \in {"changed", "removed"}, d \in Devices, id \in Ids :
       Posts(kind, d, id) \in Operation /\ Posts(kind, d, id).pc = "posting"
  /\ \A d \in Devices, id \in Ids :
       /\ [pc |-> "revoking", device |-> d, id |-> id] \in Operation
       /\ [pc |-> "revoking", device |-> d, id |-> id].pc = "revoking"
  /\ \A d \in Devices, type \in Types, index \in Nat, changedId \in Ids \cup {Unavailable} :
       /\ [pc |-> "walking", device |-> d, type |-> type, index |-> index, changedId |-> changedId] \in Operation
       /\ [pc |-> "walking", device |-> d, type |-> type, index |-> index, changedId |-> changedId].pc = "walking"
       /\ [pc |-> "walking", device |-> d, type |-> type, index |-> index, changedId |-> changedId].index = index
  /\ \A o \in Operation :
       /\ o.pc = "posting" => o.kind \in {"changed", "removed"} /\ o.device \in Devices /\ o.id \in Ids
       /\ o.pc = "revoking" => o.device \in Devices /\ o.id \in Ids
       /\ o.pc = "walking" =>
            /\ o.device \in Devices /\ o.type \in Types /\ o.index \in Nat
            /\ o.changedId \in Ids \cup {Unavailable}
            /\ o = [pc |-> "walking", device |-> o.device, type |-> o.type,
                    index |-> o.index, changedId |-> o.changedId]
<1>1. Idle \in Operation /\ Idle.pc = "idle"
  BY DEF Operation, Idle
<1>2. ASSUME NEW kind \in {"changed", "removed"}, NEW d \in Devices, NEW id \in Ids
      PROVE  Posts(kind, d, id) \in Operation /\ Posts(kind, d, id).pc = "posting"
  BY DEF Operation, Posts
<1>3. ASSUME NEW d \in Devices, NEW id \in Ids
      PROVE  /\ [pc |-> "revoking", device |-> d, id |-> id] \in Operation
             /\ [pc |-> "revoking", device |-> d, id |-> id].pc = "revoking"
  BY DEF Operation
<1>4. ASSUME NEW d \in Devices, NEW type \in Types, NEW index \in Nat,
             NEW changedId \in Ids \cup {Unavailable}
      PROVE  /\ [pc |-> "walking", device |-> d, type |-> type, index |-> index, changedId |-> changedId] \in Operation
             /\ [pc |-> "walking", device |-> d, type |-> type, index |-> index, changedId |-> changedId].pc = "walking"
             /\ [pc |-> "walking", device |-> d, type |-> type, index |-> index, changedId |-> changedId].index = index
  BY DEF Operation
<1>5. ASSUME NEW o \in Operation
      PROVE  /\ o.pc = "posting" => o.kind \in {"changed", "removed"} /\ o.device \in Devices /\ o.id \in Ids
             /\ o.pc = "revoking" => o.device \in Devices /\ o.id \in Ids
             /\ o.pc = "walking" =>
                  /\ o.device \in Devices /\ o.type \in Types /\ o.index \in Nat
                  /\ o.changedId \in Ids \cup {Unavailable}
                  /\ o = [pc |-> "walking", device |-> o.device, type |-> o.type,
                          index |-> o.index, changedId |-> o.changedId]
  BY DEF Operation, Idle
<1> QED
  BY <1>1, <1>2, <1>3, <1>4, <1>5

(* A thread whose operation is not a removal leaves the lock as it is.     *)
LEMMA FreeLock ==
  ASSUME TypeOK, LockInv, m_assetLock = Free, NEW t \in Threads, NEW o,
         op' = [op EXCEPT ![t] = o], o.pc \in {"idle", "posting"}
  PROVE  LockInv'
<1>1. \A s \in Threads : op[s].pc \notin {"revoking", "walking"}
  BY AssetAssumption DEF LockInv
<1>2. \A s \in Threads : op'[s] = IF s = t THEN o ELSE op[s]
  BY DEF TypeOK
<1>3. \A s \in Threads : op'[s].pc \notin {"revoking", "walking"}
  BY <1>1, <1>2
<1> QED
  BY <1>3 DEF LockInv

(* Both inductive parts hold in the initial state.                         *)
LEMMA InitInv == Init => IInv
<1> SUFFICES ASSUME Init
             PROVE  IInv
  OBVIOUS
<1>1. <<>> \in Seq(Pointer) /\ <<>> \in Seq(Ids) /\ DOMAIN <<>> = {} /\ Len(<<>>) = 0
  OBVIOUS
<1>2. TypeOK
  <2>1. op \in [Threads -> Operation]
    BY Operations DEF Init
  <2> QED
    BY <1>1, <2>1 DEF Init, TypeOK
<1>3. LockInv
  BY Operations DEF Init, LockInv
<1>4. \A id : ~ Lists(<<>>, id)
  BY <1>1 DEF Lists
<1>5. Follows(<<>>, <<>>)
  BY <1>1, <1>4 DEF Follows
<1>6. Cardinality(ListedIn(<<>>)) <= MaxAssets
  <2>1. Cardinality(ListedIn(<<>>)) <= 0 /\ Cardinality(ListedIn(<<>>)) \in Nat
    BY <1>1, ListedFinite
  <2> QED
    BY <2>1, AssetAssumption
<1>7. StoreInv(<<>>, m_assetMap, <<>>)
  BY <1>1, <1>4, <1>5, <1>6 DEF StoreInv, Init
<1> QED
  BY <1>2, <1>3, <1>7, StorePart DEF Init

(* The same after a step.                                                  *)
LEMMA StorePartNext ==
  TypeOK' /\ LockInv' /\ StoreInv(m_assets', m_assetMap', recency') => IInv'
<1>1. Listed' = ListedIn(m_assets')
  BY DEF Listed, ListedIn, Lists, Entry
<1>2. PresentIsListed' <=>
        \A id \in Ids : m_assetMap'[id] # Null /\ ~ m_assetMap'[id].removed => Lists(m_assets', id)
  BY <1>1 DEF PresentIsListed, ListedIn
<1>3. Follows(m_assets, recency)' <=> Follows(m_assets', recency')
  BY DEF Follows, Lists, Entry
<1> QED
  BY <1>1, <1>2, <1>3 DEF IInv, StoreInv, ListedIn

(* addAsset.                                                               *)
LEMMA AddInv ==
  ASSUME IInv, NEW t \in Threads, NEW d \in Devices, NEW id \in Ids, NEW doc \in Documents,
         addAsset(t, d, id, doc)
  PROVE  IInv'
<1> DEFINE list == Unlist(id, doc)
           counts == Counted(id, doc)
           lost == Overflows(list) /\ Head(list).to = "local"
           room == IF Overflows(list) /\ ~ lost THEN DropOldest(list, counts)
                   ELSE [list |-> list, map |-> m_assetMap, counts |-> counts]
<1>1. TypeOK /\ LockInv /\ StoreInv(m_assets, m_assetMap, recency) /\ doc \in Asset
  BY StorePart, AssetAssumption DEF IInv
<1>2. Ready(t) /\ m_assetLock = Free
  BY DEF addAsset, Ready
<1>3. CASE lost
  <2>1. Undefined
    BY <1>3 DEF addAsset
  <2>2. /\ UNCHANGED <<m_assets, m_assetMap, m_assetCounts, recency, m_assetLock, assetChanged, assetRemoved, op>>
        /\ status' = "undefined"
    BY <2>1 DEF Undefined, store, events
  <2>3. TypeOK'
    BY <1>1, <2>2 DEF TypeOK
  <2>4. LockInv'
    BY <1>1, <2>2 DEF LockInv
  <2> QED
    BY <1>1, <2>2, <2>3, <2>4, StorePartNext
<1>4. CASE ~ lost
  <2>1. /\ m_assetMap' = [room.map EXCEPT ![id] = doc]
        /\ m_assets' = Enlist(room.list, id, doc)
        /\ m_assetCounts' = room.counts
        /\ recency' = IF doc.removed THEN recency ELSE Append(Without(recency, id), id)
        /\ op' = [op EXCEPT ![t] = Posts(IF doc.removed THEN "removed" ELSE "changed", d, id)]
        /\ UNCHANGED <<m_assetLock, events, status>>
    BY <1>4 DEF addAsset
  <2>2. PICK u : u = list
    OBVIOUS
  <2>3. u = IF doc.removed THEN m_assets ELSE Without(m_assets, Entry(id))
    BY <2>2 DEF Unlist
  <2>4. u \in Seq(Pointer) /\ Len(u) \in Nat /\ MaxAssets \in Nat \ {0}
    BY <1>1, <2>3, WithoutLeaves, AssetAssumption DEF StoreInv
  <2>5. PICK c : c = counts
    OBVIOUS
  <2>6. c \in [Types -> Int]
    BY <1>1, <2>5 DEF Counted, TypeOK, Asset
  <2>7. \E v, m, k : /\ room.list = v /\ room.map = m /\ room.counts = k /\ k \in [Types -> Int]
                     /\ MakesRoom(u, m_assetMap, v, m)
    <3>1. CASE ~ Overflows(list)
      <4>1. room = [list |-> u, map |-> m_assetMap, counts |-> c]
        BY <2>2, <2>5, <3>1
      <4>2. Len(u) < MaxAssets
        BY <2>2, <2>4, <3>1 DEF Overflows
      <4>3. room.list = u /\ room.map = m_assetMap /\ room.counts = c
        BY <4>1
      <4>4. MakesRoom(u, m_assetMap, u, m_assetMap)
        BY <4>2 DEF MakesRoom
      <4> HIDE DEF room
      <4> QED
        BY <2>6, <4>3, <4>4
    <3>2. CASE Overflows(list)
      <4>1. Len(u) >= MaxAssets /\ Head(u) = u[1] /\ 1 \in DOMAIN u /\ u[1] \in Pointer
        BY <2>2, <2>4, <3>2 DEF Overflows
      <4>2. u[1].to = "entry"
        BY <1>4, <2>2, <3>2, <4>1, PointerFacts
      <4>3. PICK h : h = u[1].at
        OBVIOUS
      <4>4. h \in Ids /\ u[1] = Entry(h)
        BY <4>1, <4>2, <4>3, PointerFacts
      <4>5. Lists(u, h)
        BY <4>1, <4>4 DEF Lists
      <4>6. Lists(m_assets, h)
        BY <1>1, <2>3, <4>5, WithoutLists DEF StoreInv
      <4>7. m_assetMap[h] \in Asset
        BY <1>1, <4>4, <4>6 DEF StoreInv
      <4>8. PICK k : k = [c EXCEPT ![m_assetMap[h].type] = @ - 1]
        OBVIOUS
      <4>9. k \in [Types -> Int]
        BY <2>6, <4>7, <4>8 DEF Asset
      <4>10. room = [list |-> Tail(u), map |-> [m_assetMap EXCEPT ![h] = Null], counts |-> k]
        BY <1>4, <2>2, <2>5, <3>2, <4>1, <4>3, <4>8 DEF DropOldest
      <4>11. PICK m : m = [m_assetMap EXCEPT ![h] = Null]
        OBVIOUS
      <4>12. room = [list |-> Tail(u), map |-> m, counts |-> k]
        BY <4>10, <4>11
      <4> HIDE DEF room
      <4>13. room.list = Tail(u) /\ room.map = m /\ room.counts = k
        BY <4>12
      <4>14. m = [m_assetMap EXCEPT ![u[1].at] = Null]
        BY <4>3, <4>11
      <4>15. MakesRoom(u, m_assetMap, Tail(u), m)
        BY <4>1, <4>2, <4>14 DEF MakesRoom
      <4> QED
        BY <4>9, <4>13, <4>15
    <3> QED
      BY <3>1, <3>2
  <2> HIDE DEF room
  <2>8. PICK v, m, k : /\ room.list = v /\ room.map = m /\ room.counts = k /\ k \in [Types -> Int]
                       /\ MakesRoom(u, m_assetMap, v, m)
    BY <2>7
  <2>9. StoreInv(IF doc.removed THEN v ELSE Append(v, Entry(id)), [m EXCEPT ![id] = doc],
                 IF doc.removed THEN recency ELSE Append(Without(recency, id), id))
    BY <1>1, <2>3, <2>8, AddStore
  <2>10. m_assets' = IF doc.removed THEN v ELSE Append(v, Entry(id))
    BY <2>1, <2>8 DEF Enlist
  <2>11. StoreInv(m_assets', m_assetMap', recency')
    BY <2>1, <2>8, <2>9, <2>10
  <2>12. PICK o : o = Posts(IF doc.removed THEN "removed" ELSE "changed", d, id)
    OBVIOUS
  <2>13. o \in Operation /\ o.pc = "posting"
    BY <2>12, Operations
  <2>14. op' = [op EXCEPT ![t] = o]
    BY <2>1, <2>12
  <2>15. op' \in [Threads -> Operation]
    BY <1>1, <2>13, <2>14 DEF TypeOK
  <2>16. TypeOK'
    BY <1>1, <2>1, <2>8, <2>11, <2>15 DEF TypeOK, StoreInv, events
  <2>17. LockInv'
    BY <1>1, <1>2, <2>13, <2>14, FreeLock
  <2> QED
    BY <2>11, <2>16, <2>17, StorePartNext
<1> QED
  BY <1>3, <1>4

(* updateAsset.                                                            *)
LEMMA UpdateInv ==
  ASSUME IInv, NEW t \in Threads, NEW d \in Devices, NEW id \in Ids, NEW a \in Frames,
         updateAsset(t, d, id, a)
  PROVE  IInv'
<1>1. TypeOK /\ LockInv /\ StoreInv(m_assets, m_assetMap, recency)
  BY StorePart DEF IInv
<1>2. /\ m_assetLock = Free
      /\ m_assets' = Append(Without(m_assets, Local(a)), Local(a))
      /\ op' = [op EXCEPT ![t] = Posts("changed", d, id)]
      /\ UNCHANGED <<m_assetMap, m_assetCounts, recency, m_assetLock, assetChanged, assetRemoved, status>>
  BY DEF updateAsset, Ready, events
<1>3. StoreInv(m_assets', m_assetMap', recency')
  BY <1>1, <1>2, LocalStore
<1>4. Posts("changed", d, id) \in Operation /\ Posts("changed", d, id).pc = "posting"
  BY Operations
<1>5. TypeOK'
  BY <1>1, <1>2, <1>3, <1>4 DEF TypeOK, StoreInv
<1>6. LockInv'
  BY <1>1, <1>2, <1>4, FreeLock
<1> QED
  BY <1>3, <1>5, <1>6, StorePartNext

(* removeAsset.                                                            *)
LEMMA RemoveInv ==
  ASSUME IInv, NEW t \in Threads, NEW d \in Devices, NEW id \in Ids, removeAsset(t, d, id)
  PROVE  IInv'
<1>1. TypeOK /\ LockInv /\ StoreInv(m_assets, m_assetMap, recency)
  BY StorePart DEF IInv
<1>2. /\ m_assetLock = Free /\ m_assetMap[id] # Null
      /\ m_assetMap' = [m_assetMap EXCEPT ![id].removed = TRUE]
      /\ UNCHANGED <<m_assets, m_assetCounts, recency, assetChanged, assetRemoved, status>>
  BY DEF removeAsset, Ready, events
<1>3. StoreInv(m_assets', m_assetMap', recency')
  BY <1>1, <1>2, MarkStore
<1>4. CASE Revokes(assetChanged[d], id)
  <2>1. PICK o : o = [pc |-> "revoking", device |-> d, id |-> id]
    OBVIOUS
  <2>2. o \in Operation /\ o.pc = "revoking"
    BY <2>1, Operations
  <2>3. m_assetLock' = t /\ op' = [op EXCEPT ![t] = o]
    BY <1>4, <2>1 DEF removeAsset
  <2>4. op' \in [Threads -> Operation] /\ \A s \in Threads : op'[s] = IF s = t THEN o ELSE op[s]
    BY <1>1, <2>2, <2>3 DEF TypeOK
  <2>5. TypeOK'
    BY <1>1, <1>2, <1>3, <2>3, <2>4 DEF TypeOK, StoreInv
  <2>6. \A s \in Threads : op[s].pc \notin {"revoking", "walking"}
    BY <1>1, <1>2, AssetAssumption DEF LockInv
  <2>7. LockInv'
    BY <2>2, <2>3, <2>4, <2>6 DEF LockInv
  <2> QED
    BY <1>3, <2>5, <2>7, StorePartNext
<1>5. CASE ~ Revokes(assetChanged[d], id)
  <2>1. op' = [op EXCEPT ![t] = Posts("removed", d, id)] /\ UNCHANGED m_assetLock
    BY <1>5 DEF removeAsset
  <2>2. Posts("removed", d, id) \in Operation /\ Posts("removed", d, id).pc = "posting"
    BY Operations
  <2>3. TypeOK'
    BY <1>1, <1>2, <1>3, <2>1, <2>2 DEF TypeOK, StoreInv
  <2>4. LockInv'
    BY <1>1, <1>2, <2>1, <2>2, FreeLock
  <2> QED
    BY <1>3, <2>3, <2>4, StorePartNext
<1> QED
  BY <1>4, <1>5

(* The rest of a removal: it ends with the lock free again.                *)
LEMMA ReleaseLock ==
  ASSUME TypeOK, LockInv, NEW t \in Threads, m_assetLock = t, NEW o \in Operation,
         op' = [op EXCEPT ![t] = o], o.pc \in {"idle", "posting"}
  PROVE  LockInv'
<1>1. \A s \in Threads : op'[s] = IF s = t THEN o ELSE op[s]
  BY DEF TypeOK
<1>2. \A s \in Threads : s # t => op[s].pc \notin {"revoking", "walking"}
  BY DEF LockInv
<1> QED
  BY <1>1, <1>2 DEF LockInv

(* The event that takes AssetChanged back leaves the assets alone.         *)
LEMMA RevokeInv ==
  ASSUME IInv, NEW t \in Threads, Revoke(t)
  PROVE  IInv'
<1>1. TypeOK /\ LockInv /\ StoreInv(m_assets, m_assetMap, recency)
  BY StorePart DEF IInv
<1>2. op[t] \in Operation /\ op[t].pc = "revoking"
  BY <1>1 DEF Revoke, TypeOK
<1>3. op[t].device \in Devices /\ op[t].id \in Ids
  BY <1>2, Operations
<1>4. PICK o : o = Posts("removed", op[t].device, op[t].id)
  OBVIOUS
<1>5. o \in Operation /\ o.pc = "posting"
  BY <1>3, <1>4, Operations
<1>6. /\ assetChanged' = [assetChanged EXCEPT ![op[t].device] = Unavailable]
      /\ m_assetLock' = Free /\ op' = [op EXCEPT ![t] = o]
      /\ UNCHANGED <<m_assets, m_assetMap, m_assetCounts, recency, assetRemoved, status>>
  BY <1>4 DEF Revoke, store
<1>7. TypeOK'
  BY <1>1, <1>3, <1>5, <1>6 DEF TypeOK
<1>8. LockInv'
  BY <1>1, <1>2, <1>5, <1>6, ReleaseLock DEF LockInv
<1> QED
  BY <1>1, <1>6, <1>7, <1>8, StorePartNext

(* removeAllAssets: the walk starts at the end of the list.                *)
LEMMA RemoveAllInv ==
  ASSUME IInv, NEW t \in Threads, NEW d \in Devices, NEW type \in Types, removeAllAssets(t, d, type)
  PROVE  IInv'
<1>1. TypeOK /\ LockInv /\ StoreInv(m_assets, m_assetMap, recency)
  BY StorePart DEF IInv
<1>2. PICK n, c : n = Len(m_assets) /\ c = assetChanged[d]
  OBVIOUS
<1>3. n \in Nat /\ c \in Ids \cup {Unavailable}
  BY <1>1, <1>2 DEF TypeOK
<1>4. PICK o : o = [pc |-> "walking", device |-> d, type |-> type, index |-> n, changedId |-> c]
  OBVIOUS
<1>5. o \in Operation /\ o.pc = "walking" /\ o.index = n
  BY <1>3, <1>4, Operations
<1>6. /\ m_assetLock = Free /\ m_assetLock' = t /\ op' = [op EXCEPT ![t] = o]
      /\ UNCHANGED <<m_assets, m_assetMap, m_assetCounts, recency, assetChanged, assetRemoved, status>>
  BY <1>2, <1>4 DEF removeAllAssets, Ready, store, events
<1>7. op' \in [Threads -> Operation] /\ \A s \in Threads : op'[s] = IF s = t THEN o ELSE op[s]
  BY <1>1, <1>5, <1>6 DEF TypeOK
<1>8. TypeOK'
  BY <1>1, <1>6, <1>7 DEF TypeOK
<1>9. \A s \in Threads : op[s].pc \notin {"revoking", "walking"}
  BY <1>1, <1>6, AssetAssumption DEF LockInv
<1>10. LockInv'
  BY <1>2, <1>3, <1>5, <1>6, <1>7, <1>9 DEF LockInv
<1> QED
  BY <1>1, <1>6, <1>8, <1>10, StorePartNext

(* One asset of the walk.                                                  *)
LEMMA RemoveNextInv ==
  ASSUME IInv, NEW t \in Threads, RemoveNext(t)
  PROVE  IInv'
<1>1. TypeOK /\ LockInv /\ StoreInv(m_assets, m_assetMap, recency)
  BY StorePart DEF IInv
<1>2. PICK o : o = op[t]
  OBVIOUS
<1>3. o \in Operation /\ o.pc = "walking" /\ o.index > 0
  BY <1>1, <1>2 DEF RemoveNext, TypeOK
<1>4. /\ o.device \in Devices /\ o.type \in Types /\ o.index \in Nat
      /\ o.changedId \in Ids \cup {Unavailable}
      /\ o = [pc |-> "walking", device |-> o.device, type |-> o.type,
              index |-> o.index, changedId |-> o.changedId]
  BY <1>3, Operations
<1>5. m_assetLock = t /\ o.index <= Len(m_assets)
  BY <1>1, <1>2, <1>3 DEF LockInv
<1>6. o.index \in DOMAIN m_assets /\ m_assets[o.index] \in Pointer
  BY <1>1, <1>3, <1>4, <1>5 DEF TypeOK
<1>7. CASE m_assets[o.index].to = "local"
  <2>1. /\ UNCHANGED <<m_assets, m_assetMap, m_assetCounts, recency, m_assetLock, assetChanged, assetRemoved, op>>
        /\ status' = "undefined"
    BY <1>2, <1>7 DEF RemoveNext, Undefined, store, events
  <2>2. TypeOK'
    BY <1>1, <2>1 DEF TypeOK
  <2>3. LockInv'
    BY <1>1, <2>1 DEF LockInv
  <2> QED
    BY <1>1, <2>1, <2>2, <2>3, StorePartNext
<1>8. CASE m_assets[o.index].to # "local"
  <2>1. PICK id : id = m_assets[o.index].at
    OBVIOUS
  <2>2. id \in Ids /\ m_assets[o.index] = Entry(id)
    BY <1>6, <1>8, <2>1, PointerFacts
  <2>3. Lists(m_assets, id)
    BY <1>6, <2>2 DEF Lists
  <2>4. m_assetMap[id] # Null
    BY <1>1, <2>2, <2>3 DEF StoreInv
  <2>5. StoreInv(m_assets, [m_assetMap EXCEPT ![id].removed = TRUE], recency)
    BY <1>1, <2>2, <2>4, MarkStore
  <2>6. /\ IF m_assetMap[id].type = o.type /\ ~ m_assetMap[id].removed
             THEN /\ m_assetMap' = [m_assetMap EXCEPT ![id].removed = TRUE]
                  /\ assetRemoved' = [assetRemoved EXCEPT ![o.device] = id]
                  /\ assetChanged' = IF Revokes(o.changedId, id)
                                       THEN [assetChanged EXCEPT ![o.device] = Unavailable]
                                       ELSE assetChanged
             ELSE UNCHANGED <<m_assetMap, assetChanged, assetRemoved>>
        /\ op' = [op EXCEPT ![t].index = @ - 1]
        /\ UNCHANGED <<m_assets, m_assetCounts, recency, m_assetLock, status>>
    BY <1>2, <1>8, <2>1 DEF RemoveNext, events
  <2>7. StoreInv(m_assets', m_assetMap', recency')
    BY <1>1, <2>5, <2>6
  <2>8. /\ assetRemoved' \in [Devices -> Ids \cup {Unavailable}]
        /\ assetChanged' \in [Devices -> Ids \cup {Unavailable}]
    BY <1>1, <1>4, <2>2, <2>6 DEF TypeOK
  <2>9. PICK p : p = [pc |-> "walking", device |-> o.device, type |-> o.type,
                      index |-> o.index - 1, changedId |-> o.changedId]
    OBVIOUS
  <2>10. o.index - 1 \in Nat
    BY <1>3, <1>4
  <2>11. p \in Operation /\ p.pc = "walking" /\ p.index = o.index - 1
    BY <1>4, <2>9, <2>10, Operations
  <2>12. [o EXCEPT !.index = o.index - 1] = p
    BY <1>4, <2>9
  <2>13. op' = [op EXCEPT ![t] = p]
    BY <1>2, <2>6, <2>12
  <2>14. op' \in [Threads -> Operation] /\ \A s \in Threads : op'[s] = IF s = t THEN p ELSE op[s]
    BY <1>1, <2>11, <2>13 DEF TypeOK
  <2>15. TypeOK'
    BY <1>1, <2>6, <2>7, <2>8, <2>14 DEF TypeOK, StoreInv
  <2>16. Len(m_assets) \in Nat
    BY <1>1 DEF TypeOK
  <2>17. LockInv'
    <3>1. p.index <= Len(m_assets)
      BY <1>4, <1>5, <2>11, <2>16
    <3>2. \A s \in Threads : s # t => op[s].pc \notin {"revoking", "walking"}
      BY <1>1, <1>5 DEF LockInv
    <3>3. m_assets' = m_assets /\ m_assetLock' = t
      BY <1>5, <2>6
    <3> QED
      BY <2>11, <2>14, <3>1, <3>2, <3>3 DEF LockInv
  <2> QED
    BY <2>7, <2>15, <2>17, StorePartNext
<1> QED
  BY <1>7, <1>8

(* The end of the walk.                                                    *)
LEMMA RemovedAllInv ==
  ASSUME IInv, NEW t \in Threads, RemovedAll(t)
  PROVE  IInv'
<1>1. TypeOK /\ LockInv /\ StoreInv(m_assets, m_assetMap, recency)
  BY StorePart DEF IInv
<1>2. /\ op[t].pc = "walking" /\ m_assetLock' = Free /\ op' = [op EXCEPT ![t] = Idle]
      /\ UNCHANGED <<m_assets, m_assetMap, m_assetCounts, recency, assetChanged, assetRemoved, status>>
  BY DEF RemovedAll, store, events
<1>3. Idle \in Operation /\ Idle.pc = "idle"
  BY Operations
<1>4. TypeOK'
  BY <1>1, <1>2, <1>3 DEF TypeOK
<1>5. LockInv'
  BY <1>1, <1>2, <1>3, ReleaseLock DEF LockInv
<1> QED
  BY <1>1, <1>2, <1>4, <1>5, StorePartNext

(* The event after the lock.                                               *)
LEMMA PostInv ==
  ASSUME IInv, NEW t \in Threads, PostEvent(t)
  PROVE  IInv'
<1>1. TypeOK /\ LockInv /\ StoreInv(m_assets, m_assetMap, recency)
  BY StorePart DEF IInv
<1>2. PICK o : o = op[t]
  OBVIOUS
<1>3. o \in Operation /\ o.pc = "posting"
  BY <1>1, <1>2 DEF PostEvent, TypeOK
<1>4. o.device \in Devices /\ o.id \in Ids
  BY <1>3, Operations
<1>5. /\ IF o.kind = "changed"
           THEN assetChanged' = [assetChanged EXCEPT ![o.device] = o.id] /\ UNCHANGED assetRemoved
           ELSE assetRemoved' = [assetRemoved EXCEPT ![o.device] = o.id] /\ UNCHANGED assetChanged
      /\ op' = [op EXCEPT ![t] = Idle]
      /\ UNCHANGED <<m_assets, m_assetMap, m_assetCounts, recency, m_assetLock, status>>
  BY <1>2 DEF PostEvent, store
<1>6. Idle \in Operation /\ Idle.pc = "idle"
  BY Operations
<1>7. TypeOK'
  BY <1>1, <1>4, <1>5, <1>6 DEF TypeOK
<1>8. \A s \in Threads : op'[s] = IF s = t THEN Idle ELSE op[s]
  BY <1>1, <1>5 DEF TypeOK
<1>9. LockInv'
  BY <1>1, <1>5, <1>6, <1>8 DEF LockInv
<1> QED
  BY <1>1, <1>5, <1>7, <1>9, StorePartNext

(* A request, and a step that changes nothing.                             *)
LEMMA UnchangedInv ==
  ASSUME IInv,
         UNCHANGED <<m_assets, m_assetMap, m_assetCounts, recency, m_assetLock, assetChanged, assetRemoved, op>>,
         status' \in {"running", "undefined"}
  PROVE  IInv'
<1>1. TypeOK /\ LockInv /\ StoreInv(m_assets, m_assetMap, recency)
  BY StorePart DEF IInv
<1>2. TypeOK'
  BY <1>1 DEF TypeOK
<1>3. LockInv'
  BY <1>1 DEF LockInv
<1> QED
  BY <1>1, <1>2, <1>3, StorePartNext

(* Every step keeps the invariant.                                         *)
LEMMA NextInv == IInv /\ [Next]_vars => IInv'
<1> SUFFICES ASSUME IInv, [Next]_vars
             PROVE  IInv'
  OBVIOUS
<1>1. status \in {"running", "undefined"}
  BY DEF IInv, TypeOK
<1>2. CASE UNCHANGED vars
  BY <1>1, <1>2, UnchangedInv DEF vars, store, events
<1>3. ASSUME NEW t \in Threads, handleAssets(t)
      PROVE  IInv'
  BY <1>1, <1>3, UnchangedInv DEF handleAssets, Undefined, vars, store, events
<1> QED
  BY <1>2, <1>3, AddInv, UpdateInv, RemoveInv, RemoveAllInv, RevokeInv, RemoveNextInv,
     RemovedAllInv, PostInv DEF Next

(* The inductive invariant holds in every reachable state.                 *)
THEOREM Invariance == Spec => []IInv
BY InitInv, NextInv, PTL DEF Spec

(* List and map agree after every operation, for any number of ids,        *)
(* devices and threads: no listed asset is missing from the map or listed  *)
(* twice, no present one is missing from the list, and the list keeps to   *)
(* m_maxAssets, whatever updateAsset puts into it.                         *)
THEOREM ListCorrect == Spec => []ListMatchesMap
<1>1. IInv => ListMatchesMap
  <2> SUFFICES ASSUME IInv
               PROVE  ListMatchesMap
    OBVIOUS
  <2>1. TypeOK /\ StoreInv(m_assets, m_assetMap, recency)
    BY StorePart DEF IInv
  <2>2. PICK e, n, m : e = EntriesOf(m_assets) /\ n = Len(e) /\ m = Len(recency)
    OBVIOUS
  <2>3. /\ e \in Seq(Pointer) /\ n \in Nat
        /\ \A j, k \in 1 .. n : e[j] = e[k] => j = k
        /\ n <= Cardinality(ListedIn(m_assets))
    BY <2>1, <2>2, FollowsIsEnd DEF StoreInv
  <2>4. Entries = e
    BY <2>2 DEF Entries, EntriesOf
  <2>5. DOMAIN e = 1 .. n
    BY <2>2, <2>3
  <2>6. Cardinality(ListedIn(m_assets)) \in Nat
    BY <2>1, ListedFinite DEF StoreInv
  <2>7. ListBounded
    BY <2>1, <2>2, <2>3, <2>4, <2>6, AssetAssumption DEF ListBounded, StoreInv
  <2>8. ListLive
    BY <2>3, <2>4, <2>5 DEF ListLive, IInv
  <2> QED
    BY <2>1, <2>7, <2>8 DEF ListMatchesMap, IInv
<1> QED
  BY <1>1, Invariance, PTL

(* The list holds the most recently stored assets, oldest first.           *)
THEOREM RecencyCorrect == Spec => []ListIsMostRecent
<1>1. IInv => ListIsMostRecent
  <2> SUFFICES ASSUME IInv
               PROVE  ListIsMostRecent
    OBVIOUS
  <2>1. m_assets \in Seq(Pointer) /\ recency \in Seq(Ids) /\ Follows(m_assets, recency)
    BY DEF IInv, TypeOK
  <2>2. IsEnd(EntriesOf(m_assets), recency)
    BY <2>1, FollowsIsEnd
  <2> QED
    BY <2>2 DEF ListIsMostRecent, IsEnd, Entries, EntriesOf
<1> QED
  BY <1>1, Invariance, PTL
=============================================================================
