--------------------------------- MODULE Least ---------------------------------
(***************************************************************************)
(* The least element of a set of naturals, which stands in for induction:  *)
(* what fails for some natural fails first for a least one.  It follows    *)
(* from the pigeonhole principle: below a set without a least element the  *)
(* successor would be an injection that misses 0.                          *)
(*                                                                         *)
(* With it, what the places of a part of a sequence are (Select).          *)
(***************************************************************************)
EXTENDS Select, FiniteSetTheorems, TLAPS

LEMMA LeastNat ==
  ASSUME NEW S \in SUBSET Nat, S # {} PROVE \E m \in S : \A n \in S : m <= n
<1> SUFFICES ASSUME \A m \in S : \E n \in S : n < m PROVE FALSE
  OBVIOUS
<1>1. PICK top \in S : TRUE
  OBVIOUS
<1> DEFINE below == {x \in 0 .. top : \A n \in S : x < n}
           up    == [x \in below |-> x + 1]
<1>2. IsFiniteSet(below) /\ IsFiniteSet(below \ {0})
  <2>1. IsFiniteSet(0 .. top)
    BY <1>1, FS_Interval
  <2> QED BY <2>1, FS_Subset
<1>3. 0 \in below
  OBVIOUS
<1>4. \A x \in below : x + 1 \in below \ {0}
  OBVIOUS
<1>5. Cardinality(below \ {0}) = Cardinality(below) - 1 /\ Cardinality(below) \in Nat
  BY <1>2, <1>3, FS_RemoveElement, FS_CardinalityType
<1>6. \E x, y \in below : x # y /\ up[x] = up[y]
  <2>1. up \in [below -> below \ {0}]
    BY <1>4
  <2>2. Cardinality(below \ {0}) < Cardinality(below)
    BY <1>5
  <2> HIDE DEF up, below
  <2> QED BY <1>2, <2>1, <2>2, FS_PigeonHole
<1> QED BY <1>6

-----------------------------------------------------------------------------
LEMMA PlacesFinite ==
  ASSUME NEW L \in Nat, NEW S \in SUBSET (1 .. L)
  PROVE  /\ IsFiniteSet(S) /\ \A k : IsFiniteSet({j \in S : j <= k})
         /\ \A j \in S : j \in Nat /\ 1 <= j /\ j <= L
<1>1. IsFiniteSet(1 .. L)
  BY FS_Interval
<1>2. IsFiniteSet(S)
  BY <1>1, FS_Subset
<1>3. ASSUME NEW k PROVE IsFiniteSet({j \in S : j <= k})
  <2>1. {j \in S : j <= k} \in SUBSET S
    OBVIOUS
  <2> QED BY <1>2, <2>1, FS_Subset
<1>4. \A j \in S : j \in 1 .. L
  OBVIOUS
<1> QED BY <1>2, <1>3, <1>4

(* The number of elements up to k grows by one at each of them.            *)
LEMMA UpToStep ==
  ASSUME NEW L \in Nat, NEW S \in SUBSET (1 .. L), NEW k \in Nat
  PROVE  /\ UpTo(S, k) \in Nat /\ UpTo(S, k) <= Cardinality(S) /\ Cardinality(S) \in Nat
         /\ UpTo(S, k + 1) = IF k + 1 \in S THEN UpTo(S, k) + 1 ELSE UpTo(S, k)
<1> DEFINE T(n) == {j \in S : j <= n}
<1>1. IsFiniteSet(S) /\ \A j \in S : j \in Nat
  BY PlacesFinite
<1>2. \A n \in Nat : IsFiniteSet(T(n)) /\ Cardinality(T(n)) \in Nat /\ Cardinality(T(n)) <= Cardinality(S)
  BY <1>1, FS_Subset, FS_CardinalityType
<1>3. Cardinality(S) \in Nat
  BY <1>1, FS_CardinalityType
<1>4. UpTo(S, k + 1) = IF k + 1 \in S THEN UpTo(S, k) + 1 ELSE UpTo(S, k)
  <2>1. k + 1 \notin T(k)
    OBVIOUS
  <2>2. T(k + 1) = IF k + 1 \in S THEN T(k) \cup {k + 1} ELSE T(k)
    <3>1. \A j \in S : j <= k + 1 <=> j <= k \/ j = k + 1
      BY <1>1
    <3> QED BY <3>1
  <2>3. IsFiniteSet(T(k))
    BY <1>2
  <2> HIDE DEF T
  <2>4. Cardinality(T(k + 1)) = IF k + 1 \in S THEN Cardinality(T(k)) + 1 ELSE Cardinality(T(k))
    BY <2>1, <2>2, <2>3, FS_AddElement
  <2> QED BY <2>4 DEF T, UpTo
<1> QED BY <1>2, <1>3, <1>4 DEF UpTo

(* It never falls, and is less before an element than at it.               *)
LEMMA UpToGrows ==
  ASSUME NEW L \in Nat, NEW S \in SUBSET (1 .. L), NEW i \in Nat, NEW k \in S, i < k
  PROVE  UpTo(S, i) < UpTo(S, k)
<1>1. k \in Nat /\ k - 1 \in Nat /\ k = (k - 1) + 1 /\ i <= k - 1
  BY PlacesFinite
<1>2. UpTo(S, k) = UpTo(S, k - 1) + 1 /\ UpTo(S, k - 1) \in Nat
  <2> DEFINE p == k - 1
  <2>1. p \in Nat /\ k = p + 1
    BY <1>1
  <2> HIDE DEF p
  <2>2. UpTo(S, k) = UpTo(S, p) + 1 /\ UpTo(S, p) \in Nat
    BY <2>1, UpToStep
  <2> QED BY <2>2 DEF p
<1>3. UpTo(S, i) <= UpTo(S, k - 1)
  <2>1. {j \in S : j <= i} \in SUBSET {j \in S : j <= k - 1}
    <3>1. \A j \in S : j \in Nat
      BY PlacesFinite
    <3>2. \A j \in S : j <= i => j <= k - 1
      BY <1>1, <3>1
    <3> QED BY <3>2
  <2>2. IsFiniteSet({j \in S : j <= k - 1})
    BY PlacesFinite
  <2> QED BY <2>1, <2>2, FS_Subset DEF UpTo
<1>4. UpTo(S, i) \in Nat
  BY UpToStep
<1> QED BY <1>2, <1>3, <1>4

(* There is an n-th element for every n up to the number of elements, and  *)
(* every element is one.                                                   *)
LEMMA NthElement ==
  ASSUME NEW L \in Nat, NEW S \in SUBSET (1 .. L)
  PROVE  /\ Cardinality(S) \in Nat
         /\ \A n \in 1 .. Cardinality(S) : Nth(S, n) \in S /\ UpTo(S, Nth(S, n)) = n
         /\ \A k \in S : UpTo(S, k) \in 1 .. Cardinality(S) /\ Nth(S, UpTo(S, k)) = k
<1>1. Cardinality(S) \in Nat /\ \A k \in Nat : UpTo(S, k) \in Nat /\ UpTo(S, k) <= Cardinality(S)
  BY UpToStep
<1>2. ASSUME NEW n \in 1 .. Cardinality(S) PROVE \E k \in S : UpTo(S, k) = n
  <2> DEFINE late == {k \in Nat : UpTo(S, k) >= n}
  <2>1. L \in late
    <3>1. {j \in S : j <= L} = S
      BY PlacesFinite
    <3> QED BY <1>1, <3>1 DEF UpTo
  <2>2. PICK k \in late : \A m \in late : k <= m
    BY <2>1, LeastNat
  <2>3. UpTo(S, 0) = 0
    <3>1. {j \in S : j <= 0} = {}
      <4>1. \A j \in S : ~ j <= 0
        BY PlacesFinite
      <4> QED BY <4>1
    <3> QED BY <3>1, FS_EmptySet DEF UpTo
  <2>4. k # 0
    BY <2>3
  <2>5. k - 1 \in Nat /\ k = (k - 1) + 1 /\ k - 1 \notin late
    BY <2>2, <2>4
  <2>6. UpTo(S, k - 1) < n
    BY <1>1, <2>5
  <2> DEFINE p == k - 1
  <2>7. p \in Nat /\ k = p + 1 /\ UpTo(S, p) < n /\ UpTo(S, k) >= n
    BY <2>2, <2>5, <2>6
  <2> HIDE DEF p
  <2>8. UpTo(S, k) = IF k \in S THEN UpTo(S, p) + 1 ELSE UpTo(S, p)
    BY <2>7, UpToStep
  <2> QED BY <1>1, <2>7, <2>8
<1>3. \A k \in S : UpTo(S, k) \in 1 .. Cardinality(S)
  <2> TAKE k \in S
  <2>1. UpTo(S, 0) < UpTo(S, k)
    BY UpToGrows
  <2> QED BY <1>1, <2>1
<1>4. \A i, k \in S : UpTo(S, i) = UpTo(S, k) => i = k
  <2> TAKE i, k \in S
  <2>1. i \in Nat /\ k \in Nat /\ UpTo(S, i) \in Nat /\ UpTo(S, k) \in Nat
    BY <1>1, PlacesFinite
  <2>2. i < k => UpTo(S, i) < UpTo(S, k)
    BY <2>1, UpToGrows
  <2>3. k < i => UpTo(S, k) < UpTo(S, i)
    BY <2>1, UpToGrows
  <2> QED BY <2>1, <2>2, <2>3
<1>5. \A n \in 1 .. Cardinality(S) : Nth(S, n) \in S /\ UpTo(S, Nth(S, n)) = n
  BY <1>2 DEF Nth
<1> QED BY <1>1, <1>3, <1>4, <1>5

(* A part of a sequence is a sequence of its elements, one per place.      *)
LEMMA SelectType ==
  ASSUME NEW X, NEW s \in Seq(X), NEW S \in SUBSET (DOMAIN s)
  PROVE  /\ Select(s, S) \in Seq(X) /\ Len(Select(s, S)) = Cardinality(S) /\ Cardinality(S) \in Nat
         /\ DOMAIN Select(s, S) = 1 .. Cardinality(S)
         /\ \A n \in 1 .. Cardinality(S) : Select(s, S)[n] = s[Nth(S, n)] /\ Nth(S, n) \in S
<1>1. S \in SUBSET (1 .. Len(s)) /\ Len(s) \in Nat
  OBVIOUS
<1>2. Cardinality(S) \in Nat /\ \A n \in 1 .. Cardinality(S) : Nth(S, n) \in S
  BY <1>1, NthElement
<1>3. \A n \in 1 .. Cardinality(S) : s[Nth(S, n)] \in X
  BY <1>1, <1>2
<1> QED BY <1>2, <1>3 DEF Select

(* A part of a part is a part: the places of the inner one are counted.    *)
LEMMA SelectPart ==
  ASSUME NEW X, NEW s \in Seq(X), NEW S \in SUBSET (DOMAIN s), NEW T \in SUBSET S,
         NEW U, U = {UpTo(S, k) : k \in T}
  PROVE  /\ U \in SUBSET (1 .. Cardinality(S)) /\ Cardinality(U) = Cardinality(T)
         /\ \A n \in 1 .. Cardinality(T) : Nth(U, n) = UpTo(S, Nth(T, n))
         /\ Select(Select(s, S), U) = Select(s, T)
<1>1. S \in SUBSET (1 .. Len(s)) /\ T \in SUBSET (1 .. Len(s)) /\ Len(s) \in Nat
  OBVIOUS
<1>2. /\ Cardinality(S) \in Nat
      /\ \A k \in S : UpTo(S, k) \in 1 .. Cardinality(S) /\ Nth(S, UpTo(S, k)) = k
  BY <1>1, NthElement
<1>3. U \in SUBSET (1 .. Cardinality(S))
  BY <1>2
<1>4. \A i, k \in T : i <= k <=> UpTo(S, i) <= UpTo(S, k)
  <2> TAKE i, k \in T
  <2>1. i \in Nat /\ k \in Nat /\ i \in S /\ k \in S
    BY <1>1
  <2>2. UpTo(S, i) \in Nat /\ UpTo(S, k) \in Nat
    BY <1>2
  <2>3. i < k => UpTo(S, i) < UpTo(S, k)
    BY <1>1, <2>1, UpToGrows
  <2>4. k < i => UpTo(S, k) < UpTo(S, i)
    BY <1>1, <2>1, UpToGrows
  <2> QED BY <2>1, <2>2, <2>3, <2>4
<1>5. \A k \in T : UpTo(U, UpTo(S, k)) = UpTo(T, k)
  <2> TAKE k \in T
  <2> DEFINE A == {i \in T : i <= k}
             B == {u \in U : u <= UpTo(S, k)}
             f == [i \in A |-> UpTo(S, i)]
  <2>1. f \in Bijection(A, B)
    <3>1. \A i \in A : f[i] \in B
      BY <1>4
    <3>2. \A u \in B : \E i \in A : f[i] = u
      BY <1>4
    <3>3. \A i, j \in A : f[i] = f[j] => i = j
      BY <1>1, <1>2
    <3> QED BY <3>1, <3>2, <3>3 DEF Bijection, Injection, Surjection, IsInjective
  <2>2. IsFiniteSet(A)
    BY <1>1, PlacesFinite
  <2>3. Cardinality(B) = Cardinality(A)
    BY <2>1, <2>2, FS_Bijection DEF ExistsBijection
  <2> QED BY <2>3 DEF UpTo
<1>6. Cardinality(U) = Cardinality(T)
  <2> DEFINE f == [i \in T |-> UpTo(S, i)]
  <2>1. f \in Bijection(T, U)
    BY <1>1, <1>2 DEF Bijection, Injection, Surjection, IsInjective
  <2>2. IsFiniteSet(T)
    BY <1>1, PlacesFinite
  <2> QED BY <2>1, <2>2, FS_Bijection DEF ExistsBijection
<1>7. \A n \in 1 .. Cardinality(T) : Nth(U, n) = UpTo(S, Nth(T, n)) /\ Nth(T, n) \in T
  <2> TAKE n \in 1 .. Cardinality(T)
  <2>1. Nth(T, n) \in T /\ UpTo(T, Nth(T, n)) = n
    BY <1>1, NthElement
  <2>2. UpTo(S, Nth(T, n)) \in U /\ UpTo(U, UpTo(S, Nth(T, n))) = n
    BY <1>5, <2>1
  <2>3. \A u \in U : Nth(U, UpTo(U, u)) = u
    BY <1>2, <1>3, NthElement
  <2> QED BY <2>1, <2>2, <2>3
<1>8. \A n \in 1 .. Cardinality(T) : Select(s, S)[Nth(U, n)] = s[Nth(T, n)]
  BY <1>2, <1>7 DEF Select
<1> QED BY <1>3, <1>6, <1>7, <1>8 DEF Select

(* What is appended to a sequence does not change its parts.               *)
LEMMA SelectAppend ==
  ASSUME NEW X, NEW s \in Seq(X), NEW x \in X, NEW S \in SUBSET (DOMAIN s)
  PROVE  Select(Append(s, x), S) = Select(s, S)
<1>1. \A n \in 1 .. Cardinality(S) : Nth(S, n) \in 1 .. Len(s)
  BY SelectType
<1>2. \A k \in 1 .. Len(s) : Append(s, x)[k] = s[k]
  OBVIOUS
<1> QED BY <1>1, <1>2 DEF Select

(* A single place selects one element.                                     *)
LEMMA SelectOne ==
  ASSUME NEW X, NEW s \in Seq(X), NEW k \in DOMAIN s PROVE Select(s, {k}) = <<s[k]>>
<1>1. Cardinality({k}) = 1
  BY FS_Singleton
<1>2. Nth({k}, 1) = k
  BY <1>1, SelectType, {k} \in SUBSET (DOMAIN s)
<1> DEFINE one == [n \in 1 .. 1 |-> s[Nth({k}, n)]]
<1>3. Select(s, {k}) = one
  BY <1>1 DEF Select
<1>4. one = <<s[k]>>
  <2>1. Len(one) = 1 /\ one[1] = s[k] /\ DOMAIN one = 1 .. 1 /\ one \in Seq({s[k]})
    <3>1. \A n \in 1 .. 1 : n = 1
      OBVIOUS
    <3> QED BY <1>2, <3>1
  <2> HIDE DEF one
  <2> QED BY <2>1
<1> QED BY <1>3, <1>4

-----------------------------------------------------------------------------
(* Sequences of the same elements, parts of one, and two that are joined.  *)
LEMMA SameSeq ==
  ASSUME NEW X, NEW s \in Seq(X), NEW Y, NEW t \in Seq(Y), Len(s) = Len(t), \A j \in 1 .. Len(s) : s[j] = t[j]
  PROVE  s = t
OBVIOUS

LEMMA PartOf ==
  ASSUME NEW X, NEW t \in Seq(X), NEW i \in 1 .. Len(t) + 1, NEW k \in i - 1 .. Len(t)
  PROVE  LET s == SubSeq(t, i, k)
         IN  /\ s \in Seq(X) /\ Len(s) = k - i + 1 /\ \A j \in 1 .. k - i + 1 : s[j] = t[i + j - 1]
OBVIOUS

LEMMA Joined ==
  ASSUME NEW X, NEW p \in Seq(X), NEW q \in Seq(X)
  PROVE  /\ p \o q \in Seq(X) /\ Len(p \o q) = Len(p) + Len(q) /\ Len(p) \in Nat /\ Len(q) \in Nat
         /\ \A n \in 1 .. Len(p) : (p \o q)[n] = p[n]
         /\ \A n \in 1 .. Len(q) : (p \o q)[Len(p) + n] = q[n]
OBVIOUS

(* The places of a part, and all places of a stretch after them.           *)
LEMMA SelectRun ==
  ASSUME NEW X, NEW s \in Seq(X), NEW k \in 0 .. Len(s), NEW m \in k .. Len(s), NEW S \in SUBSET (1 .. k)
  PROVE  Select(s, S \cup (k + 1 .. m)) = Select(s, S) \o SubSeq(s, k + 1, m)
<1> DEFINE T == S \cup (k + 1 .. m)
           c == Cardinality(S)
           L == Len(s)
<1>1. L \in Nat /\ k \in Nat /\ m \in Nat /\ k <= m /\ m <= L /\ DOMAIN s = 1 .. L
  OBVIOUS
<1> HIDE DEF L
<1>2. S \in SUBSET (1 .. L) /\ T \in SUBSET (1 .. L)
  BY <1>1
<1>3. IsFiniteSet(S) /\ c \in Nat
  BY <1>1, <1>2, PlacesFinite, FS_CardinalityType
<1>17. \A i \in S : i \in Nat /\ i <= k
  BY <1>1
<1>4. \A e \in k .. m : UpTo(T, e) = c + (e - k)
  <2> TAKE e \in k .. m
  <2>1. {i \in T : i <= e} = S \cup (k + 1 .. e)
    <3>1. e \in Nat /\ k <= e /\ e <= m
      BY <1>1
    <3>2. \A i \in S : i \in Nat /\ i <= e
      BY <1>1, <1>17, <3>1
    <3>3. \A i : i \in k + 1 .. m /\ i <= e <=> i \in k + 1 .. e
      BY <1>1, <3>1
    <3> QED BY <3>2, <3>3
  <2>2. IsFiniteSet(k + 1 .. e) /\ Cardinality(k + 1 .. e) = e - k
    <3>1. k + 1 \in Int /\ e \in Int /\ (k + 1 > e <=> e = k) /\ e - (k + 1) + 1 = e - k /\ k - k = 0
      BY <1>1
    <3> QED BY <3>1, FS_Interval
  <2>3. S \cap (k + 1 .. e) = {}
    BY <1>1
  <2>4. Cardinality({}) = 0
    BY FS_EmptySet
  <2>5. Cardinality(S \cup (k + 1 .. e)) = c + (e - k) - Cardinality(S \cap (k + 1 .. e))
    BY <1>3, <2>2, FS_Union
  <2>6. e - k \in Nat
    BY <1>1
  <2> HIDE DEF c
  <2>8. Cardinality(S \cap (k + 1 .. e)) = 0
    BY <2>3, <2>4
  <2>7. Cardinality(S \cup (k + 1 .. e)) = c + (e - k)
    BY <1>3, <2>5, <2>6, <2>8
  <2> QED BY <2>1, <2>7 DEF UpTo
<1>5. Cardinality(T) = c + (m - k)
  <2>1. {i \in T : i <= m} = T
    <3>1. \A i \in k + 1 .. m : i <= m
      BY <1>1
    <3>2. \A i \in S : i <= m
      BY <1>1, <1>17
    <3> QED BY <3>1, <3>2
  <2>3. m \in k .. m
    BY <1>1
  <2> HIDE DEF T, c
  <2>2. UpTo(T, m) = c + (m - k)
    BY <1>4, <2>3
  <2> QED BY <2>1, <2>2 DEF UpTo
<1>6. \A i \in S : UpTo(T, i) = UpTo(S, i)
  <2> TAKE i \in S
  <2>1. {j \in T : j <= i} = {j \in S : j <= i}
    BY <1>1
  <2> QED BY <2>1 DEF UpTo
<1>7. \A n \in 1 .. c : Nth(S, n) \in S /\ UpTo(S, Nth(S, n)) = n
  BY <1>1, <1>2, NthElement
<1>8. \A i \in T : Nth(T, UpTo(T, i)) = i
  BY <1>1, <1>2, NthElement
<1>9. \A n \in 1 .. c : Nth(T, n) = Nth(S, n)
  BY <1>6, <1>7, <1>8
<1>10. \A n \in c + 1 .. c + (m - k) : Nth(T, n) = k + (n - c)
  <2> TAKE n \in c + 1 .. c + (m - k)
  <2>1. k + (n - c) \in k + 1 .. m /\ k + (n - c) \in k .. m /\ c + (k + (n - c) - k) = n
    <3> HIDE DEF c
    <3> QED BY <1>1, <1>3
  <2> DEFINE e == k + (n - c)
  <2>4. e \in T
    BY <2>1
  <2>5. e \in k .. m /\ c + (e - k) = n
    <3> HIDE DEF c
    <3> QED BY <1>1, <1>3, <2>1
  <2> HIDE DEF e, c, T
  <2>2. UpTo(T, e) = n
    BY <1>4, <2>5
  <2>3. Nth(T, n) = e
    BY <1>8, <2>2, <2>4
  <2> QED BY <2>3 DEF e
<1>11. /\ Select(s, S) \in Seq(X) /\ Len(Select(s, S)) = c /\ \A n \in 1 .. c : Select(s, S)[n] = s[Nth(S, n)]
       /\ Select(s, T) \in Seq(X) /\ Len(Select(s, T)) = Cardinality(T)
       /\ \A n \in 1 .. Cardinality(T) : Select(s, T)[n] = s[Nth(T, n)]
  BY <1>1, <1>2, SelectType
<1>12. /\ SubSeq(s, k + 1, m) \in Seq(X) /\ Len(SubSeq(s, k + 1, m)) = m - k
       /\ \A j \in 1 .. m - k : SubSeq(s, k + 1, m)[j] = s[k + j]
  BY <1>1 DEF L
<1> DEFINE p == Select(s, S)
           q == SubSeq(s, k + 1, m)
           r == Select(s, T)
<1> HIDE DEF T, c, p, q, r
<1>13. m - k \in Nat
  BY <1>1
<1>14. /\ p \o q \in Seq(X) /\ Len(p \o q) = c + (m - k)
       /\ \A n \in 1 .. c : (p \o q)[n] = p[n]
       /\ \A n \in 1 .. m - k : (p \o q)[c + n] = q[n]
  <2>1. p \in Seq(X) /\ q \in Seq(X) /\ Len(p) = c /\ Len(q) = m - k
    BY <1>11, <1>12 DEF p, q
  <2>2. /\ p \o q \in Seq(X) /\ Len(p \o q) = Len(p) + Len(q)
        /\ \A n \in 1 .. Len(p) : (p \o q)[n] = p[n]
        /\ \A n \in 1 .. Len(q) : (p \o q)[Len(p) + n] = q[n]
    BY <2>1, Joined
  <2> QED BY <2>1, <2>2
<1>15. \A n \in 1 .. c + (m - k) : r[n] = (p \o q)[n]
  <2> TAKE n \in 1 .. c + (m - k)
  <2>1. CASE n \in 1 .. c
    BY <1>5, <1>9, <1>11, <1>14, <2>1 DEF p, r
  <2>2. CASE n \notin 1 .. c
    <3>1. n \in c + 1 .. c + (m - k) /\ n - c \in 1 .. m - k /\ c + (n - c) = n
      BY <1>3, <1>13, <2>2
    <3>2. r[n] = s[k + (n - c)]
      BY <1>5, <1>10, <1>11, <3>1 DEF r
    <3>3. q[n - c] = s[k + (n - c)]
      BY <1>12, <3>1 DEF q
    <3>4. (p \o q)[n] = q[n - c]
      BY <1>14, <3>1
    <3> QED BY <3>1, <3>2, <3>3, <3>4
  <2> QED BY <2>1, <2>2
<1>16. r = p \o q
  BY <1>5, <1>11, <1>14, <1>15, SameSeq DEF r
<1> QED BY <1>16 DEF T, p, q, r
=============================================================================
