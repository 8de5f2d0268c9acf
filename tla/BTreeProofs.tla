----------------------------- MODULE BTreeProofs -----------------------------
(***************************************************************************)
(* What is proved of a tree handle, for pages of any size and trees of any *)
(* shape: the binary searches of a page, and that the handle loses no      *)
(* page: what insertions and erasures change is saved, what is dropped is  *)
(* read again, and a commit is what another handle reads.                  *)
(*                                                                         *)
(* The second part needs nothing of the order of the tree: every operation *)
(* of BTreePages changes pages by Change and Create alone.                 *)
(***************************************************************************)
EXTENDS BTree, WellFoundedInduction, TLAPS

\* A nonempty set of numbers has a first one: the induction of the loops.
LEMMA FirstOne ==
    ASSUME NEW S \in SUBSET Nat, S # {}
    PROVE  \E d \in S : \A e \in S : d <= e
<1>1. PICK d \in S : \A e \in S : ~(<<e, d>> \in OpToRel(<, Nat))
  BY NatLessThanWellFounded, WFMin
<1>2. ASSUME NEW e \in S PROVE d <= e
  <2>1. d \in Nat /\ e \in Nat
    OBVIOUS
  <2>2. ~(e < d)
    BY <1>1, <2>1 DEF OpToRel
  <2> QED
    BY <2>1, <2>2
<1> QED
  BY <1>2

-----------------------------------------------------------------------------
(* Searching a page                                                        *)

\* The keys of a page, in order.
Sorted(keys) ==
    /\ keys \in Seq(Int)
    /\ \A i, j \in 1..Len(keys) : i < j => keys[i] < keys[j]

IsLower(f, keys, k, n) ==
    f = [i \in 0..n |-> IF i = 0 THEN [l |-> 0, h |-> Len(keys)] ELSE Halve(keys, k, f[i - 1])]

LEMMA LowerExists ==
    ASSUME NEW keys, NEW k, NEW N \in Nat
    PROVE  \E f : IsLower(f, keys, k, N)
<1> DEFINE Bad == {n \in Nat : ~\E f : IsLower(f, keys, k, n)}
<1> SUFFICES ASSUME Bad # {} PROVE FALSE
  OBVIOUS
<1>1. PICK n \in Bad : \A m \in Bad : n <= m
  <2>1. Bad \in SUBSET Nat
    OBVIOUS
  <2> HIDE DEF Bad
  <2> QED
    BY <2>1, FirstOne
<1>2. CASE n = 0
  <2>1. IsLower([i \in 0..0 |-> [l |-> 0, h |-> Len(keys)]], keys, k, 0)
    BY DEF IsLower
  <2> QED
    BY <1>2, <2>1
<1>3. CASE n # 0
  <2>1. PICK g : IsLower(g, keys, k, n - 1)
    BY <1>1, <1>3
  <2>2. PICK q : q = Halve(keys, k, g[n - 1])
    OBVIOUS
  <2> DEFINE f == [i \in 0..n |-> IF i = n THEN q ELSE g[i]]
  <2>3. ASSUME NEW i \in 0..n
        PROVE  f[i] = IF i = 0 THEN [l |-> 0, h |-> Len(keys)] ELSE Halve(keys, k, f[i - 1])
    <3>1. CASE i = 0
      BY <1>3, <2>1, <3>1 DEF IsLower
    <3>2. CASE i # 0 /\ i < n
      <4>1. /\ i \in 0..(n - 1) /\ i - 1 \in 0..(n - 1) /\ i - 1 \in 0..n /\ i - 1 # n
            /\ i # n
        BY <3>2
      <4>2. f[i] = g[i] /\ f[i - 1] = g[i - 1]
        BY <4>1
      <4>3. g[i] = Halve(keys, k, g[i - 1])
        BY <2>1, <3>2, <4>1 DEF IsLower
      <4> QED
        BY <3>2, <4>2, <4>3
    <3>3. CASE i # 0 /\ i = n
      <4>1. n - 1 \in 0..n /\ n - 1 # n
        BY <1>3
      <4>2. f[n] = q /\ f[n - 1] = g[n - 1]
        BY <4>1
      <4> QED
        BY <2>2, <3>3, <4>2
    <3> QED
      BY <3>1, <3>2, <3>3
  <2>4. IsLower(f, keys, k, n)
    BY <2>3 DEF IsLower
  <2> QED
    BY <2>4
<1> QED
  BY <1>2, <1>3

\* What i rounds have found out, and that the span shrinks with each.
LowerSpan(s, keys, k, i) ==
    /\ s \in [l : Nat, h : Nat]
    /\ s.l <= s.h /\ s.h <= Len(keys)
    /\ s.l < s.h => s.h - s.l <= Len(keys) - i
    /\ \A j \in 1..Len(keys) : j <= s.l => keys[j] < k
    /\ \A j \in 1..Len(keys) : s.h < j => k <= keys[j]

LEMMA HalveKeepsSpan ==
    ASSUME NEW keys, Sorted(keys), NEW k \in Int, NEW s, NEW i \in Nat, LowerSpan(s, keys, k, i)
    PROVE  LowerSpan(Halve(keys, k, s), keys, k, i + 1)
<1> USE DEF Sorted
<1>1. PICK l \in Nat, u \in Nat : s = [l |-> l, h |-> u]
  BY DEF LowerSpan
<1>2. s.l = l /\ s.h = u /\ Len(keys) \in Nat
  BY <1>1
<1>3. CASE l >= u
  <2>1. Halve(keys, k, s) = s
    BY <1>2, <1>3 DEF Halve
  <2> QED
    BY <1>2, <1>3, <2>1 DEF LowerSpan
<1>4. CASE l < u
  <2>1. PICK m : m = (l + u) \div 2
    OBVIOUS
  <2>2. m \in Nat /\ l <= m /\ m < u /\ m + 1 \in 1..Len(keys) /\ keys[m + 1] \in Int
    <3>1. m \in Nat /\ l <= m /\ m < u
      BY <1>4, <2>1
    <3>2. u <= Len(keys)
      BY <1>2 DEF LowerSpan
    <3> QED
      BY <1>2, <3>1, <3>2
  <2>3. CASE k <= keys[m + 1]
    <3>1. Halve(keys, k, s) = [l |-> l, h |-> m]
      BY <1>1, <1>2, <1>4, <2>1, <2>3 DEF Halve
    <3>2. \A j \in 1..Len(keys) : m < j => k <= keys[j]
      <4> SUFFICES ASSUME NEW j \in 1..Len(keys), m < j PROVE k <= keys[j]
        OBVIOUS
      <4>1. j = m + 1 \/ keys[m + 1] < keys[j]
        BY <2>2
      <4> QED
        BY <2>2, <2>3, <4>1
    <3>3. l < m => m - l <= Len(keys) - (i + 1)
      BY <1>2, <1>4, <2>2 DEF LowerSpan
    <3> QED
      BY <1>2, <2>2, <3>1, <3>2, <3>3 DEF LowerSpan
  <2>4. CASE ~(k <= keys[m + 1])
    <3>1. Halve(keys, k, s) = [l |-> m + 1, h |-> u]
      BY <1>1, <1>2, <1>4, <2>1, <2>4 DEF Halve
    <3>2. \A j \in 1..Len(keys) : j <= m + 1 => keys[j] < k
      <4> SUFFICES ASSUME NEW j \in 1..Len(keys), j <= m + 1 PROVE keys[j] < k
        OBVIOUS
      <4>1. j = m + 1 \/ keys[j] < keys[m + 1]
        BY <2>2
      <4> QED
        BY <2>2, <2>4, <4>1
    <3>3. m + 1 < u => u - (m + 1) <= Len(keys) - (i + 1)
      BY <1>2, <1>4, <2>2 DEF LowerSpan
    <3> QED
      BY <1>2, <2>2, <3>1, <3>2, <3>3 DEF LowerSpan
  <2> QED
    BY <2>3, <2>4
<1> QED
  BY <1>2, <1>3, <1>4

LEMMA LowerRounds ==
    ASSUME NEW keys, Sorted(keys), NEW k \in Int, NEW N \in Nat, NEW f, IsLower(f, keys, k, N)
    PROVE  \A i \in 0..N : LowerSpan(f[i], keys, k, i)
<1> DEFINE Bad == {i \in 0..N : ~LowerSpan(f[i], keys, k, i)}
<1> SUFFICES ASSUME Bad # {} PROVE FALSE
  OBVIOUS
<1>1. PICK n \in Bad : \A m \in Bad : n <= m
  <2>1. Bad \in SUBSET Nat
    OBVIOUS
  <2> HIDE DEF Bad
  <2> QED
    BY <2>1, FirstOne
<1>2. CASE n = 0
  <2>1. f[0] = [l |-> 0, h |-> Len(keys)]
    BY DEF IsLower
  <2>2. LowerSpan(f[0], keys, k, 0)
    BY <2>1 DEF LowerSpan, Sorted
  <2> QED
    BY <1>2, <2>2
<1>3. CASE n # 0
  <2>1. n - 1 \in 0..N /\ LowerSpan(f[n - 1], keys, k, n - 1)
    BY <1>1, <1>3
  <2>2. f[n] = Halve(keys, k, f[n - 1])
    BY <1>3 DEF IsLower
  <2>3. LowerSpan(f[n], keys, k, (n - 1) + 1)
    BY <2>1, <2>2, HalveKeepsSpan
  <2> QED
    BY <2>3
<1> QED
  BY <1>2, <1>3

\* The search of a page for the first key that is not less than k.
LEMMA BinaryLowerFinds ==
    ASSUME NEW keys, Sorted(keys), NEW k \in Int
    PROVE  /\ BinaryLower(keys, k) \in 0..Len(keys)
           /\ \A j \in 1..Len(keys) : keys[j] < k <=> j <= BinaryLower(keys, k)
<1>1. Len(keys) \in Nat
  BY DEF Sorted
<1>2. \E f : IsLower(f, keys, k, Len(keys))
  BY <1>1, LowerExists
<1>3. PICK f : IsLower(f, keys, k, Len(keys)) /\ BinaryLower(keys, k) = f[Len(keys)].l
  BY <1>2 DEF BinaryLower, IsLower
<1>4. LowerSpan(f[Len(keys)], keys, k, Len(keys))
  BY <1>1, <1>3, LowerRounds
<1>5. PICK s : s = f[Len(keys)]
  OBVIOUS
<1>6. /\ s.l \in Nat /\ s.h \in Nat /\ s.l = s.h /\ s.l <= Len(keys)
      /\ \A j \in 1..Len(keys) : j <= s.l => keys[j] < k
      /\ \A j \in 1..Len(keys) : s.l < j => k <= keys[j]
  BY <1>1, <1>4, <1>5 DEF LowerSpan
<1>7. \A j \in 1..Len(keys) : keys[j] \in Int
  BY DEF Sorted
<1> QED
  BY <1>1, <1>3, <1>5, <1>6, <1>7

\* find_lower, with whatever hint an earlier search of the page has left in
\* last_found, returns the slot of the first key that is not less than k.
THEOREM FindLowerFinds ==
    ASSUME NEW keys, Sorted(keys), NEW k \in Int, NEW lastFound \in Nat
    PROVE  /\ FindLower(keys, k, lastFound) \in 1..(Len(keys) + 1)
           /\ \A j \in 1..Len(keys) : keys[j] < k <=> j < FindLower(keys, k, lastFound)
<1>1. Len(keys) \in Nat /\ \A j \in 1..Len(keys) : keys[j] \in Int
  BY DEF Sorted
<1> DEFINE hinted == /\ lastFound > 0 /\ lastFound < Len(keys)
                     /\ k <= keys[lastFound + 1] /\ keys[lastFound] < k
<1>2. CASE hinted
  <2>1. FindLower(keys, k, lastFound) = lastFound + 1
    BY <1>2 DEF FindLower
  <2>2. lastFound \in 1..Len(keys) /\ lastFound + 1 \in 1..Len(keys)
    BY <1>1, <1>2
  <2>3. ASSUME NEW j \in 1..Len(keys) PROVE keys[j] < k <=> j < lastFound + 1
    <3>1. /\ j < lastFound => keys[j] < keys[lastFound]
          /\ lastFound + 1 < j => keys[lastFound + 1] < keys[j]
      BY <2>2 DEF Sorted
    <3>2. keys[j] \in Int /\ keys[lastFound] \in Int /\ keys[lastFound + 1] \in Int
      BY <1>1, <2>2
    <3>3. j < lastFound \/ j = lastFound \/ j = lastFound + 1 \/ lastFound + 1 < j
      OBVIOUS
    <3> QED
      BY <1>2, <3>1, <3>2, <3>3
  <2> QED
    BY <2>1, <2>2, <2>3
<1>3. CASE ~hinted
  <2>1. FindLower(keys, k, lastFound) = BinaryLower(keys, k) + 1
    BY <1>3 DEF FindLower
  <2>2. PICK b : b = BinaryLower(keys, k)
    OBVIOUS
  <2>3. b \in 0..Len(keys) /\ \A j \in 1..Len(keys) : keys[j] < k <=> j <= b
    BY <2>2, BinaryLowerFinds
  <2> QED
    BY <1>1, <2>1, <2>2, <2>3
<1> QED
  BY <1>2, <1>3

IsUpper(f, keys, k, n) ==
    f = [i \in 0..n |-> IF i = 0 THEN [lo |-> 0, hi |-> Len(keys) - 1]
                        ELSE HalveUpper(keys, k, f[i - 1])]

LEMMA UpperExists ==
    ASSUME NEW keys, NEW k, NEW N \in Nat
    PROVE  \E f : IsUpper(f, keys, k, N)
<1> DEFINE Bad == {n \in Nat : ~\E f : IsUpper(f, keys, k, n)}
<1> SUFFICES ASSUME Bad # {} PROVE FALSE
  OBVIOUS
<1>1. PICK n \in Bad : \A m \in Bad : n <= m
  <2>1. Bad \in SUBSET Nat
    OBVIOUS
  <2> HIDE DEF Bad
  <2> QED
    BY <2>1, FirstOne
<1>2. CASE n = 0
  <2>1. IsUpper([i \in 0..0 |-> [lo |-> 0, hi |-> Len(keys) - 1]], keys, k, 0)
    BY DEF IsUpper
  <2> QED
    BY <1>2, <2>1
<1>3. CASE n # 0
  <2>1. PICK g : IsUpper(g, keys, k, n - 1)
    BY <1>1, <1>3
  <2>2. PICK q : q = HalveUpper(keys, k, g[n - 1])
    OBVIOUS
  <2> DEFINE f == [i \in 0..n |-> IF i = n THEN q ELSE g[i]]
  <2>3. ASSUME NEW i \in 0..n
        PROVE  f[i] = IF i = 0 THEN [lo |-> 0, hi |-> Len(keys) - 1]
                      ELSE HalveUpper(keys, k, f[i - 1])
    <3>1. CASE i = 0
      BY <1>3, <2>1, <3>1 DEF IsUpper
    <3>2. CASE i # 0 /\ i < n
      <4>1. /\ i \in 0..(n - 1) /\ i - 1 \in 0..(n - 1) /\ i - 1 \in 0..n /\ i - 1 # n
            /\ i # n
        BY <3>2
      <4>2. f[i] = g[i] /\ f[i - 1] = g[i - 1]
        BY <4>1
      <4>3. g[i] = HalveUpper(keys, k, g[i - 1])
        BY <2>1, <3>2, <4>1 DEF IsUpper
      <4> QED
        BY <3>2, <4>2, <4>3
    <3>3. CASE i # 0 /\ i = n
      <4>1. n - 1 \in 0..n /\ n - 1 # n
        BY <1>3
      <4>2. f[n] = q /\ f[n - 1] = g[n - 1]
        BY <4>1
      <4> QED
        BY <2>2, <3>3, <4>2
    <3> QED
      BY <3>1, <3>2, <3>3
  <2>4. IsUpper(f, keys, k, n)
    BY <2>3 DEF IsUpper
  <2> QED
    BY <2>4
<1> QED
  BY <1>2, <1>3

\* The span may end empty, with hi one before lo.
UpperSpan(s, keys, k, i) ==
    /\ s \in [lo : Int, hi : Int]
    /\ 0 <= s.lo /\ s.lo <= s.hi + 1 /\ s.hi < Len(keys)
    /\ s.lo < s.hi => s.hi - s.lo <= Len(keys) - 1 - i
    /\ \A j \in 1..Len(keys) : j <= s.lo => keys[j] <= k
    /\ \A j \in 1..Len(keys) : s.hi + 1 < j => k < keys[j]

LEMMA HalveUpperKeepsSpan ==
    ASSUME NEW keys, Sorted(keys), NEW k \in Int, NEW s, NEW i \in Nat, UpperSpan(s, keys, k, i)
    PROVE  UpperSpan(HalveUpper(keys, k, s), keys, k, i + 1)
<1> USE DEF Sorted
<1>1. PICK l \in Int, u \in Int : s = [lo |-> l, hi |-> u]
  BY DEF UpperSpan
<1>2. s.lo = l /\ s.hi = u /\ Len(keys) \in Nat
  BY <1>1
<1>3. CASE l >= u
  <2>1. HalveUpper(keys, k, s) = s
    BY <1>2, <1>3 DEF HalveUpper
  <2> QED
    BY <1>2, <1>3, <2>1 DEF UpperSpan
<1>4. CASE l < u
  <2>1. PICK m : m = (l + u) \div 2
    OBVIOUS
  <2>2. m \in Int /\ 0 <= l /\ l <= m /\ m < u /\ m + 1 \in 1..Len(keys) /\ keys[m + 1] \in Int
    <3>1. m \in Int /\ l <= m /\ m < u
      BY <1>4, <2>1
    <3>2. 0 <= l /\ u < Len(keys)
      BY <1>2 DEF UpperSpan
    <3> QED
      BY <1>2, <3>1, <3>2
  <2>3. CASE k < keys[m + 1]
    <3>1. HalveUpper(keys, k, s) = [lo |-> l, hi |-> m - 1]
      BY <1>1, <1>2, <1>4, <2>1, <2>3 DEF HalveUpper
    <3>2. \A j \in 1..Len(keys) : (m - 1) + 1 < j => k < keys[j]
      <4> SUFFICES ASSUME NEW j \in 1..Len(keys), (m - 1) + 1 < j PROVE k < keys[j]
        OBVIOUS
      <4>1. j = m + 1 \/ keys[m + 1] < keys[j]
        BY <2>2
      <4> QED
        BY <2>2, <2>3, <4>1
    <3>3. /\ l < m - 1 => (m - 1) - l <= Len(keys) - 1 - (i + 1)
          /\ l <= (m - 1) + 1 /\ m - 1 < Len(keys)
      BY <1>2, <1>4, <2>2 DEF UpperSpan
    <3> QED
      BY <1>2, <2>2, <3>1, <3>2, <3>3 DEF UpperSpan
  <2>4. CASE ~(k < keys[m + 1])
    <3>1. HalveUpper(keys, k, s) = [lo |-> m + 1, hi |-> u]
      BY <1>1, <1>2, <1>4, <2>1, <2>4 DEF HalveUpper
    <3>2. \A j \in 1..Len(keys) : j <= m + 1 => keys[j] <= k
      <4> SUFFICES ASSUME NEW j \in 1..Len(keys), j <= m + 1 PROVE keys[j] <= k
        OBVIOUS
      <4>1. j = m + 1 \/ keys[j] < keys[m + 1]
        BY <2>2
      <4> QED
        BY <2>2, <2>4, <4>1
    <3>3. /\ m + 1 < u => u - (m + 1) <= Len(keys) - 1 - (i + 1)
          /\ m + 1 <= u + 1
      BY <1>2, <1>4, <2>2 DEF UpperSpan
    <3> QED
      BY <1>2, <2>2, <3>1, <3>2, <3>3 DEF UpperSpan
  <2> QED
    BY <2>3, <2>4
<1> QED
  BY <1>2, <1>3, <1>4

LEMMA UpperRounds ==
    ASSUME NEW keys, Sorted(keys), NEW k \in Int, NEW N \in Nat, NEW f, IsUpper(f, keys, k, N)
    PROVE  \A i \in 0..N : UpperSpan(f[i], keys, k, i)
<1> DEFINE Bad == {i \in 0..N : ~UpperSpan(f[i], keys, k, i)}
<1> SUFFICES ASSUME Bad # {} PROVE FALSE
  OBVIOUS
<1>1. PICK n \in Bad : \A m \in Bad : n <= m
  <2>1. Bad \in SUBSET Nat
    OBVIOUS
  <2> HIDE DEF Bad
  <2> QED
    BY <2>1, FirstOne
<1>2. CASE n = 0
  <2>1. f[0] = [lo |-> 0, hi |-> Len(keys) - 1]
    BY DEF IsUpper
  <2>2. UpperSpan(f[0], keys, k, 0)
    BY <2>1 DEF UpperSpan, Sorted
  <2> QED
    BY <1>2, <2>2
<1>3. CASE n # 0
  <2>1. n - 1 \in 0..N /\ UpperSpan(f[n - 1], keys, k, n - 1)
    BY <1>1, <1>3
  <2>2. f[n] = HalveUpper(keys, k, f[n - 1])
    BY <1>3 DEF IsUpper
  <2>3. UpperSpan(f[n], keys, k, (n - 1) + 1)
    BY <2>1, <2>2, HalveUpperKeepsSpan
  <2> QED
    BY <2>3
<1> QED
  BY <1>2, <1>3

\* find_upper returns the slot of the first key that is greater than k.
THEOREM FindUpperFinds ==
    ASSUME NEW keys, Sorted(keys), NEW k \in Int
    PROVE  /\ FindUpper(keys, k) \in 1..(Len(keys) + 1)
           /\ \A j \in 1..Len(keys) : keys[j] <= k <=> j < FindUpper(keys, k)
<1>1. Len(keys) \in Nat /\ \A j \in 1..Len(keys) : keys[j] \in Int
  BY DEF Sorted
<1>2. CASE keys = <<>>
  BY <1>1, <1>2 DEF FindUpper
<1>3. CASE keys # <<>>
  <2>1. \E f : IsUpper(f, keys, k, Len(keys))
    BY <1>1, UpperExists
  <2>2. PICK f : /\ IsUpper(f, keys, k, Len(keys))
                 /\ BinaryUpper(keys, k) =
                        IF f[Len(keys)].hi < 0 \/ keys[f[Len(keys)].hi + 1] <= k
                        THEN f[Len(keys)].hi + 1 ELSE f[Len(keys)].hi
    BY <2>1 DEF BinaryUpper, IsUpper
  <2>3. UpperSpan(f[Len(keys)], keys, k, Len(keys))
    BY <1>1, <2>2, UpperRounds
  <2>4. PICK lo \in Int, hi \in Int : f[Len(keys)] = [lo |-> lo, hi |-> hi]
    BY <2>3 DEF UpperSpan
  <2>5. /\ 0 <= lo /\ lo <= hi + 1 /\ hi < Len(keys) /\ hi <= lo
        /\ \A j \in 1..Len(keys) : j <= lo => keys[j] <= k
        /\ \A j \in 1..Len(keys) : hi + 1 < j => k < keys[j]
    BY <1>1, <2>3, <2>4 DEF UpperSpan
  <2>6. PICK b : b = BinaryUpper(keys, k)
    OBVIOUS
  <2>7. b = IF hi < 0 \/ keys[hi + 1] <= k THEN hi + 1 ELSE hi
    BY <2>2, <2>4, <2>6
  <2>8. FindUpper(keys, k) = b + 1
    BY <1>3, <2>6 DEF FindUpper
  <2>9. b \in 0..Len(keys)
    BY <1>1, <2>5, <2>7
  <2>10. ASSUME NEW j \in 1..Len(keys) PROVE keys[j] <= k <=> j < b + 1
    <3>1. keys[j] \in Int
      BY <1>1
    <3>2. CASE hi < 0
      BY <2>5, <2>7, <3>1, <3>2
    <3>3. CASE hi >= 0 /\ keys[hi + 1] <= k
      <4>1. hi + 1 \in 1..Len(keys) /\ b = hi + 1
        BY <1>1, <2>5, <2>7, <3>3
      <4>2. j < hi + 1 => keys[j] < keys[hi + 1]
        BY <4>1 DEF Sorted
      <4>3. keys[hi + 1] \in Int
        BY <1>1, <4>1
      <4> QED
        BY <2>5, <3>1, <3>3, <4>1, <4>2, <4>3
    <3>4. CASE hi >= 0 /\ ~(keys[hi + 1] <= k)
      <4>1. hi + 1 \in 1..Len(keys) /\ b = hi
        BY <1>1, <2>5, <2>7, <3>4
      <4>2. keys[hi + 1] \in Int
        BY <1>1, <4>1
      <4>3. lo = hi
        BY <2>5, <3>4, <4>1
      <4> QED
        BY <2>5, <3>1, <3>4, <4>1, <4>2, <4>3
    <3> QED
      BY <3>2, <3>3, <3>4
  <2> QED
    BY <1>1, <2>8, <2>9, <2>10
<1> QED
  BY <1>2, <1>3

-----------------------------------------------------------------------------
(* The handle                                                              *)

BootFields == {"root", "size", "head", "last"}

IsBlocks(b) == DOMAIN b = {"page", "boot"} /\ DOMAIN b.boot = BootFields

IsHandle(g) ==
    /\ DOMAIN g = {"root", "head", "last", "size", "mem", "modified", "blocks", "start", "next"}
    /\ g.size \in Nat /\ g.next \in Nat \ {0}
    /\ IsBlocks(g.blocks) /\ DOMAIN g.start = BootFields

\* A page is waiting to be saved or is equal to its block.  A page that claims
\* to be created or changed is waiting: change_before will not enter it again.
Careful(g) ==
    /\ g.modified \subseteq DOMAIN g.mem
    /\ \A a \in DOMAIN g.mem :
        \/ a \in g.modified
        \/ /\ g.mem[a].s = "loaded"
           /\ a \in DOMAIN g.blocks.page /\ g.mem[a].page = g.blocks.page[a]

Sane(g) == IsHandle(g) /\ Careful(g)

\* Handle g is handle h after some pages were changed or created: of the rest
\* only root, head and last may differ.
From(h0, g) ==
    /\ Sane(g) /\ g.modified # {}
    /\ g.blocks = h0.blocks /\ g.start = h0.start /\ g.size = h0.size

Rooted(h0, g) == From(h0, g) /\ g.root = h0.root

LEMMA ChangeFrom ==
    ASSUME NEW h0, NEW a, NEW p, Sane(h0)
    PROVE  Rooted(h0, Change(h0, a, p))
<1> DEFINE dirty == a \in DOMAIN h0.mem /\ h0.mem[a].s # "loaded"
           s == IF dirty THEN h0.mem[a].s ELSE "changed"
           m == [b \in DOMAIN h0.mem \cup {a} |->
                    IF b = a THEN [page |-> p, s |-> s] ELSE h0.mem[b]]
           d == IF dirty THEN h0.modified ELSE h0.modified \cup {a}
           g == [h0 EXCEPT !.mem = m, !.modified = d]
<1>1. Change(h0, a, p) = g
  BY DEF Change
<1>2. a \in d /\ h0.modified \subseteq d /\ d \subseteq h0.modified \cup {a}
  BY DEF Sane, Careful
<1>3. /\ DOMAIN m = DOMAIN h0.mem \cup {a}
      /\ \A b \in DOMAIN h0.mem : b # a => m[b] = h0.mem[b]
  OBVIOUS
<1> HIDE DEF m, d
<1>4. /\ g.mem = m /\ g.modified = d /\ g.blocks = h0.blocks /\ g.start = h0.start
      /\ g.size = h0.size /\ g.root = h0.root /\ g.next = h0.next /\ DOMAIN g = DOMAIN h0
  BY DEF Sane, IsHandle
<1> HIDE DEF g
<1>5. IsHandle(g)
  BY <1>4 DEF Sane, IsHandle
<1>6. Careful(g)
  BY <1>2, <1>3, <1>4 DEF Sane, Careful
<1> QED
  BY <1>1, <1>2, <1>4, <1>5, <1>6 DEF Rooted, From, Sane

LEMMA CreateFrom ==
    ASSUME NEW h0, NEW p, Sane(h0)
    PROVE  Rooted(h0, Create(h0, p))
<1> DEFINE n == h0.next
           m == [b \in DOMAIN h0.mem \cup {n} |->
                    IF b = n THEN [page |-> p, s |-> "created"] ELSE h0.mem[b]]
           d == h0.modified \cup {n}
           g == [h0 EXCEPT !.mem = m, !.modified = d, !.next = h0.next + 1]
<1>1. Create(h0, p) = g
  BY DEF Create
<1>2. n \in d /\ h0.modified \subseteq d /\ d \subseteq h0.modified \cup {n}
  OBVIOUS
<1>3. /\ DOMAIN m = DOMAIN h0.mem \cup {n}
      /\ \A b \in DOMAIN h0.mem : b # n => m[b] = h0.mem[b]
  OBVIOUS
<1> HIDE DEF m, d
<1>4. /\ g.mem = m /\ g.modified = d /\ g.blocks = h0.blocks /\ g.start = h0.start
      /\ g.size = h0.size /\ g.root = h0.root /\ g.next = h0.next + 1 /\ DOMAIN g = DOMAIN h0
  BY DEF Sane, IsHandle
<1> HIDE DEF g
<1>5. IsHandle(g)
  BY <1>4 DEF Sane, IsHandle
<1> HIDE DEF n
<1>6. Careful(g)
  BY <1>2, <1>3, <1>4 DEF Sane, Careful
<1> QED
  BY <1>1, <1>2, <1>4, <1>5, <1>6 DEF Rooted, From, Sane

LEMMA FromTwice ==
    ASSUME NEW f, NEW g, NEW e, From(f, g), From(g, e)
    PROVE  From(f, e)
BY DEF From

LEMMA RootedTwice ==
    ASSUME NEW f, NEW g, NEW e, Rooted(f, g), Rooted(g, e)
    PROVE  Rooted(f, e)
BY DEF From, Rooted

LEMMA SetLast ==
    ASSUME NEW f, NEW g, NEW x, Rooted(f, g)
    PROVE  Rooted(f, [g EXCEPT !.last = x])
<1> DEFINE e == [g EXCEPT !.last = x]
<1>1. /\ e.mem = g.mem /\ e.modified = g.modified /\ e.blocks = g.blocks /\ e.start = g.start
      /\ e.size = g.size /\ e.root = g.root /\ e.next = g.next /\ DOMAIN e = DOMAIN g
  BY DEF Rooted, From, Sane, IsHandle
<1> HIDE DEF e
<1>2. Rooted(f, e)
  BY <1>1 DEF Rooted, From, Sane, IsHandle, Careful
<1> QED
  BY <1>2 DEF e

LEMMA SetRoot ==
    ASSUME NEW f, NEW g, NEW x, From(f, g)
    PROVE  /\ From(f, [g EXCEPT !.root = x])
           /\ [g EXCEPT !.root = x].root = x
<1> DEFINE e == [g EXCEPT !.root = x]
<1>1. /\ e.mem = g.mem /\ e.modified = g.modified /\ e.blocks = g.blocks /\ e.start = g.start
      /\ e.size = g.size /\ e.root = x /\ e.next = g.next /\ DOMAIN e = DOMAIN g
  BY DEF From, Sane, IsHandle
<1> HIDE DEF e
<1>2. From(f, e)
  BY <1>1 DEF From, Sane, IsHandle, Careful
<1> QED
  BY <1>1, <1>2 DEF e

WithEnds(g, x, y, z) == [g EXCEPT !.root = x, !.head = y, !.last = z]

LEMMA SetEnds ==
    ASSUME NEW f, NEW g, NEW x, NEW y, NEW z, From(f, g)
    PROVE  From(f, WithEnds(g, x, y, z)) /\ WithEnds(g, x, y, z).root = x
<1>0. PICK e : e = WithEnds(g, x, y, z)
  OBVIOUS
<1>1. /\ e.mem = g.mem /\ e.modified = g.modified /\ e.blocks = g.blocks /\ e.start = g.start
      /\ e.size = g.size /\ e.root = x /\ e.next = g.next /\ DOMAIN e = DOMAIN g
  BY <1>0 DEF WithEnds, From, Sane, IsHandle
<1>2. From(f, e)
  BY <1>1 DEF From, Sane, IsHandle, Careful
<1> QED
  BY <1>0, <1>1, <1>2

-----------------------------------------------------------------------------
(* Insertion                                                               *)

LEMMA SplitSurfaceFrom ==
    ASSUME NEW h0, NEW a, Sane(h0)
    PROVE  Rooted(h0, SplitSurface(h0, a))
<1> DEFINE p == Page(h0, a)
           n == h0.next
           mid == Len(p.keys) \div 2
           lower == [p EXCEPT !.keys = SubSeq(@, 1, mid), !.vals = SubSeq(@, 1, mid), !.next = n]
           upper == [p EXCEPT !.keys = SubSeq(@, mid + 1, Len(@)),
                              !.vals = SubSeq(@, mid + 1, Len(@)), !.prev = a]
           f == Change(h0, a, lower)
           g == Create(f, upper)
           back == [Page(g, p.next) EXCEPT !.prev = n]
<1>1. SplitSurface(h0, a) = IF p.next = NULL_REF THEN [g EXCEPT !.last = n]
                            ELSE Change(g, p.next, back)
  BY DEF SplitSurface
<1> HIDE DEF p, n, mid, lower, upper
<1>2. Rooted(h0, f)
  BY ChangeFrom
<1> HIDE DEF f
<1>3. Rooted(f, g)
  BY <1>2, CreateFrom DEF Rooted, From
<1> HIDE DEF g, back
<1>4. Rooted(h0, g)
  BY <1>2, <1>3, RootedTwice
<1>5. Rooted(h0, [g EXCEPT !.last = n])
  BY <1>4, SetLast
<1>6. Rooted(g, Change(g, p.next, back))
  BY <1>4, ChangeFrom DEF Rooted, From
<1>7. Rooted(h0, Change(g, p.next, back))
  BY <1>4, <1>6, RootedTwice
<1> QED
  BY <1>1, <1>5, <1>7

LEMMA SplitInteriorFrom ==
    ASSUME NEW h0, NEW a, NEW at, NEW key, NEW child, Sane(h0)
    PROVE  Rooted(h0, SplitInterior(h0, a, at, key, child).h)
<1>1. ASSUME NEW l, NEW u PROVE Rooted(h0, Create(Change(h0, a, l), u))
  <2>1. PICK f : f = Change(h0, a, l)
    OBVIOUS
  <2>2. Rooted(h0, f)
    BY <2>1, ChangeFrom
  <2>3. Rooted(f, Create(f, u))
    BY <2>2, CreateFrom DEF Rooted, From
  <2> QED
    BY <2>1, <2>2, <2>3, RootedTwice
<1>2. \E l, u, up : SplitInterior(h0, a, at, key, child) =
                        [h |-> Create(Change(h0, a, l), u), key |-> up]
  BY Zenon DEF SplitInterior
<1> QED
  BY <1>1, <1>2

LEMMA PutAtFrom ==
    ASSUME NEW h0, NEW a, NEW at, NEW k, NEW v, Sane(h0)
    PROVE  Rooted(h0, PutAt(h0, a, at, k, v))
BY ChangeFrom DEF PutAt

LEMMA InsertLeafFrom ==
    ASSUME NEW h0, NEW a, NEW p, NEW at, NEW k, NEW v, Sane(h0)
    PROVE  Rooted(h0, InsertLeaf(h0, a, p, at, k, v).h)
<1>1. CASE at <= Len(p.keys) /\ p.keys[at] = k
  <2>1. InsertLeaf(h0, a, p, at, k, v).h = Change(h0, a, [p EXCEPT !.vals[at] = v])
    BY <1>1 DEF InsertLeaf, Inserted
  <2> QED
    BY <2>1, ChangeFrom
<1>2. CASE ~(at <= Len(p.keys) /\ p.keys[at] = k) /\ IsFull(p)
  <2>1. PICK g, b : g = SplitSurface(h0, a) /\ b = h0.next
    OBVIOUS
  <2>2. InsertLeaf(h0, a, p, at, k, v) = InsertSplit(g, a, b, at, k, v)
    BY <1>2, <2>1 DEF InsertLeaf
  <2>3. \/ InsertLeaf(h0, a, p, at, k, v).h = PutAt(g, b, at - Occupants(g, a), k, v)
        \/ InsertLeaf(h0, a, p, at, k, v).h = PutAt(g, a, at, k, v)
    BY <2>2 DEF InsertSplit, Inserted
  <2>4. Rooted(h0, g)
    BY <2>1, SplitSurfaceFrom
  <2>5. Rooted(g, InsertLeaf(h0, a, p, at, k, v).h)
    BY <2>3, <2>4, PutAtFrom DEF Rooted, From
  <2> QED
    BY <2>4, <2>5, RootedTwice
<1>3. CASE ~(at <= Len(p.keys) /\ p.keys[at] = k) /\ ~IsFull(p)
  <2>1. InsertLeaf(h0, a, p, at, k, v).h = PutAt(h0, a, at, k, v)
    BY <1>3 DEF InsertLeaf, Inserted
  <2> QED
    BY <2>1, PutAtFrom
<1> QED
  BY <1>1, <1>2, <1>3

LEMMA InsertKidFrom ==
    ASSUME NEW h0, NEW r, NEW a, NEW p, NEW at, Rooted(h0, r.h)
    PROVE  Rooted(h0, InsertKid(r, a, p, at).h)
<1>0. Sane(r.h)
  BY DEF Rooted, From
<1>1. CASE r.split = NULL_REF
  BY <1>1 DEF InsertKid
<1>2. CASE r.split # NULL_REF /\ IsFull(p)
  <2>1. InsertKid(r, a, p, at).h = SplitInterior(r.h, a, at, r.key, r.split).h
    BY <1>2 DEF InsertKid, Inserted
  <2>2. Rooted(r.h, InsertKid(r, a, p, at).h)
    BY <1>0, <2>1, SplitInteriorFrom
  <2> QED
    BY <2>2, RootedTwice
<1>3. CASE r.split # NULL_REF /\ ~IsFull(p)
  <2>1. PICK q : q = [p EXCEPT !.keys = InsertAt(@, at, r.key), !.kids = InsertAt(@, at + 1, r.split)]
    OBVIOUS
  <2>2. InsertKid(r, a, p, at).h = Change(r.h, a, q)
    BY <1>3, <2>1 DEF InsertKid, Inserted
  <2>3. Rooted(r.h, InsertKid(r, a, p, at).h)
    BY <1>0, <2>2, ChangeFrom
  <2> QED
    BY <2>3, RootedTwice
<1> QED
  BY <1>1, <1>2, <1>3

\* What the call of insert_descend at depth i returns, if the one below it
\* returned r; the same with the whole recursion from depth m down.
InsertCall(h0, k, v, path, i, r) ==
    IF i = h0.next \/ IsSurface(Page(h0, path[i]))
    THEN InsertLeaf(h0, path[i], Page(h0, path[i]), SlotOf(Page(h0, path[i]), k, FALSE), k, v)
    ELSE InsertKid(r, path[i], Page(h0, path[i]), SlotOf(Page(h0, path[i]), k, FALSE))

IsInsert(f, h0, k, v, path, m) ==
    f = [i \in m..h0.next |-> InsertCall(h0, k, v, path, i, f[i + 1])]

LEMMA InsertExists ==
    ASSUME NEW h0, NEW k, NEW v, NEW path, h0.next \in Nat
    PROVE  \E f : IsInsert(f, h0, k, v, path, 0)
<1> DEFINE N == h0.next
           Bad == {n \in 0..N : ~\E f : IsInsert(f, h0, k, v, path, N - n)}
<1>0. N - N = 0 /\ N \in 0..N
  OBVIOUS
<1> SUFFICES ASSUME Bad # {} PROVE FALSE
  BY <1>0
<1>1. PICK n \in Bad : \A m \in Bad : n <= m
  <2>1. Bad \in SUBSET Nat
    OBVIOUS
  <2> HIDE DEF Bad
  <2> QED
    BY <2>1, FirstOne
<1>2. n \in 0..N /\ N \in Nat
  OBVIOUS
<1>3. CASE n = 0
  <2>1. PICK q : q = InsertCall(h0, k, v, path, N, 0)
    OBVIOUS
  <2> DEFINE f == [i \in N..N |-> q]
  <2>2. ASSUME NEW i \in N..N
        PROVE  f[i] = InsertCall(h0, k, v, path, i, f[i + 1])
    <3>1. i = N
      BY <1>2
    <3> QED
      BY <2>1, <3>1 DEF InsertCall
  <2>3. IsInsert(f, h0, k, v, path, N)
    BY <2>2 DEF IsInsert
  <2>4. N - n = N
    BY <1>2, <1>3
  <2> QED
    BY <2>3, <2>4
<1>4. CASE n # 0
  <2> DEFINE m == N - n
  <2>0. m \in Nat /\ m < N /\ N - (n - 1) = m + 1 /\ n - 1 \in 0..N /\ ~(n <= n - 1)
    BY <1>2, <1>4
  <2>1. PICK g : IsInsert(g, h0, k, v, path, m + 1)
    BY <1>1, <2>0
  <2>2. PICK q : q = InsertCall(h0, k, v, path, m, g[m + 1])
    OBVIOUS
  <2> HIDE DEF m
  <2> DEFINE f == [i \in m..N |-> IF i = m THEN q ELSE g[i]]
  <2>3. ASSUME NEW i \in m..N
        PROVE  f[i] = InsertCall(h0, k, v, path, i, f[i + 1])
    <3>1. CASE i = m
      <4>1. m + 1 \in m..N /\ m + 1 # m /\ m \in m..N
        BY <1>2, <2>0
      <4>2. f[m] = q /\ f[m + 1] = g[m + 1]
        BY <4>1
      <4> QED
        BY <2>2, <3>1, <4>2
    <3>2. CASE i # m /\ i < N
      <4>1. i \in (m + 1)..N /\ i + 1 \in (m + 1)..N /\ i + 1 \in m..N /\ i + 1 # m
        BY <1>2, <2>0, <3>2
      <4>2. f[i] = g[i] /\ f[i + 1] = g[i + 1]
        BY <3>2, <4>1
      <4>3. g[i] = InsertCall(h0, k, v, path, i, g[i + 1])
        BY <2>1, <4>1 DEF IsInsert
      <4> QED
        BY <4>2, <4>3
    <3>3. CASE i # m /\ i = N
      <4>1. i \in (m + 1)..N
        BY <1>2, <2>0, <3>3
      <4>2. f[i] = g[i]
        BY <3>3
      <4>3. g[i] = InsertCall(h0, k, v, path, i, g[i + 1])
        BY <2>1, <3>3, <4>1 DEF IsInsert
      <4>4. InsertCall(h0, k, v, path, i, g[i + 1]) = InsertCall(h0, k, v, path, i, f[i + 1])
        BY <3>3 DEF InsertCall
      <4> QED
        BY <3>3, <4>2, <4>3, <4>4
    <3> QED
      BY <1>2, <2>0, <3>1, <3>2, <3>3
  <2>4. IsInsert(f, h0, k, v, path, m)
    BY <2>3 DEF IsInsert
  <2> QED
    BY <2>4 DEF m
<1> QED
  BY <1>3, <1>4

LEMMA InsertCallsFrom ==
    ASSUME NEW h0, NEW k, NEW v, NEW path, NEW f, Sane(h0), IsInsert(f, h0, k, v, path, 0)
    PROVE  \A i \in 0..h0.next : Rooted(h0, f[i].h)
<1> DEFINE N == h0.next
           Bad == {n \in 0..N : ~Rooted(h0, f[N - n].h)}
<1>0. N \in Nat
  BY DEF Sane, IsHandle
<1>1. SUFFICES ASSUME Bad # {} PROVE FALSE
  <2> SUFFICES ASSUME NEW i \in 0..N, Bad = {} PROVE Rooted(h0, f[i].h)
    BY <1>1
  <2>1. N - i \in 0..N /\ N - (N - i) = i
    BY <1>0
  <2> QED
    BY <2>1
<1>2. PICK n \in Bad : \A m \in Bad : n <= m
  <2>1. Bad \in SUBSET Nat
    BY <1>0
  <2> HIDE DEF Bad
  <2> QED
    BY <1>1, <2>1, FirstOne
<1>3. n \in 0..N /\ ~Rooted(h0, f[N - n].h)
  OBVIOUS
<1> DEFINE m == N - n
<1>4. f[m] = InsertCall(h0, k, v, path, m, f[m + 1])
  <2>1. m \in 0..N
    BY <1>0, <1>3
  <2> HIDE DEF m
  <2> QED
    BY <2>1 DEF IsInsert
<1>5. CASE m = N \/ IsSurface(Page(h0, path[m]))
  <2>1. f[m] = InsertLeaf(h0, path[m], Page(h0, path[m]), SlotOf(Page(h0, path[m]), k, FALSE), k, v)
    BY <1>4, <1>5 DEF InsertCall
  <2> HIDE DEF m
  <2>2. Rooted(h0, f[m].h)
    BY <2>1, InsertLeafFrom
  <2> QED
    BY <1>3, <2>2 DEF m
<1>6. CASE ~(m = N \/ IsSurface(Page(h0, path[m])))
  <2>1. f[m] = InsertKid(f[m + 1], path[m], Page(h0, path[m]), SlotOf(Page(h0, path[m]), k, FALSE))
    BY <1>4, <1>6 DEF InsertCall
  <2>2. n # 0 /\ n - 1 \in 0..N /\ N - (n - 1) = m + 1 /\ ~(n <= n - 1)
    BY <1>0, <1>3, <1>6
  <2>3. Rooted(h0, f[m + 1].h)
    BY <1>2, <2>2
  <2> HIDE DEF m
  <2>4. Rooted(h0, f[m].h)
    BY <2>1, <2>3, InsertKidFrom
  <2> QED
    BY <1>3, <2>4 DEF m
<1> QED
  BY <1>5, <1>6

LEMMA InsertDescends ==
    ASSUME NEW h0, NEW k, NEW v, h0.next \in Nat
    PROVE  \E f : /\ IsInsert(f, h0, k, v, Path(h0, k, FALSE), 0)
                  /\ InsertDescend(h0, k, v) = f[0]
<1> DEFINE path == Path(h0, k, FALSE)
<1>1. \E f : IsInsert(f, h0, k, v, path, 0)
  BY InsertExists
<1>2. InsertDescend(h0, k, v) = (CHOOSE f : IsInsert(f, h0, k, v, path, 0))[0]
  BY DEF InsertDescend, IsInsert, InsertCall
<1> QED
  BY <1>1, <1>2

\* insert_descend changes pages, and leaves the root where it is.
LEMMA InsertDescendFrom ==
    ASSUME NEW h0, NEW k, NEW v, Sane(h0)
    PROVE  Rooted(h0, InsertDescend(h0, k, v).h)
<1>1. h0.next \in Nat /\ 0 \in 0..h0.next
  BY DEF Sane, IsHandle
<1>2. PICK f : /\ IsInsert(f, h0, k, v, Path(h0, k, FALSE), 0)
               /\ InsertDescend(h0, k, v) = f[0]
  BY <1>1, InsertDescends
<1>3. Rooted(h0, f[0].h)
  BY <1>1, <1>2, InsertCallsFrom
<1> QED
  BY <1>2, <1>3

StepDown(h0, k, a) ==
    IF IsSurface(Page(h0, a)) THEN a ELSE Page(h0, a).kids[SlotOf(Page(h0, a), k, FALSE)]

IsPath(f, h0, k, n) ==
    f = [i \in 0..n |-> IF i = 0 THEN h0.root ELSE StepDown(h0, k, f[i - 1])]

LEMMA PathExists ==
    ASSUME NEW h0, NEW k, NEW N \in Nat
    PROVE  \E f : IsPath(f, h0, k, N)
<1> DEFINE Bad == {n \in Nat : ~\E f : IsPath(f, h0, k, n)}
<1> SUFFICES ASSUME Bad # {} PROVE FALSE
  OBVIOUS
<1>1. PICK n \in Bad : \A m \in Bad : n <= m
  <2>1. Bad \in SUBSET Nat
    OBVIOUS
  <2> HIDE DEF Bad
  <2> QED
    BY <2>1, FirstOne
<1>2. CASE n = 0
  <2>1. IsPath([i \in 0..0 |-> h0.root], h0, k, 0)
    BY DEF IsPath
  <2> QED
    BY <1>2, <2>1
<1>3. CASE n # 0
  <2>1. PICK g : IsPath(g, h0, k, n - 1)
    BY <1>1, <1>3
  <2>2. PICK q : q = StepDown(h0, k, g[n - 1])
    OBVIOUS
  <2> DEFINE f == [i \in 0..n |-> IF i = n THEN q ELSE g[i]]
  <2>3. ASSUME NEW i \in 0..n
        PROVE  f[i] = IF i = 0 THEN h0.root ELSE StepDown(h0, k, f[i - 1])
    <3>1. CASE i = 0
      BY <1>3, <2>1, <3>1 DEF IsPath
    <3>2. CASE i # 0 /\ i < n
      <4>1. /\ i \in 0..(n - 1) /\ i - 1 \in 0..(n - 1) /\ i - 1 \in 0..n /\ i - 1 # n
            /\ i # n
        BY <3>2
      <4>2. f[i] = g[i] /\ f[i - 1] = g[i - 1]
        BY <4>1
      <4>3. g[i] = StepDown(h0, k, g[i - 1])
        BY <2>1, <3>2, <4>1 DEF IsPath
      <4> QED
        BY <3>2, <4>2, <4>3
    <3>3. CASE i # 0 /\ i = n
      <4>1. n - 1 \in 0..n /\ n - 1 # n
        BY <1>3
      <4>2. f[n] = q /\ f[n - 1] = g[n - 1]
        BY <4>1
      <4> QED
        BY <2>2, <3>3, <4>2
    <3> QED
      BY <3>1, <3>2, <3>3
  <2>4. IsPath(f, h0, k, n)
    BY <2>3 DEF IsPath
  <2> QED
    BY <2>4
<1> QED
  BY <1>2, <1>3

LEMMA PathStarts ==
    ASSUME NEW h0, NEW k, h0.next \in Nat
    PROVE  Path(h0, k, FALSE)[0] = h0.root
<1>1. \E f : IsPath(f, h0, k, h0.next)
  BY PathExists
<1>2. Path(h0, k, FALSE) = CHOOSE f : IsPath(f, h0, k, h0.next)
  BY DEF Path, IsPath, StepDown
<1>3. PICK path : path = Path(h0, k, FALSE)
  OBVIOUS
<1>4. IsPath(path, h0, k, h0.next)
  BY <1>1, <1>2, <1>3
<1>5. 0 \in 0..h0.next
  OBVIOUS
<1>6. path[0] = h0.root
  BY <1>4, <1>5 DEF IsPath
<1> QED
  BY <1>3, <1>6

EmptyLeaf == [level |-> 0, keys |-> <<>>, vals |-> <<>>, prev |-> NULL_REF, next |-> NULL_REF]

\* The first key of a tree is a new one.
LEMMA FirstIsNew ==
    ASSUME NEW h0, NEW k \in Int, NEW v, Sane(h0), Page(h0, h0.root) = EmptyLeaf
    PROVE  InsertDescend(h0, k, v).isNew = TRUE
<1>1. h0.next \in Nat /\ 0 \in 0..h0.next
  BY DEF Sane, IsHandle
<1>2. PICK f : /\ IsInsert(f, h0, k, v, Path(h0, k, FALSE), 0)
               /\ InsertDescend(h0, k, v) = f[0]
  BY <1>1, InsertDescends
<1>3. PICK path : path = Path(h0, k, FALSE) /\ path[0] = h0.root
  BY <1>1, PathStarts
<1>4. f[0] = InsertCall(h0, k, v, path, 0, f[0 + 1])
  BY <1>1, <1>2, <1>3 DEF IsInsert
<1>5. PICK at : at = SlotOf(EmptyLeaf, k, FALSE)
  OBVIOUS
<1>6. f[0] = InsertLeaf(h0, h0.root, EmptyLeaf, at, k, v)
  BY <1>3, <1>4, <1>5 DEF InsertCall, IsSurface, EmptyLeaf
<1>7. at = 1
  <2>1. at = FindLower(<<>>, k, 0)
    BY <1>5 DEF SlotOf, EmptyLeaf
  <2>2. Sorted(<<>>)
    BY DEF Sorted
  <2>3. FindLower(<<>>, k, 0) \in 1..(Len(<<>>) + 1)
    BY <2>2, FindLowerFinds
  <2> QED
    BY <2>1, <2>3
<1>8. Len(EmptyLeaf.keys) = 0 /\ ~IsFull(EmptyLeaf)
  BY SlotsAssumption DEF EmptyLeaf, IsFull, IsSurface
<1>9. InsertLeaf(h0, h0.root, EmptyLeaf, at, k, v) =
          Inserted(PutAt(h0, h0.root, at, k, v), TRUE, NULL_REF, NoKey)
  BY <1>7, <1>8 DEF InsertLeaf
<1> QED
  BY <1>2, <1>6, <1>9 DEF Inserted

\* Handle e is handle h0 after an insertion or an erasure: something is to be
\* saved, and the tree is not empty.
After(h0, e) ==
    /\ Sane(e) /\ e.modified # {}
    /\ e.blocks = h0.blocks /\ e.start = h0.start
    /\ e.root # NULL_REF /\ e.size # 0

\* All but size is from g, and size is another number.
LEMMA SetSize ==
    ASSUME NEW f, NEW g, NEW n \in Nat, From(f, g)
    PROVE  LET e == [g EXCEPT !.size = n]
           IN  /\ Sane(e) /\ e.modified # {} /\ e.blocks = f.blocks /\ e.start = f.start
               /\ e.root = g.root /\ e.size = n
<1> DEFINE e == [g EXCEPT !.size = n]
<1>1. /\ e.mem = g.mem /\ e.modified = g.modified /\ e.blocks = g.blocks /\ e.start = g.start
      /\ e.size = n /\ e.root = g.root /\ e.next = g.next /\ DOMAIN e = DOMAIN g
  BY DEF From, Sane, IsHandle
<1> HIDE DEF e
<1>2. Sane(e)
  BY <1>1 DEF From, Sane, IsHandle, Careful
<1>3. e.modified # {} /\ e.blocks = f.blocks /\ e.start = f.start
  BY <1>1 DEF From
<1> QED
  BY <1>1, <1>2, <1>3 DEF e

LEMMA GrowAfter ==
    ASSUME NEW g, NEW r, Sane(g), Rooted(g, r.h), g.root # NULL_REF,
           r.isNew = TRUE \/ g.size # 0
    PROVE  After(g, Grow(r, g.root))
<1>1. PICK up : up = [level |-> Page(r.h, g.root).level + 1, keys |-> <<r.key>>,
                      kids |-> <<g.root, r.split>>]
  OBVIOUS
<1>2. PICK t : t = IF r.split = NULL_REF THEN r.h ELSE [Create(r.h, up) EXCEPT !.root = r.h.next]
  OBVIOUS
<1>3. From(g, t) /\ t.root # NULL_REF
  <2>1. CASE r.split = NULL_REF
    BY <1>2, <2>1 DEF Rooted
  <2>2. CASE r.split # NULL_REF
    <3>1. PICK c, x : c = Create(r.h, up) /\ x = r.h.next
      OBVIOUS
    <3>2. Rooted(r.h, c)
      BY <3>1, CreateFrom DEF Rooted, From
    <3>3. From(g, c)
      BY <3>2, FromTwice DEF Rooted
    <3>4. t = [c EXCEPT !.root = x]
      BY <1>2, <2>2, <3>1
    <3>5. From(g, t) /\ t.root = x
      BY <3>3, <3>4, SetRoot
    <3>6. x # NULL_REF
      BY <3>1 DEF Rooted, From, Sane, IsHandle, NULL_REF
    <3> QED
      BY <3>5, <3>6
  <2> QED
    BY <2>1, <2>2
<1>4. PICK n : n = IF r.isNew THEN t.size + 1 ELSE t.size
  OBVIOUS
<1>5. Grow(r, g.root) = [t EXCEPT !.size = n]
  BY <1>1, <1>2, <1>4 DEF Grow
<1>6. t.size = g.size /\ g.size \in Nat
  BY <1>3 DEF From, Sane, IsHandle
<1>7. n \in Nat /\ n # 0
  BY <1>4, <1>6
<1> QED
  BY <1>3, <1>5, <1>7, SetSize DEF After

LEMMA InsertAfter ==
    ASSUME NEW h0, NEW k \in Int, NEW v, Sane(h0), h0.root # NULL_REF => h0.size # 0
    PROVE  After(h0, Insert(h0, k, v))
<1>1. CASE h0.root # NULL_REF
  <2>1. PICK r : r = InsertDescend(h0, k, v)
    OBVIOUS
  <2>2. Insert(h0, k, v) = Grow(r, h0.root)
    BY <1>1, <2>1 DEF Insert
  <2>3. Rooted(h0, r.h)
    BY <2>1, InsertDescendFrom
  <2> QED
    BY <1>1, <2>2, <2>3, GrowAfter
<1>2. CASE h0.root = NULL_REF
  <2>1. PICK c, x : c = Create(h0, EmptyLeaf) /\ x = h0.next
    OBVIOUS
  <2>2. PICK g : g = [c EXCEPT !.root = x, !.head = x, !.last = x]
    OBVIOUS
  <2>3. PICK r : r = InsertDescend(g, k, v)
    OBVIOUS
  <2>4. Insert(h0, k, v) = Grow(r, g.root)
    BY <1>2, <2>1, <2>2, <2>3 DEF Insert, EmptyLeaf
  <2>5. Rooted(h0, c)
    BY <2>1, CreateFrom
  <2>6. From(h0, g) /\ g.root = x
    <3>1. From(h0, c)
      BY <2>5 DEF Rooted
    <3>2. g = WithEnds(c, x, x, x)
      BY <2>2 DEF WithEnds
    <3> QED
      BY <3>1, <3>2, SetEnds
  <2>7. Sane(g) /\ x # NULL_REF
    BY <2>1, <2>6 DEF From, Sane, IsHandle, NULL_REF
  <2>8. Page(g, g.root) = EmptyLeaf
    <3>1. x \in DOMAIN c.mem /\ c.mem[x] = [page |-> EmptyLeaf, s |-> "created"]
      BY <2>1 DEF Create, Sane, IsHandle
    <3>2. g.mem = c.mem
      BY <2>2, <2>5 DEF Rooted, From, Sane, IsHandle
    <3> QED
      BY <2>6, <3>1, <3>2 DEF Page
  <2>9. Rooted(g, r.h) /\ r.isNew = TRUE
    BY <2>3, <2>7, <2>8, InsertDescendFrom, FirstIsNew
  <2>10. After(g, Grow(r, g.root))
    BY <2>6, <2>7, <2>9, GrowAfter
  <2> QED
    BY <2>4, <2>6, <2>10 DEF After, From
<1> QED
  BY <1>1, <1>2

-----------------------------------------------------------------------------
(* Erasure                                                                 *)

LEMMA ChangeAgain ==
    ASSUME NEW f, NEW g, NEW a, NEW p, Rooted(f, g)
    PROVE  Rooted(f, Change(g, a, p))
<1>1. Rooted(g, Change(g, a, p))
  BY ChangeFrom DEF Rooted, From
<1> QED
  BY <1>1, RootedTwice

LEMMA ChangeMore ==
    ASSUME NEW f, NEW g, NEW a, NEW p, From(f, g)
    PROVE  From(f, Change(g, a, p))
<1>1. From(g, Change(g, a, p))
  BY ChangeFrom DEF Rooted, From
<1> QED
  BY <1>1, FromTwice

LEMMA TwoChanges ==
    ASSUME NEW f, NEW a, NEW p, NEW b, NEW q, Sane(f)
    PROVE  Rooted(f, Change(Change(f, a, p), b, q))
BY ChangeFrom, ChangeAgain

LEMMA SetKeyAgain ==
    ASSUME NEW f, NEW g, NEW a, NEW slot, NEW k, Rooted(f, g)
    PROVE  Rooted(f, SetKey(g, a, slot, k))
BY ChangeAgain DEF SetKey

LEMMA SetKeyMore ==
    ASSUME NEW f, NEW g, NEW a, NEW slot, NEW k, From(f, g)
    PROVE  From(f, SetKey(g, a, slot, k))
BY ChangeMore DEF SetKey

LEMMA MergeLeavesFrom ==
    ASSUME NEW h0, NEW left, NEW right, Sane(h0)
    PROVE  Rooted(h0, MergeLeaves(h0, left, right).h)
<1> DEFINE l == Page(h0, left)
           r == Page(h0, right)
           p == [l EXCEPT !.keys = @ \o r.keys, !.vals = @ \o r.vals, !.next = r.next]
           q == [r EXCEPT !.keys = <<>>, !.vals = <<>>]
           g == Change(Change(h0, left, p), right, q)
           back == [Page(g, r.next) EXCEPT !.prev = left]
<1>1. MergeLeaves(h0, left, right).h = IF r.next = NULL_REF THEN [g EXCEPT !.last = left]
                                       ELSE Change(g, r.next, back)
  BY DEF MergeLeaves, Result
<1> HIDE DEF l, r, p, q
<1>2. Rooted(h0, g)
  BY TwoChanges
<1> HIDE DEF g, back
<1>3. Rooted(h0, [g EXCEPT !.last = left])
  BY <1>2, SetLast
<1>4. Rooted(h0, Change(g, r.next, back))
  BY <1>2, ChangeAgain
<1> QED
  BY <1>1, <1>3, <1>4

LEMMA MergeInteriorFrom ==
    ASSUME NEW h0, NEW left, NEW right, NEW parent, NEW slot, Sane(h0)
    PROVE  Rooted(h0, MergeInterior(h0, left, right, parent, slot).h)
<1> DEFINE l == Page(h0, left)
           r == Page(h0, right)
           p == [l EXCEPT !.keys = Append(@, Page(h0, parent).keys[slot]) \o r.keys,
                          !.kids = @ \o r.kids]
           q == [r EXCEPT !.keys = <<>>, !.kids = SubSeq(@, 1, 1)]
<1>1. MergeInterior(h0, left, right, parent, slot).h = Change(Change(h0, left, p), right, q)
  BY DEF MergeInterior, Result
<1> HIDE DEF p, q
<1> QED
  BY <1>1, TwoChanges

LEMMA ShiftLeftSurfaceFrom ==
    ASSUME NEW h0, NEW left, NEW right, NEW parent, NEW slot, Sane(h0)
    PROVE  Rooted(h0, ShiftLeftSurface(h0, left, right, parent, slot).h)
<1> DEFINE l == Page(h0, left)
           r == Page(h0, right)
           n == (Len(r.keys) - Len(l.keys)) \div 2
           p == [l EXCEPT !.keys = @ \o SubSeq(r.keys, 1, n), !.vals = @ \o SubSeq(r.vals, 1, n)]
           q == [r EXCEPT !.keys = SubSeq(@, n + 1, Len(@)), !.vals = SubSeq(@, n + 1, Len(@))]
           g == Change(Change(h0, left, p), right, q)
           up == Last(Page(g, left).keys)
<1>1. ShiftLeftSurface(h0, left, right, parent, slot).h =
          IF slot <= Occupants(g, parent) THEN SetKey(g, parent, slot, up)
          ELSE Change(g, parent, Page(g, parent))
  BY DEF ShiftLeftSurface, Result
<1> HIDE DEF l, r, n, p, q
<1>2. Rooted(h0, g)
  BY TwoChanges
<1> HIDE DEF g, up
<1>3. Rooted(h0, SetKey(g, parent, slot, up))
  BY <1>2, SetKeyAgain
<1>4. Rooted(h0, Change(g, parent, Page(g, parent)))
  BY <1>2, ChangeAgain
<1> QED
  BY <1>1, <1>3, <1>4

LEMMA ShiftRightSurfaceFrom ==
    ASSUME NEW h0, NEW left, NEW right, NEW parent, NEW slot, Sane(h0)
    PROVE  Rooted(h0, ShiftRightSurface(h0, left, right, parent, slot).h)
<1> DEFINE l == Page(h0, left)
           r == Page(h0, right)
           n == (Len(l.keys) - Len(r.keys)) \div 2
           keep == Len(l.keys) - n
           p == [r EXCEPT !.keys = SubSeq(l.keys, keep + 1, Len(l.keys)) \o @,
                          !.vals = SubSeq(l.vals, keep + 1, Len(l.vals)) \o @]
           q == [l EXCEPT !.keys = SubSeq(@, 1, keep), !.vals = SubSeq(@, 1, keep)]
           g == Change(Change(h0, right, p), left, q)
<1>1. ShiftRightSurface(h0, left, right, parent, slot).h = SetKey(g, parent, slot, l.keys[keep])
  BY DEF ShiftRightSurface, Result
<1> HIDE DEF p, q
<1>2. Rooted(h0, g)
  BY TwoChanges
<1> HIDE DEF g
<1> QED
  BY <1>1, <1>2, SetKeyAgain

LEMMA ShiftLeftInteriorFrom ==
    ASSUME NEW h0, NEW left, NEW right, NEW parent, NEW slot, Sane(h0)
    PROVE  Rooted(h0, ShiftLeftInterior(h0, left, right, parent, slot).h)
<1> DEFINE l == Page(h0, left)
           r == Page(h0, right)
           n == (Len(r.keys) - Len(l.keys)) \div 2
           p == [l EXCEPT !.keys = Append(@, Page(h0, parent).keys[slot]) \o SubSeq(r.keys, 1, n - 1),
                          !.kids = @ \o SubSeq(r.kids, 1, n)]
           q == [r EXCEPT !.keys = SubSeq(@, n + 1, Len(@)), !.kids = SubSeq(@, n + 1, Len(@))]
           g == Change(Change(h0, left, p), right, q)
<1>1. ShiftLeftInterior(h0, left, right, parent, slot).h = SetKey(g, parent, slot, r.keys[n])
  BY DEF ShiftLeftInterior, Result
<1> HIDE DEF p, q
<1>2. Rooted(h0, g)
  BY TwoChanges
<1> HIDE DEF g
<1> QED
  BY <1>1, <1>2, SetKeyAgain

LEMMA ShiftRightInteriorFrom ==
    ASSUME NEW h0, NEW left, NEW right, NEW parent, NEW slot, Sane(h0)
    PROVE  Rooted(h0, ShiftRightInterior(h0, left, right, parent, slot).h)
<1> DEFINE l == Page(h0, left)
           r == Page(h0, right)
           n == (Len(l.keys) - Len(r.keys)) \div 2
           keep == Len(l.keys) - n
           p == [r EXCEPT !.keys = Append(SubSeq(l.keys, keep + 2, Len(l.keys)),
                                          Page(h0, parent).keys[slot]) \o @,
                          !.kids = SubSeq(l.kids, keep + 2, Len(l.kids)) \o @]
           q == [l EXCEPT !.keys = SubSeq(@, 1, keep), !.kids = SubSeq(@, 1, keep + 1)]
           g == Change(Change(h0, right, p), left, q)
<1>1. ShiftRightInterior(h0, left, right, parent, slot).h =
          SetKey(g, parent, slot, l.keys[keep + 1])
  BY DEF ShiftRightInterior, Result
<1> HIDE DEF p, q
<1>2. Rooted(h0, g)
  BY TwoChanges
<1> HIDE DEF g
<1> QED
  BY <1>1, <1>2, SetKeyAgain

\* The three ways to balance a page with its neighbour.
LEMMA MovesFrom ==
    ASSUME NEW h0, NEW left, NEW right, NEW parent, NEW slot, Sane(h0)
    PROVE  /\ Rooted(h0, Merge(h0, left, right, parent, slot).h)
           /\ Rooted(h0, ShiftLeft(h0, left, right, parent, slot).h)
           /\ Rooted(h0, ShiftRight(h0, left, right, parent, slot).h)
<1>1. Rooted(h0, Merge(h0, left, right, parent, slot).h)
  BY MergeLeavesFrom, MergeInteriorFrom DEF Merge
<1>2. Rooted(h0, ShiftLeft(h0, left, right, parent, slot).h)
  BY ShiftLeftSurfaceFrom, ShiftLeftInteriorFrom DEF ShiftLeft
<1>3. Rooted(h0, ShiftRight(h0, left, right, parent, slot).h)
  BY ShiftRightSurfaceFrom, ShiftRightInteriorFrom DEF ShiftRight
<1> QED
  BY <1>1, <1>2, <1>3

LEMMA BalanceFrom ==
    ASSUME NEW h0, NEW a, NEW c, Sane(h0)
    PROVE  Rooted(h0, Balance(h0, a, c).h)
<1>1. PICK mergeLeft, mergeRight, fromRight, fromLeft :
          /\ mergeLeft = Merge(h0, c.left, a, c.lparent, c.slot - 1)
          /\ mergeRight = Merge(h0, a, c.right, c.rparent, c.slot)
          /\ fromRight = ShiftLeft(h0, a, c.right, c.rparent, c.slot)
          /\ fromLeft = ShiftRight(h0, c.left, a, c.lparent, c.slot - 1)
  OBVIOUS
<1>2. /\ Rooted(h0, mergeLeft.h) /\ Rooted(h0, mergeRight.h)
      /\ Rooted(h0, fromRight.h) /\ Rooted(h0, fromLeft.h)
  BY <1>1, MovesFrom
<1>3. \/ Balance(h0, a, c) = mergeLeft \/ Balance(h0, a, c) = mergeRight
      \/ Balance(h0, a, c) = fromRight \/ Balance(h0, a, c) = fromLeft
  BY <1>1 DEF Balance
<1> QED
  BY <1>2, <1>3

Updated(f, u) == \E e, key : u = Result(e, key, FALSE) /\ From(f, e)

LEMMA UpdateLastKeyFrom ==
    ASSUME NEW f, NEW g, NEW k, NEW c, From(f, g)
    PROVE  Updated(f, UpdateLastKey(g, k, c))
<1> USE DEF Updated
<1>1. From(f, SetKey(g, c.parent, c.slot, k))
  BY SetKeyMore
<1>2. CASE c.parent # NULL_REF /\ c.slot <= Occupants(g, c.parent)
  <2>1. UpdateLastKey(g, k, c) = Result(SetKey(g, c.parent, c.slot, k), NoKey, FALSE)
    BY <1>2 DEF UpdateLastKey
  <2> QED
    BY <1>1, <2>1
<1>3. CASE ~(c.parent # NULL_REF /\ c.slot <= Occupants(g, c.parent))
  <2>1. UpdateLastKey(g, k, c) = Result(g, k, FALSE)
    BY <1>3 DEF UpdateLastKey
  <2> QED
    BY <2>1
<1> QED
  BY <1>2, <1>3

LEMMA SettleFrom ==
    ASSUME NEW f, NEW r, NEW a, NEW c, From(f, r.h)
    PROVE  From(f, Settle(r, a, c).h)
<1> DEFINE p == Page(r.h, a)
           asIs == ~IsUnderflow(p) \/ (a = r.h.root /\ p.keys # <<>>)
           alone == c.left = NULL_REF /\ c.right = NULL_REF
<1>1. CASE asIs
  BY <1>1 DEF Settle
<1>2. CASE ~asIs /\ alone /\ IsSurface(p)
  <2>1. Settle(r, a, c).h = WithEnds(r.h, NULL_REF, NULL_REF, NULL_REF)
    BY <1>2 DEF Settle, Result, WithEnds
  <2> QED
    BY <2>1, SetEnds
<1>3. CASE ~asIs /\ alone /\ ~IsSurface(p)
  <2>1. PICK g, x : g = Change(r.h, a, p) /\ x = p.kids[1]
    OBVIOUS
  <2>2. Settle(r, a, c).h = [g EXCEPT !.root = x]
    BY <1>3, <2>1 DEF Settle, Result
  <2>3. From(f, g)
    BY <2>1, ChangeMore
  <2> QED
    BY <2>2, <2>3, SetRoot
<1>4. CASE ~asIs /\ ~alone
  <2>1. Settle(r, a, c).h = Balance(r.h, a, c).h
    BY <1>4 DEF Settle, Result
  <2>2. Rooted(r.h, Balance(r.h, a, c).h)
    BY BalanceFrom DEF From
  <2> QED
    BY <2>1, <2>2, FromTwice DEF Rooted
<1> QED
  BY <1>1, <1>2, <1>3, <1>4

LEMMA FixMergeFrom ==
    ASSUME NEW f, NEW g, NEW a, NEW slot, From(f, g)
    PROVE  From(f, FixMerge(g, a, slot))
<1>1. \E q : FixMerge(g, a, slot) = Change(g, a, q)
  <2> DEFINE p == Page(g, a)
             i == IF Occupants(g, p.kids[slot]) # 0 THEN slot + 1 ELSE slot
             q == [p EXCEPT !.keys = RemoveAt(@, i - 1), !.kids = RemoveAt(@, i)]
             q2 == [q EXCEPT !.keys[i - 1] = Last(Page(g, q.kids[i - 1]).keys)]
  <2>1. FixMerge(g, a, slot) = IF p.level = 1 /\ i - 1 <= Len(q.keys)
                               THEN Change(g, a, q2) ELSE Change(g, a, q)
    BY DEF FixMerge
  <2> HIDE DEF p, i, q, q2
  <2> QED
    BY <2>1
<1> QED
  BY <1>1, ChangeMore

LEMMA EraseLeafFrom ==
    ASSUME NEW h0, NEW a, NEW p, NEW slot, NEW c, Sane(h0)
    PROVE  From(h0, EraseLeaf(h0, a, p, slot, c).h)
<1>1. PICK q : q = [p EXCEPT !.keys = RemoveAt(@, slot), !.vals = RemoveAt(@, slot)]
  OBVIOUS
<1>2. PICK g : g = Change(h0, a, q)
  OBVIOUS
<1>3. From(h0, g)
  BY <1>2, ChangeFrom DEF Rooted
<1>4. PICK r : r = IF slot = Len(q.keys) + 1 /\ q.keys # <<>>
                   THEN UpdateLastKey(g, Last(q.keys), c) ELSE Result(g, NoKey, FALSE)
  OBVIOUS
<1>5. From(h0, r.h)
  BY <1>3, <1>4, UpdateLastKeyFrom DEF Updated, Result
<1>6. EraseLeaf(h0, a, p, slot, c) = Settle(r, a, c)
  BY <1>1, <1>2, <1>4 DEF EraseLeaf
<1> QED
  BY <1>5, <1>6, SettleFrom

LEMMA EraseKidFrom ==
    ASSUME NEW h0, NEW r, NEW a, NEW slot, NEW c, From(h0, r.h)
    PROVE  From(h0, EraseKid(r, a, slot, c).h)
<1>1. PICK u : u = IF r.lastkey = NoKey THEN Result(r.h, NoKey, FALSE)
                   ELSE UpdateLastKey(r.h, r.lastkey, c)
  OBVIOUS
<1>2. Updated(h0, u)
  <2>1. CASE r.lastkey = NoKey
    <3>1. u = Result(r.h, NoKey, FALSE)
      BY <1>1, <2>1
    <3> QED
      BY <3>1, Zenon DEF Updated
  <2>2. CASE r.lastkey # NoKey
    <3>1. u = UpdateLastKey(r.h, r.lastkey, c)
      BY <1>1, <2>2
    <3> QED
      BY <3>1, UpdateLastKeyFrom
  <2> QED
    BY <2>1, <2>2
<1>3. PICK e, key : u = Result(e, key, FALSE) /\ From(h0, e)
  BY <1>2 DEF Updated
<1>4. PICK w : w = IF r.merged THEN [u EXCEPT !.h = FixMerge(@, a, slot)] ELSE u
  OBVIOUS
<1>5. w.h = FixMerge(e, a, slot) \/ w.h = e
  BY <1>3, <1>4 DEF Result
<1>6. From(h0, w.h)
  BY <1>3, <1>5, FixMergeFrom
<1>7. EraseKid(r, a, slot, c) = Settle(w, a, c)
  BY <1>1, <1>4 DEF EraseKid
<1> QED
  BY <1>6, <1>7, SettleFrom

\* What the call of erase_one_descend at depth i returns, if the one below it
\* returned r; the same with the whole recursion from depth m down.
EraseCall(h0, k, path, context, i, r) ==
    IF i = h0.next \/ IsSurface(Page(h0, path[i]))
    THEN EraseLeaf(h0, path[i], Page(h0, path[i]), SlotOf(Page(h0, path[i]), k, FALSE), context[i])
    ELSE EraseKid(r, path[i], SlotOf(Page(h0, path[i]), k, FALSE), context[i])

IsErase(f, h0, k, path, context, m) ==
    f = [i \in m..h0.next |-> EraseCall(h0, k, path, context, i, f[i + 1])]

LEMMA EraseExists ==
    ASSUME NEW h0, NEW k, NEW path, NEW context, h0.next \in Nat
    PROVE  \E f : IsErase(f, h0, k, path, context, 0)
<1> DEFINE N == h0.next
           Bad == {n \in 0..N : ~\E f : IsErase(f, h0, k, path, context, N - n)}
<1>0. N - N = 0 /\ N \in 0..N
  OBVIOUS
<1> SUFFICES ASSUME Bad # {} PROVE FALSE
  BY <1>0
<1>1. PICK n \in Bad : \A m \in Bad : n <= m
  <2>1. Bad \in SUBSET Nat
    OBVIOUS
  <2> HIDE DEF Bad
  <2> QED
    BY <2>1, FirstOne
<1>2. n \in 0..N /\ N \in Nat
  OBVIOUS
<1>3. CASE n = 0
  <2>1. PICK q : q = EraseCall(h0, k, path, context, N, 0)
    OBVIOUS
  <2> DEFINE f == [i \in N..N |-> q]
  <2>2. ASSUME NEW i \in N..N
        PROVE  f[i] = EraseCall(h0, k, path, context, i, f[i + 1])
    <3>1. i = N
      BY <1>2
    <3> QED
      BY <2>1, <3>1 DEF EraseCall
  <2>3. IsErase(f, h0, k, path, context, N)
    BY <2>2 DEF IsErase
  <2>4. N - n = N
    BY <1>2, <1>3
  <2> QED
    BY <2>3, <2>4
<1>4. CASE n # 0
  <2> DEFINE m == N - n
  <2>0. m \in Nat /\ m < N /\ N - (n - 1) = m + 1 /\ n - 1 \in 0..N /\ ~(n <= n - 1)
    BY <1>2, <1>4
  <2>1. PICK g : IsErase(g, h0, k, path, context, m + 1)
    BY <1>1, <2>0
  <2>2. PICK q : q = EraseCall(h0, k, path, context, m, g[m + 1])
    OBVIOUS
  <2> HIDE DEF m
  <2> DEFINE f == [i \in m..N |-> IF i = m THEN q ELSE g[i]]
  <2>3. ASSUME NEW i \in m..N
        PROVE  f[i] = EraseCall(h0, k, path, context, i, f[i + 1])
    <3>1. CASE i = m
      <4>1. m + 1 \in m..N /\ m + 1 # m /\ m \in m..N
        BY <1>2, <2>0
      <4>2. f[m] = q /\ f[m + 1] = g[m + 1]
        BY <4>1
      <4> QED
        BY <2>2, <3>1, <4>2
    <3>2. CASE i # m /\ i < N
      <4>1. i \in (m + 1)..N /\ i + 1 \in (m + 1)..N /\ i + 1 \in m..N /\ i + 1 # m
        BY <1>2, <2>0, <3>2
      <4>2. f[i] = g[i] /\ f[i + 1] = g[i + 1]
        BY <3>2, <4>1
      <4>3. g[i] = EraseCall(h0, k, path, context, i, g[i + 1])
        BY <2>1, <4>1 DEF IsErase
      <4> QED
        BY <4>2, <4>3
    <3>3. CASE i # m /\ i = N
      <4>1. i \in (m + 1)..N
        BY <1>2, <2>0, <3>3
      <4>2. f[i] = g[i]
        BY <3>3
      <4>3. g[i] = EraseCall(h0, k, path, context, i, g[i + 1])
        BY <2>1, <3>3, <4>1 DEF IsErase
      <4>4. EraseCall(h0, k, path, context, i, g[i + 1]) = EraseCall(h0, k, path, context, i, f[i + 1])
        BY <3>3 DEF EraseCall
      <4> QED
        BY <3>3, <4>2, <4>3, <4>4
    <3> QED
      BY <1>2, <2>0, <3>1, <3>2, <3>3
  <2>4. IsErase(f, h0, k, path, context, m)
    BY <2>3 DEF IsErase
  <2> QED
    BY <2>4 DEF m
<1> QED
  BY <1>3, <1>4

LEMMA EraseCallsFrom ==
    ASSUME NEW h0, NEW k, NEW path, NEW context, NEW f, Sane(h0), IsErase(f, h0, k, path, context, 0)
    PROVE  \A i \in 0..h0.next : From(h0, f[i].h)
<1> DEFINE N == h0.next
           Bad == {n \in 0..N : ~From(h0, f[N - n].h)}
<1>0. N \in Nat
  BY DEF Sane, IsHandle
<1>1. SUFFICES ASSUME Bad # {} PROVE FALSE
  <2> SUFFICES ASSUME NEW i \in 0..N, Bad = {} PROVE From(h0, f[i].h)
    BY <1>1
  <2>1. N - i \in 0..N /\ N - (N - i) = i
    BY <1>0
  <2> QED
    BY <2>1
<1>2. PICK n \in Bad : \A m \in Bad : n <= m
  <2>1. Bad \in SUBSET Nat
    BY <1>0
  <2> HIDE DEF Bad
  <2> QED
    BY <1>1, <2>1, FirstOne
<1>3. n \in 0..N /\ ~From(h0, f[N - n].h)
  OBVIOUS
<1> DEFINE m == N - n
<1>4. f[m] = EraseCall(h0, k, path, context, m, f[m + 1])
  <2>1. m \in 0..N
    BY <1>0, <1>3
  <2> HIDE DEF m
  <2> QED
    BY <2>1 DEF IsErase
<1>5. CASE m = N \/ IsSurface(Page(h0, path[m]))
  <2>1. f[m] = EraseLeaf(h0, path[m], Page(h0, path[m]), SlotOf(Page(h0, path[m]), k, FALSE), context[m])
    BY <1>4, <1>5 DEF EraseCall
  <2> HIDE DEF m
  <2>2. From(h0, f[m].h)
    BY <2>1, EraseLeafFrom
  <2> QED
    BY <1>3, <2>2 DEF m
<1>6. CASE ~(m = N \/ IsSurface(Page(h0, path[m])))
  <2>1. f[m] = EraseKid(f[m + 1], path[m], SlotOf(Page(h0, path[m]), k, FALSE), context[m])
    BY <1>4, <1>6 DEF EraseCall
  <2>2. n # 0 /\ n - 1 \in 0..N /\ N - (n - 1) = m + 1 /\ ~(n <= n - 1)
    BY <1>0, <1>3, <1>6
  <2>3. From(h0, f[m + 1].h)
    BY <1>2, <2>2
  <2> HIDE DEF m
  <2>4. From(h0, f[m].h)
    BY <2>1, <2>3, EraseKidFrom
  <2> QED
    BY <1>3, <2>4 DEF m
<1> QED
  BY <1>5, <1>6

LEMMA EraseDescends ==
    ASSUME NEW h0, NEW k, h0.next \in Nat
    PROVE  \E f, path, context : /\ IsErase(f, h0, k, path, context, 0)
                                 /\ EraseDescend(h0, k) = f[0]
<1> DEFINE path == Path(h0, k, FALSE)
           context == Contexts(h0, k)
<1>1. \E f : IsErase(f, h0, k, path, context, 0)
  BY EraseExists
<1>2. EraseDescend(h0, k) = (CHOOSE f : IsErase(f, h0, k, path, context, 0))[0]
  BY DEF EraseDescend, IsErase, EraseCall
<1> QED
  BY <1>1, <1>2

\* erase_one_descend changes pages, and may put another one at the root.
LEMMA EraseDescendFrom ==
    ASSUME NEW h0, NEW k, Sane(h0)
    PROVE  From(h0, EraseDescend(h0, k).h)
<1>1. h0.next \in Nat /\ 0 \in 0..h0.next
  BY DEF Sane, IsHandle
<1>2. PICK f, path, context : /\ IsErase(f, h0, k, path, context, 0)
                              /\ EraseDescend(h0, k) = f[0]
  BY <1>1, EraseDescends
<1>3. From(h0, f[0].h)
  BY <1>1, <1>2, EraseCallsFrom
<1> QED
  BY <1>2, <1>3

LEMMA EraseAfter ==
    ASSUME NEW h0, NEW k, Sane(h0), h0.size # 0, ~IsEmpty(Erase(h0, k))
    PROVE  After(h0, Erase(h0, k))
<1>1. CASE h0.root = NULL_REF
  BY <1>1 DEF Erase, IsEmpty
<1>2. CASE h0.root # NULL_REF
  <2>1. PICK i, p : i = LowerBound(h0, k) /\ p = Page(h0, i.leaf)
    OBVIOUS
  <2>2. CASE i.slot > Len(p.keys) \/ p.keys[i.slot] # k
    <3>1. Erase(h0, k) = Change(h0, i.leaf, p)
      BY <1>2, <2>1, <2>2 DEF Erase
    <3>2. From(h0, Erase(h0, k))
      BY <3>1, ChangeFrom DEF Rooted
    <3> QED
      BY <3>2 DEF After, From, IsEmpty
  <2>3. CASE ~(i.slot > Len(p.keys) \/ p.keys[i.slot] # k)
    <3>1. PICK g : g = EraseDescend(h0, k).h
      OBVIOUS
    <3>2. From(h0, g)
      BY <3>1, EraseDescendFrom
    <3>3. PICK n : n = g.size - 1
      OBVIOUS
    <3>4. Erase(h0, k) = [g EXCEPT !.size = n]
      BY <1>2, <2>1, <2>3, <3>1, <3>3 DEF Erase
    <3>5. n \in Nat
      BY <3>2, <3>3 DEF From, Sane, IsHandle
    <3> QED
      BY <3>2, <3>4, <3>5, SetSize DEF After, IsEmpty
  <2> QED
    BY <2>2, <2>3
<1> QED
  BY <1>1, <1>2

-----------------------------------------------------------------------------
(* Saving and reloading                                                    *)

\* Boot values tell of no tree, or of one with keys.
BootOk(b) ==
    /\ b.boot.size \in Nat
    /\ b.boot.root = NULL_REF => b.boot.size = 0 /\ b.boot.last = NULL_REF
    /\ b.boot.root # NULL_REF => b.boot.size # 0

\* start tells the boot values in the blocks, but for the root, and while
\* nothing waits to be saved they are those of the handle.
BootNoted(g) ==
    /\ BootOk(g.blocks)
    /\ g.start.size = g.blocks.boot.size /\ g.start.last = g.blocks.boot.last
    /\ g.start.root # NULL_REF => g.blocks.boot.root # NULL_REF
    /\ g.modified = {} =>
        /\ g.size = g.start.size /\ g.last = g.start.last
        /\ g.root # g.start.root => g.blocks.boot.root = g.root

\* A handle without a root has nothing else either: then clear may do nothing.
Whole(g) ==
    /\ g.root = NULL_REF =>
        /\ g.size = 0 /\ g.last = NULL_REF /\ DOMAIN g.mem = {} /\ g.modified = {}
        /\ g.start.root = NULL_REF /\ g.start.size = 0 /\ g.start.last = NULL_REF
    /\ g.root # NULL_REF => g.size # 0

Good(g) == Sane(g) /\ Whole(g) /\ BootNoted(g)

LEMMA AfterGood ==
    ASSUME NEW g, NEW e, Good(g), After(g, e)
    PROVE  Good(e)
<1>1. Sane(e) /\ Whole(e)
  BY DEF After, Whole
<1>2. BootNoted(e)
  BY DEF Good, After, BootNoted
<1> QED
  BY <1>1, <1>2 DEF Good

LEMMA NewHandleIs ==
    ASSUME NEW b, NEW n \in Nat \ {0}, IsBlocks(b)
    PROVE  LET g == NewHandle(b, n)
           IN  /\ IsHandle(g) /\ Whole(g) /\ Careful(g)
               /\ g.root = NULL_REF /\ g.blocks = b /\ g.next = n
<1>1. PICK g : g = NewHandle(b, n)
  OBVIOUS
<1>2. /\ g.root = NULL_REF /\ g.last = NULL_REF /\ g.size = 0 /\ DOMAIN g.mem = {}
      /\ g.modified = {} /\ g.blocks = b /\ g.start = EmptyBlocks.boot /\ g.next = n
      /\ DOMAIN g = {"root", "head", "last", "size", "mem", "modified", "blocks", "start", "next"}
  BY <1>1 DEF NewHandle
<1>3. /\ DOMAIN g.start = BootFields
      /\ g.start.root = NULL_REF /\ g.start.size = 0 /\ g.start.last = NULL_REF
  BY <1>2 DEF EmptyBlocks, BootFields, NULL_REF
<1> QED
  BY <1>1, <1>2, <1>3 DEF IsHandle, Whole, Careful

LEMMA EmptyBlocksAre == IsBlocks(EmptyBlocks) /\ BootOk(EmptyBlocks)
BY DEF IsBlocks, BootOk, EmptyBlocks, BootFields, NULL_REF

LEMMA ClearIs ==
    ASSUME NEW g, IsHandle(g), Whole(g)
    PROVE  /\ IsHandle(Clear(g)) /\ Whole(Clear(g)) /\ Clear(g).root = NULL_REF
           /\ Clear(g).next = g.next
<1>1. CASE g.root = NULL_REF
  BY <1>1 DEF Clear
<1>2. CASE g.root # NULL_REF
  <2>1. PICK b, n : b = g.blocks /\ n = g.next
    OBVIOUS
  <2>2. IsBlocks(b) /\ n \in Nat \ {0}
    BY <2>1 DEF IsHandle
  <2>3. Clear(g) = NewHandle(b, n)
    BY <1>2, <2>1 DEF Clear
  <2> QED
    BY <2>1, <2>2, <2>3, NewHandleIs
<1> QED
  BY <1>1, <1>2

\* Handle f has the tree of the blocks b, and no page of it in memory.
Loads(f, b) ==
    /\ f.blocks = b /\ DOMAIN f.mem = {}
    /\ f.root = b.boot.root /\ f.size = b.boot.size /\ f.last = b.boot.last

LEMMA ReloadIs ==
    ASSUME NEW g, NEW b, IsHandle(g), Whole(g), IsBlocks(b), BootOk(b)
    PROVE  Good(Reload(g, b)) /\ Loads(Reload(g, b), b) /\ Reload(g, b).next = g.next
<1>1. PICK c : c = [Clear(g) EXCEPT !.blocks = b]
  OBVIOUS
<1>2. PICK e : e = Clear(g)
  OBVIOUS
<1>3. IsHandle(e) /\ Whole(e) /\ e.root = NULL_REF /\ e.next = g.next
  BY <1>2, ClearIs
<1>4. /\ c.blocks = b /\ c.root = NULL_REF /\ c.size = 0 /\ c.last = NULL_REF
      /\ DOMAIN c.mem = {} /\ c.modified = {} /\ c.next = g.next
      /\ c.start = e.start /\ DOMAIN c = DOMAIN e
  BY <1>1, <1>2, <1>3 DEF IsHandle, Whole
<1>5. PICK f : f = Reload(g, b)
  OBVIOUS
<1>6. CASE b.boot.root = NULL_REF
  <2>1. f = c
    BY <1>1, <1>5, <1>6 DEF Reload
  <2>2. IsHandle(f)
    BY <1>3, <1>4, <2>1 DEF IsHandle
  <2>3. Whole(f) /\ Careful(f) /\ Loads(f, b)
    BY <1>3, <1>4, <1>6, <2>1 DEF Whole, Careful, Loads, BootOk
  <2>4. BootNoted(f)
    BY <1>3, <1>4, <1>6, <2>1 DEF Whole, BootNoted, BootOk
  <2> QED
    BY <1>4, <1>5, <2>1, <2>2, <2>3, <2>4 DEF Good, Sane
<1>7. CASE b.boot.root # NULL_REF
  <2>1. f = [c EXCEPT !.root = b.boot.root, !.size = b.boot.size, !.head = b.boot.head,
                      !.last = b.boot.last, !.start = b.boot]
    BY <1>1, <1>5, <1>7 DEF Reload
  <2>2. /\ f.blocks = b /\ f.root = b.boot.root /\ f.size = b.boot.size /\ f.last = b.boot.last
        /\ f.mem = c.mem /\ f.modified = {} /\ f.next = g.next /\ f.start = b.boot
        /\ DOMAIN f = DOMAIN e
    BY <1>3, <1>4, <2>1 DEF IsHandle
  <2>3. IsHandle(f)
    BY <1>3, <2>2 DEF IsHandle, IsBlocks, BootOk
  <2>4. Whole(f) /\ Careful(f) /\ Loads(f, b)
    BY <1>4, <1>7, <2>2 DEF Whole, Careful, Loads, BootOk
  <2>5. BootNoted(f)
    BY <1>7, <2>2 DEF BootNoted, BootOk
  <2> QED
    BY <1>5, <2>2, <2>3, <2>4, <2>5 DEF Good, Sane
<1> QED
  BY <1>6, <1>7

LEMMA BootWritten ==
    ASSUME NEW e, IsHandle(e)
    PROVE  LET f == WriteBootValues(e)
           IN  /\ f.root = e.root /\ f.size = e.size /\ f.last = e.last /\ f.head = e.head
               /\ f.mem = e.mem /\ f.modified = e.modified /\ f.next = e.next
               /\ DOMAIN f = DOMAIN e
               /\ f.start.root = e.start.root /\ f.start.size = e.size /\ f.start.last = e.last
               /\ DOMAIN f.start = BootFields
               /\ IsBlocks(f.blocks) /\ f.blocks.page = e.blocks.page
               /\ f.blocks.boot.root = IF e.start.root # e.root THEN e.root ELSE e.blocks.boot.root
               /\ f.blocks.boot.size = IF e.start.size # e.size THEN e.size ELSE e.blocks.boot.size
               /\ f.blocks.boot.last = IF e.start.last # e.last THEN e.last ELSE e.blocks.boot.last
<1>1. PICK shead : shead = IF e.start.root # e.root THEN e.root ELSE e.start.head
  OBVIOUS
<1>2. PICK b : b = e.blocks.boot
  OBVIOUS
<1>3. PICK boot : boot = [b EXCEPT
                    !.root = IF e.start.root # e.root THEN e.root ELSE @,
                    !.size = IF e.start.size # e.size THEN e.size ELSE @,
                    !.head = IF shead # e.head THEN e.head ELSE @,
                    !.last = IF e.start.last # e.last THEN e.last ELSE @]
  OBVIOUS
<1>4. PICK start : start = [root |-> e.start.root, size |-> e.size, head |-> e.head, last |-> e.last]
  OBVIOUS
<1>5. PICK f : f = WriteBootValues(e)
  OBVIOUS
<1>6. f = [e EXCEPT !.blocks.boot = boot, !.start = start]
  BY <1>1, <1>2, <1>3, <1>4, <1>5 DEF WriteBootValues
<1>7. DOMAIN b = BootFields
  BY <1>2 DEF IsHandle, IsBlocks
<1>8. /\ DOMAIN boot = BootFields
      /\ boot.root = IF e.start.root # e.root THEN e.root ELSE b.root
      /\ boot.size = IF e.start.size # e.size THEN e.size ELSE b.size
      /\ boot.last = IF e.start.last # e.last THEN e.last ELSE b.last
  BY <1>3, <1>7 DEF BootFields
<1>9. /\ f.root = e.root /\ f.size = e.size /\ f.last = e.last /\ f.head = e.head
      /\ f.mem = e.mem /\ f.modified = e.modified /\ f.next = e.next
      /\ DOMAIN f = DOMAIN e /\ f.start = start
      /\ f.blocks.page = e.blocks.page /\ f.blocks.boot = boot /\ DOMAIN f.blocks = DOMAIN e.blocks
  BY <1>6 DEF IsHandle, IsBlocks
<1>10. /\ start.root = e.start.root /\ start.size = e.size /\ start.last = e.last
       /\ DOMAIN start = BootFields
  BY <1>4 DEF BootFields
<1>11. IsBlocks(f.blocks)
  BY <1>8, <1>9 DEF IsHandle, IsBlocks
<1> QED
  BY <1>2, <1>5, <1>8, <1>9, <1>10, <1>11

\* Handle f is handle g after a flush: its blocks have every page and value.
Saved(g, f) ==
    /\ IsHandle(f) /\ Whole(f) /\ BootNoted(f) /\ f.modified = {}
    /\ f.root = g.root /\ f.size = g.size /\ f.last = g.last /\ f.next = g.next
    /\ DOMAIN f.mem = DOMAIN g.mem
    /\ \A a \in Known(g) : a \in DOMAIN f.blocks.page /\ f.blocks.page[a] = Page(g, a)
    /\ f.blocks.boot.size = g.size /\ f.blocks.boot.last = g.last
    /\ ~StaleRoot(g) => f.blocks.boot.root = g.root

LEMMA FlushSaves ==
    ASSUME NEW g, Good(g)
    PROVE  Saved(g, Flush(g))
<1>1. PICK f : f = Flush(g)
  OBVIOUS
<1>2. IsHandle(g) /\ Careful(g) /\ Whole(g) /\ BootNoted(g)
  BY DEF Good, Sane
<1>3. CASE g.size = 0 \/ g.modified = {}
  <2>1. g.modified = {}
    BY <1>2, <1>3 DEF Whole
  <2>2. f = g
    BY <1>1, <1>3 DEF Flush
  <2>3. \A a \in Known(g) : a \in DOMAIN g.blocks.page /\ g.blocks.page[a] = Page(g, a)
    BY <1>2, <2>1 DEF Known, Page, Careful
  <2>4. /\ g.blocks.boot.size = g.size /\ g.blocks.boot.last = g.last
        /\ ~StaleRoot(g) => g.blocks.boot.root = g.root
    BY <1>2, <2>1 DEF BootNoted, StaleRoot
  <2> QED
    BY <1>1, <1>2, <2>1, <2>2, <2>3, <2>4 DEF Saved
<1>4. CASE ~(g.size = 0 \/ g.modified = {})
  <2>1. PICK P : P = [a \in DOMAIN g.blocks.page \cup g.modified |->
                         IF a \in g.modified THEN g.mem[a].page ELSE g.blocks.page[a]]
    OBVIOUS
  <2>2. PICK M : M = [a \in DOMAIN g.mem |->
                         IF a \in g.modified /\ IsSurface(g.mem[a].page)
                         THEN [g.mem[a] EXCEPT !.s = "loaded"] ELSE g.mem[a]]
    OBVIOUS
  <2>3. PICK e : e = [g EXCEPT !.blocks.page = P, !.mem = M, !.modified = {}]
    OBVIOUS
  <2>4. f = WriteBootValues(e)
    BY <1>1, <1>4, <2>1, <2>2, <2>3 DEF Flush
  <2>5. /\ e.root = g.root /\ e.size = g.size /\ e.last = g.last /\ e.next = g.next
        /\ e.start = g.start /\ e.mem = M /\ e.modified = {} /\ DOMAIN e = DOMAIN g
        /\ e.blocks.page = P /\ e.blocks.boot = g.blocks.boot
        /\ DOMAIN e.blocks = DOMAIN g.blocks
    BY <1>2, <2>3 DEF IsHandle, IsBlocks
  <2>6. IsHandle(e)
    BY <1>2, <2>5 DEF IsHandle, IsBlocks
  <2>7. /\ f.root = e.root /\ f.size = e.size /\ f.last = e.last
        /\ f.mem = e.mem /\ f.modified = e.modified /\ f.next = e.next
        /\ DOMAIN f = DOMAIN e
        /\ f.start.root = e.start.root /\ f.start.size = e.size /\ f.start.last = e.last
        /\ DOMAIN f.start = BootFields
        /\ IsBlocks(f.blocks) /\ f.blocks.page = e.blocks.page
        /\ f.blocks.boot.root = IF e.start.root # e.root THEN e.root ELSE e.blocks.boot.root
        /\ f.blocks.boot.size = IF e.start.size # e.size THEN e.size ELSE e.blocks.boot.size
        /\ f.blocks.boot.last = IF e.start.last # e.last THEN e.last ELSE e.blocks.boot.last
    BY <2>4, <2>6, BootWritten
  <2>8. IsHandle(f)
    BY <2>6, <2>7 DEF IsHandle
  <2>9. g.root # NULL_REF /\ g.size # 0 /\ g.size \in Nat
    BY <1>2, <1>4 DEF Whole, IsHandle
  <2>10. /\ f.blocks.boot.size = g.size /\ f.blocks.boot.last = g.last
         /\ f.blocks.boot.root # NULL_REF
         /\ ~StaleRoot(g) => f.blocks.boot.root = g.root
    BY <1>2, <2>5, <2>7, <2>9 DEF BootNoted, StaleRoot
  <2>11. BootNoted(f) /\ Whole(f)
    BY <2>5, <2>7, <2>9, <2>10 DEF BootNoted, BootOk, Whole
  <2>12. \A a \in Known(g) : a \in DOMAIN P /\ P[a] = Page(g, a)
    BY <1>2, <2>1 DEF Known, Page, Careful
  <2>13. DOMAIN M = DOMAIN g.mem
    BY <2>2
  <2> QED
    BY <1>1, <2>5, <2>7, <2>8, <2>10, <2>11, <2>12, <2>13 DEF Saved
<1> QED
  BY <1>3, <1>4

IsLoad(f, ks, n) ==
    f = [i \in 0..n |->
            IF i = 0 THEN NewHandle(EmptyBlocks, 1) ELSE Insert(f[i - 1], ks[i], PreValue)]

LEMMA LoadExists ==
    ASSUME NEW ks, NEW N \in Nat
    PROVE  \E f : IsLoad(f, ks, N)
<1> DEFINE Bad == {n \in Nat : ~\E f : IsLoad(f, ks, n)}
<1> SUFFICES ASSUME Bad # {} PROVE FALSE
  OBVIOUS
<1>1. PICK n \in Bad : \A m \in Bad : n <= m
  <2>1. Bad \in SUBSET Nat
    OBVIOUS
  <2> HIDE DEF Bad
  <2> QED
    BY <2>1, FirstOne
<1>2. CASE n = 0
  <2>1. IsLoad([i \in 0..0 |-> NewHandle(EmptyBlocks, 1)], ks, 0)
    BY DEF IsLoad
  <2> QED
    BY <1>2, <2>1
<1>3. CASE n # 0
  <2>1. PICK g : IsLoad(g, ks, n - 1)
    BY <1>1, <1>3
  <2>2. PICK q : q = Insert(g[n - 1], ks[n], PreValue)
    OBVIOUS
  <2> DEFINE f == [i \in 0..n |-> IF i = n THEN q ELSE g[i]]
  <2>3. ASSUME NEW i \in 0..n
        PROVE  f[i] = IF i = 0 THEN NewHandle(EmptyBlocks, 1) ELSE Insert(f[i - 1], ks[i], PreValue)
    <3>1. CASE i = 0
      BY <1>3, <2>1, <3>1 DEF IsLoad
    <3>2. CASE i # 0 /\ i < n
      <4>1. /\ i \in 0..(n - 1) /\ i - 1 \in 0..(n - 1) /\ i - 1 \in 0..n /\ i - 1 # n
            /\ i # n
        BY <3>2
      <4>2. f[i] = g[i] /\ f[i - 1] = g[i - 1]
        BY <4>1
      <4>3. g[i] = Insert(g[i - 1], ks[i], PreValue)
        BY <2>1, <3>2, <4>1 DEF IsLoad
      <4> QED
        BY <3>2, <4>2, <4>3
    <3>3. CASE i # 0 /\ i = n
      <4>1. n - 1 \in 0..n /\ n - 1 # n
        BY <1>3
      <4>2. f[n] = q /\ f[n - 1] = g[n - 1]
        BY <4>1
      <4> QED
        BY <2>2, <3>3, <4>2
    <3> QED
      BY <3>1, <3>2, <3>3
  <2>4. IsLoad(f, ks, n)
    BY <2>3 DEF IsLoad
  <2> QED
    BY <2>4
<1> QED
  BY <1>2, <1>3

LEMMA InsertGood ==
    ASSUME NEW g, NEW k \in Int, NEW v, Good(g)
    PROVE  Good(Insert(g, k, v))
<1>1. After(g, Insert(g, k, v))
  BY InsertAfter DEF Good, Whole
<1> QED
  BY <1>1, AfterGood

LEMMA InsertAllGood ==
    ASSUME NEW ks, Len(ks) \in Nat, \A i \in 1..Len(ks) : ks[i] \in Int
    PROVE  Good(InsertAll(ks))
<1> DEFINE N == Len(ks)
<1>1. N \in Nat /\ \A i \in 1..N : ks[i] \in Int
  OBVIOUS
<1>2. \E f : IsLoad(f, ks, N)
  BY <1>1, LoadExists
<1>3. PICK f : IsLoad(f, ks, N) /\ InsertAll(ks) = f[N]
  BY <1>2 DEF InsertAll, IsLoad
<1> DEFINE Bad == {i \in 0..N : ~Good(f[i])}
<1>4. SUFFICES ASSUME Bad # {} PROVE FALSE
  <2>1. N \in 0..N
    BY <1>1
  <2> QED
    BY <1>3, <1>4, <2>1
<1>5. PICK n \in Bad : \A m \in Bad : n <= m
  <2>1. Bad \in SUBSET Nat
    BY <1>1
  <2> HIDE DEF Bad
  <2> QED
    BY <1>4, <2>1, FirstOne
<1>6. n \in 0..N /\ ~Good(f[n])
  OBVIOUS
<1>7. CASE n = 0
  <2>1. f[0] = NewHandle(EmptyBlocks, 1)
    BY <1>1, <1>3 DEF IsLoad
  <2>2. PICK g : g = NewHandle(EmptyBlocks, 1)
    OBVIOUS
  <2>3. IsHandle(g) /\ Whole(g) /\ Careful(g) /\ g.root = NULL_REF /\ g.blocks = EmptyBlocks
    BY <2>2, EmptyBlocksAre, NewHandleIs
  <2>4. EmptyBlocks.boot.size = 0 /\ EmptyBlocks.boot.last = NULL_REF
    BY DEF EmptyBlocks, NULL_REF
  <2>5. BootNoted(g)
    BY <2>3, <2>4, EmptyBlocksAre DEF BootNoted, Whole
  <2> QED
    BY <1>6, <1>7, <2>1, <2>2, <2>3, <2>5 DEF Good, Sane
<1>8. CASE n # 0
  <2>1. n - 1 \in 0..N /\ n \in 1..N /\ ~(n <= n - 1)
    BY <1>1, <1>6, <1>8
  <2>2. Good(f[n - 1])
    BY <1>5, <2>1
  <2>3. f[n] = Insert(f[n - 1], ks[n], PreValue)
    BY <1>3, <1>6, <1>8 DEF IsLoad
  <2>4. Good(f[n])
    BY <1>1, <2>1, <2>2, <2>3, InsertGood
  <2> QED
    BY <1>6, <2>4
<1> QED
  BY <1>7, <1>8

-----------------------------------------------------------------------------
(* The steps                                                               *)

\* While a transaction is open every page of the handle is accounted for; in
\* between it matters only that a handle without a root is empty, since clear
\* does nothing to it.  The blocks on disk tell of no tree, or of one with keys.
HandleInv ==
    /\ tx \in {"idle", "open", "failed"}
    /\ IsHandle(h) /\ Whole(h)
    /\ IsBlocks(disk) /\ BootOk(disk)
    /\ tx = "open" => Good(h)

LEMMA GoodParts ==
    ASSUME NEW g, Good(g)
    PROVE  IsHandle(g) /\ Whole(g) /\ IsBlocks(g.blocks) /\ BootOk(g.blocks)
BY DEF Good, Sane, IsHandle, BootNoted

LEMMA SavedParts ==
    ASSUME NEW g, NEW f, Saved(g, f)
    PROVE  IsHandle(f) /\ Whole(f) /\ IsBlocks(f.blocks) /\ BootOk(f.blocks)
BY DEF Saved, IsHandle, BootNoted

LEMMA InitHandle == Init => HandleInv
<1> SUFFICES ASSUME Init PROVE HandleInv
  OBVIOUS
<1>1. PICK ks \in Preloads : /\ disk = Preloaded(ks).blocks
                             /\ h = NewHandle(EmptyBlocks, Preloaded(ks).next)
  BY DEF Init
<1>2. Len(ks) \in Nat /\ \A i \in 1..Len(ks) : ks[i] \in Int
  <2>1. ks \in Seq(Keys) /\ Keys \subseteq Int
    BY <1>1, BTreeAssumption
  <2>2. Len(ks) \in Nat /\ \A i \in 1..Len(ks) : ks[i] \in Keys
    BY <2>1
  <2> QED
    BY <2>1, <2>2
<1>3. PICK g : g = InsertAll(ks)
  OBVIOUS
<1>4. Good(g)
  BY <1>2, <1>3, InsertAllGood
<1>5. PICK f : f = Flush(g)
  OBVIOUS
<1>6. Saved(g, f)
  BY <1>4, <1>5, FlushSaves
<1>7. f = Preloaded(ks)
  BY <1>3, <1>5 DEF Preloaded
<1>8. IsHandle(f) /\ IsBlocks(disk) /\ BootOk(disk)
  BY <1>1, <1>6, <1>7, SavedParts
<1>9. f.next \in Nat \ {0} /\ h = NewHandle(EmptyBlocks, f.next)
  BY <1>1, <1>7, <1>8 DEF IsHandle
<1>10. IsHandle(h) /\ Whole(h)
  BY <1>9, EmptyBlocksAre, NewHandleIs
<1> QED
  BY <1>8, <1>10 DEF Init, HandleInv

LEMMA FreshLoads ==
    ASSUME NEW b, IsBlocks(b), BootOk(b)
    PROVE  Loads(Fresh(b), b)
<1>1. PICK g : g = NewHandle(EmptyBlocks, 1)
  OBVIOUS
<1>2. IsHandle(g) /\ Whole(g)
  BY <1>1, EmptyBlocksAre, NewHandleIs
<1> QED
  BY <1>1, <1>2, ReloadIs DEF Fresh

LEMMA BeginStep ==
    ASSUME HandleInv, Begin
    PROVE  HandleInv' /\ ReadsTree(h', Fresh(disk))
<1>1. /\ IsHandle(h) /\ Whole(h) /\ IsBlocks(disk) /\ BootOk(disk)
      /\ h' = Reload(h, disk) /\ tx' = "open" /\ disk' = disk
  BY DEF HandleInv, Begin
<1>2. PICK f : f = Reload(h, disk)
  OBVIOUS
<1>3. Good(f) /\ Loads(f, disk)
  BY <1>1, <1>2, ReloadIs
<1>4. PICK g : g = Fresh(disk)
  OBVIOUS
<1>5. Loads(g, disk)
  BY <1>1, <1>4, FreshLoads
<1>6. ReadsTree(f, g)
  BY <1>3, <1>5 DEF Loads, ReadsTree, Known, Page
<1>7. IsHandle(f) /\ Whole(f)
  BY <1>3, GoodParts
<1>8. HandleInv'
  BY <1>1, <1>2, <1>3, <1>7 DEF HandleInv
<1> QED
  BY <1>1, <1>2, <1>4, <1>6, <1>8

LEMMA PutStep ==
    ASSUME HandleInv, NEW k \in Keys, NEW v \in Values, Put(k, v)
    PROVE  HandleInv'
<1>1. /\ Good(h) /\ IsBlocks(disk) /\ BootOk(disk)
      /\ h' = Insert(h, k, v) /\ tx' = "open" /\ disk' = disk
  BY DEF HandleInv, Put
<1>2. PICK f : f = Insert(h, k, v)
  OBVIOUS
<1>3. k \in Int
  BY BTreeAssumption
<1>4. Good(f)
  BY <1>1, <1>2, <1>3, InsertGood
<1>5. IsHandle(f) /\ Whole(f)
  BY <1>4, GoodParts
<1> QED
  BY <1>1, <1>2, <1>4, <1>5 DEF HandleInv

LEMMA EraseStep ==
    ASSUME HandleInv, KeepsOne, NEW k \in Keys, EraseKey(k)
    PROVE  HandleInv'
<1>1. /\ Good(h) /\ IsBlocks(disk) /\ BootOk(disk)
      /\ tx' = "open" /\ disk' = disk
  BY DEF HandleInv, EraseKey
<1>2. PICK f : f = Erase(h, k)
  OBVIOUS
<1>3. h' = f /\ ~IsEmpty(f)
  BY <1>2 DEF EraseKey
<1>4. h.root # NULL_REF
  BY <1>2, <1>3 DEF Erase, IsEmpty
<1>5. h.size # 0 /\ Sane(h)
  BY <1>1, <1>4 DEF Good, Whole
<1>6. After(h, f)
  BY <1>2, <1>3, <1>5, EraseAfter
<1>7. Good(f)
  BY <1>1, <1>6, AfterGood
<1>8. IsHandle(f) /\ Whole(f)
  BY <1>7, GoodParts
<1> QED
  BY <1>1, <1>3, <1>7, <1>8 DEF HandleInv

LEMMA ReduceUseStep ==
    ASSUME HandleInv, RollsBack, ReduceUse
    PROVE  HandleInv' /\ (tx' = "open" => ReadsTree(h', h))
<1>1. Good(h) /\ IsBlocks(disk) /\ BootOk(disk) /\ disk' = disk
  BY DEF HandleInv, ReduceUse
<1>2. PICK g : g = Flush(h)
  OBVIOUS
<1>3. Saved(h, g)
  BY <1>1, <1>2, FlushSaves
<1>4. IsHandle(g) /\ Whole(g)
  BY <1>3, SavedParts
<1>5. CASE ReduceThrows(g)
  <2>1. h' = g /\ tx' = "failed"
    BY <1>2, <1>5 DEF ReduceUse
  <2> QED
    BY <1>1, <1>4, <2>1 DEF HandleInv
<1>6. CASE ~ReduceThrows(g)
  <2>1. h' = [g EXCEPT !.mem = <<>>] /\ tx' = "open"
    BY <1>2, <1>6 DEF ReduceUse
  <2>2. PICK f : f = [g EXCEPT !.mem = <<>>]
    OBVIOUS
  <2>3. /\ f.root = g.root /\ f.size = g.size /\ f.last = g.last /\ f.modified = g.modified
        /\ f.blocks = g.blocks /\ f.start = g.start /\ f.next = g.next
        /\ DOMAIN f.mem = {} /\ DOMAIN f = DOMAIN g
    BY <1>4, <2>2 DEF IsHandle
  <2>4. IsHandle(f) /\ Whole(f) /\ Careful(f) /\ BootNoted(f)
    BY <1>3, <1>4, <2>3 DEF Saved, IsHandle, Whole, Careful, BootNoted
  <2>5. ReadsTree(f, h)
    BY <1>3, <2>3 DEF Saved, ReadsTree, Known, Page
  <2> QED
    BY <1>1, <2>1, <2>2, <2>4, <2>5 DEF HandleInv, Good, Sane
<1> QED
  BY <1>5, <1>6

LEMMA CommitStep ==
    ASSUME HandleInv, Commit
    PROVE  HandleInv' /\ (~StaleRoot(h) => ReadsTree(Fresh(disk'), h))
<1>1. Good(h) /\ h' = Flush(h) /\ disk' = h'.blocks /\ tx' = "idle"
  BY DEF HandleInv, Commit
<1>2. PICK g : g = Flush(h)
  OBVIOUS
<1>3. Saved(h, g)
  BY <1>1, <1>2, FlushSaves
<1>4. IsHandle(g) /\ Whole(g) /\ IsBlocks(g.blocks) /\ BootOk(g.blocks)
  BY <1>3, SavedParts
<1>5. HandleInv'
  BY <1>1, <1>2, <1>4 DEF HandleInv
<1>6. PICK f : f = Fresh(g.blocks)
  OBVIOUS
<1>7. Loads(f, g.blocks)
  BY <1>4, <1>6, FreshLoads
<1>8. ~StaleRoot(h) => ReadsTree(f, h)
  BY <1>3, <1>7 DEF Saved, Loads, ReadsTree, Known, Page
<1>9. f = Fresh(disk')
  BY <1>1, <1>2, <1>6
<1> QED
  BY <1>5, <1>8, <1>9

LEMMA CommitFailsStep ==
    ASSUME HandleInv, RollsBack, CommitFails
    PROVE  HandleInv'
<1>1. /\ Good(h) /\ IsBlocks(disk) /\ BootOk(disk)
      /\ h' = Flush(h) /\ disk' = disk /\ tx' = "failed"
  BY DEF HandleInv, CommitFails
<1>2. PICK g : g = Flush(h)
  OBVIOUS
<1>3. Saved(h, g)
  BY <1>1, <1>2, FlushSaves
<1>4. IsHandle(g) /\ Whole(g)
  BY <1>3, SavedParts
<1> QED
  BY <1>1, <1>2, <1>4 DEF HandleInv

LEMMA RollbackStep ==
    ASSUME HandleInv, Rollback
    PROVE  HandleInv'
<1>1. /\ IsHandle(h) /\ Whole(h) /\ IsBlocks(disk) /\ BootOk(disk)
      /\ h' = Clear(h) /\ disk' = disk /\ tx' = "idle"
  BY DEF HandleInv, Rollback
<1>2. IsHandle(Clear(h)) /\ Whole(Clear(h))
  BY <1>1, ClearIs
<1> QED
  BY <1>1, <1>2 DEF HandleInv

LEMMA ReopenStep ==
    ASSUME HandleInv, Reopen
    PROVE  HandleInv'
<1>1. /\ IsHandle(h) /\ IsBlocks(disk) /\ BootOk(disk)
      /\ h' = NewHandle(EmptyBlocks, h.next) /\ disk' = disk /\ tx' = "idle"
  BY DEF HandleInv, Reopen
<1>2. PICK n : n = h.next
  OBVIOUS
<1>3. n \in Nat \ {0}
  BY <1>1, <1>2 DEF IsHandle
<1>4. IsHandle(NewHandle(EmptyBlocks, n)) /\ Whole(NewHandle(EmptyBlocks, n))
  BY <1>3, EmptyBlocksAre, NewHandleIs
<1> QED
  BY <1>1, <1>2, <1>4 DEF HandleInv

LEMMA NextHandle ==
    ASSUME KeepsOne, RollsBack, HandleInv, [Next]_vars
    PROVE  HandleInv'
<1>1. CASE Begin
  BY <1>1, BeginStep
<1>2. CASE ReduceUse
  BY <1>2, ReduceUseStep
<1>3. CASE Commit
  BY <1>3, CommitStep
<1>4. CASE CommitFails
  BY <1>4, CommitFailsStep
<1>5. CASE Rollback
  BY <1>5, RollbackStep
<1>6. CASE Reopen
  BY <1>6, ReopenStep
<1>7. ASSUME NEW k \in Keys, EraseKey(k) PROVE HandleInv'
  BY <1>7, EraseStep
<1>8. ASSUME NEW k \in Keys, NEW v \in Values, Put(k, v) PROVE HandleInv'
  BY <1>8, PutStep
<1>9. CASE UNCHANGED vars
  BY <1>9 DEF vars, HandleInv
<1> QED
  BY <1>1, <1>2, <1>3, <1>4, <1>5, <1>6, <1>7, <1>8, <1>9 DEF Next

\* The handle accounts for its pages at every step, if the client rolls back
\* after exceptions and leaves a key in the tree.
THEOREM HandleInvariant ==
    ASSUME KeepsOne, RollsBack
    PROVE  Spec => []HandleInv
<1>1. HandleInv /\ [Next]_vars => HandleInv'
  BY NextHandle
<1> QED
  BY InitHandle, <1>1, PTL DEF Spec

\* A page in memory that differs from its block is going to be saved, whatever
\* splits, merges and shifts changed it and however often memory was given up.
THEOREM UnsavedStaysModified ==
    ASSUME KeepsOne, RollsBack
    PROVE  Spec => []UnsavedIsModified
<1>1. HandleInv => UnsavedIsModified
  BY DEF HandleInv, Good, Sane, Careful, UnsavedIsModified
<1> QED
  BY <1>1, HandleInvariant, PTL

\* A transaction begins with the committed tree, giving memory up loses nothing
\* of it, and what a commit leaves is read by every later handle, page by page.
THEOREM TreesStayWhole ==
    ASSUME KeepsOne, RollsBack
    PROVE  Spec => CarriesTrees
<1>1. HandleInv /\ [Next]_vars => [TreesAreCarried]_vars
  <2> SUFFICES ASSUME HandleInv, [Next]_vars, ~UNCHANGED vars PROVE TreesAreCarried
    OBVIOUS
  <2>1. Begin => ReadsTree(h', Fresh(disk))
    BY BeginStep
  <2>2. ReduceUse /\ tx' = "open" => ReadsTree(h', h)
    BY ReduceUseStep
  <2>3. Commit /\ ~StaleRoot(h) => ReadsTree(Fresh(disk'), h)
    BY CommitStep
  <2>4. disk' # disk => Commit
    <3> SUFFICES ASSUME disk' # disk PROVE Commit
      OBVIOUS
    <3>1. \/ Begin \/ ReduceUse \/ Commit \/ CommitFails \/ Rollback \/ Reopen
          \/ \E k \in Keys : EraseKey(k) \/ \E v \in Values : Put(k, v)
      BY DEF Next
    <3> QED
      BY <3>1 DEF Begin, ReduceUse, CommitFails, Rollback, Reopen, EraseKey, Put
  <2> QED
    BY <2>1, <2>2, <2>3, <2>4 DEF TreesAreCarried
<1>2. HandleInv /\ [Next]_vars => HandleInv'
  BY NextHandle
<1>3. Spec => [][TreesAreCarried]_vars
  BY InitHandle, <1>1, <1>2, PTL DEF Spec
<1> QED
  BY <1>3 DEF CarriesTrees

=============================================================================
