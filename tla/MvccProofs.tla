----------------------------- MODULE MvccProofs -----------------------------
(***************************************************************************)
(* What merge_down preserves, for every vector of versions; and the        *)
(* coordinator's invariant, for any number of version storages, addresses  *)
(* and transactions, and both ways of finishing a writer.                  *)
(***************************************************************************)
EXTENDS Mvcc, FiniteSetTheorems, WellFoundedInduction, TLAPS

-----------------------------------------------------------------------------
(* merge_down: the contents that a reader of the newest version finds, and *)
(* everything below a version that is in use, stay what they were.         *)

(* A nonempty finite set has an element that is least under f: the version *)
(* at the bottom of a run.                                                 *)
LEMMA LeastBy ==
    ASSUME NEW S, IsFiniteSet(S), S # {}, NEW f, \A x \in S : f[x] \in Int
    PROVE  \E x \in S : \A y \in S : f[x] <= f[y]
<1> DEFINE D(x) == {y \in S : f[y] < f[x]}
           T == {D(x) : x \in S}
<1>1. T # {}
  <2>1. PICK x \in S : TRUE
    OBVIOUS
  <2>2. D(x) \in T
    OBVIOUS
  <2> QED
    BY <2>2
<1>2. T \subseteq FiniteSubsetsOf(S)
  BY FS_Subset DEF FiniteSubsetsOf
<1>3. PICK d \in T : \A e \in T : ~ (<<e, d>> \in StrictSubsetOrdering(S))
  <2> HIDE DEF T
  <2> QED
    BY <1>1, <1>2, FS_StrictSubsetOrderingWellFounded, WFMin
<1>4. PICK x \in S : d = D(x)
  OBVIOUS
<1>5. ASSUME NEW y \in S, ~(f[x] <= f[y])
      PROVE  FALSE
  <2>1. f[y] < f[x]
    BY <1>5
  <2>2. D(y) \subseteq D(x)
    BY <2>1
  <2>3. y \in D(x) /\ y \notin D(y)
    BY <2>1
  <2>4. <<D(y), d>> \in StrictSubsetOrdering(S)
    BY <1>4, <2>2, <2>3 DEF StrictSubsetOrdering
  <2> QED
    BY <1>3, <2>4
<1> QED
  BY <1>5

(* A nonempty finite set has an uppermost element: Top is well defined.    *)
LEMMA GreatestBy ==
    ASSUME NEW S, IsFiniteSet(S), S # {}, NEW f, \A x \in S : f[x] \in Int
    PROVE  \E x \in S : \A y \in S : f[y] <= f[x]
<1> DEFINE g == [x \in S |-> 0 - f[x]]
<1>1. \A x \in S : g[x] \in Int
  OBVIOUS
<1>2. PICK x \in S : \A y \in S : g[x] <= g[y]
  <2> HIDE DEF g
  <2> QED
    BY <1>1, LeastBy
<1>3. ASSUME NEW y \in S
      PROVE  f[y] <= f[x]
  <2>1. 0 - f[x] <= 0 - f[y]
    BY <1>2
  <2> QED
    BY <2>1
<1> QED
  BY <1>3

(* storages.back() exists and lies above every other version.              *)
LEMMA TopExists ==
    ASSUME NEW H, IsFiniteSet(H), H # {}, NEW sl, \A x \in H : sl[x] \in Int
    PROVE  /\ Top(H, sl) \in H
           /\ \A q \in H : sl[q] <= sl[Top(H, sl)]
BY GreatestBy DEF Top

(* The version above all others is the only one.                           *)
LEMMA TopUnique ==
    ASSUME NEW H, NEW sl, \A x \in H : sl[x] \in Int,
           \A x, y \in H : sl[x] = sl[y] => x = y,
           NEW p \in H, \A q \in H : sl[q] <= sl[p]
    PROVE  Top(H, sl) = p
<1>1. /\ Top(H, sl) \in H
      /\ \A q \in H : sl[q] <= sl[Top(H, sl)]
  BY DEF Top
<1>2. sl[Top(H, sl)] = sl[p]
  BY <1>1
<1> QED
  BY <1>1, <1>2

(* A lookup finds the block of the uppermost holder.                       *)
LEMMA LookupAt ==
    ASSUME NEW S, NEW sl, \A x \in S : sl[x] \in Int,
           \A x, y \in S : sl[x] = sl[y] => x = y,
           NEW bl, NEW a,
           NEW p \in S, bl[p][a] # NoVal,
           \A q \in S : bl[q][a] # NoVal => sl[q] <= sl[p]
    PROVE  Lookup(S, sl, bl, bl, a, NoVal) = bl[p][a]
<1>1. p \in Holders(S, bl, a)
  BY DEF Holders
<1>2. Top(Holders(S, bl, a), sl) = p
  BY <1>1, TopUnique DEF Holders
<1> QED
  BY <1>1, <1>2 DEF Lookup

(* A block of the uppermost version is what a lookup finds.                *)
LEMMA LookupInUppermost ==
    ASSUME NEW S, NEW sl, NEW p \in S, sl[p] \in Int,
           \A q \in S \ {p} : sl[q] \in Int /\ sl[q] < sl[p],
           NEW bl, NEW a, bl[p][a] # NoVal
    PROVE  Lookup(S, sl, bl, bl, a, NoVal) = bl[p][a]
<1>1. p \in Holders(S, bl, a)
  BY DEF Holders
<1>2. Top(Holders(S, bl, a), sl) = p
  BY <1>1 DEF Top, Holders
<1> QED
  BY <1>1, <1>2 DEF Lookup

(* A version at the bottom of the run of an unused version h: it stays, and*)
(* h moves into it.                                                        *)
LEMMA RunBottom ==
    ASSUME NEW S, IsFiniteSet(S), NEW sl, \A x \in S : sl[x] \in Int,
           \A x, y \in S : sl[x] = sl[y] => x = y,
           NEW rd, NEW h \in S, rd[h] = 0
    PROVE  \E p \in S : /\ p \notin MergedAway(S, sl, rd)
                        /\ rd[p] = 0
                        /\ h \in Run(S, sl, rd, p)
<1> DEFINE L == {x \in S : h \in Run(S, sl, rd, x)}
<1>1. h \in L
  BY DEF Run
<1>2. IsFiniteSet(L)
  BY FS_Subset
<1>3. PICK p \in L : \A y \in L : sl[p] <= sl[y]
  <2>1. \A x \in L : sl[x] \in Int
    OBVIOUS
  <2> HIDE DEF L
  <2> QED
    BY <1>1, <1>2, <2>1, LeastBy
<1>4. rd[p] = 0
  BY DEF Run
<1>5. ASSUME p \in MergedAway(S, sl, rd)
      PROVE  FALSE
  <2>1. PICK z \in Below(S, sl, p) : rd[z] = 0
    BY <1>5 DEF MergedAway
  <2>2. z \in S /\ sl[z] < sl[p]
    BY DEF Below
  <2>3. ASSUME NEW q \in S, sl[z] <= sl[q], sl[q] <= sl[h]
        PROVE  rd[q] = 0
    <3>1. CASE sl[p] <= sl[q]
      BY <2>3, <3>1 DEF Run
    <3>2. CASE sl[q] < sl[p]
      <4>1. sl[q] <= sl[z]
        BY <3>2 DEF Below
      <4>2. q = z
        BY <4>1, <2>2, <2>3
      <4> QED
        BY <4>2, <2>1
    <3> QED
      BY <3>1, <3>2
  <2>4. z \in L
    BY <2>2, <2>3 DEF Run
  <2> QED
    BY <1>3, <2>2, <2>4
<1> QED
  BY <1>4, <1>5

(* Nothing that stays lies inside a run, above its bottom.                 *)
LEMMA KeptOutsideRuns ==
    ASSUME NEW S, IsFiniteSet(S), NEW sl, \A x \in S : sl[x] \in Int,
           NEW rd, NEW p \in S, NEW h \in Run(S, sl, rd, p),
           NEW q \in S, sl[p] < sl[q], sl[q] <= sl[h]
    PROVE  q \in MergedAway(S, sl, rd)
<1> DEFINE B == {x \in S : sl[x] < sl[q]}
<1>1. p \in B /\ IsFiniteSet(B)
  BY FS_Subset
<1>2. PICK z \in B : \A y \in B : sl[y] <= sl[z]
  <2>1. \A x \in B : sl[x] \in Int
    OBVIOUS
  <2> HIDE DEF B
  <2> QED
    BY <1>1, <2>1, GreatestBy
<1>3. z \in Below(S, sl, q)
  BY <1>2 DEF Below
<1>4. rd[z] = 0 /\ rd[q] = 0
  <2>1. h \in S
    BY DEF Run
  <2>2. sl[p] <= sl[z] /\ sl[z] <= sl[h]
    BY <1>1, <1>2, <2>1
  <2> QED
    BY <2>1, <2>2 DEF Run
<1> QED
  BY <1>3, <1>4 DEF MergedAway

(* What a version that stays holds after the moves: unchanged when it is in*)
(* use, otherwise what its run held.                                       *)
LEMMA MovedBlocks ==
    ASSUME NEW S, NEW sl, NEW rd, NEW bl, S \subseteq DOMAIN bl,
           NEW o \in S \ MergedAway(S, sl, rd), NEW a \in DOMAIN bl[o]
    PROVE  MoveDown(S, sl, rd, bl, bl, NoVal)[o][a] =
               IF rd[o] = 0 THEN Lookup(Run(S, sl, rd, o), sl, bl, bl, a, NoVal)
                            ELSE bl[o][a]
BY DEF MoveDown

(* merge_down never changes what is found from the newest version down.    *)
THEOREM MergeDownKeepsLookup ==
    ASSUME NEW S, IsFiniteSet(S), NEW sl, \A x \in S : sl[x] \in Int,
           \A x, y \in S : sl[x] = sl[y] => x = y,
           NEW rd, NEW bl, S \subseteq DOMAIN bl,
           NEW a, \A x \in S : a \in DOMAIN bl[x]
    PROVE  LET K   == S \ MergedAway(S, sl, rd)
               bl2 == MoveDown(S, sl, rd, bl, bl, NoVal)
           IN  Lookup(K, sl, bl2, bl2, a, NoVal) = Lookup(S, sl, bl, bl, a, NoVal)
<1> DEFINE K   == S \ MergedAway(S, sl, rd)
           bl2 == MoveDown(S, sl, rd, bl, bl, NoVal)
<1> SUFFICES Lookup(K, sl, bl2, bl2, a, NoVal) = Lookup(S, sl, bl, bl, a, NoVal)
  OBVIOUS
<1>0. K = S \ MergedAway(S, sl, rd)
  OBVIOUS
<1>1. \A o \in K : bl2[o][a] = IF rd[o] = 0
                    THEN Lookup(Run(S, sl, rd, o), sl, bl, bl, a, NoVal)
                    ELSE bl[o][a]
  BY MovedBlocks
<1> HIDE DEF K, bl2
<1>2. \A o : Run(S, sl, rd, o) \subseteq S
  BY DEF Run
<1>3. ASSUME NEW q \in K, bl2[q][a] # NoVal
      PROVE  \E r \in S : /\ bl[r][a] # NoVal /\ sl[q] <= sl[r]
                          /\ rd[q] # 0 => r = q
  <2>1. CASE rd[q] # 0
    BY <1>0, <1>1, <1>3, <2>1
  <2>2. CASE rd[q] = 0
    <3>1. Holders(Run(S, sl, rd, q), bl, a) # {}
      BY <1>1, <1>3, <2>2 DEF Lookup
    <3>2. PICK r \in Run(S, sl, rd, q) : bl[r][a] # NoVal
      BY <3>1 DEF Holders
    <3> QED
      BY <2>2, <3>2 DEF Run
  <2> QED
    BY <2>1, <2>2
<1>4. CASE Holders(S, bl, a) = {}
  <2>1. Holders(K, bl2, a) = {}
    BY <1>3, <1>4 DEF Holders
  <2> QED
    BY <1>4, <2>1 DEF Lookup
<1>5. CASE Holders(S, bl, a) # {}
  <2> DEFINE h == Top(Holders(S, bl, a), sl)
  <2>1. /\ h \in S /\ bl[h][a] # NoVal
        /\ \A q \in S : bl[q][a] # NoVal => sl[q] <= sl[h]
    <3>1. IsFiniteSet(Holders(S, bl, a))
      BY FS_Subset DEF Holders
    <3>2. /\ h \in Holders(S, bl, a)
          /\ \A q \in Holders(S, bl, a) : sl[q] <= sl[h]
      <4>1. \A x \in Holders(S, bl, a) : sl[x] \in Int
        BY DEF Holders
      <4> QED
        BY <1>5, <3>1, <4>1, TopExists
    <3> QED
      BY <3>2 DEF Holders
  <2> HIDE DEF h
  <2>2. Lookup(S, sl, bl, bl, a, NoVal) = bl[h][a]
    BY <2>1, LookupAt
  <2>3. CASE rd[h] # 0
    <3>1. h \in K /\ bl2[h][a] = bl[h][a]
      BY <1>0, <1>1, <2>1, <2>3 DEF MergedAway
    <3>2. \A q \in K : bl2[q][a] # NoVal => sl[q] <= sl[h]
      BY <1>0, <1>3, <2>1
    <3>3. Lookup(K, sl, bl2, bl2, a, NoVal) = bl2[h][a]
      <4>1. /\ \A x \in K : sl[x] \in Int
            /\ \A x, y \in K : sl[x] = sl[y] => x = y
        BY <1>0
      <4>2. bl2[h][a] # NoVal
        BY <2>1, <3>1
      <4>3. h \in K
        BY <3>1
      <4> QED
        BY <3>2, <4>1, <4>2, <4>3, LookupAt
    <3> QED
      BY <2>2, <3>1, <3>3
  <2>4. CASE rd[h] = 0
    <3>1. PICK p \in S : /\ p \notin MergedAway(S, sl, rd)
                         /\ rd[p] = 0
                         /\ h \in Run(S, sl, rd, p)
      BY <2>1, <2>4, RunBottom
    <3>2. p \in K /\ bl2[p][a] = bl[h][a]
      <4>1. Lookup(Run(S, sl, rd, p), sl, bl, bl, a, NoVal) = bl[h][a]
        <5> DEFINE R == Run(S, sl, rd, p)
        <5>1. h \in R /\ R \subseteq S
          BY <1>2, <3>1
        <5> HIDE DEF R
        <5>2. Lookup(R, sl, bl, bl, a, NoVal) = bl[h][a]
          BY <2>1, <5>1, LookupAt
        <5> QED
          BY <5>2 DEF R
      <4> QED
        BY <1>0, <1>1, <3>1, <4>1
    <3>3. ASSUME NEW q \in K, bl2[q][a] # NoVal
          PROVE  sl[q] <= sl[p]
      <4>1. PICK r \in S : bl[r][a] # NoVal /\ sl[q] <= sl[r]
        BY <1>3, <3>3
      <4>2. sl[q] <= sl[h]
        BY <1>0, <2>1, <4>1
      <4>3. ~(sl[p] < sl[q])
        BY <1>0, <3>1, <3>3, <4>2, KeptOutsideRuns
      <4> QED
        BY <1>0, <4>3
    <3>4. Lookup(K, sl, bl2, bl2, a, NoVal) = bl2[p][a]
      <4>1. \A q \in K : bl2[q][a] # NoVal => sl[q] <= sl[p]
        BY <3>3
      <4>2. bl2[p][a] # NoVal
        BY <2>1, <3>2
      <4>3. /\ \A x \in K : sl[x] \in Int
            /\ \A x, y \in K : sl[x] = sl[y] => x = y
        BY <1>0
      <4>4. p \in K
        BY <3>2
      <4> QED
        BY <4>1, <4>2, <4>3, <4>4, LookupAt
    <3> QED
      BY <2>2, <3>2, <3>4
  <2> QED
    BY <2>3, <2>4
<1> QED
  BY <1>4, <1>5

(* merge_down leaves a version in use, and its blocks, alone.              *)
LEMMA UsedUntouched ==
    ASSUME NEW S, NEW sl, NEW rd, NEW bl, NEW p \in S, rd[p] # 0,
           S \subseteq DOMAIN bl
    PROVE  /\ p \in S \ MergedAway(S, sl, rd)
           /\ MoveDown(S, sl, rd, bl, bl, NoVal)[p] = bl[p]
BY DEF MergedAway, MoveDown

(* Lookups through the same versions with the same blocks agree.           *)
LEMMA LookupAgrees ==
    ASSUME NEW S, NEW sl, NEW sl2, NEW bl, NEW bl2, NEW a,
           IsFiniteSet(S),
           \A x \in S : sl[x] \in Int /\ sl2[x] = sl[x] /\ bl2[x] = bl[x],
           \A x, y \in S : sl[x] = sl[y] => x = y
    PROVE  Lookup(S, sl2, bl2, bl2, a, NoVal) = Lookup(S, sl, bl, bl, a, NoVal)
<1>1. Holders(S, bl2, a) = Holders(S, bl, a)
  BY DEF Holders
<1>2. CASE Holders(S, bl, a) = {}
  BY <1>1, <1>2 DEF Lookup
<1>3. CASE Holders(S, bl, a) # {}
  <2> DEFINE H == Holders(S, bl, a)
             h == Top(H, sl)
  <2>1. H \subseteq S /\ IsFiniteSet(H)
    BY FS_Subset DEF Holders
  <2>2. H # {} /\ Holders(S, bl2, a) = H
    BY <1>1, <1>3
  <2> HIDE DEF H
  <2>3. h \in H /\ \A q \in H : sl[q] <= sl[h]
    BY <2>1, <2>2, TopExists
  <2>4. Top(H, sl2) = h
    BY <2>1, <2>3, TopUnique
  <2>5. bl2[h] = bl[h]
    BY <2>1, <2>3
  <2> QED
    BY <2>2, <2>4, <2>5 DEF Lookup, H
<1> QED
  BY <1>2, <1>3

(* Looking up entries of type V gives one, or none.                        *)
LEMMA LookupType ==
    ASSUME NEW S, IsFiniteSet(S), NEW sl, \A x \in S : sl[x] \in Int,
           NEW bl, NEW f, NEW a, NEW V, NEW none \in V,
           \A x \in S : f[x][a] \in V
    PROVE  Lookup(S, sl, bl, f, a, none) \in V
<1>1. CASE Holders(S, bl, a) = {}
  BY <1>1 DEF Lookup
<1>2. CASE Holders(S, bl, a) # {}
  <2> DEFINE H == Holders(S, bl, a)
  <2>1. H \subseteq S /\ IsFiniteSet(H) /\ H # {}
    BY <1>2, FS_Subset DEF Holders
  <2>2. Lookup(S, sl, bl, f, a, none) = f[Top(H, sl)][a]
    BY <1>2 DEF Lookup
  <2> HIDE DEF H
  <2>3. Top(H, sl) \in H
    BY <2>1, TopExists
  <2> QED
    BY <2>1, <2>2, <2>3
<1> QED
  BY <1>1, <1>2

(* merge_down keeps the type of the block maps.                            *)
LEMMA MoveDownType ==
    ASSUME NEW Os, NEW S \in SUBSET Os, IsFiniteSet(S),
           NEW sl \in [Os -> Int], NEW rd, NEW bl,
           NEW A, NEW V, NEW f \in [Os -> [A -> V]], NEW none \in V
    PROVE  MoveDown(S, sl, rd, bl, f, none) \in [Os -> [A -> V]]
<1>1. ASSUME NEW o \in Os, NEW a \in A
      PROVE  Lookup(Run(S, sl, rd, o), sl, bl, f, a, none) \in V
  <2> DEFINE R == Run(S, sl, rd, o)
  <2>1. R \subseteq S /\ IsFiniteSet(R)
    BY FS_Subset DEF Run
  <2> HIDE DEF R
  <2>2. /\ \A x \in R : sl[x] \in Int
        /\ \A x \in R : f[x][a] \in V
    BY <2>1
  <2>3. Lookup(R, sl, bl, f, a, none) \in V
    BY <2>1, <2>2, LookupType
  <2> QED
    BY <2>3 DEF R
<1>2. DOMAIN f = Os /\ \A o \in Os : DOMAIN f[o] = A
  OBVIOUS
<1> QED
  BY <1>1, <1>2 DEF MoveDown

(* Where a block that is there after the moves came from: from the version *)
(* itself or from one above it, but never from above another that stays.   *)
Source(S, sl, rd, bl, o, a) ==
    IF rd[o] = 0 THEN Top(Holders(Run(S, sl, rd, o), bl, a), sl) ELSE o

LEMMA MovedFrom ==
    ASSUME NEW S, IsFiniteSet(S), NEW sl, \A x \in S : sl[x] \in Int,
           NEW rd, NEW bl, NEW o \in S \ MergedAway(S, sl, rd), o \in DOMAIN bl,
           NEW a, a \in DOMAIN bl[o],
           MoveDown(S, sl, rd, bl, bl, NoVal)[o][a] # NoVal
    PROVE  LET h == Source(S, sl, rd, bl, o, a)
           IN  /\ h \in S
               /\ sl[o] <= sl[h]
               /\ bl[h][a] # NoVal
               /\ \A q \in S \ MergedAway(S, sl, rd) : sl[o] < sl[q] => sl[h] < sl[q]
<1>1. CASE rd[o] # 0
  <2>1. MoveDown(S, sl, rd, bl, bl, NoVal)[o] = bl[o]
    BY <1>1 DEF MoveDown
  <2> QED
    BY <1>1, <2>1 DEF Source
<1>2. CASE rd[o] = 0
  <2> DEFINE R == Run(S, sl, rd, o)
             H == Holders(R, bl, a)
             h == Top(H, sl)
  <2>1. MoveDown(S, sl, rd, bl, bl, NoVal)[o][a] = Lookup(R, sl, bl, bl, a, NoVal)
    BY <1>2 DEF MoveDown
  <2>2. H # {}
    BY <2>1 DEF Lookup
  <2>3. H \subseteq R /\ R \subseteq S /\ IsFiniteSet(H)
    BY FS_Subset DEF Run, Holders
  <2>4. h \in H
    <3>1. \A x \in H : sl[x] \in Int
      BY <2>3
    <3> HIDE DEF H
    <3> QED
      BY <2>2, <2>3, <3>1, TopExists
  <2>5. h \in R /\ h \in S /\ bl[h][a] # NoVal
    BY <2>3, <2>4 DEF Holders
  <2>6. sl[o] <= sl[h]
    BY <2>5 DEF Run
  <2>7. h = Source(S, sl, rd, bl, o, a)
    BY <1>2 DEF Source
  <2> HIDE DEF h
  <2>8. ASSUME NEW q \in S \ MergedAway(S, sl, rd), sl[o] < sl[q]
        PROVE  sl[h] < sl[q]
    <3>1. ~(sl[q] <= sl[h])
      BY <2>5, <2>8, KeptOutsideRuns
    <3> QED
      BY <2>5, <3>1
  <2> QED
    BY <2>5, <2>6, <2>7, <2>8
<1> QED
  BY <1>1, <1>2

(* Everything that is kept of a block comes from there.                    *)
LEMMA MovedEntry ==
    ASSUME NEW S, NEW sl, NEW rd, NEW bl, NEW f, NEW none,
           NEW o \in S \ MergedAway(S, sl, rd), o \in DOMAIN bl, o \in DOMAIN f,
           NEW a, a \in DOMAIN bl[o], a \in DOMAIN f[o],
           MoveDown(S, sl, rd, bl, bl, NoVal)[o][a] # NoVal
    PROVE  MoveDown(S, sl, rd, bl, f, none)[o][a] = f[Source(S, sl, rd, bl, o, a)][a]
<1>1. CASE rd[o] # 0
  BY <1>1 DEF MoveDown, Source
<1>2. CASE rd[o] = 0
  <2> DEFINE R == Run(S, sl, rd, o)
  <2>1. /\ MoveDown(S, sl, rd, bl, bl, NoVal)[o][a] = Lookup(R, sl, bl, bl, a, NoVal)
        /\ MoveDown(S, sl, rd, bl, f, none)[o][a] = Lookup(R, sl, bl, f, a, none)
    BY <1>2 DEF MoveDown
  <2>2. Holders(R, bl, a) # {}
    BY <2>1 DEF Lookup
  <2> QED
    BY <1>2, <2>1, <2>2 DEF Lookup, Source
<1> QED
  BY <1>1, <1>2

-----------------------------------------------------------------------------
(* The coordinator.                                                        *)

(* The transactions that read through version o: what readers[o] counts.   *)
Dependants(o) == {t \in active : o \in Chain(based[t])}

Writers == {t \in active : ~read_only[t]}

-----------------------------------------------------------------------------
(* storages.back() is a committed version, and all of them are below it.   *)
LEMMA NewestIsLast ==
    ASSUME CoordinatorInv
    PROVE  /\ Newest \in storages
           /\ \A q \in storages : slot[q] <= slot[Newest]
           /\ Chain(Newest) = storages
<1>1. IsFiniteSet(storages) /\ storages # {} /\ \A x \in storages : slot[x] \in Int
  BY FS_Subset, ObjsAssumption DEF CoordinatorInv, TypeOK, Partition
<1>2. /\ Newest \in storages
      /\ \A q \in storages : slot[q] <= slot[Newest]
  BY <1>1, TopExists DEF Newest
<1> QED
  BY <1>2 DEF Chain

(* Sets of transactions are finite, so their counts are naturals.          *)
LEMMA FiniteCounts ==
    ASSUME CoordinatorInv
    PROVE  /\ IsFiniteSet(active) /\ IsFiniteSet(storages)
           /\ IsFiniteSet(Writers)
           /\ \A o : IsFiniteSet(Dependants(o))
BY FS_Subset, ObjsAssumption DEF CoordinatorInv, TypeOK, Writers, Dependants

(* What merge_down leaves: of the versions it was given, the used ones as  *)
(* they were, at least one, and nothing in those it merged away.           *)
LEMMA MergeDownLeaves ==
    ASSUME CoordinatorInv,
           NEW S \in SUBSET Objs, S # {},
           NEW sl \in [Objs -> Nat], NEW rd, MergeDown(S, sl, rd)
    PROVE  /\ storages' \subseteq S /\ storages' # {}
           /\ blocks' \in [Objs -> [Addr -> Val \cup {NoVal}]]
           /\ bver' \in [Objs -> [Addr -> Nat]]
           /\ \A p \in S : rd[p] # 0 => p \in storages'
           /\ \A p \in Objs : p \notin S \/ rd[p] # 0 => blocks'[p] = blocks[p]
           /\ \A p \in S \ storages' : rd[p] = 0 /\ blocks'[p] = Empty
<1>0. /\ IsFiniteSet(S)
      /\ blocks \in [Objs -> [Addr -> Val \cup {NoVal}]]
      /\ bver \in [Objs -> [Addr -> Nat]]
  BY FS_Subset, ObjsAssumption DEF CoordinatorInv, TypeOK
<1>1. CASE journal_synching
  BY <1>0, <1>1 DEF MergeDown
<1>2. CASE ~journal_synching
  <2>1. /\ storages' = S \ MergedAway(S, sl, rd)
        /\ blocks' = MoveDown(S, sl, rd, blocks, blocks, NoVal)
        /\ bver' = MoveDown(S, sl, rd, blocks, bver, 0)
    BY <1>2 DEF MergeDown
  <2>2. storages' # {}
    <3>1. \A x \in S : sl[x] \in Int
      OBVIOUS
    <3>2. PICK x \in S : \A y \in S : sl[x] <= sl[y]
      BY <1>0, <3>1, LeastBy
    <3>3. Below(S, sl, x) = {}
      BY <3>1, <3>2 DEF Below
    <3> QED
      BY <2>1, <3>3 DEF MergedAway
  <2>3. sl \in [Objs -> Int]
    OBVIOUS
  <2>4. blocks' \in [Objs -> [Addr -> Val \cup {NoVal}]]
    BY <1>0, <2>1, <2>3, MoveDownType
  <2>5. bver' \in [Objs -> [Addr -> Nat]]
    <3>1. 0 \in Nat
      OBVIOUS
    <3> QED
      BY <1>0, <2>1, <2>3, <3>1, MoveDownType
  <2>6. \A p \in S : rd[p] # 0 => p \in storages'
    BY <2>1 DEF MergedAway
  <2>7. \A p \in Objs : p \notin S \/ rd[p] # 0 => blocks'[p] = blocks[p]
    BY <1>0, <2>1 DEF MoveDown
  <2>8. \A p \in S \ storages' : rd[p] = 0 /\ blocks'[p] = Empty
    <3> SUFFICES ASSUME NEW p \in MergedAway(S, sl, rd)
                 PROVE  rd[p] = 0 /\ blocks'[p] = Empty
      BY <2>1
    <3>1. p \in S /\ rd[p] = 0 /\ p \in Objs
      BY DEF MergedAway
    <3>2. DOMAIN blocks = Objs /\ DOMAIN blocks[p] = Addr
      BY <1>0, <3>1
    <3>3. MoveDown(S, sl, rd, blocks, blocks, NoVal)[p] = [a \in DOMAIN blocks[p] |-> NoVal]
      BY <3>1, <3>2 DEF MoveDown
    <3> QED
      BY <2>1, <3>1, <3>2, <3>3 DEF Empty
  <2> QED
    BY <2>1, <2>2, <2>4, <2>5, <2>6, <2>7, <2>8
<1> QED
  BY <1>1, <1>2

-----------------------------------------------------------------------------
LEMMA InitInv == Init => CoordinatorInv
<1> SUFFICES ASSUME Init PROVE CoordinatorInv
  OBVIOUS
<1> USE ObjsAssumption, ValAssumption, BoundAssumption DEF Init, Empty, ZeroVersions
<1>1. TypeOK
  BY DEF TypeOK
<1>2. Partition /\ SlotsOrdered /\ BasesLive /\ OnlyStoragesRead /\ OnlyWritersHold
  BY DEF Partition, SlotsOrdered, BasesLive, OnlyStoragesRead, OnlyWritersHold
<1>3. Counters
  BY FS_EmptySet DEF Counters
<1>4. ReaderCount
  <2>1. {t \in active : Root \in Chain(based[t])} = {}
    OBVIOUS
  <2> QED
    BY <2>1, FS_EmptySet DEF ReaderCount
<1> QED
  BY <1>1, <1>2, <1>3, <1>4 DEF CoordinatorInv

-----------------------------------------------------------------------------
(* begin: whoever t was, it is no committed version and no transaction yet.*)
LEMMA AttachInv ==
    ASSUME CoordinatorInv, NEW t \in Objs, t \in Free \cup recycler, Attach(t),
           UNCHANGED <<storages, slot, blocks>>,
           NEW w \in BOOLEAN, read_only' = [read_only EXCEPT ![t] = w]
    PROVE  /\ BasesLive' /\ ReaderCount' /\ OnlyStoragesRead' /\ OnlyWritersHold'
           /\ based' \in [Objs -> Objs \cup {NoObj}]
           /\ readers' \in [Objs -> Nat]
           /\ active_transactions' = Cardinality(active')
           /\ {u \in active' : ~read_only'[u]} =
                  IF w THEN Writers ELSE Writers \cup {t}
           /\ t \notin active
<1>0. /\ t \notin active /\ t \notin storages
      /\ active \subseteq Objs /\ storages \subseteq Objs
      /\ based \in [Objs -> Objs \cup {NoObj}] /\ readers \in [Objs -> Nat]
      /\ read_only \in [Objs -> BOOLEAN]
      /\ BasesLive /\ ReaderCount /\ OnlyStoragesRead /\ OnlyWritersHold
      /\ active_transactions = Cardinality(active)
  BY DEF Free, CoordinatorInv, TypeOK, Partition, Counters
<1>1. /\ based' = [based EXCEPT ![t] = Newest]
      /\ active' = active \cup {t}
      /\ storages' = storages /\ slot' = slot /\ blocks' = blocks
      /\ readers' = [o \in Objs |->
                         IF o \in storages THEN readers[o] + 1 ELSE readers[o]]
      /\ active_transactions' = active_transactions + 1
  BY DEF Attach
<1>2. Newest \in storages /\ Chain(Newest) = storages
  BY NewestIsLast
<1>3. /\ BasesLive' /\ OnlyStoragesRead' /\ OnlyWritersHold'
      /\ based' \in [Objs -> Objs \cup {NoObj}]
      /\ readers' \in [Objs -> Nat]
  <2>1. BasesLive'
    BY <1>0, <1>1, <1>2 DEF BasesLive
  <2>2. OnlyStoragesRead'
    BY <1>0, <1>1 DEF OnlyStoragesRead
  <2>3. OnlyWritersHold'
    <3> SUFFICES ASSUME NEW o \in Objs \ storages, o \notin active' \/ read_only'[o]
                 PROVE  blocks[o] = Empty
      BY <1>1 DEF OnlyWritersHold, Empty, Addr
    <3> QED
      BY <1>0, <1>1 DEF OnlyWritersHold
  <2> QED
    BY <1>0, <1>1, <1>2, <2>1, <2>2, <2>3
<1>4. ReaderCount'
  <2> SUFFICES ASSUME NEW o \in storages
               PROVE  readers'[o] = Cardinality({u \in active' : o \in Chain(based[u])'})
    BY <1>1 DEF ReaderCount
  <2>1. {u \in active' : o \in Chain(based[u])'} = Dependants(o) \cup {t}
    BY <1>0, <1>1, <1>2 DEF Dependants, Chain
  <2>2. t \notin Dependants(o) /\ IsFiniteSet(Dependants(o))
    BY <1>0, FiniteCounts DEF Dependants
  <2>3. Cardinality(Dependants(o) \cup {t}) = Cardinality(Dependants(o)) + 1
    BY <2>2, FS_AddElement
  <2>4. readers[o] = Cardinality(Dependants(o))
    BY <1>0 DEF ReaderCount, Dependants
  <2> QED
    BY <1>0, <1>1, <2>1, <2>3, <2>4
<1>5. active_transactions' = Cardinality(active')
  BY <1>0, <1>1, FS_AddElement, FiniteCounts
<1>6. {u \in active' : ~read_only'[u]} = IF w THEN Writers ELSE Writers \cup {t}
  BY <1>0, <1>1 DEF Writers
<1> QED
  BY <1>0, <1>3, <1>4, <1>5, <1>6

LEMMA BeginReaderInv ==
    ASSUME CoordinatorInv, NEW t \in Objs, BeginReader(t)
    PROVE  CoordinatorInv'
<1>0. /\ t \in Free \cup recycler
      /\ Attach(t)
      /\ recycler' \subseteq recycler /\ t \notin recycler'
      /\ read_only' = [read_only EXCEPT ![t] = TRUE]
      /\ UNCHANGED <<storages, slot, blocks>>
  BY DEF BeginReader, Fresh, Recycled, Free
<1>1. /\ BasesLive' /\ ReaderCount' /\ OnlyStoragesRead' /\ OnlyWritersHold'
      /\ based' \in [Objs -> Objs \cup {NoObj}]
      /\ readers' \in [Objs -> Nat]
      /\ active_transactions' = Cardinality(active')
      /\ {u \in active' : ~read_only'[u]} = Writers
  BY <1>0, AttachInv
<1>2. TypeOK'
  <2>1. clock' \in Nat /\ version' \in [Objs -> Nat] /\ order' \in [Objs -> Nat]
        /\ next' \in [Objs -> Nat] /\ modified' \in [Objs -> BOOLEAN]
    <3>1. CASE Fresh(t)
      BY <3>1 DEF Fresh, CoordinatorInv, TypeOK
    <3>2. CASE Recycled(t)
      BY <3>2 DEF Recycled, CoordinatorInv, TypeOK
    <3> QED
      BY <3>1, <3>2 DEF BeginReader
  <2> QED
    BY <1>0, <1>1, <2>1 DEF BeginReader, Attach, CoordinatorInv, TypeOK, comVars, Addr
<1>3. Partition' /\ SlotsOrdered'
  BY <1>0 DEF BeginReader, Attach, CoordinatorInv, Partition, SlotsOrdered, Free, comVars
<1>4. Counters'
  BY <1>1 DEF BeginReader, CoordinatorInv, Counters, Writers
<1> QED
  BY <1>1, <1>2, <1>3, <1>4 DEF CoordinatorInv

LEMMA BeginWriterInv ==
    ASSUME CoordinatorInv, NEW t \in Objs, BeginWriter(t)
    PROVE  CoordinatorInv'
<1>0. /\ t \in Free
      /\ Attach(t)
      /\ recycler' = recycler
      /\ read_only' = [read_only EXCEPT ![t] = FALSE]
      /\ writing_transactions' = writing_transactions + 1
      /\ UNCHANGED <<storages, slot, blocks>>
  BY DEF BeginWriter, Fresh
<1>1. /\ BasesLive' /\ ReaderCount' /\ OnlyStoragesRead' /\ OnlyWritersHold'
      /\ based' \in [Objs -> Objs \cup {NoObj}]
      /\ readers' \in [Objs -> Nat]
      /\ active_transactions' = Cardinality(active')
      /\ {u \in active' : ~read_only'[u]} = Writers \cup {t}
      /\ t \notin active
  BY <1>0, AttachInv
<1>2. TypeOK'
  BY <1>0, <1>1 DEF BeginWriter, Fresh, Attach, CoordinatorInv, TypeOK, comVars, Addr
<1>3. Partition' /\ SlotsOrdered'
  BY <1>0 DEF BeginWriter, Attach, CoordinatorInv, Partition, SlotsOrdered, Free, comVars
<1>4. Counters'
  <2>1. Cardinality(Writers \cup {t}) = Cardinality(Writers) + 1
    BY <1>1, FiniteCounts, FS_AddElement DEF Writers
  <2> QED
    BY <1>0, <1>1, <2>1 DEF CoordinatorInv, Counters, Writers
<1> QED
  BY <1>1, <1>2, <1>3, <1>4 DEF CoordinatorInv

LEMMA StoreInv ==
    ASSUME CoordinatorInv, NEW t \in Objs, NEW a \in Addr, NEW v \in Val,
           Store(t, a, v)
    PROVE  CoordinatorInv'
<1>1. TypeOK'
  <2>1. blocks' \in [Objs -> [Addr -> Val \cup {NoVal}]]
    BY DEF Store, CoordinatorInv, TypeOK
  <2>2. bver' \in [Objs -> [Addr -> Nat]]
    BY DEF Store, CoordinatorInv, TypeOK
  <2>3. next' \in [Objs -> Nat]
    BY DEF Store, Max2, CoordinatorInv, TypeOK, Addr
  <2> QED
    BY <2>1, <2>2, <2>3 DEF Store, CoordinatorInv, TypeOK, comVars, txVars, Addr
<1>2. /\ UNCHANGED <<storages, slot, recycler, active, readers, based, read_only>>
      /\ UNCHANGED <<last_order, writing_transactions, active_transactions>>
  BY DEF Store, comVars, txVars
<1>3. /\ Partition' /\ SlotsOrdered' /\ BasesLive' /\ OnlyStoragesRead'
      /\ Counters' /\ ReaderCount'
  BY <1>2 DEF CoordinatorInv, Partition, SlotsOrdered, BasesLive, OnlyStoragesRead,
              Counters, ReaderCount, Chain
<1>4. OnlyWritersHold'
  <2> SUFFICES ASSUME NEW o \in Objs \ storages, o \notin active \/ read_only[o]
               PROVE  blocks'[o] = Empty
    BY <1>2 DEF OnlyWritersHold, Empty, Addr
  <2>1. o # t
    BY DEF Store
  <2>2. blocks'[o] = blocks[o]
    BY <2>1 DEF Store, CoordinatorInv, TypeOK
  <2> QED
    BY <2>2 DEF CoordinatorInv, OnlyWritersHold
<1> QED
  BY <1>1, <1>3, <1>4 DEF CoordinatorInv

(* A transaction stops reading: the counts of what it read fall by one.    *)
LEMMA DetachedCounts ==
    ASSUME CoordinatorInv, NEW t \in active
    PROVE  /\ Detached(based[t]) \in [Objs -> Nat]
           /\ \A o \in Objs \ storages : Detached(based[t])[o] = 0
           /\ \A o \in storages :
                 Detached(based[t])[o] = Cardinality(Dependants(o) \ {t})
<1>0. /\ t \in Objs /\ readers \in [Objs -> Nat] /\ storages \subseteq Objs
      /\ \A o \in Objs \ storages : readers[o] = 0
      /\ \A o \in storages : readers[o] = Cardinality(Dependants(o))
  BY DEF CoordinatorInv, TypeOK, OnlyStoragesRead, ReaderCount, Dependants
<1>1. ASSUME NEW o \in storages
      PROVE  /\ Detached(based[t])[o] = Cardinality(Dependants(o) \ {t})
             /\ Detached(based[t])[o] \in Nat
  <2>1. IsFiniteSet(Dependants(o)) /\ IsFiniteSet(Dependants(o) \ {t})
    BY FiniteCounts, FS_RemoveElement
  <2>2. Cardinality(Dependants(o) \ {t}) \in Nat
    BY <2>1, FS_CardinalityType
  <2>3. CASE o \in Chain(based[t])
    <3>1. t \in Dependants(o)
      BY <2>3 DEF Dependants
    <3>2. Cardinality(Dependants(o) \ {t}) = Cardinality(Dependants(o)) - 1
      BY <2>1, <3>1, FS_RemoveElement
    <3> QED
      BY <1>0, <2>2, <2>3, <3>2 DEF Detached
  <2>4. CASE o \notin Chain(based[t])
    <3>1. Dependants(o) \ {t} = Dependants(o)
      BY <2>4 DEF Dependants
    <3> QED
      BY <1>0, <2>2, <2>4, <3>1 DEF Detached
  <2> QED
    BY <2>3, <2>4
<1>2. \A o \in Objs \ storages : Detached(based[t])[o] = 0
  BY <1>0 DEF Detached, Chain
<1>3. ASSUME NEW o \in Objs PROVE Detached(based[t])[o] \in Nat
  <2>1. CASE o \in storages
    BY <1>1, <2>1
  <2>2. CASE o \notin storages
    <3>1. Detached(based[t])[o] = 0
      BY <1>2, <2>2
    <3> QED
      BY <3>1
  <2> QED
    BY <2>1, <2>2
<1>4. Detached(based[t]) \in [Objs -> Nat]
  <2> DEFINE d == Detached(based[t])
  <2>1. d = [p \in Objs |-> d[p]]
    BY DEF Detached
  <2> HIDE DEF d
  <2>2. \A p \in Objs : d[p] \in Nat
    BY <1>3 DEF d
  <2>3. d \in [Objs -> Nat]
    BY <2>1, <2>2
  <2> QED
    BY <2>3 DEF d
<1> QED
  BY <1>1, <1>2, <1>4

LEMMA DiscardInv ==
    ASSUME CoordinatorInv, NEW t \in Objs, Discard(t)
    PROVE  CoordinatorInv'
<1>0. /\ t \in active /\ t \notin storages
      /\ active' = active \ {t}
      /\ readers' = Detached(based[t])
      /\ read_only' = [read_only EXCEPT ![t] = TRUE]
      /\ recycler' \subseteq recycler \cup {t}
      /\ blocks' = [blocks EXCEPT ![t] = Empty]
      /\ UNCHANGED <<storages, slot, based, last_order>>
  BY DEF Discard, comVars, CoordinatorInv, Partition
<1>1. /\ readers' \in [Objs -> Nat]
      /\ \A o \in Objs \ storages : readers'[o] = 0
      /\ \A o \in storages : readers'[o] = Cardinality(Dependants(o) \ {t})
  BY <1>0, DetachedCounts
<1>2. Counters'
  <2>1. active_transactions' = Cardinality(active')
    BY <1>0, FiniteCounts, FS_RemoveElement DEF Discard, CoordinatorInv, Counters
  <2>2. CASE read_only[t]
    <3>1. {u \in active' : ~read_only'[u]} = Writers
      BY <1>0, <2>2 DEF Writers, CoordinatorInv, TypeOK
    <3> QED
      BY <2>1, <2>2, <3>1 DEF Discard, CoordinatorInv, Counters, Writers
  <2>3. CASE ~read_only[t]
    <3>1. {u \in active' : ~read_only'[u]} = Writers \ {t} /\ t \in Writers
      BY <1>0, <2>3 DEF Writers, CoordinatorInv, TypeOK
    <3>2. Cardinality(Writers \ {t}) = Cardinality(Writers) - 1
      BY <3>1, FiniteCounts, FS_RemoveElement
    <3> QED
      BY <2>1, <2>3, <3>1, <3>2 DEF Discard, CoordinatorInv, Counters, Writers
  <2> QED
    BY <2>2, <2>3
<1>3. TypeOK'
  <2>1. active_transactions' \in Nat /\ writing_transactions' \in Nat
    <3>1. IsFiniteSet(active') /\ IsFiniteSet({u \in active' : ~read_only'[u]})
      BY <1>0, FiniteCounts, FS_Subset
    <3> QED
      BY <1>2, <3>1, FS_CardinalityType DEF Counters
  <2>2. /\ blocks' \in [Objs -> [Addr -> Val \cup {NoVal}]]
        /\ bver' \in [Objs -> [Addr -> Nat]]
    BY DEF Discard, CoordinatorInv, TypeOK, Empty, ZeroVersions
  <2> QED
    BY <1>0, <1>1, <2>1, <2>2 DEF Discard, CoordinatorInv, TypeOK, comVars, Addr
<1>4. Partition' /\ SlotsOrdered' /\ BasesLive' /\ OnlyStoragesRead'
  BY <1>0, <1>1 DEF CoordinatorInv, Partition, SlotsOrdered, BasesLive, OnlyStoragesRead
<1>5. OnlyWritersHold'
  <2> SUFFICES ASSUME NEW o \in Objs \ storages, o \notin active' \/ read_only'[o]
               PROVE  blocks'[o] = Empty
    BY <1>0 DEF OnlyWritersHold, Empty, Addr
  <2> QED
    BY <1>0 DEF CoordinatorInv, TypeOK, OnlyWritersHold
<1>6. ReaderCount'
  <2> SUFFICES ASSUME NEW o \in storages
               PROVE  readers'[o] = Cardinality({u \in active' : o \in Chain(based[u])'})
    BY <1>0 DEF ReaderCount
  <2>1. {u \in active' : o \in Chain(based[u])'} = Dependants(o) \ {t}
    BY <1>0 DEF Dependants, Chain
  <2> QED
    BY <1>1, <2>1
<1> QED
  BY <1>2, <1>3, <1>4, <1>5, <1>6 DEF CoordinatorInv

-----------------------------------------------------------------------------
(* commit, before merge_down: the writer becomes the uppermost version, no *)
(* one reads it yet, and the base of every other transaction is still read.*)
LEMMA CommitFacts ==
    ASSUME CoordinatorInv, NEW t \in Objs, Commit(t)
    PROVE  /\ t \in active /\ t \notin storages /\ ~read_only[t]
           /\ active' = active \ {t}
           /\ slot' = [slot EXCEPT ![t] = last_order]
           /\ readers' = Detached(based[t])
           /\ MergeDown(storages \cup {t}, slot', readers')
           /\ \A o \in storages : slot'[o] = slot[o] /\ slot[o] < slot'[t]
           /\ readers'[t] = 0
           /\ \A o \in storages : readers'[o] = Cardinality(Dependants(o) \ {t})
           /\ \A u \in active', o \in storages :
                 o \in Chain(based[u]) => readers'[o] # 0
<1>1. /\ t \in active /\ t \notin storages /\ ~read_only[t]
      /\ active' = active \ {t}
      /\ slot' = [slot EXCEPT ![t] = last_order]
      /\ readers' = Detached(based[t])
      /\ MergeDown(storages \cup {t}, slot', readers')
  BY DEF Commit, Push, MayFinish, CoordinatorInv, Partition
<1>2. \A o \in storages : slot'[o] = slot[o] /\ slot[o] < slot'[t]
  BY <1>1 DEF CoordinatorInv, TypeOK, SlotsOrdered
<1>3. /\ readers'[t] = 0
      /\ \A o \in storages : readers'[o] = Cardinality(Dependants(o) \ {t})
  BY <1>1, DetachedCounts
<1>4. ASSUME NEW u \in active', NEW o \in storages, o \in Chain(based[u])
      PROVE  readers'[o] # 0
  <2>1. u \in Dependants(o) \ {t}
    BY <1>1, <1>4 DEF Dependants
  <2>2. IsFiniteSet(Dependants(o) \ {t})
    BY FiniteCounts, FS_RemoveElement
  <2>3. Cardinality(Dependants(o) \ {t}) # 0
    BY <2>1, <2>2, FS_EmptySet
  <2> QED
    BY <1>3, <2>3
<1> QED
  BY <1>1, <1>2, <1>3, <1>4

LEMMA CommitInv ==
    ASSUME CoordinatorInv, NEW t \in Objs, Commit(t)
    PROVE  CoordinatorInv'
<1> DEFINE S == storages \cup {t}
<1>0. /\ t \in active /\ t \notin storages /\ ~read_only[t]
      /\ active' = active \ {t}
      /\ slot' = [slot EXCEPT ![t] = last_order]
      /\ readers' = Detached(based[t])
      /\ MergeDown(S, slot', readers')
      /\ \A o \in storages : slot'[o] = slot[o] /\ slot[o] < slot'[t]
      /\ readers'[t] = 0
      /\ \A o \in storages : readers'[o] = Cardinality(Dependants(o) \ {t})
      /\ \A u \in active', o \in storages : o \in Chain(based[u]) => readers'[o] # 0
  BY CommitFacts
<1>1. /\ active_transactions' = active_transactions - 1
      /\ writing_transactions' = writing_transactions - 1
      /\ read_only' = [read_only EXCEPT ![t] = TRUE]
      /\ last_address' = Max2(last_address, next[t])
      /\ last_comitted_version' = version[t]
      /\ last_order' = last_order + 1
      /\ UNCHANGED <<recycler, clock, journal_synching, based, version, order,
                     next, modified, writing_transaction>>
  BY DEF Commit, Publish, Push
<1>2. /\ S \in SUBSET Objs /\ S # {} /\ slot' \in [Objs -> Nat]
      /\ storages \subseteq Objs /\ t \in S
  BY <1>0 DEF CoordinatorInv, TypeOK
<1>3. /\ storages' \subseteq S /\ storages' # {}
      /\ blocks' \in [Objs -> [Addr -> Val \cup {NoVal}]]
      /\ bver' \in [Objs -> [Addr -> Nat]]
      /\ \A p \in S : readers'[p] # 0 => p \in storages'
      /\ \A p \in Objs : p \notin S \/ readers'[p] # 0 => blocks'[p] = blocks[p]
      /\ \A p \in S \ storages' : readers'[p] = 0 /\ blocks'[p] = Empty
  <2>1. S \in SUBSET Objs /\ S # {} /\ slot' \in [Objs -> Nat]
        /\ MergeDown(S, slot', readers')
    BY <1>0, <1>2
  <2> HIDE DEF S
  <2> QED
    BY <2>1, MergeDownLeaves, Zenon
<1>4. /\ readers' \in [Objs -> Nat]
      /\ \A o \in Objs \ storages : readers'[o] = 0
  BY <1>0, DetachedCounts
<1>5. Counters'
  <2>1. active_transactions' = Cardinality(active')
    BY <1>0, <1>1, FiniteCounts, FS_RemoveElement DEF CoordinatorInv, Counters
  <2>2. {u \in active' : ~read_only'[u]} = Writers \ {t} /\ t \in Writers
    BY <1>0, <1>1 DEF Writers, CoordinatorInv, TypeOK
  <2>3. Cardinality(Writers \ {t}) = Cardinality(Writers) - 1
    BY <2>2, FiniteCounts, FS_RemoveElement
  <2> QED
    BY <1>1, <2>1, <2>2, <2>3 DEF CoordinatorInv, Counters, Writers
<1>6. TypeOK'
  <2>1. active_transactions' \in Nat /\ writing_transactions' \in Nat
    <3>1. IsFiniteSet(active') /\ IsFiniteSet({u \in active' : ~read_only'[u]})
      BY <1>0, FiniteCounts, FS_Subset
    <3> QED
      BY <1>5, <3>1, FS_CardinalityType DEF Counters
  <2>2. storages' \subseteq Objs
    BY <1>2, <1>3
  <2>3. last_address' \in Nat /\ last_comitted_version' \in Nat /\ last_order' \in Nat
    BY <1>1 DEF Max2, CoordinatorInv, TypeOK
  <2>4. active' \subseteq Objs /\ read_only' \in [Objs -> BOOLEAN]
    BY <1>0, <1>1 DEF CoordinatorInv, TypeOK
  <2>5. /\ blocks' \in [Objs -> [Addr -> Val \cup {NoVal}]]
        /\ bver' \in [Objs -> [Addr -> Nat]]
    BY <1>3
  <2>6. TypeOK
    BY DEF CoordinatorInv
  <2> QED
    BY <1>1, <1>2, <1>4, <2>1, <2>2, <2>3, <2>4, <2>5, <2>6 DEF TypeOK, Addr
<1>7. Partition'
  BY <1>0, <1>1, <1>3 DEF CoordinatorInv, Partition
<1>8. SlotsOrdered'
  <2>1. \A o \in S : slot'[o] < last_order'
    BY <1>0, <1>1 DEF CoordinatorInv, SlotsOrdered, TypeOK
  <2>2. \A o, p \in S : slot'[o] = slot'[p] => o = p
    <3> SUFFICES ASSUME NEW o \in S, NEW p \in S, slot'[o] = slot'[p]
                 PROVE  o = p
      OBVIOUS
    <3>1. slot'[o] \in Int /\ slot'[p] \in Int /\ slot'[t] \in Int
      BY <1>2
    <3>2. o = t <=> p = t
      BY <1>0, <3>1
    <3>3. CASE o # t
      BY <1>0, <3>2, <3>3 DEF CoordinatorInv, SlotsOrdered
    <3> QED
      BY <3>2, <3>3
  <2> QED
    BY <1>3, <2>1, <2>2 DEF SlotsOrdered
<1>9. BasesLive'
  <2> SUFFICES ASSUME NEW u \in active' PROVE based[u] \in storages'
    BY <1>1 DEF BasesLive
  <2>1. based[u] \in storages /\ based[u] \in Chain(based[u])
    BY <1>0 DEF CoordinatorInv, BasesLive, Chain, TypeOK
  <2> QED
    BY <1>0, <1>3, <2>1
<1>10. OnlyStoragesRead'
  BY <1>2, <1>3, <1>4 DEF OnlyStoragesRead
<1>11. OnlyWritersHold'
  <2> SUFFICES ASSUME NEW o \in Objs \ storages', o \notin active' \/ read_only'[o]
               PROVE  blocks'[o] = Empty
    BY DEF OnlyWritersHold, Empty, Addr
  <2>1. CASE o \in S
    BY <1>3, <2>1
  <2>2. CASE o \notin S
    <3>1. blocks'[o] = blocks[o]
      BY <1>3, <2>2
    <3>2. o \notin storages /\ (o \notin active \/ read_only[o])
      BY <1>0, <1>1, <2>2 DEF CoordinatorInv, TypeOK
    <3> QED
      BY <3>1, <3>2 DEF CoordinatorInv, OnlyWritersHold
  <2> QED
    BY <2>1, <2>2
<1>12. ReaderCount'
  <2> SUFFICES ASSUME NEW o \in storages'
               PROVE  readers'[o] = Cardinality({u \in active' : o \in Chain(based[u])'})
    BY DEF ReaderCount
  <2>0. \A u \in active' : based[u] \in storages /\ based'[u] = based[u]
    BY <1>0, <1>1 DEF CoordinatorInv, BasesLive
  <2>1. CASE o = t
    <3>1. {u \in active' : o \in Chain(based[u])'} = {}
      <4> SUFFICES ASSUME NEW u \in active' PROVE ~(slot'[t] <= slot'[based[u]])
        BY <1>1, <2>0, <2>1 DEF Chain
      <4> QED
        BY <1>0, <1>2, <2>0
    <3> QED
      BY <1>0, <2>1, <3>1, FS_EmptySet
  <2>2. CASE o \in storages
    <3>1. {u \in active' : o \in Chain(based[u])'} = Dependants(o) \ {t}
      <4>1. ASSUME NEW u \in active'
            PROVE  o \in Chain(based[u])' <=> o \in Chain(based[u])
        BY <1>0, <2>0, <2>2 DEF Chain
      <4> QED
        BY <1>0, <4>1 DEF Dependants
    <3> QED
      BY <1>0, <2>2, <3>1
  <2> QED
    BY <1>3, <2>1, <2>2
<1> QED
  BY <1>5, <1>6, <1>7, <1>8, <1>9, <1>10, <1>11, <1>12 DEF CoordinatorInv

LEMMA MergeInv ==
    ASSUME CoordinatorInv, NEW t \in Objs, Merge(t)
    PROVE  CoordinatorInv'
<1>0. /\ t \in active /\ ~read_only[t] /\ t \notin storages
      /\ Newest \in storages
      /\ UNCHANGED <<storages, slot, recycler, active, readers, based, read_only>>
      /\ UNCHANGED <<next, journal_synching>>
      /\ UNCHANGED <<active_transactions, writing_transactions, writing_transaction>>
      /\ last_order' = last_order + 1
  BY NewestIsLast DEF Merge, Renew, MayFinish, CoordinatorInv, Partition, txVars
<1>1. TypeOK
  BY DEF CoordinatorInv
<1>2. /\ blocks' \in [Objs -> [Addr -> Val \cup {NoVal}]]
      /\ \A o \in Objs \ storages : o # t => blocks'[o] = blocks[o]
      /\ blocks'[t] = Empty
  <2> DEFINE b == [a \in Addr |-> IF blocks[t][a] # NoVal
                                  THEN blocks[t][a] ELSE blocks[Newest][a]]
  <2>1. b \in [Addr -> Val \cup {NoVal}] /\ Empty \in [Addr -> Val \cup {NoVal}]
    BY <1>0, <1>1 DEF TypeOK, Empty
  <2>2. blocks' = [blocks EXCEPT ![Newest] = b, ![t] = Empty]
    BY DEF Merge, Move
  <2> HIDE DEF b
  <2> QED
    BY <1>0, <1>1, <2>1, <2>2 DEF TypeOK
<1>3. bver' \in [Objs -> [Addr -> Nat]]
  <2> DEFINE b == [a \in Addr |-> IF blocks[t][a] # NoVal
                                  THEN bver[t][a] ELSE bver[Newest][a]]
  <2>1. b \in [Addr -> Nat] /\ ZeroVersions \in [Addr -> Nat]
    BY <1>0, <1>1 DEF TypeOK, ZeroVersions
  <2>2. bver' = [bver EXCEPT ![Newest] = b, ![t] = ZeroVersions]
    BY DEF Merge, Move
  <2> HIDE DEF b
  <2> QED
    BY <1>1, <2>1, <2>2 DEF TypeOK
<1>4. TypeOK'
  <2>1. /\ version' \in [Objs -> Nat] /\ order' \in [Objs -> Nat]
        /\ modified' \in [Objs -> BOOLEAN] /\ clock' \in Nat /\ last_order' \in Nat
        /\ last_address' \in Nat /\ last_comitted_version' \in Nat
    BY <1>1 DEF Merge, Move, Publish, Renew, TypeOK, Max2
  <2> QED
    BY <1>0, <1>1, <1>2, <1>3, <2>1 DEF TypeOK, Addr
<1>5. /\ Partition' /\ BasesLive' /\ OnlyStoragesRead' /\ Counters' /\ ReaderCount'
  BY <1>0 DEF CoordinatorInv, Partition, BasesLive, OnlyStoragesRead, Counters,
              ReaderCount, Chain
<1>6. SlotsOrdered'
  BY <1>0, <1>1 DEF CoordinatorInv, SlotsOrdered, TypeOK
<1>7. OnlyWritersHold'
  <2> SUFFICES ASSUME NEW o \in Objs \ storages, o \notin active \/ read_only[o]
               PROVE  blocks'[o] = Empty
    BY <1>0 DEF OnlyWritersHold, Empty, Addr
  <2> QED
    BY <1>0, <1>2 DEF CoordinatorInv, OnlyWritersHold
<1> QED
  BY <1>4, <1>5, <1>6, <1>7 DEF CoordinatorInv

LEMMA MakeSingularInv ==
    ASSUME CoordinatorInv, MakeSingular
    PROVE  CoordinatorInv'
<1>0. /\ MergeDown(storages, slot, readers)
      /\ UNCHANGED <<slot, recycler, active, readers, clock, journal_synching>>
      /\ UNCHANGED <<based, version, order, read_only, next, modified>>
      /\ UNCHANGED <<active_transactions, writing_transactions, writing_transaction>>
      /\ UNCHANGED <<last_order, last_address, last_comitted_version>>
      /\ storages \in SUBSET Objs /\ storages # {} /\ slot \in [Objs -> Nat]
  BY DEF MakeSingular, objVars, txVars, comVars, CoordinatorInv, TypeOK, Partition
<1>1. /\ storages' \subseteq storages /\ storages' # {}
      /\ blocks' \in [Objs -> [Addr -> Val \cup {NoVal}]]
      /\ bver' \in [Objs -> [Addr -> Nat]]
      /\ \A p \in storages : readers[p] # 0 => p \in storages'
      /\ \A p \in Objs : p \notin storages \/ readers[p] # 0 => blocks'[p] = blocks[p]
      /\ \A p \in storages \ storages' : readers[p] = 0 /\ blocks'[p] = Empty
  BY <1>0, MergeDownLeaves, Zenon
<1>2. TypeOK'
  <2>1. TypeOK /\ storages' \subseteq Objs
    BY <1>0, <1>1 DEF CoordinatorInv
  <2> QED
    BY <1>0, <1>1, <2>1 DEF TypeOK, Addr
<1>3. Partition' /\ SlotsOrdered' /\ OnlyStoragesRead' /\ Counters'
  BY <1>0, <1>1 DEF CoordinatorInv, Partition, SlotsOrdered, OnlyStoragesRead, Counters
<1>4. ASSUME NEW u \in active, NEW o \in Chain(based[u])
      PROVE  readers[o] # 0
  <2>1. o \in storages /\ u \in Dependants(o)
    BY <1>4 DEF Chain, Dependants
  <2>2. Cardinality(Dependants(o)) # 0
    BY <2>1, FiniteCounts, FS_EmptySet
  <2> QED
    BY <2>1, <2>2 DEF CoordinatorInv, ReaderCount, Dependants
<1>5. BasesLive'
  <2> SUFFICES ASSUME NEW u \in active PROVE based[u] \in storages'
    BY <1>0 DEF BasesLive
  <2>1. based[u] \in storages /\ based[u] \in Chain(based[u])
    BY DEF CoordinatorInv, BasesLive, Chain, TypeOK
  <2> QED
    BY <1>1, <1>4, <2>1
<1>6. OnlyWritersHold'
  <2> SUFFICES ASSUME NEW o \in Objs \ storages', o \notin active \/ read_only[o]
               PROVE  blocks'[o] = Empty
    BY <1>0 DEF OnlyWritersHold, Empty, Addr
  <2> QED
    BY <1>0, <1>1 DEF CoordinatorInv, OnlyWritersHold
<1>7. ReaderCount'
  <2> SUFFICES ASSUME NEW o \in storages'
               PROVE  readers[o] = Cardinality({u \in active : o \in Chain(based[u])'})
    BY <1>0 DEF ReaderCount
  <2>1. {u \in active : o \in Chain(based[u])'} = {u \in active : o \in Chain(based[u])}
    BY <1>0, <1>1 DEF Chain
  <2> QED
    BY <1>1, <2>1 DEF CoordinatorInv, ReaderCount
<1> QED
  BY <1>2, <1>3, <1>5, <1>6, <1>7 DEF CoordinatorInv

(* Steps that leave everything the invariant speaks of as it is.           *)
LEMMA SynchInv ==
    ASSUME CoordinatorInv, JournalSynchStart \/ JournalSynchEnd \/ UNCHANGED vars
    PROVE  CoordinatorInv'
<1>1. /\ UNCHANGED <<storages, slot, recycler, active, readers, blocks, bver, clock>>
      /\ UNCHANGED <<based, version, order, read_only, next, modified>>
      /\ UNCHANGED <<active_transactions, writing_transactions, writing_transaction>>
      /\ UNCHANGED <<last_order, last_address, last_comitted_version>>
      /\ journal_synching' \in BOOLEAN
  BY DEF JournalSynchStart, JournalSynchEnd, vars, objVars, txVars, comVars,
         CoordinatorInv, TypeOK
<1>2. TypeOK'
  BY <1>1 DEF CoordinatorInv, TypeOK, Addr
<1>3. /\ Partition' /\ SlotsOrdered' /\ BasesLive' /\ OnlyStoragesRead'
      /\ OnlyWritersHold' /\ Counters' /\ ReaderCount'
  BY <1>1 DEF CoordinatorInv, Partition, SlotsOrdered, BasesLive, OnlyStoragesRead,
              OnlyWritersHold, Counters, ReaderCount, Chain, Empty, Addr
<1> QED
  BY <1>2, <1>3 DEF CoordinatorInv

LEMMA NextInv == CoordinatorInv /\ [Next]_vars => CoordinatorInv'
<1> SUFFICES ASSUME CoordinatorInv, [Next]_vars PROVE CoordinatorInv'
  OBVIOUS
<1>1. ASSUME NEW t \in Objs, BeginReader(t) PROVE CoordinatorInv'
  BY <1>1, BeginReaderInv
<1>2. ASSUME NEW t \in Objs, BeginWriter(t) PROVE CoordinatorInv'
  BY <1>2, BeginWriterInv
<1>3. ASSUME NEW t \in Objs, NEW a \in Addr, NEW v \in Val, Store(t, a, v)
      PROVE  CoordinatorInv'
  BY <1>3, StoreInv
<1>4. ASSUME NEW t \in Objs, NEW v \in Val, Create(t, v) PROVE CoordinatorInv'
  BY <1>4, StoreInv DEF Create
<1>5. ASSUME NEW t \in Objs, Discard(t) PROVE CoordinatorInv'
  BY <1>5, DiscardInv
<1>6. ASSUME NEW t \in Objs, Commit(t) PROVE CoordinatorInv'
  BY <1>6, CommitInv
<1>7. ASSUME NEW t \in Objs, Merge(t) PROVE CoordinatorInv'
  BY <1>7, MergeInv
<1>8. ASSUME MakeSingular PROVE CoordinatorInv'
  BY <1>8, MakeSingularInv
<1>9. ASSUME JournalSynchStart \/ JournalSynchEnd \/ UNCHANGED vars
      PROVE  CoordinatorInv'
  BY <1>9, SynchInv
<1> QED
  BY <1>1, <1>2, <1>3, <1>4, <1>5, <1>6, <1>7, <1>8, <1>9 DEF Next

(* The coordinator's bookkeeping is right whatever begin, store, discard,  *)
(* commit, merge and the journal do: reader counts are exact (so           *)
(* remove_reader never underflows and is_unused never lies to merge_down), *)
(* the base of a transaction is never merged away, and no version but the  *)
(* committed ones and the writer's holds a block.                          *)
THEOREM CoordinatorCorrect == Spec => []CoordinatorInv
<1>1. Init => CoordinatorInv
  BY InitInv
<1>2. CoordinatorInv /\ [Next]_vars => CoordinatorInv'
  BY NextInv
<1> QED
  BY <1>1, <1>2, PTL DEF Spec

-----------------------------------------------------------------------------
(* merge_down of versions that nobody reads leaves the lowest only.        *)
LEMMA AllUnusedMerge ==
    ASSUME NEW S, IsFiniteSet(S), S # {}, NEW sl, \A x \in S : sl[x] \in Int,
           \A x, y \in S : sl[x] = sl[y] => x = y,
           NEW rd, \A x \in S : rd[x] = 0
    PROVE  Cardinality(S \ MergedAway(S, sl, rd)) = 1
<1>1. PICK x \in S : \A y \in S : sl[x] <= sl[y]
  BY LeastBy
<1>2. x \notin MergedAway(S, sl, rd)
  BY <1>1 DEF MergedAway, Below
<1>3. ASSUME NEW y \in S, y # x PROVE y \in MergedAway(S, sl, rd)
  <2> DEFINE B == {z \in S : sl[z] < sl[y]}
  <2>1. x \in B /\ IsFiniteSet(B) /\ \A z \in B : sl[z] \in Int
    BY <1>1, <1>3, FS_Subset
  <2>2. PICK z \in B : \A w \in B : sl[w] <= sl[z]
    <3> HIDE DEF B
    <3> QED
      BY <2>1, GreatestBy
  <2>3. z \in Below(S, sl, y)
    BY <2>2 DEF Below
  <2>4. z \in S
    OBVIOUS
  <2> QED
    BY <2>3, <2>4 DEF MergedAway
<1>4. S \ MergedAway(S, sl, rd) = {x}
  BY <1>2, <1>3
<1> QED
  BY <1>4, FS_Singleton

(* Slots tell the versions of the vector apart.                            *)
LEMMA VectorOrdered ==
    ASSUME CoordinatorInv
    PROVE  /\ IsFiniteSet(storages) /\ storages # {}
           /\ \A x \in storages : slot[x] \in Int /\ slot[x] < last_order
           /\ \A x, y \in storages : slot[x] = slot[y] => x = y
BY FS_Subset, ObjsAssumption DEF CoordinatorInv, TypeOK, Partition, SlotsOrdered

(* A commit with no other transaction underway finds its own reader counts *)
(* only, takes them away, and leaves the lowest version.                   *)
LEMMA LastCommitLeavesOne ==
    ASSUME CoordinatorInv, NEW t \in Objs, Commit(t), active' = {}, ~journal_synching
    PROVE  Cardinality(storages') = 1
<1>1. active = {t} /\ t \notin storages /\ based[t] = Newest
  BY DEF Commit, MayFinish, CoordinatorInv, Partition
<1>2. PICK sl : sl = [slot EXCEPT ![t] = last_order]
  OBVIOUS
<1>3. PICK S : S = storages \cup {t}
  OBVIOUS
<1>4. PICK rd : rd = Detached(Newest)
  OBVIOUS
<1>5. storages' = S \ MergedAway(S, sl, rd)
  BY <1>1, <1>2, <1>3, <1>4 DEF Commit, Push, MergeDown
<1>6. \A x \in storages : sl[x] = slot[x]
  BY <1>1, <1>2 DEF CoordinatorInv, TypeOK
<1>7. sl[t] = last_order /\ last_order \in Int
  BY <1>2 DEF CoordinatorInv, TypeOK
<1>8. IsFiniteSet(S) /\ S # {}
  BY <1>3, VectorOrdered, FS_AddElement
<1>9. \A x \in S : sl[x] \in Int
  BY <1>3, <1>6, <1>7, VectorOrdered
<1>10. \A x, y \in S : sl[x] = sl[y] => x = y
  <2> SUFFICES ASSUME NEW x \in S, NEW y \in S, sl[x] = sl[y] PROVE x = y
    OBVIOUS
  <2>1. CASE x \in storages /\ y \in storages
    BY <1>6, <2>1, VectorOrdered
  <2>2. CASE x = t /\ y = t
    BY <2>2
  <2>3. CASE x = t /\ y \in storages
    BY <1>6, <1>7, <2>3, VectorOrdered
  <2>4. CASE x \in storages /\ y = t
    BY <1>6, <1>7, <2>4, VectorOrdered
  <2> QED
    BY <1>3, <2>1, <2>2, <2>3, <2>4
<1>11. \A x \in S : rd[x] = 0
  <2>1. ASSUME NEW x \in storages PROVE x \in Chain(Newest) /\ x \in Objs
    <3>1. PICK y \in storages : \A z \in storages : slot[z] <= slot[y]
      BY VectorOrdered, GreatestBy
    <3>2. \A z \in storages : slot[z] <= slot[Newest]
      BY <3>1 DEF Newest, Top
    <3> QED
      BY <3>2 DEF Chain, CoordinatorInv, TypeOK
  <2>2. ASSUME NEW x \in storages PROVE rd[x] = 0
    <3>1. {u \in active : x \in Chain(based[u])} = {t}
      BY <1>1, <2>1
    <3>2. readers[x] = 1
      BY <3>1, FS_Singleton DEF CoordinatorInv, ReaderCount
    <3> QED
      BY <1>4, <2>1, <3>2 DEF Detached
  <2>3. rd[t] = 0
    <3>1. t \notin Chain(Newest)
      BY <1>1 DEF Chain
    <3>2. readers[t] = 0
      BY <1>1 DEF CoordinatorInv, OnlyStoragesRead
    <3> QED
      BY <1>4, <3>1, <3>2 DEF Detached
  <2> QED
    BY <1>3, <2>2, <2>3
<1> QED
  BY <1>5, <1>8, <1>9, <1>10, <1>11, AllUnusedMerge

(* merge_down leaves one table when nothing is underway: no reader is      *)
(* counted that is not there, so none of the versions looks in use.        *)
THEOREM IdleLeavesOne == Spec => IdleMergesToOne
<1>1. ASSUME CoordinatorInv, active = {}
      PROVE  Cardinality(storages \ MergedAway(storages, slot, readers)) = 1
  <2>1. \A o \in storages : readers[o] = 0
    <3> SUFFICES ASSUME NEW o \in storages PROVE readers[o] = 0
      OBVIOUS
    <3>1. {t \in active : o \in Chain(based[t])} = {}
      BY <1>1
    <3> QED
      BY <1>1, <3>1, FS_EmptySet DEF CoordinatorInv, ReaderCount
  <2> QED
    BY <1>1, <2>1, VectorOrdered, AllUnusedMerge
<1>2. ASSUME CoordinatorInv, Next, active' = {}, last_order' # last_order, ~journal_synching
      PROVE  Cardinality(storages') = 1
  <2>1. PICK t \in Objs : Commit(t) \/ Merge(t)
    <3>1. \A t \in Objs : BeginReader(t) \/ BeginWriter(t) \/ Discard(t) =>
              last_order' = last_order
      BY DEF BeginReader, BeginWriter, Discard, comVars
    <3>2. \A t \in Objs : \A a, v : Store(t, a, v) => last_order' = last_order
      BY DEF Store, comVars
    <3>3. \A t \in Objs : \A v : Create(t, v) => last_order' = last_order
      BY <3>2 DEF Create
    <3>4. MakeSingular \/ JournalSynchStart \/ JournalSynchEnd => last_order' = last_order
      BY DEF MakeSingular, JournalSynchStart, JournalSynchEnd, comVars
    <3> QED
      BY <1>2, <3>1, <3>2, <3>3, <3>4 DEF Next
  <2>2. ~Merge(t)
    BY <1>2 DEF Merge
  <2> QED
    BY <1>2, <2>1, <2>2, LastCommitLeavesOne
<1>3. CoordinatorInv /\ [Next]_vars =>
        [active' = {} /\ last_order' # last_order /\ ~journal_synching =>
             Cardinality(storages') = 1]_vars
  BY <1>2
<1>4. CoordinatorInv =>
        (active = {} => Cardinality(storages \ MergedAway(storages, slot, readers)) = 1)
  BY <1>1
<1> QED
  BY <1>3, <1>4, CoordinatorCorrect, PTL DEF Spec, IdleMergesToOne
=============================================================================
