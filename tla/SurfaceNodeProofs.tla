------------------------- MODULE SurfaceNodeProofs --------------------------
(***************************************************************************)
(* Proofs about the inside of a leaf page, for every number of slots, every *)
(* length of the leaves and every number of operations.                     *)
(*                                                                          *)
(* In the middle of a loop that walks down, the positions that have a cell  *)
(* are not the first ones.  Sound is what every round keeps, Leaf what      *)
(* every operation restores.                                                *)
(***************************************************************************)
EXTENDS SurfaceNode, SequenceTheorems, FiniteSetTheorems, WellFoundedInduction, TLAPS

USE SlotsAssumption

Entries == 1..(3 * Slots + MaxSteps)

PageType ==
    [occupants : Nat, allocated : Nat, threw : BOOLEAN,
     permutations : [Positions -> 0..Slots], cells : [Positions -> Nat]]

\* The positions that have a cell
Held(p) == {i \in Positions : p.permutations[i] # Unset}

\* As many cells are handed out as positions have one, none of them twice.
Sound(p) ==
    /\ p \in PageType
    /\ ~p.threw
    /\ \A i \in Held(p) : p.permutations[i] < p.allocated
    /\ \A i, j \in Held(p) : p.permutations[i] = p.permutations[j] => i = j
    /\ Cardinality(Held(p)) = p.allocated

\* Between operations the positions with a cell are the first ones.
Leaf(p) ==
    /\ Sound(p)
    /\ Held(p) = 0..(p.allocated - 1)
    /\ p.occupants <= p.allocated
    /\ \A i \in 0..(p.occupants - 1) : Read(p, i) \in Entries

LeavesInv == Leaf(left) /\ Leaf(right) /\ steps \in 0..MaxSteps

----------------------------------------------------------------------------
(* Natural numbers and cardinalities                                       *)

\* A nonempty set of numbers has a first one: the induction of the loops.
LEMMA FirstOne ==
    ASSUME NEW S \in SUBSET Nat, S # {}
    PROVE  \E d \in S : \A e \in S : d <= e
<1>1. PICK d \in S : \A e \in S : ~(<<e, d>> \in OpToRel(<, Nat))
  BY NatLessThanWellFounded, WFMin
<1>2. ASSUME NEW e \in S PROVE d <= e
  <2>1. d \in Nat /\ e \in Nat
    OBVIOUS
  <2>2. ~(e < d)
    BY <1>1, <2>1 DEF OpToRel
  <2> QED
    BY <2>1, <2>2
<1> QED
  BY <1>2

LEMMA PositionsFinite ==
    /\ IsFiniteSet(Positions) /\ Cardinality(Positions) = Slots
    /\ \A S \in SUBSET Positions :
        /\ IsFiniteSet(S) /\ Cardinality(S) \in 0..Slots
        /\ S # Positions => Cardinality(S) < Slots
<1>1. IsFiniteSet(Positions) /\ Cardinality(Positions) = Slots
  BY FS_Interval DEF Positions
<1>2. ASSUME NEW S \in SUBSET Positions
      PROVE  /\ IsFiniteSet(S) /\ Cardinality(S) \in 0..Slots
             /\ S # Positions => Cardinality(S) < Slots
  <2>1. /\ IsFiniteSet(S) /\ Cardinality(S) <= Cardinality(Positions)
        /\ Cardinality(S) = Cardinality(Positions) => S = Positions
    BY <1>1, FS_Subset
  <2>2. Cardinality(S) \in Nat
    BY <2>1, FS_CardinalityType
  <2> QED
    BY <1>1, <2>1, <2>2
<1> QED
  BY <1>1, <1>2

LEMMA FirstN ==
    ASSUME NEW n \in Nat
    PROVE  IsFiniteSet(0..(n - 1)) /\ Cardinality(0..(n - 1)) = n
<1>1. 0 \in Int /\ n - 1 \in Int
  OBVIOUS
<1> QED
  BY <1>1, FS_Interval

\* The first m positions: m cells are handed out.
LEMMA FirstPositions ==
    ASSUME NEW p, Sound(p), NEW m \in 0..Slots, Held(p) = 0..(m - 1)
    PROVE  p.allocated = m
<1>1. Cardinality(0..(m - 1)) = m
  BY FS_Interval
<1> QED
  BY <1>1 DEF Sound

----------------------------------------------------------------------------
(* One write                                                               *)

\* What a write does to a sound page: it throws nothing, gives at a cell and
\* the entry, and leaves what the other positions read as it was.
Wrote(q, p, at, e) ==
    /\ Sound(q)
    /\ q.occupants = p.occupants
    /\ Held(q) = Held(p) \cup {at}
    /\ Read(q, at) = e
    /\ \A i \in Positions \ {at} : Read(q, i) = Read(p, i)

LEMMA StoreWrites ==
    ASSUME NEW p, Sound(p), NEW at \in Held(p), NEW e \in Nat
    PROVE  Wrote(Store(p, at, e), p, at, e)
<1> DEFINE c == p.permutations[at]
           q == [p EXCEPT !.cells[c] = e]
<1>1. p \in PageType /\ ~p.threw /\ at \in Positions /\ c # Unset
  BY DEF Sound, Held
<1>2. c \in Positions
  BY <1>1 DEF PageType, Positions, Unset
<1>3. q \in PageType
  BY <1>1, <1>2 DEF PageType
<1>4. /\ q.permutations = p.permutations /\ q.allocated = p.allocated
      /\ q.threw = p.threw /\ q.occupants = p.occupants
      /\ q.cells = [p.cells EXCEPT ![c] = e]
  BY <1>1 DEF PageType
<1>5. Store(p, at, e) = q
  BY <1>1 DEF Store
<1> HIDE DEF q
<1>6. Held(q) = Held(p)
  BY <1>4 DEF Held
<1>7. Sound(q)
  BY <1>3, <1>4, <1>6 DEF Sound
<1>8. p.cells \in [Positions -> Nat] /\ q.cells[c] = e
  BY <1>1, <1>2, <1>4 DEF PageType
<1>9. Read(q, at) = e
  BY <1>1, <1>4, <1>8 DEF Read
<1>10. ASSUME NEW i \in Positions \ {at} PROVE Read(q, i) = Read(p, i)
  <2>1. CASE p.permutations[i] = Unset
    BY <1>4, <2>1 DEF Read
  <2>2. CASE p.permutations[i] # Unset
    <3>1. i \in Held(p) /\ p.permutations[i] # c
      BY <2>2 DEF Held, Sound
    <3> QED
      BY <1>4, <1>8, <2>2, <3>1 DEF Read
  <2> QED
    BY <2>1, <2>2
<1> QED
  BY <1>4, <1>5, <1>6, <1>7, <1>9, <1>10 DEF Wrote

\* A position without a cell means that not all cells are handed out.
LEMMA CellsLeft ==
    ASSUME NEW p, Sound(p), NEW at \in Positions, p.permutations[at] = Unset
    PROVE  p.allocated \in Nat /\ p.allocated < Slots
<1>1. Held(p) \in SUBSET Positions /\ Held(p) # Positions
  BY DEF Held
<1> QED
  BY <1>1, PositionsFinite DEF Sound

LEMMA AllocateHolds ==
    ASSUME NEW p, Sound(p), NEW at \in Positions, p.permutations[at] = Unset
    PROVE  LET q == Allocate(p, at)
           IN  /\ Sound(q) /\ q.occupants = p.occupants
               /\ Held(q) = Held(p) \cup {at}
               /\ \A i \in Positions \ {at} : Read(q, i) = Read(p, i)
<1> DEFINE a == p.allocated
           q == [p EXCEPT !.permutations[at] = a, !.allocated = @ + 1]
           perm == [p.permutations EXCEPT ![at] = a]
<1>1. p \in PageType /\ ~p.threw /\ a \in Nat /\ a < Slots
  BY CellsLeft DEF Sound
<1>2. /\ q.permutations = perm /\ q.allocated = a + 1
      /\ q.threw = p.threw /\ q.occupants = p.occupants /\ q.cells = p.cells
  BY <1>1 DEF PageType
<1>3. p.permutations \in [Positions -> 0..Slots] /\ a \in 0..Slots
  BY <1>1 DEF PageType
<1>4. perm \in [Positions -> 0..Slots]
  BY <1>3
<1>5. q \in PageType
  <2>1. PICK z : z = [p EXCEPT !.permutations = perm]
    OBVIOUS
  <2>2. z \in PageType /\ z.allocated = a
    BY <1>1, <1>4, <2>1 DEF PageType
  <2>3. q = [z EXCEPT !.allocated = a + 1]
    BY <1>1, <2>1 DEF PageType
  <2> HIDE DEF q
  <2> QED
    BY <1>1, <2>2, <2>3 DEF PageType
<1>6. Allocate(p, at) = q
  BY DEF Allocate
<1> HIDE DEF q
<1>7. Held(q) = Held(p) \cup {at} /\ at \notin Held(p)
  BY <1>1, <1>2, <1>3 DEF Held, Unset
<1>8. Cardinality(Held(q)) = a + 1
  <2>1. Held(p) \in SUBSET Positions
    BY DEF Held
  <2> QED
    BY <1>1, <1>7, <2>1, PositionsFinite, FS_AddElement DEF Sound
<1>9. ASSUME NEW i \in Held(q)
      PROVE  q.permutations[i] = (IF i = at THEN a ELSE p.permutations[i])
  BY <1>2, <1>3 DEF Held
<1>10. \A i \in Held(p) : p.permutations[i] < a /\ p.permutations[i] \in Nat
  BY <1>3 DEF Sound, Held
<1>11. \A i \in Held(q) : q.permutations[i] < a + 1
  BY <1>1, <1>7, <1>9, <1>10
<1>12. \A i, j \in Held(q) : q.permutations[i] = q.permutations[j] => i = j
  BY <1>1, <1>7, <1>9, <1>10 DEF Sound
<1>13. Sound(q)
  BY <1>1, <1>2, <1>5, <1>8, <1>11, <1>12 DEF Sound
<1>14. \A i \in Positions \ {at} : Read(q, i) = Read(p, i)
  BY <1>2, <1>3 DEF Read
<1> QED
  BY <1>2, <1>6, <1>7, <1>13, <1>14

LEMMA WriteWrites ==
    ASSUME NEW p, Sound(p), NEW at \in Positions, NEW e \in Nat
    PROVE  Wrote(Write(p, at, e), p, at, e) /\ SetKv(p, at, e) = Write(p, at, e)
<1>1. CASE p.permutations[at] # Unset
  <2>1. at \in Held(p)
    BY <1>1 DEF Held
  <2> QED
    BY <1>1, <2>1, StoreWrites DEF Write, InitKeyAllocation, SetKv
<1>2. CASE p.permutations[at] = Unset
  <2>1. p.allocated \in Nat /\ p.allocated < Slots
    BY <1>2, CellsLeft
  <2>2. PICK q : q = Allocate(p, at)
    OBVIOUS
  <2>3. Write(p, at, e) = Store(q, at, e) /\ SetKv(p, at, e) = Store(q, at, e)
    BY <1>2, <2>1, <2>2 DEF Write, InitKeyAllocation, SetKv
  <2>4. /\ Sound(q) /\ q.occupants = p.occupants
        /\ Held(q) = Held(p) \cup {at}
        /\ \A i \in Positions \ {at} : Read(q, i) = Read(p, i)
    BY <1>2, <2>2, AllocateHolds
  <2>5. Wrote(Store(q, at, e), q, at, e)
    BY <2>4, StoreWrites
  <2> QED
    BY <2>3, <2>4, <2>5 DEF Wrote
<1> QED
  BY <1>1, <1>2

----------------------------------------------------------------------------
(* Loops                                                                   *)

\* The recursive function of a loop exists: what Fill, MoveWithin and SplitOff
\* compute is what their rounds, one after another, leave.
IsFill(f, p, at, es, n) ==
    f = [k \in 0..n |-> IF k = 0 THEN p ELSE Write(f[k - 1], at[k], es[k])]

LEMMA FillExists ==
    ASSUME NEW p, NEW at, NEW es, NEW N \in Nat
    PROVE  \E f : IsFill(f, p, at, es, N)
<1> DEFINE Bad == {n \in Nat : ~\E f : IsFill(f, p, at, es, n)}
<1> SUFFICES ASSUME Bad # {} PROVE FALSE
  OBVIOUS
<1>1. PICK n \in Bad : \A m \in Bad : n <= m
  <2>1. Bad \in SUBSET Nat
    OBVIOUS
  <2> HIDE DEF Bad
  <2> QED
    BY <2>1, FirstOne
<1>2. CASE n = 0
  <2>1. IsFill([k \in 0..0 |-> p], p, at, es, 0)
    BY DEF IsFill
  <2> QED
    BY <1>2, <2>1
<1>3. CASE n # 0
  <2>1. PICK g : IsFill(g, p, at, es, n - 1)
    BY <1>1, <1>3
  <2> DEFINE f == [k \in 0..n |-> IF k = n THEN Write(g[n - 1], at[n], es[n]) ELSE g[k]]
  <2>2. IsFill(f, p, at, es, n)
    <3>1. ASSUME NEW k \in 0..n
          PROVE  f[k] = IF k = 0 THEN p ELSE Write(f[k - 1], at[k], es[k])
      BY <1>3, <2>1, <3>1 DEF IsFill
    <3> QED
      BY <3>1 DEF IsFill
  <2> QED
    BY <2>2
<1> QED
  BY <1>2, <1>3

LEMMA FillRounds ==
    ASSUME NEW p, NEW at, NEW es, Len(at) \in Nat
    PROVE  \E f : IsFill(f, p, at, es, Len(at)) /\ Fill(p, at, es) = f[Len(at)]
<1>1. \E f : IsFill(f, p, at, es, Len(at))
  BY FillExists
<1> QED
  BY <1>1 DEF Fill, IsFill

IsMove(f, p, shift, offset, order, n) ==
    f = [k \in 0..n |->
            IF k = 0 THEN p
            ELSE Write(f[k - 1], order[k] + shift, Read(f[k - 1], order[k] + offset))]

LEMMA MoveExists ==
    ASSUME NEW p, NEW shift, NEW offset, NEW order, NEW N \in Nat
    PROVE  \E f : IsMove(f, p, shift, offset, order, N)
<1> DEFINE Bad == {n \in Nat : ~\E f : IsMove(f, p, shift, offset, order, n)}
<1> SUFFICES ASSUME Bad # {} PROVE FALSE
  OBVIOUS
<1>1. PICK n \in Bad : \A m \in Bad : n <= m
  <2>1. Bad \in SUBSET Nat
    OBVIOUS
  <2> HIDE DEF Bad
  <2> QED
    BY <2>1, FirstOne
<1>2. CASE n = 0
  <2>1. IsMove([k \in 0..0 |-> p], p, shift, offset, order, 0)
    BY DEF IsMove
  <2> QED
    BY <1>2, <2>1
<1>3. CASE n # 0
  <2>1. PICK g : IsMove(g, p, shift, offset, order, n - 1)
    BY <1>1, <1>3
  <2>2. PICK q : q = Write(g[n - 1], order[n] + shift, Read(g[n - 1], order[n] + offset))
    OBVIOUS
  <2> DEFINE f == [k \in 0..n |-> IF k = n THEN q ELSE g[k]]
  <2>3. IsMove(f, p, shift, offset, order, n)
    <3>1. ASSUME NEW k \in 0..n
          PROVE  f[k] = IF k = 0 THEN p
                        ELSE Write(f[k - 1], order[k] + shift, Read(f[k - 1], order[k] + offset))
      BY <1>3, <2>1, <2>2, <3>1 DEF IsMove
    <3> QED
      BY <3>1 DEF IsMove
  <2> QED
    BY <2>3
<1> QED
  BY <1>2, <1>3

LEMMA MoveRounds ==
    ASSUME NEW p, NEW shift, NEW offset, NEW order, Len(order) \in Nat
    PROVE  \E f : /\ IsMove(f, p, shift, offset, order, Len(order))
                  /\ MoveWithin(p, shift, offset, order) = f[Len(order)]
<1>1. \E f : IsMove(f, p, shift, offset, order, Len(order))
  BY MoveExists
<1> QED
  BY <1>1 DEF MoveWithin, IsMove

IsSplit(f, p, mid, m, n) ==
    f = [k \in 0..n |->
            IF k = 0 THEN Occupy(NewPage, m) ELSE SetKv(f[k - 1], k - 1, Read(p, mid + (k - 1)))]

LEMMA SplitExists ==
    ASSUME NEW p, NEW mid, NEW m0, NEW N \in Nat
    PROVE  \E f : IsSplit(f, p, mid, m0, N)
<1> DEFINE Bad == {n \in Nat : ~\E f : IsSplit(f, p, mid, m0, n)}
<1> SUFFICES ASSUME Bad # {} PROVE FALSE
  OBVIOUS
<1>1. PICK n \in Bad : \A m \in Bad : n <= m
  <2>1. Bad \in SUBSET Nat
    OBVIOUS
  <2> HIDE DEF Bad
  <2> QED
    BY <2>1, FirstOne
<1>2. CASE n = 0
  <2>1. IsSplit([k \in 0..0 |-> Occupy(NewPage, m0)], p, mid, m0, 0)
    BY DEF IsSplit
  <2> QED
    BY <1>2, <2>1
<1>3. CASE n # 0
  <2>1. PICK g : IsSplit(g, p, mid, m0, n - 1)
    BY <1>1, <1>3
  <2>2. PICK q : q = SetKv(g[n - 1], n - 1, Read(p, mid + (n - 1)))
    OBVIOUS
  <2> DEFINE f == [k \in 0..n |-> IF k = n THEN q ELSE g[k]]
  <2>3. IsSplit(f, p, mid, m0, n)
    <3>1. ASSUME NEW k \in 0..n
          PROVE  f[k] = IF k = 0 THEN Occupy(NewPage, m0)
                        ELSE SetKv(f[k - 1], k - 1, Read(p, mid + (k - 1)))
      BY <1>3, <2>1, <2>2, <3>1 DEF IsSplit
    <3> QED
      BY <3>1 DEF IsSplit
  <2> QED
    BY <2>3
<1> QED
  BY <1>2, <1>3

LEMMA SplitRounds ==
    ASSUME NEW p, p.occupants \in Nat
    PROVE  LET mid == p.occupants \div 2
               n == p.occupants - mid
           IN  \E f : /\ f[0] = Occupy(NewPage, n) /\ SplitOff(p) = f[n]
                      /\ \A k \in 1..n : f[k] = SetKv(f[k - 1], k - 1, Read(p, mid + (k - 1)))
<1> DEFINE mid == p.occupants \div 2
           n == p.occupants - mid
<1>1. n \in Nat /\ mid \in Nat
  OBVIOUS
<1>2. \E f : IsSplit(f, p, mid, n, n)
  BY <1>1, SplitExists
<1>3. PICK f : IsSplit(f, p, mid, n, n) /\ SplitOff(p) = f[n]
  BY <1>2 DEF SplitOff, IsSplit
<1>4. f[0] = Occupy(NewPage, n) /\ \A k \in 1..n : f[k] = SetKv(f[k - 1], k - 1, Read(p, mid + (k - 1)))
  <2> HIDE DEF mid, n
  <2> QED
    BY <1>1, <1>3 DEF IsSplit
<1> QED
  BY <1>3, <1>4

\* What the first k rounds of a loop over different positions have done.
After(q, p, at, es, k) ==
    /\ Sound(q)
    /\ q.occupants = p.occupants
    /\ Held(q) = Held(p) \cup {at[j] : j \in 1..k}
    /\ \A j \in 1..k : Read(q, at[j]) = es[j]
    /\ \A i \in Positions : (\A j \in 1..k : at[j] # i) => Read(q, i) = Read(p, i)

\* Different positions, each with its entry
Targets(at, es, n) ==
    /\ \A k \in 1..n : at[k] \in Positions /\ es[k] \in Nat
    /\ \A j, k \in 1..n : at[j] = at[k] => j = k

LEMMA AfterStart ==
    ASSUME NEW p, Sound(p), NEW at, NEW es
    PROVE  After(p, p, at, es, 0)
<1>1. {at[j] : j \in 1..0} = {}
  OBVIOUS
<1> QED
  BY <1>1 DEF After

LEMMA AfterRound ==
    ASSUME NEW n \in Nat, NEW at, NEW es, Targets(at, es, n), NEW k \in 1..n,
           NEW p, NEW q, After(q, p, at, es, k - 1)
    PROVE  After(Write(q, at[k], es[k]), p, at, es, k)
<1>1. at[k] \in Positions /\ es[k] \in Nat
  BY DEF Targets
<1>2. PICK w : w = Write(q, at[k], es[k])
  OBVIOUS
<1>3. Wrote(w, q, at[k], es[k])
  BY <1>1, <1>2, WriteWrites DEF After
<1>4. {at[j] : j \in 1..k} = {at[j] : j \in 1..(k - 1)} \cup {at[k]}
  <2>1. 1..k = 1..(k - 1) \cup {k}
    OBVIOUS
  <2> QED
    BY <2>1
<1>5. Held(w) = Held(p) \cup {at[j] : j \in 1..k}
  BY <1>3, <1>4 DEF After, Wrote
<1>6. ASSUME NEW j \in 1..k PROVE Read(w, at[j]) = es[j]
  <2>1. CASE j = k
    BY <1>3, <2>1 DEF Wrote
  <2>2. CASE j # k
    <3>1. j \in 1..(k - 1) /\ j \in 1..n /\ at[j] # at[k] /\ at[j] \in Positions
      BY <2>2 DEF Targets
    <3> QED
      BY <1>3, <3>1 DEF Wrote, After
  <2> QED
    BY <2>1, <2>2
<1>7. ASSUME NEW i \in Positions, \A j \in 1..k : at[j] # i PROVE Read(w, i) = Read(p, i)
  <2>1. i # at[k] /\ \A j \in 1..(k - 1) : at[j] # i
    BY <1>7
  <2> QED
    BY <1>3, <2>1 DEF Wrote, After
<1> QED
  BY <1>2, <1>3, <1>5, <1>6, <1>7 DEF After, Wrote

\* Induction on the rounds
LEMMA AfterAll ==
    ASSUME NEW n \in Nat, NEW at, NEW es, NEW p, NEW f, After(f[0], p, at, es, 0),
           \A k \in 1..n : After(f[k - 1], p, at, es, k - 1) => After(f[k], p, at, es, k)
    PROVE  After(f[n], p, at, es, n)
<1> DEFINE Bad == {k \in 0..n : ~After(f[k], p, at, es, k)}
<1> SUFFICES ASSUME Bad # {} PROVE FALSE
  OBVIOUS
<1>1. PICK k \in Bad : \A m \in Bad : k <= m
  <2>1. Bad \in SUBSET Nat
    OBVIOUS
  <2> HIDE DEF Bad
  <2> QED
    BY <2>1, FirstOne
<1>2. k # 0 /\ k \in 1..n /\ k - 1 \in 0..n
  OBVIOUS
<1>3. After(f[k - 1], p, at, es, k - 1)
  BY <1>1, <1>2
<1> QED
  BY <1>2, <1>3

LEMMA FillDoes ==
    ASSUME NEW n \in Nat, NEW p, Sound(p), NEW at, Len(at) = n, NEW es, Targets(at, es, n)
    PROVE  After(Fill(p, at, es), p, at, es, n)
<1>1. PICK f : IsFill(f, p, at, es, n) /\ Fill(p, at, es) = f[n]
  BY FillRounds
<1>2. f[0] = p /\ \A k \in 1..n : f[k] = Write(f[k - 1], at[k], es[k])
  BY <1>1 DEF IsFill
<1>3. After(f[0], p, at, es, 0)
  BY <1>2, AfterStart
<1>4. \A k \in 1..n : After(f[k - 1], p, at, es, k - 1) => After(f[k], p, at, es, k)
  BY <1>2, AfterRound
<1>5. After(f[n], p, at, es, n)
  BY <1>3, <1>4, AfterAll
<1> QED
  BY <1>1, <1>5

\* What a round of MoveWithin reads was not written by a round before it.
LEMMA MoveDoes ==
    ASSUME NEW n \in Nat, NEW p, Sound(p), NEW shift, NEW offset, NEW order, Len(order) = n,
           NEW at, NEW es, Targets(at, es, n),
           \A k \in 1..n : /\ at[k] = order[k] + shift
                           /\ order[k] + offset \in Positions
                           /\ es[k] = Read(p, order[k] + offset)
                           /\ \A j \in 1..(k - 1) : at[j] # order[k] + offset
    PROVE  After(MoveWithin(p, shift, offset, order), p, at, es, n)
<1>1. PICK f : IsMove(f, p, shift, offset, order, n) /\ MoveWithin(p, shift, offset, order) = f[n]
  BY MoveRounds
<1>2. /\ f[0] = p
      /\ \A k \in 1..n :
            f[k] = Write(f[k - 1], order[k] + shift, Read(f[k - 1], order[k] + offset))
  BY <1>1 DEF IsMove
<1>3. After(f[0], p, at, es, 0)
  BY <1>2, AfterStart
<1>4. \A k \in 1..n : After(f[k - 1], p, at, es, k - 1) => After(f[k], p, at, es, k)
  <2> SUFFICES ASSUME NEW k \in 1..n, After(f[k - 1], p, at, es, k - 1)
               PROVE  After(f[k], p, at, es, k)
    OBVIOUS
  <2>1. Read(f[k - 1], order[k] + offset) = es[k]
    BY DEF After
  <2>2. f[k] = Write(f[k - 1], at[k], es[k])
    BY <1>2, <2>1
  <2> QED
    BY <2>2, AfterRound
<1>5. After(f[n], p, at, es, n)
  BY <1>3, <1>4, AfterAll
<1> QED
  BY <1>1, <1>5

LEMMA SplitDoes ==
    ASSUME NEW p, p.occupants \in Nat, NEW mid, mid = p.occupants \div 2,
           NEW n \in Nat, n = p.occupants - mid,
           NEW new, new = Occupy(NewPage, n), Sound(new),
           NEW at, NEW es, Targets(at, es, n),
           \A k \in 1..n : at[k] = k - 1 /\ es[k] = Read(p, mid + (k - 1))
    PROVE  After(SplitOff(p), new, at, es, n)
<1>1. PICK f : /\ f[0] = new /\ SplitOff(p) = f[n]
               /\ \A k \in 1..n : f[k] = SetKv(f[k - 1], k - 1, Read(p, mid + (k - 1)))
  BY SplitRounds
<1>2. After(f[0], new, at, es, 0)
  BY <1>1, AfterStart
<1>3. \A k \in 1..n : After(f[k - 1], new, at, es, k - 1) => After(f[k], new, at, es, k)
  <2> SUFFICES ASSUME NEW k \in 1..n, After(f[k - 1], new, at, es, k - 1)
               PROVE  After(f[k], new, at, es, k)
    OBVIOUS
  <2>1. f[k] = SetKv(f[k - 1], at[k], es[k])
    BY <1>1
  <2>2. Sound(f[k - 1]) /\ at[k] \in Positions /\ es[k] \in Nat
    BY DEF After, Targets
  <2>3. f[k] = Write(f[k - 1], at[k], es[k])
    BY <2>1, <2>2, WriteWrites
  <2> QED
    BY <2>3, AfterRound
<1>4. After(f[n], new, at, es, n)
  BY <1>2, <1>3, AfterAll
<1> QED
  BY <1>1, <1>4

----------------------------------------------------------------------------
(* What the loops do to sound pages                                        *)

LEMMA ReadNat ==
    ASSUME NEW p, Sound(p), NEW i \in Positions
    PROVE  Read(p, i) \in Nat
<1>1. p.permutations \in [Positions -> 0..Slots] /\ p.cells \in [Positions -> Nat]
  BY DEF Sound, PageType
<1>2. p.permutations[i] \in 0..Slots
  BY <1>1
<1>3. p.permutations[i] # Unset => p.permutations[i] \in Positions
  BY <1>2 DEF Positions, Unset
<1> QED
  BY <1>1, <1>3 DEF Read, Junk

LEMMA OccupyKeeps ==
    ASSUME NEW p, Sound(p), NEW n \in Nat
    PROVE  LET q == Occupy(p, n)
           IN  /\ Sound(q) /\ q.occupants = n /\ q.allocated = p.allocated /\ Held(q) = Held(p)
               /\ \A i \in Positions : Read(q, i) = Read(p, i)
<1> DEFINE q == Occupy(p, n)
<1>1. p \in PageType
  BY DEF Sound
<1>2. q \in PageType
  BY <1>1 DEF PageType, Occupy
<1>3. /\ q.occupants = n /\ q.allocated = p.allocated /\ q.threw = p.threw
      /\ q.permutations = p.permutations /\ q.cells = p.cells
  BY <1>1 DEF PageType, Occupy
<1> HIDE DEF q
<1>4. Held(q) = Held(p)
  BY <1>3 DEF Held
<1>5. Sound(q)
  BY <1>2, <1>3, <1>4 DEF Sound
<1>6. \A i \in Positions : Read(q, i) = Read(p, i)
  BY <1>3 DEF Read
<1> QED
  BY <1>3, <1>4, <1>5, <1>6 DEF q

LEMMA NewPageSound == Sound(NewPage) /\ Held(NewPage) = {}
<1>1. NewPage \in PageType
  BY DEF NewPage, PageType, Unset, Junk
<1>2. /\ NewPage.permutations = [i \in Positions |-> Unset]
      /\ NewPage.allocated = 0 /\ NewPage.threw = FALSE
  BY DEF NewPage
<1>3. Held(NewPage) = {}
  BY <1>2 DEF Held
<1> QED
  BY <1>1, <1>2, <1>3, FS_EmptySet DEF Sound

LEMMA UpAndDown ==
    ASSUME NEW n \in Nat
    PROVE  /\ Len(Up(n)) = n /\ DOMAIN Up(n) = 1..n /\ \A k \in 1..n : Up(n)[k] = k - 1
           /\ Len(Down(n)) = n /\ DOMAIN Down(n) = 1..n /\ \A k \in 1..n : Down(n)[k] = n - k
<1>1. Up(n) \in Seq(Int) /\ DOMAIN Up(n) = 1..n /\ \A k \in 1..n : Up(n)[k] = k - 1
  BY DEF Up
<1>2. Down(n) \in Seq(Int) /\ DOMAIN Down(n) = 1..n /\ \A k \in 1..n : Down(n)[k] = n - k
  BY DEF Down
<1> QED
  BY <1>1, <1>2

\* The positions shift to shift + n - 1 of q read as r says, the others as in p.
Moved(q, p, shift, n, r) ==
    /\ Sound(q)
    /\ q.occupants = p.occupants
    /\ Held(q) = Held(p) \cup shift..(shift + n - 1)
    /\ \A i \in 0..(n - 1) : Read(q, i + shift) = r[i]
    /\ \A i \in Positions : i \notin shift..(shift + n - 1) => Read(q, i) = Read(p, i)

LEMMA AfterUp ==
    ASSUME NEW q, NEW p, NEW n \in Nat, NEW shift \in Nat, NEW r, NEW at, NEW es,
           \A k \in 1..n : at[k] = k - 1 + shift /\ es[k] = r[k - 1],
           After(q, p, at, es, n)
    PROVE  Moved(q, p, shift, n, r)
<1>1. {at[j] : j \in 1..n} = shift..(shift + n - 1)
  <2>1. ASSUME NEW i \in shift..(shift + n - 1) PROVE i \in {at[j] : j \in 1..n}
    <3>1. i - shift + 1 \in 1..n /\ at[i - shift + 1] = i
      OBVIOUS
    <3> QED
      BY <3>1
  <2>2. ASSUME NEW j \in 1..n PROVE at[j] \in shift..(shift + n - 1)
    OBVIOUS
  <2> QED
    BY <2>1, <2>2
<1>2. ASSUME NEW i \in 0..(n - 1) PROVE Read(q, i + shift) = r[i]
  <2>1. i + 1 \in 1..n /\ at[i + 1] = i + shift /\ es[i + 1] = r[i]
    OBVIOUS
  <2> QED
    BY <2>1 DEF After
<1>3. ASSUME NEW i \in Positions, i \notin shift..(shift + n - 1) PROVE Read(q, i) = Read(p, i)
  <2>1. \A j \in 1..n : at[j] # i
    BY <1>1, <1>3
  <2> QED
    BY <2>1 DEF After
<1> QED
  BY <1>1, <1>2, <1>3 DEF Moved, After

LEMMA AfterDown ==
    ASSUME NEW q, NEW p, NEW n \in Nat, NEW shift \in Nat, NEW r, NEW at, NEW es,
           \A k \in 1..n : at[k] = n - k + shift /\ es[k] = r[n - k],
           After(q, p, at, es, n)
    PROVE  Moved(q, p, shift, n, r)
<1>1. {at[j] : j \in 1..n} = shift..(shift + n - 1)
  <2>1. ASSUME NEW i \in shift..(shift + n - 1) PROVE i \in {at[j] : j \in 1..n}
    <3>1. n + shift - i \in 1..n /\ at[n + shift - i] = i
      OBVIOUS
    <3> QED
      BY <3>1
  <2>2. ASSUME NEW j \in 1..n PROVE at[j] \in shift..(shift + n - 1)
    OBVIOUS
  <2> QED
    BY <2>1, <2>2
<1>2. ASSUME NEW i \in 0..(n - 1) PROVE Read(q, i + shift) = r[i]
  <2>1. n - i \in 1..n /\ at[n - i] = i + shift /\ es[n - i] = r[i]
    OBVIOUS
  <2> QED
    BY <2>1 DEF After
<1>3. ASSUME NEW i \in Positions, i \notin shift..(shift + n - 1) PROVE Read(q, i) = Read(p, i)
  <2>1. \A j \in 1..n : at[j] # i
    BY <1>1, <1>3
  <2> QED
    BY <2>1 DEF After
<1> QED
  BY <1>1, <1>2, <1>3 DEF Moved, After

LEMMA CopyDoes ==
    ASSUME NEW to, NEW from, Sound(to), Sound(from), NEW shift \in Nat, NEW offset \in Nat,
           NEW n \in Nat, shift + n <= Slots, offset + n <= Slots
    PROVE  Moved(Copy(to, shift, from, offset, Up(n)), to, shift, n,
                 [i \in 0..(n - 1) |-> Read(from, i + offset)])
<1> DEFINE at == [k \in DOMAIN Up(n) |-> Up(n)[k] + shift]
           es == [k \in DOMAIN Up(n) |-> Read(from, Up(n)[k] + offset)]
           r == [i \in 0..(n - 1) |-> Read(from, i + offset)]
<1>1. /\ DOMAIN at = 1..n /\ DOMAIN es = 1..n
      /\ \A k \in 1..n : at[k] = k - 1 + shift /\ es[k] = Read(from, k - 1 + offset)
  BY UpAndDown
<1>2. \A k \in 1..n : es[k] = r[k - 1]
  BY <1>1
<1>3. Len(at) = n
  <2>1. at \in Seq(Int)
    BY <1>1, UpAndDown
  <2> QED
    BY <1>1, <2>1
<1>4. Copy(to, shift, from, offset, Up(n)) = Fill(to, at, es)
  BY DEF Copy
<1> HIDE DEF at, es, r
<1>5. Targets(at, es, n)
  <2>1. \A k \in 1..n : at[k] \in Positions /\ k - 1 + offset \in Positions
    BY <1>1 DEF Positions
  <2>2. \A k \in 1..n : es[k] \in Nat
    BY <1>1, <2>1, ReadNat
  <2>3. \A j, k \in 1..n : at[j] = at[k] => j = k
    BY <1>1
  <2> QED
    BY <2>1, <2>2, <2>3 DEF Targets
<1>6. After(Fill(to, at, es), to, at, es, n)
  BY <1>3, <1>5, FillDoes
<1>7. Moved(Fill(to, at, es), to, shift, n, r)
  BY <1>1, <1>2, <1>6, AfterUp
<1> QED
  BY <1>4, <1>7 DEF r

\* shift_left_surface walks up: a position is overwritten after it was read.
LEMMA MoveUpDoes ==
    ASSUME NEW p, Sound(p), NEW offset \in Nat, NEW n \in Nat, offset + n <= Slots
    PROVE  Moved(MoveWithin(p, 0, offset, Up(n)), p, 0, n,
                 [i \in 0..(n - 1) |-> Read(p, i + offset)])
<1>1. PICK at : at = [k \in 1..n |-> k - 1 + 0]
  OBVIOUS
<1>2. PICK es : es = [k \in 1..n |-> Read(p, k - 1 + offset)]
  OBVIOUS
<1>3. PICK r : r = [i \in 0..(n - 1) |-> Read(p, i + offset)]
  OBVIOUS
<1>4. \A k \in 1..n : at[k] = k - 1 + 0 /\ es[k] = r[k - 1]
  BY <1>1, <1>2, <1>3
<1>5. PICK order : order = Up(n)
  OBVIOUS
<1>6. Len(order) = n /\ \A k \in 1..n : order[k] = k - 1
  BY <1>5, UpAndDown
<1>7. \A k \in 1..n : /\ at[k] = order[k] + 0
                      /\ order[k] + offset \in Positions
                      /\ es[k] = Read(p, order[k] + offset)
                      /\ \A j \in 1..(k - 1) : at[j] # order[k] + offset
  BY <1>1, <1>2, <1>6 DEF Positions
<1>8. Targets(at, es, n)
  <2>1. \A k \in 1..n : at[k] \in Positions
    BY <1>1 DEF Positions
  <2>2. \A k \in 1..n : es[k] \in Nat
    BY <1>7, ReadNat
  <2>3. \A j, k \in 1..n : at[j] = at[k] => j = k
    BY <1>1
  <2> QED
    BY <2>1, <2>2, <2>3 DEF Targets
<1>9. After(MoveWithin(p, 0, offset, order), p, at, es, n)
  BY <1>6, <1>7, <1>8, MoveDoes
<1>10. Moved(MoveWithin(p, 0, offset, order), p, 0, n, r)
  BY <1>4, <1>9, AfterUp
<1> QED
  BY <1>3, <1>5, <1>10

\* shift_right_surface walks down, for the same reason.
LEMMA MoveDownDoes ==
    ASSUME NEW p, Sound(p), NEW shift \in Nat, NEW n \in Nat, shift + n <= Slots
    PROVE  Moved(MoveWithin(p, shift, 0, Down(n)), p, shift, n,
                 [i \in 0..(n - 1) |-> Read(p, i + 0)])
<1>1. PICK at : at = [k \in 1..n |-> n - k + shift]
  OBVIOUS
<1>2. PICK es : es = [k \in 1..n |-> Read(p, n - k + 0)]
  OBVIOUS
<1>3. PICK r : r = [i \in 0..(n - 1) |-> Read(p, i + 0)]
  OBVIOUS
<1>4. \A k \in 1..n : at[k] = n - k + shift /\ es[k] = r[n - k]
  BY <1>1, <1>2, <1>3
<1>5. PICK order : order = Down(n)
  OBVIOUS
<1>6. Len(order) = n /\ \A k \in 1..n : order[k] = n - k
  BY <1>5, UpAndDown
<1>7. \A k \in 1..n : /\ at[k] = order[k] + shift
                      /\ order[k] + 0 \in Positions
                      /\ es[k] = Read(p, order[k] + 0)
                      /\ \A j \in 1..(k - 1) : at[j] # order[k] + 0
  BY <1>1, <1>2, <1>6 DEF Positions
<1>8. Targets(at, es, n)
  <2>1. \A k \in 1..n : at[k] \in Positions
    BY <1>1 DEF Positions
  <2>2. \A k \in 1..n : es[k] \in Nat
    BY <1>7, ReadNat
  <2>3. \A j, k \in 1..n : at[j] = at[k] => j = k
    BY <1>1
  <2> QED
    BY <2>1, <2>2, <2>3 DEF Targets
<1>9. After(MoveWithin(p, shift, 0, order), p, at, es, n)
  BY <1>6, <1>7, <1>8, MoveDoes
<1>10. Moved(MoveWithin(p, shift, 0, order), p, shift, n, r)
  BY <1>4, <1>9, AfterDown
<1> QED
  BY <1>3, <1>5, <1>10

----------------------------------------------------------------------------
(* The operations on leaves                                                *)

LEMMA LeafFacts ==
    ASSUME NEW p, Leaf(p)
    PROVE  /\ Sound(p) /\ p \in PageType
           /\ p.occupants \in 0..Slots /\ p.allocated \in 0..Slots /\ p.occupants <= p.allocated
           /\ Held(p) = 0..(p.allocated - 1)
           /\ \A i \in 0..(p.occupants - 1) : i \in Positions /\ i \in Held(p) /\ Read(p, i) \in Entries
<1>1. Sound(p) /\ p \in PageType /\ p.occupants \in Nat /\ p.allocated \in Nat
  BY DEF Leaf, Sound, PageType
<1>2. Held(p) \in SUBSET Positions /\ Cardinality(Held(p)) = p.allocated
  BY <1>1 DEF Held, Sound
<1>3. p.allocated \in 0..Slots
  BY <1>2, PositionsFinite
<1> QED
  BY <1>1, <1>3 DEF Leaf, Positions

LEMMA MakeLeaf ==
    ASSUME NEW p, Sound(p), NEW m \in 0..Slots, Held(p) = 0..(m - 1), p.occupants <= m,
           \A i \in 0..(p.occupants - 1) : Read(p, i) \in Entries
    PROVE  Leaf(p)
<1>1. p.allocated = m
  BY FirstPositions
<1> QED
  BY <1>1 DEF Leaf

LEMMA FewerLeaf ==
    ASSUME NEW p, Leaf(p), NEW n \in 0..p.occupants
    PROVE  LET q == Occupy(p, n)
           IN  Leaf(q) /\ q.occupants = n /\ \A i \in Positions : Read(q, i) = Read(p, i)
<1>1. PICK q : q = Occupy(p, n)
  OBVIOUS
<1>2. /\ Sound(p) /\ p.occupants \in 0..Slots /\ p.allocated \in 0..Slots /\ p.occupants <= p.allocated
      /\ Held(p) = 0..(p.allocated - 1)
      /\ \A i \in 0..(p.occupants - 1) : i \in Positions /\ Read(p, i) \in Entries
  BY LeafFacts
<1>3. n \in Nat /\ n <= p.occupants
  BY <1>2
<1>4. /\ Sound(q) /\ q.occupants = n /\ Held(q) = Held(p)
      /\ \A i \in Positions : Read(q, i) = Read(p, i)
  BY <1>1, <1>2, <1>3, OccupyKeeps
<1>5. Leaf(q)
  BY <1>2, <1>3, <1>4, MakeLeaf
<1> QED
  BY <1>1, <1>4, <1>5

LEMMA AssignDoes ==
    ASSUME NEW p, Leaf(p), NEW at \in 0..(p.occupants - 1), NEW e \in Entries
    PROVE  LET q == Write(p, at, e)
           IN  /\ Leaf(q) /\ q.occupants = p.occupants
               /\ \A i \in 0..(p.occupants - 1) : Read(q, i) = IF i = at THEN e ELSE Read(p, i)
<1>1. PICK q : q = Write(p, at, e)
  OBVIOUS
<1>2. /\ Sound(p) /\ p.occupants \in 0..Slots /\ p.allocated \in 0..Slots /\ p.occupants <= p.allocated
      /\ Held(p) = 0..(p.allocated - 1)
      /\ \A i \in 0..(p.occupants - 1) : i \in Positions /\ i \in Held(p) /\ Read(p, i) \in Entries
  BY LeafFacts
<1>3. Wrote(q, p, at, e)
  <2>1. at \in Positions /\ e \in Nat
    BY <1>2 DEF Entries
  <2> QED
    BY <1>1, <1>2, <2>1, WriteWrites
<1>4. Sound(q) /\ q.occupants = p.occupants /\ Held(q) = 0..(p.allocated - 1)
  BY <1>2, <1>3 DEF Wrote
<1>5. \A i \in 0..(p.occupants - 1) : Read(q, i) = IF i = at THEN e ELSE Read(p, i)
  BY <1>2, <1>3 DEF Wrote
<1>6. Leaf(q)
  BY <1>2, <1>4, <1>5, MakeLeaf
<1> QED
  BY <1>1, <1>4, <1>5, <1>6

\* A page whose permutations are p's, taken in another order
Reordered(q, p, perm, from) ==
    /\ perm \in [Positions -> 0..Slots]
    /\ q = [p EXCEPT !.permutations = perm]
    /\ \A i \in Positions : perm[i] = p.permutations[from[i]] /\ from[i] \in Positions
    /\ \A i, j \in Held(q) : from[i] = from[j] => i = j
    /\ Cardinality(Held(q)) = p.allocated

LEMMA ReorderedSound ==
    ASSUME NEW p, Sound(p), NEW q, NEW perm, NEW from, Reordered(q, p, perm, from)
    PROVE  /\ Sound(q) /\ q.occupants = p.occupants /\ q.allocated = p.allocated
           /\ \A i \in Positions : Read(q, i) = Read(p, from[i])
<1>1. p \in PageType
  BY DEF Sound
<1>2. q \in PageType
  BY <1>1 DEF PageType, Reordered
<1>3. /\ q.occupants = p.occupants /\ q.allocated = p.allocated /\ q.threw = p.threw
      /\ q.permutations = perm /\ q.cells = p.cells
  BY <1>1 DEF PageType, Reordered
<1>4. \A i \in Held(q) : i \in Positions /\ from[i] \in Held(p) /\ perm[i] = p.permutations[from[i]]
  BY <1>3 DEF Held, Reordered
<1>5. \A i \in Held(q) : q.permutations[i] < q.allocated
  BY <1>3, <1>4 DEF Sound
<1>6. \A i, j \in Held(q) : q.permutations[i] = q.permutations[j] => i = j
  BY <1>3, <1>4 DEF Sound, Reordered
<1>7. Sound(q)
  BY <1>2, <1>3, <1>5, <1>6 DEF Sound, Reordered
<1>8. \A i \in Positions : Read(q, i) = Read(p, from[i])
  BY <1>3 DEF Read, Reordered
<1> QED
  BY <1>3, <1>7, <1>8

\* insert_: the cell behind the last entry, or none, comes to position at and
\* the cells of the entries from there on move up by one.
LEMMA InsertDoes ==
    ASSUME NEW p, Leaf(p), p.occupants < Slots, NEW at \in 0..p.occupants, NEW e \in Entries
    PROVE  LET q == Insert_(p, at, e)
           IN  /\ Leaf(q) /\ q.occupants = p.occupants + 1
               /\ \A i \in 0..p.occupants :
                    Read(q, i) = IF i = at THEN e ELSE IF i < at THEN Read(p, i) ELSE Read(p, i - 1)
<1>1. PICK o : o = p.occupants
  OBVIOUS
<1>2. PICK a : a = p.allocated
  OBVIOUS
<1>3. /\ Sound(p) /\ p \in PageType /\ o \in 0..Slots /\ a \in 0..Slots /\ o <= a /\ o < Slots
      /\ Held(p) = 0..(a - 1) /\ at \in 0..o
      /\ \A i \in 0..(o - 1) : i \in Positions /\ Read(p, i) \in Entries
  BY <1>1, <1>2, LeafFacts
<1>4. p.permutations \in [Positions -> 0..Slots] /\ at \in Positions /\ o \in Positions /\ e \in Nat
  BY <1>3 DEF PageType, Positions, Entries
<1> DEFINE shifted == [i \in Positions |->
                          IF i > at /\ i <= o THEN p.permutations[i - 1] ELSE p.permutations[i]]
           perm == [shifted EXCEPT ![at] = p.permutations[o]]
           from == [i \in Positions |-> IF i = at THEN o ELSE IF i > at /\ i <= o THEN i - 1 ELSE i]
<1>5. \A i \in Positions : from[i] \in Positions
  BY <1>3, <1>4 DEF Positions
<1>6. \A i \in Positions : perm[i] = p.permutations[from[i]]
  BY <1>3, <1>4
<1>7. perm \in [Positions -> 0..Slots]
  <2>1. perm = [i \in Positions |-> p.permutations[from[i]]]
    BY <1>3, <1>4
  <2> QED
    BY <1>4, <1>5, <2>1
<1>8. PICK z : z = [p EXCEPT !.permutations = perm]
  OBVIOUS
<1>9. PICK w : w = Write(z, at, e)
  OBVIOUS
<1>10. Insert_(p, at, e) = [w EXCEPT !.occupants = @ + 1]
  BY <1>1, <1>8, <1>9 DEF Insert_
<1>11. \A i, j \in Positions : from[i] = from[j] => i = j
  BY <1>3, <1>4 DEF Positions
<1>12. z.permutations = perm
  BY <1>3, <1>8 DEF PageType
<1>13. /\ \A i \in Positions : i # at => from[i] = IF i > at /\ i <= o THEN i - 1 ELSE i
       /\ from[at] = o
  BY <1>4
<1> HIDE DEF perm, from, shifted
<1>14. Held(z) = {i \in Positions : from[i] \in Held(p)}
  BY <1>5, <1>6, <1>12 DEF Held
<1>15. /\ Cardinality(Held(z)) = a
       /\ Held(z) \cup {at} = 0..((IF o < a THEN a ELSE a + 1) - 1)
  <2>1. CASE o < a
    <3>1. Held(z) = 0..(a - 1)
      <4>1. ASSUME NEW i \in Positions PROVE from[i] \in 0..(a - 1) <=> i \in 0..(a - 1)
        BY <1>3, <1>4, <1>13, <2>1 DEF Positions
      <4> QED
        BY <1>3, <1>14, <4>1 DEF Positions
    <3>2. Cardinality(0..(a - 1)) = a
      BY <1>3, FirstN
    <3> QED
      BY <1>3, <2>1, <3>1, <3>2
  <2>2. CASE o = a
    <3>1. Held(z) = (0..a) \ {at}
      <4>1. ASSUME NEW i \in Positions PROVE from[i] \in 0..(a - 1) <=> i \in (0..a) \ {at}
        BY <1>3, <1>4, <1>13, <2>2 DEF Positions
      <4> QED
        BY <1>3, <1>14, <2>2, <4>1 DEF Positions
    <3>2. IsFiniteSet(0..a) /\ Cardinality(0..a) = a + 1 /\ at \in 0..a
      <4>1. a + 1 \in Nat /\ (a + 1) - 1 = a
        BY <1>3
      <4> QED
        BY <1>3, <2>2, <4>1, FirstN
    <3>3. Cardinality((0..a) \ {at}) = Cardinality(0..a) - 1
      BY <3>2, FS_RemoveElement
    <3> QED
      BY <1>3, <2>2, <3>1, <3>2, <3>3
  <2> QED
    BY <1>3, <2>1, <2>2
<1>16. /\ Sound(z) /\ z.occupants = o /\ z.allocated = a
       /\ \A i \in Positions : Read(z, i) = Read(p, from[i])
  <2>1. \A i, j \in Held(z) : from[i] = from[j] => i = j
    BY <1>11 DEF Held
  <2>2. \A i \in Positions : perm[i] = p.permutations[from[i]] /\ from[i] \in Positions
    BY <1>5, <1>6
  <2>3. Cardinality(Held(z)) = p.allocated
    BY <1>2, <1>15
  <2>4. Reordered(z, p, perm, from)
    BY <1>7, <1>8, <2>1, <2>2, <2>3 DEF Reordered
  <2> QED
    BY <1>1, <1>2, <1>3, <2>4, ReorderedSound
<1>17. Wrote(w, z, at, e)
  BY <1>4, <1>9, <1>16, WriteWrites
<1>18. PICK q : q = Occupy(w, o + 1)
  OBVIOUS
<1>19. Insert_(p, at, e) = q
  <2>1. w.occupants = o
    BY <1>16, <1>17 DEF Wrote
  <2> QED
    BY <1>10, <1>18, <2>1 DEF Occupy
<1>20. /\ Sound(q) /\ q.occupants = o + 1 /\ Held(q) = Held(w)
       /\ \A i \in Positions : Read(q, i) = Read(w, i)
  <2>1. Sound(w) /\ o + 1 \in Nat
    BY <1>3, <1>17 DEF Wrote
  <2> QED
    BY <1>18, <2>1, OccupyKeeps
<1>21. ASSUME NEW i \in 0..o
       PROVE  Read(q, i) = IF i = at THEN e ELSE IF i < at THEN Read(p, i) ELSE Read(p, i - 1)
  <2>1. i \in Positions
    BY <1>3 DEF Positions
  <2>2. CASE i = at
    BY <1>17, <1>20, <2>1, <2>2 DEF Wrote
  <2>3. CASE i # at
    <3>1. Read(q, i) = Read(p, from[i])
      BY <1>16, <1>17, <1>20, <2>1, <2>3 DEF Wrote
    <3>2. from[i] = IF i < at THEN i ELSE i - 1
      BY <1>3, <1>13, <2>1, <2>3
    <3> QED
      BY <2>3, <3>1, <3>2
  <2> QED
    BY <2>2, <2>3
<1>22. \A i \in 0..o : Read(q, i) \in Entries
  BY <1>3, <1>21
<1>23. Leaf(q)
  <2>1. PICK m : m = IF o < a THEN a ELSE a + 1
    OBVIOUS
  <2>2. m \in 0..Slots /\ o + 1 <= m
    BY <1>3, <2>1
  <2>3. Held(q) = 0..(m - 1)
    BY <1>15, <1>17, <1>20, <2>1 DEF Wrote
  <2>4. \A i \in 0..(q.occupants - 1) : Read(q, i) \in Entries
    BY <1>3, <1>20, <1>22
  <2> QED
    BY <1>20, <2>2, <2>3, <2>4, MakeLeaf
<1> QED
  BY <1>1, <1>19, <1>20, <1>21, <1>23

\* erase_d: the cell of the erased entry goes behind the last one.
LEMMA EraseDoes ==
    ASSUME NEW p, Leaf(p), NEW slot \in 0..(p.occupants - 1)
    PROVE  LET q == EraseD(p, slot)
           IN  /\ Leaf(q) /\ q.occupants = p.occupants - 1
               /\ \A i \in 0..(p.occupants - 2) :
                    Read(q, i) = IF i < slot THEN Read(p, i) ELSE Read(p, i + 1)
<1>1. PICK o : o = p.occupants
  OBVIOUS
<1>2. PICK a : a = p.allocated
  OBVIOUS
<1>3. /\ Sound(p) /\ p \in PageType /\ o \in 0..Slots /\ a \in 0..Slots /\ o <= a
      /\ Held(p) = 0..(a - 1) /\ slot \in 0..(o - 1)
      /\ \A i \in 0..(o - 1) : i \in Positions /\ Read(p, i) \in Entries
  BY <1>1, <1>2, LeafFacts
<1>4. p.permutations \in [Positions -> 0..Slots] /\ slot \in Positions /\ o - 1 \in Positions /\ o - 1 \in Nat
  BY <1>3 DEF PageType, Positions
<1> DEFINE perm == [i \in Positions |->
                       IF i = o - 1 THEN p.permutations[slot]
                       ELSE IF i >= slot /\ i < o - 1 THEN p.permutations[i + 1] ELSE p.permutations[i]]
           from == [i \in Positions |->
                       IF i = o - 1 THEN slot ELSE IF i >= slot /\ i < o - 1 THEN i + 1 ELSE i]
<1>5. \A i \in Positions : from[i] \in Positions
  BY <1>3, <1>4 DEF Positions
<1>6. \A i \in Positions : perm[i] = p.permutations[from[i]]
  BY <1>3, <1>4
<1>7. perm \in [Positions -> 0..Slots]
  <2>1. perm = [i \in Positions |-> p.permutations[from[i]]]
    BY <1>3, <1>4
  <2> QED
    BY <1>4, <1>5, <2>1
<1>8. PICK z : z = [p EXCEPT !.permutations = perm]
  OBVIOUS
<1>9. PICK q : q = Occupy(z, o - 1)
  OBVIOUS
<1>10. EraseD(p, slot) = q
  BY <1>1, <1>3, <1>8, <1>9 DEF EraseD, Occupy, PageType
<1>11. \A i, j \in Positions : from[i] = from[j] => i = j
  BY <1>3, <1>4 DEF Positions
<1>12. z.permutations = perm
  BY <1>3, <1>8 DEF PageType
<1>13. \A i \in Positions :
          from[i] = IF i = o - 1 THEN slot ELSE IF i >= slot /\ i < o - 1 THEN i + 1 ELSE i
  OBVIOUS
<1> HIDE DEF perm, from
<1>14. Held(z) = {i \in Positions : from[i] \in Held(p)}
  BY <1>5, <1>6, <1>12 DEF Held
<1>15. Held(z) = 0..(a - 1)
  <2>1. ASSUME NEW i \in Positions PROVE from[i] \in 0..(a - 1) <=> i \in 0..(a - 1)
    BY <1>3, <1>4, <1>13 DEF Positions
  <2> QED
    BY <1>3, <1>14, <2>1 DEF Positions
<1>16. /\ Sound(z) /\ z.occupants = o /\ z.allocated = a
       /\ \A i \in Positions : Read(z, i) = Read(p, from[i])
  <2>1. \A i, j \in Held(z) : from[i] = from[j] => i = j
    BY <1>11 DEF Held
  <2>2. \A i \in Positions : perm[i] = p.permutations[from[i]] /\ from[i] \in Positions
    BY <1>5, <1>6
  <2>3. Cardinality(Held(z)) = p.allocated
    BY <1>2, <1>3, <1>15, FirstN
  <2>4. Reordered(z, p, perm, from)
    BY <1>7, <1>8, <2>1, <2>2, <2>3 DEF Reordered
  <2> QED
    BY <1>1, <1>2, <1>3, <2>4, ReorderedSound
<1>17. /\ Sound(q) /\ q.occupants = o - 1 /\ Held(q) = Held(z)
       /\ \A i \in Positions : Read(q, i) = Read(z, i)
  BY <1>4, <1>9, <1>16, OccupyKeeps
<1>18. ASSUME NEW i \in 0..(o - 2)
       PROVE  Read(q, i) = IF i < slot THEN Read(p, i) ELSE Read(p, i + 1)
  <2>1. i \in Positions /\ from[i] = IF i < slot THEN i ELSE i + 1
    BY <1>3, <1>13 DEF Positions
  <2>2. Read(q, i) = Read(p, from[i])
    BY <1>16, <1>17, <2>1
  <2> QED
    BY <2>1, <2>2
<1>19. \A i \in 0..(o - 2) : Read(q, i) \in Entries
  BY <1>3, <1>18
<1>20. Leaf(q)
  <2>1. \A i \in 0..(q.occupants - 1) : Read(q, i) \in Entries
    BY <1>3, <1>17, <1>19
  <2> QED
    BY <1>3, <1>15, <1>17, <2>1, MakeLeaf
<1> QED
  BY <1>1, <1>10, <1>17, <1>18, <1>20

\* save and load: the page that comes back holds the entries in order.
LEMMA LoadDoes ==
    ASSUME NEW s \in Seq(Entries), Len(s) <= Slots
    PROVE  LET q == Load(s)
           IN  Leaf(q) /\ q.occupants = Len(s) /\ \A i \in 0..(Len(s) - 1) : Read(q, i) = s[i + 1]
<1>1. PICK n : n = Len(s)
  OBVIOUS
<1>2. n \in 0..Slots /\ n \in Nat /\ \A k \in 1..n : s[k] \in Entries
  BY <1>1
<1>3. PICK p : p = Occupy(NewPage, n)
  OBVIOUS
<1>4. Sound(p) /\ p.occupants = n /\ Held(p) = {}
  BY <1>2, <1>3, NewPageSound, OccupyKeeps
<1>5. PICK at : at = Up(n)
  OBVIOUS
<1>6. Len(at) = n /\ \A k \in 1..n : at[k] = k - 1
  BY <1>2, <1>5, UpAndDown
<1>7. Targets(at, s, n)
  BY <1>2, <1>6 DEF Targets, Positions, Entries
<1>8. PICK q : q = Fill(p, at, s)
  OBVIOUS
<1>9. Load(s) = q
  BY <1>1, <1>3, <1>5, <1>8 DEF Load
<1>10. After(q, p, at, s, n)
  BY <1>2, <1>4, <1>6, <1>7, <1>8, FillDoes
<1>11. PICK r : r = [i \in 0..(n - 1) |-> s[i + 1]]
  OBVIOUS
<1>12. \A k \in 1..n : at[k] = k - 1 + 0 /\ s[k] = r[k - 1]
  BY <1>2, <1>6, <1>11
<1>13. Moved(q, p, 0, n, r)
  BY <1>2, <1>10, <1>12, AfterUp
<1>14. /\ Sound(q) /\ q.occupants = n /\ Held(q) = 0..(n - 1)
       /\ \A i \in 0..(n - 1) : Read(q, i) = s[i + 1]
  BY <1>2, <1>4, <1>11, <1>13 DEF Moved
<1>15. Leaf(q)
  BY <1>2, <1>14, MakeLeaf
<1> QED
  BY <1>1, <1>9, <1>14, <1>15

Halves(p, mid, n) == mid = p.occupants \div 2 /\ n = p.occupants - mid

\* split_surface_node: set_kv does in a new page what a write does.
LEMMA SplitOffDoes ==
    ASSUME NEW p, Leaf(p), NEW mid \in Nat, NEW n \in Nat, Halves(p, mid, n)
    PROVE  LET q == SplitOff(p)
           IN  Leaf(q) /\ q.occupants = n /\ \A i \in 0..(n - 1) : Read(q, i) = Read(p, i + mid)
<1>1. /\ Sound(p) /\ p.occupants \in 0..Slots
      /\ \A i \in 0..(p.occupants - 1) : i \in Positions /\ Read(p, i) \in Entries
  BY LeafFacts
<1>2. mid \in Nat /\ n \in 0..Slots /\ n \in Nat /\ mid + n = p.occupants /\ p.occupants \in Nat
  BY <1>1 DEF Halves
<1>3. PICK new : new = Occupy(NewPage, n)
  OBVIOUS
<1>4. Sound(new) /\ new.occupants = n /\ Held(new) = {}
  BY <1>2, <1>3, NewPageSound, OccupyKeeps
<1>5. PICK at : at = [k \in 1..n |-> k - 1]
  OBVIOUS
<1>6. PICK es : es = [k \in 1..n |-> Read(p, mid + (k - 1))]
  OBVIOUS
<1>7. PICK r : r = [i \in 0..(n - 1) |-> Read(p, i + mid)]
  OBVIOUS
<1>8. \A k \in 1..n : at[k] = k - 1 /\ es[k] = Read(p, mid + (k - 1))
  BY <1>5, <1>6
<1>9. \A k \in 1..n : mid + (k - 1) \in 0..(p.occupants - 1)
  BY <1>2
<1>10. Targets(at, es, n)
  <2>1. \A k \in 1..n : at[k] \in Positions
    BY <1>2, <1>8 DEF Positions
  <2>2. \A k \in 1..n : es[k] \in Nat
    BY <1>1, <1>8, <1>9 DEF Entries
  <2>3. \A j, k \in 1..n : at[j] = at[k] => j = k
    BY <1>8
  <2> QED
    BY <2>1, <2>2, <2>3 DEF Targets
<1>11. PICK q : q = SplitOff(p)
  OBVIOUS
<1>12. After(q, new, at, es, n)
  BY <1>2, <1>3, <1>4, <1>8, <1>10, <1>11, SplitDoes DEF Halves
<1>13. \A k \in 1..n : at[k] = k - 1 + 0 /\ es[k] = r[k - 1]
  <2>1. ASSUME NEW k \in 1..n PROVE mid + (k - 1) = (k - 1) + mid /\ k - 1 \in 0..(n - 1)
    BY <1>2
  <2> QED
    BY <1>2, <1>7, <1>8, <2>1
<1>14. Moved(q, new, 0, n, r)
  BY <1>2, <1>12, <1>13, AfterUp
<1>15. /\ Sound(q) /\ q.occupants = n /\ Held(q) = 0..(n - 1)
       /\ \A i \in 0..(n - 1) : Read(q, i) = Read(p, i + mid)
  BY <1>2, <1>4, <1>7, <1>14 DEF Moved
<1>16. \A i \in 0..(n - 1) : Read(q, i) \in Entries
  BY <1>1, <1>2, <1>15
<1>17. Leaf(q)
  BY <1>2, <1>15, <1>16, MakeLeaf
<1> QED
  BY <1>11, <1>15, <1>17

\* merge_leaves and shift_left_surface: the first n entries of r go behind l's.
LEMMA AppendDoes ==
    ASSUME NEW l, NEW r, Leaf(l), Leaf(r), NEW n \in 0..r.occupants, l.occupants + n <= Slots
    PROVE  LET q == Occupy(Copy(l, l.occupants, r, 0, Up(n)), l.occupants + n)
           IN  /\ Leaf(q) /\ q.occupants = l.occupants + n
               /\ \A i \in 0..(l.occupants + n - 1) :
                    Read(q, i) = IF i < l.occupants THEN Read(l, i) ELSE Read(r, i - l.occupants)
<1>1. PICK o : o = l.occupants
  OBVIOUS
<1>2. PICK a : a = l.allocated
  OBVIOUS
<1>3. /\ Sound(l) /\ o \in 0..Slots /\ a \in 0..Slots /\ o <= a /\ Held(l) = 0..(a - 1)
      /\ \A i \in 0..(o - 1) : i \in Positions /\ Read(l, i) \in Entries
  BY <1>1, <1>2, LeafFacts
<1>4. /\ Sound(r) /\ r.occupants \in 0..Slots
      /\ \A i \in 0..(r.occupants - 1) : Read(r, i) \in Entries
  BY LeafFacts
<1>5. o \in Nat /\ n \in Nat /\ o + n \in 0..Slots /\ n <= Slots /\ n <= r.occupants
  BY <1>1, <1>3, <1>4
<1>6. PICK f : f = [i \in 0..(n - 1) |-> Read(r, i + 0)]
  OBVIOUS
<1>7. PICK c : c = Copy(l, o, r, 0, Up(n))
  OBVIOUS
<1>8. Moved(c, l, o, n, f)
  BY <1>3, <1>4, <1>5, <1>6, <1>7, CopyDoes
<1>9. PICK q : q = Occupy(c, o + n)
  OBVIOUS
<1>10. /\ Sound(q) /\ q.occupants = o + n /\ Held(q) = Held(c)
       /\ \A i \in Positions : Read(q, i) = Read(c, i)
  <2>1. Sound(c) /\ o + n \in Nat
    BY <1>5, <1>8 DEF Moved
  <2> QED
    BY <1>9, <2>1, OccupyKeeps
<1>11. PICK m : m = IF a < o + n THEN o + n ELSE a
  OBVIOUS
<1>12. m \in 0..Slots /\ o + n <= m
  BY <1>3, <1>5, <1>11
<1>13. Held(q) = 0..(m - 1)
  <2>1. Held(q) = 0..(a - 1) \cup o..(o + n - 1)
    BY <1>3, <1>8, <1>10 DEF Moved
  <2> QED
    BY <1>3, <1>5, <1>11, <2>1
<1>14. ASSUME NEW i \in 0..(o + n - 1)
       PROVE  Read(q, i) = IF i < o THEN Read(l, i) ELSE Read(r, i - o)
  <2>1. i \in Positions
    BY <1>5 DEF Positions
  <2>2. CASE i < o
    <3>1. i \notin o..(o + n - 1)
      BY <1>5, <2>2
    <3> QED
      BY <1>8, <1>10, <2>1, <2>2, <3>1 DEF Moved
  <2>3. CASE ~(i < o)
    <3>1. i - o \in 0..(n - 1) /\ (i - o) + o = i /\ (i - o) + 0 = i - o
      BY <1>5, <2>3
    <3>2. Read(c, (i - o) + o) = f[i - o] /\ f[i - o] = Read(r, (i - o) + 0)
      BY <1>6, <1>8, <3>1 DEF Moved
    <3> QED
      BY <1>10, <2>1, <2>3, <3>1, <3>2
  <2> QED
    BY <2>2, <2>3
<1>15. \A i \in 0..(q.occupants - 1) : Read(q, i) \in Entries
  BY <1>3, <1>4, <1>5, <1>10, <1>14
<1>16. Leaf(q)
  BY <1>10, <1>12, <1>13, <1>15, MakeLeaf
<1> QED
  BY <1>1, <1>7, <1>9, <1>10, <1>14, <1>16

\* shift_left_surface: the entries of r from n on go to its front.
LEMMA DropDoes ==
    ASSUME NEW r, Leaf(r), NEW n \in 0..r.occupants, NEW rest, rest = r.occupants - n
    PROVE  LET q == MoveWithin(Occupy(r, rest), 0, n, Up(rest))
           IN  Leaf(q) /\ q.occupants = rest /\ \A i \in 0..(rest - 1) : Read(q, i) = Read(r, i + n)
<1>1. /\ Sound(r) /\ r.occupants \in 0..Slots /\ r.allocated \in 0..Slots
      /\ r.occupants <= r.allocated /\ Held(r) = 0..(r.allocated - 1)
      /\ \A i \in 0..(r.occupants - 1) : i \in Positions /\ Read(r, i) \in Entries
  BY LeafFacts
<1>2. n \in Nat /\ rest \in Nat /\ n + rest = r.occupants /\ n + rest <= Slots /\ rest <= r.allocated
  BY <1>1
<1>3. PICK p : p = Occupy(r, rest)
  OBVIOUS
<1>4. /\ Sound(p) /\ p.occupants = rest /\ Held(p) = Held(r)
      /\ \A i \in Positions : Read(p, i) = Read(r, i)
  BY <1>1, <1>2, <1>3, OccupyKeeps
<1>5. PICK f : f = [i \in 0..(rest - 1) |-> Read(p, i + n)]
  OBVIOUS
<1>6. PICK q : q = MoveWithin(p, 0, n, Up(rest))
  OBVIOUS
<1>7. Moved(q, p, 0, rest, f)
  BY <1>2, <1>4, <1>5, <1>6, MoveUpDoes
<1>8. Held(q) = 0..(r.allocated - 1)
  <2>1. Held(q) = 0..(r.allocated - 1) \cup 0..(0 + rest - 1)
    BY <1>1, <1>4, <1>7 DEF Moved
  <2> QED
    BY <1>1, <1>2, <2>1
<1>9. ASSUME NEW i \in 0..(rest - 1) PROVE Read(q, i) = Read(r, i + n) /\ Read(r, i + n) \in Entries
  <2>1. i + 0 = i /\ i + n \in 0..(r.occupants - 1)
    BY <1>2
  <2>2. Read(q, i + 0) = Read(p, i + n)
    BY <1>5, <1>7 DEF Moved
  <2> QED
    BY <1>1, <1>4, <2>1, <2>2
<1>10. Sound(q) /\ q.occupants = rest
  BY <1>4, <1>7 DEF Moved
<1>11. Leaf(q)
  BY <1>1, <1>2, <1>8, <1>9, <1>10, MakeLeaf
<1> QED
  BY <1>3, <1>6, <1>9, <1>10, <1>11

\* shift_right_surface: the last n entries of l go before r's.  While r's
\* entries move up there may be positions without a cell below ones that have
\* one; the copy that follows fills them.
LEMMA PrependDoes ==
    ASSUME NEW l, NEW r, Leaf(l), Leaf(r), NEW n \in 0..l.occupants, r.occupants + n <= Slots
    PROVE  LET moved == MoveWithin(r, n, 0, Down(r.occupants))
               q == Copy(Occupy(moved, r.occupants + n), 0, l, l.occupants - n, Up(n))
           IN  /\ Leaf(q) /\ q.occupants = r.occupants + n
               /\ \A i \in 0..(r.occupants + n - 1) :
                    Read(q, i) = IF i < n THEN Read(l, i + (l.occupants - n)) ELSE Read(r, i - n)
<1>1. PICK o : o = r.occupants
  OBVIOUS
<1>2. PICK a : a = r.allocated
  OBVIOUS
<1>3. PICK d : d = l.occupants - n
  OBVIOUS
<1>4. /\ Sound(r) /\ o \in 0..Slots /\ a \in 0..Slots /\ o <= a /\ Held(r) = 0..(a - 1)
      /\ \A i \in 0..(o - 1) : i \in Positions /\ Read(r, i) \in Entries
  BY <1>1, <1>2, LeafFacts
<1>5. /\ Sound(l) /\ l.occupants \in 0..Slots
      /\ \A i \in 0..(l.occupants - 1) : Read(l, i) \in Entries
  BY LeafFacts
<1>6. o \in Nat /\ n \in Nat /\ d \in Nat /\ o + n \in 0..Slots /\ n + o <= Slots /\ d + n <= Slots /\ d + n = l.occupants
  BY <1>1, <1>3, <1>4, <1>5
<1>7. PICK moved : moved = MoveWithin(r, n, 0, Down(o))
  OBVIOUS
<1>8. PICK f : f = [i \in 0..(o - 1) |-> Read(r, i + 0)]
  OBVIOUS
<1>9. Moved(moved, r, n, o, f)
  BY <1>4, <1>6, <1>7, <1>8, MoveDownDoes
<1>10. PICK z : z = Occupy(moved, o + n)
  OBVIOUS
<1>11. /\ Sound(z) /\ z.occupants = o + n /\ Held(z) = Held(moved)
       /\ \A i \in Positions : Read(z, i) = Read(moved, i)
  <2>1. Sound(moved) /\ o + n \in Nat
    BY <1>6, <1>9 DEF Moved
  <2> QED
    BY <1>10, <2>1, OccupyKeeps
<1>12. PICK q : q = Copy(z, 0, l, d, Up(n))
  OBVIOUS
<1>13. PICK g : g = [i \in 0..(n - 1) |-> Read(l, i + d)]
  OBVIOUS
<1>14. Moved(q, z, 0, n, g)
  <2>1. 0 \in Nat /\ 0 + n <= Slots
    BY <1>6
  <2> QED
    BY <1>5, <1>6, <1>11, <1>12, <1>13, <2>1, CopyDoes
<1>15. PICK m : m = IF a < o + n THEN o + n ELSE a
  OBVIOUS
<1>16. m \in 0..Slots /\ o + n <= m
  BY <1>4, <1>6, <1>15
<1>17. Held(q) = 0..(m - 1)
  <2>1. Held(q) = (0..(a - 1) \cup n..(n + o - 1)) \cup 0..(0 + n - 1)
    BY <1>4, <1>9, <1>11, <1>14 DEF Moved
  <2> QED
    BY <1>4, <1>6, <1>15, <2>1
<1>18. ASSUME NEW i \in 0..(o + n - 1)
       PROVE  Read(q, i) = IF i < n THEN Read(l, i + d) ELSE Read(r, i - n)
  <2>1. i \in Positions
    BY <1>6 DEF Positions
  <2>2. CASE i < n
    <3>1. i \in 0..(n - 1) /\ i + 0 = i
      BY <1>6, <2>2
    <3>2. Read(q, i + 0) = g[i] /\ g[i] = Read(l, i + d)
      BY <1>13, <1>14, <3>1 DEF Moved
    <3> QED
      BY <2>2, <3>1, <3>2
  <2>3. CASE ~(i < n)
    <3>1. i \notin 0..(0 + n - 1) /\ i - n \in 0..(o - 1) /\ (i - n) + n = i /\ (i - n) + 0 = i - n
      BY <1>6, <2>3
    <3>2. Read(q, i) = Read(moved, i)
      BY <1>11, <1>14, <2>1, <3>1 DEF Moved
    <3>3. Read(moved, (i - n) + n) = f[i - n] /\ f[i - n] = Read(r, (i - n) + 0)
      BY <1>8, <1>9, <3>1 DEF Moved
    <3> QED
      BY <2>3, <3>1, <3>2, <3>3
  <2> QED
    BY <2>2, <2>3
<1>19. Sound(q) /\ q.occupants = o + n
  BY <1>11, <1>14 DEF Moved
<1>20. \A i \in 0..(q.occupants - 1) : Read(q, i) \in Entries
  BY <1>4, <1>5, <1>6, <1>18, <1>19
<1>21. Leaf(q)
  BY <1>16, <1>17, <1>19, <1>20, MakeLeaf
<1> QED
  BY <1>1, <1>3, <1>7, <1>10, <1>12, <1>18, <1>19, <1>21

----------------------------------------------------------------------------
(* Leaves as sequences                                                     *)

\* t is s with one more entry, at i, or with the one at i less.
Inserted(t, s, i) ==
    /\ Len(t) = Len(s) + 1 /\ i \in 1..(Len(s) + 1)
    /\ \A j \in 1..(Len(s) + 1) : (j < i => t[j] = s[j]) /\ (j > i => t[j] = s[j - 1])

Removed(t, s, i) ==
    /\ Len(t) = Len(s) - 1 /\ i \in 1..Len(s)
    /\ \A j \in 1..(Len(s) - 1) : t[j] = IF j < i THEN s[j] ELSE s[j + 1]

LengthsAre(a, b, m, n) == m \in Nat /\ n \in Int /\ Len(a) = m /\ m + Len(b) = n

Joined(S, c, a, b, m, n) ==
    c \in Seq(S) /\ Len(c) = n /\ \A j \in 1..n : c[j] = IF j <= m THEN a[j] ELSE b[j - m]

LEMMA Concatenated ==
    ASSUME NEW S, NEW a \in Seq(S), NEW b \in Seq(S), NEW m, NEW n, LengthsAre(a, b, m, n),
           NEW c, c = a \o b
    PROVE  Joined(S, c, a, b, m, n)
<1>1. /\ a \o b \in Seq(S) /\ Len(a \o b) = Len(a) + Len(b)
      /\ \A j \in 1..(Len(a) + Len(b)) : (a \o b)[j] = IF j <= Len(a) THEN a[j] ELSE b[j - Len(a)]
  BY ConcatProperties, Zenon
<1> QED
  BY <1>1 DEF LengthsAre, Joined

LEMMA InsertAtIs ==
    ASSUME NEW S, NEW s \in Seq(S), NEW t \in Seq(S), NEW i, Inserted(t, s, i)
    PROVE  t = InsertAt(s, i, t[i])
<1>1. PICK n \in Nat : n = Len(s)
  OBVIOUS
<1>2. /\ i \in 1..(n + 1) /\ Len(t) = n + 1
      /\ \A j \in 1..(n + 1) : (j < i => t[j] = s[j]) /\ (j > i => t[j] = s[j - 1])
  BY <1>1 DEF Inserted
<1>3. PICK a : a = SubSeq(s, 1, i - 1)
  OBVIOUS
<1>4. PICK b : b = SubSeq(s, i, n)
  OBVIOUS
<1>5. PICK e : e = t[i]
  OBVIOUS
<1>6. a \in Seq(S) /\ Len(a) = i - 1 /\ \A j \in 1..(i - 1) : a[j] = s[j]
  BY <1>1, <1>2, <1>3
<1>7. b \in Seq(S) /\ Len(b) = n - i + 1 /\ \A j \in 1..(n - i + 1) : b[j] = s[i + j - 1]
  BY <1>1, <1>2, <1>4
<1>8. <<e>> \in Seq(S) /\ Len(<<e>>) = 1 /\ <<e>>[1] = e
  BY <1>2, <1>5
<1>9. PICK c : c = a \o <<e>>
  OBVIOUS
<1>10. /\ c \in Seq(S) /\ Len(c) = i
       /\ \A j \in 1..i : c[j] = IF j <= i - 1 THEN a[j] ELSE <<e>>[j - (i - 1)]
  <2>1. i - 1 \in Nat /\ i \in Int /\ (i - 1) + Len(<<e>>) = i
    BY <1>2, <1>8
  <2> QED
    BY <1>6, <1>8, <1>9, <2>1, Concatenated DEF LengthsAre, Joined
<1>11. \A j \in 1..i : c[j] = IF j < i THEN s[j] ELSE e
  <2>1. ASSUME NEW j \in 1..i PROVE c[j] = IF j < i THEN s[j] ELSE e
    <3>1. CASE j < i
      <4>1. j \in 1..(i - 1) /\ j <= i - 1
        BY <1>2, <3>1
      <4> QED
        BY <1>6, <1>10, <3>1, <4>1
    <3>2. CASE j = i
      <4>1. j - (i - 1) = 1 /\ ~(j <= i - 1)
        BY <1>2, <3>2
      <4> QED
        BY <1>8, <1>10, <3>2, <4>1
    <3> QED
      BY <1>2, <3>1, <3>2
  <2> QED
    BY <2>1
<1>12. PICK d : d = c \o b
  OBVIOUS
<1>13. /\ d \in Seq(S) /\ Len(d) = n + 1
       /\ \A j \in 1..(n + 1) : d[j] = IF j <= i THEN c[j] ELSE b[j - i]
  <2>1. i \in Nat /\ n + 1 \in Int /\ i + Len(b) = n + 1
    BY <1>2, <1>7
  <2> QED
    BY <1>7, <1>10, <1>12, <2>1, Concatenated DEF LengthsAre, Joined
<1>14. ASSUME NEW j \in 1..(n + 1) PROVE d[j] = t[j]
  <2>1. CASE j <= i
    BY <1>2, <1>5, <1>11, <1>13, <2>1
  <2>2. CASE ~(j <= i)
    <3>1. j - i \in 1..(n - i + 1) /\ i + (j - i) - 1 = j - 1 /\ j > i
      BY <1>2, <2>2
    <3> QED
      BY <1>2, <1>7, <1>13, <2>2, <3>1
  <2> QED
    BY <2>1, <2>2
<1>15. d = t
  BY <1>2, <1>13, <1>14
<1> QED
  BY <1>1, <1>3, <1>4, <1>5, <1>9, <1>12, <1>15 DEF InsertAt

LEMMA RemoveAtIs ==
    ASSUME NEW S, NEW s \in Seq(S), NEW t \in Seq(S), NEW i, Removed(t, s, i)
    PROVE  t = RemoveAt(s, i)
<1>1. PICK n \in Nat : n = Len(s)
  OBVIOUS
<1>2. PICK m \in Int : m = n - 1
  BY <1>1
<1>3. PICK h \in Int : h = i - 1
  BY DEF Removed
<1>4. /\ i \in 1..n /\ Len(t) = m
      /\ \A j \in 1..m : t[j] = IF j < i THEN s[j] ELSE s[j + 1]
  BY <1>2, <1>1 DEF Removed
<1>5. PICK a : a = SubSeq(s, 1, h)
  OBVIOUS
<1>6. PICK b : b = SubSeq(s, i + 1, n)
  OBVIOUS
<1>7. a \in Seq(S) /\ Len(a) = h /\ \A j \in 1..h : a[j] = s[j]
  BY <1>3, <1>1, <1>4, <1>5
<1>8. b \in Seq(S) /\ Len(b) = n - i /\ \A j \in 1..(n - i) : b[j] = s[i + j]
  BY <1>1, <1>4, <1>6
<1>9. PICK d : d = a \o b
  OBVIOUS
<1>10. /\ d \in Seq(S) /\ Len(d) = m
      /\ \A j \in 1..m : d[j] = IF j <= h THEN a[j] ELSE b[j - h]
  <2>1. h \in Nat /\ m \in Int /\ h + Len(b) = m
    BY <1>2, <1>3, <1>4, <1>8
  <2>2. a \in Seq(S) /\ Len(a) = h /\ b \in Seq(S)
    BY <1>7, <1>8
  <2>3. LengthsAre(a, b, h, m)
    BY <2>1, <2>2 DEF LengthsAre
  <2>4. Joined(S, d, a, b, h, m)
    BY <1>9, <2>2, <2>3, Concatenated
  <2> QED
    BY <2>4 DEF Joined
<1>11. ASSUME NEW j \in 1..m PROVE d[j] = t[j]
  <2>1. CASE j < i
    <3>1. j \in 1..h /\ j <= h
      BY <1>3, <1>4, <2>1
    <3> QED
      BY <1>4, <1>7, <1>10, <2>1, <3>1
  <2>2. CASE ~(j < i)
    <3>1. j - h \in 1..(n - i) /\ i + (j - h) = j + 1 /\ ~(j <= h)
      BY <1>2, <1>3, <1>4, <2>2
    <3> QED
      BY <1>4, <1>8, <1>10, <2>2, <3>1
  <2> QED
    BY <2>1, <2>2
<1>12. d = t
  BY <1>4, <1>10, <1>11
<1> QED
  BY <1>3, <1>1, <1>5, <1>6, <1>9, <1>12 DEF RemoveAt

\* The k-th of the entries of two leaves
Both(l, r, k) == IF k <= Len(l) THEN l[k] ELSE r[k - Len(l)]

SameBoth(l2, r2, l, r) ==
    /\ Len(l2) + Len(r2) = Len(l) + Len(r)
    /\ \A k \in 1..(Len(l) + Len(r)) : Both(l2, r2, k) = Both(l, r, k)

LEMMA SameConcat ==
    ASSUME NEW S, NEW l \in Seq(S), NEW r \in Seq(S), NEW l2 \in Seq(S), NEW r2 \in Seq(S),
           SameBoth(l2, r2, l, r)
    PROVE  l2 \o r2 = l \o r
<1>1. /\ l \o r \in Seq(S) /\ Len(l \o r) = Len(l) + Len(r)
      /\ \A k \in 1..(Len(l) + Len(r)) : (l \o r)[k] = Both(l, r, k)
  BY DEF Both, SameBoth
<1>2. /\ l2 \o r2 \in Seq(S) /\ Len(l2 \o r2) = Len(l) + Len(r)
      /\ \A k \in 1..(Len(l) + Len(r)) : (l2 \o r2)[k] = Both(l2, r2, k)
  BY DEF Both, SameBoth
<1> QED
  BY <1>1, <1>2 DEF SameBoth

LEMMA LeafSeq ==
    ASSUME NEW p, Leaf(p)
    PROVE  /\ EntriesOf(p) \in Seq(Entries) /\ Len(EntriesOf(p)) = p.occupants
           /\ p.occupants \in Nat
           /\ \A i \in 1..p.occupants : EntriesOf(p)[i] = Read(p, i - 1)
<1>1. p.occupants \in Nat /\ \A i \in 0..(p.occupants - 1) : Read(p, i) \in Entries
  BY LeafFacts
<1>2. PICK o : o = p.occupants
  OBVIOUS
<1>3. PICK s : s = [i \in 1..o |-> Read(p, i - 1)]
  OBVIOUS
<1>4. \A i \in 1..o : Read(p, i - 1) \in Entries
  BY <1>1, <1>2
<1>5. s \in Seq(Entries) /\ Len(s) = o
  BY <1>1, <1>2, <1>3, <1>4
<1> QED
  BY <1>1, <1>2, <1>3, <1>5 DEF EntriesOf

LEMMA InsertEdits ==
    ASSUME NEW p, Leaf(p), p.occupants < Slots, NEW at \in 0..p.occupants, NEW e \in Entries
    PROVE  Leaf(Insert_(p, at, e)) /\ LS!Edit(EntriesOf(p), EntriesOf(Insert_(p, at, e)))
<1>1. PICK q : q = Insert_(p, at, e)
  OBVIOUS
<1>2. /\ Leaf(q) /\ q.occupants = p.occupants + 1
      /\ \A i \in 0..p.occupants :
            Read(q, i) = IF i = at THEN e ELSE IF i < at THEN Read(p, i) ELSE Read(p, i - 1)
  BY <1>1, InsertDoes
<1>3. PICK s : s = EntriesOf(p)
  OBVIOUS
<1>4. PICK t : t = EntriesOf(q)
  OBVIOUS
<1>5. /\ s \in Seq(Entries) /\ Len(s) = p.occupants /\ p.occupants \in Nat
      /\ \A i \in 1..p.occupants : s[i] = Read(p, i - 1)
  BY <1>3, LeafSeq
<1>6. /\ t \in Seq(Entries) /\ Len(t) = p.occupants + 1
      /\ \A i \in 1..(p.occupants + 1) : t[i] = Read(q, i - 1)
  BY <1>2, <1>4, LeafSeq
<1>7. at + 1 \in 1..(Len(s) + 1) /\ at + 1 \in DOMAIN t
  BY <1>5, <1>6
<1>8. ASSUME NEW j \in 1..(Len(s) + 1)
      PROVE  (j < at + 1 => t[j] = s[j]) /\ (j > at + 1 => t[j] = s[j - 1])
  <2>1. j - 1 \in 0..p.occupants /\ t[j] = Read(q, j - 1)
    BY <1>5, <1>6
  <2>2. CASE j < at + 1
    BY <1>2, <1>5, <2>1, <2>2
  <2>3. CASE j > at + 1
    <3>1. Read(q, j - 1) = Read(p, (j - 1) - 1) /\ j - 1 \in 1..p.occupants
      BY <1>2, <1>5, <2>1, <2>3
    <3> QED
      BY <1>5, <2>1, <2>3, <3>1
  <2> QED
    BY <1>5, <2>2, <2>3
<1>9. t = InsertAt(s, at + 1, t[at + 1])
  <2>1. Inserted(t, s, at + 1)
    BY <1>5, <1>6, <1>7, <1>8 DEF Inserted
  <2> QED
    BY <1>5, <1>6, <2>1, InsertAtIs
<1>10. LS!Edit(s, t)
  <2>1. t = LS!InsertAt(s, at + 1, t[at + 1])
    BY <1>9 DEF InsertAt, LS!InsertAt
  <2>2. at + 1 <= Len(s) + 1
    BY <1>5
  <2> QED
    BY <1>6, <1>7, <2>1, <2>2 DEF LS!Edit, Entries
<1> QED
  BY <1>1, <1>2, <1>3, <1>4, <1>10

LEMMA AssignEdits ==
    ASSUME NEW p, Leaf(p), NEW at \in 0..(p.occupants - 1), NEW e \in Entries
    PROVE  Leaf(Write(p, at, e)) /\ LS!Edit(EntriesOf(p), EntriesOf(Write(p, at, e)))
<1>1. PICK q : q = Write(p, at, e)
  OBVIOUS
<1>2. /\ Leaf(q) /\ q.occupants = p.occupants
      /\ \A i \in 0..(p.occupants - 1) : Read(q, i) = IF i = at THEN e ELSE Read(p, i)
  BY <1>1, AssignDoes
<1>3. PICK s : s = EntriesOf(p)
  OBVIOUS
<1>4. PICK t : t = EntriesOf(q)
  OBVIOUS
<1>5. /\ s \in Seq(Entries) /\ Len(s) = p.occupants /\ p.occupants \in Nat
      /\ \A i \in 1..p.occupants : s[i] = Read(p, i - 1)
  BY <1>3, LeafSeq
<1>6. /\ t \in Seq(Entries) /\ Len(t) = p.occupants
      /\ \A i \in 1..p.occupants : t[i] = Read(q, i - 1)
  BY <1>2, <1>4, LeafSeq
<1>7. at + 1 \in DOMAIN s /\ at + 1 \in DOMAIN t
  BY <1>5, <1>6
<1>8. ASSUME NEW j \in 1..Len(s), j # at + 1 PROVE t[j] = s[j]
  <2>1. j \in 1..p.occupants /\ j - 1 \in 0..(p.occupants - 1) /\ j - 1 # at
    BY <1>5, <1>8
  <2>2. Read(q, j - 1) = Read(p, j - 1)
    BY <1>2, <2>1
  <2> QED
    BY <1>5, <1>6, <2>1, <2>2
<1>9. t = [s EXCEPT ![at + 1] = t[at + 1]]
  <2>1. PICK d : d = [s EXCEPT ![at + 1] = t[at + 1]]
    OBVIOUS
  <2>2. d \in Seq(Entries) /\ Len(d) = Len(s) /\ \A j \in 1..Len(s) : d[j] = t[j]
    BY <1>5, <1>6, <1>7, <1>8, <2>1
  <2>3. d = t
    BY <1>5, <1>6, <2>2
  <2> QED
    BY <2>1, <2>3
<1>10. LS!Edit(s, t)
  BY <1>6, <1>7, <1>9 DEF LS!Edit, Entries
<1> QED
  BY <1>1, <1>2, <1>3, <1>4, <1>10

LEMMA EraseEdits ==
    ASSUME NEW p, Leaf(p), NEW slot \in 0..(p.occupants - 1)
    PROVE  Leaf(EraseD(p, slot)) /\ LS!Edit(EntriesOf(p), EntriesOf(EraseD(p, slot)))
<1>1. PICK q : q = EraseD(p, slot)
  OBVIOUS
<1>2. /\ Leaf(q) /\ q.occupants = p.occupants - 1
      /\ \A i \in 0..(p.occupants - 2) :
            Read(q, i) = IF i < slot THEN Read(p, i) ELSE Read(p, i + 1)
  BY <1>1, EraseDoes
<1>3. PICK s : s = EntriesOf(p)
  OBVIOUS
<1>4. PICK t : t = EntriesOf(q)
  OBVIOUS
<1>5. /\ s \in Seq(Entries) /\ Len(s) = p.occupants /\ p.occupants \in Nat
      /\ \A i \in 1..p.occupants : s[i] = Read(p, i - 1)
  BY <1>3, LeafSeq
<1>6. /\ t \in Seq(Entries) /\ Len(t) = p.occupants - 1
      /\ \A i \in 1..(p.occupants - 1) : t[i] = Read(q, i - 1)
  BY <1>2, <1>4, LeafSeq
<1>7. slot + 1 \in 1..Len(s) /\ slot + 1 \in DOMAIN s
  BY <1>5
<1>8. \A j \in 1..(Len(s) - 1) : t[j] = IF j < slot + 1 THEN s[j] ELSE s[j + 1]
  <2> SUFFICES ASSUME NEW j \in 1..(Len(s) - 1)
               PROVE  t[j] = IF j < slot + 1 THEN s[j] ELSE s[j + 1]
    OBVIOUS
  <2>1. j - 1 \in 0..(p.occupants - 2) /\ t[j] = Read(q, j - 1) /\ (j - 1) + 1 = (j + 1) - 1
    BY <1>5, <1>6
  <2>2. s[j] = Read(p, j - 1) /\ s[j + 1] = Read(p, (j + 1) - 1)
    BY <1>5
  <2> QED
    BY <1>2, <2>1, <2>2
<1>9. t = RemoveAt(s, slot + 1)
  <2>1. Removed(t, s, slot + 1)
    BY <1>5, <1>6, <1>7, <1>8 DEF Removed
  <2> QED
    BY <1>5, <1>6, <2>1, RemoveAtIs
<1>10. LS!Edit(s, t)
  <2>1. t = LS!RemoveAt(s, slot + 1)
    BY <1>9 DEF RemoveAt, LS!RemoveAt
  <2> QED
    BY <1>6, <1>7, <2>1 DEF LS!Edit, Entries
<1> QED
  BY <1>1, <1>2, <1>3, <1>4, <1>10

\* Loaded again, a leaf holds what it held.
LEMMA LoadIs ==
    ASSUME NEW s \in Seq(Entries), Len(s) <= Slots
    PROVE  Leaf(Load(s)) /\ EntriesOf(Load(s)) = s
<1>1. PICK q : q = Load(s)
  OBVIOUS
<1>2. Leaf(q) /\ q.occupants = Len(s) /\ \A i \in 0..(Len(s) - 1) : Read(q, i) = s[i + 1]
  BY <1>1, LoadDoes
<1>3. PICK t : t = EntriesOf(q)
  OBVIOUS
<1>4. t \in Seq(Entries) /\ Len(t) = Len(s) /\ \A i \in 1..Len(s) : t[i] = Read(q, i - 1)
  BY <1>2, <1>3, LeafSeq
<1>5. \A i \in 1..Len(s) : t[i] = s[i]
  BY <1>2, <1>4
<1>6. t = s
  BY <1>4, <1>5
<1> QED
  BY <1>1, <1>2, <1>3, <1>6

\* The leaves a run starts from and meets
LEMMA GivenLeaf ==
    ASSUME NEW leaf \in 0..2, NEW n \in Lengths
    PROVE  /\ [i \in 1..n |-> Entry(leaf, i - 1)] \in Seq(Entries)
           /\ Len([i \in 1..n |-> Entry(leaf, i - 1)]) <= Slots
<1>1. n \in Nat /\ n <= Slots
  OBVIOUS
<1>2. ASSUME NEW i \in 1..n PROVE Entry(leaf, i - 1) \in Entries
  <2>1. CASE leaf = 0
    BY <1>1, <2>1 DEF Entry, Entries
  <2>2. CASE leaf = 1
    BY <1>1, <2>2 DEF Entry, Entries
  <2>3. CASE leaf = 2
    BY <1>1, <2>3 DEF Entry, Entries
  <2> QED
    BY <2>1, <2>2, <2>3
<1>3. PICK s : s = [i \in 1..n |-> Entry(leaf, i - 1)]
  OBVIOUS
<1>4. s \in Seq(Entries) /\ Len(s) = n
  BY <1>1, <1>2, <1>3
<1> QED
  BY <1>1, <1>3, <1>4

\* A pair of leaves that holds the same entries, in the same order, as another
Regrouped(l2, r2, l, r) ==
    /\ Leaf(l2) /\ Leaf(r2)
    /\ EntriesOf(l2) \o EntriesOf(r2) = EntriesOf(l) \o EntriesOf(r)

\* The entries of a pair of pages, by their numbers
PairRead(l, r, k) == IF k < l.occupants THEN Read(l, k) ELSE Read(r, k - l.occupants)

LEMMA RegroupedIs ==
    ASSUME NEW l, NEW r, NEW l2, NEW r2, Leaf(l), Leaf(r), Leaf(l2), Leaf(r2),
           l2.occupants + r2.occupants = l.occupants + r.occupants,
           \A k \in 0..(l.occupants + r.occupants - 1) : PairRead(l2, r2, k) = PairRead(l, r, k)
    PROVE  Regrouped(l2, r2, l, r)
<1>1. ASSUME NEW p, NEW q, Leaf(p), Leaf(q), NEW k \in 1..(p.occupants + q.occupants)
      PROVE  Both(EntriesOf(p), EntriesOf(q), k) = PairRead(p, q, k - 1)
  <2>1. /\ Len(EntriesOf(p)) = p.occupants /\ p.occupants \in Nat
        /\ \A i \in 1..p.occupants : EntriesOf(p)[i] = Read(p, i - 1)
    BY <1>1, LeafSeq
  <2>2. /\ Len(EntriesOf(q)) = q.occupants /\ q.occupants \in Nat
        /\ \A i \in 1..q.occupants : EntriesOf(q)[i] = Read(q, i - 1)
    BY <1>1, LeafSeq
  <2>3. CASE k <= p.occupants
    BY <2>1, <2>2, <2>3 DEF Both, PairRead
  <2>4. CASE ~(k <= p.occupants)
    <3>1. k - p.occupants \in 1..q.occupants /\ (k - p.occupants) - 1 = (k - 1) - p.occupants /\ ~(k - 1 < p.occupants)
      BY <2>1, <2>2, <2>4
    <3> QED
      BY <2>1, <2>2, <2>4, <3>1 DEF Both, PairRead
  <2> QED
    BY <2>3, <2>4
<1>2. /\ EntriesOf(l) \in Seq(Entries) /\ Len(EntriesOf(l)) = l.occupants /\ l.occupants \in Nat
      /\ EntriesOf(r) \in Seq(Entries) /\ Len(EntriesOf(r)) = r.occupants /\ r.occupants \in Nat
      /\ EntriesOf(l2) \in Seq(Entries) /\ Len(EntriesOf(l2)) = l2.occupants /\ l2.occupants \in Nat
      /\ EntriesOf(r2) \in Seq(Entries) /\ Len(EntriesOf(r2)) = r2.occupants /\ r2.occupants \in Nat
  BY LeafSeq
<1>3. \A k \in 1..(l.occupants + r.occupants) :
        Both(EntriesOf(l2), EntriesOf(r2), k) = Both(EntriesOf(l), EntriesOf(r), k)
  <2> SUFFICES ASSUME NEW k \in 1..(l.occupants + r.occupants)
               PROVE  Both(EntriesOf(l2), EntriesOf(r2), k) = Both(EntriesOf(l), EntriesOf(r), k)
    OBVIOUS
  <2>1. Both(EntriesOf(l), EntriesOf(r), k) = PairRead(l, r, k - 1)
    BY <1>1
  <2>2. Both(EntriesOf(l2), EntriesOf(r2), k) = PairRead(l2, r2, k - 1)
    BY <1>1
  <2>3. k - 1 \in 0..(l.occupants + r.occupants - 1)
    BY <1>2
  <2> QED
    BY <2>1, <2>2, <2>3
<1>4. EntriesOf(l2) \o EntriesOf(r2) = EntriesOf(l) \o EntriesOf(r)
  <2>1. PICK s1 : s1 = EntriesOf(l)
    OBVIOUS
  <2>2. PICK s2 : s2 = EntriesOf(r)
    OBVIOUS
  <2>3. PICK t1 : t1 = EntriesOf(l2)
    OBVIOUS
  <2>4. PICK t2 : t2 = EntriesOf(r2)
    OBVIOUS
  <2>5. /\ s1 \in Seq(Entries) /\ s2 \in Seq(Entries) /\ t1 \in Seq(Entries) /\ t2 \in Seq(Entries)
    BY <1>2, <2>1, <2>2, <2>3, <2>4
  <2>6. SameBoth(t1, t2, s1, s2)
    BY <1>2, <1>3, <2>1, <2>2, <2>3, <2>4 DEF SameBoth
  <2>7. t1 \o t2 = s1 \o s2
    BY <2>5, <2>6, SameConcat
  <2> QED
    BY <2>1, <2>2, <2>3, <2>4, <2>7
<1> QED
  BY <1>4 DEF Regrouped

LEMMA MergeRegroups ==
    ASSUME NEW l, NEW r, Leaf(l), Leaf(r), l.occupants + r.occupants <= Slots
    PROVE  Regrouped(Occupy(Copy(l, l.occupants, r, 0, Up(r.occupants)), l.occupants + r.occupants),
                     Occupy(r, 0), l, r)
<1>1. PICK l2 : l2 = Occupy(Copy(l, l.occupants, r, 0, Up(r.occupants)), l.occupants + r.occupants)
  OBVIOUS
<1>2. PICK r2 : r2 = Occupy(r, 0)
  OBVIOUS
<1>3. l.occupants \in Nat /\ r.occupants \in Nat /\ r.occupants \in 0..r.occupants /\ 0 \in 0..r.occupants
  BY LeafFacts
<1>4. /\ Leaf(l2) /\ l2.occupants = l.occupants + r.occupants
      /\ \A i \in 0..(l.occupants + r.occupants - 1) :
            Read(l2, i) = IF i < l.occupants THEN Read(l, i) ELSE Read(r, i - l.occupants)
  BY <1>1, <1>3, AppendDoes
<1>5. Leaf(r2) /\ r2.occupants = 0
  BY <1>2, <1>3, FewerLeaf
<1>6. \A k \in 0..(l.occupants + r.occupants - 1) : PairRead(l2, r2, k) = PairRead(l, r, k)
  BY <1>3, <1>4 DEF PairRead
<1>7. l2.occupants + r2.occupants = l.occupants + r.occupants
  BY <1>3, <1>4, <1>5
<1> QED
  BY <1>1, <1>2, <1>4, <1>5, <1>6, <1>7, RegroupedIs

LEMMA ShiftLeftRegroups ==
    ASSUME NEW l, NEW r, Leaf(l), Leaf(r), NEW n \in 0..r.occupants, l.occupants + n <= Slots,
           NEW rest, rest = r.occupants - n
    PROVE  Regrouped(Occupy(Copy(l, l.occupants, r, 0, Up(n)), l.occupants + n),
                     MoveWithin(Occupy(r, rest), 0, n, Up(rest)), l, r)
<1>1. PICK l2 : l2 = Occupy(Copy(l, l.occupants, r, 0, Up(n)), l.occupants + n)
  OBVIOUS
<1>2. PICK r2 : r2 = MoveWithin(Occupy(r, rest), 0, n, Up(rest))
  OBVIOUS
<1>3. l.occupants \in Nat /\ r.occupants \in Nat /\ n \in Nat /\ rest \in Nat /\ n + rest = r.occupants
  BY LeafFacts
<1>4. /\ Leaf(l2) /\ l2.occupants = l.occupants + n
      /\ \A i \in 0..(l.occupants + n - 1) :
            Read(l2, i) = IF i < l.occupants THEN Read(l, i) ELSE Read(r, i - l.occupants)
  BY <1>1, AppendDoes
<1>5. Leaf(r2) /\ r2.occupants = rest /\ \A i \in 0..(rest - 1) : Read(r2, i) = Read(r, i + n)
  BY <1>2, DropDoes
<1>6. ASSUME NEW k \in 0..(l.occupants + r.occupants - 1)
      PROVE  PairRead(l2, r2, k) = PairRead(l, r, k)
  <2>1. CASE k < l.occupants + n
    BY <1>3, <1>4, <2>1 DEF PairRead
  <2>2. CASE ~(k < l.occupants + n)
    <3>1. /\ k - (l.occupants + n) \in 0..(rest - 1) /\ ~(k < l.occupants)
          /\ (k - (l.occupants + n)) + n = k - l.occupants
      BY <1>3, <2>2
    <3>2. Read(r2, k - (l.occupants + n)) = Read(r, (k - (l.occupants + n)) + n)
      BY <1>5, <3>1
    <3> QED
      BY <1>4, <2>2, <3>1, <3>2 DEF PairRead
  <2> QED
    BY <2>1, <2>2
<1>7. l2.occupants + r2.occupants = l.occupants + r.occupants
  BY <1>3, <1>4, <1>5
<1> QED
  BY <1>1, <1>2, <1>4, <1>5, <1>6, <1>7, RegroupedIs

LEMMA ShiftRightRegroups ==
    ASSUME NEW l, NEW r, Leaf(l), Leaf(r), NEW n \in 0..l.occupants, r.occupants + n <= Slots
    PROVE  Regrouped(Occupy(l, l.occupants - n),
                     Copy(Occupy(MoveWithin(r, n, 0, Down(r.occupants)), r.occupants + n),
                          0, l, l.occupants - n, Up(n)), l, r)
<1>1. PICK l2 : l2 = Occupy(l, l.occupants - n)
  OBVIOUS
<1>2. PICK r2 : r2 = Copy(Occupy(MoveWithin(r, n, 0, Down(r.occupants)), r.occupants + n),
                          0, l, l.occupants - n, Up(n))
  OBVIOUS
<1>3. PICK d : d = l.occupants - n
  OBVIOUS
<1>4. /\ l.occupants \in Nat /\ r.occupants \in Nat /\ n \in Nat /\ d \in Nat
      /\ d + n = l.occupants /\ d \in 0..l.occupants /\ l.occupants <= Slots
  BY <1>3, LeafFacts
<1>5. Leaf(l2) /\ l2.occupants = d /\ \A i \in Positions : Read(l2, i) = Read(l, i)
  BY <1>1, <1>3, <1>4, FewerLeaf
<1>6. /\ Leaf(r2) /\ r2.occupants = r.occupants + n
      /\ \A i \in 0..(r.occupants + n - 1) :
            Read(r2, i) = IF i < n THEN Read(l, i + d) ELSE Read(r, i - n)
  BY <1>2, <1>3, PrependDoes
<1>7. ASSUME NEW k \in 0..(l.occupants + r.occupants - 1)
      PROVE  PairRead(l2, r2, k) = PairRead(l, r, k)
  <2>1. CASE k < d
    <3>1. k \in Positions /\ k < l.occupants
      BY <1>4, <2>1 DEF Positions
    <3> QED
      BY <1>5, <2>1, <3>1 DEF PairRead
  <2>2. CASE ~(k < d) /\ k < l.occupants
    <3>1. k - d \in 0..(r.occupants + n - 1) /\ k - d < n /\ (k - d) + d = k
      BY <1>4, <2>2
    <3> QED
      BY <1>5, <1>6, <2>2, <3>1 DEF PairRead
  <2>3. CASE ~(k < l.occupants)
    <3>1. /\ k - d \in 0..(r.occupants + n - 1) /\ ~(k - d < n) /\ (k - d) - n = k - l.occupants
          /\ ~(k < d)
      BY <1>4, <2>3
    <3> QED
      BY <1>5, <1>6, <2>3, <3>1 DEF PairRead
  <2> QED
    BY <2>1, <2>2, <2>3
<1>8. l2.occupants + r2.occupants = l.occupants + r.occupants
  BY <1>4, <1>5, <1>6
<1> QED
  BY <1>1, <1>2, <1>5, <1>6, <1>7, <1>8, RegroupedIs

LEMMA SplitHalves ==
    ASSUME NEW p, Leaf(p)
    PROVE  LET l2 == Occupy(p, p.occupants \div 2)
               r2 == SplitOff(p)
           IN  /\ Leaf(l2) /\ Leaf(r2)
               /\ EntriesOf(p) = EntriesOf(l2) \o EntriesOf(r2)
               /\ Len(EntriesOf(l2)) = Len(EntriesOf(p)) \div 2
<1>1. PICK mid : mid = p.occupants \div 2
  OBVIOUS
<1>2. PICK n : n = p.occupants - mid
  OBVIOUS
<1>3. p.occupants \in Nat /\ p.occupants <= Slots
  BY LeafFacts
<1>4. mid \in Nat /\ n \in Nat /\ mid + n = p.occupants /\ mid \in 0..p.occupants
  BY <1>1, <1>2, <1>3
<1>5. PICK l2 : l2 = Occupy(p, mid)
  OBVIOUS
<1>6. PICK r2 : r2 = SplitOff(p)
  OBVIOUS
<1>7. Leaf(l2) /\ l2.occupants = mid /\ \A i \in Positions : Read(l2, i) = Read(p, i)
  BY <1>4, <1>5, FewerLeaf
<1>8. Leaf(r2) /\ r2.occupants = n /\ \A i \in 0..(n - 1) : Read(r2, i) = Read(p, i + mid)
  <2>1. Halves(p, mid, n)
    BY <1>1, <1>2 DEF Halves
  <2> QED
    BY <1>4, <1>6, <2>1, SplitOffDoes
<1>9. PICK s : s = EntriesOf(p)
  OBVIOUS
<1>10. PICK a : a = EntriesOf(l2)
  OBVIOUS
<1>11. PICK b : b = EntriesOf(r2)
  OBVIOUS
<1>12. /\ s \in Seq(Entries) /\ Len(s) = p.occupants
       /\ \A i \in 1..p.occupants : s[i] = Read(p, i - 1)
  BY <1>9, LeafSeq
<1>13. a \in Seq(Entries) /\ Len(a) = mid /\ \A i \in 1..mid : a[i] = Read(l2, i - 1)
  BY <1>7, <1>10, LeafSeq
<1>14. b \in Seq(Entries) /\ Len(b) = n /\ \A i \in 1..n : b[i] = Read(r2, i - 1)
  BY <1>8, <1>11, LeafSeq
<1>15. PICK c : c = a \o b
  OBVIOUS
<1>16. PICK o : o = p.occupants
  OBVIOUS
<1>17. c \in Seq(Entries) /\ Len(c) = o /\ \A j \in 1..o : c[j] = IF j <= mid THEN a[j] ELSE b[j - mid]
  <2>1. o \in Int /\ mid + Len(b) = o
    BY <1>3, <1>4, <1>14, <1>16
  <2>2. a \in Seq(Entries) /\ Len(a) = mid /\ b \in Seq(Entries) /\ mid \in Nat
    BY <1>4, <1>13, <1>14
  <2>3. LengthsAre(a, b, mid, o)
    BY <2>1, <2>2 DEF LengthsAre
  <2>4. Joined(Entries, c, a, b, mid, o)
    BY <1>15, <2>2, <2>3, Concatenated
  <2> QED
    BY <2>4 DEF Joined
<1>18. ASSUME NEW j \in 1..o PROVE c[j] = s[j]
  <2>1. s[j] = Read(p, j - 1)
    BY <1>12, <1>16
  <2>2. CASE j <= mid
    <3>1. j \in 1..mid /\ j - 1 \in Positions
      BY <1>3, <1>4, <2>2 DEF Positions
    <3> QED
      BY <1>7, <1>13, <1>17, <2>1, <2>2, <3>1
  <2>3. CASE ~(j <= mid)
    <3>1. j - mid \in 1..n /\ (j - mid) - 1 \in 0..(n - 1) /\ ((j - mid) - 1) + mid = j - 1
      BY <1>4, <1>16, <2>3
    <3>2. b[j - mid] = Read(p, ((j - mid) - 1) + mid)
      BY <1>8, <1>14, <3>1
    <3> QED
      BY <1>17, <2>1, <2>3, <3>1, <3>2
  <2> QED
    BY <2>2, <2>3
<1>19. s = c
  BY <1>12, <1>16, <1>17, <1>18
<1> QED
  BY <1>1, <1>5, <1>6, <1>7, <1>8, <1>9, <1>10, <1>11, <1>12, <1>13, <1>15, <1>19

----------------------------------------------------------------------------
(* The specification                                                       *)

LEMMA InitLeaves == Init => LeavesInv
<1> SUFFICES ASSUME Init PROVE LeavesInv
  OBVIOUS
<1>1. PICK m \in Lengths : \E n \in Lengths :
        /\ left = Load([i \in 1..m |-> Entry(0, i - 1)])
        /\ right = Load([i \in 1..n |-> Entry(1, i - 1)])
  BY DEF Init
<1>2. PICK n \in Lengths :
        /\ left = Load([i \in 1..m |-> Entry(0, i - 1)])
        /\ right = Load([i \in 1..n |-> Entry(1, i - 1)])
  BY <1>1
<1>3. PICK s : s = [i \in 1..m |-> Entry(0, i - 1)]
  OBVIOUS
<1>4. PICK t : t = [i \in 1..n |-> Entry(1, i - 1)]
  OBVIOUS
<1>5. s \in Seq(Entries) /\ Len(s) <= Slots
  BY <1>3, GivenLeaf
<1>6. t \in Seq(Entries) /\ Len(t) <= Slots
  BY <1>4, GivenLeaf
<1>7. Leaf(left) /\ Leaf(right)
  BY <1>2, <1>3, <1>4, <1>5, <1>6, LoadIs
<1> QED
  BY <1>7 DEF LeavesInv, Init

\* What a step makes of two leaves: leaves again, that the abstract leaves
\* could have become.
StepDoes == LeavesInv' /\ LS!Next

LEMMA StepCounts ==
    ASSUME LeavesInv, Step
    PROVE  /\ steps' \in 0..MaxSteps /\ NewEntry(steps) \in Entries
           /\ left.occupants \in 0..Slots /\ right.occupants \in 0..Slots
<1>1. steps \in 0..MaxSteps /\ steps < MaxSteps /\ steps' = steps + 1
  BY DEF LeavesInv, Step
<1>2. left.occupants \in 0..Slots /\ right.occupants \in 0..Slots
  BY LeafFacts DEF LeavesInv
<1> QED
  BY <1>1, <1>2 DEF NewEntry, Entries

LEMMA EditsLeft ==
    ASSUME LeavesInv, Step, Leaf(left'), LS!Edit(EntriesOf(left), EntriesOf(left')), right' = right
    PROVE  StepDoes
<1>1. LeavesInv'
  BY StepCounts DEF LeavesInv
<1>2. EntriesOf(right)' = EntriesOf(right)
  BY DEF EntriesOf
<1>3. LS!EditOne
  BY <1>2 DEF LS!EditOne
<1> QED
  BY <1>1, <1>3 DEF StepDoes, LS!Next

LEMMA EditsRight ==
    ASSUME LeavesInv, Step, Leaf(right'), LS!Edit(EntriesOf(right), EntriesOf(right')), left' = left
    PROVE  StepDoes
<1>1. LeavesInv'
  BY StepCounts DEF LeavesInv
<1>2. EntriesOf(left)' = EntriesOf(left)
  BY DEF EntriesOf
<1>3. LS!EditOne
  BY <1>2 DEF LS!EditOne
<1> QED
  BY <1>1, <1>3 DEF StepDoes, LS!Next

LEMMA RegroupsBoth ==
    ASSUME LeavesInv, Step, Regrouped(left', right', left, right)
    PROVE  StepDoes
<1>1. LeavesInv'
  BY StepCounts DEF LeavesInv, Regrouped
<1>2. LS!Move
  BY DEF LS!Move, Regrouped
<1> QED
  BY <1>1, <1>2 DEF StepDoes, LS!Next

LEMMA InsertStep == LeavesInv /\ Insert => StepDoes
<1> SUFFICES ASSUME LeavesInv, Insert PROVE StepDoes
  OBVIOUS
<1>1. Step /\ NewEntry(steps) \in Entries /\ Leaf(left) /\ Leaf(right)
  BY StepCounts DEF Insert, LeavesInv
<1>2. ASSUME NEW at \in 0..left.occupants, ~IsFull(left), left' = Insert_(left, at, NewEntry(steps)),
             right' = right
      PROVE  StepDoes
  <2>1. left.occupants < Slots
    BY <1>1, <1>2, StepCounts DEF IsFull
  <2>2. Leaf(left') /\ LS!Edit(EntriesOf(left), EntriesOf(left'))
    BY <1>1, <1>2, <2>1, InsertEdits
  <2> QED
    BY <1>1, <1>2, <2>2, EditsLeft
<1>3. ASSUME NEW at \in 0..right.occupants, ~IsFull(right), right' = Insert_(right, at, NewEntry(steps)),
             left' = left
      PROVE  StepDoes
  <2>1. right.occupants < Slots
    BY <1>1, <1>3, StepCounts DEF IsFull
  <2>2. Leaf(right') /\ LS!Edit(EntriesOf(right), EntriesOf(right'))
    BY <1>1, <1>3, <2>1, InsertEdits
  <2> QED
    BY <1>1, <1>3, <2>2, EditsRight
<1> QED
  BY <1>2, <1>3 DEF Insert

LEMMA AssignStep == LeavesInv /\ Assign => StepDoes
<1> SUFFICES ASSUME LeavesInv, Assign PROVE StepDoes
  OBVIOUS
<1>1. Step /\ NewEntry(steps) \in Entries /\ Leaf(left) /\ right' = right
  BY StepCounts DEF Assign, LeavesInv
<1>2. PICK at \in 0..(left.occupants - 1) : left' = Write(left, at, NewEntry(steps))
  BY DEF Assign
<1>3. Leaf(left') /\ LS!Edit(EntriesOf(left), EntriesOf(left'))
  BY <1>1, <1>2, AssignEdits
<1> QED
  BY <1>1, <1>3, EditsLeft

LEMMA EraseStep == LeavesInv /\ Erase => StepDoes
<1> SUFFICES ASSUME LeavesInv, Erase PROVE StepDoes
  OBVIOUS
<1>1. Step /\ Leaf(left) /\ Leaf(right)
  BY DEF Erase, LeavesInv
<1>2. ASSUME NEW at \in 0..(left.occupants - 1), left' = EraseD(left, at), right' = right
      PROVE  StepDoes
  <2>1. Leaf(left') /\ LS!Edit(EntriesOf(left), EntriesOf(left'))
    BY <1>1, <1>2, EraseEdits
  <2> QED
    BY <1>1, <1>2, <2>1, EditsLeft
<1>3. ASSUME NEW at \in 0..(right.occupants - 1), right' = EraseD(right, at), left' = left
      PROVE  StepDoes
  <2>1. Leaf(right') /\ LS!Edit(EntriesOf(right), EntriesOf(right'))
    BY <1>1, <1>3, EraseEdits
  <2> QED
    BY <1>1, <1>3, <2>1, EditsRight
<1> QED
  BY <1>2, <1>3 DEF Erase

LEMMA SplitStep == LeavesInv /\ Split => StepDoes
<1> SUFFICES ASSUME LeavesInv, Split PROVE StepDoes
  OBVIOUS
<1>1. Step /\ Leaf(left) /\ right' = SplitOff(left) /\ left' = Occupy(left, left.occupants \div 2)
  BY DEF Split, LeavesInv
<1>2. /\ Leaf(left') /\ Leaf(right')
      /\ EntriesOf(left) = EntriesOf(left') \o EntriesOf(right')
      /\ Len(EntriesOf(left')) = Len(EntriesOf(left)) \div 2
  BY <1>1, SplitHalves
<1>3. LeavesInv'
  BY <1>1, <1>2, StepCounts DEF LeavesInv
<1>4. LS!Split
  BY <1>2 DEF LS!Split
<1> QED
  BY <1>3, <1>4 DEF StepDoes, LS!Next

LEMMA MergeStep == LeavesInv /\ Merge => StepDoes
<1> SUFFICES ASSUME LeavesInv, Merge PROVE StepDoes
  OBVIOUS
<1>1. /\ Step /\ Leaf(left) /\ Leaf(right)
      /\ left' = Occupy(Copy(left, left.occupants, right, 0, Up(right.occupants)),
                        left.occupants + right.occupants)
      /\ right' = Occupy(right, 0)
  BY DEF Merge, LeavesInv
<1>2. left.occupants + right.occupants <= Slots
  BY <1>1, StepCounts DEF Merge, IsFew, MinSurfaces
<1>3. Regrouped(left', right', left, right)
  BY <1>1, <1>2, MergeRegroups
<1> QED
  BY <1>1, <1>3, RegroupsBoth

LEMMA ShiftLeftStep == LeavesInv /\ ShiftLeft => StepDoes
<1> SUFFICES ASSUME LeavesInv, ShiftLeft PROVE StepDoes
  OBVIOUS
<1>1. PICK n : n = (right.occupants - left.occupants) \div 2
  OBVIOUS
<1>2. PICK rest : rest = right.occupants - n
  OBVIOUS
<1>3. /\ Step /\ Leaf(left) /\ Leaf(right)
      /\ left' = Occupy(Copy(left, left.occupants, right, 0, Up(n)), left.occupants + n)
      /\ right' = MoveWithin(Occupy(right, rest), 0, n, Up(rest))
  BY <1>1, <1>2 DEF ShiftLeft, LeavesInv
<1>4. n \in 0..right.occupants /\ left.occupants + n <= Slots
  BY <1>1, <1>3, StepCounts DEF ShiftLeft, IsFew, IsUnderflow, MinSurfaces
<1>5. Regrouped(left', right', left, right)
  BY <1>2, <1>3, <1>4, ShiftLeftRegroups
<1> QED
  BY <1>3, <1>5, RegroupsBoth

LEMMA ShiftRightStep == LeavesInv /\ ShiftRight => StepDoes
<1> SUFFICES ASSUME LeavesInv, ShiftRight PROVE StepDoes
  OBVIOUS
<1>1. PICK n : n = (left.occupants - right.occupants) \div 2
  OBVIOUS
<1>2. /\ Step /\ Leaf(left) /\ Leaf(right)
      /\ left' = Occupy(left, left.occupants - n)
      /\ right' = Copy(Occupy(MoveWithin(right, n, 0, Down(right.occupants)), right.occupants + n),
                       0, left, left.occupants - n, Up(n))
  BY <1>1 DEF ShiftRight, LeavesInv
<1>3. n \in 0..left.occupants /\ right.occupants + n <= Slots
  BY <1>1, <1>2, StepCounts DEF ShiftRight, IsFew, IsUnderflow, MinSurfaces
<1>4. Regrouped(left', right', left, right)
  BY <1>2, <1>3, ShiftRightRegroups
<1> QED
  BY <1>2, <1>4, RegroupsBoth

LEMMA ReloadStep == LeavesInv /\ Reload => StepDoes
<1> SUFFICES ASSUME LeavesInv, Reload PROVE StepDoes
  OBVIOUS
<1>1. Step /\ Leaf(left) /\ Leaf(right) /\ left' = Load(EntriesOf(left)) /\ right' = right
  BY DEF Reload, LeavesInv
<1>2. EntriesOf(left) \in Seq(Entries) /\ Len(EntriesOf(left)) <= Slots
  BY <1>1, LeafSeq, StepCounts
<1>3. Leaf(left') /\ EntriesOf(left') = EntriesOf(left)
  BY <1>1, <1>2, LoadIs
<1>4. Regrouped(left', right', left, right)
  BY <1>1, <1>3 DEF Regrouped
<1> QED
  BY <1>1, <1>4, RegroupsBoth

LEMMA AdvanceStep == LeavesInv /\ Advance => StepDoes
<1> SUFFICES ASSUME LeavesInv, Advance PROVE StepDoes
  OBVIOUS
<1>1. Step /\ Leaf(right) /\ left' = right
  BY DEF Advance, LeavesInv
<1>2. PICK n \in Lengths : right' = Load([i \in 1..n |-> Entry(2, i - 1)])
  BY DEF Advance
<1>3. PICK s : s = [i \in 1..n |-> Entry(2, i - 1)]
  OBVIOUS
<1>4. s \in Seq(Entries) /\ Len(s) <= Slots
  BY <1>3, GivenLeaf
<1>5. Leaf(right') /\ EntriesOf(right') = s
  BY <1>2, <1>3, <1>4, LoadIs
<1>6. LeavesInv'
  BY <1>1, <1>5, StepCounts DEF LeavesInv
<1>7. EntriesOf(left') = EntriesOf(right)
  BY <1>1
<1>8. LS!Advance
  BY <1>4, <1>5, <1>7 DEF LS!Advance, Entries
<1> QED
  BY <1>6, <1>8 DEF StepDoes, LS!Next

LEMMA NextDoes == LeavesInv /\ [Next]_vars => LeavesInv' /\ [LS!Next]_LS!vars
<1> SUFFICES ASSUME LeavesInv, [Next]_vars PROVE LeavesInv' /\ [LS!Next]_LS!vars
  OBVIOUS
<1>1. CASE UNCHANGED vars
  <2>1. left' = left /\ right' = right /\ steps' = steps
    BY <1>1 DEF vars
  <2>2. LeavesInv'
    BY <2>1 DEF LeavesInv
  <2>3. EntriesOf(left') = EntriesOf(left) /\ EntriesOf(right') = EntriesOf(right)
    BY <2>1
  <2> QED
    BY <2>2, <2>3 DEF LS!vars
<1>2. CASE Done
  <2>1. left' = left /\ right' = right /\ steps' = steps
    BY <1>2 DEF Done, vars
  <2>2. LeavesInv'
    BY <2>1 DEF LeavesInv
  <2>3. EntriesOf(left') = EntriesOf(left) /\ EntriesOf(right') = EntriesOf(right)
    BY <2>1
  <2> QED
    BY <2>2, <2>3 DEF LS!vars
<1>3. CASE Insert \/ Assign \/ Erase \/ Split \/ Merge
  BY <1>3, InsertStep, AssignStep, EraseStep, SplitStep, MergeStep DEF StepDoes
<1>4. CASE ShiftLeft \/ ShiftRight \/ Reload \/ Advance
  BY <1>4, ShiftLeftStep, ShiftRightStep, ReloadStep, AdvanceStep DEF StepDoes
<1> QED
  BY <1>1, <1>2, <1>3, <1>4 DEF Next

\* Between two operations both leaves are sound pages whose first positions
\* hold the cells.
THEOREM LeavesInvariant == Spec => []LeavesInv
<1>1. LeavesInv /\ [Next]_vars => LeavesInv'
  BY NextDoes
<1> QED
  BY InitLeaves, <1>1, PTL DEF Spec

\* No two positions of a leaf share a cell, whatever insert_, erase_d and the
\* loops of the splits, merges and shifts did before.
THEOREM CellsStayDistinct == Spec => []CellsDistinct
<1>1. ASSUME NEW p, Leaf(p)
      PROVE  /\ p.occupants <= p.allocated
             /\ \A i \in Positions : p.permutations[i] = Unset <=> i >= p.allocated
             /\ \A i, j \in 0..(p.allocated - 1) : p.permutations[i] = p.permutations[j] => i = j
             /\ \A i \in 0..(p.allocated - 1) : p.permutations[i] < p.allocated
  <2>1. Held(p) = 0..(p.allocated - 1) /\ p.allocated \in Nat /\ p.occupants <= p.allocated /\ Sound(p)
    BY <1>1, LeafFacts
  <2>2. ASSUME NEW i \in Positions PROVE p.permutations[i] = Unset <=> i >= p.allocated
    <3>1. p.permutations[i] = Unset <=> i \notin Held(p)
      BY DEF Held
    <3> QED
      BY <2>1, <3>1 DEF Positions
  <2> QED
    BY <2>1, <2>2 DEF Sound
<1>2. LeavesInv => CellsDistinct
  BY <1>1 DEF LeavesInv, CellsDistinct, Pages
<1> QED
  BY <1>2, LeavesInvariant, PTL

\* bad_format is not thrown, however long the sequence of operations: a position
\* that needs a cell always finds one.
THEOREM PagesNeverThrow == Spec => []NeverThrows
<1>1. LeavesInv => NeverThrows
  BY DEF LeavesInv, Leaf, Sound, NeverThrows, Pages
<1> QED
  BY <1>1, LeavesInvariant, PTL

\* The cells implement the sequences of LeafSequences: every operation does to
\* the entries, in the order of the positions, what it should.
THEOREM ImplementsSequences == Spec => AreSequences
<1>1. Init => LS!Init
  <2>1. LeavesInv => LS!Init
    BY LeafSeq DEF LeavesInv, LS!Init, Entries
  <2> QED
    BY <2>1, InitLeaves
<1>2. LeavesInv /\ [Next]_vars => [LS!Next]_LS!vars
  BY NextDoes
<1> QED
  BY <1>1, <1>2, LeavesInvariant, PTL DEF Spec, AreSequences, LS!Spec

=============================================================================
