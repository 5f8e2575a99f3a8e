------------------------- MODULE LuaAllocatorProofs -------------------------
(***************************************************************************)
(* Safety of LuaAllocator for every limit, every width of size_t and every *)
(* set of blocks and request sizes.                                        *)
(***************************************************************************)
EXTENDS LuaAllocator, FiniteSetTheorems, TLAPS

\* A block is smaller than what a size_t can count.
LEMMA SizeBounds ==
  ASSUME TypeOK, NEW b \in Blocks
  PROVE  size[b] \in 0 .. (SizeModulus - 1) /\ SizeModulus \in Nat
<1>1. size[b] \in Sizes \cup {0}
  BY DEF TypeOK
<1>2. Sizes \subseteq 1 .. (SizeModulus - 1) /\ SizeModulus \in Nat /\ SizeModulus > 0
  BY AllocatorAssumption
<1>3. CASE size[b] = 0
  BY <1>2, <1>3
<1>4. CASE size[b] \in 1 .. (SizeModulus - 1)
  BY <1>2, <1>4
<1>5. QED
  BY <1>1, <1>2, <1>3, <1>4

\* A charge is a size_t, and never less than what the blocks grow by.
LEMMA ChargeBounds ==
  ASSUME TypeOK, NEW b \in Blocks, NEW tag \in Tags, NEW n \in Sizes
  PROVE  /\ Charge(Osize(b, tag), n) \in 0 .. (SizeModulus - 1)
         /\ n - size[b] <= Charge(Osize(b, tag), n)
         /\ size[b] \in 0 .. (SizeModulus - 1) /\ n \in 1 .. (SizeModulus - 1)
<1>1. n \in 1 .. (SizeModulus - 1)
  BY AllocatorAssumption
<1>2. Osize(b, tag) = size[b]
  BY DEF Osize
<1>3. QED
  BY <1>1, <1>2, SizeBounds DEF Charge

(* The counter of the memory limit checker stays a size_t and the sizes of *)
(* blocks stay among those Lua asked for.                                  *)
THEOREM TypeCorrect == Spec => []TypeOK
<1>1. Init => TypeOK
  <2> SUFFICES ASSUME Init PROVE TypeOK
    OBVIOUS
  <2>1. SizeModulus \in Nat /\ SizeModulus > 0
    BY AllocatorAssumption
  <2>2. 0 \in 0 .. (SizeModulus - 1)
    BY <2>1
  <2>3. QED
    <3>1. wrapped \in BOOLEAN
      BY DEF Init
    <3>2. size \in [Blocks -> Sizes \cup {0}]
      BY DEF Init
    <3>3. used_ = 0 /\ live \in Int /\ drift \in Int
      BY DEF Init
    <3>4. QED
      BY <2>2, <3>1, <3>2, <3>3 DEF TypeOK
<1>2. TypeOK /\ [Next]_vars => TypeOK'
  <2> SUFFICES ASSUME TypeOK, [Next]_vars PROVE TypeOK'
    OBVIOUS
  <2>1. CASE UNCHANGED vars
    BY <2>1 DEF vars, TypeOK
  <2>2. ASSUME NEW b \in Blocks, NEW tag \in Tags, Free(b, tag) PROVE TypeOK'
    <3>1. size[b] \in Int /\ Osize(b, tag) \in Nat /\ SizeModulus \in Nat
      BY SizeBounds DEF Osize
    <3>2. used_ \in 0 .. (SizeModulus - 1) /\ used_' = Deallocated(Osize(b, tag))
      BY <2>2 DEF Free, TypeOK
    <3>3. used_' \in 0 .. (SizeModulus - 1)
      BY <3>1, <3>2 DEF Deallocated
    <3>4. QED
      BY <2>2, <3>1, <3>3 DEF Free, TypeOK
  <2>3. ASSUME NEW b \in Blocks, NEW tag \in Tags, NEW n \in Sizes,
               Reallocate(b, tag, n)
        PROVE TypeOK'
    <3> DEFINE charge == Charge(Osize(b, tag), n)
    <3>1. charge \in 0 .. (SizeModulus - 1) /\ size[b] \in Int /\ n \in Int
      BY ChargeBounds, AllocatorAssumption
    <3>2. used_' \in 0 .. (SizeModulus - 1)
      BY <2>3, <3>1, AllocatorAssumption DEF Reallocate, Allocated, TypeOK
    <3>3. wrapped' \in BOOLEAN
      BY <2>3 DEF Reallocate
    <3>4. \/ Refused(charge)
          \/ Granted(b, n, charge)
      BY <2>3 DEF Reallocate
    <3>5. /\ size' \in [Blocks -> Sizes \cup {0}]
          /\ live' \in Int /\ drift' \in Int
      BY <3>1, <3>4 DEF Refused, Granted, TypeOK
    <3>6. QED
      BY <3>2, <3>3, <3>5 DEF TypeOK
  <2>4. QED
    BY <2>1, <2>2, <2>3 DEF Next
<1>3. QED
  BY <1>1, <1>2, PTL DEF Spec

(* LimitHolds is inductive: the counter is charged at least what the       *)
(* blocks grow by and credited exactly what a freed block had, and a       *)
(* request is granted only while the charged counter is within the limit.  *)
THEOREM MemoryLimitHolds == Spec => []LimitHolds
<1>1. Init => LimitHolds
  BY AllocatorAssumption DEF Init, LimitHolds
<1>2. TypeOK /\ LimitHolds /\ [Next]_vars => LimitHolds'
  <2> SUFFICES ASSUME TypeOK, LimitHolds, [Next]_vars PROVE LimitHolds'
    OBVIOUS
  <2>1. used_ \in Nat /\ live \in Int /\ Limit \in Nat /\ SizeModulus \in Nat
    BY AllocatorAssumption DEF TypeOK
  <2>2. CASE UNCHANGED vars
    BY <2>2 DEF vars, LimitHolds
  <2>3. ASSUME NEW b \in Blocks, NEW tag \in Tags, Free(b, tag) PROVE LimitHolds'
    <3>1. size[b] \in Nat /\ Osize(b, tag) = size[b]
      BY SizeBounds DEF Osize
    <3>2. live' = live - size[b] /\ wrapped' = wrapped
      BY <2>3 DEF Free
    <3>3. used_' = IF used_ < size[b] THEN 0 ELSE used_ - size[b]
      BY <2>3, <3>1 DEF Free, Deallocated
    <3>4. QED
      BY <2>1, <3>1, <3>2, <3>3 DEF LimitHolds
  <2>4. ASSUME NEW b \in Blocks, NEW tag \in Tags, NEW n \in Sizes,
               Reallocate(b, tag, n)
        PROVE LimitHolds'
    <3> DEFINE charge == Charge(Osize(b, tag), n)
    <3>1. /\ charge \in Nat /\ n - size[b] <= charge
          /\ size[b] \in Int /\ n \in Int
      BY ChargeBounds, AllocatorAssumption
    <3> SUFFICES ASSUME ~wrapped' PROVE live' <= used_' /\ live' <= Limit
      BY DEF LimitHolds
    <3>2. ~wrapped /\ used_' = used_ + charge
      BY <2>1, <2>4, <3>1 DEF Reallocate, Allocated
    <3>3. live <= used_ /\ live <= Limit
      BY <3>2 DEF LimitHolds
    <3>4. CASE live' = live
      BY <2>1, <3>1, <3>2, <3>3, <3>4
    <3>5. CASE Granted(b, n, charge) /\ ~IsLimitReached(used_')
      <4>1. live' = live - size[b] + n /\ ~(used_' > Limit)
        BY <3>5 DEF Granted, IsLimitReached
      <4>2. QED
        BY <2>1, <3>1, <3>2, <3>3, <4>1
    <3>6. QED
      BY <2>4, <3>4, <3>5 DEF Reallocate, Refused
  <2>5. QED
    BY <2>2, <2>3, <2>4 DEF Next
<1>3. QED
  BY <1>1, <1>2, TypeCorrect, PTL DEF Spec

-----------------------------------------------------------------------------
(* Induction, over sets of numbers and of finite sets.                     *)

LEMMA NatInductionOnSet ==
  ASSUME NEW G, 0 \in G, \A n \in Nat : n \in G => n + 1 \in G
  PROVE  Nat \subseteq G
<1> SUFFICES ASSUME Nat \ G # {} PROVE FALSE
  OBVIOUS
<1>1. PICK n \in Nat \ G : \A m \in Nat \ G : <<m, n>> \notin OpToRel(<, Nat)
  BY NatLessThanWellFounded, WFMin
<1>2. \A m \in Nat \ G : ~(m < n)
  BY <1>1 DEF OpToRel
<1>3. QED
  BY <1>2

LEMMA SubsetInduction ==
  ASSUME NEW S, IsFiniteSet(S), NEW G,
         \A T \in SUBSET S : (\A U \in SUBSET T : U # T => U \in G) => T \in G
  PROVE  SUBSET S \subseteq G
<1> SUFFICES ASSUME (SUBSET S) \ G # {} PROVE FALSE
  OBVIOUS
<1>1. IsWellFoundedOn(StrictSubsetOrdering(S), SUBSET S)
  <2>1. FiniteSubsetsOf(S) = SUBSET S
    BY FS_FiniteSubsetsOfFinite
  <2>2. IsWellFoundedOn(StrictSubsetOrdering(S), FiniteSubsetsOf(S))
    BY FS_StrictSubsetOrderingWellFounded
  <2>3. QED
    BY <2>1, <2>2
<1>2. PICK T \in (SUBSET S) \ G :
        \A U \in (SUBSET S) \ G : <<U, T>> \notin StrictSubsetOrdering(S)
  <2> DEFINE Bad == (SUBSET S) \ G
  <2>1. Bad \subseteq SUBSET S /\ Bad # {}
    OBVIOUS
  <2> HIDE DEF Bad
  <2>2. \E T \in Bad : \A U \in Bad : <<U, T>> \notin StrictSubsetOrdering(S)
    BY <1>1, <2>1, WFMin
  <2>3. QED
    BY <2>2 DEF Bad
<1>3. \A U \in SUBSET T : U # T => U \in G
  BY <1>2 DEF StrictSubsetOrdering
<1>4. QED
  BY <1>2, <1>3

-----------------------------------------------------------------------------
(* SumFunction, whose fold takes the elements in an order of its own.      *)

\* choose picks an element of every set that has one.
Chooses(choose, S) == \A s \in SUBSET S : s # {} => choose[s] \in s

\* g[s] is the sum of f over s, in the order of choose.
IsSum(g, f, choose, S) ==
  g = [s \in SUBSET S |-> IF s = {} THEN 0 ELSE f[choose[s]] + g[s \ {choose[s]}]]

LEMMA SumEquation ==
  ASSUME NEW g, NEW f, NEW choose, NEW S, IsSum(g, f, choose, S), NEW s \in SUBSET S
  PROVE  g[s] = IF s = {} THEN 0 ELSE f[choose[s]] + g[s \ {choose[s]}]
  BY DEF IsSum

LEMMA SumType ==
  ASSUME NEW S, IsFiniteSet(S), NEW choose, Chooses(choose, S), NEW f \in [S -> Int],
         NEW g, IsSum(g, f, choose, S)
  PROVE  \A s \in SUBSET S : g[s] \in Int
<1> DEFINE G == {s \in SUBSET S : g[s] \in Int}
<1>1. ASSUME NEW T \in SUBSET S, \A U \in SUBSET T : U # T => U \in G
      PROVE  T \in G
  <2>1. CASE T = {}
    BY <2>1, SumEquation
  <2>2. CASE T # {}
    <3>1. choose[T] \in T
      BY <2>2 DEF Chooses
    <3>2. g[T] = f[choose[T]] + g[T \ {choose[T]}]
      BY <2>2, SumEquation
    <3>3. g[T \ {choose[T]}] \in Int
      BY <1>1, <3>1
    <3>4. f[choose[T]] \in Int
      BY <3>1
    <3>5. QED
      BY <3>2, <3>3, <3>4
  <2>3. QED
    BY <2>1, <2>2
<1>2. SUBSET S \subseteq G
  <2> HIDE DEF G
  <2>1. QED
    BY <1>1, SubsetInduction
<1>3. QED
  BY <1>2

\* The order does not matter: any element may be taken first.
LEMMA SumWithout ==
  ASSUME NEW S, IsFiniteSet(S), NEW choose, Chooses(choose, S), NEW f \in [S -> Int],
         NEW g, IsSum(g, f, choose, S)
  PROVE  \A s \in SUBSET S : \A x \in s : g[s] = f[x] + g[s \ {x}]
<1> DEFINE G == {s \in SUBSET S : \A x \in s : g[s] = f[x] + g[s \ {x}]}
<1>1. ASSUME NEW T \in SUBSET S, \A U \in SUBSET T : U # T => U \in G
      PROVE  T \in G
  <2> SUFFICES ASSUME NEW x \in T PROVE g[T] = f[x] + g[T \ {x}]
    OBVIOUS
  <2> DEFINE y == choose[T]
  <2>1. y \in T /\ g[T] = f[y] + g[T \ {y}]
    <3>1. T # {}
      OBVIOUS
    <3>2. choose[T] \in T
      BY <3>1 DEF Chooses
    <3>3. g[T] = IF T = {} THEN 0 ELSE f[choose[T]] + g[T \ {choose[T]}]
      BY DEF IsSum
    <3>4. QED
      BY <3>1, <3>2, <3>3
  <2>2. CASE x = y
    BY <2>1, <2>2
  <2>3. CASE x # y
    <3> HIDE DEF y
    <3>1. g[T \ {y}] = f[x] + g[(T \ {y}) \ {x}]
      BY <1>1, <2>1, <2>3
    <3>2. g[T \ {x}] = f[y] + g[(T \ {x}) \ {y}]
      BY <1>1, <2>1, <2>3
    <3>3. (T \ {x}) \ {y} = (T \ {y}) \ {x} /\ (T \ {y}) \ {x} \in SUBSET S
      OBVIOUS
    <3>4. f[x] \in Int /\ f[y] \in Int
      BY <2>1
    <3>5. \A s \in SUBSET S : g[s] \in Int
      BY SumType
    <3> DEFINE all == g[T]
               exceptY == g[T \ {y}]
               exceptX == g[T \ {x}]
               rest == g[(T \ {y}) \ {x}]
    <3>6. rest \in Int /\ all = f[y] + exceptY /\ exceptY = f[x] + rest /\ exceptX = f[y] + rest
      BY <2>1, <3>1, <3>2, <3>3, <3>5
    <3> HIDE DEF all, exceptY, exceptX, rest
    <3>7. all = f[x] + exceptX
      BY <3>4, <3>6
    <3>8. QED
      BY <3>7 DEF all, exceptX
  <2>4. QED
    BY <2>2, <2>3
<1>2. SUBSET S \subseteq G
  <2> HIDE DEF G
  <2>1. QED
    BY <1>1, SubsetInduction
<1>3. QED
  BY <1>2

\* A sum does not depend on what is not summed.
LEMMA SumElsewhere ==
  ASSUME NEW S, IsFiniteSet(S), NEW choose, Chooses(choose, S),
         NEW f, NEW h, NEW g, NEW k, IsSum(g, f, choose, S), IsSum(k, h, choose, S),
         NEW A \in SUBSET S, \A x \in A : f[x] = h[x]
  PROVE  g[A] = k[A]
<1> DEFINE G == {s \in SUBSET A : g[s] = k[s]}
<1>1. ASSUME NEW T \in SUBSET A, \A U \in SUBSET T : U # T => U \in G
      PROVE  T \in G
  <2>0. T \in SUBSET S
    OBVIOUS
  <2>4. g[T] = IF T = {} THEN 0 ELSE f[choose[T]] + g[T \ {choose[T]}]
    BY <2>0, SumEquation
  <2>5. k[T] = IF T = {} THEN 0 ELSE h[choose[T]] + k[T \ {choose[T]}]
    BY <2>0, SumEquation
  <2>1. CASE T = {}
    BY <2>1, <2>4, <2>5
  <2>2. CASE T # {}
    <3>1. choose[T] \in T
      BY <2>0, <2>2 DEF Chooses
    <3>2. g[T \ {choose[T]}] = k[T \ {choose[T]}]
      BY <1>1, <3>1
    <3>3. QED
      BY <2>2, <2>4, <2>5, <3>1, <3>2
  <2>3. QED
    BY <2>1, <2>2
<1>2. IsFiniteSet(A)
  BY FS_Subset
<1>3. SUBSET A \subseteq G
  <2> HIDE DEF G
  <2>1. QED
    BY <1>1, <1>2, SubsetInduction
<1>4. QED
  BY <1>3

\* There is such a sum: it is built set by set, by their cardinality.
LEMMA SumExists ==
  ASSUME NEW S, IsFiniteSet(S), NEW choose, Chooses(choose, S), NEW f
  PROVE  \E g : IsSum(g, f, choose, S)
<1> DEFINE UpTo(n) == {s \in SUBSET S : Cardinality(s) <= n}
           Sums(g, n) == g = [s \in UpTo(n) |->
                                IF s = {} THEN 0 ELSE f[choose[s]] + g[s \ {choose[s]}]]
           G == {n \in Nat : \E g : Sums(g, n)}
<1>1. \A s \in SUBSET S : /\ IsFiniteSet(s) /\ Cardinality(s) \in Nat
                          /\ Cardinality(s) = 0 <=> s = {}
                          /\ \A x \in s : Cardinality(s \ {x}) = Cardinality(s) - 1
  BY FS_Subset, FS_CardinalityType, FS_EmptySet, FS_RemoveElement
<1>2. 0 \in G
  <2>1. Sums([s \in UpTo(0) |-> 0], 0)
    BY <1>1
  <2>2. QED
    BY <2>1
<1>3. ASSUME NEW n \in Nat, n \in G PROVE n + 1 \in G
  <2>1. PICK g : Sums(g, n)
    BY <1>3
  <2> DEFINE h == [s \in UpTo(n + 1) |-> IF s = {} THEN 0 ELSE f[choose[s]] + g[s \ {choose[s]}]]
  <2>2. ASSUME NEW s \in UpTo(n + 1), s # {} PROVE h[s \ {choose[s]}] = g[s \ {choose[s]}]
    <3>1. choose[s] \in s /\ s \in SUBSET S
      BY <2>2 DEF Chooses
    <3>2. s \ {choose[s]} \in UpTo(n) /\ s \ {choose[s]} \in UpTo(n + 1)
      BY <1>1, <3>1
    <3> DEFINE t == s \ {choose[s]}
    <3>3. h[t] = IF t = {} THEN 0 ELSE f[choose[t]] + g[t \ {choose[t]}]
      BY <3>2
    <3>4. g[t] = IF t = {} THEN 0 ELSE f[choose[t]] + g[t \ {choose[t]}]
      BY <2>1, <3>2
    <3>5. QED
      BY <3>3, <3>4
  <2>3. Sums(h, n + 1)
    BY <2>2
  <2> HIDE DEF h, Sums
  <2>4. \E k : Sums(k, n + 1)
    BY <2>3
  <2>5. QED
    BY <2>4
<1>4. Cardinality(S) \in G
  <2> HIDE DEF G
  <2>1. Nat \subseteq G
    BY <1>2, <1>3, NatInductionOnSet
  <2>2. QED
    BY <1>1, <2>1
<1>5. PICK g : Sums(g, Cardinality(S))
  BY <1>4
<1>6. UpTo(Cardinality(S)) = SUBSET S
  BY FS_Subset
<1>7. QED
  BY <1>5, <1>6 DEF IsSum

\* The order in which SumFunction takes the elements.
Choice(S) == [s \in SUBSET S |-> CHOOSE x \in s : TRUE]

LEMMA ChoiceChooses == \A S : Chooses(Choice(S), S)
<1> SUFFICES ASSUME NEW S, NEW s \in SUBSET S, s # {} PROVE Choice(S)[s] \in s
  BY DEF Chooses
<1>1. (CHOOSE x \in s : TRUE) \in s
  OBVIOUS
<1>2. QED
  BY <1>1 DEF Choice

LEMMA SumFunctionIsSum ==
  ASSUME NEW S, IsFiniteSet(S), NEW f, DOMAIN f = S
  PROVE  \E g : IsSum(g, f, Choice(S), S) /\ SumFunction(f) = g[S]
<1> DEFINE Fold(g) ==
      [s \in SUBSET S |-> IF s = {} THEN 0
                          ELSE f[CHOOSE x \in s : TRUE] + g[s \ {CHOOSE x \in s : TRUE}]]
           iter == CHOOSE g : g = Fold(g)
<1>1. SumFunction(f) = iter[S]
  BY DEF SumFunction, SumFunctionOnSet, FoldFunctionOnSet, MapThenFoldSet
<1>2. \A g : IsSum(g, f, Choice(S), S) <=> g = Fold(g)
  <2> SUFFICES ASSUME NEW g PROVE IsSum(g, f, Choice(S), S) <=> g = Fold(g)
    OBVIOUS
  <2>1. \A s \in SUBSET S : Choice(S)[s] = CHOOSE x \in s : TRUE
    BY DEF Choice
  <2> DEFINE Left(s) == IF s = {} THEN 0 ELSE f[Choice(S)[s]] + g[s \ {Choice(S)[s]}]
             Right(s) == IF s = {} THEN 0
                         ELSE f[CHOOSE x \in s : TRUE] + g[s \ {CHOOSE x \in s : TRUE}]
  <2>2. \A s \in SUBSET S : Left(s) = Right(s)
    BY <2>1, Zenon
  <2> HIDE DEF Left, Right
  <2>3. [s \in SUBSET S |-> Left(s)] = [s \in SUBSET S |-> Right(s)]
    BY <2>2
  <2> DEFINE left == [s \in SUBSET S |-> Left(s)]
  <2>4. left = Fold(g)
    BY <2>3, Zenon DEF Right
  <2>5. IsSum(g, f, Choice(S), S) <=> g = left
    BY DEF IsSum, Left
  <2> HIDE DEF left, Fold
  <2>6. QED
    BY <2>4, <2>5
<1>3. Chooses(Choice(S), S)
  BY ChoiceChooses
<1>4. PICK g : IsSum(g, f, Choice(S), S)
  BY <1>3, SumExists
<1>5. iter = Fold(iter)
  <2>1. g = Fold(g)
    BY <1>2, <1>4
  <2> HIDE DEF Fold
  <2>2. QED
    BY <2>1
<1>6. IsSum(iter, f, Choice(S), S)
  <2> HIDE DEF iter, Fold
  <2>1. QED
    BY <1>2, <1>5
<1>7. QED
  <2> HIDE DEF iter
  <2>1. QED
    BY <1>1, <1>6

\* Nothing sums up to 0.
LEMMA SumOfZeros ==
  ASSUME NEW S, IsFiniteSet(S)
  PROVE  SumFunction([x \in S |-> 0]) = 0
<1> DEFINE f == [x \in S |-> 0]
<1>1. PICK g : IsSum(g, f, Choice(S), S) /\ SumFunction(f) = g[S]
  BY SumFunctionIsSum
<1> DEFINE G == {s \in SUBSET S : g[s] = 0}
<1>2. ASSUME NEW T \in SUBSET S, \A U \in SUBSET T : U # T => U \in G
      PROVE  T \in G
  <2>1. g[T] = IF T = {} THEN 0 ELSE f[Choice(S)[T]] + g[T \ {Choice(S)[T]}]
    BY <1>1 DEF IsSum
  <2>2. CASE T # {}
    <3>1. Choice(S)[T] \in T
      BY <2>2, ChoiceChooses DEF Chooses
    <3>2. f[Choice(S)[T]] = 0 /\ g[T \ {Choice(S)[T]}] = 0
      BY <1>2, <3>1
    <3>3. QED
      BY <2>1, <2>2, <3>2
  <2>3. QED
    BY <2>1, <2>2
<1>3. SUBSET S \subseteq G
  <2> HIDE DEF G
  <2>1. QED
    BY <1>2, SubsetInduction
<1>4. QED
  BY <1>1, <1>3

\* A change of one value changes the sum by as much.
LEMMA SumOfUpdate ==
  ASSUME NEW S, IsFiniteSet(S), NEW f \in [S -> Int], NEW b \in S, NEW n \in Int
  PROVE  /\ SumFunction(f) \in Int
         /\ SumFunction([f EXCEPT ![b] = n]) = SumFunction(f) - f[b] + n
<1> DEFINE h == [f EXCEPT ![b] = n]
<1>1. h \in [S -> Int] /\ h[b] = n /\ \A x \in S \ {b} : f[x] = h[x]
  OBVIOUS
<1> HIDE DEF h
<1>2. PICK g : IsSum(g, f, Choice(S), S) /\ SumFunction(f) = g[S]
  BY SumFunctionIsSum
<1>3. PICK k : IsSum(k, h, Choice(S), S) /\ SumFunction(h) = k[S]
  BY <1>1, SumFunctionIsSum
<1>4. Chooses(Choice(S), S) /\ S \ {b} \in SUBSET S /\ S \in SUBSET S
  BY ChoiceChooses
<1>5. g[S] = f[b] + g[S \ {b}]
  BY <1>2, <1>4, SumWithout
<1>6. k[S] = n + k[S \ {b}]
  BY <1>1, <1>3, <1>4, SumWithout
<1>7. g[S \ {b}] = k[S \ {b}]
  BY <1>1, <1>2, <1>3, <1>4, SumElsewhere
<1>8. g[S] \in Int /\ g[S \ {b}] \in Int
  BY <1>2, <1>4, SumType
<1>9. QED
  BY <1>2, <1>3, <1>5, <1>6, <1>7, <1>8 DEF h

\* No value is larger than the sum of all, if none is negative.
LEMMA SumBounds ==
  ASSUME NEW S, IsFiniteSet(S), NEW f \in [S -> Nat]
  PROVE  \A b \in S : f[b] <= SumFunction(f)
<1>1. PICK g : IsSum(g, f, Choice(S), S) /\ SumFunction(f) = g[S]
  BY SumFunctionIsSum
<1> DEFINE G == {s \in SUBSET S : g[s] \in Nat}
<1>2. ASSUME NEW T \in SUBSET S, \A U \in SUBSET T : U # T => U \in G
      PROVE  T \in G
  <2>1. g[T] = IF T = {} THEN 0 ELSE f[Choice(S)[T]] + g[T \ {Choice(S)[T]}]
    BY <1>1 DEF IsSum
  <2>2. CASE T # {}
    <3>1. Choice(S)[T] \in T
      BY <2>2, ChoiceChooses DEF Chooses
    <3>2. f[Choice(S)[T]] \in Nat /\ g[T \ {Choice(S)[T]}] \in Nat
      BY <1>2, <3>1
    <3>3. QED
      BY <2>1, <2>2, <3>2
  <2>3. QED
    BY <2>1, <2>2
<1>3. SUBSET S \subseteq G
  <2> HIDE DEF G
  <2>1. QED
    BY <1>2, SubsetInduction
<1>4. ASSUME NEW b \in S PROVE f[b] <= g[S]
  <2>1. Chooses(Choice(S), S) /\ f \in [S -> Int] /\ S \in SUBSET S
    BY ChoiceChooses
  <2>2. g[S] = f[b] + g[S \ {b}]
    BY <1>1, <2>1, SumWithout
  <2>3. g[S \ {b}] \in Nat /\ f[b] \in Nat
    BY <1>3
  <2>4. QED
    BY <2>2, <2>3
<1>5. QED
  BY <1>1, <1>4

-----------------------------------------------------------------------------
(* The counter, the blocks and the drift.                                  *)

\* What a step does to the sum of the blocks.
LEMMA SumOfBlocks ==
  ASSUME TypeOK, NEW b \in Blocks, NEW n \in Sizes \cup {0}, size' = [size EXCEPT ![b] = n]
  PROVE  /\ SumFunction(size) \in Int /\ n \in Nat /\ size[b] \in Nat
         /\ SumFunction(size') = SumFunction(size) - size[b] + n
<1>1. IsFiniteSet(Blocks) /\ Sizes \cup {0} \subseteq Nat
  BY AllocatorAssumption
<1>2. size \in [Blocks -> Int] /\ n \in Int /\ size[b] \in Nat /\ n \in Nat
  BY <1>1 DEF TypeOK
<1>3. QED
  BY <1>1, <1>2, SumOfUpdate

\* The counter, without the comparison with single blocks.
Accounted ==
  ~wrapped => used_ = SumFunction(size) + drift /\ drift >= 0 /\ live = SumFunction(size)

LEMMA BlocksAreCounted == TypeOK /\ Accounted => AccountedExactly
<1> SUFFICES ASSUME TypeOK, Accounted, ~wrapped PROVE \A b \in Blocks : size[b] <= used_
  BY DEF Accounted, AccountedExactly
<1> TAKE b \in Blocks
<1>1. IsFiniteSet(Blocks) /\ size \in [Blocks -> Nat]
  <2>1. Sizes \cup {0} \subseteq Nat
    BY AllocatorAssumption
  <2>2. QED
    BY <2>1, AllocatorAssumption DEF TypeOK
<1>2. size[b] <= SumFunction(size)
  BY <1>1, SumBounds
<1>3. used_ = SumFunction(size) + drift /\ drift >= 0 /\ drift \in Int
  BY DEF Accounted, TypeOK
<1>4. SumFunction(size) \in Int /\ size[b] \in Nat
  <2>1. size \in [Blocks -> Int] /\ 0 \in Int
    BY <1>1
  <2>2. QED
    BY <1>1, <2>1, SumOfUpdate
<1>5. QED
  BY <1>2, <1>3, <1>4

(* For every finite set of blocks and every sequence of calls: until it    *)
(* overflows, the counter is the size of all blocks plus the charges that  *)
(* shrinks, refusals and failed reallocs have left on it, so Deallocated   *)
(* never meets a counter below the block it releases (MemoryLimitChecker). *)
THEOREM CounterIsExact == Spec => []AccountedExactly
<1>1. Init => Accounted
  <2> SUFFICES ASSUME Init PROVE Accounted
    OBVIOUS
  <2>1. SumFunction(size) = 0
    BY AllocatorAssumption, SumOfZeros DEF Init
  <2>2. QED
    BY <2>1 DEF Init, Accounted
<1>2. TypeOK /\ Accounted /\ [Next]_vars => Accounted'
  <2> SUFFICES ASSUME TypeOK, Accounted, [Next]_vars PROVE Accounted'
    OBVIOUS
  <2>1. /\ used_ \in Nat /\ live \in Int /\ drift \in Int
        /\ SizeModulus \in Nat
    BY AllocatorAssumption DEF TypeOK
  <2>2. CASE UNCHANGED vars
    BY <2>2 DEF vars, Accounted
  <2>3. ASSUME NEW b \in Blocks, NEW tag \in Tags, Free(b, tag) PROVE Accounted'
    <3> SUFFICES ASSUME ~wrapped'
                 PROVE  used_' = SumFunction(size') + drift' /\ drift' >= 0
                        /\ live' = SumFunction(size')
      BY DEF Accounted
    <3>1. size' = [size EXCEPT ![b] = 0] /\ drift' = drift /\ ~wrapped /\ live' = live - size[b]
      BY <2>3 DEF Free
    <3>2. /\ SumFunction(size) \in Int /\ size[b] \in Nat
          /\ SumFunction(size') = SumFunction(size) - size[b] + 0
      BY <3>1, SumOfBlocks
    <3>3. /\ used_ = SumFunction(size) + drift /\ drift >= 0 /\ live = SumFunction(size)
          /\ size[b] <= used_
      BY <3>1, BlocksAreCounted DEF AccountedExactly
    <3>4. used_' = IF used_ < size[b] THEN 0 ELSE used_ - size[b]
      BY <2>3, <3>2 DEF Free, Deallocated, Osize
    <3>5. QED
      BY <2>1, <3>1, <3>2, <3>3, <3>4
  <2>4. ASSUME NEW b \in Blocks, NEW tag \in Tags, NEW n \in Sizes, Reallocate(b, tag, n)
        PROVE  Accounted'
    <3> SUFFICES ASSUME ~wrapped'
                 PROVE  used_' = SumFunction(size') + drift' /\ drift' >= 0
                        /\ live' = SumFunction(size')
      BY DEF Accounted
    <3> DEFINE charge == Charge(Osize(b, tag), n)
    <3>1. charge \in Nat /\ size[b] \in Nat /\ n \in Nat
      BY ChargeBounds, AllocatorAssumption
    <3>2. charge = IF n > size[b] THEN n - size[b] ELSE size[b] - n
      BY <3>1 DEF Charge, Osize
    <3>3. ~wrapped /\ used_' = used_ + charge
      BY <2>1, <2>4, <3>1 DEF Reallocate, Allocated
    <3>4. used_ = SumFunction(size) + drift /\ drift >= 0 /\ live = SumFunction(size)
      BY <3>3 DEF Accounted
    <3>5. SumFunction(size) \in Int
      BY <2>1, <3>4
    <3> HIDE DEF charge
    <3>6. CASE Refused(charge)
      BY <2>1, <3>1, <3>3, <3>4, <3>5, <3>6 DEF Refused
    <3>7. CASE Granted(b, n, charge)
      <4>1. size' = [size EXCEPT ![b] = n] /\ live' = live - size[b] + n
            /\ drift' = IF n >= size[b] THEN drift ELSE drift + 2 * charge
        BY <3>3, <3>7 DEF Granted
      <4>2. SumFunction(size') = SumFunction(size) - size[b] + n
        BY <4>1, SumOfBlocks
      <4>3. QED
        BY <2>1, <3>1, <3>2, <3>3, <3>4, <3>5, <4>1, <4>2
    <3>8. QED
      BY <2>4, <3>6, <3>7 DEF Reallocate, charge
  <2>5. QED
    BY <2>2, <2>3, <2>4 DEF Next
<1>3. QED
  BY <1>1, <1>2, TypeCorrect, BlocksAreCounted, PTL DEF Spec

(* The refusals that FittingRequestIsAllowed finds are those of the drift: *)
(* as long as nothing was refused, failed or shrunk, the limit is one on   *)
(* the bytes that are live, and a growing block that fits is never         *)
(* refused on account of it.                                               *)
THEOREM OnlyDriftRefuses ==
  Spec => [](~wrapped /\ drift = 0 =>
               \A b \in Blocks, n \in Sizes :
                 n >= size[b] /\ live - size[b] + n <= Limit
                   => ~IsLimitReached(Allocated(Charge(size[b], n))))
<1> DEFINE Fits(b, n) == n >= size[b] /\ live - size[b] + n <= Limit
                           => ~IsLimitReached(Allocated(Charge(size[b], n)))
           FitsAll == ~wrapped /\ drift = 0 => \A b \in Blocks, n \in Sizes : Fits(b, n)
<1>1. TypeOK /\ AccountedExactly => FitsAll
  <2> SUFFICES ASSUME TypeOK, AccountedExactly, ~wrapped, drift = 0,
                      NEW b \in Blocks, NEW n \in Sizes,
                      n >= size[b], live - size[b] + n <= Limit
               PROVE  ~IsLimitReached(Allocated(Charge(size[b], n)))
    OBVIOUS
  <2>1. /\ used_ \in Nat /\ live \in Int /\ Limit \in 0 .. (SizeModulus - 1) /\ n \in Nat
        /\ SizeModulus \in Nat /\ size[b] \in Nat
    BY SizeBounds, AllocatorAssumption DEF TypeOK
  <2>2. used_ = live
    BY <2>1 DEF AccountedExactly
  <2>3. Charge(size[b], n) = n - size[b]
    BY <2>1 DEF Charge
  <2>4. used_ + (n - size[b]) <= Limit
    BY <2>1, <2>2
  <2>5. Allocated(n - size[b]) = used_ + (n - size[b])
    BY <2>1, <2>4 DEF Allocated
  <2>6. QED
    BY <2>1, <2>3, <2>4, <2>5 DEF IsLimitReached
<1>2. QED
  BY <1>1, TypeCorrect, CounterIsExact, PTL

=============================================================================
