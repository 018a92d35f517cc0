------------------------------ MODULE WordProofs ------------------------------
(***************************************************************************)
(* What the operators return that the contracts' modules are built from:   *)
(* the checked operations and conversions of Word, for every width of the  *)
(* word, and the sum of a function over a finite set.                      *)
(***************************************************************************)
EXTENDS Word, Functions, FiniteSets, FiniteSetTheorems, WellFoundedInduction, TLAPS

\* Half of the word, which is even.
LEMMA HalfWordType == HalfWord \in Nat \ {0} /\ WordSize = 2 * HalfWord
  BY WordAssumption DEF HalfWord

\* An exact result that is a word is left as it is.
LEMMA WrapWord == ASSUME NEW n \in UInt PROVE Wrap(n) = n
  BY WordAssumption DEF Wrap, UInt

\* One word too many, or one too few, is taken off or put on.
LEMMA WrapHigh ==
    ASSUME NEW n \in Nat, n >= WordSize, n < 2 * WordSize
    PROVE  Wrap(n) = n - WordSize
  BY WordAssumption DEF Wrap

LEMMA WrapLow ==
    ASSUME NEW n \in Int, n < 0, n >= -WordSize
    PROVE  Wrap(n) = n + WordSize
  BY WordAssumption DEF Wrap

\* Add64 is exact: ok just when the sum is a word.
LEMMA AddIsExact ==
    ASSUME NEW x \in UInt, NEW y \in UInt
    PROVE  /\ Add64(x, y).val \in UInt
           /\ Add64(x, y).ok <=> x + y \in UInt
           /\ Add64(x, y).ok => Add64(x, y).val = x + y
<1>0. WordSize \in Nat /\ x \in Nat /\ y \in Nat /\ x < WordSize /\ y < WordSize
  BY WordAssumption DEF UInt
<1>1. Add64(x, y).val = Wrap(x + y)
  BY DEF Add64
<1>2. Add64(x, y).ok <=> Wrap(x + y) >= x
  BY DEF Add64
<1>3. CASE x + y < WordSize
  <2>1. x + y \in UInt  BY <1>0, <1>3 DEF UInt
  <2>2. Wrap(x + y) = x + y  BY <2>1, WrapWord
  <2> QED  BY <1>0, <1>1, <1>2, <2>1, <2>2
<1>4. CASE x + y >= WordSize
  <2>1. Wrap(x + y) = x + y - WordSize  BY <1>0, <1>4, WrapHigh
  <2>2. Wrap(x + y) \in UInt /\ x + y \notin UInt  BY <1>0, <1>4, <2>1 DEF UInt
  <2>3. ~ (Wrap(x + y) >= x)  BY <1>0, <1>4, <2>1
  <2> QED  BY <1>1, <1>2, <2>2, <2>3
<1> QED  BY <1>0, <1>3, <1>4

\* Sub64 is exact: ok just when the difference is a word.
LEMMA SubIsExact ==
    ASSUME NEW x \in UInt, NEW y \in UInt
    PROVE  /\ Sub64(x, y).val \in UInt
           /\ Sub64(x, y).ok <=> x - y \in UInt
           /\ Sub64(x, y).ok => Sub64(x, y).val = x - y
<1>0. WordSize \in Nat /\ x \in Nat /\ y \in Nat /\ x < WordSize /\ y < WordSize
  BY WordAssumption DEF UInt
<1>1. Sub64(x, y).val = Wrap(x - y)
  BY DEF Sub64
<1>2. Sub64(x, y).ok <=> Wrap(x - y) <= x
  BY DEF Sub64
<1>3. CASE y <= x
  <2>1. x - y \in UInt  BY <1>0, <1>3 DEF UInt
  <2>2. Wrap(x - y) = x - y  BY <2>1, WrapWord
  <2> QED  BY <1>0, <1>1, <1>2, <2>1, <2>2
<1>4. CASE y > x
  <2>1. Wrap(x - y) = x - y + WordSize  BY <1>0, <1>4, WrapLow
  <2>2. Wrap(x - y) \in UInt /\ x - y \notin UInt  BY <1>0, <1>4, <2>1 DEF UInt
  <2>3. ~ (Wrap(x - y) <= x)  BY <1>0, <1>4, <2>1
  <2> QED  BY <1>1, <1>2, <2>2, <2>3
<1> QED  BY <1>0, <1>3, <1>4

\* A product that wrapped is less than the exact one, and divided by a factor
\* no longer gives the other factor.
LEMMA MulIsExact ==
    ASSUME NEW x \in UInt, NEW y \in UInt
    PROVE  /\ Mul64(x, y).ok <=> x * y \in UInt
           /\ Mul64(x, y).ok => Mul64(x, y).val = x * y
<1>0. WordSize \in Nat \ {0} /\ x \in Nat /\ y \in Nat
  BY WordAssumption DEF UInt
<1>1. CASE x = 0 \/ y = 0
  BY <1>0, <1>1 DEF Mul64, UInt
<1>2. CASE x # 0 /\ y # 0
  <2> DEFINE p == x * y
             c == Wrap(p)
  <2>1. p \in Nat
    BY <1>0
  <2>2. Mul64(x, y).val = c /\ (Mul64(x, y).ok <=> c \div y = x)
    BY <1>2 DEF Mul64
  <2>3. c \in UInt /\ c <= p
    <3> HIDE DEF p
    <3> QED  BY <1>0, <2>1 DEF Wrap, UInt
  <2>4. CASE p \in UInt
    <3>1. c = p
      BY <2>4, WrapWord
    <3>2. p \div y = x
      BY <1>0, <1>2
    <3> QED  BY <2>2, <2>4, <3>1, <3>2
  <2>5. CASE p \notin UInt
    <3>1. c < p
      BY <1>0, <2>1, <2>3, <2>5 DEF UInt
    <3>2. c \div y # x
      <4> DEFINE q == c \div y
                 r == c % y
      <4>1. c \in Nat
        BY <1>0, <2>3 DEF UInt
      <4> HIDE DEF c
      <4>2. q \in Nat /\ r \in Nat /\ c = y * q + r
        BY <1>0, <1>2, <4>1
      <4>3. ASSUME q = x PROVE FALSE
        BY <1>0, <3>1, <4>1, <4>2, <4>3
      <4> QED  BY <4>3
    <3> QED  BY <2>2, <2>5, <3>2
  <2> QED  BY <2>4, <2>5
<1> QED  BY <1>1, <1>2

\* The negation of a word is a word.
LEMMA Neg64Type == ASSUME NEW x \in UInt PROVE Neg64(x) \in UInt
<1>0. WordSize \in Nat /\ x \in Nat /\ x < WordSize
  BY WordAssumption DEF UInt
<1>1. CASE x = 0
  BY <1>0, <1>1, WrapWord DEF Neg64, UInt
<1>2. CASE x > 0
  BY <1>0, <1>2, WrapLow DEF Neg64, UInt
<1> QED  BY <1>0, <1>1, <1>2

\* A word read as a signed integer is in the range of an int64.
LEMMA ToInt64Type ==
    ASSUME NEW x \in UInt
    PROVE  ToInt64(x) \in -HalfWord .. HalfWord - 1
  BY HalfWordType DEF ToInt64, UInt

\* The overflow tests of safemath.go are right for all operands: each
\* operation reports an overflow just when there is one.
THEOREM OperationsExact ==
    \A m, n \in UInt : /\ Exact(Add64(m, n), m + n)
                       /\ Exact(Sub64(m, n), m - n)
                       /\ Exact(Mul64(m, n), m * n)
  BY AddIsExact, SubIsExact, MulIsExact DEF Exact

\* A share count goes through the two conversions of a dividend delta, int64(v)
\* and int64(-v) (estate.go:196, 257, 258), and comes out as v and -v: up to
\* half of the word, and there only.
THEOREM DeltaConverted ==
    \A v \in UInt : /\ ToInt64(v) = v <=> v < HalfWord
                    /\ ToInt64(Neg64(v)) = -v <=> v <= HalfWord
<1> SUFFICES ASSUME NEW v \in UInt
             PROVE  /\ ToInt64(v) = v <=> v < HalfWord
                    /\ ToInt64(Neg64(v)) = -v <=> v <= HalfWord
  OBVIOUS
<1>1. WordSize \in Nat /\ HalfWord \in Nat \ {0} /\ WordSize = 2 * HalfWord
  BY HalfWordType
<1>2. v \in Nat /\ v < WordSize
  BY <1>1 DEF UInt
<1>3. ToInt64(v) = v <=> v < HalfWord
  BY <1>1, <1>2 DEF ToInt64
<1>4. CASE v = 0
  <2>1. Neg64(v) = 0
    BY <1>1, <1>4, WrapWord DEF Neg64, UInt
  <2> QED  BY <1>1, <1>3, <1>4, <2>1 DEF ToInt64
<1>5. CASE v > 0
  <2>1. Neg64(v) = WordSize - v
    BY <1>1, <1>2, <1>5, WrapLow DEF Neg64
  <2>2. ToInt64(Neg64(v)) = -v <=> v <= HalfWord
    BY <1>1, <1>2, <1>5, <2>1 DEF ToInt64
  <2> QED  BY <1>3, <2>2
<1> QED  BY <1>2, <1>4, <1>5

\* Where the conversions are not exact they are a word off.  A number that is a
\* word off what it should be is no word: dividendOf then fails, it never pays
\* for another number of shares.
LEMMA ConvertedUpToWord ==
    ASSUME NEW v \in UInt
    PROVE  /\ ToInt64(v) \in {v, v - WordSize}
           /\ ToInt64(Neg64(v)) \in {-v, WordSize - v}
           /\ ToInt64(v) \in -HalfWord .. HalfWord - 1
           /\ ToInt64(Neg64(v)) \in -HalfWord .. HalfWord - 1
<1>1. WordSize \in Nat /\ HalfWord \in Nat \ {0} /\ WordSize = 2 * HalfWord
  BY HalfWordType
<1>2. v \in Nat /\ v < WordSize
  BY <1>1 DEF UInt
<1>3. ToInt64(v) \in {v, v - WordSize}
  BY DEF ToInt64
<1>4. CASE v = 0
  <2>1. Neg64(v) = 0
    BY <1>1, <1>4, WrapWord DEF Neg64, UInt
  <2> QED  BY <1>1, <1>3, <1>4, <2>1, ToInt64Type DEF ToInt64
<1>5. CASE v > 0
  <2>1. Neg64(v) = WordSize - v
    BY <1>1, <1>2, <1>5, WrapLow DEF Neg64
  <2>2. ToInt64(Neg64(v)) \in {-v, WordSize - v}
    BY <1>1, <1>2, <2>1 DEF ToInt64
  <2> QED  BY <1>3, <2>2, Neg64Type, ToInt64Type
<1> QED  BY <1>2, <1>4, <1>5

LEMMA WordOff ==
    ASSUME NEW r \in UInt, NEW n \in Int, n \in {r - WordSize, r, r + WordSize}, n \in UInt
    PROVE  n = r
  BY WordAssumption DEF UInt
-----------------------------------------------------------------------------
(* Sums.  SumFunctionOnSet is a fold, defined by recursion on subsets: it  *)
(* is a table of the sums of all subsets of a set, and what is said of it  *)
(* is said of a smallest subset for which it would fail.                   *)

\* The index that is added first, what the table of the subsets of S solves,
\* and the table that the fold looks its value up in.
Picked(s) == CHOOSE x \in s : TRUE
SumStep(f, S, g) ==
    [s \in SUBSET S |-> IF s = {} THEN 0 ELSE f[Picked(s)] + g[s \ {Picked(s)}]]
IsTable(f, S, g) == g = SumStep(f, S, g)
HasTable(f, S) == \E g : IsTable(f, S, g)
SumTable(f, S) == CHOOSE g : g = SumStep(f, S, g)

\* The fold, unfolded.
LEMMA SumIsTable == ASSUME NEW f, NEW S PROVE SumFunctionOnSet(f, S) = SumTable(f, S)[S]
  BY DEF SumFunctionOnSet, FoldFunctionOnSet, MapThenFoldSet, SumTable, SumStep, Picked

\* Among some subsets of a finite set there is one that has no other below it.
LEMMA SmallestSubset ==
    ASSUME NEW S, IsFiniteSet(S), NEW T, T \subseteq SUBSET S, T # {}
    PROVE  \E m \in T : \A y \in T : y \subseteq m => y = m
<1>1. IsWellFoundedOn(StrictSubsetOrdering(S), FiniteSubsetsOf(S))
  BY FS_StrictSubsetOrderingWellFounded
<1>2. T \subseteq FiniteSubsetsOf(S)
  BY FS_FiniteSubsetsOfFinite
<1>3. \E m \in T : \A y \in T : ~ (<<y, m>> \in StrictSubsetOrdering(S))
  BY <1>1, <1>2, WFMin
<1> QED  BY <1>3 DEF StrictSubsetOrdering

\* What is added first is one of the indices.
LEMMA PickedIn == ASSUME NEW s, s # {} PROVE Picked(s) \in s
  BY DEF Picked

\* A table has a value for each subset.
LEMMA TableRow ==
    ASSUME NEW f, NEW S, NEW g, IsTable(f, S, g), NEW s \in SUBSET S
    PROVE  g[s] = IF s = {} THEN 0 ELSE f[Picked(s)] + g[s \ {Picked(s)}]
  BY DEF IsTable, SumStep

\* Tables of two sets have the same value for a subset of both.
LEMMA TablesAgree ==
    ASSUME NEW f, NEW S, NEW g, IsTable(f, S, g), NEW U, NEW h, IsTable(f, U, h),
           NEW s \in SUBSET (S \cap U), IsFiniteSet(s)
    PROVE  g[s] = h[s]
<1> DEFINE T == {r \in SUBSET s : g[r] # h[r]}
<1>1. SUFFICES ASSUME T # {} PROVE FALSE
  OBVIOUS
<1>2. T \subseteq SUBSET s
  OBVIOUS
<1> HIDE DEF T
<1>3. PICK m \in T : \A y \in T : y \subseteq m => y = m
  BY <1>1, <1>2, SmallestSubset
<1> USE DEF T
<1>4. m \in SUBSET S /\ m \in SUBSET U /\ m \in SUBSET s
  OBVIOUS
<1>5. m # {}
  BY <1>4, TableRow
<1>6. g[m \ {Picked(m)}] = h[m \ {Picked(m)}]
  BY <1>3, <1>5, PickedIn
<1>7. g[m] = h[m]
  BY <1>4, <1>5, <1>6, TableRow
<1> QED  BY <1>7

\* The definition by recursion has a solution on every finite set.
LEMMA TableExists ==
    ASSUME NEW f, NEW S, IsFiniteSet(S)
    PROVE  HasTable(f, S)
<1> DEFINE T == {s \in SUBSET S : ~HasTable(f, s)}
<1>1. SUFFICES ASSUME T # {} PROVE FALSE
  OBVIOUS
<1>2. T \subseteq SUBSET S
  OBVIOUS
<1> HIDE DEF T
<1>3. PICK m \in T : \A y \in T : y \subseteq m => y = m
  BY <1>1, <1>2, SmallestSubset
<1> USE DEF T
<1>4. \A u \in SUBSET m : u # m => IsTable(f, u, SumTable(f, u))
  BY <1>3 DEF HasTable, IsTable, SumTable
<1> DEFINE val(u) == IF u = {} THEN 0
                     ELSE f[Picked(u)] + SumTable(f, u \ {Picked(u)})[u \ {Picked(u)}]
           g == [u \in SUBSET m |-> val(u)]
<1>5. ASSUME NEW u \in SUBSET m, u # m PROVE SumTable(f, u)[u] = val(u)
  <2>1. IsTable(f, u, SumTable(f, u))
    BY <1>4, <1>5
  <2>2. CASE u = {}
    BY <2>1, <2>2, TableRow
  <2>3. CASE u # {}
    <3> DEFINE v == u \ {Picked(u)}
    <3>1. v \in SUBSET u /\ v \in SUBSET m /\ v # m /\ IsFiniteSet(v)
      BY <2>3, PickedIn, FS_Subset
    <3>2. IsTable(f, v, SumTable(f, v))
      BY <1>4, <3>1
    <3>3. SumTable(f, u)[v] = SumTable(f, v)[v]
      BY <2>1, <3>1, <3>2, TablesAgree
    <3>4. SumTable(f, u)[u] = f[Picked(u)] + SumTable(f, u)[v]
      BY <2>1, <2>3, TableRow
    <3> QED  BY <2>3, <3>3, <3>4
  <2> QED  BY <2>2, <2>3
<1>6. g = SumStep(f, m, g)
  <2>1. ASSUME NEW u \in SUBSET m, u # {}
        PROVE  g[u \ {Picked(u)}] = SumTable(f, u \ {Picked(u)})[u \ {Picked(u)}]
    <3>1. u \ {Picked(u)} \in SUBSET m /\ u \ {Picked(u)} # m
      BY <2>1, PickedIn
    <3> QED  BY <1>5, <3>1
  <2> QED  BY <2>1 DEF SumStep
<1> QED  BY <1>6 DEF HasTable, IsTable

\* What SumFunctionOnSet does: nothing to add of no index, and of some, one of
\* them to the sum of the rest.
LEMMA SumRecursion ==
    ASSUME NEW f, NEW S, IsFiniteSet(S)
    PROVE  /\ SumFunctionOnSet(f, {}) = 0
           /\ S # {} => SumFunctionOnSet(f, S)
                           = f[Picked(S)] + SumFunctionOnSet(f, S \ {Picked(S)})
<1>1. \A U : IsFiniteSet(U) => IsTable(f, U, SumTable(f, U))
  BY TableExists DEF HasTable, IsTable, SumTable
<1>2. SumFunctionOnSet(f, {}) = 0
  BY <1>1, FS_EmptySet, TableRow, SumIsTable
<1>3. ASSUME S # {}
      PROVE  SumFunctionOnSet(f, S) = f[Picked(S)] + SumFunctionOnSet(f, S \ {Picked(S)})
  <2> DEFINE v == S \ {Picked(S)}
  <2>1. v \in SUBSET S /\ IsFiniteSet(v)
    BY FS_Subset
  <2>2. SumTable(f, S)[v] = SumTable(f, v)[v]
    BY <1>1, <2>1, TablesAgree
  <2>3. SumTable(f, S)[S] = f[Picked(S)] + SumTable(f, S)[v]
    BY <1>1, <1>3, TableRow
  <2> QED  BY <2>2, <2>3, SumIsTable
<1> QED  BY <1>2, <1>3

\* Functions that agree on a set have one sum on it.
LEMMA SumCongruent ==
    ASSUME NEW S, IsFiniteSet(S), NEW f, NEW g, \A x \in S : f[x] = g[x]
    PROVE  SumFunctionOnSet(f, S) = SumFunctionOnSet(g, S)
<1> DEFINE T == {s \in SUBSET S : SumFunctionOnSet(f, s) # SumFunctionOnSet(g, s)}
<1>1. SUFFICES ASSUME T # {} PROVE FALSE
  OBVIOUS
<1>2. T \subseteq SUBSET S
  OBVIOUS
<1> HIDE DEF T
<1>3. PICK m \in T : \A y \in T : y \subseteq m => y = m
  BY <1>1, <1>2, SmallestSubset
<1> USE DEF T
<1>4. IsFiniteSet(m)
  BY FS_Subset
<1>5. m # {}
  BY SumRecursion, FS_EmptySet
<1> DEFINE v == m \ {Picked(m)}
<1>6. SumFunctionOnSet(f, v) = SumFunctionOnSet(g, v)
  BY <1>3, <1>5, PickedIn
<1>7. f[Picked(m)] = g[Picked(m)]
  BY <1>5, PickedIn
<1>8. SumFunctionOnSet(f, m) = SumFunctionOnSet(g, m)
  BY <1>4, <1>5, <1>6, <1>7, SumRecursion
<1> QED  BY <1>8

\* The sum of natural numbers is one.
LEMMA SumType ==
    ASSUME NEW S, IsFiniteSet(S), NEW f, \A x \in S : f[x] \in Nat
    PROVE  SumFunctionOnSet(f, S) \in Nat
<1> DEFINE T == {s \in SUBSET S : SumFunctionOnSet(f, s) \notin Nat}
<1>1. SUFFICES ASSUME T # {} PROVE FALSE
  OBVIOUS
<1>2. T \subseteq SUBSET S
  OBVIOUS
<1> HIDE DEF T
<1>3. PICK m \in T : \A y \in T : y \subseteq m => y = m
  BY <1>1, <1>2, SmallestSubset
<1> USE DEF T
<1>4. IsFiniteSet(m)
  BY FS_Subset
<1>5. m # {}
  <2>1. SumFunctionOnSet(f, {}) = 0
    BY SumRecursion, FS_EmptySet
  <2> QED  BY <2>1
<1> DEFINE v == m \ {Picked(m)}
<1>6. SumFunctionOnSet(f, v) \in Nat
  BY <1>3, <1>5, PickedIn
<1>7. f[Picked(m)] \in Nat
  BY <1>5, PickedIn
<1>8. SumFunctionOnSet(f, m) \in Nat
  BY <1>4, <1>5, <1>6, <1>7, SumRecursion
<1> QED  BY <1>8

\* Any index can be taken out, not only the one that is taken first.
LEMMA SumWithout ==
    ASSUME NEW S, IsFiniteSet(S), NEW f, \A y \in S : f[y] \in Nat, NEW x \in S
    PROVE  SumFunctionOnSet(f, S) = f[x] + SumFunctionOnSet(f, S \ {x})
<1> DEFINE Taken(s, y) == SumFunctionOnSet(f, s) = f[y] + SumFunctionOnSet(f, s \ {y})
           T == {s \in SUBSET S : \E y \in s : ~Taken(s, y)}
<1>1. SUFFICES ASSUME T # {} PROVE FALSE
  OBVIOUS
<1>2. T \subseteq SUBSET S
  OBVIOUS
<1> HIDE DEF T
<1>3. PICK m \in T : \A y \in T : y \subseteq m => y = m
  BY <1>1, <1>2, SmallestSubset
<1> USE DEF T
<1>4. PICK y \in m : ~Taken(m, y)
  OBVIOUS
<1> DEFINE p == Picked(m)
           rest == m \ {p, y}
<1>5. IsFiniteSet(m) /\ IsFiniteSet(rest) /\ m \in SUBSET S /\ m # {}
  BY FS_Subset
<1>6. SumFunctionOnSet(f, m) = f[p] + SumFunctionOnSet(f, m \ {p})
  BY <1>5, SumRecursion
<1>7. p \in m /\ p # y
  BY <1>4, <1>5, <1>6, PickedIn
<1>8. Taken(m \ {p}, y) /\ Taken(m \ {y}, p)
  <2>1. ASSUME NEW w \in SUBSET m, w # m, NEW z \in w PROVE Taken(w, z)
    BY <1>3, <1>5, <2>1
  <2>2. /\ m \ {p} \in SUBSET m /\ m \ {p} # m /\ y \in m \ {p}
        /\ m \ {y} \in SUBSET m /\ m \ {y} # m /\ p \in m \ {y}
    BY <1>4, <1>7
  <2> HIDE DEF Taken, p
  <2> QED  BY <2>1, <2>2
<1>9. (m \ {p}) \ {y} = rest /\ (m \ {y}) \ {p} = rest
  OBVIOUS
<1>10. f[p] \in Nat /\ f[y] \in Nat /\ SumFunctionOnSet(f, rest) \in Nat
  BY <1>5, <1>7, SumType
<1> HIDE DEF p, rest
<1> QED  BY <1>4, <1>6, <1>8, <1>9, <1>10

\* No part is more than the sum, nor two of them together.
LEMMA SumBounds ==
    ASSUME NEW S, IsFiniteSet(S), NEW f \in [S -> Nat], NEW x \in S, NEW y \in S
    PROVE  /\ SumFunction(f) \in Nat
           /\ f[x] <= SumFunction(f)
           /\ x # y => f[x] + f[y] <= SumFunction(f)
<1>1. /\ SumFunction(f) = SumFunctionOnSet(f, S)
      /\ IsFiniteSet(S \ {x}) /\ IsFiniteSet((S \ {x}) \ {y})
  BY FS_Subset DEF SumFunction
<1>2. /\ SumFunctionOnSet(f, S) \in Nat
      /\ SumFunctionOnSet(f, S \ {x}) \in Nat
      /\ SumFunctionOnSet(f, (S \ {x}) \ {y}) \in Nat
  BY <1>1, SumType
<1>3. SumFunctionOnSet(f, S) = f[x] + SumFunctionOnSet(f, S \ {x})
  BY SumWithout
<1>4. x # y => SumFunctionOnSet(f, S \ {x}) = f[y] + SumFunctionOnSet(f, (S \ {x}) \ {y})
  BY <1>1, SumWithout
<1> QED  BY <1>1, <1>2, <1>3, <1>4

\* A sum changes with a part as the part does.
LEMMA SumExcept ==
    ASSUME NEW S, IsFiniteSet(S), NEW f \in [S -> Nat], NEW x \in S, NEW n \in Nat
    PROVE  SumFunction([f EXCEPT ![x] = n]) = SumFunction(f) - f[x] + n
<1> DEFINE g == [f EXCEPT ![x] = n]
<1>1. g \in [S -> Nat] /\ g[x] = n /\ \A y \in S \ {x} : g[y] = f[y]
  OBVIOUS
<1>2. SumFunction(f) = SumFunctionOnSet(f, S) /\ SumFunction(g) = SumFunctionOnSet(g, S)
  BY <1>1 DEF SumFunction
<1> HIDE DEF g
<1>3. IsFiniteSet(S \ {x})
  BY FS_Subset
<1>4. SumFunctionOnSet(g, S \ {x}) = SumFunctionOnSet(f, S \ {x})
  BY <1>1, <1>3, SumCongruent
<1>5. /\ SumFunctionOnSet(f, S) = f[x] + SumFunctionOnSet(f, S \ {x})
      /\ SumFunctionOnSet(g, S) = n + SumFunctionOnSet(g, S \ {x})
  BY <1>1, SumWithout
<1>6. SumFunctionOnSet(f, S \ {x}) \in Nat /\ f[x] \in Nat
  BY <1>3, SumType
<1> HIDE DEF g
<1>7. SumFunction(g) = SumFunction(f) - f[x] + n
  BY <1>2, <1>4, <1>5, <1>6
<1> QED  BY <1>7 DEF g

\* Nothing anywhere adds up to nothing.
LEMMA SumZero ==
    ASSUME NEW S, IsFiniteSet(S)
    PROVE  SumFunction([x \in S |-> 0]) = 0
<1> DEFINE f == [x \in S |-> 0]
           T == {s \in SUBSET S : SumFunctionOnSet(f, s) # 0}
<1>1. SUFFICES ASSUME T # {} PROVE FALSE
  BY DEF SumFunction
<1>2. T \subseteq SUBSET S
  OBVIOUS
<1> HIDE DEF T
<1>3. PICK m \in T : \A y \in T : y \subseteq m => y = m
  BY <1>1, <1>2, SmallestSubset
<1> USE DEF T
<1>4. IsFiniteSet(m) /\ m # {}
  BY FS_Subset, SumRecursion, FS_EmptySet
<1>5. SumFunctionOnSet(f, m \ {Picked(m)}) = 0 /\ f[Picked(m)] = 0
  BY <1>3, <1>4, PickedIn
<1>6. SumFunctionOnSet(f, m) = 0
  BY <1>4, <1>5, SumRecursion
<1> QED  BY <1>6

\* The sum of two functions is the sum of their sums.
LEMMA SumOfSums ==
    ASSUME NEW S, IsFiniteSet(S), NEW f \in [S -> Nat], NEW g \in [S -> Nat]
    PROVE  SumFunction([x \in S |-> f[x] + g[x]]) = SumFunction(f) + SumFunction(g)
<1> DEFINE h == [x \in S |-> f[x] + g[x]]
           Sum(F, s) == SumFunctionOnSet(F, s)
           T == {s \in SUBSET S : Sum(h, s) # Sum(f, s) + Sum(g, s)}
<1>1. SUFFICES ASSUME T # {} PROVE FALSE
  BY DEF SumFunction
<1>2. T \subseteq SUBSET S
  OBVIOUS
<1> HIDE DEF T
<1>3. PICK m \in T : \A y \in T : y \subseteq m => y = m
  BY <1>1, <1>2, SmallestSubset
<1> USE DEF T
<1>4. IsFiniteSet(m) /\ m \in SUBSET S
  BY FS_Subset
<1>5. m # {}
  <2>1. Sum(h, {}) = 0 /\ Sum(f, {}) = 0 /\ Sum(g, {}) = 0
    BY SumRecursion, FS_EmptySet
  <2> QED  BY <2>1
<1> DEFINE p == Picked(m)
           v == m \ {p}
<1>6. p \in S /\ v \in SUBSET S /\ v # m /\ v \subseteq m
  BY <1>4, <1>5, PickedIn
<1>7. Sum(h, v) = Sum(f, v) + Sum(g, v)
  BY <1>3, <1>6
<1>8. /\ Sum(h, m) = h[p] + Sum(h, v) /\ h[p] = f[p] + g[p]
      /\ Sum(f, m) = f[p] + Sum(f, v) /\ Sum(g, m) = g[p] + Sum(g, v)
  BY <1>4, <1>5, <1>6, SumRecursion
<1>9. f[p] \in Nat /\ g[p] \in Nat /\ Sum(f, v) \in Nat /\ Sum(g, v) \in Nat
  <2>1. IsFiniteSet(v)
    BY <1>6, FS_Subset
  <2> QED  BY <1>6, <2>1, SumType
<1> HIDE DEF p, v, h, Sum
<1>10. Sum(h, m) = Sum(f, m) + Sum(g, m)
  BY <1>7, <1>8, <1>9
<1> QED  BY <1>10

LEMMA SumScaled ==
    ASSUME NEW S, IsFiniteSet(S), NEW f \in [S -> Nat], NEW c \in Nat,
           NEW g, DOMAIN g = S, \A x \in S : g[x] = f[x] * c
    PROVE  SumFunction(g) = SumFunction(f) * c
<1> DEFINE Sum(F, s) == SumFunctionOnSet(F, s)
           T == {s \in SUBSET S : Sum(g, s) # Sum(f, s) * c}
<1>1. SUFFICES ASSUME T # {} PROVE FALSE
  BY DEF SumFunction
<1>2. T \subseteq SUBSET S
  OBVIOUS
<1> HIDE DEF T
<1>3. PICK m \in T : \A y \in T : y \subseteq m => y = m
  BY <1>1, <1>2, SmallestSubset
<1> USE DEF T
<1>4. IsFiniteSet(m) /\ m \in SUBSET S
  BY FS_Subset
<1>5. m # {}
  <2>1. Sum(g, {}) = 0 /\ Sum(f, {}) = 0
    BY SumRecursion, FS_EmptySet
  <2> QED  BY <2>1
<1> DEFINE p == Picked(m)
           v == m \ {p}
<1>6. p \in S /\ v \in SUBSET S /\ v # m /\ v \subseteq m
  BY <1>4, <1>5, PickedIn
<1>7. Sum(g, v) = Sum(f, v) * c
  BY <1>3, <1>6
<1>8. /\ Sum(g, m) = f[p] * c + Sum(g, v)
      /\ Sum(f, m) = f[p] + Sum(f, v)
  BY <1>4, <1>5, <1>6, SumRecursion
<1>9. f[p] \in Nat /\ Sum(f, v) \in Nat
  <2>1. IsFiniteSet(v)
    BY <1>6, FS_Subset
  <2> QED  BY <1>6, <2>1, SumType
<1> HIDE DEF p, v, Sum
<1>10. \A a, b \in Nat : (a + b) * c = a * c + b * c
  OBVIOUS
<1>11. Sum(g, m) = Sum(f, m) * c
  BY <1>7, <1>8, <1>9, <1>10
<1> QED  BY <1>11

\* Values that are added up by the class of their index, class by class, are
\* all added up.
ClassSum(f, class, S, A) ==
    SumFunction([a \in A |-> SumFunctionOnSet(f, {i \in S : class[i] = a})])

LEMMA SumByClass ==
    ASSUME NEW S, IsFiniteSet(S), NEW A, IsFiniteSet(A), NEW class \in [S -> A],
           NEW f \in [S -> Nat]
    PROVE  ClassSum(f, class, S, A) = SumFunction(f)
<1> DEFINE Of(s) == [a \in A |-> SumFunctionOnSet(f, {i \in s : class[i] = a})]
           T == {s \in SUBSET S : SumFunction(Of(s)) # SumFunctionOnSet(f, s)}
<1>1. SUFFICES ASSUME T # {} PROVE FALSE
  BY DEF SumFunction, ClassSum
<1>2. T \subseteq SUBSET S
  OBVIOUS
<1> HIDE DEF T
<1>3. PICK m \in T : \A y \in T : y \subseteq m => y = m
  BY <1>1, <1>2, SmallestSubset
<1> USE DEF T
<1>4. IsFiniteSet(m) /\ m \in SUBSET S /\ SumFunctionOnSet(f, {}) = 0
  BY FS_Subset, FS_EmptySet, SumRecursion
<1>5. m # {}
  <2>1. ASSUME m = {} PROVE Of(m) = [a \in A |-> 0]
    <3>1. \A a \in A : {i \in m : class[i] = a} = {}
      BY <2>1
    <3> QED  BY <1>4, <3>1
  <2>2. m = {} => SumFunction(Of(m)) = 0
    BY <2>1, SumZero
  <2> QED  BY <1>4, <2>2
<1> DEFINE p == Picked(m)
           v == m \ {p}
           c == class[p]
<1>6. p \in m /\ p \in S /\ v \in SUBSET S /\ v # m /\ v \subseteq m /\ c \in A
  BY <1>4, <1>5, PickedIn
<1>7. SumFunction(Of(v)) = SumFunctionOnSet(f, v)
  BY <1>3, <1>6
<1>8. \A s \in SUBSET S : IsFiniteSet(s) /\ SumFunctionOnSet(f, s) \in Nat
  BY FS_Subset, SumType
<1>9. Of(v) \in [A -> Nat]
  <2>1. \A a \in A : {i \in v : class[i] = a} \in SUBSET S
    BY <1>6
  <2> QED  BY <1>8, <2>1
<1>10. Of(v)[c] + f[p] \in Nat /\ Of(v)[c] \in Nat /\ f[p] \in Nat
  BY <1>6, <1>9
<1>11. Of(m) = [Of(v) EXCEPT ![c] = Of(v)[c] + f[p]]
  <2>1. ASSUME NEW a \in A, a # c PROVE Of(m)[a] = Of(v)[a]
    <3>1. {i \in m : class[i] = a} = {i \in v : class[i] = a}
      BY <2>1
    <3> QED  BY <3>1
  <2>2. Of(m)[c] = Of(v)[c] + f[p]
    <3> DEFINE mc == {i \in m : class[i] = c}
               vc == {i \in v : class[i] = c}
    <3>1. mc \in SUBSET S /\ p \in mc /\ vc = mc \ {p} /\ vc \in SUBSET S
      BY <1>6
    <3>2. SumFunctionOnSet(f, mc) = f[p] + SumFunctionOnSet(f, vc)
      <4> HIDE DEF mc, vc
      <4>1. IsFiniteSet(mc) /\ \A y \in mc : f[y] \in Nat
        BY <1>8, <3>1
      <4>2. SumFunctionOnSet(f, mc) = f[p] + SumFunctionOnSet(f, mc \ {p})
        BY <3>1, <4>1, SumWithout
      <4> QED  BY <3>1, <4>2
    <3>3. Of(m)[c] = SumFunctionOnSet(f, mc) /\ Of(v)[c] = SumFunctionOnSet(f, vc)
      BY <1>6
    <3> HIDE DEF Of, mc, vc
    <3> QED  BY <1>10, <3>2, <3>3
  <2> QED  BY <2>1, <2>2
<1>12. SumFunctionOnSet(f, m) = f[p] + SumFunctionOnSet(f, v)
  BY <1>4, <1>5, SumRecursion
<1>13. SumFunctionOnSet(f, v) \in Nat
  BY <1>6, <1>8
<1> HIDE DEF Of, p, v, c
<1>14. SumFunction(Of(m)) = SumFunction(Of(v)) - Of(v)[c] + (Of(v)[c] + f[p])
  <2>1. \A n \in Nat : SumFunction([Of(v) EXCEPT ![c] = n]) = SumFunction(Of(v)) - Of(v)[c] + n
    BY <1>6, <1>9, SumExcept
  <2> QED  BY <1>10, <1>11, <2>1
<1>15. SumFunction(Of(m)) = SumFunctionOnSet(f, m)
  BY <1>7, <1>10, <1>12, <1>13, <1>14
<1> QED  BY <1>15
=============================================================================
