------------------------------ MODULE DccProofs ------------------------------
(***************************************************************************)
(* Theorems about DccToken, for any addresses and any width of the word.   *)
(***************************************************************************)
EXTENDS DccToken, WordProofs, SequenceTheorems

LEMMA TypeInit == Init => TypeOK
  BY WordAssumption DEF Init, TypeOK, UInt

LEMMA MintType ==
    ASSUME TypeOK, NEW to \in Addr, NEW v \in UInt, Mint(to, v)
    PROVE  TypeOK'
  BY AddIsExact DEF TypeOK, Mint

\* The recipient's balance is that of the debited store.
LEMMA TransferType ==
    ASSUME TypeOK, NEW from \in Addr, NEW to \in Addr, NEW v \in UInt,
           Transfer(from, to, v)
    PROVE  TypeOK'
<1> DEFINE fromAmount == Sub64(amount[from], v)
           debited == [amount EXCEPT ![from] = fromAmount.val]
           toAmount == Add64(debited[to], v)
<1>1. fromAmount.val \in UInt
  BY SubIsExact DEF TypeOK
<1>2. debited \in [Addr -> UInt]
  BY <1>1 DEF TypeOK
<1>3. toAmount.val \in UInt
  BY <1>2, AddIsExact
<1>4. amount' = [debited EXCEPT ![to] = toAmount.val] /\ totalSupply' = totalSupply
  BY DEF Transfer
<1> QED  BY <1>2, <1>3, <1>4 DEF TypeOK

LEMMA BatchType ==
    ASSUME TypeOK, NEW from \in Addr, NEW tos, NEW values,
           TransferBatch(from, tos, values)
    PROVE  TypeOK'
  BY DEF TypeOK, TransferBatch

LEMMA TypeStep == TypeOK /\ [Next]_vars => TypeOK'
<1> SUFFICES ASSUME TypeOK, [Next]_vars PROVE TypeOK'
  OBVIOUS
<1>1. CASE \E a \in Addr, v \in Values : Mint(a, v)
  BY <1>1, MintType, DccAssumption
<1>2. CASE \E f, a \in Addr, v \in Values : Transfer(f, a, v)
  BY <1>2, TransferType, DccAssumption
<1>3. CASE \E f \in Addr, tos \in Batches(Addr), values \in Batches(Values) :
                TransferBatch(f, tos, values)
  BY <1>3, BatchType
<1>4. CASE UNCHANGED vars
  BY <1>4 DEF vars, TypeOK
<1> QED  BY <1>1, <1>2, <1>3, <1>4 DEF Next

\* Balances and the supply stay in a uint64, whatever is minted, transferred
\* and batched.
THEOREM TypeCorrect == Spec => []TypeOK
  BY TypeInit, TypeStep, PTL DEF Spec

\* A credit or a debit of any balance the contract can get to is refused just
\* when its result is no word (dcc.go:97-152 with safemath.go).
THEOREM SumsAlwaysExact == Spec => []SumsExact
<1>1. TypeOK => SumsExact
  BY OperationsExact DEF TypeOK, SumsExact
<1> QED  BY <1>1, TypeCorrect, PTL
-----------------------------------------------------------------------------
(* Batches.  The sum of a batch is not checked: what follows is about      *)
(* batches whose sum is a word, as is every sum that the supply can pay.   *)

BatchesFit == \A values \in Batches(Values) : SumFunction(values) < WordSize

\* The two arguments of a batch that is carried out, and what it does.
LEMMA BatchHasEffect ==
    ASSUME TypeOK, BatchesFit, NEW f \in Addr, NEW tos \in Batches(Addr),
           NEW values \in Batches(Values), TransferBatch(f, tos, values)
    PROVE  /\ Len(tos) \in Nat
           /\ tos \in [1 .. Len(tos) -> Addr] /\ values \in [1 .. Len(tos) -> Nat]
           /\ amount[f] - SumFunction(values) \in UInt
           /\ SumFunction(values) \in Nat
           /\ amount' = [a \in Addr |->
                            (IF a = f THEN amount[a] - SumFunction(values) ELSE amount[a])
                            + SumFunctionOnSet(values, {i \in 1 .. Len(tos) : tos[i] = a})]
<1>1. tos \in Seq(Addr) /\ values \in Seq(Nat)
  <2>1. \A v \in Values : v \in Nat
    BY DccAssumption, WordAssumption DEF UInt
  <2>2. MaxBatch \in Nat
    BY DccAssumption
  <2>3. PICK n \in 0 .. MaxBatch : tos \in [1 .. n -> Addr]
    BY DEF Batches
  <2>4. PICK m \in 0 .. MaxBatch : values \in [1 .. m -> Values]
    BY DEF Batches
  <2>5. n \in Nat /\ m \in Nat /\ values \in [1 .. m -> Nat]
    BY <2>1, <2>2, <2>4
  <2> QED  BY <2>3, <2>5, SeqDef
<1>2. /\ Len(tos) \in Nat /\ Len(values) = Len(tos)
      /\ tos \in [1 .. Len(tos) -> Addr] /\ values \in [1 .. Len(tos) -> Nat]
  BY <1>1, LenProperties DEF TransferBatch
<1>3. SumFunction(values) \in Nat
  <2>1. IsFiniteSet(1 .. Len(tos))
    BY <1>2, FS_Interval
  <2>2. SumFunctionOnSet(values, 1 .. Len(tos)) \in Nat
    BY <1>2, <2>1, SumType
  <2> QED  BY <1>2, <2>2 DEF SumFunction
<1>4. SumFunction(values) \in UInt
  BY <1>3, WordAssumption DEF BatchesFit, UInt
<1>5. BatchSum(values) = SumFunction(values)
  BY <1>4, WrapWord DEF BatchSum
<1>6. amount \in [Addr -> UInt]
  BY DEF TypeOK
<1>7. /\ Sub64(amount[f], SumFunction(values)).val = amount[f] - SumFunction(values)
      /\ amount[f] - SumFunction(values) \in UInt
  BY <1>4, <1>5, <1>6, SubIsExact DEF TransferBatch
<1>8. DOMAIN tos = 1 .. Len(tos)
  BY <1>2
<1>9. amount' = [a \in Addr |->
                    [amount EXCEPT ![f] = amount[f] - SumFunction(values)][a]
                    + SumFunctionOnSet(values, {i \in 1 .. Len(tos) : tos[i] = a})]
  BY <1>5, <1>7, <1>8 DEF TransferBatch, Credit
<1>10. \A a \in Addr : [amount EXCEPT ![f] = amount[f] - SumFunction(values)][a]
                        = IF a = f THEN amount[a] - SumFunction(values) ELSE amount[a]
  BY <1>6
<1> QED  BY <1>2, <1>3, <1>7, <1>9, <1>10

LEMMA BalanceSum ==
    ASSUME NEW f \in [Addr -> UInt], NEW a \in Addr, NEW n \in UInt
    PROVE  /\ f \in [Addr -> Nat] /\ SumFunction(f) \in Nat
           /\ SumFunction([f EXCEPT ![a] = n]) = SumFunction(f) - f[a] + n
<1>1. f \in [Addr -> Nat] /\ n \in Nat /\ IsFiniteSet(Addr)
  BY WordAssumption, DccAssumption DEF UInt
<1> QED  BY <1>1, SumExcept, SumBounds

LEMMA MintSupplies ==
    ASSUME TypeOK, SupplyConserved, NEW to \in Addr, NEW v \in UInt, Mint(to, v)
    PROVE  SupplyConserved'
<1>1. amount \in [Addr -> UInt] /\ amount[to] \in Nat /\ v \in Nat
  BY WordAssumption DEF TypeOK, UInt
<1>2. /\ amount' = [amount EXCEPT ![to] = amount[to] + v]
      /\ totalSupply' = totalSupply + v /\ amount[to] + v \in UInt
  BY <1>1, AddIsExact DEF Mint, TypeOK
<1>3. SumFunction(amount) \in Nat /\ SumFunction(amount') = SumFunction(amount) - amount[to] + (amount[to] + v)
  BY <1>1, <1>2, BalanceSum
<1> QED  BY <1>1, <1>2, <1>3 DEF SupplyConserved

LEMMA TransferSupplies ==
    ASSUME TypeOK, SupplyConserved, NEW from \in Addr, NEW to \in Addr, NEW v \in UInt,
           Transfer(from, to, v)
    PROVE  SupplyConserved'
<1> DEFINE debited == [amount EXCEPT ![from] = amount[from] - v]
<1>1. amount \in [Addr -> UInt] /\ amount[from] \in Nat /\ v \in Nat
  BY WordAssumption DEF TypeOK, UInt
<1>2. Sub64(amount[from], v).val = amount[from] - v /\ amount[from] - v \in UInt
  BY <1>1, SubIsExact DEF Transfer
<1>3. debited \in [Addr -> UInt]
  BY <1>1, <1>2
<1>4. amount' = [debited EXCEPT ![to] = debited[to] + v] /\ debited[to] + v \in UInt
      /\ totalSupply' = totalSupply
  BY <1>2, <1>3, AddIsExact DEF Transfer
<1>5. /\ SumFunction(amount) \in Nat
      /\ SumFunction(debited) = SumFunction(amount) - amount[from] + (amount[from] - v)
  BY <1>1, <1>2, BalanceSum
<1> HIDE DEF debited
<1>6. debited[to] \in Nat /\ SumFunction(debited) \in Nat
  BY <1>3, BalanceSum, WordAssumption DEF UInt
<1>7. SumFunction(amount') = SumFunction(debited) - debited[to] + (debited[to] + v)
  BY <1>3, <1>4, BalanceSum
<1> QED  BY <1>1, <1>4, <1>5, <1>6, <1>7 DEF SupplyConserved

\* What a batch gives away is what it takes, each entry once.
LEMMA BatchSupplies ==
    ASSUME TypeOK, SupplyConserved, BatchesFit, NEW f \in Addr,
           NEW tos \in Batches(Addr), NEW values \in Batches(Values),
           TransferBatch(f, tos, values)
    PROVE  SupplyConserved'
<1> DEFINE S == 1 .. Len(tos)
           sum == SumFunction(values)
           debited == [amount EXCEPT ![f] = amount[f] - sum]
           credit == [a \in Addr |-> SumFunctionOnSet(values, {i \in S : tos[i] = a})]
<1>1. /\ Len(tos) \in Nat /\ tos \in [S -> Addr] /\ values \in [S -> Nat]
      /\ amount[f] - sum \in UInt /\ sum \in Nat
      /\ amount' = [a \in Addr |-> (IF a = f THEN amount[a] - sum ELSE amount[a])
                                   + SumFunctionOnSet(values, {i \in S : tos[i] = a})]
  BY BatchHasEffect
<1>2. amount \in [Addr -> UInt] /\ IsFiniteSet(Addr) /\ IsFiniteSet(S)
  BY <1>1, DccAssumption, FS_Interval DEF TypeOK
<1>3. /\ SumFunction(amount) \in Nat /\ debited \in [Addr -> Nat] /\ amount[f] \in Nat
      /\ SumFunction(debited) = SumFunction(amount) - amount[f] + (amount[f] - sum)
  <2>1. debited \in [Addr -> UInt]
    BY <1>1, <1>2
  <2>2. /\ debited \in [Addr -> Nat] /\ SumFunction(amount) \in Nat
        /\ amount \in [Addr -> Nat]
    <3> HIDE DEF debited
    <3> QED  BY <1>2, <2>1, BalanceSum
  <2>3. \A n \in UInt : SumFunction([amount EXCEPT ![f] = n]) = SumFunction(amount) - amount[f] + n
    BY <1>2, BalanceSum
  <2> QED  BY <1>1, <2>2, <2>3
<1>4. credit \in [Addr -> Nat] /\ SumFunction(credit) = sum
  <2> HIDE DEF S
  <2>1. ASSUME NEW a \in Addr
        PROVE  SumFunctionOnSet(values, {i \in S : tos[i] = a}) \in Nat
    <3> DEFINE D == {i \in S : tos[i] = a}
    <3>1. IsFiniteSet(D) /\ \A i \in D : values[i] \in Nat
      BY <1>1, <1>2, FS_Subset
    <3> HIDE DEF D
    <3>2. SumFunctionOnSet(values, D) \in Nat
      BY <3>1, SumType
    <3> QED  BY <3>2 DEF D
  <2>2. SumFunction([a \in Addr |-> SumFunctionOnSet(values, {i \in S : tos[i] = a})])
          = SumFunction(values)
    <3>1. ClassSum(values, tos, S, Addr) = SumFunction(values)
      BY <1>1, <1>2, SumByClass
    <3> QED  BY <3>1 DEF ClassSum
  <2> QED  BY <2>1, <2>2
<1>5. amount' = [a \in Addr |-> debited[a] + credit[a]]
  BY <1>1, <1>2
<1> HIDE DEF debited, credit
<1>6. SumFunction(amount') = SumFunction(debited) + SumFunction(credit)
  BY <1>2, <1>3, <1>4, <1>5, SumOfSums
<1>7. totalSupply' = totalSupply
  BY DEF TransferBatch
<1> HIDE DEF sum
<1> QED  BY <1>1, <1>3, <1>4, <1>6, <1>7 DEF SupplyConserved

\* The balances add up to what was minted, whatever is transferred, to oneself
\* or to one address twice in a batch (dcc.go:97-192), for batches whose sum is
\* a word.
THEOREM SupplyAddsUp == ASSUME BatchesFit PROVE Spec => []SupplyConserved
<1>1. Init => SupplyConserved
  BY DccAssumption, SumZero DEF Init, SupplyConserved
<1>2. TypeOK /\ SupplyConserved /\ [Next]_vars => SupplyConserved'
  <2> SUFFICES ASSUME TypeOK, SupplyConserved, [Next]_vars PROVE SupplyConserved'
    OBVIOUS
  <2>1. CASE \E a \in Addr, v \in Values : Mint(a, v)
    BY <2>1, MintSupplies, DccAssumption
  <2>2. CASE \E f, a \in Addr, v \in Values : Transfer(f, a, v)
    BY <2>2, TransferSupplies, DccAssumption
  <2>3. CASE \E f \in Addr, tos \in Batches(Addr), values \in Batches(Values) :
                  TransferBatch(f, tos, values)
    BY <2>3, BatchSupplies
  <2>4. CASE UNCHANGED vars
    BY <2>4 DEF vars, SupplyConserved
  <2> QED  BY <2>1, <2>2, <2>3, <2>4 DEF Next
<1> QED  BY <1>1, <1>2, TypeCorrect, PTL DEF Spec

\* What a batch comes to after n of its entries.
After(f, tos, values, n) ==
    [a \in Addr |->
        (IF a = f THEN amount[a] - SumFunctionOnSet(values, 1 .. n) ELSE amount[a])
        + SumFunctionOnSet(values, {i \in 1 .. n : tos[i] = a})]

\* The balances that OneByOne goes through.
IsRun(f, tos, values, g) ==
    g = [n \in 0 .. Len(tos) |->
            IF n = 0 THEN amount ELSE Transferred(g[n - 1], f, tos[n], values[n])]

LEMMA OneByOneIsRun ==
    ASSUME NEW f, NEW tos, NEW values
    PROVE  OneByOne(f, tos, values)
             = (CHOOSE g : IsRun(f, tos, values, g))[Len(tos)]
  BY DEF OneByOne, IsRun

\* A transfer, seen from each address.
LEMMA TransferredTo ==
    ASSUME NEW b \in [Addr -> Int], NEW from \in Addr, NEW to \in Addr, NEW v \in Int
    PROVE  Transferred(b, from, to, v)
             = [a \in Addr |-> b[a] - (IF a = from THEN v ELSE 0) + (IF a = to THEN v ELSE 0)]
<1> DEFINE debited == [b EXCEPT ![from] = b[from] - v]
<1>1. debited \in [Addr -> Int] /\ \A a \in Addr : debited[a] = b[a] - (IF a = from THEN v ELSE 0)
  OBVIOUS
<1>2. Transferred(b, from, to, v) = [debited EXCEPT ![to] = debited[to] + v]
  BY DEF Transferred
<1> HIDE DEF debited
<1>3. \A a \in Addr : [debited EXCEPT ![to] = debited[to] + v][a]
                        = b[a] - (IF a = from THEN v ELSE 0) + (IF a = to THEN v ELSE 0)
  BY <1>1
<1>4. [debited EXCEPT ![to] = debited[to] + v]
        = [a \in Addr |-> [debited EXCEPT ![to] = debited[to] + v][a]]
  BY <1>1
<1> QED  BY <1>2, <1>3, <1>4

\* One entry more is one transfer more.
LEMMA AfterNext ==
    ASSUME amount \in [Addr -> Nat], NEW f \in Addr, NEW tos, NEW values, NEW L \in Nat,
           tos \in [1 .. L -> Addr], values \in [1 .. L -> Nat], NEW n \in 1 .. L
    PROVE  /\ After(f, tos, values, n - 1) \in [Addr -> Int]
           /\ After(f, tos, values, n)
                = Transferred(After(f, tos, values, n - 1), f, tos[n], values[n])
<1> DEFINE Sum(D) == SumFunctionOnSet(values, D)
           D(k, a) == {i \in 1 .. k : tos[i] = a}
           b == After(f, tos, values, n - 1)
<1>1. ASSUME NEW I \in SUBSET (1 .. L) PROVE IsFiniteSet(I) /\ Sum(I) \in Nat
  <2>1. IsFiniteSet(I)
    <3>1. IsFiniteSet(1 .. L)
      BY FS_Interval
    <3> QED  BY <3>1, FS_Subset
  <2>2. \A i \in I : values[i] \in Nat
    OBVIOUS
  <2> QED  BY <2>1, <2>2, SumType
<1>2. n \in Nat /\ 1 .. n \in SUBSET (1 .. L) /\ 1 .. n - 1 \in SUBSET (1 .. L)
  OBVIOUS
<1>3. tos[n] \in Addr /\ values[n] \in Nat
  OBVIOUS
<1>4. Sum(1 .. n) = values[n] + Sum(1 .. n - 1)
  <2>1. (1 .. n) \ {n} = 1 .. n - 1 /\ n \in 1 .. n /\ \A i \in 1 .. n : values[i] \in Nat
    BY <1>2
  <2>2. Sum(1 .. n) = values[n] + Sum((1 .. n) \ {n})
    BY <1>1, <1>2, <2>1, SumWithout
  <2> QED  BY <2>1, <2>2
<1>5. ASSUME NEW a \in Addr
      PROVE  /\ Sum(D(n, a)) = Sum(D(n - 1, a)) + (IF a = tos[n] THEN values[n] ELSE 0)
             /\ Sum(D(n - 1, a)) \in Nat
  <2>1. D(n, a) \in SUBSET (1 .. L) /\ D(n - 1, a) \in SUBSET (1 .. L)
    BY <1>2
  <2>2. CASE a = tos[n]
    <3>1. n \in D(n, a) /\ D(n, a) \ {n} = D(n - 1, a)
      BY <1>2, <2>2
    <3>2. IsFiniteSet(D(n, a)) /\ \A i \in D(n, a) : values[i] \in Nat
      BY <1>1, <2>1
    <3> HIDE DEF D
    <3>3. Sum(D(n, a)) = values[n] + Sum(D(n, a) \ {n})
      BY <3>1, <3>2, SumWithout
    <3>4. Sum(D(n - 1, a)) \in Nat
      BY <1>1, <2>1
    <3> HIDE DEF Sum
    <3>5. Sum(D(n, a)) = values[n] + Sum(D(n - 1, a))
      BY <3>1, <3>3
    <3> QED  BY <1>3, <2>2, <3>4, <3>5
  <2>3. CASE a # tos[n]
    <3>1. D(n, a) = D(n - 1, a)
      BY <1>2, <2>3
    <3> HIDE DEF D
    <3>2. Sum(D(n - 1, a)) \in Nat
      BY <1>1, <2>1
    <3> HIDE DEF Sum
    <3> QED  BY <2>3, <3>1, <3>2
  <2> QED  BY <2>2, <2>3
<1>6. Sum(1 .. n - 1) \in Nat
  BY <1>1, <1>2
<1>7. \A k \in {n - 1, n} : After(f, tos, values, k)
        = [a \in Addr |-> (IF a = f THEN amount[a] - Sum(1 .. k) ELSE amount[a]) + Sum(D(k, a))]
  BY DEF After
<1> HIDE DEF Sum, D
<1>8. b = [a \in Addr |-> (IF a = f THEN amount[a] - Sum(1 .. n - 1) ELSE amount[a])
                          + Sum(D(n - 1, a))]
  BY <1>7
<1> HIDE DEF b
<1>9. b \in [Addr -> Int]
  <2>1. ASSUME NEW a \in Addr
        PROVE  (IF a = f THEN amount[a] - Sum(1 .. n - 1) ELSE amount[a]) + Sum(D(n - 1, a))
                 \in Int
    <3>1. amount[a] \in Nat /\ Sum(D(n - 1, a)) \in Nat
      BY <1>5
    <3> QED  BY <1>6, <3>1
  <2> QED  BY <1>8, <2>1
<1>10. Transferred(b, f, tos[n], values[n])
         = [a \in Addr |-> b[a] - (IF a = f THEN values[n] ELSE 0)
                                + (IF a = tos[n] THEN values[n] ELSE 0)]
  <2>1. values[n] \in Int
    BY <1>3
  <2> HIDE DEF After
  <2>2. \A v \in Int : Transferred(b, f, tos[n], v)
           = [a \in Addr |-> b[a] - (IF a = f THEN v ELSE 0) + (IF a = tos[n] THEN v ELSE 0)]
    BY <1>3, <1>9, TransferredTo
  <2> QED  BY <2>1, <2>2
<1>11. ASSUME NEW a \in Addr
       PROVE  (IF a = f THEN amount[a] - Sum(1 .. n) ELSE amount[a]) + Sum(D(n, a))
                = b[a] - (IF a = f THEN values[n] ELSE 0)
                       + (IF a = tos[n] THEN values[n] ELSE 0)
  <2>1. b[a] = (IF a = f THEN amount[a] - Sum(1 .. n - 1) ELSE amount[a]) + Sum(D(n - 1, a))
    BY <1>8
  <2>2. amount[a] \in Nat
    OBVIOUS
  <2>3. Sum(D(n, a)) = Sum(D(n - 1, a)) + (IF a = tos[n] THEN values[n] ELSE 0)
        /\ Sum(D(n - 1, a)) \in Nat
    BY <1>5
  <2> QED  BY <1>3, <1>4, <1>6, <2>1, <2>2, <2>3
<1>12. After(f, tos, values, n)
         = [a \in Addr |-> (IF a = f THEN amount[a] - Sum(1 .. n) ELSE amount[a]) + Sum(D(n, a))]
  BY <1>7
<1> QED  BY <1>9, <1>10, <1>11, <1>12 DEF b

LEMMA AfterNothing ==
    ASSUME amount \in [Addr -> Nat], NEW f \in Addr, NEW tos, NEW values
    PROVE  After(f, tos, values, 0) = amount
<1>1. 1 .. 0 = {} /\ \A a : {i \in 1 .. 0 : tos[i] = a} = {}
  OBVIOUS
<1>2. SumFunctionOnSet(values, {}) = 0
  BY FS_EmptySet, SumRecursion
<1>3. \A a \in Addr : After(f, tos, values, 0)[a] = amount[a]
  BY <1>1, <1>2 DEF After
<1>4. After(f, tos, values, 0) = [a \in Addr |-> After(f, tos, values, 0)[a]]
  BY DEF After
<1> QED  BY <1>3, <1>4

\* What the transfers leave, one after the other.
LEMMA RunIsAfter ==
    ASSUME amount \in [Addr -> Nat], NEW f \in Addr, NEW tos, NEW values, Len(tos) \in Nat,
           tos \in [1 .. Len(tos) -> Addr], values \in [1 .. Len(tos) -> Nat]
    PROVE  OneByOne(f, tos, values) = After(f, tos, values, Len(tos))
<1> DEFINE L == Len(tos)
           A(n) == After(f, tos, values, n)
           g == CHOOSE h : IsRun(f, tos, values, h)
           known == [n \in 0 .. L |-> A(n)]
<1>1. \A n \in 1 .. L : A(n) = Transferred(A(n - 1), f, tos[n], values[n])
  BY AfterNext
<1>2. A(0) = amount
  BY AfterNothing
<1>3. IsRun(f, tos, values, known)
  <2>1. \A n \in 0 .. L : n # 0 => n \in 1 .. L /\ n - 1 \in 0 .. L
    OBVIOUS
  <2> HIDE DEF A
  <2> QED  BY <1>1, <1>2, <2>1 DEF IsRun
<1>4. IsRun(f, tos, values, g)
  BY <1>3
<1> DEFINE T == {n \in 0 .. L : g[n] # A(n)}
<1>5. ASSUME T # {} PROVE FALSE
  <2>1. PICK m \in T : \A n \in T : ~ (<<n, m>> \in OpToRel(<, Nat))
    <3>1. T \subseteq Nat
      OBVIOUS
    <3> HIDE DEF T
    <3> QED  BY <1>5, <3>1, NatLessThanWellFounded, WFMin
  <2>2. ASSUME NEW n \in T, n < m PROVE FALSE
    <3>1. n \in Nat /\ m \in Nat
      OBVIOUS
    <3>2. <<n, m>> \in OpToRel(<, Nat)
      BY <2>2, <3>1 DEF OpToRel
    <3> QED  BY <2>1, <3>2
  <2>3. m \in 0 .. L /\ g[m] # A(m)
    OBVIOUS
  <2> HIDE DEF g
  <2>4. \A n \in 0 .. L : g[n] = IF n = 0 THEN amount
                                 ELSE Transferred(g[n - 1], f, tos[n], values[n])
    BY <1>4 DEF IsRun
  <2>5. m # 0
    BY <1>2, <2>3, <2>4
  <2>6. m - 1 \in 0 .. L /\ m - 1 < m /\ m \in 1 .. L
    BY <2>3, <2>5
  <2>7. g[m - 1] = A(m - 1)
    BY <2>2, <2>6
  <2> HIDE DEF A
  <2> QED  BY <1>1, <2>3, <2>4, <2>5, <2>6, <2>7
<1>6. g[L] = A(L)
  <2>1. L \in 0 .. L
    OBVIOUS
  <2> HIDE DEF g, A, L
  <2> QED  BY <1>5, <2>1
<1> QED  BY <1>6, OneByOneIsRun

\* A batch is its transfers, carried out one by one (dcc.go:155-192), if the sum
\* of its values is a word.
THEOREM BatchOfTransfers == ASSUME BatchesFit PROVE Spec => BatchIsTransfers
<1>1. ASSUME TypeOK, NEW f \in Addr, NEW tos \in Batches(Addr),
             NEW values \in Batches(Values), TransferBatch(f, tos, values)
      PROVE  amount' = OneByOne(f, tos, values)
  <2>1. /\ Len(tos) \in Nat
        /\ tos \in [1 .. Len(tos) -> Addr] /\ values \in [1 .. Len(tos) -> Nat]
        /\ amount' = [a \in Addr |->
                         (IF a = f THEN amount[a] - SumFunction(values) ELSE amount[a])
                         + SumFunctionOnSet(values, {i \in 1 .. Len(tos) : tos[i] = a})]
    BY <1>1, BatchHasEffect
  <2>2. SumFunction(values) = SumFunctionOnSet(values, 1 .. Len(tos))
    BY <2>1 DEF SumFunction
  <2>3. amount' = After(f, tos, values, Len(tos))
    BY <2>1, <2>2 DEF After
  <2>4. amount \in [Addr -> Nat]
    BY <1>1, WordAssumption DEF TypeOK, UInt
  <2> QED  BY <2>1, <2>3, <2>4, RunIsAfter
<1>2. TypeOK => [\A f \in Addr, tos \in Batches(Addr), values \in Batches(Values) :
            TransferBatch(f, tos, values) => amount' = OneByOne(f, tos, values)]_vars
  BY <1>1
<1> QED  BY <1>2, TypeCorrect, PTL DEF BatchIsTransfers
=============================================================================
