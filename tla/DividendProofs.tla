---------------------------- MODULE DividendProofs ----------------------------
(***************************************************************************)
(* Theorems about DividendFlow, for any users, shares, pages, and numbers  *)
(* of dividends and of distributions.                                      *)
(***************************************************************************)
EXTENDS DividendFlow, WordProofs

\* What sales, registrations and payments read and write of the estate.
StoreOK ==
    /\ amount \in [Token -> [Addr -> UInt]]
    /\ delta \in [Token -> [Addr -> [Index -> -HalfWord .. HalfWord - 1]]]
    /\ perShare \in [Token -> [Index -> UInt]]
    /\ dividendIndex \in [Token -> Index]
    /\ paid \in [Token -> SUBSET Index]
    /\ rights \in [Addr -> UInt]

\* The sale that is prepared can be made: it is the only one.
SaleOK ==
    sale # NoSale =>
        /\ sale.from \in Addr /\ sale.to \in Addr
        /\ sale.value \in Shares /\ sale.index \in 0 .. Last
        /\ amount[1][sale.from] - sale.value \in UInt
        /\ sale.from # sale.to => amount[1][sale.to] + sale.value \in UInt

\* A request has its parts; it is for a dividend that is registered by now.
ReqOK ==
    /\ req = [x \in Tx |-> [stage |-> req[x].stage, index |-> req[x].index,
                            dues |-> req[x].dues, batch |-> req[x].batch]]
    /\ \A x \in Tx : req[x].index \in 0 .. Last /\ DOMAIN req[x].dues \subseteq Addr

\* The dividends to come have no deltas, nor has who did not move shares.
FreshDeltas ==
    \A a \in Addr, i \in Index :
        i > Last \/ i = 0 \/ (i = Last /\ a \notin moved) => delta[1][a][i] = 0

\* The contract knows by the deltas what everyone has a right to, up to a word
\* that the conversion of a delta may have added or taken away; of those who
\* have moved shares twice it does not.
Entitled ==
    Waits => \A a \in Addr \ again :
        amount[1][a] + delta[1][a][Last]
            \in {rights[a] - WordSize, rights[a], rights[a] + WordSize}

\* A sale that was prepared before the dividend that waits comes before any
\* other, and what its parties are due is read by nobody.
SaleBefore ==
    sale # NoSale /\ Waits /\ sale.index # Last =>
        /\ moved = {}
        /\ \A x \in Tx : req[x].index = Last =>
               sale.from \notin DOMAIN req[x].dues /\ sale.to \notin DOMAIN req[x].dues

\* DuesAreRights, of the requests of the dividend that waits.
DuesRight ==
    Waits => \A x \in Tx : req[x].index = Last =>
        \A u \in DOMAIN req[x].dues \ again : req[x].dues[u] = rights[u] * perShare[1][Last]

DInv ==
    /\ StoreOK /\ SaleOK /\ ReqOK
    /\ FreshDeltas /\ Entitled /\ SaleBefore /\ DuesRight
    /\ again \subseteq moved

StoreKept ==
    UNCHANGED <<amount, delta, perShare, dividendIndex, paid, rights, moved, again>>
-----------------------------------------------------------------------------
LEMMA Basics ==
    /\ 1 \in Token /\ 0 \in Index /\ 0 \in UInt
    /\ WordSize \in Nat /\ HalfWord \in Nat /\ WordSize = 2 * HalfWord
    /\ \A v \in Shares : v \in UInt /\ v \in Nat
    /\ \A n \in UInt : n \in Nat
  BY FlowAssumption, EstateAssumption, HalfWordType DEF Index, UInt

LEMMA Indexes ==
    ASSUME StoreOK
    PROVE  /\ Last \in Index
           /\ \A i \in Index : i \in Nat
           /\ \A i \in 0 .. Last : i \in Index /\ i <= Last
           /\ \A t \in Token, a \in Addr : amount[t][a] \in Nat
           /\ \A t \in Token, a \in Addr, i \in Index : delta[t][a][i] \in Int
<1>1. Last \in Index
  BY Basics DEF StoreOK, Last
<1>2. \A i \in Index : i \in Nat
  BY EstateAssumption DEF Index
<1>3. \A i \in 0 .. Last : i \in Index /\ i <= Last
  BY <1>1, EstateAssumption DEF Index
<1>4. \A t \in Token, a \in Addr : amount[t][a] \in UInt
  BY DEF StoreOK
<1>5. \A d \in -HalfWord .. HalfWord - 1 : d \in Int
  BY Basics
<1>6. \A t \in Token, a \in Addr, i \in Index : delta[t][a][i] \in -HalfWord .. HalfWord - 1
  BY DEF StoreOK
<1> QED  BY <1>1, <1>2, <1>3, <1>4, <1>5, <1>6, Basics

LEMMA ContractKept ==
    ASSUME UNCHANGED contract
    PROVE  UNCHANGED <<creator, amount, delta, perShare, dividendIndex, paid>>
  BY DEF contract, tokenVars, dividendVars

\* A step that leaves the estate, the sale and the requests alone.
LEMMA QuietKeeps ==
    ASSUME DInv, StoreKept, sale' = sale, req' = req
    PROVE  DInv'
<1>1. Last' = Last /\ Waits' = Waits
  BY DEF StoreKept, Last, Waits, Unpaid
<1>2. StoreOK' /\ SaleOK' /\ ReqOK'
  BY <1>1 DEF DInv, StoreKept, StoreOK, SaleOK, ReqOK
<1>3. FreshDeltas' /\ Entitled' /\ SaleBefore' /\ DuesRight'
  BY <1>1 DEF DInv, StoreKept, FreshDeltas, Entitled, SaleBefore, DuesRight
<1> QED  BY <1>2, <1>3 DEF DInv, StoreKept

\* A step of a request that reads no shares.
LEMMA RequestKeeps ==
    ASSUME DInv, StoreKept, sale' = sale, ReqOK',
           \A x \in Tx : \/ req'[x].index = req[x].index /\ req'[x].dues = req[x].dues
                         \/ DOMAIN req'[x].dues = {}
    PROVE  DInv'
<1>1. Last' = Last /\ Waits' = Waits
  BY DEF StoreKept, Last, Waits, Unpaid
<1>2. StoreOK' /\ SaleOK'
  BY <1>1 DEF DInv, StoreKept, StoreOK, SaleOK
<1>3. FreshDeltas' /\ Entitled'
  BY <1>1 DEF DInv, StoreKept, FreshDeltas, Entitled
<1>4. SaleBefore' /\ DuesRight'
  BY <1>1 DEF DInv, StoreKept, SaleBefore, DuesRight
<1> QED  BY <1>2, <1>3, <1>4 DEF DInv, StoreKept

\* One request is replaced.
LEMMA RequestPut ==
    ASSUME ReqOK, StoreKept, NEW x \in Tx, NEW r,
           r = [stage |-> r.stage, index |-> r.index, dues |-> r.dues, batch |-> r.batch],
           r.index \in 0 .. Last, DOMAIN r.dues \subseteq Addr,
           req' = [req EXCEPT ![x] = r]
    PROVE  ReqOK' /\ \A y \in Tx : req'[y] = IF y = x THEN r ELSE req[y]
<1>1. Last' = Last
  BY DEF StoreKept, Last
<1>2. \A y \in Tx : req'[y] = IF y = x THEN r ELSE req[y]
  BY DEF ReqOK
<1>3. req' = [y \in Tx |-> [stage |-> req'[y].stage, index |-> req'[y].index,
                            dues |-> req'[y].dues, batch |-> req'[y].batch]]
  <2>1. \A y \in Tx : req'[y] = [stage |-> req'[y].stage, index |-> req'[y].index,
                                 dues |-> req'[y].dues, batch |-> req'[y].batch]
    BY <1>2 DEF ReqOK
  <2>2. req' = [y \in Tx |-> req'[y]]
    BY DEF ReqOK
  <2> QED  BY <2>1, <2>2
<1>4. \A y \in Tx : req'[y].index \in 0 .. Last /\ DOMAIN req'[y].dues \subseteq Addr
  BY <1>2 DEF ReqOK
<1> QED  BY <1>1, <1>2, <1>3, <1>4 DEF ReqOK
-----------------------------------------------------------------------------
(* The steps that write something of it. *)

LEMMA PrepareKeeps ==
    ASSUME DInv, NEW from \in Sellers, NEW to \in Addr, NEW v \in Shares,
           PrepareSale(from, to, v)
    PROVE  DInv'
<1> DEFINE left == Sub64(amount[1][from], v)
           debited == [amount[1] EXCEPT ![from] = left.val]
<1>1. /\ UNCHANGED <<contract, req, rights, moved, again>>
      /\ left.ok /\ Add64(debited[to], v).ok
      /\ sale'.from = from /\ sale'.to = to /\ sale'.value = v
      /\ sale'.index = IF Waits THEN Last ELSE 0
  BY DEF PrepareSale
<1>2. StoreKept /\ req' = req
  BY <1>1, ContractKept DEF StoreKept
<1>3. /\ Last' = Last /\ Waits' = Waits /\ Last \in Index
      /\ from \in Addr /\ 1 \in Token
  BY <1>2, Basics, FlowAssumption
     DEF DInv, StoreOK, StoreKept, Last, Waits, Unpaid
<1>4. amount[1] \in [Addr -> UInt] /\ amount[1][from] \in UInt /\ amount[1][to] \in UInt
  BY <1>3 DEF DInv, StoreOK
<1>5. amount[1][from] - v \in UInt /\ (from # to => amount[1][to] + v \in UInt)
  <2>1. amount[1][from] - v \in UInt
    BY <1>1, <1>4, Basics, SubIsExact
  <2>2. from # to => debited[to] = amount[1][to]
    BY <1>4
  <2> QED  BY <1>1, <1>4, <2>1, <2>2, Basics, AddIsExact
<1>6. StoreOK' /\ ReqOK'
  BY <1>2, <1>3 DEF DInv, StoreKept, StoreOK, ReqOK
<1>7. SaleOK'
  BY <1>1, <1>2, <1>3, <1>5, Basics DEF StoreKept, SaleOK, Index
<1>8. FreshDeltas' /\ Entitled' /\ DuesRight'
  BY <1>2, <1>3 DEF DInv, StoreKept, FreshDeltas, Entitled, DuesRight
<1>9. SaleBefore'
  BY <1>1, <1>2, <1>3 DEF StoreKept, SaleBefore
<1> QED  BY <1>2, <1>6, <1>7, <1>8, <1>9 DEF DInv, StoreKept

\* Before a sale that was prepared earlier than the dividend was registered,
\* everyone has a right to what they hold.
LEMMA HeldIsRight ==
    ASSUME DInv, sale # NoSale, Waits, sale.index # Last
    PROVE  rights = amount[1]
<1>1. /\ 1 \in Token /\ Last \in Index /\ amount[1] \in [Addr -> UInt]
      /\ rights \in [Addr -> UInt] /\ \A a \in Addr : amount[1][a] \in Nat
  BY Basics, Indexes DEF DInv, StoreOK
<1>2. moved = {} /\ again = {}
  BY DEF DInv, SaleBefore
<1>3. ASSUME NEW a \in Addr PROVE rights[a] = amount[1][a]
  <2>1. delta[1][a][Last] = 0
    BY <1>1, <1>2 DEF DInv, FreshDeltas
  <2>2. /\ amount[1][a] + 0 \in {rights[a] - WordSize, rights[a], rights[a] + WordSize}
        /\ rights[a] \in UInt
    BY <1>1, <1>2, <2>1 DEF DInv, Entitled
  <2>3. /\ amount[1][a] \in UInt /\ amount[1][a] \in Int
        /\ amount[1][a] \in {rights[a] - WordSize, rights[a], rights[a] + WordSize}
    BY <1>1, <2>2
  <2> QED  BY <2>2, <2>3, WordOff
<1> QED  BY <1>1, <1>3

\* A sale under the dividend that waits: what moves comes back as deltas.
LEMMA CommitSaleKeeps ==
    ASSUME DInv, CommitSale
    PROVE  DInv'
<1> DEFINE v == sale.value
           f == sale.from
           t == sale.to
           df == ToInt64(v)
           dt == ToInt64(Neg64(v))
           parties == {f, t}
<1>1. /\ f \in Addr /\ t \in Addr /\ v \in Shares /\ v \in Nat /\ v \in UInt
      /\ sale.index \in 0 .. Last
      /\ amount[1][f] - v \in UInt /\ (f # t => amount[1][t] + v \in UInt)
      /\ sale # NoSale
  BY Basics DEF CommitSale, DInv, SaleOK
<1>2. /\ 1 \in Token /\ Last \in Index /\ Last \in Nat
      /\ amount[1] \in [Addr -> UInt]
      /\ delta[1] \in [Addr -> [Index -> -HalfWord .. HalfWord - 1]]
  BY Basics, Indexes DEF DInv, StoreOK
<1>3. sale.index \in Index /\ sale.index \in Nat /\ sale.index <= Last
  BY <1>1, Indexes DEF DInv
<1>4. /\ amount' = [amount EXCEPT ![1] = amount'[1]] /\ amount'[1] \in [Addr -> UInt]
      /\ \A a \in Addr : amount'[1][a] = IF f = t THEN amount[1][a]
                                         ELSE IF a = f THEN amount[1][a] - v
                                         ELSE IF a = t THEN amount[1][a] + v
                                         ELSE amount[1][a]
  <2> DEFINE m1 == [amount[1] EXCEPT ![f] = amount[1][f] - v]
             m2 == [m1 EXCEPT ![t] = m1[t] + v]
  <2>1. amount' = [amount EXCEPT ![1] = m2]
    BY <1>1, <1>2 DEF CommitSale, Sold, DInv, StoreOK
  <2>2. \A a \in Addr : amount[1][a] \in Nat /\ amount[1][a] \in UInt
    BY <1>2, Basics
  <2>3. /\ m1 \in [Addr -> UInt]
        /\ \A a \in Addr : m1[a] = IF a = f THEN amount[1][f] - v ELSE amount[1][a]
    BY <1>1, <1>2
  <2> HIDE DEF m1
  <2>4. m1[t] + v = (IF f = t THEN amount[1][t] ELSE amount[1][t] + v) /\ m1[t] + v \in UInt
    <3>1. CASE f = t
      <4>1. \A n \in Nat : n - v + v = n
        BY <1>1
      <4> QED  BY <1>1, <2>2, <2>3, <3>1, <4>1
    <3>2. CASE f # t
      BY <1>1, <2>2, <2>3, <3>2
    <3> QED  BY <3>1, <3>2
  <2>5. /\ m2 \in [Addr -> UInt]
        /\ \A a \in Addr : m2[a] = IF a = t THEN m1[t] + v ELSE m1[a]
    BY <1>1, <2>3, <2>4
  <2> HIDE DEF m2
  <2>6. amount'[1] = m2
    BY <1>2, <2>1 DEF DInv, StoreOK
  <2>7. \A a \in Addr : m2[a] = IF f = t THEN amount[1][a]
                                ELSE IF a = f THEN amount[1][a] - v
                                ELSE IF a = t THEN amount[1][a] + v
                                ELSE amount[1][a]
    <3>1. CASE f = t
      BY <2>3, <2>4, <2>5, <3>1
    <3>2. CASE f # t
      BY <2>3, <2>4, <2>5, <3>2
    <3> QED  BY <3>1, <3>2
  <2> QED  BY <2>1, <2>5, <2>6, <2>7
<1>5. /\ df \in {v, v - WordSize} /\ dt \in {-v, WordSize - v}
      /\ df \in -HalfWord .. HalfWord - 1 /\ dt \in -HalfWord .. HalfWord - 1
  BY <1>1, ConvertedUpToWord
<1> HIDE DEF df, dt
<1>6. /\ delta' = [delta EXCEPT ![1] = delta'[1]]
      /\ delta'[1] \in [Addr -> [Index -> -HalfWord .. HalfWord - 1]]
      /\ \A a \in Addr, i \in Index :
            delta'[1][a][i] = IF sale.index = 0 \/ i # sale.index THEN delta[1][a][i]
                              ELSE IF a = t THEN dt ELSE IF a = f THEN df
                              ELSE delta[1][a][i]
  <2>1. CASE sale.index = 0
    BY <1>2, <2>1 DEF CommitSale, DInv, StoreOK
  <2>2. CASE sale.index # 0
    <3> DEFINE d1 == [delta[1] EXCEPT ![f] = [delta[1][f] EXCEPT ![sale.index] = df]]
               d2 == [d1 EXCEPT ![t] = [d1[t] EXCEPT ![sale.index] = dt]]
    <3>1. delta' = [delta EXCEPT ![1] = d2]
      BY <1>1, <1>2, <2>2 DEF CommitSale, DInv, StoreOK, df, dt
    <3>2. /\ d1 \in [Addr -> [Index -> -HalfWord .. HalfWord - 1]]
          /\ \A a \in Addr, i \in Index :
                d1[a][i] = IF a = f /\ i = sale.index THEN df ELSE delta[1][a][i]
      BY <1>1, <1>2, <1>3, <1>5
    <3> HIDE DEF d1
    <3>3. /\ d2 \in [Addr -> [Index -> -HalfWord .. HalfWord - 1]]
          /\ \A a \in Addr, i \in Index :
                d2[a][i] = IF a = t /\ i = sale.index THEN dt ELSE d1[a][i]
      BY <1>1, <1>3, <1>5, <3>2
    <3> HIDE DEF d2
    <3>4. delta'[1] = d2
      BY <1>2, <3>1 DEF DInv, StoreOK
    <3>5. \A a \in Addr, i \in Index :
            d2[a][i] = IF sale.index = 0 \/ i # sale.index THEN delta[1][a][i]
                       ELSE IF a = t THEN dt ELSE IF a = f THEN df
                       ELSE delta[1][a][i]
      BY <2>2, <3>2, <3>3
    <3>6. delta' = [delta EXCEPT ![1] = delta'[1]]
      BY <3>1, <3>4
    <3>7. delta'[1] \in [Addr -> [Index -> -HalfWord .. HalfWord - 1]]
      BY <3>3, <3>4
    <3>8. \A a \in Addr, i \in Index :
            delta'[1][a][i] = IF sale.index = 0 \/ i # sale.index THEN delta[1][a][i]
                              ELSE IF a = t THEN dt ELSE IF a = f THEN df
                              ELSE delta[1][a][i]
      BY <3>4, <3>5
    <3> QED  BY <3>6, <3>7, <3>8
  <2>3. sale.index = 0 \/ sale.index # 0
    OBVIOUS
  <2> HIDE DEF f, t
  <2> QED  BY <2>1, <2>2, <2>3, Zenon
<1>7. /\ UNCHANGED <<dividendIndex, perShare, paid, req>> /\ sale' = NoSale
      /\ Last' = Last /\ Waits' = Waits
  BY DEF CommitSale, Last, Waits, Unpaid
<1>8. ReqOK' /\ SaleOK' /\ SaleBefore'
  BY <1>7 DEF DInv, ReqOK, SaleOK, SaleBefore, NoSale
<1>9. /\ \A a \in Addr : amount[1][a] \in Nat /\ delta[1][a][Last] \in Int
      /\ \A i \in Index : i \in Nat
      /\ again \subseteq moved /\ rights \in [Addr -> UInt] /\ WordSize \in Nat
  BY <1>2, Indexes, Basics DEF DInv, StoreOK
<1>10. CASE sale.index = Last /\ Last # 0
  <2>1. rights' = rights /\ moved' = moved \cup parties /\ again' = MovedAgain(f, t)
    BY <1>10 DEF CommitSale
  <2>2. again \subseteq again' /\ again' \subseteq moved'
    BY <1>9, <2>1 DEF MovedAgain
  <2>3. StoreOK'
    BY <1>4, <1>6, <1>7, <2>1 DEF DInv, StoreOK
  <2>4. FreshDeltas'
    <3>1. ASSUME NEW a \in Addr, NEW i \in Index,
                 i > Last \/ i = 0 \/ (i = Last /\ a \notin moved')
          PROVE  delta'[1][a][i] = 0
      <4>1. delta[1][a][i] = 0
        <5>1. i > Last \/ i = 0 \/ (i = Last /\ a \notin moved)
          BY <2>1, <3>1
        <5> QED  BY <5>1 DEF DInv, FreshDeltas
      <4>2. i = sale.index => sale.index = 0 \/ (a # f /\ a # t)
        BY <1>2, <1>9, <1>10, <2>1, <3>1
      <4> QED  BY <1>6, <4>1, <4>2
    <3> QED  BY <1>7, <3>1 DEF FreshDeltas
  <2>5. Entitled'
    <3> SUFFICES ASSUME Waits, NEW a \in Addr, a \notin again'
                 PROVE  amount'[1][a] + delta'[1][a][Last]
                            \in {rights[a] - WordSize, rights[a], rights[a] + WordSize}
      BY <1>7, <2>1 DEF Entitled
    <3>1. /\ amount[1][a] + delta[1][a][Last]
                \in {rights[a] - WordSize, rights[a], rights[a] + WordSize}
          /\ rights[a] \in UInt /\ rights[a] \in Nat
      BY <1>9, <2>2, Basics DEF DInv, Entitled
    <3>2. CASE a \notin parties
      BY <1>2, <1>4, <1>6, <3>1, <3>2
    <3>3. CASE a \in parties
      <4>1. f # t /\ a \notin moved
        BY <2>1, <3>3 DEF MovedAgain
      <4>2. delta[1][a][Last] = 0
        BY <1>2, <4>1 DEF DInv, FreshDeltas
      <4>3. amount[1][a] = rights[a]
        <5>1. amount[1][a] \in UInt /\ amount[1][a] \in Int
          BY <1>2, <1>9
        <5> HIDE DEF v, f, t
        <5>2. amount[1][a] \in {rights[a] - WordSize, rights[a], rights[a] + WordSize}
          BY <1>9, <3>1, <4>2
        <5> QED  BY <3>1, <5>1, <5>2, WordOff
      <4>4. CASE a = f
        <5>1. amount'[1][a] = rights[a] - v /\ delta'[1][a][Last] = df
          BY <1>2, <1>4, <1>6, <1>10, <4>1, <4>3, <4>4
        <5> QED  BY <1>1, <1>5, <1>9, <3>1, <5>1
      <4>5. CASE a = t
        <5>1. amount'[1][a] = rights[a] + v /\ delta'[1][a][Last] = dt
          BY <1>2, <1>4, <1>6, <1>10, <4>1, <4>3, <4>5
        <5> QED  BY <1>1, <1>5, <1>9, <3>1, <5>1
      <4> QED  BY <3>3, <4>4, <4>5
    <3> QED  BY <3>2, <3>3
  <2>6. DuesRight'
    BY <1>7, <2>1, <2>2 DEF DInv, DuesRight
  <2> QED  BY <1>8, <2>2, <2>3, <2>4, <2>5, <2>6 DEF DInv
<1>11. CASE ~(sale.index = Last /\ Last # 0)
  <2>1. /\ moved' = moved /\ again' = again
        /\ rights' = IF Waits THEN Sold(rights) ELSE rights
    BY <1>11 DEF CommitSale
  <2>2. FreshDeltas'
    <3>1. ASSUME NEW a \in Addr, NEW i \in Index,
                 i > Last \/ i = 0 \/ (i = Last /\ a \notin moved')
          PROVE  delta'[1][a][i] = 0
      <4>1. delta[1][a][i] = 0
        BY <2>1, <3>1 DEF DInv, FreshDeltas
      <4>2. i = sale.index => sale.index = 0
        BY <1>2, <1>3, <1>9, <1>11, <3>1
      <4> QED  BY <1>6, <4>1, <4>2
    <3> QED  BY <1>7, <3>1 DEF FreshDeltas
  <2>3. CASE ~Waits
    <3>1. StoreOK'
      BY <1>4, <1>6, <1>7, <2>1, <2>3 DEF DInv, StoreOK
    <3>2. Entitled' /\ DuesRight'
      BY <1>7, <2>3 DEF Entitled, DuesRight
    <3> QED  BY <1>8, <1>9, <2>1, <2>2, <3>1, <3>2 DEF DInv
  <2>4. CASE Waits
    <3>1. Last # 0
      BY <2>4 DEF Waits, Unpaid, Last
    <3>2. moved = {} /\ \A x \in Tx : req[x].index = Last =>
                            f \notin DOMAIN req[x].dues /\ t \notin DOMAIN req[x].dues
      BY <1>1, <1>11, <2>4, <3>1 DEF DInv, SaleBefore
    <3>3. \A a \in Addr : delta[1][a][Last] = 0 /\ delta'[1][a][Last] = 0
      BY <1>2, <1>6, <1>11, <3>1, <3>2 DEF DInv, FreshDeltas
    <3>4. \A a \in Addr : rights[a] = amount[1][a]
      BY <1>1, <1>11, <2>4, <3>1, HeldIsRight
    <3>5. /\ rights' \in [Addr -> UInt]
          /\ \A a \in Addr : /\ rights'[a] = amount'[1][a]
                             /\ a # f /\ a # t => rights'[a] = rights[a]
      <4> DEFINE r1 == [rights EXCEPT ![f] = rights[f] - v]
      <4>1. rights' = [r1 EXCEPT ![t] = r1[t] + v]
        BY <1>1, <1>9, <2>1, <2>4 DEF Sold
      <4>2. \A a \in Addr : rights'[a] = amount'[1][a]
        <5>1. \A a \in Addr : r1[a] = IF a = f THEN amount[1][f] - v ELSE amount[1][a]
          BY <1>1, <1>9, <3>4
        <5>2. r1 = [a \in Addr |-> r1[a]]
          BY <1>9
        <5> HIDE DEF r1
        <5>3. \A a \in Addr : rights'[a] = IF a = t THEN r1[t] + v ELSE r1[a]
          BY <1>1, <4>1, <5>2
        <5>4. r1[t] + v = IF f = t THEN amount[1][t] ELSE amount[1][t] + v
          <6>1. \A n \in Nat : n - v + v = n
            BY <1>1
          <6> QED  BY <1>1, <1>9, <5>1, <6>1
        <5> QED  BY <1>1, <1>4, <5>1, <5>3, <5>4
      <4>3. rights' = [a \in Addr |-> rights'[a]]
        BY <1>9, <4>1
      <4>4. \A a \in Addr : amount'[1][a] \in UInt
        BY <1>4
      <4>5. \A a \in Addr : a # f /\ a # t => rights'[a] = rights[a]
        BY <1>9, <4>1
      <4> QED  BY <4>2, <4>3, <4>4, <4>5
    <3>6. StoreOK'
      BY <1>4, <1>6, <1>7, <3>5 DEF DInv, StoreOK
    <3>7. Entitled'
      <4>1. \A a \in Addr : amount'[1][a] \in UInt
        BY <1>4
      <4>2. \A a \in Addr : amount'[1][a] + 0 = amount'[1][a]
        BY <4>1, Basics
      <4> QED  BY <1>7, <3>3, <3>5, <4>2 DEF Entitled
    <3>8. DuesRight'
      BY <1>7, <2>1, <2>4, <3>2, <3>5 DEF DInv, DuesRight, ReqOK
    <3> QED  BY <1>8, <1>9, <2>1, <2>2, <3>6, <3>7, <3>8 DEF DInv
  <2> QED  BY <2>3, <2>4
<1> QED  BY <1>10, <1>11

LEMMA RegisterKeeps ==
    ASSUME DInv, NEW share \in PerShare, BroadcastRegister(share)
    PROVE  DInv'
<1>1. /\ ~Waits /\ Last + 1 \in Index
      /\ dividendIndex' = [dividendIndex EXCEPT ![1] = Last + 1]
      /\ perShare' = [perShare EXCEPT ![1][Last + 1] = share]
      /\ UNCHANGED <<amount, delta, paid, sale, req>>
      /\ rights' = amount[1] /\ moved' = {} /\ again' = {}
  BY DEF BroadcastRegister, RegisterDividend, tokenVars, Waits, Last
<1>2. 1 \in Token /\ Last \in Index /\ Last \in Nat /\ share \in UInt
  BY Basics, Indexes, EstateAssumption DEF DInv
<1>3. Last' = Last + 1
  BY <1>1, <1>2 DEF DInv, StoreOK, Last
<1>4. StoreOK'
  BY <1>1, <1>2 DEF DInv, StoreOK
<1>5. SaleOK' /\ ReqOK'
  BY <1>1, <1>2, <1>3 DEF DInv, SaleOK, ReqOK
<1>6. \A a \in Addr, i \in Index : i > Last \/ i = 0 => delta[1][a][i] = 0
  BY DEF DInv, FreshDeltas
<1>7. FreshDeltas'
  BY <1>1, <1>2, <1>3, <1>6 DEF FreshDeltas, Index
<1>8. Entitled'
  <2>1. \A a \in Addr : amount[1][a] \in Nat
    BY <1>2, Indexes DEF DInv
  <2>2. \A a \in Addr : rights'[a] = amount'[1][a] /\ delta'[1][a][Last'] = 0
    BY <1>1, <1>2, <1>3, <1>6
  <2>3. \A a \in Addr : amount'[1][a] + 0 = amount'[1][a]
    BY <1>1, <2>1
  <2> QED  BY <2>2, <2>3 DEF Entitled
<1>9. \A x \in Tx : req[x].index # Last'
  BY <1>2, <1>3 DEF DInv, ReqOK
<1>10. SaleBefore'
  BY <1>1, <1>2, <1>3, <1>9 DEF DInv, SaleBefore, SaleOK
<1>11. DuesRight'
  BY <1>1, <1>9 DEF DuesRight
<1> QED  BY <1>1, <1>4, <1>5, <1>7, <1>8, <1>10, <1>11 DEF DInv

LEMMA FinishKeeps ==
    ASSUME DInv, NEW x \in Tx, FinishSecurity(x)
    PROVE  DInv'
<1>1. /\ UNCHANGED <<amount, delta, perShare, dividendIndex, sale, req, rights, moved, again>>
      /\ \/ paid' = [paid EXCEPT ![1] = @ \cup {req[x].index}]
         \/ paid' = paid
  BY DEF FinishSecurity, tokenVars
<1>2. req[x].index \in Index /\ 1 \in Token
  BY Basics, Indexes DEF DInv, ReqOK
<1>3. Last' = Last /\ (Waits' => Waits)
  BY <1>1, <1>2 DEF DInv, StoreOK, Waits, Unpaid, Last
<1>4. StoreOK' /\ SaleOK' /\ ReqOK'
  <2>1. paid' \in [Token -> SUBSET Index]
    <3>1. paid \in [Token -> SUBSET Index] /\ paid[1] \cup {req[x].index} \in SUBSET Index
      BY <1>2 DEF DInv, StoreOK
    <3> QED  BY <1>1, <1>2, <3>1
  <2>2. StoreOK'
    BY <1>1, <2>1 DEF DInv, StoreOK
  <2>3. SaleOK'
    BY <1>1, <1>3 DEF DInv, SaleOK
  <2>4. ReqOK'
    BY <1>1, <1>3 DEF DInv, ReqOK
  <2> QED  BY <2>2, <2>3, <2>4
<1>5. FreshDeltas' /\ Entitled' /\ SaleBefore' /\ DuesRight'
  BY <1>1, <1>3 DEF DInv, FreshDeltas, Entitled, SaleBefore, DuesRight
<1> QED  BY <1>1, <1>4, <1>5 DEF DInv

\* The share that dividendOf computes is exact, and a word in any case.
LEMMA ShareIsExact ==
    ASSUME DInv, NEW u \in Addr
    PROVE  /\ ShareOf(1, u).val \in UInt
           /\ ShareOf(1, u).ok => ShareOf(1, u).val = amount[1][u] + delta[1][u][Last]
           /\ perShare[1][Last] \in UInt
<1> DEFINE d == delta[1][u][Last]
           a == amount[1][u]
           share == ShareOf(1, u)
<1>1. /\ 1 \in Token /\ Last \in Index /\ a \in UInt /\ a \in Nat
      /\ perShare[1][Last] \in UInt
      /\ d \in -HalfWord .. HalfWord - 1 /\ d \in Int
  BY Basics, Indexes DEF DInv, StoreOK
<1>2. share = IF d >= 0 THEN Add64(a, d) ELSE Sub64(a, -d)
  BY DEF ShareOf, Last
<1>3. CASE d >= 0
  <2>1. d \in UInt
    BY <1>1, <1>3, Basics DEF UInt
  <2> QED  BY <1>1, <1>2, <1>3, <2>1, AddIsExact
<1>4. CASE d < 0
  <2>1. -d \in UInt /\ a - (-d) = a + d
    BY <1>1, <1>4, Basics, HalfWordType DEF UInt
  <2> QED  BY <1>1, <1>2, <1>4, <2>1, SubIsExact
<1> QED  BY <1>1, <1>3, <1>4

\* What dividendOf answers: a number, exactly what the shares earn.
LEMMA DividendOfType ==
    ASSUME DInv, NEW u \in Addr, DividendOf(1, u).ok
    PROVE  /\ DividendOf(1, u).val = (amount[1][u] + delta[1][u][Last]) * perShare[1][Last]
           /\ DividendOf(1, u).val \in Nat
<1> DEFINE share == ShareOf(1, u)
           rate == perShare[1][Last]
<1>1. /\ DividendOf(1, u).val = Mul64(share.val, rate).val
      /\ share.ok /\ Mul64(share.val, rate).ok
  BY DEF DividendOf, Last
<1>2. /\ share.val \in UInt /\ rate \in UInt
      /\ share.val = amount[1][u] + delta[1][u][Last]
  BY <1>1, ShareIsExact
<1> HIDE DEF share, rate
<1>3. Mul64(share.val, rate).val = share.val * rate
  BY <1>1, <1>2, MulIsExact
<1>4. share.val \in Nat /\ rate \in Nat
  BY <1>2, Basics
<1> QED  BY <1>1, <1>2, <1>3, <1>4 DEF rate

\* dividendOf, of an address that has not moved shares twice: a delta that was
\* converted to its opposite makes it an error, never another number.
LEMMA DividendOfExact ==
    ASSUME DInv, NEW u \in Addr \ again, DividendOf(1, u).ok, Waits
    PROVE  DividendOf(1, u).val = rights[u] * perShare[1][Last]
<1>1. /\ amount[1][u] + delta[1][u][Last]
              \in {rights[u] - WordSize, rights[u], rights[u] + WordSize}
      /\ rights[u] \in UInt
  BY DEF DInv, Entitled, StoreOK
<1>2. ShareOf(1, u).ok
  BY DEF DividendOf
<1>3. /\ amount[1][u] + delta[1][u][Last] \in UInt
      /\ amount[1][u] + delta[1][u][Last] \in Int
  BY <1>2, ShareIsExact, Basics
<1>4. amount[1][u] + delta[1][u][Last] = rights[u]
  BY <1>1, <1>3, WordOff
<1> QED  BY <1>4, DividendOfType

LEMMA DividendOfKeeps ==
    ASSUME DInv, NEW x \in Tx, SimulateDividendOf(x)
    PROVE  DInv'
<1> DEFINE dues == req[x].dues
           n == Cardinality(DOMAIN dues) + 1
           u == Users[n]
           due == DividendOf(1, u)
           more == [v \in DOMAIN dues \cup {u} |-> IF v = u THEN due.val ELSE dues[v]]
           r == [req[x] EXCEPT !.dues = more]
<1>1. /\ n \in DOMAIN Users /\ due.ok /\ ~SharesLocked(u)
      /\ req' = [req EXCEPT ![x] = r]
      /\ UNCHANGED <<contract, sale, rights, moved, again>>
  BY DEF SimulateDividendOf, Build
<1>2. StoreKept /\ Last' = Last /\ Waits' = Waits
  BY <1>1, ContractKept DEF StoreKept, Last, Waits, Unpaid
<1>3. u \in Addr
  BY <1>1, FlowAssumption
<1>4. /\ r = [stage |-> req[x].stage, index |-> req[x].index, dues |-> more,
              batch |-> req[x].batch]
      /\ req[x].index \in 0 .. Last /\ DOMAIN dues \subseteq Addr
  BY DEF DInv, ReqOK
<1> HIDE DEF n, u, due, r
<1>5. DOMAIN more = DOMAIN dues \cup {u}
  OBVIOUS
<1> HIDE DEF more
<1>6. /\ r.stage = req[x].stage /\ r.index = req[x].index /\ r.dues = more
      /\ r.batch = req[x].batch
      /\ r = [stage |-> r.stage, index |-> r.index, dues |-> r.dues, batch |-> r.batch]
  BY <1>4
<1>7. ReqOK' /\ \A y \in Tx : req'[y] = IF y = x THEN r ELSE req[y]
  <2>1. r.index \in 0 .. Last /\ DOMAIN r.dues \subseteq Addr
    BY <1>3, <1>4, <1>5, <1>6
  <2>2. ReqOK
    BY DEF DInv
  <2> QED  BY <1>1, <1>2, <1>6, <2>1, <2>2, RequestPut
<1>8. StoreOK' /\ SaleOK' /\ FreshDeltas' /\ Entitled'
  BY <1>1, <1>2 DEF DInv, StoreKept, StoreOK, SaleOK, FreshDeltas, Entitled
<1>9. SaleBefore'
  <2>1. sale # NoSale => u # sale.from /\ u # sale.to
    BY <1>1 DEF SharesLocked
  <2> QED  BY <1>1, <1>2, <1>5, <1>6, <1>7, <2>1 DEF DInv, StoreKept, SaleBefore
<1>10. DuesRight'
  <2> SUFFICES ASSUME Waits, NEW y \in Tx, req'[y].index = Last,
                      NEW w \in DOMAIN req'[y].dues \ again
               PROVE  req'[y].dues[w] = rights[w] * perShare[1][Last]
    BY <1>1, <1>2 DEF DuesRight, StoreKept
  <2>1. CASE y # x
    BY <1>7, <2>1 DEF DInv, DuesRight
  <2>2. CASE y = x /\ w = u
    <3>1. req'[y].dues[w] = due.val
      BY <1>6, <1>7, <2>2 DEF more
    <3> QED  BY <1>1, <1>3, <2>2, <3>1, DividendOfExact DEF due
  <2>3. CASE y = x /\ w # u
    <3>1. w \in DOMAIN dues /\ req'[y].dues[w] = dues[w] /\ req[x].index = Last
      BY <1>5, <1>6, <1>7, <2>3 DEF more
    <3> QED  BY <3>1 DEF DInv, DuesRight
  <2> QED  BY <2>1, <2>2, <2>3
<1> QED  BY <1>2, <1>7, <1>8, <1>9, <1>10 DEF DInv, StoreKept
-----------------------------------------------------------------------------
(* All steps. *)

LEMMA InitHolds == FInit => DInv
<1> SUFFICES ASSUME FInit PROVE DInv
  OBVIOUS
<1>1. Last = 0 /\ ~Waits
  BY Basics DEF FInit, Last, Waits, Unpaid
<1>2. 0 \in -HalfWord .. HalfWord - 1
  BY Basics, HalfWordType
<1>3. StoreOK
  <2>1. amount \in [Token -> [Addr -> UInt]]
    BY Basics, FlowAssumption DEF FInit
  <2> QED  BY <1>2, <2>1, Basics DEF FInit, StoreOK
<1>4. SaleOK /\ SaleBefore
  BY DEF FInit, SaleOK, SaleBefore
<1>5. ReqOK
  <2>1. /\ NoRequest = [stage |-> NoRequest.stage, index |-> NoRequest.index,
                        dues |-> NoRequest.dues, batch |-> NoRequest.batch]
        /\ NoRequest.index = 0 /\ DOMAIN NoRequest.dues = {}
    BY DEF NoRequest
  <2>2. req = [x \in Tx |-> NoRequest]
    BY DEF FInit
  <2>3. \A x \in Tx : req[x] = NoRequest
    BY <2>2
  <2>4. 0 \in 0 .. Last
    BY <1>1
  <2> QED  BY <2>1, <2>2, <2>3, <2>4 DEF ReqOK
<1>6. FreshDeltas
  BY Basics DEF FInit, FreshDeltas
<1>7. Entitled /\ DuesRight
  BY <1>1 DEF Entitled, DuesRight
<1>8. again \subseteq moved
  BY DEF FInit
<1> QED  BY <1>3, <1>4, <1>5, <1>6, <1>7, <1>8 DEF DInv

\* A request moves on without being told anything about shares.
LEMMA StageKeeps ==
    ASSUME DInv, StoreKept, sale' = sale, NEW x \in Tx, NEW r,
           r = [stage |-> r.stage, index |-> req[x].index, dues |-> req[x].dues,
                batch |-> r.batch],
           req' = [req EXCEPT ![x] = r]
    PROVE  DInv'
<1>1. r.index = req[x].index /\ r.dues = req[x].dues
  OBVIOUS
<1>2. r.index \in 0 .. Last /\ DOMAIN r.dues \subseteq Addr
  BY <1>1 DEF DInv, ReqOK
<1>3. r = [stage |-> r.stage, index |-> r.index, dues |-> r.dues, batch |-> r.batch]
  BY <1>1
<1>4. ReqOK
  BY DEF DInv
<1>5. ReqOK' /\ \A y \in Tx : req'[y] = IF y = x THEN r ELSE req[y]
  BY <1>2, <1>3, <1>4, RequestPut
<1>6. \A y \in Tx : req'[y].index = req[y].index /\ req'[y].dues = req[y].dues
  BY <1>1, <1>5
<1> QED  BY <1>5, <1>6, RequestKeeps

LEMMA BuildKeeps ==
    ASSUME DInv, NEW x \in Tx,
           SimulatePay(x) \/ SimulateBatch(x) \/ BroadcastDistribute(x)
    PROVE  DInv'
<1> DEFINE r1 == [req[x] EXCEPT !.stage = "payable"]
           r2 == [req[x] EXCEPT !.stage = "built", !.batch = Batch(req[x].dues)]
           r3 == [req[x] EXCEPT !.stage = "sent"]
<1>1. req' = [req EXCEPT ![x] = r1] \/ req' = [req EXCEPT ![x] = r2]
        \/ req' = [req EXCEPT ![x] = r3]
  BY DEF SimulatePay, SimulateBatch, BroadcastDistribute, Build
<1>2. UNCHANGED <<contract, sale, rights, moved, again>>
  BY DEF SimulatePay, SimulateBatch, BroadcastDistribute, Build, Go
<1>3. StoreKept
  BY <1>2, ContractKept DEF StoreKept
<1>4. req[x] = [stage |-> req[x].stage, index |-> req[x].index, dues |-> req[x].dues,
                batch |-> req[x].batch]
  BY DEF DInv, ReqOK
<1>5. ASSUME NEW r \in {r1, r2, r3}
      PROVE  r = [stage |-> r.stage, index |-> req[x].index, dues |-> req[x].dues,
                  batch |-> r.batch]
  BY <1>4
<1>6. PICK r \in {r1, r2, r3} : req' = [req EXCEPT ![x] = r]
  BY <1>1
<1> HIDE DEF r1, r2, r3
<1> QED  BY <1>2, <1>3, <1>5, <1>6, StageKeeps

LEMMA ClickKeeps ==
    ASSUME DInv, NEW p \in Page, NEW x \in Tx, DistributeClick(p, x)
    PROVE  DInv'
<1> DEFINE r == [req[x] EXCEPT !.stage = "asked", !.index = Last]
<1>1. /\ req[x] = NoRequest /\ UNCHANGED <<contract, sale, rights, moved, again>>
      /\ req' = [req EXCEPT ![x].stage = "asked", ![x].index = Last]
  BY DEF DistributeClick, Go
<1>2. StoreKept
  BY <1>1, ContractKept DEF StoreKept
<1>3. req' = [req EXCEPT ![x] = r]
  BY <1>1 DEF DInv, ReqOK
<1>4. /\ r = [stage |-> "asked", index |-> Last, dues |-> << >>, batch |-> << >>]
      /\ DOMAIN r.dues = {}
  <2>1. r = [stage |-> "asked", index |-> Last, dues |-> << >>, batch |-> << >>]
    <3>1. r = [NoRequest EXCEPT !.stage = "asked", !.index = Last]
      BY <1>1
    <3> HIDE DEF r
    <3> QED  BY <3>1 DEF NoRequest
  <2>2. r.dues = << >>
    BY <2>1
  <2> HIDE DEF r
  <2> QED  BY <2>1, <2>2
<1>5. r = [stage |-> r.stage, index |-> r.index, dues |-> r.dues, batch |-> r.batch]
  BY <1>4
<1>6. r.index \in 0 .. Last /\ DOMAIN r.dues \subseteq Addr
  <2>1. Last \in 0 .. Last
    BY Indexes DEF DInv
  <2> QED  BY <1>4, <2>1
<1> HIDE DEF r
<1>7. ReqOK' /\ \A y \in Tx : req'[y] = IF y = x THEN r ELSE req[y]
  BY <1>2, <1>3, <1>5, <1>6, RequestPut DEF DInv
<1>8. \A y \in Tx : \/ req'[y].index = req[y].index /\ req'[y].dues = req[y].dues
                    \/ DOMAIN req'[y].dues = {}
  BY <1>4, <1>7
<1> QED  BY <1>1, <1>2, <1>7, <1>8, RequestKeeps

LEMMA OthersKeep ==
    ASSUME DInv, UNCHANGED <<contract, sale, req, rights, moved, again>>
    PROVE  DInv'
  BY ContractKept, QuietKeeps DEF StoreKept

LEMMA NextHolds == DInv /\ [FNext]_fvars => DInv'
<1> SUFFICES ASSUME DInv, [FNext]_fvars PROVE DInv'
  OBVIOUS
<1>1. ASSUME NEW from \in Sellers, NEW to \in Addr, NEW n \in Shares,
             PrepareSale(from, to, n)
      PROVE  DInv'
  BY <1>1, PrepareKeeps
<1>2. CASE CommitSale
  BY <1>2, CommitSaleKeeps
<1>3. CASE AbortSale
  <2>1. StoreKept /\ req' = req /\ sale' = NoSale
    BY <1>3, ContractKept DEF AbortSale, StoreKept
  <2>2. Last' = Last /\ Waits' = Waits
    BY <2>1 DEF StoreKept, Last, Waits, Unpaid
  <2>3. SaleOK' /\ SaleBefore'
    BY <2>1 DEF SaleOK, SaleBefore, NoSale
  <2> QED  BY <2>1, <2>2, <2>3 DEF DInv, StoreKept, StoreOK, ReqOK, FreshDeltas,
                                    Entitled, DuesRight
<1>4. ASSUME NEW from \in Addr, NEW to \in Addr, MoveCoin(from, to) PROVE DInv'
  BY <1>4, OthersKeep DEF MoveCoin
<1>5. ASSUME NEW x \in Tx, SimulatePay(x) \/ SimulateBatch(x) \/ BroadcastDistribute(x)
      PROVE  DInv'
  BY <1>5, BuildKeeps
<1>6. ASSUME NEW x \in Tx, SimulateDividendOf(x) PROVE DInv'
  BY <1>6, DividendOfKeeps
<1>7. ASSUME NEW x \in Tx, Relay(x) PROVE DInv'
  <2>1. CASE PrepareSecurity(x) \/ PrepareCoin(x) \/ Decide(x) \/ FinishCoin(x)
    BY <2>1, OthersKeep DEF PrepareSecurity, PrepareCoin, Decide, FinishCoin
  <2>2. CASE FinishSecurity(x)
    BY <2>2, FinishKeeps
  <2> QED  BY <1>7, <2>1, <2>2 DEF Relay
<1>8. ASSUME NEW share \in PerShare, BroadcastRegister(share) PROVE DInv'
  BY <1>8, RegisterKeeps
<1>9. ASSUME NEW p \in Page,
             Open(p) \/ Load(p) \/ Poll(p) \/ Throw(p) \/ RegisterDividendClick(p)
      PROVE  DInv'
  BY <1>9, OthersKeep
     DEF Open, Load, LoadRegistered, LoadPaid, Poll, PollIndex, PollCommitted,
         PollAborted, Throw, RegisterDividendClick, Go
<1>10. ASSUME NEW p \in Page, NEW x \in Tx, DistributeClick(p, x) PROVE DInv'
  BY <1>10, ClickKeeps
<1>11. CASE UNCHANGED fvars
  BY <1>11, OthersKeep DEF fvars
<1> QED
  BY <1>1, <1>2, <1>3, <1>4, <1>5, <1>6, <1>7, <1>8, <1>9, <1>10, <1>11 DEF FNext

\* However its simulated calls interleave with sales and registrations, a
\* transaction that can still be committed pays what everyone is due who has not
\* moved shares twice since the registration (api_tx_service.go:47-108); what it
\* pays the others is left open, as their delta is that of the last sale only.
THEOREM DuesAreTheRights == FSpec => []DuesAreRights
<1>1. DInv => DuesAreRights
  BY DEF DInv, DuesRight, DuesAreRights
<1> QED  BY <1>1, InitHolds, NextHolds, PTL DEF FSpec
-----------------------------------------------------------------------------
(* Every share is paid for once. *)

\* There are as many shares held, and rights to the last dividend, as there are
\* shares.
SupplyInv ==
    /\ SumFunction(amount[1]) = totalSupply[1]
    /\ Last # 0 => SumFunction(rights) = totalSupply[1]

LEMMA MovedSum ==
    ASSUME NEW held \in [Addr -> Nat], NEW f \in Addr, NEW t \in Addr, NEW v \in Nat,
           held[f] - v \in Nat
    PROVE  SumFunction([[held EXCEPT ![f] = @ - v] EXCEPT ![t] = @ + v]) = SumFunction(held)
<1>1. PICK n \in Nat : n = held[f] - v
  OBVIOUS
<1>2. PICK left : left = [held EXCEPT ![f] = n]
  OBVIOUS
<1>3. PICK m : m = left[t] + v
  OBVIOUS
<1>4. left \in [Addr -> Nat] /\ m \in Nat /\ left[t] \in Nat
  BY <1>1, <1>2, <1>3
<1>5. SumFunction(left) = SumFunction(held) - held[f] + n
  <2>1. IsFiniteSet(Addr)
    BY EstateAssumption
  <2>2. SumFunction([held EXCEPT ![f] = n]) = SumFunction(held) - held[f] + n
    BY <2>1, SumExcept
  <2> QED  BY <1>2, <2>2
<1>6. SumFunction([left EXCEPT ![t] = m]) = SumFunction(left) - left[t] + m
  <2>1. IsFiniteSet(Addr)
    BY EstateAssumption
  <2> QED  BY <1>4, <2>1, SumExcept
<1>7. [[held EXCEPT ![f] = @ - v] EXCEPT ![t] = @ + v] = [left EXCEPT ![t] = m]
  BY <1>1, <1>2, <1>3
<1>8. SumFunction(held) \in Nat /\ SumFunction(left) \in Nat
  BY <1>4, EstateAssumption, SumBounds
<1>9. held[f] \in Nat
  OBVIOUS
<1> QED  BY <1>1, <1>3, <1>4, <1>5, <1>6, <1>7, <1>8, <1>9

LEMMA SoldSum ==
    ASSUME DInv, sale # NoSale
    PROVE  SumFunction(Sold(amount[1])) = SumFunction(amount[1])
<1>1. /\ sale.from \in Addr /\ sale.to \in Addr /\ sale.value \in Nat
      /\ amount[1][sale.from] - sale.value \in Nat
      /\ amount[1] \in [Addr -> Nat]
  BY Basics, Indexes DEF DInv, SaleOK, StoreOK
<1> QED  BY <1>1, MovedSum DEF Sold

LEMMA SupplyStep == DInv /\ DInv' /\ SupplyInv /\ [FNext]_fvars => SupplyInv'
<1> SUFFICES ASSUME DInv, DInv', SupplyInv, [FNext]_fvars PROVE SupplyInv'
  OBVIOUS
<1>1. ASSUME UNCHANGED <<amount, totalSupply, dividendIndex, rights>> PROVE SupplyInv'
  BY <1>1 DEF SupplyInv, Last
<1>2. CASE CommitSale
  <2>1. /\ sale # NoSale /\ amount' = [amount EXCEPT ![1] = Sold(amount[1])]
        /\ totalSupply' = totalSupply /\ Last' = Last
        /\ \/ rights' = rights
           \/ Waits /\ sale.index # Last /\ rights' = Sold(rights)
    BY <1>2 DEF CommitSale, Last, Waits, Unpaid
  <2>2. amount'[1] = Sold(amount[1])
    BY <2>1, Basics DEF DInv, StoreOK
  <2>3. SumFunction(amount'[1]) = SumFunction(amount[1])
    BY <2>1, <2>2, SoldSum
  <2>4. SumFunction(rights') = SumFunction(rights)
    BY <2>1, HeldIsRight, SoldSum
  <2> QED  BY <2>1, <2>3, <2>4 DEF SupplyInv
<1>3. ASSUME NEW share \in PerShare, BroadcastRegister(share) PROVE SupplyInv'
  <2>1. UNCHANGED <<amount, totalSupply>> /\ rights' = amount[1]
    BY <1>3 DEF BroadcastRegister, RegisterDividend, tokenVars
  <2> QED  BY <2>1 DEF SupplyInv
<1>4. ASSUME UNCHANGED <<contract, rights>> PROVE SupplyInv'
  BY <1>1, <1>4 DEF contract, tokenVars, dividendVars
<1>5. ASSUME NEW x \in Tx, FinishSecurity(x) PROVE SupplyInv'
  BY <1>1, <1>5 DEF FinishSecurity, tokenVars
<1>6. ASSUME NEW x \in Tx,
             SimulatePay(x) \/ SimulateDividendOf(x) \/ SimulateBatch(x)
               \/ BroadcastDistribute(x) \/ PrepareSecurity(x) \/ PrepareCoin(x)
               \/ Decide(x) \/ FinishCoin(x)
      PROVE  SupplyInv'
  BY <1>4, <1>6 DEF SimulatePay, SimulateDividendOf, SimulateBatch, BroadcastDistribute,
                    Build, Go, PrepareSecurity, PrepareCoin, Decide, FinishCoin
<1>7. ASSUME NEW p \in Page,
             Open(p) \/ Load(p) \/ Poll(p) \/ Throw(p) \/ RegisterDividendClick(p)
               \/ \E x \in Tx : DistributeClick(p, x)
      PROVE  SupplyInv'
  BY <1>4, <1>7 DEF Open, Load, LoadRegistered, LoadPaid, Poll, PollIndex, PollCommitted,
                    PollAborted, Throw, RegisterDividendClick, DistributeClick, Go
<1>8. ASSUME NEW from \in Sellers, NEW to \in Addr, NEW n \in Shares, PrepareSale(from, to, n)
      PROVE  SupplyInv'
  BY <1>4, <1>8 DEF PrepareSale
<1>9. ASSUME NEW from \in Addr, NEW to \in Addr, MoveCoin(from, to) PROVE SupplyInv'
  BY <1>4, <1>9 DEF MoveCoin
<1>10. CASE AbortSale
  BY <1>4, <1>10 DEF AbortSale
<1>11. CASE UNCHANGED fvars
  BY <1>4, <1>11 DEF fvars
<1> QED
  BY <1>2, <1>3, <1>5, <1>6, <1>7, <1>8, <1>9, <1>10, <1>11 DEF FNext, Relay

\* When a sale is prepared before the dividend is registered and committed
\* after it, or prepared and committed between the calls that read what is due,
\* the shares that it moves are paid for to one of its parties, not to both and
\* not to neither (estate.go:254-260, api_tx_service.go:61-83).
THEOREM SharesPaidOnce == FSpec => []EachShareOnce
<1>1. ASSUME DInv, SupplyInv PROVE EachShareOnce
  <2> SUFFICES ASSUME NEW x \in Tx, req[x].index = Last, Waits, DOMAIN req[x].dues = Addr,
                      again = {}
               PROVE  SumFunction(req[x].dues) = totalSupply[1] * perShare[1][Last]
    BY DEF EachShareOnce
  <2>1. \A u \in Addr : req[x].dues[u] = rights[u] * perShare[1][Last]
    BY <1>1 DEF DInv, DuesRight
  <2>2. rights \in [Addr -> Nat] /\ perShare[1][Last] \in Nat
    BY <1>1, Basics, Indexes DEF DInv, StoreOK
  <2>3. SumFunction(req[x].dues) = SumFunction(rights) * perShare[1][Last]
    BY <2>1, <2>2, EstateAssumption, SumScaled
  <2>4. Last # 0
    BY DEF Waits, Unpaid, Last
  <2> QED  BY <1>1, <2>3, <2>4 DEF SupplyInv
<1>2. FInit => SupplyInv
  <2> SUFFICES ASSUME FInit PROVE SupplyInv
    OBVIOUS
  <2>1. Last = 0 /\ amount[1] = Held /\ totalSupply[1] = SumFunction(Held)
    BY Basics DEF FInit, Last
  <2> QED  BY <2>1 DEF SupplyInv
<1>3. DInv /\ DInv' /\ SupplyInv /\ [FNext]_fvars => SupplyInv'
  BY SupplyStep
<1> QED  BY <1>1, <1>2, <1>3, InitHolds, NextHolds, PTL DEF FSpec
-----------------------------------------------------------------------------
(* The pages. *)

PageStage == {"loading", "listing", "idle", "signing", "counting", "building",
              "waiting", "stuck"}

PageType == [pc : PageStage, tx : Tx \cup {NoTx}, before : Index, listed : Index,
             done : SUBSET Index, ongoing : SUBSET Index]

\* A page marks as ongoing what it lists as unpaid, and only while it waits for
\* the transaction that pays it.
PageInv ==
    /\ page \in [Page -> PageType]
    /\ \A p \in Page : /\ page[p].ongoing \subseteq Registering(p)
                       /\ page[p].pc # "waiting" => page[p].ongoing = {}

LEMMA PageTypes ==
    /\ Opened \in PageType /\ Opened.ongoing = {}
    /\ Stuck \in PageType /\ Stuck.ongoing = {}
  BY Basics DEF Opened, Stuck, PageType, PageStage

\* One page is replaced.
LEMMA PagePut ==
    ASSUME PageInv, NEW p \in Page, NEW r \in PageType, page' = [page EXCEPT ![p] = r],
           r.ongoing \subseteq 1 .. r.listed \ r.done,
           r.pc # "waiting" => r.ongoing = {}
    PROVE  PageInv'
<1>1. /\ page' \in [Page -> PageType]
      /\ \A q \in Page : page'[q] = IF q = p THEN r ELSE page[q]
  BY DEF PageInv
<1>2. \A q \in Page : Registering(q)' = 1 .. page'[q].listed \ page'[q].done
  BY DEF Registering
<1>3. \A q \in Page : Registering(q) = 1 .. page[q].listed \ page[q].done
  BY DEF Registering
<1> QED  BY <1>1, <1>2, <1>3 DEF PageInv

\* A page goes on with no marks.
LEMMA PageUnmarked ==
    ASSUME PageInv, NEW p \in Page, NEW r \in PageType, page' = [page EXCEPT ![p] = r],
           r.ongoing = {}
    PROVE  PageInv'
  BY PagePut

LEMMA PageKept == ASSUME PageInv, page' = page PROVE PageInv'
  BY DEF PageInv, Registering

LEMMA LastIndex ==
    ASSUME DInv
    PROVE  Last \in Index /\ \A S \in SUBSET Index : paid[1] \cap S \in SUBSET Index
  BY Basics, Indexes DEF DInv, StoreOK

LEMMA PageParts ==
    ASSUME PageInv, NEW p \in Page
    PROVE  /\ page[p] \in PageType /\ page[p].listed \in Index
           /\ page[p].pc # "waiting" => page[p].ongoing = {}
           /\ page[p].ongoing \ Registering(p) = {}
<1>1. page[p] \in PageType
  BY DEF PageInv
<1>2. page[p].listed \in Index
  BY <1>1 DEF PageType
<1> QED  BY <1>1, <1>2 DEF PageInv

\* A page gets on to another stage, and one field of it is set with it.
LEMMA PageListed ==
    ASSUME NEW r \in PageType, NEW pc \in PageStage, NEW i \in Index
    PROVE  /\ [r EXCEPT !.pc = pc, !.listed = i] \in PageType
           /\ [r EXCEPT !.pc = pc, !.listed = i].ongoing = r.ongoing
  BY DEF PageType

LEMMA PageBefore ==
    ASSUME NEW r \in PageType, NEW pc \in PageStage, NEW i \in Index
    PROVE  /\ [r EXCEPT !.pc = pc, !.before = i] \in PageType
           /\ [r EXCEPT !.pc = pc, !.before = i].ongoing = r.ongoing
  BY DEF PageType

LEMMA PageDone ==
    ASSUME NEW r \in PageType, NEW pc \in PageStage, NEW S \in SUBSET Index
    PROVE  /\ [r EXCEPT !.pc = pc, !.done = S] \in PageType
           /\ [r EXCEPT !.pc = pc, !.done = S].ongoing = r.ongoing
  BY DEF PageType

LEMMA PageStaged ==
    ASSUME NEW r \in PageType, NEW pc \in PageStage
    PROVE  [r EXCEPT !.pc = pc] \in PageType /\ [r EXCEPT !.pc = pc].ongoing = r.ongoing
  BY DEF PageType

LEMMA PageSent ==
    ASSUME NEW r \in PageType, NEW pc \in PageStage, NEW x \in Tx
    PROVE  /\ [r EXCEPT !.pc = pc, !.tx = x] \in PageType
           /\ [r EXCEPT !.pc = pc, !.tx = x].ongoing = r.ongoing
  BY DEF PageType

LEMMA PageStep ==
    ASSUME DInv, PageInv, [FNext]_fvars
    PROVE  PageInv'
<1>1. ASSUME NEW p \in Page, Open(p) PROVE PageInv'
  BY <1>1, PageTypes, PageUnmarked DEF Open, Go
<1>2. ASSUME NEW p \in Page, LoadRegistered(p) PROVE PageInv'
  <2> DEFINE r == [page[p] EXCEPT !.pc = "listing", !.listed = Last]
  <2>1. page' = [page EXCEPT ![p] = r]
    BY <1>2 DEF LoadRegistered, Go
  <2>2. page[p].pc = "loading"
    BY <1>2 DEF LoadRegistered
  <2>3. r \in PageType /\ r.ongoing = {}
    <3>1. page[p] \in PageType /\ page[p].ongoing = {} /\ Last \in Index
      BY <2>2, LastIndex, PageParts
    <3>2. "listing" \in PageStage
      BY DEF PageStage
    <3> QED  BY <3>1, <3>2, PageListed
  <2> HIDE DEF r
  <2> QED  BY <2>1, <2>3, PageUnmarked
<1>3. ASSUME NEW p \in Page, LoadPaid(p) PROVE PageInv'
  <2> DEFINE done == paid[1] \cap 1 .. page[p].listed
             r == [page[p] EXCEPT !.pc = "idle", !.done = done]
  <2>1. page' = [page EXCEPT ![p] = r]
    BY <1>3 DEF LoadPaid, Go
  <2>2. page[p].pc = "listing" /\ done \in SUBSET Index
    BY <1>3, Basics DEF LoadPaid, DInv, StoreOK
  <2> HIDE DEF done
  <2>3. r \in PageType /\ r.ongoing = {}
    <3>1. page[p] \in PageType /\ page[p].ongoing = {} /\ done \in SUBSET Index
      BY <2>2, PageParts
    <3>2. "idle" \in PageStage
      BY DEF PageStage
    <3> QED  BY <3>1, <3>2, PageDone
  <2> HIDE DEF r
  <2> QED  BY <2>1, <2>3, PageUnmarked
<1>4. ASSUME NEW p \in Page, PollIndex(p) \/ PollCommitted(p) PROVE PageInv'
  BY <1>4, PageTypes, PageUnmarked DEF PollIndex, PollCommitted, Go
<1>5. ASSUME NEW p \in Page, PollAborted(p) PROVE PageInv'
  <2> DEFINE left == page[p].ongoing \ Registering(p)
             r == [page[p] EXCEPT !.pc = "idle", !.tx = NoTx, !.ongoing = left]
  <2>1. page' = [page EXCEPT ![p] = r]
    BY <1>5 DEF PollAborted, Go
  <2>2. left = {} /\ page[p] \in PageType
    BY PageParts
  <2> HIDE DEF left
  <2>3. r \in PageType /\ r.ongoing = {}
    BY <2>2 DEF PageType, PageStage
  <2> HIDE DEF r
  <2> QED  BY <2>1, <2>3, PageUnmarked
<1>6. ASSUME NEW p \in Page, Throw(p) PROVE PageInv'
  BY <1>6, PageTypes, PageUnmarked DEF Throw, Go
<1>7. ASSUME NEW p \in Page, RegisterDividendClick(p) PROVE PageInv'
  <2> DEFINE r == [Opened EXCEPT !.pc = "signing", !.before = Last]
  <2>1. page' = [page EXCEPT ![p] = r]
    BY <1>7 DEF RegisterDividendClick, Go
  <2>2. r \in PageType /\ r.ongoing = {}
    <3>1. Opened \in PageType /\ Opened.ongoing = {} /\ Last \in Index
      BY LastIndex, PageTypes
    <3>2. "signing" \in PageStage
      BY DEF PageStage
    <3> QED  BY <3>1, <3>2, PageBefore
  <2> HIDE DEF r
  <2> QED  BY <2>1, <2>2, PageUnmarked
<1>8. ASSUME NEW p \in Page, NEW x \in Tx, DistributeClick(p, x) PROVE PageInv'
  <2> DEFINE r == [page[p] EXCEPT !.pc = "building", !.tx = x]
  <2>1. page' = [page EXCEPT ![p] = r]
    BY <1>8 DEF DistributeClick, Go
  <2>2. page[p].pc = "idle"
    BY <1>8 DEF DistributeClick
  <2>3. r \in PageType /\ r.ongoing = {}
    <3>1. page[p] \in PageType /\ page[p].ongoing = {}
      BY <2>2, PageParts
    <3>2. "building" \in PageStage
      BY DEF PageStage
    <3> QED  BY <3>1, <3>2, PageSent
  <2> HIDE DEF r
  <2> QED  BY <2>1, <2>3, PageUnmarked
<1>9. ASSUME NEW share \in PerShare, BroadcastRegister(share) PROVE PageInv'
  <2>1. CASE page' = page
    BY <2>1, PageKept
  <2>2. CASE \E p \in Page : /\ page[p].pc = "signing"
                             /\ \/ page' = [page EXCEPT ![p].pc = "counting"]
                                \/ page' = [page EXCEPT ![p] = Stuck]
    <3>1. PICK p \in Page : /\ page[p].pc = "signing"
                            /\ \/ page' = [page EXCEPT ![p].pc = "counting"]
                               \/ page' = [page EXCEPT ![p] = Stuck]
      BY <2>2
    <3> DEFINE r == [page[p] EXCEPT !.pc = "counting"]
    <3>2. r \in PageType /\ r.ongoing = {}
      <4>1. page[p] \in PageType /\ page[p].ongoing = {}
        BY <3>1, PageParts
      <4>2. "counting" \in PageStage
        BY DEF PageStage
      <4> QED  BY <4>1, <4>2, PageStaged
    <3>3. page' = [page EXCEPT ![p] = r] \/ page' = [page EXCEPT ![p] = Stuck]
      BY <3>1
    <3> HIDE DEF r
    <3> QED  BY <3>2, <3>3, PageTypes, PageUnmarked
  <2> QED  BY <1>9, <2>1, <2>2 DEF BroadcastRegister
<1>10. ASSUME NEW x \in Tx, BroadcastDistribute(x) PROVE PageInv'
  <2>1. CASE page' = page
    BY <2>1, PageKept
  <2>2. CASE \E p \in Page : page' = [page EXCEPT ![p] = Stuck]
    BY <2>2, PageTypes, PageUnmarked
  <2>3. ASSUME NEW p \in Page,
               page' = [page EXCEPT ![p] = [page[p] EXCEPT !.pc = "waiting",
                                                           !.ongoing = Registering(p)]]
        PROVE  PageInv'
    <3> DEFINE r == [page[p] EXCEPT !.pc = "waiting", !.ongoing = Registering(p)]
    <3>1. /\ page[p].listed \in Index /\ Registering(p) \in SUBSET Index
          /\ Registering(p) = 1 .. page[p].listed \ page[p].done
      <4>1. page[p].listed \in Index
        BY PageParts
      <4>2. 1 .. page[p].listed \subseteq Index
        BY <4>1, EstateAssumption DEF Index
      <4> QED  BY <4>1, <4>2 DEF Registering
    <3>2. /\ r \in PageType /\ r.ongoing = Registering(p) /\ r.pc = "waiting"
          /\ r.listed = page[p].listed /\ r.done = page[p].done
      <4>1. page[p] \in PageType
        BY PageParts
      <4>2. r = [page[p] EXCEPT !.pc = "waiting", !.ongoing = Registering(p)]
        OBVIOUS
      <4> HIDE DEF r
      <4> DEFINE S == Registering(p)
      <4>3. S \in SUBSET Index /\ r = [page[p] EXCEPT !.pc = "waiting", !.ongoing = S]
        BY <3>1, <4>2
      <4>4. S = Registering(p)
        OBVIOUS
      <4> HIDE DEF S
      <4>5. /\ r \in PageType /\ r.ongoing = S /\ r.pc = "waiting"
            /\ r.listed = page[p].listed /\ r.done = page[p].done
        BY <4>1, <4>3 DEF PageType, PageStage
      <4> QED  BY <4>4, <4>5
    <3>3. page' = [page EXCEPT ![p] = r]
      BY <2>3
    <3> HIDE DEF r
    <3> QED  BY <3>1, <3>2, <3>3, PagePut
  <2> QED  BY <1>10, <2>1, <2>2, <2>3 DEF BroadcastDistribute, Go
<1>11. ASSUME page' = page PROVE PageInv'
  BY <1>11, PageKept
<1>12. ASSUME NEW x \in Tx, Relay(x) PROVE page' = page
  BY <1>12 DEF Relay, PrepareSecurity, PrepareCoin, Decide, FinishCoin, FinishSecurity
<1>13. ASSUME NEW x \in Tx, SimulatePay(x) \/ SimulateDividendOf(x) \/ SimulateBatch(x)
       PROVE  page' = page
  BY <1>13 DEF SimulatePay, SimulateDividendOf, SimulateBatch, Build
<1>14. ASSUME NEW from \in Sellers, NEW to \in Addr, NEW n \in Shares,
              PrepareSale(from, to, n)
       PROVE  page' = page
  BY <1>14 DEF PrepareSale
<1>15. ASSUME CommitSale \/ AbortSale \/ (\E from, to \in Addr : MoveCoin(from, to))
                \/ UNCHANGED fvars
       PROVE  page' = page
  BY <1>15 DEF CommitSale, AbortSale, MoveCoin, fvars
<1> QED
  BY <1>1, <1>2, <1>3, <1>4, <1>5, <1>6, <1>7, <1>8, <1>9, <1>10, <1>11, <1>12,
     <1>13, <1>14, <1>15 DEF FNext, Load, Poll

\* A dividend that a page at rest lists as unpaid can be distributed, also
\* after a distribution that failed (issue-detail.tsx:333-365).
THEOREM UnpaidIsOffered == FSpec => []UnpaidOffered
<1>1. FInit => PageInv
  <2>1. ASSUME FInit PROVE PageInv
    <3>1. page = [p \in Page |-> Opened]
      BY <2>1 DEF FInit
    <3> QED  BY <3>1, PageTypes DEF PageInv
  <2> QED  BY <2>1
<1>2. DInv /\ PageInv /\ [FNext]_fvars => PageInv'
  BY PageStep
<1>3. PageInv => UnpaidOffered
  BY DEF PageInv, UnpaidOffered
<1> QED  BY <1>1, <1>2, <1>3, InitHolds, NextHolds, PTL DEF FSpec

-----------------------------------------------------------------------------
(* The transactions. *)

Stages == {"new", "asked", "payable", "built", "sent"}

\* A request: what is due to each is read for one listed user after the other,
\* and for all of them before the transaction is built.
RowFine(r) ==
    /\ r.stage \in Stages
    /\ DOMAIN r.dues \subseteq Listed
    /\ \A u \in DOMAIN r.dues : r.dues[u] \in Nat
    /\ r.stage \in {"built", "sent"} => DOMAIN r.dues = Listed

FlowTypes ==
    /\ coins \in [Addr -> Nat]
    /\ moved \subseteq Addr
    /\ vote \in [Tx -> [Chain -> {"none", "ok", "failed"}]]
    /\ decision \in [Tx -> {"none", "commit", "abort"}]
    /\ finished \in [Chain -> SUBSET Tx]
    /\ \A x \in Tx : RowFine(req[x])

\* A transaction is sent, prepared, decided and finished, in this order.
TxPhases ==
    \A x \in Tx, c \in Chain : /\ vote[x][c] # "none" => req[x].stage = "sent"
                               /\ decision[x] = "commit" => vote[x][c] = "ok"
                               /\ x \in finished[c] => decision[x] # "none"

\* Every distribution writes the paid flags and the issuer's balance.
OnePrepared == \A c \in Chain : \A x, y \in Prepared(c) : x = y

\* What is prepared can be committed: what its calls read is locked.
PayReady == \A x \in Prepared("security") : PayAllowed(req[x].index)

CoinReady ==
    \A x \in Prepared("coin") : /\ Payable(req[x].dues)
                                /\ req[x].batch = Batch(req[x].dues)

PaidInOrder == 1 .. Last - 1 \subseteq paid[1] /\ paid[1] \subseteq 1 .. Last

TxInv ==
    FlowTypes /\ TxPhases /\ OnePrepared /\ PayReady /\ CoinReady /\ PaidInOrder

LEMMA Chains == "coin" \in Chain /\ "security" \in Chain
  BY DEF Chain

\* The batch and the test of the issuer's balance read the balances of those
\* it is about.
LEMMA BatchReads ==
    ASSUME NEW d, \A a \in Payees(d) \cup {Issuer} : coins'[a] = coins[a]
    PROVE  (Batch(d)' = Batch(d)) /\ (Payable(d)' = Payable(d))
  BY DEF Batch, Payable, Payees

\* A step of a request that is not sent yet, or of none.
LEMMA RequestStep ==
    ASSUME TxInv, UNCHANGED <<coins, paid, dividendIndex, cross>>, moved' \subseteq Addr,
           \A x \in Tx : \/ req'[x] = req[x]
                         \/ req[x].stage # "sent" /\ RowFine(req'[x])
    PROVE  TxInv'
<1>1. UNCHANGED <<vote, decision, finished>>
  BY DEF cross
<1>2. Last' = Last
  BY DEF Last
<1>3. FlowTypes'
  BY <1>1 DEF TxInv, FlowTypes, RowFine
<1>4. \A x \in Tx, c \in Chain : vote[x][c] # "none" => req'[x] = req[x]
  BY DEF TxInv, TxPhases
<1>5. TxPhases'
  BY <1>1, <1>4 DEF TxInv, TxPhases
<1>6. \A c \in Chain : Prepared(c)' = Prepared(c)
  BY <1>1 DEF Prepared
<1>7. \A c \in Chain : \A x \in Prepared(c) : x \in Tx /\ req'[x] = req[x]
  BY <1>4 DEF Prepared
<1>8. OnePrepared'
  BY <1>6 DEF TxInv, OnePrepared
<1>9. PayReady'
  BY <1>2, <1>6, <1>7, Chains DEF TxInv, PayReady, PayAllowed
<1>10. CoinReady'
  <2> SUFFICES ASSUME NEW x \in Prepared("coin")
               PROVE  Payable(req[x].dues)' /\ req'[x].batch = Batch(req[x].dues)'
    BY <1>6, Chains DEF CoinReady
  <2>1. req'[x] = req[x]
    BY <1>7, Chains
  <2>2. Payable(req[x].dues) /\ req[x].batch = Batch(req[x].dues)
    BY DEF TxInv, CoinReady
  <2>3. PICK d : d = req[x].dues
    OBVIOUS
  <2>4. (Batch(d)' = Batch(d)) /\ (Payable(d)' = Payable(d))
    BY BatchReads
  <2>5. d = req'[x].dues
    BY <2>1, <2>3
  <2>6. Payable(d)' /\ req'[x].batch = Batch(d)'
    BY <2>1, <2>2, <2>3, <2>4
  <2> QED  BY <2>5, <2>6
<1>11. PaidInOrder'
  BY <1>2 DEF TxInv, PaidInOrder
<1> QED  BY <1>3, <1>5, <1>8, <1>9, <1>10, <1>11 DEF TxInv

LEMMA ListedFinite ==
    /\ Listed \subseteq Addr /\ IsFiniteSet(Addr) /\ IsFiniteSet(Listed)
    /\ \A S \in SUBSET Listed : IsFiniteSet(S)
    /\ Issuer \in Addr
<1>1. Listed \subseteq Addr /\ IsFiniteSet(Addr)
  BY FlowAssumption, EstateAssumption DEF Listed, Range
<1> QED  BY <1>1, FS_Subset, FlowAssumption

LEMMA SumOfDues == ASSUME NEW r, RowFine(r) PROVE SumFunction(r.dues) \in Nat
<1>1. IsFiniteSet(DOMAIN r.dues)
  BY ListedFinite DEF RowFine
<1>2. SumFunctionOnSet(r.dues, DOMAIN r.dues) \in Nat
  BY <1>1, SumType DEF RowFine
<1> QED  BY <1>2 DEF SumFunction

\* What a prepared distribution writes: balances, of the issuer's among others.
LEMMA BatchWrites ==
    ASSUME TxInv, NEW x \in Prepared("coin")
    PROVE  /\ DOMAIN req[x].batch = Payees(req[x].dues) \cup {Issuer}
           /\ DOMAIN req[x].batch \subseteq Addr
           /\ \A a \in DOMAIN req[x].batch : req[x].batch[a] \in Nat
<1> DEFINE dues == req[x].dues
<1>1. x \in Tx /\ RowFine(req[x]) /\ coins \in [Addr -> Nat]
  BY DEF TxInv, FlowTypes, Prepared
<1>2. Payable(dues) /\ req[x].batch = Batch(dues)
  BY DEF TxInv, CoinReady
<1>3. SumFunction(dues) \in Nat
  BY <1>1, SumOfDues
<1>4. /\ Payees(dues) \subseteq Addr
      /\ \A u \in Payees(dues) : dues[u] \in Nat
  BY <1>1, ListedFinite DEF RowFine, Payees
<1> HIDE DEF dues
<1>5. DOMAIN Batch(dues) = Payees(dues) \cup {Issuer}
  BY DEF Batch
<1>6. ASSUME NEW a \in Payees(dues) \cup {Issuer} PROVE Batch(dues)[a] \in Nat
  <2>1. a \in Addr /\ coins[a] \in Nat
    BY <1>1, <1>4, ListedFinite
  <2>2. a = Issuer => coins[a] - SumFunction(dues) \in Nat
    BY <1>2, <1>3, <2>1 DEF Payable
  <2> QED  BY <1>4, <2>1, <2>2 DEF Batch
<1> QED  BY <1>2, <1>4, <1>5, <1>6, ListedFinite DEF dues

\* A coin that moves is none that a prepared distribution is about.
LEMMA MoveCoinStep ==
    ASSUME TxInv, NEW from \in Addr, NEW to \in Addr, MoveCoin(from, to)
    PROVE  TxInv'
<1>1. /\ UNCHANGED <<contract, req, cross, moved>> /\ from # to /\ coins[from] > 0
      /\ ~CoinsLocked({from, to})
      /\ coins' = [coins EXCEPT ![from] = @ - 1, ![to] = @ + 1]
  BY DEF MoveCoin
<1>2. coins \in [Addr -> Nat]
  BY DEF TxInv, FlowTypes
<1>3. /\ coins' \in [Addr -> Nat]
      /\ \A a \in Addr \ {from, to} : coins'[a] = coins[a]
  BY <1>1, <1>2
<1>4. UNCHANGED <<vote, decision, finished, req, moved, paid, dividendIndex>> /\ Last' = Last
  BY <1>1 DEF cross, contract, dividendVars, Last
<1>5. \A c \in Chain : Prepared(c)' = Prepared(c)
  BY <1>4 DEF Prepared
<1>6. FlowTypes' /\ TxPhases' /\ OnePrepared' /\ PayReady' /\ PaidInOrder'
  <2>1. FlowTypes'
    BY <1>3, <1>4 DEF TxInv, FlowTypes, RowFine
  <2>2. TxPhases' /\ OnePrepared'
    BY <1>4, <1>5 DEF TxInv, TxPhases, OnePrepared
  <2>3. PayReady' /\ PaidInOrder'
    BY <1>4, <1>5, Chains DEF TxInv, PayReady, PayAllowed, PaidInOrder
  <2> QED  BY <2>1, <2>2, <2>3
<1>7. CoinReady'
  <2> SUFFICES ASSUME NEW x \in Prepared("coin")
               PROVE  Payable(req[x].dues)' /\ req'[x].batch = Batch(req[x].dues)'
    BY <1>5, Chains DEF CoinReady
  <2>1. Payable(req[x].dues) /\ req[x].batch = Batch(req[x].dues)
    BY DEF TxInv, CoinReady
  <2>2. PICK d : d = req[x].dues
    OBVIOUS
  <2>3. \A a \in Payees(d) \cup {Issuer} : coins'[a] = coins[a]
    <3>1. Payees(d) \cup {Issuer} = DOMAIN req[x].batch /\ DOMAIN req[x].batch \subseteq Addr
      BY <2>2, BatchWrites
    <3>2. {from, to} \cap DOMAIN req[x].batch = {}
      BY <1>1 DEF CoinsLocked
    <3> QED  BY <1>3, <3>1, <3>2
  <2>4. (Batch(d)' = Batch(d)) /\ (Payable(d)' = Payable(d))
    BY <2>3, BatchReads
  <2>5. d = req'[x].dues /\ Payable(d)' /\ req'[x].batch = Batch(d)'
    BY <1>4, <2>1, <2>2, <2>4
  <2> QED  BY <2>5
<1> QED  BY <1>6, <1>7 DEF TxInv

LEMMA PrepareSecurityStep ==
    ASSUME TxInv, NEW x \in Tx, PrepareSecurity(x)
    PROVE  TxInv'
<1> DEFINE v == IF PayAllowed(req[x].index) /\ ~PaidLocked THEN "ok" ELSE "failed"
<1>1. /\ req[x].stage = "sent" /\ vote[x]["security"] = "none"
      /\ vote' = [vote EXCEPT ![x]["security"] = v]
      /\ UNCHANGED <<contract, coins, req, decision, finished, moved>>
  BY DEF PrepareSecurity
<1>2. /\ v \in {"ok", "failed"}
      /\ v = "ok" => PayAllowed(req[x].index) /\ Prepared("security") = {}
  BY DEF PaidLocked
<1> HIDE DEF v
<1>3. /\ vote' \in [Tx -> [Chain -> {"none", "ok", "failed"}]]
      /\ \A y \in Tx, c \in Chain :
            vote'[y][c] = IF y = x /\ c = "security" THEN v ELSE vote[y][c]
  <2>1. /\ vote \in [Tx -> [Chain -> {"none", "ok", "failed"}]]
        /\ vote' = [vote EXCEPT ![x] = [vote[x] EXCEPT !["security"] = v]]
    BY <1>1 DEF TxInv, FlowTypes
  <2> QED  BY <1>2, <2>1, Chains
<1>4. UNCHANGED <<paid, dividendIndex>> /\ Last' = Last
  BY <1>1 DEF contract, dividendVars, Last
<1>5. Prepared("coin")' = Prepared("coin")
  BY <1>1, <1>3, Chains DEF Prepared
<1>6. \A y \in Prepared("security")' :
          \/ y \in Prepared("security")
          \/ y = x /\ PayAllowed(req[x].index) /\ Prepared("security") = {}
  BY <1>1, <1>2, <1>3, Chains DEF Prepared
<1>7. FlowTypes'
  BY <1>1, <1>3 DEF TxInv, FlowTypes, RowFine
<1>8. TxPhases'
  <2>1. decision[x] # "commit"
    BY <1>1, Chains DEF TxInv, TxPhases
  <2> QED  BY <1>1, <1>3, <2>1 DEF TxInv, TxPhases
<1>9. OnePrepared'
  <2>1. \A y, z \in Prepared("security")' : y = z
    BY <1>6, Chains DEF TxInv, OnePrepared
  <2> QED  BY <1>5, <2>1 DEF TxInv, OnePrepared, Chain
<1>10. PayReady'
  BY <1>1, <1>4, <1>6 DEF TxInv, PayReady, PayAllowed
<1>11. CoinReady'
  BY <1>1, <1>5 DEF TxInv, CoinReady, Payable, Batch, Payees
<1>12. PaidInOrder'
  BY <1>4 DEF TxInv, PaidInOrder
<1> QED  BY <1>7, <1>8, <1>9, <1>10, <1>11, <1>12 DEF TxInv

LEMMA PrepareCoinStep ==
    ASSUME TxInv, NEW x \in Tx, PrepareCoin(x)
    PROVE  TxInv'
<1> DEFINE good == /\ Payable(req[x].dues) /\ Batch(req[x].dues) = req[x].batch
                   /\ ~CoinsLocked(DOMAIN req[x].batch)
           v == IF good THEN "ok" ELSE "failed"
<1>1. /\ req[x].stage = "sent" /\ vote[x]["coin"] = "none"
      /\ vote' = [vote EXCEPT ![x]["coin"] = v]
      /\ UNCHANGED <<contract, coins, req, decision, finished, moved>>
  BY DEF PrepareCoin
<1>2. v \in {"ok", "failed"} /\ (v = "ok" => good)
  OBVIOUS
<1>3. good => Prepared("coin") = {}
  <2> SUFFICES ASSUME good, NEW y \in Prepared("coin") PROVE FALSE
    OBVIOUS
  <2>1. Issuer \in DOMAIN req[y].batch
    BY BatchWrites
  <2>2. Issuer \in DOMAIN req[x].batch
    <3>1. Issuer \in DOMAIN Batch(req[x].dues)
      BY DEF Batch
    <3> QED  BY <3>1
  <2> QED  BY <2>1, <2>2 DEF CoinsLocked
<1> HIDE DEF v
<1>4. /\ vote' \in [Tx -> [Chain -> {"none", "ok", "failed"}]]
      /\ \A y \in Tx, c \in Chain :
            vote'[y][c] = IF y = x /\ c = "coin" THEN v ELSE vote[y][c]
  <2>1. /\ vote \in [Tx -> [Chain -> {"none", "ok", "failed"}]]
        /\ vote' = [vote EXCEPT ![x] = [vote[x] EXCEPT !["coin"] = v]]
    BY <1>1 DEF TxInv, FlowTypes
  <2> QED  BY <1>2, <2>1, Chains
<1>5. UNCHANGED <<paid, dividendIndex>> /\ Last' = Last
  BY <1>1 DEF contract, dividendVars, Last
<1>6. Prepared("security")' = Prepared("security")
  BY <1>1, <1>4, Chains DEF Prepared
<1>7. \A y \in Prepared("coin")' : y \in Prepared("coin") \/ (y = x /\ good)
  BY <1>1, <1>2, <1>4, Chains DEF Prepared
<1>8. FlowTypes'
  BY <1>1, <1>4 DEF TxInv, FlowTypes, RowFine
<1>9. TxPhases'
  <2>1. decision[x] # "commit"
    BY <1>1, Chains DEF TxInv, TxPhases
  <2> QED  BY <1>1, <1>4, <2>1 DEF TxInv, TxPhases
<1>10. OnePrepared'
  <2>1. \A y, z \in Prepared("coin")' : y = z
    BY <1>3, <1>7, Chains DEF TxInv, OnePrepared
  <2> QED  BY <1>6, <2>1 DEF TxInv, OnePrepared, Chain
<1>11. PayReady'
  BY <1>1, <1>5, <1>6 DEF TxInv, PayReady, PayAllowed
<1>12. CoinReady'
  <2>1. \A y \in Prepared("coin")' : Payable(req[y].dues) /\ req[y].batch = Batch(req[y].dues)
    BY <1>7 DEF TxInv, CoinReady
  <2> QED  BY <1>1, <2>1 DEF CoinReady, Payable, Batch, Payees
<1>13. PaidInOrder'
  BY <1>5 DEF TxInv, PaidInOrder
<1> QED  BY <1>8, <1>9, <1>10, <1>11, <1>12, <1>13 DEF TxInv

LEMMA DecideStep ==
    ASSUME TxInv, NEW x \in Tx, Decide(x)
    PROVE  TxInv'
<1>1. /\ decision[x] = "none"
      /\ \/ /\ \A c \in Chain : vote[x][c] = "ok"
            /\ decision' = [decision EXCEPT ![x] = "commit"]
         \/ decision' = [decision EXCEPT ![x] = "abort"]
      /\ UNCHANGED <<contract, coins, req, vote, finished, moved>>
  BY DEF Decide
<1>2. /\ decision' \in [Tx -> {"none", "commit", "abort"}]
      /\ \A y \in Tx : /\ decision[y] # "none" => decision'[y] = decision[y]
                       /\ decision'[y] = "commit" =>
                              decision[y] = "commit" \/ \A c \in Chain : vote[y][c] = "ok"
  BY <1>1 DEF TxInv, FlowTypes
<1>3. UNCHANGED <<paid, dividendIndex>> /\ Last' = Last
  BY <1>1 DEF contract, dividendVars, Last
<1>4. \A c \in Chain : Prepared(c)' = Prepared(c)
  BY <1>1 DEF Prepared
<1>5. FlowTypes'
  BY <1>1, <1>2 DEF TxInv, FlowTypes, RowFine
<1>6. TxPhases'
  BY <1>1, <1>2 DEF TxInv, TxPhases
<1>7. OnePrepared'
  BY <1>4 DEF TxInv, OnePrepared
<1>8. PayReady'
  BY <1>1, <1>3, <1>4, Chains DEF TxInv, PayReady, PayAllowed
<1>9. CoinReady'
  BY <1>1, <1>4, Chains DEF TxInv, CoinReady, Payable, Batch, Payees
<1>10. PaidInOrder'
  BY <1>3 DEF TxInv, PaidInOrder
<1> QED  BY <1>5, <1>6, <1>7, <1>8, <1>9, <1>10 DEF TxInv

\* What remains prepared on a chain where something has finished.
LEMMA FinishedPrepared ==
    ASSUME TxInv, NEW x \in Tx, NEW c \in Chain, decision[x] # "none", vote[x][c] # "none",
           x \notin finished[c], finished' = [finished EXCEPT ![c] = @ \cup {x}],
           UNCHANGED <<vote, decision>>
    PROVE  /\ finished' \in [Chain -> SUBSET Tx]
           /\ \A e \in Chain : /\ Prepared(e)' \subseteq Prepared(e)
                               /\ e # c => Prepared(e)' = Prepared(e)
           /\ decision[x] = "commit" => x \in Prepared(c) /\ Prepared(c)' = {}
           /\ \A y \in Tx, e \in Chain : y \in finished'[e] => decision[y] # "none"
           /\ OnePrepared'
<1>1. /\ finished' \in [Chain -> SUBSET Tx]
      /\ \A e \in Chain : finished'[e] = IF e = c THEN finished[c] \cup {x} ELSE finished[e]
  BY DEF TxInv, FlowTypes
<1>2. \A e \in Chain : /\ Prepared(e)' \subseteq Prepared(e)
                       /\ e # c => Prepared(e)' = Prepared(e)
  BY <1>1 DEF Prepared
<1>3. decision[x] = "commit" => x \in Prepared(c)
  BY DEF TxInv, TxPhases, Prepared
<1>4. x \in Prepared(c) => Prepared(c)' = {}
  <2>1. x \notin Prepared(c)'
    BY <1>1 DEF Prepared
  <2> QED  BY <1>2, <2>1 DEF TxInv, OnePrepared
<1>5. \A y \in Tx, e \in Chain : y \in finished'[e] => decision[y] # "none"
  BY <1>1 DEF TxInv, TxPhases
<1>6. OnePrepared'
  BY <1>2 DEF TxInv, OnePrepared
<1> QED  BY <1>1, <1>2, <1>3, <1>4, <1>5, <1>6

LEMMA FinishCoinStep ==
    ASSUME TxInv, NEW x \in Tx, FinishCoin(x)
    PROVE  TxInv'
<1>1. /\ decision[x] # "none" /\ vote[x]["coin"] # "none" /\ x \notin finished["coin"]
      /\ finished' = [finished EXCEPT !["coin"] = @ \cup {x}]
      /\ coins' = IF decision[x] = "commit" THEN Written(req[x].batch) ELSE coins
      /\ UNCHANGED <<contract, req, vote, decision, moved>>
  BY DEF FinishCoin
<1>2. /\ finished' \in [Chain -> SUBSET Tx]
      /\ Prepared("security")' = Prepared("security")
      /\ Prepared("coin")' \subseteq Prepared("coin")
      /\ decision[x] = "commit" => x \in Prepared("coin") /\ Prepared("coin")' = {}
      /\ \A y \in Tx, e \in Chain : y \in finished'[e] => decision[y] # "none"
      /\ OnePrepared'
  BY <1>1, FinishedPrepared, Chains
<1>3. UNCHANGED <<paid, dividendIndex>> /\ Last' = Last
  BY <1>1 DEF contract, dividendVars, Last
<1>4. coins \in [Addr -> Nat]
  BY DEF TxInv, FlowTypes
<1>5. coins' \in [Addr -> Nat]
  <2>1. CASE decision[x] = "commit"
    <3>1. \A a \in DOMAIN req[x].batch : req[x].batch[a] \in Nat
      BY <1>2, <2>1, BatchWrites
    <3> QED  BY <1>1, <1>4, <2>1, <3>1 DEF Written
  <2> QED  BY <1>1, <1>4, <2>1
<1>6. FlowTypes'
  BY <1>1, <1>2, <1>5 DEF TxInv, FlowTypes, RowFine
<1>7. TxPhases'
  BY <1>1, <1>2 DEF TxInv, TxPhases
<1>8. PayReady'
  BY <1>1, <1>2, <1>3 DEF TxInv, PayReady, PayAllowed
<1>9. CoinReady'
  <2>1. CASE decision[x] = "commit"
    BY <1>2, <2>1 DEF CoinReady
  <2>2. CASE decision[x] # "commit"
    <3>1. \A y \in Prepared("coin")' :
              Payable(req[y].dues) /\ req[y].batch = Batch(req[y].dues)
      BY <1>2 DEF TxInv, CoinReady
    <3> QED  BY <1>1, <2>2, <3>1 DEF CoinReady, Payable, Batch, Payees
  <2> QED  BY <2>1, <2>2
<1>10. PaidInOrder'
  BY <1>3 DEF TxInv, PaidInOrder
<1> QED  BY <1>2, <1>6, <1>7, <1>8, <1>9, <1>10 DEF TxInv

LEMMA FinishSecurityStep ==
    ASSUME DInv, TxInv, NEW x \in Tx, FinishSecurity(x)
    PROVE  TxInv'
<1>1. /\ decision[x] # "none" /\ vote[x]["security"] # "none"
      /\ x \notin finished["security"]
      /\ finished' = [finished EXCEPT !["security"] = @ \cup {x}]
      /\ paid' = IF decision[x] = "commit" THEN [paid EXCEPT ![1] = @ \cup {req[x].index}]
                 ELSE paid
      /\ UNCHANGED <<dividendIndex, coins, req, vote, decision, moved>>
  BY DEF FinishSecurity
<1>2. /\ finished' \in [Chain -> SUBSET Tx]
      /\ Prepared("coin")' = Prepared("coin")
      /\ Prepared("security")' \subseteq Prepared("security")
      /\ decision[x] = "commit" =>
            x \in Prepared("security") /\ Prepared("security")' = {}
      /\ \A y \in Tx, e \in Chain : y \in finished'[e] => decision[y] # "none"
      /\ OnePrepared'
  BY <1>1, FinishedPrepared, Chains
<1>3. Last' = Last /\ paid \in [Token -> SUBSET Index] /\ 1 \in Token
  BY <1>1, Basics DEF Last, DInv, StoreOK
<1>4. FlowTypes'
  BY <1>1, <1>2 DEF TxInv, FlowTypes, RowFine
<1>5. TxPhases'
  BY <1>1, <1>2 DEF TxInv, TxPhases
<1>6. CoinReady'
  BY <1>1, <1>2 DEF TxInv, CoinReady, Payable, Batch, Payees
<1>7. CASE decision[x] = "commit"
  <2>1. PayReady'
    BY <1>2, <1>7 DEF PayReady
  <2>2. req[x].index = Last /\ Last # 0 /\ Last \in Nat
    BY <1>2, <1>7, Indexes DEF TxInv, PayReady, PayAllowed, DInv
  <2>3. paid'[1] = paid[1] \cup {Last} /\ Last \in 1 .. Last
    BY <1>1, <1>3, <1>7, <2>2
  <2>4. PaidInOrder'
    BY <1>3, <2>3 DEF TxInv, PaidInOrder
  <2> QED  BY <1>2, <1>4, <1>5, <1>6, <2>1, <2>4 DEF TxInv
<1>8. CASE decision[x] # "commit"
  <2>1. PayReady' /\ PaidInOrder'
    BY <1>1, <1>2, <1>3, <1>8 DEF TxInv, PayReady, PayAllowed, PaidInOrder
  <2> QED  BY <1>2, <1>4, <1>5, <1>6, <2>1 DEF TxInv
<1> QED  BY <1>7, <1>8

LEMMA BroadcastRegisterStep ==
    ASSUME DInv, TxInv, NEW share \in PerShare, BroadcastRegister(share)
    PROVE  TxInv'
<1>1. /\ ~Waits /\ Prepared("security") = {}
      /\ dividendIndex' = [dividendIndex EXCEPT ![1] = Last + 1]
      /\ UNCHANGED <<paid, coins, req, cross>>
      /\ moved' = {}
  BY DEF BroadcastRegister, PaidLocked, RegisterDividend, tokenVars, Waits, Last
<1>2. UNCHANGED <<vote, decision, finished>>
  BY <1>1 DEF cross
<1>3. Last \in Index /\ Last \in Nat /\ Last' = Last + 1
  BY <1>1, Basics, Indexes DEF DInv, StoreOK, Last
<1>4. \A c \in Chain : Prepared(c)' = Prepared(c)
  BY <1>2 DEF Prepared
<1>5. FlowTypes'
  BY <1>1, <1>2 DEF TxInv, FlowTypes, RowFine
<1>6. TxPhases' /\ OnePrepared'
  BY <1>1, <1>2, <1>4 DEF TxInv, TxPhases, OnePrepared
<1>7. PayReady'
  BY <1>1, <1>4, Chains DEF PayReady
<1>8. CoinReady'
  BY <1>1, <1>4, Chains DEF TxInv, CoinReady, Payable, Batch, Payees
<1>9. PaidInOrder'
  <2>1. Last = 0 \/ Last \in paid[1]
    BY <1>1 DEF Waits, Unpaid, Last
  <2>2. 1 .. Last \subseteq paid[1]
    BY <1>3, <2>1 DEF TxInv, PaidInOrder
  <2>3. paid[1] \subseteq 1 .. Last + 1
    BY <1>3 DEF TxInv, PaidInOrder
  <2>4. (Last + 1) - 1 = Last
    BY <1>3
  <2> QED  BY <1>1, <1>3, <2>2, <2>3, <2>4 DEF PaidInOrder
<1> QED  BY <1>5, <1>6, <1>7, <1>8, <1>9 DEF TxInv

\* One request is replaced.
LEMMA RowStep ==
    ASSUME ReqOK, TxInv, NEW x \in Tx, NEW r, RowFine(r), req[x].stage # "sent",
           req' = [req EXCEPT ![x] = r], UNCHANGED <<contract, coins, cross, moved>>
    PROVE  TxInv'
<1>1. UNCHANGED <<paid, dividendIndex>> /\ moved' \subseteq Addr
  BY DEF contract, dividendVars, TxInv, FlowTypes
<1>2. \A y \in Tx : req'[y] = IF y = x THEN r ELSE req[y]
  BY DEF ReqOK
<1>3. \A y \in Tx : \/ req'[y] = req[y]
                    \/ req[y].stage # "sent" /\ RowFine(req'[y])
  BY <1>2
<1> QED  BY <1>1, <1>3, RequestStep

LEMMA RequestSteps ==
    ASSUME DInv, TxInv, NEW x \in Tx,
           SimulatePay(x) \/ SimulateDividendOf(x) \/ SimulateBatch(x) \/ BroadcastDistribute(x)
    PROVE  TxInv'
<1>1. UNCHANGED <<contract, coins, cross, moved>>
  BY DEF SimulatePay, SimulateDividendOf, SimulateBatch, BroadcastDistribute, Build, Go
<1>2. /\ req[x] = [stage |-> req[x].stage, index |-> req[x].index, dues |-> req[x].dues,
                   batch |-> req[x].batch]
      /\ RowFine(req[x])
  BY DEF DInv, ReqOK, TxInv, FlowTypes
<1>3. CASE SimulatePay(x)
  <2> DEFINE r == [req[x] EXCEPT !.stage = "payable"]
  <2>1. req' = [req EXCEPT ![x] = r] /\ req[x].stage = "asked"
    BY <1>3 DEF SimulatePay, Build
  <2>2. r.stage = "payable" /\ r.dues = req[x].dues
    BY <1>2
  <2> HIDE DEF r
  <2>3. RowFine(r)
    BY <1>2, <2>2 DEF RowFine, Stages
  <2> QED  BY <1>1, <2>1, <2>3, RowStep DEF DInv
<1>4. CASE SimulateDividendOf(x)
  <2> DEFINE dues == req[x].dues
             n == Cardinality(DOMAIN dues) + 1
             u == Users[n]
             due == DividendOf(1, u)
             more == [v \in DOMAIN dues \cup {u} |-> IF v = u THEN due.val ELSE dues[v]]
             r == [req[x] EXCEPT !.dues = more]
  <2>1. /\ n \in DOMAIN Users /\ due.ok /\ req[x].stage = "payable"
        /\ req' = [req EXCEPT ![x] = r]
    BY <1>4 DEF SimulateDividendOf, Build
  <2>2. u \in Listed
    BY <2>1 DEF Listed, Range
  <2> HIDE DEF n, u
  <2>3. due.val \in Nat
    BY <2>1, <2>2, DividendOfType, ListedFinite
  <2> HIDE DEF due
  <2>4. r.stage = "payable" /\ r.dues = more
    BY <1>2, <2>1
  <2>5. RowFine(r)
    <3>1. \A v \in DOMAIN dues : dues[v] \in Nat /\ v \in Listed
      BY <1>2 DEF RowFine
    <3>2. DOMAIN more = DOMAIN dues \cup {u} /\ \A v \in DOMAIN more : more[v] \in Nat
      BY <2>3, <3>1
    <3> HIDE DEF more, dues, r
    <3> QED  BY <2>2, <2>4, <3>1, <3>2 DEF RowFine, Stages
  <2> HIDE DEF r
  <2> QED  BY <1>1, <2>1, <2>5, RowStep DEF DInv
<1>5. CASE SimulateBatch(x)
  <2> DEFINE r == [req[x] EXCEPT !.stage = "built", !.batch = Batch(req[x].dues)]
  <2>1. /\ req' = [req EXCEPT ![x] = r] /\ req[x].stage = "payable"
        /\ DOMAIN req[x].dues = Listed
    BY <1>5 DEF SimulateBatch, Build
  <2>2. r.stage = "built" /\ r.dues = req[x].dues
    BY <1>2
  <2> HIDE DEF r
  <2>3. RowFine(r)
    BY <1>2, <2>1, <2>2 DEF RowFine, Stages
  <2> QED  BY <1>1, <2>1, <2>3, RowStep DEF DInv
<1>6. CASE BroadcastDistribute(x)
  <2> DEFINE r == [req[x] EXCEPT !.stage = "sent"]
  <2>1. req' = [req EXCEPT ![x] = r] /\ req[x].stage = "built"
    BY <1>6 DEF BroadcastDistribute
  <2>2. r.stage = "sent" /\ r.dues = req[x].dues
    BY <1>2
  <2> HIDE DEF r
  <2>3. RowFine(r)
    BY <1>2, <2>1, <2>2 DEF RowFine, Stages
  <2> QED  BY <1>1, <2>1, <2>3, RowStep DEF DInv
<1> QED  BY <1>3, <1>4, <1>5, <1>6

LEMMA ClickStep ==
    ASSUME DInv, TxInv, NEW p \in Page, NEW x \in Tx, DistributeClick(p, x)
    PROVE  TxInv'
<1> DEFINE r == [req[x] EXCEPT !.stage = "asked", !.index = Last]
<1>1. req[x] = NoRequest /\ UNCHANGED <<contract, coins, cross, moved>>
  BY DEF DistributeClick, Go
<1>2. req' = [req EXCEPT ![x] = r]
  BY DEF DistributeClick, DInv, ReqOK
<1>3. r.stage = "asked" /\ r.dues = << >>
  <2>1. r = [NoRequest EXCEPT !.stage = "asked", !.index = Last]
    BY <1>1
  <2> HIDE DEF r
  <2> QED  BY <2>1 DEF NoRequest
<1> HIDE DEF r
<1>4. RowFine(r)
  BY <1>3 DEF RowFine, Stages
<1>5. req[x].stage # "sent"
  BY <1>1 DEF NoRequest
<1> QED  BY <1>1, <1>2, <1>4, <1>5, RowStep DEF DInv

LEMMA SaleStep ==
    ASSUME DInv, TxInv, UNCHANGED <<coins, paid, dividendIndex, req, cross>>,
           moved' \subseteq Addr
    PROVE  TxInv'
<1>1. \A x \in Tx : req'[x] = req[x]
  OBVIOUS
<1> QED  BY <1>1, RequestStep

LEMMA TxInit == FInit => TxInv
<1> SUFFICES ASSUME FInit PROVE TxInv
  OBVIOUS
<1>1. /\ \A x \in Tx : req[x] = NoRequest /\ decision[x] = "none"
      /\ \A x \in Tx, c \in Chain : vote[x][c] = "none"
      /\ \A c \in Chain : finished[c] = {}
  BY DEF FInit
<1>2. NoRequest.stage = "new" /\ DOMAIN NoRequest.dues = {}
  BY DEF NoRequest
<1>3. \A x \in Tx : RowFine(req[x])
  BY <1>1, <1>2 DEF RowFine, Stages
<1>4. FlowTypes
  BY <1>3, FlowAssumption DEF FInit, FlowTypes
<1>5. \A c \in Chain : Prepared(c) = {}
  BY <1>1 DEF Prepared
<1>6. TxPhases /\ OnePrepared /\ PayReady /\ CoinReady
  BY <1>1, <1>5, Chains DEF TxPhases, OnePrepared, PayReady, CoinReady
<1>7. PaidInOrder
  BY Basics DEF FInit, PaidInOrder, Last
<1> QED  BY <1>4, <1>6, <1>7 DEF TxInv

LEMMA TxStep ==
    ASSUME DInv, TxInv, [FNext]_fvars
    PROVE  TxInv'
<1>0. moved \subseteq Addr
  BY DEF TxInv, FlowTypes
<1>1. ASSUME UNCHANGED <<contract, coins, req, cross, moved>> PROVE TxInv'
  BY <1>0, <1>1, SaleStep DEF contract, dividendVars
<1>2. ASSUME NEW from \in Sellers, NEW to \in Addr, NEW n \in Shares,
             PrepareSale(from, to, n)
      PROVE  TxInv'
  BY <1>1, <1>2 DEF PrepareSale
<1>3. CASE CommitSale
  <2>1. moved' \subseteq Addr
    BY <1>0, <1>3 DEF CommitSale, DInv, SaleOK
  <2> QED  BY <1>3, <2>1, SaleStep DEF CommitSale
<1>4. CASE AbortSale
  BY <1>1, <1>4 DEF AbortSale
<1>5. ASSUME NEW from \in Addr, NEW to \in Addr, MoveCoin(from, to) PROVE TxInv'
  BY <1>5, MoveCoinStep
<1>6. ASSUME NEW x \in Tx, SimulatePay(x) \/ SimulateDividendOf(x) \/ SimulateBatch(x)
                             \/ BroadcastDistribute(x)
      PROVE  TxInv'
  BY <1>6, RequestSteps
<1>7. ASSUME NEW x \in Tx, Relay(x) PROVE TxInv'
  BY <1>7, PrepareSecurityStep, PrepareCoinStep, DecideStep, FinishCoinStep,
     FinishSecurityStep DEF Relay
<1>8. ASSUME NEW share \in PerShare, BroadcastRegister(share) PROVE TxInv'
  BY <1>8, BroadcastRegisterStep
<1>9. ASSUME NEW p \in Page,
             Open(p) \/ Load(p) \/ Poll(p) \/ Throw(p) \/ RegisterDividendClick(p)
      PROVE  TxInv'
  BY <1>1, <1>9 DEF Open, Load, LoadRegistered, LoadPaid, Poll, PollIndex, PollCommitted,
                    PollAborted, Throw, RegisterDividendClick, Go
<1>10. ASSUME NEW p \in Page, NEW x \in Tx, DistributeClick(p, x) PROVE TxInv'
  BY <1>10, ClickStep
<1>11. CASE UNCHANGED fvars
  BY <1>1, <1>11 DEF fvars
<1> QED
  BY <1>2, <1>3, <1>4, <1>5, <1>6, <1>7, <1>8, <1>9, <1>10, <1>11 DEF FNext
-----------------------------------------------------------------------------
(* The types of all variables. *)

\* A page lists as paid what it has listed as registered before.
DoneInv ==
    \A p \in Page : /\ page[p].done \subseteq 1 .. page[p].listed
                    /\ page[p].pc = "loading" => page[p].done = {}

LEMMA DonePut ==
    ASSUME PageInv, DoneInv, NEW p \in Page, NEW r, page' = [page EXCEPT ![p] = r],
           r.done \subseteq 1 .. r.listed, r.pc = "loading" => r.done = {}
    PROVE  DoneInv'
<1>1. \A q \in Page : page'[q] = IF q = p THEN r ELSE page[q]
  BY DEF PageInv
<1> QED  BY <1>1 DEF DoneInv

\* A page goes on with the list it has, or with none.
LEMMA DoneKept ==
    ASSUME PageInv, DoneInv, NEW p \in Page, NEW r, page' = [page EXCEPT ![p] = r],
           \/ r.done = {}
           \/ r.done = page[p].done /\ r.listed = page[p].listed /\ r.pc # "loading"
    PROVE  DoneInv'
  BY DonePut DEF DoneInv

LEMMA DoneStep ==
    ASSUME PageInv, DoneInv, [FNext]_fvars
    PROVE  DoneInv'
<1>0. /\ Opened.done = {} /\ Stuck.done = {}
      /\ [Opened EXCEPT !.pc = "signing", !.before = Last].done = {}
  BY DEF Opened, Stuck
<1>1. ASSUME NEW p \in Page, Open(p) \/ PollIndex(p) \/ PollCommitted(p) \/ Throw(p)
                               \/ RegisterDividendClick(p)
      PROVE  DoneInv'
  BY <1>0, <1>1, DoneKept
     DEF Open, PollIndex, PollCommitted, Throw, RegisterDividendClick, Go
<1>2. ASSUME NEW p \in Page, LoadRegistered(p) PROVE DoneInv'
  <2> DEFINE r == [page[p] EXCEPT !.pc = "listing", !.listed = Last]
  <2>1. page' = [page EXCEPT ![p] = r] /\ page[p].pc = "loading" /\ page[p] \in PageType
    BY <1>2, PageParts DEF LoadRegistered, Go
  <2>2. page[p].done = {}
    BY <2>1 DEF DoneInv
  <2>3. r.done = {}
    BY <2>1, <2>2 DEF PageType
  <2> HIDE DEF r
  <2> QED  BY <2>1, <2>3, DoneKept
<1>3. ASSUME NEW p \in Page, LoadPaid(p) PROVE DoneInv'
  <2> DEFINE done == paid[1] \cap 1 .. page[p].listed
             r == [page[p] EXCEPT !.pc = "idle", !.done = done]
  <2>1. page' = [page EXCEPT ![p] = r] /\ page[p] \in PageType
    BY <1>3, PageParts DEF LoadPaid, Go
  <2>2. done \subseteq 1 .. page[p].listed
    OBVIOUS
  <2> HIDE DEF done
  <2>3. r.done = done /\ r.listed = page[p].listed /\ r.pc = "idle"
    BY <2>1 DEF PageType
  <2> HIDE DEF r
  <2> QED  BY <2>1, <2>2, <2>3, DonePut
<1>4. ASSUME NEW p \in Page, PollAborted(p) PROVE DoneInv'
  <2> DEFINE left == page[p].ongoing \ Registering(p)
             r == [page[p] EXCEPT !.pc = "idle", !.tx = NoTx, !.ongoing = left]
  <2>1. page' = [page EXCEPT ![p] = r] /\ page[p] \in PageType
    BY <1>4, PageParts DEF PollAborted, Go
  <2> HIDE DEF left
  <2>2. r.done = page[p].done /\ r.listed = page[p].listed /\ r.pc = "idle"
    BY <2>1 DEF PageType
  <2> HIDE DEF r
  <2> QED  BY <2>1, <2>2, DoneKept
<1>5. ASSUME NEW p \in Page, NEW x \in Tx, DistributeClick(p, x) PROVE DoneInv'
  <2> DEFINE r == [page[p] EXCEPT !.pc = "building", !.tx = x]
  <2>1. page' = [page EXCEPT ![p] = r] /\ page[p] \in PageType
    BY <1>5, PageParts DEF DistributeClick, Go
  <2>2. r.done = page[p].done /\ r.listed = page[p].listed /\ r.pc = "building"
    BY <2>1 DEF PageType
  <2> HIDE DEF r
  <2> QED  BY <2>1, <2>2, DoneKept
<1>6. ASSUME page' = page PROVE DoneInv'
  BY <1>6 DEF DoneInv
<1>7. ASSUME NEW p \in Page, page' = [page EXCEPT ![p].pc = "counting"] PROVE DoneInv'
  <2> DEFINE r == [page[p] EXCEPT !.pc = "counting"]
  <2>1. page' = [page EXCEPT ![p] = r] /\ page[p] \in PageType
    BY <1>7, PageParts
  <2>2. r.done = page[p].done /\ r.listed = page[p].listed /\ r.pc = "counting"
    BY <2>1 DEF PageType
  <2> HIDE DEF r
  <2> QED  BY <2>1, <2>2, DoneKept
<1>8. ASSUME NEW p \in Page, page' = [page EXCEPT ![p] = Stuck] PROVE DoneInv'
  BY <1>0, <1>8, DoneKept
<1>9. ASSUME NEW p \in Page,
             page' = [page EXCEPT ![p] = [page[p] EXCEPT !.pc = "waiting",
                                                         !.ongoing = Registering(p)]]
      PROVE  DoneInv'
  <2> DEFINE S == Registering(p)
             r == [page[p] EXCEPT !.pc = "waiting", !.ongoing = S]
  <2>1. page' = [page EXCEPT ![p] = r] /\ page[p] \in PageType
    BY <1>9, PageParts
  <2> HIDE DEF S
  <2>2. r.done = page[p].done /\ r.listed = page[p].listed /\ r.pc = "waiting"
    BY <2>1 DEF PageType
  <2> HIDE DEF r
  <2> QED  BY <2>1, <2>2, DoneKept
<1>10. ASSUME NEW share \in PerShare, BroadcastRegister(share) PROVE DoneInv'
  BY <1>6, <1>7, <1>8, <1>10 DEF BroadcastRegister
<1>11. ASSUME NEW x \in Tx, BroadcastDistribute(x) PROVE DoneInv'
  BY <1>6, <1>8, <1>9, <1>11 DEF BroadcastDistribute, Go
<1>12. ASSUME NEW x \in Tx, Relay(x) PROVE page' = page
  BY <1>12 DEF Relay, PrepareSecurity, PrepareCoin, Decide, FinishCoin, FinishSecurity
<1>13. ASSUME NEW x \in Tx, SimulatePay(x) \/ SimulateDividendOf(x) \/ SimulateBatch(x)
       PROVE  page' = page
  BY <1>13 DEF SimulatePay, SimulateDividendOf, SimulateBatch, Build
<1>14. ASSUME NEW from \in Sellers, NEW to \in Addr, NEW n \in Shares,
              PrepareSale(from, to, n)
       PROVE  page' = page
  BY <1>14 DEF PrepareSale
<1>15. ASSUME CommitSale \/ AbortSale \/ (\E from, to \in Addr : MoveCoin(from, to))
                \/ UNCHANGED fvars
       PROVE  page' = page
  BY <1>15 DEF CommitSale, AbortSale, MoveCoin, fvars
<1> QED
  BY <1>1, <1>2, <1>3, <1>4, <1>5, <1>6, <1>10, <1>11, <1>12, <1>13, <1>14, <1>15
     DEF FNext, Load, Poll

\* Every variable keeps its type, coins are never spent that the issuer does
\* not have (dcc.go:166-207), and a page lists as paid or as ongoing only what
\* it lists as registered (issue-detail.tsx).
THEOREM TypeCorrect == FSpec => []FlowTypeOK
<1>1. ASSUME DInv, PageInv, DoneInv, TxInv PROVE FlowTypeOK
  <2>1. coins \in [Addr -> Nat] /\ rights \in [Addr -> UInt]
        /\ moved \subseteq Addr /\ again \subseteq moved
    BY <1>1 DEF DInv, StoreOK, TxInv, FlowTypes
  <2>2. \A p \in Page : /\ page[p].listed \in Index
                        /\ page[p].done \subseteq 1 .. page[p].listed
                        /\ page[p].ongoing \subseteq Registering(p)
    BY <1>1, PageParts DEF PageInv, DoneInv
  <2>3. \A x \in Tx : /\ DOMAIN req[x].dues \subseteq Listed
                      /\ req[x].stage \in {"new", "asked", "payable", "built", "sent"}
                      /\ vote[x] \in [Chain -> {"none", "ok", "failed"}]
    BY <1>1 DEF TxInv, FlowTypes, RowFine, Stages
  <2> QED  BY <2>1, <2>2, <2>3 DEF FlowTypeOK
<1>2. FInit => PageInv /\ DoneInv
  <2>1. ASSUME FInit PROVE PageInv /\ DoneInv
    <3>1. page = [p \in Page |-> Opened]
      BY <2>1 DEF FInit
    <3>2. Opened.done = {}
      BY DEF Opened
    <3> QED  BY <3>1, <3>2, PageTypes DEF PageInv, DoneInv
  <2> QED  BY <2>1
<1>3. DInv /\ PageInv /\ [FNext]_fvars => PageInv'
  BY PageStep
<1>4. PageInv /\ DoneInv /\ [FNext]_fvars => DoneInv'
  BY DoneStep
<1>5. DInv /\ TxInv /\ [FNext]_fvars => TxInv'
  BY TxStep
<1> QED  BY <1>1, <1>2, <1>3, <1>4, <1>5, InitHolds, NextHolds, TxInit, PTL DEF FSpec

-----------------------------------------------------------------------------
(* The flow implements DividendPayout. *)

\* Balances after some writes.
WrittenOn(balances, writes) ==
    [a \in Addr |-> IF a \in DOMAIN writes THEN writes[a] ELSE balances[a]]

\* A transaction that is to be committed is the only one that is prepared: the
\* balances are those that it writes, and the dividend is paid.
CoinsAre ==
    /\ Committing("coin") = {} => EffectiveCoins = coins
    /\ \A x \in Committing("coin") : EffectiveCoins = WrittenOn(coins, req[x].batch)

SettledAre ==
    /\ EffectivelyWaits <=> Waits /\ Committing("security") = {}
    /\ Cardinality(EffectivePaid) = IF EffectivelyWaits THEN Last - 1 ELSE Last
    /\ Last \in Nat /\ (Waits => Last - 1 \in Nat)

LEMMA CommittingPrepared ==
    ASSUME TxInv, NEW c \in Chain, NEW x \in Committing(c)
    PROVE  x \in Tx /\ x \in Prepared(c) /\ Committing(c) = {x}
<1>1. \A y \in Committing(c) : y \in Tx /\ y \in Prepared(c)
  BY DEF Committing, Prepared, TxInv, TxPhases
<1> QED  BY <1>1 DEF TxInv, OnePrepared

LEMMA CoinsKnown == TxInv => CoinsAre
<1> SUFFICES ASSUME TxInv PROVE CoinsAre
  OBVIOUS
<1>1. Committing("coin") = {} => EffectiveCoins = coins
  BY DEF EffectiveCoins
<1>2. ASSUME NEW x \in Committing("coin")
      PROVE  EffectiveCoins = WrittenOn(coins, req[x].batch)
  <2>1. Committing("coin") = {x}
    BY CommittingPrepared, Chains
  <2>2. (CHOOSE y \in Committing("coin") : TRUE) = x
    BY <2>1
  <2>3. EffectiveCoins = Written(req[x].batch)
    BY <2>1, <2>2 DEF EffectiveCoins
  <2> QED  BY <2>3 DEF Written, WrittenOn
<1> QED  BY <1>1, <1>2 DEF CoinsAre

LEMMA Counting ==
    ASSUME NEW n \in Nat, NEW S, 1 .. n - 1 \subseteq S, S \subseteq 1 .. n
    PROVE  Cardinality(S) = IF n # 0 /\ n \notin S THEN n - 1 ELSE n
<1>1. /\ \A i \in S : i \in 1 .. n
      /\ \A i \in 1 .. n : i = n \/ i \in 1 .. n - 1
  OBVIOUS
<1>2. CASE n = 0
  <2>1. S = {}
    BY <1>1, <1>2
  <2> QED  BY <1>2, <2>1, FS_EmptySet
<1>3. CASE n # 0 /\ n \notin S
  <2>1. S = 1 .. n - 1
    BY <1>1, <1>3
  <2>2. n - 1 \in Nat
    BY <1>3
  <2>3. Cardinality(1 .. n - 1) = n - 1
    BY <2>2, FS_Interval
  <2> QED  BY <1>3, <2>1, <2>3
<1>4. CASE n # 0 /\ n \in S
  <2>1. S = 1 .. n
    <3>1. \A i \in 1 .. n : i \in S
      BY <1>1, <1>4
    <3> QED  BY <1>1, <3>1
  <2>2. Cardinality(1 .. n) = n
    BY FS_Interval
  <2> QED  BY <1>4, <2>1, <2>2
<1> QED  BY <1>2, <1>3, <1>4

LEMMA SettledKnown == DInv /\ TxInv => SettledAre
<1> SUFFICES ASSUME DInv, TxInv PROVE SettledAre
  OBVIOUS
<1>1. Last \in Nat
  BY Indexes DEF DInv
<1>2. \A x \in Committing("security") : req[x].index = Last /\ Last # 0 /\ Last \notin paid[1]
  BY CommittingPrepared, Chains DEF TxInv, PayReady, PayAllowed
<1>3. EffectivePaid = IF Committing("security") = {} THEN paid[1] ELSE paid[1] \cup {Last}
  BY <1>2 DEF EffectivePaid
<1>4. EffectivelyWaits <=> Waits /\ Committing("security") = {}
  BY <1>3 DEF EffectivelyWaits, Waits, Unpaid, Last
<1>5. 1 .. Last - 1 \subseteq EffectivePaid /\ EffectivePaid \subseteq 1 .. Last
  BY <1>1, <1>2, <1>3 DEF TxInv, PaidInOrder
<1>6. Cardinality(EffectivePaid) = IF EffectivelyWaits THEN Last - 1 ELSE Last
  BY <1>1, <1>5, Counting DEF EffectivelyWaits
<1>7. Waits => Last - 1 \in Nat
  BY <1>1 DEF Waits, Unpaid, Last
<1> QED  BY <1>1, <1>4, <1>6, <1>7 DEF SettledAre

LEMMA DealMade == ASSUME NEW a, NEW b, NEW n PROVE [from |-> a, to |-> b, value |-> n] # NoSale
  BY DEF NoSale

\* Nothing changes of what DividendPayout tells of.
LEMMA PayoutKept ==
    ASSUME SettledAre, SettledAre',
           UNCHANGED <<sale, rights, moved, again, perShare, dividendIndex>>,
           amount'[1] = amount[1], EffectiveCoins' = EffectiveCoins,
           EffectivelyWaits' <=> EffectivelyWaits
    PROVE  UNCHANGED Payout!vars
<1>1. Last' = Last
  BY DEF Last
<1>2. Cardinality(EffectivePaid)' = Cardinality(EffectivePaid)
  BY <1>1 DEF SettledAre
<1>3. RightNow' = RightNow /\ OnceNow' = OnceNow /\ AgainNow' = AgainNow
  BY DEF RightNow, OnceNow, AgainNow
<1>4. CumNow' = CumNow
  BY <1>1 DEF CumNow, NoSale
<1>5. (perShare[1][Last])' = perShare[1][Last]
  BY <1>1
<1>6. DealNow' = DealNow
  BY DEF DealNow, NoSale
<1> QED  BY <1>1, <1>2, <1>3, <1>4, <1>5, <1>6 DEF Payout!vars, Payout!dividend

\* A step that neither decides nor finishes a transaction.
LEMMA UndecidedKeeps ==
    ASSUME TxInv, CoinsAre, CoinsAre', SettledAre, SettledAre',
           UNCHANGED <<amount, perShare, dividendIndex, paid, rights, moved, again, sale, coins>>,
           UNCHANGED <<decision, finished>>,
           \A x \in Tx : req[x].stage = "sent" => req'[x].batch = req[x].batch
    PROVE  UNCHANGED Payout!vars
<1>1. \A c \in Chain : Committing(c)' = Committing(c)
  BY DEF Committing
<1>2. Last' = Last /\ Waits' = Waits
  BY DEF Last, Waits, Unpaid
<1>3. EffectivelyWaits' <=> EffectivelyWaits
  BY <1>1, <1>2, Chains DEF SettledAre
<1>4. EffectiveCoins' = EffectiveCoins
  <2>1. CASE Committing("coin") = {}
    BY <1>1, <2>1, Chains DEF CoinsAre
  <2>2. ASSUME NEW x \in Committing("coin") PROVE EffectiveCoins' = EffectiveCoins
    <3>1. x \in Tx /\ req[x].stage = "sent"
      BY CommittingPrepared, Chains DEF TxInv, TxPhases, Prepared
    <3>2. EffectiveCoins' = WrittenOn(coins', req'[x].batch)
      BY <1>1, Chains DEF CoinsAre
    <3>3. EffectiveCoins = WrittenOn(coins, req[x].batch)
      BY DEF CoinsAre
    <3> QED  BY <3>1, <3>2, <3>3
  <2> QED  BY <2>1, <2>2
<1> QED  BY <1>3, <1>4, PayoutKept

\* A coin moves that no transaction is about.
LEMMA MoveCoinIs ==
    ASSUME TxInv, CoinsAre, CoinsAre', SettledAre, SettledAre',
           NEW from \in Addr, NEW to \in Addr, MoveCoin(from, to)
    PROVE  Payout!MoveCoin
<1>1. /\ UNCHANGED <<contract, sale, req, cross, rights, moved, again>> /\ from # to /\ coins[from] > 0
      /\ ~CoinsLocked({from, to})
      /\ coins' = [coins EXCEPT ![from] = @ - 1, ![to] = @ + 1]
  BY DEF MoveCoin
<1>2. UNCHANGED <<amount, perShare, dividendIndex, paid, vote, decision, finished>>
  BY <1>1 DEF contract, tokenVars, dividendVars, cross
<1>3. \A c \in Chain : Committing(c)' = Committing(c)
  BY <1>2 DEF Committing
<1>4. Last' = Last /\ Waits' = Waits
  BY <1>2 DEF Last, Waits, Unpaid
<1>5. EffectivelyWaits' <=> EffectivelyWaits
  BY <1>3, <1>4, Chains DEF SettledAre
<1>6. coins \in [Addr -> Nat]
  BY DEF TxInv, FlowTypes
<1>7. /\ EffectiveCoins[from] > 0
      /\ EffectiveCoins' = Payout!Moved(EffectiveCoins, from, to, 1)
  <2>1. CASE Committing("coin") = {}
    <3>1. EffectiveCoins = coins /\ EffectiveCoins' = coins'
      BY <1>3, <2>1, Chains DEF CoinsAre
    <3> QED  BY <1>1, <3>1 DEF Payout!Moved
  <2>2. ASSUME NEW x \in Committing("coin")
        PROVE  /\ EffectiveCoins[from] > 0
               /\ EffectiveCoins' = Payout!Moved(EffectiveCoins, from, to, 1)
    <3>1. PICK w : w = req[x].batch
      OBVIOUS
    <3>2. EffectiveCoins = WrittenOn(coins, w) /\ EffectiveCoins' = WrittenOn(coins', w)
      BY <1>1, <1>3, <3>1, Chains DEF CoinsAre
    <3>3. from \notin DOMAIN w /\ to \notin DOMAIN w
      BY <1>1, <3>1, CommittingPrepared, Chains DEF CoinsLocked
    <3>4. WrittenOn(coins', w)
            = [WrittenOn(coins, w) EXCEPT ![from] = coins[from] - 1, ![to] = coins[to] + 1]
      BY <1>1, <1>6, <3>3 DEF WrittenOn
    <3>5. WrittenOn(coins, w)[from] = coins[from] /\ WrittenOn(coins, w)[to] = coins[to]
      BY <3>3 DEF WrittenOn
    <3> QED  BY <1>1, <3>2, <3>4, <3>5 DEF Payout!Moved
  <2> QED  BY <2>1, <2>2
<1>8. RightNow' = RightNow /\ OnceNow' = OnceNow /\ AgainNow' = AgainNow
  BY <1>1, <1>5 DEF RightNow, OnceNow, AgainNow
<1>9. CumNow' = CumNow
  BY <1>1, <1>4, <1>5 DEF CumNow, NoSale
<1>10. DealNow' = DealNow
  BY <1>1 DEF DealNow, NoSale
<1>11. Cardinality(EffectivePaid)' = Cardinality(EffectivePaid)
  BY <1>4, <1>5 DEF SettledAre
<1> QED
  BY <1>1, <1>2, <1>4, <1>7, <1>8, <1>9, <1>10, <1>11
     DEF Payout!MoveCoin, Payout!dividend

\* The coins and what is paid, when only a sale is prepared, made or dropped.
LEMMA SaleAside ==
    ASSUME TxInv, CoinsAre, CoinsAre', SettledAre, SettledAre',
           UNCHANGED <<coins, req, cross, perShare, dividendIndex, paid>>
    PROVE  /\ EffectiveCoins' = EffectiveCoins /\ Last' = Last /\ Waits' = Waits
           /\ EffectivelyWaits' <=> EffectivelyWaits
           /\ (perShare[1][Last])' = perShare[1][Last]
           /\ Cardinality(EffectivePaid)' = Cardinality(EffectivePaid)
<1>1. \A c \in Chain : Committing(c)' = Committing(c)
  BY DEF Committing, cross
<1>2. Last' = Last /\ Waits' = Waits
  BY DEF Last, Waits, Unpaid
<1>3. EffectivelyWaits' <=> EffectivelyWaits
  BY <1>1, <1>2, Chains DEF SettledAre
<1>4. EffectiveCoins' = EffectiveCoins
  <2>1. CASE Committing("coin") = {}
    BY <1>1, <2>1, Chains DEF CoinsAre
  <2>2. ASSUME NEW x \in Committing("coin") PROVE EffectiveCoins' = EffectiveCoins
    <3>1. EffectiveCoins' = WrittenOn(coins', req'[x].batch)
      BY <1>1, Chains DEF CoinsAre
    <3>2. EffectiveCoins = WrittenOn(coins, req[x].batch)
      BY DEF CoinsAre
    <3> QED  BY <3>1, <3>2
  <2> QED  BY <2>1, <2>2
<1>5. (perShare[1][Last])' = perShare[1][Last]
  BY <1>2
<1>6. Cardinality(EffectivePaid)' = Cardinality(EffectivePaid)
  BY <1>2, <1>3 DEF SettledAre
<1> QED  BY <1>2, <1>3, <1>4, <1>5, <1>6

LEMMA PrepareSaleIs ==
    ASSUME DInv, TxInv, CoinsAre, CoinsAre', SettledAre, SettledAre',
           NEW from \in Sellers, NEW to \in Addr, NEW n \in Shares, PrepareSale(from, to, n)
    PROVE  Payout!Agree
<1>1. /\ sale = NoSale /\ Sub64(amount[1][from], n).ok
      /\ sale'.from = from /\ sale'.to = to /\ sale'.value = n
      /\ sale'.index = IF Waits THEN Last ELSE 0
      /\ UNCHANGED <<contract, coins, req, cross, rights, moved, again>>
  BY DEF PrepareSale
<1>2. UNCHANGED <<amount, perShare, dividendIndex, paid>>
  BY <1>1, ContractKept
<1>3. /\ EffectiveCoins' = EffectiveCoins /\ Last' = Last /\ Waits' = Waits
      /\ EffectivelyWaits' <=> EffectivelyWaits
      /\ (perShare[1][Last])' = perShare[1][Last]
      /\ Cardinality(EffectivePaid)' = Cardinality(EffectivePaid)
  BY <1>1, <1>2, SaleAside
<1>4. sale' # NoSale
  BY <1>1, FlowAssumption, EstateAssumption DEF NoSale
<1>5. from \in Addr /\ amount[1][from] \in UInt /\ n \in UInt
  BY Basics, FlowAssumption DEF DInv, StoreOK
<1>6. amount[1][from] >= n
  <2>1. amount[1][from] - n \in UInt
    BY <1>1, <1>5, SubIsExact
  <2>2. amount[1][from] - n \in Nat /\ amount[1][from] \in Nat /\ n \in Nat
    BY <1>5, <2>1, Basics
  <2> QED  BY <2>2
<1>7. ~CumNow /\ ~CumNow'
  BY <1>1, <1>3 DEF CumNow, SettledAre
<1>8. DealNow' = [from |-> from, to |-> to, value |-> n]
  <2>1. DealNow' = [from |-> sale'.from, to |-> sale'.to, value |-> sale'.value]
    BY <1>4 DEF DealNow, NoSale
  <2> QED  BY <1>1, <2>1
<1>9. DealNow = NoSale
  BY <1>1 DEF DealNow
<1>10. RightNow' = RightNow /\ OnceNow' = OnceNow /\ AgainNow' = AgainNow
  BY <1>1, <1>3 DEF RightNow, OnceNow, AgainNow
<1>11. amount'[1] = amount[1] /\ CumNow' = CumNow
  BY <1>1, <1>2, <1>3, <1>7 DEF CumNow
<1>12. /\ DealNow' \in [from : Addr, to : Addr, value : Shares]
       /\ amount[1][DealNow'.from] >= DealNow'.value
  BY <1>5, <1>6, <1>8
<1>13. UNCHANGED Payout!dividend
  BY <1>3, <1>10 DEF Payout!dividend
<1> QED  BY <1>3, <1>9, <1>11, <1>12, <1>13 DEF Payout!Agree

LEMMA CommitSaleIs ==
    ASSUME DInv, TxInv, CoinsAre, CoinsAre', SettledAre, SettledAre', CommitSale
    PROVE  Payout!TakePlace
<1> DEFINE f == sale.from
           t == sale.to
           v == sale.value
<1>1. sale # NoSale /\ sale' = NoSale /\ sale.index \in 0 .. Last
  BY DEF CommitSale, DInv, SaleOK
<1>2. /\ 1 \in Token /\ amount \in [Token -> [Addr -> UInt]] /\ rights \in [Addr -> UInt]
      /\ UNCHANGED <<coins, req, cross, perShare, dividendIndex, paid>>
  BY Basics DEF DInv, StoreOK, CommitSale
<1>3. amount'[1] = Payout!Moved(amount[1], f, t, v)
  BY <1>1, <1>2 DEF CommitSale, Sold, Payout!Moved
<1>4. /\ EffectiveCoins' = EffectiveCoins /\ Last' = Last /\ Waits' = Waits
      /\ EffectivelyWaits' <=> EffectivelyWaits
      /\ (perShare[1][Last])' = perShare[1][Last]
      /\ Cardinality(EffectivePaid)' = Cardinality(EffectivePaid)
  BY <1>2, SaleAside
<1>5. /\ EffectivelyWaits => Waits /\ Last # 0
      /\ EffectivelyWaits <=> Cardinality(EffectivePaid) < Last
      /\ ~EffectivelyWaits => Cardinality(EffectivePaid) = Last
  BY DEF SettledAre, EffectivelyWaits
<1>6. /\ DealNow # NoSale /\ DealNow.from = f /\ DealNow.to = t /\ DealNow.value = v
      /\ DealNow' = NoSale /\ ~CumNow'
  BY <1>1, DealMade DEF DealNow, CumNow
<1>7. CASE EffectivelyWaits /\ sale.index # Last
  <2>1. /\ rights' = Payout!Moved(rights, f, t, v) /\ UNCHANGED <<moved, again>>
    BY <1>1, <1>5, <1>7 DEF CommitSale, Sold, Payout!Moved
  <2>2. /\ RightNow' = Payout!Moved(RightNow, f, t, v)
        /\ OnceNow' = OnceNow /\ AgainNow' = AgainNow
    BY <1>4, <1>7, <2>1 DEF RightNow, OnceNow, AgainNow
  <2>3. CumNow
    BY <1>1, <1>7 DEF CumNow
  <2>4. Payout!TakeAlong
    BY <1>6, <2>2, <2>3 DEF Payout!TakeAlong
  <2> QED  BY <1>3, <1>4, <1>6, <2>4 DEF Payout!TakePlace
<1>8. CASE EffectivelyWaits /\ sale.index = Last
  <2>1. /\ rights' = rights /\ moved' = moved \cup {f, t}
        /\ again' = again \cup ({f, t} \cap moved) \cup (IF f = t THEN {f} ELSE {})
    BY <1>5, <1>8 DEF CommitSale, MovedAgain
  <2>2. /\ RightNow' = RightNow /\ OnceNow' = OnceNow \cup {f, t}
        /\ AgainNow' = AgainNow \cup ({f, t} \cap OnceNow) \cup (IF f = t THEN {f} ELSE {})
    BY <1>4, <1>8, <2>1 DEF RightNow, OnceNow, AgainNow
  <2>3. ~CumNow
    BY <1>8 DEF CumNow
  <2>4. Payout!LeaveBehind
    BY <1>5, <1>6, <1>8, <2>2, <2>3 DEF Payout!LeaveBehind
  <2> QED  BY <1>3, <1>4, <1>6, <2>4 DEF Payout!TakePlace
<1>9. CASE ~EffectivelyWaits
  <2>1. RightNow' = RightNow /\ OnceNow' = OnceNow /\ AgainNow' = AgainNow
    BY <1>4, <1>9 DEF RightNow, OnceNow, AgainNow
  <2>2. ~CumNow
    BY <1>9 DEF CumNow
  <2>3. Payout!NoRight
    BY <1>5, <1>9, <2>1, <2>2 DEF Payout!NoRight
  <2> QED  BY <1>3, <1>4, <1>6, <2>3 DEF Payout!TakePlace
<1> QED  BY <1>7, <1>8, <1>9

LEMMA AbortSaleIs ==
    ASSUME DInv, TxInv, CoinsAre, CoinsAre', SettledAre, SettledAre', AbortSale
    PROVE  Payout!FallThrough
<1>1. /\ sale # NoSale /\ sale' = NoSale
      /\ UNCHANGED <<coins, req, cross, rights, moved, again, amount, perShare, dividendIndex, paid>>
  BY ContractKept DEF AbortSale
<1>2. /\ EffectiveCoins' = EffectiveCoins /\ Last' = Last
      /\ EffectivelyWaits' <=> EffectivelyWaits
      /\ (perShare[1][Last])' = perShare[1][Last]
      /\ Cardinality(EffectivePaid)' = Cardinality(EffectivePaid)
  BY <1>1, SaleAside
<1>3. DealNow # NoSale
  BY <1>1, DealMade DEF DealNow
<1>4. DealNow' = NoSale
  BY <1>1 DEF DealNow
<1>5. ~CumNow'
  BY <1>1 DEF CumNow
<1>6. RightNow' = RightNow /\ OnceNow' = OnceNow /\ AgainNow' = AgainNow
  BY <1>1, <1>2 DEF RightNow, OnceNow, AgainNow
<1>7. amount'[1] = amount[1]
  BY <1>1
<1> QED  BY <1>2, <1>3, <1>4, <1>5, <1>6, <1>7
     DEF Payout!FallThrough, Payout!dividend

LEMMA RegisterIs ==
    ASSUME DInv, TxInv, CoinsAre, CoinsAre', SettledAre, SettledAre',
           NEW share \in PerShare, BroadcastRegister(share)
    PROVE  Payout!Register
<1>1. /\ ~Waits /\ Prepared("security") = {}
      /\ dividendIndex' = [dividendIndex EXCEPT ![1] = Last + 1]
      /\ perShare' = [perShare EXCEPT ![1][Last + 1] = share]
      /\ Last + 1 \in Index
      /\ UNCHANGED <<amount, paid, coins, req, cross, sale>>
      /\ rights' = amount[1] /\ moved' = {} /\ again' = {}
  BY DEF BroadcastRegister, PaidLocked, RegisterDividend, tokenVars, Waits, Last
<1>2. UNCHANGED <<vote, decision, finished>>
  BY <1>1 DEF cross
<1>3. /\ 1 \in Token /\ Last \in Nat /\ Last' = Last + 1
      /\ perShare \in [Token -> [Index -> UInt]]
  BY <1>1, Basics, Indexes DEF DInv, StoreOK, Last
<1>4. /\ \A c \in Chain : Committing(c)' = Committing(c)
      /\ Committing("security") = {}
  <2>1. Committing("security") = {}
    BY <1>1, CommittingPrepared, Chains
  <2> QED  BY <1>2, <2>1 DEF Committing
<1>5. EffectivelyWaits' /\ ~EffectivelyWaits
  <2>1. Last + 1 \notin paid[1] /\ Last + 1 # 0
    BY <1>3 DEF TxInv, PaidInOrder
  <2>2. Waits'
    BY <1>1, <1>3, <2>1 DEF Waits, Unpaid, Last
  <2> QED  BY <1>1, <1>4, <2>2, Chains DEF SettledAre
<1>6. Cardinality(EffectivePaid) = Last /\ Cardinality(EffectivePaid)' = Last
  BY <1>3, <1>5 DEF SettledAre
<1>7. EffectiveCoins' = EffectiveCoins
  <2>1. CASE Committing("coin") = {}
    BY <1>1, <1>4, <2>1, Chains DEF CoinsAre
  <2>2. ASSUME NEW x \in Committing("coin") PROVE EffectiveCoins' = EffectiveCoins
    <3>1. EffectiveCoins' = WrittenOn(coins', req'[x].batch)
      BY <1>4, Chains DEF CoinsAre
    <3>2. EffectiveCoins = WrittenOn(coins, req[x].batch)
      BY DEF CoinsAre
    <3> QED  BY <1>1, <3>1, <3>2
  <2> QED  BY <2>1, <2>2
<1>8. (perShare[1][Last])' = share
  BY <1>1, <1>3
<1>9. sale # NoSale => sale.index # Last + 1
  BY <1>3 DEF DInv, SaleOK
<1>10. CumNow' = (DealNow # NoSale)
  BY <1>1, <1>3, <1>5, <1>9, DealMade DEF CumNow, DealNow
<1>11. RightNow' = amount[1] /\ OnceNow' = {} /\ AgainNow' = {}
  BY <1>1, <1>5 DEF RightNow, OnceNow, AgainNow
<1>12. DealNow' = DealNow
  BY <1>1 DEF DealNow, NoSale
<1>13. amount'[1] = amount[1]
  BY <1>1
<1> QED
  BY <1>3, <1>6, <1>7, <1>8, <1>10, <1>11, <1>12, <1>13 DEF Payout!Register

LEMMA SumSame == ASSUME NEW f, NEW S PROVE Payout!SumFunctionOnSet(f, S) = SumFunctionOnSet(f, S)
  BY DEF SumFunctionOnSet, FoldFunctionOnSet, MapThenFoldSet, Payout!SumFunctionOnSet,
         Payout!FoldFunctionOnSet, Payout!MapThenFoldSet

\* The decision to commit pays everyone what their shares earn.
LEMMA CommitIs ==
    ASSUME DInv, TxInv, CoinsAre, CoinsAre', SettledAre, SettledAre', NEW x \in Tx,
           Decide(x), \A c \in Chain : vote[x][c] = "ok"
    PROVE  Payout!Distribute
<1> DEFINE dues == req[x].dues
           rate == perShare[1][Last]
<1>1. /\ decision[x] = "none" /\ decision' \in [Tx -> {"none", "commit", "abort"}]
      /\ \A y \in Tx : decision'[y] = IF y = x THEN "commit" ELSE decision[y]
      /\ UNCHANGED <<amount, perShare, dividendIndex, paid, coins, sale, req, vote, finished,
                     rights, moved, again>>
  <2>1. decision' = [decision EXCEPT ![x] = "commit"]
    <3>1. ~ \E c \in Chain : vote[x][c] = "failed"
      OBVIOUS
    <3> QED  BY <3>1 DEF Decide
  <2>2. decision \in [Tx -> {"none", "commit", "abort"}]
    BY DEF TxInv, FlowTypes
  <2> QED  BY <2>1, <2>2, ContractKept DEF Decide
<1>2. \A c \in Chain : x \in Prepared(c)
  BY <1>1 DEF TxInv, TxPhases, Prepared
<1>3. \A c \in Chain : Committing(c) = {} /\ Committing(c)' = {x}
  <2>1. ASSUME NEW c \in Chain, NEW y \in Committing(c) PROVE FALSE
    <3>1. y = x
      BY <1>2, CommittingPrepared DEF TxInv, OnePrepared
    <3> QED  BY <1>1, <3>1 DEF Committing
  <2>2. ASSUME NEW c \in Chain PROVE Committing(c)' = {x}
    <3>1. x \in Committing(c)'
      BY <1>1, <1>2 DEF Committing, Prepared
    <3>2. \A y \in Committing(c)' : y = x
      BY <1>1, <2>1 DEF Committing
    <3> QED  BY <3>1, <3>2
  <2> QED  BY <2>1, <2>2
<1>4. req[x].index = Last /\ Waits /\ Last' = Last /\ Last \in Nat /\ 1 \in Token
  <2>1. PayAllowed(req[x].index)
    BY <1>2, Chains DEF TxInv, PayReady
  <2> QED  BY <1>1, <2>1, Indexes, Basics DEF PayAllowed, Waits, Unpaid, Last, DInv
<1>5. EffectivelyWaits /\ ~EffectivelyWaits'
  BY <1>3, <1>4, Chains DEF SettledAre
<1>6. /\ Cardinality(EffectivePaid) = Last - 1 /\ Cardinality(EffectivePaid)' = Last
      /\ Cardinality(EffectivePaid) < Last
  BY <1>4, <1>5 DEF SettledAre
<1>7. /\ DOMAIN dues = Listed /\ \A a \in Listed : dues[a] \in Nat
      /\ \A a \in Listed \ again : dues[a] = rights[a] * rate
      /\ SumFunction(dues) \in Nat
  <2>1. RowFine(req[x]) /\ req[x].stage = "sent"
    BY <1>2, Chains DEF TxInv, FlowTypes, TxPhases, Prepared
  <2>2. DOMAIN dues = Listed /\ \A a \in Listed : dues[a] \in Nat
    BY <2>1 DEF RowFine
  <2>3. \A a \in Listed \ again : dues[a] = rights[a] * rate
    BY <1>4, <2>2 DEF DInv, DuesRight
  <2> QED  BY <2>1, <2>2, <2>3, SumOfDues
<1>8. /\ Payable(dues) /\ req[x].batch = Batch(dues)
  BY <1>2, Chains DEF TxInv, CoinReady
<1>9. EffectiveCoins = coins /\ EffectiveCoins' = WrittenOn(coins, req[x].batch)
  BY <1>1, <1>3, Chains DEF CoinsAre
<1>10. RightNow = rights /\ AgainNow = again
  BY <1>5 DEF RightNow, AgainNow
<1>11. PICK pay : pay = [a \in Listed |-> dues[a]]
  OBVIOUS
<1>12. /\ pay \in [Listed -> 0 .. EffectiveCoins[Issuer]]
       /\ Payout!SumFunction(pay) = SumFunction(dues)
       /\ SumFunction(dues) <= EffectiveCoins[Issuer]
  <2>1. SumFunction(dues) <= coins[Issuer] /\ coins[Issuer] \in Nat
    BY <1>8, FlowAssumption DEF Payable, TxInv, FlowTypes
  <2>2. pay \in [Listed -> Nat]
    BY <1>7, <1>11
  <2>3. SumFunction(pay) = SumFunction(dues)
    <3>1. /\ SumFunction(pay) = SumFunctionOnSet(pay, Listed)
          /\ SumFunction(dues) = SumFunctionOnSet(dues, Listed)
      BY <1>7, <2>2 DEF SumFunction
    <3>2. \A a \in Listed : pay[a] = dues[a]
      BY <1>11
    <3> HIDE DEF dues
    <3>3. SumFunctionOnSet(pay, Listed) = SumFunctionOnSet(dues, Listed)
      BY <3>2, ListedFinite, SumCongruent
    <3> QED  BY <3>1, <3>3
  <2>4. \A a \in Listed : pay[a] \in Nat /\ pay[a] <= SumFunction(pay)
    BY <2>2, ListedFinite, SumBounds
  <2>5. Payout!SumFunction(pay) = SumFunction(pay)
    BY SumSame DEF Payout!SumFunction, SumFunction
  <2>6. \A a \in Listed : pay[a] \in 0 .. coins[Issuer]
    <3> HIDE DEF dues
    <3> QED  BY <1>7, <2>1, <2>3, <2>4
  <2> QED  BY <1>9, <2>1, <2>2, <2>3, <2>5, <2>6
<1>13. \A a \in Listed \ AgainNow : pay[a] = Payout!Due(a)
  BY <1>7, <1>10, <1>11, ListedFinite DEF Payout!Due
<1>14. Payout!Pay(pay)
  <2> HIDE DEF dues
  <2> DEFINE left(a) == IF a = Issuer THEN coins[a] - SumFunction(dues) ELSE coins[a]
  <2>1. \A a \in Addr : coins[a] \in Nat
    BY DEF TxInv, FlowTypes
  <2>2. \A a \in Addr : left(a) \in Int
    BY <1>7, <2>1
  <2>3. DOMAIN Batch(dues) = Payees(dues) \cup {Issuer}
    BY DEF Batch
  <2>4. ASSUME NEW a \in Addr
        PROVE  WrittenOn(coins, Batch(dues))[a] = left(a) + (IF a \in Listed THEN pay[a] ELSE 0)
    <3>1. a \in Payees(dues) <=> a \in Listed /\ pay[a] # 0
      BY <1>7, <1>11 DEF Payees
    <3>2. CASE a \in Payees(dues) \cup {Issuer}
      <4>1. WrittenOn(coins, Batch(dues))[a] = Batch(dues)[a]
        BY <2>3, <3>2 DEF WrittenOn
      <4>2. Batch(dues)[a] = left(a) + (IF a \in Payees(dues) THEN dues[a] ELSE 0)
        BY <3>2 DEF Batch
      <4>3. (IF a \in Payees(dues) THEN dues[a] ELSE 0) = (IF a \in Listed THEN pay[a] ELSE 0)
        BY <1>7, <1>11, <3>1
      <4> QED  BY <4>1, <4>2, <4>3
    <3>3. CASE a \notin Payees(dues) \cup {Issuer}
      <4>1. WrittenOn(coins, Batch(dues))[a] = coins[a] /\ left(a) = coins[a]
        BY <2>3, <3>3 DEF WrittenOn
      <4>2. (IF a \in Listed THEN pay[a] ELSE 0) = 0
        BY <3>1, <3>3
      <4> QED  BY <2>1, <4>1, <4>2
    <3> QED  BY <3>2, <3>3
  <2>5. ASSUME NEW a \in Addr
        PROVE  (IF a = Issuer THEN EffectiveCoins[a] - Payout!SumFunction(pay)
                ELSE EffectiveCoins[a])
                   + (IF a \in Listed THEN pay[a] ELSE 0)
                 = WrittenOn(coins, Batch(dues))[a]
    BY <1>9, <1>12, <2>4
  <2>6. EffectiveCoins' = WrittenOn(coins, Batch(dues))
    BY <1>8, <1>9
  <2>7. DOMAIN WrittenOn(coins, Batch(dues)) = Addr
          /\ WrittenOn(coins, Batch(dues)) = [a \in Addr |-> WrittenOn(coins, Batch(dues))[a]]
    BY DEF WrittenOn
  <2> HIDE DEF left
  <2> QED  BY <2>5, <2>6, <2>7 DEF Payout!Pay
<1>15. RightNow' = Payout!Nobody /\ OnceNow' = {} /\ AgainNow' = {} /\ ~CumNow'
  BY <1>5 DEF RightNow, OnceNow, AgainNow, CumNow, Payout!Nobody
<1>16. DealNow' = DealNow
  BY <1>1 DEF DealNow, NoSale
<1>17. amount'[1] = amount[1] /\ (perShare[1][Last])' = perShare[1][Last]
  BY <1>1, <1>4
<1> HIDE DEF dues, rate
<1>18. \E p \in [Listed -> 0 .. EffectiveCoins[Issuer]] :
          /\ \A a \in Listed \ AgainNow : p[a] = Payout!Due(a)
          /\ Payout!SumFunction(p) <= EffectiveCoins[Issuer]
          /\ Payout!Pay(p)
  BY <1>12, <1>13, <1>14
<1> QED
  BY <1>4, <1>6, <1>15, <1>16, <1>17, <1>18 DEF Payout!Distribute

\* An abort changes nothing that counts.
LEMMA AbortKeeps ==
    ASSUME TxInv, CoinsAre, CoinsAre', SettledAre, SettledAre', NEW x \in Tx, Decide(x),
           ~ \A c \in Chain : vote[x][c] = "ok"
    PROVE  UNCHANGED Payout!vars
<1>1. /\ decision[x] = "none" /\ decision' = [decision EXCEPT ![x] = "abort"]
      /\ UNCHANGED <<amount, perShare, dividendIndex, paid, coins, sale, req, vote, finished,
                     rights, moved, again>>
  BY ContractKept DEF Decide
<1>2. \A y \in Tx : decision'[y] = "commit" <=> decision[y] = "commit"
  BY <1>1 DEF TxInv, FlowTypes
<1>3. \A c \in Chain : Committing(c)' = Committing(c)
  BY <1>1, <1>2 DEF Committing
<1>4. EffectivelyWaits' <=> EffectivelyWaits
  BY <1>1, <1>3, Chains DEF SettledAre, Waits, Unpaid, Last
<1>5. EffectiveCoins' = EffectiveCoins
  <2>1. CASE Committing("coin") = {}
    BY <1>1, <1>3, <2>1, Chains DEF CoinsAre
  <2>2. ASSUME NEW y \in Committing("coin") PROVE EffectiveCoins' = EffectiveCoins
    <3>1. EffectiveCoins' = WrittenOn(coins', req'[y].batch)
      BY <1>3, Chains DEF CoinsAre
    <3>2. EffectiveCoins = WrittenOn(coins, req[y].batch)
      BY DEF CoinsAre
    <3> QED  BY <1>1, <3>1, <3>2
  <2> QED  BY <2>1, <2>2
<1> QED  BY <1>1, <1>4, <1>5, PayoutKept

\* What the chains have left to write once one has finished.
LEMMA FinishedCommitting ==
    ASSUME TxInv, NEW x \in Tx, NEW c \in Chain, x \notin finished[c],
           finished' = [finished EXCEPT ![c] = @ \cup {x}], decision' = decision
    PROVE  /\ \A e \in Chain : e # c => Committing(e)' = Committing(e)
           /\ decision[x] = "commit" => Committing(c) = {x} /\ Committing(c)' = {}
           /\ decision[x] # "commit" => Committing(c)' = Committing(c)
<1>1. \A e \in Chain : finished'[e] = IF e = c THEN finished[c] \cup {x} ELSE finished[e]
  BY DEF TxInv, FlowTypes
<1>2. \A e \in Chain : e # c => Committing(e)' = Committing(e)
  BY <1>1 DEF Committing
<1>3. Committing(c)' = Committing(c) \ {x}
  BY <1>1 DEF Committing
<1>4. decision[x] = "commit" => x \in Committing(c)
  BY DEF Committing
<1>5. decision[x] # "commit" => x \notin Committing(c)
  BY DEF Committing
<1> QED  BY <1>2, <1>3, <1>4, <1>5, CommittingPrepared

\* A chain that commits writes what is effective since the decision.
LEMMA FinishCoinKeeps ==
    ASSUME TxInv, CoinsAre, CoinsAre', SettledAre, SettledAre', NEW x \in Tx, FinishCoin(x)
    PROVE  UNCHANGED Payout!vars
<1>1. /\ x \notin finished["coin"]
      /\ finished' = [finished EXCEPT !["coin"] = @ \cup {x}]
      /\ coins' = IF decision[x] = "commit" THEN WrittenOn(coins, req[x].batch) ELSE coins
      /\ UNCHANGED <<amount, perShare, dividendIndex, paid, sale, req, vote, decision, rights, moved, again>>
  BY ContractKept DEF FinishCoin, Written, WrittenOn
<1>2. /\ Committing("security")' = Committing("security")
      /\ decision[x] = "commit" => Committing("coin") = {x} /\ Committing("coin")' = {}
      /\ decision[x] # "commit" => Committing("coin")' = Committing("coin")
  <2>1. "security" # "coin"
    OBVIOUS
  <2> QED  BY <1>1, <2>1, FinishedCommitting, Chains
<1>3. EffectivelyWaits' <=> EffectivelyWaits
  BY <1>1, <1>2 DEF SettledAre, Waits, Unpaid, Last
<1>4. EffectiveCoins' = EffectiveCoins
  <2>1. CASE decision[x] = "commit"
    <3>1. EffectiveCoins' = coins'
      BY <1>2, <2>1 DEF CoinsAre
    <3>2. EffectiveCoins = WrittenOn(coins, req[x].batch)
      BY <1>2, <2>1 DEF CoinsAre
    <3> QED  BY <1>1, <2>1, <3>1, <3>2
  <2>2. CASE decision[x] # "commit"
    <3>1. CASE Committing("coin") = {}
      BY <1>1, <1>2, <2>2, <3>1 DEF CoinsAre
    <3>2. ASSUME NEW y \in Committing("coin") PROVE EffectiveCoins' = EffectiveCoins
      <4>1. EffectiveCoins' = WrittenOn(coins', req'[y].batch)
        BY <1>2, <2>2 DEF CoinsAre
      <4>2. EffectiveCoins = WrittenOn(coins, req[y].batch)
        BY DEF CoinsAre
      <4> QED  BY <1>1, <2>2, <4>1, <4>2
    <3> QED  BY <3>1, <3>2
  <2> QED  BY <2>1, <2>2
<1> QED  BY <1>1, <1>3, <1>4, PayoutKept

LEMMA FinishSecurityKeeps ==
    ASSUME DInv, TxInv, CoinsAre, CoinsAre', SettledAre, SettledAre', NEW x \in Tx,
           FinishSecurity(x)
    PROVE  UNCHANGED Payout!vars
<1>1. /\ x \notin finished["security"]
      /\ finished' = [finished EXCEPT !["security"] = @ \cup {x}]
      /\ paid' = IF decision[x] = "commit" THEN [paid EXCEPT ![1] = @ \cup {req[x].index}]
                 ELSE paid
      /\ UNCHANGED <<amount, perShare, dividendIndex, coins, sale, req, vote, decision, rights, moved, again>>
  BY DEF FinishSecurity, tokenVars
<1>2. /\ Committing("coin")' = Committing("coin")
      /\ decision[x] = "commit" => Committing("security") = {x} /\ Committing("security")' = {}
      /\ decision[x] # "commit" => Committing("security")' = Committing("security")
  <2>1. "security" # "coin"
    OBVIOUS
  <2> QED  BY <1>1, <2>1, FinishedCommitting, Chains
<1>3. EffectivelyWaits' <=> EffectivelyWaits
  <2>1. CASE decision[x] = "commit"
    <3>1. x \in Prepared("security")
      BY <1>2, <2>1, CommittingPrepared, Chains
    <3>2. req[x].index = Last
      BY <3>1 DEF TxInv, PayReady, PayAllowed
    <3>3. paid'[1] = paid[1] \cup {Last}
      BY <1>1, <2>1, <3>2, Basics DEF DInv, StoreOK
    <3>4. ~Waits'
      BY <1>1, <3>3 DEF Waits, Unpaid, Last
    <3> QED  BY <1>2, <2>1, <3>4 DEF SettledAre
  <2>2. CASE decision[x] # "commit"
    BY <1>1, <1>2, <2>2 DEF SettledAre, Waits, Unpaid, Last
  <2> QED  BY <2>1, <2>2
<1>4. EffectiveCoins' = EffectiveCoins
  <2>1. CASE Committing("coin") = {}
    BY <1>1, <1>2, <2>1 DEF CoinsAre
  <2>2. ASSUME NEW y \in Committing("coin") PROVE EffectiveCoins' = EffectiveCoins
    <3>1. EffectiveCoins' = WrittenOn(coins', req'[y].batch)
      BY <1>2 DEF CoinsAre
    <3>2. EffectiveCoins = WrittenOn(coins, req[y].batch)
      BY DEF CoinsAre
    <3> QED  BY <1>1, <3>1, <3>2
  <2> QED  BY <2>1, <2>2
<1> QED  BY <1>1, <1>3, <1>4, PayoutKept

LEMMA RequestQuiet ==
    ASSUME DInv, TxInv, CoinsAre, CoinsAre', SettledAre, SettledAre', NEW x \in Tx,
           UNCHANGED <<contract, coins, sale, cross, rights, moved, again>>, req[x].stage # "sent",
           \E r : req' = [req EXCEPT ![x] = r]
    PROVE  UNCHANGED Payout!vars
<1>1. UNCHANGED <<amount, perShare, dividendIndex, paid, decision, finished>>
  BY ContractKept DEF cross
<1>2. \A y \in Tx : y # x => req'[y] = req[y]
  BY DEF DInv, ReqOK
<1>3. \A y \in Tx : req[y].stage = "sent" => req'[y].batch = req[y].batch
  BY <1>2
<1> QED  BY <1>1, <1>3, UndecidedKeeps

\* What is simulated, built and sent writes nothing yet.
LEMMA RequestKept ==
    ASSUME DInv, TxInv, CoinsAre, CoinsAre', SettledAre, SettledAre', NEW x \in Tx,
           SimulatePay(x) \/ SimulateDividendOf(x) \/ SimulateBatch(x) \/ BroadcastDistribute(x)
             \/ \E p \in Page : DistributeClick(p, x)
    PROVE  UNCHANGED Payout!vars
<1>1. CASE SimulatePay(x) \/ SimulateDividendOf(x)
  <2>1. /\ UNCHANGED <<contract, coins, sale, cross, rights, moved, again>> /\ req[x].stage # "sent"
        /\ \E r : req' = [req EXCEPT ![x] = r]
    BY <1>1 DEF SimulatePay, SimulateDividendOf, Build
  <2> QED  BY <2>1, RequestQuiet
<1>2. CASE SimulateBatch(x)
  <2>1. /\ UNCHANGED <<contract, coins, sale, cross, rights, moved, again>> /\ req[x].stage # "sent"
        /\ \E r : req' = [req EXCEPT ![x] = r]
    BY <1>2 DEF SimulateBatch, Build
  <2> QED  BY <2>1, RequestQuiet
<1>3. CASE BroadcastDistribute(x)
  <2>1. UNCHANGED <<contract, coins, sale, cross, rights, moved, again>> /\ req[x].stage # "sent"
    BY <1>3 DEF BroadcastDistribute, Go
  <2>2. req' = [req EXCEPT ![x] = [req[x] EXCEPT !.stage = "sent"]]
    BY <1>3 DEF BroadcastDistribute, DInv, ReqOK
  <2>3. \E r : req' = [req EXCEPT ![x] = r]
    BY <2>2
  <2> QED  BY <2>1, <2>3, RequestQuiet
<1>4. ASSUME NEW p \in Page, DistributeClick(p, x) PROVE UNCHANGED Payout!vars
  <2>1. UNCHANGED <<contract, coins, sale, cross, rights, moved, again>> /\ req[x] = NoRequest
    BY <1>4 DEF DistributeClick, Go
  <2>2. req' = [req EXCEPT ![x] = [req[x] EXCEPT !.stage = "asked", !.index = Last]]
    BY <1>4 DEF DistributeClick, DInv, ReqOK
  <2>3. req[x].stage # "sent"
    BY <2>1 DEF NoRequest
  <2>4. \E r : req' = [req EXCEPT ![x] = r]
    BY <2>2
  <2> QED  BY <2>1, <2>3, <2>4, RequestQuiet
<1> QED  BY <1>1, <1>2, <1>3, <1>4

LEMMA PayoutInit == FInit => Payout!Init
<1> SUFFICES ASSUME FInit PROVE Payout!Init
  OBVIOUS
<1>1. DInv /\ TxInv
  BY InitHolds, TxInit
<1>2. CoinsAre /\ SettledAre
  BY <1>1, CoinsKnown, SettledKnown
<1>3. Last = 0 /\ perShare[1][Last] = 0 /\ sale = NoSale /\ amount[1] = Held /\ coins = Coins
  BY Basics DEF FInit, Last
<1>4. Committing("coin") = {}
  BY DEF FInit, Committing
<1>5. EffectiveCoins = coins
  BY <1>2, <1>4 DEF CoinsAre
<1>6. ~EffectivelyWaits
  BY <1>3 DEF EffectivelyWaits
<1>7. Cardinality(EffectivePaid) = 0
  BY <1>2, <1>3, <1>6 DEF SettledAre
<1>8. Held \in [Addr -> Nat] /\ Coins \in [Addr -> Nat]
  BY FlowAssumption, Basics
<1>9. RightNow = Payout!Nobody /\ OnceNow = {} /\ AgainNow = {}
  BY <1>6 DEF RightNow, OnceNow, AgainNow, Payout!Nobody
<1>10. DealNow = NoSale /\ ~CumNow
  BY <1>3 DEF DealNow, CumNow
<1> QED  BY <1>3, <1>5, <1>6, <1>7, <1>8, <1>9, <1>10 DEF Payout!Init

\* Each step of the flow is one of DividendPayout, or none.
LEMMA PayoutStep ==
    ASSUME DInv, TxInv, CoinsAre, CoinsAre', SettledAre, SettledAre', [FNext]_fvars
    PROVE  [Payout!Next]_Payout!vars
<1>1. ASSUME NEW from \in Sellers, NEW to \in Addr, NEW n \in Shares,
             PrepareSale(from, to, n)
      PROVE  Payout!Next
  BY <1>1, PrepareSaleIs DEF Payout!Next
<1>2. CommitSale => Payout!Next
  BY CommitSaleIs DEF Payout!Next
<1>3. AbortSale => Payout!Next
  BY AbortSaleIs DEF Payout!Next
<1>4. ASSUME NEW from \in Addr, NEW to \in Addr, MoveCoin(from, to) PROVE Payout!Next
  BY <1>4, MoveCoinIs DEF Payout!Next
<1>5. ASSUME NEW x \in Tx, SimulatePay(x) \/ SimulateDividendOf(x) \/ SimulateBatch(x)
                             \/ BroadcastDistribute(x)
      PROVE  UNCHANGED Payout!vars
  BY <1>5, RequestKept
<1>6. ASSUME UNCHANGED <<contract, coins, sale, req, cross, rights, moved, again>>
      PROVE  UNCHANGED Payout!vars
  <2>1. UNCHANGED <<amount, perShare, dividendIndex, paid, decision, finished>>
    BY <1>6, ContractKept DEF cross
  <2> QED  BY <1>6, <2>1, UndecidedKeeps
<1>7. ASSUME NEW x \in Tx, PrepareSecurity(x) \/ PrepareCoin(x) PROVE UNCHANGED Payout!vars
  <2>1. UNCHANGED <<contract, coins, sale, req, decision, finished, rights, moved, again>>
    BY <1>7 DEF PrepareSecurity, PrepareCoin
  <2>2. UNCHANGED <<amount, perShare, dividendIndex, paid>>
    BY <2>1, ContractKept
  <2> QED  BY <2>1, <2>2, UndecidedKeeps
<1>8. ASSUME NEW x \in Tx, Decide(x) PROVE Payout!Next \/ UNCHANGED Payout!vars
  BY <1>8, CommitIs, AbortKeeps DEF Payout!Next
<1>9. ASSUME NEW x \in Tx, FinishCoin(x) \/ FinishSecurity(x) PROVE UNCHANGED Payout!vars
  BY <1>9, FinishCoinKeeps, FinishSecurityKeeps
<1>10. ASSUME NEW share \in PerShare, BroadcastRegister(share) PROVE Payout!Next
  BY <1>10, RegisterIs DEF Payout!Next
<1>11. ASSUME NEW p \in Page,
              Open(p) \/ Load(p) \/ Poll(p) \/ Throw(p) \/ RegisterDividendClick(p)
       PROVE  UNCHANGED Payout!vars
  BY <1>6, <1>11 DEF Open, Load, LoadRegistered, LoadPaid, Poll, PollIndex, PollCommitted,
                     PollAborted, Throw, RegisterDividendClick, Go
<1>12. ASSUME NEW p \in Page, NEW x \in Tx, DistributeClick(p, x)
       PROVE  UNCHANGED Payout!vars
  BY <1>12, RequestKept
<1>13. UNCHANGED fvars => UNCHANGED Payout!vars
  BY <1>6 DEF fvars
<1> QED
  BY <1>1, <1>2, <1>3, <1>4, <1>5, <1>7, <1>8, <1>9, <1>10, <1>11, <1>12, <1>13
     DEF FNext, Relay

\* A dividend is distributed atomically, once, and in full to all who have a
\* right to it and have not moved shares twice, whatever sales, payments and
\* other distributions its simulated calls are interleaved with
\* (README.md:58, 62).
THEOREM DividendsArePaidOut == FSpec => PayoutSpec
<1>1. FInit => Payout!Init
  BY PayoutInit
<1>2. DInv /\ TxInv /\ [FNext]_fvars => TxInv'
  BY TxStep
<1>3. TxInv => CoinsAre
  BY CoinsKnown
<1>4. DInv /\ TxInv => SettledAre
  BY SettledKnown
<1>5. DInv /\ TxInv /\ CoinsAre /\ CoinsAre' /\ SettledAre /\ SettledAre' /\ [FNext]_fvars
        => [Payout!Next]_Payout!vars
  BY PayoutStep
<1> QED
  BY <1>1, <1>2, <1>3, <1>4, <1>5, InitHolds, NextHolds, TxInit, PTL
     DEF FSpec, PayoutSpec, Payout!Spec
=============================================================================
