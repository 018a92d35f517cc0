----------------------------- MODULE EstateProofs -----------------------------
(***************************************************************************)
(* Theorems about EstateToken and EstateEntitlement, for any addresses,    *)
(* any width of the word and any limit on the holders.                     *)
(***************************************************************************)
EXTENDS EstateEntitlement, WordProofs, FiniteSetTheorems

-----------------------------------------------------------------------------
(* Types. *)

DeltaType == [Token -> [Addr -> [Index -> -HalfWord .. HalfWord - 1]]]

\* The owner count is a word whatever it is computed from.
LEMMA WrapType == ASSUME NEW n \in Int PROVE Wrap(n) \in UInt
  BY WordAssumption DEF Wrap, UInt

LEMMA OwnersType ==
    ASSUME NEW owners \in UInt, NEW n \in UInt, NEW v \in UInt
    PROVE  /\ OwnersAfterCredit(owners, n, v) \in UInt
           /\ OwnersAfterDebit(owners, n, v) \in UInt
<1>1. owners \in Int /\ owners + 1 \in Int /\ owners - 1 \in Int
  BY WordAssumption DEF UInt
<1>2. Wrap(owners + 1) \in UInt /\ Wrap(owners - 1) \in UInt
  BY <1>1, WrapType
<1> QED  BY <1>2 DEF OwnersAfterCredit, OwnersAfterDebit

\* What a mint or a transfer writes to a delta is an int64.
LEMMA DeltaAfterType ==
    ASSUME TypeOK, NEW t \in Token, NEW from \in Addr, NEW to \in Addr,
           NEW v \in UInt
    PROVE  /\ DeltaAfterMint(t, to, v) \in DeltaType
           /\ DeltaAfterTransfer(t, from, to, v) \in DeltaType
<1>1. ToInt64(v) \in -HalfWord .. HalfWord - 1
  BY ToInt64Type
<1>2. ToInt64(Neg64(v)) \in -HalfWord .. HalfWord - 1
  BY Neg64Type, ToInt64Type
<1>3. delta \in DeltaType /\ dividendIndex[t] \in Index
  BY DEF TypeOK, DeltaType
<1>4. DeltaAfterMint(t, to, v) \in DeltaType
  BY <1>2, <1>3 DEF DeltaAfterMint, DeltaType
<1>5. DeltaAfterTransfer(t, from, to, v) \in DeltaType
  BY <1>1, <1>2, <1>3 DEF DeltaAfterTransfer, DeltaType
<1> QED  BY <1>4, <1>5

\* The three calls that move shares, their checked operations resolved.
Credited(balances, to, v) == [balances EXCEPT ![to] = balances[to] + v]

Debited(balances, from, v) == [balances EXCEPT ![from] = balances[from] - v]

CreateEffect(s, supply) ==
    LET t == tokenID + 1
    IN  /\ t \in Token
        /\ tokenID' = t
        /\ creator' = [creator EXCEPT ![t] = s]
        /\ totalSupply' = [totalSupply EXCEPT ![t] = supply]
        /\ amount' = [amount EXCEPT ![t] = [amount[t] EXCEPT ![s] = supply]]
        /\ ownerCount' = [ownerCount EXCEPT ![t] = 1]
        /\ UNCHANGED <<whitelist, dividendIndex, perShare, paid, delta>>

MintEffect(s, t, to, v) ==
    LET owners == OwnersAfterCredit(ownerCount[t], amount[t][to], v)
    IN  /\ creator[t] = s
        /\ <<to, creator[t]>> \in whitelist
        /\ Credited(amount[t], to, v) \in [Addr -> UInt]
        /\ totalSupply[t] + v \in UInt
        /\ owners <= MaxTokenOwner
        /\ amount' = [amount EXCEPT ![t] = Credited(amount[t], to, v)]
        /\ totalSupply' = [totalSupply EXCEPT ![t] = totalSupply[t] + v]
        /\ ownerCount' = [ownerCount EXCEPT ![t] = owners]
        /\ delta' = DeltaAfterMint(t, to, v)
        /\ UNCHANGED <<tokenID, creator, whitelist, dividendIndex, perShare, paid>>

TransferEffect(s, t, to, v) ==
    LET debited == Debited(amount[t], s, v)
        left    == OwnersAfterDebit(ownerCount[t], debited[s], v)
        owners  == OwnersAfterCredit(left, debited[to], v)
    IN  /\ creator[t] # NoAddr
        /\ <<to, creator[t]>> \in whitelist
        /\ debited \in [Addr -> UInt]
        /\ Credited(debited, to, v) \in [Addr -> UInt]
        /\ owners <= MaxTokenOwner
        /\ amount' = [amount EXCEPT ![t] = Credited(debited, to, v)]
        /\ ownerCount' = [ownerCount EXCEPT ![t] = owners]
        /\ delta' = DeltaAfterTransfer(t, s, to, v)
        /\ UNCHANGED <<tokenID, creator, totalSupply, whitelist,
                       dividendIndex, perShare, paid>>

LEMMA CreateHasEffect ==
    ASSUME TypeOK, NEW s \in Addr, NEW v \in UInt, Create(s, v)
    PROVE  CreateEffect(s, v)
  BY DEF Create, CreateEffect, dividendVars

LEMMA MintHasEffect ==
    ASSUME TypeOK,
           NEW s \in Addr, NEW t \in Token, NEW to \in Addr, NEW v \in UInt,
           Mint(s, t, to, v)
    PROVE  MintEffect(s, t, to, v)
<1>1. amount[t] \in [Addr -> UInt] /\ totalSupply[t] \in UInt
  BY DEF TypeOK
<1>2. Add64(amount[t][to], v).ok /\ Add64(totalSupply[t], v).ok
  BY DEF Mint
<1>3. /\ Add64(amount[t][to], v).val = amount[t][to] + v
      /\ amount[t][to] + v \in UInt
  BY <1>1, <1>2, AddIsExact
<1>4. /\ Add64(totalSupply[t], v).val = totalSupply[t] + v
      /\ totalSupply[t] + v \in UInt
  BY <1>1, <1>2, AddIsExact
<1>5. Credited(amount[t], to, v) \in [Addr -> UInt]
  BY <1>1, <1>3 DEF Credited
<1> QED  BY <1>3, <1>4, <1>5 DEF Mint, Check, MintEffect, Credited

LEMMA TransferHasEffect ==
    ASSUME TypeOK,
           NEW s \in Addr, NEW t \in Token, NEW to \in Addr, NEW v \in UInt,
           Transfer(s, t, to, v)
    PROVE  TransferEffect(s, t, to, v)
<1> DEFINE debited == [amount[t] EXCEPT ![s] = amount[t][s] - v]
<1>1. amount[t] \in [Addr -> UInt]
  BY DEF TypeOK
<1>2. Sub64(amount[t][s], v).ok
  BY DEF Transfer
<1>3. /\ Sub64(amount[t][s], v).val = amount[t][s] - v
      /\ amount[t][s] - v \in UInt
  BY <1>1, <1>2, SubIsExact
<1>4. debited \in [Addr -> UInt] /\ debited[s] = amount[t][s] - v
  BY <1>1, <1>3
<1>5. Add64(debited[to], v).ok
  BY <1>3 DEF Transfer
<1>6. Add64(debited[to], v).val = debited[to] + v /\ debited[to] + v \in UInt
  BY <1>4, <1>5, AddIsExact
<1>7. Credited(debited, to, v) \in [Addr -> UInt]
  BY <1>4, <1>6 DEF Credited
<1> QED  BY <1>3, <1>4, <1>6, <1>7
            DEF Transfer, Check, TransferEffect, Debited, Credited

LEMMA InitType == Init => TypeOK
  BY HalfWordType, WordAssumption, EstateAssumption
     DEF Init, TypeOK, Token, Index, UInt

\* No call of the contract takes a variable out of its type.
LEMMA TypeStep == ASSUME TypeOK, [Next]_vars PROVE TypeOK'
<1>1. ASSUME NEW s \in Issuers, NEW v \in Shares, Create(s, v)
      PROVE  TypeOK'
  <2>1. s \in Addr /\ v \in UInt /\ 1 \in UInt
    BY HalfWordType, EstateAssumption DEF UInt
  <2>2. CreateEffect(s, v)
    BY <1>1, <2>1, CreateHasEffect
  <2>3. tokenID' \in 0 .. MaxToken
    BY <2>2, EstateAssumption DEF CreateEffect, Token
  <2> QED  BY <2>1, <2>2, <2>3 DEF CreateEffect, TypeOK
<1>2. ASSUME NEW s \in Addr, NEW t \in Token, NEW a \in Addr, NEW v \in Shares,
             Mint(s, t, a, v)
      PROVE  TypeOK'
  <2>1. v \in UInt
    BY EstateAssumption
  <2>2. MintEffect(s, t, a, v)
    BY <1>2, <2>1, MintHasEffect
  <2>3. OwnersAfterCredit(ownerCount[t], amount[t][a], v) \in UInt
    BY <2>1, OwnersType DEF TypeOK
  <2>4. delta' \in DeltaType
    BY <2>1, <2>2, DeltaAfterType DEF MintEffect
  <2> QED  BY <2>2, <2>3, <2>4 DEF MintEffect, TypeOK, DeltaType
<1>3. ASSUME NEW s \in Addr, NEW t \in Token, NEW a \in Addr, NEW v \in Shares,
             Transfer(s, t, a, v)
      PROVE  TypeOK'
  <2> DEFINE debited == Debited(amount[t], s, v)
             left    == OwnersAfterDebit(ownerCount[t], debited[s], v)
  <2>1. v \in UInt
    BY EstateAssumption
  <2>2. TransferEffect(s, t, a, v)
    BY <1>3, <2>1, TransferHasEffect
  <2>3. debited \in [Addr -> UInt]
    BY <2>2 DEF TransferEffect
  <2>4. OwnersAfterCredit(left, debited[a], v) \in UInt
    BY <2>1, <2>3, OwnersType DEF TypeOK
  <2>5. delta' \in DeltaType
    BY <2>1, <2>2, DeltaAfterType DEF TransferEffect
  <2> QED  BY <2>2, <2>4, <2>5 DEF TransferEffect, TypeOK, DeltaType
<1>4. ASSUME NEW s \in Issuers, NEW a \in Addr, AddToWhitelist(s, a)
      PROVE  TypeOK'
  BY <1>4, EstateAssumption DEF AddToWhitelist, TypeOK, tokenVars, dividendVars
<1>5. ASSUME NEW s \in Addr, NEW t \in Token, NEW p \in PerShare,
             RegisterDividend(s, t, p)
      PROVE  TypeOK'
  BY <1>5, EstateAssumption DEF RegisterDividend, TypeOK, tokenVars
<1>6. ASSUME NEW s \in Addr, NEW t \in Token, NEW i \in Index,
             PayDividend(s, t, i)
      PROVE  TypeOK'
  BY <1>6 DEF PayDividend, TypeOK, tokenVars
<1>7. CASE UNCHANGED vars
  BY <1>7 DEF vars, tokenVars, dividendVars, TypeOK
<1> QED  BY <1>1, <1>2, <1>3, <1>4, <1>5, <1>6, <1>7 DEF Next

\* Every variable keeps its type (all of securitychain/estate.go,
\* dividend.go and whitelist.go).
THEOREM TypeCorrect == Spec => []TypeOK
<1>1. TypeOK /\ [Next]_vars => TypeOK'
  BY TypeStep
<1> QED  BY <1>1, InitType, PTL DEF Spec
-----------------------------------------------------------------------------
(* Holders and their count. *)

LEMMA HoldersFinite ==
    ASSUME NEW f
    PROVE  IsFiniteSet(HoldersOf(f)) /\ Cardinality(HoldersOf(f)) \in Nat
<1>1. HoldersOf(f) \subseteq Addr
  BY DEF HoldersOf
<1> QED  BY <1>1, FS_Subset, FS_CardinalityType, EstateAssumption

\* A credit adds a holder just when it gives shares to one who had none.
LEMMA CreditHolders ==
    ASSUME NEW f \in [Addr -> UInt], NEW to \in Addr, NEW v \in UInt
    PROVE  Cardinality(HoldersOf(Credited(f, to, v)))
             = IF f[to] = 0 /\ v # 0 THEN Cardinality(HoldersOf(f)) + 1
                                     ELSE Cardinality(HoldersOf(f))
<1>1. f[to] \in Nat /\ v \in Nat
  BY WordAssumption DEF UInt
<1>2. CASE f[to] = 0 /\ v # 0
  <2>1. HoldersOf(Credited(f, to, v)) = HoldersOf(f) \cup {to}
    BY <1>1, <1>2 DEF HoldersOf, Credited
  <2>2. to \notin HoldersOf(f)
    BY <1>2 DEF HoldersOf
  <2> QED  BY <1>2, <2>1, <2>2, HoldersFinite, FS_AddElement
<1>3. CASE ~ (f[to] = 0 /\ v # 0)
  <2>1. HoldersOf(Credited(f, to, v)) = HoldersOf(f)
    BY <1>1, <1>3 DEF HoldersOf, Credited
  <2> QED  BY <1>3, <2>1
<1> QED  BY <1>2, <1>3

\* A debit takes a holder away just when it takes the last of some shares.
LEMMA DebitHolders ==
    ASSUME NEW f \in [Addr -> UInt], NEW from \in Addr, NEW v \in UInt,
           f[from] - v \in UInt
    PROVE  /\ Cardinality(HoldersOf(Debited(f, from, v)))
                = IF f[from] - v = 0 /\ v # 0
                  THEN Cardinality(HoldersOf(f)) - 1
                  ELSE Cardinality(HoldersOf(f))
           /\ f[from] - v = 0 /\ v # 0 => Cardinality(HoldersOf(f)) >= 1
<1>1. f[from] \in Nat /\ v \in Nat /\ f[from] - v \in Nat
  BY WordAssumption DEF UInt
<1>2. CASE f[from] - v = 0 /\ v # 0
  <2>1. HoldersOf(Debited(f, from, v)) = HoldersOf(f) \ {from}
    BY <1>1, <1>2 DEF HoldersOf, Debited
  <2>2. from \in HoldersOf(f)
    BY <1>1, <1>2 DEF HoldersOf
  <2>3. Cardinality(HoldersOf(f)) \in Nat /\ Cardinality(HoldersOf(f)) # 0
    BY <2>2, HoldersFinite, FS_EmptySet
  <2>4. Cardinality(HoldersOf(f) \ {from}) = Cardinality(HoldersOf(f)) - 1
    BY <2>2, HoldersFinite, FS_RemoveElement
  <2>5. Cardinality(HoldersOf(f)) >= 1
    BY <2>3
  <2> QED  BY <1>2, <2>1, <2>4, <2>5
<1>3. CASE ~ (f[from] - v = 0 /\ v # 0)
  <2>1. HoldersOf(Debited(f, from, v)) = HoldersOf(f)
    BY <1>1, <1>3 DEF HoldersOf, Debited
  <2> QED  BY <1>3, <2>1
<1> QED  BY <1>2, <1>3

\* A count within the limit has room for one more: it does not wrap.
LEMMA CreditCounted ==
    ASSUME NEW owners \in 0 .. MaxTokenOwner, NEW n, NEW v
    PROVE  OwnersAfterCredit(owners, n, v)
             = IF n = 0 /\ v # 0 THEN owners + 1 ELSE owners
<1>1. owners + 1 \in UInt
  BY EstateAssumption, WordAssumption DEF UInt
<1>2. Wrap(owners + 1) = owners + 1
  BY <1>1, WrapWord
<1> QED  BY <1>2 DEF OwnersAfterCredit

\* Nor does it wrap below zero while it covers the holders.
LEMMA DebitCounted ==
    ASSUME NEW owners \in 0 .. MaxTokenOwner, NEW n, NEW v,
           n = 0 /\ v # 0 => owners >= 1
    PROVE  OwnersAfterDebit(owners, n, v)
             = IF n = 0 /\ v # 0 THEN owners - 1 ELSE owners
<1>1. CASE n = 0 /\ v # 0
  <2>1. owners - 1 \in UInt
    BY <1>1, EstateAssumption, WordAssumption DEF UInt
  <2>2. Wrap(owners - 1) = owners - 1
    BY <2>1, WrapWord
  <2> QED  BY <1>1, <2>2 DEF OwnersAfterDebit
<1>2. CASE ~ (n = 0 /\ v # 0)
  BY <1>2 DEF OwnersAfterDebit
<1> QED  BY <1>1, <1>2

\* What a call does to the count and the holders of token t, and of the rest.
Counted(t) ==
    /\ ownerCount'[t] - ownerCount[t]
          = Cardinality(HoldersOf(amount'[t])) - Cardinality(HoldersOf(amount[t]))
    /\ ownerCount'[t] <= MaxTokenOwner
    /\ \A u \in Token \ {t} : /\ ownerCount'[u] = ownerCount[u]
                              /\ amount'[u] = amount[u]

LEMMA MintCounted ==
    ASSUME TypeOK, OwnerCountCovers,
           NEW s \in Addr, NEW t \in Token, NEW to \in Addr, NEW v \in UInt,
           MintEffect(s, t, to, v)
    PROVE  Counted(t)
<1> DEFINE owners == OwnersAfterCredit(ownerCount[t], amount[t][to], v)
<1>1. amount[t] \in [Addr -> UInt] /\ ownerCount[t] \in 0 .. MaxTokenOwner
  BY WordAssumption, EstateAssumption DEF TypeOK, OwnerCountCovers, UInt
<1>2. owners - ownerCount[t] = Cardinality(HoldersOf(Credited(amount[t], to, v)))
                                 - Cardinality(HoldersOf(amount[t]))
  BY <1>1, CreditCounted, CreditHolders, HoldersFinite
<1>3. /\ owners <= MaxTokenOwner
      /\ amount' = [amount EXCEPT ![t] = Credited(amount[t], to, v)]
      /\ ownerCount' = [ownerCount EXCEPT ![t] = owners]
  BY DEF MintEffect
<1>4. amount'[t] = Credited(amount[t], to, v) /\ ownerCount'[t] = owners
  BY <1>3 DEF TypeOK
<1>5. \A u \in Token \ {t} : ownerCount'[u] = ownerCount[u] /\ amount'[u] = amount[u]
  BY <1>3 DEF TypeOK
<1> QED  BY <1>2, <1>3, <1>4, <1>5 DEF Counted

LEMMA TransferCounted ==
    ASSUME TypeOK, OwnerCountCovers,
           NEW s \in Addr, NEW t \in Token, NEW to \in Addr, NEW v \in UInt,
           TransferEffect(s, t, to, v)
    PROVE  Counted(t)
<1> DEFINE debited == Debited(amount[t], s, v)
           left    == OwnersAfterDebit(ownerCount[t], debited[s], v)
           owners  == OwnersAfterCredit(left, debited[to], v)
           before  == Cardinality(HoldersOf(amount[t]))
           between == Cardinality(HoldersOf(debited))
           after   == Cardinality(HoldersOf(Credited(debited, to, v)))
<1>1. /\ amount[t] \in [Addr -> UInt]
      /\ ownerCount[t] \in 0 .. MaxTokenOwner
      /\ before <= ownerCount[t]
  BY WordAssumption, EstateAssumption DEF TypeOK, OwnerCountCovers, Holders, UInt
<1>2. debited \in [Addr -> UInt] /\ debited[s] = amount[t][s] - v
  BY <1>1 DEF TransferEffect, Debited
<1>3. before \in Nat /\ between \in Nat /\ after \in Nat
  BY HoldersFinite
<1>4. /\ left - ownerCount[t] = between - before
      /\ left \in 0 .. MaxTokenOwner
  <2>1. /\ between = IF debited[s] = 0 /\ v # 0 THEN before - 1 ELSE before
        /\ debited[s] = 0 /\ v # 0 => before >= 1
    BY <1>1, <1>2, DebitHolders
  <2>2. left = IF debited[s] = 0 /\ v # 0 THEN ownerCount[t] - 1 ELSE ownerCount[t]
    BY <1>1, <1>3, <2>1, DebitCounted
  <2> QED  BY <1>1, <1>3, <2>1, <2>2, EstateAssumption
<1>5. owners - left = after - between /\ owners \in Int
  <2>1. owners = IF debited[to] = 0 /\ v # 0 THEN left + 1 ELSE left
    BY <1>4, CreditCounted
  <2>2. after = IF debited[to] = 0 /\ v # 0 THEN between + 1 ELSE between
    BY <1>2, CreditHolders
  <2> HIDE DEF owners, left, between, after
  <2> QED  BY <1>3, <1>4, <2>1, <2>2
<1>6. owners - ownerCount[t] = after - before
  <2> HIDE DEF owners, left, before, between, after
  <2> QED  BY <1>1, <1>3, <1>4, <1>5
<1>7. /\ owners <= MaxTokenOwner
      /\ amount' = [amount EXCEPT ![t] = Credited(debited, to, v)]
      /\ ownerCount' = [ownerCount EXCEPT ![t] = owners]
  BY DEF TransferEffect
<1>8. amount'[t] = Credited(debited, to, v) /\ ownerCount'[t] = owners
  BY <1>7 DEF TypeOK
<1>9. \A u \in Token \ {t} : ownerCount'[u] = ownerCount[u] /\ amount'[u] = amount[u]
  BY <1>7 DEF TypeOK
<1> QED  BY <1>6, <1>7, <1>8, <1>9 DEF Counted

\* Tokens not created yet belong to nobody, so that the one holder that the
\* creation of a token counts is all there can be.
Fresh == \A t \in Token : t > tokenID => creator[t] = NoAddr /\ Holders(t) = {}

CountInv == TypeOK /\ Fresh /\ OwnerCountCovers

LEMMA CreateCounts ==
    ASSUME CountInv, NEW s \in Addr, NEW v \in UInt, CreateEffect(s, v)
    PROVE  Fresh' /\ OwnerCountCovers'
<1> DEFINE n == tokenID + 1
<1>1. /\ n \in Token /\ tokenID \in Int /\ tokenID' = n
      /\ creator' = [creator EXCEPT ![n] = s]
      /\ amount' = [amount EXCEPT ![n] = [amount[n] EXCEPT ![s] = v]]
      /\ ownerCount' = [ownerCount EXCEPT ![n] = 1]
  BY DEF CreateEffect, CountInv, TypeOK
<1>2. /\ amount'[n] = [amount[n] EXCEPT ![s] = v]
      /\ ownerCount'[n] = 1
      /\ \A u \in Token \ {n} : /\ amount'[u] = amount[u]
                                /\ ownerCount'[u] = ownerCount[u]
                                /\ creator'[u] = creator[u]
  BY <1>1 DEF CountInv, TypeOK
<1>3. HoldersOf(amount'[n]) \subseteq {s}
  <2>1. HoldersOf(amount[n]) = {}
    BY <1>1 DEF CountInv, Fresh, Holders
  <2>2. amount[n] \in [Addr -> UInt]
    BY <1>1 DEF CountInv, TypeOK
  <2> QED  BY <1>2, <2>1, <2>2 DEF HoldersOf
<1>4. Cardinality(HoldersOf(amount'[n])) <= 1
  <2>1. IsFiniteSet({s}) /\ Cardinality({s}) = 1
    BY FS_Singleton
  <2>2. Cardinality(HoldersOf(amount'[n])) <= Cardinality({s})
    BY <1>3, <2>1, FS_Subset
  <2> QED  BY <2>1, <2>2
<1>5. Fresh'
  BY <1>1, <1>2 DEF CountInv, Fresh, Holders, Token
<1>6. OwnerCountCovers'
  BY <1>2, <1>4, EstateAssumption DEF CountInv, OwnerCountCovers, Holders
<1> QED  BY <1>5, <1>6

\* A call that moves shares of a created token keeps the count above the
\* holders, and the tokens not created yet fresh.
LEMMA CountedKeeps ==
    ASSUME CountInv, TypeOK', NEW t \in Token, t <= tokenID, Counted(t),
           UNCHANGED <<tokenID, creator>>
    PROVE  Fresh' /\ OwnerCountCovers'
<1>1. /\ Cardinality(HoldersOf(amount[t])) \in Nat
      /\ Cardinality(HoldersOf(amount'[t])) \in Nat
  BY HoldersFinite
<1>2. ownerCount[t] \in Nat /\ ownerCount'[t] \in Nat
  BY WordAssumption DEF CountInv, TypeOK, UInt
<1>3. Cardinality(HoldersOf(amount[t])) <= ownerCount[t]
  BY DEF CountInv, OwnerCountCovers, Holders
<1>4. ownerCount'[t] - ownerCount[t]
        = Cardinality(HoldersOf(amount'[t])) - Cardinality(HoldersOf(amount[t]))
  BY DEF Counted
<1>5. Cardinality(HoldersOf(amount'[t])) <= ownerCount'[t]
  BY <1>1, <1>2, <1>3, <1>4
<1>6. OwnerCountCovers'
  BY <1>5 DEF CountInv, OwnerCountCovers, Holders, Counted
<1>7. tokenID \in Int /\ tokenID' = tokenID /\ creator' = creator
  BY DEF CountInv, TypeOK
<1>8. ASSUME NEW u \in Token, u > tokenID
      PROVE  creator'[u] = NoAddr /\ HoldersOf(amount'[u]) = {}
  <2>1. u # t
    BY <1>7, <1>8 DEF Token
  <2> QED  BY <1>7, <1>8, <2>1 DEF CountInv, Fresh, Counted, Holders
<1>9. Fresh'
  BY <1>7, <1>8 DEF Fresh, Holders
<1> QED  BY <1>6, <1>9

\* What the next step does to the counts: one token is created, or the shares
\* of one created token move, or no share moves.
CountStep ==
    \/ \E s \in Addr, v \in UInt : CreateEffect(s, v)
    \/ /\ \E t \in Token : t <= tokenID /\ Counted(t)
       /\ UNCHANGED <<tokenID, creator>>
    \/ UNCHANGED tokenVars

\* A token with a creator has been created.
LEMMA Created ==
    ASSUME CountInv, NEW t \in Token, creator[t] # NoAddr
    PROVE  t <= tokenID
  BY DEF CountInv, TypeOK, Fresh, Token

LEMMA NextCounts == ASSUME CountInv, [Next]_vars PROVE CountStep
<1>0. TypeOK /\ OwnerCountCovers
  BY DEF CountInv
<1>1. ASSUME NEW s \in Issuers, NEW v \in Shares, Create(s, v)
      PROVE  CountStep
  <2>1. s \in Addr /\ v \in UInt
    BY EstateAssumption
  <2>2. CreateEffect(s, v)
    BY <1>0, <1>1, <2>1, CreateHasEffect
  <2> QED  BY <2>1, <2>2 DEF CountStep
<1>2. ASSUME NEW s \in Addr, NEW t \in Token, NEW a \in Addr, NEW v \in Shares,
             Mint(s, t, a, v)
      PROVE  CountStep
  <2>1. v \in UInt
    BY EstateAssumption
  <2>2. MintEffect(s, t, a, v)
    BY <1>0, <1>2, <2>1, MintHasEffect
  <2>3. Counted(t)
    BY <1>0, <2>1, <2>2, MintCounted
  <2>4. creator[t] # NoAddr /\ UNCHANGED <<tokenID, creator>>
    BY <1>2 DEF Mint, Check
  <2> QED  BY <2>3, <2>4, Created DEF CountStep
<1>3. ASSUME NEW s \in Addr, NEW t \in Token, NEW a \in Addr, NEW v \in Shares,
             Transfer(s, t, a, v)
      PROVE  CountStep
  <2>1. v \in UInt
    BY EstateAssumption
  <2>2. TransferEffect(s, t, a, v)
    BY <1>0, <1>3, <2>1, TransferHasEffect
  <2>3. Counted(t)
    BY <1>0, <2>1, <2>2, TransferCounted
  <2>4. creator[t] # NoAddr /\ UNCHANGED <<tokenID, creator>>
    BY <1>3 DEF Transfer, Check
  <2> QED  BY <2>3, <2>4, Created DEF CountStep
<1>4. ASSUME NEW s \in Issuers, NEW a \in Addr, AddToWhitelist(s, a)
      PROVE  CountStep
  BY <1>4 DEF AddToWhitelist, CountStep
<1>5. ASSUME NEW s \in Addr, NEW t \in Token, NEW p \in PerShare,
             RegisterDividend(s, t, p)
      PROVE  CountStep
  BY <1>5 DEF RegisterDividend, CountStep
<1>6. ASSUME NEW s \in Addr, NEW t \in Token, NEW i \in Index,
             PayDividend(s, t, i)
      PROVE  CountStep
  BY <1>6 DEF PayDividend, CountStep
<1>7. CASE UNCHANGED vars
  BY <1>7 DEF vars, CountStep
<1> QED  BY <1>1, <1>2, <1>3, <1>4, <1>5, <1>6, <1>7 DEF Next

LEMMA CountInvStep == ASSUME CountInv, [Next]_vars PROVE CountInv'
<1>1. TypeOK'
  BY TypeStep DEF CountInv
<1>2. CASE \E s \in Addr, v \in UInt : CreateEffect(s, v)
  BY <1>1, <1>2, CreateCounts DEF CountInv
<1>3. CASE /\ \E t \in Token : t <= tokenID /\ Counted(t)
           /\ UNCHANGED <<tokenID, creator>>
  BY <1>1, <1>3, CountedKeeps DEF CountInv
<1>4. CASE UNCHANGED tokenVars
  BY <1>1, <1>4 DEF tokenVars, CountInv, Fresh, OwnerCountCovers, Holders
<1> QED  BY <1>2, <1>3, <1>4, NextCounts DEF CountStep

\* What one call does to the count of every token created before it.
Tracks ==
    \A t \in Token : t <= tokenID =>
        ownerCount[t]' - ownerCount[t]
            = Cardinality(Holders(t)') - Cardinality(Holders(t))

LEMMA StepTracks == ASSUME CountInv, [Next]_vars PROVE Tracks
<1> SUFFICES ASSUME NEW t \in Token, t <= tokenID
             PROVE  ownerCount'[t] - ownerCount[t]
                      = Cardinality(HoldersOf(amount'[t]))
                          - Cardinality(HoldersOf(amount[t]))
  BY DEF Tracks, Holders
<1>1. /\ ownerCount[t] \in Int
      /\ Cardinality(HoldersOf(amount[t])) \in Int
  BY HoldersFinite, WordAssumption DEF CountInv, TypeOK, UInt
<1>2. ASSUME ownerCount'[t] = ownerCount[t], amount'[t] = amount[t]
      PROVE  ownerCount'[t] - ownerCount[t]
               = Cardinality(HoldersOf(amount'[t]))
                   - Cardinality(HoldersOf(amount[t]))
  BY <1>1, <1>2
<1>3. CASE \E s \in Addr, v \in UInt : CreateEffect(s, v)
  <2>1. t # tokenID + 1
    BY DEF CountInv, TypeOK, Token
  <2>2. ownerCount'[t] = ownerCount[t] /\ amount'[t] = amount[t]
    BY <1>3, <2>1 DEF CreateEffect, CountInv, TypeOK
  <2> QED  BY <1>2, <2>2
<1>4. CASE \E u \in Token : Counted(u)
  <2>1. PICK u \in Token : Counted(u)
    BY <1>4
  <2>2. CASE u = t
    BY <2>1, <2>2 DEF Counted
  <2>3. CASE u # t
    BY <1>2, <2>1, <2>3 DEF Counted
  <2> QED  BY <2>2, <2>3
<1>5. CASE UNCHANGED tokenVars
  BY <1>2, <1>5 DEF tokenVars
<1> QED  BY <1>3, <1>4, <1>5, NextCounts DEF CountStep

LEMMA CountInvInit == Init => CountInv
<1> SUFFICES ASSUME Init PROVE CountInv
  OBVIOUS
<1>1. TypeOK
  BY InitType
<1>2. \A t \in Token : Holders(t) = {}
  BY DEF Init, Holders, HoldersOf
<1>3. Fresh
  BY <1>2 DEF Init, Fresh
<1>4. OwnerCountCovers
  <2>1. Cardinality({}) = 0
    BY FS_EmptySet
  <2>2. \A t \in Token : ownerCount[t] = 0
    BY DEF Init
  <2> QED  BY <1>2, <2>1, <2>2, EstateAssumption DEF OwnerCountCovers
<1> QED  BY <1>1, <1>3, <1>4 DEF CountInv

\* The inductive invariant behind the theorems on the holders.
LEMMA CountInvariant == Spec => []CountInv
<1>1. CountInv /\ [Next]_vars => CountInv'
  BY CountInvStep
<1> QED  BY <1>1, CountInvInit, PTL DEF Spec

\* The owner count never falls behind the holders there are and never exceeds
\* the limit: it cannot wrap, and "check" (estate.go) enforces the real limit.
THEOREM OwnerCountCorrect == Spec => []OwnerCountCovers
<1>1. CountInv => OwnerCountCovers
  BY DEF CountInv
<1> QED  BY <1>1, CountInvariant, PTL

\* No estate ever has more than MaxTokenOwner holders, for any number of
\* addresses, tokens and issuers.
THEOREM HoldersWithinLimit == Spec => []HolderLimit
<1>1. ASSUME CountInv PROVE HolderLimit
  <2> SUFFICES ASSUME NEW t \in Token
               PROVE  Cardinality(Holders(t)) <= MaxTokenOwner
    BY DEF HolderLimit
  <2>1. Cardinality(Holders(t)) <= ownerCount[t] /\ ownerCount[t] <= MaxTokenOwner
    BY <1>1 DEF CountInv, OwnerCountCovers
  <2>2. Cardinality(Holders(t)) \in Int /\ ownerCount[t] \in Int
    BY <1>1, HoldersFinite, WordAssumption DEF Holders, CountInv, TypeOK, UInt
  <2>3. MaxTokenOwner \in Int
    BY EstateAssumption
  <2> QED  BY <2>1, <2>2, <2>3
<1>2. CountInv => HolderLimit
  BY <1>1
<1> QED  BY <1>2, CountInvariant, PTL

\* After the creation of a token, every call moves its owner count by exactly
\* the number of holders it adds or removes (estate.go, "mint" and "transfer").
THEOREM OwnerCountExact == Spec => OwnerCountTracks
<1>1. CountInv /\ [Next]_vars => [Tracks]_vars
  BY StepTracks
<1>2. Spec => [][Tracks]_vars
  BY <1>1, CountInvariant, PTL DEF Spec
<1> QED  BY <1>2 DEF OwnerCountTracks, Tracks
-----------------------------------------------------------------------------
(* The whitelist and the dividends. *)

Allowed(t, a) == a = creator[t] \/ <<a, creator[t]>> \in whitelist

\* A holder of a mint or of a transfer held before, or is the recipient.
LEMMA MovesToRecipient ==
    ASSUME TypeOK,
           NEW s \in Addr, NEW t \in Token, NEW to \in Addr, NEW v \in UInt,
           MintEffect(s, t, to, v) \/ TransferEffect(s, t, to, v)
    PROVE  /\ HoldersOf(amount'[t]) \subseteq Holders(t) \cup {to}
           /\ <<to, creator[t]>> \in whitelist
           /\ \A u \in Token \ {t} : amount'[u] = amount[u]
           /\ UNCHANGED <<creator, whitelist>>
<1>1. amount[t] \in [Addr -> UInt] /\ v \in Nat
  BY WordAssumption DEF TypeOK, UInt
<1>2. CASE MintEffect(s, t, to, v)
  <2>1. amount'[t] = Credited(amount[t], to, v)
    BY <1>2 DEF MintEffect, TypeOK
  <2>2. HoldersOf(amount'[t]) \subseteq Holders(t) \cup {to}
    BY <1>1, <2>1 DEF HoldersOf, Holders, Credited
  <2> QED  BY <1>2, <2>2 DEF MintEffect, TypeOK
<1>3. CASE TransferEffect(s, t, to, v)
  <2>1. /\ amount'[t] = Credited(Debited(amount[t], s, v), to, v)
        /\ Debited(amount[t], s, v) \in [Addr -> UInt]
    BY <1>3 DEF TransferEffect, TypeOK
  <2>2. ASSUME NEW a \in Addr, amount'[t][a] # 0, a # to
        PROVE  amount[t][a] # 0
    <3>1. Debited(amount[t], s, v)[a] # 0
      BY <1>1, <2>1, <2>2 DEF Credited
    <3>2. CASE a = s
      <4>1. amount[t][a] - v \in UInt /\ amount[t][a] - v # 0
        BY <1>1, <2>1, <3>1, <3>2 DEF Debited
      <4> QED  BY <1>1, <4>1, WordAssumption DEF UInt
    <3>3. CASE a # s
      BY <1>1, <3>1, <3>3 DEF Debited
    <3> QED  BY <3>2, <3>3
  <2>3. HoldersOf(amount'[t]) \subseteq Holders(t) \cup {to}
    BY <2>2 DEF HoldersOf, Holders
  <2> QED  BY <1>3, <2>3 DEF TransferEffect, TypeOK
<1> QED  BY <1>2, <1>3

LEMMA WhitelistedStep ==
    ASSUME CountInv, HoldersWhitelisted, [Next]_vars
    PROVE  HoldersWhitelisted'
<1>0. TypeOK /\ \A t \in Token : \A a \in Holders(t) : Allowed(t, a)
  BY DEF CountInv, HoldersWhitelisted, Allowed
<1> SUFFICES ASSUME NEW t \in Token, NEW a \in Addr, amount'[t][a] # 0
             PROVE  a = creator'[t] \/ <<a, creator'[t]>> \in whitelist'
  BY DEF HoldersWhitelisted, Holders, HoldersOf
<1>1. ASSUME amount'[t] = amount[t], creator'[t] = creator[t],
             whitelist \subseteq whitelist'
      PROVE  a = creator'[t] \/ <<a, creator'[t]>> \in whitelist'
  BY <1>0, <1>1 DEF Holders, HoldersOf, Allowed
<1>2. ASSUME NEW s \in Issuers, NEW v \in Shares, Create(s, v)
      PROVE  a = creator'[t] \/ <<a, creator'[t]>> \in whitelist'
  <2>1. s \in Addr /\ v \in UInt
    BY EstateAssumption
  <2>2. CreateEffect(s, v)
    BY <1>0, <1>2, <2>1, CreateHasEffect
  <2>3. CASE t = tokenID + 1
    <3>1. amount[t][a] = 0
      BY <2>3 DEF CountInv, Fresh, TypeOK, Holders, HoldersOf, Token
    <3>2. amount'[t] = [amount[t] EXCEPT ![s] = v] /\ creator'[t] = s
      BY <1>0, <2>2, <2>3 DEF CreateEffect, TypeOK
    <3> QED  BY <1>0, <3>1, <3>2 DEF TypeOK
  <2>4. CASE t # tokenID + 1
    BY <1>0, <1>1, <2>2, <2>4 DEF CreateEffect, TypeOK
  <2> QED  BY <2>3, <2>4
<1>3. ASSUME NEW s \in Addr, NEW u \in Token, NEW to \in Addr, NEW v \in Shares,
             Mint(s, u, to, v) \/ Transfer(s, u, to, v)
      PROVE  a = creator'[t] \/ <<a, creator'[t]>> \in whitelist'
  <2>1. v \in UInt
    BY EstateAssumption
  <2>2. MintEffect(s, u, to, v) \/ TransferEffect(s, u, to, v)
    BY <1>0, <1>3, <2>1, MintHasEffect, TransferHasEffect
  <2>3. /\ HoldersOf(amount'[u]) \subseteq Holders(u) \cup {to}
        /\ <<to, creator[u]>> \in whitelist
        /\ \A w \in Token \ {u} : amount'[w] = amount[w]
        /\ UNCHANGED <<creator, whitelist>>
    BY <1>0, <2>1, <2>2, MovesToRecipient
  <2>4. CASE t = u
    <3>1. a \in Holders(t) \/ a = to
      BY <2>3, <2>4 DEF HoldersOf
    <3> QED  BY <1>0, <2>3, <2>4, <3>1 DEF Allowed
  <2>5. CASE t # u
    BY <1>1, <2>3, <2>5
  <2> QED  BY <2>4, <2>5
<1>4. ASSUME NEW s \in Issuers, NEW b \in Addr, AddToWhitelist(s, b)
      PROVE  a = creator'[t] \/ <<a, creator'[t]>> \in whitelist'
  BY <1>1, <1>4 DEF AddToWhitelist, tokenVars
<1>5. ASSUME NEW s \in Addr, NEW u \in Token, NEW p \in PerShare,
             RegisterDividend(s, u, p)
      PROVE  a = creator'[t] \/ <<a, creator'[t]>> \in whitelist'
  BY <1>1, <1>5 DEF RegisterDividend, tokenVars
<1>6. ASSUME NEW s \in Addr, NEW u \in Token, NEW i \in Index,
             PayDividend(s, u, i)
      PROVE  a = creator'[t] \/ <<a, creator'[t]>> \in whitelist'
  BY <1>1, <1>6 DEF PayDividend, tokenVars
<1>7. CASE UNCHANGED vars
  BY <1>1, <1>7 DEF vars, tokenVars
<1> QED  BY <1>2, <1>3, <1>4, <1>5, <1>6, <1>7 DEF Next

\* Whoever holds shares of an estate is its creator or was whitelisted by its
\* creator, whatever other issuers whitelist ("check" in estate.go).
THEOREM HoldersAreWhitelisted == Spec => []HoldersWhitelisted
<1>1. ASSUME Init PROVE HoldersWhitelisted
  BY <1>1 DEF Init, HoldersWhitelisted, Holders, HoldersOf
<1>2. CountInv /\ HoldersWhitelisted /\ [Next]_vars => HoldersWhitelisted'
  BY WhitelistedStep
<1>3. Init => HoldersWhitelisted
  BY <1>1
<1> QED  BY <1>2, <1>3, CountInvariant, PTL DEF Spec

\* Dividends of an estate are paid in order and once: when a dividend is
\* registered all before it are paid (registerDividend, dividend.go), and only
\* the last can be paid (payDividend).
THEOREM DividendsInOrder == Spec => []OnlyLatestUnpaid
<1>1. Init => OnlyLatestUnpaid
  BY DEF Init, OnlyLatestUnpaid
<1>2. TypeOK /\ OnlyLatestUnpaid /\ [Next]_vars => OnlyLatestUnpaid'
  <2> SUFFICES ASSUME TypeOK, OnlyLatestUnpaid, [Next]_vars
               PROVE  OnlyLatestUnpaid'
    OBVIOUS
  <2>1. ASSUME UNCHANGED <<dividendIndex, paid>> PROVE OnlyLatestUnpaid'
    BY <2>1 DEF OnlyLatestUnpaid
  <2>2. ASSUME NEW s \in Addr, NEW t \in Token, NEW p \in PerShare,
               RegisterDividend(s, t, p)
        PROVE  OnlyLatestUnpaid'
    <3>1. /\ dividendIndex' = [dividendIndex EXCEPT ![t] = dividendIndex[t] + 1]
          /\ paid' = paid
          /\ dividendIndex[t] # 0 => dividendIndex[t] \in paid[t]
      BY <2>2 DEF RegisterDividend, Unpaid
    <3>2. dividendIndex[t] \in Nat
      BY DEF TypeOK, Index
    <3>3. 1 .. dividendIndex[t] \subseteq paid[t]
      BY <3>1, <3>2 DEF OnlyLatestUnpaid
    <3>4. paid[t] \subseteq 1 .. dividendIndex[t] + 1
      BY <3>2 DEF OnlyLatestUnpaid
    <3>5. dividendIndex'[t] = dividendIndex[t] + 1
      BY <3>1 DEF TypeOK
    <3>6. 1 .. dividendIndex'[t] - 1 \subseteq paid[t]
      BY <3>2, <3>3, <3>5
    <3>7. \A u \in Token \ {t} : dividendIndex'[u] = dividendIndex[u]
      BY <3>1 DEF TypeOK
    <3> QED  BY <3>1, <3>4, <3>5, <3>6, <3>7 DEF OnlyLatestUnpaid
  <2>3. ASSUME NEW s \in Addr, NEW t \in Token, NEW i \in Index,
               PayDividend(s, t, i)
        PROVE  OnlyLatestUnpaid'
    <3>1. /\ paid' = [paid EXCEPT ![t] = paid[t] \cup {i}]
          /\ dividendIndex' = dividendIndex
          /\ i # 0 /\ i = dividendIndex[t]
      BY <2>3 DEF PayDividend
    <3>2. i \in 1 .. dividendIndex[t]
      BY <3>1 DEF Index
    <3>3. /\ paid'[t] = paid[t] \cup {i}
          /\ \A u \in Token \ {t} : paid'[u] = paid[u]
      BY <3>1 DEF TypeOK
    <3> QED  BY <3>1, <3>2, <3>3 DEF OnlyLatestUnpaid
  <2>4. ASSUME NEW s \in Addr, NEW t \in Token, NEW a \in Addr, NEW v \in Shares,
               Mint(s, t, a, v) \/ Transfer(s, t, a, v)
        PROVE  OnlyLatestUnpaid'
    BY <2>1, <2>4 DEF Mint, Transfer
  <2>5. ASSUME NEW s \in Issuers, NEW v \in Shares, Create(s, v)
        PROVE  OnlyLatestUnpaid'
    BY <2>1, <2>5 DEF Create, dividendVars
  <2>6. ASSUME NEW s \in Issuers, NEW a \in Addr, AddToWhitelist(s, a)
        PROVE  OnlyLatestUnpaid'
    BY <2>1, <2>6 DEF AddToWhitelist, dividendVars
  <2>7. CASE UNCHANGED vars
    BY <2>1, <2>7 DEF vars, dividendVars
  <2> QED  BY <2>2, <2>3, <2>4, <2>5, <2>6, <2>7 DEF Next
<1> QED  BY <1>1, <1>2, TypeCorrect, PTL DEF Spec
-----------------------------------------------------------------------------
(* The supply. *)

LEMMA CreditSum ==
    ASSUME NEW f \in [Addr -> UInt], NEW to \in Addr, NEW v \in UInt
    PROVE  SumFunction(Credited(f, to, v)) = SumFunction(f) + v
<1>1. f \in [Addr -> Nat] /\ v \in Nat /\ f[to] \in Nat /\ f[to] + v \in Nat
  BY WordAssumption DEF UInt
<1>2. SumFunction(f) \in Nat
  BY <1>1, EstateAssumption, SumBounds
<1>3. \A n \in Nat : SumFunction([f EXCEPT ![to] = n]) = SumFunction(f) - f[to] + n
  <2>1. IsFiniteSet(Addr)
    BY EstateAssumption
  <2> QED  BY <1>1, <2>1, SumExcept
<1>4. SumFunction(Credited(f, to, v)) = SumFunction(f) - f[to] + (f[to] + v)
  BY <1>1, <1>3 DEF Credited
<1> QED  BY <1>1, <1>2, <1>4

LEMMA DebitSum ==
    ASSUME NEW f \in [Addr -> UInt], NEW from \in Addr, NEW v \in UInt,
           f[from] - v \in UInt
    PROVE  SumFunction(Debited(f, from, v)) = SumFunction(f) - v
<1>1. f \in [Addr -> Nat] /\ v \in Nat /\ f[from] \in Nat /\ f[from] - v \in Nat
  BY WordAssumption DEF UInt
<1>2. SumFunction(f) \in Nat
  BY <1>1, EstateAssumption, SumBounds
<1>3. \A n \in Nat : SumFunction([f EXCEPT ![from] = n]) = SumFunction(f) - f[from] + n
  <2>1. IsFiniteSet(Addr)
    BY EstateAssumption
  <2> QED  BY <1>1, <2>1, SumExcept
<1>4. SumFunction(Debited(f, from, v)) = SumFunction(f) - f[from] + (f[from] - v)
  BY <1>1, <1>3 DEF Debited
<1> QED  BY <1>1, <1>2, <1>4

\* Who holds nothing adds nothing to the supply.
LEMMA NobodySum ==
    ASSUME NEW f \in [Addr -> UInt], HoldersOf(f) = {}
    PROVE  SumFunction(f) = 0
<1>1. f = [a \in Addr |-> 0]
  BY DEF HoldersOf
<1> QED  BY <1>1, EstateAssumption, SumZero

\* What the next step does to shares, supplies and deltas: a token is created,
\* shares are minted or transferred, or all stay as they are.
MoveStep ==
    \/ \E s \in Addr, v \in UInt : CreateEffect(s, v)
    \/ \E s, to \in Addr, t \in Token, v \in UInt : MintEffect(s, t, to, v)
    \/ \E s, to \in Addr, t \in Token, v \in UInt : TransferEffect(s, t, to, v)
    \/ UNCHANGED <<tokenVars, delta>>

LEMMA NextMoves == ASSUME TypeOK, [Next]_vars PROVE MoveStep
<1>1. ASSUME NEW s \in Issuers, NEW v \in Shares, Create(s, v) PROVE MoveStep
  <2>1. s \in Addr /\ v \in UInt
    BY EstateAssumption
  <2> QED  BY <1>1, <2>1, CreateHasEffect DEF MoveStep
<1>2. ASSUME NEW s \in Addr, NEW t \in Token, NEW a \in Addr, NEW v \in Shares,
             Mint(s, t, a, v)
      PROVE  MoveStep
  <2>1. v \in UInt
    BY EstateAssumption
  <2> QED  BY <1>2, <2>1, MintHasEffect DEF MoveStep
<1>3. ASSUME NEW s \in Addr, NEW t \in Token, NEW a \in Addr, NEW v \in Shares,
             Transfer(s, t, a, v)
      PROVE  MoveStep
  <2>1. v \in UInt
    BY EstateAssumption
  <2> QED  BY <1>3, <2>1, TransferHasEffect DEF MoveStep
<1>4. CASE \/ \E s \in Issuers, a \in Addr : AddToWhitelist(s, a)
           \/ \E s \in Addr, t \in Token, p \in PerShare : RegisterDividend(s, t, p)
           \/ \E s \in Addr, t \in Token, i \in Index : PayDividend(s, t, i)
           \/ UNCHANGED vars
  BY <1>4 DEF AddToWhitelist, RegisterDividend, PayDividend, MoveStep, vars,
              tokenVars, dividendVars
<1> QED  BY <1>1, <1>2, <1>3, <1>4 DEF Next

LEMMA SupplyStep ==
    ASSUME CountInv, SupplyConserved, [Next]_vars
    PROVE  SupplyConserved'
<1>0. TypeOK
  BY DEF CountInv
<1> SUFFICES ASSUME NEW u \in Token
             PROVE  SumFunction(amount'[u]) = totalSupply'[u]
  BY DEF SupplyConserved
<1>1. /\ amount[u] \in [Addr -> UInt] /\ totalSupply[u] \in UInt
      /\ SumFunction(amount[u]) = totalSupply[u]
  BY <1>0 DEF TypeOK, SupplyConserved
<1>2. ASSUME NEW s \in Addr, NEW v \in UInt, CreateEffect(s, v)
      PROVE  SumFunction(amount'[u]) = totalSupply'[u]
  <2>1. CASE u = tokenID + 1
    <3>1. HoldersOf(amount[u]) = {}
      BY <1>0, <2>1 DEF CountInv, Fresh, Holders, TypeOK, Token
    <3>2. SumFunction(amount[u]) = 0
      BY <1>1, <3>1, NobodySum
    <3>3. amount[u][s] = 0
      BY <3>1 DEF HoldersOf
    <3>4. amount'[u] = Credited(amount[u], s, v)
      BY <1>0, <1>1, <1>2, <2>1, <3>3, WordAssumption DEF CreateEffect, TypeOK, Credited, UInt
    <3>5. totalSupply'[u] = v
      BY <1>0, <1>2, <2>1 DEF CreateEffect, TypeOK
    <3>6. SumFunction(Credited(amount[u], s, v)) = 0 + v
      BY <1>1, <3>2, CreditSum
    <3> QED  BY <3>4, <3>5, <3>6, WordAssumption DEF UInt
  <2>2. CASE u # tokenID + 1
    BY <1>0, <1>1, <1>2, <2>2 DEF CreateEffect, TypeOK
  <2> QED  BY <2>1, <2>2
<1>3. ASSUME NEW s \in Addr, NEW to \in Addr, NEW t \in Token, NEW v \in UInt,
             MintEffect(s, t, to, v)
      PROVE  SumFunction(amount'[u]) = totalSupply'[u]
  <2>1. CASE u = t
    <3>1. amount'[u] = Credited(amount[u], to, v) /\ totalSupply'[u] = totalSupply[u] + v
      BY <1>0, <1>3, <2>1 DEF MintEffect, TypeOK
    <3> QED  BY <1>1, <3>1, CreditSum
  <2>2. CASE u # t
    BY <1>0, <1>1, <1>3, <2>2 DEF MintEffect, TypeOK
  <2> QED  BY <2>1, <2>2
<1>4. ASSUME NEW s \in Addr, NEW to \in Addr, NEW t \in Token, NEW v \in UInt,
             TransferEffect(s, t, to, v)
      PROVE  SumFunction(amount'[u]) = totalSupply'[u]
  <2>1. totalSupply'[u] = totalSupply[u]
    BY <1>4 DEF TransferEffect
  <2>2. CASE u = t
    <3> DEFINE debited == Debited(amount[u], s, v)
    <3>1. amount'[u] = Credited(debited, to, v) /\ debited \in [Addr -> UInt]
      BY <1>0, <1>4, <2>2 DEF TransferEffect, TypeOK
    <3>2. amount[u][s] - v \in UInt
      BY <1>1, <3>1 DEF Debited
    <3>3. SumFunction(debited) = SumFunction(amount[u]) - v
      BY <1>1, <3>2, DebitSum
    <3> HIDE DEF debited
    <3>4. SumFunction(amount'[u]) = SumFunction(debited) + v
      BY <3>1, CreditSum
    <3> QED  BY <1>1, <2>1, <3>3, <3>4, WordAssumption DEF UInt
  <2>3. CASE u # t
    BY <1>0, <1>1, <1>4, <2>3 DEF TransferEffect, TypeOK
  <2> QED  BY <2>2, <2>3
<1>5. CASE UNCHANGED <<tokenVars, delta>>
  BY <1>1, <1>5 DEF tokenVars
<1> QED  BY <1>0, <1>2, <1>3, <1>4, <1>5, NextMoves DEF MoveStep

LEMMA SupplyInit == Init => SupplyConserved
  BY EstateAssumption, SumZero DEF Init, SupplyConserved

\* The shares of every token add up to its total supply, however they are
\* created, minted and transferred, to oneself included (estate.go:118-262).
THEOREM SupplyAddsUp == Spec => []SupplyConserved
<1>1. CountInv /\ SupplyConserved /\ [Next]_vars => SupplyConserved'
  BY SupplyStep
<1> QED  BY <1>1, SupplyInit, CountInvariant, PTL DEF Spec
-----------------------------------------------------------------------------
(* What an address is paid. *)

LEMMA ShareType ==
    ASSUME TypeOK, NEW t \in Token, NEW a \in Addr
    PROVE  ShareOf(t, a).val \in UInt
<1> DEFINE d == delta[t][a][dividendIndex[t]]
<1>1. amount[t][a] \in UInt /\ dividendIndex[t] \in Index
  BY DEF TypeOK
<1>2. d \in -HalfWord .. HalfWord - 1
  BY <1>1 DEF TypeOK
<1> HIDE DEF d
<1>3. WordSize \in Nat /\ HalfWord \in Nat \ {0} /\ WordSize = 2 * HalfWord
  BY HalfWordType
<1>4. CASE d >= 0
  <2>1. d \in UInt
    BY <1>2, <1>3, <1>4 DEF UInt
  <2>2. Add64(amount[t][a], d).val \in UInt
    BY <1>1, <2>1, AddIsExact
  <2> QED  BY <1>4, <2>2 DEF ShareOf, d
<1>5. CASE ~(d >= 0)
  <2>1. -d \in UInt
    BY <1>2, <1>3, <1>5 DEF UInt
  <2>2. Sub64(amount[t][a], -d).val \in UInt
    BY <1>1, <2>1, SubIsExact
  <2> QED  BY <1>5, <2>2 DEF ShareOf, d
<1> QED  BY <1>4, <1>5

\* dividendOf returns an error or the exact amount, never what is left of a
\* product that wrapped (dividend.go:104).
THEOREM DividendsExact == Spec => []DividendExact
<1>1. ASSUME TypeOK PROVE DividendExact
  <2>1. ASSUME NEW t \in Token, NEW a \in Addr, ShareOf(t, a).ok
        PROVE  Exact(DividendOf(t, a), ShareOf(t, a).val * perShare[t][dividendIndex[t]])
    <3> DEFINE share == ShareOf(t, a)
               price == perShare[t][dividendIndex[t]]
    <3>1. dividendIndex[t] \in Index
      BY <1>1 DEF TypeOK
    <3>2. share.val \in UInt /\ price \in UInt
      BY <1>1, <3>1, ShareType DEF TypeOK
    <3>3. share.ok /\ DividendOf(t, a).val = Mul64(share.val, price).val
          /\ DividendOf(t, a).ok = (share.ok /\ Mul64(share.val, price).ok)
      BY <2>1 DEF DividendOf
    <3> HIDE DEF share, price
    <3>4. Exact(Mul64(share.val, price), share.val * price)
      BY <3>2, OperationsExact
    <3>5. Exact(DividendOf(t, a), share.val * price)
      BY <3>3, <3>4 DEF Exact
    <3> QED  BY <3>5 DEF share, price
  <2> QED  BY <2>1 DEF DividendExact
<1> QED  BY <1>1, TypeCorrect, PTL
-----------------------------------------------------------------------------
(* What a dividend is paid for. *)

\* The shares of the pending dividend that an address has received (less than
\* zero) or given away since it was registered, as far as the contract knows.
Pending(t, a) == delta[t][a][dividendIndex[t]]

SmallSupply(t) == totalSupply[t] < HalfWord

\* A pending delta takes away no more than the address holds, and adds no more
\* than there is; a dividend to come has no deltas, and a token to come has had
\* no dividend.
FreshDeltas ==
    \A t \in Token, a \in Addr, i \in Index : i > dividendIndex[t] => delta[t][a][i] = 0

DeltaCovered ==
    \A t \in Token : Unpaid(t) /\ SmallSupply(t) =>
        \A a \in Addr : -amount[t][a] <= Pending(t, a) /\ Pending(t, a) <= totalSupply[t]

FreshDividends == \A t \in Token : t > tokenID => dividendIndex[t] = 0

ShareInv == CountInv /\ SupplyConserved /\ FreshDeltas /\ FreshDividends /\ DeltaCovered

\* Nobody holds more than there is, nor do two together.
LEMMA HeldOfSupply ==
    ASSUME TypeOK, SupplyConserved, NEW t \in Token, NEW a \in Addr, NEW b \in Addr
    PROVE  /\ amount[t][a] \in Nat /\ amount[t][b] \in Nat /\ totalSupply[t] \in Nat
           /\ amount[t][a] <= totalSupply[t]
           /\ a # b => amount[t][a] + amount[t][b] <= totalSupply[t]
<1>1. amount[t] \in [Addr -> Nat]
  BY WordAssumption DEF TypeOK, UInt
<1>2. SumFunction(amount[t]) = totalSupply[t]
  BY DEF SupplyConserved
<1>3. IsFiniteSet(Addr)
  BY EstateAssumption
<1> QED  BY <1>1, <1>2, <1>3, SumBounds

\* A share count of less than half a word goes through both conversions.
LEMMA ConvertedSmall ==
    ASSUME NEW v \in Nat, v < HalfWord
    PROVE  v \in UInt /\ ToInt64(v) = v /\ ToInt64(Neg64(v)) = -v
<1>1. v \in UInt /\ HalfWord \in Nat
  BY HalfWordType DEF UInt
<1> QED  BY <1>1, DeltaConverted

\* What is paid for when the delta is covered.
LEMMA ShareIsSum ==
    ASSUME TypeOK, SupplyConserved, NEW t \in Token, NEW a \in Addr, SmallSupply(t),
           -amount[t][a] <= Pending(t, a), Pending(t, a) <= totalSupply[t]
    PROVE  ShareOf(t, a) = [val |-> amount[t][a] + Pending(t, a), ok |-> TRUE]
<1> DEFINE n == amount[t][a]
           d == Pending(t, a)
<1>1. /\ n \in Nat /\ totalSupply[t] \in Nat /\ n <= totalSupply[t]
      /\ totalSupply[t] < HalfWord
  BY HeldOfSupply DEF SmallSupply
<1>2. WordSize \in Nat /\ HalfWord \in Nat /\ WordSize = 2 * HalfWord
  BY HalfWordType
<1>3. d \in Int
  <2>1. dividendIndex[t] \in Index
    BY DEF TypeOK
  <2>2. d \in -HalfWord .. HalfWord - 1
    BY <2>1 DEF TypeOK, Pending
  <2> QED  BY <1>2, <2>2
<1>4. -n <= d /\ d <= totalSupply[t]
  OBVIOUS
<1>5. ShareOf(t, a) = IF d >= 0 THEN Add64(n, d) ELSE Sub64(n, -d)
  BY DEF ShareOf, Pending
<1> HIDE DEF n, d
<1>6. n \in UInt
  BY <1>1, <1>2 DEF UInt
<1>7. CASE d >= 0
  <2>1. d \in UInt /\ n + d \in UInt
    BY <1>1, <1>2, <1>3, <1>4, <1>7 DEF UInt
  <2>2. Add64(n, d).ok /\ Add64(n, d).val = n + d
    BY <1>6, <2>1, AddIsExact
  <2>3. Add64(n, d) = [val |-> n + d, ok |-> TRUE]
    BY <2>2 DEF Add64
  <2> QED  BY <1>5, <1>7, <2>3 DEF n, d
<1>8. CASE ~(d >= 0)
  <2>1. -d \in UInt /\ n - (-d) \in UInt /\ n - (-d) = n + d
    BY <1>1, <1>2, <1>3, <1>4, <1>8 DEF UInt
  <2>2. Sub64(n, -d).ok /\ Sub64(n, -d).val = n + d
    BY <1>6, <2>1, SubIsExact
  <2>3. Sub64(n, -d) = [val |-> n + d, ok |-> TRUE]
    BY <2>2 DEF Sub64
  <2> QED  BY <1>5, <1>8, <2>3 DEF n, d
<1> QED  BY <1>7, <1>8

\* What a step does to one token, written out: nothing to its shares and its
\* deltas, a mint of v shares, or a transfer of v shares.
KeptAt(u) ==
    amount'[u] = amount[u] /\ totalSupply'[u] = totalSupply[u] /\ delta'[u] = delta[u]

MintedAt(u, to, v) ==
    /\ v \in UInt
    /\ totalSupply'[u] = totalSupply[u] + v
    /\ \A b \in Addr : amount'[u][b] = IF b = to THEN amount[u][b] + v ELSE amount[u][b]
    /\ \A b \in Addr, i \in Index :
        delta'[u][b][i] = IF Unpaid(u) /\ i = dividendIndex[u] /\ b = to
                          THEN ToInt64(Neg64(v)) ELSE delta[u][b][i]

MovedAt(u, s, to, v) ==
    /\ v \in UInt /\ v <= amount[u][s]
    /\ totalSupply'[u] = totalSupply[u]
    /\ \A b \in Addr :
        amount'[u][b] = IF s = to THEN amount[u][b]
                        ELSE IF b = s THEN amount[u][b] - v
                        ELSE IF b = to THEN amount[u][b] + v ELSE amount[u][b]
    /\ \A b \in Addr, i \in Index :
        delta'[u][b][i] = IF Unpaid(u) /\ i = dividendIndex[u] /\ b = to
                          THEN ToInt64(Neg64(v))
                          ELSE IF Unpaid(u) /\ i = dividendIndex[u] /\ b = s
                          THEN ToInt64(v) ELSE delta[u][b][i]

LEMMA MintAt ==
    ASSUME TypeOK, NEW s \in Addr, NEW t \in Token, NEW to \in Addr, NEW v \in UInt,
           MintEffect(s, t, to, v)
    PROVE  MintedAt(t, to, v) /\ \A u \in Token \ {t} : KeptAt(u)
<1>1. /\ amount' = [amount EXCEPT ![t] = Credited(amount[t], to, v)]
      /\ totalSupply' = [totalSupply EXCEPT ![t] = totalSupply[t] + v]
      /\ delta' = DeltaAfterMint(t, to, v)
  BY DEF MintEffect
<1>2. /\ amount'[t] = Credited(amount[t], to, v)
      /\ totalSupply'[t] = totalSupply[t] + v
      /\ \A u \in Token \ {t} : amount'[u] = amount[u] /\ totalSupply'[u] = totalSupply[u]
  BY <1>1 DEF TypeOK
<1>3. \A b \in Addr : amount'[t][b] = IF b = to THEN amount[t][b] + v ELSE amount[t][b]
  BY <1>2 DEF Credited, TypeOK
<1>4. \A b \in Addr, i \in Index :
        delta'[t][b][i] = IF Unpaid(t) /\ i = dividendIndex[t] /\ b = to
                          THEN ToInt64(Neg64(v)) ELSE delta[t][b][i]
  BY <1>1 DEF DeltaAfterMint, TypeOK
<1>5. \A u \in Token \ {t} : delta'[u] = delta[u]
  BY <1>1 DEF DeltaAfterMint, TypeOK
<1> QED  BY <1>2, <1>3, <1>4, <1>5 DEF MintedAt, KeptAt

LEMMA TransferAt ==
    ASSUME TypeOK, NEW s \in Addr, NEW t \in Token, NEW to \in Addr, NEW v \in UInt,
           TransferEffect(s, t, to, v)
    PROVE  MovedAt(t, s, to, v) /\ \A u \in Token \ {t} : KeptAt(u)
<1> DEFINE debited == Debited(amount[t], s, v)
<1>1. /\ amount' = [amount EXCEPT ![t] = Credited(debited, to, v)]
      /\ debited \in [Addr -> UInt]
      /\ totalSupply' = totalSupply
      /\ delta' = DeltaAfterTransfer(t, s, to, v)
  BY DEF TransferEffect
<1>2. /\ amount'[t] = Credited(debited, to, v)
      /\ \A u \in Token \ {t} : amount'[u] = amount[u]
      /\ amount[t] \in [Addr -> UInt]
  BY <1>1 DEF TypeOK
<1>3. v \in Nat /\ \A b \in Addr : amount[t][b] \in Nat /\ debited[b] \in Nat
  BY <1>1, <1>2, WordAssumption DEF UInt
<1>4. \A b \in Addr : debited[b] = IF b = s THEN amount[t][b] - v ELSE amount[t][b]
  BY <1>2 DEF Debited
<1>5. v <= amount[t][s]
  BY <1>3, <1>4
<1>6. \A b \in Addr : amount'[t][b] = IF b = to THEN debited[b] + v ELSE debited[b]
  BY <1>1, <1>2 DEF Credited
<1>7. \A b \in Addr :
        amount'[t][b] = IF s = to THEN amount[t][b]
                        ELSE IF b = s THEN amount[t][b] - v
                        ELSE IF b = to THEN amount[t][b] + v ELSE amount[t][b]
  <2> HIDE DEF debited
  <2> QED  BY <1>3, <1>4, <1>6
<1>8. \A b \in Addr, i \in Index :
        delta'[t][b][i] = IF Unpaid(t) /\ i = dividendIndex[t] /\ b = to
                          THEN ToInt64(Neg64(v))
                          ELSE IF Unpaid(t) /\ i = dividendIndex[t] /\ b = s
                          THEN ToInt64(v) ELSE delta[t][b][i]
  BY <1>1 DEF DeltaAfterTransfer, TypeOK
<1>9. \A u \in Token \ {t} : delta'[u] = delta[u]
  BY <1>1 DEF DeltaAfterTransfer, TypeOK
<1> QED  BY <1>1, <1>2, <1>5, <1>7, <1>8, <1>9 DEF MovedAt, KeptAt

\* The same of its dividends: nothing, the last one is paid, or one is
\* registered when none waits.
DividendKeptAt(u) == dividendIndex'[u] = dividendIndex[u] /\ paid'[u] = paid[u]
PaidAt(u) == dividendIndex'[u] = dividendIndex[u] /\ dividendIndex[u] \in paid'[u]
RegisteredAt(u) == ~Unpaid(u) /\ dividendIndex'[u] = dividendIndex[u] + 1

FreshAt(u) == \A a \in Addr, i \in Index : i > dividendIndex[u] => delta[u][a][i] = 0
CoveredAt(u) ==
    Unpaid(u) /\ SmallSupply(u) =>
        \A a \in Addr : -amount[u][a] <= Pending(u, a) /\ Pending(u, a) <= totalSupply[u]

LEMMA AtEach ==
    /\ FreshDeltas <=> \A u \in Token : FreshAt(u)
    /\ DeltaCovered <=> \A u \in Token : CoveredAt(u)
    /\ FreshDeltas' <=> \A u \in Token : FreshAt(u)'
    /\ DeltaCovered' <=> \A u \in Token : CoveredAt(u)'
  BY DEF FreshDeltas, DeltaCovered, FreshAt, CoveredAt

LEMMA KeptCovers ==
    ASSUME NEW u \in Token, FreshAt(u), CoveredAt(u), KeptAt(u), DividendKeptAt(u)
    PROVE  FreshAt(u)' /\ CoveredAt(u)'
  BY DEF FreshAt, CoveredAt, KeptAt, DividendKeptAt, Unpaid, SmallSupply, Pending

LEMMA PaidCovers ==
    ASSUME NEW u \in Token, FreshAt(u), KeptAt(u), PaidAt(u)
    PROVE  FreshAt(u)' /\ CoveredAt(u)'
  BY DEF FreshAt, CoveredAt, KeptAt, PaidAt, Unpaid

LEMMA RegisteredCovers ==
    ASSUME TypeOK, SupplyConserved, NEW u \in Token, FreshAt(u), KeptAt(u), RegisteredAt(u),
           dividendIndex'[u] \in Index
    PROVE  FreshAt(u)' /\ CoveredAt(u)'
<1>1. dividendIndex[u] \in Nat /\ \A i \in Index : i \in Nat
  BY DEF TypeOK, Index
<1>2. FreshAt(u)'
  BY <1>1 DEF FreshAt, KeptAt, RegisteredAt
<1>3. ASSUME NEW a \in Addr PROVE delta[u][a][dividendIndex[u] + 1] = 0
  BY <1>1 DEF FreshAt, RegisteredAt
<1>4. ASSUME NEW a \in Addr PROVE amount[u][a] \in Nat /\ totalSupply[u] \in Nat
  BY HeldOfSupply
<1>5. CoveredAt(u)'
  BY <1>3, <1>4 DEF CoveredAt, KeptAt, RegisteredAt, Pending
<1> QED  BY <1>2, <1>5

LEMMA MintCovers ==
    ASSUME TypeOK, SupplyConserved, NEW u \in Token, FreshAt(u), CoveredAt(u),
           NEW to \in Addr, NEW v, MintedAt(u, to, v), DividendKeptAt(u)
    PROVE  FreshAt(u)' /\ CoveredAt(u)'
<1>1. dividendIndex[u] \in Index /\ \A i \in Index : i \in Nat
  BY DEF TypeOK, Index
<1>2. FreshAt(u)'
  BY <1>1 DEF FreshAt, MintedAt, DividendKeptAt
<1>3. v \in Nat /\ HalfWord \in Nat
  BY HalfWordType DEF MintedAt, UInt
<1>4. ASSUME NEW a \in Addr, Unpaid(u)', SmallSupply(u)'
      PROVE  -amount'[u][a] <= Pending(u, a)' /\ Pending(u, a)' <= totalSupply'[u]
  <2>1. /\ Unpaid(u) /\ totalSupply'[u] = totalSupply[u] + v /\ totalSupply'[u] < HalfWord
        /\ dividendIndex'[u] = dividendIndex[u]
    BY <1>4 DEF Unpaid, DividendKeptAt, MintedAt, SmallSupply
  <2>2. /\ amount[u][a] \in Nat /\ totalSupply[u] \in Nat
    BY HeldOfSupply
  <2>3. ToInt64(Neg64(v)) = -v /\ SmallSupply(u)
    BY <1>3, <2>1, <2>2, ConvertedSmall DEF SmallSupply
  <2>4. CASE a = to
    <3>1. Pending(u, a)' = -v /\ amount'[u][a] = amount[u][a] + v
      BY <1>1, <2>1, <2>3, <2>4 DEF Pending, MintedAt
    <3> QED  BY <1>3, <2>1, <2>2, <3>1
  <2>5. CASE a # to
    <3>1. Pending(u, a)' = Pending(u, a) /\ amount'[u][a] = amount[u][a]
      BY <1>1, <2>1, <2>5 DEF Pending, MintedAt
    <3>2. Pending(u, a) \in Int
      BY <1>1, HalfWordType DEF Pending, TypeOK
    <3>3. -amount[u][a] <= Pending(u, a) /\ Pending(u, a) <= totalSupply[u]
      BY <2>1, <2>3 DEF CoveredAt
    <3> QED  BY <1>3, <2>1, <2>2, <3>1, <3>2, <3>3
  <2> QED  BY <2>4, <2>5
<1> QED  BY <1>2, <1>4 DEF CoveredAt

LEMMA TransferCovers ==
    ASSUME TypeOK, SupplyConserved, NEW u \in Token, FreshAt(u), CoveredAt(u),
           NEW s \in Addr, NEW to \in Addr, NEW v, MovedAt(u, s, to, v), DividendKeptAt(u)
    PROVE  FreshAt(u)' /\ CoveredAt(u)'
<1>1. dividendIndex[u] \in Index /\ \A i \in Index : i \in Nat
  BY DEF TypeOK, Index
<1>2. FreshAt(u)'
  BY <1>1 DEF FreshAt, MovedAt, DividendKeptAt
<1>3. v \in Nat /\ HalfWord \in Nat
  BY HalfWordType DEF MovedAt, UInt
<1>4. ASSUME NEW a \in Addr, Unpaid(u)', SmallSupply(u)'
      PROVE  -amount'[u][a] <= Pending(u, a)' /\ Pending(u, a)' <= totalSupply'[u]
  <2>1. /\ Unpaid(u) /\ totalSupply'[u] = totalSupply[u] /\ totalSupply[u] < HalfWord
        /\ dividendIndex'[u] = dividendIndex[u] /\ SmallSupply(u)
    BY <1>4 DEF Unpaid, DividendKeptAt, MovedAt, SmallSupply
  <2>2. /\ amount[u][a] \in Nat /\ amount[u][s] \in Nat /\ totalSupply[u] \in Nat
        /\ amount[u][s] <= totalSupply[u] /\ v <= amount[u][s]
    BY HeldOfSupply DEF MovedAt
  <2>3. v < HalfWord
    BY <1>3, <2>1, <2>2
  <2>4. ToInt64(Neg64(v)) = -v /\ ToInt64(v) = v
    BY <1>3, <2>3, ConvertedSmall
  <2>5. CASE a = to
    <3>1. Pending(u, a)' = -v
      BY <1>1, <2>1, <2>4, <2>5 DEF Pending, MovedAt
    <3>2. amount'[u][a] >= v
      BY <1>3, <2>2, <2>5 DEF MovedAt
    <3>3. amount'[u][a] \in Nat
      BY <1>3, <2>2, <2>5 DEF MovedAt
    <3> QED  BY <1>3, <2>1, <2>2, <3>1, <3>2, <3>3
  <2>6. CASE a # to /\ a = s
    <3>1. Pending(u, a)' = v /\ amount'[u][a] = amount[u][a] - v
      BY <1>1, <2>1, <2>4, <2>6 DEF Pending, MovedAt
    <3> QED  BY <1>3, <2>1, <2>2, <2>6, <3>1
  <2>7. CASE a # to /\ a # s
    <3>1. Pending(u, a)' = Pending(u, a) /\ amount'[u][a] = amount[u][a]
      BY <1>1, <2>1, <2>7 DEF Pending, MovedAt
    <3> QED  BY <2>1, <3>1 DEF CoveredAt
  <2> QED  BY <2>5, <2>6, <2>7
<1> QED  BY <1>2, <1>4 DEF CoveredAt

\* What the next step does to a token.
StepAt(u) ==
    \/ KeptAt(u) /\ (DividendKeptAt(u) \/ PaidAt(u))
    \/ KeptAt(u) /\ RegisteredAt(u) /\ u <= tokenID /\ dividendIndex'[u] \in Index
    \/ \E to \in Addr, v \in UInt : MintedAt(u, to, v) /\ DividendKeptAt(u)
    \/ \E s, to \in Addr, v \in UInt : MovedAt(u, s, to, v) /\ DividendKeptAt(u)
    \/ u = tokenID + 1 /\ tokenID' = u /\ delta'[u] = delta[u] /\ DividendKeptAt(u)

LEMMA StepsAt ==
    ASSUME CountInv, [Next]_vars, NEW u \in Token
    PROVE  StepAt(u) /\ tokenID' >= tokenID
<1>0. TypeOK /\ tokenID \in Nat
  BY DEF CountInv, TypeOK
<1>1. ASSUME NEW s \in Issuers, NEW v \in Shares, Create(s, v)
      PROVE  StepAt(u) /\ tokenID' >= tokenID
  <2>1. s \in Addr /\ v \in UInt
    BY EstateAssumption
  <2>2. CreateEffect(s, v)
    BY <1>0, <1>1, <2>1, CreateHasEffect
  <2> QED  BY <1>0, <2>2 DEF CreateEffect, StepAt, KeptAt, DividendKeptAt, TypeOK
<1>2. ASSUME NEW s \in Addr, NEW t \in Token, NEW a \in Addr, NEW v \in Shares,
             Mint(s, t, a, v)
      PROVE  StepAt(u) /\ tokenID' >= tokenID
  <2>1. v \in UInt
    BY EstateAssumption
  <2>2. MintEffect(s, t, a, v)
    BY <1>0, <1>2, <2>1, MintHasEffect
  <2>3. MintedAt(t, a, v) /\ \A w \in Token \ {t} : KeptAt(w)
    BY <1>0, <2>1, <2>2, MintAt
  <2>4. DividendKeptAt(u) /\ tokenID' = tokenID
    BY <2>2 DEF MintEffect, DividendKeptAt
  <2> QED  BY <1>0, <2>1, <2>3, <2>4 DEF StepAt
<1>3. ASSUME NEW s \in Addr, NEW t \in Token, NEW a \in Addr, NEW v \in Shares,
             Transfer(s, t, a, v)
      PROVE  StepAt(u) /\ tokenID' >= tokenID
  <2>1. v \in UInt
    BY EstateAssumption
  <2>2. TransferEffect(s, t, a, v)
    BY <1>0, <1>3, <2>1, TransferHasEffect
  <2>3. MovedAt(t, s, a, v) /\ \A w \in Token \ {t} : KeptAt(w)
    BY <1>0, <2>1, <2>2, TransferAt
  <2>4. DividendKeptAt(u) /\ tokenID' = tokenID
    BY <2>2 DEF TransferEffect, DividendKeptAt
  <2> QED  BY <1>0, <2>1, <2>3, <2>4 DEF StepAt
<1>4. ASSUME NEW s \in Addr, NEW t \in Token, NEW p \in PerShare,
             RegisterDividend(s, t, p)
      PROVE  StepAt(u) /\ tokenID' >= tokenID
  <2>1. /\ ~Unpaid(t) /\ creator[t] = s /\ dividendIndex[t] + 1 \in Index
        /\ dividendIndex' = [dividendIndex EXCEPT ![t] = dividendIndex[t] + 1]
        /\ paid' = paid /\ UNCHANGED <<tokenVars, delta>>
    BY <1>4 DEF RegisterDividend
  <2>2. t <= tokenID
    BY <2>1, Created, EstateAssumption
  <2> QED  BY <1>0, <2>1, <2>2
           DEF StepAt, KeptAt, DividendKeptAt, RegisteredAt, tokenVars, TypeOK
<1>5. ASSUME NEW s \in Addr, NEW t \in Token, NEW i \in Index, PayDividend(s, t, i)
      PROVE  StepAt(u) /\ tokenID' >= tokenID
  <2>1. /\ i = dividendIndex[t] /\ paid' = [paid EXCEPT ![t] = paid[t] \cup {i}]
        /\ UNCHANGED <<tokenVars, dividendIndex, delta>>
    BY <1>5 DEF PayDividend
  <2>2. i \in paid'[t] /\ \A w \in Token \ {t} : paid'[w] = paid[w]
    BY <1>0, <2>1 DEF TypeOK
  <2> QED  BY <1>0, <2>1, <2>2 DEF StepAt, KeptAt, DividendKeptAt, PaidAt, tokenVars
<1>6. CASE (\E s \in Issuers, a \in Addr : AddToWhitelist(s, a)) \/ UNCHANGED vars
  <2>1. UNCHANGED <<tokenVars, dividendVars>>
    BY <1>6 DEF AddToWhitelist, vars
  <2> QED  BY <1>0, <2>1 DEF StepAt, KeptAt, DividendKeptAt, tokenVars, dividendVars
<1> QED  BY <1>1, <1>2, <1>3, <1>4, <1>5, <1>6 DEF Next

LEMMA ShareInvStep == ASSUME ShareInv, [Next]_vars PROVE ShareInv'
<1>0. TypeOK /\ tokenID \in Nat /\ \A u \in Token : u \in Nat
  BY DEF ShareInv, CountInv, TypeOK, Token
<1>1. CountInv' /\ SupplyConserved'
  BY CountInvStep, SupplyStep DEF ShareInv
<1>2. ASSUME NEW u \in Token PROVE FreshAt(u)' /\ CoveredAt(u)'
  <2>1. FreshAt(u) /\ CoveredAt(u) /\ SupplyConserved
    BY AtEach DEF ShareInv
  <2>2. CASE u = tokenID + 1 /\ delta'[u] = delta[u] /\ DividendKeptAt(u)
    <3>1. dividendIndex[u] = 0
      BY <1>0, <2>2 DEF ShareInv, FreshDividends
    <3> QED  BY <2>1, <2>2, <3>1 DEF FreshAt, CoveredAt, Unpaid, DividendKeptAt
  <2> QED  BY <1>0, <2>1, <2>2, StepsAt, KeptCovers, PaidCovers, RegisteredCovers,
              MintCovers, TransferCovers DEF StepAt, ShareInv
<1>3. ASSUME NEW u \in Token, u > tokenID' PROVE dividendIndex'[u] = 0
  <2>1. StepAt(u) /\ tokenID' >= tokenID /\ tokenID' \in Nat
    BY <1>1, StepsAt DEF ShareInv, CountInv, TypeOK
  <2>2. u > tokenID
    BY <1>0, <1>3, <2>1
  <2>3. dividendIndex[u] = 0
    BY <2>2 DEF ShareInv, FreshDividends
  <2>4. dividendIndex'[u] = dividendIndex[u]
    BY <1>0, <2>1, <2>2 DEF StepAt, DividendKeptAt, PaidAt
  <2> QED  BY <2>3, <2>4
<1> QED  BY <1>1, <1>2, <1>3, AtEach DEF ShareInv, FreshDividends

LEMMA ShareInvInit == Init => ShareInv
<1> SUFFICES ASSUME Init PROVE ShareInv
  OBVIOUS
<1>1. CountInv /\ SupplyConserved
  BY CountInvInit, SupplyInit
<1>2. FreshDeltas /\ FreshDividends /\ DeltaCovered
  BY DEF Init, FreshDeltas, FreshDividends, DeltaCovered, Unpaid, Token
<1> QED  BY <1>1, <1>2 DEF ShareInv

LEMMA ShareInvariant == Spec => []ShareInv
<1>1. ShareInv /\ [Next]_vars => ShareInv'
  BY ShareInvStep
<1> QED  BY <1>1, ShareInvInit, PTL DEF Spec

\* While a dividend waits, what every address is paid for can be computed: no
\* delta that mints and transfers leave takes an address below zero or past
\* the word (dividend.go:90-102), as long as the estate has fewer than 2^63
\* shares.
THEOREM SharesComputable == Spec => []ShareDefined
<1>1. ASSUME ShareInv PROVE ShareDefined
  <2> SUFFICES ASSUME NEW t \in Token, Unpaid(t), SmallSupply(t), NEW a \in Addr
               PROVE  ShareOf(t, a).ok
    BY DEF ShareDefined, SmallSupply
  <2>1. -amount[t][a] <= Pending(t, a) /\ Pending(t, a) <= totalSupply[t]
    BY <1>1 DEF ShareInv, DeltaCovered
  <2> QED  BY <1>1, <2>1, ShareIsSum DEF ShareInv, CountInv
<1>2. ShareInv => ShareDefined
  BY <1>1
<1> QED  BY <1>2, ShareInvariant, PTL
-----------------------------------------------------------------------------
(* What was held when the dividend was registered. *)

HistoryOK ==
    /\ entitled \in [Token -> [Addr -> UInt]]
    /\ moved \in [Token -> SUBSET Addr]
    /\ movedAgain \in [Token -> SUBSET Addr]
    /\ movedToSelf \in [Token -> SUBSET Addr]

\* A number that is right, or a word off.
UpToWord(n, right) == n \in {right - WordSize, right, right + WordSize}

\* Who has moved no shares holds what it held, and the delta of who has moved
\* them once at most makes up for what has moved, up to a word: the conversions
\* of a large number of shares are a word off.
EntitledAt(u) ==
    Unpaid(u) =>
        \A a \in Addr :
            /\ a \notin moved[u] => amount[u][a] = entitled[u][a]
            /\ a \notin movedAgain[u] \cup movedToSelf[u] =>
                    UpToWord(amount[u][a] + Pending(u, a), entitled[u][a])

EntitledInv == ShareInv /\ HistoryOK /\ \A u \in Token : EntitledAt(u)

\* What a step does to the history of a token.
HistoryKeptAt(u) ==
    /\ entitled'[u] = entitled[u] /\ moved'[u] = moved[u]
    /\ movedAgain'[u] = movedAgain[u] /\ movedToSelf'[u] = movedToSelf[u]

NotedAt(u, who, self) ==
    /\ entitled'[u] = entitled[u] /\ moved'[u] = moved[u] \cup who
    /\ movedAgain'[u] = movedAgain[u] \cup (who \cap moved[u])
    /\ movedToSelf'[u] = movedToSelf[u] \cup self

LEMMA NoteAt ==
    ASSUME HistoryOK, NEW t \in Token, NEW from \in Addr \cup {NoAddr}, NEW to \in Addr,
           Note(t, from, to)
    PROVE  /\ NotedAt(t, {from, to} \cap Addr, {from} \cap {to})
           /\ \A u \in Token \ {t} : HistoryKeptAt(u)
           /\ HistoryOK'
<1>1. /\ moved' = [moved EXCEPT ![t] = moved[t] \cup ({from, to} \cap Addr)]
      /\ movedAgain' = [movedAgain EXCEPT
                            ![t] = movedAgain[t] \cup (({from, to} \cap Addr) \cap moved[t])]
      /\ movedToSelf' = [movedToSelf EXCEPT ![t] = movedToSelf[t] \cup ({from} \cap {to})]
      /\ entitled' = entitled
  BY DEF Note
<1>2. NotedAt(t, {from, to} \cap Addr, {from} \cap {to})
  BY <1>1 DEF NotedAt, HistoryOK
<1>3. \A u \in Token \ {t} : HistoryKeptAt(u)
  BY <1>1 DEF HistoryKeptAt, HistoryOK
<1>4. HistoryOK'
  BY <1>1 DEF HistoryOK
<1> QED  BY <1>2, <1>3, <1>4

\* A step with its history is a step, and keeps the types of the history.
LEMMA HistoryStep ==
    ASSUME TypeOK, HistoryOK, [HNext]_hvars
    PROVE  HistoryOK' /\ [Next]_vars
<1> USE EstateAssumption
<1>1. ASSUME NEW s \in Addr, NEW t \in Token, NEW a \in Addr, NEW v \in Shares,
             HMint(s, t, a, v)
      PROVE  HistoryOK' /\ [Next]_vars
  BY <1>1, NoteAt DEF HMint, Next, history, HistoryOK
<1>2. ASSUME NEW s \in Addr, NEW t \in Token, NEW a \in Addr, NEW v \in Shares,
             HTransfer(s, t, a, v)
      PROVE  HistoryOK' /\ [Next]_vars
  BY <1>2, NoteAt DEF HTransfer, Next, history, HistoryOK
<1>3. ASSUME NEW s \in Addr, NEW t \in Token, NEW p \in PerShare,
             HRegisterDividend(s, t, p)
      PROVE  HistoryOK' /\ [Next]_vars
  <2>1. HistoryOK'
    BY <1>3 DEF HRegisterDividend, HistoryOK, TypeOK
  <2> QED  BY <1>3, <2>1 DEF HRegisterDividend, Next
<1>4. CASE \/ \E s \in Issuers, v \in Shares : Create(s, v) /\ UNCHANGED history
           \/ \E s \in Issuers, a \in Addr : AddToWhitelist(s, a) /\ UNCHANGED history
           \/ \E s \in Addr, t \in Token, i \in Index :
                PayDividend(s, t, i) /\ UNCHANGED history
           \/ UNCHANGED hvars
  BY <1>4 DEF Next, hvars, history, HistoryOK
<1> QED  BY <1>1, <1>2, <1>3, <1>4 DEF HNext

\* What the next step does to a token and its history.
HStepAt(u) ==
    \/ KeptAt(u) /\ DividendKeptAt(u) /\ HistoryKeptAt(u)
    \/ PaidAt(u)
    \/ /\ KeptAt(u) /\ RegisteredAt(u) /\ dividendIndex'[u] \in Index
       /\ entitled'[u] = amount[u] /\ moved'[u] = {}
    \/ \E to \in Addr, v \in UInt :
        /\ MintedAt(u, to, v) /\ DividendKeptAt(u)
        /\ Unpaid(u) => NotedAt(u, {to}, {})
    \/ \E s, to \in Addr, v \in UInt :
        /\ MovedAt(u, s, to, v) /\ DividendKeptAt(u)
        /\ Unpaid(u) => NotedAt(u, {s, to}, {s} \cap {to})
    \/ u = tokenID + 1 /\ DividendKeptAt(u)

LEMMA HStepsAt ==
    ASSUME CountInv, HistoryOK, [HNext]_hvars, NEW u \in Token
    PROVE  HStepAt(u)
<1>0. TypeOK /\ NoAddr \notin Addr
  BY EstateAssumption DEF CountInv
<1>1. ASSUME NEW s \in Issuers, NEW v \in Shares, Create(s, v), UNCHANGED history
      PROVE  HStepAt(u)
  <2>1. s \in Addr /\ v \in UInt
    BY EstateAssumption
  <2>2. CreateEffect(s, v)
    BY <1>0, <1>1, <2>1, CreateHasEffect
  <2>3. HistoryKeptAt(u)
    BY <1>1 DEF history, HistoryKeptAt
  <2>4. DividendKeptAt(u) /\ (u # tokenID + 1 => KeptAt(u))
    BY <1>0, <2>2 DEF CreateEffect, KeptAt, DividendKeptAt, TypeOK
  <2> QED  BY <2>3, <2>4 DEF HStepAt
<1>2. ASSUME NEW s \in Addr, NEW t \in Token, NEW a \in Addr, NEW v \in Shares,
             HMint(s, t, a, v)
      PROVE  HStepAt(u)
  <2>1. v \in UInt /\ Mint(s, t, a, v)
    BY <1>2, EstateAssumption DEF HMint
  <2>2. MintEffect(s, t, a, v)
    BY <1>0, <2>1, MintHasEffect
  <2>3. MintedAt(t, a, v) /\ \A w \in Token \ {t} : KeptAt(w)
    BY <1>0, <2>1, <2>2, MintAt
  <2>4. DividendKeptAt(u)
    BY <2>2 DEF MintEffect, DividendKeptAt
  <2>5. /\ \A w \in Token \ {t} : HistoryKeptAt(w)
        /\ Unpaid(t) => NotedAt(t, {a}, {})
    <3>1. CASE Unpaid(t)
      <4>1. Note(t, NoAddr, a)
        BY <1>2, <3>1 DEF HMint
      <4>2. {NoAddr, a} \cap Addr = {a} /\ {NoAddr} \cap {a} = {}
        BY <1>0
      <4> QED  BY <4>1, <4>2, NoteAt
    <3>2. CASE ~Unpaid(t)
      BY <1>2, <3>2 DEF HMint, history, HistoryKeptAt
    <3> QED  BY <3>1, <3>2
  <2> QED  BY <2>1, <2>3, <2>4, <2>5 DEF HStepAt
<1>3. ASSUME NEW s \in Addr, NEW t \in Token, NEW a \in Addr, NEW v \in Shares,
             HTransfer(s, t, a, v)
      PROVE  HStepAt(u)
  <2>1. v \in UInt /\ Transfer(s, t, a, v)
    BY <1>3, EstateAssumption DEF HTransfer
  <2>2. TransferEffect(s, t, a, v)
    BY <1>0, <2>1, TransferHasEffect
  <2>3. MovedAt(t, s, a, v) /\ \A w \in Token \ {t} : KeptAt(w)
    BY <1>0, <2>1, <2>2, TransferAt
  <2>4. DividendKeptAt(u)
    BY <2>2 DEF TransferEffect, DividendKeptAt
  <2>5. /\ \A w \in Token \ {t} : HistoryKeptAt(w)
        /\ Unpaid(t) => NotedAt(t, {s, a}, {s} \cap {a})
    <3>1. CASE Unpaid(t)
      <4>1. Note(t, s, a)
        BY <1>3, <3>1 DEF HTransfer
      <4>2. {s, a} \cap Addr = {s, a}
        OBVIOUS
      <4> QED  BY <4>1, <4>2, NoteAt
    <3>2. CASE ~Unpaid(t)
      BY <1>3, <3>2 DEF HTransfer, history, HistoryKeptAt
    <3> QED  BY <3>1, <3>2
  <2> QED  BY <2>1, <2>3, <2>4, <2>5 DEF HStepAt
<1>4. ASSUME NEW s \in Addr, NEW t \in Token, NEW p \in PerShare,
             HRegisterDividend(s, t, p)
      PROVE  HStepAt(u)
  <2>1. /\ ~Unpaid(t) /\ dividendIndex[t] + 1 \in Index
        /\ dividendIndex' = [dividendIndex EXCEPT ![t] = dividendIndex[t] + 1]
        /\ paid' = paid /\ UNCHANGED <<tokenVars, delta>>
    BY <1>4 DEF HRegisterDividend, RegisterDividend
  <2>2. /\ entitled' = [entitled EXCEPT ![t] = amount[t]]
        /\ moved' = [moved EXCEPT ![t] = {}]
        /\ movedAgain' = [movedAgain EXCEPT ![t] = {}]
        /\ movedToSelf' = [movedToSelf EXCEPT ![t] = {}]
    BY <1>4 DEF HRegisterDividend
  <2>3. \A w \in Token \ {t} : HistoryKeptAt(w)
    BY <2>2 DEF HistoryOK, HistoryKeptAt
  <2>4. entitled'[t] = amount[t] /\ moved'[t] = {}
    BY <2>2 DEF HistoryOK
  <2>5. KeptAt(u) /\ (u # t => DividendKeptAt(u))
    BY <1>0, <2>1 DEF KeptAt, DividendKeptAt, tokenVars, TypeOK
  <2>6. u = t => RegisteredAt(u) /\ dividendIndex'[u] \in Index
    BY <1>0, <2>1 DEF RegisteredAt, TypeOK
  <2> QED  BY <2>3, <2>4, <2>5, <2>6 DEF HStepAt
<1>5. ASSUME NEW s \in Addr, NEW t \in Token, NEW i \in Index,
             PayDividend(s, t, i), UNCHANGED history
      PROVE  HStepAt(u)
  <2>1. /\ i = dividendIndex[t] /\ paid' = [paid EXCEPT ![t] = paid[t] \cup {i}]
        /\ UNCHANGED <<tokenVars, dividendIndex, delta>>
    BY <1>5 DEF PayDividend
  <2>2. i \in paid'[t] /\ \A w \in Token \ {t} : paid'[w] = paid[w]
    BY <1>0, <2>1 DEF TypeOK
  <2>3. HistoryKeptAt(u)
    BY <1>5 DEF history, HistoryKeptAt
  <2> QED  BY <2>1, <2>2, <2>3 DEF HStepAt, KeptAt, DividendKeptAt, PaidAt, tokenVars
<1>6. CASE (\E s \in Issuers, a \in Addr : AddToWhitelist(s, a) /\ UNCHANGED history)
           \/ UNCHANGED hvars
  <2>1. UNCHANGED <<tokenVars, dividendVars, history>>
    BY <1>6 DEF AddToWhitelist, vars, hvars
  <2> QED  BY <2>1 DEF HStepAt, KeptAt, DividendKeptAt, HistoryKeptAt, tokenVars,
                       dividendVars, history
<1> QED  BY <1>1, <1>2, <1>3, <1>4, <1>5, <1>6 DEF HNext

\* A mint while the dividend waits, seen from one address.
LEMMA MintEntitles ==
    ASSUME TypeOK, HistoryOK, NEW u \in Token, EntitledAt(u),
           NEW to \in Addr, NEW v, MintedAt(u, to, v), DividendKeptAt(u),
           Unpaid(u) => NotedAt(u, {to}, {})
    PROVE  EntitledAt(u)'
<1> SUFFICES ASSUME Unpaid(u)', NEW a \in Addr
             PROVE  /\ a \notin moved'[u] => amount'[u][a] = entitled'[u][a]
                    /\ a \notin movedAgain'[u] \cup movedToSelf'[u] =>
                            UpToWord(amount'[u][a] + Pending(u, a)', entitled'[u][a])
  BY DEF EntitledAt, UpToWord
<1>1. Unpaid(u) /\ dividendIndex'[u] = dividendIndex[u] /\ dividendIndex[u] \in Index
  BY DEF Unpaid, DividendKeptAt, TypeOK
<1>2. /\ v \in Int /\ WordSize \in Int /\ amount[u][a] \in Int
      /\ ToInt64(Neg64(v)) \in {-v, WordSize - v}
  BY WordAssumption, ConvertedUpToWord DEF MintedAt, UInt, TypeOK
<1>3. NotedAt(u, {to}, {})
  BY <1>1
<1>4. /\ a \notin moved[u] => amount[u][a] = entitled[u][a]
      /\ a \notin movedAgain[u] \cup movedToSelf[u] =>
            UpToWord(amount[u][a] + Pending(u, a), entitled[u][a])
  BY <1>1 DEF EntitledAt
<1>5. CASE a = to
  <2>1. Pending(u, a)' = ToInt64(Neg64(v)) /\ amount'[u][a] = amount[u][a] + v
    BY <1>1, <1>5 DEF Pending, MintedAt
  <2>2. a \in moved'[u] /\ (a \notin movedAgain'[u] => a \notin moved[u])
    BY <1>3, <1>5 DEF NotedAt
  <2>3. entitled'[u] = entitled[u]
    BY <1>3 DEF NotedAt
  <2>4. UpToWord(amount'[u][a] + Pending(u, a)', amount[u][a])
    BY <1>2, <2>1 DEF UpToWord
  <2> QED  BY <1>4, <2>2, <2>3, <2>4
<1>6. CASE a # to
  <2>1. Pending(u, a)' = Pending(u, a) /\ amount'[u][a] = amount[u][a]
    BY <1>1, <1>6 DEF Pending, MintedAt
  <2> QED  BY <1>3, <1>4, <1>6, <2>1 DEF NotedAt
<1> QED  BY <1>5, <1>6

LEMMA TransferEntitles ==
    ASSUME TypeOK, HistoryOK, NEW u \in Token, EntitledAt(u),
           NEW s \in Addr, NEW to \in Addr, NEW v, MovedAt(u, s, to, v), DividendKeptAt(u),
           Unpaid(u) => NotedAt(u, {s, to}, {s} \cap {to})
    PROVE  EntitledAt(u)'
<1> SUFFICES ASSUME Unpaid(u)', NEW a \in Addr
             PROVE  /\ a \notin moved'[u] => amount'[u][a] = entitled'[u][a]
                    /\ a \notin movedAgain'[u] \cup movedToSelf'[u] =>
                            UpToWord(amount'[u][a] + Pending(u, a)', entitled'[u][a])
  BY DEF EntitledAt, UpToWord
<1>1. Unpaid(u) /\ dividendIndex'[u] = dividendIndex[u] /\ dividendIndex[u] \in Index
  BY DEF Unpaid, DividendKeptAt, TypeOK
<1>2. /\ v \in Int /\ WordSize \in Int /\ amount[u][a] \in Int
      /\ ToInt64(v) \in {v, v - WordSize}
      /\ ToInt64(Neg64(v)) \in {-v, WordSize - v}
  BY WordAssumption, ConvertedUpToWord DEF MovedAt, UInt, TypeOK
<1>3. NotedAt(u, {s, to}, {s} \cap {to})
  BY <1>1
<1>4. /\ a \notin moved[u] => amount[u][a] = entitled[u][a]
      /\ a \notin movedAgain[u] \cup movedToSelf[u] =>
            UpToWord(amount[u][a] + Pending(u, a), entitled[u][a])
  BY <1>1 DEF EntitledAt
<1>5. CASE a = s \/ a = to
  <2>1. a \in moved'[u] /\ (a \notin movedAgain'[u] => a \notin moved[u])
    BY <1>3, <1>5 DEF NotedAt
  <2>2. entitled'[u] = entitled[u] /\ (s = to => a \in movedToSelf'[u])
    BY <1>3, <1>5 DEF NotedAt
  <2>3. ASSUME s # to
        PROVE  UpToWord(amount'[u][a] + Pending(u, a)', amount[u][a])
    <3>1. CASE a = to
      <4>1. Pending(u, a)' = ToInt64(Neg64(v)) /\ amount'[u][a] = amount[u][a] + v
        BY <1>1, <2>3, <3>1 DEF Pending, MovedAt
      <4> QED  BY <1>2, <4>1 DEF UpToWord
    <3>2. CASE a = s
      <4>1. Pending(u, a)' = ToInt64(v) /\ amount'[u][a] = amount[u][a] - v
        BY <1>1, <2>3, <3>2 DEF Pending, MovedAt
      <4> QED  BY <1>2, <4>1 DEF UpToWord
    <3> QED  BY <1>5, <3>1, <3>2
  <2> QED  BY <1>4, <2>1, <2>2, <2>3
<1>6. CASE a # s /\ a # to
  <2>1. Pending(u, a)' = Pending(u, a) /\ amount'[u][a] = amount[u][a]
    BY <1>1, <1>6 DEF Pending, MovedAt
  <2> QED  BY <1>3, <1>4, <1>6, <2>1 DEF NotedAt
<1> QED  BY <1>5, <1>6

LEMMA RegisteredEntitles ==
    ASSUME TypeOK, NEW u \in Token, FreshAt(u), KeptAt(u), RegisteredAt(u),
           dividendIndex'[u] \in Index, SupplyConserved,
           entitled'[u] = amount[u], moved'[u] = {}
    PROVE  EntitledAt(u)'
<1>1. dividendIndex[u] \in Nat
  BY DEF TypeOK, Index
<1>2. ASSUME NEW a \in Addr PROVE Pending(u, a)' = 0 /\ amount'[u][a] \in Nat
  BY <1>1, HeldOfSupply DEF FreshAt, RegisteredAt, KeptAt, Pending
<1>3. amount'[u] = entitled'[u]
  BY DEF KeptAt
<1>4. \A a \in Addr : amount'[u][a] + Pending(u, a)' = entitled'[u][a]
  BY <1>2, <1>3
<1> QED  BY <1>3, <1>4 DEF EntitledAt, UpToWord

LEMMA EntitledInvStep == ASSUME EntitledInv, [HNext]_hvars PROVE EntitledInv'
<1>0. CountInv /\ TypeOK /\ SupplyConserved /\ HistoryOK /\ FreshDeltas
  BY DEF EntitledInv, ShareInv, CountInv
<1>1. HistoryOK' /\ [Next]_vars
  BY <1>0, HistoryStep
<1>2. ShareInv'
  BY <1>1, ShareInvStep DEF EntitledInv
<1>3. ASSUME NEW u \in Token PROVE EntitledAt(u)'
  <2>1. HStepAt(u) /\ EntitledAt(u) /\ FreshAt(u)
    BY <1>0, HStepsAt, AtEach DEF EntitledInv
  <2>2. CASE KeptAt(u) /\ DividendKeptAt(u) /\ HistoryKeptAt(u)
    BY <2>1, <2>2 DEF EntitledAt, KeptAt, DividendKeptAt, HistoryKeptAt, Unpaid,
                      UpToWord, Pending
  <2>3. CASE PaidAt(u)
    BY <2>3 DEF PaidAt, EntitledAt, Unpaid
  <2>4. CASE u = tokenID + 1 /\ DividendKeptAt(u)
    <3>1. dividendIndex[u] = 0
      BY <1>0, <2>4 DEF EntitledInv, ShareInv, FreshDividends, TypeOK
    <3> QED  BY <2>4, <3>1 DEF EntitledAt, Unpaid, DividendKeptAt
  <2> QED  BY <1>0, <2>1, <2>2, <2>3, <2>4, MintEntitles, TransferEntitles,
              RegisteredEntitles DEF HStepAt
<1> QED  BY <1>1, <1>2, <1>3 DEF EntitledInv

LEMMA EntitledInvariant == HSpec => []EntitledInv
<1>1. ASSUME HInit PROVE EntitledInv
  <2>1. Init /\ HistoryOK
    BY <1>1, WordAssumption DEF HInit, HistoryOK, UInt
  <2>2. ShareInv
    BY <2>1, ShareInvInit
  <2>3. \A u \in Token : EntitledAt(u)
    BY <2>1 DEF Init, EntitledAt, Unpaid
  <2> QED  BY <2>1, <2>2, <2>3 DEF EntitledInv
<1>2. HInit => EntitledInv
  BY <1>1
<1>3. EntitledInv /\ [HNext]_hvars => EntitledInv'
  BY EntitledInvStep
<1> QED  BY <1>2, <1>3, PTL DEF HSpec

\* A number of shares that dividendOf pays for is a word, and so not a word off.
LEMMA ShareIsEntitled ==
    ASSUME TypeOK, HistoryOK, NEW t \in Token, NEW a \in Addr, ShareOf(t, a).ok,
           UpToWord(amount[t][a] + Pending(t, a), entitled[t][a])
    PROVE  ShareOf(t, a).val = entitled[t][a]
<1> DEFINE n == amount[t][a]
           d == Pending(t, a)
           r == entitled[t][a]
<1>1. n \in UInt /\ r \in UInt
  BY DEF TypeOK, HistoryOK
<1>2. d \in -HalfWord .. HalfWord - 1
  <2>1. dividendIndex[t] \in Index
    BY DEF TypeOK
  <2> QED  BY <2>1 DEF TypeOK, Pending
<1>3. WordSize \in Nat /\ HalfWord \in Nat \ {0} /\ WordSize = 2 * HalfWord
  BY HalfWordType
<1>4. ShareOf(t, a) = IF d >= 0 THEN Add64(n, d) ELSE Sub64(n, -d)
  BY DEF ShareOf, Pending
<1>5. ShareOf(t, a).ok /\ n + d \in {r - WordSize, r, r + WordSize}
  BY DEF UpToWord
<1> HIDE DEF n, d, r
<1>6. n + d \in UInt /\ ShareOf(t, a).val = n + d
  <2>1. CASE d >= 0
    <3>1. d \in UInt
      BY <1>2, <1>3, <2>1 DEF UInt
    <3> QED  BY <1>1, <1>4, <1>5, <2>1, <3>1, AddIsExact
  <2>2. CASE ~(d >= 0)
    <3>1. -d \in UInt /\ n - (-d) = n + d
      BY <1>1, <1>2, <1>3, <2>2 DEF UInt
    <3> QED  BY <1>1, <1>4, <1>5, <2>2, <3>1, SubIsExact
  <2> QED  BY <2>1, <2>2
<1>7. n + d \in Int
  BY <1>6, <1>3 DEF UInt
<1>8. n + d = r
  BY <1>1, <1>5, <1>6, <1>7, WordOff
<1> QED  BY <1>6, <1>8 DEF r

\* Until a dividend is paid, an address that took part in at most one transfer
\* or mint since it was registered is paid for exactly what it held at the
\* registration, or dividendOf returns an error: with any number of shares the
\* two conversions of a delta undo each other or lead to no word, and with less
\* than half a word of them there is no error (estate.go:194-197 and 255-259,
\* dividend.go:90-102).
THEOREM EntitledIsPaid == HSpec => []EntitlementKept
<1>1. ASSUME EntitledInv PROVE EntitlementKept
  <2> SUFFICES ASSUME NEW t \in Token, Unpaid(t),
                      NEW a \in Addr, a \notin movedAgain[t] \cup movedToSelf[t]
               PROVE  /\ ShareOf(t, a).ok => ShareOf(t, a).val = entitled[t][a]
                      /\ totalSupply[t] < HalfWord => ShareOf(t, a).ok
    BY DEF EntitlementKept
  <2>1. UpToWord(amount[t][a] + Pending(t, a), entitled[t][a])
    BY <1>1 DEF EntitledInv, EntitledAt
  <2>2. ShareOf(t, a).ok => ShareOf(t, a).val = entitled[t][a]
    BY <1>1, <2>1, ShareIsEntitled DEF EntitledInv, ShareInv, CountInv
  <2>3. ASSUME SmallSupply(t) PROVE ShareOf(t, a).ok
    <3>1. -amount[t][a] <= Pending(t, a) /\ Pending(t, a) <= totalSupply[t]
      BY <1>1, <2>3 DEF EntitledInv, ShareInv, DeltaCovered
    <3>2. ShareOf(t, a) = [val |-> amount[t][a] + Pending(t, a), ok |-> TRUE]
      BY <1>1, <2>3, <3>1, ShareIsSum DEF EntitledInv, ShareInv, CountInv
    <3> QED  BY <3>2
  <2> QED  BY <2>2, <2>3 DEF SmallSupply
<1>2. EntitledInv => EntitlementKept
  BY <1>1
<1> QED  BY <1>2, EntitledInvariant, PTL
=============================================================================
