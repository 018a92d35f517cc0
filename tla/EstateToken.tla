----------------------------- MODULE EstateToken -----------------------------
(***************************************************************************)
(* The security token of contract/simapp/securitychain: estates held in    *)
(* shares by at most MaxTokenOwner whitelisted addresses, and the dividend *)
(* each estate registers and pays.                                         *)
(*                                                                         *)
(* A variable is a family of keys of the contract's store, an action is a  *)
(* contract call that succeeds.  A call that returns an error is reverted  *)
(* with its transaction and leaves the store as it was, so it is no step.  *)
(***************************************************************************)
EXTENDS Word, FiniteSets, Functions

CONSTANTS
    Addr,            \* account addresses
    NoAddr,          \* the nil address: creator of a token not yet created
    MaxTokenOwner,   \* the code's MaxTokenOwner (3)
    Issuers,         \* bound: the addresses that create and whitelist
    MaxToken,        \* bound: token ids are 1 .. MaxToken
    MaxIndex,        \* bound: dividend indexes are 1 .. MaxIndex
    Shares,          \* bound: the numbers of shares that calls name
    PerShare         \* bound: the dividends per share that are registered

ASSUME EstateAssumption ==
    /\ NoAddr \notin Addr
    /\ IsFiniteSet(Addr)
    /\ Issuers \subseteq Addr
    /\ MaxToken \in Nat /\ MaxIndex \in Nat
    /\ MaxTokenOwner \in Nat \ {0} /\ MaxTokenOwner + 1 < WordSize
    /\ Shares \subseteq UInt /\ PerShare \subseteq UInt

VARIABLES
    tokenID,         \* the last token id given out
    creator,         \* creator of each token
    totalSupply,     \* shares of each token
    amount,          \* shares of each token held by each address
    ownerCount,      \* the contract's own count of the holders of a token
    whitelist,       \* pairs <<address, by>>
    dividendIndex,   \* index of the last dividend of each token
    perShare,        \* what each dividend pays per share
    paid,            \* indexes of the paid dividends of each token
    delta            \* what to add to an address's shares for a dividend

tokenVars == <<tokenID, creator, totalSupply, amount, ownerCount>>
dividendVars == <<dividendIndex, perShare, paid, delta>>
vars == <<tokenVars, whitelist, dividendVars>>

Token == 1 .. MaxToken
Index == 0 .. MaxIndex
-----------------------------------------------------------------------------
\* A key that was never written reads as zero, false or nil.
Init ==
    /\ tokenID = 0
    /\ creator = [t \in Token |-> NoAddr]
    /\ totalSupply = [t \in Token |-> 0]
    /\ amount = [t \in Token |-> [a \in Addr |-> 0]]
    /\ ownerCount = [t \in Token |-> 0]
    /\ whitelist = {}
    /\ dividendIndex = [t \in Token |-> 0]
    /\ perShare = [t \in Token |-> [i \in Index |-> 0]]
    /\ paid = [t \in Token |-> {}]
    /\ delta = [t \in Token |-> [a \in Addr |-> [i \in Index |-> 0]]]

\* A dividend has been registered and is not paid yet.
Unpaid(t) == dividendIndex[t] # 0 /\ dividendIndex[t] \notin paid[t]

-----------------------------------------------------------------------------
(* Faults: variants of definitions below, each of which breaks a property. *)

\* One holder more than the limit gets in.
CheckOffByOne(t, to, owners) ==
    /\ creator[t] # NoAddr
    /\ <<to, creator[t]>> \in whitelist
    /\ owners <= MaxTokenOwner + 1

\* Whoever any issuer whitelisted may hold every token.
CheckAnyIssuer(t, to, owners) ==
    /\ creator[t] # NoAddr
    /\ \E by \in Addr : <<to, by>> \in whitelist
    /\ owners <= MaxTokenOwner

\* A zero-value transfer by an address without shares counts as a holder less.
OwnersAfterDebitZero(owners, after, value) ==
    IF after = 0 THEN Wrap(owners - 1) ELSE owners

\* A zero-value mint or transfer counts as a holder more.
OwnersAfterCreditZero(owners, before, value) ==
    IF before = 0 THEN Wrap(owners + 1) ELSE owners

\* Only the recipient's delta is written.
DeltaAfterTransferHalf(t, from, to, value) ==
    IF Unpaid(t)
    THEN [delta EXCEPT ![t][to][dividendIndex[t]] = ToInt64(Neg64(value))]
    ELSE delta

\* Newly minted shares earn the pending dividend.
DeltaAfterMintNone(t, to, value) == delta

\* The recipient's amount is read before the sender's is written.
TransferReadsFirst(signer, t, to, value) ==
    LET fromAmount == Sub64(amount[t][signer], value)
        toAmount   == Add64(amount[t][to], value)
    IN  /\ fromAmount.ok /\ toAmount.ok
        /\ creator[t] # NoAddr /\ <<to, creator[t]>> \in whitelist
        /\ amount' = [amount EXCEPT ![t][signer] = fromAmount.val,
                                    ![t][to] = toAmount.val]
        /\ UNCHANGED <<tokenID, creator, totalSupply, ownerCount, whitelist,
                       dividendVars>>

\* A dividend can be registered while another waits for payment.
RegisterDividendAnyTime(signer, t, share) ==
    /\ creator[t] = signer
    /\ dividendIndex[t] + 1 \in Index
    /\ dividendIndex' = [dividendIndex EXCEPT ![t] = @ + 1]
    /\ perShare' = [perShare EXCEPT ![t][dividendIndex[t] + 1] = share]
    /\ UNCHANGED <<tokenVars, whitelist, paid, delta>>
-----------------------------------------------------------------------------
\* check: the restriction on who may hold shares, read after the writes of
\* the call it ends, of which "owners" is the owner count.
Check(t, to, owners) ==
    /\ creator[t] # NoAddr
    /\ <<to, creator[t]>> \in whitelist
    /\ owners <= MaxTokenOwner

\* The owner count once an address that had "before" shares gets "value".
OwnersAfterCredit(owners, before, value) ==
    IF before = 0 /\ value # 0 THEN Wrap(owners + 1) ELSE owners

\* The owner count once an address is left with "after" by giving "value".
OwnersAfterDebit(owners, after, value) ==
    IF after = 0 /\ value # 0 THEN Wrap(owners - 1) ELSE owners

\* Each write replaces what an earlier call of the same dividend left.
DeltaAfterMint(t, to, value) ==
    IF Unpaid(t)
    THEN [delta EXCEPT ![t][to][dividendIndex[t]] = ToInt64(Neg64(value))]
    ELSE delta

\* The sender's delta, then the recipient's.
DeltaAfterTransfer(t, from, to, value) ==
    IF Unpaid(t)
    THEN [delta EXCEPT ![t][from][dividendIndex[t]] = ToInt64(value),
                       ![t][to][dividendIndex[t]] = ToInt64(Neg64(value))]
    ELSE delta

Create(signer, supply) ==
    LET t == tokenID + 1
    IN  /\ t \in Token
        /\ tokenID' = t
        /\ creator' = [creator EXCEPT ![t] = signer]
        /\ totalSupply' = [totalSupply EXCEPT ![t] = supply]
        /\ amount' = [amount EXCEPT ![t][signer] = supply]
        /\ ownerCount' = [ownerCount EXCEPT ![t] = 1]
        /\ UNCHANGED <<whitelist, dividendVars>>

Mint(signer, t, to, value) ==
    LET toAmount == Add64(amount[t][to], value)
        supply   == Add64(totalSupply[t], value)
        owners   == OwnersAfterCredit(ownerCount[t], amount[t][to], value)
    IN  /\ creator[t] = signer
        /\ toAmount.ok /\ supply.ok
        /\ Check(t, to, owners)
        /\ amount' = [amount EXCEPT ![t][to] = toAmount.val]
        /\ totalSupply' = [totalSupply EXCEPT ![t] = supply.val]
        /\ ownerCount' = [ownerCount EXCEPT ![t] = owners]
        /\ delta' = DeltaAfterMint(t, to, value)
        /\ UNCHANGED <<tokenID, creator, whitelist, dividendIndex, perShare, paid>>

\* The recipient's amount is read after the sender's is written: in a
\* transfer to oneself the two are one key.
Transfer(signer, t, to, value) ==
    LET fromAmount == Sub64(amount[t][signer], value)
        debited    == [amount[t] EXCEPT ![signer] = fromAmount.val]
        left       == OwnersAfterDebit(ownerCount[t], fromAmount.val, value)
        toAmount   == Add64(debited[to], value)
        owners     == OwnersAfterCredit(left, debited[to], value)
    IN  /\ fromAmount.ok /\ toAmount.ok
        /\ Check(t, to, owners)
        /\ amount' = [amount EXCEPT ![t] = [debited EXCEPT ![to] = toAmount.val]]
        /\ ownerCount' = [ownerCount EXCEPT ![t] = owners]
        /\ delta' = DeltaAfterTransfer(t, signer, to, value)
        /\ UNCHANGED <<tokenID, creator, totalSupply, whitelist,
                       dividendIndex, perShare, paid>>

AddToWhitelist(signer, a) ==
    /\ <<a, signer>> \notin whitelist
    /\ whitelist' = whitelist \cup {<<a, signer>>}
    /\ UNCHANGED <<tokenVars, dividendVars>>

RegisterDividend(signer, t, share) ==
    LET index == dividendIndex[t] + 1
    IN  /\ creator[t] = signer
        /\ ~Unpaid(t)
        /\ index \in Index
        /\ dividendIndex' = [dividendIndex EXCEPT ![t] = index]
        /\ perShare' = [perShare EXCEPT ![t][index] = share]
        /\ UNCHANGED <<tokenVars, whitelist, paid, delta>>

PayDividend(signer, t, index) ==
    /\ creator[t] = signer
    /\ index \notin paid[t]
    /\ index # 0 /\ index = dividendIndex[t]
    /\ paid' = [paid EXCEPT ![t] = @ \cup {index}]
    /\ UNCHANGED <<tokenVars, whitelist, dividendIndex, perShare, delta>>

Next ==
    \/ \E s \in Issuers, v \in Shares : Create(s, v)
    \/ \E s \in Addr, t \in Token, a \in Addr, v \in Shares : Mint(s, t, a, v)
    \/ \E s \in Addr, t \in Token, a \in Addr, v \in Shares : Transfer(s, t, a, v)
    \/ \E s \in Issuers, a \in Addr : AddToWhitelist(s, a)
    \/ \E s \in Addr, t \in Token, p \in PerShare : RegisterDividend(s, t, p)
    \/ \E s \in Addr, t \in Token, i \in Index : PayDividend(s, t, i)

Spec == Init /\ [][Next]_vars
-----------------------------------------------------------------------------
\* dividendOf, in its two steps: the shares an address is paid for, and what
\* they earn.
ShareOf(t, a) ==
    LET d == delta[t][a][dividendIndex[t]]
    IN  IF d >= 0 THEN Add64(amount[t][a], d) ELSE Sub64(amount[t][a], -d)

DividendOf(t, a) ==
    LET share == ShareOf(t, a)
        res   == Mul64(share.val, perShare[t][dividendIndex[t]])
    IN  [val |-> res.val, ok |-> share.ok /\ res.ok]
-----------------------------------------------------------------------------
\* Every variable keeps its type: counts and amounts stay in a uint64.
TypeOK ==
    /\ tokenID \in 0 .. MaxToken
    /\ creator \in [Token -> Addr \cup {NoAddr}]
    /\ totalSupply \in [Token -> UInt]
    /\ amount \in [Token -> [Addr -> UInt]]
    /\ ownerCount \in [Token -> UInt]
    /\ whitelist \subseteq Addr \X Addr
    /\ dividendIndex \in [Token -> Index]
    /\ perShare \in [Token -> [Index -> UInt]]
    /\ paid \in [Token -> SUBSET Index]
    /\ delta \in [Token -> [Addr -> [Index -> -HalfWord .. HalfWord - 1]]]

HoldersOf(balances) == {a \in Addr : balances[a] # 0}

Holders(t) == HoldersOf(amount[t])

\* However transfers and mints follow each other, an estate never has more
\* holders than MaxTokenOwner (estate.go:18, "check").
HolderLimit == \A t \in Token : Cardinality(Holders(t)) <= MaxTokenOwner

\* The contract never lists its holders: it trusts a counter that transfer
\* and mint adjust.  The counter never falls behind the holders there are, so
\* it cannot wrap below zero and the limit it enforces is the real one.
OwnerCountCovers ==
    \A t \in Token : /\ Cardinality(Holders(t)) <= ownerCount[t]
                     /\ ownerCount[t] <= MaxTokenOwner

\* After the creation of a token, each call moves the counter by exactly the
\* number of holders it adds or removes, self-transfers and transfers of zero
\* included.
OwnerCountTracks ==
    [][\A t \in Token : t <= tokenID =>
            ownerCount[t]' - ownerCount[t]
                = Cardinality(Holders(t)') - Cardinality(Holders(t))]_vars

\* Whoever holds shares is the creator of the estate or was whitelisted by
\* that creator; the whitelist of another issuer lets nobody in.
HoldersWhitelisted ==
    \A t \in Token : \A a \in Holders(t) :
        a = creator[t] \/ <<a, creator[t]>> \in whitelist

\* The shares of a token add up to its total supply.
SupplyConserved ==
    \A t \in Token : SumFunction(amount[t]) = totalSupply[t]

\* Dividends are paid in order and once: all but the last are paid, and none
\* is paid before it is registered.
OnlyLatestUnpaid ==
    \A t \in Token :
        /\ 1 .. dividendIndex[t] - 1 \subseteq paid[t]
        /\ paid[t] \subseteq 1 .. dividendIndex[t]

\* While a dividend waits for payment, the shares it is paid for can be
\* computed for every address: the stored delta never exceeds what the
\* address holds, nor the word.  (With 2^63 shares or more the conversion of a
\* share count to int64 changes its sign, and this is lost.)
ShareDefined ==
    \A t \in Token : Unpaid(t) /\ totalSupply[t] < HalfWord =>
        \A a \in Addr : ShareOf(t, a).ok

\* What an address is to be paid is exactly its shares times the dividend of
\* one, or an error if that is no word; it is never what is left of a product
\* that wrapped.
DividendExact ==
    \A t \in Token, a \in Addr :
        LET share == ShareOf(t, a)
        IN  share.ok => Exact(DividendOf(t, a),
                              share.val * perShare[t][dividendIndex[t]])
=============================================================================
