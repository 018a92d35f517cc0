------------------------------ MODULE DccToken ------------------------------
(***************************************************************************)
(* The coin of contract/simapp/coinchain: balances in uint64, minted,      *)
(* transferred one at a time, and transferred in a batch to pay dividends. *)
(*                                                                         *)
(* An action is a contract call that succeeds; a call that returns an      *)
(* error is reverted with its transaction and is no step.                  *)
(***************************************************************************)
EXTENDS Word, FiniteSets, Functions, Sequences

CONSTANTS
    Addr,       \* account addresses
    Values,     \* bound: the amounts that calls name
    MaxBatch    \* bound: the longest batch

ASSUME DccAssumption ==
    /\ IsFiniteSet(Addr)
    /\ Values \subseteq UInt
    /\ MaxBatch \in Nat

VARIABLES
    amount,       \* the balance of each address
    totalSupply   \* what has been minted

vars == <<amount, totalSupply>>

Init ==
    /\ amount = [a \in Addr |-> 0]
    /\ totalSupply = 0

\* A fault: the balance is added to without a check.
MintUnchecked(to, value) ==
    LET supply == Add64(totalSupply, value)
    IN  /\ amount' = [amount EXCEPT ![to] = @ + value]
        /\ totalSupply' = supply.val

Mint(to, value) ==
    LET toAmount == Add64(amount[to], value)
        supply   == Add64(totalSupply, value)
    IN  /\ toAmount.ok /\ supply.ok
        /\ amount' = [amount EXCEPT ![to] = toAmount.val]
        /\ totalSupply' = supply.val

\* A fault: the recipient's balance is read before the sender's is written.
TransferReadsFirst(from, to, value) ==
    LET fromAmount == Sub64(amount[from], value)
        toAmount   == Add64(amount[to], value)
    IN  /\ fromAmount.ok /\ toAmount.ok
        /\ amount' = [amount EXCEPT ![from] = fromAmount.val, ![to] = toAmount.val]
        /\ UNCHANGED totalSupply

Transfer(from, to, value) ==
    LET fromAmount == Sub64(amount[from], value)
        debited    == [amount EXCEPT ![from] = fromAmount.val]
        toAmount   == Add64(debited[to], value)
    IN  /\ fromAmount.ok /\ toAmount.ok
        /\ amount' = [debited EXCEPT ![to] = toAmount.val]
        /\ UNCHANGED totalSupply
-----------------------------------------------------------------------------
\* A fault: an address named twice gets the last of its values only.
CreditLast(tos, values, a) ==
    LET named == {i \in DOMAIN tos : tos[i] = a}
    IN  IF named = {} THEN 0
        ELSE values[CHOOSE i \in named : \A j \in named : j <= i]

\* What a batch gives to address a: it may name an address several times.
Credit(tos, values, a) ==
    SumFunctionOnSet(values, {i \in DOMAIN tos : tos[i] = a})

\* The sum of a batch is added up without a check.
BatchSum(values) == Wrap(SumFunction(values))

\* The sender is debited the sum, then the recipients are credited one by
\* one with Add64: all additions succeed when and only when the last one to
\* each address does.
TransferBatch(from, tos, values) ==
    LET fromAmount == Sub64(amount[from], BatchSum(values))
        debited    == [amount EXCEPT ![from] = fromAmount.val]
        credited   == [a \in Addr |-> debited[a] + Credit(tos, values, a)]
    IN  /\ Len(tos) = Len(values)
        /\ fromAmount.ok
        /\ credited \in [Addr -> UInt]
        /\ amount' = credited
        /\ UNCHANGED totalSupply

\* A batch call's two arguments, of up to MaxBatch entries each.
Batches(S) == UNION {[1 .. n -> S] : n \in 0 .. MaxBatch}

Next ==
    \/ \E a \in Addr, v \in Values : Mint(a, v)
    \/ \E f, a \in Addr, v \in Values : Transfer(f, a, v)
    \/ \E f \in Addr, tos \in Batches(Addr), values \in Batches(Values) :
            TransferBatch(f, tos, values)

Spec == Init /\ [][Next]_vars
-----------------------------------------------------------------------------
\* Balances and supply stay in a uint64.
TypeOK ==
    /\ amount \in [Addr -> UInt]
    /\ totalSupply \in UInt

\* Whatever is transferred, to oneself or to one address twice in a batch,
\* the balances add up to what was minted.
SupplyConserved == SumFunction(amount) = totalSupply

\* Whatever an account holds, a credit or a debit of it is refused just when
\* the result is no word (safemath.go, as mint and transfer use it).
SumsExact ==
    \A a \in Addr, v \in UInt : /\ Exact(Add64(amount[a], v), amount[a] + v)
                                /\ Exact(Sub64(amount[a], v), amount[a] - v)

\* What one checked transfer after the other leaves of the balances.
Transferred(balances, from, to, value) ==
    LET debited == [balances EXCEPT ![from] = @ - value]
    IN  [debited EXCEPT ![to] = @ + value]

OneByOne(from, tos, values) ==
    LET bal[n \in 0 .. Len(tos)] ==
            IF n = 0 THEN amount
            ELSE Transferred(bal[n - 1], from, tos[n], values[n])
    IN  bal[Len(tos)]

\* A batch does exactly what its transfers would have done one by one, each
\* recipient of the dividend in full, or it does nothing.
BatchIsTransfers ==
    [][\A f \in Addr, tos \in Batches(Addr), values \in Batches(Values) :
            TransferBatch(f, tos, values) => amount' = OneByOne(f, tos, values)]_vars

\* What dcc_test.go:77 asserts of one batch, of any: a sender that is not
\* among the recipients is left with its balance less the values it sent.
BatchDebitsSum ==
    [][\A f \in Addr, tos \in Batches(Addr), values \in Batches(Values) :
            TransferBatch(f, tos, values) /\ f \notin Range(tos) =>
                amount'[f] = amount[f] - SumFunction(values)]_vars
=============================================================================
