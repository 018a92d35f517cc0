------------------------------ MODULE AtomicSwap ------------------------------
(***************************************************************************)
(* What a sale is to be, as README.md puts it: coins and shares that are   *)
(* on two chains change hands in one step or not at all, to whitelisted    *)
(* buyers only, and never to more holders than the limit.                  *)
(*                                                                         *)
(* There are no chains here, no locks and no counter of holders.           *)
(***************************************************************************)
EXTENDS Naturals, FiniteSets

CONSTANTS
    User,
    Tx,              \* cross-chain transactions
    Deal,            \* what they may be about: [seller, buyer, shares, price]
    Amount,          \* what the calls of a single contract may name
    MaxTokenOwner    \* how many users may hold shares

VARIABLES
    coin,         \* the balance of each user
    share,        \* the shares of each user
    whitelisted,  \* the users who may be given shares
    agreed,       \* the deal of each transaction, as a set of at most one
    settled       \* the transactions that have taken place

vars == <<coin, share, whitelisted, agreed, settled>>

Moved(f, from, to, n) == [[f EXCEPT ![from] = @ - n] EXCEPT ![to] = @ + n]

Holders(shares) == {u \in User : shares[u] # 0}

MayPay(from, n) == coin[from] >= n

MayGive(from, to, n) ==
    /\ share[from] >= n
    /\ to \in whitelisted
    /\ Cardinality(Holders(Moved(share, from, to, n))) <= MaxTokenOwner

Init ==
    /\ coin \in [User -> Nat]
    /\ share \in [User -> Nat]
    /\ Cardinality(Holders(share)) <= MaxTokenOwner
    /\ whitelisted \subseteq User
    /\ agreed = [x \in Tx |-> {}]
    /\ settled = {}

Pay(from, to, n) ==
    /\ MayPay(from, n)
    /\ coin' = Moved(coin, from, to, n)
    /\ UNCHANGED <<share, whitelisted, agreed, settled>>

Give(from, to, n) ==
    /\ MayGive(from, to, n)
    /\ share' = Moved(share, from, to, n)
    /\ UNCHANGED <<coin, whitelisted, agreed, settled>>

Admit(u) ==
    /\ whitelisted' = whitelisted \cup {u}
    /\ UNCHANGED <<coin, share, agreed, settled>>

Agree(x, d) ==
    /\ agreed[x] = {}
    /\ agreed' = [agreed EXCEPT ![x] = {d}]
    /\ UNCHANGED <<coin, share, whitelisted, settled>>

Settle(x, d) ==
    /\ x \notin settled /\ d \in agreed[x]
    /\ MayPay(d.buyer, d.price) /\ MayGive(d.seller, d.buyer, d.shares)
    /\ coin' = Moved(coin, d.buyer, d.seller, d.price)
    /\ share' = Moved(share, d.seller, d.buyer, d.shares)
    /\ settled' = settled \cup {x}
    /\ UNCHANGED <<whitelisted, agreed>>

Next ==
    \/ \E u, v \in User, n \in Amount : Pay(u, v, n) \/ Give(u, v, n)
    \/ \E u \in User : Admit(u)
    \/ \E x \in Tx, d \in Deal : Agree(x, d) \/ Settle(x, d)

Spec == Init /\ [][Next]_vars
=============================================================================
