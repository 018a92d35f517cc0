--------------------------- MODULE DividendPayout ---------------------------
(***************************************************************************)
(* What a dividend is to be (README.md:58, 62): its registration vests a   *)
(* right in whoever holds shares at that moment, and it is distributed to  *)
(* all who have the right, in one step and once, before the next one can   *)
(* be registered.  Shares that change hands meanwhile leave the right      *)
(* behind; only a sale that was agreed before the registration and takes   *)
(* place after it takes the right along.  What is paid to an address that  *)
(* has moved shares more than once meanwhile is left open.                 *)
(***************************************************************************)
EXTENDS Naturals, Functions

CONSTANTS
    Addr,
    Issuer,
    Listed,     \* the users that the application knows
    PerShare,   \* the dividends per share that are registered
    Shares,     \* the numbers of shares that are sold
    NoDeal

VARIABLES
    coin,       \* coins of each address
    share,      \* shares of each address
    right,      \* the shares that each address is to be paid for
    rate,       \* what the last dividend pays per share
    registered, \* how many dividends have been registered
    settled,    \* how many have been distributed
    once,       \* who has moved shares, and left the right behind
    again,      \* who has done so more than once
    deal,       \* the sale that is agreed, if there is one
    cum         \* the sale that is agreed takes the right along

dividend == <<right, rate, registered, settled, once, again>>
vars == <<coin, share, dividend, deal, cum>>

Nobody == [a \in Addr |-> 0]

Moved(f, from, to, n) == [[f EXCEPT ![from] = @ - n] EXCEPT ![to] = @ + n]

Init ==
    /\ coin \in [Addr -> Nat] /\ share \in [Addr -> Nat]
    /\ right = Nobody /\ rate = 0
    /\ registered = 0 /\ settled = 0
    /\ once = {} /\ again = {}
    /\ deal = NoDeal /\ cum = FALSE

Register ==
    /\ settled = registered
    /\ registered' = registered + 1
    /\ right' = share /\ rate' \in PerShare
    /\ once' = {} /\ again' = {}
    /\ cum' = (deal # NoDeal)
    /\ UNCHANGED <<coin, share, settled, deal>>

Due(a) == right[a] * rate

\* The issuer pays all listed users in one step.
Pay(pay) ==
    coin' = [a \in Addr |-> (IF a = Issuer THEN coin[a] - SumFunction(pay) ELSE coin[a])
                               + (IF a \in Listed THEN pay[a] ELSE 0)]

Distribute ==
    /\ settled < registered
    /\ settled' = registered
    /\ \E pay \in [Listed -> 0 .. coin[Issuer]] :
        /\ \A a \in Listed \ again : pay[a] = Due(a)
        /\ SumFunction(pay) <= coin[Issuer]
        /\ Pay(pay)
    /\ right' = Nobody /\ once' = {} /\ again' = {} /\ cum' = FALSE
    /\ UNCHANGED <<share, rate, registered, deal>>

Agree ==
    /\ deal = NoDeal
    /\ deal' \in [from : Addr, to : Addr, value : Shares]
    /\ share[deal'.from] >= deal'.value
    /\ UNCHANGED <<coin, share, dividend, cum>>

TakeAlong ==
    /\ cum
    /\ right' = Moved(right, deal.from, deal.to, deal.value)
    /\ UNCHANGED <<once, again>>

LeaveBehind ==
    /\ ~cum /\ settled < registered
    /\ once' = once \cup {deal.from, deal.to}
    /\ again' = again \cup ({deal.from, deal.to} \cap once)
                      \cup (IF deal.from = deal.to THEN {deal.from} ELSE {})
    /\ UNCHANGED right

NoRight == ~cum /\ settled = registered /\ UNCHANGED <<right, once, again>>

TakePlace ==
    /\ deal # NoDeal
    /\ share' = Moved(share, deal.from, deal.to, deal.value)
    /\ TakeAlong \/ LeaveBehind \/ NoRight
    /\ deal' = NoDeal /\ cum' = FALSE
    /\ UNCHANGED <<coin, rate, registered, settled>>

FallThrough ==
    /\ deal # NoDeal
    /\ deal' = NoDeal /\ cum' = FALSE
    /\ UNCHANGED <<coin, share, dividend>>

MoveCoin ==
    /\ \E from, to \in Addr :
        /\ from # to /\ coin[from] > 0
        /\ coin' = Moved(coin, from, to, 1)
    /\ UNCHANGED <<share, dividend, deal, cum>>

Next == Register \/ Distribute \/ Agree \/ TakePlace \/ FallThrough \/ MoveCoin

Spec == Init /\ [][Next]_vars
=============================================================================
