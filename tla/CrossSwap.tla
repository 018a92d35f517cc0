------------------------------ MODULE CrossSwap ------------------------------
(***************************************************************************)
(* A sale as it is carried out: the API server simulates the two transfers *)
(* on their chains, one after the other, and puts the operations they were *)
(* seen to make into a transaction.  The Cross protocol has each chain     *)
(* prepare its transfer, decides, and has the chains commit or discard.    *)
(*                                                                         *)
(* Operations name keys and the values they are set to, not differences,   *)
(* so a transaction that was built on a store that has changed since must  *)
(* not be prepared.  Cross is no part of the repository: the definitions   *)
(* under "Cross" say what README.md:86-118 and the operations in a         *)
(* transaction (util.test.ts:53) tell of it.                               *)
(*                                                                         *)
(* The calls are those of EstateToken and DccToken, reduced to one estate  *)
(* and to amounts that do not overflow, and by the keys they touch.        *)
(***************************************************************************)
EXTENDS Naturals, FiniteSets, Functions

CONSTANTS
    User,
    Tx,              \* the transactions that may be built
    Trade,           \* the trades that are open: [seller, amount, unitPrice]
    Amount,          \* bound: the amounts of direct calls
    Coins, Shares,   \* what each user has to begin with
    Admitted,        \* the users who are whitelisted to begin with
    MaxTokenOwner

Chain == {"coin", "security"}

\* The keys of the two contracts' stores that transfers touch.
Balance(u) == <<"balance", u>>
Share(u) == <<"share", u>>
White(u) == <<"white", u>>
OwnerCount == <<"owners">>

Key(c) == IF c = "coin" THEN {Balance(u) : u \in User}
          ELSE {Share(u) : u \in User} \cup {White(u) : u \in User} \cup {OwnerCount}

ASSUME CrossAssumption ==
    /\ IsFiniteSet(User)
    /\ Trade \subseteq [seller : User, amount : Nat, unitPrice : Nat]
    /\ Amount \subseteq Nat
    /\ Coins \in [User -> Nat] /\ Shares \in [User -> Nat]
    /\ Admitted \subseteq User
    /\ Cardinality({u \in User : Shares[u] # 0}) <= MaxTokenOwner

VARIABLES
    store,     \* each chain: the value of each key
    tx,        \* API server, pages: the transactions, in what state they are
    deal,      \* the trade and the buyer of each of them, once there are any
    ops,       \* the writes that were simulated on each chain, while of use
    vote,      \* each chain: what it made of the transaction's prepare
    finished,  \* each chain: the transactions it has committed or discarded
    decision   \* coordinator: its decision about each transaction

vars == <<store, tx, deal, ops, vote, finished, decision>>

NoOps == [k \in {} |-> 0]

Init ==
    /\ store = [c \in Chain |-> [k \in Key(c) |->
                  CASE k[1] = "balance" -> Coins[k[2]]
                    [] k[1] = "share" -> Shares[k[2]]
                    [] k[1] = "white" -> IF k[2] \in Admitted THEN 1 ELSE 0
                    [] k[1] = "owners" -> Cardinality({u \in User : Shares[u] # 0})]]
    /\ tx = [x \in Tx |-> "new"]
    /\ deal = [x \in Tx |-> {}]
    /\ ops = [x \in Tx |-> [c \in Chain |-> NoOps]]
    /\ vote = [x \in Tx |-> [c \in Chain |-> "none"]]
    /\ finished = [c \in Chain |-> {}]
    /\ decision = [x \in Tx |-> "none"]
-----------------------------------------------------------------------------
(* Contract calls: whether a call succeeds on a store, the keys it reads   *)
(* and does not write, and its writes.                                     *)

\* A fault: both balances are read before either is written.
CoinTransferReadsFirst(s, from, to, value) ==
    [ok |-> s[Balance(from)] >= value,
     reads |-> {},
     writes |-> [k \in {Balance(from), Balance(to)} |->
                    IF k = Balance(to) THEN s[k] + value ELSE s[k] - value]]

\* A fault: the payer's balance is not looked at.
CoinTransferUnchecked(s, from, to, value) ==
    [ok |-> from # to,
     reads |-> {},
     writes |-> [k \in {Balance(from), Balance(to)} |->
                    IF k = Balance(to) THEN s[k] + value ELSE s[k] - value]]

CoinTransfer(s, from, to, value) ==
    LET debited == [s EXCEPT ![Balance(from)] = @ - value]
        credited == [debited EXCEPT ![Balance(to)] = @ + value]
    IN  [ok |-> s[Balance(from)] >= value,
         reads |-> {},
         writes |-> Restrict(credited, {Balance(from), Balance(to)})]

\* A fault: who has given away all shares still counts as a holder.
EstateTransferKeepsOwner(s, from, to, value) ==
    LET debited == [s EXCEPT ![Share(from)] = @ - value]
        owners == IF debited[Share(to)] = 0 /\ value # 0
                  THEN s[OwnerCount] + 1 ELSE s[OwnerCount]
        after == [debited EXCEPT ![Share(to)] = @ + value, ![OwnerCount] = owners]
    IN  [ok |-> s[Share(from)] >= value /\ s[White(to)] = 1 /\ owners <= MaxTokenOwner,
         reads |-> {White(to)},
         writes |-> Restrict(after, {Share(from), Share(to), OwnerCount})]

EstateTransfer(s, from, to, value) ==
    LET debited == [s EXCEPT ![Share(from)] = @ - value]
        left == IF debited[Share(from)] = 0 /\ value # 0
                THEN s[OwnerCount] - 1 ELSE s[OwnerCount]
        owners == IF debited[Share(to)] = 0 /\ value # 0 THEN left + 1 ELSE left
        after == [debited EXCEPT ![Share(to)] = @ + value, ![OwnerCount] = owners]
    IN  [ok |-> /\ s[Share(from)] >= value
                /\ s[White(to)] = 1
                /\ owners <= MaxTokenOwner,
         reads |-> {White(to)},
         writes |-> Restrict(after, {Share(from), Share(to), OwnerCount})]

Touched(call) == call.reads \cup DOMAIN call.writes

Price(t) == t.unitPrice * t.amount

\* The call that a transaction makes on a chain: the buyer pays, the seller
\* gives.
CallOf(x, c) ==
    LET d == CHOOSE d \in deal[x] : TRUE
        t == d.trade
    IN  IF c = "coin" THEN CoinTransfer(store[c], d.buyer, t.seller, Price(t))
        ELSE EstateTransfer(store[c], t.seller, d.buyer, t.amount)
-----------------------------------------------------------------------------
(* Cross: participants and coordinator *)

\* The keys of a chain that are locked: those that a prepared transaction
\* which is not finished yet is going to write.
Locked(c) ==
    UNION {DOMAIN ops[x][c] : x \in {y \in Tx \ finished[c] : vote[y][c] = "ok"}}

Discarded(x, c) == [ops EXCEPT ![x][c] = NoOps]

Written(s, writes) == [k \in DOMAIN s |-> IF k \in DOMAIN writes THEN writes[k] ELSE s[k]]

\* A transaction that was built is signed and broadcast at any time, or never;
\* its first prepare is what the chains see of that.  The chain makes the call
\* again; it must succeed and write what the transaction says.
Prepare(x, c) ==
    LET call == CallOf(x, c)
        good == /\ call.ok
                /\ call.writes = ops[x][c]
                /\ Touched(call) \cap Locked(c) = {}
    IN  /\ tx[x] = "built" /\ vote[x][c] = "none"
        /\ vote' = [vote EXCEPT ![x][c] = IF good THEN "ok" ELSE "failed"]
        /\ ops' = IF good THEN ops ELSE Discarded(x, c)
        /\ UNCHANGED <<store, tx, deal, finished, decision>>

Decide(x) ==
    /\ decision[x] = "none"
    /\ \/ /\ \A c \in Chain : vote[x][c] = "ok"
          /\ decision' = [decision EXCEPT ![x] = "commit"]
       \/ /\ \E c \in Chain : vote[x][c] = "failed"
          /\ decision' = [decision EXCEPT ![x] = "abort"]
    /\ UNCHANGED <<store, tx, deal, ops, vote, finished>>

\* The decision reaches a chain that has prepared.
Finish(x, c) ==
    /\ decision[x] # "none" /\ vote[x][c] # "none" /\ x \notin finished[c]
    /\ finished' = [finished EXCEPT ![c] = @ \cup {x}]
    /\ store' = IF decision[x] = "commit"
                THEN [store EXCEPT ![c] = Written(@, ops[x][c])] ELSE store
    /\ ops' = Discarded(x, c)
    /\ UNCHANGED <<tx, deal, vote, decision>>

\* A call made on a chain by itself: it cannot touch locked keys.
Direct(c, call) ==
    /\ call.ok /\ Touched(call) \cap Locked(c) = {}
    /\ store' = [store EXCEPT ![c] = Written(@, call.writes)]
    /\ UNCHANGED <<tx, deal, ops, vote, finished, decision>>
-----------------------------------------------------------------------------
(* API server: GetTxTradeRequest, in its steps *)

SimulateCoin(x, t, buyer) ==
    LET call == CoinTransfer(store["coin"], buyer, t.seller, Price(t))
    IN  /\ tx[x] = "new" /\ call.ok
        /\ tx' = [tx EXCEPT ![x] = "paid"]
        /\ deal' = [deal EXCEPT ![x] = {[trade |-> t, buyer |-> buyer]}]
        /\ ops' = [ops EXCEPT ![x]["coin"] = call.writes]
        /\ UNCHANGED <<store, vote, finished, decision>>

SimulateSecurity(x) ==
    LET call == CallOf(x, "security")
    IN  /\ tx[x] = "paid" /\ call.ok
        /\ tx' = [tx EXCEPT ![x] = "built"]
        /\ ops' = [ops EXCEPT ![x]["security"] = call.writes]
        /\ UNCHANGED <<store, deal, vote, finished, decision>>
-----------------------------------------------------------------------------
AddToWhitelist(u) ==
    Direct("security", [ok |-> store["security"][White(u)] = 0, reads |-> {},
                        writes |-> [k \in {White(u)} |-> 1]])

Relay(x) == Decide(x) \/ \E c \in Chain : Prepare(x, c) \/ Finish(x, c)

Next ==
    \/ \E x \in Tx : \/ \E t \in Trade : \E u \in User \ {t.seller} : SimulateCoin(x, t, u)
                     \/ SimulateSecurity(x)
                     \/ Relay(x)
    \/ \E u, v \in User, n \in Amount :
        \/ Direct("coin", CoinTransfer(store["coin"], u, v, n))
        \/ Direct("security", EstateTransfer(store["security"], u, v, n))
    \/ \E u \in User : AddToWhitelist(u)

Spec == Init /\ [][Next]_vars
-----------------------------------------------------------------------------
\* Types of all variables.
TypeOK ==
    /\ \A c \in Chain : store[c] \in [Key(c) -> Nat]
    /\ tx \in [Tx -> {"new", "paid", "built"}]
    /\ \A x \in Tx :
        /\ deal[x] \subseteq [trade : Trade, buyer : User]
        /\ tx[x] # "new" => \E d \in deal[x] : deal[x] = {d}
        /\ \A c \in Chain : DOMAIN ops[x][c] \subseteq Key(c)
    /\ vote \in [Tx -> [Chain -> {"none", "ok", "failed"}]]
    /\ finished \in [Chain -> SUBSET Tx]
    /\ decision \in [Tx -> {"none", "commit", "abort"}]

\* The transactions that a chain has still to commit, and its store with them.
Committing(c) == {x \in Tx \ finished[c] : decision[x] = "commit"}

Effective(c) ==
    IF Committing(c) = {} THEN store[c]
    ELSE [k \in Key(c) |->
            LET writers == {x \in Committing(c) : k \in DOMAIN ops[x][c]}
            IN  IF writers = {} THEN store[c][k]
                ELSE ops[CHOOSE x \in writers : TRUE][c][k]]

Column(c, name) == LET s == Effective(c) IN [u \in User |-> s[<<name, u>>]]

Terms(d) == [seller |-> d.trade.seller, buyer |-> d.buyer, shares |-> d.trade.amount,
             price |-> d.trade.amount * d.trade.unitPrice]

Swap == INSTANCE AtomicSwap WITH
    Deal <- {Terms(d) : d \in [trade : Trade, buyer : User]},
    coin <- Column("coin", "balance"),
    share <- Column("security", "share"),
    whitelisted <- {u \in User : Column("security", "white")[u] = 1},
    agreed <- [x \in Tx |-> {Terms(d) : d \in deal[x]}],
    settled <- {x \in Tx : decision[x] = "commit"}

\* README.md:50-55: a sale is an atomic swap of shares and coins; one with a
\* buyer who is not whitelisted, or that would take the estate over the limit
\* of its holders, fails on both chains.  It happens when the coordinator
\* decides; what the chains have not committed by then is locked.
SwapSpec == Swap!Spec

\* The counter by which the limit is enforced is the number of holders, with
\* the decided sales that the chain has not committed yet.
OwnerCountExact ==
    Effective("security")[OwnerCount]
        = Cardinality({u \in User : Column("security", "share")[u] # 0})
=============================================================================
