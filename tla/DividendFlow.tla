----------------------------- MODULE DividendFlow ---------------------------
(***************************************************************************)
(* A dividend from its registration to its payment, as the issue page of   *)
(* the frontend carries it out: it registers with the estate contract and  *)
(* waits for the contract's index to grow; to distribute, it has the API   *)
(* server simulate what everyone is due, one call after the other, signs   *)
(* the transaction and waits for the coordinator.  Meanwhile shares are    *)
(* sold, coins move, and the issuer may have the page open twice.          *)
(*                                                                         *)
(* The estate contract is EstateToken with one estate; of the coin         *)
(* contract this module has transferBatch, with amounts that do not        *)
(* overflow.  Cross is no part of the repository: as in CrossSwap, what    *)
(* stands under "Cross" is what README.md:86-118 tells of it.              *)
(***************************************************************************)
EXTENDS EstateToken, Sequences

CONSTANTS
    Issuer,     \* the creator of the estate
    Users,      \* the rows of the API server's user table, in their order
    Held,       \* shares of each address to begin with
    Coins,      \* coins of each address to begin with
    Page,       \* the issue pages that are open
    Sellers,    \* bound: the addresses that sell
    MaxTx       \* bound: the transactions that are asked for

ASSUME FlowAssumption ==
    /\ Issuer \in Addr /\ Users \in Seq(Addr) /\ IsInjective(Users)
    /\ 1 \in Token
    /\ Held \in [Addr -> UInt] /\ SumFunction(Held) \in UInt
    /\ Coins \in [Addr -> Nat]
    /\ Sellers \subseteq Addr /\ MaxTx \in Nat

VARIABLES
    coins,     \* coin chain: the balance of each address
    sale,      \* security chain: the sale that is prepared, if there is one
    req,       \* the requests for a distribution: what is built of each
    vote,      \* each chain: what it made of the transaction's prepare
    decision,  \* coordinator: its decision about each transaction
    finished,  \* each chain: the transactions it has committed or discarded
    page,      \* the pages
    rights,    \* history: the shares that the last dividend is to be paid for
    moved,     \* history: addresses with a delta for the last dividend
    again      \* history: those of them whose delta has been written again

contract == <<tokenVars, whitelist, dividendVars>>
cross == <<vote, decision, finished>>
fvars == <<contract, coins, sale, req, cross, page, rights, moved, again>>

Chain == {"coin", "security"}

\* Transactions are numbered in the order in which they are asked for.
Tx == 1 .. MaxTx
NoTx == 0

Listed == Range(Users)

\* The last dividend, and whether it waits for payment.
Last == dividendIndex[1]
Waits == Unpaid(1)

NoSale == [from |-> NoAddr, to |-> NoAddr, value |-> 0, owners |-> 0, index |-> 0]
NoRequest == [stage |-> "new", index |-> 0, dues |-> << >>, batch |-> << >>]

\* A page that is being opened: it has read nothing yet.
Opened == [pc |-> "loading", tx |-> NoTx, before |-> 0,
           listed |-> 0, done |-> {}, ongoing |-> {}]

\* Covered by "Broadcasting..." for good, until it is opened again.
Stuck == [Opened EXCEPT !.pc = "stuck"]

\* What is sold goes from the seller to the buyer, who may be the same.
Sold(held) ==
    [[held EXCEPT ![sale.from] = @ - sale.value] EXCEPT ![sale.to] = @ + sale.value]

FInit ==
    /\ tokenID = 1
    /\ creator = [t \in Token |-> IF t = 1 THEN Issuer ELSE NoAddr]
    /\ totalSupply = [t \in Token |-> IF t = 1 THEN SumFunction(Held) ELSE 0]
    /\ amount = [t \in Token |-> IF t = 1 THEN Held ELSE [a \in Addr |-> 0]]
    /\ ownerCount = [t \in Token |-> IF t = 1 THEN Cardinality({a \in Addr : Held[a] # 0})
                                     ELSE 0]
    /\ whitelist = Addr \X {Issuer}
    /\ dividendIndex = [t \in Token |-> 0]
    /\ perShare = [t \in Token |-> [i \in Index |-> 0]]
    /\ paid = [t \in Token |-> {}]
    /\ delta = [t \in Token |-> [a \in Addr |-> [i \in Index |-> 0]]]
    /\ coins = Coins
    /\ sale = NoSale
    /\ req = [x \in Tx |-> NoRequest]
    /\ vote = [x \in Tx |-> [c \in Chain |-> "none"]]
    /\ decision = [x \in Tx |-> "none"]
    /\ finished = [c \in Chain |-> {}]
    /\ page = [p \in Page |-> Opened]
    /\ rights = [a \in Addr |-> 0]
    /\ moved = {} /\ again = {}
-----------------------------------------------------------------------------
(* Faults: variants of definitions below, each of which breaks a property. *)

\* payDividend does not ask whether the dividend has been paid.
PayAllowedAgain(index) == index # 0 /\ index = Last

\* A sale leaves no delta: the right to the dividend goes with the shares.
CommitSaleNoDelta ==
    /\ sale # NoSale
    /\ amount' = [amount EXCEPT ![1] = Sold(@)]
    /\ ownerCount' = [ownerCount EXCEPT ![1] = sale.owners]
    /\ sale' = NoSale
    /\ UNCHANGED <<tokenID, creator, totalSupply, whitelist, dividendVars,
                   coins, req, cross, page, rights, moved, again>>

\* A sale writes the delta of its buyer only.
CommitSaleHalf ==
    /\ sale # NoSale
    /\ amount' = [amount EXCEPT ![1] = Sold(@)]
    /\ ownerCount' = [ownerCount EXCEPT ![1] = sale.owners]
    /\ delta' = IF sale.index = 0 THEN delta
                ELSE [delta EXCEPT ![1][sale.to][sale.index] = ToInt64(Neg64(sale.value))]
    /\ sale' = NoSale
    /\ UNCHANGED <<tokenID, creator, totalSupply, whitelist, dividendIndex, perShare, paid,
                   coins, req, cross, page, rights, moved, again>>

\* The page marks its whole list as ongoing.
BroadcastDistributeMarksAll(x) ==
    /\ req[x].stage = "built"
    /\ req' = [req EXCEPT ![x].stage = "sent"]
    /\ \E p \in Page :
        /\ page[p].tx = x
        /\ page' = [page EXCEPT ![p].pc = "waiting",
                                ![p].ongoing = 1 .. page[p].listed]
    /\ UNCHANGED <<contract, coins, sale, cross, rights, moved, again>>

\* The page waits for one registration more than its own.
PollIndexTooFar(p) ==
    /\ page[p].pc = "counting" /\ Last > page[p].before + 1
    /\ page' = [page EXCEPT ![p] = Opened]
    /\ UNCHANGED <<contract, coins, sale, req, cross, rights, moved, again>>

\* The marks stay after a distribution that was aborted.
PollAbortedKeepsMarks(p) ==
    /\ page[p].pc = "waiting" /\ decision[page[p].tx] = "abort"
    /\ page' = [page EXCEPT ![p].pc = "idle", ![p].tx = NoTx]
    /\ UNCHANGED <<contract, coins, sale, req, cross, rights, moved, again>>
-----------------------------------------------------------------------------
(* Cross: keys of the two stores that are locked                           *)

Prepared(c) == {x \in Tx \ finished[c] : vote[x][c] = "ok"}

\* A distribution that is prepared is going to write the paid flag, which
\* transfers, registerDividend and payDividend read.
PaidLocked == Prepared("security") # {}

\* A sale that is prepared is going to write what two addresses hold, the
\* owner count and the deltas.
SharesLocked(a) == sale # NoSale /\ a \in {sale.from, sale.to}

CoinsLocked(S) == \E x \in Prepared("coin") : S \cap DOMAIN req[x].batch # {}
-----------------------------------------------------------------------------
(* Contracts: a sale, prepared and finished, and other moves of coins      *)

\* transfer, made up to its writes.  The recipient's amount is read after the
\* sender's is written.
PrepareSale(from, to, value) ==
    LET left == Sub64(amount[1][from], value)
        debited == [amount[1] EXCEPT ![from] = left.val]
        got == Add64(debited[to], value)
        owners == OwnersAfterCredit(OwnersAfterDebit(ownerCount[1], left.val, value),
                                    debited[to], value)
    IN  /\ sale = NoSale /\ ~PaidLocked
        /\ left.ok /\ got.ok /\ Check(1, to, owners)
        /\ sale' = [from |-> from, to |-> to, value |-> value, owners |-> owners,
                    index |-> IF Waits THEN Last ELSE 0]
        /\ UNCHANGED <<contract, coins, req, cross, page, rights, moved, again>>

\* Who has moved more than once, when shares go from one to the other.
MovedAgain(from, to) ==
    again \cup ({from, to} \cap moved) \cup (IF from = to THEN {from} ELSE {})

\* What is written was settled by the prepare: a dividend that was registered
\* since gets no delta, so that the right to it goes with the shares.  A delta
\* replaces that of an earlier sale.
CommitSale ==
    /\ sale # NoSale
    /\ amount' = [amount EXCEPT ![1] = Sold(@)]
    /\ ownerCount' = [ownerCount EXCEPT ![1] = sale.owners]
    /\ delta' = IF sale.index = 0 THEN delta
                ELSE [delta EXCEPT ![1][sale.from][sale.index] = ToInt64(sale.value),
                                   ![1][sale.to][sale.index] = ToInt64(Neg64(sale.value))]
    /\ IF sale.index = Last /\ Last # 0
       THEN /\ moved' = moved \cup {sale.from, sale.to}
            /\ again' = MovedAgain(sale.from, sale.to)
            /\ UNCHANGED rights
       ELSE /\ rights' = IF Waits THEN Sold(rights) ELSE rights
            /\ UNCHANGED <<moved, again>>
    /\ sale' = NoSale
    /\ UNCHANGED <<tokenID, creator, totalSupply, whitelist, dividendIndex, perShare, paid,
                   coins, req, cross, page>>

AbortSale ==
    /\ sale # NoSale /\ sale' = NoSale
    /\ UNCHANGED <<contract, coins, req, cross, page, rights, moved, again>>

MoveCoin(from, to) ==
    /\ from # to /\ coins[from] > 0 /\ ~CoinsLocked({from, to})
    /\ coins' = [coins EXCEPT ![from] = @ - 1, ![to] = @ + 1]
    /\ UNCHANGED <<contract, sale, req, cross, page, rights, moved, again>>
-----------------------------------------------------------------------------
(* API server: GetTxDividend, a simulated call at a time.  As calls that   *)
(* are executed, they cannot read what is locked.                          *)

Build(x, r) ==
    /\ req' = [req EXCEPT ![x] = r]
    /\ UNCHANGED <<contract, coins, sale, cross, page, rights, moved, again>>

\* payDividend, of the dividend that dividendIndexOf has answered.
PayAllowed(index) == index \notin paid[1] /\ index # 0 /\ index = Last

SimulatePay(x) ==
    /\ req[x].stage = "asked" /\ PayAllowed(req[x].index) /\ ~PaidLocked
    /\ Build(x, [req[x] EXCEPT !.stage = "payable"])

\* dividendOf, of one user after the other.
SimulateDividendOf(x) ==
    LET dues == req[x].dues
        n == Cardinality(DOMAIN dues) + 1
        u == Users[n]
        due == DividendOf(1, u)
    IN  /\ req[x].stage = "payable" /\ n \in DOMAIN Users
        /\ due.ok /\ ~SharesLocked(u)
        /\ Build(x, [req[x] EXCEPT !.dues = [v \in DOMAIN dues \cup {u} |->
                                    IF v = u THEN due.val ELSE dues[v]]])

\* transferBatch: the issuer pays what is due to everyone who is due
\* something, in whatever order; what it is simulated to write.
Payees(dues) == {u \in DOMAIN dues : dues[u] # 0}

Batch(dues) ==
    [a \in Payees(dues) \cup {Issuer} |->
        (IF a = Issuer THEN coins[a] - SumFunction(dues) ELSE coins[a])
            + (IF a \in Payees(dues) THEN dues[a] ELSE 0)]

Payable(dues) == SumFunction(dues) <= coins[Issuer]

SimulateBatch(x) ==
    LET dues == req[x].dues
    IN  /\ req[x].stage = "payable" /\ DOMAIN dues = Listed
        /\ Payees(dues) # {} /\ Payable(dues)
        /\ ~CoinsLocked(Payees(dues) \cup {Issuer})
        /\ Build(x, [req[x] EXCEPT !.stage = "built", !.batch = Batch(dues)])
-----------------------------------------------------------------------------
(* Cross: participants and coordinator                                     *)

PrepareSecurity(x) ==
    /\ req[x].stage = "sent" /\ vote[x]["security"] = "none"
    /\ vote' = [vote EXCEPT ![x]["security"] =
                    IF PayAllowed(req[x].index) /\ ~PaidLocked THEN "ok" ELSE "failed"]
    /\ UNCHANGED <<contract, coins, sale, req, decision, finished, page, rights, moved, again>>

\* The call is made again; it must write what the transaction says.
PrepareCoin(x) ==
    LET dues == req[x].dues
        good == /\ Payable(dues) /\ Batch(dues) = req[x].batch
                /\ ~CoinsLocked(DOMAIN req[x].batch)
    IN  /\ req[x].stage = "sent" /\ vote[x]["coin"] = "none"
        /\ vote' = [vote EXCEPT ![x]["coin"] = IF good THEN "ok" ELSE "failed"]
        /\ UNCHANGED <<contract, coins, sale, req, decision, finished, page, rights, moved, again>>

Decide(x) ==
    /\ decision[x] = "none"
    /\ \/ /\ \A c \in Chain : vote[x][c] = "ok"
          /\ decision' = [decision EXCEPT ![x] = "commit"]
       \/ /\ \E c \in Chain : vote[x][c] = "failed"
          /\ decision' = [decision EXCEPT ![x] = "abort"]
    /\ UNCHANGED <<contract, coins, sale, req, vote, finished, page, rights, moved, again>>

Written(writes) == [a \in Addr |-> IF a \in DOMAIN writes THEN writes[a] ELSE coins[a]]

FinishCoin(x) ==
    /\ decision[x] # "none" /\ vote[x]["coin"] # "none" /\ x \notin finished["coin"]
    /\ finished' = [finished EXCEPT !["coin"] = @ \cup {x}]
    /\ coins' = IF decision[x] = "commit" THEN Written(req[x].batch) ELSE coins
    /\ UNCHANGED <<contract, sale, req, vote, decision, page, rights, moved, again>>

FinishSecurity(x) ==
    /\ decision[x] # "none" /\ vote[x]["security"] # "none" /\ x \notin finished["security"]
    /\ finished' = [finished EXCEPT !["security"] = @ \cup {x}]
    /\ paid' = IF decision[x] = "commit" THEN [paid EXCEPT ![1] = @ \cup {req[x].index}]
               ELSE paid
    /\ UNCHANGED <<tokenVars, whitelist, dividendIndex, perShare, delta,
                   coins, sale, req, vote, decision, page, rights, moved, again>>
-----------------------------------------------------------------------------
(* The issue page                                                          *)

Go(p, state) ==
    /\ page' = [page EXCEPT ![p] = state]
    /\ UNCHANGED <<contract, coins, sale, cross, rights, moved, again>>

\* It is opened again, whatever it was in the middle of.  A request for a
\* distribution goes on without it.
Open(p) == Go(p, Opened) /\ UNCHANGED req

\* getDividendHistories: what has been registered, then what has been paid.
\* Bound: MaxIndex is at most what one answer to such a query holds.
LoadRegistered(p) ==
    /\ page[p].pc = "loading"
    /\ Go(p, [page[p] EXCEPT !.pc = "listing", !.listed = Last])
    /\ UNCHANGED req

LoadPaid(p) ==
    /\ page[p].pc = "listing"
    /\ Go(p, [page[p] EXCEPT !.pc = "idle", !.done = paid[1] \cap 1 .. page[p].listed])
    /\ UNCHANGED req

\* DividendHistory.isRegistering, of those the page lists: "registered" or
\* "ongoing".
Registering(p) == 1 .. page[p].listed \ page[p].done

IsRegistering(p) == Registering(p) # {}

\* The buttons DISTRIBUTE NOW of the table: what is "registered".
Distributable(p) == Registering(p) \ page[p].ongoing

\* REGISTER NOW, while the page lists none that waits for payment.  (The form
\* compares the total with a balance too, which may have gone by then.)
RegisterDividendClick(p) ==
    /\ page[p].pc = "idle" /\ ~IsRegistering(p)
    /\ Go(p, [Opened EXCEPT !.pc = "signing", !.before = Last])
    /\ UNCHANGED req

\* The contract makes a registration; a page that asked for it is told so, or
\* misses it.  Another may have come from a page that has been left.
BroadcastRegister(share) ==
    /\ ~PaidLocked
    /\ RegisterDividend(Issuer, 1, share)
    /\ rights' = amount[1] /\ moved' = {} /\ again' = {}
    /\ \/ UNCHANGED page
       \/ \E p \in Page : /\ page[p].pc = "signing"
                          /\ \/ page' = [page EXCEPT ![p].pc = "counting"]
                             \/ page' = [page EXCEPT ![p] = Stuck]
    /\ UNCHANGED <<coins, sale, req, cross>>

\* registerTxStatusTimer.
PollIndex(p) ==
    /\ page[p].pc = "counting" /\ Last > page[p].before
    /\ Go(p, Opened)
    /\ UNCHANGED req

\* DISTRIBUTE NOW, of a dividend that is listed as registered; the server
\* begins with the index of the last dividend, whatever the page lists.
DistributeClick(p, x) ==
    /\ page[p].pc = "idle" /\ Distributable(p) # {}
    /\ req[x] = NoRequest /\ \A y \in 1 .. x - 1 : req[y] # NoRequest
    /\ req' = [req EXCEPT ![x].stage = "asked", ![x].index = Last]
    /\ Go(p, [page[p] EXCEPT !.pc = "building", !.tx = x])

\* It is signed and accepted; the page is told so, or misses it.
BroadcastDistribute(x) ==
    /\ req[x].stage = "built"
    /\ req' = [req EXCEPT ![x].stage = "sent"]
    /\ \/ /\ \A p \in Page : page[p].tx # x
          /\ UNCHANGED <<contract, coins, sale, cross, page, rights, moved, again>>
       \/ \E p \in Page :
            /\ page[p].tx = x
            /\ \/ Go(p, [page[p] EXCEPT !.pc = "waiting", !.ongoing = Registering(p)])
               \/ Go(p, Stuck)

\* An error of any request of a handler: the spinner stays.
Throw(p) ==
    /\ page[p].pc \in {"signing", "building"}
    /\ Go(p, Stuck)
    /\ UNCHANGED req

\* getCoordinatorStatus.
Result(x) ==
    CASE decision[x] = "commit" /\ \A c \in Chain : x \in finished[c] -> "ok"
      [] decision[x] = "abort" -> "failed"
      [] OTHER -> "prepare"

\* distributeTxStatusTimer: the transaction is committed everywhere, or it is
\* aborted and what was marked as ongoing can be distributed again.
PollCommitted(p) ==
    /\ page[p].pc = "waiting" /\ Result(page[p].tx) = "ok"
    /\ Go(p, Opened)
    /\ UNCHANGED req

PollAborted(p) ==
    /\ page[p].pc = "waiting" /\ Result(page[p].tx) = "failed"
    /\ Go(p, [page[p] EXCEPT !.pc = "idle", !.tx = NoTx, !.ongoing = @ \ Registering(p)])
    /\ UNCHANGED req
-----------------------------------------------------------------------------
Relay(x) ==
    \/ PrepareSecurity(x) \/ PrepareCoin(x) \/ Decide(x)
    \/ FinishCoin(x) \/ FinishSecurity(x)

Load(p) == LoadRegistered(p) \/ LoadPaid(p)

Poll(p) == PollIndex(p) \/ PollCommitted(p) \/ PollAborted(p)

FNext ==
    \/ \E from \in Sellers, to \in Addr, n \in Shares : PrepareSale(from, to, n)
    \/ CommitSale \/ AbortSale
    \/ \E from, to \in Addr : MoveCoin(from, to)
    \/ \E x \in Tx : \/ SimulatePay(x)
                     \/ SimulateDividendOf(x)
                     \/ SimulateBatch(x)
                     \/ BroadcastDistribute(x)
                     \/ Relay(x)
    \/ \E share \in PerShare : BroadcastRegister(share)
    \/ \E p \in Page : \/ Open(p) \/ Load(p) \/ Poll(p) \/ Throw(p)
                       \/ RegisterDividendClick(p)
                       \/ \E x \in Tx : DistributeClick(p, x)

\* The relayer works and so do the timers of a page that stays open.  Nobody
\* has to click, and no request has to be answered.
FFairness ==
    /\ WF_fvars(\E x \in Tx : Relay(x))
    /\ \A p \in Page : WF_fvars(Poll(p))

FSpec == FInit /\ [][FNext]_fvars /\ FFairness
-----------------------------------------------------------------------------
\* Types of the variables that EstateToken does not have.
FlowTypeOK ==
    /\ coins \in [Addr -> Nat]
    /\ rights \in [Addr -> UInt]
    /\ moved \subseteq Addr /\ again \subseteq moved
    /\ \A p \in Page : /\ page[p].listed \in Index
                       /\ page[p].done \subseteq 1 .. page[p].listed
                       /\ page[p].ongoing \subseteq Registering(p)
    /\ \A x \in Tx : /\ DOMAIN req[x].dues \subseteq Listed
                     /\ req[x].stage \in {"new", "asked", "payable", "built", "sent"}
                     /\ vote[x] \in [Chain -> {"none", "ok", "failed"}]

\* The transactions that a chain has still to commit.
Committing(c) == {x \in Tx \ finished[c] : decision[x] = "commit"}

EffectiveCoins ==
    IF Committing("coin") = {} THEN coins
    ELSE Written(req[CHOOSE x \in Committing("coin") : TRUE].batch)

EffectivePaid == paid[1] \cup {req[x].index : x \in Committing("security")}

EffectivelyWaits == Last # 0 /\ Last \notin EffectivePaid

\* What there is to be paid for, who has left the right to it behind, and the
\* sale that is agreed.
RightNow == IF EffectivelyWaits THEN rights ELSE [a \in Addr |-> 0]
OnceNow == IF EffectivelyWaits THEN moved ELSE {}
AgainNow == IF EffectivelyWaits THEN again ELSE {}

DealNow ==
    IF sale = NoSale THEN NoSale
    ELSE [from |-> sale.from, to |-> sale.to, value |-> sale.value]

CumNow == sale # NoSale /\ EffectivelyWaits /\ sale.index # Last

Payout == INSTANCE DividendPayout WITH
    NoDeal <- NoSale,
    coin <- EffectiveCoins,
    share <- amount[1],
    right <- RightNow,
    rate <- perShare[1][Last],
    registered <- Last,
    settled <- Cardinality(EffectivePaid),
    once <- OnceNow,
    again <- AgainNow,
    deal <- DealNow,
    cum <- CumNow

\* README.md:58, 62: a dividend is distributed atomically, once, and in full to
\* all who have a right to it, except that of those who have moved shares more
\* than once meanwhile nothing is said; however the simulated calls that make
\* up its transaction are interleaved with sales, with payments and with other
\* distributions.  It happens when the coordinator decides.
PayoutSpec == Payout!Spec

\* A transaction that can still be committed pays what everyone is due, though
\* the shares were read one after the other while they were sold: to all, that
\* is, who have not moved shares twice.  The delta of a second move replaces
\* that of the first (estate.go:257).
DuesAreRights ==
    \A x \in Tx : req[x].stage # "new" /\ req[x].index = Last /\ Waits =>
        \A u \in DOMAIN req[x].dues \ again :
            req[x].dues[u] = rights[u] * perShare[1][Last]

\* Whether a sale was prepared before or after the registration of the dividend,
\* and committed before or after what its parties are due was read: the shares
\* that it moves are paid for once, not twice and not never.
EachShareOnce ==
    \A x \in Tx : req[x].index = Last /\ Waits /\ DOMAIN req[x].dues = Addr /\ again = {} =>
        SumFunction(req[x].dues) = totalSupply[1] * perShare[1][Last]

\* A page at rest never keeps back a dividend that it lists as unpaid: after
\* a distribution that failed it can be distributed again.
UnpaidOffered == \A p \in Page : page[p].pc = "idle" => page[p].ongoing = {}

\* A page that has been told that its transaction was accepted does not wait
\* for ever: whatever others do, the index it waits for is passed, or the
\* transaction is decided.
WaitEnds ==
    \A p \in Page : page[p].pc \in {"counting", "waiting"} ~> page[p].pc \notin {"counting", "waiting"}
=============================================================================
