# Verification of the cross-chain estate market

TLA+ models of the contracts, the API server, its trade job, the pages from which
shares are sold and dividends paid, the session of a page, and the cross-chain sales
and payments of `cross-chain-hackathon`, checked with TLC and, except for liveness,
proved with TLAPS. Paths below are relative to `src/`.

## The system

Shares of real estates are tokens on a *security chain*, money is a coin (DCC)
on a *coin chain*, and a *coordinator chain* runs the Cross protocol (two-phase
commit over IBC), so that a sale or a dividend happens on both chains or on
neither. An API server keeps sell offers, buy offers and their transactions in
SQLite and has a job that copies the coordinator's verdicts to them. Buyers,
sellers and issuers use web pages that talk to the API server and to the chains.

| component | state | operations |
|---|---|---|
| `contract/simapp/safemath` | none | checked `Add64`, `Sub64`, `Mul64` |
| `contract/simapp/securitychain` | shares, supply, creator, owner count, whitelist, dividend index, price, paid flag and delta, per token | `create`, `mint`, `transfer`, `addToWhitelist`, `registerDividend`, `payDividend`, `dividendOf` and readers |
| `contract/simapp/coinchain` | balances, supply | `mint`, `transfer`, `transferBatch`, readers |
| Cross (external) | coordinator: state of each transaction; participants: locks | initiate, prepare, commit or abort, relayed by a relayer |
| API server, trades | tables `trade`, `trade_request` | post and cancel a trade, post and cancel a request |
| API server, transactions | none | simulate contract calls on the chains, build a `MsgInitiate` |
| API server, job | rows and transactions of a pass | select, fetch, match, ask the coordinator, update |
| market page (buyer) | the estate as last polled | check for another offer, get a transaction, sign, post a request |
| owned page (seller) | the estate as last polled, transaction in flight | sign and broadcast, poll, cancel |
| issue page (issuer) | dividends registered and paid as last read, transaction in flight | register a dividend, distribute it, poll |
| root component (frontend) | account shown, account stored, timer, requests under way | select an account, log out, poll its balance |

How they interact: pages call the API server over HTTP and broadcast to the
chains; the API server simulates calls on the chains; the coordinator moves both
contracts; the job polls the coordinator and writes the tables that the handlers
write too. Nothing is pushed: every reader works on what it last read.

### What is hard here

- the contracts are sequential, so what is hard in them is a long sequence of
  legal calls: counters derived from amounts, a delta that is overwritten,
  words that wrap;
- the job holds rows it selected across several HTTP calls while handlers change
  them, loses what is left of a pass at the first error, and has to get every
  verdict recorded in the end;
- handlers update rows without a look at their status;
- transactions are built from several simulated calls at different heights and
  signed long before they are broadcast; between these calls shares are sold and
  dividends are registered;
- an answer carries the whole account its request was made for, and replaces what
  the frontend shows by then, whatever was selected since.

`PROJECT.json` lists these hazards one by one, each at its line.

### What makes each component correct

- *safemath*: an operation reports a failure just when the exact result is no word.
- *estate*: never more than `MaxTokenOwner` holders, all of them whitelisted by
  the creator; shares add up to the supply; dividends are paid once and in order;
  an address is paid for the shares it held when the dividend was registered, or
  dividendOf fails, but it is never paid for another number of them.
- *dcc*: balances add up to the supply; a batch is the sequence of its transfers.
- *trades and job*: one open offer per seller and estate; a status is shown only
  if the chain says so; every verdict is recorded in the end; a sold trade is
  shown as sold.
- *pages*: one offer at a time; a seller is told what the chain decided; a sale that
  fails gives the page back.
- *issue page and its transaction*: a dividend is paid to everyone who has a right to
  it, in full, in one step, once; a page offers what is unpaid and does not wait for
  ever.
- *session*: a balance is shown with the account it belongs to; its polling survives
  every overtaking of answers; the page ends up acting for the account that was
  selected last, or for one that a request of its own brings back.
- *swap*: coins and shares change hands in one step or not at all, within the rules
  of both contracts, however sales overlap.

## Modules

| module | models | of |
|---|---|---|
| `Word` | fixed-width integers, checked operations, `int64(v)`, `-v` | `contract/simapp/safemath`, the conversions in `estate.go` |
| `EstateToken` | the estate contract | `contract/simapp/securitychain` |
| `EstateEntitlement` | `EstateToken` with history variables | same |
| `DccToken` | the coin contract | `contract/simapp/coinchain/dcc.go` |
| `TradeApi` | trade tables and their handlers | `backend/apiserver/api/api_trade_service.go`, `api_tx_service.go` |
| `TradeBook` | the tables and the coordinator as their readers may think of them | same, `job.go` as a whole |
| `TradeJob` | the job in its steps, implementing `TradeBook` | `backend/apiserver/api/job.go` |
| `OrderFlow` | market and owned pages, account sequences, over `TradeBook` | `frontend/src/pages/contents/market`, `.../owned`, `models` |
| `AtomicSwap` | what a sale is to be | `README.md:50-55` |
| `CrossSwap` | a sale as it is carried out, implementing `AtomicSwap` | `api_tx_service.go`, the transfers of both contracts, Cross |
| `DividendPayout` | what a dividend is to be | `README.md:58,62` |
| `DividendFlow` | a dividend as it is carried out, on top of `EstateToken`, implementing `DividendPayout` | `frontend/src/pages/contents/issue/issue-detail.tsx`, `GetTxDividend`, `transferBatch`, Cross |
| `Session` | the root component and who sets its account | `frontend/src/pages/root.tsx`, `header.tsx`, `sign-up.tsx`, `models/user.ts` |
| `WordProofs`, `EstateProofs`, `DccProofs`, `TradeJobProofs`, `OrderProofs`, `CrossSwapProofs`, `DividendProofs`, `SessionProofs` | theorems | |
| `MCEntitlement`, `MCDcc`, `MCOrder`, `MCSwap`, `MCDividend` | instances for TLC: symmetry, constraints, initial amounts | |

Who composes whom:

    Word <- EstateToken <- EstateEntitlement
            EstateToken <- DividendFlow  (implements DividendPayout)
    Word <- DccToken
    TradeApi <- TradeBook <- TradeJob    (TradeJob implements TradeBook)
                TradeBook <- OrderFlow
    CrossSwap                            (implements AtomicSwap)
    Session

**Contracts.** A variable is a family of keys of the contract's store; a key that
was never written reads as zero, false or nil, which is `Init`. An action is a call
that succeeds. A call that returns an error is reverted together with its
transaction, whatever it wrote before, so it is no step. Signers are the addresses
the call is made by. Event emission, argument decoding and the readers, each of
which returns one variable, are left out; `dividendOf` computes and is an operator.
`EstateEntitlement` adds no behaviour: its variables record who held what at the
last `registerDividend` and who has moved shares since.

**`TradeApi`.** A row keeps the columns that decide something: who sells what,
status, buyer, the transaction of a request. A handler that writes is one action:
each is a single statement or one SQLite transaction, and SQLite has one writer at
a time. `PostTrade` takes its read to succeed (see the hazard at
`api_trade_service.go:212`). A transaction is a member of `Tx`, a fresh one each
time, since its nonce is the time in milliseconds. Between `GetTxTradeRequest` and
`PostTradeRequest` it is a draft, for as long as it takes the client to sign it.

**`TradeBook`** is the abstract specification of the job: a request, and with it its
trade, gets the chain's status in one step. `RecordOngoing` may come late (the job
may have read the chain before its decision), and `BookFair` promises that each
decided transaction of a request is recorded in the end. The coordinator is
external: a transaction is broadcast at most once (the account sequence sees to it)
and decided at most once.

**`TradeJob`.** One pass of the job is: `JobSelect` (the query, without the column
it forgets), `JobFetch` (all pages, or the first few of them if a later one fails),
`JobMatch` for each transaction (find the row, ask the coordinator), `JobWrite`
(the database transaction of `UpdateTradeRequestStatus`), `JobEnd`; `JobAbandon` is
an error, or a restart of the server, anywhere in it. Handlers, broadcasts and
decisions of the coordinator happen between any two of these. `BookSpec`, with the
variables of the tables and the coordinator as they are, is a property of it.

**`OrderFlow`.** One page for a user and an estate, of each kind. A page shows what
it was last answered. On the market page the answer to a poll is a message of its
own (`AskMarket`, `ShowMarket`), since it may be shown after the page has been
refreshed by something else; on the owned page a poll is one step, because what it
shows may be as old as one likes anyway. A confirmed offer is a sequence of requests
(`CheckOffers`, `BuildTx`, `SignOffer`, `PostOffer`, `RefreshMarket`), each of which
can fail or lose its answer (`BuyFails`); the modal can be dismissed while it goes
on, so a page may have several under way (`Attempt`). An accepted offer is signed
(`SignSale`), sent (`SendAccepted`, or one of the three ways of `SendFails`) and
waited for (`WaitPoll`). Leaving a page, and coming back, is `Reload`: what a page
had under way when it was left does not come back. The coordinator accepts a
transaction whose signers all signed with their current sequence (`Signed`).
Buyers are taken to be whitelisted, units and prices are left out, and who holds
shares is the constant `Holder`.

**`CrossSwap`.** The two contracts for one estate, as stores of keys. A contract call
is a record of whether it succeeds, what it reads and what it writes; `CoinTransfer`
and `EstateTransfer` compute these the way `transfer` of each contract does, `check`
and the counter of the holders included. What the API server simulates, and what is
signed, are *values of keys*, not differences: `SimulateCoin` and `SimulateSecurity`
record them at two different moments. Cross is external; the model assumes of it
what `README.md:86-118` says and the operations in a transaction suggest: a chain
prepares a transaction by making the call again, which must succeed with the very
operations that were signed and touch no locked key; it locks the keys it is going
to write until the decision arrives; the coordinator decides commit when all have
prepared, abort when one has refused. `Prepare` may happen at any time after a
transaction was built, or never, which stands for the signatures and the broadcast.
`Direct` and `AddToWhitelist` are calls made on one chain. Overflows, dividends and
other estates are left out: `EstateToken`, `DividendFlow` and `DccToken` have them.

`SwapSpec` maps a sale to one step of `AtomicSwap`, at the decision: from then on
what a chain has not committed yet is locked, so the state a reader may rely on is
the store with those writes (`Effective`).

**`DividendFlow`.** The estate contract is `EstateToken` with one estate whose mints
are over. The issue page reads what has been registered and then what has been paid
(`LoadRegistered`, `LoadPaid`), from the index of transactions, which is up to date
when a poll is answered; that a query answers with its first page of 30 is the bound
on `MaxIndex`. `RegisterDividendClick` and `DistributeClick` begin a handler; each
request of it is a step (`SimulatePay`, `SimulateDividendOf` for one user after the
other, `SimulateBatch`, `BroadcastDistribute`), and the requests go on when the page is
left and opened again (`Open`), as handlers do. A request that fails, or whose answer is
lost, leaves the page under its spinner (`Throw`, `Stuck`), which is what `SpinEnds` is
about on the owned page. The server takes the last dividend, and its amount per share,
from the contract: it ignores what the page says; and the balance that the form looks
at restricts nothing, since it may have been spent by the time the transaction is made.
Calls on a chain, simulated ones included, cannot read a key that a prepared
transaction has locked. Around this, shares are sold (`PrepareSale`, `CommitSale`,
`AbortSale`: what a sale writes, the delta included, is settled when it is prepared, so
a dividend registered before it is committed gets no delta and its right goes with the
shares) and coins are spent (`MoveCoin`, which stands for the coin leg of sales too).
An address may move shares more than once, and its delta is then that of the last
sale: `again` is a history of who has since the registration, and only for them is it left
open what they are paid.

`PayoutSpec` maps a distribution to one step of `DividendPayout`, at the decision, as
`SwapSpec` does (`EffectiveCoins`, `EffectivePaid`). In `DividendPayout` a registration
gives a right to whoever holds shares at that moment; a sale agreed before and carried
out after takes the right along (`cum`), any other leaves it behind. What is paid to those
who have moved shares more than once meanwhile, or to themselves, is any number
(`again`); the overwritten delta is the subject of `EstateEntitlement`. Paying a single
payee one coin twice would look like `MoveCoin`, which is why the instance has two
payees.

**`Session`.** The account shown is the state of the root component. A request for a
balance (`Fire` for the timer, `SetUser` for a selection, the end of a sale, or a page
that is loaded) carries the account it is made for; it is answered (`Answer`, `Fail`)
and used later (`Deliver`), and what is used is that whole account. The timer is
cleared and set again whenever the component is updated (`Show`, `Rerender`). A page
left in the middle of a sale keeps its account and sets it when the sale ends
(`LeaveSale`, `SaleEnds`). `had` and `strays` are history: the balances an account has
had, and the accounts other than the selected one that had a request under way at the
selection, or have made one since. Such an account can come back, and `SettledAgrees`
says that no other can.

The definitions called "A fault", or under the heading "Faults", are not part of the
models: each is a variant of the definition below it with one plausible mistake,
used to see that a property notices.

## Runs

| run | asks | result |
|---|---|---|
| `estate` | `TypeOK`, `HolderLimit`, `OwnerCountCovers`, `OwnerCountTracks`, `HoldersWhitelisted`, `SupplyConserved`; over two dividends `OnlyLatestUnpaid`, `ShareDefined`, `DividendExact`, and `EntitlementKept`: an address with at most one move is paid for what it held, or dividendOf fails, which it does not below half a word of shares | hold |
| `estate_overwritten_delta` | `DividendUnaffected`: below half a word of shares, the same for any number of moves | **violated** |
| `coin` | `TypeOK`, `SupplyConserved`, `SumsExact`, `BatchIsTransfers` while no sum of a batch reaches the word | hold |
| `dcc_batch_wraps` | `BatchDebitsSum` with sums that do | **violated** |
| `trade_job` | `TypeOK`, `OneOpenTrade`, `VerdictFaithful`, `CompletedTradeSold`, `VerdictStays`, `VerdictRecorded`, `BookSpec` | hold |
| `sold_trade_canceled` | `CompletedRequestCompletesTrade` | **violated** |
| `order` | `TypeOK`, `ReportsTruth`, `BuysInTurn`, and `OneTradeAtATime` for a buyer with one offer under way | hold |
| `offers_overlap` | `OneTradeAtATime` for one who dismisses the modal and confirms another | **violated** |
| `broadcast_fails` | `SpinEnds`: an owned page stops broadcasting | **violated** |
| `cross_swap` | `TypeOK`, `OwnerCountExact`, `SwapSpec` | hold |
| `dividend_flow` | `FlowTypeOK`; `DuesAreRights`: what is simulated is what is due to all who have not moved shares twice; `EachShareOnce`: shares whose sale is under way are paid for to one of its parties; `UnpaidOffered`: a failed distribution can be repeated; `PayoutSpec`; `WaitEnds` | hold |
| `session` | `TypeOK`; `BalanceIsOwn`; `PollAlive`: the polling never dies; `SettledAgrees`: in the end the account shown is the one selected, or one with a request of its own; `BalanceCatchesUp` | hold |

The five violations are disagreements of the code with its tests, comments or
messages; `PROJECT.json` quotes the lines under "findings". In short: the delta of a
dividend is overwritten instead of accumulated; `transferBatch` adds up without a
check; a cancel beats the record of a sale; two offers pass the check for another
offer together; a failed broadcast leaves the page under its spinner.

Met on the way, in the models, without a run of their own:

- `SelectOngoingTradeRequest` leaves out the column `from`, which
  `UpdateTradeRequestStatus` writes as the buyer of a sold trade: it is always empty
  (`Record`).
- The check for another offer does not count offers for the same trade. A late answer
  to a poll, or a lost answer to a post, shows the button again, and the second
  offer is accepted.
- Offers for a trade that is sold can still be accepted (`OpenRequests` leaves out
  those of cancelled trades only), and `CrossSwap` would settle them.
- Two sales that overlap can make each other abort, when each prepares first on
  another chain.
- The issue page, too, stays under its spinner when one of its requests throws, though
  the request may have reached the chain: the dividend is registered or paid, and the
  page shows it when it is opened again.
- An answer that is under way when LOGOUT or SELECT is pressed brings the old account
  back, on the page though not in the storage (`strays`).
- A dividend registered between the prepare and the commit of a sale is paid to the
  buyer (`cum`), though the seller held the shares when it was registered. Which of the
  two it is to be, nothing in the repository says; `EachShareOnce` says that it is one.

### Bounds

- *Word size*: 6 and 8, so that every overflow is a few calls away.
- *estate*: four addresses for three places, two of them issuers, one token. Two
  issuers are the least with two whitelists. All that holders can do with any amounts of
  a word is looked at while no dividend has been registered, since nothing about holders
  depends on one; two dividends, so that a delta of the first is around during the second,
  are looked at with one issuer, no estate or move of zero shares (`NoZeros`), with one
  address at most that moves twice during the second (`FewOverwritten`), and until the
  second is paid (`StillDue`), when the properties have nothing more to say. Supplies of
  half a word and more, where the conversions change signs (`DeltaConverted`), are looked
  at during the first dividend while nobody has moved twice (`FewOfHalfWord`): moves of
  three shares of five are then enough for each of the conversions to be a word off.
  The constraint is `FewWithDividend`.
- *coin*: three addresses, batches of up to two entries: enough to name the sender,
  or one address twice.
- *trade_job*: two sell offers, two transactions and one error of the job. Two
  requests are the least that an update can confuse, two offers the least that can
  both be open. One user makes them all: nothing in the tables forbids it, and it
  lets any request meet any trade.
- *order, offers_overlap*: two sellers, a buyer, two trades, two transactions: the
  least for two offers for different trades, and for a second offer that a sale of the
  first must not confuse. The constraint `Parts` looks at what buyers do with the trades
  of both sellers, with at most one sale and no offer cancelled (`BuyersPart`), and at
  what a seller and the buyers do with two offers for one trade, cancelled or not, except
  that no answer to a poll of a market page is late while a page is stuck or the buyer
  looks at an owned page (`SellersPart`). `offers_overlap` and `broadcast_fails` have
  smaller instances.
- *dividend_flow*: an issuer and two holders of one share each, of whom one sells, so
  that shares move between two simulated calls; two dividends, two transactions and one
  page, which may be opened again in the middle: with them a distribution is aborted and
  repeated, outlives its page, or meets the next registration. Second moves, and sales to
  oneself, are looked at with one dividend and one distribution (`FewAgain`), and the
  buyer has no coins before the first payment (`FewCoins`).
- *session*: two accounts, two requests under way at a time, balances zero or one: the
  least for an answer that is overtaken, and for one that is for another account.
- *cross_swap*: three users, two places for holders, one estate of two shares, two
  coins, two transactions. With two buyers for one share each the limit is reached,
  with two shares a seller may or may not be left without any, and one buyer is not
  whitelisted at first.

`CHECK_DEADLOCK FALSE` in the contract runs: a contract stops when the bound on
its tokens or its word is used up. In the other runs deadlock is checked: a trade
can always be cancelled, or a share transferred, once more, so the check says little
there.

### Fairness

`TradeJob` has `WF_vars(JobStep)`: the ticker keeps the job going. Nobody has to
post, cancel, broadcast or decide. `VerdictRecorded` and the fairness in `BookSpec`
need besides that errors stop at some point (`MaxFaults`) and that each HTTP request
ends, which the client, having no timeout, does not guarantee by itself. A request
that was recorded and then cancelled counts as recorded: the job selects it again.

`OrderFlow` has `BookFair` (what `TradeJob` was shown to provide), the coordinator's
decision of each transaction on the chain (the relayer works), and
`WF_vars(SaleStep(p))` (timers of a page that stays open and requests that end).
Nobody has to click, so a stuck page is not reloaded; that is the counterexample to
`SpinEnds`.

`DividendFlow` has weak fairness of the relayer's steps, all of them together, and of
the poll of each page (`Poll`, the timers of `registerTxStatusTimer` and
`distributeTxStatusTimer`). Nobody has to click, register, sell, or answer a request
that builds a transaction.

`Session` has weak fairness of what ends a request, in an answer or a failure, and of
its use (`Deliver`); strong fairness of `Fire`, because every update of the component
clears the timer and sets it anew, and it is not updated just so for ever; and strong
fairness of a poll that succeeds, because a poll may fail, and is repeated.

`CrossSwap` and the contracts state no fairness: their properties are
about safety.

## Proofs

Each safety property of a run that holds is also a theorem, for every value of the
constants the assumptions allow. In parentheses is the property a theorem states.

For every width of the word and set of addresses:

- `WordProofs`: `OperationsExact` (the overflow tests of safemath) and
  `DeltaConverted` (when `int64(v)` and `int64(-v)` mean `v` and `-v`). From
  `WordAssumption` (the word has an even number of values). Also the lemmas on sums of
  balances that the other modules use.
- `EstateProofs`: `TypeCorrect` (`TypeOK`), `OwnerCountCorrect`
  (`OwnerCountCovers`), `HoldersWithinLimit` (`HolderLimit`), `OwnerCountExact`
  (`OwnerCountTracks`), `HoldersAreWhitelisted` (`HoldersWhitelisted`),
  `SupplyAddsUp` (`SupplyConserved`), `DividendsInOrder` (`OnlyLatestUnpaid`),
  `DividendsExact` (`DividendExact`), `SharesComputable` (`ShareDefined`)
  and `EntitledIsPaid` (`EntitlementKept`), with any number of shares. From
  `EstateAssumption`: finitely many addresses, and a limit that is less than the largest
  word, or the counter could wrap.
- `DccProofs`: `TypeCorrect` (`TypeOK`), `SumsAlwaysExact` (`SumsExact`), and, for
  batches whose sum is a word (`BatchesFit`), `SupplyAddsUp` (`SupplyConserved`) and
  `BatchOfTransfers` (`BatchIsTransfers`). The contract does not check `BatchesFit`;
  run `dcc_batch_wraps` shows what happens without it.

For any users, estates, transactions, and bounds on offers and errors:

- `TradeJobProofs`: `TypeCorrect` (`TypeOK`), `VerdictsFaithful` (`VerdictFaithful`),
  `CompletedTradesSold` (`CompletedTradeSold`), `VerdictsStay` (`VerdictStays`),
  `OneOpenTradeEach` (`OneOpenTrade`), and `JobIsBook`: `BookSpec` without its fairness.
- `OrderProofs`: `TypeCorrect` (`TypeOK`), `ReportsAreTrue` (`ReportsTruth`),
  `SalesInTurn` (`BuysInTurn`), `VerdictsFaithful` (`VerdictFaithful`), for any number
  of pages and offers under way on each; and `OneTrade` (`OneTradeAtATime`) for buyers
  with one page and one offer under way (`OneOfferUnderWay`). Run `offers_overlap`
  shows that it is false without that.
- `CrossSwapProofs`: `TypeCorrect` (`TypeOK`), `OwnersCounted` (`OwnerCountExact`) and
  `SalesAreSwaps` (`SwapSpec`), the whole refinement. From `CrossAssumption`, which
  describes the first state.
- `DividendProofs`: `TypeCorrect` (`FlowTypeOK`), `DuesAreTheRights`
  (`DuesAreRights`), `SharesPaidOnce` (`EachShareOnce`), `UnpaidIsOffered`
  (`UnpaidOffered`) and `DividendsArePaidOut` (`PayoutSpec`, the whole refinement),
  for any users, shares, pages, dividends and distributions. From `FlowAssumption`:
  the holdings of the first state and their sum are words, and users are listed once.
  The dues of an address that has moved shares twice since the registration, or to
  itself, are no part of what is proved (`again`).
- `SessionProofs`: `TypeCorrect` (`TypeOK`), `BalancesAreOwn` (`BalanceIsOwn`),
  `PollingSurvives` (`PollAlive`), `SessionsSettle` (`SettledAgrees`), for any
  accounts, balances, and number of requests under way. From `SessionAssumption`.

The argument about the job: what it writes was read several requests ago, so none of
these is inductive. `IInv` adds `JobInv`, what the job may rely on meanwhile: the
transactions it fetched are on the chain; each row it holds names the trade and the
transaction of its request, which never change, and that request has no verdict,
since only the job itself records one; and the row about to be written carries a
status that the chain's state allows (`Shown`), which stays so because transactions
are not taken off the chain and decisions not taken back (`ChainKept`). The handlers
and the chain keep this because of what they leave alone (`RowsKept`,
`OthersKeepJob`, `OthersKeepVerdicts`), steps of the job that write no table keep it
(`QuietStepKeeps`), and `WriteKeeps` is the step that matters. `TypeOK` needs it too:
the job takes the head off a list that is only not empty because of it.

The argument about the holders: `OwnerCountCovers` is not inductive, because
`create` sets the counter to one whatever it finds. `CountInv` adds `Fresh`: a token
id not given out yet has no creator and no holders. Then `create` leaves at most
one holder, and a mint or a transfer, which require a creator, concern a created
token only. For these, `CreditHolders` and `DebitHolders` say how the set of
holders changes, `CreditCounted` and `DebitCounted` that the counter changes the
same way and does not wrap, the latter because it covers the holders. A transfer
is the debit followed by the credit, which takes care of a transfer to oneself.
`HoldersWhitelisted` is inductive together with `CountInv`, `OnlyLatestUnpaid`
together with `TypeOK`.

The argument about sums: `SumFunction` is a fold over a set, and what it computes for
every set is an induction, which the prover has not. `WordProofs` gets around it once,
in `SumRecursion`: where the sum over some subset were not that of the subset without a
member plus that member, there would be a smallest such subset. The
rest follows: a sum does not depend on the order (`SumWithout`), one balance that
changes changes it by as much (`SumExcept`), each part is at most the whole
(`SumBounds`), and the sum of a batch is the sum of what each address gets of it
(`SumByClass`).

The argument about supplies and shares: with `SumExcept`, `SupplyConserved` is inductive
together with `CountInv`. For the shares a dividend is paid for, `ShareInv` adds that no
address has a delta for a dividend to come (`FreshDeltas`, `FreshDividends`) and
`DeltaCovered`: a delta takes no more from an address than it holds and adds no more
than the supply. That holds although a delta is overwritten, because the one that stands
is that of the last move, and a move is of no more than there is. Below half of the word
all of this converts. `EntitledInv`, for `EntitlementKept`, adds what the history
means, of any number of shares: who has not moved holds what it is entitled to, and who
moved once has a delta that makes up the difference, up to a word (`EntitledAt`,
`ConvertedUpToWord`). A word too many or too few is noticed by the checked operation
that dividendOf adds the delta with, since the result of that is a word (`WordOff`,
`ShareIsEntitled`).

The argument about the coin: the batch debits the sum and then credits one after the
other. The sum being a word, no credit of it wraps, and what an address has in the end
is what it had, less the sum if it is the sender, plus what the batch has for it
(`BatchHasEffect`), in whatever order the entries come.

The argument about `JobIsBook`: `RowTells` says that the row about to be written has one
of three statuses. Then `JobWrite` is a `RecordOngoing` or a record of a verdict for the
request of that row, which by `JobInv` is the one the abstract step needs; the other
steps of the job leave the tables alone (`BookStep`).

The argument about pages: `IInv` of `OrderProofs` says who may hold a transaction. One
that has been handed out is that of one draft or of one row, never of two and never of
both (`TxOnce`); what is on the chain has been posted (`InitiatedPosted`), so an offer that
is accepted later is for another transaction, or for the same row. `Spent` says that the
account sequence of a buyer is beyond that of every sale on the chain, hence the next
one on the chain was signed with a higher one (`BuysInTurn`). `ReportsTruth` comes from
`VerdictFaithful`: a page reports the status of a row, whose transaction never changes.
For `OneTradeAtATime` the check is several requests old when the offer is posted.
`OfferInv` adds that meanwhile the buyer has no offer for another open trade
(`ChecksHold`: only this attempt could post one, and nothing opens a trade or an offer
again) and that the draft is for the trade that was checked (`DraftsMeant`).

The argument about prepared sales: what the locks of Cross give is the invariant
`DInv`: no two prepared transactions write one key (`WritesDisjoint`), and a chain
votes on a transaction only after it was built, so a simulation never rewrites what is
prepared (`Shape`). It follows from what the model assumes of Cross, and the theorems
need it. A prepare makes the call again and votes "ok" only if it writes exactly what
was simulated and touches nothing locked (`PrepareKeeps`); every other step lets go of
writes or holds the same ones (`HeldAsBefore`).

The argument about sales as swaps: a chain that has prepared a sale holds what the
contract call would write *now* (`Ready`), as long as nothing is decided. A transfer
reads the keys it writes, which are locked, and whether the buyer is whitelisted, which
nobody takes back. A prepare brings this about, since a call that touches nothing locked
is the same on the store and on the effective one (`CallNow`). So at the decision the
call succeeds on the effective store of each chain, and that store becomes what the call
makes of it (`CommitEffective`);
this is the step of `AtomicSwap`. That a chain commits leaves its effective store alone
(`FinishEffective`), and a direct call is the same call on it (`DirectEffective`). Calls
are moves of an amount between two accounts (`CoinCall`, `EstateCall`); what a move does
to the holders (`HoldersMoved`) gives `OwnerCountExact`, which `Ready` in turn needs:
the counter is written as a value computed from the counter that was read.

The argument about dividends: the dues of a transaction were read one by one, so
`DuesAreRights` says that each is what was vested at the registration, and needs that the
contract can tell so at any time: `Entitled`, an address that has not moved shares twice
holds the shares it has a right for, but for its delta, and up to a word. A sale prepared
under the dividend that waits keeps this: a first move writes a delta that makes up for
it, since `FreshDeltas` says that there was none before, and of a second one nothing is
claimed. A sale prepared *before* the
registration writes no delta and takes the right along; then it comes before any other
(`SaleBefore`, `HeldIsRight`), and nobody has read the dues of its parties, whose keys are
locked (`SharesLocked`). A
registration needs `FreshDeltas` for the index to come; it concerns no request, since
those are for earlier dividends (`ReqOK`). `PageInv`, for `UnpaidOffered`, says that
marks are only on a page that waits, and only on what it lists as unpaid. For
`EachShareOnce`, `SupplyInv` says that holdings and rights add up to the supply, whoever
has moved shares; dues being rights, they add up to what all shares earn.

The argument about sessions: `OwnInv` extends `BalanceIsOwn` to all accounts that can
come to be shown, those of requests and of a sale that goes on; `had` grows only.
`StrayInv` says that every request is for the stored account or a stray, and that the
account shown is one of these but while a request that sets it is under way.
`PollAlive` is inductive together with `TypeOK`: a timer that fires becomes a poll,
and each delivery, whatever it delivers, sets the timer of what it shows.

The argument about dividends as payouts: `TxInv` follows a distribution from its
simulation to both commits. Any two distributions write the issuer's balance and the
paid flag of the dividend, so one at most is prepared (`OnePrepared`); what it read is
locked or cannot change, hence it can still be carried out (`PayReady`, `CoinReady`),
and dividends are paid in order (`PaidInOrder`). The abstract coins and the abstract
paid dividends are then those of the chains with the writes of the one distribution
that was decided (`CoinsAre`). At the decision, dues are rights, but of those who have
moved shares twice (`DuesAreTheRights`), and the issuer has their sum (`CommitIs`,
`SumSame`). Preparing a sale is the agreement, its commit the exchange, which takes
the right along or leaves it.

Only model-checked: `VerdictRecorded`, the fairness in `BookSpec`, `WaitEnds` and
`BalanceCatchesUp` (and the counterexample to `SpinEnds`). They are liveness, which
needs ENABLED and fairness, out of this prover's reach. The five violations are
TLC's too.

## Plan

What is left:

1. `CrossSwap`: that locks are released in the end, under a relayer that works, and a
   composition with `TradeBook`, to say what becomes of a trade that is sold while
   another of its offers is accepted (a hazard that no property covers).
2. Proofs: with that composition, that each of its steps is a step of `TradeBook` and of
   `CrossSwap`; that the steps of `OrderFlow` are those of `TradeBook` too, which would
   make the theorems about the tables hold for the pages by citation.

## Not modelled

- `frontend/src/libs/cosmos/Amino.js` (44,660 lines, the output of a compiler) and
  `libs/api/api.ts` (1,808 lines, generated from the REST description): encodings and
  calls without decisions. They are most of the lines that the implementation counts,
  so that the share of it the models cover is small although the parts that decide
  something are covered.
- Signing (`libs/cosmos/util.ts`): the bytes that are signed. What depends on them, the
  account sequence of a signer, is in `OrderFlow`.
- Application wiring and command line of the chains, HTTP routing and the generated
  models of the server: no state of their own.
- The tables for users, estates and dividends: queries and one insert, with no rule
  between them; the dividend table is written by nothing.
- Layout and routing of the frontend, the list pages, amounts in forms: presentation.
- Containers, initial data, scripts.
- The Cross protocol, IBC and the relayer are not in the repository: what the models
  keep of them is what the code in `src/` relies on.

`PROJECT.json` gives the reason for each component and each hazard that is not covered.
