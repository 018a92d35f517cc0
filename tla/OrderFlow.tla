------------------------------ MODULE OrderFlow ------------------------------
(***************************************************************************)
(* The pages from which offers are made and accepted: the market page of   *)
(* buyers and the owned page of everybody (frontend/src/pages/contents),   *)
(* over the tables and the coordinator as TradeBook gives them.            *)
(*                                                                         *)
(* A page shows what it was last answered, and an answer may arrive after  *)
(* the page has been refreshed by something else.  What a page does for a  *)
(* click is a sequence of requests, each a step of its own.                *)
(*                                                                         *)
(* The coordinator chain accepts a transaction if all who signed it signed *)
(* with their account's sequence number, which it then increments.  The    *)
(* buyer signs when the offer is made, the seller when it is accepted.     *)
(***************************************************************************)
EXTENDS TradeBook, FiniteSetsExt

CONSTANTS
    MarketPage,    \* the market pages open in browsers, each [user, estate]
    OwnedPage,     \* the owned pages, likewise
    Attempt,       \* bound: the confirmed offers a market page has under way
    Holder         \* the users who hold shares of each estate

ASSUME PageAssumption ==
    /\ MarketPage \subseteq [user : User, estate : Estate]
    /\ OwnedPage \subseteq [user : User, estate : Estate]
    /\ Holder \subseteq User

VARIABLES
    sequence,    \* coordinator: the account sequence of each user
    signedAt,    \* the sequence that the buyer of a transaction signed with
    market,      \* market page: the trades it shows a BUY button for
    buy,         \* market page: each confirmed offer that is under way
    owned,       \* owned page: the buttons it shows
    sale,        \* owned page: the accepted offer that is under way
    answer,      \* market page: the answer to its poll, on its way
    told         \* the outcomes that owned pages have reported

pageVars == <<market, buy, owned, sale, answer, told>>
vars == <<bookVars, sequence, signedAt, pageVars>>

NoDraft == [crossTx |-> "none"]
NoBuy == [pc |-> "idle", trade |-> 0, draft |-> NoDraft]
NoSale == [pc |-> "idle", offer |-> 0, seq |-> 0]
NoView == [form |-> FALSE, sell |-> {}, accept |-> {}, cancel |-> {}]

Init ==
    /\ BookInit
    /\ sequence = [u \in User |-> 0]
    /\ signedAt = [x \in Tx |-> 0]
    /\ market = [p \in MarketPage |-> {}]
    /\ buy = [p \in MarketPage |-> [a \in Attempt |-> NoBuy]]
    /\ owned = [p \in OwnedPage |-> NoView]
    /\ sale = [p \in OwnedPage |-> NoSale]
    /\ answer = [p \in MarketPage |-> <<>>]
    /\ told = {}
-----------------------------------------------------------------------------
(* What the pages show *)

OpenOffers(u, t) ==
    {r \in RequestId : /\ request[r].tradeId = t
                       /\ request[r].from = u
                       /\ request[r].status = "OPENED"}

UnOffered(p) ==
    {t \in TradeId : /\ trade[t].estateId = p.estate
                     /\ trade[t].seller # p.user
                     /\ trade[t].status = "OPENED"
                     /\ OpenOffers(p.user, t) = {}}

\* The trades of an estate that the user sells or has ever made an offer for.
OwnOrders(p) ==
    {t \in TradeId :
        /\ trade[t].estateId = p.estate
        /\ \/ trade[t].seller = p.user
           \/ \E r \in RequestId : request[r].tradeId = t /\ request[r].from = p.user}

OpenOrders(p) == {t \in OwnOrders(p) : trade[t].status = "OPENED"}

\* The status goes by the first of the open orders; the form and the cancel
\* button by the one updated last, which is the last: open orders are inserted
\* and never updated.
EstateStatus(p) ==
    LET first == Min(OpenOrders(p))
    IN  CASE OpenOrders(p) = {} -> "owned"
          [] OpenOrders(p) # {} /\ trade[first].seller = p.user -> "selling"
          [] OpenOrders(p) # {} /\ trade[first].seller # p.user ->
                IF OpenOffers(p.user, first) # {} THEN "buying" ELSE "owned"

Selling(p) ==
    IF EstateStatus(p) # "selling" THEN {}
    ELSE {t \in {Max(OpenOrders(p))} : trade[t].seller = p.user}

OpenRequests(trades) ==
    {r \in RequestId : /\ request[r].tradeId \in trades
                       /\ trade[request[r].tradeId].status # "CANCELED"
                       /\ request[r].status = "OPENED"}

ViewOf(p) ==
    LET status == EstateStatus(p)
    IN  [form   |-> p.user \in Holder /\ OpenOrders(p) = {},
         sell   |-> Selling(p),
         accept |-> IF status = "buying" THEN {}
                    ELSE OpenRequests({t \in OwnOrders(p) : trade[t].seller = p.user}),
         cancel |-> IF status # "buying" THEN {}
                    ELSE {r \in OpenRequests(OwnOrders(p)) : request[r].from = p.user}]

\* Every ten seconds a page asks for its estate again; the answer is made by
\* the server now and shown by the page later.
AskMarket(p) ==
    /\ answer[p] = <<>>
    /\ answer' = [answer EXCEPT ![p] = <<UnOffered(p)>>]
    /\ UNCHANGED <<bookVars, sequence, signedAt, market, buy, owned, sale, told>>

ShowMarket(p) ==
    /\ answer[p] # <<>>
    /\ market' = [market EXCEPT ![p] = Head(answer[p])]
    /\ answer' = [answer EXCEPT ![p] = <<>>]
    /\ UNCHANGED <<bookVars, sequence, signedAt, buy, owned, sale, told>>

\* The owned page does the same; what it shows may be as old as one likes, and
\* the time its answer takes is left out.
PollOwned(p) ==
    /\ owned' = [owned EXCEPT ![p] = ViewOf(p)]
    /\ UNCHANGED <<bookVars, sequence, signedAt, market, buy, sale, answer, told>>
-----------------------------------------------------------------------------
(* The market page: a buyer confirms an offer.  The modal can be dismissed *)
(* while the offer is on its way, and another offer be confirmed.          *)

Buying(p, a, pc) == buy[p][a].pc = pc
BuyGoes(p, a, to) == buy' = [buy EXCEPT ![p][a] = to]

ConfirmOffer(p, a, t) ==
    /\ Buying(p, a, "idle")
    /\ t \in market[p]
    /\ BuyGoes(p, a, [NoBuy EXCEPT !.pc = "check", !.trade = t])
    /\ UNCHANGED <<bookVars, sequence, signedAt, market, owned, sale, answer, told>>

\* A fault: only offers for this trade are in the way.
AnotherOfferSame(u, t) == OpenOffers(u, t) # {}

\* An open offer of the user for another trade that is open.
AnotherOffer(u, t) ==
    \E o \in TradeId \ {t} : trade[o].status = "OPENED" /\ OpenOffers(u, o) # {}

CheckOffers(p, a) ==
    /\ Buying(p, a, "check")
    /\ BuyGoes(p, a, IF AnotherOffer(p.user, buy[p][a].trade) THEN NoBuy
                     ELSE [buy[p][a] EXCEPT !.pc = "build"])
    /\ UNCHANGED <<bookVars, sequence, signedAt, market, owned, sale, answer, told>>

BuildTx(p, a, x) ==
    /\ Buying(p, a, "build")
    /\ GetTxTradeRequest(buy[p][a].trade, p.user, x)
    /\ BuyGoes(p, a, [pc |-> "sign", trade |-> buy[p][a].trade,
                      draft |-> [tradeId |-> buy[p][a].trade, from |-> p.user,
                                 crossTx |-> x]])
    /\ UNCHANGED <<chainVars, sequence, signedAt, market, owned, sale, answer, told>>

SignOffer(p, a) ==
    /\ Buying(p, a, "sign")
    /\ signedAt' = [signedAt EXCEPT ![buy[p][a].draft.crossTx] = sequence[p.user]]
    /\ BuyGoes(p, a, [buy[p][a] EXCEPT !.pc = "post"])
    /\ UNCHANGED <<bookVars, sequence, market, owned, sale, answer, told>>

PostOffer(p, a) ==
    /\ Buying(p, a, "post")
    /\ PostTradeRequest(buy[p][a].draft)
    /\ BuyGoes(p, a, [buy[p][a] EXCEPT !.pc = "refresh"])
    /\ UNCHANGED <<chainVars, sequence, signedAt, market, owned, sale, answer, told>>

RefreshMarket(p, a) ==
    /\ Buying(p, a, "refresh")
    /\ market' = [market EXCEPT ![p] = UnOffered(p)]
    /\ BuyGoes(p, a, NoBuy)
    /\ UNCHANGED <<bookVars, sequence, signedAt, owned, sale, answer, told>>

\* Any request may fail, or its answer get lost: the attempt is given up, and
\* what the page shows stays as it was.
BuyFails(p, a) ==
    /\ ~Buying(p, a, "idle")
    /\ BuyGoes(p, a, NoBuy)
    /\ UNCHANGED <<bookVars, sequence, signedAt, market, owned, sale, answer, told>>
-----------------------------------------------------------------------------
(* The owned page.  While an accepted offer is under way, its buttons are  *)
(* under the spinner "Broadcasting...".                                    *)

Clickable(p) == sale[p].pc = "idle"
SaleGoes(p, to) == sale' = [sale EXCEPT ![p] = to]

SellShares(p) ==
    /\ Clickable(p) /\ owned[p].form
    /\ PostTrade(p.estate, p.user)
    /\ owned' = [owned EXCEPT ![p] = ViewOf(p)']
    /\ UNCHANGED <<chainVars, sequence, signedAt, market, buy, sale, answer, told>>

CancelSellOrder(p, t) ==
    /\ Clickable(p) /\ t \in owned[p].sell
    /\ DeleteTrade(t)
    /\ owned' = [owned EXCEPT ![p] = ViewOf(p)']
    /\ UNCHANGED <<chainVars, sequence, signedAt, market, buy, sale, answer, told>>

\* The page is left, and its timers with it.
Leave(p) == owned' = [owned EXCEPT ![p] = NoView]

CancelBuyOffer(p, r) ==
    /\ Clickable(p) /\ r \in owned[p].cancel
    /\ DeleteTradeRequest(r)
    /\ Leave(p)
    /\ UNCHANGED <<chainVars, sequence, signedAt, market, buy, sale, answer, told>>

AcceptOffer(p, r) ==
    /\ Clickable(p) /\ r \in owned[p].accept
    /\ SaleGoes(p, [pc |-> "sign", offer |-> r, seq |-> 0])
    /\ UNCHANGED <<bookVars, sequence, signedAt, market, buy, owned, answer, told>>

SignSale(p) ==
    /\ sale[p].pc = "sign"
    /\ SaleGoes(p, [sale[p] EXCEPT !.pc = "send", !.seq = sequence[p.user]])
    /\ UNCHANGED <<bookVars, sequence, signedAt, market, buy, owned, answer, told>>

\* A fault: a signature for an earlier sequence number will do.
SignedOnce(p) ==
    LET r == request[sale[p].offer]
    IN  signedAt[r.crossTx] <= sequence[r.from] /\ sale[p].seq = sequence[p.user]

Signed(p) ==
    LET r == request[sale[p].offer]
    IN  signedAt[r.crossTx] = sequence[r.from] /\ sale[p].seq = sequence[p.user]

BothAdvance(p) ==
    LET sold == [sequence EXCEPT ![p.user] = @ + 1]
    IN  sequence' = [sold EXCEPT ![request[sale[p].offer].from] = @ + 1]

\* The transaction is in a block, and the page told its id.
SendAccepted(p) ==
    /\ sale[p].pc = "send" /\ Signed(p)
    /\ Broadcast(sale[p].offer)
    /\ BothAdvance(p)
    /\ SaleGoes(p, [sale[p] EXCEPT !.pc = "wait"])
    /\ UNCHANGED <<signedAt, market, buy, owned, answer, told>>

\* Each way for the broadcast to throw: it is not accepted, or never sent; its
\* message fails in the block; the answer of the chain is lost.  The error is
\* shown and isTxBroadcasting stays set.
SendFails(p) ==
    /\ sale[p].pc = "send"
    /\ SaleGoes(p, [sale[p] EXCEPT !.pc = "stuck"])
    /\ \/ UNCHANGED <<bookVars, sequence>>
       \/ Signed(p) /\ BothAdvance(p) /\ UNCHANGED bookVars
       \/ Signed(p) /\ BothAdvance(p) /\ Broadcast(sale[p].offer)
    /\ UNCHANGED <<signedAt, market, buy, owned, answer, told>>

\* A fault: an offer that is not open any more counts as finished.
FinishedNotOpen(status) == status # "OPENED"

Finished(status) == status \in {"COMPLETED", "FAILED"}

Outcome(r) ==
    [offer |-> r, success |-> request[r].status = "COMPLETED"]

\* Every three seconds the page looks at the offer it waits for.
WaitPoll(p) ==
    LET r == sale[p].offer
    IN  /\ sale[p].pc = "wait"
        /\ owned' = [owned EXCEPT ![p] = ViewOf(p)]
        /\ IF Finished(request[r].status)
           THEN SaleGoes(p, NoSale) /\ told' = told \cup {Outcome(r)}
           ELSE request[r].status = "ONGOING" /\ UNCHANGED <<sale, told>>
        /\ UNCHANGED <<bookVars, sequence, signedAt, market, buy, answer>>

\* The user reloads the page, or opens another one and comes back.
Reload(p) ==
    /\ Leave(p)
    /\ SaleGoes(p, NoSale)
    /\ UNCHANGED <<bookVars, sequence, signedAt, market, buy, answer, told>>
-----------------------------------------------------------------------------
MarketStep(p) ==
    \/ AskMarket(p)
    \/ ShowMarket(p)
    \/ \E a \in Attempt :
        \/ \E t \in market[p] : ConfirmOffer(p, a, t)
        \/ CheckOffers(p, a)
        \/ \E x \in Tx \ UsedTx : BuildTx(p, a, x)
        \/ SignOffer(p, a)
        \/ PostOffer(p, a)
        \/ RefreshMarket(p, a)
        \/ BuyFails(p, a)

SaleStep(p) == SignSale(p) \/ SendAccepted(p) \/ SendFails(p) \/ WaitPoll(p)

OwnedStep(p) ==
    \/ PollOwned(p)
    \/ SellShares(p)
    \/ \E t \in owned[p].sell : CancelSellOrder(p, t)
    \/ \E r \in owned[p].cancel : CancelBuyOffer(p, r)
    \/ \E r \in owned[p].accept : AcceptOffer(p, r)
    \/ Reload(p)
    \/ SaleStep(p)

PagesWatch == UNCHANGED <<sequence, signedAt, pageVars>>

Next ==
    \/ \E p \in MarketPage : MarketStep(p)
    \/ \E p \in OwnedPage : OwnedStep(p)
    \/ \E x \in Tx, d \in {"commit", "abort"} : Decide(x, d) /\ PagesWatch
    \/ RecordStep /\ PagesWatch

\* The coordinator decides, the job records, and an owned page goes on with the
\* offer it has accepted.  Nobody has to click.
Fairness ==
    /\ BookFair
    /\ \A x \in Tx : WF_vars(\E d \in {"commit", "abort"} : Decide(x, d) /\ PagesWatch)
    /\ \A p \in OwnedPage : WF_vars(SaleStep(p))

Spec == Init /\ [][Next]_vars /\ Fairness
-----------------------------------------------------------------------------
View == [form : BOOLEAN, sell : SUBSET TradeId, accept : SUBSET RequestId,
         cancel : SUBSET RequestId]

\* Types of what the pages keep.
TypeOK ==
    /\ DbTypeOK
    /\ ChainTypeOK
    /\ sequence \in [User -> Nat]
    /\ signedAt \in [Tx -> Nat]
    /\ market \in [MarketPage -> SUBSET TradeId]
    /\ \A p \in MarketPage, a \in Attempt :
        buy[p][a].pc \in {"idle", "check", "build", "sign", "post", "refresh"}
    /\ owned \in [OwnedPage -> View]
    /\ sale \in [OwnedPage -> [pc : {"idle", "sign", "send", "wait", "stuck"},
                               offer : RequestId \cup {0}, seq : Nat]]

\* market-detail.tsx:179: one cannot place a new buy order having placed
\* another one.  The open offers that a user has for open trades are for one.
OneTradeAtATime ==
    \A u \in User, t, o \in TradeId :
        /\ trade[t].status = "OPENED" /\ OpenOffers(u, t) # {}
        /\ trade[o].status = "OPENED" /\ OpenOffers(u, o) # {}
        => t = o

\* A seller is told of a success if and only if the coordinator committed the
\* sale, whatever is cancelled meanwhile (owned-detail.tsx:322).
ReportsTruth ==
    \A m \in told :
        decision[request[m.offer].crossTx] = IF m.success THEN "commit" ELSE "abort"

\* Offers of one buyer are sold one after the other: each was signed after the
\* sale before it.  Of the offers a buyer has made meanwhile, twice by mistake
\* or for trades since cancelled, one can be sold (market-detail.tsx:206).
BuysInTurn ==
    \A i, j \in DOMAIN initiated, r, q \in RequestId :
        /\ i < j
        /\ request[r].crossTx = initiated[i] /\ request[q].crossTx = initiated[j]
        /\ request[r].from = request[q].from
        => signedAt[initiated[i]] < signedAt[initiated[j]]

\* owned-detail.tsx:506: the page shows "Broadcasting..." while it broadcasts,
\* so at some time it stops.
SpinEnds == \A p \in OwnedPage : sale[p].pc # "idle" ~> sale[p].pc = "idle"
=============================================================================
