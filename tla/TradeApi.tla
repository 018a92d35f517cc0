------------------------------- MODULE TradeApi -------------------------------
(***************************************************************************)
(* The trade tables of the API server's database and the handlers of       *)
(* backend/apiserver/api/api_trade_service.go that write them, with the    *)
(* handler of api_tx_service.go that builds a trade request's transaction. *)
(* A handler that returns an error before it writes is no step.            *)
(*                                                                         *)
(* The cross-chain transaction of a request is a member of Tx: a fresh one *)
(* each time one is built, as its nonce is the clock's.                    *)
(***************************************************************************)
EXTENDS Naturals, Sequences

CONSTANTS
    User,          \* users, by their account address
    NoUser,        \* no user: a NULL or empty column
    Estate,        \* estates
    Tx,            \* the transactions that clients build
    MaxTrades      \* bound: rows of the trade table

ASSUME TradeAssumption == NoUser \notin User /\ MaxTrades \in Nat

TradeStatus == {"OPENED", "CANCELED", "COMPLETED"}
RequestStatus == {"OPENED", "CANCELED", "ONGOING", "COMPLETED", "FAILED"}

VARIABLES
    trade,      \* the rows of trade, by id
    request,    \* the rows of trade_request, by id
    drafts      \* transactions built for a client and not posted yet

dbVars == <<trade, request, drafts>>

DbInit ==
    /\ trade = <<>>
    /\ request = <<>>
    /\ drafts = {}

TradeId == DOMAIN trade
RequestId == DOMAIN request

OpenTrades(estate, seller) ==
    {t \in TradeId : /\ trade[t].estateId = estate
                     /\ trade[t].seller = seller
                     /\ trade[t].status = "OPENED"}

\* A fault: the trade is inserted without a look at those there are.
PostTradeUnchecked(estate, seller) ==
    /\ Len(trade) < MaxTrades
    /\ trade' = Append(trade, [estateId |-> estate, seller |-> seller,
                               buyer |-> NoUser, status |-> "OPENED"])
    /\ UNCHANGED <<request, drafts>>

\* One database transaction: SQLite serializes it with every other writer.
PostTrade(estate, seller) ==
    /\ Len(trade) < MaxTrades
    /\ OpenTrades(estate, seller) = {}
    /\ trade' = Append(trade, [estateId |-> estate, seller |-> seller,
                               buyer |-> NoUser, status |-> "OPENED"])
    /\ UNCHANGED <<request, drafts>>

\* The update asks nothing of the status that the trade has.
DeleteTrade(t) ==
    /\ trade' = [trade EXCEPT ![t].status = "CANCELED"]
    /\ UNCHANGED <<request, drafts>>

\* The transaction is built only for an open trade.  The two calls that are
\* simulated for it on the chains write nothing.
GetTxTradeRequest(t, from, tx) ==
    /\ trade[t].status = "OPENED"
    /\ drafts' = drafts \cup {[tradeId |-> t, from |-> from, crossTx |-> tx]}
    /\ UNCHANGED <<trade, request>>

\* The status of the trade is not asked for again.
PostTradeRequest(d) ==
    /\ request' = Append(request, [tradeId |-> d.tradeId, from |-> d.from,
                                   crossTx |-> d.crossTx, status |-> "OPENED"])
    /\ drafts' = drafts \ {d}
    /\ UNCHANGED trade

\* Nor does this one.
DeleteTradeRequest(r) ==
    /\ request' = [request EXCEPT ![r].status = "CANCELED"]
    /\ UNCHANGED <<trade, drafts>>

UsedTx == {request[r].crossTx : r \in RequestId} \cup {d.crossTx : d \in drafts}

ApiStep ==
    \/ \E e \in Estate, u \in User : PostTrade(e, u)
    \/ \E t \in TradeId : DeleteTrade(t)
    \/ \E t \in TradeId, u \in User, x \in Tx \ UsedTx : GetTxTradeRequest(t, u, x)
    \/ \E d \in drafts : PostTradeRequest(d)
    \/ \E r \in RequestId : DeleteTradeRequest(r)
-----------------------------------------------------------------------------
Draft == [tradeId : TradeId, from : User, crossTx : Tx]

TradeRow == [estateId : Estate, seller : User, buyer : User \cup {NoUser},
             status : TradeStatus]

RequestRow == [tradeId : TradeId, from : User, crossTx : Tx, status : RequestStatus]

DbTypeOK ==
    /\ trade \in Seq(TradeRow)
    /\ request \in Seq(RequestRow)
    /\ drafts \subseteq Draft

\* A seller has one open sell offer of an estate at a time, however posts,
\* cancels and the job's updates follow each other (api_trade_service.go:206).
OneOpenTrade ==
    \A t, u \in TradeId :
        /\ trade[t].status = "OPENED" /\ trade[u].status = "OPENED"
        /\ trade[t].estateId = trade[u].estateId
        /\ trade[t].seller = trade[u].seller
        => t = u
=============================================================================
