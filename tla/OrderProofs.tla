----------------------------- MODULE OrderProofs -----------------------------
(***************************************************************************)
(* Theorems about OrderFlow, for any users, estates and transactions, any  *)
(* pages, and any number of offers under way on each.                      *)
(***************************************************************************)
EXTENDS OrderFlow, SequenceTheorems, WellFoundedInduction, TLAPS

-----------------------------------------------------------------------------
(* The greatest of some rows. *)

\* A set of ids that is not empty has a greatest member.
LEMMA MaxInSet ==
    ASSUME NEW n \in Nat, NEW S \in SUBSET (1 .. n), S # {}
    PROVE  Max(S) \in S
<1> DEFINE bounds == {m \in Nat : \A i \in S : i <= m}
<1>1. n \in bounds /\ bounds \subseteq Nat
  OBVIOUS
<1>2. IsWellFoundedOn(OpToRel(<, Nat), Nat)
  BY NatLessThanWellFounded
<1>3. PICK m \in bounds : \A k \in bounds : ~(k < m)
  <2>1. PICK m \in bounds : \A k \in bounds : ~(<<k, m>> \in OpToRel(<, Nat))
    BY <1>1, <1>2, WFMin
  <2> QED  BY <2>1, <1>1 DEF OpToRel
<1>4. \E i \in S : i = m
  <2>1. PICK i \in S : i \in 1 .. n
    OBVIOUS
  <2>2. m \in Nat /\ m >= 1
    BY <1>3, <2>1
  <2>3. SUFFICES ASSUME \A j \in S : j # m  PROVE FALSE
    OBVIOUS
  <2>4. m - 1 \in bounds
    BY <2>2, <2>3, <1>3
  <2> QED  BY <2>2, <2>4, <1>3
<1>5. \E x \in S : \A y \in S : x >= y
  BY <1>3, <1>4
<1> QED  BY <1>5 DEF Max
-----------------------------------------------------------------------------
(* Sequences of rows. *)

LEMMA RowsDomain ==
    ASSUME NEW S, NEW s \in Seq(S)
    PROVE  DOMAIN s = 1 .. Len(s) /\ Len(s) \in Nat /\ \A i \in DOMAIN s : s[i] \in S
  BY LenProperties, ElementOfSeq

LEMMA RowInserted ==
    ASSUME NEW S, NEW s \in Seq(S), NEW e \in S
    PROVE  /\ Append(s, e) \in Seq(S)
           /\ DOMAIN Append(s, e) = DOMAIN s \cup {Len(s) + 1}
           /\ Len(s) + 1 \notin DOMAIN s
           /\ \A i \in DOMAIN s : Append(s, e)[i] = s[i]
           /\ Append(s, e)[Len(s) + 1] = e
  OBVIOUS

LEMMA RowUpdated ==
    ASSUME NEW S, NEW s \in Seq(S), NEW i \in DOMAIN s, NEW e \in S
    PROVE  /\ [s EXCEPT ![i] = e] \in Seq(S)
           /\ DOMAIN [s EXCEPT ![i] = e] = DOMAIN s
           /\ \A j \in DOMAIN s : [s EXCEPT ![i] = e][j] = IF j = i THEN e ELSE s[j]
  BY ExceptSeq, LenProperties

LEMMA TradeStatusSet ==
    ASSUME NEW s \in Seq(TradeRow), NEW t \in DOMAIN s, NEW st \in TradeStatus
    PROVE  LET new == [s EXCEPT ![t].status = st]
           IN  /\ new \in Seq(TradeRow)
               /\ DOMAIN new = DOMAIN s
               /\ \A i \in DOMAIN s : new[i].status = IF i = t THEN st ELSE s[i].status
<1> DEFINE row1 == [s[t] EXCEPT !.status = st]
           new == [s EXCEPT ![t] = row1]
<1>1. s[t] \in TradeRow
  BY RowsDomain
<1>2. row1 \in TradeRow /\ row1.status = st
  BY <1>1 DEF TradeRow
<1> HIDE DEF row1
<1>3. /\ new \in Seq(TradeRow) /\ DOMAIN new = DOMAIN s
      /\ \A i \in DOMAIN s : new[i] = IF i = t THEN row1 ELSE s[i]
  BY <1>2, RowUpdated
<1> QED  BY <1>2, <1>3 DEF row1

LEMMA TradeBuyerSet ==
    ASSUME NEW s \in Seq(TradeRow), NEW t \in DOMAIN s, NEW b \in User \cup {NoUser}
    PROVE  LET new == [s EXCEPT ![t].buyer = b]
           IN  /\ new \in Seq(TradeRow)
               /\ DOMAIN new = DOMAIN s
               /\ \A i \in DOMAIN s : new[i].status = s[i].status
<1> DEFINE row1 == [s[t] EXCEPT !.buyer = b]
           new == [s EXCEPT ![t] = row1]
<1>1. s[t] \in TradeRow
  BY RowsDomain
<1>2. row1 \in TradeRow /\ row1.status = s[t].status
  BY <1>1 DEF TradeRow
<1> HIDE DEF row1
<1>3. /\ new \in Seq(TradeRow) /\ DOMAIN new = DOMAIN s
      /\ \A i \in DOMAIN s : new[i] = IF i = t THEN row1 ELSE s[i]
  BY <1>2, RowUpdated
<1> QED  BY <1>2, <1>3 DEF row1

LEMMA RequestStatusSet ==
    ASSUME NEW s \in Seq(RequestRow), NEW r \in DOMAIN s, NEW st \in RequestStatus
    PROVE  LET new == [s EXCEPT ![r].status = st]
           IN  /\ new \in Seq(RequestRow)
               /\ DOMAIN new = DOMAIN s
               /\ \A i \in DOMAIN s :
                    /\ new[i].status = IF i = r THEN st ELSE s[i].status
                    /\ new[i].tradeId = s[i].tradeId
                    /\ new[i].crossTx = s[i].crossTx
                    /\ new[i].from = s[i].from
<1> DEFINE row1 == [s[r] EXCEPT !.status = st]
           new == [s EXCEPT ![r] = row1]
<1>1. s[r] \in RequestRow
  BY RowsDomain
<1>2. /\ row1 \in RequestRow /\ row1.status = st /\ row1.tradeId = s[r].tradeId
      /\ row1.crossTx = s[r].crossTx /\ row1.from = s[r].from
  BY <1>1 DEF RequestRow
<1> HIDE DEF row1
<1>3. /\ new \in Seq(RequestRow) /\ DOMAIN new = DOMAIN s
      /\ \A i \in DOMAIN s : new[i] = IF i = r THEN row1 ELSE s[i]
  BY <1>2, RowUpdated
<1> QED  BY <1>2, <1>3 DEF row1
-----------------------------------------------------------------------------
(* What the writes of the tables do to their rows. *)

LEMMA RequestTyped ==
    ASSUME DbTypeOK, NEW r \in RequestId
    PROVE  /\ request[r].tradeId \in TradeId /\ request[r].crossTx \in Tx
           /\ request[r].from \in User /\ request[r].status \in RequestStatus
<1>1. request \in Seq(RequestRow) /\ r \in DOMAIN request
  BY DEF DbTypeOK, RequestId
<1>2. request[r] \in RequestRow
  BY <1>1, RowsDomain
<1> QED  BY <1>2 DEF RequestRow

\* No row is deleted, and a request keeps its trade, its transaction and its
\* buyer.
RowsKept ==
    /\ TradeId \subseteq TradeId' /\ RequestId \subseteq RequestId'
    /\ \A r \in RequestId : /\ request'[r].tradeId = request[r].tradeId
                            /\ request'[r].crossTx = request[r].crossTx
                            /\ request'[r].from = request[r].from

\* What is not open is not opened again.
StayClosed ==
    /\ \A t \in TradeId : trade'[t].status = "OPENED" => trade[t].status = "OPENED"
    /\ \A r \in RequestId : request'[r].status = "OPENED" => request[r].status = "OPENED"

\* The status of a request changes, and nothing else of any request.
StatusOnly(r, st) ==
    /\ RequestId' = RequestId
    /\ \A q \in RequestId :
        request'[q].status = IF q = r THEN st ELSE request[q].status

LEMMA PostTradeEffect ==
    ASSUME DbTypeOK, NEW e \in Estate, NEW u \in User, PostTrade(e, u)
    PROVE  DbTypeOK' /\ RowsKept /\ StayClosed /\ request' = request /\ drafts' = drafts
<1> DEFINE new == [estateId |-> e, seller |-> u, buyer |-> NoUser, status |-> "OPENED"]
<1>1. /\ trade \in Seq(TradeRow) /\ new \in TradeRow
      /\ trade' = Append(trade, new) /\ request' = request /\ drafts' = drafts
  BY DEF DbTypeOK, PostTrade, TradeRow, TradeStatus
<1>2. /\ trade' \in Seq(TradeRow) /\ TradeId \subseteq TradeId'
      /\ \A t \in TradeId : trade'[t] = trade[t]
  BY <1>1, RowInserted DEF TradeId
<1>3. RequestRow \subseteq RequestRow' /\ Draft \subseteq Draft'
  BY <1>2 DEF RequestRow, Draft
<1>4. request' \in Seq(RequestRow')
  BY <1>1, <1>3, SeqMonotonic DEF DbTypeOK
<1>5. DbTypeOK'
  BY <1>1, <1>2, <1>3, <1>4 DEF DbTypeOK, TradeRow
<1> QED  BY <1>1, <1>2, <1>5 DEF RowsKept, StayClosed, RequestId

LEMMA DeleteTradeEffect ==
    ASSUME DbTypeOK, NEW t \in TradeId, DeleteTrade(t)
    PROVE  DbTypeOK' /\ RowsKept /\ StayClosed /\ request' = request /\ drafts' = drafts
<1>1. /\ trade \in Seq(TradeRow) /\ t \in DOMAIN trade /\ "CANCELED" \in TradeStatus
      /\ trade' = [trade EXCEPT ![t].status = "CANCELED"]
      /\ request' = request /\ drafts' = drafts
  BY DEF DbTypeOK, DeleteTrade, TradeId, TradeStatus
<1>2. /\ trade' \in Seq(TradeRow) /\ TradeId' = TradeId
      /\ \A i \in TradeId :
            trade'[i].status = IF i = t THEN "CANCELED" ELSE trade[i].status
  BY <1>1, TradeStatusSet DEF TradeId
<1>3. DbTypeOK'
  BY <1>1, <1>2 DEF DbTypeOK, RequestRow, Draft, TradeRow
<1> QED  BY <1>1, <1>2, <1>3 DEF RowsKept, StayClosed, RequestId

LEMMA GetTxEffect ==
    ASSUME DbTypeOK, NEW t \in TradeId, NEW u \in User, NEW x \in Tx,
           GetTxTradeRequest(t, u, x)
    PROVE  /\ DbTypeOK' /\ RowsKept /\ trade' = trade /\ request' = request
           /\ [tradeId |-> t, from |-> u, crossTx |-> x] \in Draft
<1>1. trade' = trade /\ request' = request /\ TradeId' = TradeId
  BY DEF GetTxTradeRequest, TradeId
<1>2. [tradeId |-> t, from |-> u, crossTx |-> x] \in Draft
  BY DEF Draft
<1>3. drafts' \subseteq Draft
  BY <1>2 DEF GetTxTradeRequest, DbTypeOK
<1> QED  BY <1>1, <1>2, <1>3 DEF DbTypeOK, RowsKept, RequestId, RequestRow, Draft, TradeRow

LEMMA PostTradeRequestEffect ==
    ASSUME DbTypeOK, NEW d \in drafts, PostTradeRequest(d)
    PROVE  /\ DbTypeOK' /\ RowsKept /\ trade' = trade /\ drafts' = drafts \ {d}
           /\ \A r \in RequestId : request'[r].status = request[r].status
           /\ RequestId' = RequestId \cup {Len(request) + 1}
           /\ Len(request) + 1 \notin RequestId
           /\ request'[Len(request) + 1].tradeId = d.tradeId
           /\ request'[Len(request) + 1].crossTx = d.crossTx
           /\ request'[Len(request) + 1].from = d.from
           /\ request'[Len(request) + 1].status = "OPENED"
<1> DEFINE new == [tradeId |-> d.tradeId, from |-> d.from, crossTx |-> d.crossTx,
                   status |-> "OPENED"]
<1>1. d \in Draft
  BY DEF DbTypeOK
<1>2. /\ request \in Seq(RequestRow) /\ new \in RequestRow
      /\ request' = Append(request, new) /\ trade' = trade /\ drafts' = drafts \ {d}
  BY <1>1 DEF DbTypeOK, PostTradeRequest, RequestRow, Draft, RequestStatus
<1>3. /\ request' \in Seq(RequestRow)
      /\ RequestId' = RequestId \cup {Len(request) + 1}
      /\ Len(request) + 1 \notin RequestId
      /\ \A r \in RequestId : request'[r] = request[r]
      /\ request'[Len(request) + 1] = new
  BY <1>2, RowInserted DEF RequestId
<1>4. TradeId' = TradeId
  BY <1>2 DEF TradeId
<1>5. DbTypeOK'
  BY <1>2, <1>3, <1>4 DEF DbTypeOK, RequestRow, Draft, TradeRow
<1>6. /\ new.status = "OPENED" /\ new.tradeId = d.tradeId
      /\ new.crossTx = d.crossTx /\ new.from = d.from
  OBVIOUS
<1> HIDE DEF new
<1>7. RowsKept
  BY <1>3, <1>4 DEF RowsKept
<1> QED  BY <1>2, <1>3, <1>5, <1>6, <1>7

\* The status of a request is set, whoever does it.
LEMMA RequestUpdated ==
    ASSUME DbTypeOK, NEW r \in RequestId, NEW st \in RequestStatus,
           request' = [request EXCEPT ![r].status = st],
           trade' \in Seq(TradeRow), TradeId' = TradeId, drafts' = drafts
    PROVE  DbTypeOK' /\ RowsKept /\ StatusOnly(r, st)
<1>1. request \in Seq(RequestRow) /\ r \in DOMAIN request
  BY DEF DbTypeOK, RequestId
<1>2. /\ request' \in Seq(RequestRow) /\ RequestId' = RequestId
      /\ \A q \in RequestId :
            /\ request'[q].status = IF q = r THEN st ELSE request[q].status
            /\ request'[q].tradeId = request[q].tradeId
            /\ request'[q].crossTx = request[q].crossTx
            /\ request'[q].from = request[q].from
  BY <1>1, RequestStatusSet DEF RequestId
<1>3. DbTypeOK'
  BY <1>2 DEF DbTypeOK, RequestRow, Draft, TradeRow
<1> QED  BY <1>2, <1>3 DEF RowsKept, StatusOnly

LEMMA DeleteTradeRequestEffect ==
    ASSUME DbTypeOK, NEW r \in RequestId, DeleteTradeRequest(r)
    PROVE  /\ DbTypeOK' /\ RowsKept /\ StatusOnly(r, "CANCELED") /\ StayClosed
           /\ drafts' = drafts
<1>1. /\ trade' = trade /\ drafts' = drafts /\ TradeId' = TradeId
      /\ trade' \in Seq(TradeRow) /\ "CANCELED" \in RequestStatus
      /\ request' = [request EXCEPT ![r].status = "CANCELED"]
  BY DEF DbTypeOK, DeleteTradeRequest, TradeId, RequestStatus
<1>2. DbTypeOK' /\ RowsKept /\ StatusOnly(r, "CANCELED")
  BY <1>1, RequestUpdated
<1> QED  BY <1>1, <1>2 DEF StatusOnly, StayClosed

LEMMA RecordEffect ==
    ASSUME DbTypeOK, NEW r \in RequestId, NEW st \in RequestStatus, st # "OPENED",
           Record(r, st)
    PROVE  DbTypeOK' /\ RowsKept /\ StatusOnly(r, st) /\ StayClosed /\ drafts' = drafts
<1> DEFINE t == request[r].tradeId
<1>1. trade \in Seq(TradeRow) /\ t \in DOMAIN trade
  BY RequestTyped DEF DbTypeOK, TradeId
<1>2. drafts' = drafts /\ request' = [request EXCEPT ![r].status = st]
  BY DEF Record
<1>3. /\ trade' \in Seq(TradeRow) /\ DOMAIN trade' = DOMAIN trade
      /\ \A i \in DOMAIN trade :
            trade'[i].status = "OPENED" => trade[i].status = "OPENED"
  <2>1. CASE st # "COMPLETED"
    BY <1>1, <2>1 DEF Record
  <2>2. CASE st = "COMPLETED"
    <3> DEFINE sold == [trade EXCEPT ![t].status = "COMPLETED"]
               new == [sold EXCEPT ![t].buyer = NoUser]
    <3>1. trade' = new
      BY <2>2 DEF Record
    <3> HIDE DEF t
    <3>2. /\ sold \in Seq(TradeRow) /\ DOMAIN sold = DOMAIN trade
          /\ \A i \in DOMAIN trade :
                sold[i].status = IF i = t THEN "COMPLETED" ELSE trade[i].status
      BY <1>1, TradeStatusSet DEF TradeStatus
    <3>3. t \in DOMAIN sold
      BY <1>1, <3>2
    <3> HIDE DEF sold
    <3>4. /\ new \in Seq(TradeRow) /\ DOMAIN new = DOMAIN sold
          /\ \A i \in DOMAIN sold : new[i].status = sold[i].status
      <4> DEFINE b == NoUser
      <4>1. b \in User \cup {NoUser} /\ sold \in Seq(TradeRow) /\ t \in DOMAIN sold
        BY <3>2, <3>3
      <4> HIDE DEF b
      <4>2. /\ [sold EXCEPT ![t].buyer = b] \in Seq(TradeRow)
            /\ DOMAIN [sold EXCEPT ![t].buyer = b] = DOMAIN sold
            /\ \A i \in DOMAIN sold :
                [sold EXCEPT ![t].buyer = b][i].status = sold[i].status
        BY <4>1, TradeBuyerSet
      <4> QED  BY <4>2 DEF b
    <3> QED  BY <3>1, <3>2, <3>4
  <2> QED  BY <2>1, <2>2
<1>4. TradeId' = TradeId
  BY <1>3 DEF TradeId
<1>5. DbTypeOK' /\ RowsKept /\ StatusOnly(r, st)
  BY <1>2, <1>3, <1>4, RequestUpdated
<1> QED  BY <1>2, <1>3, <1>5 DEF StatusOnly, StayClosed, TradeId
-----------------------------------------------------------------------------
(* What the pages keep. *)

MarketTyped ==
    /\ market \in [MarketPage -> SUBSET TradeId]
    /\ answer \in [MarketPage -> {<<>>} \cup {<<s>> : s \in SUBSET TradeId}]

BuyPc == {"idle", "check", "build", "sign", "post", "refresh"}
BuyState == [pc : BuyPc, trade : Nat, draft : Draft \cup {NoDraft}]

\* A market page holds a transaction that was built for it and is not posted.
Held(p, a) == buy[p][a].pc \in {"sign", "post"}

BuyTyped ==
    /\ buy \in [MarketPage -> [Attempt -> BuyState]]
    /\ \A p \in MarketPage, a \in Attempt :
        /\ buy[p][a].pc # "idle" => buy[p][a].trade \in TradeId
        /\ Held(p, a) => buy[p][a].draft \in drafts

OwnedTyped == owned \in [OwnedPage -> View]

SalePc == {"idle", "sign", "send", "wait", "stuck"}

SaleTyped ==
    /\ sale \in [OwnedPage -> [pc : SalePc, offer : RequestId \cup {0}, seq : Nat]]
    /\ \A p \in OwnedPage : sale[p].pc # "idle" => sale[p].offer \in RequestId

ToldTyped == told \subseteq [offer : RequestId, success : BOOLEAN]

CoordTyped ==
    /\ ChainTypeOK
    /\ sequence \in [User -> Nat]
    /\ signedAt \in [Tx -> Nat]

Typed ==
    /\ DbTypeOK
    /\ CoordTyped
    /\ MarketTyped
    /\ BuyTyped
    /\ OwnedTyped
    /\ SaleTyped
    /\ ToldTyped

LEMMA TypedIsTypeOK ==
    ASSUME Typed
    PROVE  TypeOK
<1>1. \A p \in MarketPage, a \in Attempt : buy[p][a].pc \in BuyPc
  BY DEF Typed, BuyTyped, BuyState
<1> QED
  BY <1>1 DEF Typed, TypeOK, CoordTyped, MarketTyped, OwnedTyped, SaleTyped, BuyPc, SalePc

\* What a page shows is a choice among the rows there are.
ViewsTyped == \A p \in OwnedPage : ViewOf(p) \in View

LEMMA ViewTyped == DbTypeOK => ViewsTyped
<1> SUFFICES ASSUME DbTypeOK, NEW p \in OwnedPage  PROVE ViewOf(p) \in View
  BY DEF ViewsTyped
<1>1. \A S : OpenRequests(S) \subseteq RequestId
  BY DEF OpenRequests
<1>2. Selling(p) \subseteq TradeId
  <2>1. trade \in Seq(TradeRow)
    BY DEF DbTypeOK
  <2>2. Len(trade) \in Nat /\ OpenOrders(p) \subseteq 1 .. Len(trade)
    BY <2>1, RowsDomain DEF OpenOrders, OwnOrders, TradeId
  <2>3. ASSUME OpenOrders(p) # {}  PROVE Max(OpenOrders(p)) \in TradeId
    <3>1. Max(OpenOrders(p)) \in OpenOrders(p)
      BY <2>2, <2>3, MaxInSet
    <3> QED  BY <3>1 DEF OpenOrders, OwnOrders
  <2>4. OpenOrders(p) = {} => EstateStatus(p) # "selling"
    BY DEF EstateStatus
  <2> QED  BY <2>3, <2>4 DEF Selling
<1> DEFINE form == p.user \in Holder /\ OpenOrders(p) = {}
           accept == IF EstateStatus(p) = "buying" THEN {}
                     ELSE OpenRequests({t \in OwnOrders(p) : trade[t].seller = p.user})
           cancel == IF EstateStatus(p) # "buying" THEN {}
                     ELSE {r \in OpenRequests(OwnOrders(p)) : request[r].from = p.user}
<1>3. form \in BOOLEAN /\ accept \subseteq RequestId /\ cancel \subseteq RequestId
  BY <1>1
<1>4. ViewOf(p) = [form |-> form, sell |-> Selling(p), accept |-> accept,
                   cancel |-> cancel]
  BY DEF ViewOf
<1> HIDE DEF form, accept, cancel
<1> QED  BY <1>2, <1>3, <1>4 DEF View
-----------------------------------------------------------------------------
(* What the pages keep stays typed as rows are added. *)

LEMMA NothingWritten ==
    ASSUME UNCHANGED dbVars, DbTypeOK
    PROVE  /\ DbTypeOK' /\ RowsKept /\ RequestId' = RequestId
           /\ request' = request /\ drafts' = drafts
  BY DEF dbVars, DbTypeOK, TradeRow, RequestRow, Draft, RowsKept, TradeId, RequestId

LEMMA CoordKept ==
    ASSUME CoordTyped, UNCHANGED <<chainVars, sequence, signedAt>>
    PROVE  CoordTyped'
  BY DEF CoordTyped, ChainTypeOK, chainVars

LEMMA MarketKept ==
    ASSUME RowsKept, MarketTyped, UNCHANGED <<market, answer>>
    PROVE  MarketTyped'
<1>1. SUBSET TradeId \subseteq SUBSET TradeId'
  BY DEF RowsKept
<1>2. /\ market \in [MarketPage -> SUBSET TradeId']
      /\ answer \in [MarketPage -> {<<>>} \cup {<<s>> : s \in SUBSET TradeId'}]
  BY <1>1 DEF MarketTyped
<1> QED  BY <1>2 DEF MarketTyped

LEMMA OwnedKept ==
    ASSUME RowsKept, OwnedTyped
    PROVE  owned \in [OwnedPage -> View']
  BY DEF RowsKept, OwnedTyped, View

LEMMA OwnedSame ==
    ASSUME RowsKept, OwnedTyped, UNCHANGED owned
    PROVE  OwnedTyped'
  BY OwnedKept DEF OwnedTyped

LEMMA OwnedShown ==
    ASSUME RowsKept, OwnedTyped, NEW p \in OwnedPage, NEW v \in View',
           owned' = [owned EXCEPT ![p] = v]
    PROVE  OwnedTyped'
  BY OwnedKept DEF OwnedTyped

LEMMA OwnedViewed ==
    ASSUME RowsKept, OwnedTyped, DbTypeOK', NEW p \in OwnedPage,
           owned' = [owned EXCEPT ![p] = ViewOf(p)']
    PROVE  OwnedTyped'
<1>1. (DbTypeOK => ViewsTyped)'
  BY ViewTyped, PTL
<1>2. ViewOf(p)' \in View'
  BY <1>1 DEF ViewsTyped
<1> QED  BY <1>2, OwnedShown

LEMMA NoViewTyped == NoView \in View'
  BY DEF NoView, View

LEMMA SaleKept ==
    ASSUME RowsKept, SaleTyped, UNCHANGED sale
    PROVE  SaleTyped'
<1>1. sale \in [OwnedPage -> [pc : SalePc, offer : RequestId' \cup {0}, seq : Nat]]
  BY DEF RowsKept, SaleTyped
<1> QED  BY <1>1 DEF RowsKept, SaleTyped

LEMMA SaleSet ==
    ASSUME RowsKept, SaleTyped, NEW p \in OwnedPage, NEW to, SaleGoes(p, to),
           to \in [pc : SalePc, offer : RequestId \cup {0}, seq : Nat],
           to.pc # "idle" => to.offer \in RequestId
    PROVE  SaleTyped'
<1>1. sale \in [OwnedPage -> [pc : SalePc, offer : RequestId' \cup {0}, seq : Nat]]
  BY DEF RowsKept, SaleTyped
<1>2. to \in [pc : SalePc, offer : RequestId' \cup {0}, seq : Nat]
  BY DEF RowsKept
<1>3. sale' = [sale EXCEPT ![p] = to]
  BY DEF SaleGoes
<1> QED  BY <1>1, <1>2, <1>3 DEF RowsKept, SaleTyped

LEMMA ToldKept ==
    ASSUME RowsKept, ToldTyped
    PROVE  told \subseteq [offer : RequestId', success : BOOLEAN]
  BY DEF RowsKept, ToldTyped

LEMMA BuyGrows ==
    ASSUME RowsKept, BuyTyped
    PROVE  /\ buy \in [MarketPage -> [Attempt -> BuyState']]
           /\ \A p \in MarketPage, a \in Attempt :
                buy[p][a].pc # "idle" => buy[p][a].trade \in TradeId'
<1>1. BuyState \subseteq BuyState'
  BY DEF RowsKept, BuyState, Draft
<1> QED  BY <1>1 DEF RowsKept, BuyTyped

LEMMA BuyKept ==
    ASSUME RowsKept, BuyTyped, UNCHANGED buy, drafts \subseteq drafts'
    PROVE  BuyTyped'
  BY BuyGrows DEF BuyTyped, Held

LEMMA BuySet ==
    ASSUME RowsKept, BuyTyped, NEW p \in MarketPage, NEW a \in Attempt,
           NEW to \in BuyState', BuyGoes(p, a, to),
           to.pc # "idle" => to.trade \in TradeId',
           to.pc \in {"sign", "post"} => to.draft \in drafts',
           \A q \in MarketPage, b \in Attempt :
              Held(q, b) /\ <<q, b>> # <<p, a>> => buy[q][b].draft \in drafts'
    PROVE  BuyTyped'
<1>1. buy' = [buy EXCEPT ![p][a] = to]
  BY DEF BuyGoes
<1>2. /\ buy \in [MarketPage -> [Attempt -> BuyState']]
      /\ \A q \in MarketPage, b \in Attempt :
            buy[q][b].pc # "idle" => buy[q][b].trade \in TradeId'
  BY BuyGrows
<1>3. buy' \in [MarketPage -> [Attempt -> BuyState']]
  BY <1>1, <1>2
<1>4. \A q \in MarketPage, b \in Attempt :
        buy'[q][b] = IF <<q, b>> = <<p, a>> THEN to ELSE buy[q][b]
  BY <1>1, <1>2
<1> QED  BY <1>2, <1>3, <1>4 DEF BuyTyped, Held
-----------------------------------------------------------------------------
(* Each transaction is of one offer, from when it is built. *)

RequestsDiffer ==
    \A r, q \in RequestId : request[r].crossTx = request[q].crossTx => r = q

DraftsDiffer ==
    /\ \A d, e \in drafts : d.crossTx = e.crossTx => d = e
    /\ \A d \in drafts, r \in RequestId : d.crossTx # request[r].crossTx

\* No two pages, and no two attempts of one, hold the same transaction.
HeldApart ==
    \A p, q \in MarketPage, a, b \in Attempt :
        /\ Held(p, a) /\ Held(q, b)
        /\ buy[p][a].draft.crossTx = buy[q][b].draft.crossTx
        => p = q /\ a = b

TxOnce ==
    /\ RequestsDiffer
    /\ DraftsDiffer
    /\ HeldApart

\* A transaction gets on the chain as that of a request.
InitiatedPosted ==
    \A x \in Range(initiated) : \E r \in RequestId : request[r].crossTx = x

\* No attempt gets hold of a transaction.
HeldKept ==
    \A p \in MarketPage, a \in Attempt :
        Held(p, a)' => Held(p, a) /\ buy'[p][a].draft = buy[p][a].draft

LEMMA HeldSame ==
    ASSUME UNCHANGED buy
    PROVE  HeldKept
  BY DEF HeldKept, Held

LEMMA HeldSet ==
    ASSUME BuyTyped, NEW p \in MarketPage, NEW a \in Attempt, NEW to,
           BuyGoes(p, a, to),
           to.pc \in {"sign", "post"} => Held(p, a) /\ to.draft = buy[p][a].draft
    PROVE  HeldKept
<1>1. buy' = [buy EXCEPT ![p][a] = to]
  BY DEF BuyGoes
<1>2. buy \in [MarketPage -> [Attempt -> BuyState]]
  BY DEF BuyTyped
<1>3. \A q \in MarketPage, b \in Attempt :
        buy'[q][b] = IF <<q, b>> = <<p, a>> THEN to ELSE buy[q][b]
  BY <1>1, <1>2
<1> QED  BY <1>3 DEF HeldKept, Held

LEMMA HeldApartKept ==
    ASSUME HeldApart, HeldKept
    PROVE  HeldApart'
  BY DEF HeldApart, HeldKept

LEMMA TxOnceKept ==
    ASSUME TxOnce, RowsKept, RequestId' = RequestId, drafts' = drafts, HeldKept
    PROVE  TxOnce'
<1>1. RequestsDiffer'
  BY DEF TxOnce, RequestsDiffer, RowsKept
<1>2. DraftsDiffer'
  BY DEF TxOnce, DraftsDiffer, RowsKept
<1>3. HeldApart'
  BY HeldApartKept DEF TxOnce
<1> QED  BY <1>1, <1>2, <1>3 DEF TxOnce

LEMMA InitiatedKept ==
    ASSUME InitiatedPosted, RowsKept, UNCHANGED initiated
    PROVE  InitiatedPosted'
<1>1. ASSUME NEW x \in Range(initiated)
      PROVE  \E r \in RequestId' : request'[r].crossTx = x
  <2>1. PICK r \in RequestId : request[r].crossTx = x
    BY DEF InitiatedPosted
  <2> QED  BY <2>1 DEF RowsKept
<1>2. Range(initiated)' = Range(initiated)
  BY DEF Range
<1> QED  BY <1>1, <1>2 DEF InitiatedPosted
-----------------------------------------------------------------------------
(* What is shown of a transaction is what the chain says of it. *)

Shown(x, status) ==
    /\ status = "ONGOING" => x \in Range(initiated)
    /\ status = "COMPLETED" => decision[x] = "commit"
    /\ status = "FAILED" => decision[x] = "abort"

\* What was on the chain stays there, and what was decided is not undecided.
ChainKept ==
    /\ Range(initiated) \subseteq Range(initiated)'
    /\ \A x \in Tx : decision[x] # "none" => decision'[x] = decision[x]

LEMMA ChainSame ==
    ASSUME UNCHANGED chainVars
    PROVE  ChainKept
  BY DEF chainVars, ChainKept, Range

LEMMA VerdictsAreShown ==
    VerdictFaithful <=>
        \A r \in RequestId : Shown(request[r].crossTx, request[r].status)
  BY DEF VerdictFaithful, Shown

LEMMA VerdictsKept ==
    ASSUME VerdictFaithful, DbTypeOK, RowsKept, ChainKept,
           \A r \in RequestId' :
              \/ r \in RequestId /\ request'[r].status = request[r].status
              \/ Shown(request[r].crossTx, request[r].status)'
    PROVE  VerdictFaithful'
<1>1. \A r \in RequestId : Shown(request[r].crossTx, request[r].status)
  BY VerdictsAreShown
<1>2. ASSUME NEW r \in RequestId'
      PROVE  Shown(request[r].crossTx, request[r].status)'
  <2>1. CASE r \in RequestId /\ request'[r].status = request[r].status
    <3>1. request'[r].crossTx = request[r].crossTx /\ request[r].crossTx \in Tx
      BY <2>1, RequestTyped DEF RowsKept
    <3> QED  BY <1>1, <2>1, <3>1 DEF Shown, ChainKept
  <2> QED  BY <1>2, <2>1
<1> QED  BY <1>2 DEF VerdictFaithful, Shown

LEMMA ReportsKept ==
    ASSUME ReportsTruth, DbTypeOK, ToldTyped, RowsKept, ChainKept, UNCHANGED told
    PROVE  ReportsTruth'
<1>1. ASSUME NEW m \in told
      PROVE  decision'[request'[m.offer].crossTx] =
                IF m.success THEN "commit" ELSE "abort"
  <2>1. m.offer \in RequestId
    BY DEF ToldTyped
  <2>2. /\ request'[m.offer].crossTx = request[m.offer].crossTx
        /\ request[m.offer].crossTx \in Tx
    BY <2>1, RequestTyped DEF RowsKept
  <2> QED  BY <2>2 DEF ReportsTruth, ChainKept
<1> QED  BY <1>1 DEF ReportsTruth
-----------------------------------------------------------------------------
(* The sequence numbers. *)

\* A buyer's account has gone on since each offer that was sold was signed.
Spent ==
    \A r \in RequestId :
        request[r].crossTx \in Range(initiated) =>
            signedAt[request[r].crossTx] < sequence[request[r].from]

SequencesGrow ==
    /\ sequence' \in [User -> Nat]
    /\ \A u \in User : sequence[u] <= sequence'[u]

LEMMA RangeOfRows ==
    ASSUME NEW S, NEW s \in Seq(S)
    PROVE  /\ Range(s) \subseteq S
           /\ \A i \in DOMAIN s : s[i] \in Range(s)
           /\ \A e \in S : Range(Append(s, e)) = Range(s) \cup {e}
<1>1. \A i \in DOMAIN s : s[i] \in S
  BY RowsDomain
<1>2. \A e \in S : Range(Append(s, e)) = Range(s) \cup {e}
  BY RowInserted DEF Range
<1> QED  BY <1>1, <1>2 DEF Range

\* A step that broadcasts nothing.
LEMMA TurnsKept ==
    ASSUME Spent, BuysInTurn, DbTypeOK, CoordTyped, RowsKept, UNCHANGED initiated,
           SequencesGrow, signedAt' \in [Tx -> Nat],
           \A x \in Range(initiated) : signedAt'[x] = signedAt[x],
           \A r \in RequestId' \ RequestId : request'[r].crossTx \notin Range(initiated)
    PROVE  Spent' /\ BuysInTurn'
<1>1. Range(initiated)' = Range(initiated) /\ DOMAIN initiated' = DOMAIN initiated
  BY DEF Range
<1>2. ASSUME NEW r \in RequestId', request'[r].crossTx \in Range(initiated)
      PROVE  /\ r \in RequestId /\ request[r].crossTx \in Range(initiated)
             /\ request'[r].from = request[r].from /\ request[r].from \in User
             /\ request'[r].crossTx = request[r].crossTx /\ request[r].crossTx \in Tx
  BY <1>2, RequestTyped DEF RowsKept
<1>3. Spent'
  <2> SUFFICES ASSUME NEW r \in RequestId', request'[r].crossTx \in Range(initiated)
               PROVE  signedAt'[request'[r].crossTx] < sequence'[request'[r].from]
    BY <1>1 DEF Spent
  <2> DEFINE x == request[r].crossTx
             u == request[r].from
  <2>1. /\ r \in RequestId /\ x \in Range(initiated) /\ x \in Tx /\ u \in User
        /\ request'[r].crossTx = x /\ request'[r].from = u
    BY <1>2
  <2>2. signedAt[x] < sequence[u] /\ signedAt[x] \in Nat /\ sequence[u] \in Nat
    BY <2>1 DEF Spent, CoordTyped
  <2>3. sequence[u] <= sequence'[u] /\ sequence'[u] \in Nat
    BY <2>1 DEF SequencesGrow
  <2> HIDE DEF x, u
  <2> QED  BY <2>1, <2>2, <2>3
<1>4. BuysInTurn'
  <2> SUFFICES ASSUME NEW i \in DOMAIN initiated, NEW j \in DOMAIN initiated,
                      NEW r \in RequestId', NEW q \in RequestId', i < j,
                      request'[r].crossTx = initiated[i],
                      request'[q].crossTx = initiated[j],
                      request'[r].from = request'[q].from
               PROVE  signedAt'[initiated[i]] < signedAt'[initiated[j]]
    BY <1>1 DEF BuysInTurn
  <2>1. initiated[i] \in Range(initiated) /\ initiated[j] \in Range(initiated)
    BY RangeOfRows DEF CoordTyped, ChainTypeOK
  <2>2. signedAt[initiated[i]] < signedAt[initiated[j]]
    BY <1>2, <2>1 DEF BuysInTurn
  <2> QED  BY <2>1, <2>2
<1> QED  BY <1>3, <1>4
-----------------------------------------------------------------------------
(* The inductive invariant, and the steps that change only what pages show. *)

IInv ==
    /\ Typed
    /\ TxOnce
    /\ InitiatedPosted
    /\ VerdictFaithful
    /\ ReportsTruth
    /\ Spent
    /\ BuysInTurn

LEMMA SequencesSame ==
    ASSUME CoordTyped, UNCHANGED sequence
    PROVE  SequencesGrow
  BY DEF CoordTyped, SequencesGrow

\* Tables, coordinator and reports stay as they are, and nobody gets hold of a
\* transaction.
LEMMA QuietStep ==
    ASSUME IInv, HeldKept, UNCHANGED <<bookVars, sequence, signedAt, told>>
    PROVE  /\ RowsKept /\ DbTypeOK' /\ CoordTyped' /\ ToldTyped'
           /\ RequestId' = RequestId /\ drafts' = drafts
           /\ TxOnce' /\ InitiatedPosted' /\ VerdictFaithful' /\ ReportsTruth'
           /\ Spent' /\ BuysInTurn'
<1> USE DEF IInv, Typed
<1>1. /\ UNCHANGED dbVars /\ UNCHANGED chainVars /\ UNCHANGED initiated
      /\ UNCHANGED sequence /\ UNCHANGED signedAt /\ UNCHANGED told
  BY DEF bookVars, chainVars
<1>2. DbTypeOK' /\ RowsKept /\ RequestId' = RequestId /\ request' = request /\ drafts' = drafts
  BY <1>1, NothingWritten
<1>3. CoordTyped' /\ ChainKept /\ SequencesGrow
  BY <1>1, CoordKept, ChainSame, SequencesSame
<1>4. ToldTyped'
  BY <1>1, <1>2, ToldKept DEF ToldTyped
<1>5. TxOnce' /\ InitiatedPosted'
  BY <1>1, <1>2, TxOnceKept, InitiatedKept
<1>6. VerdictFaithful' /\ ReportsTruth'
  BY <1>1, <1>2, <1>3, VerdictsKept, ReportsKept
<1>7. Spent' /\ BuysInTurn'
  <2>1. signedAt' \in [Tx -> Nat] /\ \A x \in Range(initiated) : signedAt'[x] = signedAt[x]
    BY <1>1 DEF CoordTyped
  <2> QED  BY <1>1, <1>2, <1>3, <2>1, TurnsKept
<1> QED  BY <1>2, <1>3, <1>4, <1>5, <1>6, <1>7

\* The market page asks and is answered.
LEMMA AskMarketHolds ==
    ASSUME IInv, NEW p \in MarketPage, AskMarket(p) \/ ShowMarket(p)
    PROVE  IInv'
<1>1. /\ UNCHANGED <<bookVars, sequence, signedAt, told>>
      /\ UNCHANGED buy /\ UNCHANGED owned /\ UNCHANGED sale
  BY DEF AskMarket, ShowMarket
<1>2. HeldKept
  BY <1>1, HeldSame
<1>3. /\ RowsKept /\ DbTypeOK' /\ CoordTyped' /\ ToldTyped'
      /\ RequestId' = RequestId /\ drafts' = drafts
      /\ TxOnce' /\ InitiatedPosted' /\ VerdictFaithful' /\ ReportsTruth'
      /\ Spent' /\ BuysInTurn'
  BY <1>1, <1>2, QuietStep
<1>4. BuyTyped' /\ OwnedTyped' /\ SaleTyped'
  BY <1>1, <1>3, BuyKept, OwnedSame, SaleKept DEF IInv, Typed
<1>5. MarketTyped'
  <2>1. MarketTyped /\ TradeId' = TradeId
    BY <1>1 DEF IInv, Typed, bookVars, dbVars, TradeId
  <2>2. CASE AskMarket(p)
    <3>1. UnOffered(p) \in SUBSET TradeId
      BY DEF UnOffered
    <3> QED  BY <2>1, <2>2, <3>1 DEF AskMarket, MarketTyped
  <2>3. CASE ShowMarket(p)
    <3>1. PICK s \in SUBSET TradeId : answer[p] = <<s>>
      BY <2>1, <2>3 DEF ShowMarket, MarketTyped
    <3>2. Head(answer[p]) \in SUBSET TradeId
      BY <3>1
    <3> QED  BY <2>1, <2>3, <3>2 DEF ShowMarket, MarketTyped
  <2> QED  BY <2>2, <2>3
<1> QED  BY <1>3, <1>4, <1>5 DEF IInv, Typed

\* An attempt goes on, and gets hold of no transaction.
LEMMA BuyGoesHolds ==
    ASSUME IInv, NEW p \in MarketPage, NEW a \in Attempt, NEW to \in BuyState,
           BuyGoes(p, a, to), to.pc # "idle" => to.trade \in TradeId,
           to.pc \notin {"sign", "post"},
           UNCHANGED <<bookVars, sequence, signedAt, told>>,
           UNCHANGED answer, UNCHANGED owned, UNCHANGED sale,
           market' \in [MarketPage -> SUBSET TradeId]
    PROVE  IInv'
<1>1. HeldKept
  BY HeldSet DEF IInv, Typed
<1>2. /\ RowsKept /\ DbTypeOK' /\ CoordTyped' /\ ToldTyped'
      /\ RequestId' = RequestId /\ drafts' = drafts
      /\ TxOnce' /\ InitiatedPosted' /\ VerdictFaithful' /\ ReportsTruth'
      /\ Spent' /\ BuysInTurn'
  BY <1>1, QuietStep
<1>3. TradeId' = TradeId /\ BuyState' = BuyState
  BY DEF bookVars, dbVars, TradeId, BuyState, Draft
<1>4. \A q \in MarketPage, b \in Attempt : Held(q, b) => buy[q][b].draft \in drafts'
  BY <1>2 DEF IInv, Typed, BuyTyped
<1>5. BuyTyped'
  <2>1. to \in BuyState' /\ (to.pc # "idle" => to.trade \in TradeId')
    BY <1>3
  <2> QED  BY <1>2, <1>4, <2>1, BuySet DEF IInv, Typed
<1>6. MarketTyped' /\ OwnedTyped' /\ SaleTyped'
  BY <1>2, <1>3, OwnedSame, SaleKept DEF IInv, Typed, MarketTyped
<1> QED  BY <1>2, <1>5, <1>6 DEF IInv, Typed

LEMMA NoBuyTyped == NoBuy \in BuyState /\ NoBuy.pc = "idle"
  BY DEF NoBuy, BuyState, BuyPc

LEMMA BuyStateOf ==
    ASSUME BuyTyped, NEW p \in MarketPage, NEW a \in Attempt
    PROVE  /\ buy[p][a] \in BuyState
           /\ \A c \in BuyPc :
                /\ [buy[p][a] EXCEPT !.pc = c] \in BuyState
                /\ [buy[p][a] EXCEPT !.pc = c].pc = c
                /\ [buy[p][a] EXCEPT !.pc = c].trade = buy[p][a].trade
                /\ [buy[p][a] EXCEPT !.pc = c].draft = buy[p][a].draft
<1>1. buy[p][a] \in BuyState
  BY DEF BuyTyped
<1> DEFINE b == buy[p][a]
<1> HIDE DEF b
<1>2. ASSUME b \in BuyState, NEW c \in BuyPc
      PROVE  /\ [b EXCEPT !.pc = c] \in BuyState
             /\ [b EXCEPT !.pc = c].pc = c
             /\ [b EXCEPT !.pc = c].trade = b.trade
             /\ [b EXCEPT !.pc = c].draft = b.draft
  BY <1>2 DEF BuyState
<1> QED  BY <1>1, <1>2 DEF b

LEMMA ConfirmOfferHolds ==
    ASSUME IInv, NEW p \in MarketPage, NEW a \in Attempt, NEW t \in market[p],
           ConfirmOffer(p, a, t)
    PROVE  IInv'
<1> DEFINE to == [NoBuy EXCEPT !.pc = "check", !.trade = t]
<1>1. market \in [MarketPage -> SUBSET TradeId] /\ TradeId \subseteq Nat
  BY RowsDomain DEF IInv, Typed, MarketTyped, DbTypeOK, TradeId
<1>2. /\ to \in BuyState /\ to.pc = "check" /\ to.trade \in TradeId
  BY <1>1 DEF NoBuy, BuyState, BuyPc
<1>3. /\ BuyGoes(p, a, to) /\ UNCHANGED <<bookVars, sequence, signedAt, told>>
      /\ UNCHANGED market /\ UNCHANGED answer /\ UNCHANGED owned /\ UNCHANGED sale
  BY DEF ConfirmOffer
<1> HIDE DEF to
<1> QED  BY <1>1, <1>2, <1>3, BuyGoesHolds

LEMMA CheckOffersHolds ==
    ASSUME IInv, NEW p \in MarketPage, NEW a \in Attempt, CheckOffers(p, a)
    PROVE  IInv'
<1> DEFINE to == IF AnotherOffer(p.user, buy[p][a].trade) THEN NoBuy
                 ELSE [buy[p][a] EXCEPT !.pc = "build"]
<1>1. BuyTyped /\ market \in [MarketPage -> SUBSET TradeId]
  BY DEF IInv, Typed, MarketTyped
<1>2. buy[p][a].trade \in TradeId
  BY <1>1 DEF CheckOffers, Buying, BuyTyped
<1>3. /\ to \in BuyState /\ to.pc \notin {"sign", "post"}
      /\ to.pc # "idle" => to.trade \in TradeId
  <2>1. "build" \in BuyPc
    BY DEF BuyPc
  <2> QED  BY <1>1, <1>2, <2>1, BuyStateOf, NoBuyTyped
<1>4. /\ BuyGoes(p, a, to) /\ UNCHANGED <<bookVars, sequence, signedAt, told>>
      /\ UNCHANGED market /\ UNCHANGED answer /\ UNCHANGED owned /\ UNCHANGED sale
  BY DEF CheckOffers
<1> HIDE DEF to
<1> QED  BY <1>1, <1>3, <1>4, BuyGoesHolds

LEMMA RefreshMarketHolds ==
    ASSUME IInv, NEW p \in MarketPage, NEW a \in Attempt,
           RefreshMarket(p, a) \/ BuyFails(p, a)
    PROVE  IInv'
<1>1. market' \in [MarketPage -> SUBSET TradeId]
  <2>1. market \in [MarketPage -> SUBSET TradeId] /\ UnOffered(p) \in SUBSET TradeId
    BY DEF IInv, Typed, MarketTyped, UnOffered
  <2> QED  BY <2>1 DEF RefreshMarket, BuyFails
<1>2. /\ BuyGoes(p, a, NoBuy) /\ UNCHANGED <<bookVars, sequence, signedAt, told>>
      /\ UNCHANGED answer /\ UNCHANGED owned /\ UNCHANGED sale
  BY DEF RefreshMarket, BuyFails
<1> QED  BY <1>1, <1>2, NoBuyTyped, BuyGoesHolds
-----------------------------------------------------------------------------
(* A transaction is built, signed and posted. *)

LEMMA DraftsTyped ==
    ASSUME DbTypeOK, NEW d \in drafts
    PROVE  d \in Draft /\ d.crossTx \in Tx /\ d.tradeId \in TradeId /\ d.from \in User
  BY DEF DbTypeOK, Draft

LEMMA PageUser ==
    /\ \A p \in MarketPage : p.user \in User
    /\ \A p \in OwnedPage : p.user \in User
  BY PageAssumption

LEMMA BuildTxHolds ==
    ASSUME IInv, NEW p \in MarketPage, NEW a \in Attempt, NEW x \in Tx \ UsedTx,
           BuildTx(p, a, x)
    PROVE  IInv'
<1> USE DEF IInv, Typed
<1> DEFINE t == buy[p][a].trade
           d == [tradeId |-> t, from |-> p.user, crossTx |-> x]
           to == [pc |-> "sign", trade |-> t, draft |-> d]
<1>1. /\ UNCHANGED chainVars /\ UNCHANGED initiated /\ UNCHANGED sequence
      /\ UNCHANGED signedAt /\ UNCHANGED told /\ UNCHANGED <<market, answer>>
      /\ UNCHANGED owned /\ UNCHANGED sale
      /\ BuyGoes(p, a, to) /\ GetTxTradeRequest(t, p.user, x)
  BY DEF BuildTx, chainVars
<1>2. t \in TradeId /\ t \in Nat
  <2>1. buy[p][a].pc = "build"
    BY DEF BuildTx, Buying
  <2> QED  BY <2>1, BuyStateOf DEF BuyTyped, BuyState
<1>3. /\ DbTypeOK' /\ RowsKept /\ trade' = trade /\ request' = request
      /\ d \in Draft /\ drafts' = drafts \cup {d}
  <2>1. p.user \in User
    BY PageUser
  <2>2. drafts' = drafts \cup {d}
    BY <1>1 DEF GetTxTradeRequest
  <2> HIDE DEF t
  <2> QED  BY <1>1, <1>2, <2>1, <2>2, GetTxEffect
<1>4. RequestId' = RequestId /\ TradeId' = TradeId /\ Draft' = Draft
  BY <1>3 DEF RequestId, TradeId, Draft
<1>5. d.crossTx = x /\ to.pc = "sign" /\ to.trade = t /\ to.draft = d
  OBVIOUS
<1>6. to \in BuyState'
  BY <1>2, <1>3, <1>4 DEF BuyState, BuyPc
<1>7. /\ \A e \in drafts : e.crossTx # x
      /\ \A r \in RequestId : request[r].crossTx # x
  BY DEF UsedTx
<1> HIDE DEF d, to
<1>8. BuyTyped'
  <2>1. \A q \in MarketPage, b \in Attempt : Held(q, b) => buy[q][b].draft \in drafts'
    BY <1>3 DEF BuyTyped
  <2> QED  BY <1>1, <1>2, <1>3, <1>4, <1>5, <1>6, <2>1, BuySet
<1>9. TxOnce'
  <2>1. RequestsDiffer'
    BY <1>3, <1>4 DEF TxOnce, RequestsDiffer
  <2>2. DraftsDiffer'
    BY <1>3, <1>4, <1>5, <1>7 DEF TxOnce, DraftsDiffer
  <2>3. \A q \in MarketPage, b \in Attempt :
            buy'[q][b] = IF <<q, b>> = <<p, a>> THEN to ELSE buy[q][b]
    <3>1. buy' = [buy EXCEPT ![p][a] = to] /\ buy \in [MarketPage -> [Attempt -> BuyState]]
      BY <1>1 DEF BuyGoes, BuyTyped
    <3> QED  BY <3>1
  <2>4. \A q \in MarketPage, b \in Attempt : Held(q, b) => buy[q][b].draft.crossTx # x
    BY <1>7 DEF BuyTyped
  <2>5. HeldApart'
    BY <1>5, <2>3, <2>4 DEF TxOnce, HeldApart, Held
  <2> QED  BY <2>1, <2>2, <2>5 DEF TxOnce
<1>10. CoordTyped' /\ ChainKept /\ SequencesGrow
  BY <1>1, CoordKept, ChainSame, SequencesSame
<1>11. MarketTyped' /\ OwnedTyped' /\ SaleTyped' /\ ToldTyped'
  BY <1>1, <1>3, MarketKept, OwnedSame, SaleKept, ToldKept DEF ToldTyped
<1>12. InitiatedPosted' /\ VerdictFaithful' /\ ReportsTruth'
  BY <1>1, <1>3, <1>4, <1>10, InitiatedKept, VerdictsKept, ReportsKept
<1>13. Spent' /\ BuysInTurn'
  <2>1. signedAt' \in [Tx -> Nat] /\ \A y \in Range(initiated) : signedAt'[y] = signedAt[y]
    BY <1>1 DEF CoordTyped
  <2> QED  BY <1>1, <1>3, <1>4, <1>10, <2>1, TurnsKept
<1> QED  BY <1>3, <1>8, <1>9, <1>10, <1>11, <1>12, <1>13

LEMMA SignOfferHolds ==
    ASSUME IInv, NEW p \in MarketPage, NEW a \in Attempt, SignOffer(p, a)
    PROVE  IInv'
<1> USE DEF IInv, Typed
<1> DEFINE to == [buy[p][a] EXCEPT !.pc = "post"]
           y == buy[p][a].draft.crossTx
<1>1. /\ UNCHANGED dbVars /\ UNCHANGED chainVars /\ UNCHANGED initiated
      /\ UNCHANGED sequence /\ UNCHANGED told /\ UNCHANGED <<market, answer>>
      /\ UNCHANGED owned /\ UNCHANGED sale
      /\ BuyGoes(p, a, to)
      /\ signedAt' = [signedAt EXCEPT ![y] = sequence[p.user]]
  BY DEF SignOffer, bookVars, chainVars
<1>2. DbTypeOK' /\ RowsKept /\ RequestId' = RequestId /\ request' = request /\ drafts' = drafts
  BY <1>1, NothingWritten
<1>3. Held(p, a) /\ buy[p][a].draft \in drafts /\ buy[p][a].trade \in TradeId
  BY DEF SignOffer, Buying, Held, BuyTyped
<1>4. TradeId' = TradeId /\ BuyState' = BuyState
  BY <1>1 DEF dbVars, TradeId, BuyState, Draft
<1>5. /\ to \in BuyState' /\ to.pc = "post"
      /\ to.trade \in TradeId' /\ to.draft = buy[p][a].draft
  <2>1. "post" \in BuyPc
    BY DEF BuyPc
  <2> QED  BY <1>3, <1>4, <2>1, BuyStateOf
<1> HIDE DEF to
<1>6. HeldKept
  BY <1>1, <1>3, <1>5, HeldSet
<1>7. BuyTyped'
  <2>1. \A q \in MarketPage, b \in Attempt : Held(q, b) => buy[q][b].draft \in drafts'
    BY <1>2 DEF BuyTyped
  <2> QED  BY <1>1, <1>2, <1>3, <1>5, <2>1, BuySet
<1>8. y \in Tx /\ y \notin Range(initiated)
  <2>1. y \in Tx /\ \A r \in RequestId : request[r].crossTx # y
    BY <1>3, DraftsTyped DEF TxOnce, DraftsDiffer
  <2> QED  BY <2>1 DEF InitiatedPosted
<1> HIDE DEF y
<1>9. /\ signedAt' \in [Tx -> Nat]
      /\ \A x \in Range(initiated) : signedAt'[x] = signedAt[x]
  <2>1. sequence[p.user] \in Nat /\ signedAt \in [Tx -> Nat]
    BY PageUser DEF CoordTyped
  <2>2. Range(initiated) \subseteq Tx
    BY RangeOfRows DEF CoordTyped, ChainTypeOK
  <2> QED  BY <1>1, <1>8, <2>1, <2>2
<1>10. CoordTyped' /\ ChainKept /\ SequencesGrow
  BY <1>1, <1>9, ChainSame, SequencesSame DEF CoordTyped, ChainTypeOK, chainVars
<1>11. MarketTyped' /\ OwnedTyped' /\ SaleTyped' /\ ToldTyped'
  BY <1>1, <1>2, MarketKept, OwnedSame, SaleKept, ToldKept DEF ToldTyped
<1>12. TxOnce' /\ InitiatedPosted' /\ VerdictFaithful' /\ ReportsTruth'
  BY <1>1, <1>2, <1>6, <1>10, TxOnceKept, InitiatedKept, VerdictsKept, ReportsKept
<1>13. Spent' /\ BuysInTurn'
  BY <1>1, <1>2, <1>9, <1>10, TurnsKept
<1> QED  BY <1>2, <1>7, <1>10, <1>11, <1>12, <1>13

LEMMA PostOfferHolds ==
    ASSUME IInv, NEW p \in MarketPage, NEW a \in Attempt, PostOffer(p, a)
    PROVE  IInv'
<1> USE DEF IInv, Typed
<1> DEFINE to == [buy[p][a] EXCEPT !.pc = "refresh"]
           d == buy[p][a].draft
           new == Len(request) + 1
<1>1. /\ UNCHANGED chainVars /\ UNCHANGED initiated /\ UNCHANGED sequence
      /\ UNCHANGED signedAt /\ UNCHANGED told /\ UNCHANGED <<market, answer>>
      /\ UNCHANGED owned /\ UNCHANGED sale
      /\ BuyGoes(p, a, to) /\ PostTradeRequest(d)
  BY DEF PostOffer, chainVars
<1>2. Held(p, a) /\ d \in drafts /\ buy[p][a].trade \in TradeId
  BY DEF PostOffer, Buying, Held, BuyTyped
<1>3. to \in BuyState /\ to.pc = "refresh" /\ to.trade = buy[p][a].trade
  <2>1. "refresh" \in BuyPc
    BY DEF BuyPc
  <2> QED  BY <2>1, BuyStateOf
<1>4. \A q \in MarketPage, b \in Attempt :
        /\ Held(q, b) => buy[q][b].draft \in drafts
        /\ Held(q, b) /\ <<q, b>> # <<p, a>> => buy[q][b].draft # d
  BY <1>2 DEF BuyTyped, TxOnce, HeldApart
<1> HIDE DEF d, to
<1>5. /\ DbTypeOK' /\ RowsKept /\ trade' = trade /\ drafts' = drafts \ {d}
      /\ \A r \in RequestId : request'[r].status = request[r].status
      /\ RequestId' = RequestId \cup {new} /\ new \notin RequestId
      /\ request'[new].crossTx = d.crossTx
      /\ request'[new].status = "OPENED"
  BY <1>1, <1>2, PostTradeRequestEffect
<1> HIDE DEF new
<1>6. TradeId' = TradeId /\ BuyState' = BuyState
  BY <1>5 DEF TradeId, BuyState, Draft
<1>7. BuyTyped'
  <2>1. \A q \in MarketPage, b \in Attempt :
            Held(q, b) /\ <<q, b>> # <<p, a>> => buy[q][b].draft \in drafts'
    BY <1>4, <1>5
  <2>2. to \in BuyState' /\ to.trade \in TradeId'
    BY <1>2, <1>3, <1>6
  <2> QED  BY <1>1, <1>3, <1>5, <2>1, <2>2, BuySet
<1>8. d.crossTx \notin Range(initiated) /\ \A r \in RequestId : request[r].crossTx # d.crossTx
  BY <1>2 DEF TxOnce, DraftsDiffer, InitiatedPosted
<1>9. TxOnce'
  <2>1. \A r \in RequestId : request'[r].crossTx = request[r].crossTx
    BY <1>5 DEF RowsKept
  <2>2. RequestsDiffer'
    BY <1>5, <1>8, <2>1 DEF TxOnce, RequestsDiffer
  <2>3. DraftsDiffer'
    BY <1>2, <1>5, <2>1 DEF TxOnce, DraftsDiffer
  <2>4. HeldKept
    BY <1>1, <1>3, HeldSet
  <2>5. HeldApart'
    BY <2>4, HeldApartKept DEF TxOnce
  <2> QED  BY <2>2, <2>3, <2>5 DEF TxOnce
<1>10. CoordTyped' /\ ChainKept /\ SequencesGrow
  BY <1>1, CoordKept, ChainSame, SequencesSame
<1>11. MarketTyped' /\ OwnedTyped' /\ SaleTyped' /\ ToldTyped'
  BY <1>1, <1>5, MarketKept, OwnedSame, SaleKept, ToldKept DEF ToldTyped
<1>12. InitiatedPosted' /\ VerdictFaithful' /\ ReportsTruth'
  <2>1. \A r \in RequestId' \ RequestId : Shown(request[r].crossTx, request[r].status)'
    BY <1>5 DEF Shown
  <2> QED  BY <1>1, <1>5, <1>10, <2>1, InitiatedKept, VerdictsKept, ReportsKept
<1>13. Spent' /\ BuysInTurn'
  <2>1. signedAt' \in [Tx -> Nat] /\ \A y \in Range(initiated) : signedAt'[y] = signedAt[y]
    BY <1>1 DEF CoordTyped
  <2>2. \A r \in RequestId' \ RequestId : request'[r].crossTx \notin Range(initiated)
    BY <1>5, <1>8
  <2> QED  BY <1>1, <1>5, <1>10, <2>1, <2>2, TurnsKept
<1> QED  BY <1>5, <1>7, <1>9, <1>10, <1>11, <1>12, <1>13
-----------------------------------------------------------------------------
(* The steps that change the status of rows, or add a trade. *)

LEMMA StatusStep ==
    ASSUME IInv, DbTypeOK', RowsKept, RequestId' = RequestId, drafts' = drafts,
           \A r \in RequestId :
              \/ request'[r].status = request[r].status
              \/ Shown(request[r].crossTx, request[r].status)',
           UNCHANGED chainVars, UNCHANGED <<sequence, signedAt>>, UNCHANGED told,
           UNCHANGED <<market, answer>>, UNCHANGED buy, UNCHANGED sale, OwnedTyped'
    PROVE  IInv'
<1> USE DEF IInv, Typed
<1>1. /\ UNCHANGED initiated /\ UNCHANGED sequence /\ UNCHANGED signedAt
  BY DEF chainVars
<1>2. CoordTyped' /\ ChainKept /\ SequencesGrow /\ HeldKept
  BY <1>1, CoordKept, ChainSame, SequencesSame, HeldSame
<1>3. MarketTyped' /\ BuyTyped' /\ SaleTyped' /\ ToldTyped'
  BY MarketKept, BuyKept, SaleKept, ToldKept DEF ToldTyped
<1>4. TxOnce' /\ InitiatedPosted' /\ VerdictFaithful' /\ ReportsTruth'
  BY <1>1, <1>2, TxOnceKept, InitiatedKept, VerdictsKept, ReportsKept
<1>5. Spent' /\ BuysInTurn'
  <2>1. signedAt' \in [Tx -> Nat] /\ \A x \in Range(initiated) : signedAt'[x] = signedAt[x]
    BY <1>1 DEF CoordTyped
  <2> QED  BY <1>1, <1>2, <2>1, TurnsKept
<1> QED  BY <1>2, <1>3, <1>4, <1>5

LEMMA SellSharesHolds ==
    ASSUME IInv, NEW p \in OwnedPage, SellShares(p)
    PROVE  IInv'
<1>1. /\ PostTrade(p.estate, p.user) /\ owned' = [owned EXCEPT ![p] = ViewOf(p)']
      /\ UNCHANGED chainVars /\ UNCHANGED <<sequence, signedAt>> /\ UNCHANGED told
      /\ UNCHANGED <<market, answer>> /\ UNCHANGED buy /\ UNCHANGED sale
  BY DEF SellShares
<1>2. DbTypeOK' /\ RowsKept /\ request' = request /\ drafts' = drafts
  <2>1. p.user \in User /\ p.estate \in Estate
    BY PageAssumption
  <2> QED  BY <1>1, <2>1, PostTradeEffect DEF IInv, Typed
<1>3. OwnedTyped'
  BY <1>1, <1>2, OwnedViewed DEF IInv, Typed
<1>4. RequestId' = RequestId /\ \A r \in RequestId : request'[r].status = request[r].status
  BY <1>2 DEF RequestId
<1> QED  BY <1>1, <1>2, <1>3, <1>4, StatusStep

LEMMA CancelSellOrderHolds ==
    ASSUME IInv, NEW p \in OwnedPage, NEW t \in owned[p].sell, CancelSellOrder(p, t)
    PROVE  IInv'
<1>1. /\ DeleteTrade(t) /\ owned' = [owned EXCEPT ![p] = ViewOf(p)']
      /\ UNCHANGED chainVars /\ UNCHANGED <<sequence, signedAt>> /\ UNCHANGED told
      /\ UNCHANGED <<market, answer>> /\ UNCHANGED buy /\ UNCHANGED sale
  BY DEF CancelSellOrder
<1>2. DbTypeOK' /\ RowsKept /\ request' = request /\ drafts' = drafts
  <2>1. t \in TradeId
    BY DEF IInv, Typed, OwnedTyped, View
  <2> QED  BY <1>1, <2>1, DeleteTradeEffect DEF IInv, Typed
<1>3. OwnedTyped'
  BY <1>1, <1>2, OwnedViewed DEF IInv, Typed
<1>4. RequestId' = RequestId /\ \A r \in RequestId : request'[r].status = request[r].status
  BY <1>2 DEF RequestId
<1> QED  BY <1>1, <1>2, <1>3, <1>4, StatusStep

LEMMA CancelBuyOfferHolds ==
    ASSUME IInv, NEW p \in OwnedPage, NEW r \in owned[p].cancel, CancelBuyOffer(p, r)
    PROVE  IInv'
<1>1. /\ DeleteTradeRequest(r) /\ owned' = [owned EXCEPT ![p] = NoView]
      /\ UNCHANGED chainVars /\ UNCHANGED <<sequence, signedAt>> /\ UNCHANGED told
      /\ UNCHANGED <<market, answer>> /\ UNCHANGED buy /\ UNCHANGED sale
  BY DEF CancelBuyOffer, Leave
<1>2. r \in RequestId
  BY DEF IInv, Typed, OwnedTyped, View
<1>3. DbTypeOK' /\ RowsKept /\ StatusOnly(r, "CANCELED") /\ drafts' = drafts
  BY <1>1, <1>2, DeleteTradeRequestEffect DEF IInv, Typed
<1>4. OwnedTyped'
  BY <1>1, <1>3, NoViewTyped, OwnedShown DEF IInv, Typed
<1>5. /\ RequestId' = RequestId
      /\ \A q \in RequestId :
            \/ request'[q].status = request[q].status
            \/ Shown(request[q].crossTx, request[q].status)'
  BY <1>3 DEF StatusOnly, Shown
<1> QED  BY <1>1, <1>3, <1>4, <1>5, StatusStep

LEMMA RecordHolds ==
    ASSUME IInv, RecordStep /\ PagesWatch
    PROVE  IInv'
<1>1. PICK r \in RequestId : RecordVerdict(r) \/ RecordOngoing(r)
  BY DEF RecordStep
<1>2. /\ UNCHANGED chainVars /\ UNCHANGED <<sequence, signedAt>> /\ UNCHANGED told
      /\ UNCHANGED <<market, answer>> /\ UNCHANGED buy /\ UNCHANGED sale
      /\ UNCHANGED owned
  BY <1>1 DEF RecordVerdict, RecordOngoing, PagesWatch, pageVars
<1> DEFINE x == request[r].crossTx
<1>3. x \in Tx /\ decision[x] \in {"none", "commit", "abort"}
  BY RequestTyped DEF IInv, Typed, CoordTyped, ChainTypeOK
<1>4. PICK st \in RequestStatus : st # "OPENED" /\ Record(r, st) /\ Shown(x, st)
  <2>1. CASE RecordVerdict(r)
    <3>1. Record(r, CoordinatorStatus(x)) /\ decision[x] # "none"
      BY <2>1 DEF RecordVerdict
    <3>2. /\ CoordinatorStatus(x) \in RequestStatus \ {"OPENED"}
          /\ Shown(x, CoordinatorStatus(x))
      BY <1>3, <3>1 DEF CoordinatorStatus, RequestStatus, Shown
    <3> QED  BY <3>1, <3>2
  <2>2. CASE RecordOngoing(r)
    <3>1. Record(r, "ONGOING") /\ x \in Range(initiated)
      BY <2>2 DEF RecordOngoing
    <3>2. "ONGOING" \in RequestStatus /\ Shown(x, "ONGOING")
      BY <3>1 DEF RequestStatus, Shown
    <3> QED  BY <3>1, <3>2
  <2> QED  BY <1>1, <2>1, <2>2
<1>5. DbTypeOK' /\ RowsKept /\ StatusOnly(r, st) /\ drafts' = drafts
  BY <1>4, RecordEffect DEF IInv, Typed
<1>6. ASSUME NEW q \in RequestId
      PROVE  \/ request'[q].status = request[q].status
             \/ Shown(request[q].crossTx, request[q].status)'
  <2>1. CASE q = r
    <3>1. request'[r].status = st /\ request'[r].crossTx = x
      BY <1>5 DEF StatusOnly, RowsKept
    <3>2. UNCHANGED <<initiated, decision>>
      BY <1>2 DEF chainVars
    <3> HIDE DEF x
    <3> QED  BY <1>4, <2>1, <3>1, <3>2 DEF Shown, Range
  <2> QED  BY <1>5, <2>1 DEF StatusOnly
<1>7. RequestId' = RequestId /\ OwnedTyped'
  BY <1>2, <1>5, OwnedSame DEF StatusOnly, IInv, Typed
<1> QED  BY <1>2, <1>5, <1>6, <1>7, StatusStep
-----------------------------------------------------------------------------
(* An owned page looks, or goes on with an accepted offer that it has not *)
(* broadcast yet.                                                         *)

\* The page changes what it shows or holds; the tables and the chain do not.
LEMMA OwnedStepHolds ==
    ASSUME IInv, UNCHANGED <<bookVars, sequence, signedAt, told>>, UNCHANGED buy,
           UNCHANGED <<market, answer>>, OwnedTyped', SaleTyped'
    PROVE  IInv'
<1>1. HeldKept
  BY HeldSame
<1>2. /\ RowsKept /\ DbTypeOK' /\ CoordTyped' /\ ToldTyped'
      /\ RequestId' = RequestId /\ drafts' = drafts
      /\ TxOnce' /\ InitiatedPosted' /\ VerdictFaithful' /\ ReportsTruth'
      /\ Spent' /\ BuysInTurn'
  BY <1>1, QuietStep
<1>3. MarketTyped' /\ BuyTyped'
  BY <1>2, MarketKept, BuyKept DEF IInv, Typed
<1> QED  BY <1>2, <1>3 DEF IInv, Typed

\* What does not change the tables leaves the rows.
LEMMA BookSame ==
    ASSUME IInv, UNCHANGED bookVars
    PROVE  /\ RowsKept /\ DbTypeOK' /\ RequestId' = RequestId
           /\ UNCHANGED dbVars /\ UNCHANGED chainVars
<1>1. UNCHANGED dbVars /\ UNCHANGED chainVars
  BY DEF bookVars
<1> QED  BY <1>1, NothingWritten DEF IInv, Typed

LEMMA OwnedRefreshed ==
    ASSUME IInv, UNCHANGED bookVars, NEW p \in OwnedPage,
           owned' = [owned EXCEPT ![p] = ViewOf(p)]
    PROVE  OwnedTyped'
<1>1. RowsKept /\ TradeId' = TradeId /\ RequestId' = RequestId
  BY BookSame DEF bookVars, dbVars, TradeId
<1>2. ViewOf(p) \in View'
  BY <1>1, ViewTyped DEF IInv, Typed, ViewsTyped, View
<1> QED  BY <1>1, <1>2, OwnedShown DEF IInv, Typed

LEMMA NoSaleTyped ==
    NoSale \in [pc : SalePc, offer : RequestId \cup {0}, seq : Nat] /\ NoSale.pc = "idle"
  BY DEF NoSale, SalePc

LEMMA PollOwnedHolds ==
    ASSUME IInv, NEW p \in OwnedPage, PollOwned(p) \/ Reload(p)
    PROVE  IInv'
<1>1. /\ UNCHANGED bookVars /\ UNCHANGED <<bookVars, sequence, signedAt, told>>
      /\ UNCHANGED buy /\ UNCHANGED <<market, answer>>
  BY DEF PollOwned, Reload
<1>2. RowsKept
  BY <1>1, BookSame
<1>3. OwnedTyped' /\ SaleTyped'
  <2>1. CASE PollOwned(p)
    BY <1>1, <1>2, <2>1, OwnedRefreshed, SaleKept DEF PollOwned, IInv, Typed
  <2>2. CASE Reload(p)
    <3>1. owned' = [owned EXCEPT ![p] = NoView] /\ SaleGoes(p, NoSale)
      BY <2>2 DEF Reload, Leave
    <3> QED  BY <1>2, <3>1, NoViewTyped, OwnedShown, NoSaleTyped, SaleSet DEF IInv, Typed
  <2> QED  BY <2>1, <2>2
<1> QED  BY <1>1, <1>3, OwnedStepHolds

LEMMA AcceptOfferHolds ==
    ASSUME IInv, NEW p \in OwnedPage, NEW r \in owned[p].accept, AcceptOffer(p, r)
    PROVE  IInv'
<1> DEFINE to == [pc |-> "sign", offer |-> r, seq |-> 0]
<1>1. /\ UNCHANGED bookVars /\ UNCHANGED <<bookVars, sequence, signedAt, told>>
      /\ UNCHANGED buy /\ UNCHANGED <<market, answer>> /\ UNCHANGED owned
      /\ SaleGoes(p, to)
  BY DEF AcceptOffer
<1>2. RowsKept
  BY <1>1, BookSame
<1>3. r \in RequestId
  BY DEF IInv, Typed, OwnedTyped, View
<1>4. /\ to \in [pc : SalePc, offer : RequestId \cup {0}, seq : Nat]
      /\ to.offer \in RequestId
  BY <1>3 DEF SalePc
<1> HIDE DEF to
<1>5. OwnedTyped' /\ SaleTyped'
  BY <1>1, <1>2, <1>4, OwnedSame, SaleSet DEF IInv, Typed
<1> QED  BY <1>1, <1>5, OwnedStepHolds

LEMMA SaleStateOf ==
    ASSUME SaleTyped, NEW p \in OwnedPage, sale[p].pc # "idle",
           NEW c \in SalePc, NEW n \in Nat
    PROVE  LET new == [sale[p] EXCEPT !.pc = c, !.seq = n]
               next == [sale[p] EXCEPT !.pc = c]
               typed == [pc : SalePc, offer : RequestId \cup {0}, seq : Nat]
           IN  /\ sale[p].offer \in RequestId
               /\ new \in typed /\ new.offer \in RequestId
               /\ next \in typed /\ next.offer \in RequestId
  BY DEF SaleTyped

LEMMA SignSaleHolds ==
    ASSUME IInv, NEW p \in OwnedPage, SignSale(p)
    PROVE  IInv'
<1> DEFINE n == sequence[p.user]
           to == [sale[p] EXCEPT !.pc = "send", !.seq = n]
<1>1. /\ UNCHANGED bookVars /\ UNCHANGED <<bookVars, sequence, signedAt, told>>
      /\ UNCHANGED buy /\ UNCHANGED <<market, answer>> /\ UNCHANGED owned
      /\ SaleGoes(p, to) /\ sale[p].pc # "idle"
  BY DEF SignSale
<1>2. RowsKept
  BY <1>1, BookSame
<1>3. n \in Nat /\ "send" \in SalePc
  BY PageUser DEF IInv, Typed, CoordTyped, SalePc
<1> HIDE DEF n
<1>4. /\ to \in [pc : SalePc, offer : RequestId \cup {0}, seq : Nat]
      /\ to.offer \in RequestId
  BY <1>1, <1>3, SaleStateOf DEF IInv, Typed
<1> HIDE DEF to
<1>5. OwnedTyped' /\ SaleTyped'
  BY <1>1, <1>2, <1>4, OwnedSame, SaleSet DEF IInv, Typed
<1> QED  BY <1>1, <1>5, OwnedStepHolds
-----------------------------------------------------------------------------
(* A sale is broadcast. *)

LEMMA BothSequencesGrow ==
    ASSUME IInv, NEW p \in OwnedPage, sale[p].offer \in RequestId, BothAdvance(p)
    PROVE  /\ SequencesGrow
           /\ LET u == request[sale[p].offer].from
              IN  u \in User /\ sequence[u] < sequence'[u]
<1> DEFINE u == request[sale[p].offer].from
           s == p.user
           one == [sequence EXCEPT ![s] = @ + 1]
<1>1. u \in User /\ s \in User /\ sequence \in [User -> Nat]
  BY RequestTyped, PageUser DEF IInv, Typed, CoordTyped
<1>2. sequence' = [one EXCEPT ![u] = @ + 1]
  BY DEF BothAdvance
<1> HIDE DEF u, s
<1>3. one \in [User -> Nat] /\ \A v \in User : sequence[v] <= one[v]
  BY <1>1
<1> HIDE DEF one
<1>4. /\ sequence' \in [User -> Nat] /\ sequence'[u] = one[u] + 1
      /\ \A v \in User : one[v] <= sequence'[v]
  BY <1>1, <1>2, <1>3
<1>5. \A v \in User : sequence[v] <= sequence'[v]
  BY <1>1, <1>3, <1>4
<1>6. sequence[u] < sequence'[u]
  BY <1>1, <1>3, <1>4
<1> QED  BY <1>1, <1>4, <1>5, <1>6 DEF SequencesGrow, u

\* The transaction that comes last was signed with the sequence number that the
\* buyer has now, and those before it with smaller ones.
LEMMA TurnsTaken ==
    ASSUME IInv, NEW r \in RequestId, Broadcast(r), UNCHANGED signedAt, SequencesGrow,
           signedAt[request[r].crossTx] = sequence[request[r].from],
           sequence[request[r].from] < sequence'[request[r].from]
    PROVE  Spent' /\ BuysInTurn'
<1> DEFINE x == request[r].crossTx
           u == request[r].from
<1>1. /\ initiated \in Seq(Tx) /\ x \in Tx /\ u \in User /\ x \notin Range(initiated)
      /\ initiated' = Append(initiated, x)
      /\ UNCHANGED request /\ RequestId' = RequestId
      /\ signedAt \in [Tx -> Nat] /\ sequence \in [User -> Nat]
      /\ sequence' \in [User -> Nat]
  BY RequestTyped DEF IInv, Typed, CoordTyped, ChainTypeOK, Broadcast, dbVars, RequestId,
     SequencesGrow
<1>2. \A q \in RequestId : request[q].crossTx = x => q = r
  BY DEF IInv, TxOnce, RequestsDiffer
<1>3. /\ Range(initiated)' = Range(initiated) \cup {x}
      /\ DOMAIN initiated' = DOMAIN initiated \cup {Len(initiated) + 1}
      /\ initiated'[Len(initiated) + 1] = x
      /\ \A i \in DOMAIN initiated : initiated'[i] = initiated[i]
      /\ \A i \in DOMAIN initiated : initiated[i] \in Range(initiated)
      /\ DOMAIN initiated = 1 .. Len(initiated) /\ Len(initiated) \in Nat
  BY <1>1, RangeOfRows, RowInserted, RowsDomain
<1>4. \A q \in RequestId : /\ request[q].crossTx \in Tx /\ request[q].from \in User
  BY RequestTyped DEF IInv, Typed
<1>5. Spent'
  <2> SUFFICES ASSUME NEW q \in RequestId, request[q].crossTx \in Range(initiated) \cup {x}
               PROVE  signedAt[request[q].crossTx] < sequence'[request[q].from]
    BY <1>1, <1>3 DEF Spent
  <2>1. CASE q = r
    BY <1>1, <2>1
  <2>2. CASE q # r
    <3>1. request[q].crossTx \in Range(initiated)
      BY <1>2, <2>2
    <3>2. signedAt[request[q].crossTx] < sequence[request[q].from]
      BY <3>1 DEF IInv, Spent
    <3>3. sequence[request[q].from] <= sequence'[request[q].from]
      BY <1>4 DEF SequencesGrow
    <3> QED  BY <1>1, <1>4, <3>2, <3>3
  <2> QED  BY <2>1, <2>2
<1>6. BuysInTurn'
  <2> SUFFICES ASSUME NEW i \in DOMAIN initiated', NEW j \in DOMAIN initiated',
                      NEW q \in RequestId, NEW k \in RequestId, i < j,
                      request[q].crossTx = initiated'[i],
                      request[k].crossTx = initiated'[j],
                      request[q].from = request[k].from
               PROVE  signedAt[initiated'[i]] < signedAt[initiated'[j]]
    <3>1. request' = request /\ RequestId' = RequestId /\ signedAt' = signedAt
      BY <1>1
    <3> QED  BY <3>1 DEF BuysInTurn
  <2>1. i \in DOMAIN initiated
    <3>1. i \in 1 .. Len(initiated) + 1 /\ j \in 1 .. Len(initiated) + 1
      BY <1>3
    <3> QED  BY <1>3, <3>1
  <2>2. CASE j \in DOMAIN initiated
    BY <1>3, <2>1, <2>2 DEF IInv, BuysInTurn
  <2>3. CASE j \notin DOMAIN initiated
    <3>1. initiated'[j] = x /\ k = r
      BY <1>2, <1>3, <2>3
    <3>2. request[q].crossTx \in Range(initiated) /\ request[q].from = u
      BY <1>3, <2>1, <3>1
    <3>3. signedAt[request[q].crossTx] < sequence[u]
      BY <3>2 DEF IInv, Spent
    <3> QED  BY <3>1, <3>3
  <2> QED  BY <2>2, <2>3
<1> QED  BY <1>5, <1>6

\* The transaction is in a block, whether or not the page learns of it.
LEMMA BroadcastHolds ==
    ASSUME IInv, NEW p \in OwnedPage, sale[p].pc = "send", Signed(p),
           BothAdvance(p), Broadcast(sale[p].offer), NEW c \in SalePc,
           SaleGoes(p, [sale[p] EXCEPT !.pc = c]),
           UNCHANGED <<signedAt, market, buy, owned, answer, told>>
    PROVE  IInv'
<1> USE DEF IInv, Typed
<1> DEFINE r == sale[p].offer
           x == request[r].crossTx
           to == [sale[p] EXCEPT !.pc = c]
<1>1. r \in RequestId
  BY DEF SaleTyped
<1>2. /\ UNCHANGED signedAt /\ UNCHANGED told /\ UNCHANGED <<market, answer>>
      /\ UNCHANGED buy /\ UNCHANGED owned /\ UNCHANGED dbVars /\ UNCHANGED decision
      /\ initiated' = Append(initiated, x) /\ x \in Tx /\ initiated \in Seq(Tx)
  BY <1>1, RequestTyped DEF Broadcast, CoordTyped, ChainTypeOK
<1>3. DbTypeOK' /\ RowsKept /\ RequestId' = RequestId /\ request' = request /\ drafts' = drafts
  BY <1>2, NothingWritten
<1>4. initiated' \in Seq(Tx) /\ Range(initiated)' = Range(initiated) \cup {x}
  BY <1>2, RangeOfRows, RowInserted
<1>5. SequencesGrow /\ sequence[request[r].from] < sequence'[request[r].from]
  BY <1>1, BothSequencesGrow
<1>6. ChainKept /\ HeldKept
  BY <1>2, <1>4, HeldSame DEF ChainKept
<1>7. CoordTyped'
  BY <1>2, <1>4, <1>5 DEF CoordTyped, ChainTypeOK, SequencesGrow
<1>8. MarketTyped' /\ BuyTyped' /\ OwnedTyped' /\ ToldTyped'
  BY <1>2, <1>3, MarketKept, BuyKept, OwnedSame, ToldKept DEF ToldTyped
<1>9. SaleTyped'
  <2>1. /\ to \in [pc : SalePc, offer : RequestId \cup {0}, seq : Nat]
        /\ to.offer \in RequestId /\ SaleGoes(p, to)
    <3>1. 0 \in Nat /\ sale[p].pc # "idle"
      OBVIOUS
    <3> QED  BY <3>1, SaleStateOf
  <2> HIDE DEF to
  <2> QED  BY <1>3, <2>1, SaleSet
<1>10. TxOnce' /\ VerdictFaithful' /\ ReportsTruth'
  BY <1>2, <1>3, <1>6, TxOnceKept, VerdictsKept, ReportsKept
<1>11. InitiatedPosted'
  BY <1>1, <1>3, <1>4 DEF InitiatedPosted
<1>12. Spent' /\ BuysInTurn'
  <2>1. signedAt[x] = sequence[request[r].from] /\ Broadcast(r)
    BY DEF Signed
  <2> QED  BY <1>1, <1>2, <1>5, <2>1, TurnsTaken
<1> QED  BY <1>3, <1>7, <1>8, <1>9, <1>10, <1>11, <1>12

LEMMA SendAcceptedHolds ==
    ASSUME IInv, NEW p \in OwnedPage, SendAccepted(p)
    PROVE  IInv'
<1>1. /\ sale[p].pc = "send" /\ Signed(p) /\ BothAdvance(p) /\ Broadcast(sale[p].offer)
      /\ SaleGoes(p, [sale[p] EXCEPT !.pc = "wait"])
      /\ UNCHANGED <<signedAt, market, buy, owned, answer, told>>
  BY DEF SendAccepted
<1>2. "wait" \in SalePc
  BY DEF SalePc
<1> QED  BY <1>1, <1>2, BroadcastHolds

LEMMA SendFailsHolds ==
    ASSUME IInv, NEW p \in OwnedPage, SendFails(p)
    PROVE  IInv'
<1> USE DEF IInv, Typed
<1> DEFINE to == [sale[p] EXCEPT !.pc = "stuck"]
<1>1. /\ sale[p].pc = "send" /\ SaleGoes(p, to)
      /\ UNCHANGED <<signedAt, market, buy, owned, answer, told>>
      /\ UNCHANGED signedAt /\ UNCHANGED told /\ UNCHANGED buy /\ UNCHANGED owned
      /\ UNCHANGED <<market, answer>>
  BY DEF SendFails
<1>2. "stuck" \in SalePc
  BY DEF SalePc
<1>3. /\ to \in [pc : SalePc, offer : RequestId \cup {0}, seq : Nat]
      /\ to.offer \in RequestId /\ sale[p].offer \in RequestId
  <2>1. 0 \in Nat /\ sale[p].pc # "idle"
    BY <1>1
  <2> QED  BY <1>2, <2>1, SaleStateOf
<1> HIDE DEF to
<1>4. CASE UNCHANGED <<bookVars, sequence>>
  <2>1. UNCHANGED bookVars /\ UNCHANGED <<bookVars, sequence, signedAt, told>>
    BY <1>1, <1>4
  <2>2. RowsKept
    BY <2>1, BookSame
  <2>3. OwnedTyped' /\ SaleTyped'
    BY <1>1, <1>3, <2>2, OwnedSame, SaleSet
  <2> QED  BY <1>1, <2>1, <2>3, OwnedStepHolds
<1>5. CASE Signed(p) /\ BothAdvance(p) /\ UNCHANGED bookVars
  <2>1. /\ RowsKept /\ DbTypeOK' /\ RequestId' = RequestId
        /\ UNCHANGED dbVars /\ UNCHANGED chainVars /\ UNCHANGED initiated
        /\ UNCHANGED request /\ UNCHANGED drafts
    BY <1>5, BookSame DEF dbVars, chainVars
  <2>2. SequencesGrow /\ HeldKept /\ ChainKept
    BY <1>1, <1>3, <1>5, <2>1, BothSequencesGrow, HeldSame, ChainSame
  <2>3. CoordTyped'
    BY <1>1, <2>1, <2>2 DEF CoordTyped, ChainTypeOK, chainVars, SequencesGrow
  <2>4. MarketTyped' /\ BuyTyped' /\ OwnedTyped' /\ SaleTyped' /\ ToldTyped'
    BY <1>1, <1>3, <2>1, MarketKept, BuyKept, OwnedSame, SaleSet, ToldKept DEF ToldTyped
  <2>5. TxOnce' /\ InitiatedPosted' /\ VerdictFaithful' /\ ReportsTruth'
    BY <1>1, <2>1, <2>2, TxOnceKept, InitiatedKept, VerdictsKept, ReportsKept
  <2>6. Spent' /\ BuysInTurn'
    <3>1. signedAt' \in [Tx -> Nat] /\ \A x \in Range(initiated) : signedAt'[x] = signedAt[x]
      BY <1>1 DEF CoordTyped
    <3> QED  BY <2>1, <2>2, <3>1, TurnsKept
  <2> QED  BY <2>1, <2>3, <2>4, <2>5, <2>6
<1>6. CASE Signed(p) /\ BothAdvance(p) /\ Broadcast(sale[p].offer)
  BY <1>1, <1>2, <1>6, BroadcastHolds DEF to
<1> QED  BY <1>4, <1>5, <1>6 DEF SendFails
-----------------------------------------------------------------------------
(* The coordinator decides, and an owned page reports. *)

LEMMA DecideHolds ==
    ASSUME IInv, NEW x \in Tx, NEW d \in {"commit", "abort"}, Decide(x, d) /\ PagesWatch
    PROVE  IInv'
<1> USE DEF IInv, Typed
<1>1. /\ UNCHANGED dbVars /\ UNCHANGED initiated /\ UNCHANGED sequence
      /\ UNCHANGED signedAt /\ UNCHANGED told /\ UNCHANGED <<market, answer>>
      /\ UNCHANGED buy /\ UNCHANGED owned /\ UNCHANGED sale
      /\ decision[x] = "none" /\ decision' = [decision EXCEPT ![x] = d]
  BY DEF Decide, PagesWatch, pageVars
<1>2. DbTypeOK' /\ RowsKept /\ RequestId' = RequestId /\ request' = request /\ drafts' = drafts
  BY <1>1, NothingWritten
<1>3. decision \in [Tx -> {"none", "commit", "abort"}]
  BY DEF CoordTyped, ChainTypeOK
<1>4. CoordTyped' /\ SequencesGrow /\ HeldKept
  BY <1>1, <1>3, SequencesSame, HeldSame DEF CoordTyped, ChainTypeOK
<1>5. ChainKept
  BY <1>1, <1>3 DEF ChainKept, Range
<1>6. MarketTyped' /\ BuyTyped' /\ OwnedTyped' /\ SaleTyped' /\ ToldTyped'
  BY <1>1, <1>2, MarketKept, BuyKept, OwnedSame, SaleKept, ToldKept DEF ToldTyped
<1>7. TxOnce' /\ InitiatedPosted' /\ VerdictFaithful' /\ ReportsTruth'
  BY <1>1, <1>2, <1>4, <1>5, TxOnceKept, InitiatedKept, VerdictsKept, ReportsKept
<1>8. Spent' /\ BuysInTurn'
  <2>1. signedAt' \in [Tx -> Nat] /\ \A y \in Range(initiated) : signedAt'[y] = signedAt[y]
    BY <1>1 DEF CoordTyped
  <2> QED  BY <1>1, <1>2, <1>4, <2>1, TurnsKept
<1> QED  BY <1>2, <1>4, <1>6, <1>7, <1>8

\* The page reports what the row of the offer says, which is what the
\* coordinator said of its transaction.
LEMMA WaitPollHolds ==
    ASSUME IInv, NEW p \in OwnedPage, WaitPoll(p)
    PROVE  IInv'
<1> USE DEF IInv, Typed
<1> DEFINE r == sale[p].offer
<1>1. /\ UNCHANGED bookVars /\ UNCHANGED sequence /\ UNCHANGED signedAt
      /\ UNCHANGED buy /\ UNCHANGED <<market, answer>>
      /\ owned' = [owned EXCEPT ![p] = ViewOf(p)] /\ sale[p].pc = "wait"
  BY DEF WaitPoll
<1>2. /\ RowsKept /\ DbTypeOK' /\ RequestId' = RequestId
      /\ UNCHANGED dbVars /\ UNCHANGED chainVars /\ UNCHANGED initiated
      /\ UNCHANGED request /\ UNCHANGED drafts /\ UNCHANGED decision
  BY <1>1, BookSame DEF dbVars, chainVars
<1>3. OwnedTyped'
  BY <1>1, OwnedRefreshed
<1>4. CASE ~Finished(request[r].status)
  <2>1. UNCHANGED sale /\ UNCHANGED told
    BY <1>4 DEF WaitPoll
  <2>2. SaleTyped'
    BY <1>2, <2>1, SaleKept
  <2>3. UNCHANGED <<bookVars, sequence, signedAt, told>>
    BY <1>1, <2>1
  <2> QED  BY <1>1, <1>3, <2>2, <2>3, OwnedStepHolds
<1>5. CASE Finished(request[r].status)
  <2>1. SaleGoes(p, NoSale) /\ told' = told \cup {Outcome(r)}
    BY <1>5 DEF WaitPoll
  <2>2. r \in RequestId /\ RequestId' = RequestId
    BY <1>1, <1>2 DEF SaleTyped
  <2>3. /\ Outcome(r) \in [offer : RequestId, success : BOOLEAN] /\ Outcome(r).offer = r
        /\ Outcome(r).success = (request[r].status = "COMPLETED")
    BY <2>2 DEF Outcome
  <2>4. SaleTyped' /\ ToldTyped'
    BY <1>2, <2>1, <2>2, <2>3, NoSaleTyped, SaleSet DEF ToldTyped
  <2>5. ReportsTruth'
    <3>1. Shown(request[r].crossTx, request[r].status)
      BY <2>2, VerdictsAreShown
    <3>2. decision[request[r].crossTx] = IF Outcome(r).success THEN "commit" ELSE "abort"
      BY <1>5, <2>3, <3>1 DEF Shown, Finished
    <3>3. \A m \in told' :
            decision[request[m.offer].crossTx] = IF m.success THEN "commit" ELSE "abort"
      BY <2>1, <2>3, <3>2 DEF ReportsTruth
    <3> QED  BY <1>2, <3>3 DEF ReportsTruth
  <2>6. HeldKept /\ CoordTyped' /\ ChainKept /\ SequencesGrow
    BY <1>1, <1>2, HeldSame, CoordKept, ChainSame, SequencesSame
  <2>7. MarketTyped' /\ BuyTyped'
    BY <1>1, <1>2, MarketKept, BuyKept
  <2>8. TxOnce' /\ InitiatedPosted' /\ VerdictFaithful'
    BY <1>2, <2>6, TxOnceKept, InitiatedKept, VerdictsKept
  <2>9. Spent' /\ BuysInTurn'
    <3>1. signedAt' \in [Tx -> Nat] /\ \A y \in Range(initiated) : signedAt'[y] = signedAt[y]
      BY <1>1 DEF CoordTyped
    <3> QED  BY <1>2, <2>6, <3>1, TurnsKept
  <2> QED  BY <1>2, <1>3, <2>4, <2>5, <2>6, <2>7, <2>8, <2>9
<1> QED  BY <1>4, <1>5
-----------------------------------------------------------------------------
(* Every step. *)

LEMMA InitHolds ==
    ASSUME Init
    PROVE  IInv
<1>1. /\ trade = <<>> /\ request = <<>> /\ drafts = {} /\ initiated = <<>>
      /\ decision = [x \in Tx |-> "none"] /\ sequence = [u \in User |-> 0]
      /\ signedAt = [x \in Tx |-> 0] /\ market = [p \in MarketPage |-> {}]
      /\ buy = [p \in MarketPage |-> [a \in Attempt |-> NoBuy]]
      /\ owned = [p \in OwnedPage |-> NoView] /\ sale = [p \in OwnedPage |-> NoSale]
      /\ answer = [p \in MarketPage |-> <<>>] /\ told = {}
  BY DEF Init, BookInit, DbInit, ChainInit
<1>2. TradeId = {} /\ RequestId = {} /\ Range(initiated) = {} /\ DOMAIN initiated = {}
  BY <1>1 DEF TradeId, RequestId, Range
<1>3. DbTypeOK /\ CoordTyped
  <2>1. <<>> \in Seq(TradeRow) /\ <<>> \in Seq(RequestRow) /\ <<>> \in Seq(Tx)
    BY EmptySeq
  <2> QED  BY <1>1, <2>1 DEF DbTypeOK, CoordTyped, ChainTypeOK
<1>4. MarketTyped /\ OwnedTyped /\ SaleTyped /\ ToldTyped
  <2>1. NoView \in View
    BY DEF NoView, View
  <2> QED  BY <1>1, <2>1, NoSaleTyped
           DEF MarketTyped, OwnedTyped, SaleTyped, ToldTyped
<1>5. /\ BuyTyped
      /\ \A p \in MarketPage, a \in Attempt : ~Held(p, a)
  BY <1>1, NoBuyTyped DEF BuyTyped, Held
<1>6. TxOnce /\ InitiatedPosted
  BY <1>1, <1>2, <1>5 DEF TxOnce, RequestsDiffer, DraftsDiffer, HeldApart, InitiatedPosted
<1>7. VerdictFaithful /\ ReportsTruth /\ Spent /\ BuysInTurn
  BY <1>1, <1>2 DEF VerdictFaithful, ReportsTruth, Spent, BuysInTurn
<1> QED  BY <1>3, <1>4, <1>5, <1>6, <1>7 DEF IInv, Typed

LEMMA MarketStepHolds ==
    ASSUME IInv, NEW p \in MarketPage, MarketStep(p)
    PROVE  IInv'
<1>1. CASE AskMarket(p) \/ ShowMarket(p)
  BY <1>1, AskMarketHolds
<1>2. ASSUME NEW a \in Attempt, NEW t \in market[p], ConfirmOffer(p, a, t)  PROVE IInv'
  BY <1>2, ConfirmOfferHolds
<1>3. ASSUME NEW a \in Attempt, CheckOffers(p, a)  PROVE IInv'
  BY <1>3, CheckOffersHolds
<1>4. ASSUME NEW a \in Attempt, NEW x \in Tx \ UsedTx, BuildTx(p, a, x)  PROVE IInv'
  BY <1>4, BuildTxHolds
<1>5. ASSUME NEW a \in Attempt, SignOffer(p, a)  PROVE IInv'
  BY <1>5, SignOfferHolds
<1>6. ASSUME NEW a \in Attempt, PostOffer(p, a)  PROVE IInv'
  BY <1>6, PostOfferHolds
<1>7. ASSUME NEW a \in Attempt, RefreshMarket(p, a) \/ BuyFails(p, a)  PROVE IInv'
  BY <1>7, RefreshMarketHolds
<1> QED  BY <1>1, <1>2, <1>3, <1>4, <1>5, <1>6, <1>7 DEF MarketStep

LEMMA OwnedPageHolds ==
    ASSUME IInv, NEW p \in OwnedPage, OwnedStep(p)
    PROVE  IInv'
<1>1. CASE PollOwned(p) \/ Reload(p)
  BY <1>1, PollOwnedHolds
<1>2. CASE SellShares(p)
  BY <1>2, SellSharesHolds
<1>3. ASSUME NEW t \in owned[p].sell, CancelSellOrder(p, t)  PROVE IInv'
  BY <1>3, CancelSellOrderHolds
<1>4. ASSUME NEW r \in owned[p].cancel, CancelBuyOffer(p, r)  PROVE IInv'
  BY <1>4, CancelBuyOfferHolds
<1>5. ASSUME NEW r \in owned[p].accept, AcceptOffer(p, r)  PROVE IInv'
  BY <1>5, AcceptOfferHolds
<1>6. CASE SignSale(p)
  BY <1>6, SignSaleHolds
<1>7. CASE SendAccepted(p)
  BY <1>7, SendAcceptedHolds
<1>8. CASE SendFails(p)
  BY <1>8, SendFailsHolds
<1>9. CASE WaitPoll(p)
  BY <1>9, WaitPollHolds
<1> QED  BY <1>1, <1>2, <1>3, <1>4, <1>5, <1>6, <1>7, <1>8, <1>9 DEF OwnedStep, SaleStep

LEMMA StutterHolds ==
    ASSUME IInv, UNCHANGED vars
    PROVE  IInv'
<1>1. /\ UNCHANGED bookVars /\ UNCHANGED <<bookVars, sequence, signedAt, told>>
      /\ UNCHANGED buy /\ UNCHANGED <<market, answer>> /\ UNCHANGED owned
      /\ UNCHANGED sale
  BY DEF vars, pageVars
<1>2. OwnedTyped' /\ SaleTyped'
  BY <1>1, BookSame, OwnedSame, SaleKept DEF IInv, Typed
<1> QED  BY <1>1, <1>2, OwnedStepHolds

LEMMA NextHolds ==
    ASSUME IInv, [Next]_vars
    PROVE  IInv'
<1>1. ASSUME NEW p \in MarketPage, MarketStep(p)  PROVE IInv'
  BY <1>1, MarketStepHolds
<1>2. ASSUME NEW p \in OwnedPage, OwnedStep(p)  PROVE IInv'
  BY <1>2, OwnedPageHolds
<1>3. ASSUME NEW x \in Tx, NEW d \in {"commit", "abort"}, Decide(x, d) /\ PagesWatch
      PROVE  IInv'
  BY <1>3, DecideHolds
<1>4. CASE RecordStep /\ PagesWatch
  BY <1>4, RecordHolds
<1>5. CASE UNCHANGED vars
  BY <1>5, StutterHolds
<1> QED  BY <1>1, <1>2, <1>3, <1>4, <1>5 DEF Next

LEMMA Invariant == Spec => []IInv
  BY InitHolds, NextHolds, PTL DEF Spec
-----------------------------------------------------------------------------
(* Buyers who make one offer at a time. *)

\* Each user has one market page open, with one confirmed offer under way.
OneOfferUnderWay ==
    \A p, q \in MarketPage, a, b \in Attempt : p.user = q.user => p = q /\ a = b

HasOffer(u, t) ==
    /\ t \in TradeId /\ trade[t].status = "OPENED"
    /\ \E r \in RequestId : /\ request[r].tradeId = t /\ request[r].from = u
                            /\ request[r].status = "OPENED"

OneEach ==
    \A u \in User, t, o \in TradeId : HasOffer(u, t) /\ HasOffer(u, o) => t = o

\* An offer that was checked is still the only one that the buyer makes.
ChecksHold ==
    \A p \in MarketPage, a \in Attempt :
        buy[p][a].pc \in {"build", "sign", "post"} =>
            \A o \in TradeId : HasOffer(p.user, o) => o = buy[p][a].trade

\* A page signs and posts what the buyer asked for.
DraftsMeant ==
    \A p \in MarketPage, a \in Attempt :
        Held(p, a) => /\ buy[p][a].draft.tradeId = buy[p][a].trade
                      /\ buy[p][a].draft.from = p.user

OfferInv == OneEach /\ ChecksHold /\ DraftsMeant

LEMMA OneEachIsOneTrade == OneEach <=> OneTradeAtATime
  BY DEF OneEach, OneTradeAtATime, HasOffer, OpenOffers

LEMMA NoOtherOffer ==
    ASSUME NEW u, NEW t, ~AnotherOffer(u, t)
    PROVE  \A o \in TradeId : HasOffer(u, o) => o = t
  BY DEF AnotherOffer, HasOffer, OpenOffers

\* Without a new request there is no new offer.
LEMMA NoNewOffer ==
    ASSUME DbTypeOK, RowsKept, StayClosed, RequestId' = RequestId
    PROVE  \A u, t : HasOffer(u, t)' => HasOffer(u, t)
<1> SUFFICES ASSUME NEW u, NEW t, HasOffer(u, t)'  PROVE HasOffer(u, t)
  OBVIOUS
<1>1. PICK r \in RequestId : /\ request'[r].tradeId = t /\ request'[r].from = u
                             /\ request'[r].status = "OPENED"
  BY DEF HasOffer
<1>2. /\ request[r].tradeId = t /\ request[r].from = u
      /\ request[r].status = "OPENED" /\ t \in TradeId
  BY <1>1, RequestTyped DEF RowsKept, StayClosed
<1>3. trade[t].status = "OPENED"
  BY <1>2 DEF HasOffer, StayClosed
<1> QED  BY <1>2, <1>3 DEF HasOffer

LEMMA OneEachKept ==
    ASSUME OneEach, DbTypeOK, RowsKept, StayClosed, RequestId' = RequestId
    PROVE  OneEach'
<1>1. \A u, t : HasOffer(u, t)' => HasOffer(u, t)
  BY NoNewOffer
<1>2. \A u, t : HasOffer(u, t) => t \in TradeId
  BY DEF HasOffer
<1> QED  BY <1>1, <1>2 DEF OneEach

\* The attempts go on or are given up; none that was not checked is built.
AttemptsGoOn ==
    \A p \in MarketPage, a \in Attempt :
        LET b == buy'[p][a]
        IN  b.pc \in {"build", "sign", "post"} =>
                /\ \A o \in TradeId : HasOffer(p.user, o) => o = b.trade
                /\ b.pc \in {"sign", "post"} =>
                        b.draft.tradeId = b.trade /\ b.draft.from = p.user

LEMMA AttemptsSame ==
    ASSUME OfferInv, UNCHANGED buy
    PROVE  AttemptsGoOn
  BY DEF OfferInv, ChecksHold, DraftsMeant, AttemptsGoOn, Held

LEMMA AttemptSet ==
    ASSUME OfferInv, BuyTyped, NEW p \in MarketPage, NEW a \in Attempt, NEW to,
           BuyGoes(p, a, to),
           to.pc \in {"build", "sign", "post"} =>
                /\ \A o \in TradeId : HasOffer(p.user, o) => o = to.trade
                /\ to.pc \in {"sign", "post"} =>
                        to.draft.tradeId = to.trade /\ to.draft.from = p.user
    PROVE  AttemptsGoOn
<1>1. buy' = [buy EXCEPT ![p][a] = to] /\ buy \in [MarketPage -> [Attempt -> BuyState]]
  BY DEF BuyGoes, BuyTyped
<1>2. \A q \in MarketPage, b \in Attempt :
        buy'[q][b] = IF <<q, b>> = <<p, a>> THEN to ELSE buy[q][b]
  BY <1>1
<1> QED  BY <1>2 DEF OfferInv, ChecksHold, DraftsMeant, AttemptsGoOn, Held

LEMMA OfferInvKept ==
    ASSUME OfferInv, DbTypeOK, RowsKept, StayClosed, RequestId' = RequestId, AttemptsGoOn
    PROVE  OfferInv'
<1>1. \A u, t : HasOffer(u, t)' => HasOffer(u, t)
  BY NoNewOffer
<1>2. \A u, t : HasOffer(u, t) => t \in TradeId
  BY DEF HasOffer
<1>3. OneEach'
  BY OneEachKept DEF OfferInv
<1>4. ChecksHold'
  BY <1>1, <1>2 DEF ChecksHold, AttemptsGoOn
<1>5. DraftsMeant'
  BY DEF DraftsMeant, AttemptsGoOn, Held
<1> QED  BY <1>3, <1>4, <1>5 DEF OfferInv

LEMMA TablesSame ==
    ASSUME IInv, UNCHANGED dbVars
    PROVE  RowsKept /\ StayClosed /\ RequestId' = RequestId
  BY NothingWritten DEF dbVars, IInv, Typed, StayClosed

LEMMA PostOfferAlone ==
    ASSUME OneOfferUnderWay, IInv, OfferInv, NEW p \in MarketPage, NEW a \in Attempt,
           PostOffer(p, a)
    PROVE  OfferInv'
<1> DEFINE to == [buy[p][a] EXCEPT !.pc = "refresh"]
           d == buy[p][a].draft
           new == Len(request) + 1
           t == buy[p][a].trade
<1>1. /\ BuyGoes(p, a, to) /\ PostTradeRequest(d) /\ Held(p, a)
      /\ d \in drafts /\ d.tradeId = t /\ d.from = p.user /\ DbTypeOK
      /\ \A o \in TradeId : HasOffer(p.user, o) => o = t
  BY DEF PostOffer, Buying, Held, IInv, Typed, BuyTyped, OfferInv, DraftsMeant, ChecksHold
<1>2. to.pc = "refresh"
  <2>1. "refresh" \in BuyPc
    BY DEF BuyPc
  <2> QED  BY <2>1, BuyStateOf DEF IInv, Typed
<1> HIDE DEF d, to, t
<1>3. /\ RowsKept /\ trade' = trade
      /\ \A r \in RequestId : request'[r].status = request[r].status
      /\ RequestId' = RequestId \cup {new}
      /\ request'[new].tradeId = t /\ request'[new].from = p.user
  BY <1>1, PostTradeRequestEffect
<1> HIDE DEF new
<1>4. ASSUME NEW u, NEW o, HasOffer(u, o)'
      PROVE  HasOffer(u, o) \/ (u = p.user /\ o = t)
  <2>1. PICK r \in RequestId' : /\ request'[r].tradeId = o /\ request'[r].from = u
                                /\ request'[r].status = "OPENED"
    BY <1>4 DEF HasOffer
  <2>2. CASE r = new
    BY <1>3, <2>1, <2>2
  <2>3. CASE r \in RequestId
    <3>1. /\ request[r].tradeId = o /\ request[r].from = u
          /\ request[r].status = "OPENED" /\ o \in TradeId
      BY <1>1, <1>3, <2>1, <2>3, RequestTyped DEF RowsKept
    <3>2. trade[o].status = "OPENED"
      BY <1>3, <1>4 DEF HasOffer
    <3> QED  BY <2>3, <3>1, <3>2 DEF HasOffer
  <2> QED  BY <1>3, <2>2, <2>3
<1>5. \A u, o : HasOffer(u, o) => o \in TradeId
  BY DEF HasOffer
<1>6. OneEach'
  BY <1>1, <1>4, <1>5 DEF OfferInv, OneEach
<1>7. \A q \in MarketPage, b \in Attempt :
        buy'[q][b] = IF <<q, b>> = <<p, a>> THEN to ELSE buy[q][b]
  <2>1. buy' = [buy EXCEPT ![p][a] = to] /\ buy \in [MarketPage -> [Attempt -> BuyState]]
    BY <1>1 DEF BuyGoes, IInv, Typed, BuyTyped
  <2> QED  BY <2>1
<1>8. ChecksHold'
  <2> SUFFICES ASSUME NEW q \in MarketPage, NEW b \in Attempt,
                      buy'[q][b].pc \in {"build", "sign", "post"},
                      NEW o \in TradeId', HasOffer(q.user, o)'
               PROVE  o = buy'[q][b].trade
    BY DEF ChecksHold
  <2>1. <<q, b>> # <<p, a>> /\ buy'[q][b] = buy[q][b]
    BY <1>2, <1>7
  <2>2. q.user # p.user
    BY <2>1 DEF OneOfferUnderWay
  <2>3. HasOffer(q.user, o) /\ o \in TradeId
    BY <1>4, <1>5, <2>2
  <2> QED  BY <2>1, <2>3 DEF OfferInv, ChecksHold
<1>9. DraftsMeant'
  BY <1>2, <1>7 DEF OfferInv, DraftsMeant, Held
<1> QED  BY <1>6, <1>8, <1>9 DEF OfferInv

LEMMA MarketAlone ==
    ASSUME OneOfferUnderWay, IInv, OfferInv, NEW p \in MarketPage, MarketStep(p)
    PROVE  OfferInv'
<1>1. BuyTyped /\ DbTypeOK
  BY DEF IInv, Typed
<1>2. CASE AskMarket(p) \/ ShowMarket(p)
  <2>1. UNCHANGED dbVars /\ UNCHANGED buy
    BY <1>2 DEF AskMarket, ShowMarket, bookVars
  <2> QED  BY <1>1, <2>1, TablesSame, AttemptsSame, OfferInvKept
<1>3. ASSUME NEW a \in Attempt, NEW t \in market[p], ConfirmOffer(p, a, t)
      PROVE  OfferInv'
  <2>1. /\ UNCHANGED dbVars
        /\ BuyGoes(p, a, [NoBuy EXCEPT !.pc = "check", !.trade = t])
        /\ [NoBuy EXCEPT !.pc = "check", !.trade = t].pc = "check"
    BY <1>3 DEF ConfirmOffer, bookVars, NoBuy
  <2>2. AttemptsGoOn
    BY <1>1, <2>1, AttemptSet
  <2> QED  BY <1>1, <2>1, <2>2, TablesSame, OfferInvKept
<1>4. ASSUME NEW a \in Attempt, CheckOffers(p, a)  PROVE OfferInv'
  <2> DEFINE b == [buy[p][a] EXCEPT !.pc = "build"]
             to == IF AnotherOffer(p.user, buy[p][a].trade) THEN NoBuy ELSE b
  <2>1. UNCHANGED dbVars /\ BuyGoes(p, a, to)
    BY <1>4 DEF CheckOffers, bookVars
  <2>2. b.pc = "build" /\ b.trade = buy[p][a].trade /\ NoBuy.pc = "idle"
    <3>1. "build" \in BuyPc
      BY DEF BuyPc
    <3> QED  BY <1>1, <3>1, BuyStateOf, NoBuyTyped
  <2>3. AttemptsGoOn
    <3>1. CASE AnotherOffer(p.user, buy[p][a].trade)
      BY <1>1, <2>1, <2>2, <3>1, AttemptSet
    <3>2. CASE ~AnotherOffer(p.user, buy[p][a].trade)
      <4>1. \A o \in TradeId : HasOffer(p.user, o) => o = b.trade
        BY <2>2, <3>2, NoOtherOffer
      <4>2. BuyGoes(p, a, b)
        BY <2>1, <3>2
      <4> HIDE DEF b
      <4> QED  BY <1>1, <2>2, <4>1, <4>2, AttemptSet
    <3> QED  BY <3>1, <3>2
  <2> QED  BY <1>1, <2>1, <2>3, TablesSame, OfferInvKept
<1>5. ASSUME NEW a \in Attempt, NEW x \in Tx \ UsedTx, BuildTx(p, a, x)  PROVE OfferInv'
  <2> DEFINE t == buy[p][a].trade
             d == [tradeId |-> t, from |-> p.user, crossTx |-> x]
             to == [pc |-> "sign", trade |-> t, draft |-> d]
  <2>1. BuyGoes(p, a, to) /\ GetTxTradeRequest(t, p.user, x) /\ buy[p][a].pc = "build"
    BY <1>5 DEF BuildTx, Buying
  <2>2. /\ to.pc = "sign" /\ to.trade = t /\ to.draft = d
        /\ d.tradeId = t /\ d.from = p.user
    OBVIOUS
  <2>3. \A o \in TradeId : HasOffer(p.user, o) => o = t
    BY <2>1 DEF OfferInv, ChecksHold
  <2>4. RowsKept /\ StayClosed /\ RequestId' = RequestId
    <3>1. trade' = trade /\ request' = request
      BY <2>1 DEF GetTxTradeRequest
    <3> QED  BY <3>1 DEF RowsKept, StayClosed, TradeId, RequestId
  <2> HIDE DEF t, d, to
  <2>5. AttemptsGoOn
    BY <1>1, <2>1, <2>2, <2>3, AttemptSet
  <2> QED  BY <1>1, <2>4, <2>5, OfferInvKept
<1>6. ASSUME NEW a \in Attempt, SignOffer(p, a)  PROVE OfferInv'
  <2> DEFINE to == [buy[p][a] EXCEPT !.pc = "post"]
  <2>1. UNCHANGED dbVars /\ BuyGoes(p, a, to) /\ buy[p][a].pc = "sign"
    BY <1>6 DEF SignOffer, Buying, bookVars
  <2>2. to.pc = "post" /\ to.trade = buy[p][a].trade /\ to.draft = buy[p][a].draft
    <3>1. "post" \in BuyPc
      BY DEF BuyPc
    <3> QED  BY <1>1, <3>1, BuyStateOf
  <2> HIDE DEF to
  <2>3. /\ \A o \in TradeId : HasOffer(p.user, o) => o = to.trade
        /\ to.draft.tradeId = to.trade /\ to.draft.from = p.user
    BY <2>1, <2>2 DEF OfferInv, ChecksHold, DraftsMeant, Held
  <2>4. AttemptsGoOn
    BY <1>1, <2>1, <2>3, AttemptSet
  <2> QED  BY <1>1, <2>1, <2>4, TablesSame, OfferInvKept
<1>7. ASSUME NEW a \in Attempt, PostOffer(p, a)  PROVE OfferInv'
  BY <1>7, PostOfferAlone
<1>8. ASSUME NEW a \in Attempt, RefreshMarket(p, a) \/ BuyFails(p, a)  PROVE OfferInv'
  <2>1. UNCHANGED dbVars /\ BuyGoes(p, a, NoBuy)
    BY <1>8 DEF RefreshMarket, BuyFails, bookVars
  <2>2. AttemptsGoOn
    BY <1>1, <2>1, NoBuyTyped, AttemptSet
  <2> QED  BY <1>1, <2>1, <2>2, TablesSame, OfferInvKept
<1> QED  BY <1>2, <1>3, <1>4, <1>5, <1>6, <1>7, <1>8 DEF MarketStep

LEMMA OwnedAlone ==
    ASSUME IInv, OfferInv, NEW p \in OwnedPage, OwnedStep(p)
    PROVE  OfferInv'
<1>1. DbTypeOK /\ owned[p].sell \subseteq TradeId /\ owned[p].cancel \subseteq RequestId
  BY DEF IInv, Typed, OwnedTyped, View
<1>2. UNCHANGED buy
  BY DEF OwnedStep, PollOwned, SellShares, CancelSellOrder, CancelBuyOffer, AcceptOffer,
     Reload, SaleStep, SignSale, SendAccepted, SendFails, WaitPoll
<1>3. RowsKept /\ StayClosed /\ RequestId' = RequestId
  <2>1. CASE SellShares(p)
    <3>1. PostTrade(p.estate, p.user) /\ p.user \in User /\ p.estate \in Estate
      BY <2>1, PageAssumption DEF SellShares
    <3> QED  BY <1>1, <3>1, PostTradeEffect DEF RequestId
  <2>2. ASSUME NEW t \in owned[p].sell, CancelSellOrder(p, t)
        PROVE  RowsKept /\ StayClosed /\ RequestId' = RequestId
    <3>1. DeleteTrade(t) /\ t \in TradeId
      BY <1>1, <2>2 DEF CancelSellOrder
    <3> QED  BY <1>1, <3>1, DeleteTradeEffect DEF RequestId
  <2>3. ASSUME NEW r \in owned[p].cancel, CancelBuyOffer(p, r)
        PROVE  RowsKept /\ StayClosed /\ RequestId' = RequestId
    <3>1. DeleteTradeRequest(r) /\ r \in RequestId
      BY <1>1, <2>3 DEF CancelBuyOffer
    <3> QED  BY <1>1, <3>1, DeleteTradeRequestEffect DEF StatusOnly
  <2>4. ASSUME \/ PollOwned(p) \/ Reload(p) \/ SaleStep(p)
               \/ \E r \in owned[p].accept : AcceptOffer(p, r)
        PROVE  RowsKept /\ StayClosed /\ RequestId' = RequestId
    <3>1. UNCHANGED dbVars
      BY <2>4 DEF PollOwned, Reload, AcceptOffer, SaleStep, SignSale, SendAccepted,
         SendFails, WaitPoll, Broadcast, bookVars
    <3> QED  BY <3>1, TablesSame
  <2> QED  BY <2>1, <2>2, <2>3, <2>4 DEF OwnedStep
<1> QED  BY <1>1, <1>2, <1>3, AttemptsSame, OfferInvKept

LEMMA OthersAlone ==
    ASSUME IInv, OfferInv,
           \/ \E x \in Tx, d \in {"commit", "abort"} : Decide(x, d) /\ PagesWatch
           \/ RecordStep /\ PagesWatch
           \/ UNCHANGED vars
    PROVE  OfferInv'
<1>1. DbTypeOK /\ UNCHANGED buy
  BY DEF IInv, Typed, PagesWatch, pageVars, vars
<1>2. CASE UNCHANGED dbVars
  BY <1>1, <1>2, TablesSame, AttemptsSame, OfferInvKept
<1>3. CASE RecordStep
  <2>1. PICK r \in RequestId : RecordVerdict(r) \/ RecordOngoing(r)
    BY <1>3 DEF RecordStep
  <2>2. decision[request[r].crossTx] \in {"none", "commit", "abort"}
    BY RequestTyped DEF IInv, Typed, CoordTyped, ChainTypeOK
  <2>3. PICK st \in RequestStatus : st # "OPENED" /\ Record(r, st)
    BY <2>1, <2>2 DEF RecordVerdict, RecordOngoing, CoordinatorStatus, RequestStatus
  <2>4. RowsKept /\ StayClosed /\ RequestId' = RequestId
    BY <1>1, <2>3, RecordEffect DEF StatusOnly
  <2> QED  BY <1>1, <2>4, AttemptsSame, OfferInvKept
<1> QED  BY <1>2, <1>3 DEF Decide, vars, bookVars

LEMMA OfferInvariant ==
    ASSUME OneOfferUnderWay
    PROVE  Spec => []OfferInv
<1>1. ASSUME Init  PROVE OfferInv
  <2>1. /\ request = <<>> /\ trade = <<>>
        /\ buy = [p \in MarketPage |-> [a \in Attempt |-> NoBuy]]
    BY <1>1 DEF Init, BookInit, DbInit
  <2>2. TradeId = {} /\ \A p \in MarketPage, a \in Attempt : buy[p][a].pc = "idle"
    BY <2>1, NoBuyTyped DEF TradeId
  <2> QED  BY <2>2 DEF OfferInv, OneEach, ChecksHold, DraftsMeant, Held
<1>2. ASSUME IInv, OfferInv, [Next]_vars  PROVE OfferInv'
  <2>1. ASSUME NEW p \in MarketPage, MarketStep(p)  PROVE OfferInv'
    BY <1>2, <2>1, MarketAlone
  <2>2. ASSUME NEW p \in OwnedPage, OwnedStep(p)  PROVE OfferInv'
    BY <1>2, <2>2, OwnedAlone
  <2> QED  BY <1>2, <2>1, <2>2, OthersAlone DEF Next
<1> QED  BY <1>1, <1>2, Invariant, PTL DEF Spec
-----------------------------------------------------------------------------
(* What holds of OrderFlow. *)

\* The pages and the tables keep their types: every button of a page and every
\* sale under way is about a row that exists (TradeRequest, Trade in rdb).
THEOREM TypeCorrect == Spec => []TypeOK
<1>1. IInv => TypeOK
  BY TypedIsTypeOK DEF IInv
<1> QED  BY <1>1, Invariant, PTL

\* A seller who is told of a success has sold, and one who is told of a failure
\* has not, however many pages, offers and cancels there are
\* (owned-detail.tsx:322).
THEOREM ReportsAreTrue == Spec => []ReportsTruth
<1>1. IInv => ReportsTruth
  BY DEF IInv
<1> QED  BY <1>1, Invariant, PTL

\* However many offers a buyer has under way at once, on however many pages,
\* those that are sold were signed one after the other: of those signed with
\* the same sequence number at most one is sold (market-detail.tsx:206).
THEOREM SalesInTurn == Spec => []BuysInTurn
<1>1. IInv => BuysInTurn
  BY DEF IInv
<1> QED  BY <1>1, Invariant, PTL

\* A buyer who makes one offer at a time never has open offers for two open
\* trades: what the page checked before it built the transaction still holds
\* when it posts the offer (market-detail.tsx:179).
THEOREM OneTrade ==
    ASSUME OneOfferUnderWay
    PROVE  Spec => []OneTradeAtATime
<1>1. OfferInv => OneTradeAtATime
  BY OneEachIsOneTrade DEF OfferInv
<1> QED  BY <1>1, OfferInvariant, PTL

\* What the tables say of an offer is what the coordinator did with the
\* transaction of that offer, whoever reads them (job.go:102).
THEOREM VerdictsFaithful == Spec => []VerdictFaithful
<1>1. IInv => VerdictFaithful
  BY DEF IInv
<1> QED  BY <1>1, Invariant, PTL
=============================================================================
