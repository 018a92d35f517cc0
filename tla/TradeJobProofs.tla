---------------------------- MODULE TradeJobProofs ----------------------------
(***************************************************************************)
(* Theorems about TradeJob, for any users, estates, transactions, and any  *)
(* number of offers and of errors of the job.                              *)
(***************************************************************************)
EXTENDS TradeJob, SequenceTheorems, TLAPS

-----------------------------------------------------------------------------
(* Sequences of rows. *)

LEMMA RowsDomain ==
    ASSUME NEW S, NEW s \in Seq(S)
    PROVE  DOMAIN s = 1 .. Len(s) /\ Len(s) \in Nat /\ \A i \in DOMAIN s : s[i] \in S
  BY LenProperties, ElementOfSeq

LEMMA RowInserted ==
    ASSUME NEW S, NEW s \in Seq(S), NEW e \in S
    PROVE  /\ Append(s, e) \in Seq(S)
           /\ DOMAIN Append(s, e) = DOMAIN s \cup {Len(s) + 1}
           /\ \A i \in DOMAIN s : Append(s, e)[i] = s[i]
           /\ Append(s, e)[Len(s) + 1] = e
  OBVIOUS

LEMMA RowUpdated ==
    ASSUME NEW S, NEW s \in Seq(S), NEW i \in DOMAIN s, NEW e \in S
    PROVE  /\ [s EXCEPT ![i] = e] \in Seq(S)
           /\ DOMAIN [s EXCEPT ![i] = e] = DOMAIN s
           /\ \A j \in DOMAIN s : [s EXCEPT ![i] = e][j] = IF j = i THEN e ELSE s[j]
  BY ExceptSeq, LenProperties
-----------------------------------------------------------------------------
(* What the writes of the tables do to their rows. *)

\* The rows there are stay, with the columns that say what they are about.
RowsKept ==
    /\ TradeId \subseteq TradeId'
    /\ \A t \in TradeId : /\ trade'[t].estateId = trade[t].estateId
                          /\ trade'[t].seller = trade[t].seller
    /\ RequestId \subseteq RequestId'
    /\ \A r \in RequestId : /\ request'[r].tradeId = request[r].tradeId
                            /\ request'[r].crossTx = request[r].crossTx

LEMMA TradeStatusSet ==
    ASSUME NEW s \in Seq(TradeRow), NEW t \in DOMAIN s, NEW st \in TradeStatus
    PROVE  LET new == [s EXCEPT ![t].status = st]
           IN  /\ new \in Seq(TradeRow)
               /\ DOMAIN new = DOMAIN s
               /\ \A i \in DOMAIN s :
                    /\ new[i].status = IF i = t THEN st ELSE s[i].status
                    /\ new[i].estateId = s[i].estateId
                    /\ new[i].seller = s[i].seller
<1> DEFINE row1 == [s[t] EXCEPT !.status = st]
           new == [s EXCEPT ![t] = row1]
<1>1. s[t] \in TradeRow
  BY RowsDomain
<1>2. /\ row1 \in TradeRow /\ row1.status = st
      /\ row1.estateId = s[t].estateId /\ row1.seller = s[t].seller
  BY <1>1 DEF TradeRow
<1> HIDE DEF row1
<1>3. /\ new \in Seq(TradeRow) /\ DOMAIN new = DOMAIN s
      /\ \A i \in DOMAIN s : new[i] = IF i = t THEN row1 ELSE s[i]
  BY <1>2, RowUpdated
<1> QED  BY <1>2, <1>3 DEF row1

LEMMA TradeBuyerSet ==
    ASSUME NEW s \in Seq(TradeRow), NEW t \in DOMAIN s, NEW b \in User \cup {NoUser}
    PROVE  LET new == [s EXCEPT ![t].buyer = b]
           IN  /\ new \in Seq(TradeRow)
               /\ DOMAIN new = DOMAIN s
               /\ \A i \in DOMAIN s :
                    /\ new[i].status = s[i].status
                    /\ new[i].estateId = s[i].estateId
                    /\ new[i].seller = s[i].seller
<1> DEFINE row1 == [s[t] EXCEPT !.buyer = b]
           new == [s EXCEPT ![t] = row1]
<1>1. s[t] \in TradeRow
  BY RowsDomain
<1>2. /\ row1 \in TradeRow /\ row1.status = s[t].status
      /\ row1.estateId = s[t].estateId /\ row1.seller = s[t].seller
  BY <1>1 DEF TradeRow
<1> HIDE DEF row1
<1>3. /\ new \in Seq(TradeRow) /\ DOMAIN new = DOMAIN s
      /\ \A i \in DOMAIN s : new[i] = IF i = t THEN row1 ELSE s[i]
  BY <1>2, RowUpdated
<1> QED  BY <1>2, <1>3 DEF row1

LEMMA RequestStatusSet ==
    ASSUME NEW s \in Seq(RequestRow), NEW r \in DOMAIN s, NEW st \in RequestStatus
    PROVE  LET new == [s EXCEPT ![r].status = st]
           IN  /\ new \in Seq(RequestRow)
               /\ DOMAIN new = DOMAIN s
               /\ \A i \in DOMAIN s :
                    /\ new[i].status = IF i = r THEN st ELSE s[i].status
                    /\ new[i].tradeId = s[i].tradeId
                    /\ new[i].crossTx = s[i].crossTx
<1> DEFINE row1 == [s[r] EXCEPT !.status = st]
           new == [s EXCEPT ![r] = row1]
<1>1. s[r] \in RequestRow
  BY RowsDomain
<1>2. /\ row1 \in RequestRow /\ row1.status = st
      /\ row1.tradeId = s[r].tradeId /\ row1.crossTx = s[r].crossTx
  BY <1>1 DEF RequestRow
<1> HIDE DEF row1
<1>3. /\ new \in Seq(RequestRow) /\ DOMAIN new = DOMAIN s
      /\ \A i \in DOMAIN s : new[i] = IF i = r THEN row1 ELSE s[i]
  BY <1>2, RowUpdated
<1> QED  BY <1>2, <1>3 DEF row1

LEMMA PostTradeEffect ==
    ASSUME DbTypeOK, NEW e \in Estate, NEW u \in User, PostTrade(e, u)
    PROVE  /\ DbTypeOK' /\ RowsKept
           /\ \A t \in TradeId : trade'[t].status = trade[t].status
           /\ TradeId' = TradeId \cup {Len(trade) + 1}
           /\ trade'[Len(trade) + 1].estateId = e
           /\ trade'[Len(trade) + 1].seller = u
           /\ trade'[Len(trade) + 1].status = "OPENED"
           /\ request' = request
<1> DEFINE new == [estateId |-> e, seller |-> u, buyer |-> NoUser, status |-> "OPENED"]
<1>1. /\ trade \in Seq(TradeRow) /\ new \in TradeRow
      /\ trade' = Append(trade, new) /\ request' = request /\ drafts' = drafts
  BY DEF DbTypeOK, PostTrade, TradeRow, TradeStatus
<1>2. /\ trade' \in Seq(TradeRow)
      /\ TradeId' = TradeId \cup {Len(trade) + 1}
      /\ \A t \in TradeId : trade'[t] = trade[t]
      /\ trade'[Len(trade) + 1] = new
  BY <1>1, RowInserted DEF TradeId
<1>3. RequestRow \subseteq RequestRow' /\ Draft \subseteq Draft'
  BY <1>2 DEF RequestRow, Draft
<1>4. request' \in Seq(RequestRow')
  BY <1>1, <1>3, SeqMonotonic DEF DbTypeOK
<1>5. DbTypeOK'
  BY <1>1, <1>2, <1>3, <1>4 DEF DbTypeOK, TradeRow
<1>6. new.status = "OPENED" /\ new.estateId = e /\ new.seller = u
  OBVIOUS
<1> HIDE DEF new
<1>7. RowsKept
  BY <1>1, <1>2 DEF RowsKept, RequestId
<1> QED  BY <1>1, <1>2, <1>5, <1>6, <1>7

LEMMA DeleteTradeEffect ==
    ASSUME DbTypeOK, NEW t \in TradeId, DeleteTrade(t)
    PROVE  /\ DbTypeOK' /\ RowsKept
           /\ TradeId' = TradeId /\ request' = request
           /\ \A i \in TradeId :
                trade'[i].status = IF i = t THEN "CANCELED" ELSE trade[i].status
<1>1. /\ trade \in Seq(TradeRow) /\ t \in DOMAIN trade /\ "CANCELED" \in TradeStatus
      /\ trade' = [trade EXCEPT ![t].status = "CANCELED"]
      /\ request' = request /\ drafts' = drafts
  BY DEF DbTypeOK, DeleteTrade, TradeId, TradeStatus
<1>2. /\ trade' \in Seq(TradeRow) /\ TradeId' = TradeId
      /\ \A i \in TradeId :
            /\ trade'[i].status = IF i = t THEN "CANCELED" ELSE trade[i].status
            /\ trade'[i].estateId = trade[i].estateId
            /\ trade'[i].seller = trade[i].seller
  BY <1>1, TradeStatusSet DEF TradeId
<1>3. DbTypeOK'
  BY <1>1, <1>2 DEF DbTypeOK, RequestRow, Draft, TradeRow
<1> QED  BY <1>1, <1>2, <1>3 DEF RowsKept, RequestId

LEMMA GetTxEffect ==
    ASSUME DbTypeOK, NEW t \in TradeId, NEW u \in User, NEW x \in Tx,
           GetTxTradeRequest(t, u, x)
    PROVE  DbTypeOK' /\ RowsKept /\ trade' = trade /\ request' = request
<1>1. trade' = trade /\ request' = request /\ TradeId' = TradeId
  BY DEF GetTxTradeRequest, TradeId
<1>2. drafts' \subseteq Draft
  BY DEF GetTxTradeRequest, DbTypeOK, Draft
<1> QED  BY <1>1, <1>2 DEF DbTypeOK, RowsKept, RequestId, RequestRow, Draft, TradeRow

LEMMA PostTradeRequestEffect ==
    ASSUME DbTypeOK, NEW d \in drafts, PostTradeRequest(d)
    PROVE  /\ DbTypeOK' /\ RowsKept /\ trade' = trade
           /\ \A r \in RequestId : request'[r].status = request[r].status
           /\ \A r \in RequestId' \ RequestId : request'[r].status = "OPENED"
<1> DEFINE new == [tradeId |-> d.tradeId, from |-> d.from, crossTx |-> d.crossTx,
                   status |-> "OPENED"]
<1>1. d \in Draft
  BY DEF DbTypeOK
<1>2. /\ request \in Seq(RequestRow) /\ new \in RequestRow
      /\ request' = Append(request, new) /\ trade' = trade /\ drafts' \subseteq drafts
  BY <1>1 DEF DbTypeOK, PostTradeRequest, RequestRow, Draft, RequestStatus
<1>3. /\ request' \in Seq(RequestRow)
      /\ RequestId' = RequestId \cup {Len(request) + 1}
      /\ \A r \in RequestId : request'[r] = request[r]
      /\ request'[Len(request) + 1] = new
  BY <1>2, RowInserted DEF RequestId
<1>4. TradeId' = TradeId
  BY <1>2 DEF TradeId
<1>5. DbTypeOK'
  BY <1>2, <1>3, <1>4 DEF DbTypeOK, RequestRow, Draft, TradeRow
<1>6. new.status = "OPENED"
  OBVIOUS
<1> HIDE DEF new
<1>7. RowsKept
  BY <1>2, <1>3, <1>4 DEF RowsKept
<1> QED  BY <1>2, <1>3, <1>4, <1>5, <1>6, <1>7

LEMMA DeleteTradeRequestEffect ==
    ASSUME DbTypeOK, NEW r \in RequestId, DeleteTradeRequest(r)
    PROVE  /\ DbTypeOK' /\ RowsKept
           /\ trade' = trade /\ RequestId' = RequestId
           /\ \A q \in RequestId :
                request'[q].status = IF q = r THEN "CANCELED" ELSE request[q].status
<1>1. /\ request \in Seq(RequestRow) /\ r \in DOMAIN request
      /\ "CANCELED" \in RequestStatus
      /\ request' = [request EXCEPT ![r].status = "CANCELED"]
      /\ trade' = trade /\ drafts' = drafts /\ TradeId' = TradeId
  BY DEF DbTypeOK, DeleteTradeRequest, RequestId, RequestStatus, TradeId
<1>2. /\ request' \in Seq(RequestRow) /\ RequestId' = RequestId
      /\ \A q \in RequestId :
            /\ request'[q].status = IF q = r THEN "CANCELED" ELSE request[q].status
            /\ request'[q].tradeId = request[q].tradeId
            /\ request'[q].crossTx = request[q].crossTx
  BY <1>1, RequestStatusSet DEF RequestId
<1>3. DbTypeOK'
  BY <1>1, <1>2 DEF DbTypeOK, RequestRow, Draft, TradeRow
<1> QED  BY <1>1, <1>2, <1>3 DEF RowsKept

LEMMA WriteRowEffect ==
    ASSUME DbTypeOK, row \in JobRow, WriteRow
    PROVE  /\ DbTypeOK' /\ RowsKept
           /\ TradeId' = TradeId /\ RequestId' = RequestId
           /\ \A r \in RequestId :
                request'[r].status = IF r = row.id THEN row.status ELSE request[r].status
           /\ \A t \in TradeId :
                trade'[t].status = IF row.status = "COMPLETED" /\ t = row.tradeId
                                   THEN "COMPLETED" ELSE trade[t].status
<1>1. /\ request \in Seq(RequestRow) /\ row.id \in DOMAIN request
      /\ row.status \in RequestStatus
      /\ request' = [request EXCEPT ![row.id].status = row.status]
      /\ trade \in Seq(TradeRow) /\ row.tradeId \in DOMAIN trade
      /\ row.from \in User \cup {NoUser} /\ drafts' = drafts
  BY DEF DbTypeOK, WriteRow, JobRow, RequestId, TradeId
<1>2. /\ request' \in Seq(RequestRow) /\ RequestId' = RequestId
      /\ \A r \in RequestId :
            /\ request'[r].status = IF r = row.id THEN row.status ELSE request[r].status
            /\ request'[r].tradeId = request[r].tradeId
            /\ request'[r].crossTx = request[r].crossTx
  BY <1>1, RequestStatusSet DEF RequestId
<1>3. /\ trade' \in Seq(TradeRow) /\ TradeId' = TradeId
      /\ \A t \in TradeId :
            /\ trade'[t].status = IF row.status = "COMPLETED" /\ t = row.tradeId
                                  THEN "COMPLETED" ELSE trade[t].status
            /\ trade'[t].estateId = trade[t].estateId
            /\ trade'[t].seller = trade[t].seller
  <2>1. CASE row.status # "COMPLETED"
    BY <1>1, <2>1 DEF WriteRow, TradeId
  <2>2. CASE row.status = "COMPLETED"
    <3> DEFINE sold == [trade EXCEPT ![row.tradeId].status = "COMPLETED"]
    <3>1. /\ sold \in Seq(TradeRow) /\ DOMAIN sold = TradeId
          /\ \A t \in TradeId :
                /\ sold[t].status = IF t = row.tradeId THEN "COMPLETED" ELSE trade[t].status
                /\ sold[t].estateId = trade[t].estateId
                /\ sold[t].seller = trade[t].seller
      BY <1>1, TradeStatusSet DEF TradeId, TradeStatus
    <3>2. trade' = [sold EXCEPT ![row.tradeId].buyer = row.from]
      BY <2>2 DEF WriteRow
    <3> HIDE DEF sold
    <3>3. row.tradeId \in DOMAIN sold /\ row.from \in User \cup {NoUser}
      BY <1>1, <3>1 DEF TradeId
    <3>4. /\ trade' \in Seq(TradeRow) /\ DOMAIN trade' = DOMAIN sold
          /\ \A t \in DOMAIN sold :
                /\ trade'[t].status = sold[t].status
                /\ trade'[t].estateId = sold[t].estateId
                /\ trade'[t].seller = sold[t].seller
      <4> DEFINE b == row.from
                 t == row.tradeId
                 new == [sold EXCEPT ![t].buyer = b]
      <4>1. sold \in Seq(TradeRow) /\ t \in DOMAIN sold /\ b \in User \cup {NoUser}
        BY <3>1, <3>3
      <4> HIDE DEF b, t
      <4>2. /\ new \in Seq(TradeRow) /\ DOMAIN new = DOMAIN sold
            /\ \A i \in DOMAIN sold :
                /\ new[i].status = sold[i].status
                /\ new[i].estateId = sold[i].estateId
                /\ new[i].seller = sold[i].seller
        BY <4>1, TradeBuyerSet
      <4>3. trade' = new
        BY <3>2 DEF b, t
      <4> QED  BY <4>2, <4>3
    <3> QED  BY <2>2, <3>1, <3>4 DEF TradeId
  <2> QED  BY <2>1, <2>2
<1>4. DbTypeOK'
  BY <1>1, <1>2, <1>3 DEF DbTypeOK, RequestRow, Draft, TradeRow
<1> QED  BY <1>2, <1>3, <1>4 DEF RowsKept

LEMMA RequestTyped ==
    ASSUME DbTypeOK, NEW r \in RequestId
    PROVE  /\ request[r].tradeId \in TradeId /\ request[r].crossTx \in Tx
           /\ request[r].status \in RequestStatus
<1>1. request \in Seq(RequestRow) /\ r \in DOMAIN request
  BY DEF DbTypeOK, RequestId
<1>2. request[r] \in RequestRow
  BY <1>1, RowsDomain
<1> QED  BY <1>2 DEF RequestRow
-----------------------------------------------------------------------------
(* What the job holds. *)

\* What the chain says of a transaction allows this status to be shown.
Shown(x, status) ==
    /\ status = "ONGOING" => x \in Range(initiated)
    /\ status = "COMPLETED" => decision[x] = "commit"
    /\ status = "FAILED" => decision[x] = "abort"

\* A row of the job is about a request whose verdict nobody has recorded.
Current(tr) ==
    /\ tr.tradeId = request[tr.id].tradeId /\ tr.crossTx = request[tr.id].crossTx
    /\ request[tr.id].status \notin {"COMPLETED", "FAILED"}

JobInv ==
    /\ Range(txs) \subseteq Range(initiated)
    /\ \A tr \in trs : Current(tr)
    /\ pc = "write" => /\ txs # <<>> /\ row \in JobRow /\ Current(row)
                       /\ Shown(row.crossTx, row.status)

IInv ==
    /\ TypeOK
    /\ JobInv
    /\ VerdictFaithful
    /\ CompletedTradeSold

\* What was on the chain stays there, and what was decided is not undecided.
ChainKept ==
    /\ initiated' \in Seq(Tx) /\ decision' \in [Tx -> {"none", "commit", "abort"}]
    /\ Range(initiated) \subseteq Range(initiated)'
    /\ \A x \in Tx : decision[x] # "none" => decision'[x] = decision[x]

LEMMA ShownKept ==
    ASSUME ChainKept, NEW x \in Tx, NEW status, Shown(x, status)
    PROVE  Shown(x, status)'
  BY DEF ChainKept, Shown

LEMMA FaithfulIsShown ==
    /\ VerdictFaithful <=> \A r \in RequestId : Shown(request[r].crossTx, request[r].status)
    /\ VerdictFaithful' <=> (\A r \in RequestId : Shown(request[r].crossTx, request[r].status))'
  BY DEF VerdictFaithful, Shown

\* Steps that the job has no part in: its rows stay current as long as no
\* verdict is recorded.
LEMMA OthersKeepJob ==
    ASSUME TypeOK, JobInv, DbTypeOK', RowsKept, ChainKept, UNCHANGED jobVars,
           \A r \in RequestId : request[r].status \notin {"COMPLETED", "FAILED"}
                => request'[r].status \notin {"COMPLETED", "FAILED"}
    PROVE  TypeOK' /\ JobInv'
<1>1. JobRow \subseteq JobRow'
  BY DEF RowsKept, JobRow
<1>2. TypeOK'
  BY <1>1 DEF TypeOK, ChainTypeOK, ChainKept, jobVars
<1>3. ASSUME NEW tr \in JobRow, Current(tr) PROVE Current(tr)'
  BY <1>3 DEF Current, RowsKept, JobRow
<1>4. \A tr \in trs' : Current(tr)'
  BY <1>3 DEF JobInv, TypeOK, jobVars
<1>5. ASSUME pc' = "write"
      PROVE  txs' # <<>> /\ row' \in JobRow' /\ Current(row)' /\ Shown(row.crossTx, row.status)'
  <2>1. /\ row' = row /\ txs' = txs /\ pc = "write"
        /\ txs # <<>> /\ row \in JobRow /\ Current(row) /\ Shown(row.crossTx, row.status)
    BY <1>5 DEF JobInv, jobVars
  <2>2. row.crossTx \in Tx
    BY <2>1 DEF JobRow
  <2> QED  BY <1>1, <1>3, <2>1, <2>2, ShownKept DEF Current, Shown
<1> QED  BY <1>2, <1>4, <1>5 DEF JobInv, ChainKept, jobVars

\* Statuses that handlers give to requests and trades claim nothing.
LEMMA OthersKeepVerdicts ==
    ASSUME TypeOK, VerdictFaithful, CompletedTradeSold, RowsKept, ChainKept,
           \A r \in RequestId' :
                \/ r \in RequestId /\ request'[r].status = request[r].status
                \/ request'[r].status \in {"OPENED", "CANCELED"},
           \A t \in TradeId' :
                \/ t \in TradeId /\ trade'[t].status = trade[t].status
                \/ trade'[t].status \in {"OPENED", "CANCELED"}
    PROVE  VerdictFaithful' /\ CompletedTradeSold'
<1>1. ASSUME NEW r \in RequestId'
      PROVE  Shown(request[r].crossTx, request[r].status)'
  <2>1. CASE request'[r].status \in {"OPENED", "CANCELED"}
    BY <2>1 DEF Shown
  <2>2. CASE r \in RequestId /\ request'[r].status = request[r].status
    <3>1. /\ request[r].crossTx \in Tx
          /\ request'[r].crossTx = request[r].crossTx
          /\ Shown(request[r].crossTx, request[r].status)
      BY <2>2, FaithfulIsShown, RequestTyped DEF TypeOK, RowsKept
    <3> QED  BY <2>2, <3>1, ShownKept DEF Shown
  <2> QED  BY <1>1, <2>1, <2>2
<1>2. ASSUME NEW t \in TradeId', trade'[t].status = "COMPLETED"
      PROVE  \E r \in RequestId' : /\ request'[r].tradeId = t
                                   /\ decision'[request'[r].crossTx] = "commit"
  <2>1. t \in TradeId /\ trade[t].status = "COMPLETED"
    BY <1>2
  <2>2. PICK r \in RequestId : request[r].tradeId = t /\ decision[request[r].crossTx] = "commit"
    BY <2>1 DEF CompletedTradeSold
  <2>3. request[r].crossTx \in Tx
    BY RequestTyped DEF TypeOK
  <2> QED  BY <2>2, <2>3 DEF RowsKept, ChainKept
<1> QED  BY <1>1, <1>2, FaithfulIsShown DEF CompletedTradeSold
-----------------------------------------------------------------------------
(* The steps of the handlers and of the chain. *)

LEMMA ApiKeeps ==
    ASSUME IInv, ApiStep, UNCHANGED <<chainVars, jobVars>>
    PROVE  IInv'
<1>1. DbTypeOK
  BY DEF IInv, TypeOK
<1>2. ChainKept
  BY DEF ChainKept, chainVars, IInv, TypeOK, ChainTypeOK
<1>3. UNCHANGED jobVars
  OBVIOUS
<1> USE DEF IInv
<1>4. CASE \E e \in Estate, u \in User : PostTrade(e, u)
  <2>1. PICK e \in Estate, u \in User : PostTrade(e, u)
    BY <1>4
  <2>2. /\ DbTypeOK' /\ RowsKept /\ request' = request
        /\ TradeId' = TradeId \cup {Len(trade) + 1}
        /\ \A t \in TradeId : trade'[t].status = trade[t].status
        /\ trade'[Len(trade) + 1].status = "OPENED"
    BY <1>1, <2>1, PostTradeEffect
  <2>3. TypeOK' /\ JobInv'
    BY <1>2, <1>3, <2>2, OthersKeepJob
  <2>4. VerdictFaithful' /\ CompletedTradeSold'
    BY <1>2, <2>2, OthersKeepVerdicts DEF RequestId
  <2> QED  BY <2>3, <2>4
<1>5. CASE \E t \in TradeId : DeleteTrade(t)
  <2>1. PICK t \in TradeId : DeleteTrade(t)
    BY <1>5
  <2>2. /\ DbTypeOK' /\ RowsKept /\ request' = request /\ TradeId' = TradeId
        /\ \A i \in TradeId :
                trade'[i].status = IF i = t THEN "CANCELED" ELSE trade[i].status
    BY <1>1, <2>1, DeleteTradeEffect
  <2>3. TypeOK' /\ JobInv'
    BY <1>2, <1>3, <2>2, OthersKeepJob
  <2>4. VerdictFaithful' /\ CompletedTradeSold'
    BY <1>2, <2>2, OthersKeepVerdicts DEF RequestId
  <2> QED  BY <2>3, <2>4
<1>6. CASE \E t \in TradeId, u \in User, x \in Tx \ UsedTx : GetTxTradeRequest(t, u, x)
  <2>1. PICK t \in TradeId, u \in User, x \in Tx : GetTxTradeRequest(t, u, x)
    BY <1>6
  <2>2. DbTypeOK' /\ RowsKept /\ trade' = trade /\ request' = request
    BY <1>1, <2>1, GetTxEffect
  <2>3. TypeOK' /\ JobInv'
    BY <1>2, <1>3, <2>2, OthersKeepJob
  <2>4. VerdictFaithful' /\ CompletedTradeSold'
    BY <1>2, <2>2, OthersKeepVerdicts DEF RequestId, TradeId
  <2> QED  BY <2>3, <2>4
<1>7. CASE \E d \in drafts : PostTradeRequest(d)
  <2>1. PICK d \in drafts : PostTradeRequest(d)
    BY <1>7
  <2>2. /\ DbTypeOK' /\ RowsKept /\ trade' = trade
        /\ \A r \in RequestId : request'[r].status = request[r].status
        /\ \A r \in RequestId' \ RequestId : request'[r].status = "OPENED"
    BY <1>1, <2>1, PostTradeRequestEffect
  <2>3. TypeOK' /\ JobInv'
    BY <1>2, <1>3, <2>2, OthersKeepJob
  <2>4. VerdictFaithful' /\ CompletedTradeSold'
    BY <1>2, <2>2, OthersKeepVerdicts DEF TradeId
  <2> QED  BY <2>3, <2>4
<1>8. CASE \E r \in RequestId : DeleteTradeRequest(r)
  <2>1. PICK r \in RequestId : DeleteTradeRequest(r)
    BY <1>8
  <2>2. /\ DbTypeOK' /\ RowsKept /\ trade' = trade /\ RequestId' = RequestId
        /\ \A q \in RequestId :
                request'[q].status = IF q = r THEN "CANCELED" ELSE request[q].status
    BY <1>1, <2>1, DeleteTradeRequestEffect
  <2>3. TypeOK' /\ JobInv'
    BY <1>2, <1>3, <2>2, OthersKeepJob
  <2>4. VerdictFaithful' /\ CompletedTradeSold'
    BY <1>2, <2>2, OthersKeepVerdicts DEF TradeId
  <2> QED  BY <2>3, <2>4
<1> QED  BY <1>4, <1>5, <1>6, <1>7, <1>8 DEF ApiStep

LEMMA ChainKeeps ==
    ASSUME IInv, ChainKept, UNCHANGED <<dbVars, jobVars>>
    PROVE  IInv'
<1>1. DbTypeOK' /\ RowsKept /\ trade' = trade /\ request' = request
  BY DEF IInv, TypeOK, dbVars, DbTypeOK, RowsKept, TradeId, RequestId, RequestRow,
         Draft, TradeRow
<1>2. TypeOK' /\ JobInv'
  BY <1>1, OthersKeepJob DEF IInv
<1>3. VerdictFaithful' /\ CompletedTradeSold'
  BY <1>1, OthersKeepVerdicts DEF IInv, TradeId, RequestId
<1> QED  BY <1>2, <1>3 DEF IInv

LEMMA BroadcastKeeps ==
    ASSUME IInv, NEW r \in RequestId, Broadcast(r), UNCHANGED jobVars
    PROVE  IInv'
<1> DEFINE x == request[r].crossTx
<1>1. x \in Tx
  BY RequestTyped DEF IInv, TypeOK
<1>2. initiated \in Seq(Tx) /\ initiated' = Append(initiated, x)
  BY DEF IInv, TypeOK, ChainTypeOK, Broadcast
<1> HIDE DEF x
<1>3. /\ initiated' \in Seq(Tx)
      /\ DOMAIN initiated' = DOMAIN initiated \cup {Len(initiated) + 1}
      /\ \A i \in DOMAIN initiated : initiated'[i] = initiated[i]
  BY <1>1, <1>2, RowInserted
<1>4. ChainKept
  BY <1>3 DEF ChainKept, Broadcast, Range, IInv, TypeOK, ChainTypeOK
<1> QED  BY <1>4, ChainKeeps DEF Broadcast

LEMMA DecideKeeps ==
    ASSUME IInv, NEW x \in Tx, NEW d \in {"commit", "abort"}, Decide(x, d),
           UNCHANGED jobVars
    PROVE  IInv'
<1>1. ChainKept
  BY DEF ChainKept, Decide, IInv, TypeOK, ChainTypeOK
<1> QED  BY <1>1, ChainKeeps DEF Decide
-----------------------------------------------------------------------------
(* The steps of the job. *)

\* All but JobWrite leave the tables and the chain alone.
LEMMA QuietStepKeeps ==
    ASSUME IInv, UNCHANGED <<dbVars, chainVars>>,
           pc' \in {"idle", "fetch", "match", "write"},
           trs' \subseteq JobRow, \A tr \in trs' : Current(tr),
           txs' \in Seq(Tx), Range(txs') \subseteq Range(initiated),
           row' \in JobRow \/ row' = NoRow,
           faults' \in 0 .. MaxFaults,
           pc' = "write" => /\ txs' # <<>> /\ row' \in JobRow /\ Current(row')
                            /\ Shown(row'.crossTx, row'.status)
    PROVE  IInv'
<1>1. /\ TradeId' = TradeId /\ RequestId' = RequestId
      /\ JobRow' = JobRow /\ DbTypeOK' /\ ChainTypeOK'
  BY DEF IInv, TypeOK, DbTypeOK, ChainTypeOK, dbVars, chainVars, TradeId, RequestId,
         JobRow, TradeRow, RequestRow, Draft
<1>2. TypeOK'
  BY <1>1 DEF TypeOK
<1>3. JobInv'
  BY <1>1 DEF JobInv, Current, Shown, dbVars, chainVars
<1>4. VerdictFaithful' /\ CompletedTradeSold'
  BY <1>1 DEF IInv, VerdictFaithful, CompletedTradeSold, dbVars, chainVars
<1> QED  BY <1>2, <1>3, <1>4 DEF IInv

LEMMA SelectKeeps == ASSUME IInv, JobSelect PROVE IInv'
<1>1. ASSUME NEW tr \in SelectedRows PROVE tr \in JobRow /\ Current(tr)
  <2>1. PICK r \in RequestId :
            /\ Selected(request[r].status)
            /\ tr = [id |-> r, tradeId |-> request[r].tradeId, from |-> NoUser,
                     crossTx |-> request[r].crossTx, status |-> request[r].status]
    BY <1>1 DEF SelectedRows
  <2>2. /\ request[r].tradeId \in TradeId /\ request[r].crossTx \in Tx
        /\ request[r].status \in RequestStatus
    BY RequestTyped DEF IInv, TypeOK
  <2> QED  BY <2>1, <2>2 DEF JobRow, Current, Selected
<1>2. /\ trs' = SelectedRows /\ pc = "idle" /\ pc' = "fetch"
      /\ UNCHANGED <<dbVars, chainVars, txs, row, faults>>
  BY DEF JobSelect
<1>3. txs \in Seq(Tx) /\ Range(txs) \subseteq Range(initiated)
      /\ (row \in JobRow \/ row = NoRow) /\ faults \in 0 .. MaxFaults
  BY DEF IInv, TypeOK, JobInv
<1> QED  BY <1>1, <1>2, <1>3, QuietStepKeeps

LEMMA FetchKeeps == ASSUME IInv, JobFetch PROVE IInv'
<1>1. initiated \in Seq(Tx) /\ faults \in 0 .. MaxFaults
  BY DEF IInv, TypeOK, ChainTypeOK
<1>2. txs' \in Seq(Tx) /\ Range(txs') \subseteq Range(initiated) /\ faults' \in 0 .. MaxFaults
  <2>1. CASE txs' = initiated /\ UNCHANGED faults
    BY <1>1, <2>1
  <2>2. CASE /\ faults < MaxFaults /\ faults' = faults + 1
             /\ \E n \in 1 .. Len(initiated) - 1 : txs' = SubSeq(initiated, 1, n)
    <3>1. PICK n \in 1 .. Len(initiated) - 1 : txs' = SubSeq(initiated, 1, n)
      BY <2>2
    <3>2. n \in Int /\ n <= Len(initiated) /\ \A i \in 1 .. n : initiated[i] \in Tx
      BY <1>1, RowsDomain
    <3>3. /\ txs' \in Seq(Tx) /\ Len(txs') = n
          /\ \A i \in 1 .. n : txs'[i] = initiated[i]
      BY <1>1, <3>1, <3>2
    <3>4. DOMAIN txs' = 1 .. n /\ DOMAIN initiated = 1 .. Len(initiated)
      BY <1>1, <3>3
    <3>5. Range(txs') \subseteq Range(initiated)
      BY <3>2, <3>3, <3>4 DEF Range
    <3> QED  BY <1>1, <2>2, <3>3, <3>5, JobAssumption
  <2> QED  BY <2>1, <2>2 DEF JobFetch
<1>3. /\ trs \subseteq JobRow /\ \A tr \in trs : Current(tr)
      /\ (row \in JobRow \/ row = NoRow)
  BY DEF IInv, TypeOK, JobInv
<1>4. pc' = "match" /\ UNCHANGED <<dbVars, chainVars, trs, row>>
  BY DEF JobFetch
<1> QED  BY <1>2, <1>3, <1>4, QuietStepKeeps

\* The first transaction is on the chain, and so are those behind it.
LEMMA HeadOfTxs ==
    ASSUME NEW s \in Seq(Tx), s # <<>>
    PROVE  /\ Head(s) \in Tx /\ Head(s) \in Range(s)
           /\ Tail(s) \in Seq(Tx) /\ Range(Tail(s)) \subseteq Range(s)
<1>1. /\ Len(s) \in Nat \ {0} /\ DOMAIN s = 1 .. Len(s) /\ Head(s) = s[1] /\ s[1] \in Tx
  OBVIOUS
<1>2. /\ Tail(s) \in Seq(Tx) /\ DOMAIN Tail(s) = 1 .. Len(s) - 1
      /\ \A i \in 1 .. Len(s) - 1 : Tail(s)[i] = s[i + 1] /\ i + 1 \in DOMAIN s
  BY <1>1
<1> QED  BY <1>1, <1>2 DEF Range

LEMMA StatusShown ==
    ASSUME TypeOK, NEW x \in Tx, x \in Range(initiated)
    PROVE  CoordinatorStatus(x) \in RequestStatus /\ Shown(x, CoordinatorStatus(x))
<1>1. decision[x] \in {"none", "commit", "abort"}
  BY DEF TypeOK, ChainTypeOK
<1> QED  BY <1>1 DEF CoordinatorStatus, Shown, RequestStatus

LEMMA MatchKeeps == ASSUME IInv, JobMatch PROVE IInv'
<1> DEFINE x == Head(txs)
           matching == {tr \in trs : tr.crossTx = x}
           status == CoordinatorStatus(x)
<1>1. /\ txs \in Seq(Tx) /\ txs # <<>> /\ faults \in 0 .. MaxFaults
      /\ trs \subseteq JobRow /\ \A tr \in trs : Current(tr)
      /\ Range(txs) \subseteq Range(initiated)
      /\ (row \in JobRow \/ row = NoRow)
  BY DEF IInv, TypeOK, JobInv, JobMatch
<1>2. /\ x \in Tx /\ x \in Range(initiated)
      /\ Tail(txs) \in Seq(Tx) /\ Range(Tail(txs)) \subseteq Range(initiated)
  BY <1>1, HeadOfTxs
<1>3. status \in RequestStatus /\ Shown(x, status)
  BY <1>2, StatusShown DEF IInv
<1>4. pc = "match" /\ UNCHANGED <<dbVars, chainVars, faults>>
  BY DEF JobMatch
<1>5. CASE \E tr \in matching : tr.status # status
  <2>1. /\ \E tr \in matching : row' = [tr EXCEPT !.status = status]
        /\ pc' = "write" /\ UNCHANGED <<trs, txs>>
    BY <1>5 DEF JobMatch
  <2>2. PICK tr \in matching : row' = [tr EXCEPT !.status = status]
    BY <2>1
  <2>3. tr \in JobRow /\ Current(tr) /\ tr.crossTx = x
    BY <1>1, <2>2
  <2> HIDE DEF x, status, matching
  <2>4. /\ row' \in JobRow /\ row'.id = tr.id /\ row'.tradeId = tr.tradeId
        /\ row'.crossTx = x /\ row'.status = status
    BY <1>3, <2>2, <2>3 DEF JobRow
  <2>5. Current(row') /\ Shown(row'.crossTx, row'.status)
    BY <1>3, <2>3, <2>4 DEF Current
  <2> QED  BY <1>1, <1>4, <2>1, <2>4, <2>5, QuietStepKeeps
<1>6. CASE ~ \E tr \in matching : tr.status # status
  <2>1. /\ trs' = trs \ matching /\ txs' = Tail(txs) /\ UNCHANGED <<pc, row>>
    BY <1>6 DEF JobMatch
  <2>2. trs' \subseteq JobRow /\ \A tr \in trs' : Current(tr)
    BY <1>1, <2>1
  <2> QED  BY <1>1, <1>2, <1>4, <2>1, <2>2, QuietStepKeeps
<1> QED  BY <1>5, <1>6

LEMMA IdleKeeps ==
    ASSUME IInv, Idle, UNCHANGED <<dbVars, chainVars>>, faults' \in 0 .. MaxFaults
    PROVE  IInv'
<1>1. /\ pc' = "idle" /\ trs' = {} /\ txs' = <<>> /\ row' = NoRow
  BY DEF Idle
<1>2. txs' \in Seq(Tx) /\ Range(txs') \subseteq Range(initiated)
  BY <1>1 DEF Range
<1> QED  BY <1>1, <1>2, QuietStepKeeps

\* What is written is shown of the row's own transaction, and a trade that is
\* completed has the request of the row.
LEMMA WriteKeeps == ASSUME IInv, JobWrite PROVE IInv'
<1>1. /\ DbTypeOK /\ pc = "write" /\ txs # <<>> /\ txs \in Seq(Tx)
      /\ row \in JobRow /\ Current(row) /\ Shown(row.crossTx, row.status)
      /\ trs \subseteq JobRow /\ \A tr \in trs : Current(tr)
      /\ Range(txs) \subseteq Range(initiated) /\ faults \in 0 .. MaxFaults
  BY DEF IInv, TypeOK, JobInv, JobWrite
<1>2. /\ WriteRow /\ UNCHANGED <<chainVars, faults>>
      /\ trs' = {tr \in trs : tr.id # row.id} /\ txs' = Tail(txs)
      /\ row' = NoRow /\ pc' = "match"
  BY DEF JobWrite
<1>3. /\ DbTypeOK' /\ RowsKept
      /\ TradeId' = TradeId /\ RequestId' = RequestId
      /\ \A r \in RequestId :
            request'[r].status = IF r = row.id THEN row.status ELSE request[r].status
      /\ \A t \in TradeId :
            trade'[t].status = IF row.status = "COMPLETED" /\ t = row.tradeId
                               THEN "COMPLETED" ELSE trade[t].status
  BY <1>1, <1>2, WriteRowEffect
<1>4. /\ Tail(txs) \in Seq(Tx) /\ Range(Tail(txs)) \subseteq Range(initiated)
  BY <1>1, HeadOfTxs
<1>5. JobRow' = JobRow
  BY <1>3 DEF JobRow
<1>6. TypeOK'
  <2>1. ChainTypeOK'
    BY <1>2 DEF IInv, TypeOK, ChainTypeOK, chainVars
  <2> QED  BY <1>1, <1>2, <1>3, <1>4, <1>5, <2>1 DEF TypeOK
<1>7. ASSUME NEW tr \in trs' PROVE Current(tr)'
  <2>1. tr \in JobRow /\ tr.id # row.id /\ Current(tr)
    BY <1>1, <1>2, <1>7
  <2>2. tr.id \in RequestId
    BY <2>1 DEF JobRow
  <2> QED  BY <1>3, <2>1, <2>2 DEF Current, RowsKept
<1>8. JobInv'
  BY <1>2, <1>4, <1>7 DEF JobInv, chainVars
<1>9. VerdictFaithful'
  <2>1. ASSUME NEW r \in RequestId' PROVE Shown(request[r].crossTx, request[r].status)'
    <3>1. /\ r \in RequestId /\ request'[r].crossTx = request[r].crossTx
          /\ Shown(request[r].crossTx, request[r].status)
      BY <1>3, FaithfulIsShown DEF IInv, RowsKept
    <3>2. r = row.id => request'[r].crossTx = row.crossTx /\ request'[r].status = row.status
      BY <1>1, <1>3, <3>1 DEF Current
    <3>3. r # row.id => request'[r].status = request[r].status
      BY <1>3, <3>1
    <3> QED  BY <1>1, <1>2, <3>1, <3>2, <3>3 DEF Shown, chainVars
  <2> QED  BY <2>1, FaithfulIsShown
<1>10. CompletedTradeSold'
  <2>1. ASSUME NEW t \in TradeId', trade'[t].status = "COMPLETED"
        PROVE  \E r \in RequestId' : /\ request'[r].tradeId = t
                                     /\ decision'[request'[r].crossTx] = "commit"
    <3>1. CASE row.status = "COMPLETED" /\ t = row.tradeId
      <4>1. row.id \in RequestId
        BY <1>1 DEF JobRow
      <4> QED  BY <1>1, <1>2, <1>3, <3>1, <4>1 DEF Current, Shown, RowsKept, chainVars
    <3>2. CASE ~(row.status = "COMPLETED" /\ t = row.tradeId)
      <4>1. t \in TradeId /\ trade[t].status = "COMPLETED"
        BY <1>3, <2>1, <3>2
      <4>2. PICK r \in RequestId : request[r].tradeId = t /\ decision[request[r].crossTx] = "commit"
        BY <4>1 DEF IInv, CompletedTradeSold
      <4> QED  BY <1>2, <1>3, <4>2 DEF RowsKept, chainVars
    <3> QED  BY <3>1, <3>2
  <2> QED  BY <2>1 DEF CompletedTradeSold
<1> QED  BY <1>6, <1>8, <1>9, <1>10 DEF IInv
-----------------------------------------------------------------------------
(* The invariant, and what it implies. *)

LEMMA IInvInit == Init => IInv
<1> SUFFICES ASSUME Init PROVE IInv
  OBVIOUS
<1>1. /\ trade = <<>> /\ request = <<>> /\ drafts = {} /\ initiated = <<>>
      /\ decision = [x \in Tx |-> "none"]
      /\ pc = "idle" /\ trs = {} /\ txs = <<>> /\ row = NoRow /\ faults = 0
  BY DEF Init, BookInit, DbInit, ChainInit
<1>2. TypeOK
  BY <1>1, JobAssumption DEF TypeOK, DbTypeOK, ChainTypeOK
<1>3. JobInv
  BY <1>1 DEF JobInv, Range
<1>4. VerdictFaithful /\ CompletedTradeSold
  BY <1>1 DEF VerdictFaithful, CompletedTradeSold, RequestId, TradeId
<1> QED  BY <1>2, <1>3, <1>4 DEF IInv

LEMMA IInvStep == IInv /\ [Next]_vars => IInv'
<1> SUFFICES ASSUME IInv, [Next]_vars PROVE IInv'
  OBVIOUS
<1>1. CASE ApiStep /\ UNCHANGED <<chainVars, jobVars>>
  BY <1>1, ApiKeeps
<1>2. CASE \E r \in RequestId : Broadcast(r) /\ UNCHANGED jobVars
  BY <1>2, BroadcastKeeps
<1>3. CASE \E x \in Tx, d \in {"commit", "abort"} : Decide(x, d) /\ UNCHANGED jobVars
  BY <1>3, DecideKeeps
<1>4. CASE JobStep
  <2>1. CASE JobSelect
    BY <2>1, SelectKeeps
  <2>2. CASE JobFetch
    BY <2>2, FetchKeeps
  <2>3. CASE JobMatch
    BY <2>3, MatchKeeps
  <2>4. CASE JobWrite
    BY <2>4, WriteKeeps
  <2>5. CASE JobEnd
    BY <2>5, IdleKeeps DEF JobEnd, IInv, TypeOK
  <2> QED  BY <1>4, <2>1, <2>2, <2>3, <2>4, <2>5 DEF JobStep
<1>5. CASE JobAbandon
  <2>1. faults' \in 0 .. MaxFaults
    BY <1>5, JobAssumption DEF JobAbandon, IInv, TypeOK
  <2> QED  BY <1>5, <2>1, IdleKeeps DEF JobAbandon
<1>6. CASE UNCHANGED vars
  <2>1. ChainKept
    BY <1>6 DEF ChainKept, vars, chainVars, IInv, TypeOK, ChainTypeOK
  <2> QED  BY <1>6, <2>1, ChainKeeps DEF vars
<1> QED  BY <1>1, <1>2, <1>3, <1>4, <1>5, <1>6 DEF Next

THEOREM JobInvariant == Spec => []IInv
  BY IInvInit, IInvStep, PTL DEF Spec

\* The tables, the coordinator and the job keep their types, although the job
\* writes rows that it read several requests ago.
THEOREM TypeCorrect == Spec => []TypeOK
<1>1. IInv => TypeOK
  BY DEF IInv
<1> QED  BY <1>1, JobInvariant, PTL

\* No status that the job writes lands on a request whose transaction the
\* chain says something else about (job.go:90-121), whatever is cancelled or
\* goes wrong between the read and the write.
THEOREM VerdictsFaithful == Spec => []VerdictFaithful
<1>1. IInv => VerdictFaithful
  BY DEF IInv
<1> QED  BY <1>1, JobInvariant, PTL

\* A trade is shown as sold only if one of its requests was committed
\* (api_trade_service.go:337-345).
THEOREM CompletedTradesSold == Spec => []CompletedTradeSold
<1>1. IInv => CompletedTradeSold
  BY DEF IInv
<1> QED  BY <1>1, JobInvariant, PTL
-----------------------------------------------------------------------------
(* Recorded verdicts stay. *)

LEMMA HandlersCancelOnly ==
    ASSUME DbTypeOK, ApiStep
    PROVE  /\ RowsKept
           /\ \A r \in RequestId : \/ request'[r].status = request[r].status
                                   \/ request'[r].status = "CANCELED"
<1>1. CASE \E e \in Estate, u \in User : PostTrade(e, u)
  BY <1>1, PostTradeEffect
<1>2. CASE \E t \in TradeId : DeleteTrade(t)
  BY <1>2, DeleteTradeEffect
<1>3. CASE \E t \in TradeId, u \in User, x \in Tx \ UsedTx : GetTxTradeRequest(t, u, x)
  BY <1>3, GetTxEffect
<1>4. CASE \E d \in drafts : PostTradeRequest(d)
  BY <1>4, PostTradeRequestEffect
<1>5. CASE \E r \in RequestId : DeleteTradeRequest(r)
  BY <1>5, DeleteTradeRequestEffect
<1> QED  BY <1>1, <1>2, <1>3, <1>4, <1>5 DEF ApiStep

VerdictsStayStep ==
    \A r \in RequestId :
        /\ request[r].status \in {"COMPLETED", "FAILED"}
        /\ request'[r].status # request[r].status
        => request'[r].status = "CANCELED"

\* A verdict that is recorded is replaced by nothing but a cancel: a row that
\* the job still holds belongs to a request whose verdict is not recorded yet.
THEOREM VerdictsStay == Spec => VerdictStays
<1>1. ASSUME IInv, [Next]_vars PROVE VerdictsStayStep
  <2>1. DbTypeOK
    BY <1>1 DEF IInv, TypeOK
  <2>2. CASE ApiStep
    BY <2>1, <2>2, HandlersCancelOnly DEF VerdictsStayStep
  <2>3. CASE JobWrite
    <3>1. /\ row \in JobRow /\ WriteRow
          /\ request[row.id].status \notin {"COMPLETED", "FAILED"}
      BY <1>1, <2>3 DEF JobWrite, IInv, JobInv, Current
    <3>2. \A r \in RequestId :
            request'[r].status = IF r = row.id THEN row.status ELSE request[r].status
      BY <2>1, <3>1, WriteRowEffect
    <3> QED  BY <3>1, <3>2 DEF VerdictsStayStep
  <2>4. CASE request' = request
    BY <2>4 DEF VerdictsStayStep
  <2>5. ApiStep \/ JobWrite \/ request' = request
    BY <1>1 DEF Next, vars, dbVars, Broadcast, Decide, JobStep, JobSelect, JobFetch,
                JobMatch, JobEnd, JobAbandon
  <2> QED  BY <2>2, <2>3, <2>4, <2>5
<1>2. VerdictsStayStep => [\A r \in RequestId :
            /\ request[r].status \in {"COMPLETED", "FAILED"}
            /\ request'[r].status # request[r].status
            => request'[r].status = "CANCELED"]_vars
  BY DEF VerdictsStayStep
<1> QED  BY <1>1, <1>2, JobInvariant, PTL DEF Spec, VerdictStays
-----------------------------------------------------------------------------
(* Sell offers. *)

\* An offer stays where and whose it is, and is never opened again.
LEMMA TradesKept ==
    ASSUME IInv, [Next]_vars, ~ \E e \in Estate, u \in User : PostTrade(e, u)
    PROVE  /\ TradeId' = TradeId
           /\ \A t \in TradeId :
                /\ trade'[t].estateId = trade[t].estateId
                /\ trade'[t].seller = trade[t].seller
                /\ trade'[t].status = "OPENED" => trade[t].status = "OPENED"
<1>1. DbTypeOK
  BY DEF IInv, TypeOK
<1>2. CASE \E t \in TradeId : DeleteTrade(t)
  BY <1>1, <1>2, DeleteTradeEffect DEF RowsKept
<1>3. CASE JobWrite
  <2>1. row \in JobRow /\ WriteRow
    BY <1>3 DEF JobWrite, IInv, JobInv
  <2> QED  BY <1>1, <2>1, WriteRowEffect DEF RowsKept
<1>4. CASE trade' = trade
  BY <1>4 DEF TradeId
<1>5. (\E t \in TradeId : DeleteTrade(t)) \/ JobWrite \/ trade' = trade
  BY DEF Next, ApiStep, GetTxTradeRequest, PostTradeRequest, DeleteTradeRequest, vars,
         dbVars, Broadcast, Decide, JobStep, JobSelect, JobFetch, JobMatch, JobEnd,
         JobAbandon
<1> QED  BY <1>2, <1>3, <1>4, <1>5

\* A seller has one open sell offer of an estate at a time
\* (api_trade_service.go:206-216), whatever the job and the other handlers do.
THEOREM OneOpenTradeEach == Spec => []OneOpenTrade
<1>1. Init => OneOpenTrade
  BY DEF Init, BookInit, DbInit, OneOpenTrade, TradeId
<1>2. ASSUME IInv, OneOpenTrade, [Next]_vars PROVE OneOpenTrade'
  <2>1. CASE \E e \in Estate, u \in User : PostTrade(e, u)
    <3>1. PICK e \in Estate, u \in User : PostTrade(e, u)
      BY <2>1
    <3>2. /\ RowsKept
          /\ \A t \in TradeId : trade'[t].status = trade[t].status
          /\ TradeId' = TradeId \cup {Len(trade) + 1}
          /\ trade'[Len(trade) + 1].estateId = e
          /\ trade'[Len(trade) + 1].seller = u
      BY <1>2, <3>1, PostTradeEffect DEF IInv, TypeOK
    <3>3. \A t \in TradeId : ~ /\ trade[t].estateId = e /\ trade[t].seller = u
                               /\ trade[t].status = "OPENED"
      BY <3>1 DEF PostTrade, OpenTrades
    <3> QED  BY <1>2, <3>2, <3>3 DEF OneOpenTrade, RowsKept
  <2>2. CASE ~ \E e \in Estate, u \in User : PostTrade(e, u)
    BY <1>2, <2>2, TradesKept DEF OneOpenTrade
  <2> QED  BY <2>1, <2>2
<1> QED  BY <1>1, <1>2, JobInvariant, PTL DEF Spec
-----------------------------------------------------------------------------
(* The job implements TradeBook. *)

\* What is about to be written is something the coordinator was asked.
RowTells == pc = "write" => row.status \in {"ONGOING", "COMPLETED", "FAILED"}

LEMMA RowTellsStep ==
    ASSUME IInv, RowTells, [Next]_vars
    PROVE  RowTells'
<1>1. CASE JobMatch
  <2> DEFINE x == Head(txs)
             status == CoordinatorStatus(x)
  <2>1. CASE pc' = "write"
    <3>1. PICK tr \in trs : row' = [tr EXCEPT !.status = status]
      BY <1>1, <2>1 DEF JobMatch
    <3>2. tr \in JobRow
      BY DEF IInv, TypeOK
    <3>3. x \in Tx
      BY <1>1, HeadOfTxs DEF IInv, TypeOK, JobMatch, JobInv
    <3>4. status \in {"ONGOING", "COMPLETED", "FAILED"}
      <4>1. decision[x] \in {"none", "commit", "abort"}
        BY <3>3 DEF IInv, TypeOK, ChainTypeOK
      <4> QED  BY <4>1 DEF CoordinatorStatus
    <3> HIDE DEF status
    <3> QED  BY <3>1, <3>2, <3>4 DEF RowTells, JobRow
  <2>2. CASE pc' # "write"
    BY <2>2 DEF RowTells
  <2> QED  BY <2>1, <2>2
<1>2. CASE pc' # "write" \/ UNCHANGED <<pc, row>>
  BY <1>2 DEF RowTells
<1>3. JobMatch \/ pc' # "write" \/ UNCHANGED <<pc, row>>
  BY DEF Next, vars, jobVars, JobStep, JobSelect, JobFetch, JobWrite, JobEnd, JobAbandon, Idle
<1> QED  BY <1>1, <1>2, <1>3

\* The job's write is the recording of the verdict of the row's own request, or
\* that it is awaited; the status that it replaces is one that is looked at.
LEMMA WriteRecords ==
    ASSUME IInv, RowTells, JobWrite
    PROVE  RecordStep
<1> DEFINE r == row.id
           x == request[r].crossTx
<1>1. /\ row \in JobRow /\ Current(row) /\ Shown(row.crossTx, row.status)
      /\ row.status \in {"ONGOING", "COMPLETED", "FAILED"}
      /\ WriteRow /\ UNCHANGED chainVars
  BY DEF IInv, JobInv, RowTells, JobWrite
<1>2. /\ r \in RequestId /\ row.from = NoUser
      /\ row.tradeId = request[r].tradeId /\ row.crossTx = x
  BY <1>1 DEF JobRow, Current
<1>3. Selected(request[r].status)
  <2>1. request[r].status \in RequestStatus
    BY <1>2, RequestTyped DEF IInv, TypeOK
  <2> QED  BY <1>1, <2>1 DEF Current, RequestStatus, Selected
<1>4. Record(r, row.status)
  BY <1>1, <1>2 DEF WriteRow, Record
<1>5. CASE row.status = "ONGOING"
  <2>1. x \in Range(initiated)
    BY <1>1, <1>2, <1>5 DEF Shown
  <2>2. RecordOngoing(r)
    BY <1>1, <1>3, <1>4, <1>5, <2>1 DEF RecordOngoing
  <2> QED  BY <1>2, <2>2 DEF RecordStep
<1>6. CASE row.status \in {"COMPLETED", "FAILED"}
  <2>1. decision[x] # "none" /\ CoordinatorStatus(x) = row.status
    BY <1>1, <1>2, <1>6 DEF Shown, CoordinatorStatus
  <2>2. RecordVerdict(r)
    BY <1>1, <1>3, <1>4, <2>1 DEF RecordVerdict
  <2> QED  BY <1>2, <2>2 DEF RecordStep
<1> QED  BY <1>1, <1>5, <1>6

LEMMA BookStep ==
    ASSUME IInv, RowTells, [Next]_vars
    PROVE  [BookNext]_bookVars
<1>1. CASE JobWrite
  BY <1>1, WriteRecords DEF BookNext
<1>2. CASE ApiStep /\ UNCHANGED <<chainVars, jobVars>>
  BY <1>2 DEF BookNext
<1>3. CASE \E r \in RequestId : Broadcast(r) /\ UNCHANGED jobVars
  BY <1>3 DEF BookNext
<1>4. CASE \E x \in Tx, d \in {"commit", "abort"} : Decide(x, d) /\ UNCHANGED jobVars
  BY <1>4 DEF BookNext
<1>5. CASE UNCHANGED <<dbVars, chainVars>>
  BY <1>5 DEF bookVars
<1>6. \/ JobWrite \/ UNCHANGED <<dbVars, chainVars>>
      \/ ApiStep /\ UNCHANGED <<chainVars, jobVars>>
      \/ \E r \in RequestId : Broadcast(r) /\ UNCHANGED jobVars
      \/ \E x \in Tx, d \in {"commit", "abort"} : Decide(x, d) /\ UNCHANGED jobVars
  BY DEF Next, vars, JobStep, JobSelect, JobFetch, JobMatch, JobEnd, JobAbandon
<1> QED  BY <1>1, <1>2, <1>3, <1>4, <1>5, <1>6

\* The job, with its reads that are old when they are used, its errors and
\* restarts, does to the tables what TradeBook has happen in one step (the
\* safety of BookSpec; that each verdict is recorded is left to the run).
THEOREM JobIsBook == Spec => BookInit /\ [][BookNext]_bookVars
<1>1. Init => IInv /\ RowTells /\ BookInit
  BY IInvInit DEF Init, RowTells
<1>2. IInv /\ RowTells /\ [Next]_vars => IInv' /\ RowTells'
  BY IInvStep, RowTellsStep
<1>3. IInv /\ RowTells /\ [Next]_vars => [BookNext]_bookVars
  BY BookStep
<1> QED  BY <1>1, <1>2, <1>3, PTL DEF Spec
=============================================================================
