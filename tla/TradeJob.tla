------------------------------- MODULE TradeJob -------------------------------
(***************************************************************************)
(* The job of backend/apiserver/api/job.go, which copies the coordinator's *)
(* verdict on cross-chain transactions to the trade tables, together with  *)
(* the handlers of TradeApi, which write the same tables while it runs.    *)
(*                                                                         *)
(* It implements TradeBook: BookSpec is what it promises.                  *)
(***************************************************************************)
EXTENDS TradeBook

CONSTANT MaxFaults    \* bound: the database and HTTP errors the job meets

ASSUME JobAssumption == MaxFaults \in Nat

VARIABLES
    pc,          \* the job: "idle", "fetch", "match" or "write"
    trs,         \* the job's rows: those selected and not matched yet
    txs,         \* the job's transactions: those fetched and not looked at yet
    row,         \* the row it is about to write
    faults       \* errors the job has met

jobVars == <<pc, trs, txs, row, faults>>
vars == <<dbVars, chainVars, jobVars>>

NoRow == [id |-> 0]

Init ==
    /\ BookInit
    /\ pc = "idle" /\ trs = {} /\ txs = <<>> /\ row = NoRow /\ faults = 0
-----------------------------------------------------------------------------
\* The rows as the job reads them: the query leaves out the column "from".
SelectedRows ==
    {[id |-> r, tradeId |-> request[r].tradeId, from |-> NoUser,
      crossTx |-> request[r].crossTx, status |-> request[r].status] :
        r \in {q \in RequestId : Selected(request[q].status)}}

Idle == pc' = "idle" /\ trs' = {} /\ txs' = <<>> /\ row' = NoRow

\* STEP 1.  With no row to update the pass is over.
JobSelect ==
    /\ pc = "idle"
    /\ trs' = SelectedRows
    /\ trs' # {}
    /\ pc' = "fetch"
    /\ UNCHANGED <<dbVars, chainVars, txs, row, faults>>

\* STEP 2: all pages of transactions; when a page after the first one fails,
\* the job goes on with those before it.
JobFetch ==
    /\ pc = "fetch"
    /\ pc' = "match"
    /\ \/ txs' = initiated /\ UNCHANGED faults
       \/ /\ faults < MaxFaults /\ faults' = faults + 1
          /\ \E n \in 1 .. Len(initiated) - 1 : txs' = SubSeq(initiated, 1, n)
    /\ UNCHANGED <<dbVars, chainVars, trs, row>>

\* STEP 3 and 4: the first transaction that is left is looked up among the
\* rows; if it is there, the coordinator is asked for its status.
JobMatch ==
    /\ pc = "match" /\ txs # <<>>
    /\ LET matching == {tr \in trs : tr.crossTx = Head(txs)}
           status   == CoordinatorStatus(Head(txs))
       IN  IF \E tr \in matching : tr.status # status
           THEN /\ \E tr \in matching : row' = [tr EXCEPT !.status = status]
                /\ pc' = "write"
                /\ UNCHANGED <<trs, txs>>
           ELSE /\ trs' = trs \ matching
                /\ txs' = Tail(txs)
                /\ UNCHANGED <<pc, row>>
    /\ UNCHANGED <<dbVars, chainVars, faults>>

\* A fault: the status is written to all requests of the trade.
JobWriteByTrade ==
    /\ pc = "write"
    /\ request' = [r \in RequestId |->
            IF request[r].tradeId = row.tradeId
            THEN [request[r] EXCEPT !.status = row.status] ELSE request[r]]
    /\ trade' = trade
    /\ trs' = {tr \in trs : tr.id # row.id}
    /\ txs' = Tail(txs)
    /\ row' = NoRow
    /\ pc' = "match"
    /\ UNCHANGED <<drafts, chainVars, faults>>

\* A fault: the trade of a completed request is left as it is.
WriteRequestOnly ==
    /\ request' = [request EXCEPT ![row.id].status = row.status]
    /\ UNCHANGED <<trade, drafts>>

\* UpdateTradeRequestStatus: one database transaction for the request and,
\* when it is completed, for its trade, over whatever they are by now.
WriteRow ==
    /\ request' = [request EXCEPT ![row.id].status = row.status]
    /\ trade' = IF row.status = "COMPLETED"
                THEN [trade EXCEPT ![row.tradeId].status = "COMPLETED",
                                   ![row.tradeId].buyer = row.from]
                ELSE trade
    /\ UNCHANGED drafts

JobWrite ==
    /\ pc = "write"
    /\ WriteRow
    /\ trs' = {tr \in trs : tr.id # row.id}
    /\ txs' = Tail(txs)
    /\ row' = NoRow
    /\ pc' = "match"
    /\ UNCHANGED <<chainVars, faults>>

JobEnd ==
    /\ pc = "match" /\ txs = <<>>
    /\ Idle
    /\ UNCHANGED <<dbVars, chainVars, faults>>

\* An error of the database or of a request to the coordinator ends the pass,
\* what it had left to do undone; so does a restart of the server.
JobAbandon ==
    /\ pc # "idle"
    /\ faults < MaxFaults /\ faults' = faults + 1
    /\ Idle
    /\ UNCHANGED <<dbVars, chainVars>>

JobStep == JobSelect \/ JobFetch \/ JobMatch \/ JobWrite \/ JobEnd
-----------------------------------------------------------------------------
Next ==
    \/ ApiStep /\ UNCHANGED <<chainVars, jobVars>>
    \/ \E r \in RequestId : Broadcast(r) /\ UNCHANGED jobVars
    \/ \E x \in Tx, d \in {"commit", "abort"} : Decide(x, d) /\ UNCHANGED jobVars
    \/ JobStep
    \/ JobAbandon

\* The ticker keeps the job going; nobody has to post, cancel or broadcast.
Spec == Init /\ [][Next]_vars /\ WF_vars(JobStep)
-----------------------------------------------------------------------------
JobRow == [id : RequestId, tradeId : TradeId, from : {NoUser}, crossTx : Tx,
           status : RequestStatus]

\* Types of the tables, the coordinator and the job.
TypeOK ==
    /\ DbTypeOK
    /\ ChainTypeOK
    /\ pc \in {"idle", "fetch", "match", "write"}
    /\ trs \subseteq JobRow
    /\ txs \in Seq(Tx)
    /\ row \in JobRow \/ row = NoRow
    /\ faults \in 0 .. MaxFaults

\* A trade is shown as sold only if one of its requests was committed.
CompletedTradeSold ==
    \A t \in TradeId : trade[t].status = "COMPLETED" =>
        \E r \in RequestId : /\ request[r].tradeId = t
                             /\ decision[request[r].crossTx] = "commit"

\* A verdict that was recorded is not taken back by the job: only a cancel
\* replaces it.
VerdictStays ==
    [][\A r \in RequestId :
            /\ request[r].status \in {"COMPLETED", "FAILED"}
            /\ request'[r].status # request[r].status
            => request'[r].status = "CANCELED"]_vars

\* api_trade_service.go:294: if a request was cancelled after its transaction
\* was broadcast, the chain's verdict supersedes the cancel.  Whatever was
\* cancelled, each decided transaction of a request gets recorded.
VerdictRecorded ==
    \A r \in 1 .. Cardinality(Tx) :
        r \in RequestId /\ decision[request[r].crossTx] # "none"
            ~> r \in RequestId
               /\ request[r].status = CoordinatorStatus(request[r].crossTx)

\* api_trade_service.go:337: if the status of a request is completed, then
\* the trade is updated also.
CompletedRequestCompletesTrade ==
    \A r \in RequestId : request[r].status = "COMPLETED" =>
        trade[request[r].tradeId].status = "COMPLETED"
=============================================================================
