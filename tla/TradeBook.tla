------------------------------ MODULE TradeBook ------------------------------
(***************************************************************************)
(* The trade tables and the coordinator's verdicts, as their readers may   *)
(* think of them: a transaction is broadcast, decided once, and at some    *)
(* time the request it belongs to, and its trade, are updated in one step. *)
(* This is what the job (module TradeJob) promises, and all that the pages *)
(* (module OrderFlow) know of it.                                          *)
(*                                                                         *)
(* The coordinator chain is external: src/ broadcasts to it and asks it.   *)
(***************************************************************************)
EXTENDS TradeApi, FiniteSets, Functions

VARIABLES
    initiated,   \* coordinator: the MsgInitiate transactions, in block order
    decision     \* coordinator: what it decided of each

chainVars == <<initiated, decision>>
bookVars == <<dbVars, chainVars>>

ChainInit ==
    /\ initiated = <<>>
    /\ decision = [x \in Tx |-> "none"]

BookInit == DbInit /\ ChainInit
-----------------------------------------------------------------------------
\* The seller signs the transaction of a request and broadcasts it.  The page
\* it is done from may be older than a cancel, so no status stands in the way;
\* a transaction that is on the chain is not accepted again.
Broadcast(r) ==
    LET x == request[r].crossTx
    IN  /\ x \notin Range(initiated)
        /\ initiated' = Append(initiated, x)
        /\ UNCHANGED <<dbVars, decision>>

\* The two-phase commit of a transaction ends: all participants committed or
\* all aborted.
Decide(x, d) ==
    /\ x \in Range(initiated)
    /\ decision[x] = "none"
    /\ decision' = [decision EXCEPT ![x] = d]
    /\ UNCHANGED <<dbVars, initiated>>

\* A fault: a request that was cancelled is not looked at again.
SelectedLive(status) == status \in {"OPENED", "ONGOING"}

\* Cancelled requests are selected: if one is on the chain, the chain's
\* verdict replaces the cancel.
Selected(status) == status \in {"OPENED", "CANCELED", "ONGOING"}

\* A fault: a transaction that has ended counts as completed.
CoordinatorStatusDecided(x) ==
    IF decision[x] = "none" THEN "ONGOING" ELSE "COMPLETED"

\* A fault: the coordinator's word for its decision is stored as it is.
CoordinatorStatusRaw(x) == decision[x]

CoordinatorStatus(x) ==
    CASE decision[x] = "commit" -> "COMPLETED"
      [] decision[x] = "abort"  -> "FAILED"
      [] decision[x] = "none"   -> "ONGOING"

\* The tables once a request was found to be in a status.  A completed
\* request completes its trade, whose buyer is left empty.
Record(r, status) ==
    /\ request' = [request EXCEPT ![r].status = status]
    /\ trade' = IF status = "COMPLETED"
                THEN [trade EXCEPT ![request[r].tradeId].status = "COMPLETED",
                                   ![request[r].tradeId].buyer = NoUser]
                ELSE trade
    /\ UNCHANGED drafts

\* The verdict is recorded; or, before that or late, that it is awaited.
RecordVerdict(r) ==
    /\ Selected(request[r].status)
    /\ decision[request[r].crossTx] # "none"
    /\ Record(r, CoordinatorStatus(request[r].crossTx))
    /\ UNCHANGED chainVars

RecordOngoing(r) ==
    /\ Selected(request[r].status)
    /\ request[r].crossTx \in Range(initiated)
    /\ Record(r, "ONGOING")
    /\ UNCHANGED chainVars

RecordStep == \E r \in RequestId : RecordVerdict(r) \/ RecordOngoing(r)
-----------------------------------------------------------------------------
BookNext ==
    \/ ApiStep /\ UNCHANGED chainVars
    \/ \E r \in RequestId : Broadcast(r)
    \/ \E x \in Tx, d \in {"commit", "abort"} : Decide(x, d)
    \/ RecordStep

\* Of each request that may be posted, the verdict gets recorded.
BookFair ==
    \A r \in 1 .. Cardinality(Tx) : WF_bookVars(r \in RequestId /\ RecordVerdict(r))

\* What readers of the tables rely on: each status comes from a handler, or
\* is the chain's status of the request's own transaction; a trade is completed
\* with its request; and no verdict is forgotten, whatever is cancelled.
BookSpec == BookInit /\ [][BookNext]_bookVars /\ BookFair
-----------------------------------------------------------------------------
ChainTypeOK ==
    /\ initiated \in Seq(Tx)
    /\ decision \in [Tx -> {"none", "commit", "abort"}]

\* A request is shown as going on, completed or failed only if its own
\* transaction is on the chain, was committed or was aborted: a verdict the
\* job read before a cancel or a restart never lands on another request.
VerdictFaithful ==
    \A r \in RequestId :
        LET x == request[r].crossTx
        IN  CASE request[r].status = "ONGOING"   -> x \in Range(initiated)
              [] request[r].status = "COMPLETED" -> decision[x] = "commit"
              [] request[r].status = "FAILED"    -> decision[x] = "abort"
              [] OTHER -> TRUE
=============================================================================
