\* Two sell offers, two requests, one error of the job.
CONSTANTS
    User = {u}
    NoUser = NoUser
    Estate = {e}
    Tx = {x1, x2}
    MaxTrades = 2
    MaxFaults = 1
SPECIFICATION Spec
INVARIANTS TypeOK OneOpenTrade VerdictFaithful CompletedTradeSold
PROPERTIES VerdictStays VerdictRecorded BookSpec
