\* The job records a verdict, and the trade is cancelled after it.
CONSTANTS
    User = {s, b}
    NoUser = NoUser
    Estate = {e}
    Tx = {x1}
    MaxTrades = 1
    MaxFaults = 0
SPECIFICATION Spec
INVARIANTS CompletedRequestCompletesTrade
