\* Several mints and transfers while one dividend is pending.
CONSTANTS
    WordSize = 8
    Addr = {c, a1, a2}
    NoAddr = NoAddr
    Issuers = {c}
    MaxTokenOwner = 3
    MaxToken = 1
    MaxIndex = 1
    Shares = {1, 2}
    PerShare = {2}
SPECIFICATION HSpec
INVARIANTS DividendUnaffected
CONSTRAINT SmallSupply
CHECK_DEADLOCK FALSE
