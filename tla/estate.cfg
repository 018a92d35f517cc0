\* The code's limit of three holders among four addresses, two of which issue;
\* then two dividends, with transfers and mints around them.
CONSTANTS
    WordSize = 6
    Addr = {c1, c2, a1, a2}
    NoAddr = NoAddr
    Issuers = {c1, c2}
    MaxTokenOwner = 3
    MaxToken = 1
    MaxIndex = 2
    Shares = {0, 1, 2, 3}
    PerShare = {4}
SYMMETRY AddrSymmetry
CONSTRAINT FewWithDividend
SPECIFICATION HSpec
INVARIANTS TypeOK HolderLimit OwnerCountCovers HoldersWhitelisted SupplyConserved
    OnlyLatestUnpaid ShareDefined EntitlementKept DividendExact
PROPERTIES OwnerCountTracks
CHECK_DEADLOCK FALSE
