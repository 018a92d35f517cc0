\* Two dividends and distributions of them, and a sale around them.
CONSTANTS
    issuer = issuer
    holder = holder
    buyer = buyer
    WordSize = 8
    Addr = {issuer, holder, buyer}
    NoAddr = NoAddr
    Issuers = {issuer}
    MaxTokenOwner = 3
    MaxToken = 1
    MaxIndex = 2
    Shares = {1}
    PerShare = {1}
    Issuer = issuer
    Users <- AllUsers
    Held <- HeldAtFirst
    Coins <- CoinsAtFirst
    Page = {p1}
    Sellers = {holder}
    MaxTx = 2
SPECIFICATION FSpec
CONSTRAINTS FewAgain FewCoins
INVARIANTS FlowTypeOK DuesAreRights EachShareOnce UnpaidOffered
PROPERTIES PayoutSpec WaitEnds
