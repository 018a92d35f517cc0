\* The same, of the page whose broadcast fails.
CONSTANTS
    User = {s, b}
    Seller = {s}
    Buyer = {b}
    NoUser = NoUser
    Estate = {e}
    Tx = {x1}
    MaxTrades = 1
    Attempt = {a}
    MarketPage <- BuyerPages
    OwnedPage <- AllPages
    Holder <- Seller
SPECIFICATION Spec
PROPERTIES SpinEnds
