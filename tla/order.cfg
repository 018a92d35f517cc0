\* Two sellers and a buyer; two offers for the trade of one.
CONSTANTS
    User = {s1, s2, b}
    Seller = {s1, s2}
    Buyer = {b}
    NoUser = NoUser
    Estate = {e}
    Tx = {x1, x2}
    MaxTrades = 2
    Attempt = {a}
    MarketPage <- BuyerPages
    OwnedPage <- AllPages
    Holder <- Seller
SYMMETRY TxSellerSymmetry
CONSTRAINT Parts
SPECIFICATION Spec
INVARIANTS TypeOK OneTradeAtATime ReportsTruth BuysInTurn
