\* The same buyer, who dismisses a modal and confirms another offer.
CONSTANTS
    User = {s1, s2, b}
    Seller = {s1, s2}
    Buyer = {b}
    NoUser = NoUser
    Estate = {e}
    Tx = {x1, x2}
    MaxTrades = 2
    Attempt = {a1, a2}
    MarketPage <- BuyerPages
    OwnedPage <- SellerPages
    Holder <- Seller
SYMMETRY TxSellerSymmetry
CONSTRAINT OneSale
SPECIFICATION Spec
INVARIANTS OneTradeAtATime
