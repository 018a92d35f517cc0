\* Three users, two places for holders, two transactions that overlap.
CONSTANTS
    owner = owner
    b1 = b1
    b2 = b2
    User = {owner, b1, b2}
    Tx = {x1, x2}
    Trade <- Trades
    Amount = {1}
    Coins <- CoinsAtFirst
    Shares <- SharesAtFirst
    Admitted = {owner, b1}
    MaxTokenOwner = 2
SYMMETRY TxSymmetry
SPECIFICATION Spec
INVARIANTS TypeOK OwnerCountExact
PROPERTIES SwapSpec
