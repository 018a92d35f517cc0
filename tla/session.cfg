\* Two accounts, two requests at a time.
CONSTANTS
    User = {a, b}
    NoUser = NoUser
    Slot = {s1, s2}
    MaxBalance = 1
SPECIFICATION Spec
INVARIANTS TypeOK BalanceIsOwn PollAlive SettledAgrees
PROPERTIES BalanceCatchesUp
