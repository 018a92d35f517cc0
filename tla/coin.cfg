\* No sum of a batch reaches the word: 2 * 3 < 8.
CONSTANTS
    WordSize = 8
    Addr = {a1, a2, a3}
    Values = {0, 1, 3}
    MaxBatch = 2
SPECIFICATION Spec
INVARIANTS TypeOK SupplyConserved SumsExact
PROPERTIES BatchIsTransfers
CHECK_DEADLOCK FALSE
