\* The sum of a batch may pass the word: 5 + 5 = 10 and 10 % 8 = 2.
CONSTANTS
    WordSize = 8
    Addr = {a1, a2, a3}
    Values = {2, 5}
    MaxBatch = 2
SPECIFICATION Spec
PROPERTIES BatchDebitsSum
CHECK_DEADLOCK FALSE
