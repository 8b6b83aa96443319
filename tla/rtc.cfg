SPECIFICATION Spec
CONSTANTS
    NumTerminals = 2
    Fastest = 3
    MinFrequency = 2
    MaxFrequency = 5
    WordSize = 8
    Frequencies <- MCFrequencies
INVARIANTS TypeOK CountsItsOwnWait
PROPERTY EveryReadReturns
