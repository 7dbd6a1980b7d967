CONSTANTS
    w1 = w1  w2 = w2
    Writers = {w1, w2}
    Debounce = 2
    MaxWait = 3
    MaxVersion = 3
SPECIFICATION LiveSpec
INVARIANTS
    QuietIsFresh
    IndexHasData
PROPERTIES
    EveryWritePublished
