SPECIFICATION Spec
CONSTANTS
    id1 = id1
    id2 = id2
    k1 = k1
    k2 = k2
    short = short
    long = long
    Ids = {id1, id2}
    Hash <- MCHash
    Values = {short, long}
    Size <- MCSize
    IndexNum = 3
    DataSize = 4
    Blank = Blank
    Miss = Miss
    NoMemory = NoMemory
    MaxTime = 1
    Expiries = {1, 2}
    Requests <- MCRequests
INVARIANTS TypeOK Contiguous
PROPERTIES LogSpec StoreFailsOnly
