SPECIFICATION FairSpec
CONSTANTS
    inbox = inbox  sent = sent  a = a  b = b  c = c  d = d
    r1 = r1  r2 = r2  w1 = w1
    Folders = {inbox, sent}
    Todo <- TwoFolders
    Size <- TwoSizes
    ChunkSize = 2
    Readers = {r1, r2}
    Writers = {w1}
    SrcWidth = 1
    DstWidth = 1
    Budget = 2
    MaxFaults = 1
INVARIANTS BudgetConserved MemoryBound NoRefetch NoSendOnClosed NothingDropped NothingLeftBehind
PROPERTIES RunEnds
CHECK_DEADLOCK FALSE
