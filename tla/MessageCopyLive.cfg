SPECIFICATION FairSpec
CONSTANTS
    a = a  b = b  w = w  x = x
    Msgs <- WeakMsgs
    Identity <- WeakIdentity
    Bytes <- WeakBytes
    Weak = {w, x}
    Late = {a}
    Leftover <- CopyOfA
    Attempts = 2
    SyncDuplicates = FALSE
    MaxStops = 1
    MaxFaults = 2
    MaxExpunged = 0
PROPERTIES EventuallyCopied
