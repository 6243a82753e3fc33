SPECIFICATION Spec
CONSTANTS
    a = a  b = b  w = w  x = x
    Msgs <- WeakMsgs
    Identity <- WeakIdentity
    Bytes <- WeakBytes
    Weak = {w, x}
    Late = {}
    Leftover <- Nothing
    Attempts = 2
    SyncDuplicates = FALSE
    MaxStops = 0
    MaxFaults = 2
    MaxExpunged = 0
INVARIANTS AskedFirst
