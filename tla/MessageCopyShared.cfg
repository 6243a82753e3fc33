SPECIFICATION Spec
CONSTANTS
    a = a  b = b  w = w  x = x
    Msgs <- SharedMsgs
    Identity <- SharedIdentity
    Bytes <- SharedBytes
    Weak = {}
    Late = {}
    Leftover <- Nothing
    Attempts = 2
    SyncDuplicates = FALSE
    MaxStops = 1
    MaxFaults = 1
    MaxExpunged = 0
INVARIANTS DoneMeansCopied
