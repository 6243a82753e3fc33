SPECIFICATION Spec
CONSTANTS
    a = a  b = b  w = w  x = x
    Msgs <- RepeatMsgs
    Identity <- RepeatIdentity
    Bytes <- RepeatBytes
    Weak = {w}
    Late = {b}
    Leftover <- Nothing
    Attempts = 2
    SyncDuplicates = FALSE
    MaxStops = 1
    MaxFaults = 2
    MaxExpunged = 1
INVARIANTS DoneMeansCopied NoSecondCopy WatermarkHonest
PROPERTIES KeepsLedger
