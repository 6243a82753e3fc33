CONSTANTS
    a = a
    b = b
    c = c
    d = d
    Msgs <- MirrorMsgs
    Content <- MirrorContent
    Identity <- MirrorIdentity
    Weak = {5}
    Late = {d}
    Excluded = {d}
    Strangers = {3, 6}
    Leftover <- ThinOne
    Options <- MirrorOptions
    Floor = 0
    Ceiling = 34
    MaxTroubles = 2
SPECIFICATION Spec
INVARIANTS AlwaysTriedAgain

