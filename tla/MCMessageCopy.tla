--------------------------- MODULE MCMessageCopy ---------------------------
\* Small instances of MessageCopy for TLC.
EXTENDS MessageCopy, TLC

CONSTANTS a, b, w, x

\* a and b are one message twice, w has a header that identifies nothing.
RepeatMsgs     == {a, b, w}
RepeatIdentity == a :> 1 @@ b :> 1 @@ w :> 2
RepeatBytes    == a :> 1 @@ b :> 1 @@ w :> 2
CopyOfA        == <<a>>
Nothing        == <<>>

\* x and w are different messages that both identify as nothing.
WeakMsgs     == {a, w, x}
WeakIdentity == a :> 1 @@ w :> 2 @@ x :> 2
WeakBytes    == a :> 1 @@ w :> 2 @@ x :> 3

\* a and b are different messages with one Message-ID.
SharedMsgs     == {a, b}
SharedIdentity == a :> 1 @@ b :> 1
SharedBytes    == a :> 1 @@ b :> 2
=============================================================================
