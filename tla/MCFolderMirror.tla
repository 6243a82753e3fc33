--------------------------- MODULE MCFolderMirror ---------------------------
\* A small instance of FolderMirror for TLC.
EXTENDS FolderMirror, TLC

CONSTANTS a, b, c, d

\* a and b are one message twice; d arrives late, and a filter leaves it out.
\* Others put 3 on the destination, and 6, which looks like 1; 5 was there
\* before, too thin to tell from anything.
MirrorMsgs     == {a, b, c, d}
MirrorContent  == a :> 1 @@ b :> 1 @@ c :> 2 @@ d :> 4
MirrorIdentity == [content \in 1..6 |-> IF content = 6 THEN 1 ELSE content]
ThinOne        == <<5>>
MirrorOptions  == {{}, {"delete2"}, Complete}
=============================================================================
