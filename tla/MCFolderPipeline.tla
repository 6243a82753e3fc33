-------------------------- MODULE MCFolderPipeline --------------------------
\* Small instances of FolderPipeline for TLC.
EXTENDS FolderPipeline, TLC

CONSTANTS inbox, sent, a, b, c, d, r1, r2, w1

\* A folder of two chunks and one that competes with it for the pools and the
\* budget; a has no size, c is larger than the whole budget.
TwoFolders == inbox :> <<a, b, c>> @@ sent :> <<d>>
TwoSizes   == a :> 0 @@ b :> 2 @@ c :> 5 @@ d :> 1
=============================================================================
