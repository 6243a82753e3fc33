--------------------------- MODULE MCLocalFolder ----------------------------
\* A small instance of LocalFolder for TLC.
EXTENDS LocalFolder, TLC

CONSTANTS c1, c2

Symmetric == Permutations({c1, c2})
=============================================================================
