----------------------------- MODULE MCConnPool -----------------------------
\* Small instances of ConnPool for TLC.
EXTENDS ConnPool, TLC

CONSTANTS w1, w2, w3, c1, c2, c3, inbox, none, unselected

TwoWorkers   == {w1, w2}
ThreeWorkers == {w1, w2, w3}
ThreeConns   == {c1, c2, c3}
TwoConns     == {c1, c2}
OneMailbox   == {inbox}
Symmetric    == Permutations(ThreeWorkers) \cup Permutations(ThreeConns)
=============================================================================
