SPECIFICATION Spec
CONSTANTS
    w1 = w1  w2 = w2  w3 = w3
    c1 = c1  c2 = c2  c3 = c3
    inbox = inbox  none = none  unselected = unselected
    Workers <- ThreeWorkers
    Conns <- ThreeConns
    Mailboxes <- OneMailbox
    NoConn = none
    NoMailbox = unselected
    Cap = 2
    MaxFaults = 2
SYMMETRY Symmetric
INVARIANTS OpenIsExact
