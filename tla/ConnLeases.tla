----------------------------- MODULE ConnLeases -----------------------------
(***************************************************************************)
(* What a connection pool promises its callers (internal/pool, the comment *)
(* on Pool): exclusive leases, never more than Cap at once, and once the   *)
(* pool is shut down, which waits for every lease to come back, none ever  *)
(* again.                                                                  *)
(***************************************************************************)
EXTENDS Naturals, FiniteSets

CONSTANTS Workers, Conns, NoConn, Cap

VARIABLES lease,  \* the connection each worker has on lease, or NoConn
          shut    \* Close has drained the pool

leaseVars == <<lease, shut>>

Holders == {w \in Workers : lease[w] # NoConn}

Init ==
    /\ lease = [w \in Workers |-> NoConn]
    /\ shut = FALSE

Grant(w, c) ==
    /\ ~shut
    /\ lease[w] = NoConn
    /\ \A v \in Workers : lease[v] # c
    /\ Cardinality(Holders) < Cap
    /\ lease' = [lease EXCEPT ![w] = c]
    /\ UNCHANGED shut

Return(w) ==
    /\ lease[w] # NoConn
    /\ lease' = [lease EXCEPT ![w] = NoConn]
    /\ UNCHANGED shut

Shut ==
    /\ Holders = {}
    /\ shut' = TRUE
    /\ UNCHANGED lease

Next ==
    \/ \E w \in Workers, c \in Conns : Grant(w, c)
    \/ \E w \in Workers : Return(w)
    \/ Shut

Spec == Init /\ [][Next]_leaseVars
=============================================================================
