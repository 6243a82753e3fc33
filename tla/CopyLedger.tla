---------------------------- MODULE CopyLedger ----------------------------
(***************************************************************************)
(* What the state database promises about a folder whose destination       *)
(* nobody else touches (internal/state, internal/syncer): a message is     *)
(* settled only once its content is on the destination, what is on the     *)
(* destination stays there, and what is settled stays settled.             *)
(***************************************************************************)
CONSTANT Msgs

VARIABLES onDest,   \* messages whose content the destination holds
          settled   \* messages recorded as copied

ledgerVars == <<onDest, settled>>

Init == onDest \in SUBSET Msgs /\ settled = {}

\* One append brings every message with that content.
Deliver(S) ==
    /\ onDest' = onDest \cup S
    /\ UNCHANGED settled

Settle(m) ==
    /\ m \in onDest
    /\ settled' = settled \cup {m}
    /\ UNCHANGED onDest

Next ==
    \/ \E S \in SUBSET Msgs : Deliver(S)
    \/ \E m \in Msgs : Settle(m)

Spec == Init /\ [][Next]_ledgerVars
=============================================================================
