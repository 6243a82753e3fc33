---------------------------- MODULE MessageCopy ----------------------------
(***************************************************************************)
(* How one folder is copied, run after run, and how a run that died in the *)
(* middle is made good by the next (internal/syncer/syncer.go:             *)
(* prepareFolder, recover, fetchOne, deliver, settleDuplicates, syncFolder;*)
(* internal/state/state.go: the messages and folders tables).              *)
(*                                                                         *)
(* A row of the messages table is written before a message is appended and *)
(* again after, so a row in flight is a suspect: the message may or may    *)
(* not be on the destination.  Fetching and appending run concurrently,    *)
(* one message being served in any order with the others.  Each statement  *)
(* that reaches the database and each command to a server is one action.   *)
(*                                                                         *)
(* The header digest, the Message-ID and the stamp are one Identity: the   *)
(* destination is indexed and searched by it.  UIDs of the destination are *)
(* positions in dest; nobody else changes it while this model runs.        *)
(***************************************************************************)
EXTENDS Naturals, Sequences, FiniteSets, FiniteSetsExt

CONSTANTS Msgs,           \* source messages, by source UID
          Identity,       \* what ident.Parse makes of each message's header
          Bytes,          \* each message's whole content
          Weak,           \* messages whose header identifies nothing
          Late,           \* messages that arrive at the source later
          Leftover,       \* what the destination holds before the first run
          Attempts,       \* Retry.Attempts
          SyncDuplicates, \* Options.SyncDuplicates
          MaxStops,       \* bound: runs that die or give the folder up
          MaxFaults,      \* bound: commands that fail
          MaxExpunged     \* bound: messages expunged at the source

ASSUME CopyAssumption ==
    /\ IsFiniteSet(Msgs)
    /\ DOMAIN Identity = Msgs /\ DOMAIN Bytes = Msgs
    /\ Weak \subseteq Msgs /\ Late \subseteq Msgs
    /\ \A m, n \in Msgs : Identity[m] = Identity[n] => (m \in Weak <=> n \in Weak)
    /\ Leftover \in Seq(Msgs)
    /\ Attempts \in Nat \ {0}
    /\ SyncDuplicates \in BOOLEAN

\* A condition on the mail, not on the program: one identity, one content.
IdentityTellsApart ==
    \A m, n \in Msgs \ Weak : Identity[m] = Identity[n] => Bytes[m] = Bytes[n]

VARIABLES
    \* the source
    listed,    \* messages the source holds
    modseq,    \* its HIGHESTMODSEQ
    \* the destination
    dest,      \* the message behind each UID
    \* the state database
    row,       \* messages.state, "none" where there is no row
    dstUID,    \* messages.dst_uid
    mark,      \* folders.src_highestmodseq
    finished,  \* folders.last_sync is set
    \* the run, lost when it dies
    phase,     \* "idle", "recover" or "copy"
    seen,      \* the modseq that SELECT reported
    suspects,  \* rows recover has still to look at
    free,      \* the adoption index: destination UIDs not yet claimed
    step,      \* where each message is
    tries,     \* attempt in deliver
    uid,       \* the destination UID that is about to be recorded
    bodies,    \* live.bodies: messages whose content was fetched first
    failed,    \* FolderReport.Failed > 0
    \* bounds and history
    stops, faults, expunged,
    blind,     \* history: messages that a failed search was about
    givenUp    \* history: messages abandoned without asking the destination

sourceVars == <<listed, modseq, expunged>>
storeVars  == <<row, dstUID, mark, finished>>
runVars    == <<phase, seen, suspects, free, step, tries, uid, bodies, failed>>
vars == <<sourceVars, dest, storeVars, runVars, stops, faults, blind, givenUp>>

States == {"none", "in_flight", "done", "failed", "gone"}
Places == {"out", "todo", "begun", "pending", "look", "settle", "record", "dup"}

TypeOK ==
    /\ listed \in SUBSET Msgs
    /\ modseq \in Nat
    /\ dest \in Seq(Msgs)
    /\ row \in [Msgs -> States]
    /\ dstUID \in [Msgs -> 0..Len(dest)]
    /\ mark \in 0..modseq
    /\ finished \in BOOLEAN
    /\ phase \in {"idle", "recover", "copy"}
    /\ seen \in 0..modseq
    /\ suspects \in SUBSET Msgs
    /\ free \in SUBSET (1..Len(dest))
    /\ step \in [Msgs -> Places]
    /\ tries \in [Msgs -> 0..(Attempts - 1)]
    /\ uid \in [Msgs -> 0..Len(dest)]
    /\ bodies \in SUBSET Msgs
    /\ failed \in BOOLEAN
    /\ stops \in Nat /\ faults \in Nat /\ expunged \in Nat
    /\ blind \in SUBSET Msgs /\ givenUp \in SUBSET Msgs

-----------------------------------------------------------------------------
(* What the code decides, each decision after a faulty variant of it *)

\* recover looks at every row in flight.
TrustsRows == {}
Suspects == {m \in Msgs : row[m] = "in_flight"}

\* triage: what is settled is not copied again, everything else is.
RepeatsDone   == {m \in listed : row[m] # "gone"}
SkipsFailures == {m \in listed : row[m] \in {"none", "in_flight"}}
ToCopy        == {m \in listed : row[m] \notin {"done", "gone"}}

\* A weak identity is never searched for, nor put into the index.
Searchable(m) == m \notin Weak

\* locate: the newest of the messages that match, 0 if none does.
Locate(m) ==
    LET matches == {u \in 1..Len(dest) : Identity[dest[u]] = Identity[m]}
    IN  IF Searchable(m) /\ matches # {} THEN Max(matches) ELSE 0

\* indexDestination, made only for a folder that never finished a run.
Index ==
    IF finished \/ ToCopy = {} THEN {}
    ELSE {u \in 1..Len(dest) : Searchable(dest[u]) /\ \A m \in Msgs : dstUID[m] # u}

\* deliver gives up on a message after this attempt.
LastAttempt(m) == tries[m] + 1 >= Attempts

\* settleDuplicates: the copy of s stands for its repeats.
StandsAnyway(s) == TRUE
Stands(s) == row[s] = "done" /\ dstUID[s] # 0

\* syncFolder: the watermark a run leaves.
MarkAnyway == seen
NewMark == IF failed THEN mark ELSE seen

-----------------------------------------------------------------------------
NoRun ==
    /\ phase' = "idle" /\ seen' = 0 /\ suspects' = {} /\ free' = {}
    /\ step' = [m \in Msgs |-> "out"]
    /\ tries' = [m \in Msgs |-> 0]
    /\ uid' = [m \in Msgs |-> 0]
    /\ bodies' = {} /\ failed' = FALSE

Init ==
    /\ listed = Msgs \ Late /\ modseq = 1 /\ expunged = 0
    /\ dest = Leftover
    /\ row = [m \in Msgs |-> "none"]
    /\ dstUID = [m \in Msgs |-> 0]
    /\ mark = 0 /\ finished = FALSE
    /\ phase = "idle" /\ seen = 0 /\ suspects = {} /\ free = {}
    /\ step = [m \in Msgs |-> "out"]
    /\ tries = [m \in Msgs |-> 0]
    /\ uid = [m \in Msgs |-> 0]
    /\ bodies = {} /\ failed = FALSE
    /\ stops = 0 /\ faults = 0
    /\ blind = {} /\ givenUp = {}

-----------------------------------------------------------------------------
(* prepareFolder *)

\* canSkip: nothing has changed at the source since the watermark was earned.
FolderUnchanged ==
    /\ phase = "idle"
    /\ mark = modseq
    /\ UNCHANGED vars

StartRun ==
    /\ phase = "idle"
    /\ mark # modseq
    /\ phase' = "recover"
    /\ seen' = modseq
    /\ suspects' = Suspects
    /\ UNCHANGED <<sourceVars, dest, storeVars, free, step, tries, uid, bodies,
                   failed, stops, faults, blind, givenUp>>

\* A search that goes wrong finds nothing and is not an error (locate).
SearchFails(m) ==
    /\ Searchable(m)
    /\ faults < MaxFaults
    /\ faults' = faults + 1
    /\ blind' = blind \cup {m}

CompleteAppend(m, u) ==
    /\ row' = [row EXCEPT ![m] = "done"]
    /\ dstUID' = [dstUID EXCEPT ![m] = u]
    /\ UNCHANGED <<mark, finished>>

SetState(m, s) ==
    /\ row' = [row EXCEPT ![m] = s]
    /\ UNCHANGED <<dstUID, mark, finished>>

\* recover, one suspect: found, not found, or no longer to be identified.
RecoverFound(m) ==
    /\ phase = "recover" /\ m \in suspects
    /\ m \in listed
    /\ Locate(m) # 0
    /\ CompleteAppend(m, Locate(m))
    /\ suspects' = suspects \ {m}
    /\ UNCHANGED <<sourceVars, dest, phase, seen, free, step, tries, uid, bodies,
                   failed, stops, faults, blind, givenUp>>

RecoverNotFound(m) ==
    /\ phase = "recover" /\ m \in suspects
    /\ m \in listed
    /\ \/ Locate(m) = 0 /\ UNCHANGED <<faults, blind>>
       \/ SearchFails(m)
    /\ suspects' = suspects \ {m}
    /\ UNCHANGED <<sourceVars, dest, storeVars, phase, seen, free, step, tries,
                   uid, bodies, failed, stops, givenUp>>

RecoverExpunged(m) ==
    /\ phase = "recover" /\ m \in suspects
    /\ m \notin listed
    /\ SetState(m, "failed")
    /\ suspects' = suspects \ {m}
    /\ UNCHANGED <<sourceVars, dest, phase, seen, free, step, tries, uid, bodies,
                   failed, stops, faults, blind, givenUp>>

\* SyncedUIDs, AllUIDs, triage and indexDestination.
Diff ==
    /\ phase = "recover" /\ suspects = {}
    /\ phase' = "copy"
    /\ step' = [m \in Msgs |-> IF m \in ToCopy THEN "todo" ELSE "out"]
    /\ free' = Index
    /\ UNCHANGED <<sourceVars, dest, storeVars, seen, suspects, tries, uid,
                   bodies, failed, stops, faults, blind, givenUp>>

-----------------------------------------------------------------------------
(* fetchChunk and fetchOne *)

Move(m, p) == step' = [step EXCEPT ![m] = p]

\* markGone, or FetchBody answering that the message has been expunged.
FindGone(m) ==
    /\ step[m] \in {"todo", "begun"}
    /\ m \notin listed
    /\ SetState(m, "gone")
    /\ Move(m, "out")
    /\ UNCHANGED <<sourceVars, dest, phase, seen, suspects, free, tries, uid,
                   bodies, failed, stops, faults, blind, givenUp>>

\* The state row is committed before anything else is done with the message.
BeginAppend(m) ==
    /\ step[m] = "todo"
    /\ SetState(m, "in_flight")
    /\ Move(m, "begun")
    /\ UNCHANGED <<sourceVars, dest, phase, seen, suspects, free, tries, uid,
                   bodies, failed, stops, faults, blind, givenUp>>

Matching(m) == {u \in free : Identity[dest[u]] = Identity[m]}

Adopt(m) ==
    /\ step[m] = "begun"
    /\ \E u \in Matching(m) :
          /\ free' = free \ {u}
          /\ uid' = [uid EXCEPT ![m] = u]
    /\ Move(m, "record")
    /\ UNCHANGED <<sourceVars, dest, storeVars, phase, seen, suspects, tries,
                   bodies, failed, stops, faults, blind, givenUp>>

\* The body is read, and compared with those this run has read before.
FetchBody(m) ==
    /\ step[m] = "begun" /\ Matching(m) = {}
    /\ m \in listed
    /\ IF ~SyncDuplicates /\ \E s \in bodies : Bytes[s] = Bytes[m]
       THEN Move(m, "dup") /\ UNCHANGED bodies
       ELSE Move(m, "pending") /\ bodies' = bodies \cup {m}
    /\ UNCHANGED <<sourceVars, dest, storeVars, phase, seen, suspects, free,
                   tries, uid, failed, stops, faults, blind, givenUp>>

Fault == faults < MaxFaults /\ faults' = faults + 1

\* s.fail: the row keeps the reason and the folder goes on without the message.
Abandon(m) ==
    /\ SetState(m, "failed")
    /\ Move(m, "out")
    /\ failed' = TRUE

\* Reading failed: fetchChunk tries the message again, or abandons it.
FetchFails(m) ==
    /\ step[m] = "begun" /\ Matching(m) = {}
    /\ Fault
    /\ \/ Move(m, "todo") /\ UNCHANGED <<storeVars, failed>>
       \/ Abandon(m)
    /\ UNCHANGED <<sourceVars, dest, phase, seen, suspects, free, tries, uid,
                   bodies, stops, blind, givenUp>>

-----------------------------------------------------------------------------
(* deliver, settle and record *)

\* The server says OK, and with UIDPLUS also where the message is.
AppendAccepted(m) ==
    /\ step[m] = "pending"
    /\ dest' = Append(dest, m)
    /\ \/ Move(m, "record") /\ uid' = [uid EXCEPT ![m] = Len(dest')]
       \/ Move(m, "settle") /\ UNCHANGED uid
    /\ UNCHANGED <<sourceVars, storeVars, phase, seen, suspects, free, tries,
                   bodies, failed, stops, faults, blind, givenUp>>

\* settle without UIDPLUS: the UID is searched for, and may stay unknown.
SettleUID(m) ==
    /\ step[m] = "settle"
    /\ \/ uid' = [uid EXCEPT ![m] = Locate(m)] /\ UNCHANGED <<faults, blind>>
       \/ SearchFails(m) /\ UNCHANGED uid
    /\ Move(m, "record")
    /\ UNCHANGED <<sourceVars, dest, storeVars, phase, seen, suspects, free,
                   tries, bodies, failed, stops, givenUp>>

\* The server refuses the message for good (retry.Skip).
AppendRefused(m) ==
    /\ step[m] = "pending"
    /\ Fault
    /\ Abandon(m)
    /\ UNCHANGED <<sourceVars, dest, phase, seen, suspects, free, tries, uid,
                   bodies, stops, blind, givenUp>>

\* The connection breaks or the server is busy; what was sent may have been
\* stored.  On the last attempt nobody looks.
AppendBreaks(m) ==
    /\ step[m] = "pending"
    /\ Fault
    /\ dest' \in {dest, Append(dest, m)}
    /\ IF LastAttempt(m)
       THEN Abandon(m) /\ givenUp' = givenUp \cup {m}
       ELSE Move(m, "look") /\ UNCHANGED <<storeVars, failed, givenUp>>
    /\ UNCHANGED <<sourceVars, phase, seen, suspects, free, tries, uid, bodies,
                   stops, blind>>

\* Before another attempt the destination is asked.
LookFinds(m) ==
    /\ step[m] = "look"
    /\ Locate(m) # 0
    /\ uid' = [uid EXCEPT ![m] = Locate(m)]
    /\ Move(m, "record")
    /\ UNCHANGED <<sourceVars, dest, storeVars, phase, seen, suspects, free,
                   tries, bodies, failed, stops, faults, blind, givenUp>>

LookFindsNothing(m) ==
    /\ step[m] = "look"
    /\ \/ Locate(m) = 0 /\ UNCHANGED <<faults, blind>>
       \/ SearchFails(m)
    /\ tries' = [tries EXCEPT ![m] = @ + 1]
    /\ Move(m, "pending")
    /\ UNCHANGED <<sourceVars, dest, storeVars, phase, seen, suspects, free, uid,
                   bodies, failed, stops, givenUp>>

Record(m) ==
    /\ step[m] = "record"
    /\ CompleteAppend(m, uid[m])
    /\ Move(m, "out")
    /\ UNCHANGED <<sourceVars, dest, phase, seen, suspects, free, tries, uid,
                   bodies, failed, stops, faults, blind, givenUp>>

-----------------------------------------------------------------------------
(* The end of a run *)

CopyEnded == phase = "copy" /\ \A m \in Msgs : step[m] \in {"out", "dup"}

\* A repeat whose survivor did not land stays in flight.
SettleDuplicate(m) ==
    /\ CopyEnded
    /\ step[m] = "dup"
    /\ \E s \in bodies :
          /\ Bytes[s] = Bytes[m]
          /\ IF Stands(s) THEN CompleteAppend(m, dstUID[s]) ELSE UNCHANGED storeVars
    /\ Move(m, "out")
    /\ UNCHANGED <<sourceVars, dest, phase, seen, suspects, free, tries, uid,
                   bodies, failed, stops, faults, blind, givenUp>>

MarkSynced ==
    /\ phase = "copy" /\ \A m \in Msgs : step[m] = "out"
    /\ mark' = NewMark
    /\ finished' = TRUE
    /\ NoRun
    /\ UNCHANGED <<sourceVars, dest, row, dstUID, stops, faults, blind, givenUp>>

\* The process dies, is interrupted, or gives the folder up with an error.
RunStops ==
    /\ phase # "idle"
    /\ stops < MaxStops
    /\ stops' = stops + 1
    /\ NoRun
    /\ UNCHANGED <<sourceVars, dest, storeVars, faults, blind, givenUp>>

-----------------------------------------------------------------------------
(* The source *)

Arrive(m) ==
    /\ m \in Late /\ m \notin listed /\ row[m] = "none" /\ expunged = 0
    /\ listed' = listed \cup {m}
    /\ modseq' = modseq + 1
    /\ UNCHANGED <<expunged, dest, storeVars, runVars, stops, faults, blind, givenUp>>

Expunge(m) ==
    /\ m \in listed
    /\ expunged < MaxExpunged
    /\ expunged' = expunged + 1
    /\ listed' = listed \ {m}
    /\ modseq' = modseq + 1
    /\ UNCHANGED <<dest, storeVars, runVars, stops, faults, blind, givenUp>>

-----------------------------------------------------------------------------
CopyMessage(m) ==
    \/ FindGone(m) \/ BeginAppend(m) \/ Adopt(m) \/ FetchBody(m) \/ FetchFails(m)
    \/ AppendAccepted(m) \/ SettleUID(m) \/ AppendRefused(m) \/ AppendBreaks(m)
    \/ LookFinds(m) \/ LookFindsNothing(m) \/ Record(m) \/ SettleDuplicate(m)

Recover(m) == RecoverFound(m) \/ RecoverNotFound(m) \/ RecoverExpunged(m)

Next ==
    \/ FolderUnchanged \/ StartRun \/ Diff \/ MarkSynced \/ RunStops
    \/ \E m \in Msgs : Recover(m) \/ CopyMessage(m) \/ Arrive(m) \/ Expunge(m)

Spec == Init /\ [][Next]_vars

\* A run that is going goes on, and the folder is run again.
Fairness ==
    /\ WF_vars(StartRun) /\ WF_vars(Diff) /\ WF_vars(MarkSynced)
    /\ \A m \in Msgs : WF_vars(Recover(m)) /\ WF_vars(CopyMessage(m))

FairSpec == Spec /\ Fairness

-----------------------------------------------------------------------------
(* Properties *)

HasCopy(m) == \E u \in 1..Len(dest) : Bytes[dest[u]] = Bytes[m]

\* A message recorded as copied is on the destination, whichever way the row
\* came to say so: recorded, adopted, found by a search, or settled as a repeat.
\* A row that lies is never looked at again, so the message is lost.
DoneMeansCopied == \A m \in Msgs : row[m] = "done" => HasCopy(m)

Alike(m) == {n \in Msgs : Identity[n] = Identity[m]}
Copies(m) == {u \in 1..Len(dest) : Identity[dest[u]] = Identity[m]}

\* No crash, lost reply or retry makes a second copy of a message that can be
\* searched for, unless a search failed or the message had been abandoned.
NoSecondCopy ==
    \A m \in Msgs \ Weak :
        Alike(m) \cap (blind \cup givenUp) = {}
            => Cardinality(Copies(m)) <= Cardinality(Alike(m))

\* The comment in deliver claims it of abandoned messages too: "Appending again
\* without looking is how one interruption becomes two copies, so the
\* destination is asked first."
AskedFirst ==
    \A m \in Msgs \ Weak :
        Alike(m) \cap blind = {} => Cardinality(Copies(m)) <= Cardinality(Alike(m))

\* "Everything the source held at that point is on the destination" (syncFolder):
\* a folder that the next run will skip has nothing left to copy.
WatermarkHonest == mark = modseq => \A m \in listed : HasCopy(m)

\* A message the source keeps is recorded as copied in the end, through crashes,
\* failures and abandoned attempts.  Not so the repeats of a survivor whose UID
\* stayed unknown: settleDuplicates leaves them in flight, and a folder whose
\* watermark is the source's is skipped.
EventuallyCopied ==
    \A m \in Msgs : m \in listed ~> m \notin listed \/ row[m] = "done"

\* The rows keep the promise of CopyLedger.
Ledger == INSTANCE CopyLedger
    WITH onDest  <- {m \in Msgs : HasCopy(m)},
         settled <- {m \in Msgs : row[m] = "done"}

KeepsLedger == Ledger!Spec
=============================================================================
