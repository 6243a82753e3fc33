------------------------- MODULE MessageCopyProofs -------------------------
(***************************************************************************)
(* What holds of a folder however many messages it has, whatever fails and *)
(* however often a run dies: the rows never lie, the watermark is earned,  *)
(* and no message is appended twice.                                       *)
(***************************************************************************)
EXTENDS MessageCopy, FiniteSetTheorems, TLAPS

\* An adoption index holds nothing: what was on the destination before the
\* first run cannot be told apart, so none of it is adopted or found.
NothingToAdopt == \A u \in 1..Len(Leftover) : Leftover[u] \in Weak

-----------------------------------------------------------------------------
(* The inductive invariants *)

\* Only an attempt that is not the last is followed by a look.
TriesLeft == \A m \in Msgs : step[m] = "look" => tries[m] + 1 < Attempts

\* Messages are under way while the run copies, suspects while it recovers.
RunShape ==
    /\ phase # "copy" => bodies = {} /\ \A m \in Msgs : step[m] = "out"
    /\ phase # "recover" => suspects = {}

\* A message is under way only with a row that is not settled, and from
\* BeginAppend on the row says so.
RowsFollow ==
    \A m \in Msgs :
        /\ m \in suspects => row[m] = "in_flight"
        /\ step[m] = "todo" => row[m] \notin {"done", "gone"}
        /\ step[m] \notin {"out", "todo"} => row[m] = "in_flight"

\* What is in the index can be told by its identity.
IndexSearchable == \A u \in free : Searchable(dest[u])

\* The source never lists again what was found gone.
GoneForGood == \A m \in listed : row[m] # "gone"

BaseInv ==
    /\ TypeOK /\ TriesLeft /\ RunShape /\ RowsFollow
    /\ IndexSearchable /\ GoneForGood

\* About to be recorded, a message has landed.
LandedInHand == \A m \in Msgs : step[m] \in {"settle", "record"} => HasCopy(m)

\* A body once read has landed, is on its way, or counts as a failure.
BodiesServed ==
    \A s \in bodies :
        /\ step[s] \notin {"todo", "begun", "dup"}
        /\ step[s] = "out" => failed \/ HasCopy(s)

\* A repeat was set aside for the sake of a body that this run has read.
DupsHaveSurvivor ==
    \A m \in Msgs : step[m] = "dup" => \E s \in bodies : Bytes[s] = Bytes[m]

\* Unless the source has changed, what the run is through with has landed or
\* counts as a failure.
RunEarnsMark ==
    phase = "copy" /\ seen = modseq
        => \A m \in listed : step[m] = "out" => failed \/ HasCopy(m)

CopyInv ==
    /\ DoneMeansCopied /\ LandedInHand /\ BodiesServed /\ DupsHaveSurvivor
    /\ RunEarnsMark /\ WatermarkHonest

\* Messages whose copies can be counted: found by their identity, with no
\* search that failed and no attempt that was given up.
Countable == Msgs \ (Weak \cup blind \cup givenUp)

Landed(m) == \E u \in 1..Len(dest) : dest[u] = m

\* Where the last attempt of a message that has landed is still remembered.
Remembered(m) ==
    \/ row[m] = "done"
    \/ m \notin listed
    \/ step[m] \in {"look", "settle", "record"}
    \/ row[m] = "in_flight" /\ (phase = "idle" \/ m \in suspects)

\* It has landed once at the most, and then nothing is about to send it again.
OnceAtMost(m) ==
    /\ \A u, v \in 1..Len(dest) : dest[u] = m /\ dest[v] = m => u = v
    /\ Landed(m) => /\ row[m] # "none"
                    /\ step[m] \notin {"todo", "begun", "pending", "dup"}
                    /\ Remembered(m)

SentOnce == \A m \in Countable : OnceAtMost(m)

-----------------------------------------------------------------------------
(* What the operators return *)

LEMMA MinExists ==
    ASSUME NEW S \in SUBSET Nat, S # {}
    PROVE  \E x \in S : \A y \in S : x <= y
<1>1. IsWellFoundedOn(OpToRel(<,Nat), Nat)
  BY NatLessThanWellFounded
<1>2. PICK x \in S : \A y \in S : ~ (<<y, x>> \in OpToRel(<,Nat))
  BY <1>1, WFMin
<1>3. \A y \in S : ~ (y < x)
  BY <1>2 DEF OpToRel
<1>. QED
  BY <1>3

\* The newest of some positions is one of them.
LEMMA MaxIsThere ==
    ASSUME NEW n \in Nat, NEW S \in SUBSET (1..n), S # {}
    PROVE  Max(S) \in S
<1>. DEFINE D == {d \in Nat : \E x \in S : x = n - d}
<1>2. \A x \in S : x \in 1..n /\ n - x \in D
  <2>. TAKE x \in S
  <2>1. x \in 1..n
    OBVIOUS
  <2>2. n - x \in Nat /\ x = n - (n - x)
    BY <2>1
  <2>. QED
    BY <2>1, <2>2
<1>3. D \in SUBSET Nat /\ D # {}
  BY <1>2
<1>. HIDE DEF D
<1>4. PICK d \in D : \A e \in D : d <= e
  BY <1>3, MinExists
<1>5. PICK x \in S : x = n - d
  BY <1>4 DEF D
<1>6. \A y \in S : x >= y
  <2>. TAKE y \in S
  <2>1. d <= n - y /\ d \in Nat /\ y \in 1..n
    BY <1>2, <1>3, <1>4
  <2>. QED
    BY <2>1, <1>5
<1>. QED
  BY <1>5, <1>6 DEF Max

\* locate returns a message of the same identity, or 0 only where it can tell
\* that there is none.
LEMMA LocateTells ==
    ASSUME TypeOK, NEW m \in Msgs
    PROVE  /\ Locate(m) \in 0..Len(dest)
           /\ Locate(m) # 0 => /\ Locate(m) \in 1..Len(dest)
                               /\ Searchable(m)
                               /\ Identity[dest[Locate(m)]] = Identity[m]
           /\ Locate(m) = 0 /\ Searchable(m) => ~Landed(m)
<1>. DEFINE matches == {u \in 1..Len(dest) : Identity[dest[u]] = Identity[m]}
<1>1. Len(dest) \in Nat
  BY DEF TypeOK
<1>2. matches # {} => Max(matches) \in matches
  BY <1>1, MaxIsThere
<1>3. Landed(m) => matches # {}
  BY DEF Landed
<1>4. Locate(m) = IF Searchable(m) /\ matches # {} THEN Max(matches) ELSE 0
  BY DEF Locate
<1>. HIDE DEF matches
<1>5. \A u \in matches : u \in 1..Len(dest) /\ u # 0 /\ Identity[dest[u]] = Identity[m]
  BY <1>1 DEF matches
<1>. QED
  BY <1>1, <1>2, <1>3, <1>4, <1>5

-----------------------------------------------------------------------------
(* Types, and where rows and steps may stand to each other *)

LEMMA InitBase == Init => BaseInv
<1>. SUFFICES ASSUME Init PROVE BaseInv
  OBVIOUS
<1>1. TypeOK
  <2>1. /\ Leftover \in Seq(Msgs) /\ Len(Leftover) \in Nat
        /\ 0 \in 0..Len(Leftover) /\ 0 \in 0..(Attempts - 1) /\ 0 \in 0..1
    BY CopyAssumption
  <2>2. /\ "none" \in States /\ "out" \in Places
        /\ "idle" \in {"idle", "recover", "copy"}
    BY DEF States, Places
  <2>. QED
    BY <2>1, <2>2 DEF Init, TypeOK
<1>. QED
  BY <1>1 DEF Init, BaseInv, TriesLeft, RunShape, RowsFollow, IndexSearchable, GoneForGood

LEMMA RecoverKeepsBase ==
    ASSUME BaseInv, NEW m \in Msgs, Recover(m)
    PROVE  BaseInv'
<1>. USE DEF BaseInv, TypeOK, TriesLeft, RunShape, RowsFollow, IndexSearchable,
         GoneForGood, sourceVars, storeVars
<1>1. CASE RecoverFound(m)
  BY <1>1, LocateTells DEF RecoverFound, CompleteAppend, States
<1>2. CASE RecoverNotFound(m)
  BY SMTT(30), <1>2 DEF RecoverNotFound, SearchFails
<1>3. CASE RecoverExpunged(m)
  BY <1>3 DEF RecoverExpunged, SetState, States
<1>. QED
  BY <1>1, <1>2, <1>3 DEF Recover

LEMMA RunKeepsBase ==
    ASSUME BaseInv, FolderUnchanged \/ StartRun \/ Diff \/ MarkSynced \/ RunStops
    PROVE  BaseInv'
<1>. USE DEF BaseInv, TypeOK, TriesLeft, RunShape, RowsFollow, IndexSearchable,
         GoneForGood, sourceVars, storeVars
<1>1. CASE FolderUnchanged
  BY <1>1 DEF FolderUnchanged, vars, runVars
<1>2. CASE StartRun
  BY <1>2 DEF StartRun, Suspects
<1>3. CASE Diff
  <2>1. Index \in SUBSET (1..Len(dest)) /\ \A u \in Index : Searchable(dest[u])
    BY DEF Index
  <2>. QED
    BY <1>3, <2>1 DEF Diff, ToCopy, Places
<1>4. CASE MarkSynced
  <2>1. /\ 0 \in 0..(Attempts - 1) /\ 0 \in 0..Len(dest) /\ 0 \in 0..modseq
        /\ NewMark \in 0..modseq
    BY CopyAssumption DEF NewMark
  <2>2. TypeOK'
    <3>1. /\ step' \in [Msgs -> Places] /\ tries' \in [Msgs -> 0..(Attempts - 1)]
          /\ uid' \in [Msgs -> 0..Len(dest)] /\ seen' \in 0..modseq
          /\ mark' \in 0..modseq /\ finished' \in BOOLEAN
      BY <1>4, <2>1 DEF MarkSynced, NoRun, Places
    <3>. QED
      BY <1>4, <3>1 DEF MarkSynced, NoRun
  <2>3. (TriesLeft /\ RunShape /\ RowsFollow /\ IndexSearchable /\ GoneForGood)'
    BY <1>4 DEF MarkSynced, NoRun
  <2>. QED
    BY <2>2, <2>3
<1>5. CASE RunStops
  <2>1. 0 \in 0..(Attempts - 1) /\ 0 \in 0..Len(dest) /\ 0 \in 0..modseq
    BY CopyAssumption
  <2>2. TypeOK'
    <3>1. /\ step' \in [Msgs -> Places] /\ tries' \in [Msgs -> 0..(Attempts - 1)]
          /\ uid' \in [Msgs -> 0..Len(dest)] /\ seen' \in 0..modseq
      BY <1>5, <2>1 DEF RunStops, NoRun, Places
    <3>2. stops' \in Nat
      BY <1>5 DEF RunStops
    <3>3. /\ phase' = "idle" /\ suspects' = {} /\ free' = {} /\ bodies' = {}
          /\ failed' = FALSE
      BY <1>5 DEF RunStops, NoRun
    <3>. QED
      BY <1>5, <3>1, <3>2, <3>3 DEF RunStops
  <2>3. (TriesLeft /\ RunShape /\ RowsFollow /\ IndexSearchable /\ GoneForGood)'
    BY <1>5 DEF RunStops, NoRun
  <2>. QED
    BY <2>2, <2>3
<1>. QED
  BY <1>1, <1>2, <1>3, <1>4, <1>5

LEMMA SourceKeepsBase ==
    ASSUME BaseInv, NEW m \in Msgs, Arrive(m) \/ Expunge(m)
    PROVE  BaseInv'
<1>. USE DEF BaseInv, TypeOK, TriesLeft, RunShape, RowsFollow, IndexSearchable,
         GoneForGood, storeVars, runVars
<1>1. CASE Arrive(m)
  BY SMTT(30), <1>1 DEF Arrive
<1>2. CASE Expunge(m)
  BY SMTT(30), <1>2 DEF Expunge
<1>. QED
  BY <1>1, <1>2

\* The destination only grows, at its end.
LEMMA AppendGrows ==
    ASSUME TypeOK, NEW m \in Msgs, dest' = Append(dest, m)
    PROVE  /\ dest' \in Seq(Msgs)
           /\ Len(dest) \in Nat /\ Len(dest') = Len(dest) + 1
           /\ 1..Len(dest) \subseteq 1..Len(dest')
           /\ 0..Len(dest) \subseteq 0..Len(dest')
           /\ \A u \in 1..Len(dest) : dest'[u] = dest[u]
           /\ dest'[Len(dest')] = m
           /\ dstUID \in [Msgs -> 0..Len(dest')]
           /\ uid \in [Msgs -> 0..Len(dest')]
           /\ free \in SUBSET (1..Len(dest'))
<1>1. /\ dest' \in Seq(Msgs)
      /\ Len(dest) \in Nat /\ Len(dest') = Len(dest) + 1
      /\ \A u \in 1..Len(dest) : dest'[u] = dest[u]
      /\ dest'[Len(dest')] = m
  BY DEF TypeOK
<1>2. 0..Len(dest) \subseteq 0..Len(dest') /\ 1..Len(dest) \subseteq 1..Len(dest')
  BY <1>1
<1>. QED
  BY <1>1, <1>2 DEF TypeOK

LEMMA CopyTypes ==
    ASSUME TypeOK, TriesLeft, NEW m \in Msgs, CopyMessage(m)
    PROVE  TypeOK'
<1>. USE DEF TypeOK, sourceVars, storeVars, States, Places, Move
<1>1. CASE FindGone(m)
  BY <1>1 DEF FindGone, SetState
<1>2. CASE BeginAppend(m)
  BY <1>2 DEF BeginAppend, SetState
<1>3. CASE Adopt(m)
  BY SMTT(30), <1>3 DEF Adopt, Matching
<1>4. CASE FetchBody(m)
  BY <1>4 DEF FetchBody
<1>5. CASE FetchFails(m)
  <2>1. /\ row' \in [Msgs -> States] /\ step' \in [Msgs -> Places]
        /\ failed' \in BOOLEAN /\ faults' \in Nat
        /\ UNCHANGED <<dstUID, mark, finished>>
    <3>1. CASE Abandon(m)
      BY <1>5, <3>1 DEF FetchFails, Fault, Abandon, SetState
    <3>2. CASE Move(m, "todo") /\ UNCHANGED <<storeVars, failed>>
      BY <1>5, <3>2 DEF FetchFails, Fault
    <3>. QED
      BY <1>5, <3>1, <3>2 DEF FetchFails
  <2>. QED
    BY <1>5, <2>1 DEF FetchFails
<1>6. CASE AppendAccepted(m)
  <2>1. step' \in [Msgs -> Places] /\ uid' \in [Msgs -> 0..Len(dest')]
    <3>1. Len(dest') \in 0..Len(dest')
      BY <1>6, AppendGrows DEF AppendAccepted
    <3>2. uid \in [Msgs -> 0..Len(dest')]
      BY <1>6, AppendGrows DEF AppendAccepted
    <3>3. uid' = uid \/ uid' = [uid EXCEPT ![m] = Len(dest')]
      BY <1>6 DEF AppendAccepted
    <3>4. step' = [step EXCEPT ![m] = "record"] \/ step' = [step EXCEPT ![m] = "settle"]
      BY <1>6 DEF AppendAccepted
    <3>5. step' \in [Msgs -> Places]
      BY <3>4
    <3>6. uid' \in [Msgs -> 0..Len(dest')]
      <4>. HIDE DEF TypeOK
      <4>. QED
        BY <3>1, <3>2, <3>3
    <3>. QED
      BY <3>5, <3>6
  <2>. QED
    BY <1>6, <2>1, AppendGrows DEF AppendAccepted
<1>7. CASE SettleUID(m)
  <2>1. /\ step' \in [Msgs -> Places] /\ uid' \in [Msgs -> 0..Len(dest)]
        /\ faults' \in Nat /\ blind' \in SUBSET Msgs
    <3>1. uid' = uid \/ uid' = [uid EXCEPT ![m] = Locate(m)]
      BY <1>7 DEF SettleUID
    <3>2. Locate(m) \in 0..Len(dest)
      BY LocateTells
    <3>3. uid' \in [Msgs -> 0..Len(dest)]
      BY <3>1, <3>2
    <3>4. faults' \in Nat /\ blind' \in SUBSET Msgs
      BY <1>7 DEF SettleUID, SearchFails
    <3>. QED
      BY <1>7, <3>3, <3>4 DEF SettleUID
  <2>. QED
    BY <1>7, <2>1 DEF SettleUID
<1>8. CASE AppendRefused(m)
  BY SMTT(30), <1>8 DEF AppendRefused, Fault, Abandon, SetState
<1>9. CASE AppendBreaks(m)
  <2>1. /\ row' \in [Msgs -> States] /\ step' \in [Msgs -> Places]
        /\ failed' \in BOOLEAN /\ givenUp' \in SUBSET Msgs /\ faults' \in Nat
        /\ UNCHANGED <<dstUID, mark, finished>>
    <3>1. CASE LastAttempt(m)
      <4>1. Abandon(m) /\ givenUp' = givenUp \cup {m} /\ faults' = faults + 1
        BY <1>9, <3>1 DEF AppendBreaks, Fault
      <4>. QED
        BY <4>1 DEF Abandon, SetState
    <3>2. CASE ~LastAttempt(m)
      <4>1. /\ step' = [step EXCEPT ![m] = "look"] /\ faults' = faults + 1
            /\ UNCHANGED <<storeVars, failed, givenUp>>
        BY <1>9, <3>2 DEF AppendBreaks, Fault
      <4>. QED
        BY <4>1
    <3>. QED
      BY <3>1, <3>2
  <2>2. /\ dest' \in Seq(Msgs)
        /\ dstUID \in [Msgs -> 0..Len(dest')]
        /\ uid \in [Msgs -> 0..Len(dest')]
        /\ free \in SUBSET (1..Len(dest'))
    BY <1>9, AppendGrows DEF AppendBreaks
  <2>. QED
    BY <1>9, <2>1, <2>2 DEF AppendBreaks
<1>10. CASE LookFinds(m)
  BY <1>10, LocateTells DEF LookFinds
<1>11. CASE LookFindsNothing(m)
  <2>1. tries[m] + 1 \in 0..(Attempts - 1)
    BY <1>11, CopyAssumption DEF LookFindsNothing, TriesLeft
  <2>2. /\ step' \in [Msgs -> Places] /\ tries' \in [Msgs -> 0..(Attempts - 1)]
        /\ faults' \in Nat /\ blind' \in SUBSET Msgs
    BY <1>11, <2>1 DEF LookFindsNothing, SearchFails
  <2>. QED
    BY <1>11, <2>2 DEF LookFindsNothing
<1>12. CASE Record(m)
  BY <1>12 DEF Record, CompleteAppend
<1>13. CASE SettleDuplicate(m)
  <2>1. /\ row' \in [Msgs -> States] /\ step' \in [Msgs -> Places]
        /\ dstUID' \in [Msgs -> 0..Len(dest)]
        /\ UNCHANGED <<mark, finished>>
    <3>1. PICK s \in bodies :
            IF Stands(s) THEN CompleteAppend(m, dstUID[s]) ELSE UNCHANGED storeVars
      BY <1>13 DEF SettleDuplicate
    <3>2. dstUID[s] \in 0..Len(dest)
      OBVIOUS
    <3>. QED
      BY <1>13, <3>1, <3>2 DEF SettleDuplicate, CompleteAppend
  <2>. QED
    BY <1>13, <2>1 DEF SettleDuplicate
<1>. QED
  BY <1>1, <1>2, <1>3, <1>4, <1>5, <1>6, <1>7, <1>8, <1>9, <1>10, <1>11, <1>12,
     <1>13 DEF CopyMessage

\* A step of one message changes nothing about the others.
LEMMA OneMessage ==
    ASSUME TypeOK, NEW m \in Msgs, CopyMessage(m)
    PROVE  /\ step[m] # "out"
           /\ \A n \in Msgs \ {m} : /\ step'[n] = step[n] /\ row'[n] = row[n]
                                    /\ tries'[n] = tries[n]
           /\ UNCHANGED <<listed, modseq, mark, finished, phase, seen, suspects, stops>>
           /\ dest' = dest \/ dest' = Append(dest, m)
           /\ free' \subseteq free /\ bodies \subseteq bodies'
           /\ blind \subseteq blind' /\ givenUp \subseteq givenUp'
           /\ failed => failed'
<1>. USE DEF TypeOK, sourceVars, storeVars, Move
<1>1. CASE FindGone(m) \/ BeginAppend(m) \/ Adopt(m) \/ FetchBody(m)
  BY <1>1 DEF FindGone, BeginAppend, Adopt, FetchBody, SetState
<1>2. CASE FetchFails(m) \/ AppendRefused(m)
  BY <1>2 DEF FetchFails, AppendRefused, Abandon, SetState
<1>3. CASE AppendAccepted(m) \/ SettleUID(m) \/ LookFinds(m) \/ LookFindsNothing(m)
  BY <1>3 DEF AppendAccepted, SettleUID, LookFinds, LookFindsNothing, SearchFails
<1>4. CASE AppendBreaks(m)
  BY <1>4 DEF AppendBreaks, Abandon, SetState
<1>5. CASE Record(m) \/ SettleDuplicate(m)
  BY <1>5 DEF Record, SettleDuplicate, CompleteAppend
<1>. QED
  BY <1>1, <1>2, <1>3, <1>4, <1>5 DEF CopyMessage

\* What it makes of its own row.
LEMMA OwnRow ==
    ASSUME BaseInv, NEW m \in Msgs, CopyMessage(m)
    PROVE  /\ step'[m] = "look" => tries'[m] + 1 < Attempts
           /\ step'[m] = "todo" => row'[m] = "in_flight"
           /\ step'[m] \notin {"out", "todo"} => row'[m] = "in_flight"
           /\ m \in listed => row'[m] # "gone"
<1>. USE DEF BaseInv, TypeOK, RowsFollow, GoneForGood, storeVars, Move
<1>1. CASE FindGone(m) \/ BeginAppend(m) \/ Adopt(m) \/ FetchBody(m)
  BY <1>1 DEF FindGone, BeginAppend, Adopt, FetchBody, SetState
<1>2. CASE FetchFails(m) \/ AppendRefused(m)
  BY <1>2 DEF FetchFails, AppendRefused, Abandon, SetState
<1>3. CASE AppendAccepted(m) \/ SettleUID(m) \/ LookFinds(m) \/ LookFindsNothing(m)
  BY <1>3 DEF AppendAccepted, SettleUID, LookFinds, LookFindsNothing
<1>4. CASE AppendBreaks(m)
  <2>1. ~LastAttempt(m) => tries[m] + 1 < Attempts
    BY CopyAssumption DEF LastAttempt
  <2>. QED
    BY <1>4, <2>1 DEF AppendBreaks, Abandon, SetState
<1>5. CASE Record(m) \/ SettleDuplicate(m)
  BY <1>5 DEF Record, SettleDuplicate, CompleteAppend
<1>. QED
  BY <1>1, <1>2, <1>3, <1>4, <1>5 DEF CopyMessage

LEMMA CopyKeepsBase ==
    ASSUME BaseInv, NEW m \in Msgs, CopyMessage(m)
    PROVE  BaseInv'
<1>1. TypeOK'
  BY CopyTypes DEF BaseInv
<1>2. RunShape'
  BY OneMessage DEF BaseInv, RunShape
<1>3. TriesLeft'
  BY OneMessage, OwnRow DEF BaseInv, TriesLeft
<1>4. GoneForGood'
  BY OneMessage, OwnRow DEF BaseInv, TypeOK, GoneForGood
<1>5. RowsFollow'
  BY OneMessage, OwnRow DEF BaseInv, RowsFollow, RunShape
<1>6. IndexSearchable'
  <2>1. \A u \in free : dest'[u] = dest[u]
    BY OneMessage, AppendGrows DEF BaseInv, TypeOK
  <2>. QED
    BY <2>1, OneMessage DEF BaseInv, IndexSearchable, Searchable
<1>. QED
  BY <1>1, <1>2, <1>3, <1>4, <1>5, <1>6 DEF BaseInv

LEMMA NextBase == BaseInv /\ [Next]_vars => BaseInv'
<1>. SUFFICES ASSUME BaseInv, [Next]_vars PROVE BaseInv'
  OBVIOUS
<1>1. CASE UNCHANGED vars
  BY <1>1 DEF vars, sourceVars, storeVars, runVars, BaseInv, TypeOK, TriesLeft,
     RunShape, RowsFollow, IndexSearchable, GoneForGood
<1>. QED
  BY <1>1, RunKeepsBase, RecoverKeepsBase, CopyKeepsBase, SourceKeepsBase DEF Next

\* Where a run stands and what its rows say go together: from BeginAppend on a
\* message has a row that says in flight (syncer.go deliver), a suspect is settled
\* before anything is copied, and what the source expunged stays away.
THEOREM BaseInvariant == Spec => []BaseInv
  BY InitBase, NextBase, PTL DEF Spec

\* Every variable keeps its type through crashes, retries and later runs.
THEOREM TypeCorrect == Spec => []TypeOK
<1>1. BaseInv => TypeOK
  BY DEF BaseInv
<1>. QED
  BY <1>1, BaseInvariant, PTL

-----------------------------------------------------------------------------
(* The rows never lie, and the watermark is earned *)

\* What is on the destination stays there.
LEMMA CopiesStay ==
    ASSUME TypeOK, NEW m \in Msgs, HasCopy(m),
           dest' = dest \/ \E n \in Msgs : dest' = Append(dest, n)
    PROVE  HasCopy(m)'
<1>1. PICK u \in 1..Len(dest) : Bytes[dest[u]] = Bytes[m]
  BY DEF HasCopy
<1>2. u \in 1..Len(dest') /\ dest'[u] = dest[u]
  BY AppendGrows
<1>. QED
  BY <1>1, <1>2 DEF HasCopy

\* Every step leaves the destination or appends to it.
LEMMA DestGrows ==
    ASSUME BaseInv, [Next]_vars
    PROVE  dest' = dest \/ \E n \in Msgs : dest' = Append(dest, n)
<1>1. CASE \E m \in Msgs : CopyMessage(m)
  BY <1>1, OneMessage DEF BaseInv
<1>2. CASE \/ FolderUnchanged \/ StartRun \/ Diff \/ MarkSynced \/ RunStops
           \/ \E m \in Msgs : Recover(m) \/ Arrive(m) \/ Expunge(m)
           \/ UNCHANGED vars
  BY <1>2 DEF FolderUnchanged, StartRun, Diff, MarkSynced, RunStops, Recover, RecoverFound,
     RecoverNotFound, RecoverExpunged, Arrive, Expunge, vars
<1>. QED
  BY <1>1, <1>2 DEF Next

\* Where identities tell contents apart, a match is a copy.
LEMMA MatchIsCopy ==
    ASSUME IdentityTellsApart, TypeOK, NEW m \in Msgs, NEW u \in 1..Len(dest),
           Identity[dest[u]] = Identity[m], Searchable(m) \/ Searchable(dest[u])
    PROVE  HasCopy(m)
<1>1. dest[u] \in Msgs
  BY DEF TypeOK
<1>2. m \in Msgs \ Weak /\ dest[u] \in Msgs \ Weak
  BY <1>1, CopyAssumption DEF Searchable
<1>3. Bytes[dest[u]] = Bytes[m]
  BY <1>2 DEF IdentityTellsApart
<1>. QED
  BY <1>3 DEF HasCopy

LEMMA LocatedIsCopy ==
    ASSUME IdentityTellsApart, TypeOK, NEW m \in Msgs, Locate(m) # 0
    PROVE  HasCopy(m)
  BY LocateTells, MatchIsCopy

LEMMA AppendedIsCopy ==
    ASSUME TypeOK, NEW m \in Msgs, dest' = Append(dest, m)
    PROVE  HasCopy(m)'
<1>1. Len(dest') \in 1..Len(dest') /\ dest'[Len(dest')] = m
  BY AppendGrows
<1>. QED
  BY <1>1 DEF HasCopy

\* A step that leaves the run's messages as they are, or ends it, and lets no
\* row be done.
LEMMA NothingNewDone ==
    ASSUME BaseInv, CopyInv, [Next]_vars, UNCHANGED <<listed, modseq, mark>>,
           \A m \in Msgs : row'[m] = "done" => row[m] = "done",
           \/ UNCHANGED <<phase, seen, step, bodies, failed>>
           \/ phase' # "copy" /\ bodies' = {} /\ \A m \in Msgs : step'[m] = "out"
    PROVE  CopyInv'
<1>1. \A m \in Msgs : HasCopy(m) => HasCopy(m)'
  BY CopiesStay, DestGrows DEF BaseInv
<1>2. bodies \in SUBSET Msgs /\ listed \in SUBSET Msgs
  BY DEF BaseInv, TypeOK
<1>3. DoneMeansCopied' /\ LandedInHand'
  BY <1>1 DEF CopyInv, DoneMeansCopied, LandedInHand
<1>4. BodiesServed' /\ DupsHaveSurvivor'
  BY <1>1, <1>2 DEF CopyInv, BodiesServed, DupsHaveSurvivor
<1>5. RunEarnsMark' /\ WatermarkHonest'
  BY <1>1, <1>2 DEF CopyInv, RunEarnsMark, WatermarkHonest
<1>. QED
  BY <1>3, <1>4, <1>5 DEF CopyInv

LEMMA InitCopy == Init => CopyInv
  BY DEF Init, CopyInv, DoneMeansCopied, LandedInHand, BodiesServed, DupsHaveSurvivor,
     RunEarnsMark, WatermarkHonest

LEMMA RunKeepsCopy ==
    ASSUME BaseInv, CopyInv, [Next]_vars,
           FolderUnchanged \/ StartRun \/ Diff \/ MarkSynced \/ RunStops
    PROVE  CopyInv'
<1>1. CASE FolderUnchanged
  BY <1>1, NothingNewDone DEF FolderUnchanged, vars, sourceVars, storeVars, runVars
<1>2. CASE StartRun
  BY <1>2, NothingNewDone DEF StartRun, sourceVars, storeVars, BaseInv, RunShape
<1>3. CASE RunStops
  BY <1>3, NothingNewDone DEF RunStops, NoRun, sourceVars, storeVars
<1>4. CASE Diff
  <2>1. /\ UNCHANGED <<listed, modseq, dest, row, mark, seen, bodies, failed>>
        /\ bodies = {} /\ \A m \in Msgs : step'[m] \in {"out", "todo"}
    BY <1>4 DEF Diff, sourceVars, storeVars, BaseInv, RunShape
  <2>2. \A m \in listed : step'[m] = "out" => HasCopy(m)
    <3>. SUFFICES ASSUME NEW m \in listed, step'[m] = "out" PROVE HasCopy(m)
      OBVIOUS
    <3>1. m \in Msgs
      BY DEF BaseInv, TypeOK
    <3>2. m \notin ToCopy
      BY <1>4, <3>1 DEF Diff
    <3>3. row[m] = "done"
      BY <3>2 DEF ToCopy, BaseInv, GoneForGood
    <3>. QED
      BY <3>1, <3>3 DEF CopyInv, DoneMeansCopied
  <2>. QED
    BY <2>1, <2>2 DEF CopyInv, DoneMeansCopied, LandedInHand, BodiesServed,
       DupsHaveSurvivor, RunEarnsMark, WatermarkHonest, HasCopy
<1>5. CASE MarkSynced
  <2>1. /\ UNCHANGED <<listed, modseq, dest, row>> /\ phase = "copy"
        /\ phase' = "idle" /\ bodies' = {} /\ \A m \in Msgs : step'[m] = "out"
        /\ \A m \in Msgs : step[m] = "out"
    BY <1>5 DEF MarkSynced, NoRun, sourceVars
  <2>2. WatermarkHonest'
    <3>1. CASE failed
      BY <1>5, <2>1, <3>1 DEF MarkSynced, NewMark, CopyInv, WatermarkHonest, HasCopy
    <3>2. CASE ~failed
      <4>1. mark' = seen
        BY <1>5, <3>2 DEF MarkSynced, NewMark
      <4>2. seen = modseq => \A m \in listed : HasCopy(m)
        BY <2>1, <3>2 DEF CopyInv, RunEarnsMark, BaseInv, TypeOK
      <4>. QED
        BY <2>1, <4>1, <4>2 DEF WatermarkHonest, HasCopy
    <3>. QED
      BY <3>1, <3>2
  <2>. QED
    BY <2>1, <2>2 DEF CopyInv, DoneMeansCopied, LandedInHand, BodiesServed,
       DupsHaveSurvivor, RunEarnsMark, HasCopy
<1>. QED
  BY <1>1, <1>2, <1>3, <1>4, <1>5

LEMMA SourceKeepsCopy ==
    ASSUME BaseInv, CopyInv, NEW m \in Msgs, Arrive(m) \/ Expunge(m)
    PROVE  CopyInv'
<1>1. /\ modseq' = modseq + 1
      /\ UNCHANGED <<dest, row, mark, phase, seen, step, bodies, failed>>
  BY DEF Arrive, Expunge, storeVars, runVars
<1>2. seen # modseq' /\ mark # modseq'
  BY <1>1 DEF BaseInv, TypeOK
<1>. QED
  BY <1>1, <1>2 DEF CopyInv, DoneMeansCopied, LandedInHand, BodiesServed,
     DupsHaveSurvivor, RunEarnsMark, WatermarkHonest, HasCopy

LEMMA RecoverKeepsCopy ==
    ASSUME IdentityTellsApart, BaseInv, CopyInv, [Next]_vars, NEW m \in Msgs, Recover(m)
    PROVE  CopyInv'
<1>1. CASE RecoverFound(m)
  <2>1. HasCopy(m)
    BY <1>1, LocatedIsCopy DEF RecoverFound, BaseInv
  <2>2. /\ UNCHANGED <<listed, modseq, dest, mark, phase, seen, step, bodies, failed>>
        /\ row' = [row EXCEPT ![m] = "done"]
    BY <1>1 DEF RecoverFound, CompleteAppend, sourceVars
  <2>. QED
    BY <2>1, <2>2 DEF CopyInv, DoneMeansCopied, LandedInHand, BodiesServed,
       DupsHaveSurvivor, RunEarnsMark, WatermarkHonest, HasCopy, BaseInv, TypeOK
<1>2. CASE RecoverNotFound(m) \/ RecoverExpunged(m)
  BY <1>2, NothingNewDone DEF RecoverNotFound, RecoverExpunged, SetState, sourceVars,
     storeVars, BaseInv, TypeOK
<1>. QED
  BY <1>1, <1>2 DEF Recover

\* What a step makes of its own message.
LEMMA OwnCopy ==
    ASSUME IdentityTellsApart, BaseInv, CopyInv, NEW m \in Msgs, CopyMessage(m)
    PROVE  /\ row'[m] = "done" => HasCopy(m)'
           /\ step'[m] \in {"settle", "record"} => HasCopy(m)'
           /\ step'[m] = "out" => failed' \/ HasCopy(m)' \/ m \notin listed
           /\ bodies' \subseteq bodies \cup {m}
           /\ m \in bodies' => /\ step'[m] \notin {"todo", "begun", "dup"}
                               /\ step'[m] = "out" => failed' \/ HasCopy(m)'
           /\ step'[m] = "dup" => \E s \in bodies : Bytes[s] = Bytes[m]
<1>. USE DEF BaseInv, TypeOK, CopyInv, Move, storeVars
<1>1. CASE FindGone(m)
  BY <1>1 DEF FindGone, SetState, BodiesServed
<1>2. CASE BeginAppend(m)
  BY <1>2 DEF BeginAppend, SetState, BodiesServed
<1>3. CASE Adopt(m)
  <2>1. PICK u \in free : Identity[dest[u]] = Identity[m]
    BY <1>3 DEF Adopt, Matching
  <2>2. HasCopy(m)
    BY <2>1, MatchIsCopy DEF IndexSearchable
  <2>. QED
    BY <1>3, <2>2 DEF Adopt, HasCopy
<1>4. CASE FetchBody(m)
  BY <1>4, OwnRow DEF FetchBody, BodiesServed
<1>5. CASE FetchFails(m)
  BY <1>5 DEF FetchFails, Abandon, SetState, BodiesServed, RowsFollow
<1>6. CASE AppendAccepted(m)
  BY <1>6, AppendedIsCopy DEF AppendAccepted
<1>7. CASE SettleUID(m) \/ LookFindsNothing(m)
  <2>1. /\ UNCHANGED <<dest, row, bodies, failed>>
        /\ \/ step[m] = "settle" /\ step' = [step EXCEPT ![m] = "record"]
           \/ step[m] = "look" /\ step' = [step EXCEPT ![m] = "pending"]
    BY <1>7 DEF SettleUID, LookFindsNothing
  <2>2. row[m] = "in_flight"
    BY <2>1 DEF RowsFollow
  <2>3. /\ step'[m] \in {"record", "pending"}
        /\ step'[m] = "record" => step[m] = "settle"
    BY <2>1
  <2>4. HasCopy(m)' <=> HasCopy(m)
    BY <2>1 DEF HasCopy
  <2>5. step[m] = "settle" => HasCopy(m)
    BY DEF LandedInHand
  <2>. QED
    BY <2>1, <2>2, <2>3, <2>4, <2>5
<1>8. CASE AppendRefused(m)
  BY <1>8 DEF AppendRefused, Abandon, SetState
<1>9. CASE AppendBreaks(m)
  BY <1>9, OwnRow DEF AppendBreaks, Abandon, SetState
<1>10. CASE LookFinds(m)
  BY <1>10, LocatedIsCopy, OwnRow DEF LookFinds, HasCopy
<1>11. CASE Record(m)
  BY <1>11 DEF Record, CompleteAppend, LandedInHand, HasCopy
<1>12. CASE SettleDuplicate(m)
  <2>1. PICK s \in bodies :
          /\ Bytes[s] = Bytes[m]
          /\ IF Stands(s) THEN CompleteAppend(m, dstUID[s]) ELSE UNCHANGED storeVars
    BY <1>12 DEF SettleDuplicate
  <2>2. step[s] = "out" /\ m \notin bodies
    BY <1>12 DEF SettleDuplicate, CopyEnded, BodiesServed
  <2>3. failed \/ HasCopy(s)
    BY <2>2 DEF BodiesServed
  <2>4. HasCopy(s) => HasCopy(m)
    BY <2>1 DEF HasCopy
  <2>5. Stands(s) => HasCopy(s)
    BY DEF Stands, DoneMeansCopied
  <2>6. row'[m] = "done" => HasCopy(m)
    BY <1>12, <2>1, <2>4, <2>5 DEF CompleteAppend, SettleDuplicate, DoneMeansCopied
  <2>. QED
    BY <1>12, <2>2, <2>3, <2>4, <2>6 DEF SettleDuplicate, HasCopy
<1>. QED
  BY <1>1, <1>2, <1>3, <1>4, <1>5, <1>6, <1>7, <1>8, <1>9, <1>10, <1>11, <1>12
     DEF CopyMessage

LEMMA CopyKeepsCopy ==
    ASSUME IdentityTellsApart, BaseInv, CopyInv, [Next]_vars, NEW m \in Msgs, CopyMessage(m)
    PROVE  CopyInv'
<1>1. \A n \in Msgs : HasCopy(n) => HasCopy(n)'
  BY CopiesStay, DestGrows DEF BaseInv
<1>2. bodies \in SUBSET Msgs /\ listed \in SUBSET Msgs /\ TypeOK
  BY DEF BaseInv, TypeOK
<1>3. DoneMeansCopied' /\ LandedInHand'
  BY <1>1, <1>2, OwnCopy, OneMessage DEF CopyInv, DoneMeansCopied, LandedInHand
<1>4. BodiesServed'
  BY <1>1, <1>2, OwnCopy, OneMessage DEF CopyInv, BodiesServed
<1>5. DupsHaveSurvivor'
  BY <1>2, OwnCopy, OneMessage DEF CopyInv, DupsHaveSurvivor
<1>6. RunEarnsMark' /\ WatermarkHonest'
  BY <1>1, <1>2, OwnCopy, OneMessage DEF CopyInv, RunEarnsMark, WatermarkHonest
<1>. QED
  BY <1>3, <1>4, <1>5, <1>6 DEF CopyInv

LEMMA NextCopy ==
    ASSUME IdentityTellsApart
    PROVE  BaseInv /\ CopyInv /\ [Next]_vars => CopyInv'
<1>. SUFFICES ASSUME BaseInv, CopyInv, [Next]_vars PROVE CopyInv'
  OBVIOUS
<1>1. CASE UNCHANGED vars
  BY <1>1, NothingNewDone DEF vars, sourceVars, storeVars, runVars
<1>. QED
  BY <1>1, RunKeepsCopy, RecoverKeepsCopy, CopyKeepsCopy, SourceKeepsCopy DEF Next

\* Whatever is about to be recorded has landed, a body that was read has landed or
\* counts as a failure, and so the watermark that finish stores is earned.
THEOREM CopyInvariant ==
    ASSUME IdentityTellsApart
    PROVE  Spec => []CopyInv
  BY InitCopy, NextCopy, BaseInvariant, PTL DEF Spec

\* A row never says "done" without the content on the destination, whether it was
\* recorded, adopted, found by a search or settled as a repeat (CompleteAppend).
THEOREM DoneIsCopied ==
    ASSUME IdentityTellsApart
    PROVE  Spec => []DoneMeansCopied
<1>1. CopyInv => DoneMeansCopied
  BY DEF CopyInv
<1>. QED
  BY <1>1, CopyInvariant, PTL

\* A folder that canSkip will pass over has nothing left to copy, whatever failed
\* or changed while its watermark was earned (syncFolder).
THEOREM WatermarkIsHonest ==
    ASSUME IdentityTellsApart
    PROVE  Spec => []WatermarkHonest
<1>1. CopyInv => WatermarkHonest
  BY DEF CopyInv
<1>. QED
  BY <1>1, CopyInvariant, PTL

-----------------------------------------------------------------------------
(* The rows refine the ledger *)

LEMMA ChangesKeepLedger ==
    ASSUME BaseInv, BaseInv', CopyInv, CopyInv', [Next]_vars, NEW m \in Msgs,
           \A n \in Msgs \ {m} : row'[n] = row[n],
           row[m] = "done" => row'[m] = "done",
           row'[m] = "done" => row[m] = "done" \/ dest' = dest
    PROVE  [Ledger!Next]_(Ledger!ledgerVars)
<1>. DEFINE onDest == {n \in Msgs : HasCopy(n)}
            settled == {n \in Msgs : row[n] = "done"}
<1>1. onDest \subseteq onDest'
  BY CopiesStay, DestGrows DEF BaseInv
<1>2. CASE row[m] # "done" /\ row'[m] = "done"
  <2>1. m \in onDest /\ onDest' = onDest
    BY <1>2 DEF CopyInv, DoneMeansCopied, HasCopy
  <2>2. settled' = settled \cup {m}
    BY <1>2
  <2>3. Ledger!Settle(m)
    BY <2>1, <2>2 DEF Ledger!Settle
  <2>. QED
    BY <2>3 DEF Ledger!Next
<1>3. CASE row[m] = "done" \/ row'[m] # "done"
  <2>1. settled' = settled
    BY <1>3
  <2>2. Ledger!Deliver(onDest')
    BY <1>1, <2>1 DEF Ledger!Deliver
  <2>3. onDest' \in SUBSET Msgs
    OBVIOUS
  <2>. QED
    BY <2>2, <2>3 DEF Ledger!Next
<1>. QED
  BY <1>2, <1>3

\* A step that leaves every row as it is.
LEMMA SameRowsKeepLedger ==
    ASSUME BaseInv, [Next]_vars, \A n \in Msgs : row'[n] = "done" <=> row[n] = "done"
    PROVE  [Ledger!Next]_(Ledger!ledgerVars)
<1>. DEFINE onDest == {n \in Msgs : HasCopy(n)}
            settled == {n \in Msgs : row[n] = "done"}
<1>1. onDest \subseteq onDest' /\ onDest' \in SUBSET Msgs
  BY CopiesStay, DestGrows DEF BaseInv
<1>2. settled' = settled
  OBVIOUS
<1>3. Ledger!Deliver(onDest')
  BY <1>1, <1>2 DEF Ledger!Deliver
<1>. QED
  BY <1>1, <1>3 DEF Ledger!Next

\* Only a step that leaves the destination alone records a copy.
LEMMA OwnLedger ==
    ASSUME BaseInv, NEW m \in Msgs, CopyMessage(m)
    PROVE  /\ row[m] # "done"
           /\ row'[m] = "done" => dest' = dest
<1>. USE DEF BaseInv, TypeOK, RowsFollow, storeVars
<1>1. CASE FindGone(m) \/ BeginAppend(m) \/ Adopt(m) \/ FetchBody(m)
  BY <1>1 DEF FindGone, BeginAppend, Adopt, FetchBody, SetState
<1>2. CASE FetchFails(m) \/ AppendRefused(m)
  BY <1>2 DEF FetchFails, AppendRefused, Abandon, SetState
<1>3. CASE AppendAccepted(m) \/ SettleUID(m) \/ LookFinds(m) \/ LookFindsNothing(m)
  BY <1>3 DEF AppendAccepted, SettleUID, LookFinds, LookFindsNothing
<1>4. CASE AppendBreaks(m)
  BY <1>4 DEF AppendBreaks, Abandon, SetState
<1>5. CASE Record(m) \/ SettleDuplicate(m)
  BY <1>5 DEF Record, SettleDuplicate, CompleteAppend
<1>. QED
  BY <1>1, <1>2, <1>3, <1>4, <1>5 DEF CopyMessage

LEMMA NextKeepsLedger ==
    BaseInv /\ BaseInv' /\ CopyInv /\ CopyInv' /\ [Next]_vars
        => [Ledger!Next]_(Ledger!ledgerVars)
<1>. SUFFICES ASSUME BaseInv, BaseInv', CopyInv, CopyInv', [Next]_vars
              PROVE  [Ledger!Next]_(Ledger!ledgerVars)
  OBVIOUS
<1>1. CASE \E m \in Msgs : CopyMessage(m)
  <2>1. PICK m \in Msgs : CopyMessage(m)
    BY <1>1
  <2>2. \A n \in Msgs \ {m} : row'[n] = row[n]
    BY <2>1, OneMessage DEF BaseInv
  <2>. QED
    BY <2>1, <2>2, OwnLedger, ChangesKeepLedger
<1>2. CASE \E m \in Msgs : Recover(m)
  <2>1. PICK m \in Msgs : Recover(m)
    BY <1>2
  <2>2. dest' = dest /\ row[m] = "in_flight" /\ \A n \in Msgs \ {m} : row'[n] = row[n]
    BY <2>1 DEF Recover, RecoverFound, RecoverNotFound, RecoverExpunged, CompleteAppend,
       SetState, storeVars, BaseInv, TypeOK, RowsFollow
  <2>. QED
    BY <2>2, ChangesKeepLedger
<1>3. CASE \/ FolderUnchanged \/ StartRun \/ Diff \/ MarkSynced \/ RunStops
           \/ \E m \in Msgs : Arrive(m) \/ Expunge(m)
           \/ UNCHANGED vars
  <2>1. row' = row
    BY <1>3 DEF FolderUnchanged, StartRun, Diff, MarkSynced, RunStops, Arrive, Expunge,
       vars, storeVars
  <2>. QED
    BY <2>1, SameRowsKeepLedger
<1>. QED
  BY <1>1, <1>2, <1>3 DEF Next

\* The state database keeps what CopyLedger promises: a message is settled once
\* its content is on the destination, and then stays settled.
THEOREM CopyKeepsLedger ==
    ASSUME IdentityTellsApart
    PROVE  Spec => KeepsLedger
<1>1. Init => Ledger!Init
  BY DEF Init, Ledger!Init
<1>. QED
  BY <1>1, NextKeepsLedger, BaseInvariant, CopyInvariant, PTL
     DEF Spec, KeepsLedger, Ledger!Spec

-----------------------------------------------------------------------------
(* No message is sent twice *)

LEMMA InitOnce ==
    ASSUME NothingToAdopt
    PROVE  Init => SentOnce
<1>. SUFFICES ASSUME Init, NEW m \in Countable PROVE OnceAtMost(m)
  BY DEF SentOnce
<1>1. \A u \in 1..Len(dest) : dest[u] # m
  BY DEF Init, NothingToAdopt, Countable
<1>. QED
  BY <1>1 DEF OnceAtMost, Landed

\* A step that changes nothing about m, and appends no m, leaves its copies.
LEMMA OthersStay ==
    ASSUME BaseInv, NEW m \in Msgs, OnceAtMost(m),
           dest' = dest \/ \E n \in Msgs \ {m} : dest' = Append(dest, n),
           row'[m] = row[m], step'[m] = step[m], phase' = phase,
           m \in listed' => m \in listed,
           m \in suspects => m \in suspects'
    PROVE  OnceAtMost(m)'
<1>1. \A u \in 1..Len(dest') : dest'[u] = m => u \in 1..Len(dest) /\ dest[u] = m
  <2>1. CASE dest' = dest
    BY <2>1
  <2>2. CASE \E n \in Msgs \ {m} : dest' = Append(dest, n)
    <3>1. PICK n \in Msgs \ {m} : dest' = Append(dest, n)
      BY <2>2
    <3>2. /\ Len(dest) \in Nat /\ Len(dest') = Len(dest) + 1
          /\ \A u \in 1..Len(dest) : dest'[u] = dest[u]
          /\ dest'[Len(dest')] = n
      BY <3>1, AppendGrows DEF BaseInv
    <3>. QED
      BY <3>2
  <2>. QED
    BY <2>1, <2>2
<1>2. Landed(m)' => Landed(m)
  BY <1>1 DEF Landed
<1>. QED
  BY <1>1, <1>2 DEF OnceAtMost, Remembered

\* What a step makes of its own message.
LEMMA OwnOnce ==
    ASSUME BaseInv, NEW m \in Msgs, CopyMessage(m), OnceAtMost(m), m \in Countable'
    PROVE  OnceAtMost(m)'
<1>1. CASE dest' = dest
  <2>1. Landed(m)' <=> Landed(m)
    BY <1>1 DEF Landed
  <2>2. CASE ~Landed(m)
    BY <1>1, <2>1, <2>2 DEF OnceAtMost, Landed
  <2>3. CASE Landed(m)
    <3>1. step[m] \notin {"todo", "begun", "pending", "dup"} /\ row[m] # "none"
      BY <2>3 DEF OnceAtMost
    <3>2. CASE SettleUID(m) \/ LookFinds(m)
      <4>1. step'[m] = "record" /\ row' = row
        BY <3>2 DEF SettleUID, LookFinds, Move, storeVars, BaseInv, TypeOK
      <4>. QED
        BY <1>1, <2>1, <3>1, <4>1 DEF OnceAtMost, Remembered
    <3>3. CASE Record(m)
      <4>1. step'[m] = "out" /\ row'[m] = "done"
        BY <3>3 DEF Record, CompleteAppend, Move, BaseInv, TypeOK
      <4>. QED
        BY <1>1, <2>1, <4>1 DEF OnceAtMost, Remembered
    <3>4. ~LookFindsNothing(m)
      <4>1. Locate(m) # 0
        BY <2>3, LocateTells DEF Countable, Searchable, BaseInv
      <4>. QED
        BY <4>1 DEF LookFindsNothing, SearchFails, Countable
    <3>. QED
      BY <3>1, <3>2, <3>3, <3>4 DEF CopyMessage, FindGone, BeginAppend, Adopt, FetchBody,
         FetchFails, AppendAccepted, AppendRefused, AppendBreaks, SettleDuplicate
  <2>. QED
    BY <2>2, <2>3
<1>2. CASE dest' # dest
  <2>1. AppendAccepted(m) \/ AppendBreaks(m)
    BY <1>2 DEF CopyMessage, FindGone, BeginAppend, Adopt, FetchBody, FetchFails, SettleUID,
       AppendRefused, LookFinds, LookFindsNothing, Record, SettleDuplicate
  <2>2. step[m] = "pending" /\ dest' = Append(dest, m)
    BY <1>2, <2>1 DEF AppendAccepted, AppendBreaks
  <2>3. step'[m] \in {"look", "settle", "record"} /\ row'[m] = "in_flight"
    <3>1. row[m] = "in_flight"
      BY <2>2 DEF BaseInv, RowsFollow
    <3>. QED
      BY <2>1, <3>1 DEF AppendAccepted, AppendBreaks, Move, storeVars, BaseInv, TypeOK,
         Countable
  <2>4. \A u \in 1..Len(dest) : dest[u] # m
    BY <2>2 DEF OnceAtMost, Landed
  <2>5. \A u \in 1..Len(dest') : dest'[u] = m => u = Len(dest')
    <3>1. /\ Len(dest) \in Nat /\ Len(dest') = Len(dest) + 1
          /\ \A u \in 1..Len(dest) : dest'[u] = dest[u]
      BY <2>2, AppendGrows DEF BaseInv
    <3>. QED
      BY <2>4, <3>1
  <2>. QED
    BY <2>3, <2>5 DEF OnceAtMost, Remembered
<1>. QED
  BY <1>1, <1>2

\* History is never rewritten.
LEMMA CountableShrinks ==
    ASSUME BaseInv, [Next]_vars
    PROVE  Countable' \subseteq Countable
<1>1. CASE \E m \in Msgs : CopyMessage(m)
  BY <1>1, OneMessage DEF BaseInv, Countable
<1>2. CASE \/ FolderUnchanged \/ StartRun \/ Diff \/ MarkSynced \/ RunStops
           \/ \E m \in Msgs : Recover(m) \/ Arrive(m) \/ Expunge(m)
           \/ UNCHANGED vars
  BY <1>2 DEF FolderUnchanged, StartRun, Diff, MarkSynced, RunStops, Recover, RecoverFound,
     RecoverNotFound, RecoverExpunged, Arrive, Expunge, SearchFails, vars, Countable
<1>. QED
  BY <1>1, <1>2 DEF Next

LEMMA RunKeepsOnce ==
    ASSUME BaseInv, NEW m \in Msgs, OnceAtMost(m), StartRun \/ Diff \/ MarkSynced \/ RunStops
    PROVE  OnceAtMost(m)'
<1>1. UNCHANGED <<listed, dest, row>> /\ Landed(m)' = Landed(m)
  BY DEF StartRun, Diff, MarkSynced, RunStops, sourceVars, storeVars, Landed
<1>2. CASE ~Landed(m)
  BY <1>1, <1>2 DEF OnceAtMost
<1>3. CASE Landed(m) /\ StartRun
  BY <1>1, <1>3 DEF StartRun, Suspects, OnceAtMost, Remembered
<1>4. CASE Landed(m) /\ Diff
  <2>1. row[m] = "done" \/ m \notin listed
    BY <1>4 DEF Diff, OnceAtMost, Remembered, BaseInv, RunShape
  <2>2. step'[m] = "out"
    BY <1>4, <2>1 DEF Diff, ToCopy
  <2>. QED
    BY <1>1, <1>4, <2>1, <2>2 DEF OnceAtMost, Remembered
<1>5. CASE Landed(m) /\ (MarkSynced \/ RunStops)
  <2>1. phase' = "idle" /\ step'[m] = "out"
    BY <1>5 DEF MarkSynced, RunStops, NoRun
  <2>2. row[m] = "done" \/ m \notin listed \/ row[m] = "in_flight"
    BY <1>5 DEF OnceAtMost, Remembered, BaseInv, RowsFollow
  <2>. QED
    BY <1>1, <1>5, <2>1, <2>2 DEF OnceAtMost, Remembered
<1>. QED
  BY <1>2, <1>3, <1>4, <1>5

LEMMA RecoverKeepsOnce ==
    ASSUME BaseInv, NEW m \in Msgs, OnceAtMost(m), Recover(m), m \in Countable'
    PROVE  OnceAtMost(m)'
<1>1. UNCHANGED <<listed, dest, step, phase>> /\ Landed(m)' = Landed(m)
  BY DEF Recover, RecoverFound, RecoverNotFound, RecoverExpunged, sourceVars, Landed
<1>2. CASE ~Landed(m)
  BY <1>1, <1>2 DEF OnceAtMost
<1>3. CASE Landed(m) /\ RecoverFound(m)
  BY <1>1, <1>3 DEF RecoverFound, CompleteAppend, OnceAtMost, Remembered, BaseInv, TypeOK
<1>4. CASE Landed(m) /\ RecoverNotFound(m)
  <2>1. Locate(m) # 0
    BY <1>4, LocateTells DEF Countable, Searchable, BaseInv
  <2>. QED
    BY <1>4, <2>1 DEF RecoverNotFound, SearchFails, Countable
<1>5. CASE Landed(m) /\ RecoverExpunged(m)
  BY <1>1, <1>5 DEF RecoverExpunged, SetState, OnceAtMost, Remembered, BaseInv, TypeOK
<1>. QED
  BY <1>2, <1>3, <1>4, <1>5 DEF Recover

LEMMA SourceKeepsOnce ==
    ASSUME BaseInv, NEW m \in Msgs, OnceAtMost(m), Arrive(m) \/ Expunge(m)
    PROVE  OnceAtMost(m)'
<1>1. UNCHANGED <<dest, row, step, phase, suspects>> /\ Landed(m)' = Landed(m)
  BY DEF Arrive, Expunge, storeVars, runVars, Landed
<1>2. Expunge(m) => m \notin listed'
  BY DEF Expunge
<1>3. Arrive(m) => row[m] = "none"
  BY DEF Arrive
<1>. QED
  BY <1>1, <1>2, <1>3 DEF OnceAtMost, Remembered

LEMMA NextOnce == BaseInv /\ SentOnce /\ [Next]_vars => SentOnce'
<1>. SUFFICES ASSUME BaseInv, SentOnce, [Next]_vars, NEW m \in Countable'
              PROVE  OnceAtMost(m)'
  BY DEF SentOnce
<1>1. m \in Msgs /\ OnceAtMost(m)
  BY CountableShrinks DEF SentOnce, Countable
<1>2. CASE UNCHANGED vars
  BY <1>1, <1>2, OthersStay DEF vars, sourceVars, storeVars, runVars
<1>3. CASE FolderUnchanged
  BY <1>1, <1>3, OthersStay DEF FolderUnchanged, vars, sourceVars, storeVars, runVars
<1>4. CASE StartRun \/ Diff \/ MarkSynced \/ RunStops
  BY <1>1, <1>4, RunKeepsOnce
<1>5. CASE \E n \in Msgs : Recover(n) \/ CopyMessage(n) \/ Arrive(n) \/ Expunge(n)
  <2>1. PICK n \in Msgs : Recover(n) \/ CopyMessage(n) \/ Arrive(n) \/ Expunge(n)
    BY <1>5
  <2>2. CASE n = m
    BY <1>1, <2>1, <2>2, RecoverKeepsOnce, OwnOnce, SourceKeepsOnce
  <2>3. CASE n # m
    <3>1. CASE Recover(n)
      <4>1. /\ dest' = dest /\ row'[m] = row[m] /\ UNCHANGED <<step, phase, listed>>
            /\ m \in suspects => m \in suspects'
        BY <1>1, <2>3, <3>1 DEF Recover, RecoverFound, RecoverNotFound, RecoverExpunged,
           CompleteAppend, SetState, sourceVars, storeVars, BaseInv, TypeOK
      <4>. QED
        BY <1>1, <4>1, OthersStay
    <3>2. CASE CopyMessage(n)
      <4>1. /\ row'[m] = row[m] /\ step'[m] = step[m] /\ UNCHANGED <<phase, listed, suspects>>
            /\ dest' = dest \/ dest' = Append(dest, n)
        BY <1>1, <2>3, <3>2, OneMessage DEF BaseInv
      <4>. QED
        BY <1>1, <2>3, <4>1, OthersStay
    <3>3. CASE Arrive(n) \/ Expunge(n)
      <4>1. /\ UNCHANGED <<dest, row, step, phase, suspects>>
            /\ m \in listed' => m \in listed
        BY <2>3, <3>3 DEF Arrive, Expunge, storeVars, runVars
      <4>. QED
        BY <1>1, <4>1, OthersStay
    <3>. QED
      BY <2>1, <3>1, <3>2, <3>3
  <2>. QED
    BY <2>2, <2>3
<1>. QED
  BY <1>2, <1>3, <1>4, <1>5 DEF Next

\* A message that has landed has landed once, and its row, the run or the recovery
\* still knows of the attempt, so that nothing sends it again (recoverInFlight).
THEOREM OnceInvariant ==
    ASSUME NothingToAdopt
    PROVE  Spec => []SentOnce
  BY InitOnce, NextOnce, BaseInvariant, PTL DEF Spec

\* Copies are counted by the messages that they are copies of.
LEMMA CopiesCounted == BaseInv /\ SentOnce => NoSecondCopy
<1>. SUFFICES ASSUME BaseInv, SentOnce, NEW m \in Msgs \ Weak,
                     Alike(m) \cap (blind \cup givenUp) = {}
              PROVE  Cardinality(Copies(m)) <= Cardinality(Alike(m))
  BY DEF NoSecondCopy
<1>1. Alike(m) \subseteq Countable
  BY CopyAssumption DEF Alike, Countable
<1>2. \A u \in Copies(m) : u \in 1..Len(dest) /\ dest[u] \in Alike(m)
  BY DEF Copies, Alike, BaseInv, TypeOK
<1>3. \A u, v \in Copies(m) : dest[u] = dest[v] => u = v
  BY <1>1, <1>2 DEF SentOnce, OnceAtMost
<1>4. [u \in Copies(m) |-> dest[u]] \in Injection(Copies(m), Alike(m))
  BY <1>2, <1>3 DEF Injection, IsInjective
<1>5. IsFiniteSet(Alike(m))
  BY FS_Subset, CopyAssumption DEF Alike
<1>. QED
  BY <1>4, <1>5, FS_Injection

\* No crash, lost reply, failed command or retry appends a message twice, where
\* its identity can be searched for, no search about it failed and no attempt was
\* given up (recover, deliver).
THEOREM NobodySendsTwice ==
    ASSUME NothingToAdopt
    PROVE  Spec => []NoSecondCopy
  BY CopiesCounted, OnceInvariant, BaseInvariant, PTL
====
