------------------------- MODULE LocalFolderProofs -------------------------
(***************************************************************************)
(* What holds of a folder of the local store for any number of             *)
(* connections, messages, runs and mishaps: no file is written over, a     *)
(* number stands for one message, and every file has its row.              *)
(***************************************************************************)
EXTENDS LocalFolder, FiniteSetTheorems, TLAPS

Handles == [gen : Int, next : Nat, validity : Nat]
Jobs    == [msg : Nat, uid : Nat, next : Nat]
Scans   == [uids : SUBSET (Nat \ {0}), foreign : SUBSET Dropped]
Fields  == {"gen", "state", "next", "validity", "rows"}
Opened  == {"scan", "adopt", "persist", "rename", "commit", "raise", "register"}
Program == {"idle", "rebuild", "load", "insert", "unrow"} \cup Opened

\* Numbers have a largest.
Bounded(uids) == \E n \in Nat : uids \subseteq 1..n

TypeOK ==
    /\ files = [u \in UIDs |-> files[u]]
    /\ UIDs \in SUBSET (Nat \ {0}) /\ Bounded(UIDs)
    /\ foreign \in SUBSET Dropped
    /\ DOMAIN db = Fields /\ db.gen \in Nat \ {0} /\ db.next \in Nat /\ db.validity \in Nat
    /\ DOMAIN old = Fields /\ old.next \in Nat /\ old.validity \in Nat
    /\ session \in {"closed", "open", "readonly"}
    /\ clock \in Nat /\ lastSeen \in Nat
    /\ handle \in Handles
    /\ pc \in [Conns -> Program]
    /\ mine \in [Conns -> Handles]
    /\ found \in [Conns -> Scans] /\ \A c \in Conns : Bounded(found[c].uids)
    /\ known = [c \in Conns |-> known[c]]
    /\ job \in [Conns -> Jobs]

-----------------------------------------------------------------------------
(* The inductive invariant *)

Opens(c)   == mine[c] # NoFolder
Scanned(c) == Opens(c) /\ pc[c] # "scan"
Sends(c)   == ~Opens(c) /\ pc[c] \in {"persist", "rename"}

\* Connections work in an open session, and what they work in is there.
SessionShape ==
    /\ session # "open" => \A c \in Conns : pc[c] = "idle" /\ ~Opens(c)
    /\ session = "closed" => handle = NoFolder
    /\ handle # NoFolder => handle.gen # 0
    /\ \A c \in Conns :
          /\ Opens(c) => pc[c] \in Opened /\ mine[c].gen # 0
          /\ pc[c] \in Opened \ {"persist", "rename"} => Opens(c)
          /\ Sends(c) \/ pc[c] \in {"insert", "unrow"} => handle # NoFolder

\* Whoever is opening the folder knows all there is, or will fail at the first
\* file it has yet to adopt, because somebody else did.  What is dropped into a
\* folder that is open waits for the next run.
UpToDate(c) == found[c].foreign = foreign /\ UIDs \subseteq found[c].uids
Overtaken(c) == found[c].foreign # {} /\ Min(found[c].foreign) \notin foreign

OpenersAgree ==
    /\ session = "open" /\ handle # NoFolder => foreign = {} \/ Opening = {}
    /\ handle = NoFolder => \A c \in Conns : Scanned(c) => UpToDate(c) \/ Overtaken(c)

\* What an opener has in hand: the next file, and a number above all it has seen.
Adoption ==
    \A c \in Conns :
        /\ Opens(c) /\ pc[c] \in {"persist", "rename"} =>
              /\ found[c].foreign # {} /\ job[c].msg = Min(found[c].foreign)
              /\ job[c].uid # 0 /\ \A u \in found[c].uids : u < job[c].uid
        /\ pc[c] \in {"commit", "raise", "register"} => found[c].foreign = {}
        /\ pc[c] = "register" => \A u \in found[c].uids : u < mine[c].next

\* Numbers handed out are below the next one, and those in hand are nobody
\* else's.
Numbers ==
    session = "open" /\ handle # NoFolder =>
        /\ \A u \in UIDs : u < handle.next
        /\ \A c \in Conns :
              Sends(c) \/ pc[c] = "unrow" =>
                  /\ job[c].uid # 0 /\ job[c].uid < handle.next /\ job[c].uid \notin UIDs
                  /\ \A d \in Conns \ {c} : Sends(d) => job[d].uid # job[c].uid

\* Whatever was shown, returned or is about to be returned is still there, or
\* was removed.
Held == Range(files) \cup taken
Kept ==
    /\ returned \subseteq Held
    /\ \A n \in named : n.msg \in Held
    /\ \A c \in Conns : pc[c] = "insert" => job[c].msg \in Held

LocalInv ==
    /\ TypeOK /\ SessionShape /\ OpenersAgree /\ Adoption /\ Numbers /\ Kept

\* The rows, as long as no two have opened the folder at once.
Rows ==
    /\ db.state \in {"none", "good", "broken"}
    /\ \A c \in Conns : pc[c] = "load" => db.state # "broken"
    /\ ~blemished =>
          /\ \A c, d \in Opening : c = d
          /\ session = "open" /\ handle # NoFolder =>
                /\ Opening = {}
                /\ db.state = "good" /\ Attached(handle)
                /\ UIDs \subseteq DOMAIN db.rows \cup {job[c].uid : c \in {d \in Conns : pc[d] = "insert"}}
          /\ \A c \in Conns :
                /\ Opens(c) => db.state = "good" /\ Attached(mine[c])
                /\ pc[c] = "commit" => known[c] = DOMAIN db.rows
                /\ pc[c] \in {"raise", "register"} => UIDs \subseteq DOMAIN db.rows

-----------------------------------------------------------------------------
(* What the operators return *)

LEMMA MinExists ==
    ASSUME NEW S \in SUBSET Nat, S # {}
    PROVE  \E x \in S : \A y \in S : x <= y
<1>1. IsWellFoundedOn(OpToRel(<,Nat), Nat)
  BY NatLessThanWellFounded
<1>2. PICK x \in S : \A y \in S : ~ (<<y, x>> \in OpToRel(<,Nat))
  BY <1>1, WFMin
<1>3. \A y \in S : ~ (y < x)
  BY <1>2 DEF OpToRel
<1>. QED
  BY <1>3

LEMMA MinIsLeast ==
    ASSUME NEW S \in SUBSET Nat, S # {}
    PROVE  Min(S) \in S /\ \A y \in S : Min(S) <= y
  BY MinExists DEF Min

\* MaxUID is above every number, and belongs to one of them if there are any.
LEMMA MaxUIDIsTop ==
    ASSUME NEW S \in SUBSET (Nat \ {0}), Bounded(S)
    PROVE  MaxUID(S) \in Nat /\ \A u \in S : u <= MaxUID(S)
<1>1. PICK n \in Nat : S \subseteq 1..n
  BY DEF Bounded
<1>2. CASE S = {}
  BY <1>2 DEF MaxUID
<1>3. CASE S # {}
  <2>. DEFINE D == {d \in Nat : \E x \in S : x = n - d}
  <2>1. \A x \in S : x \in 1..n /\ n - x \in D
    <3>. TAKE x \in S
    <3>1. x \in 1..n
      BY <1>1
    <3>2. n - x \in Nat /\ x = n - (n - x)
      BY <3>1
    <3>. QED
      BY <3>1, <3>2
  <2>2. D \in SUBSET Nat /\ D # {}
    BY <1>3, <2>1
  <2>. HIDE DEF D
  <2>3. PICK d \in D : \A e \in D : d <= e
    BY <2>2, MinExists
  <2>4. PICK x \in S : x = n - d
    BY <2>3 DEF D
  <2>5. \A y \in S : x >= y
    <3>. TAKE y \in S
    <3>1. d <= n - y /\ d \in Nat /\ y \in 1..n
      BY <2>1, <2>2, <2>3
    <3>. QED
      BY <3>1, <2>4
  <2>6. Max(S) \in S /\ \A y \in S : Max(S) >= y
    BY <2>4, <2>5 DEF Max
  <2>. QED
    BY <1>3, <2>6 DEF MaxUID
<1>. QED
  BY <1>2, <1>3

LEMMA LargerIsBoth ==
    ASSUME NEW a \in Nat, NEW b \in Nat
    PROVE  Larger(a, b) \in Nat /\ a <= Larger(a, b) /\ b <= Larger(a, b)
  BY DEF Larger

\* A number that is claimed is new to whoever claims it.
LEMMA ClaimIsNew ==
    ASSUME NEW f \in Handles, NEW n \in Nat
    PROVE  Claimed(f, n) \in Nat \ {0} /\ f.next <= Claimed(f, n) /\ n < Claimed(f, n)
<1>1. f.next \in Nat /\ n + 1 \in Nat
  BY DEF Handles
<1>2. /\ Larger(f.next, n + 1) \in Nat /\ f.next <= Larger(f.next, n + 1)
      /\ n + 1 <= Larger(f.next, n + 1)
  BY <1>1, LargerIsBoth
<1>. QED
  BY <1>1, <1>2 DEF Claimed

LEMMA BoundedGrows ==
    ASSUME NEW S \in SUBSET (Nat \ {0}), Bounded(S), NEW u \in Nat \ {0}
    PROVE  Bounded(S \cup {u})
<1>1. PICK n \in Nat : S \subseteq 1..n
  BY DEF Bounded
<1>2. n + u \in Nat /\ S \cup {u} \subseteq 1..(n + u)
  <2>1. \A v \in S : v \in 1..n
    BY <1>1
  <2>. QED
    BY <2>1
<1>. QED
  BY <1>2 DEF Bounded

LEMMA BoundedShrinks ==
    ASSUME NEW S, Bounded(S), NEW T \in SUBSET S
    PROVE  Bounded(T)
  BY DEF Bounded

LEMMA BoundedEmpty == Bounded({})
  BY DEF Bounded

-----------------------------------------------------------------------------
(* Types *)

LEMMA FreshDatabase ==
    ASSUME TypeOK
    PROVE  /\ NewUIDValidity \in Nat
           /\ DOMAIN Rebuilt = Fields /\ Rebuilt.gen \in Nat \ {0} /\ Rebuilt.next = 1
           /\ Rebuilt.validity = NewUIDValidity /\ Rebuilt.state = "good"
           /\ Rebuilt.gen = db.gen + 1
           /\ DOMAIN Absent(db.gen + 1) = Fields /\ Absent(db.gen + 1).gen \in Nat \ {0}
           /\ Absent(db.gen + 1).next = 0 /\ Absent(db.gen + 1).validity = 0
           /\ Absent(db.gen + 1).state = "none"
<1>1. NewUIDValidity \in Nat
  BY LargerIsBoth DEF TypeOK, NewUIDValidity
<1>. QED
  BY <1>1 DEF TypeOK, Rebuilt, Absent, Fields

\* No connection does anything, and no folder is open.
LEMMA MemoryLost ==
    ASSUME NoMemory
    PROVE  /\ lastSeen' \in Nat /\ handle' \in Handles /\ pc' \in [Conns -> Program]
           /\ mine' \in [Conns -> Handles] /\ found' \in [Conns -> Scans]
           /\ \A c \in Conns : /\ Bounded(found'[c].uids)
                               /\ pc'[c] = "idle" /\ mine'[c] = NoFolder
           /\ known' = [c \in Conns |-> known'[c]] /\ job' \in [Conns -> Jobs]
           /\ handle' = NoFolder
<1>1. NoFolder \in Handles /\ NoScan \in Scans /\ NoJob \in Jobs /\ "idle" \in Program
  BY DEF NoFolder, NoScan, NoJob, Handles, Scans, Jobs, Program
<1>2. Bounded(NoScan.uids)
  BY BoundedEmpty DEF NoScan
<1>. QED
  BY <1>1, <1>2 DEF NoMemory

LEMMA Rested ==
    ASSUME TypeOK, NEW c \in Conns, Rest(c)
    PROVE  /\ pc' \in [Conns -> Program]
           /\ mine' \in [Conns -> Handles] /\ found' \in [Conns -> Scans]
           /\ \A d \in Conns : Bounded(found'[d].uids)
           /\ known' = [d \in Conns |-> known'[d]] /\ job' \in [Conns -> Jobs]
<1>1. NoFolder \in Handles /\ NoScan \in Scans /\ NoJob \in Jobs /\ "idle" \in Program
  BY DEF NoFolder, NoScan, NoJob, Handles, Scans, Jobs, Program
<1>2. Bounded(NoScan.uids)
  BY BoundedEmpty DEF NoScan
<1>. QED
  BY <1>1, <1>2 DEF Rest, TypeOK

LEMMA InitTypes == Init => TypeOK
<1>1. NoFolder \in Handles /\ NoScan \in Scans /\ NoJob \in Jobs /\ "idle" \in Program
  BY DEF NoFolder, NoScan, NoJob, Handles, Scans, Jobs, Program
<1>2. Bounded(NoScan.uids) /\ DOMAIN NoRows = {} /\ NoRows = [u \in {} |-> NoRows[u]]
  BY BoundedEmpty DEF NoScan, NoRows
<1>. QED
  BY <1>1, <1>2, BoundedEmpty DEF Init, TypeOK, UIDs, Fields

LEMMA TimeMovesOn ==
    ASSUME TypeOK, TimePasses
    PROVE  clock' \in Nat /\ clock <= clock' /\ lastSeen <= clock'
  BY LargerIsBoth DEF TypeOK, TimePasses

LEMMA StoreTypes ==
    ASSUME TypeOK,
           \/ \E mode \in {"open", "readonly"} : Start(mode)
           \/ CreateFolder \/ Close \/ Crash \/ OpenReadOnly
    PROVE  TypeOK'
<1>. USE DEF TypeOK, UIDs, conns, process, history, bounds, directory
<1>1. CASE \E mode \in {"open", "readonly"} : Start(mode)
  BY <1>1 DEF Start
<1>2. CASE CreateFolder
  BY <1>2, FreshDatabase DEF CreateFolder
<1>3. CASE Close
  BY <1>3, MemoryLost, TimeMovesOn DEF Close
<1>4. CASE Crash
  BY <1>4, MemoryLost, TimeMovesOn DEF Crash
<1>5. CASE OpenReadOnly
  <2>1. MaxUID(UIDs) \in Nat
    BY MaxUIDIsTop
  <2>2. handle' \in Handles
    BY <1>5, <2>1 DEF OpenReadOnly, Handles
  <2>3. lastSeen' \in Nat
    BY <1>5, <2>2, LargerIsBoth DEF OpenReadOnly, Handles
  <2>. QED
    BY <1>5, <2>2, <2>3 DEF OpenReadOnly
<1>. QED
  BY <1>1, <1>2, <1>3, <1>4, <1>5

\* Writing to whichever database a handle has open.
LEMMA WritesKeepShape ==
    ASSUME TypeOK, NEW f, NEW n \in Nat, NEW rows, WriteNext(f, n) \/ WriteRows(f, rows)
    PROVE  /\ DOMAIN db' = Fields /\ db'.gen = db.gen /\ db'.state = db.state
           /\ db'.next \in Nat /\ db'.validity = db.validity
  BY DEF TypeOK, WriteNext, WriteRows, Attached, Fields

LEMMA OpenTypes ==
    ASSUME TypeOK, Adoption, NEW c \in Conns, OpenStep(c)
    PROVE  TypeOK'
<1>. USE DEF TypeOK, UIDs, process, history, bounds, directory, Step
<1>1. CASE OpenFolder(c) \/ ReadKnown(c)
  BY <1>1 DEF OpenFolder, ReadKnown, Program, Opened
<1>2. CASE Rebuild(c)
  BY <1>2, FreshDatabase DEF Rebuild, Program, Opened
<1>3. CASE Load(c)
  <2>1. /\ DOMAIN db' = Fields /\ db'.gen \in Nat \ {0} /\ db'.next \in Nat
        /\ db'.validity \in Nat
    BY <1>3, FreshDatabase DEF Load
  <2>2. lastSeen' \in Nat
    BY <1>3, <2>1, LargerIsBoth DEF Load
  <2>3. mine' \in [Conns -> Handles]
    BY <1>3, <2>1 DEF Load, Handles
  <2>. QED
    BY <1>3, <2>1, <2>2, <2>3 DEF Load, Program, Opened
<1>4. CASE Scan(c)
  <2>1. [uids |-> UIDs, foreign |-> foreign] \in Scans
    BY DEF Scans
  <2>. QED
    BY <1>4, <2>1 DEF Scan, Program, Opened
<1>5. CASE AdoptClaim(c)
  <2>. DEFINE uid == Claimed(mine[c], MaxUID(found[c].uids))
  <2>1. uid \in Nat \ {0}
    <3>1. MaxUID(found[c].uids) \in Nat
      BY MaxUIDIsTop DEF Scans
    <3>. QED
      BY <3>1, ClaimIsNew
  <2>2. Min(found[c].foreign) \in Nat
    <3>1. found[c].foreign \in SUBSET Nat /\ found[c].foreign # {}
      BY <1>5, LocalAssumption DEF AdoptClaim, Scans
    <3>. QED
      BY <3>1, MinIsLeast
  <2>. HIDE DEF uid
  <2>3. [mine[c] EXCEPT !.next = uid + 1] \in Handles
    BY <2>1 DEF Handles
  <2>4. [msg |-> Min(found[c].foreign), uid |-> uid, next |-> uid + 1] \in Jobs
    BY <2>1, <2>2 DEF Jobs
  <2>5. /\ mine' = [mine EXCEPT ![c] = [mine[c] EXCEPT !.next = uid + 1]]
        /\ job' = [job EXCEPT ![c] = [msg |-> Min(found[c].foreign), uid |-> uid,
                                      next |-> uid + 1]]
    BY <1>5 DEF AdoptClaim, uid
  <2>6. mine' \in [Conns -> Handles] /\ job' \in [Conns -> Jobs]
    BY <2>3, <2>4, <2>5
  <2>. QED
    BY <1>5, <2>6 DEF AdoptClaim, Program, Opened
<1>6. CASE AdoptRename(c)
  <2>1. job[c].uid \in Nat \ {0}
    BY <1>6 DEF AdoptRename, Adoption, Opens, Jobs
  <2>2. UIDs' = UIDs \cup {job[c].uid}
    BY <1>6 DEF AdoptRename
  <2>3. UIDs' \in SUBSET (Nat \ {0}) /\ Bounded(UIDs')
    BY <2>1, <2>2, BoundedGrows
  <2>4. /\ found[c].uids \cup {job[c].uid} \in SUBSET (Nat \ {0})
        /\ Bounded(found[c].uids \cup {job[c].uid})
        /\ found[c].foreign \ {job[c].msg} \in SUBSET Dropped
    BY <2>1, BoundedGrows DEF Scans
  <2>5. /\ found' \in [Conns -> Scans]
        /\ \A d \in Conns : Bounded(found'[d].uids)
    BY <1>6, <2>4 DEF AdoptRename, Scans
  <2>6. /\ files' = [u \in UIDs' |-> files'[u]] /\ foreign' \in SUBSET Dropped
        /\ pc' \in [Conns -> Program]
    BY <1>6 DEF AdoptRename, Program, Opened
  <2>. QED
    BY <1>6, <2>3, <2>5, <2>6 DEF AdoptRename
<1>7. CASE AdoptFails(c)
  BY <1>7, Rested DEF AdoptFails
<1>8. CASE Commit(c)
  BY <1>8, WritesKeepShape DEF Commit, Program, Opened
<1>9. CASE RaiseUIDNext(c)
  <2>. DEFINE f == Raised(mine[c], found[c].uids)
  <2>1. f \in Handles
    <3>1. MaxUID(found[c].uids) \in Nat
      BY MaxUIDIsTop DEF Scans
    <3>2. mine[c].next \in Nat
      BY DEF Handles
    <3>3. Larger(mine[c].next, MaxUID(found[c].uids) + 1) \in Nat
      BY <3>1, <3>2, LargerIsBoth
    <3>. QED
      BY <3>3 DEF Raised, Handles
  <2>2. f.next \in Nat
    BY <2>1 DEF Handles
  <2>. HIDE DEF f
  <2>3. mine' = [mine EXCEPT ![c] = f]
    BY <1>9 DEF RaiseUIDNext, f
  <2>4. mine' \in [Conns -> Handles]
    BY <2>1, <2>3
  <2>5. /\ DOMAIN db' = Fields /\ db'.gen \in Nat \ {0} /\ db'.next \in Nat
        /\ db'.validity \in Nat
    BY <1>9, <2>2, WritesKeepShape DEF RaiseUIDNext, f
  <2>. QED
    BY <1>9, <2>4, <2>5 DEF RaiseUIDNext, Program, Opened
<1>10. CASE Register(c)
  BY <1>10, Rested DEF Register
<1>. QED
  BY <1>1, <1>2, <1>3, <1>4, <1>5, <1>6, <1>7, <1>8, <1>9, <1>10 DEF OpenStep

LEMMA WorkTypes ==
    ASSUME TypeOK, SessionShape, Numbers, NEW c \in Conns, WorkStep(c)
    PROVE  TypeOK'
<1>. USE DEF TypeOK, UIDs, process, history, bounds, directory, Step, conns
<1>1. CASE \E m \in Mail : AppendClaim(c, m)
  <2>. DEFINE uid == Claimed(handle, 0)
  <2>1. PICK m \in Mail :
          /\ handle' = [handle EXCEPT !.next = uid + 1]
          /\ job' = [job EXCEPT ![c] = [msg |-> m, uid |-> uid, next |-> uid + 1]]
          /\ AppendClaim(c, m)
    BY <1>1 DEF AppendClaim
  <2>2. uid \in Nat \ {0} /\ m \in Nat
    BY ClaimIsNew, LocalAssumption
  <2>. HIDE DEF uid
  <2>3. handle' \in Handles /\ job' \in [Conns -> Jobs]
    BY <2>1, <2>2 DEF Handles, Jobs
  <2>. QED
    BY <2>1, <2>3 DEF AppendClaim, Program, Opened
<1>2. CASE Persist(c)
  <2>1. job[c].next \in Nat
    BY DEF Jobs
  <2>. QED
    BY <1>2, <2>1, WritesKeepShape DEF Persist, Program, Opened
<1>3. CASE AppendRename(c)
  <2>1. job[c].uid \in Nat \ {0}
    BY <1>3 DEF AppendRename, SessionShape, Numbers, Sends, Opens, Jobs
  <2>2. UIDs' = UIDs \cup {job[c].uid}
    BY <1>3 DEF AppendRename
  <2>3. UIDs' \in SUBSET (Nat \ {0}) /\ Bounded(UIDs')
    BY <2>1, <2>2, BoundedGrows
  <2>4. /\ files' = [u \in UIDs' |-> files'[u]]
        /\ pc' \in [Conns -> Program]
    BY <1>3 DEF AppendRename, Program
  <2>. QED
    BY <1>3, <2>3, <2>4 DEF AppendRename
<1>4. CASE AppendRow(c)
  BY <1>4, WritesKeepShape, Rested DEF AppendRow
<1>5. CASE AppendFails(c)
  BY <1>5, Rested DEF AppendFails
<1>6. CASE \E u \in UIDs : StoreFlags(c, u)
  BY <1>6, WritesKeepShape DEF StoreFlags
<1>7. CASE \E u \in UIDs : DeleteFile(c, u)
  <2>1. PICK u \in UIDs : DeleteFile(c, u)
    BY <1>7
  <2>2. UIDs' = UIDs \ {u} /\ files' = [v \in UIDs' |-> files'[v]]
    BY <2>1 DEF DeleteFile, Restrict
  <2>3. UIDs' \in SUBSET (Nat \ {0}) /\ Bounded(UIDs')
    BY <2>2, BoundedShrinks
  <2>4. [NoJob EXCEPT !.uid = u] \in Jobs
    BY DEF NoJob, Jobs
  <2>5. job' \in [Conns -> Jobs] /\ pc' \in [Conns -> Program]
    BY <2>1, <2>4 DEF DeleteFile, Program
  <2>. QED
    BY <2>1, <2>2, <2>3, <2>5 DEF DeleteFile
<1>8. CASE DeleteRow(c)
  BY <1>8, WritesKeepShape, Rested DEF DeleteRow
<1>. QED
  BY <1>1, <1>2, <1>3, <1>4, <1>5, <1>6, <1>7, <1>8 DEF WorkStep

LEMMA HandTypes ==
    ASSUME TypeOK, Hands
    PROVE  TypeOK'
<1>. USE DEF TypeOK, UIDs, process, conns, AtRest, ByHand
<1>1. CASE \E m \in Dropped : DropIn(m)
  BY <1>1 DEF DropIn
<1>2. CASE \E u \in UIDs : TakeAway(u)
  <2>1. PICK u \in UIDs : TakeAway(u)
    BY <1>2
  <2>2. UIDs' = UIDs \ {u} /\ files' = [v \in UIDs' |-> files'[v]]
    BY <2>1 DEF TakeAway, Restrict
  <2>3. UIDs' \in SUBSET (Nat \ {0}) /\ Bounded(UIDs')
    BY <2>2, BoundedShrinks
  <2>. QED
    BY <2>1, <2>2, <2>3 DEF TakeAway
<1>3. CASE LoseDatabase
  BY <1>3, FreshDatabase DEF LoseDatabase
<1>4. CASE DamageDatabase
  BY <1>4 DEF DamageDatabase
<1>5. CASE RestoreDatabase
  BY <1>5 DEF RestoreDatabase, Fields
<1>6. CASE \E m \in Dropped : \E u \in HandNumbers : DropNumbered(m, u)
  <2>1. PICK m \in Dropped, u \in HandNumbers : DropNumbered(m, u)
    BY <1>6
  <2>2. u \in Nat \ {0}
    BY LocalAssumption
  <2>3. UIDs' = UIDs \cup {u} /\ files' = [v \in UIDs' |-> files'[v]]
    BY <2>1 DEF DropNumbered
  <2>4. UIDs' \in SUBSET (Nat \ {0}) /\ Bounded(UIDs')
    BY <2>2, <2>3, BoundedGrows
  <2>. QED
    BY <2>1, <2>3, <2>4 DEF DropNumbered
<1>. QED
  BY <1>1, <1>2, <1>3, <1>4, <1>5, <1>6 DEF Hands

-----------------------------------------------------------------------------
(* Who is where *)

LEMMA Idle ==
    ASSUME TypeOK, NEW c \in Conns, Rest(c)
    PROVE  /\ pc'[c] = "idle" /\ mine'[c] = NoFolder /\ ~Opens(c)' /\ ~Sends(c)'
           /\ \A d \in Conns \ {c} : /\ pc'[d] = pc[d] /\ mine'[d] = mine[d]
                                    /\ found'[d] = found[d] /\ known'[d] = known[d]
                                    /\ job'[d] = job[d]
                                    /\ Opens(d)' = Opens(d) /\ Sends(d)' = Sends(d)
                                    /\ Scanned(d)' = Scanned(d)
<1>1. /\ pc'[c] = "idle" /\ mine'[c] = NoFolder
      /\ \A d \in Conns \ {c} : /\ pc'[d] = pc[d] /\ mine'[d] = mine[d]
                                /\ found'[d] = found[d] /\ known'[d] = known[d]
                                /\ job'[d] = job[d]
  BY DEF Rest, TypeOK
<1>. QED
  BY <1>1 DEF Opens, Sends, Scanned

LEMMA StoreShape ==
    ASSUME TypeOK, SessionShape,
           \/ \E mode \in {"open", "readonly"} : Start(mode)
           \/ CreateFolder \/ Close \/ Crash \/ OpenReadOnly
    PROVE  SessionShape'
<1>. USE DEF SessionShape, Opens, Sends, conns
<1>1. CASE (\E mode \in {"open", "readonly"} : Start(mode)) \/ CreateFolder
  BY <1>1 DEF Start, CreateFolder, process
<1>2. CASE Close \/ Crash
  BY <1>2, MemoryLost DEF Close, Crash, Opened
<1>3. CASE OpenReadOnly
  BY <1>3 DEF OpenReadOnly, TypeOK
<1>. QED
  BY <1>1, <1>2, <1>3

LEMMA OpenShape ==
    ASSUME TypeOK, SessionShape, NEW c \in Conns, OpenStep(c)
    PROVE  SessionShape'
<1>. USE DEF SessionShape, Opens, Sends, Opened, process, Step
<1>1. CASE OpenFolder(c) \/ Rebuild(c) \/ Scan(c) \/ ReadKnown(c) \/ Commit(c) \/ AdoptRename(c)
  BY <1>1 DEF OpenFolder, Rebuild, Scan, ReadKnown, Commit, AdoptRename, TypeOK
<1>2. CASE Load(c)
  <2>1. db'.gen \in Nat \ {0}
    BY <1>2, FreshDatabase DEF Load, TypeOK
  <2>. QED
    BY <1>2, <2>1 DEF Load, TypeOK, NoFolder
<1>3. CASE AdoptClaim(c) \/ RaiseUIDNext(c)
  <2>1. mine'[c].gen = mine[c].gen /\ \A d \in Conns \ {c} : mine'[d] = mine[d]
    BY <1>3 DEF AdoptClaim, RaiseUIDNext, Raised, TypeOK, Handles
  <2>2. mine'[c] # NoFolder
    BY <1>3, <2>1 DEF NoFolder, AdoptClaim, RaiseUIDNext
  <2>. QED
    BY <1>3, <2>1, <2>2 DEF AdoptClaim, RaiseUIDNext, TypeOK
<1>4. CASE AdoptFails(c)
  BY <1>4, Idle DEF AdoptFails
<1>5. CASE Register(c)
  BY <1>5, Idle DEF Register
<1>. QED
  BY <1>1, <1>2, <1>3, <1>4, <1>5 DEF OpenStep

LEMMA WorkShape ==
    ASSUME TypeOK, SessionShape, NEW c \in Conns, WorkStep(c)
    PROVE  SessionShape'
<1>. USE DEF SessionShape, Opens, Sends, Opened, process, Step, conns
<1>1. CASE \E m \in Mail : AppendClaim(c, m)
  <2>1. /\ handle'.gen = handle.gen /\ handle # NoFolder /\ session = "open"
        /\ pc[c] = "idle" /\ pc' = [pc EXCEPT ![c] = "persist"]
        /\ UNCHANGED <<session, mine>>
    BY <1>1 DEF AppendClaim, Ready, TypeOK, Handles
  <2>2. handle' # NoFolder
    BY <2>1 DEF NoFolder
  <2>. QED
    BY <2>1, <2>2 DEF TypeOK
<1>2. CASE Persist(c) \/ AppendRename(c)
  BY <1>2 DEF Persist, AppendRename, TypeOK
<1>3. CASE AppendRow(c) \/ AppendFails(c) \/ DeleteRow(c)
  BY <1>3, Idle DEF AppendRow, AppendFails, DeleteRow
<1>4. CASE \E u \in UIDs : StoreFlags(c, u) \/ DeleteFile(c, u)
  BY <1>4 DEF StoreFlags, DeleteFile, Ready, TypeOK
<1>. QED
  BY <1>1, <1>2, <1>3, <1>4 DEF WorkStep

LEMMA HandShape ==
    ASSUME SessionShape, Hands
    PROVE  SessionShape'
  BY DEF SessionShape, Hands, DropIn, DropNumbered, TakeAway, LoseDatabase, DamageDatabase,
     RestoreDatabase, AtRest, ByHand, process, conns, Opens, Sends

-----------------------------------------------------------------------------
(* Those who open agree, and what they adopt has a number of its own *)

\* The file an opener is about to rename is there only if nobody has been faster.
LEMMA RenamesInOrder ==
    ASSUME TypeOK, SessionShape, OpenersAgree, Adoption, NEW c \in Conns, AdoptRename(c)
    PROVE  /\ session = "open" /\ handle = NoFolder /\ UpToDate(c)
           /\ job[c].msg = Min(foreign) /\ job[c].msg \in foreign
           /\ job[c].uid \notin UIDs /\ job[c].uid # 0
<1>1. /\ pc[c] = "rename" /\ Opens(c) /\ Scanned(c) /\ job[c].msg \in foreign
  BY DEF AdoptRename, Opens, Scanned
<1>2. session = "open" /\ handle = NoFolder
  BY <1>1 DEF SessionShape, OpenersAgree, Opening, Opens
<1>3. UpToDate(c)
  BY <1>1, <1>2 DEF OpenersAgree, Overtaken, Adoption
<1>4. job[c].msg = Min(foreign)
  BY <1>1, <1>3 DEF UpToDate, Adoption
<1>5. job[c].uid \notin UIDs /\ job[c].uid # 0
  <2>1. job[c].uid # 0 /\ \A u \in found[c].uids : u < job[c].uid
    BY <1>1 DEF Adoption
  <2>2. job[c].uid \in Nat
    BY DEF TypeOK, Jobs
  <2>. QED
    BY <1>3, <2>1, <2>2 DEF UpToDate, TypeOK
<1>. QED
  BY <1>1, <1>2, <1>3, <1>4, <1>5

LEMMA StoreAgrees ==
    ASSUME SessionShape, OpenersAgree,
           \/ \E mode \in {"open", "readonly"} : Start(mode)
           \/ CreateFolder \/ Close \/ Crash \/ OpenReadOnly
    PROVE  OpenersAgree'
<1>. USE DEF OpenersAgree, SessionShape, Scanned, Opens, Opening, UpToDate, Overtaken, conns,
         process, UIDs
<1>1. CASE (\E mode \in {"open", "readonly"} : Start(mode)) \/ CreateFolder
  BY <1>1 DEF Start, CreateFolder
<1>2. CASE Close \/ Crash
  BY <1>2, MemoryLost DEF Close, Crash
<1>3. CASE OpenReadOnly
  BY <1>3 DEF OpenReadOnly
<1>. QED
  BY <1>1, <1>2, <1>3

LEMMA OpenAgrees ==
    ASSUME TypeOK, SessionShape, OpenersAgree, Adoption, NEW c \in Conns, OpenStep(c)
    PROVE  OpenersAgree'
<1>. USE DEF UpToDate, Overtaken, process, Step, UIDs
<1>0. session = "open" /\ (handle # NoFolder => foreign = {})
  <2>1. session = "open"
    BY DEF OpenStep, OpenFolder, Rebuild, Load, Scan, AdoptClaim, AdoptRename, AdoptFails,
       ReadKnown, Commit, RaiseUIDNext, Register, SessionShape, Opened
  <2>2. CASE OpenFolder(c)
    BY <2>1, <2>2 DEF OpenFolder
  <2>3. CASE ~OpenFolder(c)
    <3>1. c \in Opening
      BY <2>3 DEF OpenStep, Rebuild, Load, Scan, AdoptClaim, AdoptRename, AdoptFails,
         ReadKnown, Commit, RaiseUIDNext, Register, SessionShape, Opened, Opening, Opens
    <3>. QED
      BY <2>1, <3>1 DEF OpenersAgree
  <2>. QED
    BY <2>1, <2>2, <2>3
<1>1. CASE OpenFolder(c) \/ Rebuild(c) \/ Load(c) \/ ReadKnown(c) \/ Commit(c)
             \/ AdoptClaim(c) \/ RaiseUIDNext(c)
  <2>1. /\ UNCHANGED <<files, foreign, session, handle, found>>
        /\ \A d \in Conns : Scanned(d)' => Scanned(d)
    <3>1. CASE OpenFolder(c) \/ Rebuild(c) \/ ReadKnown(c) \/ Commit(c)
      BY <3>1 DEF OpenFolder, Rebuild, ReadKnown, Commit, directory, TypeOK, Scanned, Opens,
         SessionShape, Opened
    <3>2. CASE Load(c)
      BY <3>2 DEF Load, TypeOK, Scanned, Opens
    <3>3. CASE AdoptClaim(c) \/ RaiseUIDNext(c)
      BY <3>3 DEF AdoptClaim, RaiseUIDNext, directory, TypeOK, Scanned, Opens,
         SessionShape, Opened
    <3>. QED
      BY <1>1, <3>1, <3>2, <3>3
  <2>. QED
    BY <1>0, <2>1 DEF OpenersAgree
<1>2. CASE Scan(c)
  <2>1. UpToDate(c)'
    BY <1>2 DEF Scan, directory, TypeOK
  <2>2. \A d \in Conns \ {c} : Scanned(d)' = Scanned(d) /\ found'[d] = found[d]
    BY <1>2 DEF Scan, TypeOK, Scanned, Opens
  <2>. QED
    BY <1>0, <1>2, <2>1, <2>2 DEF Scan, directory, OpenersAgree
<1>3. CASE AdoptRename(c)
  <2>1. /\ handle = NoFolder /\ UpToDate(c) /\ job[c].msg = Min(foreign)
        /\ job[c].msg \in foreign
    BY <1>3, RenamesInOrder
  <2>2. /\ foreign' = foreign \ {job[c].msg} /\ UIDs' = UIDs \cup {job[c].uid}
        /\ UNCHANGED <<session, handle>>
        /\ found'[c] = [uids |-> found[c].uids \cup {job[c].uid},
                        foreign |-> found[c].foreign \ {job[c].msg}]
        /\ \A d \in Conns \ {c} : Scanned(d)' = Scanned(d) /\ found'[d] = found[d]
    BY <1>3 DEF AdoptRename, TypeOK, Scans, Scanned, Opens
  <2>3. UpToDate(c)'
    BY <2>1, <2>2
  <2>4. \A d \in Conns \ {c} : Scanned(d) => Overtaken(d)'
    BY <2>1, <2>2 DEF OpenersAgree
  <2>. QED
    BY <1>0, <2>1, <2>2, <2>3, <2>4 DEF OpenersAgree
<1>4. CASE AdoptFails(c)
  BY <1>0, <1>4, Idle DEF AdoptFails, OpenersAgree, directory, Scanned
<1>5. CASE Register(c)
  <2>1. handle = NoFolder => foreign = {}
    <3>1. Scanned(c) /\ found[c].foreign = {}
      BY <1>5 DEF Register, SessionShape, Scanned, Opened, Adoption
    <3>. QED
      BY <3>1 DEF OpenersAgree
  <2>2. handle' # NoFolder
    BY <1>5 DEF Register, SessionShape, Opened, Opens
  <2>3. session = "open" /\ UNCHANGED <<foreign, session>>
    BY <1>5 DEF Register, SessionShape, directory
  <2>. QED
    BY <1>0, <2>1, <2>2, <2>3 DEF OpenersAgree
<1>. QED
  BY <1>1, <1>2, <1>3, <1>4, <1>5 DEF OpenStep

LEMMA WorkAgrees ==
    ASSUME TypeOK, SessionShape, SessionShape', OpenersAgree, NEW c \in Conns, WorkStep(c)
    PROVE  OpenersAgree'
<1>. USE DEF UpToDate, Overtaken, process, conns, UIDs
<1>1. foreign' = foreign /\ session' = session
  BY DEF WorkStep, AppendClaim, Persist, AppendRename, AppendRow, AppendFails, StoreFlags,
     DeleteFile, DeleteRow, directory
<1>2. CASE handle # NoFolder
  <2>1. handle' # NoFolder
    <3>1. CASE \E m \in Mail : AppendClaim(c, m)
      <4>1. handle'.gen = handle.gen
        BY <3>1 DEF AppendClaim, TypeOK, Handles
      <4>. QED
        BY <1>2, <4>1 DEF NoFolder, SessionShape
    <3>2. CASE ~\E m \in Mail : AppendClaim(c, m)
      BY <1>2, <3>2 DEF WorkStep, Persist, AppendRename, AppendRow, AppendFails, StoreFlags,
         DeleteFile, DeleteRow
    <3>. QED
      BY <3>1, <3>2
  <2>2. Opening' \subseteq Opening
    <3>1. CASE AppendRow(c) \/ AppendFails(c) \/ DeleteRow(c)
      BY <3>1, Idle DEF AppendRow, AppendFails, DeleteRow, Opening, Opens
    <3>2. CASE ~(AppendRow(c) \/ AppendFails(c) \/ DeleteRow(c))
      BY <3>2 DEF WorkStep, AppendClaim, Persist, AppendRename, StoreFlags, DeleteFile, Step,
         TypeOK, Opening
    <3>. QED
      BY <3>1, <3>2
  <2>. QED
    BY <1>1, <1>2, <2>1, <2>2 DEF OpenersAgree
<1>3. CASE handle = NoFolder
  <2>1. Persist(c) \/ AppendFails(c)
    BY <1>3 DEF WorkStep, AppendClaim, AppendRename, AppendRow, StoreFlags, DeleteFile,
       DeleteRow, Ready, SessionShape, Sends, Opens
  <2>2. CASE Persist(c)
    BY <1>3, <2>2 DEF Persist, Step, OpenersAgree, Scanned, Opens, TypeOK
  <2>3. CASE AppendFails(c)
    BY <1>3, <2>3, Idle DEF AppendFails, OpenersAgree, directory, Scanned
  <2>. QED
    BY <2>1, <2>2, <2>3
<1>. QED
  BY <1>2, <1>3

LEMMA HandsAgree ==
    ASSUME SessionShape, OpenersAgree, Hands, ~crossed'
    PROVE  OpenersAgree'
<1>. USE DEF OpenersAgree, SessionShape, Scanned, Opens, Opening, UpToDate, Overtaken, conns,
         process, UIDs
<1>1. CASE \E u \in UIDs : TakeAway(u)
  <2>1. UIDs' \subseteq UIDs /\ UNCHANGED <<foreign, process, conns>>
    BY <1>1 DEF TakeAway, ByHand, Restrict
  <2>. QED
    BY <2>1
<1>2. CASE \E m \in Dropped : DropIn(m)
  <2>1. Opening = {} /\ UNCHANGED <<process, conns>>
    BY <1>2 DEF DropIn, ByHand
  <2>2. Opening' = {} /\ \A c \in Conns : ~Opens(c)'
    BY <2>1
  <2>. QED
    BY <2>1, <2>2
<1>3. CASE ~((\E u \in UIDs : TakeAway(u)) \/ \E m \in Dropped : DropIn(m))
  BY <1>3 DEF Hands, DropNumbered, LoseDatabase, DamageDatabase, RestoreDatabase, AtRest, ByHand
<1>. QED
  BY <1>1, <1>2, <1>3

LEMMA StoreAdopts ==
    ASSUME Adoption,
           \/ \E mode \in {"open", "readonly"} : Start(mode)
           \/ CreateFolder \/ Close \/ Crash \/ OpenReadOnly
    PROVE  Adoption'
<1>. USE DEF Adoption, Opens, conns
<1>1. CASE Close \/ Crash
  BY <1>1, MemoryLost DEF Close, Crash
<1>2. CASE ~(Close \/ Crash)
  BY <1>2 DEF Start, CreateFolder, OpenReadOnly
<1>. QED
  BY <1>1, <1>2

LEMMA OpenAdopts ==
    ASSUME TypeOK, SessionShape, Adoption, NEW c \in Conns, OpenStep(c)
    PROVE  Adoption'
<1>. USE DEF Adoption, Opens, Step
<1>1. CASE OpenFolder(c) \/ Rebuild(c) \/ Load(c) \/ Scan(c) \/ ReadKnown(c) \/ Commit(c)
             \/ AdoptRename(c)
  BY <1>1 DEF OpenFolder, Rebuild, Load, Scan, ReadKnown, Commit, AdoptRename, TypeOK,
     SessionShape, Opened
<1>2. CASE AdoptClaim(c)
  <2>. DEFINE uid == Claimed(mine[c], MaxUID(found[c].uids))
  <2>1. /\ found[c].uids \in SUBSET (Nat \ {0}) /\ Bounded(found[c].uids)
        /\ mine[c] \in Handles
    BY DEF TypeOK, Scans
  <2>2. /\ MaxUID(found[c].uids) \in Nat
        /\ \A u \in found[c].uids : u <= MaxUID(found[c].uids)
    BY <2>1, MaxUIDIsTop
  <2>3. uid \in Nat \ {0} /\ MaxUID(found[c].uids) < uid
    BY <2>1, <2>2, ClaimIsNew
  <2>4. uid # 0 /\ \A u \in found[c].uids : u < uid
    BY <2>1, <2>2, <2>3
  <2>. HIDE DEF uid
  <2>5. /\ found[c].foreign # {} /\ pc'[c] = "persist" /\ found' = found
        /\ job'[c].msg = Min(found[c].foreign) /\ job'[c].uid = uid
        /\ \A d \in Conns \ {c} : pc'[d] = pc[d] /\ mine'[d] = mine[d] /\ job'[d] = job[d]
    BY <1>2 DEF AdoptClaim, uid, TypeOK
  <2>. QED
    BY <2>4, <2>5
<1>3. CASE RaiseUIDNext(c)
  <2>1. /\ found[c].uids \in SUBSET (Nat \ {0}) /\ Bounded(found[c].uids)
        /\ mine[c].next \in Nat
    BY DEF TypeOK, Scans, Handles
  <2>2. /\ MaxUID(found[c].uids) \in Nat
        /\ \A u \in found[c].uids : u <= MaxUID(found[c].uids)
    BY <2>1, MaxUIDIsTop
  <2>3. mine'[c].next = Larger(mine[c].next, MaxUID(found[c].uids) + 1)
    BY <1>3 DEF RaiseUIDNext, Raised, TypeOK, Handles
  <2>4. \A u \in found[c].uids : u < mine'[c].next
    BY <2>1, <2>2, <2>3, LargerIsBoth
  <2>5. /\ found[c].foreign = {} /\ pc'[c] = "register" /\ found' = found /\ job' = job
        /\ \A d \in Conns \ {c} : pc'[d] = pc[d] /\ mine'[d] = mine[d]
    BY <1>3 DEF RaiseUIDNext, TypeOK
  <2>. QED
    BY <2>4, <2>5
<1>4. CASE AdoptFails(c) \/ Register(c)
  BY <1>4, Idle DEF AdoptFails, Register
<1>. QED
  BY <1>1, <1>2, <1>3, <1>4 DEF OpenStep

LEMMA WorkAdopts ==
    ASSUME TypeOK, SessionShape, Adoption, NEW c \in Conns, WorkStep(c)
    PROVE  Adoption'
<1>. USE DEF Adoption, Opens, Step
<1>1. CASE (\E m \in Mail : AppendClaim(c, m)) \/ \E u \in UIDs : DeleteFile(c, u)
  <2>1. ~Opens(c) /\ pc'[c] \in {"persist", "unrow"} /\ mine' = mine /\ found' = found
    BY <1>1 DEF AppendClaim, DeleteFile, Ready, SessionShape, Opened, TypeOK
  <2>2. \A d \in Conns \ {c} : pc'[d] = pc[d] /\ job'[d] = job[d]
    BY <1>1 DEF AppendClaim, DeleteFile, TypeOK
  <2>. QED
    BY <2>1, <2>2
<1>2. CASE Persist(c) \/ AppendRename(c) \/ \E u \in UIDs : StoreFlags(c, u)
  BY <1>2 DEF Persist, AppendRename, StoreFlags, conns, TypeOK
<1>3. CASE AppendRow(c) \/ AppendFails(c) \/ DeleteRow(c)
  BY <1>3, Idle DEF AppendRow, AppendFails, DeleteRow
<1>. QED
  BY <1>1, <1>2, <1>3 DEF WorkStep

LEMMA HandsAdopt ==
    ASSUME Adoption, Hands
    PROVE  Adoption'
  BY DEF Adoption, Opens, conns, Hands, DropIn, DropNumbered, TakeAway, LoseDatabase,
     DamageDatabase, RestoreDatabase, AtRest, ByHand

-----------------------------------------------------------------------------
(* The numbers of a folder that is open *)

LEMMA StoreNumbers ==
    ASSUME SessionShape, Numbers,
           \/ \E mode \in {"open", "readonly"} : Start(mode)
           \/ CreateFolder \/ Close \/ Crash \/ OpenReadOnly
    PROVE  Numbers'
<1>. USE DEF Numbers, Opens, Sends, conns, UIDs
<1>1. CASE \E mode \in {"open", "readonly"} : Start(mode)
  BY <1>1 DEF Start, SessionShape
<1>2. CASE CreateFolder
  BY <1>2 DEF CreateFolder
<1>3. CASE Close \/ Crash \/ OpenReadOnly
  BY <1>3 DEF Close, Crash, OpenReadOnly
<1>. QED
  BY <1>1, <1>2, <1>3

LEMMA OpenNumbers ==
    ASSUME TypeOK, SessionShape, OpenersAgree, Adoption, Numbers, NEW c \in Conns, OpenStep(c)
    PROVE  Numbers'
<1>. USE DEF Opens, Step, Opened
<1>1. CASE OpenFolder(c) \/ Rebuild(c) \/ Load(c) \/ Scan(c) \/ ReadKnown(c) \/ Commit(c)
             \/ AdoptClaim(c) \/ RaiseUIDNext(c)
  <2>1. UNCHANGED <<files, session, handle>>
    BY <1>1 DEF OpenFolder, Rebuild, Load, Scan, ReadKnown, Commit, AdoptClaim, RaiseUIDNext,
       directory, process
  <2>2. /\ ~Sends(c)' /\ pc'[c] # "unrow"
        /\ \A d \in Conns \ {c} : pc'[d] = pc[d] /\ mine'[d] = mine[d] /\ job'[d] = job[d]
    <3>1. CASE OpenFolder(c) \/ Rebuild(c) \/ Scan(c) \/ ReadKnown(c) \/ Commit(c)
      BY <3>1 DEF OpenFolder, Rebuild, Scan, ReadKnown, Commit, TypeOK, Sends
    <3>2. CASE Load(c) \/ RaiseUIDNext(c)
      BY <3>2 DEF Load, RaiseUIDNext, TypeOK, Sends
    <3>3. CASE AdoptClaim(c)
      <4>1. mine'[c].gen = mine[c].gen
        BY <3>3 DEF AdoptClaim, TypeOK, Handles
      <4>2. Opens(c)'
        BY <3>3, <4>1 DEF AdoptClaim, SessionShape, NoFolder
      <4>. QED
        BY <3>3, <4>2 DEF AdoptClaim, TypeOK, Sends
    <3>. QED
      BY <1>1, <3>1, <3>2, <3>3
  <2>3. \A d \in Conns \ {c} : Sends(d)' = Sends(d)
    BY <2>2 DEF Sends
  <2>. QED
    BY <2>1, <2>2, <2>3 DEF Numbers, UIDs
<1>2. CASE AdoptRename(c)
  BY <1>2, RenamesInOrder DEF AdoptRename, process, Numbers
<1>3. CASE AdoptFails(c)
  BY <1>3, Idle DEF AdoptFails, Numbers, directory, process, UIDs
<1>4. CASE Register(c)
  <2>1. UNCHANGED <<files, session>> /\ session = "open" /\ Opens(c)
    BY <1>4 DEF Register, directory, SessionShape
  <2>2. CASE handle = NoFolder
    <3>1. UpToDate(c) /\ \A u \in found[c].uids : u < mine[c].next
      BY <1>4, <2>1, <2>2 DEF Register, OpenersAgree, Scanned, Overtaken, Adoption
    <3>2. handle' = mine[c] /\ \A u \in UIDs : u < mine[c].next
      BY <1>4, <2>2, <3>1 DEF Register, UpToDate
    <3>3. \A d \in Conns : ~Sends(d) /\ pc[d] # "unrow"
      BY <2>2 DEF SessionShape
    <3>4. \A d \in Conns : ~Sends(d)' /\ pc'[d] # "unrow"
      BY <1>4, <3>3, Idle DEF Register
    <3>. QED
      BY <2>1, <3>2, <3>4 DEF Numbers, UIDs
  <2>3. CASE handle # NoFolder
    BY <1>4, <2>1, <2>3, Idle DEF Register, Numbers, UIDs
  <2>. QED
    BY <2>2, <2>3
<1>. QED
  BY <1>1, <1>2, <1>3, <1>4 DEF OpenStep

LEMMA WorkNumbers ==
    ASSUME TypeOK, SessionShape, Numbers, NEW c \in Conns, WorkStep(c)
    PROVE  Numbers'
<1>. USE DEF Step, conns, process
<1>1. CASE \E m \in Mail : AppendClaim(c, m)
  <2>. DEFINE uid == Claimed(handle, 0)
  <2>1. uid \in Nat \ {0} /\ handle.next <= uid /\ handle.next \in Nat
    BY ClaimIsNew DEF TypeOK, Handles
  <2>. HIDE DEF uid
  <2>2. /\ session = "open" /\ handle # NoFolder /\ UNCHANGED <<session, files, mine>>
        /\ handle'.next = uid + 1 /\ job'[c].uid = uid /\ ~Opens(c)
        /\ pc'[c] = "persist"
        /\ \A d \in Conns \ {c} : pc'[d] = pc[d] /\ job'[d] = job[d]
    BY <1>1 DEF AppendClaim, uid, Ready, directory, TypeOK, Handles, SessionShape, Opened
  <2>3. /\ \A u \in UIDs : u < uid /\ u < uid + 1
        /\ \A d \in Conns : Sends(d) \/ pc[d] = "unrow" => job[d].uid < uid /\ job[d].uid < uid + 1
    BY <2>1, <2>2 DEF Numbers, TypeOK, Jobs
  <2>4. uid < uid + 1 /\ uid # 0 /\ uid \notin UIDs
    BY <2>1, <2>3 DEF TypeOK
  <2>5. /\ \A d \in Conns \ {c} : Sends(d)' = Sends(d)
        /\ \A d \in Conns \ {c} : Sends(d) \/ pc[d] = "unrow" => job[d].uid # uid
    BY <2>1, <2>2, <2>3 DEF Sends, Opens, TypeOK, Jobs
  <2>6. \A u \in UIDs' : u < handle'.next
    BY <2>2, <2>3 DEF UIDs
  <2>7. ASSUME NEW d \in Conns, Sends(d)' \/ pc'[d] = "unrow"
        PROVE  /\ job'[d].uid # 0 /\ job'[d].uid < handle'.next /\ job'[d].uid \notin UIDs'
               /\ \A e \in Conns \ {d} : Sends(e)' => job'[e].uid # job'[d].uid
    <3>1. CASE d = c
      BY <2>2, <2>4, <2>5, <3>1 DEF UIDs
    <3>2. CASE d # c
      BY <2>2, <2>3, <2>5, <2>7, <3>2 DEF UIDs, Numbers
    <3>. QED
      BY <3>1, <3>2
  <2>. QED
    BY <2>6, <2>7 DEF Numbers
<1>2. CASE Persist(c)
  <2>1. \A d \in Conns : Sends(d)' = Sends(d)
    BY <1>2 DEF Persist, Sends, Opens, TypeOK
  <2>. QED
    BY <1>2, <2>1 DEF Persist, Numbers, UIDs, TypeOK
<1>3. CASE AppendRename(c)
  <2>1. Sends(c) /\ handle # NoFolder /\ UIDs' = UIDs \cup {job[c].uid}
    BY <1>3 DEF AppendRename, Sends, Opens, SessionShape, UIDs
  <2>2. /\ UNCHANGED <<session, handle, job, mine>> /\ pc'[c] = "insert"
        /\ \A d \in Conns \ {c} : pc'[d] = pc[d] /\ Sends(d)' = Sends(d)
    BY <1>3 DEF AppendRename, TypeOK, Sends, Opens
  <2>3. ~Sends(c)'
    BY <2>2 DEF Sends
  <2>. QED
    BY <2>1, <2>2, <2>3 DEF Numbers
<1>4. CASE AppendRow(c) \/ AppendFails(c) \/ DeleteRow(c)
  BY <1>4, Idle DEF AppendRow, AppendFails, DeleteRow, Numbers, UIDs, directory
<1>5. CASE \E u \in UIDs : StoreFlags(c, u)
  BY <1>5 DEF StoreFlags, Numbers, UIDs, Sends, Opens
<1>6. CASE \E u \in UIDs : DeleteFile(c, u)
  <2>1. PICK u \in UIDs : DeleteFile(c, u)
    BY <1>6
  <2>2. /\ session = "open" /\ handle # NoFolder /\ UIDs' = UIDs \ {u}
        /\ UNCHANGED <<session, handle, mine>> /\ job'[c].uid = u /\ pc'[c] = "unrow"
        /\ \A d \in Conns \ {c} : pc'[d] = pc[d] /\ job'[d] = job[d] /\ Sends(d)' = Sends(d)
    BY <2>1 DEF DeleteFile, Ready, Restrict, UIDs, TypeOK, NoJob, Jobs, Sends, Opens
  <2>3. u # 0 /\ u < handle.next /\ ~Sends(c)'
    BY <2>2 DEF TypeOK, Numbers, Sends
  <2>. QED
    BY <2>2, <2>3 DEF Numbers
<1>. QED
  BY <1>1, <1>2, <1>3, <1>4, <1>5, <1>6 DEF WorkStep

LEMMA HandsNumber ==
    ASSUME SessionShape, Numbers, Hands
    PROVE  Numbers'
<1>. USE DEF Numbers, Opens, Sends, conns, process, UIDs
<1>1. CASE (\E u \in UIDs : TakeAway(u)) \/ \E m \in Dropped : DropIn(m)
  <2>1. UIDs' \subseteq UIDs /\ UNCHANGED <<process, conns>>
    BY <1>1 DEF TakeAway, DropIn, ByHand, Restrict
  <2>. QED
    BY <2>1
<1>2. CASE ~((\E u \in UIDs : TakeAway(u)) \/ \E m \in Dropped : DropIn(m))
  BY <1>2 DEF Hands, DropNumbered, LoseDatabase, DamageDatabase, RestoreDatabase, AtRest,
     ByHand, SessionShape
<1>. QED
  BY <1>1, <1>2

-----------------------------------------------------------------------------
(* Nothing is written over *)

LEMMA ShownIsThere ==
    ASSUME NEW h, NEW now
    PROVE  \A n \in Shown(h, now) : n.msg \in Range(now)
  BY DEF Shown, Range

\* A file with a number of its own takes nobody's place.
LEMMA PutKeeps ==
    ASSUME NEW n, n \notin UIDs, NEW m, taken' = taken,
           files' = [u \in UIDs \cup {n} |-> IF u = n THEN m ELSE files[u]]
    PROVE  Held \subseteq Held' /\ m \in Held' /\ Range(files') \subseteq Held'
<1>1. DOMAIN files' = UIDs \cup {n} /\ files'[n] = m
  BY DEF UIDs
<1>2. \A u \in UIDs : files'[u] = files[u]
  BY DEF UIDs
<1>3. Range(files) \subseteq Range(files') /\ m \in Range(files')
  BY <1>1, <1>2 DEF Range, UIDs
<1>. QED
  BY <1>3 DEF Held

LEMMA TakenIsHeld ==
    ASSUME NEW u \in UIDs, taken' = taken \cup {files[u]},
           files' = Restrict(files, UIDs \ {u})
    PROVE  Held \subseteq Held'
<1>1. /\ DOMAIN files' = UIDs \ {u} /\ files[u] \in taken'
      /\ \A v \in UIDs \ {u} : files'[v] = files[v]
  BY DEF Restrict, UIDs
<1>. QED
  BY <1>1 DEF Held, Range, UIDs

\* What one step may add to the promises.
LEMMA PromisesKept ==
    ASSUME Kept, Held \subseteq Held',
           returned' \subseteq returned \cup Held',
           \A n \in named' : n \in named \/ n.msg \in Held',
           \A c \in Conns : pc'[c] = "insert" => \/ pc[c] = "insert" /\ job'[c] = job[c]
                                                 \/ job'[c].msg \in Held'
    PROVE  Kept'
  BY DEF Kept

LEMMA StoreKeeps ==
    ASSUME Kept,
           \/ \E mode \in {"open", "readonly"} : Start(mode)
           \/ CreateFolder \/ Close \/ Crash \/ OpenReadOnly
    PROVE  Kept'
<1>1. UNCHANGED <<files, taken, returned>>
  BY DEF Start, CreateFolder, Close, Crash, OpenReadOnly, history, directory
<1>2. Held' = Held /\ Range(files) \subseteq Held'
  BY <1>1 DEF Held
<1>3. \A n \in named' : n \in named \/ n.msg \in Held'
  <2>1. named' = named \/ named' = named \cup Shown(handle', files)
    BY DEF Start, CreateFolder, Close, Crash, OpenReadOnly, history
  <2>. QED
    BY <1>2, <2>1, ShownIsThere
<1>4. \A c \in Conns : pc'[c] = "insert" => pc[c] = "insert" /\ job'[c] = job[c]
  BY MemoryLost DEF Start, CreateFolder, Close, Crash, OpenReadOnly, conns
<1>. QED
  BY <1>1, <1>2, <1>3, <1>4, PromisesKept

LEMMA OpenKeeps ==
    ASSUME TypeOK, SessionShape, OpenersAgree, Adoption, Kept, NEW c \in Conns, OpenStep(c)
    PROVE  Kept'
<1>. USE DEF Step, directory, history, process
<1>1. CASE AdoptRename(c)
  <2>1. job[c].uid \notin UIDs
    BY <1>1, RenamesInOrder
  <2>2. Held \subseteq Held' /\ Range(files') \subseteq Held'
    BY <1>1, <2>1, PutKeeps DEF AdoptRename
  <2>3. \A n \in named' : n \in named \/ n.msg \in Held'
    BY <1>1, <2>2, ShownIsThere DEF AdoptRename
  <2>4. \A d \in Conns : pc'[d] = "insert" => pc[d] = "insert" /\ job'[d] = job[d]
    BY <1>1 DEF AdoptRename, TypeOK
  <2>. QED
    BY <1>1, <2>2, <2>3, <2>4, PromisesKept DEF AdoptRename
<1>2. CASE ~AdoptRename(c)
  <2>1. UNCHANGED <<files, taken, returned>>
    BY <1>2 DEF OpenStep, OpenFolder, Rebuild, Load, Scan, AdoptClaim, AdoptFails, ReadKnown,
       Commit, RaiseUIDNext, Register
  <2>2. Held' = Held /\ Range(files) \subseteq Held'
    BY <2>1 DEF Held
  <2>3. \A n \in named' : n \in named \/ n.msg \in Held'
    <3>1. named' = named \/ named' = named \cup Shown(handle', files)
      BY <1>2 DEF OpenStep, OpenFolder, Rebuild, Load, Scan, AdoptClaim, AdoptFails, ReadKnown,
         Commit, RaiseUIDNext, Register
    <3>. QED
      BY <2>2, <3>1, ShownIsThere
  <2>4. \A d \in Conns : pc'[d] = "insert" => pc[d] = "insert" /\ job'[d] = job[d]
    <3>1. CASE AdoptFails(c) \/ Register(c)
      BY <3>1, Idle DEF AdoptFails, Register
    <3>2. CASE ~(AdoptFails(c) \/ Register(c))
      BY <1>2, <3>2 DEF OpenStep, OpenFolder, Rebuild, Load, Scan, AdoptClaim, ReadKnown,
         Commit, RaiseUIDNext, TypeOK
    <3>. QED
      BY <3>1, <3>2
  <2>. QED
    BY <2>1, <2>2, <2>3, <2>4, PromisesKept
<1>. QED
  BY <1>1, <1>2

LEMMA WorkKeeps ==
    ASSUME TypeOK, SessionShape, Numbers, Kept, NEW c \in Conns, WorkStep(c)
    PROVE  Kept'
<1>. USE DEF Step, directory, history, process, conns
<1>1. CASE AppendRename(c)
  <2>1. job[c].uid \notin UIDs
    BY <1>1 DEF AppendRename, Sends, Opens, SessionShape, Numbers
  <2>2. Held \subseteq Held' /\ job[c].msg \in Held' /\ Range(files') \subseteq Held'
    BY <1>1, <2>1, PutKeeps DEF AppendRename
  <2>3. \A n \in named' : n \in named \/ n.msg \in Held'
    BY <1>1, <2>2, ShownIsThere DEF AppendRename
  <2>4. \A d \in Conns : pc'[d] = "insert" => \/ pc[d] = "insert" /\ job'[d] = job[d]
                                              \/ job'[d].msg \in Held'
    BY <1>1, <2>2 DEF AppendRename, TypeOK
  <2>. QED
    BY <1>1, <2>2, <2>3, <2>4, PromisesKept DEF AppendRename
<1>2. CASE \E u \in UIDs : DeleteFile(c, u)
  <2>1. PICK u \in UIDs : DeleteFile(c, u)
    BY <1>2
  <2>2. Held \subseteq Held'
    BY <2>1, TakenIsHeld DEF DeleteFile
  <2>3. \A d \in Conns : pc'[d] = "insert" => pc[d] = "insert" /\ job'[d] = job[d]
    BY <2>1 DEF DeleteFile, TypeOK
  <2>. QED
    BY <2>1, <2>2, <2>3, PromisesKept DEF DeleteFile
<1>3. CASE AppendRow(c)
  <2>1. Held' = Held /\ job[c].msg \in Held
    BY <1>3 DEF AppendRow, Held, Kept
  <2>2. \A d \in Conns : pc'[d] = "insert" => pc[d] = "insert" /\ job'[d] = job[d]
    BY <1>3, Idle DEF AppendRow
  <2>. QED
    BY <1>3, <2>1, <2>2, PromisesKept DEF AppendRow
<1>4. CASE \/ (\E m \in Mail : AppendClaim(c, m)) \/ Persist(c) \/ AppendFails(c)
           \/ (\E u \in UIDs : StoreFlags(c, u)) \/ DeleteRow(c)
  <2>1. UNCHANGED <<files, taken, returned, named>>
    BY <1>4 DEF AppendClaim, Persist, AppendFails, StoreFlags, DeleteRow
  <2>2. Held' = Held
    BY <2>1 DEF Held
  <2>3. \A d \in Conns : pc'[d] = "insert" => pc[d] = "insert" /\ job'[d] = job[d]
    <3>1. CASE AppendFails(c) \/ DeleteRow(c)
      BY <3>1, Idle DEF AppendFails, DeleteRow
    <3>2. CASE ~(AppendFails(c) \/ DeleteRow(c))
      BY <1>4, <3>2 DEF AppendClaim, Persist, StoreFlags, TypeOK
    <3>. QED
      BY <3>1, <3>2
  <2>. QED
    BY <2>1, <2>2, <2>3, PromisesKept
<1>. QED
  BY <1>1, <1>2, <1>3, <1>4 DEF WorkStep

LEMMA HandsKeep ==
    ASSUME Kept, Hands
    PROVE  Kept'
<1>. USE DEF AtRest, ByHand, conns
<1>1. CASE \E u \in UIDs : TakeAway(u)
  <2>1. PICK u \in UIDs : TakeAway(u)
    BY <1>1
  <2>2. Held \subseteq Held'
    BY <2>1, TakenIsHeld DEF TakeAway
  <2>. QED
    BY <2>1, <2>2, PromisesKept DEF TakeAway
<1>2. CASE \E m \in Dropped : \E u \in HandNumbers : DropNumbered(m, u)
  <2>1. PICK m \in Dropped, u \in HandNumbers : DropNumbered(m, u)
    BY <1>2
  <2>2. Held \subseteq Held'
    BY <2>1, PutKeeps DEF DropNumbered
  <2>. QED
    BY <2>1, <2>2, PromisesKept DEF DropNumbered
<1>3. CASE (\E m \in Dropped : DropIn(m)) \/ LoseDatabase \/ DamageDatabase \/ RestoreDatabase
  BY <1>3 DEF DropIn, LoseDatabase, DamageDatabase, RestoreDatabase, Kept, Held
<1>. QED
  BY <1>1, <1>2, <1>3 DEF Hands

-----------------------------------------------------------------------------
(* The theorems *)

LEMMA InitLocal == Init => LocalInv
<1>. SUFFICES ASSUME Init PROVE LocalInv
  OBVIOUS
<1>1. TypeOK
  BY InitTypes
<1>2. SessionShape /\ OpenersAgree /\ Adoption /\ Numbers
  BY DEF Init, SessionShape, OpenersAgree, Adoption, Numbers, Opens, Sends, Scanned,
     Opened
<1>3. Kept
  BY DEF Init, Kept
<1>. QED
  BY <1>1, <1>2, <1>3 DEF LocalInv

LEMMA NextLocal == LocalInv /\ [Next]_vars => crossed' \/ LocalInv'
<1>. SUFFICES ASSUME LocalInv, [Next]_vars, ~crossed' PROVE LocalInv'
  OBVIOUS
<1>. USE DEF LocalInv
<1>1. CASE \/ \E mode \in {"open", "readonly"} : Start(mode)
           \/ CreateFolder \/ Close \/ Crash \/ OpenReadOnly
  BY <1>1, StoreTypes, StoreShape, StoreAgrees, StoreAdopts, StoreNumbers, StoreKeeps
<1>2. CASE \E c \in Conns : OpenStep(c)
  BY <1>2, OpenTypes, OpenShape, OpenAgrees, OpenAdopts, OpenNumbers, OpenKeeps
<1>3. CASE \E c \in Conns : WorkStep(c)
  BY <1>3, WorkTypes, WorkShape, WorkAgrees, WorkAdopts, WorkNumbers, WorkKeeps
<1>4. CASE Hands
  BY <1>4, HandTypes, HandShape, HandsAgree, HandsAdopt, HandsNumber, HandsKeep
<1>5. CASE UNCHANGED vars
  BY <1>5 DEF vars, directory, process, conns, history, bounds, TypeOK, SessionShape,
     OpenersAgree, Adoption, Numbers, Kept, Held, UIDs, Opens, Opening, Sends, Scanned,
     UpToDate, Overtaken
<1>. QED
  BY <1>1, <1>2, <1>3, <1>4, <1>5 DEF Next

\* What was crossed stays so.
LEMMA CrossedForGood == crossed /\ [Next]_vars => crossed'
<1>. SUFFICES ASSUME crossed, [Next]_vars PROVE crossed'
  OBVIOUS
<1>. USE DEF history
<1>1. CASE \/ \E mode \in {"open", "readonly"} : Start(mode)
           \/ CreateFolder \/ Close \/ Crash \/ OpenReadOnly
  BY <1>1 DEF Start, CreateFolder, Close, Crash, OpenReadOnly
<1>2. CASE \E c \in Conns : OpenStep(c)
  BY <1>2 DEF OpenStep, OpenFolder, Rebuild, Load, Scan, AdoptClaim, AdoptRename, AdoptFails,
     ReadKnown, Commit, RaiseUIDNext, Register
<1>3. CASE \E c \in Conns : WorkStep(c)
  BY <1>3 DEF WorkStep, AppendClaim, Persist, AppendRename, AppendRow, AppendFails, StoreFlags,
     DeleteFile, DeleteRow
<1>4. CASE Hands
  BY <1>4 DEF Hands, DropIn, DropNumbered, TakeAway, LoseDatabase, DamageDatabase,
     RestoreDatabase
<1>5. CASE UNCHANGED vars
  BY <1>5 DEF vars
<1>. QED
  BY <1>1, <1>2, <1>3, <1>4, <1>5 DEF Next

\* However many connections open a folder at once, work in it and die in it:
\* those who open it agree on what there is to adopt, a number in hand is
\* nobody's, and what was shown or returned is kept (folder.go: reconcile,
\* claim, Append).  Unless a file is dropped in while one of them is opening the
\* folder: the openers after that see a file that those before them do not.
THEOREM LocalInvariant == Spec => [](crossed \/ LocalInv)
  BY InitLocal, NextLocal, CrossedForGood, PTL DEF Spec

\* No append, no adoption and no reconcile writes over a message, whatever
\* becomes of the database (folder.go: Append, reconcile; store.go: rebuild).
THEOREM NothingIsLost == Spec => []NothingLost
<1>1. crossed \/ LocalInv => NothingLost
  BY DEF LocalInv, Kept, Held, NothingLost
<1>. QED
  BY <1>1, LocalInvariant, PTL

-----------------------------------------------------------------------------
(* Every file has its row *)

LEMMA RowsWritten ==
    ASSUME TypeOK, NEW f, Attached(f), NEW rows, WriteRows(f, rows)
    PROVE  db'.rows = rows /\ db'.gen = db.gen /\ db'.state = db.state
  BY DEF TypeOK, WriteRows, Attached, Fields

LEMMA NextWritten ==
    ASSUME TypeOK, NEW f, NEW n, WriteNext(f, n)
    PROVE  db'.rows = db.rows /\ db'.gen = db.gen /\ db'.state = db.state
  BY DEF TypeOK, WriteNext, Attached, Fields

\* As long as openers keep apart, whoever opens is alone.
LEMMA OpensAlone ==
    ASSUME Rows, ~blemished, NEW c \in Conns, c \in Opening, session = "open"
    PROVE  Opening = {c} /\ handle = NoFolder /\ \A d \in Conns \ {c} : ~Opens(d)
  BY DEF Rows, Opening, Opens

LEMMA StoreRows ==
    ASSUME TypeOK, SessionShape, Rows,
           \/ \E mode \in {"open", "readonly"} : Start(mode)
           \/ CreateFolder \/ Close \/ Crash \/ OpenReadOnly
    PROVE  Rows'
<1>. USE DEF Rows, Opens, Opening, conns, UIDs, Attached
<1>1. CASE \E mode \in {"open", "readonly"} : Start(mode)
  BY <1>1 DEF Start, SessionShape, history
<1>2. CASE CreateFolder
  <2>1. db'.state = "good"
    BY <1>2, FreshDatabase DEF CreateFolder
  <2>2. ASSUME ~blemished
        PROVE  handle = NoFolder /\ \A c \in Conns : ~Opens(c)
    BY <1>2, <2>2 DEF CreateFolder
  <2>3. UNCHANGED <<conns, handle, blemished>>
    BY <1>2 DEF CreateFolder, history
  <2>. QED
    BY <2>1, <2>2, <2>3 DEF SessionShape, Opened
<1>3. CASE Close \/ Crash
  BY <1>3, MemoryLost DEF Close, Crash
<1>4. CASE OpenReadOnly
  BY <1>4 DEF OpenReadOnly, directory, SessionShape
<1>. QED
  BY <1>1, <1>2, <1>3, <1>4

LEMMA OpenRows ==
    ASSUME LocalInv, Rows, NEW c \in Conns, OpenStep(c)
    PROVE  Rows'
<1>. USE DEF LocalInv, Step, UIDs
<1>1. session = "open" /\ session' = session
  BY DEF OpenStep, OpenFolder, Rebuild, Load, Scan, AdoptClaim, AdoptRename, AdoptFails,
     ReadKnown, Commit, RaiseUIDNext, Register, SessionShape, process
<1>2. CASE OpenFolder(c)
  <2>1. /\ UNCHANGED <<directory, handle, mine>> /\ handle = NoFolder
        /\ pc'[c] \in {"rebuild", "load"} /\ \A d \in Conns \ {c} : pc'[d] = pc[d]
        /\ pc'[c] = "load" => db.state # "broken"
        /\ ~blemished' => ~blemished /\ Opening = {}
        /\ ~Opens(c)
    BY <1>2 DEF OpenFolder, TypeOK, process, SessionShape, Opened
  <2>2. ASSUME ~blemished'
        PROVE  \A d \in Conns : ~Opens(d)' /\ (d \in Opening' => d = c)
    BY <2>1, <2>2 DEF Opening, Opens
  <2>3. \A d \in Conns : pc'[d] \in {"commit", "raise", "register"} =>
                          pc'[d] = pc[d] /\ Opens(d)
    BY <2>1 DEF SessionShape, Opened
  <2>4. Opening' \subseteq Conns
    BY DEF Opening
  <2>. QED
    BY <2>1, <2>2, <2>3, <2>4 DEF Rows, Opens, directory, Attached
<1>3. CASE Rebuild(c)
  <2>1. /\ db'.state = "good" /\ pc[c] = "rebuild" /\ pc'[c] = "load"
        /\ UNCHANGED <<handle, mine, blemished>>
        /\ \A d \in Conns \ {c} : pc'[d] = pc[d]
    BY <1>3, FreshDatabase DEF Rebuild, TypeOK, history
  <2>2. ASSUME ~blemished
        PROVE  /\ Opening = {c} /\ handle = NoFolder
               /\ \A d \in Conns : ~Opens(d)
    BY <1>1, <2>1, <2>2, OpensAlone DEF Opening, SessionShape, Opened
  <2>. QED
    BY <2>1, <2>2 DEF Rows, Opening, Opens, SessionShape, Opened
<1>4. CASE Load(c)
  <2>1. /\ db.state # "broken" /\ pc[c] = "load" /\ pc'[c] = "scan"
        /\ mine'[c].gen = db'.gen /\ db'.state = "good"
        /\ UNCHANGED <<handle, blemished>>
        /\ \A d \in Conns \ {c} : pc'[d] = pc[d] /\ mine'[d] = mine[d]
    BY <1>4, FreshDatabase DEF Load, TypeOK, history, Rows
  <2>2. ASSUME ~blemished
        PROVE  /\ Opening = {c} /\ handle = NoFolder
               /\ \A d \in Conns \ {c} : ~Opens(d)
    BY <1>1, <2>1, <2>2, OpensAlone DEF Opening
  <2>. QED
    BY <2>1, <2>2 DEF Rows, Opening, Opens, SessionShape, Opened, Attached
<1>5. CASE pc[c] \in Opened /\ Opens(c)
  <2>1. c \in Opening
    BY <1>5 DEF Opening, Opens
  <2>2. ASSUME ~blemished
        PROVE  /\ Opening = {c} /\ handle = NoFolder /\ \A d \in Conns \ {c} : ~Opens(d)
               /\ db.state = "good" /\ Attached(mine[c]) /\ RowsOf(mine[c]) = db.rows
    BY <1>1, <1>5, <2>1, <2>2, OpensAlone DEF Rows, RowsOf
  <2>3. /\ pc' = [pc EXCEPT ![c] = pc'[c]]
        /\ pc'[c] \in Opened \cup {"idle"}
        /\ \A d \in Conns \ {c} : pc'[d] = pc[d] /\ mine'[d] = mine[d]
        /\ blemished' = blemished
    BY <1>5 DEF OpenStep, OpenFolder, Rebuild, Load, Scan, AdoptClaim, AdoptRename, AdoptFails,
       ReadKnown, Commit, RaiseUIDNext, Register, TypeOK, Opened, Opens, history, Rest
  <2>. DEFINE LoneOpener ==
         /\ db'.state = "good" /\ handle' = NoFolder
         /\ Opens(c)' => Attached(mine[c])'
         /\ pc'[c] = "commit" => known'[c] = DOMAIN db'.rows
         /\ pc'[c] \in {"raise", "register"} => UIDs' \subseteq DOMAIN db'.rows
  <2>4. ASSUME ~Register(c), db'.state = db.state, ~blemished => LoneOpener
        PROVE  Rows'
    <3>1. \A d \in Conns : pc'[d] = "load" => d # c /\ pc[d] = "load"
      BY <2>3 DEF Opened
    <3>2. ASSUME ~blemished
          PROVE  \A d \in Conns \ {c} : ~Opens(d)' /\ d \notin Opening'
      BY <2>2, <2>3, <3>2 DEF Opening, Opens
    <3>3. ASSUME ~blemished
          PROVE  \A d \in Conns \ {c} : pc'[d] \notin {"commit", "raise", "register"}
      BY <2>2, <2>3, <3>3 DEF SessionShape, Opened
    <3>4. ASSUME ~blemished PROVE \A d, e \in Opening' : d = e
      BY <3>2, <3>4 DEF Opening
    <3>. QED
      BY <2>3, <2>4, <3>1, <3>2, <3>3, <3>4 DEF Rows
  <2>5. CASE Scan(c) \/ ReadKnown(c)
    <3>1. /\ UNCHANGED <<directory, handle, mine>> /\ ~Register(c)
          /\ pc'[c] \in {"adopt", "commit"}
          /\ pc'[c] = "commit" => known'[c] = DOMAIN RowsOf(mine[c])
      BY <2>5 DEF Scan, ReadKnown, process, TypeOK, Register
    <3>. QED
      BY <2>2, <2>4, <3>1 DEF directory, Opens, Attached
  <2>6. CASE AdoptClaim(c)
    <3>1. mine'[c].gen = mine[c].gen
      BY <2>6 DEF AdoptClaim, TypeOK, Handles
    <3>. QED
      BY <2>2, <2>4, <2>6, <3>1 DEF AdoptClaim, directory, process, TypeOK, Attached, Register
  <2>7. CASE AdoptRename(c)
    BY <1>5, <2>2, <2>4, <2>7 DEF AdoptRename, process, TypeOK, Opens, Attached, Register
  <2>8. CASE AdoptFails(c)
    BY <2>2, <2>4, <2>8, Idle DEF AdoptFails, directory, process, Register
  <2>9. CASE Commit(c)
    <3>1. db'.state = db.state /\ db'.gen = db.gen
      BY <2>9, WritesKeepShape DEF Commit
    <3>2. ASSUME ~blemished
          PROVE  UIDs \subseteq DOMAIN db'.rows
      <4>1. db'.rows = Reconciled(db.rows, found[c].uids, DOMAIN db.rows)
        BY <2>2, <2>9, <3>2, RowsWritten DEF Commit, Rows
      <4>2. UIDs \subseteq found[c].uids
        BY <1>5, <2>2, <2>9, <3>2 DEF Commit, OpenersAgree, Scanned, UpToDate, Overtaken, Adoption
      <4>. QED
        BY <4>1, <4>2 DEF Reconciled
    <3>. QED
      BY <1>5, <2>2, <2>4, <2>9, <3>1, <3>2 DEF Commit, process, TypeOK, Opens, Attached, Register
  <2>10. CASE RaiseUIDNext(c)
    <3>1. mine'[c].gen = mine[c].gen
      BY <2>10 DEF RaiseUIDNext, Raised, TypeOK, Handles
    <3>2. db'.state = db.state /\ db'.gen = db.gen /\ db'.rows = db.rows
      BY <2>10, NextWritten DEF RaiseUIDNext
    <3>. QED
      BY <2>2, <2>4, <2>10, <3>1, <3>2 DEF RaiseUIDNext, process, TypeOK, Attached, Register, Rows
  <2>11. CASE Register(c)
    <3>1. \A d \in Conns : pc'[d] = "load" => pc[d] = "load"
      BY <2>11, Idle DEF Register
    <3>2. ASSUME ~blemished
          PROVE  /\ \A d \in Conns : ~Opens(d)' /\ d \notin Opening'
                 /\ \A d \in Conns : pc'[d] \notin {"commit", "raise", "register"}
      BY <2>2, <2>3, <2>11, <3>2, Idle DEF Register, Opening, Opens, SessionShape, Opened
    <3>3. ASSUME ~blemished
          PROVE  handle' = mine[c] /\ UIDs \subseteq DOMAIN db.rows
      BY <2>2, <2>11, <3>3 DEF Register, Rows
    <3>4. Opening' \subseteq Conns
      BY DEF Opening
    <3>. QED
      BY <2>2, <2>3, <2>11, <3>1, <3>2, <3>3, <3>4 DEF Rows, Register, directory, Attached
  <2>12. \/ Scan(c) \/ ReadKnown(c) \/ AdoptClaim(c) \/ AdoptRename(c) \/ AdoptFails(c)
         \/ Commit(c) \/ RaiseUIDNext(c) \/ Register(c)
    BY <1>5 DEF OpenStep, OpenFolder, Rebuild, Load, Opened
  <2>. QED
    BY <2>5, <2>6, <2>7, <2>8, <2>9, <2>10, <2>11, <2>12
<1>6. CASE ~(pc[c] \in Opened /\ Opens(c))
  BY <1>2, <1>3, <1>4, <1>6 DEF OpenStep, Scan, ReadKnown, AdoptClaim, AdoptRename, AdoptFails,
     Commit, RaiseUIDNext, Register, SessionShape, Opened, Opens
<1>. QED
  BY <1>5, <1>6

LEMMA WorkRows ==
    ASSUME LocalInv, Rows, NEW c \in Conns, WorkStep(c)
    PROVE  Rows'
<1>. USE DEF LocalInv, Step
<1>1. CASE Persist(c)
  <2>1. db'.state = db.state /\ db'.gen = db.gen /\ db'.rows = db.rows
    BY <1>1, NextWritten DEF Persist, Rows
  <2>2. /\ UNCHANGED <<files, session, handle, mine, known, job, blemished>>
        /\ pc[c] = "persist" /\ pc'[c] = "rename"
        /\ \A d \in Conns \ {c} : pc'[d] = pc[d]
    BY <1>1 DEF Persist, TypeOK, process, history
  <2>3. Opening' = Opening /\ \A d \in Conns : pc'[d] = "insert" <=> pc[d] = "insert"
    BY <2>2 DEF Opening
  <2>. QED
    BY <2>1, <2>2, <2>3 DEF Rows, Opens, UIDs, Attached
<1>2. CASE ~Persist(c)
  <2>. DEFINE Inserting == {job[d].uid : d \in {e \in Conns : pc[e] = "insert"}}
  <2>1. (session = "open" /\ handle # NoFolder) \/ AppendFails(c)
    BY <1>2 DEF WorkStep, AppendClaim, AppendRename, AppendRow, StoreFlags, DeleteFile,
       DeleteRow, Ready, SessionShape, Sends, Opens
  <2>2. CASE AppendFails(c)
    <3>1. /\ UNCHANGED <<directory, session, handle>> /\ mine[c] = NoFolder
          /\ pc[c] \in {"persist", "insert"}
          /\ ~blemished' => ~blemished /\ pc[c] = "persist"
      BY <2>2 DEF AppendFails, process
    <3>2. Opening' = Opening
      BY <2>2, <3>1, Idle DEF AppendFails, Opening
    <3>3. ASSUME ~blemished' PROVE Inserting' = Inserting
      BY <2>2, <3>1, <3>3, Idle DEF AppendFails
    <3>4. \A d \in Conns : Opens(d)' => d # c /\ Opens(d)
      BY <2>2, Idle DEF AppendFails
    <3>. QED
      BY <2>2, <3>1, <3>2, <3>3, <3>4, Idle DEF AppendFails, Rows, directory, UIDs, Attached
  <2>3. CASE ~AppendFails(c)
    <3>1. /\ session = "open" /\ handle # NoFolder /\ session' = session
          /\ handle'.gen = handle.gen /\ blemished' = blemished
          /\ ~Opens(c)
          /\ \A d \in Conns \ {c} : /\ pc'[d] = pc[d] /\ mine'[d] = mine[d]
                                    /\ job'[d] = job[d] /\ known'[d] = known[d]
      <4>1. session = "open" /\ handle # NoFolder
        BY <2>1, <2>3
      <4>2. CASE AppendRow(c) \/ DeleteRow(c)
        BY <4>1, <4>2, Idle DEF AppendRow, DeleteRow, process, history, SessionShape, Opened
      <4>3. CASE (\E m \in Mail : AppendClaim(c, m)) \/ AppendRename(c)
        BY <4>1, <4>3 DEF AppendClaim, AppendRename, Ready, process, history, SessionShape,
           Opened, TypeOK, Handles, Opens
      <4>4. CASE \E u \in UIDs : StoreFlags(c, u) \/ DeleteFile(c, u)
        BY <4>1, <4>4 DEF StoreFlags, DeleteFile, Ready, process, history, conns, SessionShape,
           Opened, TypeOK
      <4>. QED
        BY <1>2, <2>3, <4>2, <4>3, <4>4 DEF WorkStep
    <3>2. ~Opens(c)' /\ pc'[c] \notin {"rebuild", "load", "commit", "raise", "register"}
      <4>1. CASE AppendRow(c) \/ DeleteRow(c)
        BY <4>1, Idle DEF AppendRow, DeleteRow
      <4>2. CASE ~(AppendRow(c) \/ DeleteRow(c))
        BY <1>2, <2>3, <3>1, <4>2 DEF WorkStep, AppendClaim, AppendRename, StoreFlags,
           DeleteFile, Ready, TypeOK, conns, Opens
      <4>. QED
        BY <4>1, <4>2
    <3>3. db'.state = db.state /\ db'.gen = db.gen
      BY <1>2, <2>3, WritesKeepShape DEF WorkStep, AppendClaim, AppendRename, AppendRow,
         StoreFlags, DeleteFile, DeleteRow, directory
    <3>4. Opening' \subseteq Opening
      BY <3>1, <3>2 DEF Opening, Opens
    <3>5. ASSUME ~blemished
          PROVE  /\ Opening = {} /\ db.state = "good" /\ RowsOf(handle) = db.rows
                 /\ Attached(handle) /\ UIDs \subseteq DOMAIN db.rows \cup Inserting
      BY <3>1, <3>5 DEF Rows, RowsOf
    <3>6. ASSUME ~blemished
          PROVE  UIDs' \subseteq DOMAIN db'.rows \cup Inserting'
      <4>. USE <3>5, <3>6
      <4>1. CASE \E m \in Mail : AppendClaim(c, m)
        <5>1. UIDs' = UIDs /\ db' = db /\ pc[c] = "idle" /\ pc'[c] = "persist"
          BY <4>1 DEF AppendClaim, Ready, directory, UIDs, TypeOK
        <5>. QED
          BY <3>1, <5>1
      <4>2. CASE AppendRename(c)
        <5>1. /\ UIDs' = UIDs \cup {job[c].uid} /\ db' = db /\ job' = job
              /\ pc[c] = "rename" /\ pc'[c] = "insert"
          BY <4>2 DEF AppendRename, UIDs, TypeOK
        <5>. QED
          BY <3>1, <5>1
      <4>3. CASE AppendRow(c)
        <5>1. db'.rows = [u \in DOMAIN db.rows \cup {job[c].uid} |->
                             IF u = job[c].uid THEN 1 ELSE db.rows[u]]
          BY <4>3, RowsWritten DEF AppendRow
        <5>2. UIDs' = UIDs
          BY <4>3 DEF AppendRow, UIDs
        <5>. QED
          BY <3>1, <5>1, <5>2
      <4>4. CASE \E u \in UIDs : StoreFlags(c, u)
        <5>1. PICK u \in UIDs : StoreFlags(c, u)
          BY <4>4
        <5>2. db'.rows = [db.rows EXCEPT ![u] = 1]
          BY <5>1, RowsWritten DEF StoreFlags
        <5>3. UIDs' = UIDs /\ pc' = pc /\ job' = job
          BY <5>1 DEF StoreFlags, UIDs, conns
        <5>. QED
          BY <5>2, <5>3
      <4>5. CASE \E u \in UIDs : DeleteFile(c, u)
        <5>1. UIDs' \subseteq UIDs /\ db' = db /\ pc[c] = "idle"
          BY <4>5 DEF DeleteFile, Ready, UIDs, Restrict
        <5>. QED
          BY <3>1, <5>1
      <4>6. CASE DeleteRow(c)
        <5>1. db'.rows = Restrict(db.rows, DOMAIN db.rows \ {job[c].uid})
          BY <4>6, RowsWritten DEF DeleteRow
        <5>2. UIDs' = UIDs /\ pc[c] = "unrow" /\ job[c].uid \notin UIDs
          BY <3>1, <4>6 DEF DeleteRow, UIDs, Numbers
        <5>. QED
          BY <3>1, <5>1, <5>2 DEF Restrict
      <4>. QED
        BY <1>2, <2>3, <4>1, <4>2, <4>3, <4>4, <4>5, <4>6 DEF WorkStep
    <3>7. \A d \in Conns : pc'[d] = "load" => pc[d] = "load"
      BY <3>1, <3>2
    <3>8. ASSUME ~blemished
          PROVE  \A d \in Conns : /\ ~Opens(d)'
                                  /\ pc'[d] \notin {"commit", "raise", "register"}
      <4>1. \A d \in Conns : ~Opens(d)
        BY <3>5, <3>8 DEF Opening, Opens
      <4>. QED
        BY <3>1, <3>2, <4>1 DEF SessionShape, Opened, Opens
    <3>. QED
      BY <3>1, <3>3, <3>4, <3>5, <3>6, <3>7, <3>8 DEF Rows, Attached
  <2>. QED
    BY <2>2, <2>3
<1>. QED
  BY <1>1, <1>2

LEMMA HandRows ==
    ASSUME TypeOK, SessionShape, Rows, Hands
    PROVE  Rows'
<1>. USE DEF Opens, Opening, conns, process, ByHand
<1>1. CASE (\E u \in UIDs : TakeAway(u)) \/ \E m \in Dropped : DropIn(m)
  <2>1. UIDs' \subseteq UIDs /\ UNCHANGED <<process, conns, db, blemished>>
    BY <1>1 DEF TakeAway, DropIn, Restrict, UIDs
  <2>. QED
    BY <2>1 DEF Rows, Attached
<1>2. CASE ~((\E u \in UIDs : TakeAway(u)) \/ \E m \in Dropped : DropIn(m))
  <2>1. /\ session = "closed" /\ session' = session
        /\ UNCHANGED <<pc, mine, blemished>>
    BY <1>2 DEF Hands, DropNumbered, LoseDatabase, DamageDatabase, RestoreDatabase, AtRest
  <2>2. db'.state \in {"none", "good", "broken"}
    BY <1>2, FreshDatabase DEF Hands, DropNumbered, LoseDatabase, DamageDatabase, RestoreDatabase,
       AtRest, Rows, TypeOK, Fields
  <2>. QED
    BY <2>1, <2>2 DEF Rows, SessionShape
<1>. QED
  BY <1>1, <1>2

LEMMA RowsInvariant == Spec => [](crossed \/ Rows)
<1>1. Init => Rows
  BY DEF Init, Rows, Opening, Opens, NoFolder
<1>2. LocalInv /\ Rows /\ [Next]_vars => crossed' \/ Rows'
  <2>. SUFFICES ASSUME LocalInv, Rows, [Next]_vars PROVE Rows'
    OBVIOUS
  <2>1. CASE UNCHANGED vars
    BY <2>1 DEF vars, directory, process, conns, history, Rows, Opening, Opens, UIDs, Attached
  <2>2. CASE Next
    BY <2>2, StoreRows, OpenRows, WorkRows, HandRows DEF Next, LocalInv
  <2>. QED
    BY <2>1, <2>2
<1>. QED
  BY <1>1, <1>2, CrossedForGood, LocalInvariant, PTL DEF Spec

\* Whoever works in a folder finds a row for every file in it, whatever crashed,
\* was lost or was dropped in before, as long as no two connections opened the
\* folder at once, nothing was dropped in meanwhile and no insert was refused
\* (folder.go: reconcile, Append).
THEOREM EveryFileKeepsItsRow == Spec => []EveryFileHasRow
<1>1. crossed \/ Rows => EveryFileHasRow
  BY DEF Rows, EveryFileHasRow, Quiet, RowsOf
<1>. QED
  BY <1>1, RowsInvariant, PTL

-----------------------------------------------------------------------------
(* A number stands for one message *)

\* Nothing was ever shown under a UIDVALIDITY.
Fresh(v) == \A n \in named : n.validity # v

\* Nothing was ever shown under a number.
Unused(names, v, uid) == \A n \in names : n.validity = v => n.uid # uid

\* What was shown under the UIDVALIDITY of h is still so, and below its next
\* number; a backup may be behind the files that are there.
TrueTo(h, names, now, backup) ==
    \A n \in names : n.validity = h.validity =>
        /\ n.uid \in DOMAIN now => now[n.uid] = n.msg
        /\ n.uid < h.next \/ (backup /\ n.uid \in DOMAIN now)

\* What a connection that opens the folder, and the store once it is open, know
\* of the database.
Openings ==
    \A c \in Conns : Opens(c) =>
        /\ db.state = "good" /\ mine[c].gen <= db.gen /\ mine[c].validity <= lastSeen
        /\ Attached(mine[c]) => mine[c].validity = db.validity
        /\ pc[c] \in {"persist", "rename"} => job[c].next = mine[c].next

Serving ==
    /\ handle # NoFolder => handle.validity <= lastSeen
    /\ session = "open" /\ handle # NoFolder =>
          /\ ~restored /\ db.state = "good" /\ handle.gen <= db.gen
          /\ Attached(handle) => handle.validity = db.validity

\* The next UIDVALIDITY is new.
Past ==
    \A n \in named :
        /\ n.validity \in Nat /\ n.uid \in Nat
        /\ n.validity < clock \/ n.validity <= (IF session = "closed" THEN clock ELSE lastSeen)

\* At rest and until the folder is open, the database knows what was shown.
DiskTrue ==
    ~(session = "open" /\ handle # NoFolder) /\ db.state = "good"
        => TrueTo(db, named, files, restored)

\* So does whoever opens it, unless the numbering is new; the number in hand of
\* a file that is there to be adopted is nobody's.
OpenersTrue ==
    session = "open" /\ handle = NoFolder =>
        \A c \in Conns :
            /\ pc[c] = "rebuild" => db.state = "broken" \/ Fresh(db.validity)
            /\ Opens(c) =>
                /\ TrueTo(mine[c], named, files, restored)
                /\ \/ mine[c].validity = db.validity
                   \/ Fresh(mine[c].validity) /\ Fresh(db.validity)
                /\ pc[c] \in {"persist", "rename"} /\ job[c].msg \in foreign
                      => Unused(named, mine[c].validity, job[c].uid)

\* So does the store, and the number in hand of an append is nobody's.
StoreTrue ==
    session = "open" /\ handle # NoFolder =>
        /\ TrueTo(handle, named, files, FALSE)
        /\ \A c \in Conns : Sends(c) => Unused(named, handle.validity, job[c].uid)

Numbering == Openings /\ Serving /\ Past
NamesInv == ~lagged => NameOne(named) /\ DiskTrue /\ OpenersTrue /\ StoreTrue

\* Files that go, and a next number that grows.
LEMMA StaysTrue ==
    ASSUME NEW h, NEW k, NEW names, NEW now, NEW then, NEW b,
           k.validity = h.validity, h.next \in Nat, k.next \in Nat, h.next <= k.next,
           \A n \in names : n.uid \in Nat,
           DOMAIN then \subseteq DOMAIN now, \A u \in DOMAIN then : then[u] = now[u],
           ~b \/ DOMAIN then = DOMAIN now,
           TrueTo(h, names, now, b)
    PROVE  TrueTo(k, names, then, b)
<1>. SUFFICES ASSUME NEW n \in names, n.validity = k.validity
              PROVE  /\ n.uid \in DOMAIN then => then[n.uid] = n.msg
                     /\ n.uid < k.next \/ (b /\ n.uid \in DOMAIN then)
  BY DEF TrueTo
<1>1. /\ n.uid \in DOMAIN now => now[n.uid] = n.msg
      /\ n.uid < h.next \/ (b /\ n.uid \in DOMAIN now)
  BY DEF TrueTo
<1>2. n.uid \in Nat
  OBVIOUS
<1>. QED
  BY <1>1, <1>2

\* A file more, under a number that was never shown.
LEMMA PutStaysTrue ==
    ASSUME NEW h, NEW names, NEW now, NEW uid, NEW m, NEW b,
           TrueTo(h, names, now, b), Unused(names, h.validity, uid)
    PROVE  TrueTo(h, names, [u \in DOMAIN now \cup {uid} |-> IF u = uid THEN m ELSE now[u]], b)
  BY DEF TrueTo, Unused

LEMMA ShownIs ==
    ASSUME NEW h, NEW now, NEW n \in Shown(h, now)
    PROVE  /\ h # NoFolder /\ n.validity = h.validity /\ n.uid \in DOMAIN now
           /\ n.msg = now[n.uid]
  BY DEF Shown

LEMMA ShowingStaysTrue ==
    ASSUME NEW h, NEW names, NEW now, NEW b, TrueTo(h, names, now, b),
           b \/ \A u \in DOMAIN now : u < h.next
    PROVE  TrueTo(h, names \cup Shown(h, now), now, b)
<1>. SUFFICES ASSUME NEW n \in Shown(h, now)
              PROVE  /\ now[n.uid] = n.msg
                     /\ n.uid < h.next \/ (b /\ n.uid \in DOMAIN now)
  BY DEF TrueTo
<1>. QED
  BY ShownIs

LEMMA ShowingNamesOne ==
    ASSUME NEW h, NEW names, NEW now, NEW b, TrueTo(h, names, now, b), NameOne(names)
    PROVE  NameOne(names \cup Shown(h, now))
<1>. SUFFICES ASSUME NEW m \in names \cup Shown(h, now), NEW n \in names \cup Shown(h, now),
                     m.validity = n.validity, m.uid = n.uid
              PROVE  m.msg = n.msg
  BY DEF NameOne
<1>1. CASE m \in names /\ n \in names
  BY <1>1 DEF NameOne
<1>2. CASE m \in Shown(h, now) /\ n \in Shown(h, now)
  BY <1>2, ShownIs
<1>3. CASE m \in Shown(h, now) /\ n \in names
  BY <1>3, ShownIs DEF TrueTo
<1>4. CASE m \in names /\ n \in Shown(h, now)
  BY <1>4, ShownIs DEF TrueTo
<1>. QED
  BY <1>1, <1>2, <1>3, <1>4

\* A numbering nobody has seen tells no lies.
LEMMA FreshIsTrue ==
    ASSUME NEW h, Fresh(h.validity)
    PROVE  /\ \A now, b : TrueTo(h, named, now, b)
           /\ \A u : Unused(named, h.validity, u)
  BY DEF Fresh, TrueTo, Unused

LEMMA NewIsFresh ==
    ASSUME TypeOK, Past, session = "open"
    PROVE  Fresh(NewUIDValidity)
<1>1. /\ clock \in Nat /\ lastSeen \in Nat /\ lastSeen + 1 \in Nat
  BY DEF TypeOK
<1>2. clock <= NewUIDValidity /\ lastSeen + 1 <= NewUIDValidity /\ NewUIDValidity \in Nat
  BY <1>1, LargerIsBoth DEF NewUIDValidity
<1>3. \A n \in named : n.validity \in Nat /\ (n.validity < clock \/ n.validity <= lastSeen)
  BY DEF Past
<1>. QED
  BY <1>1, <1>2, <1>3 DEF Fresh

\* What is known is seen, and stays so as more is.
LEMMA PastGrows ==
    ASSUME TypeOK, Past, session # "closed", session' = session, clock' = clock,
           lastSeen' \in Nat, lastSeen <= lastSeen', NEW h,
           named' \subseteq named \cup Shown(h, files'),
           h.validity \in Nat, h.validity <= lastSeen', DOMAIN files' \in SUBSET Nat
    PROVE  Past'
<1>. SUFFICES ASSUME NEW n \in named'
              PROVE  /\ n.validity \in Nat /\ n.uid \in Nat
                     /\ n.validity < clock \/ n.validity <= lastSeen'
  BY DEF Past
<1>1. CASE n \in named
  BY <1>1 DEF Past, TypeOK
<1>2. CASE n \in Shown(h, files')
  BY <1>2, ShownIs
<1>. QED
  BY <1>1, <1>2

LEMMA PastStays ==
    ASSUME TypeOK, Past, session # "closed", session' = session, clock' = clock,
           lastSeen' \in Nat, lastSeen <= lastSeen', named' = named
    PROVE  Past'
  BY DEF Past, TypeOK

LEMMA StoreKnows ==
    ASSUME TypeOK, SessionShape, Numbering,
           \/ \E mode \in {"open", "readonly"} : Start(mode)
           \/ CreateFolder \/ Close \/ Crash \/ OpenReadOnly
    PROVE  Numbering'
<1>. USE DEF Numbering
<1>1. CASE \E mode \in {"open", "readonly"} : Start(mode)
  <2>1. /\ session = "closed" /\ session' # "closed" /\ clock' = clock + 1
        /\ UNCHANGED <<lastSeen, handle, conns, history>>
    BY <1>1 DEF Start
  <2>2. Past'
    BY <2>1 DEF Past, TypeOK, history
  <2>. QED
    BY <2>1, <2>2 DEF SessionShape, Openings, Serving, conns, Opens
<1>2. CASE CreateFolder
  <2>1. /\ session = "open" /\ db.state = "none" /\ lastSeen' = NewUIDValidity
        /\ UNCHANGED <<session, handle, mine, pc, clock, named>>
    BY <1>2 DEF CreateFolder, conns, bounds, history
  <2>2. handle = NoFolder /\ \A c \in Conns : ~Opens(c)
    BY <2>1 DEF Openings, Serving
  <2>3. lastSeen' \in Nat /\ lastSeen <= lastSeen'
    <3>1. clock \in Nat /\ lastSeen \in Nat /\ lastSeen + 1 \in Nat
      BY DEF TypeOK
    <3>. QED
      BY <2>1, <3>1, LargerIsBoth DEF NewUIDValidity
  <2>4. Past'
    BY <2>1, <2>3, PastStays
  <2>. QED
    BY <2>1, <2>2, <2>4 DEF Openings, Serving, Opens
<1>3. CASE Close \/ Crash
  <2>1. /\ session # "closed" /\ session' = "closed" /\ NoMemory /\ TimePasses
        /\ named' = named
    BY <1>3 DEF Close, Crash
  <2>2. Past'
    <3>1. clock' \in Nat /\ clock <= clock' /\ lastSeen <= clock'
      BY <2>1, TimeMovesOn
    <3>. QED
      BY <2>1, <3>1 DEF Past, TypeOK
  <2>. QED
    BY <2>1, <2>2, MemoryLost DEF Openings, Serving, Opens
<1>4. CASE OpenReadOnly
  <2>1. /\ session = "readonly" /\ session' = session /\ clock' = clock /\ files' = files
        /\ lastSeen' = Larger(lastSeen, handle'.validity)
        /\ named' \subseteq named \cup Shown(handle', files')
    BY <1>4 DEF OpenReadOnly, bounds, directory
  <2>2. handle'.validity \in Nat
    BY <1>4 DEF OpenReadOnly, TypeOK
  <2>3. lastSeen' \in Nat /\ lastSeen <= lastSeen' /\ handle'.validity <= lastSeen'
    BY <2>1, <2>2, LargerIsBoth DEF TypeOK
  <2>4. Past'
    <3>1. DOMAIN files' \in SUBSET Nat
      BY <2>1 DEF TypeOK, UIDs
    <3>. QED
      BY <2>1, <2>2, <2>3, <3>1, PastGrows
  <2>5. \A c \in Conns : ~Opens(c) /\ ~Opens(c)'
    BY <1>4, <2>1 DEF OpenReadOnly, SessionShape, conns, Opens
  <2>. QED
    BY <2>1, <2>3, <2>4, <2>5 DEF Openings, Serving
<1>. QED
  BY <1>1, <1>2, <1>3, <1>4

LEMMA OpenKnows ==
    ASSUME LocalInv, Rows, Numbering, NEW c \in Conns, OpenStep(c)
    PROVE  Numbering'
<1>. USE DEF Numbering, LocalInv, Step, process, history, directory, bounds
<1>1. session = "open" /\ session' = session /\ clock' = clock
  BY DEF OpenStep, OpenFolder, Rebuild, Load, Scan, AdoptClaim, AdoptRename, AdoptFails,
     ReadKnown, Commit, RaiseUIDNext, Register, SessionShape
<1>2. lastSeen \in Nat
  BY DEF TypeOK
<1>3. CASE OpenFolder(c)
  <2>1. Past'
    BY <1>1, <1>2, <1>3, PastStays DEF OpenFolder
  <2>2. ~Opens(c) /\ UNCHANGED <<mine, handle, db, lastSeen, restored, job>>
        /\ \A d \in Conns \ {c} : pc'[d] = pc[d]
    BY <1>3 DEF OpenFolder, SessionShape, Opened, TypeOK
  <2>. QED
    BY <1>1, <2>1, <2>2 DEF Openings, Serving, Opens, Attached
<1>4. CASE Rebuild(c)
  <2>1. /\ lastSeen' = NewUIDValidity /\ db'.state = "good" /\ db'.gen = db.gen + 1
        /\ UNCHANGED <<handle, mine, job, named, restored>>
        /\ \A d \in Conns \ {c} : pc'[d] = pc[d]
        /\ ~Opens(c)
    BY <1>4, FreshDatabase DEF Rebuild, SessionShape, Opened, TypeOK
  <2>2. lastSeen' \in Nat /\ lastSeen <= lastSeen'
    <3>1. clock \in Nat /\ lastSeen + 1 \in Nat
      BY <1>2 DEF TypeOK
    <3>2. NewUIDValidity \in Nat /\ lastSeen + 1 <= NewUIDValidity
      BY <3>1, LargerIsBoth DEF NewUIDValidity
    <3>. QED
      BY <1>2, <2>1, <3>2
  <2>3. Past'
    BY <1>1, <2>1, <2>2, PastStays
  <2>4. db.gen \in Nat
    BY DEF TypeOK
  <2>5. ASSUME NEW h \in Handles, h.gen <= db.gen
        PROVE  h.gen <= db'.gen /\ ~(db'.gen = h.gen)
    BY <2>1, <2>4, <2>5 DEF Handles
  <2>6. Openings'
    <3>. SUFFICES ASSUME NEW d \in Conns, Opens(d)'
                  PROVE  /\ mine[d].gen <= db'.gen /\ db'.gen # mine[d].gen
                         /\ mine[d].validity <= lastSeen'
                         /\ pc[d] \in {"persist", "rename"} => job[d].next = mine[d].next
                         /\ d # c
      BY <2>1 DEF Openings, Attached
    <3>1. Opens(d) /\ d # c
      BY <2>1 DEF Opens
    <3>2. mine[d] \in Handles
      BY DEF TypeOK
    <3>3. mine[d].validity \in Nat
      BY <3>2 DEF Handles
    <3>. QED
      BY <1>2, <2>2, <2>5, <3>1, <3>2, <3>3 DEF Openings
  <2>7. Serving'
    <3>1. handle \in Handles /\ handle.validity \in Nat
      BY DEF TypeOK, Handles
    <3>. QED
      BY <1>1, <1>2, <2>1, <2>2, <2>5, <3>1 DEF Serving, Attached
  <2>. QED
    BY <2>3, <2>6, <2>7
<1>5. CASE Load(c)
  <2>1. /\ db'.state = "good" /\ db'.gen \in Nat /\ db.gen <= db'.gen
        /\ db'.validity \in Nat
        /\ db' = db \/ db.state = "none"
    BY <1>5, FreshDatabase DEF Load, Rows, TypeOK
  <2>2. /\ mine'[c].gen = db'.gen /\ mine'[c].validity = db'.validity /\ pc'[c] = "scan"
        /\ \A d \in Conns \ {c} : pc'[d] = pc[d] /\ mine'[d] = mine[d]
        /\ lastSeen' = Larger(lastSeen, db'.validity)
        /\ UNCHANGED <<handle, job, named, restored>>
    BY <1>5 DEF Load, TypeOK
  <2>3. lastSeen' \in Nat /\ lastSeen <= lastSeen' /\ db'.validity <= lastSeen'
    BY <1>2, <2>1, <2>2, LargerIsBoth
  <2>4. Past'
    BY <1>1, <2>2, <2>3, PastStays
  <2>5. Openings'
    <3>1. ASSUME NEW d \in Conns \ {c}, Opens(d)'
          PROVE  /\ Opens(d) /\ db' = db /\ mine[d].validity <= lastSeen'
      <4>1. Opens(d) /\ db' = db
        BY <2>1, <2>2, <3>1 DEF Opens, Openings
      <4>2. mine[d].validity \in Nat
        BY DEF TypeOK, Handles
      <4>. QED
        BY <1>2, <2>3, <4>1, <4>2 DEF Openings
    <3>. QED
      BY <2>1, <2>2, <2>3, <3>1 DEF Openings, Attached
  <2>6. Serving'
    <3>1. handle.validity \in Nat
      BY DEF TypeOK, Handles
    <3>. QED
      BY <1>1, <1>2, <2>1, <2>2, <2>3, <3>1 DEF Serving, Attached
  <2>. QED
    BY <2>4, <2>5, <2>6
<1>6. CASE Scan(c) \/ ReadKnown(c) \/ Commit(c)
  <2>1. UNCHANGED <<handle, mine, job, named, restored, lastSeen>>
        /\ db'.state = db.state /\ db'.gen = db.gen /\ db'.validity = db.validity
    BY <1>6, WritesKeepShape DEF Scan, ReadKnown, Commit
  <2>2. /\ pc'[c] \notin {"persist", "rename"}
        /\ \A d \in Conns \ {c} : pc'[d] = pc[d]
    BY <1>6 DEF Scan, ReadKnown, Commit, TypeOK
  <2>3. Past'
    BY <1>1, <1>2, <2>1, PastStays
  <2>. QED
    BY <1>1, <2>1, <2>2, <2>3 DEF Openings, Serving, Opens, Attached
<1>7. CASE AdoptClaim(c) \/ RaiseUIDNext(c)
  <2>1. /\ UNCHANGED <<handle, named, restored, lastSeen>>
        /\ db'.state = db.state /\ db'.gen = db.gen /\ db'.validity = db.validity
    <3>1. CASE AdoptClaim(c)
      BY <3>1 DEF AdoptClaim
    <3>2. CASE RaiseUIDNext(c)
      BY <3>2 DEF RaiseUIDNext, WriteNext, TypeOK, Fields
    <3>. QED
      BY <1>7, <3>1, <3>2
  <2>2. /\ mine'[c].gen = mine[c].gen /\ mine'[c].validity = mine[c].validity
        /\ pc'[c] = "persist" => job'[c].next = mine'[c].next
        /\ pc'[c] # "rename" /\ Opens(c)
        /\ \A d \in Conns \ {c} : pc'[d] = pc[d] /\ mine'[d] = mine[d] /\ job'[d] = job[d]
    <3>1. CASE AdoptClaim(c)
      BY <3>1 DEF AdoptClaim, TypeOK, Handles, SessionShape, Opened
    <3>2. CASE RaiseUIDNext(c)
      BY <3>2 DEF RaiseUIDNext, Raised, TypeOK, Handles, SessionShape, Opened
    <3>. QED
      BY <1>7, <3>1, <3>2
  <2>3. Past'
    BY <1>1, <1>2, <2>1, PastStays
  <2>. QED
    BY <1>1, <2>1, <2>2, <2>3 DEF Openings, Serving, Opens, Attached
<1>8. CASE AdoptRename(c)
  <2>1. handle = NoFolder /\ named' = named
    BY <1>8, RenamesInOrder DEF AdoptRename, Shown
  <2>2. UNCHANGED <<handle, mine, job, restored, lastSeen, db>>
        /\ pc'[c] = "adopt" /\ \A d \in Conns \ {c} : pc'[d] = pc[d]
    BY <1>8 DEF AdoptRename, TypeOK
  <2>3. Past'
    BY <1>1, <1>2, <2>1, <2>2, PastStays
  <2>. QED
    BY <1>1, <2>1, <2>2, <2>3 DEF Openings, Serving, Opens, Attached
<1>9. CASE AdoptFails(c)
  <2>1. Past'
    BY <1>1, <1>2, <1>9, PastStays DEF AdoptFails
  <2>. QED
    BY <1>1, <1>9, <2>1, Idle DEF AdoptFails, Openings, Serving, Attached
<1>10. CASE Register(c)
  <2>1. /\ handle' = IF handle = NoFolder THEN mine[c] ELSE handle
        /\ named' = named \cup Shown(handle', files) /\ UNCHANGED <<db, files, lastSeen>>
        /\ restored' = FALSE /\ Opens(c)
    BY <1>10 DEF Register, SessionShape, Opened
  <2>2. /\ handle' # NoFolder /\ handle'.validity <= lastSeen /\ handle'.gen <= db.gen
        /\ db.state = "good"
        /\ db.gen = handle'.gen => handle'.validity = db.validity
    BY <1>1, <2>1 DEF Openings, Serving, Opens, Attached
  <2>3. handle'.validity \in Nat /\ DOMAIN files' \in SUBSET Nat
    BY <2>1 DEF TypeOK, Handles, UIDs
  <2>4. Past'
    BY <1>1, <1>2, <2>1, <2>2, <2>3, PastGrows
  <2>5. Openings'
    BY <1>10, <2>1, Idle DEF Register, Openings, Attached
  <2>6. Serving'
    BY <1>1, <2>1, <2>2 DEF Serving, Attached
  <2>. QED
    BY <2>4, <2>5, <2>6
<1>. QED
  BY <1>3, <1>4, <1>5, <1>6, <1>7, <1>8, <1>9, <1>10 DEF OpenStep

LEMMA WorkKnows ==
    ASSUME LocalInv, Numbering, NEW c \in Conns, WorkStep(c)
    PROVE  Numbering'
<1>. USE DEF Numbering, LocalInv, Step, process, history, directory, bounds, conns
<1>1. /\ session = "open" /\ session' = session /\ clock' = clock /\ lastSeen' = lastSeen
      /\ restored' = restored /\ lastSeen \in Nat
  BY DEF WorkStep, AppendClaim, Persist, AppendRename, AppendRow, AppendFails, StoreFlags,
     DeleteFile, DeleteRow, Ready, SessionShape, TypeOK
<1>2. /\ db'.state = db.state /\ db'.gen = db.gen /\ db'.validity = db.validity
  BY WritesKeepShape DEF WorkStep, AppendClaim, Persist, AppendRename, AppendRow, AppendFails,
     StoreFlags, DeleteFile, DeleteRow, TypeOK, Jobs
<1>3. /\ handle'.gen = handle.gen /\ handle'.validity = handle.validity
      /\ handle = NoFolder => handle' = NoFolder
  BY DEF WorkStep, AppendClaim, Persist, AppendRename, AppendRow, AppendFails, StoreFlags,
     DeleteFile, DeleteRow, Ready, TypeOK, Handles
<1>4. Past'
  <2>1. CASE AppendRename(c)
    <3>1. /\ named' \subseteq named \cup Shown(handle, files')
          /\ DOMAIN files' = UIDs \cup {job[c].uid} /\ handle # NoFolder
      BY <2>1 DEF AppendRename, SessionShape, Sends, Opens
    <3>2. handle.validity \in Nat /\ handle.validity <= lastSeen
      BY <3>1 DEF Serving, TypeOK, Handles
    <3>3. DOMAIN files' \in SUBSET Nat
      BY <3>1 DEF TypeOK, Jobs
    <3>. QED
      BY <1>1, <3>1, <3>2, <3>3, PastGrows
  <2>2. CASE ~AppendRename(c)
    <3>1. named' = named
      BY <2>2 DEF WorkStep, AppendClaim, Persist, AppendRow, AppendFails, StoreFlags,
         DeleteFile, DeleteRow
    <3>. QED
      BY <1>1, <3>1, PastStays
  <2>. QED
    BY <2>1, <2>2
<1>5. Serving'
  BY <1>1, <1>2, <1>3 DEF Serving, Attached
<1>6. Openings'
  <2>1. \A d \in Conns : Opens(d)' =>
          /\ Opens(d) /\ mine'[d] = mine[d] /\ job'[d] = job[d]
          /\ pc'[d] \in {"persist", "rename"} => pc[d] \in {"persist", "rename"}
    <3>1. CASE AppendRow(c) \/ AppendFails(c) \/ DeleteRow(c)
      BY <3>1, Idle DEF AppendRow, AppendFails, DeleteRow
    <3>2. CASE Persist(c)
      BY <3>2 DEF Persist, TypeOK, Opens
    <3>3. CASE (\E m \in Mail : AppendClaim(c, m)) \/ \E u \in UIDs : DeleteFile(c, u)
      BY <3>3 DEF AppendClaim, DeleteFile, Ready, TypeOK, SessionShape, Opened, Opens
    <3>4. CASE AppendRename(c) \/ \E u \in UIDs : StoreFlags(c, u)
      BY <3>4 DEF AppendRename, StoreFlags, TypeOK, Opens
    <3>. QED
      BY <3>1, <3>2, <3>3, <3>4 DEF WorkStep
  <2>. QED
    BY <1>1, <1>2, <2>1 DEF Openings, Attached
<1>. QED
  BY <1>4, <1>5, <1>6

LEMMA HandsKnow ==
    ASSUME SessionShape, Numbering, Hands
    PROVE  Numbering'
<1>. USE DEF Numbering, process, conns, ByHand
<1>1. CASE (\E u \in UIDs : TakeAway(u)) \/ \E m \in Dropped : DropIn(m)
  <2>1. UNCHANGED <<process, conns, clock, named, db, restored>>
    BY <1>1 DEF TakeAway, DropIn
  <2>. QED
    BY <2>1 DEF Openings, Serving, Past, Opens, Attached
<1>2. CASE ~((\E u \in UIDs : TakeAway(u)) \/ \E m \in Dropped : DropIn(m))
  <2>1. session = "closed" /\ UNCHANGED <<process, conns, clock, named>>
    BY <1>2 DEF Hands, DropNumbered, LoseDatabase, DamageDatabase, RestoreDatabase, AtRest
  <2>. QED
    BY <2>1 DEF SessionShape, Openings, Serving, Past, Opens
<1>. QED
  BY <1>1, <1>2

-----------------------------------------------------------------------------
(* What was shown stays true *)

LEMMA StoreNames ==
    ASSUME LocalInv, Numbering, NamesInv,
           \/ \E mode \in {"open", "readonly"} : Start(mode)
           \/ CreateFolder \/ Close \/ Crash \/ OpenReadOnly
    PROVE  NamesInv'
<1>. USE DEF LocalInv, NamesInv
<1>1. CASE \E mode \in {"open", "readonly"} : Start(mode)
  <2>1. /\ session = "closed" /\ handle = NoFolder /\ \A c \in Conns : pc[c] = "idle" /\ ~Opens(c)
        /\ UNCHANGED <<files, foreign, db, handle, conns, history>>
    BY <1>1 DEF Start, SessionShape
  <2>. QED
    BY <2>1 DEF history, conns, DiskTrue, OpenersTrue, StoreTrue, Opens
<1>2. CASE CreateFolder
  <2>1. /\ session = "open" /\ db.state = "none" /\ db'.validity = NewUIDValidity
        /\ UNCHANGED <<files, foreign, session, handle, conns, named, lagged, restored>>
    BY <1>2, FreshDatabase DEF CreateFolder, history
  <2>2. handle = NoFolder /\ \A c \in Conns : ~Opens(c)
    BY <2>1 DEF Numbering, Openings, Serving
  <2>3. Fresh(db'.validity)
    BY <2>1, NewIsFresh DEF Numbering
  <2>4. TrueTo(db', named, files, restored)
    BY <2>3, FreshIsTrue
  <2>. QED
    BY <2>1, <2>2, <2>3, <2>4 DEF conns, DiskTrue, OpenersTrue, StoreTrue, Opens, Fresh
<1>3. CASE Close \/ Crash
  <2>1. /\ session # "closed" /\ session' = "closed" /\ NoMemory
        /\ UNCHANGED <<files, db, named, restored>>
        /\ lagged' = (lagged \/ (session = "open" /\ Behind))
    BY <1>3 DEF Close, Crash
  <2>2. ASSUME ~lagged', db.state = "good"
        PROVE  TrueTo(db, named, files, restored)
    <3>1. CASE session = "open" /\ handle # NoFolder
      <4>1. Attached(handle) /\ handle.next <= db.next /\ db.validity = handle.validity
        <5>1. ~Behind
          BY <2>1, <2>2, <3>1
        <5>. QED
          BY <3>1, <5>1 DEF Behind, Numbering, Serving, TypeOK, Handles
      <4>2. TrueTo(handle, named, files, FALSE)
        <5>1. ~lagged
          BY <2>1, <2>2
        <5>. QED
          BY <3>1, <5>1 DEF StoreTrue
      <4>3. handle.next \in Nat /\ db.next \in Nat /\ \A n \in named : n.uid \in Nat
        BY DEF TypeOK, Handles, Numbering, Past
      <4>. QED
        <5>1. TrueTo(db, named, files, FALSE)
          BY <4>1, <4>2, <4>3, StaysTrue
        <5>. QED
          BY <5>1 DEF TrueTo
    <3>2. CASE ~(session = "open" /\ handle # NoFolder)
      BY <2>1, <2>2, <3>2 DEF DiskTrue
    <3>. QED
      BY <3>1, <3>2
  <2>. QED
    BY <2>1, <2>2 DEF DiskTrue, OpenersTrue, StoreTrue
<1>4. CASE OpenReadOnly
  <2>1. /\ session = "readonly" /\ session' = session /\ handle = NoFolder
        /\ UNCHANGED <<files, db, restored>>
        /\ lagged' = (lagged \/ (db.state = "good" /\ Uncounted))
    BY <1>4 DEF OpenReadOnly, directory, history
  <2>2. CASE db.state # "good"
    BY <1>4, <2>1, <2>2 DEF OpenReadOnly, DiskTrue, OpenersTrue, StoreTrue
  <2>3. CASE db.state = "good"
    <3>. SUFFICES ASSUME ~lagged'
                  PROVE  NameOne(named') /\ TrueTo(db, named', files, restored)
      BY <2>1 DEF DiskTrue, OpenersTrue, StoreTrue
    <3>1. NameOne(named) /\ TrueTo(db, named, files, restored)
      BY <2>1, <2>3 DEF DiskTrue
    <3>2. handle'.validity = db.validity /\ handle'.next = db.next
          /\ named' = named \cup Shown(handle', files)
      BY <1>4, <2>3 DEF OpenReadOnly
    <3>3. restored \/ \A u \in UIDs : u < db.next
      <4>1. ~Uncounted
        BY <2>1, <2>3
      <4>. QED
        BY <4>1 DEF Uncounted, TypeOK
    <3>4. TrueTo(handle', named, files, restored)
      BY <3>1, <3>2 DEF TrueTo
    <3>5. TrueTo(handle', named', files, restored) /\ NameOne(named')
      <4>1. restored \/ \A u \in DOMAIN files : u < handle'.next
        BY <3>2, <3>3 DEF UIDs
      <4>. QED
        BY <3>1, <3>2, <3>4, <4>1, ShowingStaysTrue, ShowingNamesOne
    <3>. QED
      BY <3>2, <3>5 DEF TrueTo
  <2>. QED
    BY <2>2, <2>3
<1>. QED
  BY <1>1, <1>2, <1>3, <1>4

\* While the folder is open, somebody who opens it once more shows what is there.
LEMMA LateOpenNames ==
    ASSUME LocalInv, Numbering, NamesInv, NEW c \in Conns, OpenStep(c), handle # NoFolder
    PROVE  NamesInv'
<1>. USE DEF LocalInv, Step, process, history, directory, bounds
<1>1. session = "open" /\ session' = session /\ lagged' = lagged
  BY DEF OpenStep, OpenFolder, Rebuild, Load, Scan, AdoptClaim, AdoptRename, AdoptFails,
     ReadKnown, Commit, RaiseUIDNext, Register, SessionShape
<1>2. ~AdoptRename(c)
  BY RenamesInOrder
<1>3. UNCHANGED <<files, handle>>
  BY <1>2 DEF OpenStep, OpenFolder, Rebuild, Load, Scan, AdoptClaim, AdoptFails, ReadKnown,
     Commit, RaiseUIDNext, Register
<1>4. named' = named \/ named' = named \cup Shown(handle, files)
  BY <1>2, <1>3 DEF OpenStep, OpenFolder, Rebuild, Load, Scan, AdoptClaim, AdoptFails,
     ReadKnown, Commit, RaiseUIDNext, Register
<1>5. \A d \in Conns : Sends(d)' => Sends(d) /\ job'[d] = job[d]
  <2>1. CASE AdoptFails(c) \/ Register(c)
    BY <2>1, Idle DEF AdoptFails, Register
  <2>2. CASE OpenFolder(c) \/ Rebuild(c) \/ Scan(c) \/ ReadKnown(c) \/ Commit(c)
    BY <2>2 DEF OpenFolder, Rebuild, Scan, ReadKnown, Commit, TypeOK, Sends, Opens
  <2>3. CASE Load(c) \/ RaiseUIDNext(c)
    BY <2>3 DEF Load, RaiseUIDNext, TypeOK, Sends, Opens
  <2>4. CASE AdoptClaim(c)
    <3>1. mine'[c].gen = mine[c].gen /\ mine[c].gen # 0
      BY <2>4 DEF AdoptClaim, TypeOK, Handles, SessionShape, Opened
    <3>. QED
      BY <2>4, <3>1 DEF AdoptClaim, TypeOK, Sends, Opens, NoFolder
  <2>. QED
    BY <1>2, <2>1, <2>2, <2>3, <2>4 DEF OpenStep
<1>. SUFFICES ASSUME ~lagged
              PROVE  /\ NameOne(named') /\ TrueTo(handle, named', files, FALSE)
                     /\ \A d \in Conns : Sends(d) => Unused(named', handle.validity, job[d].uid)
  BY <1>1, <1>3, <1>5 DEF NamesInv, DiskTrue, OpenersTrue, StoreTrue
<1>6. /\ NameOne(named) /\ TrueTo(handle, named, files, FALSE)
      /\ \A d \in Conns : Sends(d) => Unused(named, handle.validity, job[d].uid)
  BY <1>1 DEF NamesInv, StoreTrue
<1>7. CASE named' = named \cup Shown(handle, files)
  <2>1. \A u \in DOMAIN files : u < handle.next
    BY <1>1 DEF Numbers, UIDs
  <2>2. NameOne(named') /\ TrueTo(handle, named', files, FALSE)
    BY <1>6, <1>7, <2>1, ShowingStaysTrue, ShowingNamesOne
  <2>3. ASSUME NEW d \in Conns, Sends(d)
        PROVE  Unused(named', handle.validity, job[d].uid)
    <3>1. job[d].uid \notin DOMAIN files
      BY <1>1, <2>3 DEF Numbers, UIDs
    <3>. QED
      BY <1>6, <1>7, <2>3, <3>1, ShownIs DEF Unused
  <2>. QED
    BY <2>2, <2>3
<1>. QED
  BY <1>4, <1>6, <1>7

\* What an opener writes into the database is true of its own number.
LEMMA WriteNextTrue ==
    ASSUME TypeOK, NEW h, WriteNext(h, h.next), TrueTo(h, named, files, restored),
           Attached(h) => h.validity = db.validity, TrueTo(db, named, files, restored)
    PROVE  TrueTo(db', named, files, restored)
<1>1. CASE Attached(h)
  <2>1. db'.next = h.next /\ db'.validity = h.validity
    BY <1>1 DEF WriteNext, TypeOK, Fields
  <2>. QED
    BY <2>1 DEF TrueTo
<1>2. CASE ~Attached(h)
  BY <1>2 DEF WriteNext
<1>. QED
  BY <1>1, <1>2

\* Nothing has been shown since the openers began.
LEMMA EarlyOpenNames ==
    ASSUME LocalInv, Rows, Numbering, NamesInv, NEW c \in Conns, OpenStep(c), handle = NoFolder
    PROVE  NamesInv'
<1>. USE DEF LocalInv, Step, process, history, directory, bounds
<1>1. session = "open" /\ session' = session /\ lagged' = lagged
  BY DEF OpenStep, OpenFolder, Rebuild, Load, Scan, AdoptClaim, AdoptRename, AdoptFails,
     ReadKnown, Commit, RaiseUIDNext, Register, SessionShape
<1>. SUFFICES ASSUME ~lagged
              PROVE  NameOne(named') /\ DiskTrue' /\ OpenersTrue' /\ StoreTrue'
  BY <1>1 DEF NamesInv
<1>2. /\ NameOne(named)
      /\ db.state = "good" => TrueTo(db, named, files, restored)
      /\ \A d \in Conns :
            /\ pc[d] = "rebuild" => db.state = "broken" \/ Fresh(db.validity)
            /\ Opens(d) =>
                /\ TrueTo(mine[d], named, files, restored)
                /\ \/ mine[d].validity = db.validity
                   \/ Fresh(mine[d].validity) /\ Fresh(db.validity)
                /\ pc[d] \in {"persist", "rename"} /\ job[d].msg \in foreign
                      => Unused(named, mine[d].validity, job[d].uid)
  BY <1>1 DEF NamesInv, DiskTrue, OpenersTrue
<1>3. CASE ~Register(c) /\ ~AdoptRename(c)
  <2>1. UNCHANGED <<files, foreign, handle, named, restored>>
    BY <1>3 DEF OpenStep, OpenFolder, Rebuild, Load, Scan, AdoptClaim, AdoptFails, ReadKnown,
       Commit, RaiseUIDNext
  <2>. DEFINE Mine(d, p, h, j) ==
         /\ p = "rebuild" => db'.state = "broken" \/ Fresh(db'.validity)
         /\ h # NoFolder =>
              /\ TrueTo(h, named, files, restored)
              /\ h.validity = db'.validity \/ (Fresh(h.validity) /\ Fresh(db'.validity))
              /\ p \in {"persist", "rename"} /\ j.msg \in foreign
                    => Unused(named, h.validity, j.uid)
  <2>2. SUFFICES /\ db'.state = "good" => TrueTo(db', named, files, restored)
                 /\ \A d \in Conns : Mine(d, pc'[d], mine'[d], job'[d])
    BY <1>1, <1>2, <2>1 DEF DiskTrue, OpenersTrue, StoreTrue, Opens, Fresh
  <2>3. CASE db'.state = db.state /\ db'.validity = db.validity
    <3>1. ASSUME NEW d \in Conns, pc'[d] = pc[d], mine'[d] = mine[d], job'[d] = job[d]
          PROVE  Mine(d, pc'[d], mine'[d], job'[d])
      BY <1>2, <2>3, <3>1 DEF Opens
    <3>2. CASE OpenFolder(c) \/ Scan(c) \/ ReadKnown(c) \/ Commit(c)
      <4>1. /\ mine' = mine /\ \A d \in Conns \ {c} : pc'[d] = pc[d] /\ job'[d] = job[d]
            /\ pc'[c] = "rebuild" => db.state = "broken"
            /\ pc'[c] \notin {"persist", "rename"}
            /\ db'.next = db.next
        BY <3>2 DEF OpenFolder, Scan, ReadKnown, Commit, WriteRows, TypeOK, Fields
      <4>2. TrueTo(db, named, files, restored) => TrueTo(db', named, files, restored)
        BY <2>3, <4>1 DEF TrueTo
      <4>3. Mine(c, pc'[c], mine'[c], job'[c])
        BY <1>2, <2>3, <4>1 DEF Opens
      <4>. QED
        BY <1>2, <2>3, <3>1, <4>1, <4>2, <4>3
    <3>3. CASE AdoptFails(c)
      <4>1. db' = db /\ Mine(c, pc'[c], mine'[c], job'[c])
        BY <3>3, Idle DEF AdoptFails
      <4>. QED
        BY <1>2, <3>1, <3>3, <4>1, Idle DEF AdoptFails
    <3>4. CASE AdoptClaim(c)
      <4>. DEFINE uid == Claimed(mine[c], MaxUID(found[c].uids))
      <4>1. /\ found[c].uids \in SUBSET (Nat \ {0}) /\ Bounded(found[c].uids)
            /\ mine[c] \in Handles /\ mine[c].next \in Nat
        BY DEF TypeOK, Scans, Handles
      <4>2. /\ MaxUID(found[c].uids) \in Nat
            /\ \A u \in found[c].uids : u <= MaxUID(found[c].uids)
        BY <4>1, MaxUIDIsTop
      <4>3. uid \in Nat \ {0} /\ mine[c].next <= uid /\ MaxUID(found[c].uids) < uid
        BY <4>1, <4>2, ClaimIsNew
      <4>4. \A u \in found[c].uids : u < uid
        BY <4>1, <4>2, <4>3
      <4>. HIDE DEF uid
      <4>5. /\ mine'[c].validity = mine[c].validity /\ mine'[c].next = uid + 1
            /\ job'[c].uid = uid /\ job'[c].msg = Min(found[c].foreign)
            /\ found[c].foreign # {} /\ pc'[c] = "persist" /\ Opens(c) /\ pc[c] = "adopt"
            /\ db' = db
            /\ \A d \in Conns \ {c} : pc'[d] = pc[d] /\ mine'[d] = mine[d] /\ job'[d] = job[d]
        BY <3>4 DEF AdoptClaim, uid, TypeOK, Handles, SessionShape, Opened
      <4>6. TrueTo(mine[c], named, files, restored)
        BY <1>2, <4>5
      <4>7. \A n \in named : n.uid \in Nat
        BY DEF Numbering, Past
      <4>8. TrueTo(mine'[c], named, files, restored)
        <5>1. uid + 1 \in Nat /\ mine[c].next <= uid + 1
          BY <4>1, <4>3
        <5>. QED
          BY <4>1, <4>5, <4>6, <4>7, <5>1, StaysTrue
      <4>9. ASSUME job'[c].msg \in foreign
            PROVE  Unused(named, mine[c].validity, uid)
        <5>1. UIDs \subseteq found[c].uids
          BY <1>1, <4>5, <4>9 DEF OpenersAgree, Scanned, UpToDate, Overtaken
        <5>2. \A n \in named : n.validity = mine[c].validity =>
                                  n.uid < mine[c].next \/ n.uid \in found[c].uids
          BY <4>6, <5>1 DEF TrueTo, UIDs
        <5>. QED
          BY <4>1, <4>3, <4>4, <4>7, <5>2 DEF Unused
      <4>10. Mine(c, pc'[c], mine'[c], job'[c])
        BY <1>2, <4>5, <4>8, <4>9
      <4>. QED
        BY <1>2, <3>1, <4>5, <4>10
    <3>5. CASE RaiseUIDNext(c)
      <4>1. /\ found[c].uids \in SUBSET (Nat \ {0}) /\ Bounded(found[c].uids)
            /\ mine[c].next \in Nat
        BY DEF TypeOK, Scans, Handles
      <4>2. /\ mine'[c] = Raised(mine[c], found[c].uids)
            /\ mine'[c].validity = mine[c].validity /\ mine'[c].gen = mine[c].gen
            /\ mine'[c].next = Larger(mine[c].next, MaxUID(found[c].uids) + 1)
            /\ db' = db \/ WriteNext(mine'[c], mine'[c].next)
            /\ pc'[c] = "register" /\ Opens(c)
            /\ \A d \in Conns \ {c} : pc'[d] = pc[d] /\ mine'[d] = mine[d] /\ job'[d] = job[d]
        BY <3>5 DEF RaiseUIDNext, Raised, TypeOK, Handles, SessionShape, Opened
      <4>3. mine'[c].next \in Nat /\ mine[c].next <= mine'[c].next
        <5>1. MaxUID(found[c].uids) \in Nat
          BY <4>1, MaxUIDIsTop
        <5>. QED
          <6>. DEFINE top == MaxUID(found[c].uids) + 1
          <6>1. top \in Nat /\ mine'[c].next = Larger(mine[c].next, top)
            BY <4>2, <5>1
          <6>. HIDE DEF top
          <6>. QED
            BY <4>1, <6>1, LargerIsBoth
      <4>4. TrueTo(mine'[c], named, files, restored)
        <5>1. TrueTo(mine[c], named, files, restored) /\ \A n \in named : n.uid \in Nat
          BY <1>2, <4>2 DEF Numbering, Past
        <5>. QED
          BY <4>1, <4>2, <4>3, <5>1, StaysTrue
      <4>5. /\ db.state = "good"
            /\ db.gen = mine'[c].gen => mine'[c].validity = db.validity
        BY <4>2 DEF Numbering, Openings, Attached
      <4>6. TrueTo(db', named, files, restored)
        BY <1>2, <4>2, <4>4, <4>5, WriteNextTrue DEF Attached
      <4>7. Mine(c, pc'[c], mine'[c], job'[c])
        BY <1>2, <2>3, <4>2, <4>4
      <4>. QED
        BY <3>1, <4>2, <4>6, <4>7
    <3>6. CASE Rebuild(c)
      <4>1. Fresh(db'.validity)
        BY <1>1, <3>6, NewIsFresh, FreshDatabase DEF Rebuild, Numbering
      <4>2. TrueTo(db', named, files, restored)
        BY <4>1, FreshIsTrue
      <4>3. \A d \in Conns \ {c} : pc'[d] = pc[d] /\ mine'[d] = mine[d] /\ job'[d] = job[d]
        BY <3>6 DEF Rebuild, TypeOK
      <4>4. Mine(c, pc'[c], mine'[c], job'[c])
        BY <1>2, <2>3, <3>6, <4>1 DEF Rebuild, TypeOK, Opens
      <4>. QED
        BY <3>1, <4>2, <4>3, <4>4
    <3>7. CASE Load(c)
      <4>1. /\ mine'[c].next = db'.next /\ mine'[c].validity = db'.validity /\ pc'[c] = "scan"
            /\ \A d \in Conns \ {c} : pc'[d] = pc[d] /\ mine'[d] = mine[d] /\ job'[d] = job[d]
            /\ db.state = "good" /\ db' = db
        BY <2>3, <3>7, FreshDatabase DEF Load, TypeOK, Rows
      <4>2. TrueTo(mine'[c], named, files, restored)
        BY <1>2, <4>1 DEF TrueTo
      <4>3. Mine(c, pc'[c], mine'[c], job'[c])
        BY <4>1, <4>2
      <4>. QED
        BY <1>2, <3>1, <4>1, <4>3
    <3>. QED
      BY <1>3, <3>2, <3>3, <3>4, <3>5, <3>6, <3>7 DEF OpenStep
  <2>4. CASE ~(db'.state = db.state /\ db'.validity = db.validity)
    <3>1. Rebuild(c) \/ (Load(c) /\ db.state = "none")
      <4>1. CASE Commit(c) \/ RaiseUIDNext(c)
        BY <2>4, <4>1 DEF Commit, RaiseUIDNext, WriteRows, WriteNext, TypeOK, Fields
      <4>. QED
        BY <1>3, <2>4, <4>1 DEF OpenStep, OpenFolder, Load, Scan, AdoptClaim, AdoptFails,
           ReadKnown
    <3>2. db' = Rebuilt
      BY <3>1 DEF Rebuild, Load
    <3>3. Fresh(db'.validity)
      BY <1>1, <3>2, NewIsFresh, FreshDatabase DEF Numbering
    <3>4. TrueTo(db', named, files, restored)
      BY <3>3, FreshIsTrue
    <3>5. ASSUME NEW d \in Conns, Opens(d)
          PROVE  Fresh(mine[d].validity) /\ pc[c] = "rebuild"
      <4>1. db.state = "good"
        BY <3>5 DEF Numbering, Openings
      <4>2. pc[c] = "rebuild"
        BY <3>1, <4>1 DEF Rebuild
      <4>. QED
        BY <1>2, <3>5, <4>1, <4>2
    <3>6. ASSUME NEW d \in Conns, mine'[d] = mine[d], d = c => pc'[d] = "load"
          PROVE  Mine(d, pc'[d], mine'[d], job'[d])
      BY <3>3, <3>5, <3>6, FreshIsTrue DEF Opens
    <3>7. CASE Rebuild(c)
      BY <3>4, <3>6, <3>7 DEF Rebuild, TypeOK
    <3>8. CASE Load(c)
      <4>1. /\ mine'[c].validity = db'.validity /\ pc'[c] = "scan"
            /\ \A d \in Conns \ {c} : mine'[d] = mine[d]
        BY <3>8 DEF Load, TypeOK
      <4>2. Mine(c, pc'[c], mine'[c], job'[c])
        BY <3>3, <4>1, FreshIsTrue
      <4>. QED
        BY <3>4, <3>6, <4>1, <4>2
    <3>. QED
      BY <3>1, <3>7, <3>8
  <2>. QED
    BY <2>3, <2>4
<1>4. CASE AdoptRename(c)
  <2>1. job[c].msg \in foreign /\ pc[c] = "rename" /\ Opens(c) /\ named' = named
    BY <1>4 DEF AdoptRename, Opens, Shown
  <2>2. Unused(named, mine[c].validity, job[c].uid)
    BY <1>2, <2>1
  <2>3. \/ mine[c].validity = db.validity
        \/ Fresh(mine[c].validity) /\ Fresh(db.validity)
    BY <1>2, <2>1
  <2>4. /\ files' = [u \in DOMAIN files \cup {job[c].uid} |->
                        IF u = job[c].uid THEN job[c].msg ELSE files[u]]
        /\ foreign' \subseteq foreign
        /\ UNCHANGED <<db, handle, mine, job, restored>>
        /\ pc'[c] = "adopt" /\ \A d \in Conns \ {c} : pc'[d] = pc[d]
    BY <1>4 DEF AdoptRename, UIDs, TypeOK
  <2>5. ASSUME NEW h, TrueTo(h, named, files, restored),
               h.validity = mine[c].validity \/ Fresh(h.validity)
        PROVE  TrueTo(h, named, files', restored)
    <3>1. Unused(named, h.validity, job[c].uid)
      BY <2>2, <2>5, FreshIsTrue
    <3>. QED
      BY <2>4, <2>5, <3>1, PutStaysTrue
  <2>6. db.state = "good" => TrueTo(db, named, files', restored)
    BY <1>2, <2>3, <2>5
  <2>7. ASSUME NEW d \in Conns, Opens(d)
        PROVE  TrueTo(mine[d], named, files', restored)
    <3>1. mine[d].validity = mine[c].validity \/ Fresh(mine[d].validity)
      BY <1>2, <2>3, <2>7
    <3>. QED
      BY <1>2, <2>5, <2>7, <3>1
  <2>8. OpenersTrue'
    BY <1>1, <1>2, <2>1, <2>4, <2>7 DEF OpenersTrue, Opens, Fresh
  <2>. QED
    BY <1>2, <2>1, <2>4, <2>6, <2>8 DEF DiskTrue, StoreTrue
<1>5. CASE Register(c)
  <2>1. /\ handle' = mine[c] /\ named' = named \cup Shown(mine[c], files) /\ files' = files
        /\ Opens(c) /\ found[c].foreign = {} /\ \A u \in found[c].uids : u < mine[c].next
    BY <1>5 DEF Register, SessionShape, Opened, Adoption
  <2>2. UIDs \subseteq found[c].uids
    BY <1>1, <1>5, <2>1 DEF Register, OpenersAgree, Scanned, UpToDate, Overtaken
  <2>3. \A u \in DOMAIN files : u < mine[c].next
    BY <2>1, <2>2 DEF UIDs
  <2>4. TrueTo(mine[c], named, files, restored)
    BY <1>2, <2>1
  <2>5. TrueTo(mine[c], named, files, FALSE)
    BY <2>3, <2>4 DEF TrueTo
  <2>6. NameOne(named') /\ TrueTo(handle', named', files', FALSE)
    BY <1>2, <2>1, <2>3, <2>5, ShowingStaysTrue, ShowingNamesOne
  <2>7. \A d \in Conns : ~Sends(d)'
    BY <1>5, Idle DEF Register, SessionShape
  <2>8. handle' # NoFolder
    BY <2>1 DEF Opens
  <2>. QED
    BY <1>1, <2>6, <2>7, <2>8 DEF DiskTrue, OpenersTrue, StoreTrue
<1>. QED
  BY <1>3, <1>4, <1>5

LEMMA WorkNames ==
    ASSUME LocalInv, Numbering, NamesInv, NEW c \in Conns, WorkStep(c)
    PROVE  NamesInv'
<1>. USE DEF LocalInv, Step, process, history, directory, bounds, conns
<1>1. session = "open" /\ session' = session /\ lagged' = lagged /\ restored' = restored
  BY DEF WorkStep, AppendClaim, Persist, AppendRename, AppendRow, AppendFails, StoreFlags,
     DeleteFile, DeleteRow, Ready, SessionShape
<1>. SUFFICES ASSUME ~lagged
              PROVE  NameOne(named') /\ DiskTrue' /\ OpenersTrue' /\ StoreTrue'
  BY <1>1 DEF NamesInv
<1>2. CASE handle = NoFolder
  <2>1. \/ Persist(c) /\ Opens(c)
        \/ AppendFails(c) /\ pc[c] = "persist" /\ ~Opens(c)
    BY <1>2 DEF WorkStep, Persist, AppendClaim, AppendRename, AppendRow, AppendFails,
       StoreFlags, DeleteFile, DeleteRow, Ready, SessionShape, Sends, Opens
  <2>2. ~(pc[c] = "persist" /\ ~Opens(c))
    BY <1>2 DEF SessionShape, Sends
  <2>3. /\ Opens(c) /\ UNCHANGED <<files, foreign, handle, mine, job, named>>
        /\ pc[c] = "persist" /\ pc'[c] = "rename" /\ \A d \in Conns \ {c} : pc'[d] = pc[d]
        /\ WriteNext(mine[c], job[c].next)
    BY <2>1, <2>2 DEF Persist, TypeOK, Opens
  <2>4. /\ NameOne(named) /\ OpenersTrue /\ TrueTo(mine[c], named, files, restored)
        /\ db.state = "good" /\ TrueTo(db, named, files, restored)
    BY <1>1, <1>2, <2>3 DEF NamesInv, DiskTrue, OpenersTrue, Numbering, Openings
  <2>5. TrueTo(db', named, files, restored)
    <3>1. job[c].next = mine[c].next
      BY <2>3 DEF Numbering, Openings
    <3>2. Attached(mine[c]) => mine[c].validity = db.validity
      BY <2>3 DEF Numbering, Openings
    <3>. QED
      BY <2>3, <2>4, <3>1, <3>2, WriteNextTrue
  <2>6. db'.state = db.state /\ db'.validity = db.validity
    BY <2>3 DEF WriteNext, TypeOK, Fields
  <2>7. OpenersTrue'
    BY <1>1, <1>2, <2>3, <2>4, <2>6 DEF OpenersTrue, Opens, Fresh
  <2>. QED
    BY <1>1, <1>2, <2>3, <2>4, <2>5, <2>7 DEF DiskTrue, StoreTrue
<1>3. CASE handle # NoFolder
  <2>1. /\ NameOne(named) /\ TrueTo(handle, named, files, FALSE)
        /\ \A d \in Conns : Sends(d) => Unused(named, handle.validity, job[d].uid)
    BY <1>1, <1>3 DEF NamesInv, StoreTrue
  <2>2. handle.next \in Nat /\ \A n \in named : n.uid \in Nat
    BY DEF TypeOK, Handles, Numbering, Past
  <2>3. handle' # NoFolder
    <3>1. handle'.gen = handle.gen
      BY DEF WorkStep, AppendClaim, Persist, AppendRename, AppendRow, AppendFails,
         StoreFlags, DeleteFile, DeleteRow, TypeOK, Handles
    <3>. QED
      BY <1>3, <3>1 DEF SessionShape, NoFolder
  <2>. SUFFICES /\ NameOne(named') /\ TrueTo(handle', named', files', FALSE)
                /\ \A d \in Conns : Sends(d)' => Unused(named', handle'.validity, job'[d].uid)
    BY <1>1, <2>3 DEF DiskTrue, OpenersTrue, StoreTrue
  <2>4. CASE \E m \in Mail : AppendClaim(c, m)
    <3>. DEFINE uid == Claimed(handle, 0)
    <3>1. uid \in Nat \ {0} /\ handle.next <= uid
      BY ClaimIsNew DEF TypeOK
    <3>. HIDE DEF uid
    <3>2. /\ handle'.next = uid + 1 /\ handle'.validity = handle.validity /\ job'[c].uid = uid
          /\ UNCHANGED <<files, named, mine>>
          /\ \A d \in Conns \ {c} : pc'[d] = pc[d] /\ job'[d] = job[d]
      BY <2>4 DEF AppendClaim, uid, TypeOK, Handles
    <3>3. TrueTo(handle', named, files, FALSE)
      <4>1. uid + 1 \in Nat /\ handle.next <= uid + 1
        BY <2>2, <3>1
      <4>. QED
        BY <2>1, <2>2, <3>2, <4>1, StaysTrue
    <3>4. Unused(named, handle.validity, uid)
      BY <2>1, <2>2, <3>1 DEF TrueTo, Unused
    <3>5. \A d \in Conns \ {c} : Sends(d)' => Sends(d)
      BY <3>2 DEF Sends, Opens
    <3>. QED
      BY <2>1, <3>2, <3>3, <3>4, <3>5
  <2>5. CASE AppendRename(c)
    <3>1. /\ Sends(c)
          /\ files' = [u \in DOMAIN files \cup {job[c].uid} |->
                          IF u = job[c].uid THEN job[c].msg ELSE files[u]]
          /\ named' = named \cup Shown(handle, files')
          /\ UNCHANGED <<handle, job, mine>>
          /\ pc'[c] = "insert" /\ \A d \in Conns \ {c} : pc'[d] = pc[d]
      BY <2>5 DEF AppendRename, Sends, Opens, UIDs, TypeOK
    <3>2. TrueTo(handle, named, files', FALSE)
      BY <2>1, <3>1 DEF TrueTo, Unused
    <3>3. \A u \in DOMAIN files' : u < handle.next
      BY <1>1, <1>3, <3>1 DEF Numbers, UIDs
    <3>4. NameOne(named') /\ TrueTo(handle, named', files', FALSE)
      BY <2>1, <3>1, <3>2, <3>3, ShowingStaysTrue, ShowingNamesOne
    <3>5. ASSUME NEW d \in Conns, Sends(d)'
          PROVE  Unused(named', handle.validity, job[d].uid)
      <4>1. d # c /\ Sends(d)
        BY <3>1, <3>5 DEF Sends, Opens
      <4>2. job[d].uid \notin DOMAIN files'
        BY <1>1, <1>3, <3>1, <4>1 DEF Numbers, UIDs
      <4>. QED
        BY <2>1, <3>1, <4>1, <4>2, ShownIs DEF Unused
    <3>. QED
      BY <3>1, <3>4, <3>5
  <2>6. CASE \E u \in UIDs : DeleteFile(c, u)
    <3>1. /\ DOMAIN files' \subseteq DOMAIN files /\ \A u \in DOMAIN files' : files'[u] = files[u]
          /\ UNCHANGED <<handle, named, mine>> /\ pc'[c] = "unrow"
          /\ \A d \in Conns \ {c} : pc'[d] = pc[d] /\ job'[d] = job[d]
      BY <2>6 DEF DeleteFile, Restrict, UIDs, TypeOK
    <3>2. TrueTo(handle, named, files', FALSE)
      BY <2>1, <3>1 DEF TrueTo
    <3>3. \A d \in Conns : Sends(d)' => d # c /\ Sends(d)
      BY <3>1 DEF Sends, Opens
    <3>. QED
      BY <2>1, <3>1, <3>2, <3>3
  <2>7. CASE \/ Persist(c) \/ AppendRow(c) \/ AppendFails(c) \/ DeleteRow(c)
             \/ \E u \in UIDs : StoreFlags(c, u)
    <3>1. UNCHANGED <<files, handle, named>>
      BY <2>7 DEF Persist, AppendRow, AppendFails, DeleteRow, StoreFlags
    <3>2. \A d \in Conns : Sends(d)' => Sends(d) /\ job'[d] = job[d]
      <4>1. CASE Persist(c) \/ \E u \in UIDs : StoreFlags(c, u)
        BY <4>1 DEF Persist, StoreFlags, Sends, Opens, TypeOK
      <4>2. CASE AppendRow(c) \/ AppendFails(c) \/ DeleteRow(c)
        BY <4>2, Idle DEF AppendRow, AppendFails, DeleteRow
      <4>. QED
        BY <2>7, <4>1, <4>2
    <3>. QED
      BY <2>1, <3>1, <3>2
  <2>. QED
    BY <2>4, <2>5, <2>6, <2>7 DEF WorkStep
<1>. QED
  BY <1>2, <1>3

LEMMA HandNames ==
    ASSUME LocalInv, Numbering, NamesInv, Hands, ~crossed'
    PROVE  NamesInv'
<1>. USE DEF LocalInv, process, conns, ByHand
<1>1. CASE \E u \in UIDs : TakeAway(u)
  <2>1. /\ lagged' = (lagged \/ restored) /\ DOMAIN files' \subseteq DOMAIN files
        /\ \A u \in DOMAIN files' : files'[u] = files[u]
        /\ UNCHANGED <<foreign, db, process, conns, named, restored>>
    BY <1>1 DEF TakeAway, Restrict, UIDs
  <2>2. ASSUME NEW h, h.next \in Nat, NEW b, TrueTo(h, named, files, b), ~b
        PROVE  TrueTo(h, named, files', b)
    <3>1. \A n \in named : n.uid \in Nat
      BY DEF Numbering, Past
    <3>. QED
      BY <2>1, <2>2, <3>1, StaysTrue
  <2>3. db.next \in Nat /\ handle.next \in Nat /\ \A c \in Conns : mine[c].next \in Nat
    BY DEF TypeOK, Handles
  <2>. SUFFICES ASSUME ~lagged, ~restored
                PROVE  NameOne(named) /\ DiskTrue' /\ OpenersTrue' /\ StoreTrue'
    BY <2>1 DEF NamesInv
  <2>4. NameOne(named) /\ DiskTrue /\ OpenersTrue /\ StoreTrue
    BY DEF NamesInv
  <2>5. DiskTrue'
    BY <2>1, <2>2, <2>3, <2>4 DEF DiskTrue
  <2>6. OpenersTrue'
    <3>1. ASSUME NEW c \in Conns, TrueTo(mine[c], named, files, restored)
          PROVE  TrueTo(mine[c], named, files', restored)
      BY <2>1, <2>2, <2>3, <3>1
    <3>. QED
      BY <2>1, <2>4, <3>1 DEF OpenersTrue, Opens, Fresh
  <2>7. StoreTrue'
    <3>1. TrueTo(handle, named, files, FALSE) => TrueTo(handle, named, files', FALSE)
      BY <2>2, <2>3
    <3>. QED
      BY <2>1, <2>4, <3>1 DEF StoreTrue, Sends, Opens
  <2>. QED
    BY <2>4, <2>5, <2>6, <2>7
<1>2. CASE \E m \in Dropped : DropIn(m)
  <2>1. /\ UNCHANGED <<files, db, process, conns, named, lagged, restored>>
        /\ \A c \in Conns : ~Opens(c)
    BY <1>2 DEF DropIn, Opening, Opens
  <2>. QED
    BY <2>1 DEF NamesInv, DiskTrue, OpenersTrue, StoreTrue, Opens, Sends, Fresh
<1>3. CASE \E m \in Dropped : \E u \in HandNumbers : DropNumbered(m, u)
  <2>1. PICK m \in Dropped, u \in HandNumbers : DropNumbered(m, u)
    BY <1>3
  <2>2. /\ session = "closed" /\ UNCHANGED <<session, db, named, restored>>
        /\ files' = [v \in DOMAIN files \cup {u} |-> IF v = u THEN m ELSE files[v]]
        /\ lagged' = (lagged \/ \E n \in named : n.uid = u)
    BY <2>1 DEF DropNumbered, UIDs
  <2>. SUFFICES ASSUME ~lagged, \A n \in named : n.uid # u, db.state = "good"
                PROVE  TrueTo(db, named, files', restored)
    BY <2>2 DEF NamesInv, DiskTrue, OpenersTrue, StoreTrue
  <2>3. TrueTo(db, named, files, restored)
    BY <2>2 DEF NamesInv, DiskTrue
  <2>. QED
    BY <2>2, <2>3, PutStaysTrue DEF Unused
<1>4. CASE LoseDatabase \/ DamageDatabase
  <2>1. session = "closed" /\ session' = session /\ UNCHANGED <<files, named, lagged>>
    BY <1>4 DEF LoseDatabase, DamageDatabase, AtRest
  <2>2. db'.state # "good"
    BY <1>4, FreshDatabase DEF LoseDatabase, DamageDatabase, TypeOK, Fields
  <2>. QED
    BY <2>1, <2>2 DEF NamesInv, DiskTrue, OpenersTrue, StoreTrue
<1>5. CASE RestoreDatabase
  <2>1. /\ session = "closed" /\ UNCHANGED <<files, session, named>> /\ restored' = TRUE
        /\ lagged' = (lagged \/ ~Healable)
        /\ db'.next = old.next /\ db'.validity = old.validity
    BY <1>5 DEF RestoreDatabase, AtRest, TypeOK, Fields
  <2>2. Healable => TrueTo(db', named, files, TRUE)
    BY <2>1 DEF Healable, TrueTo, UIDs
  <2>. QED
    BY <2>1, <2>2 DEF NamesInv, DiskTrue, OpenersTrue, StoreTrue
<1>. QED
  BY <1>1, <1>2, <1>3, <1>4, <1>5 DEF Hands

\* Until the number on disk falls behind what was handed out or listed, a file
\* is put under a number of old, or one is dropped in while the folder is being
\* opened, a number never stands for two messages under one UIDVALIDITY, for any
\* number of connections, runs, crashes, rebuilds, backups and hands (folder.go:
\* claim, raiseUIDNext, rebuild, newUIDValidity).
THEOREM NumbersNameOne == Spec => []NumberNamesOne
<1>1. Init => Numbering /\ NamesInv
  BY DEF Init, Numbering, Openings, Serving, Past, NamesInv, NameOne, DiskTrue, OpenersTrue,
     StoreTrue, TrueTo, Opens, NoFolder
<1>2. LocalInv /\ Rows /\ Numbering /\ NamesInv /\ [Next]_vars
         => crossed' \/ (Numbering' /\ NamesInv')
  <2>. SUFFICES ASSUME LocalInv, Rows, Numbering, NamesInv, [Next]_vars, ~crossed'
                PROVE  Numbering' /\ NamesInv'
    OBVIOUS
  <2>1. CASE UNCHANGED vars
    BY <2>1 DEF vars, directory, process, conns, history, bounds, Numbering, Openings, Serving,
       Past, NamesInv, DiskTrue, OpenersTrue, StoreTrue, Opens, Sends, Attached, Fresh
  <2>2. CASE \/ \E mode \in {"open", "readonly"} : Start(mode)
             \/ CreateFolder \/ Close \/ Crash \/ OpenReadOnly
    BY <2>2, StoreKnows, StoreNames DEF LocalInv
  <2>3. CASE \E c \in Conns : OpenStep(c)
    BY <2>3, OpenKnows, LateOpenNames, EarlyOpenNames
  <2>4. CASE \E c \in Conns : WorkStep(c)
    BY <2>4, WorkKnows, WorkNames
  <2>5. CASE Hands
    BY <2>5, HandsKnow, HandNames DEF LocalInv
  <2>. QED
    BY <2>1, <2>2, <2>3, <2>4, <2>5 DEF Next
<1>3. crossed \/ NamesInv => NumberNamesOne
  BY DEF NamesInv, NumberNamesOne
<1>. QED
  BY <1>1, <1>2, <1>3, CrossedForGood, LocalInvariant, RowsInvariant, PTL DEF Spec
=============================================================================
