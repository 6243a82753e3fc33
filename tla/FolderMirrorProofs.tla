------------------------- MODULE FolderMirrorProofs -------------------------
(***************************************************************************)
(* What holds of a folder and its copy, however many messages there are    *)
(* and whatever others do to either mailbox.  Layer upon layer: types, the *)
(* numberings a run may trust, which rows there can be, which copies they  *)
(* name; on these rest what is adopted, what deletion spares, what is      *)
(* still owed, what the fast path skips, the flags and the preview.        *)
(***************************************************************************)
EXTENDS FolderMirror, FiniteSetTheorems, TLAPS

-----------------------------------------------------------------------------
(* Types *)

Anything == Contents \cup Strangers \cup Range(Leftover)
Flags    == {0, 1}
UIDType  == Nat \ {0}
RowType  == [state : {"done", "gone", "failed", "in_flight"}, src : Nat, dst : Nat,
             uid : Nat, flag : Flags]
FolderType == [src : Nat, dst : Nat, mark : Nat, deleted : Nat, finished : BOOLEAN]
PreviewType == [copies : SUBSET Msgs, deletes : SUBSET Nat, sure : BOOLEAN]
PreparedType ==
    [src : Nat, modseq : Nat, dst : Nat, since : Nat, kept : BOOLEAN, fresh : BOOLEAN,
     count : Nat, known : BOOLEAN, live : SUBSET Msgs, filtered : BOOLEAN, calm : BOOLEAN,
     preview : PreviewType]
MirrorRow == [msg : Msgs, uid : UIDType, flag : Flags]
Change4   == [uid : UIDType, msg : Msgs, flag : Flags]
Victim    == [uid : UIDType, src : Msgs \cup {Nobody}]

\* The run up to the second pass over the destination, and all that selects both.
Open  == {"opened", "recovered", "verified", "copy", "store"}
Going == Open \cup {"expunge", "forget"}
Phases == {"idle", "planned"} \cup Going \cup {"dedupe", "remove", "finish"}

SourceTypes ==
    /\ listed \in SUBSET Msgs /\ flag \in [Msgs -> Flags]
    /\ modseq \in Nat \ {0} /\ srcVal \in Nat \ {0}
    /\ changed \in [Msgs -> Nat]
DestTypes ==
    /\ nextUID \in Nat \ {0} /\ dstVal \in Nat \ {0}
    /\ UIDs \subseteq 1..(nextUID - 1)
    /\ box \in [UIDs -> [content : Anything, flag : Flags]]
StoreTypes ==
    /\ Recorded \subseteq Msgs /\ row \in [Recorded -> RowType]
    /\ \A m \in Recorded : row[m].state = "done" <=> row[m].uid # Nobody
    /\ folder \in FolderType
RunTypes ==
    /\ phase \in Phases /\ p \in PreparedType
    /\ todo \subseteq Msgs /\ bodies \subseteq Msgs /\ dupes \subseteq Msgs
    /\ index \subseteq [uid : UIDType, content : Anything]
    /\ mirror \in [loaded : BOOLEAN, rows : SUBSET MirrorRow]
    /\ changes \subseteq Change4 /\ doomed \subseteq Victim
    /\ failed \in BOOLEAN /\ refused \in BOOLEAN
RestTypes ==
    /\ budget \in Nat /\ removed \subseteq Nat /\ loose \subseteq Nat
    /\ shifted \in BOOLEAN /\ torn \in BOOLEAN

\* What a run has in memory at each point.
Shape ==
    /\ phase # "copy" => todo = {} /\ index = {} /\ bodies = {} /\ dupes = {}
    /\ phase # "store" => changes = {}
    /\ phase \notin {"expunge", "forget", "remove"} => doomed = {}
    /\ phase \in Open \ {"store"} => ~mirror.loaded
    /\ phase \in {"idle", "planned"} => ~mirror.loaded
    /\ phase \in {"store", "expunge", "forget"} => mirror.loaded
    /\ phase \in {"idle", "planned"} => ~shifted

Types == SourceTypes /\ DestTypes /\ StoreTypes /\ RunTypes /\ RestTypes /\ Shape

-----------------------------------------------------------------------------
(* The numberings *)

\* What the fence keeps is of one numbering of the source, and a run that has
\* passed it goes on with the numberings it saw.
Numberings ==
    /\ folder.src <= srcVal /\ folder.dst <= dstVal
    /\ folder.dst = 0 => folder.src = 0
    /\ folder.src = 0 => Recorded = {} /\ folder.mark = 0 /\ folder.deleted = 0
    /\ \A m \in Recorded :
          /\ row[m].src = folder.src /\ row[m].dst <= dstVal
          /\ row[m].state = "done" => folder.dst <= row[m].dst
    /\ phase \notin {"idle", "planned"} => p.src = folder.src
    /\ phase \in Going => folder.src # 0
    /\ phase \in {"dedupe", "remove", "finish"} /\ "alone" \notin opts => folder.src # 0
    /\ phase \in Open => p.dst = folder.dst /\ (shifted <=> p.dst # dstVal)
    /\ phase \in Going /\ ~shifted => folder.dst = dstVal

\* No claim of this numbering is above the next UID.
BelowNext == \A m \in Recorded : row[m].dst = dstVal => row[m].uid < nextUID

\* A message that has yet to arrive has left no trace, one that was found gone
\* does not come back, and no modification is later than the last.
Seen ==
    /\ \A m \in Msgs : changed[m] \in 1..modseq
    /\ \A m \in Msgs \ listed : changed[m] = 1 => m \notin Recorded /\ m \notin p.live
    /\ \A m \in listed \cap Recorded : row[m].state # "gone"
    /\ Recorded \cap Excluded = {}

\* What a run copies is what it listed, not settled yet, and each message is in
\* one place.
Copying ==
    /\ todo \cup bodies \cup dupes \subseteq p.live
    /\ todo \cap (Excluded \cup dupes) = {}
    /\ \A m \in todo \cap Recorded : row[m].state \notin {"done", "gone"}
    /\ \A s \in bodies : s \in Recorded /\ row[s].state = "done" /\ (~shifted => row[s].dst = p.dst)
    /\ \A m \in dupes : /\ m \in Recorded /\ row[m].state = "in_flight"
                        /\ \E s \in bodies : Content[s] = Content[m]
    /\ phase \in Going \ {"opened", "recovered", "verified"} => Recorded \cap listed \subseteq p.live

\* An entry of the index names what is there, or was until others removed it.
IndexTrue ==
    ~shifted => \A e \in index :
        /\ e.uid \in UIDs \cup removed /\ e.uid < nextUID
        /\ e.uid \in UIDs => box[e.uid].content = e.content

Base == Types /\ Numberings /\ BelowNext /\ IndexTrue /\ Seen /\ Copying

-----------------------------------------------------------------------------
(* Claims *)

BodiesHonoured ==
    ~shifted => \A s \in bodies : row[s].uid \in UIDs \cup removed

\* The rows in memory are those of the database, but for repeats settled since.
MirrorTrue ==
    phase = "store" =>
        /\ \A r \in mirror.rows : r.msg \in Mirrored(p.src, p.dst) /\ row[r.msg].uid = r.uid
        /\ \A m \in Mirrored(p.src, p.dst) : \E r \in mirror.rows :
              r.uid = row[m].uid /\ (r.msg = m \/ {m, r.msg} \subseteq p.live)
        /\ \A c \in changes : c.msg \in Mirrored(p.src, p.dst) /\ row[c.msg].uid = c.uid

\* What is condemned is claimed by nothing that the source still holds.
DoomedUnclaimed ==
    /\ phase = "expunge" /\ ~shifted =>
          \A v \in doomed : \A m \in Claims \cap listed : row[m].uid # v.uid
    /\ phase \in {"expunge", "forget"} => \A v \in doomed : v.src \notin p.live
    /\ phase = "remove" /\ ~shifted => \A v \in doomed : \A m \in Claims : row[m].uid # v.uid

ClaimInv == ClaimsHonoured /\ BodiesHonoured /\ MirrorTrue /\ DoomedUnclaimed

-----------------------------------------------------------------------------
(* Adoption *)

\* No row claims what the index still offers, and it offers each copy once.
IndexFree ==
    /\ \A e \in index : e.uid \notin ClaimedDestUIDs(p.dst)
    /\ \A e, f \in index : e.uid = f.uid => e = f

-----------------------------------------------------------------------------
(* Deletion *)

\* A claim names a message of the same identity.
ClaimsAlike ==
    \A m \in Claims : row[m].uid \in UIDs =>
        Identity[box[row[m].uid].content] = Identity[Content[m]]

\* Unless something failed, what the run has listed and not still to do is claimed.
AllClaimed ==
    phase \in {"copy", "store", "expunge"} /\ ~failed /\ ~shifted =>
        (p.live \cap listed) \ (Excluded \cup todo \cup dupes) \subseteq Claims
NoFailure == phase = "expunge" => ~failed

\* A duplicate goes only while an identical message stays.
TwinStays ==
    phase = "remove" /\ ~shifted => \A u \in Copies(doomed) :
        /\ u < nextUID
        /\ removed = {} /\ u \in UIDs =>
              \E w \in UIDs \ Copies(doomed) : box[w].content = box[u].content

SpareInv == ClaimsAlike /\ AllClaimed /\ NoFailure /\ TwinStays

-----------------------------------------------------------------------------
(* What is owed *)

\* Nothing happened to the source since the run selected it.
Still == p.src = srcVal /\ p.modseq = modseq

Watermarks ==
    /\ folder.src = srcVal => folder.mark <= modseq /\ folder.deleted <= modseq
    /\ phase \notin {"idle", "planned"} /\ p.src = srcVal => p.modseq <= modseq
    /\ phase \in Going =>
          folder.mark <= p.modseq /\ folder.deleted <= p.modseq /\ p.since = folder.mark
    /\ phase \in {"dedupe", "remove", "finish"} =>
          \/ "alone" \in opts /\ p.modseq = 0
          \/ folder.mark <= p.modseq /\ folder.deleted <= p.modseq

\* Each claim of what is gone is on a copy shared with what is not, or on none.
Cleared ==
    \A m \in Claims \ listed :
        row[m].uid \in UIDs => \E n \in Claims \cap listed : row[n].uid = row[m].uid

Owed ==
    /\ folder.deleted = modseq /\ folder.src = srcVal => Cleared
    /\ phase \notin {"idle", "planned", "opened", "recovered", "verified"} /\ Still =>
          /\ p.live = listed
    /\ phase \notin {"idle", "planned"} /\ Still /\ shifted => Claims \subseteq listed
    /\ phase = "expunge" /\ Still =>
          \A m \in Claims \ listed : row[m].uid \in UIDs =>
              \/ row[m].uid \in Copies(doomed)
              \/ \E n \in Claims \cap listed : row[n].uid = row[m].uid
    /\ phase \in {"forget", "dedupe", "remove", "finish"} /\ "delete2" \in opts
       /\ ~failed /\ ~refused /\ Still => Cleared

-----------------------------------------------------------------------------
(* The fast path *)

\* A renumbered destination is not the one the fence saw.
ShiftedApart == shifted => folder.dst # dstVal

\* A run that left nothing out, leaves nothing out.
Unfiltered ==
    phase \notin {"idle", "planned", "opened", "recovered", "verified"} /\ ~p.filtered
        => p.live \cap Excluded = {}

\* What the watermark stands for is claimed; what a run that did not fail is about
\* to record, it has claimed.
MarkCovers ==
    folder.mark = modseq /\ folder.src = srcVal /\ folder.dst = dstVal /\ removed = {}
        => listed \subseteq Claims
RunCovers ==
    phase \in {"forget", "dedupe", "remove", "finish"} /\ ~failed /\ Still
    /\ folder.dst = dstVal /\ removed = {}
        => listed \ Excluded \subseteq Claims

MarkInv == ShiftedApart /\ Unfiltered /\ MarkCovers /\ RunCovers

-----------------------------------------------------------------------------
(* Flags *)

SharedLoose == \A m \in Claims : Shared(m) => row[m].uid \in loose

\* A row has the flags of its copy, unless others changed them.
CopyAsRecorded ==
    \A m \in Claims : row[m].uid \in UIDs \ loose => box[row[m].uid].flag = row[m].flag

Current(m, upto) ==
    row[m].uid \notin loose /\ changed[m] <= upto => row[m].flag = flag[m]

RowsCurrent ==
    /\ folder.src = srcVal => \A m \in Claims \cap listed : Current(m, folder.mark)
    /\ phase \in Open /\ shifted /\ p.src = srcVal =>
          \A m \in Claims \cap listed : Current(m, p.modseq)
    /\ phase = "store" /\ p.src = srcVal =>
          \A c \in changes : c.msg \in listed /\ changed[c.msg] <= p.modseq => c.flag = flag[c.msg]
    /\ phase \in {"store", "expunge", "forget", "dedupe", "remove", "finish"}
       /\ "alone" \notin opts /\ ~failed /\ p.src = srcVal =>
          \A m \in Claims \cap listed :
             (\E c \in changes : c.msg = m) \/ Current(m, p.modseq)

FlagInv == SharedLoose /\ CopyAsRecorded /\ RowsCurrent

-----------------------------------------------------------------------------
(* The preview *)

Foretold == p.calm /\ p.kept /\ p.preview.sure

Calm ==
    p.calm /\ phase # "idle" =>
        /\ ~shifted
        /\ phase = "planned" => p.preview = Preview(opts)
        /\ phase \in Going => Still

\* An unclaimed copy that may be acted on goes, or looks like a message to keep.
StrangersForetold ==
    \A e \in Identifiable(FetchMeta(UIDs \ ClaimedDestUIDs(dstVal))) :
        \/ e.uid \in p.preview.deletes
        \/ \E m \in listed \ Excluded : Identity[Content[m]] = Identity[e.content]

\* The copy of a message that is gone goes, or is shared with one that stays.
VanishedForetold ==
    \A m \in Claims \ listed :
        \/ row[m].uid \in p.preview.deletes
        \/ \E n \in Claims \cap listed : row[n].uid = row[m].uid

AsPlanned ==
    Foretold =>
        /\ phase # "opened"
        /\ phase = "recovered" => p.preview = Preview(opts) /\ p.count = Cardinality(UIDs)
        /\ phase = "verified" => (listed \ Settled(p.src)) \ Excluded \subseteq p.preview.copies
        /\ phase = "copy" => todo \subseteq p.preview.copies
        /\ phase \in {"verified", "copy", "store"} /\ "delete2" \in opts =>
              StrangersForetold /\ VanishedForetold
        /\ phase = "expunge" => Copies(doomed) \subseteq p.preview.deletes

-----------------------------------------------------------------------------
(* Numbers and sets *)

LEMMA MinExists ==
    ASSUME NEW S \in SUBSET Nat, S # {}
    PROVE  \E x \in S : \A y \in S : x <= y
<1>1. IsWellFoundedOn(OpToRel(<,Nat), Nat)
  BY NatLessThanWellFounded
<1>2. PICK x \in S : \A y \in S : ~ (<<y, x>> \in OpToRel(<,Nat))
  BY <1>1, WFMin
<1>3. \A y \in S : ~ (y < x)
  BY <1>2 DEF OpToRel
<1>. QED
  BY <1>3

LEMMA MinIsThere ==
    ASSUME NEW S \in SUBSET Nat, S # {}
    PROVE  Min(S) \in S /\ \A y \in S : Min(S) <= y
  BY MinExists DEF Min

LEMMA MaxIsThere ==
    ASSUME NEW n \in Nat, NEW S \in SUBSET (1..n), S # {}
    PROVE  Max(S) \in S
<1>. DEFINE D == {d \in Nat : \E x \in S : x = n - d}
<1>2. \A x \in S : x \in 1..n /\ n - x \in D
  <2>. TAKE x \in S
  <2>1. x \in 1..n
    OBVIOUS
  <2>2. n - x \in Nat /\ x = n - (n - x)
    BY <2>1
  <2>. QED
    BY <2>1, <2>2
<1>3. D \in SUBSET Nat /\ D # {}
  BY <1>2
<1>. HIDE DEF D
<1>4. PICK d \in D : \A e \in D : d <= e
  BY <1>3, MinExists
<1>5. PICK x \in S : x = n - d
  BY <1>4 DEF D
<1>6. \A y \in S : x >= y
  <2>. TAKE y \in S
  <2>1. d <= n - y /\ d \in Nat /\ y \in 1..n
    BY <1>2, <1>3, <1>4
  <2>. QED
    BY <2>1, <1>5
<1>. QED
  BY <1>5, <1>6 DEF Max

\* The members of a finite set of numbers can be counted up to any of them.
LEMMA NthExists ==
    ASSUME NEW n \in Nat, NEW S \in SUBSET (1..n), NEW i \in 1..Cardinality(S)
    PROVE  \E u \in S : Cardinality({w \in S : w <= u}) = i
<1>. DEFINE Upto(k) == {w \in S : w <= k}
            Enough == {k \in Nat : i <= Cardinality(Upto(k))}
<1>0. S \in SUBSET Nat /\ \A w \in S : w <= n /\ w >= 1 /\ w \in Nat
  OBVIOUS
<1>1. IsFiniteSet(S) /\ Cardinality(S) \in Nat /\ i \in Nat \ {0}
  <2>1. IsFiniteSet(S)
    BY <1>0, FS_BoundedSetOfNaturals
  <2>2. Cardinality(S) \in Nat
    BY <2>1, FS_CardinalityType
  <2>. QED
    BY <2>1, <2>2
<1>2. \A k \in Nat : IsFiniteSet(Upto(k)) /\ Cardinality(Upto(k)) \in Nat
  BY <1>1, FS_Subset, FS_CardinalityType
<1>3. Upto(n) = S /\ Upto(0) = {}
  <2>1. \A w \in S : ~ (w <= 0)
    BY <1>0
  <2>. QED
    BY <1>0, <2>1
<1>4. Enough \in SUBSET Nat /\ n \in Enough
  BY <1>3
<1>5. PICK k \in Enough : \A j \in Enough : k <= j
  BY <1>4, MinExists
<1>6. k # 0
  BY <1>1, <1>3, FS_EmptySet
<1>7. k - 1 \in Nat /\ Cardinality(Upto(k - 1)) < i
  <2>1. k \in Nat /\ k - 1 \in Nat /\ ~ (k <= k - 1)
    BY <1>6
  <2>2. k - 1 \notin Enough
    BY <1>5, <2>1
  <2>3. ~ (i <= Cardinality(Upto(k - 1))) /\ Cardinality(Upto(k - 1)) \in Nat
    BY <1>2, <2>1, <2>2
  <2>. HIDE DEF Upto, Enough
  <2>. QED
    BY <1>1, <2>1, <2>3
<1>8. Upto(k) = IF k \in S THEN Upto(k - 1) \cup {k} ELSE Upto(k - 1)
  <2>1. k \in Nat
    OBVIOUS
  <2>2. \A w \in S : w <= k <=> (w <= k - 1 \/ w = k)
    BY <1>0, <2>1
  <2>. QED
    BY <2>2
<1>9. k \notin Upto(k - 1)
  BY <1>6
<1>. HIDE DEF Upto
<1>10. k \in S
  BY <1>1, <1>2, <1>5, <1>7, <1>8
<1>11. Cardinality(Upto(k)) = Cardinality(Upto(k - 1)) + 1
  BY <1>2, <1>7, <1>8, <1>9, <1>10, FS_AddElement
<1>12. Cardinality(Upto(k)) = i
  BY <1>1, <1>2, <1>5, <1>7, <1>11
<1>. QED
  BY <1>10, <1>12 DEF Upto

LEMMA MsgsAreNobody == IsFiniteSet(Msgs) /\ Nobody \notin Msgs /\ \A m \in Msgs : Content[m] \in Anything
  BY MirrorAssumption DEF MirrorAssumption, Anything, Contents, Range

\* What SEARCH lists besides, or misses, is told by the count.
LEMMA LiveIsListed ==
    ASSUME listed \in SUBSET Msgs, NEW searched \in Searches
    PROVE  AllUIDs(searched) = listed
<1>1. searched \subseteq listed \/ listed \subseteq searched
  BY DEF Searches
<1>2. searched \subseteq Msgs
  BY DEF Searches, Phantoms
<1>3. IsFiniteSet(searched) /\ IsFiniteSet(listed)
  BY <1>2, MsgsAreNobody, FS_Subset
<1>4. Cardinality(listed) = Cardinality(searched) => listed = searched
  BY <1>1, <1>3, FS_Subset
<1>. QED
  BY <1>4 DEF AllUIDs

-----------------------------------------------------------------------------
(* What the operators on the mailbox and the database do *)

LEMMA UIDsCounted ==
    ASSUME DestTypes
    PROVE  /\ IsFiniteSet(UIDs) /\ Cardinality(UIDs) \in Nat /\ UIDs \in SUBSET UIDType
           /\ 0 \notin UIDs /\ nextUID \notin UIDs
<1>1. UIDs \in SUBSET (1..(nextUID - 1)) /\ nextUID - 1 \in Int
  BY DEF DestTypes
<1>2. IsFiniteSet(UIDs)
  <2>1. IsFiniteSet(1..(nextUID - 1))
    BY <1>1, FS_Interval
  <2>. QED
    BY <1>1, <2>1, FS_Subset
<1>. QED
  BY <1>1, <1>2, FS_CardinalityType DEF DestTypes, UIDType

LEMMA Appends ==
    ASSUME DestTypes, NEW c \in Anything, NEW f \in Flags, Append(c, f), UNCHANGED dstVal
    PROVE  /\ DestTypes' /\ UIDs' = UIDs \cup {nextUID} /\ nextUID' = nextUID + 1
           /\ box'[nextUID] = [content |-> c, flag |-> f]
           /\ \A u \in UIDs : box'[u] = box[u] /\ u # nextUID
<1>1. /\ box' = [u \in UIDs \cup {nextUID} |-> IF u = nextUID THEN [content |-> c, flag |-> f] ELSE box[u]]
      /\ nextUID' = nextUID + 1
  BY DEF Append
<1>2. nextUID \notin UIDs /\ nextUID \in Nat \ {0} /\ UIDs \subseteq 1..(nextUID - 1)
  BY UIDsCounted DEF DestTypes
<1>3. \A u \in UIDs : box[u] \in [content : Anything, flag : Flags]
  BY DEF DestTypes
<1>4. [content |-> c, flag |-> f] \in [content : Anything, flag : Flags]
  OBVIOUS
<1>5. DOMAIN box' = UIDs \cup {nextUID}
  BY <1>1
<1>6. box' \in [UIDs \cup {nextUID} -> [content : Anything, flag : Flags]]
  BY <1>1, <1>3, <1>4
<1>. QED
  BY <1>1, <1>2, <1>5, <1>6 DEF DestTypes, UIDs

LEMMA Stores ==
    ASSUME DestTypes, NEW c \in Change4, Stored(c), UNCHANGED <<nextUID, dstVal>>
    PROVE  /\ DestTypes' /\ UIDs' = UIDs
           /\ \A u \in UIDs : /\ box'[u].content = box[u].content
                              /\ u # c.uid => box'[u] = box[u]
                              /\ u = c.uid => box'[u].flag = c.flag
<1>1. box' = [u \in UIDs |-> IF u = c.uid THEN [box[u] EXCEPT !.flag = c.flag] ELSE box[u]]
  BY DEF Stored
<1>2. \A u \in UIDs : box[u] \in [content : Anything, flag : Flags]
  BY DEF DestTypes
<1>3. c.flag \in Flags
  BY DEF Change4
<1>4. \A u \in UIDs : /\ [box[u] EXCEPT !.flag = c.flag] \in [content : Anything, flag : Flags]
                      /\ [box[u] EXCEPT !.flag = c.flag].content = box[u].content
                      /\ [box[u] EXCEPT !.flag = c.flag].flag = c.flag
  BY <1>2, <1>3
<1>5. DOMAIN box' = UIDs /\ box' \in [UIDs -> [content : Anything, flag : Flags]]
  BY <1>1, <1>2, <1>4
<1>. QED
  BY <1>1, <1>4, <1>5 DEF DestTypes, UIDs

LEMMA Removes ==
    ASSUME DestTypes, NEW uids, Remove(uids), UNCHANGED <<nextUID, dstVal>>
    PROVE  /\ DestTypes' /\ UIDs' = UIDs \ uids
           /\ \A u \in UIDs' : box'[u] = box[u]
<1>1. box' = [u \in UIDs \ uids |-> box[u]]
  BY DEF Remove, Restrict
<1>2. \A u \in UIDs : box[u] \in [content : Anything, flag : Flags]
  BY DEF DestTypes
<1>3. DOMAIN box' = UIDs \ uids /\ box' \in [UIDs \ uids -> [content : Anything, flag : Flags]]
  BY <1>1, <1>2
<1>. QED
  BY <1>1, <1>3 DEF DestTypes, UIDs

LEMMA Writes ==
    ASSUME StoreTypes, NEW m \in Msgs, NEW r \in RowType, Write(m, r), UNCHANGED folder,
           r.state = "done" <=> r.uid # Nobody
    PROVE  /\ StoreTypes' /\ Recorded' = Recorded \cup {m} /\ row'[m] = r
           /\ \A n \in Recorded \ {m} : row'[n] = row[n]
<1>1. row' = [n \in Recorded \cup {m} |-> IF n = m THEN r ELSE row[n]]
  BY DEF Write
<1>2. \A n \in Recorded : row[n] \in RowType
  BY DEF StoreTypes
<1>3. DOMAIN row' = Recorded \cup {m} /\ row' \in [Recorded \cup {m} -> RowType]
  BY <1>1, <1>2
<1>. QED
  BY <1>1, <1>3 DEF StoreTypes, Recorded

LEMMA Drops ==
    ASSUME StoreTypes, NEW S, row' = Restrict(row, Recorded \ S), UNCHANGED folder
    PROVE  /\ StoreTypes' /\ Recorded' = Recorded \ S
           /\ \A n \in Recorded' : row'[n] = row[n]
<1>1. row' = [n \in Recorded \ S |-> row[n]]
  BY DEF Restrict
<1>2. \A n \in Recorded : row[n] \in RowType
  BY DEF StoreTypes
<1>3. DOMAIN row' = Recorded \ S /\ row' \in [Recorded \ S -> RowType]
  BY <1>1, <1>2
<1>. QED
  BY <1>1, <1>3 DEF StoreTypes, Recorded

\* Rows rewritten one by one.
LEMMA Rewrites ==
    ASSUME StoreTypes, NEW next, row' = [m \in Recorded |-> next[m]], UNCHANGED folder,
           \A m \in Recorded : /\ next[m] \in RowType
                               /\ next[m].state = "done" <=> next[m].uid # Nobody
    PROVE  StoreTypes' /\ Recorded' = Recorded /\ \A m \in Recorded : row'[m] = next[m]
<1>3. DOMAIN row' = Recorded /\ row' \in [Recorded -> RowType]
  OBVIOUS
<1>. QED
  BY <1>3 DEF StoreTypes, Recorded

-----------------------------------------------------------------------------
(* Types *)

LEMMA InitTypes == Init => Types
<1>. SUFFICES ASSUME Init PROVE Types
  OBVIOUS
<1>1. SourceTypes
  BY MirrorAssumption DEF Init, SourceTypes, MirrorAssumption, Flags
<1>2. DestTypes
  <2>. DEFINE n == Cardinality(DOMAIN Leftover)
  <2>1. n \in Nat /\ DOMAIN Leftover = 1..n
    BY MirrorAssumption, FS_CardinalityType DEF MirrorAssumption
  <2>2. nextUID = 1 + n /\ dstVal = 1 /\ UIDs = 1..n /\ nextUID - 1 = n
    BY <2>1 DEF Init, UIDs
  <2>3. \A u \in DOMAIN Leftover : Leftover[u] \in Anything
    BY DEF Anything, Range
  <2>4. box \in [UIDs -> [content : Anything, flag : Flags]]
    BY <2>3 DEF Init, UIDs, Flags
  <2>. HIDE DEF n
  <2>. QED
    BY <2>1, <2>2, <2>4 DEF DestTypes
<1>3. StoreTypes
  BY DEF Init, StoreTypes, Recorded, NoFolder, FolderType
<1>4. RunTypes
  BY DEF Init, RunTypes, Phases, NotPrepared, PreparedType, PreviewType, Unread
<1>5. RestTypes /\ Shape
  BY MirrorAssumption DEF Init, RestTypes, Shape, MirrorAssumption, Unread, Open
<1>. QED
  BY <1>1, <1>2, <1>3, <1>4, <1>5 DEF Types

\* A run that ends leaves nothing in memory.
LEMMA RunOver ==
    ASSUME NoRun
    PROVE  /\ RunTypes' /\ phase' = "idle" /\ ~mirror'.loaded /\ p' = NotPrepared
           /\ todo' = {} /\ index' = {} /\ bodies' = {} /\ dupes' = {} /\ changes' = {} /\ doomed' = {}
  BY DEF NoRun, RunTypes, Phases, NotPrepared, PreparedType, PreviewType, Unread

\* Others leave the run alone, but for what it may believe.
LEMMA OthersRun ==
    ASSUME RunTypes, Meanwhile
    PROVE  /\ RunTypes'
           /\ UNCHANGED <<phase, opts, todo, index, bodies, dupes, mirror, changes, doomed,
                          failed, refused>>
           /\ p'.src = p.src /\ p'.modseq = p.modseq /\ p'.dst = p.dst /\ p'.since = p.since
           /\ p'.kept = p.kept /\ p'.live = p.live /\ p'.preview = p.preview
           /\ p'.filtered = p.filtered
           /\ phase # "idle" => ~p'.calm
           /\ phase = "idle" => p' = p
<1>1. CASE phase = "idle"
  BY <1>1 DEF Meanwhile, RunTypes
<1>2. CASE phase # "idle"
  <2>1. p' = [p EXCEPT !.calm = FALSE]
    BY <1>2 DEF Meanwhile
  <2>2. p \in PreparedType
    BY DEF RunTypes
  <2>3. p' \in PreparedType /\ p'.src = p.src /\ p'.modseq = p.modseq /\ p'.dst = p.dst
        /\ p'.since = p.since /\ p'.kept = p.kept /\ p'.live = p.live /\ p'.preview = p.preview
        /\ ~p'.calm /\ p'.filtered = p.filtered
    BY <2>1, <2>2 DEF PreparedType
  <2>. QED
    BY <1>2, <2>3 DEF Meanwhile, RunTypes
<1>. QED
  BY <1>1, <1>2

SourceStep == RenumberSource \/ \E m \in Msgs : Arrive(m) \/ ExpungeSource(m) \/ Reflag(m)

\* What others do to the source.
LEMMA SourceSteps ==
    ASSUME Types, SourceStep
    PROVE  /\ Types' /\ Meanwhile /\ UNCHANGED <<dest, store, history>>
           /\ \/ srcVal' = srcVal + 1 /\ modseq' = 2 /\ listed' = listed
                 /\ \A m \in Msgs : changed'[m] = 2
              \/ /\ srcVal' = srcVal /\ modseq' = modseq + 1
                 /\ \E m \in Msgs :
                       /\ changed'[m] = modseq + 1
                       /\ \A n \in Msgs \ {m} : changed'[n] = changed[n] /\ flag'[n] = flag[n]
                       /\ \/ m \notin listed /\ changed[m] = 1 /\ listed' = listed \cup {m}
                          \/ m \in listed /\ listed' \in {listed, listed \ {m}}
<1>1. Meanwhile /\ Trouble /\ UNCHANGED <<dest, store, history>>
  BY DEF SourceStep, RenumberSource, Arrive, ExpungeSource, Reflag, Change
<1>2. RunTypes' /\ StoreTypes' /\ DestTypes'
  BY <1>1, OthersRun DEF Types, dest, store, DestTypes, StoreTypes, UIDs, Recorded
<1>3. RestTypes' /\ Shape'
  BY <1>1, OthersRun DEF Types, Trouble, history, RestTypes, Shape
<1>4. SourceTypes
  BY DEF Types
<1>5. CASE RenumberSource
  <2>1. SourceTypes' /\ srcVal' = srcVal + 1 /\ modseq' = 2 /\ listed' = listed
        /\ \A m \in Msgs : changed'[m] = 2
    BY <1>4, <1>5 DEF RenumberSource, SourceTypes
  <2>. QED
    BY <1>1, <1>2, <1>3, <2>1 DEF Types
<1>6. ASSUME NEW m \in Msgs, Arrive(m) \/ ExpungeSource(m) \/ Reflag(m)
      PROVE  /\ SourceTypes' /\ srcVal' = srcVal /\ modseq' = modseq + 1
             /\ changed'[m] = modseq + 1
             /\ \A n \in Msgs \ {m} : changed'[n] = changed[n] /\ flag'[n] = flag[n]
             /\ \/ m \notin listed /\ changed[m] = 1 /\ listed' = listed \cup {m}
                \/ m \in listed /\ listed' \in {listed, listed \ {m}}
  <2>1. CASE Arrive(m)
    BY <1>4, <2>1 DEF Arrive, SourceTypes
  <2>2. CASE ExpungeSource(m)
    BY <1>4, <2>2 DEF ExpungeSource, SourceTypes
  <2>3. CASE Reflag(m)
    BY <1>4, <2>3 DEF Reflag, SourceTypes, Flags
  <2>. QED
    BY <1>6, <2>1, <2>2, <2>3
<1>7. CASE \E m \in Msgs : Arrive(m) \/ ExpungeSource(m) \/ Reflag(m)
  BY <1>1, <1>2, <1>3, <1>6, <1>7 DEF Types
<1>. QED
  BY <1>5, <1>7 DEF SourceStep

RenumberStep == RenumberDest \/ RecreateDest

\* The destination comes back under new numbers.
LEMMA RenumberSteps ==
    ASSUME Types, RenumberStep
    PROVE  /\ Types' /\ Meanwhile /\ UNCHANGED <<source, store, torn>>
           /\ dstVal' = dstVal + 1 /\ removed' = {} /\ loose' = {}
           /\ shifted' = (phase \notin {"idle", "planned"})
<1>1. /\ Meanwhile /\ Trouble /\ UNCHANGED <<source, store, torn>>
      /\ dstVal' = dstVal + 1 /\ removed' = {} /\ loose' = {}
      /\ shifted' = (phase \notin {"idle", "planned"})
  BY DEF RenumberStep, RenumberDest, RecreateDest, Renumbered, Edit
<1>2. RunTypes' /\ StoreTypes' /\ SourceTypes'
  BY <1>1, OthersRun DEF Types, source, store, SourceTypes, StoreTypes, Recorded
<1>3. RestTypes' /\ Shape'
  BY <1>1, OthersRun DEF Types, Trouble, RestTypes, Shape
<1>4. DestTypes'
  <2>0. DestTypes /\ dstVal' \in Nat \ {0}
    BY <1>1 DEF Types, DestTypes
  <2>1. CASE RecreateDest
    BY <2>0, <2>1 DEF RecreateDest, DestTypes, UIDs
  <2>2. CASE RenumberDest
    <3>. DEFINE n == Cardinality(UIDs)
                nth(i) == CHOOSE u \in UIDs : Cardinality({w \in UIDs : w <= u}) = i
    <3>1. n \in Nat /\ UIDs \in SUBSET (1..(nextUID - 1)) /\ nextUID - 1 \in Nat
      BY <2>0, UIDsCounted DEF DestTypes
    <3>2. \A i \in 1..n : \E u \in UIDs : Cardinality({w \in UIDs : w <= u}) = i
      BY <3>1, NthExists
    <3>3. \A i \in 1..n : nth(i) \in UIDs
      BY <3>2
    <3>4. box' = [i \in 1..n |-> box[nth(i)]] /\ nextUID' = 1 + n
      BY <2>2 DEF RenumberDest
    <3>5. \A i \in 1..n : box[nth(i)] \in [content : Anything, flag : Flags]
      BY <2>0, <3>3 DEF DestTypes
    <3>. HIDE DEF nth, n
    <3>6. DOMAIN box' = 1..n /\ box' \in [1..n -> [content : Anything, flag : Flags]]
      BY <3>4, <3>5
    <3>. QED
      BY <2>0, <3>1, <3>4, <3>6 DEF DestTypes, UIDs
  <2>. QED
    BY <2>1, <2>2 DEF RenumberStep
<1>. QED
  BY <1>1, <1>2, <1>3, <1>4 DEF Types

EditStep ==
    \/ \E c \in Strangers : AddStranger(c)
    \/ \E u \in UIDs : RemoveCopy(u) \/ ReflagCopy(u)

\* What others do to the destination.
LEMMA EditSteps ==
    ASSUME Types, EditStep
    PROVE  /\ Types' /\ Meanwhile /\ UNCHANGED <<source, store, shifted, torn, dstVal>>
           /\ \/ /\ UIDs' = UIDs \cup {nextUID} /\ nextUID' = nextUID + 1
                 /\ \A u \in UIDs : box'[u] = box[u] /\ u # nextUID
                 /\ UNCHANGED <<removed, loose>>
                 /\ box'[nextUID].content \in Strangers
              \/ /\ nextUID' = nextUID
                 /\ \E u \in UIDs :
                       /\ \/ UIDs' = UIDs \ {u} /\ removed' = removed \cup {u} /\ loose' = loose
                          \/ UIDs' = UIDs /\ removed' = removed /\ loose' = loose \cup {u}
                       /\ \A w \in UIDs' : /\ box'[w].content = box[w].content
                                           /\ w # u => box'[w] = box[w]
<1>1. Meanwhile /\ Trouble /\ UNCHANGED <<source, store, shifted, torn, dstVal>>
  BY DEF EditStep, AddStranger, RemoveCopy, ReflagCopy, Edit
<1>2. RunTypes' /\ StoreTypes' /\ SourceTypes' /\ Shape'
  BY <1>1, OthersRun DEF Types, source, store, SourceTypes, StoreTypes, Recorded, Shape
<1>3. DestTypes /\ \A u \in UIDs : u \in Nat
  BY UIDsCounted DEF Types, UIDType
<1>4. ASSUME NEW c \in Strangers, AddStranger(c)
      PROVE  /\ DestTypes' /\ UIDs' = UIDs \cup {nextUID} /\ nextUID' = nextUID + 1
             /\ \A u \in UIDs : box'[u] = box[u] /\ u # nextUID
             /\ UNCHANGED <<removed, loose>>
             /\ box'[nextUID].content = c
  <2>1. Append(c, 0) /\ UNCHANGED <<dstVal, removed, loose>> /\ c \in Anything /\ 0 \in Flags
    BY <1>4 DEF AddStranger, Anything, Flags
  <2>2. /\ DestTypes' /\ UIDs' = UIDs \cup {nextUID} /\ nextUID' = nextUID + 1
        /\ box'[nextUID] = [content |-> c, flag |-> 0]
        /\ \A u \in UIDs : box'[u] = box[u] /\ u # nextUID
    BY <1>3, <2>1, Appends
  <2>. QED
    BY <2>1, <2>2
<1>5. ASSUME NEW u \in UIDs, RemoveCopy(u)
      PROVE  /\ DestTypes' /\ UIDs' = UIDs \ {u} /\ removed' = removed \cup {u} /\ UNCHANGED <<loose, nextUID>>
             /\ \A w \in UIDs' : box'[w] = box[w]
  BY <1>1, <1>3, <1>5, Removes DEF RemoveCopy
<1>6. ASSUME NEW u \in UIDs, ReflagCopy(u)
      PROVE  /\ DestTypes' /\ UIDs' = UIDs /\ loose' = loose \cup {u} /\ UNCHANGED <<removed, nextUID>>
             /\ \A w \in UIDs' : /\ box'[w].content = box[w].content
                                 /\ w # u => box'[w] = box[w]
  <2>1. box' = [box EXCEPT ![u].flag = 1 - @] /\ UNCHANGED <<removed, nextUID>> /\ loose' = loose \cup {u}
    BY <1>6 DEF ReflagCopy
  <2>2. \A w \in UIDs : box[w] \in [content : Anything, flag : Flags]
    BY <1>3 DEF DestTypes
  <2>3. 1 - box[u].flag \in Flags
    BY <2>2 DEF Flags
  <2>4. DOMAIN box' = UIDs /\ \A w \in UIDs : w # u => box'[w] = box[w]
    BY <2>1 DEF UIDs
  <2>5. box'[u] = [box[u] EXCEPT !.flag = 1 - @]
    BY <2>1 DEF UIDs
  <2>6. box'[u].content = box[u].content /\ box'[u] \in [content : Anything, flag : Flags]
    BY <2>2, <2>3, <2>5
  <2>7. box' \in [UIDs -> [content : Anything, flag : Flags]]
    <3>1. \A w \in UIDs : box'[w] \in [content : Anything, flag : Flags]
      BY <2>2, <2>4, <2>6
    <3>2. box' = [w \in UIDs |-> box'[w]]
      BY <2>1, <2>4 DEF UIDs
    <3>. QED
      BY <3>1, <3>2
  <2>. QED
    BY <1>1, <1>3, <2>1, <2>4, <2>6, <2>7 DEF DestTypes, UIDs
<1>7. /\ DestTypes'
      /\ \/ /\ UIDs' = UIDs \cup {nextUID} /\ nextUID' = nextUID + 1
            /\ \A u \in UIDs : box'[u] = box[u] /\ u # nextUID
            /\ UNCHANGED <<removed, loose>>
            /\ box'[nextUID].content \in Strangers
         \/ /\ nextUID' = nextUID
            /\ \E u \in UIDs :
                  /\ \/ UIDs' = UIDs \ {u} /\ removed' = removed \cup {u} /\ loose' = loose
                     \/ UIDs' = UIDs /\ removed' = removed /\ loose' = loose \cup {u}
                  /\ \A w \in UIDs' : /\ box'[w].content = box[w].content
                                      /\ w # u => box'[w] = box[w]
  BY <1>4, <1>5, <1>6 DEF EditStep
<1>8. RestTypes'
  <2>1. RestTypes /\ budget' = budget - 1 /\ budget > 0 /\ shifted' = shifted /\ torn' = torn
    BY <1>1 DEF Types, Trouble
  <2>2. removed' \subseteq Nat /\ loose' \subseteq Nat
    BY <1>3, <1>7, <2>1 DEF RestTypes
  <2>. QED
    BY <2>1, <2>2 DEF RestTypes
<1>. QED
  BY <1>1, <1>2, <1>7, <1>8 DEF Types

LEMMA RowsTyped ==
    ASSUME StoreTypes, NEW s, NEW d
    PROVE  /\ MirrorRows(s, d) \subseteq MirrorRow /\ Mirrored(s, d) \subseteq Recorded
           /\ \A m \in Recorded : /\ row[m] \in RowType /\ row[m].uid \in Nat
                                  /\ row[m].state = "done" => row[m].uid \in UIDType
           /\ \A r \in MirrorRows(s, d) :
                 r.msg \in Mirrored(s, d) /\ r.uid = row[r.msg].uid /\ r.flag = row[r.msg].flag
           /\ \A m \in Mirrored(s, d) : \E r \in MirrorRows(s, d) :
                 r.msg = m /\ r.uid = row[m].uid /\ r.flag = row[m].flag
<1>1. \A m \in Recorded : /\ row[m] \in RowType /\ row[m].uid \in Nat /\ row[m].flag \in Flags
                          /\ row[m].state = "done" => row[m].uid \in UIDType
  BY DEF StoreTypes, RowType, UIDType, Nobody
<1>2. Mirrored(s, d) \subseteq Recorded /\ \A m \in Mirrored(s, d) : row[m].state = "done" /\ m \in Msgs
  BY DEF Mirrored, StoreTypes
<1>3. \A m \in Mirrored(s, d) :
        [msg |-> m, uid |-> row[m].uid, flag |-> row[m].flag] \in MirrorRow
  BY <1>1, <1>2 DEF MirrorRow
<1>4. \A r \in MirrorRows(s, d) : \E m \in Mirrored(s, d) :
        r = [msg |-> m, uid |-> row[m].uid, flag |-> row[m].flag]
  BY DEF MirrorRows
<1>5. \A m \in Mirrored(s, d) :
        [msg |-> m, uid |-> row[m].uid, flag |-> row[m].flag] \in MirrorRows(s, d)
  BY DEF MirrorRows
<1>6. MirrorRows(s, d) \subseteq MirrorRow
  BY <1>3, <1>4
<1>7. \A r \in MirrorRows(s, d) :
         r.msg \in Mirrored(s, d) /\ r.uid = row[r.msg].uid /\ r.flag = row[r.msg].flag
  BY <1>4
<1>8. \A m \in Mirrored(s, d) : \E r \in MirrorRows(s, d) :
         r.msg = m /\ r.uid = row[m].uid /\ r.flag = row[m].flag
  BY <1>5
<1>. QED
  BY <1>1, <1>2, <1>6, <1>7, <1>8

\* What may be condemned: copies of what is gone, and what no row names.
LEMMA CondemnedAre ==
    ASSUME Types, NEW rows \in SUBSET MirrorRow, NEW s, NEW live
    PROVE  /\ Condemned(rows, s, live) \subseteq Victim
           /\ \A v \in Condemned(rows, s, live) :
                 \/ /\ \E r \in rows : r.uid = v.uid /\ r.msg = v.src
                    /\ \A r \in rows : r.uid = v.uid => r.msg \notin live
                 \/ /\ v.src = Nobody /\ v.uid \in UIDs \ ClaimedDestUIDs(dstVal)
                    /\ Identity[box[v.uid].content] \notin Weak \cup SourceIdents(s, live)
<1>1. \A v \in Vanished(rows, live) :
         /\ v \in Victim /\ \E r \in rows : r.uid = v.uid /\ r.msg = v.src
         /\ \A r \in rows : r.uid = v.uid => r.msg \notin live
  BY DEF Vanished, EveryNomination, Victim, MirrorRow
<1>2. \A v \in Unrecorded(SourceIdents(s, live)) :
         /\ v \in Victim /\ v.src = Nobody /\ v.uid \in UIDs \ ClaimedDestUIDs(dstVal)
         /\ Identity[box[v.uid].content] \notin Weak \cup SourceIdents(s, live)
  <2>1. UIDs \subseteq UIDType
    BY UIDsCounted DEF Types
  <2>2. \A x \in Identifiable(FetchMeta(UIDs \ ClaimedDestUIDs(dstVal))) :
           x.uid \in UIDs \ ClaimedDestUIDs(dstVal) /\ x.content = box[x.uid].content
           /\ Identity[x.content] \notin Weak
    BY DEF Identifiable, FetchMeta
  <2>. QED
    BY <2>1, <2>2 DEF Unrecorded, Victim
<1>. QED
  BY <1>1, <1>2 DEF Condemned

LEMMA PreviewTyped ==
    ASSUME Types, NEW o
    PROVE  Preview(o) \in PreviewType
<1>1. PreviewFiltered(listed \ (Settled(srcVal) \ PreviewMissing(o))) \in SUBSET Msgs
  BY DEF PreviewFiltered, Types, SourceTypes
<1>2. PreviewDeletes(o) \in SUBSET Nat
  <2>1. MirrorRows(srcVal, dstVal) \in SUBSET MirrorRow
    BY RowsTyped DEF Types
  <2>2. Condemned(MirrorRows(srcVal, dstVal), srcVal, listed) \subseteq Victim
    BY <2>1, CondemnedAre
  <2>. QED
    BY <2>2 DEF PreviewDeletes, Copies, Victim, UIDType
<1>3. (InFlight = {}) \in BOOLEAN
  OBVIOUS
<1>. QED
  BY <1>1, <1>2, <1>3 DEF Preview, PreviewType

\* A run begins.
LEMMA Plans ==
    ASSUME Types, NEW o, NEW known \in BOOLEAN, Plan(o, known)
    PROVE  /\ Types' /\ phase' = "planned" /\ opts' = o
           /\ p'.preview = Preview(o) /\ p'.calm /\ p'.live = {}
           /\ UNCHANGED <<source, dest, store, todo, index, bodies, dupes, mirror, changes,
                          doomed, failed, refused, budget, history>>
<1>1. /\ phase = "idle" /\ phase' = "planned" /\ opts' = o
      /\ p' = [NotPrepared EXCEPT !.dst = dstVal, !.count = Cardinality(UIDs), !.known = known,
                                  !.preview = Preview(o)]
      /\ UNCHANGED <<source, dest, store, todo, index, bodies, dupes, mirror, changes,
                     doomed, failed, refused, budget, history>>
  BY DEF Plan
<1>2. dstVal \in Nat /\ Cardinality(UIDs) \in Nat /\ Preview(o) \in PreviewType
  BY UIDsCounted, PreviewTyped DEF Types, DestTypes
<1>3. p' \in PreparedType /\ p'.preview = Preview(o) /\ p'.calm /\ p'.live = {}
  BY <1>1, <1>2 DEF NotPrepared, PreparedType, PreviewType
<1>4. RunTypes'
  BY <1>1, <1>3 DEF Types, RunTypes, Phases
<1>5. SourceTypes' /\ DestTypes' /\ StoreTypes' /\ RestTypes'
  BY <1>1 DEF Types, source, dest, store, history, SourceTypes, DestTypes, StoreTypes, RestTypes,
     UIDs, Recorded
<1>6. Shape'
  BY <1>1 DEF Types, history, Shape, Open
<1>. QED
  BY <1>1, <1>3, <1>4, <1>5, <1>6 DEF Types

\* The dedup command looks at the destination alone.
LEMMA Dedups ==
    ASSUME Types, Dedup
    PROVE  /\ Types' /\ phase' = "dedupe" /\ "alone" \in opts' /\ "delete2" \notin opts'
           /\ p'.src = folder.src /\ p'.modseq = 0 /\ p'.live = {} /\ p'.calm /\ p'.kept
           /\ UNCHANGED <<source, dest, store, todo, index, bodies, dupes, mirror, changes,
                          doomed, failed, refused, budget, history>>
<1>1. /\ phase = "idle" /\ phase' = "dedupe" /\ opts' = {"dedupe", "alone"}
      /\ p' = SelectDest([NotPrepared EXCEPT !.src = folder.src])
      /\ UNCHANGED <<source, dest, store, todo, index, bodies, dupes, mirror, changes,
                     doomed, failed, refused, budget, history>>
  BY DEF Dedup
<1>2. dstVal \in Nat /\ Cardinality(UIDs) \in Nat /\ folder.src \in Nat
  BY UIDsCounted DEF Types, DestTypes, StoreTypes, FolderType
<1>3. p' \in PreparedType /\ p'.src = folder.src /\ p'.modseq = 0 /\ p'.live = {} /\ p'.calm /\ p'.kept
  BY <1>1, <1>2 DEF NotPrepared, SelectDest, PreparedType, PreviewType
<1>4. RunTypes'
  BY <1>1, <1>3 DEF Types, RunTypes, Phases
<1>5. SourceTypes' /\ DestTypes' /\ StoreTypes' /\ RestTypes'
  BY <1>1 DEF Types, source, dest, store, history, SourceTypes, DestTypes, StoreTypes, RestTypes,
     UIDs, Recorded
<1>6. Shape'
  BY <1>1 DEF Types, history, Shape, Open
<1>. QED
  BY <1>1, <1>3, <1>4, <1>5, <1>6 DEF Types

EndStep ==
    \/ SkipFolder \/ RunStops \/ CopyStops \/ MarkSynced \/ DedupEnds
    \/ \E c \in changes : StoreThenStops(c)

\* However a run ends, it leaves the rows as they are.
LEMMA EndSteps ==
    ASSUME Types, EndStep
    PROVE  /\ Types' /\ NoRun /\ phase # "idle" /\ ~shifted'
           /\ UNCHANGED <<source, nextUID, dstVal, row, removed>>
           /\ UIDs' = UIDs /\ \A u \in UIDs : box'[u].content = box[u].content
           /\ loose \subseteq loose' /\ \A u \in UIDs \ loose' : box'[u] = box[u]
           /\ \/ folder' = folder
              \/ /\ phase = "finish" /\ "alone" \notin opts
                 /\ folder'.src = folder.src /\ folder'.dst = folder.dst
                 /\ folder'.mark = NewMark /\ folder'.deleted = DeletedThrough
<1>1. NoRun /\ phase # "idle" /\ shifted' = FALSE /\ UNCHANGED <<source, nextUID, dstVal, row, removed>>
  BY DEF EndStep, SkipFolder, RunStops, CopyStops, MarkSynced, DedupEnds, StoreThenStops, dest, store
<1>2. folder' \in FolderType
      /\ \/ folder' = folder
         \/ /\ phase = "finish" /\ "alone" \notin opts
            /\ folder'.src = folder.src /\ folder'.dst = folder.dst
            /\ folder'.mark = NewMark /\ folder'.deleted = DeletedThrough
  <2>1. folder \in FolderType /\ p \in PreparedType
    BY DEF Types, StoreTypes, RunTypes
  <2>2. NewMark \in Nat /\ DeletedThrough \in Nat
    BY <2>1 DEF NewMark, DeletedThrough, FolderType, PreparedType
  <2>3. CASE MarkSynced
    BY <2>1, <2>2, <2>3 DEF MarkSynced, FolderType
  <2>4. CASE ~MarkSynced
    BY <2>1, <2>4 DEF EndStep, SkipFolder, RunStops, CopyStops, DedupEnds, StoreThenStops, store
  <2>. QED
    BY <2>3, <2>4
<1>3. /\ DestTypes' /\ UIDs' = UIDs /\ \A u \in UIDs : box'[u].content = box[u].content
      /\ loose \subseteq loose' /\ loose' \subseteq Nat /\ \A u \in UIDs \ loose' : box'[u] = box[u]
  <2>0. DestTypes /\ loose \subseteq Nat /\ \A c \in changes : c \in Change4
    BY DEF Types, RestTypes, RunTypes
  <2>1. ASSUME NEW c \in changes, StoreThenStops(c)
        PROVE  /\ DestTypes' /\ UIDs' = UIDs /\ \A u \in UIDs : box'[u].content = box[u].content
               /\ loose \subseteq loose' /\ loose' \subseteq Nat /\ \A u \in UIDs \ loose' : box'[u] = box[u]
    <3>1. Stored(c) /\ UNCHANGED <<nextUID, dstVal>> /\ loose' = loose \cup {c.uid}
      BY <2>1 DEF StoreThenStops
    <3>2. DestTypes' /\ UIDs' = UIDs
          /\ \A u \in UIDs : box'[u].content = box[u].content /\ (u # c.uid => box'[u] = box[u])
      BY <2>0, <3>1, Stores
    <3>3. c.uid \in Nat
      BY <2>0 DEF Change4, UIDType
    <3>. QED
      BY <2>0, <3>1, <3>2, <3>3
  <2>2. CASE SkipFolder \/ RunStops \/ CopyStops \/ MarkSynced \/ DedupEnds
    <3>1. UNCHANGED <<dest, loose>>
      BY <2>2 DEF SkipFolder, RunStops, CopyStops, MarkSynced, DedupEnds
    <3>. QED
      BY <2>0, <3>1 DEF dest, DestTypes, UIDs
  <2>. QED
    BY <2>1, <2>2 DEF EndStep
<1>4. StoreTypes'
  BY <1>1, <1>2 DEF Types, StoreTypes, Recorded
<1>5. RunTypes' /\ SourceTypes' /\ Shape'
  BY <1>1, RunOver DEF Types, source, SourceTypes, Shape, Open
<1>6. RestTypes'
  <2>1. budget' = budget \/ (budget > 0 /\ budget' = budget - 1)
    BY DEF EndStep, SkipFolder, RunStops, CopyStops, MarkSynced, DedupEnds, StoreThenStops, Trouble
  <2>2. torn' \in BOOLEAN
    BY DEF Types, RestTypes, EndStep, SkipFolder, RunStops, CopyStops, MarkSynced, DedupEnds, StoreThenStops
  <2>3. budget' \in Nat
    BY <2>1 DEF Types, RestTypes
  <2>. QED
    BY <1>1, <1>3, <2>2, <2>3 DEF Types, RestTypes
<1>. QED
  BY <1>1, <1>2, <1>3, <1>4, <1>5, <1>6 DEF Types

\* The fence falls or holds, and both mailboxes are known by their numbers.
LEMMA Prepares ==
    ASSUME Types, Prepare
    PROVE  /\ Types' /\ phase = "planned" /\ ~CanSkip(opts)
           /\ phase' = (IF p'.kept /\ InFlight # {} THEN "opened" ELSE "recovered")
           /\ p'.src = srcVal /\ p'.dst = dstVal /\ p'.modseq = modseq /\ p'.count = Cardinality(UIDs)
           /\ p'.kept = Kept(srcVal, dstVal) /\ p'.since = folder'.mark
           /\ p'.live = p.live /\ p'.calm = p.calm /\ p'.preview = p.preview
           /\ folder'.src = srcVal /\ folder'.dst = dstVal
           /\ p'.kept => row' = row /\ folder'.mark = folder.mark /\ folder'.deleted = folder.deleted
           /\ ~p'.kept => Recorded' = {} /\ folder'.mark = 0 /\ folder'.deleted = 0
           /\ UNCHANGED <<source, dest, opts, todo, index, bodies, dupes, mirror, changes,
                          doomed, failed, refused, budget, history>>
<1>. DEFINE kept == Kept(srcVal, dstVal)
<1>1. /\ phase = "planned" /\ ~CanSkip(opts)
      /\ phase' = IF kept /\ InFlight # {} THEN "opened" ELSE "recovered"
      /\ p' = [SelectDest(p) EXCEPT !.src = srcVal, !.modseq = modseq,
                                    !.kept = kept, !.fresh = ~folder.finished,
                                    !.since = Watermark(kept)]
      /\ row' = IF kept THEN row ELSE [m \in {} |-> 0]
      /\ folder' = [folder EXCEPT !.src = srcVal, !.dst = dstVal,
                                  !.mark = Watermark(kept),
                                  !.deleted = IF kept THEN @ ELSE 0]
      /\ UNCHANGED <<source, dest, opts, todo, index, bodies, dupes, mirror, changes,
                     doomed, failed, refused, budget, history>>
  BY DEF Prepare
<1>2. /\ dstVal \in Nat /\ Cardinality(UIDs) \in Nat /\ srcVal \in Nat /\ modseq \in Nat
      /\ folder \in FolderType /\ p \in PreparedType /\ kept \in BOOLEAN
  BY UIDsCounted DEF Types, DestTypes, SourceTypes, StoreTypes, RunTypes, Kept
<1>3. Watermark(kept) \in Nat
  BY <1>2 DEF Watermark, FolderType
<1>. HIDE DEF kept
<1>4. /\ SelectDest(p) \in PreparedType
      /\ SelectDest(p).live = p.live /\ SelectDest(p).calm = p.calm
      /\ SelectDest(p).preview = p.preview /\ SelectDest(p).dst = dstVal
      /\ SelectDest(p).count = Cardinality(UIDs)
  BY <1>2 DEF SelectDest, PreparedType
<1>5. /\ p' \in PreparedType /\ p'.src = srcVal /\ p'.dst = dstVal /\ p'.modseq = modseq
      /\ p'.count = Cardinality(UIDs)
      /\ p'.kept = kept /\ p'.since = Watermark(kept)
      /\ p'.live = p.live /\ p'.calm = p.calm /\ p'.preview = p.preview
  <2>. DEFINE q == SelectDest(p)
  <2>1. folder.finished \in BOOLEAN
    BY <1>2 DEF FolderType
  <2>2. p' = [q EXCEPT !.src = srcVal, !.modseq = modseq, !.kept = kept, !.fresh = ~folder.finished,
                       !.since = Watermark(kept)]
    BY <1>1
  <2>3. q \in PreparedType
    BY <1>4
  <2>. HIDE DEF q
  <2>4. p' \in PreparedType
    BY <1>2, <1>3, <2>1, <2>2, <2>3 DEF PreparedType
  <2>5. /\ p'.src = srcVal /\ p'.modseq = modseq /\ p'.kept = kept /\ p'.since = Watermark(kept)
        /\ p'.dst = q.dst /\ p'.count = q.count
        /\ p'.live = q.live /\ p'.calm = q.calm /\ p'.preview = q.preview
    BY <2>2, <2>3 DEF PreparedType
  <2>. QED
    BY <1>4, <2>4, <2>5 DEF q
<1>6. /\ folder' \in FolderType /\ folder'.src = srcVal /\ folder'.dst = dstVal
      /\ folder'.mark = Watermark(kept) /\ folder'.deleted = IF kept THEN folder.deleted ELSE 0
  BY <1>1, <1>2, <1>3 DEF FolderType
<1>7. StoreTypes'
  BY <1>1, <1>6 DEF Types, StoreTypes, Recorded
<1>8. RunTypes'
  BY <1>1, <1>5 DEF Types, RunTypes, Phases, Going, Open
<1>9. SourceTypes' /\ DestTypes' /\ RestTypes'
  BY <1>1 DEF Types, source, dest, history, SourceTypes, DestTypes, RestTypes, UIDs
<1>10. Shape'
  BY <1>1 DEF Types, history, Shape, Open
<1>11. Types'
  BY <1>7, <1>8, <1>9, <1>10 DEF Types
<1>12. kept => row' = row /\ folder'.mark = folder.mark /\ folder'.deleted = folder.deleted
  BY <1>1, <1>6 DEF Watermark
<1>13. ~kept => Recorded' = {} /\ folder'.mark = 0 /\ folder'.deleted = 0
  BY <1>1, <1>6 DEF Watermark, Recorded
<1>. QED
  BY <1>1, <1>5, <1>6, <1>11, <1>12, <1>13 DEF kept

\* The newest message that a search finds is there and answers to the identity.
LEMMA LocatedIsAlike ==
    ASSUME Types, NEW m, SearchHeader(m) # {}
    PROVE  /\ Located(m) \in UIDs /\ Located(m) \in UIDType
           /\ Identity[box[Located(m)].content] = Identity[Content[m]]
<1>1. SearchHeader(m) \subseteq UIDs
      /\ \A u \in SearchHeader(m) : Identity[box[u].content] = Identity[Content[m]]
  BY DEF SearchHeader, Identifiable, FetchMeta
<1>2. UIDs \subseteq 1..(nextUID - 1) /\ nextUID - 1 \in Nat /\ UIDs \subseteq UIDType
  BY UIDsCounted DEF Types, DestTypes
<1>3. Max(SearchHeader(m)) \in SearchHeader(m)
  BY <1>1, <1>2, MaxIsThere
<1>. QED
  BY <1>1, <1>2, <1>3 DEF Located

\* Each row in flight is found, or left, or given up because its message is gone.
LEMMA Recovers ==
    ASSUME Types, Recover
    PROVE  /\ Types' /\ phase = "opened" /\ phase' = "recovered"
           /\ UNCHANGED <<source, dest, folder, opts, p, todo, index, bodies, dupes, mirror,
                          changes, doomed, failed, refused, budget, removed, shifted>>
           /\ Recorded' = Recorded /\ loose \subseteq loose'
           /\ \A m \in Recorded :
                 \/ row'[m] = row[m]
                 \/ /\ m \in InFlight \ listed
                    /\ row'[m].state = "failed" /\ row'[m].src = row[m].src
                    /\ row'[m].dst = row[m].dst /\ row'[m].uid = row[m].uid
                 \/ /\ m \in InFlight \cap listed
                    /\ row'[m].state = "done" /\ row'[m].src = row[m].src
                    /\ row'[m].dst = p.dst /\ row'[m].uid \in UIDs \cap loose'
                    /\ Identity[box[row'[m].uid].content] = Identity[Content[m]]
<1>. DEFINE found == {m \in InFlight \cap listed : SearchHeader(m) # {}}
            next == [m \in Recorded |->
                 IF m \in found
                 THEN [row[m] EXCEPT !.state = "done", !.dst = p.dst, !.uid = Located(m)]
                 ELSE IF m \in InFlight \ listed THEN [row[m] EXCEPT !.state = "failed"]
                 ELSE row[m]]
<1>1. /\ phase = "opened" /\ phase' = "recovered" /\ row' = next
      /\ loose' = loose \cup {Located(m) : m \in found}
      /\ torn' = (torn \/ \E m \in found : box[Located(m)].content # Content[m])
      /\ UNCHANGED <<source, dest, folder, opts, p, todo, index, bodies, dupes, mirror,
                     changes, doomed, failed, refused, budget, removed, shifted>>
  BY DEF Recover
<1>2. \A m \in found : /\ Located(m) \in UIDs /\ Located(m) \in UIDType
                       /\ Identity[box[Located(m)].content] = Identity[Content[m]]
  BY LocatedIsAlike
<1>3. StoreTypes /\ \A m \in Recorded : row[m] \in RowType
  BY DEF Types, StoreTypes
<1>4. p.dst \in Nat
  BY DEF Types, RunTypes, PreparedType
<1>5. \A m \in found : /\ m \in Recorded /\ m \in InFlight /\ m \in listed
                       /\ next[m] \in RowType /\ next[m].state = "done" /\ next[m].src = row[m].src
                       /\ next[m].dst = p.dst /\ next[m].uid = Located(m)
  <2>. TAKE m \in found
  <2>1. m \in Recorded /\ m \in InFlight /\ m \in listed
    BY DEF InFlight
  <2>2. next[m] = [row[m] EXCEPT !.state = "done", !.dst = p.dst, !.uid = Located(m)]
    BY <2>1
  <2>3. row[m] \in RowType /\ Located(m) \in Nat
    BY <1>2, <1>3, <2>1 DEF UIDType
  <2>. HIDE DEF next
  <2>. QED
    BY <1>4, <2>1, <2>2, <2>3 DEF RowType
<1>6. \A m \in InFlight \ listed :
        /\ m \in Recorded /\ row[m].state = "in_flight"
        /\ next[m] \in RowType /\ next[m].state = "failed" /\ next[m].src = row[m].src
        /\ next[m].dst = row[m].dst /\ next[m].uid = row[m].uid
  <2>. TAKE m \in InFlight \ listed
  <2>1. m \in Recorded /\ row[m].state = "in_flight" /\ m \notin listed
    BY DEF InFlight
  <2>2. next[m] = [row[m] EXCEPT !.state = "failed"]
    BY <2>1
  <2>3. row[m] \in RowType
    BY <1>3, <2>1
  <2>. HIDE DEF next, found
  <2>. QED
    BY <2>1, <2>2, <2>3 DEF RowType
<1>7. \A m \in Recorded : m \notin found /\ m \notin InFlight \ listed => next[m] = row[m]
  OBVIOUS
<1>8. \A m \in Recorded : /\ next[m] \in RowType
                          /\ next[m].state = "done" <=> next[m].uid # Nobody
  <2>. TAKE m \in Recorded
  <2>. HIDE DEF next, found
  <2>1. row[m].state = "done" <=> row[m].uid # Nobody
    BY <1>3 DEF StoreTypes
  <2>2. CASE m \in found
    BY <1>2, <1>5, <2>2 DEF UIDType, Nobody
  <2>3. CASE m \in InFlight \ listed
    BY <1>6, <2>1, <2>3
  <2>4. CASE m \notin found /\ m \notin InFlight \ listed
    BY <1>3, <1>7, <2>1, <2>4
  <2>. QED
    BY <2>2, <2>3, <2>4
<1>9. row' = [m \in Recorded |-> next[m]] /\ UNCHANGED folder
  BY <1>1
<1>. HIDE DEF next
<1>10. StoreTypes' /\ Recorded' = Recorded /\ \A m \in Recorded : row'[m] = next[m]
  BY <1>3, <1>8, <1>9, Rewrites
<1>11. RunTypes' /\ Shape'
  BY <1>1 DEF Types, RunTypes, Phases, Going, Open, Shape
<1>12. RestTypes'
  BY <1>1, <1>2 DEF Types, RestTypes, UIDType
<1>13. SourceTypes' /\ DestTypes'
  BY <1>1 DEF Types, source, dest, SourceTypes, DestTypes, UIDs
<1>14. \A m \in Recorded :
                 \/ row'[m] = row[m]
                 \/ /\ m \in InFlight \ listed
                    /\ row'[m].state = "failed" /\ row'[m].src = row[m].src
                    /\ row'[m].dst = row[m].dst /\ row'[m].uid = row[m].uid
                 \/ /\ m \in InFlight \cap listed
                    /\ row'[m].state = "done" /\ row'[m].src = row[m].src
                    /\ row'[m].dst = p.dst /\ row'[m].uid \in UIDs \cap loose'
                    /\ Identity[box[row'[m].uid].content] = Identity[Content[m]]
  <2>. TAKE m \in Recorded
  <2>. HIDE DEF found
  <2>1. m \in found => row'[m].uid \in UIDs \cap loose'
    BY <1>1, <1>2, <1>5, <1>10
  <2>. QED
    BY <1>2, <1>5, <1>6, <1>7, <1>10, <2>1
<1>15. Types'
  BY <1>10, <1>11, <1>12, <1>13 DEF Types
<1>. QED
  BY <1>1, <1>10, <1>14, <1>15

\* The rows of copies that are gone are dropped.
LEMMA Verifies ==
    ASSUME Types, Verify
    PROVE  /\ Types' /\ phase = "recovered" /\ phase' = "verified"
           /\ UNCHANGED <<source, dest, folder, opts, p, todo, index, bodies, dupes, mirror,
                          changes, doomed, failed, refused, budget, history>>
           /\ Recorded' = Recorded \ Unhonoured
           /\ \A m \in Recorded' : row'[m] = row[m]
<1>1. /\ phase = "recovered" /\ phase' = "verified" /\ row' = Restrict(row, Recorded \ Unhonoured)
      /\ UNCHANGED <<source, dest, folder, opts, p, todo, index, bodies, dupes, mirror,
                     changes, doomed, failed, refused, budget, history>>
  BY DEF Verify
<1>2. StoreTypes' /\ Recorded' = Recorded \ Unhonoured /\ \A m \in Recorded' : row'[m] = row[m]
  BY <1>1, Drops DEF Types
<1>3. RunTypes' /\ Shape'
  BY <1>1 DEF Types, history, RunTypes, Phases, Going, Open, Shape
<1>4. SourceTypes' /\ DestTypes' /\ RestTypes'
  BY <1>1 DEF Types, source, dest, history, SourceTypes, DestTypes, RestTypes, UIDs
<1>. QED
  BY <1>1, <1>2, <1>3, <1>4 DEF Types

\* A copy pass begins: what is listed, not settled and not left out.
LEMMA Diffs ==
    ASSUME Types, Diff
    PROVE  /\ Types' /\ phase = "verified" /\ phase' = "copy"
           /\ todo' = (listed \ Settled(p.src)) \ Excluded
           /\ p'.live = listed /\ p'.src = p.src /\ p'.modseq = p.modseq /\ p'.dst = p.dst
           /\ p'.filtered = (todo' # listed \ Settled(p.src))
           /\ p'.since = p.since /\ p'.kept = p.kept /\ p'.calm = p.calm /\ p'.preview = p.preview
           /\ \A e \in index' : /\ e.uid \in UIDs \ ClaimedDestUIDs(p.dst)
                                /\ e.content = box[e.uid].content
           /\ UNCHANGED <<source, dest, store, opts, bodies, dupes, mirror, changes, doomed,
                          failed, refused, budget, history>>
<1>1. listed \in SUBSET Msgs /\ p \in PreparedType
  BY DEF Types, SourceTypes, RunTypes
<1>2. PICK searched \in Searches :
        LET live   == AllUIDs(searched)
            wanted == Wanted(ToCopy(live))
        IN  /\ todo' = wanted
            /\ index' = IF wanted = {} THEN {} ELSE Index
            /\ p' = [p EXCEPT !.live = live, !.filtered = wanted # ToCopy(live)]
  BY DEF Diff
<1>3. AllUIDs(searched) = listed
  BY <1>1, LiveIsListed
<1>. DEFINE wanted == Wanted(ToCopy(listed))
<1>4. /\ todo' = wanted /\ index' = (IF wanted = {} THEN {} ELSE Index)
      /\ p' = [p EXCEPT !.live = listed, !.filtered = wanted # ToCopy(listed)]
  BY <1>2, <1>3
<1>5. wanted = (listed \ Settled(p.src)) \ Excluded
  BY DEF Wanted, ToCopy
<1>6. /\ p' \in PreparedType
      /\ p'.live = listed /\ p'.src = p.src /\ p'.modseq = p.modseq /\ p'.dst = p.dst
      /\ p'.filtered = (wanted # ToCopy(listed))
      /\ p'.since = p.since /\ p'.kept = p.kept /\ p'.calm = p.calm /\ p'.preview = p.preview
  <2>1. (wanted # ToCopy(listed)) \in BOOLEAN
    OBVIOUS
  <2>. HIDE DEF wanted
  <2>. QED
    BY <1>1, <1>4, <2>1 DEF PreparedType
<1>7. UIDs \subseteq UIDType /\ \A u \in UIDs : box[u].content \in Anything
  BY UIDsCounted DEF Types, DestTypes
<1>8. \A e \in Adoptable : /\ e \in [uid : UIDType, content : Anything]
                           /\ e.uid \in UIDs \ ClaimedDestUIDs(p.dst)
                           /\ e.content = box[e.uid].content
  BY <1>7 DEF Adoptable, Identifiable, FetchMeta
<1>9. index' \subseteq Adoptable
  BY <1>4 DEF Index
<1>10. phase = "verified" /\ phase' = "copy"
       /\ UNCHANGED <<source, dest, store, opts, bodies, dupes, mirror, changes, doomed,
                      failed, refused, budget, history>>
  BY DEF Diff
<1>11. RunTypes'
  <2>1. index' \subseteq [uid : UIDType, content : Anything] /\ todo' \subseteq Msgs
    BY <1>1, <1>4, <1>5, <1>8, <1>9
  <2>. QED
    BY <1>6, <1>10, <2>1 DEF Types, RunTypes, Phases, Going, Open
<1>12. Shape'
  BY <1>10 DEF Types, Shape, Open, history
<1>13. SourceTypes' /\ DestTypes' /\ RestTypes' /\ StoreTypes'
  BY <1>10 DEF Types, source, dest, store, history, SourceTypes, DestTypes, RestTypes, StoreTypes, UIDs, Recorded
<1>14. Types'
  BY <1>11, <1>12, <1>13 DEF Types
<1>15. p'.filtered = (todo' # listed \ Settled(p.src))
  BY <1>4, <1>6 DEF ToCopy
<1>. QED
  BY <1>4, <1>5, <1>6, <1>8, <1>9, <1>10, <1>14, <1>15

\* The steps of a copy pass, over whatever connection.
Passes(m) ==
    \E number \in LeaseNumbers : FindGone(m, number) \/ Repeat(m, number) \/ Fail(m, number)
Takes(m) == \E number \in LeaseNumbers : Adopt(m, number)
Sends(m) == \E number \in LeaseNumbers : AppendCopy(m, number)

\* A message is taken off the list and its row is written.
CopyEffect(m) ==
    /\ Types' /\ phase = "copy" /\ phase' = "copy"
    /\ m \in todo /\ todo' = todo \ {m}
    /\ UNCHANGED <<source, dstVal, folder, opts, p, mirror, changes, doomed, refused, removed, shifted>>
    /\ Recorded' = Recorded \cup {m} /\ \A n \in Recorded \ {m} : row'[n] = row[n]
    /\ row'[m].src = p.src

LEMMA CopyShape ==
    ASSUME Types, NEW m, NEW number, CopyStep(m, number),
           UNCHANGED <<phase, mirror, changes, doomed, shifted>>
    PROVE  Shape'
  BY DEF Types, Shape, CopyStep, Open

\* Nothing is copied: the message is gone, or a repeat, or its copying fails.
LEMMA PassesBy ==
    ASSUME Types, NEW m \in Msgs, Passes(m)
    PROVE  /\ CopyEffect(m) /\ UNCHANGED <<dest, index, bodies, loose, torn>>
           /\ row'[m].dst = 0 /\ row'[m].uid = Nobody
           /\ \/ m \notin listed /\ row'[m].state = "gone" /\ UNCHANGED <<dupes, failed>>
              \/ m \in listed /\ row'[m].state = "failed" /\ dupes' = dupes /\ failed' = TRUE
              \/ /\ m \in listed /\ row'[m].state = "in_flight" /\ dupes' = dupes \cup {m}
                 /\ failed' = failed /\ \E s \in bodies : Content[s] = Content[m]
<1>0. PICK number \in LeaseNumbers : FindGone(m, number) \/ Repeat(m, number) \/ Fail(m, number)
  BY DEF Passes
<1>1. /\ phase = "copy" /\ phase' = "copy" /\ number = p.src /\ m \in todo /\ todo' = todo \ {m}
      /\ UNCHANGED <<source, dest, folder, opts, p, index, bodies, mirror, changes, doomed, refused, history>>
  BY <1>0 DEF FindGone, Repeat, Fail, CopyStep, NumberingHolds
<1>2. p.src \in Nat /\ \A n \in Msgs : flag[n] \in Flags
  BY DEF Types, RunTypes, PreparedType, SourceTypes
<1>3. PICK r \in RowType :
        /\ Write(m, r) /\ r.src = p.src /\ r.dst = 0 /\ r.uid = Nobody
        /\ \/ m \notin listed /\ r.state = "gone" /\ UNCHANGED <<dupes, failed, budget>>
           \/ m \in listed /\ r.state = "failed" /\ dupes' = dupes /\ failed' = TRUE /\ Trouble
           \/ /\ m \in listed /\ r.state = "in_flight" /\ dupes' = dupes \cup {m}
              /\ UNCHANGED <<failed, budget>> /\ \E s \in bodies : Content[s] = Content[m]
  <2>1. CASE FindGone(m, number)
    <3>1. Unclaimed("gone") \in RowType
      BY <1>2 DEF Unclaimed, RowType, Nobody, Flags
    <3>. QED
      BY <2>1, <3>1 DEF FindGone, Unclaimed
  <2>2. CASE Fail(m, number)
    <3>1. Unclaimed("failed") \in RowType
      BY <1>2 DEF Unclaimed, RowType, Nobody, Flags
    <3>. QED
      BY <2>2, <3>1 DEF Fail, Unclaimed
  <2>3. CASE Repeat(m, number)
    <3>. DEFINE r == [Unclaimed("in_flight") EXCEPT !.flag = flag[m]]
    <3>1. r \in RowType /\ r.src = p.src /\ r.dst = 0 /\ r.uid = Nobody /\ r.state = "in_flight"
      BY <1>2 DEF Unclaimed, RowType, Nobody, Flags
    <3>2. Write(m, r) /\ m \in listed /\ dupes' = dupes \cup {m} /\ Copied(m) /\ UNCHANGED <<failed, budget>>
      BY <2>3 DEF Repeat
    <3>. HIDE DEF r
    <3>. QED
      BY <3>1, <3>2 DEF Copied
  <2>. QED
    BY <1>0, <2>1, <2>2, <2>3
<1>4. StoreTypes' /\ Recorded' = Recorded \cup {m} /\ row'[m] = r
      /\ \A n \in Recorded \ {m} : row'[n] = row[n]
  BY <1>1, <1>3, Writes DEF Types
<1>5. RunTypes'
  BY <1>1, <1>3 DEF Types, RunTypes
<1>6. RestTypes'
  BY <1>1, <1>3 DEF Types, RestTypes, history, Trouble
<1>7. SourceTypes' /\ DestTypes'
  BY <1>1 DEF Types, source, dest, SourceTypes, DestTypes, UIDs
<1>8. CopyStep(m, number) /\ UNCHANGED shifted
  BY <1>1 DEF CopyStep, NumberingHolds, history
<1>9. Shape'
  BY <1>1, <1>8, CopyShape
<1>10. CopyEffect(m)
  BY <1>1, <1>3, <1>4, <1>5, <1>6, <1>7, <1>9 DEF CopyEffect, Types, dest, history
<1>11. UNCHANGED <<dest, index, bodies, loose, torn>>
  BY <1>1 DEF history
<1>. QED
  BY <1>3, <1>4, <1>10, <1>11

\* The message is taken for one of those that the index holds.
LEMMA Adopts ==
    ASSUME Types, NEW m \in Msgs, Takes(m)
    PROVE  /\ CopyEffect(m) /\ m \in listed
           /\ UNCHANGED <<dest, bodies, dupes, failed>>
           /\ row'[m].state = "done" /\ row'[m].dst = p.dst /\ row'[m].flag = flag[m]
           /\ \E e \in index : /\ Identity[e.content] = Identity[Content[m]]
                               /\ row'[m].uid = e.uid /\ index' = index \ {e}
                               /\ loose' = loose \cup {e.uid} /\ e.uid \in UIDType
<1>0. PICK number \in LeaseNumbers : Adopt(m, number)
  BY DEF Takes
<1>. DEFINE least == CHOOSE x \in Matching(m) : \A y \in Matching(m) : x.uid <= y.uid
<1>1. /\ phase = "copy" /\ phase' = "copy" /\ number = p.src /\ m \in todo /\ todo' = todo \ {m}
      /\ m \in listed /\ Matching(m) # {}
      /\ index' = index \ {least} /\ Write(m, Done(m, least.uid)) /\ loose' = loose \cup {least.uid}
      /\ torn' = (torn \/ least.content # Content[m])
      /\ UNCHANGED <<source, dest, folder, phase, opts, p, bodies, dupes, mirror, changes,
                     doomed, failed, refused, budget, removed, shifted>>
  BY <1>0 DEF Adopt, CopyStep, NumberingHolds
<1>2. least \in Matching(m)
  <2>1. \A x \in Matching(m) : x.uid \in Nat
    BY DEF Matching, Types, RunTypes, UIDType
  <2>2. PICK n \in {x.uid : x \in Matching(m)} : \A k \in {x.uid : x \in Matching(m)} : n <= k
    BY <1>1, <2>1, MinExists
  <2>3. \E x \in Matching(m) : \A y \in Matching(m) : x.uid <= y.uid
    BY <2>2
  <2>. QED
    BY <2>3
<1>. HIDE DEF least
<1>3. least \in index /\ Identity[least.content] = Identity[Content[m]] /\ least.uid \in UIDType
  BY <1>2 DEF Matching, Types, RunTypes
<1>4. p.src \in Nat /\ p.dst \in Nat /\ flag[m] \in Flags
  BY DEF Types, RunTypes, PreparedType, SourceTypes
<1>. DEFINE r == Done(m, least.uid)
<1>5. r \in RowType /\ r.state = "done" /\ r.uid # Nobody /\ r.src = p.src
  BY <1>3, <1>4 DEF Done, RowType, UIDType, Nobody
<1>6. Write(m, r)
  BY <1>1
<1>. HIDE DEF r
<1>7. StoreTypes' /\ Recorded' = Recorded \cup {m} /\ row'[m] = r
      /\ \A n \in Recorded \ {m} : row'[n] = row[n]
  <2>1. StoreTypes /\ UNCHANGED folder
    BY <1>1 DEF Types
  <2>. QED
    BY <1>5, <1>6, <2>1, Writes
<1>8. RunTypes'
  BY <1>1 DEF Types, RunTypes
<1>9. RestTypes'
  BY <1>1, <1>3 DEF Types, RestTypes, UIDType
<1>10. SourceTypes' /\ DestTypes'
  BY <1>1 DEF Types, source, dest, SourceTypes, DestTypes, UIDs
<1>11. CopyStep(m, number)
  BY <1>1 DEF CopyStep, NumberingHolds
<1>12. Shape'
  BY <1>1, <1>11, CopyShape
<1>13. CopyEffect(m)
  BY <1>1, <1>5, <1>7, <1>8, <1>9, <1>10, <1>12 DEF CopyEffect, Types, dest
<1>14. /\ row'[m].uid = least.uid /\ row'[m].state = "done" /\ row'[m].dst = p.dst
       /\ row'[m].flag = flag[m]
  BY <1>7 DEF r, Done
<1>. QED
  BY <1>1, <1>3, <1>13, <1>14

\* The message is appended, as whatever its UID names by now.
LEMMA CopiesOne ==
    ASSUME Types, NEW m \in Msgs, Sends(m)
    PROVE  /\ CopyEffect(m) /\ m \in listed
           /\ UNCHANGED <<index, dupes, failed, loose>> /\ bodies' = bodies \cup {m}
           /\ UIDs' = UIDs \cup {nextUID} /\ nextUID' = nextUID + 1
           /\ box'[nextUID] = [content |-> Content[m], flag |-> flag[m]]
           /\ \A u \in UIDs : box'[u] = box[u] /\ u # nextUID
           /\ row'[m].state = "done" /\ row'[m].uid = nextUID /\ row'[m].dst = dstVal
           /\ row'[m].flag = flag[m]
<1>0. PICK number \in LeaseNumbers : AppendCopy(m, number)
  BY DEF Sends
<1>1. /\ phase = "copy" /\ phase' = "copy" /\ number = p.src /\ m \in todo /\ todo' = todo \ {m}
      /\ m \in listed /\ bodies' = bodies \cup {m} /\ Append(Content[Named(m, number)], flag[Named(m, number)])
      /\ Write(m, [Done(m, nextUID) EXCEPT !.dst = dstVal])
      /\ torn' = (torn \/ shifted)
      /\ UNCHANGED <<source, dstVal, folder, phase, opts, p, index, dupes, mirror, changes,
                     doomed, failed, refused, budget, removed, loose, shifted>>
  BY <1>0 DEF AppendCopy, CopyStep, NumberingHolds
<1>2. Named(m, number) = m
  BY <1>1 DEF Named
<1>3. /\ p.src \in Nat /\ flag[m] \in Flags /\ Content[m] \in Anything
      /\ nextUID \in Nat \ {0} /\ dstVal \in Nat /\ DestTypes
  BY MsgsAreNobody DEF Types, RunTypes, PreparedType, SourceTypes, DestTypes
<1>4. Append(Content[m], flag[m]) /\ UNCHANGED dstVal
  BY <1>1, <1>2
<1>5. /\ DestTypes' /\ UIDs' = UIDs \cup {nextUID} /\ nextUID' = nextUID + 1
      /\ box'[nextUID] = [content |-> Content[m], flag |-> flag[m]]
      /\ \A u \in UIDs : box'[u] = box[u] /\ u # nextUID
  BY <1>3, <1>4, Appends
<1>. DEFINE r == [Done(m, nextUID) EXCEPT !.dst = dstVal]
<1>6. r \in RowType /\ r.state = "done" /\ r.uid # Nobody /\ r.src = p.src /\ r.uid = nextUID
      /\ r.dst = dstVal /\ r.flag = flag[m]
  BY <1>3 DEF Done, RowType, Nobody
<1>7. Write(m, r)
  BY <1>1
<1>. HIDE DEF r
<1>8. StoreTypes' /\ Recorded' = Recorded \cup {m} /\ row'[m] = r
      /\ \A n \in Recorded \ {m} : row'[n] = row[n]
  <2>1. StoreTypes /\ UNCHANGED folder
    BY <1>1 DEF Types
  <2>. QED
    BY <1>6, <1>7, <2>1, Writes
<1>9. RunTypes'
  BY <1>1 DEF Types, RunTypes
<1>10. RestTypes'
  BY <1>1 DEF Types, RestTypes
<1>11. SourceTypes'
  BY <1>1 DEF Types, source, SourceTypes
<1>12. CopyStep(m, number)
  BY <1>1 DEF CopyStep, NumberingHolds
<1>13. Shape'
  BY <1>1, <1>12, CopyShape
<1>14. CopyEffect(m)
  BY <1>1, <1>5, <1>6, <1>8, <1>9, <1>10, <1>11, <1>13 DEF CopyEffect, Types
<1>. QED
  BY <1>1, <1>5, <1>6, <1>8, <1>14

\* A repeat shares the copy of the message it repeats; then the flags are listed
\* that changed at the source.
LEMMA Settles ==
    ASSUME Types, SettleDuplicates
    PROVE  /\ Types' /\ phase = "copy" /\ todo = {} /\ phase' = "store"
           /\ index' = {} /\ bodies' = {} /\ dupes' = {}
           /\ UNCHANGED <<source, dest, folder, opts, p, todo, doomed, failed, refused, budget,
                          removed, shifted, torn>>
           /\ Recorded' = Recorded /\ loose \subseteq loose'
           /\ \A m \in Recorded :
                 \/ row'[m] = row[m]
                 \/ /\ m \in dupes /\ row'[m].state = "done" /\ row'[m].src = row[m].src
                    /\ row'[m].dst = p.dst /\ row'[m].uid \in loose'
                    /\ \E s \in bodies : /\ s \in Mirrored(p.src, p.dst) /\ Content[s] = Content[m]
                                         /\ row'[m].uid = row[s].uid
           /\ \A m \in dupes \cap Recorded :
                 (\E s \in bodies : s \in Mirrored(p.src, p.dst) /\ Content[s] = Content[m])
                    => row'[m].state = "done"
           /\ mirror'.rows = MirrorRows(p.src, p.dst)
           /\ \A c \in changes' : /\ \E r \in mirror'.rows : r.msg = c.msg /\ r.uid = c.uid
                                  /\ p.src = srcVal => c.flag = flag[c.msg]
           /\ p.src = srcVal => \A r \in mirror'.rows :
                 r.msg \in listed /\ changed[r.msg] > p.since /\ flag[r.msg] # r.flag
                    => \E c \in changes' : c.msg = r.msg
<1>. DEFINE next == [m \in Recorded |->
                 IF m \in dupes /\ Survivors(m) # {}
                 THEN [row[m] EXCEPT !.state = "done", !.dst = p.dst,
                                     !.uid = (CHOOSE r \in Survivors(m) : TRUE).uid]
                 ELSE row[m]]
            chosen(m) == CHOOSE r \in Survivors(m) : TRUE
<1>1. /\ phase = "copy" /\ todo = {} /\ row' = next
      /\ loose' = loose \cup {r.uid : r \in UNION {Survivors(m) : m \in dupes}}
      /\ mirror' = Loaded /\ changes' = FlagChanges
      /\ phase' = "store" /\ index' = {} /\ bodies' = {} /\ dupes' = {}
      /\ UNCHANGED <<source, dest, folder, opts, p, todo, doomed, failed, refused, budget,
                     removed, shifted, torn>>
  BY DEF SettleDuplicates
<1>2. ~mirror.loaded
  BY <1>1 DEF Types, Shape, Open
<1>3. Mirrors = MirrorRows(p.src, p.dst) /\ StoreTypes
  BY <1>2 DEF Mirrors, Types
<1>4. /\ Mirrors \subseteq MirrorRow
      /\ \A r \in Mirrors : r.msg \in Mirrored(p.src, p.dst) /\ r.uid = row[r.msg].uid
      /\ \A m \in Mirrored(p.src, p.dst) : \E r \in Mirrors :
            r.msg = m /\ r.uid = row[m].uid
  BY <1>3, RowsTyped
<1>5. \A m : Survivors(m) # {} =>
         /\ chosen(m) \in Survivors(m) /\ chosen(m) \in MirrorRow
         /\ chosen(m).msg \in bodies /\ chosen(m).msg \in Mirrored(p.src, p.dst)
         /\ Content[chosen(m).msg] = Content[m] /\ chosen(m).uid = row[chosen(m).msg].uid
         /\ chosen(m).uid \in UIDType
  <2>. TAKE m
  <2>. HAVE Survivors(m) # {}
  <2>1. chosen(m) \in Survivors(m)
    OBVIOUS
  <2>. HIDE DEF chosen
  <2>2. chosen(m) \in Mirrors /\ chosen(m).msg \in bodies /\ Content[chosen(m).msg] = Content[m]
    BY <2>1 DEF Survivors
  <2>. QED
    BY <1>4, <2>1, <2>2 DEF MirrorRow
<1>6. p.dst \in Nat /\ \A m \in Recorded : row[m] \in RowType
  BY <1>3 DEF Types, RunTypes, PreparedType, StoreTypes
<1>7. \A m \in Recorded : IF m \in dupes /\ Survivors(m) # {}
         THEN /\ next[m] \in RowType /\ next[m].state = "done" /\ next[m].src = row[m].src
              /\ next[m].dst = p.dst /\ next[m].uid = chosen(m).uid
         ELSE next[m] = row[m]
  <2>. TAKE m \in Recorded
  <2>1. CASE m \in dupes /\ Survivors(m) # {}
    <3>1. next[m] = [row[m] EXCEPT !.state = "done", !.dst = p.dst, !.uid = chosen(m).uid]
      BY <2>1
    <3>2. chosen(m).uid \in Nat
      BY <1>5, <2>1 DEF UIDType
    <3>. HIDE DEF next, chosen
    <3>. QED
      BY <1>6, <2>1, <3>1, <3>2 DEF RowType
  <2>2. CASE ~ (m \in dupes /\ Survivors(m) # {})
    BY <2>2
  <2>. HIDE DEF next, chosen
  <2>. QED
    BY <2>1, <2>2
<1>8. row' = [m \in Recorded |-> next[m]] /\ UNCHANGED folder
  BY <1>1
<1>. HIDE DEF next, chosen
<1>9. \A m \in Recorded : /\ next[m] \in RowType
                          /\ next[m].state = "done" <=> next[m].uid # Nobody
  <2>. TAKE m \in Recorded
  <2>1. row[m].state = "done" <=> row[m].uid # Nobody
    BY <1>3 DEF StoreTypes
  <2>. QED
    BY <1>5, <1>6, <1>7, <2>1 DEF UIDType, Nobody
<1>10. StoreTypes' /\ Recorded' = Recorded /\ \A m \in Recorded : row'[m] = next[m]
  BY <1>3, <1>8, <1>9, Rewrites
<1>11. mirror'.rows = Mirrors /\ mirror' \in [loaded : BOOLEAN, rows : SUBSET MirrorRow] /\ mirror'.loaded
  BY <1>1, <1>4 DEF Loaded
<1>12. \A m \in Msgs : Named(m, srcVal) \in Msgs
  <2>1. listed \subseteq Msgs
    BY DEF Types, SourceTypes
  <2>2. \A m \in Msgs : ~ (listed \subseteq {m}) => (CHOOSE n \in listed \ {m} : TRUE) \in listed
    OBVIOUS
  <2>. QED
    BY <2>1, <2>2 DEF Named
<1>13. \A c \in FlagChanges :
          /\ c \in Change4 /\ c.flag = flag[Named(c.msg, srcVal)]
          /\ \E r \in Mirrors : r.msg = c.msg /\ r.uid = c.uid
  <2>1. \A r \in Mirrors : r.uid \in UIDType /\ r.msg \in Msgs /\ flag[Named(r.msg, srcVal)] \in Flags
    BY <1>4, <1>12 DEF MirrorRow, Types, SourceTypes
  <2>2. \A c \in FlagChanges : \E r \in Mirrors :
           c = [uid |-> r.uid, msg |-> r.msg, flag |-> flag[Named(r.msg, srcVal)]]
    BY DEF FlagChanges
  <2>. QED
    BY <2>1, <2>2 DEF Change4
<1>14. p.src = srcVal => \A m : Named(m, srcVal) = m
  BY DEF Named
<1>15. p.src = srcVal => \A r \in Mirrors :
          r.msg \in listed /\ changed[r.msg] > p.since /\ flag[r.msg] # r.flag
             => \E c \in FlagChanges : c.msg = r.msg
  <2>. SUFFICES ASSUME p.src = srcVal, NEW r \in Mirrors, r.msg \in listed,
                       changed[r.msg] > p.since, flag[r.msg] # r.flag
                PROVE  \E c \in FlagChanges : c.msg = r.msg
    OBVIOUS
  <2>1. r.msg \in Msgs /\ Named(r.msg, srcVal) = r.msg
    BY <1>4, <1>14 DEF MirrorRow
  <2>2. r.msg \in SourceFlags
    BY <2>1 DEF SourceFlags, FetchFlags
  <2>3. [uid |-> r.uid, msg |-> r.msg, flag |-> flag[Named(r.msg, srcVal)]] \in FlagChanges
    BY <2>1, <2>2 DEF FlagChanges
  <2>. QED
    BY <2>3
<1>16. RunTypes'
  BY <1>1, <1>11, <1>13 DEF Types, RunTypes, Phases, Going, Open
<1>17. RestTypes' /\ loose \subseteq loose'
  <2>1. \A m : \A r \in Survivors(m) : r.uid \in Nat
    BY <1>4 DEF Survivors, MirrorRow, UIDType
  <2>2. loose' \subseteq Nat /\ loose \subseteq loose'
    BY <1>1, <2>1 DEF Types, RestTypes
  <2>. QED
    BY <1>1, <2>2 DEF Types, RestTypes
<1>18. Shape'
  BY <1>1, <1>11 DEF Types, Shape, Open
<1>19. SourceTypes' /\ DestTypes'
  BY <1>1 DEF Types, source, dest, SourceTypes, DestTypes, UIDs
<1>20. Types'
  BY <1>10, <1>16, <1>17, <1>18, <1>19 DEF Types
<1>21. \A m \in Recorded :
          \/ row'[m] = row[m]
          \/ /\ m \in dupes /\ row'[m].state = "done" /\ row'[m].src = row[m].src
             /\ row'[m].dst = p.dst /\ row'[m].uid \in loose'
             /\ \E s \in bodies : /\ s \in Mirrored(p.src, p.dst) /\ Content[s] = Content[m]
                                  /\ row'[m].uid = row[s].uid
  <2>. TAKE m \in Recorded
  <2>1. CASE m \in dupes /\ Survivors(m) # {}
    <3>1. chosen(m).uid \in loose'
      BY <1>1, <1>5, <2>1
    <3>. QED
      BY <1>5, <1>7, <1>10, <2>1, <3>1
  <2>2. CASE ~ (m \in dupes /\ Survivors(m) # {})
    BY <1>7, <1>10, <2>2
  <2>. QED
    BY <2>1, <2>2
<1>22. \A m \in dupes \cap Recorded :
          (\E s \in bodies : s \in Mirrored(p.src, p.dst) /\ Content[s] = Content[m])
             => row'[m].state = "done"
  <2>. TAKE m \in dupes \cap Recorded
  <2>1. ASSUME NEW s \in bodies, s \in Mirrored(p.src, p.dst), Content[s] = Content[m]
        PROVE  Survivors(m) # {}
    BY <1>4, <2>1 DEF Survivors
  <2>. QED
    BY <1>7, <1>10, <2>1
<1>23. \A c \in changes' : /\ \E r \in mirror'.rows : r.msg = c.msg /\ r.uid = c.uid
                           /\ p.src = srcVal => c.flag = flag[c.msg]
  BY <1>1, <1>11, <1>13, <1>14
<1>. QED
  BY <1>1, <1>3, <1>10, <1>11, <1>15, <1>17, <1>20, <1>21, <1>22, <1>23

\* A change of flags is stored and recorded, or fails.
LEMMA StoresFlags ==
    ASSUME Types, NEW c \in changes, StoreFlags(c)
    PROVE  /\ Types' /\ phase = "store" /\ phase' = "store" /\ changes' = changes \ {c} /\ c \in Change4
           /\ UNCHANGED <<source, nextUID, dstVal, folder, opts, p, todo, index, bodies,
                          dupes, mirror, doomed, failed, refused, budget, removed, shifted, torn>>
           /\ UIDs' = UIDs
           /\ \A u \in UIDs : /\ box'[u].content = box[u].content
                              /\ u # c.uid => box'[u] = box[u]
                              /\ u = c.uid => box'[u].flag = c.flag
           /\ Recorded' = Recorded
           /\ \A m \in Recorded : /\ row'[m].state = row[m].state /\ row'[m].src = row[m].src
                                  /\ row'[m].dst = row[m].dst /\ row'[m].uid = row[m].uid
                                  /\ m # c.msg => row'[m] = row[m]
                                  /\ m = c.msg => row'[m].flag = c.flag
           /\ loose' = IF shifted \/ Shared(c.msg) THEN loose \cup {c.uid} ELSE loose \ {c.uid}
<1>1. /\ phase = "store" /\ Stored(c) /\ row' = [row EXCEPT ![c.msg].flag = c.flag]
      /\ loose' = IF shifted \/ Shared(c.msg) THEN loose \cup {c.uid} ELSE loose \ {c.uid}
      /\ changes' = changes \ {c}
      /\ UNCHANGED <<source, nextUID, dstVal, folder, phase, opts, p, todo, index, bodies,
                     dupes, mirror, doomed, failed, refused, budget, removed, shifted, torn>>
  BY DEF StoreFlags
<1>2. c \in Change4 /\ DestTypes /\ StoreTypes
  BY DEF Types, RunTypes
<1>3. /\ DestTypes' /\ UIDs' = UIDs
      /\ \A u \in UIDs : /\ box'[u].content = box[u].content
                         /\ u # c.uid => box'[u] = box[u]
                         /\ u = c.uid => box'[u].flag = c.flag
  BY <1>1, <1>2, Stores
<1>. DEFINE next == [m \in Recorded |-> IF m = c.msg THEN [row[m] EXCEPT !.flag = c.flag] ELSE row[m]]
<1>4. \A m \in Recorded : /\ next[m] \in RowType /\ next[m].state = row[m].state /\ next[m].src = row[m].src
                          /\ next[m].dst = row[m].dst /\ next[m].uid = row[m].uid
                          /\ m # c.msg => next[m] = row[m]
                          /\ m = c.msg => next[m].flag = c.flag
  <2>. TAKE m \in Recorded
  <2>1. row[m] \in RowType /\ c.flag \in Flags
    BY <1>2 DEF StoreTypes, Change4
  <2>2. [row[m] EXCEPT !.flag = c.flag] \in RowType
        /\ [row[m] EXCEPT !.flag = c.flag].state = row[m].state
        /\ [row[m] EXCEPT !.flag = c.flag].src = row[m].src
        /\ [row[m] EXCEPT !.flag = c.flag].dst = row[m].dst
        /\ [row[m] EXCEPT !.flag = c.flag].uid = row[m].uid
        /\ [row[m] EXCEPT !.flag = c.flag].flag = c.flag
    BY <2>1 DEF RowType
  <2>. QED
    BY <2>1, <2>2
<1>5. row' = [m \in Recorded |-> next[m]] /\ UNCHANGED folder
  <2>1. row \in [Recorded -> RowType]
    BY <1>2 DEF StoreTypes
  <2>. QED
    BY <1>1, <2>1
<1>. HIDE DEF next
<1>6. \A m \in Recorded : next[m].state = "done" <=> next[m].uid # Nobody
  BY <1>2, <1>4 DEF StoreTypes
<1>7. StoreTypes' /\ Recorded' = Recorded /\ \A m \in Recorded : row'[m] = next[m]
  BY <1>2, <1>4, <1>5, <1>6, Rewrites
<1>8. RunTypes' /\ Shape'
  BY <1>1 DEF Types, RunTypes, Shape
<1>9. RestTypes'
  BY <1>1, <1>2 DEF Types, RestTypes, Change4, UIDType
<1>10. SourceTypes'
  BY <1>1 DEF Types, source, SourceTypes
<1>11. Types'
  BY <1>3, <1>7, <1>8, <1>9, <1>10 DEF Types
<1>. QED
  BY <1>1, <1>2, <1>3, <1>4, <1>7, <1>11

LEMMA FailsToStore ==
    ASSUME Types, NEW c \in changes, StoreFails(c)
    PROVE  /\ Types' /\ phase = "store" /\ phase' = "store" /\ failed' = TRUE /\ changes' = changes \ {c}
           /\ UNCHANGED <<source, dest, store, opts, p, todo, index, bodies, dupes,
                          mirror, doomed, refused, history>>
<1>1. /\ phase = "store" /\ phase' = "store" /\ failed' = TRUE /\ changes' = changes \ {c} /\ Trouble
      /\ UNCHANGED <<source, dest, store, phase, opts, p, todo, index, bodies, dupes,
                     mirror, doomed, refused, history>>
  BY DEF StoreFails
<1>2. RunTypes' /\ Shape'
  BY <1>1 DEF Types, RunTypes, Shape, history
<1>3. RestTypes'
  BY <1>1 DEF Types, RestTypes, Trouble, history
<1>4. SourceTypes' /\ DestTypes' /\ StoreTypes'
  BY <1>1 DEF Types, source, dest, store, SourceTypes, DestTypes, StoreTypes, UIDs, Recorded
<1>. QED
  BY <1>1, <1>2, <1>3, <1>4 DEF Types

\* What may go is chosen, or nothing, when that is too much.
LEMMA Condemns ==
    ASSUME Types, Condemn
    PROVE  /\ Types' /\ phase = "store" /\ changes = {} /\ Deletes
           /\ phase' = (IF doomed' = {} THEN "dedupe" ELSE "expunge")
           /\ p'.src = p.src /\ p'.modseq = p.modseq /\ p'.since = p.since /\ p'.kept = p.kept
           /\ p'.live = p.live /\ p'.calm = p.calm /\ p'.preview = p.preview
           /\ p'.filtered = p.filtered
           /\ mirror'.rows = mirror.rows
           /\ doomed' \subseteq Condemned(mirror.rows, p.src, p.live)
           /\ \/ refused' /\ doomed' = {}
              \/ \A v \in Condemned(mirror.rows, p.src, p.live) : v.uid \in Copies(doomed')
           /\ UNCHANGED <<source, dest, store, opts, todo, index, bodies, dupes, changes,
                          failed, budget, history>>
<1>. DEFINE all == Condemned(mirror.rows, p.src, p.live)
            allowed == Allowed(opts, Cardinality(Copies(all)), p'.count)
<1>1. /\ phase = "store" /\ changes = {} /\ Deletes /\ p' = SelectDest(p)
      /\ phase' = (IF doomed' = {} THEN "dedupe" ELSE "expunge")
      /\ UNCHANGED <<source, dest, store, opts, todo, index, bodies, dupes, changes,
                     failed, budget, history>>
  BY DEF Condemn
<1>2. mirror.loaded /\ mirror \in [loaded : BOOLEAN, rows : SUBSET MirrorRow]
  BY <1>1 DEF Types, Shape, RunTypes
<1>3. mirror' = [loaded |-> TRUE, rows |-> mirror.rows]
  BY <1>2 DEF Condemn
<1>4. mirror'.rows = mirror.rows /\ mirror'.loaded
  BY <1>3
<1>5. doomed' \in (IF allowed THEN OncePerCopy(all) ELSE {{}}) /\ refused' = ~allowed
  BY <1>4 DEF Condemn
<1>6. all \subseteq Victim
  BY <1>2, CondemnedAre
<1>7. p \in PreparedType /\ dstVal \in Nat /\ Cardinality(UIDs) \in Nat
  BY UIDsCounted DEF Types, RunTypes, DestTypes
<1>8. /\ p' \in PreparedType
      /\ p'.src = p.src /\ p'.modseq = p.modseq /\ p'.since = p.since /\ p'.kept = p.kept
      /\ p'.live = p.live /\ p'.calm = p.calm /\ p'.preview = p.preview
      /\ p'.filtered = p.filtered
  BY <1>1, <1>7 DEF SelectDest, PreparedType
<1>9. allowed \in BOOLEAN
  BY DEF Allowed
<1>. HIDE DEF all, allowed
<1>10. doomed' \subseteq all
  BY <1>5 DEF OncePerCopy
<1>11. (refused' /\ doomed' = {}) \/ \A v \in all : v.uid \in Copies(doomed')
  <2>1. CASE ~allowed
    BY <1>5, <2>1
  <2>2. CASE allowed
    <3>1. \A v \in all : Cardinality({w \in doomed' : w.uid = v.uid}) = 1
      BY <1>5, <2>2 DEF OncePerCopy
    <3>2. \A v \in all : {w \in doomed' : w.uid = v.uid} # {}
      BY <3>1, FS_EmptySet
    <3>. QED
      BY <3>2 DEF Copies
  <2>. QED
    BY <2>1, <2>2
<1>12. RunTypes'
  <2>1. mirror' \in [loaded : BOOLEAN, rows : SUBSET MirrorRow]
    BY <1>2, <1>3
  <2>2. refused' \in BOOLEAN
    BY <1>5, <1>9
  <2>3. doomed' \subseteq Victim
    BY <1>6, <1>10
  <2>. QED
    BY <1>1, <1>8, <2>1, <2>2, <2>3 DEF Types, RunTypes, Phases, Going, Open
<1>13. Shape'
  BY <1>1, <1>4 DEF Types, Shape, Open, history
<1>14. SourceTypes' /\ DestTypes' /\ StoreTypes' /\ RestTypes'
  BY <1>1 DEF Types, source, dest, store, history, SourceTypes, DestTypes, StoreTypes, RestTypes,
     UIDs, Recorded
<1>15. Types'
  BY <1>12, <1>13, <1>14 DEF Types
<1>. QED
  BY <1>1, <1>4, <1>8, <1>10, <1>11, <1>15 DEF all

LEMMA KeepsAll ==
    ASSUME Types, DeletesNothing
    PROVE  /\ Types' /\ phase = "store" /\ phase' = "dedupe" /\ changes = {} /\ ~Deletes
           /\ UNCHANGED <<source, dest, store, opts, p, todo, index, bodies, dupes, mirror,
                          changes, doomed, failed, refused, budget, history>>
<1>1. /\ phase = "store" /\ phase' = "dedupe" /\ changes = {} /\ ~Deletes
      /\ UNCHANGED <<source, dest, store, opts, p, todo, index, bodies, dupes, mirror,
                     changes, doomed, failed, refused, budget, history>>
  BY DEF DeletesNothing
<1>2. RunTypes' /\ Shape'
  BY <1>1 DEF Types, RunTypes, Shape, Phases, Open, history
<1>3. SourceTypes' /\ DestTypes' /\ StoreTypes' /\ RestTypes'
  BY <1>1 DEF Types, source, dest, store, history, SourceTypes, DestTypes, StoreTypes, RestTypes,
     UIDs, Recorded
<1>. QED
  BY <1>1, <1>2, <1>3 DEF Types

\* What was condemned goes.
LEMMA Expunges ==
    ASSUME Types, Expunge \/ RemoveDuplicates
    PROVE  /\ Types'
           /\ \/ phase = "expunge" /\ phase' = "forget" /\ doomed' = doomed
              \/ phase = "remove" /\ phase' = "finish" /\ doomed' = {}
           /\ UNCHANGED <<source, nextUID, dstVal, store, opts, p, todo, index, bodies, dupes,
                          mirror, changes, failed, refused, budget, loose, shifted, torn>>
           /\ UIDs' = UIDs \ Copies(doomed) /\ \A u \in UIDs' : box'[u] = box[u]
           /\ removed' = IF shifted THEN removed \cup Copies(doomed) ELSE removed
<1>1. /\ \/ phase = "expunge" /\ phase' = "forget" /\ doomed' = doomed
         \/ phase = "remove" /\ phase' = "finish" /\ doomed' = {}
      /\ Remove(Copies(doomed))
      /\ UNCHANGED <<source, nextUID, dstVal, store, opts, p, todo, index, bodies, dupes,
                     mirror, changes, failed, refused, budget, loose, shifted, torn>>
      /\ removed' = IF shifted THEN removed \cup Copies(doomed) ELSE removed
  BY DEF Expunge, RemoveDuplicates, Misled
<1>2. DestTypes' /\ UIDs' = UIDs \ Copies(doomed) /\ \A u \in UIDs' : box'[u] = box[u]
  BY <1>1, Removes DEF Types
<1>3. RunTypes' /\ Shape'
  BY <1>1 DEF Types, RunTypes, Shape, Phases, Going, Open
<1>4. RestTypes'
  BY <1>1 DEF Types, RestTypes, RunTypes, Copies, Victim, UIDType
<1>5. SourceTypes' /\ StoreTypes'
  BY <1>1 DEF Types, source, store, SourceTypes, StoreTypes, Recorded
<1>. QED
  BY <1>1, <1>2, <1>3, <1>4, <1>5 DEF Types

\* The rows of what is gone are dropped.
LEMMA Forgets ==
    ASSUME Types, Forget
    PROVE  /\ Types' /\ phase = "forget" /\ phase' = "dedupe" /\ doomed' = {}
           /\ UNCHANGED <<source, dest, folder, opts, p, todo, index, bodies, dupes, mirror,
                          changes, failed, refused, budget, history>>
           /\ Recorded' = Recorded \ {v.src : v \in doomed}
           /\ \A m \in Recorded' : row'[m] = row[m]
<1>1. /\ phase = "forget" /\ phase' = "dedupe" /\ doomed' = {}
      /\ row' = Restrict(row, Recorded \ {v.src : v \in doomed})
      /\ UNCHANGED <<source, dest, folder, opts, p, todo, index, bodies, dupes, mirror,
                     changes, failed, refused, budget, history>>
  BY DEF Forget
<1>2. StoreTypes' /\ Recorded' = Recorded \ {v.src : v \in doomed} /\ \A m \in Recorded' : row'[m] = row[m]
  BY <1>1, Drops DEF Types
<1>3. RunTypes' /\ Shape'
  BY <1>1 DEF Types, RunTypes, Shape, Phases, Open, history
<1>4. SourceTypes' /\ DestTypes' /\ RestTypes'
  BY <1>1 DEF Types, source, dest, history, SourceTypes, DestTypes, RestTypes, UIDs
<1>. QED
  BY <1>1, <1>2, <1>3, <1>4 DEF Types

\* One copy of each kind survives, and it is not a duplicate itself.
LEMMA SurvivorsStay ==
    ASSUME Types
    PROVE  /\ Duplicates \subseteq UIDs
           /\ \A u \in Duplicates : /\ Survivor(u) \in UIDs \ Duplicates
                                    /\ box[u].content = box[Survivor(u)].content
<1>. DEFINE candidates == {e.uid : e \in DedupeCandidates}
<1>1. candidates \subseteq UIDs
  BY DEF DedupeCandidates, Identifiable, FetchMeta
<1>2. \A u \in candidates : Group(u) \in SUBSET UIDs /\ u \in Group(u)
  BY DEF DedupeCandidates, Identifiable, FetchMeta, Group
<1>3. UIDs \subseteq Nat
  BY UIDsCounted DEF Types, UIDType
<1>4. \A u \in candidates : Survivor(u) \in Group(u)
  <2>. TAKE u \in candidates
  <2>. DEFINE claimed == {row[m].uid : m \in Mirrored(p.src, dstVal)} \cap Group(u)
  <2>1. Group(u) \in SUBSET Nat /\ Group(u) # {} /\ claimed \in SUBSET Nat /\ claimed \subseteq Group(u)
    BY <1>2, <1>3
  <2>2. Survivor(u) = Min(IF claimed # {} THEN claimed ELSE Group(u))
    BY DEF Survivor
  <2>. HIDE DEF claimed
  <2>. QED
    BY <2>1, <2>2, MinIsThere
<1>5. \A u \in candidates : \A w \in Group(u) : w \in candidates /\ Group(w) = Group(u)
  <2>. TAKE u \in candidates
  <2>. TAKE w \in Group(u)
  <2>1. PICK e \in DedupeCandidates : e.uid = w /\ Identity[e.content] = Identity[box[u].content]
    BY DEF Group
  <2>2. e.content = box[w].content
    BY <2>1 DEF DedupeCandidates, Identifiable, FetchMeta
  <2>. QED
    BY <2>1, <2>2 DEF Group
<1>6. \A u \in candidates : Survivor(u) \in candidates /\ Survivor(Survivor(u)) = Survivor(u)
  <2>1. \A v, w : Group(v) = Group(w) => Survivor(v) = Survivor(w)
    BY DEF Survivor
  <2>2. \A u \in candidates : Survivor(u) \in candidates /\ Group(Survivor(u)) = Group(u)
    BY <1>4, <1>5
  <2>. QED
    BY <2>1, <2>2
<1>7. \A u \in Duplicates : u \in candidates /\ Survivor(u) # u /\ box[u].content = box[Survivor(u)].content
  BY DEF Duplicates
<1>. QED
  BY <1>1, <1>6, <1>7

\* The rows that named a duplicate name what survives, before the duplicates go.
LEMMA FindsDuplicates ==
    ASSUME Types, FindDuplicates
    PROVE  /\ Types' /\ phase = "dedupe"
           /\ phase' = (IF doomed' = {} THEN "finish" ELSE "remove")
           /\ UNCHANGED <<source, dest, folder, opts, p, todo, index, bodies, dupes, mirror,
                          changes, failed, budget, removed, shifted, torn>>
           /\ (refused => refused') /\ Recorded' = Recorded /\ loose \subseteq loose'
           /\ \A m \in Recorded :
                 /\ row'[m].state = row[m].state /\ row'[m].src = row[m].src
                 /\ row'[m].dst = row[m].dst /\ row'[m].flag = row[m].flag
                 /\ \/ row'[m] = row[m]
                    \/ /\ m \in Mirrored(p.src, dstVal) /\ row[m].uid \in UIDs
                       /\ row'[m].uid \in UIDs \cap loose'
                       /\ box[row'[m].uid].content = box[row[m].uid].content
                 /\ m \in Mirrored(p.src, dstVal) => row'[m].uid \notin Copies(doomed')
           /\ \A m \in Mirrored(p.src, dstVal) : \A n \in Mirrored(p.src, dstVal) :
                 row'[m].uid = row'[n].uid => row[m].uid = row[n].uid \/ row'[m].uid \in loose'
           /\ \A m \in Mirrored(p.src, dstVal) : \A n \in Mirrored(p.src, dstVal) :
                 row'[m].uid # row'[n].uid => row[m].uid # row[n].uid
           /\ Copies(doomed') \subseteq UIDs
           /\ \A u \in Copies(doomed') : \E w \in UIDs \ Copies(doomed') :
                 box[w].content = box[u].content
           /\ doomed' # {} => phase' = "remove"
<1>. DEFINE allowed == "dedupe" \in opts /\ Allowed(opts, Cardinality(Duplicates), Cardinality(UIDs))
<1>1. /\ phase = "dedupe"
      /\ doomed' = (IF allowed THEN {[uid |-> u, src |-> Nobody] : u \in Duplicates} ELSE {})
      /\ row' = (IF allowed THEN Repointed ELSE row)
      /\ loose' = (IF allowed THEN loose \cup {Survivor(u) : u \in Duplicates} ELSE loose)
      /\ refused' = (refused \/ ("dedupe" \in opts /\ ~allowed))
      /\ phase' = (IF doomed' = {} THEN "finish" ELSE "remove")
      /\ UNCHANGED <<source, dest, folder, opts, p, todo, index, bodies, dupes, mirror,
                     changes, failed, budget, removed, shifted, torn>>
  BY DEF FindDuplicates
<1>. HIDE DEF allowed
<1>2. /\ Duplicates \subseteq UIDs /\ UIDs \subseteq UIDType
      /\ \A u \in Duplicates : /\ Survivor(u) \in UIDs \ Duplicates
                               /\ box[u].content = box[Survivor(u)].content
  BY SurvivorsStay, UIDsCounted DEF Types
<1>3. StoreTypes /\ \A m \in Recorded : row[m] \in RowType /\ (row[m].state = "done" <=> row[m].uid # Nobody)
  BY DEF Types, StoreTypes
<1>4. \A m \in Mirrored(p.src, dstVal) : m \in Recorded /\ row[m].state = "done"
  BY DEF Mirrored
<1>. DEFINE moved(m) == allowed /\ m \in Mirrored(p.src, dstVal) /\ row[m].uid \in Duplicates
            next == [m \in Recorded |-> IF moved(m)
                        THEN [row[m] EXCEPT !.uid = Survivor(row[m].uid)] ELSE row[m]]
<1>5. \A m \in Recorded :
         /\ next[m] \in RowType /\ next[m].state = row[m].state /\ next[m].src = row[m].src
         /\ next[m].dst = row[m].dst /\ next[m].flag = row[m].flag
         /\ moved(m) => next[m].uid = Survivor(row[m].uid)
         /\ ~moved(m) => next[m] = row[m]
  <2>. TAKE m \in Recorded
  <2>1. CASE moved(m)
    <3>1. next[m] = [row[m] EXCEPT !.uid = Survivor(row[m].uid)]
      BY <2>1
    <3>2. Survivor(row[m].uid) \in Nat /\ row[m] \in RowType
      BY <1>2, <1>3, <2>1 DEF UIDType
    <3>. HIDE DEF next
    <3>. QED
      BY <2>1, <3>1, <3>2 DEF RowType
  <2>2. CASE ~moved(m)
    BY <1>3, <2>2
  <2>. QED
    BY <2>1, <2>2
<1>6. row' = [m \in Recorded |-> next[m]] /\ UNCHANGED folder
  <2>1. row = [m \in Recorded |-> row[m]]
    BY <1>3 DEF StoreTypes
  <2>. QED
    BY <1>1, <2>1 DEF Repointed
<1>. HIDE DEF next
<1>7. \A m \in Recorded : next[m].state = "done" <=> next[m].uid # Nobody
  BY <1>2, <1>3, <1>4, <1>5 DEF UIDType, Nobody
<1>8. StoreTypes' /\ Recorded' = Recorded /\ \A m \in Recorded : row'[m] = next[m]
  BY <1>3, <1>5, <1>6, <1>7, Rewrites
<1>9. Copies(doomed') = IF allowed THEN Duplicates ELSE {}
  <2>1. CASE allowed
    <3>1. doomed' = {[uid |-> u, src |-> Nobody] : u \in Duplicates}
      BY <1>1, <2>1
    <3>2. \A u \in Duplicates : [uid |-> u, src |-> Nobody].uid = u
      OBVIOUS
    <3>. QED
      BY <2>1, <3>1, <3>2 DEF Copies
  <2>2. CASE ~allowed
    BY <1>1, <2>2 DEF Copies
  <2>. QED
    BY <2>1, <2>2
<1>10. doomed' \subseteq Victim
  BY <1>1, <1>2 DEF Victim
<1>11. RunTypes'
  <2>1. refused' \in BOOLEAN
    BY <1>1 DEF Types, RunTypes
  <2>. QED
    BY <1>1, <1>10, <2>1 DEF Types, RunTypes, Phases
<1>12. Shape'
  BY <1>1 DEF Types, Shape, Open
<1>13. RestTypes' /\ loose \subseteq loose'
  BY <1>1, <1>2 DEF Types, RestTypes, UIDType
<1>14. SourceTypes' /\ DestTypes'
  BY <1>1 DEF Types, source, dest, SourceTypes, DestTypes, UIDs
<1>15. Types'
  BY <1>8, <1>11, <1>12, <1>13, <1>14 DEF Types
<1>16. \A m \in Recorded : moved(m) => row'[m].uid \in UIDs \cap loose' /\ row'[m].uid \notin Duplicates
                                       /\ box[row'[m].uid].content = box[row[m].uid].content
  BY <1>1, <1>2, <1>5, <1>8
<1>17. \A m \in Mirrored(p.src, dstVal) : row'[m].uid \notin Copies(doomed')
  BY <1>4, <1>5, <1>8, <1>9, <1>16
<1>18. \A m \in Mirrored(p.src, dstVal) : \A n \in Mirrored(p.src, dstVal) :
          /\ row'[m].uid = row'[n].uid => row[m].uid = row[n].uid \/ row'[m].uid \in loose'
          /\ row'[m].uid # row'[n].uid => row[m].uid # row[n].uid
  BY <1>4, <1>5, <1>8, <1>16
<1>19. /\ Copies(doomed') \subseteq UIDs
       /\ \A u \in Copies(doomed') : \E w \in UIDs \ Copies(doomed') :
             box[w].content = box[u].content
  BY <1>2, <1>9
<1>20. \A m \in Recorded :
         /\ row'[m].state = row[m].state /\ row'[m].src = row[m].src
         /\ row'[m].dst = row[m].dst /\ row'[m].flag = row[m].flag
         /\ \/ row'[m] = row[m]
            \/ /\ m \in Mirrored(p.src, dstVal) /\ row[m].uid \in UIDs
               /\ row'[m].uid \in UIDs \cap loose'
               /\ box[row'[m].uid].content = box[row[m].uid].content
  BY <1>2, <1>5, <1>8, <1>16
<1>. QED
  BY <1>1, <1>8, <1>13, <1>15, <1>17, <1>18, <1>19, <1>20

PlanStep   == \E o \in Options, known \in BOOLEAN : Plan(o, known)
PassStep   == \E m \in Msgs : Passes(m)
AdoptStep  == \E m \in Msgs : Takes(m)
AppendStep == \E m \in Msgs : Sends(m)
FlagStep   == \E c \in changes : StoreFlags(c)
FlagFails  == \E c \in changes : StoreFails(c)
CopySteps  == PassStep \/ AdoptStep \/ AppendStep

\* Every step is one of these.
LEMMA Steps ==
    ASSUME Next
    PROVE  \/ SourceStep \/ RenumberStep \/ EditStep \/ PlanStep \/ Dedup \/ EndStep
           \/ Prepare \/ Recover \/ Verify \/ Diff \/ PassStep \/ AdoptStep \/ AppendStep
           \/ SettleDuplicates \/ FlagStep \/ FlagFails \/ Condemn \/ DeletesNothing
           \/ (Expunge \/ RemoveDuplicates) \/ Forget \/ FindDuplicates
<1>1. CASE \E o \in Options, known \in BOOLEAN : Plan(o, known)
  BY <1>1 DEF PlanStep
<1>2. CASE Dedup \/ RunStops
  BY <1>2 DEF EndStep
<1>3. CASE Others
  BY <1>3 DEF Others, SourceStep, RenumberStep, EditStep
<1>4. CASE RunGoesOn
  BY <1>4 DEF RunGoesOn, EndStep, CopyMessage, Passes, Takes, Sends, StoreChange, PassStep, AdoptStep, AppendStep,
     FlagStep, FlagFails
<1>. QED
  BY <1>1, <1>2, <1>3, <1>4 DEF Next

LEMMA TypesStep ==
    ASSUME Types, Next
    PROVE  Types'
<1>1. CASE SourceStep \/ RenumberStep \/ EditStep
  BY <1>1, SourceSteps, RenumberSteps, EditSteps
<1>2. CASE PlanStep \/ Dedup \/ EndStep
  BY <1>2, Plans, Dedups, EndSteps DEF PlanStep
<1>3. CASE Prepare \/ Recover \/ Verify \/ Diff
  BY <1>3, Prepares, Recovers, Verifies, Diffs
<1>4. CASE PassStep \/ AdoptStep \/ AppendStep
  BY <1>4, PassesBy, Adopts, CopiesOne DEF PassStep, AdoptStep, AppendStep, CopyEffect
<1>5. CASE SettleDuplicates \/ FlagStep \/ FlagFails
  BY <1>5, Settles, StoresFlags, FailsToStore DEF FlagStep, FlagFails
<1>6. CASE Condemn \/ DeletesNothing \/ Expunge \/ RemoveDuplicates \/ Forget \/ FindDuplicates
  BY <1>6, Condemns, KeepsAll, Expunges, Forgets, FindsDuplicates
<1>. QED
  BY <1>1, <1>2, <1>3, <1>4, <1>5, <1>6, Steps

LEMMA TypesImply == Types => TypeOK
<1>. SUFFICES ASSUME Types PROVE TypeOK
  OBVIOUS
<1>1. \A u \in UIDs : box[u].content \in Contents \cup Strangers \cup Range(Leftover)
  BY DEF Types, DestTypes, Anything
<1>2. \A m \in Recorded : /\ row[m].state \in {"done", "gone", "failed", "in_flight"}
                          /\ (row[m].state = "done" <=> row[m].uid # Nobody)
  BY DEF Types, StoreTypes, RowType
<1>3. folder.mark \in Nat /\ folder.deleted \in Nat
  BY DEF Types, StoreTypes, FolderType
<1>. QED
  BY <1>1, <1>2, <1>3 DEF TypeOK, Types, SourceTypes, DestTypes, StoreTypes, RunTypes, Shape, Going, Open

\* The mailboxes, the rows and the run never hold what the program cannot read.
THEOREM MirrorTypeSafety == Spec => []TypeOK
<1>1. Types /\ [Next]_vars => Types'
  <2>1. CASE UNCHANGED vars
    BY <2>1 DEF Types, SourceTypes, DestTypes, StoreTypes, RunTypes, RestTypes, Shape, vars,
       source, dest, store, run, history, UIDs, Recorded
  <2>. QED
    BY <2>1, TypesStep
<1>. QED
  BY <1>1, InitTypes, TypesImply, PTL DEF Spec

-----------------------------------------------------------------------------
(* The numberings *)

LEMMA Numbers ==
    ASSUME Types
    PROVE  /\ srcVal \in Nat \ {0} /\ dstVal \in Nat \ {0} /\ modseq \in Nat \ {0}
           /\ nextUID \in Nat \ {0} /\ \A u \in UIDs : u \in Nat \ {0} /\ u < nextUID
           /\ folder.src \in Nat /\ folder.dst \in Nat /\ folder.mark \in Nat /\ folder.deleted \in Nat
           /\ p.src \in Nat /\ p.dst \in Nat /\ p.modseq \in Nat /\ p.since \in Nat
           /\ \A m \in Recorded : /\ row[m].dst \in Nat /\ row[m].uid \in Nat /\ row[m].src \in Nat
                                  /\ row[m].state = "done" <=> row[m].uid # Nobody
<1>1. srcVal \in Nat \ {0} /\ dstVal \in Nat \ {0} /\ modseq \in Nat \ {0} /\ nextUID \in Nat \ {0}
  BY DEF Types, SourceTypes, DestTypes
<1>2. \A u \in UIDs : u \in Nat \ {0} /\ u < nextUID
  BY <1>1 DEF Types, DestTypes
<1>3. /\ folder.src \in Nat /\ folder.dst \in Nat /\ folder.mark \in Nat /\ folder.deleted \in Nat
      /\ p.src \in Nat /\ p.dst \in Nat /\ p.modseq \in Nat /\ p.since \in Nat
  BY DEF Types, StoreTypes, RunTypes, FolderType, PreparedType
<1>4. \A m \in Recorded : /\ row[m].dst \in Nat /\ row[m].uid \in Nat /\ row[m].src \in Nat
                          /\ row[m].state = "done" <=> row[m].uid # Nobody
  BY DEF Types, StoreTypes, RowType
<1>. QED
  BY <1>1, <1>2, <1>3, <1>4

LEMMA NumberingsStep ==
    ASSUME Base, Next
    PROVE  Numberings'
<1>0. Types /\ Numberings /\ Shape
  BY DEF Base, Types
<1>1. CASE SourceStep
  BY <1>0, <1>1, Numbers, SourceSteps, OthersRun DEF Types, Numberings, dest, store, history, Recorded
<1>2. CASE RenumberStep
  <2>1. dstVal' = dstVal + 1 /\ srcVal' = srcVal /\ shifted' = (phase \notin {"idle", "planned"})
        /\ UNCHANGED <<phase, opts, row, folder>> /\ p'.src = p.src /\ p'.dst = p.dst /\ Recorded' = Recorded
    BY <1>0, <1>2, RenumberSteps, OthersRun DEF Types, source, store, Recorded
  <2>2. (phase \in Open => p.dst # dstVal') /\ folder.dst <= dstVal' /\ \A m \in Recorded : row[m].dst <= dstVal'
    <3>1. phase \in Open => p.dst <= dstVal
      BY <1>0 DEF Numberings
    <3>. QED
      BY <1>0, <2>1, <3>1, Numbers DEF Numberings
  <2>3. phase \in Open \/ phase \in Going => phase \notin {"idle", "planned"}
    BY DEF Open, Going
  <2>. QED
    BY <1>0, <2>1, <2>2, <2>3 DEF Numberings
<1>3. CASE EditStep
  BY <1>0, <1>3, Numbers, EditSteps, OthersRun DEF Types, Numberings, source, store, Recorded
<1>4. CASE PlanStep
  BY <1>0, <1>4, Plans DEF PlanStep, Numberings, source, dest, store, Recorded, Open, Going
<1>5. CASE Dedup
  BY <1>0, <1>5, Dedups DEF Numberings, source, dest, store, Recorded, Open, Going
<1>6. CASE EndStep
  <2>1. phase' = "idle" /\ Recorded' = Recorded /\ row' = row /\ srcVal' = srcVal /\ dstVal' = dstVal
        /\ folder'.src = folder.src /\ folder'.dst = folder.dst
    BY <1>0, <1>6, EndSteps, RunOver DEF Recorded, source
  <2>2. folder'.src = 0 => folder'.mark = 0 /\ folder'.deleted = 0
    BY <1>0, <1>6, EndSteps DEF Numberings
  <2>. QED
    BY <1>0, <2>1, <2>2 DEF Numberings, Open, Going
<1>7. CASE Prepare
  <2>1. phase' \in {"opened", "recovered"} /\ ~shifted /\ shifted' = shifted /\ phase = "planned"
    BY <1>0, <1>7, Prepares DEF Shape, history
  <2>2. folder'.src = srcVal /\ folder'.dst = dstVal /\ UNCHANGED <<srcVal, dstVal, opts>>
        /\ p'.src = srcVal /\ p'.dst = dstVal
    BY <1>0, <1>7, Prepares DEF source, dest
  <2>3. CASE p'.kept
    <3>1. row' = row /\ Kept(srcVal, dstVal) /\ Recorded' = Recorded
      BY <1>0, <1>7, <2>3, Prepares DEF Recorded
    <3>2. folder.src \in {0, srcVal} /\ folder.dst \in {0, dstVal}
      BY <3>1 DEF Kept
    <3>3. \A m \in Recorded : row[m].src = srcVal /\ row[m].dst <= dstVal
                              /\ (row[m].state = "done" => dstVal <= row[m].dst)
      BY <1>0, <3>2, Numbers DEF Numberings
    <3>. QED
      BY <1>0, <2>1, <2>2, <3>1, <3>3, Numbers DEF Numberings, Open, Going
  <2>4. CASE ~p'.kept
    BY <1>0, <1>7, <2>1, <2>2, <2>4, Prepares, Numbers DEF Numberings, Open, Going
  <2>. QED
    BY <2>3, <2>4
<1>8. CASE Recover
  <2>1. phase \in Open /\ phase' \in Open /\ phase \in Going /\ phase' \in Going
    BY <1>0, <1>8, Recovers DEF Open, Going
  <2>2. /\ Recorded' = Recorded /\ UNCHANGED <<source, dest, folder, opts, p, shifted>>
        /\ phase = "opened" /\ phase' = "recovered"
        /\ \A m \in Recorded : row'[m].src = row[m].src /\ row'[m].dst \in {row[m].dst, p.dst}
              /\ (row'[m].state = "done" => row[m].state = "done" \/ row'[m].dst = p.dst)
              /\ (row'[m].dst # p.dst => row'[m].dst = row[m].dst)
    BY <1>0, <1>8, Recovers
  <2>3. p.dst = folder.dst
    BY <1>0, <2>1 DEF Numberings
  <2>4. \A m \in Recorded : row'[m].dst <= dstVal /\ (row'[m].state = "done" => folder.dst <= row'[m].dst)
    BY <1>0, <2>2, <2>3, Numbers DEF Numberings
  <2>. QED
    BY <1>0, <2>1, <2>2, <2>3, <2>4 DEF Numberings, source, dest
<1>9. CASE Verify
  BY <1>0, <1>9, Verifies DEF Numberings, source, dest, history, Open, Going
<1>10. CASE Diff
  BY <1>0, <1>10, Diffs DEF Numberings, source, dest, store, history, Open, Going, Recorded
<1>11. CASE CopySteps
  <2>1. PICK m \in Msgs : Passes(m) \/ Takes(m) \/ Sends(m)
    BY <1>11 DEF CopySteps, PassStep, AdoptStep, AppendStep
  <2>2. CopyEffect(m)
    BY <1>0, <2>1, PassesBy, Adopts, CopiesOne
  <2>3. phase \in Open /\ phase \in Going /\ phase = "copy" /\ phase' = "copy" /\ p.src = folder.src /\ p.dst = folder.dst
        /\ p.dst <= dstVal /\ folder.src # 0
    BY <1>0, <2>2 DEF CopyEffect, Numberings, Open, Going
  <2>4. row'[m].dst <= dstVal /\ (row'[m].state = "done" => folder.dst <= row'[m].dst)
    <3>1. CASE Passes(m)
        <4>1. row'[m].dst = 0 /\ row'[m].state \in {"gone", "failed", "in_flight"}
        BY <1>0, <3>1, PassesBy
      <4>. QED
        BY <1>0, <4>1, Numbers
    <3>2. CASE Takes(m)
      <4>1. row'[m].dst = p.dst
        BY <1>0, <3>2, Adopts
      <4>. QED
        BY <1>0, <2>3, <4>1, Numbers
    <3>3. CASE Sends(m)
      <4>1. row'[m].dst = dstVal
        BY <1>0, <3>3, CopiesOne
      <4>. QED
        BY <1>0, <2>3, <4>1, Numbers
    <3>. QED
      BY <2>1, <3>1, <3>2, <3>3
  <2>. QED
    BY <1>0, <2>2, <2>3, <2>4 DEF CopyEffect, Numberings, source
<1>12. CASE SettleDuplicates
  <2>1. /\ phase = "copy" /\ phase' = "store" /\ UNCHANGED <<srcVal, dstVal, folder, opts, p, shifted>>
        /\ Recorded' = Recorded /\ \A m \in Recorded : row'[m].src = row[m].src
        /\ \A m \in Recorded : row'[m] = row[m] \/ row'[m].dst = p.dst
    BY <1>0, <1>12, Settles DEF source, dest
  <2>2. p.dst = folder.dst
    BY <1>0, <2>1 DEF Numberings, Open
  <2>. QED
    BY <1>0, <2>1, <2>2, Numbers DEF Numberings, Open, Going
<1>13. CASE FlagStep
  BY <1>0, <1>13, StoresFlags DEF FlagStep, Numberings, source
<1>14. CASE FlagFails
  BY <1>0, <1>14, FailsToStore DEF FlagFails, Numberings, source, dest, store, history, Recorded
<1>15. CASE Condemn \/ DeletesNothing
  <2>1. /\ phase = "store" /\ phase' \in {"dedupe", "expunge"} /\ p'.src = p.src
        /\ UNCHANGED <<source, dest, store, opts, history>>
    BY <1>0, <1>15, Condemns, KeepsAll
  <2>. QED
    BY <1>0, <2>1 DEF Numberings, source, dest, store, history, Open, Going, Recorded
<1>16. CASE Expunge \/ RemoveDuplicates
  BY <1>0, <1>16, Expunges DEF Numberings, source, store, Open, Going, Recorded
<1>17. CASE Forget
  BY <1>0, <1>17, Forgets DEF Numberings, source, dest, history, Open, Going
<1>18. CASE FindDuplicates
  <2>1. /\ phase = "dedupe" /\ phase' \in {"remove", "finish"} /\ Recorded' = Recorded
        /\ UNCHANGED <<source, dest, folder, opts, p, shifted>>
        /\ \A m \in Recorded : row'[m].src = row[m].src /\ row'[m].dst = row[m].dst /\ row'[m].state = row[m].state
    BY <1>0, <1>18, FindsDuplicates
  <2>. QED
    BY <1>0, <2>1 DEF Numberings, source, dest, Open, Going
<1>. QED
  BY <1>1, <1>2, <1>3, <1>4, <1>5, <1>6, <1>7, <1>8, <1>9, <1>10, <1>11, <1>12, <1>13, <1>14,
     <1>15, <1>16, <1>17, <1>18, Steps DEF CopySteps

\* Which steps there are in the middle of a copy pass.
LEMMA InCopy ==
    ASSUME Types, Next, phase' = "copy"
    PROVE  SourceStep \/ RenumberStep \/ EditStep \/ CopySteps \/ Diff
<1>1. ~ (PlanStep \/ Dedup \/ EndStep)
  BY Plans, Dedups, EndSteps, RunOver DEF PlanStep
<1>2. ~ (Prepare \/ Recover \/ Verify)
  BY Prepares, Recovers, Verifies
<1>3. ~ (SettleDuplicates \/ FlagStep \/ FlagFails)
  BY Settles, StoresFlags, FailsToStore DEF FlagStep, FlagFails
<1>4. ~ (Condemn \/ DeletesNothing \/ Expunge \/ RemoveDuplicates \/ Forget \/ FindDuplicates)
  BY Condemns, KeepsAll, Expunges, Forgets, FindsDuplicates
<1>. QED
  BY <1>1, <1>2, <1>3, <1>4, Steps DEF CopySteps

LEMMA BelowNextStep ==
    ASSUME Base, Next
    PROVE  BelowNext'
<1>0. Types /\ Numberings /\ BelowNext /\ IndexTrue /\ Copying
  BY DEF Base
<1>. USE <1>0
<1>1. CASE SourceStep
  BY <1>1, SourceSteps DEF BelowNext, dest, store, Recorded
<1>2. CASE RenumberStep
  <2>1. dstVal' = dstVal + 1 /\ row' = row /\ Recorded' = Recorded
    BY <1>2, RenumberSteps DEF store, Recorded
  <2>2. \A m \in Recorded : row[m].dst # dstVal'
    BY <2>1, Numbers DEF Numberings
  <2>. QED
    BY <2>1, <2>2 DEF BelowNext
<1>3. CASE EditStep
  <2>1. row' = row /\ Recorded' = Recorded /\ dstVal' = dstVal /\ nextUID' \in {nextUID, nextUID + 1}
    BY <1>3, EditSteps DEF store, Recorded
  <2>. QED
    BY <2>1, Numbers DEF BelowNext
<1>4. CASE PlanStep \/ Dedup
  BY <1>4, Plans, Dedups DEF PlanStep, BelowNext, dest, store, Recorded
<1>5. CASE EndStep
  BY <1>5, EndSteps DEF BelowNext, Recorded
<1>6. CASE Prepare
  BY <1>6, Prepares DEF BelowNext, dest, Recorded
<1>7. CASE Recover
  <2>1. /\ Recorded' = Recorded /\ UNCHANGED dest
        /\ \A m \in Recorded : \/ row'[m].dst = row[m].dst /\ row'[m].uid = row[m].uid
                               \/ row'[m].uid \in UIDs
    BY <1>7, Recovers
  <2>. QED
    BY <2>1, Numbers DEF BelowNext, dest
<1>8. CASE Verify \/ Diff \/ Forget
  BY <1>8, Verifies, Diffs, Forgets DEF BelowNext, dest, store, Recorded
<1>9. CASE CopySteps
  <2>1. PICK m \in Msgs : Passes(m) \/ Takes(m) \/ Sends(m)
    BY <1>9 DEF CopySteps, PassStep, AdoptStep, AppendStep
  <2>2. CopyEffect(m)
    BY <2>1, PassesBy, Adopts, CopiesOne
  <2>3. (row'[m].dst = dstVal => row'[m].uid < nextUID') /\ nextUID' \in {nextUID, nextUID + 1}
    <3>1. CASE Passes(m)
      <4>1. row'[m].dst = 0 /\ UNCHANGED dest
        BY <3>1, PassesBy
      <4>. QED
        BY <4>1, Numbers DEF dest
    <3>2. CASE Takes(m)
      <4>2. UNCHANGED dest /\ row'[m].dst = p.dst /\ \E e \in index : row'[m].uid = e.uid
        BY <3>2, Adopts
      <4>3. p.dst = dstVal => ~shifted
        BY <2>2 DEF CopyEffect, Numberings, Open
      <4>. QED
        BY <4>2, <4>3 DEF IndexTrue, dest
    <3>3. CASE Sends(m)
      <4>1. row'[m].uid = nextUID /\ nextUID' = nextUID + 1
        BY <3>3, CopiesOne
      <4>. QED
        BY <4>1, Numbers
    <3>. QED
      BY <2>1, <3>1, <3>2, <3>3
  <2>. QED
    BY <2>2, <2>3, Numbers DEF CopyEffect, BelowNext
<1>10. CASE SettleDuplicates
  <2>1. /\ Recorded' = Recorded /\ UNCHANGED dest
        /\ \A m \in Recorded :
              \/ row'[m] = row[m]
              \/ \E s \in Mirrored(p.src, p.dst) : row'[m].uid = row[s].uid /\ row'[m].dst = p.dst
    BY <1>10, Settles
  <2>2. \A s \in Mirrored(p.src, p.dst) : s \in Recorded /\ row[s].dst = p.dst
    BY DEF Mirrored
  <2>. QED
    BY <2>1, <2>2 DEF BelowNext, dest
<1>11. CASE FlagStep
  BY <1>11, StoresFlags DEF FlagStep, BelowNext
<1>12. CASE FlagFails
  BY <1>12, FailsToStore DEF FlagFails, BelowNext, dest, store, Recorded
<1>13. CASE Condemn \/ DeletesNothing
  BY <1>13, Condemns, KeepsAll DEF BelowNext, dest, store, Recorded
<1>14. CASE Expunge \/ RemoveDuplicates
  BY <1>14, Expunges DEF BelowNext, store, Recorded
<1>15. CASE FindDuplicates
  <2>1. /\ Recorded' = Recorded /\ UNCHANGED dest
        /\ \A m \in Recorded : row'[m] = row[m] \/ row'[m].uid \in UIDs
    BY <1>15, FindsDuplicates
  <2>. QED
    BY <2>1, Numbers DEF BelowNext, dest
<1>. QED
  BY <1>1, <1>2, <1>3, <1>4, <1>5, <1>6, <1>7, <1>8, <1>9, <1>10, <1>11, <1>12, <1>13, <1>14,
     <1>15, Steps DEF CopySteps

\* What the index of the destination holds is there, or was.
LEMMA IndexStep ==
    ASSUME Base, Next
    PROVE  IndexTrue'
<1>0. Types /\ Numberings /\ IndexTrue /\ Shape
  BY DEF Base, Types
<1>. USE <1>0
<1>1. CASE index' = {}
  BY <1>1 DEF IndexTrue
<1>2. CASE SourceStep
  BY <1>2, SourceSteps, OthersRun DEF Types, IndexTrue, dest, history, UIDs
<1>3. CASE RenumberStep
  BY <1>1, <1>3, RenumberSteps, OthersRun DEF Types, IndexTrue, Shape
<1>4. CASE EditStep
  <2>1. /\ index' = index /\ shifted' = shifted
        /\ \/ /\ UIDs' = UIDs \cup {nextUID} /\ nextUID' = nextUID + 1 /\ removed' = removed
              /\ \A u \in UIDs : box'[u] = box[u] /\ u # nextUID
           \/ /\ nextUID' = nextUID /\ removed \subseteq removed'
              /\ UIDs \cup removed \subseteq UIDs' \cup removed' /\ UIDs' \subseteq UIDs
              /\ \A u \in UIDs' : box'[u].content = box[u].content
    <3>1. index' = index
      BY <1>4, EditSteps, OthersRun DEF Types
    <3>. QED
      BY <1>4, <3>1, EditSteps
  <2>2. \A e \in index : e.uid \in Nat
    BY DEF Types, RunTypes, UIDType
  <2>. QED
    BY <2>1, <2>2, Numbers DEF IndexTrue
<1>5. CASE Diff
  <2>1. \A e \in index' : e.uid \in UIDs /\ e.content = box[e.uid].content
    BY <1>5, Diffs
  <2>2. UNCHANGED dest
    BY <1>5, Diffs
  <2>. QED
    BY <2>1, <2>2, Numbers DEF IndexTrue, dest, UIDs
<1>6. CASE CopySteps
  <2>1. PICK m \in Msgs : Passes(m) \/ Takes(m) \/ Sends(m)
    BY <1>6 DEF CopySteps, PassStep, AdoptStep, AppendStep
  <2>2. shifted' = shifted /\ removed' = removed
    BY <2>1, PassesBy, Adopts, CopiesOne DEF CopyEffect
  <2>3. CASE Passes(m) \/ Takes(m)
    <3>1. UNCHANGED dest /\ index' \subseteq index
      BY <2>3, PassesBy, Adopts
    <3>. QED
      BY <2>2, <3>1 DEF IndexTrue, dest, UIDs
  <2>4. CASE Sends(m)
    <3>1. /\ UIDs' = UIDs \cup {nextUID} /\ nextUID' = nextUID + 1 /\ index' = index
          /\ \A u \in UIDs : box'[u] = box[u] /\ u # nextUID
      BY <2>4, CopiesOne
    <3>2. \A e \in index : e.uid \in Nat
      BY DEF Types, RunTypes, UIDType
    <3>. QED
      BY <2>2, <3>1, <3>2, Numbers DEF IndexTrue
  <2>. QED
    BY <2>1, <2>3, <2>4
<1>7. CASE phase' # "copy"
  BY <1>1, <1>7, TypesStep DEF Types, Shape
<1>8. CASE phase' = "copy"
  BY <1>2, <1>3, <1>4, <1>5, <1>6, <1>8, InCopy
<1>. QED
  BY <1>7, <1>8

\* Only the copy pass makes rows, and only it finds a message gone.
LEMMA QuietSteps ==
    ASSUME Base, Next, ~SourceStep, ~CopySteps
    PROVE  /\ UNCHANGED source /\ Recorded' \subseteq Recorded /\ p'.live \in {p.live, {}, listed}
           /\ \A m \in Recorded' : row'[m].state = "gone" => row[m].state = "gone"
<1>0. Types
  BY DEF Base
<1>. USE <1>0
<1>1. CASE RenumberStep \/ EditStep
  BY <1>1, RenumberSteps, EditSteps, OthersRun DEF Types, store, Recorded
<1>2. CASE PlanStep \/ Dedup
  BY <1>2, Plans, Dedups DEF PlanStep, store, Recorded
<1>3. CASE EndStep
  BY <1>3, EndSteps, RunOver DEF Recorded, NotPrepared
<1>4. CASE Prepare
  BY <1>4, Prepares DEF Recorded
<1>5. CASE Recover
  BY <1>5, Recovers
<1>6. CASE Verify \/ Forget
  BY <1>6, Verifies, Forgets
<1>7. CASE Diff
  BY <1>7, Diffs DEF store, Recorded
<1>8. CASE SettleDuplicates
  BY <1>8, Settles
<1>9. CASE FlagStep
  BY <1>9, StoresFlags DEF FlagStep
<1>10. CASE FlagFails
  BY <1>10, FailsToStore DEF FlagFails, store, Recorded
<1>11. CASE Condemn \/ DeletesNothing
  BY <1>11, Condemns, KeepsAll DEF store, Recorded
<1>12. CASE Expunge \/ RemoveDuplicates
  BY <1>12, Expunges DEF store, Recorded
<1>13. CASE FindDuplicates
  BY <1>13, FindsDuplicates
<1>. QED
  BY <1>1, <1>2, <1>3, <1>4, <1>5, <1>6, <1>7, <1>8, <1>9, <1>10, <1>11, <1>12, <1>13, Steps DEF CopySteps

LEMMA SeenStep ==
    ASSUME Base, Next
    PROVE  Seen'
<1>0. Types /\ Seen /\ Copying /\ modseq \in Nat \ {0} /\ changed \in [Msgs -> Nat] /\ listed \subseteq Msgs
      /\ Recorded \subseteq Msgs
  BY DEF Base, Types, SourceTypes, StoreTypes
<1>. USE <1>0
<1>1. CASE SourceStep
  <2>1. row' = row /\ Recorded' = Recorded /\ p'.live = p.live
    BY <1>1, SourceSteps, OthersRun DEF Types, store, Recorded
  <2>2. CASE srcVal' = srcVal + 1 /\ modseq' = 2 /\ listed' = listed /\ \A m \in Msgs : changed'[m] = 2
    BY <2>1, <2>2 DEF Seen
  <2>3. ASSUME NEW m \in Msgs, modseq' = modseq + 1, changed'[m] = modseq + 1,
               \A n \in Msgs \ {m} : changed'[n] = changed[n],
               \/ m \notin listed /\ changed[m] = 1 /\ listed' = listed \cup {m}
               \/ m \in listed /\ listed' \in {listed, listed \ {m}}
        PROVE  Seen'
    <3>1. \A n \in Msgs : changed'[n] \in 1..modseq'
      BY <2>3 DEF Seen
    <3>2. \A n \in Msgs \ listed' : changed'[n] = 1 => n # m /\ n \notin listed /\ changed[n] = 1
      BY <2>3
    <3>3. \A n \in listed' \cap Recorded : n \in listed
      BY <2>3 DEF Seen
    <3>. QED
      BY <2>1, <3>1, <3>2, <3>3 DEF Seen
  <2>. QED
    BY <1>1, <2>2, <2>3, SourceSteps
<1>2. CASE CopySteps
  <2>1. PICK m \in Msgs : Passes(m) \/ Takes(m) \/ Sends(m)
    BY <1>2 DEF CopySteps, PassStep, AdoptStep, AppendStep
  <2>2. CopyEffect(m)
    BY <2>1, PassesBy, Adopts, CopiesOne
  <2>3. m \in p.live /\ m \notin Excluded
    BY <2>2 DEF CopyEffect, Copying
  <2>4. m \in listed => row'[m].state # "gone"
    <3>1. CASE Passes(m)
      BY <3>1, PassesBy
    <3>2. CASE Takes(m)
      BY <3>2, Adopts
    <3>3. CASE Sends(m)
      BY <3>3, CopiesOne
    <3>. QED
      BY <2>1, <3>1, <3>2, <3>3
  <2>. QED
    BY <2>2, <2>3, <2>4 DEF CopyEffect, Seen, source
<1>3. CASE ~SourceStep /\ ~CopySteps
  <2>1. /\ UNCHANGED source /\ Recorded' \subseteq Recorded /\ p'.live \in {p.live, {}, listed}
        /\ \A m \in Recorded' : row'[m].state = "gone" => row[m].state = "gone"
    BY <1>3, QuietSteps
  <2>. QED
    BY <2>1 DEF Seen, source
<1>. QED
  BY <1>1, <1>2, <1>3

\* What a run listed, it lists until it is over.
AfterDiff == Going \ {"opened", "recovered", "verified"}

LEMMA LiveStays ==
    ASSUME Base, Next, phase' \in AfterDiff, ~Diff
    PROVE  phase \in AfterDiff /\ p'.live = p.live
<1>0. Types
  BY DEF Base
<1>. USE <1>0 DEF AfterDiff, Going, Open
<1>1. CASE SourceStep \/ RenumberStep \/ EditStep
  BY <1>1, SourceSteps, RenumberSteps, EditSteps, OthersRun DEF Types
<1>2. CASE PlanStep \/ Dedup \/ EndStep
  BY <1>2, Plans, Dedups, EndSteps, RunOver DEF PlanStep
<1>3. CASE Prepare \/ Recover \/ Verify
  BY <1>3, Prepares, Recovers, Verifies
<1>4. CASE CopySteps
  BY <1>4, PassesBy, Adopts, CopiesOne DEF CopySteps, PassStep, AdoptStep, AppendStep, CopyEffect
<1>5. CASE SettleDuplicates \/ FlagStep \/ FlagFails
  BY <1>5, Settles, StoresFlags, FailsToStore DEF FlagStep, FlagFails
<1>6. CASE Condemn \/ DeletesNothing \/ Expunge \/ RemoveDuplicates \/ Forget \/ FindDuplicates
  BY <1>6, Condemns, KeepsAll, Expunges, Forgets, FindsDuplicates
<1>. QED
  BY <1>1, <1>2, <1>3, <1>4, <1>5, <1>6, Steps DEF CopySteps

LEMMA CopyingStep ==
    ASSUME Base, Next
    PROVE  Copying'
<1>0. Types /\ Seen /\ Copying /\ Numberings /\ Types' /\ Shape /\ Shape'
  BY TypesStep DEF Base, Types
<1>. USE <1>0
<1>. DEFINE Memory ==
              /\ todo \cup bodies \cup dupes \subseteq p.live
              /\ todo \cap (Excluded \cup dupes) = {}
              /\ \A m \in todo \cap Recorded : row[m].state \notin {"done", "gone"}
              /\ \A s \in bodies : s \in Recorded /\ row[s].state = "done" /\ (~shifted => row[s].dst = p.dst)
              /\ \A m \in dupes : /\ m \in Recorded /\ row[m].state = "in_flight"
                                  /\ \E s \in bodies : Content[s] = Content[m]
            Known == phase \in AfterDiff => Recorded \cap listed \subseteq p.live
<1>1. Memory'
  <2>1. CASE phase' # "copy"
    BY <2>1 DEF Shape
  <2>2. CASE SourceStep /\ phase' = "copy"
    BY <2>2, SourceSteps, OthersRun DEF Types, Copying, store, history, Recorded
  <2>3. CASE RenumberStep /\ phase' = "copy"
    <3>1. phase = "copy" /\ shifted' = TRUE /\ UNCHANGED <<todo, bodies, dupes, row>> /\ p'.live = p.live /\ Recorded' = Recorded
      BY <2>3, RenumberSteps, OthersRun DEF Types, store, Recorded
    <3>. QED
      BY <3>1 DEF Copying
  <2>4. CASE EditStep /\ phase' = "copy"
    BY <2>4, EditSteps, OthersRun DEF Types, Copying, store, Recorded
  <2>5. CASE Diff
    <3>1. /\ todo' = (listed \ Settled(p.src)) \ Excluded /\ p'.live = listed /\ UNCHANGED <<row, bodies, dupes, folder>>
          /\ phase = "verified" /\ Recorded' = Recorded
      BY <2>5, Diffs DEF store, Recorded
    <3>2. bodies = {} /\ dupes = {} /\ p.src = folder.src
      BY <3>1 DEF Shape, Numberings
    <3>3. \A m \in todo' \cap Recorded : row[m].state \notin {"done", "gone"}
      BY <3>1, <3>2 DEF Settled, SyncedUIDs, Numberings
    <3>. QED
      BY <3>1, <3>2, <3>3
  <2>6. CASE CopySteps
    <3>1. PICK m \in Msgs : Passes(m) \/ Takes(m) \/ Sends(m)
      BY <2>6 DEF CopySteps, PassStep, AdoptStep, AppendStep
    <3>2. CopyEffect(m)
      BY <3>1, PassesBy, Adopts, CopiesOne
    <3>3. /\ m \in p.live /\ m \notin dupes /\ m \notin bodies /\ todo' = todo \ {m}
          /\ UNCHANGED <<p, shifted>> /\ Recorded' = Recorded \cup {m}
          /\ \A n \in Recorded \ {m} : row'[n] = row[n]
      BY <3>2 DEF CopyEffect, Copying
    <3>4. CASE Passes(m)
      <4>1. /\ bodies' = bodies
            /\ \/ dupes' = dupes
               \/ /\ dupes' = dupes \cup {m} /\ row'[m].state = "in_flight"
                  /\ \E s \in bodies : Content[s] = Content[m]
        BY <3>4, PassesBy
      <4>. QED
        BY <3>3, <4>1 DEF Copying
    <3>5. CASE Takes(m)
      <4>1. UNCHANGED <<bodies, dupes>>
        BY <3>5, Adopts
      <4>. QED
        BY <3>3, <4>1 DEF Copying
    <3>6. CASE Sends(m)
      <4>1. bodies' = bodies \cup {m} /\ dupes' = dupes /\ row'[m].state = "done" /\ row'[m].dst = dstVal
        BY <3>6, CopiesOne
      <4>2. ~shifted => p.dst = dstVal
        BY <3>2 DEF CopyEffect, Numberings, Open
      <4>. QED
        BY <3>3, <4>1, <4>2 DEF Copying
    <3>. QED
      BY <3>1, <3>4, <3>5, <3>6
  <2>. QED
    BY <2>1, <2>2, <2>3, <2>4, <2>5, <2>6, InCopy
<1>2. Known'
  <2>1. CASE phase' \notin AfterDiff
    BY <2>1
  <2>2. CASE Diff
    BY <2>2, Diffs DEF source
  <2>3. CASE phase' \in AfterDiff /\ ~Diff
    <3>1. phase \in AfterDiff /\ p'.live = p.live
      BY <2>3, LiveStays
    <3>2. Known
      BY DEF Copying, AfterDiff
    <3>3. CASE SourceStep
      <4>1. Recorded' = Recorded
        BY <3>3, SourceSteps DEF store, Recorded
      <4>2. listed' \cap Recorded \subseteq listed
        <5>1. \/ listed' = listed
              \/ \E m \in Msgs : \/ m \notin listed /\ changed[m] = 1 /\ listed' = listed \cup {m}
                                 \/ m \in listed /\ listed' \in {listed, listed \ {m}}
          BY <3>3, SourceSteps
        <5>. QED
          BY <5>1 DEF Seen
      <4>. QED
        BY <3>1, <3>2, <4>1, <4>2
    <3>4. CASE CopySteps
      <4>1. PICK m \in Msgs : Passes(m) \/ Takes(m) \/ Sends(m)
        BY <3>4 DEF CopySteps, PassStep, AdoptStep, AppendStep
      <4>2. CopyEffect(m)
        BY <4>1, PassesBy, Adopts, CopiesOne
      <4>3. m \in p.live /\ Recorded' = Recorded \cup {m} /\ listed' = listed
        BY <4>2 DEF CopyEffect, Copying, source
      <4>. QED
        BY <3>1, <3>2, <4>3
    <3>5. CASE ~SourceStep /\ ~CopySteps
      BY <3>1, <3>2, <3>5, QuietSteps DEF source
    <3>. QED
      BY <3>3, <3>4, <3>5
  <2>. QED
    BY <2>1, <2>2, <2>3
<1>. QED
  BY <1>1, <1>2 DEF Copying, AfterDiff

LEMMA BaseInit == Init => Base
<1>. SUFFICES ASSUME Init PROVE Base
  OBVIOUS
<1>1. Types /\ Recorded = {} /\ index = {} /\ folder = NoFolder /\ srcVal = 1 /\ dstVal = 1 /\ phase = "idle"
      /\ todo = {} /\ bodies = {} /\ dupes = {} /\ p.live = {} /\ modseq = 1 /\ \A m \in Msgs : changed[m] = 1
  BY InitTypes DEF Init, Recorded, NotPrepared
<1>2. Numberings
  BY <1>1 DEF Numberings, NoFolder, Going, Open
<1>. QED
  BY <1>1, <1>2 DEF Base, BelowNext, IndexTrue, Seen, Copying, Going, Open

LEMMA BaseStep ==
    ASSUME Base, [Next]_vars
    PROVE  Base'
<1>1. CASE Next
  BY <1>1, TypesStep, NumberingsStep, BelowNextStep, IndexStep, SeenStep, CopyingStep DEF Base
<1>2. CASE UNCHANGED vars
  BY <1>2 DEF Base, Types, SourceTypes, DestTypes, StoreTypes, RunTypes, RestTypes, Shape, vars,
     source, dest, store, run, history, UIDs, Recorded, Numberings, BelowNext, IndexTrue, Seen, Copying
<1>. QED
  BY <1>1, <1>2

-----------------------------------------------------------------------------
(* Claims *)

Counts(m) == m \in Recorded /\ row[m].state = "done" /\ row[m].dst = dstVal

LEMMA ClaimsAre ==
    ASSUME Base
    PROVE  /\ \A m : m \in Claims <=> Counts(m)
           /\ phase \notin {"idle", "planned"} => Mirrored(p.src, dstVal) = Claims
           /\ phase \in Open /\ ~shifted => Mirrored(p.src, p.dst) = Claims /\ p.dst = dstVal
           /\ \A m \in Claims : row[m].uid \in Nat \ {0} /\ row[m].uid < nextUID
<1>1. \A m \in Recorded : row[m].src = folder.src
  BY DEF Base, Numberings
<1>2. \A m : m \in Claims <=> Counts(m)
  BY <1>1 DEF Claims, Mirrored, Counts
<1>3. phase \notin {"idle", "planned"} => p.src = folder.src
  BY DEF Base, Numberings
<1>4. phase \in Open /\ ~shifted => p.dst = dstVal /\ p.src = folder.src
  BY <1>3 DEF Base, Numberings, Open
<1>5. \A m \in Claims : row[m].uid \in Nat \ {0} /\ row[m].uid < nextUID
  <2>1. Types
    BY DEF Base
  <2>2. \A m \in Claims : row[m].uid \in Nat /\ row[m].uid # Nobody
    BY <1>2, <2>1, Numbers DEF Counts
  <2>3. \A m \in Claims : row[m].uid < nextUID
    BY <1>2 DEF Counts, Base, BelowNext
  <2>. QED
    BY <2>2, <2>3 DEF Nobody
<1>. QED
  BY <1>2, <1>3, <1>4, <1>5 DEF Claims

LEMMA ClaimsNext ==
    ASSUME Base'
    PROVE  /\ \A m : m \in Claims' <=> Counts(m)'
           /\ \A m : Counts(m)' => m \in Msgs
<1>1. \A m \in Recorded' : row'[m].src = folder'.src
  BY DEF Base, Numberings
<1>2. Recorded' \subseteq Msgs
  BY DEF Base, Types, StoreTypes
<1>. QED
  BY <1>1, <1>2 DEF Claims, Mirrored, Counts

\* A message that comes back, or for the first time, has no row.
LEMMA NewcomersUnrecorded ==
    ASSUME Base, Next
    PROVE  listed' \cap Recorded \subseteq listed
<1>1. CASE SourceStep
  <2>1. \/ listed' = listed
        \/ \E m \in Msgs : \/ m \notin listed /\ changed[m] = 1 /\ listed' = listed \cup {m}
                           \/ m \in listed /\ listed' \in {listed, listed \ {m}}
    BY <1>1, SourceSteps DEF Base
  <2>. QED
    BY <2>1 DEF Base, Seen
<1>2. CASE CopySteps
  BY <1>2, PassesBy, Adopts, CopiesOne DEF Base, CopySteps, PassStep, AdoptStep, AppendStep, CopyEffect, source
<1>3. CASE ~SourceStep /\ ~CopySteps
  BY <1>3, QuietSteps DEF source
<1>. QED
  BY <1>1, <1>2, <1>3

LEMMA RenumberedUnclaimed ==
    ASSUME Base, RenumberStep
    PROVE  \A m : ~Counts(m)'
<1>1. dstVal' = dstVal + 1 /\ row' = row /\ Recorded' = Recorded /\ Types
  BY RenumberSteps DEF Base, store, Recorded
<1>2. \A m \in Recorded : row[m].dst # dstVal'
  BY <1>1, Numbers DEF Base, Numberings
<1>. QED
  BY <1>1, <1>2 DEF Counts

LEMMA HonouredStep ==
    ASSUME Base, ClaimInv, Next
    PROVE  ClaimsHonoured'
<1>0. /\ Types /\ Base' /\ listed' \cap Recorded \subseteq listed
      /\ \A m : m \in Claims <=> Counts(m)
      /\ \A m : m \in Claims' <=> Counts(m)'
      /\ \A m \in Claims \cap listed : row[m].uid \in UIDs \cup removed
  <2>1. Base'
    BY BaseStep
  <2>2. Types /\ \A m \in Claims \cap listed : row[m].uid \in UIDs \cup removed
    BY DEF Base, ClaimInv, ClaimsHonoured
  <2>. QED
    BY <2>1, <2>2, ClaimsAre, ClaimsNext, NewcomersUnrecorded
<1>. SUFFICES ASSUME NEW m, Counts(m)', m \in listed'
              PROVE  row'[m].uid \in UIDs' \cup removed'
  BY <1>0 DEF ClaimsHonoured
<1>. USE <1>0
<1>a. m \in Msgs
  BY ClaimsNext
<1>1. CASE SourceStep
  BY <1>1, SourceSteps DEF Counts, dest, store, history, Recorded, UIDs
<1>2. CASE RenumberStep
  BY <1>2, RenumberedUnclaimed
<1>3. CASE EditStep
  <2>1. UNCHANGED <<row, listed, dstVal>> /\ UIDs \cup removed \subseteq UIDs' \cup removed'
    BY <1>3, EditSteps DEF store, source
  <2>. QED
    BY <2>1 DEF Counts, Recorded
<1>4. CASE PlanStep \/ Dedup
  BY <1>4, Plans, Dedups DEF PlanStep, Counts, source, dest, store, history, Recorded, UIDs
<1>5. CASE EndStep
  BY <1>5, EndSteps DEF Counts, source, Recorded
<1>6. CASE Prepare
  BY <1>6, Prepares DEF Counts, source, dest, history, Recorded, UIDs
<1>7. CASE Recover
  BY <1>7, Recovers DEF Counts, source, dest, UIDs
<1>8. CASE Verify \/ Diff \/ Forget
  BY <1>8, Verifies, Diffs, Forgets DEF Counts, source, dest, store, history, Recorded, UIDs
<1>9. CASE CopySteps
  <2>1. PICK n \in Msgs : Passes(n) \/ Takes(n) \/ Sends(n)
    BY <1>9 DEF CopySteps, PassStep, AdoptStep, AppendStep
  <2>2. CopyEffect(n)
    BY <2>1, PassesBy, Adopts, CopiesOne
  <2>3. CASE m # n
    <3>1. UIDs \subseteq UIDs'
      BY <2>1, PassesBy, Adopts, CopiesOne DEF dest, UIDs
    <3>. QED
      BY <2>2, <2>3, <3>1 DEF CopyEffect, Counts, source
  <2>4. CASE Passes(m)
    BY <1>a, <2>4, PassesBy DEF Counts
  <2>5. CASE Takes(m)
    <3>1. row'[m].dst = p.dst /\ UNCHANGED dest /\ \E e \in index : row'[m].uid = e.uid
      BY <1>a, <2>5, Adopts
    <3>2. p.dst = dstVal /\ phase \in Open
      BY <2>2, <3>1 DEF CopyEffect, Counts, Open
    <3>3. ~shifted
      BY <3>2 DEF Base, Numberings
    <3>. QED
      BY <2>2, <3>1, <3>3 DEF Base, IndexTrue, CopyEffect, dest, UIDs
  <2>6. CASE Sends(m)
    BY <1>a, <2>6, CopiesOne
  <2>. QED
    BY <2>1, <2>3, <2>4, <2>5, <2>6
<1>10. CASE SettleDuplicates
  <2>1. /\ UNCHANGED <<source, dest, removed>> /\ phase = "copy" /\ Recorded' = Recorded
        /\ \/ row'[m] = row[m]
           \/ row'[m].dst = p.dst /\ \E s \in bodies : row'[m].uid = row[s].uid
    BY <1>10, Settles DEF Counts
  <2>2. row'[m].dst = p.dst => ~shifted
    BY <2>1 DEF Counts, dest, Base, Numberings, Open
  <2>. QED
    BY <2>1, <2>2 DEF ClaimInv, BodiesHonoured, Counts, source, dest, UIDs
<1>11. CASE FlagStep
  BY <1>11, StoresFlags DEF FlagStep, Counts, source
<1>12. CASE FlagFails
  BY <1>12, FailsToStore DEF FlagFails, Counts, source, dest, store, history, Recorded, UIDs
<1>13. CASE Condemn \/ DeletesNothing
  BY <1>13, Condemns, KeepsAll DEF Counts, source, dest, store, history, Recorded, UIDs
<1>14. CASE Expunge \/ RemoveDuplicates
  <2>1. /\ phase \in {"expunge", "remove"} /\ UNCHANGED <<listed, row, dstVal, shifted>>
        /\ UIDs' = UIDs \ Copies(doomed)
        /\ removed' = IF shifted THEN removed \cup Copies(doomed) ELSE removed
    BY <1>14, Expunges DEF source, store
  <2>2. Counts(m) /\ row'[m].uid = row[m].uid /\ m \in Claims \cap listed
    BY <2>1 DEF Counts, Recorded
  <2>3. ~shifted => row[m].uid \notin Copies(doomed)
    BY <2>1, <2>2 DEF ClaimInv, DoomedUnclaimed, Copies
  <2>. QED
    BY <2>1, <2>2, <2>3
<1>15. CASE FindDuplicates
  BY <1>15, FindsDuplicates DEF Counts, source, dest, UIDs
<1>. QED
  BY <1>1, <1>2, <1>3, <1>4, <1>5, <1>6, <1>7, <1>8, <1>9, <1>10, <1>11, <1>12, <1>13, <1>14,
     <1>15, Steps DEF CopySteps

LEMMA BodiesStep ==
    ASSUME Base, ClaimInv, Next
    PROVE  BodiesHonoured'
<1>0. Types /\ Copying /\ Numberings /\ BodiesHonoured /\ Types' /\ Shape /\ Shape'
  BY TypesStep DEF Base, ClaimInv, Types
<1>. USE <1>0
<1>1. CASE phase' # "copy"
  BY <1>1 DEF Shape, BodiesHonoured
<1>2. CASE SourceStep
  BY <1>2, SourceSteps, OthersRun DEF Types, BodiesHonoured, dest, store, history, UIDs
<1>3. CASE RenumberStep /\ phase' = "copy"
  BY <1>3, RenumberSteps, OthersRun DEF Types, BodiesHonoured
<1>4. CASE EditStep
  <2>1. UNCHANGED <<row, shifted>> /\ UIDs \cup removed \subseteq UIDs' \cup removed' /\ bodies' = bodies
    BY <1>4, EditSteps, OthersRun DEF Types, store
  <2>. QED
    BY <2>1 DEF BodiesHonoured
<1>5. CASE Diff
  <2>1. bodies' = {}
    BY <1>5, Diffs DEF Shape
  <2>. QED
    BY <2>1 DEF BodiesHonoured
<1>6. CASE CopySteps
  <2>1. PICK n \in Msgs : Passes(n) \/ Takes(n) \/ Sends(n)
    BY <1>6 DEF CopySteps, PassStep, AdoptStep, AppendStep
  <2>2. CopyEffect(n)
    BY <2>1, PassesBy, Adopts, CopiesOne
  <2>3. n \notin bodies /\ UNCHANGED <<shifted, removed>> /\ \A s \in bodies : row'[s] = row[s]
    BY <2>2 DEF CopyEffect, Copying
  <2>4. UIDs \subseteq UIDs' /\ \A s \in bodies' : s \in bodies \/ row'[s].uid \in UIDs'
    <3>1. CASE Passes(n) \/ Takes(n)
      BY <3>1, PassesBy, Adopts DEF dest, UIDs
    <3>2. CASE Sends(n)
      <4>1. bodies' = bodies \cup {n} /\ UIDs' = UIDs \cup {nextUID} /\ row'[n].uid = nextUID
        BY <3>2, CopiesOne
      <4>. QED
        BY <4>1
    <3>. QED
      BY <2>1, <3>1, <3>2
  <2>. QED
    BY <2>3, <2>4 DEF BodiesHonoured
<1>. QED
  BY <1>1, <1>2, <1>3, <1>4, <1>5, <1>6, InCopy

\* Which steps there are while flags are stored.
LEMMA InStore ==
    ASSUME Types, Next, phase' = "store"
    PROVE  SourceStep \/ RenumberStep \/ EditStep \/ SettleDuplicates \/ FlagStep \/ FlagFails
<1>1. ~ (PlanStep \/ Dedup \/ EndStep)
  BY Plans, Dedups, EndSteps, RunOver DEF PlanStep
<1>2. ~ (Prepare \/ Recover \/ Verify \/ Diff)
  BY Prepares, Recovers, Verifies, Diffs
<1>3. ~ CopySteps
  BY PassesBy, Adopts, CopiesOne DEF CopySteps, PassStep, AdoptStep, AppendStep, CopyEffect
<1>4. ~ (Condemn \/ DeletesNothing \/ Expunge \/ RemoveDuplicates \/ Forget \/ FindDuplicates)
  BY Condemns, KeepsAll, Expunges, Forgets, FindsDuplicates
<1>. QED
  BY <1>1, <1>2, <1>3, <1>4, Steps DEF CopySteps

LEMMA MirrorStep ==
    ASSUME Base, ClaimInv, Next
    PROVE  MirrorTrue'
<1>0. Types /\ Copying /\ Numberings /\ MirrorTrue
  BY DEF Base, ClaimInv
<1>. USE <1>0
<1>. SUFFICES ASSUME phase' = "store" PROVE MirrorTrue'
  BY DEF MirrorTrue
<1>1. CASE SourceStep \/ RenumberStep \/ EditStep
  <2>1. row' = row /\ Recorded' = Recorded /\ UNCHANGED <<phase, mirror, changes>>
        /\ p'.live = p.live /\ p'.src = p.src /\ p'.dst = p.dst
    BY <1>1, SourceSteps, RenumberSteps, EditSteps, OthersRun DEF Types, store, Recorded
  <2>2. \A s, d : Mirrored(s, d)' = Mirrored(s, d)
    BY <2>1 DEF Mirrored
  <2>3. Mirrored(p.src, p.dst)' = Mirrored(p.src, p.dst)
    BY <2>1, <2>2 DEF Mirrored
  <2>. QED
    BY <2>1, <2>3 DEF MirrorTrue
<1>2. CASE SettleDuplicates
  <2>1. /\ phase = "copy" /\ p' = p /\ Recorded' = Recorded /\ mirror'.rows = MirrorRows(p.src, p.dst)
        /\ \A m \in Recorded :
              \/ row'[m] = row[m]
              \/ /\ m \in dupes
                 /\ \E s \in bodies : s \in Mirrored(p.src, p.dst) /\ row'[m].uid = row[s].uid
        /\ \A c \in changes' : \E r \in mirror'.rows : r.msg = c.msg /\ r.uid = c.uid
    BY <1>2, Settles
  <2>2. \A m \in Mirrored(p.src, p.dst) : /\ m \in Recorded /\ row[m].state = "done" /\ m \notin dupes
                                          /\ row[m].src = p.src /\ row[m].dst = p.dst
    BY DEF Mirrored, Copying
  <2>3. \A m \in Mirrored(p.src, p.dst) : row'[m] = row[m] /\ m \in Mirrored(p.src, p.dst)'
    BY <2>1, <2>2 DEF Mirrored
  <2>4. /\ \A r \in mirror'.rows : r.msg \in Mirrored(p.src, p.dst) /\ r.uid = row[r.msg].uid
        /\ \A m \in Mirrored(p.src, p.dst) : \E r \in mirror'.rows : r.msg = m /\ r.uid = row[m].uid
    BY <2>1, RowsTyped DEF Types
  <2>5. \A m \in Mirrored(p.src, p.dst)' : \E r \in mirror'.rows :
           r.uid = row'[m].uid /\ (r.msg = m \/ {m, r.msg} \subseteq p.live)
    <3>. TAKE m \in Mirrored(p.src, p.dst)'
    <3>1. m \in Recorded /\ row'[m].state = "done" /\ row'[m].src = p.src /\ row'[m].dst = p.dst
      BY <2>1 DEF Mirrored
    <3>2. CASE row'[m] = row[m]
      BY <2>4, <3>1, <3>2 DEF Mirrored
    <3>3. CASE m \in dupes /\ \E s \in bodies : s \in Mirrored(p.src, p.dst) /\ row'[m].uid = row[s].uid
      BY <2>4, <3>3 DEF Copying
    <3>. QED
      BY <2>1, <3>1, <3>2, <3>3
  <2>6. \A c \in changes' : c.msg \in Mirrored(p.src, p.dst)' /\ row'[c.msg].uid = c.uid
    BY <2>1, <2>3, <2>4
  <2>. QED
    BY <2>1, <2>3, <2>4, <2>5, <2>6 DEF MirrorTrue
<1>3. CASE FlagStep
  <2>1. PICK c \in changes : StoreFlags(c)
    BY <1>3 DEF FlagStep
  <2>2. /\ phase = "store" /\ p' = p /\ mirror' = mirror /\ changes' \subseteq changes /\ Recorded' = Recorded
        /\ \A m \in Recorded : /\ row'[m].state = row[m].state /\ row'[m].src = row[m].src
                               /\ row'[m].dst = row[m].dst /\ row'[m].uid = row[m].uid
    BY <2>1, StoresFlags
  <2>3. Mirrored(p.src, p.dst)' = Mirrored(p.src, p.dst) /\ Mirrored(p.src, p.dst) \subseteq Recorded
    BY <2>2 DEF Mirrored
  <2>. QED
    BY <2>2, <2>3 DEF MirrorTrue
<1>4. CASE FlagFails
  <2>1. phase = "store" /\ UNCHANGED <<p, mirror, row>> /\ changes' \subseteq changes
    BY <1>4, FailsToStore DEF FlagFails, store
  <2>2. Mirrored(p.src, p.dst)' = Mirrored(p.src, p.dst)
    BY <2>1 DEF Mirrored, Recorded
  <2>. QED
    BY <2>1, <2>2 DEF MirrorTrue
<1>. QED
  BY <1>1, <1>2, <1>3, <1>4, InStore

\* Which steps there are between the choice of what goes and its removal.
LEMMA InExpunge ==
    ASSUME Types, Next, phase' \in {"expunge", "forget"}
    PROVE  SourceStep \/ RenumberStep \/ EditStep \/ Condemn \/ (Expunge \/ RemoveDuplicates)
<1>1. ~ (PlanStep \/ Dedup \/ EndStep)
  BY Plans, Dedups, EndSteps, RunOver DEF PlanStep
<1>2. ~ (Prepare \/ Recover \/ Verify \/ Diff)
  BY Prepares, Recovers, Verifies, Diffs
<1>3. ~ CopySteps
  BY PassesBy, Adopts, CopiesOne DEF CopySteps, PassStep, AdoptStep, AppendStep, CopyEffect
<1>4. ~ (SettleDuplicates \/ FlagStep \/ FlagFails)
  BY Settles, StoresFlags, FailsToStore DEF FlagStep, FlagFails
<1>5. ~ (DeletesNothing \/ Forget \/ FindDuplicates)
  BY KeepsAll, Forgets, FindsDuplicates
<1>. QED
  BY <1>1, <1>2, <1>3, <1>4, <1>5, Steps DEF CopySteps

LEMMA InRemove ==
    ASSUME Types, Next, phase' = "remove"
    PROVE  SourceStep \/ RenumberStep \/ EditStep \/ FindDuplicates
<1>1. ~ (PlanStep \/ Dedup \/ EndStep)
  BY Plans, Dedups, EndSteps, RunOver DEF PlanStep
<1>2. ~ (Prepare \/ Recover \/ Verify \/ Diff)
  BY Prepares, Recovers, Verifies, Diffs
<1>3. ~ CopySteps
  BY PassesBy, Adopts, CopiesOne DEF CopySteps, PassStep, AdoptStep, AppendStep, CopyEffect
<1>4. ~ (SettleDuplicates \/ FlagStep \/ FlagFails)
  BY Settles, StoresFlags, FailsToStore DEF FlagStep, FlagFails
<1>5. ~ (Condemn \/ DeletesNothing \/ Expunge \/ RemoveDuplicates \/ Forget)
  BY Condemns, KeepsAll, Expunges, Forgets
<1>. QED
  BY <1>1, <1>2, <1>3, <1>4, <1>5, Steps DEF CopySteps

\* What is condemned while nothing was renumbered, no row of what is listed names.
LEMMA CondemnedUnclaimed ==
    ASSUME Base, ClaimInv, phase = "store", ~shifted,
           NEW v \in Condemned(mirror.rows, p.src, p.live), NEW m \in Claims \cap listed
    PROVE  row[m].uid # v.uid
<1>1. Types /\ mirror.rows \subseteq MirrorRow
  BY DEF Base, Types, RunTypes
<1>2. m \in Mirrored(p.src, p.dst) /\ Counts(m) /\ row[m].uid # 0
  BY ClaimsAre DEF Open
<1>3. m \in p.live
  BY <1>2 DEF Base, Copying, Counts, Going, Open
<1>4. PICK r \in mirror.rows : r.uid = row[m].uid /\ (r.msg = m \/ {m, r.msg} \subseteq p.live)
  BY <1>2 DEF ClaimInv, MirrorTrue
<1>5. r.msg \in p.live
  BY <1>3, <1>4
<1>6. row[m].uid \in ClaimedDestUIDs(dstVal)
  BY <1>2 DEF Counts, ClaimedDestUIDs, Nobody
<1>7. \/ \A q \in mirror.rows : q.uid = v.uid => q.msg \notin p.live
      \/ v.uid \notin ClaimedDestUIDs(dstVal)
  BY <1>1, CondemnedAre
<1>. QED
  BY <1>4, <1>5, <1>6, <1>7

LEMMA DoomedStep ==
    ASSUME Base, ClaimInv, Next
    PROVE  DoomedUnclaimed'
<1>0. /\ Types /\ DoomedUnclaimed /\ listed' \cap Recorded \subseteq listed
      /\ \A m : m \in Claims <=> Counts(m)
      /\ \A m : m \in Claims' <=> Counts(m)'
  <2>1. Base'
    BY BaseStep
  <2>2. Types /\ DoomedUnclaimed
    BY DEF Base, ClaimInv
  <2>. QED
    BY <2>1, <2>2, ClaimsAre, ClaimsNext, NewcomersUnrecorded
<1>. USE <1>0
<1>1. CASE SourceStep \/ EditStep
  <2>1. /\ UNCHANGED <<row, dstVal, phase, doomed, shifted>> /\ p'.live = p.live /\ Recorded' = Recorded
    BY <1>1, SourceSteps, EditSteps, OthersRun DEF Types, dest, store, history, Recorded
  <2>2. \A m : Counts(m)' <=> Counts(m)
    BY <2>1 DEF Counts
  <2>3. \A m \in Claims' \cap listed' : m \in Claims \cap listed
    BY <2>2 DEF Counts
  <2>. QED
    BY <2>1, <2>2, <2>3 DEF DoomedUnclaimed
<1>2. CASE RenumberStep
  BY <1>2, RenumberSteps, OthersRun DEF Types, DoomedUnclaimed
<1>3. ASSUME phase' \in {"expunge", "forget"}, Condemn \/ Expunge \/ RemoveDuplicates
      PROVE  DoomedUnclaimed'
  <2>1. CASE Condemn
    <3>1. /\ phase = "store" /\ phase' = "expunge" /\ doomed' \subseteq Condemned(mirror.rows, p.src, p.live)
          /\ p'.live = p.live /\ UNCHANGED <<listed, row, dstVal, shifted>>
      BY <1>3, <2>1, Condemns DEF source, dest, store, history
    <3>2. \A m : Counts(m)' <=> Counts(m)
      BY <3>1 DEF Counts, Recorded
    <3>3. ~shifted' => \A v \in doomed' : \A m \in Claims' \cap listed' : row'[m].uid # v.uid
      BY <3>1, <3>2, CondemnedUnclaimed
    <3>4. \A v \in doomed' : v.src \notin p'.live
      <4>1. mirror.rows \subseteq MirrorRow /\ p.live \subseteq Msgs
        BY DEF Types, RunTypes, PreparedType
      <4>2. \A v \in Condemned(mirror.rows, p.src, p.live) :
               \/ \E r \in mirror.rows : /\ r.uid = v.uid /\ r.msg = v.src
                                         /\ \A q \in mirror.rows : q.uid = v.uid => q.msg \notin p.live
               \/ v.src = Nobody
        BY <4>1, CondemnedAre
      <4>. QED
        BY <3>1, <4>1, <4>2, MsgsAreNobody
    <3>. QED
      BY <3>1, <3>3, <3>4 DEF DoomedUnclaimed
  <2>2. CASE Expunge \/ RemoveDuplicates
    <3>1. phase = "expunge" /\ phase' = "forget" /\ doomed' = doomed /\ p' = p
      BY <1>3, <2>2, Expunges
    <3>. QED
      BY <3>1 DEF DoomedUnclaimed
  <2>. QED
    BY <1>3, <2>1, <2>2
<1>4. CASE FindDuplicates
  <2>0. Mirrored(p.src, dstVal) \subseteq Recorded
    BY DEF Mirrored
  <2>a. /\ phase = "dedupe" /\ phase' \in {"finish", "remove"} /\ UNCHANGED <<dstVal, shifted>>
        /\ Recorded' = Recorded
    BY <1>4, FindsDuplicates DEF dest
  <2>b. \A m \in Recorded : /\ row'[m].state = row[m].state /\ row'[m].dst = row[m].dst
                            /\ m \in Mirrored(p.src, dstVal) => row'[m].uid \notin Copies(doomed')
    BY <1>4, FindsDuplicates
  <2>1. /\ phase = "dedupe" /\ phase' \notin {"expunge", "forget"} /\ UNCHANGED <<dstVal, shifted>>
        /\ Recorded' = Recorded
        /\ \A m \in Recorded : row'[m].state = row[m].state /\ row'[m].dst = row[m].dst
        /\ \A m \in Mirrored(p.src, dstVal) : row'[m].uid \notin Copies(doomed')
    BY <2>0, <2>a, <2>b
  <2>2. Mirrored(p.src, dstVal) = Claims
    BY <2>1, ClaimsAre
  <2>3. \A m : Counts(m)' <=> Counts(m)
    BY <2>1 DEF Counts
  <2>. QED
    BY <2>1, <2>2, <2>3 DEF DoomedUnclaimed, Copies
<1>5. CASE phase' \notin {"expunge", "forget", "remove"}
  BY <1>5 DEF DoomedUnclaimed
<1>. QED
  BY <1>1, <1>2, <1>3, <1>4, <1>5, InExpunge, InRemove

LEMMA ClaimInit == Init => ClaimInv
<1>. SUFFICES ASSUME Init PROVE ClaimInv
  OBVIOUS
<1>1. Recorded = {} /\ bodies = {} /\ phase = "idle"
  BY DEF Init, Recorded
<1>2. Claims = {}
  BY <1>1 DEF Claims, Mirrored
<1>. QED
  BY <1>1, <1>2 DEF ClaimInv, ClaimsHonoured, BodiesHonoured, MirrorTrue, DoomedUnclaimed

LEMMA ClaimStep ==
    ASSUME Base, ClaimInv, [Next]_vars
    PROVE  ClaimInv'
<1>1. CASE Next
  BY <1>1, HonouredStep, BodiesStep, MirrorStep, DoomedStep DEF ClaimInv
<1>2. CASE UNCHANGED vars
  BY <1>2 DEF ClaimInv, ClaimsHonoured, BodiesHonoured, MirrorTrue, DoomedUnclaimed, Claims, Mirrored,
     vars, source, dest, store, run, history, UIDs, Recorded
<1>. QED
  BY <1>1, <1>2

\* No run, death, renumbering or repeat leaves a row that names a copy this
\* program itself removed (deleteVanished, removeDestDuplicates, repoint).
THEOREM ClaimsAreHonoured == Spec => []ClaimsHonoured
<1>1. Init => Base /\ ClaimInv
  BY BaseInit, ClaimInit
<1>2. Base /\ ClaimInv /\ [Next]_vars => Base' /\ ClaimInv'
  BY BaseStep, ClaimStep
<1>3. ClaimInv => ClaimsHonoured
  BY DEF ClaimInv
<1>. QED
  BY <1>1, <1>2, <1>3, PTL DEF Spec

-----------------------------------------------------------------------------
(* Adoption *)

\* A row changes one claim.
LEMMA ClaimedNext ==
    ASSUME NEW m, Recorded' = Recorded \cup {m}, \A n \in Recorded \ {m} : row'[n] = row[n],
           p' = p
    PROVE  \A u : /\ u \in ClaimedDestUIDs(p.dst)' /\ u \notin ClaimedDestUIDs(p.dst)
                      => row'[m].dst = p.dst /\ row'[m].uid = u /\ u # Nobody
  BY DEF ClaimedDestUIDs

LEMMA IndexFreeStep ==
    ASSUME Base, IndexFree, Next
    PROVE  IndexFree'
<1>0. Types /\ Numberings /\ IndexTrue /\ Shape
  BY DEF Base, Types
<1>. USE <1>0
<1>1. CASE index' = {}
  BY <1>1 DEF IndexFree
<1>2. CASE SourceStep \/ RenumberStep \/ EditStep
  <2>1. row' = row /\ index' = index /\ p'.dst = p.dst
    BY <1>2, SourceSteps, RenumberSteps, EditSteps, OthersRun DEF Types, store
  <2>. QED
    BY <2>1 DEF IndexFree, ClaimedDestUIDs, Recorded
<1>3. CASE Diff
  <2>1. /\ row' = row /\ p'.dst = p.dst
        /\ \A e \in index' : e.uid \notin ClaimedDestUIDs(p.dst) /\ e.content = box[e.uid].content
    BY <1>3, Diffs DEF store
  <2>2. index' \subseteq [uid : UIDType, content : Anything]
    BY <1>3, Diffs DEF Types, RunTypes
  <2>3. \A e, f \in index' : e.uid = f.uid => e = f
    BY <2>1, <2>2
  <2>. QED
    BY <2>1, <2>3 DEF IndexFree, ClaimedDestUIDs, Recorded
<1>4. CASE CopySteps
  <2>1. PICK m \in Msgs : Passes(m) \/ Takes(m) \/ Sends(m)
    BY <1>4 DEF CopySteps, PassStep, AdoptStep, AppendStep
  <2>2. CopyEffect(m)
    BY <2>1, PassesBy, Adopts, CopiesOne
  <2>3. \A u : u \in ClaimedDestUIDs(p.dst)' /\ u \notin ClaimedDestUIDs(p.dst)
                 => row'[m].dst = p.dst /\ row'[m].uid = u /\ u # Nobody
    BY <2>2, ClaimedNext DEF CopyEffect
  <2>4. index' \subseteq index /\ \A e \in index' : row'[m].dst = p.dst /\ row'[m].uid # Nobody
                                                         => row'[m].uid # e.uid
    <3>1. CASE Passes(m)
      BY <3>1, PassesBy
    <3>2. CASE Takes(m)
      <4>1. PICK e \in index : row'[m].uid = e.uid /\ index' = index \ {e}
        BY <3>2, Adopts
      <4>. QED
        BY <4>1 DEF IndexFree
    <3>3. CASE Sends(m)
      <4>1. row'[m].uid = nextUID /\ row'[m].dst = dstVal /\ index' = index
        BY <3>3, CopiesOne
      <4>2. p.dst = dstVal => \A e \in index : e.uid < nextUID
        BY <2>2 DEF CopyEffect, Numberings, Open, IndexTrue
      <4>. QED
        BY <4>1, <4>2, Numbers
    <3>. QED
      BY <2>1, <3>1, <3>2, <3>3
  <2>5. \A e \in index' : e.uid \notin ClaimedDestUIDs(p.dst)'
    BY <2>3, <2>4 DEF IndexFree
  <2>. QED
    BY <2>4, <2>5 DEF IndexFree
<1>5. CASE phase' # "copy"
  BY <1>1, <1>5, TypesStep DEF Types, Shape
<1>6. CASE phase' = "copy"
  BY <1>2, <1>3, <1>4, <1>6, InCopy
<1>. QED
  BY <1>5, <1>6

\* Only an adoption changes a row and the index at once, with work left.
LEMMA AdoptionStep ==
    ASSUME Base, IndexFree, Next
    PROVE  AdoptsUnclaimed
<1>0. Types /\ Shape
  BY DEF Base, Types
<1>. USE <1>0
<1>. SUFFICES ASSUME row' # row, index' # index, NEW m \in todo \ todo'
              PROVE  row'[m].uid \notin ClaimedDestUIDs(p.dst)
  BY DEF AdoptsUnclaimed
<1>1. phase = "copy" /\ todo # {}
  BY DEF Shape
<1>2. CopySteps
  <2>1. ~ (SourceStep \/ RenumberStep \/ EditStep)
    BY SourceSteps, RenumberSteps, EditSteps DEF store
  <2>2. ~ (PlanStep \/ Dedup \/ EndStep)
    BY <1>1, Plans, Dedups, EndSteps DEF PlanStep
  <2>3. ~ (Prepare \/ Recover \/ Verify \/ Diff)
    BY <1>1, Prepares, Recovers, Verifies, Diffs
  <2>4. ~ (SettleDuplicates \/ FlagStep \/ FlagFails)
    BY <1>1, Settles, StoresFlags, FailsToStore DEF FlagStep, FlagFails
  <2>5. ~ (Condemn \/ DeletesNothing \/ Expunge \/ RemoveDuplicates \/ Forget \/ FindDuplicates)
    BY <1>1, Condemns, KeepsAll, Expunges, Forgets, FindsDuplicates
  <2>. QED
    BY <2>1, <2>2, <2>3, <2>4, <2>5, Steps DEF CopySteps
<1>3. PICK n \in Msgs : Passes(n) \/ Takes(n) \/ Sends(n)
  BY <1>2 DEF CopySteps, PassStep, AdoptStep, AppendStep
<1>4. n = m
  BY <1>3, PassesBy, Adopts, CopiesOne DEF CopyEffect
<1>5. Takes(n)
  BY <1>3, PassesBy, CopiesOne
<1>6. \E e \in index : row'[m].uid = e.uid
  BY <1>4, <1>5, Adopts
<1>. QED
  BY <1>6 DEF IndexFree

\* A copy that a row claims is never given to a second message, however many
\* fetchers share the index (ClaimedDestUIDs, indexDestination).
THEOREM CopiesAreAdoptedOnce == Spec => AdoptsOnce
<1>1. Init => Base /\ IndexFree
  BY BaseInit DEF Init, IndexFree
<1>2. Base /\ IndexFree /\ [Next]_vars => Base' /\ IndexFree'
  <2>1. UNCHANGED vars /\ IndexFree => IndexFree'
    BY DEF IndexFree, ClaimedDestUIDs, Recorded, vars, run, store
  <2>. QED
    BY <2>1, BaseStep, IndexFreeStep
<1>3. Base /\ IndexFree /\ [Next]_vars => [AdoptsUnclaimed]_vars
  BY AdoptionStep
<1>. QED
  BY <1>1, <1>2, <1>3, PTL DEF Spec, AdoptsOnce

-----------------------------------------------------------------------------
(* Deletion *)

LEMMA AlikeStep ==
    ASSUME Base, ClaimInv, SpareInv, Next
    PROVE  ClaimsAlike'
<1>0. /\ Types /\ Base' /\ \A m : m \in Claims <=> Counts(m)
      /\ \A m : m \in Claims' <=> Counts(m)'
      /\ \A m \in Claims : row[m].uid < nextUID
      /\ \A m \in Claims : row[m].uid \in UIDs =>
            Identity[box[row[m].uid].content] = Identity[Content[m]]
  <2>1. Base'
    BY BaseStep
  <2>2. Types /\ ClaimsAlike
    BY DEF Base, SpareInv
  <2>. QED
    BY <2>1, <2>2, ClaimsAre, ClaimsNext DEF ClaimsAlike
<1>. SUFFICES ASSUME NEW m, Counts(m)', row'[m].uid \in UIDs'
              PROVE  Identity[box'[row'[m].uid].content] = Identity[Content[m]]
  BY <1>0 DEF ClaimsAlike
<1>. USE <1>0
<1>a. m \in Msgs
  BY ClaimsNext
<1>1. CASE SourceStep \/ PlanStep \/ Dedup
  BY <1>1, SourceSteps, Plans, Dedups DEF PlanStep, Counts, dest, store, Recorded, UIDs
<1>2. CASE RenumberStep
  BY <1>2, RenumberedUnclaimed
<1>3. CASE EditStep
  <2>1. UNCHANGED <<row, dstVal>> /\ Counts(m) /\ row[m].uid < nextUID
    BY <1>3, EditSteps DEF store, Counts, Recorded
  <2>2. \/ UIDs' = UIDs \cup {nextUID} /\ \A u \in UIDs : box'[u] = box[u]
        \/ UIDs' \subseteq UIDs /\ \A w \in UIDs' : box'[w].content = box[w].content
    BY <1>3, EditSteps
  <2>3. row[m].uid # nextUID
    BY <2>1, Numbers DEF Counts
  <2>. QED
    BY <2>1, <2>2, <2>3
<1>5. CASE EndStep
  BY <1>5, EndSteps DEF Counts, Recorded
<1>6. CASE Prepare
  BY <1>6, Prepares DEF Counts, dest, Recorded, UIDs
<1>7. CASE Recover
  BY <1>7, Recovers DEF Counts, dest, UIDs
<1>8. CASE Verify \/ Diff \/ Forget
  BY <1>8, Verifies, Diffs, Forgets DEF Counts, dest, store, Recorded, UIDs
<1>9. CASE CopySteps
  <2>1. PICK n \in Msgs : Passes(n) \/ Takes(n) \/ Sends(n)
    BY <1>9 DEF CopySteps, PassStep, AdoptStep, AppendStep
  <2>2. CopyEffect(n)
    BY <2>1, PassesBy, Adopts, CopiesOne
  <2>3. CASE m # n
    <3>1. Counts(m) /\ row'[m] = row[m] /\ row[m].uid < nextUID
      BY <2>2, <2>3 DEF CopyEffect, Counts
    <3>2. CASE Passes(n) \/ Takes(n)
      <4>1. UNCHANGED dest
        BY <3>2, PassesBy, Adopts
      <4>. QED
        BY <3>1, <4>1 DEF dest, UIDs
    <3>3. CASE Sends(n)
      <4>1. UIDs' = UIDs \cup {nextUID} /\ \A u \in UIDs : box'[u] = box[u]
        BY <3>3, CopiesOne
      <4>2. row[m].uid # nextUID
        BY <3>1, Numbers DEF Counts
      <4>. QED
        BY <3>1, <4>1, <4>2
    <3>. QED
      BY <2>1, <3>2, <3>3
  <2>4. CASE Passes(m)
    BY <1>a, <2>4, PassesBy DEF Counts
  <2>5. CASE Takes(m)
    <3>1. row'[m].dst = p.dst /\ UNCHANGED dest
      BY <1>a, <2>5, Adopts
    <3>a. PICK e \in index : row'[m].uid = e.uid /\ Identity[e.content] = Identity[Content[m]]
      BY <1>a, <2>5, Adopts
    <3>2. p.dst = dstVal /\ phase \in Open
      BY <2>2, <3>1 DEF CopyEffect, Counts, Open
    <3>3. ~shifted
      BY <3>2 DEF Base, Numberings
    <3>. QED
      BY <3>1, <3>a, <3>3 DEF Base, IndexTrue, dest, UIDs
  <2>6. CASE Sends(m)
    <3>1. row'[m].uid = nextUID /\ box'[nextUID] = [content |-> Content[m], flag |-> flag[m]]
      BY <1>a, <2>6, CopiesOne
    <3>. QED
      BY <3>1
  <2>. QED
    BY <2>1, <2>3, <2>4, <2>5, <2>6
<1>10. CASE SettleDuplicates
  <2>1. /\ UNCHANGED dest /\ Recorded' = Recorded
        /\ \/ row'[m] = row[m]
           \/ /\ row'[m].dst = p.dst
              /\ \E s \in bodies : /\ s \in Mirrored(p.src, p.dst) /\ Content[s] = Content[m]
                                   /\ row'[m].uid = row[s].uid
    BY <1>10, Settles DEF Counts
  <2>2. row'[m].dst = p.dst => \A s \in Mirrored(p.src, p.dst) : Counts(s)
    BY <2>1 DEF Counts, dest, Mirrored
  <2>. QED
    BY <2>1, <2>2 DEF Counts, dest, UIDs
<1>11. CASE FlagStep
  BY <1>11, StoresFlags DEF FlagStep, Counts
<1>12. CASE FlagFails
  BY <1>12, FailsToStore DEF FlagFails, Counts, dest, store, Recorded, UIDs
<1>13. CASE Condemn \/ DeletesNothing
  BY <1>13, Condemns, KeepsAll DEF Counts, dest, store, Recorded, UIDs
<1>14. CASE Expunge \/ RemoveDuplicates
  BY <1>14, Expunges DEF Counts, store, Recorded
<1>15. CASE FindDuplicates
  BY <1>15, FindsDuplicates DEF Counts, dest, UIDs
<1>. QED
  BY <1>1, <1>2, <1>3, <1>5, <1>6, <1>7, <1>8, <1>9, <1>10, <1>11, <1>12, <1>13, <1>14,
     <1>15, Steps DEF CopySteps

LEMMA AllClaimedStep ==
    ASSUME Base, SpareInv, Next
    PROVE  AllClaimed' /\ NoFailure'
<1>0. /\ Types /\ AllClaimed /\ NoFailure /\ Seen /\ Copying /\ Numberings /\ Shape /\ Types' /\ Shape'
      /\ \A m : m \in Claims <=> Counts(m)
      /\ \A m : m \in Claims' <=> Counts(m)'
  <2>1. Base'
    BY BaseStep
  <2>. QED
    BY <2>1, ClaimsAre, ClaimsNext, TypesStep DEF Base, SpareInv, Types
<1>. USE <1>0
<1>1. CASE SourceStep
  <2>1. /\ UNCHANGED <<row, dstVal, phase, failed, shifted, todo, dupes>> /\ p'.live = p.live
    BY <1>1, SourceSteps, OthersRun DEF Types, dest, store, history
  <2>2. p.live \cap listed' \subseteq listed
    <3>1. \/ listed' = listed
          \/ \E m \in Msgs : \/ m \notin listed /\ changed[m] = 1 /\ listed' = listed \cup {m}
                             \/ m \in listed /\ listed' \in {listed, listed \ {m}}
      BY <1>1, SourceSteps
    <3>. QED
      BY <3>1 DEF Seen
  <2>3. \A m : Counts(m)' <=> Counts(m)
    BY <2>1 DEF Counts, Recorded
  <2>. QED
    BY <2>1, <2>2, <2>3 DEF AllClaimed, NoFailure
<1>2. CASE RenumberStep
  <2>1. UNCHANGED <<phase, failed>> /\ shifted' = (phase \notin {"idle", "planned"})
    BY <1>2, RenumberSteps, OthersRun DEF Types
  <2>. QED
    BY <2>1 DEF AllClaimed, NoFailure
<1>3. CASE EditStep
  <2>1. /\ UNCHANGED <<row, dstVal, phase, failed, shifted, todo, dupes, listed>> /\ p'.live = p.live
    BY <1>3, EditSteps, OthersRun DEF Types, source, store
  <2>2. \A m : Counts(m)' <=> Counts(m)
    BY <2>1 DEF Counts, Recorded
  <2>. QED
    BY <2>1, <2>2 DEF AllClaimed, NoFailure
<1>4. CASE Diff
  <2>1. /\ phase = "verified" /\ phase' = "copy" /\ todo' = (listed \ Settled(p.src)) \ Excluded
        /\ p'.live = listed /\ UNCHANGED <<row, dstVal, listed, shifted, folder>> /\ dupes' = {}
    BY <1>4, Diffs DEF source, dest, store, history, Shape
  <2>2. ~shifted => p.dst = dstVal /\ p.dst = folder.dst
    BY <2>1 DEF Numberings, Open
  <2>3. ASSUME ~shifted, NEW m \in Settled(p.src) \cap listed
        PROVE  Counts(m)
    <3>1. m \in Recorded /\ row[m].state \in {"done", "gone"}
      BY DEF Settled, SyncedUIDs
    <3>2. row[m].state = "done"
      BY <3>1 DEF Seen
    <3>3. row[m].dst <= dstVal /\ folder.dst <= row[m].dst
      BY <3>1, <3>2 DEF Numberings
    <3>. QED
      BY <2>2, <2>3, <3>1, <3>2, <3>3, Numbers DEF Counts
  <2>4. ~shifted => \A m \in Settled(p.src) \cap listed : Counts(m)'
    BY <2>1, <2>3 DEF Counts, Recorded
  <2>. QED
    BY <2>1, <2>4 DEF AllClaimed, NoFailure
<1>5. CASE CopySteps
  <2>1. PICK n \in Msgs : Passes(n) \/ Takes(n) \/ Sends(n)
    BY <1>5 DEF CopySteps, PassStep, AdoptStep, AppendStep
  <2>2. CopyEffect(n)
    BY <2>1, PassesBy, Adopts, CopiesOne
  <2>3. /\ phase = "copy" /\ phase' = "copy" /\ UNCHANGED <<listed, p, shifted, dstVal>>
        /\ todo' = todo \ {n} /\ n \in todo
        /\ Recorded' = Recorded \cup {n} /\ \A m \in Recorded \ {n} : row'[m] = row[m]
    BY <2>2 DEF CopyEffect, source
  <2>4. ~shifted => p.dst = dstVal
    BY <2>3 DEF Numberings, Open
  <2>5. \A m : m # n => (Counts(m)' <=> Counts(m))
    BY <2>3 DEF Counts
  <2>6. /\ dupes \subseteq dupes' /\ (~failed' => ~failed)
        /\ failed' \/ n \notin listed \/ n \in dupes'
           \/ (row'[n].state = "done" /\ row'[n].dst \in {p.dst, dstVal})
    <3>1. CASE Passes(n)
      <4>1. \/ n \notin listed /\ UNCHANGED <<dupes, failed>>
            \/ dupes' = dupes /\ failed' = TRUE
            \/ dupes' = dupes \cup {n} /\ failed' = failed
        BY <3>1, PassesBy
      <4>. QED
        BY <4>1
    <3>2. CASE Takes(n)
      BY <3>2, Adopts
    <3>3. CASE Sends(n)
      <4>1. UNCHANGED <<dupes, failed>> /\ row'[n].state = "done" /\ row'[n].dst = dstVal
        BY <3>3, CopiesOne
      <4>. QED
        BY <4>1
    <3>. QED
      BY <2>1, <3>1, <3>2, <3>3
  <2>7. ~shifted /\ ~failed' => n \notin listed \/ n \in dupes' \/ Counts(n)'
    BY <2>3, <2>4, <2>6 DEF Counts
  <2>. QED
    BY <2>3, <2>5, <2>6, <2>7 DEF AllClaimed, NoFailure
<1>6. CASE SettleDuplicates
  <2>1. /\ phase = "copy" /\ phase' = "store" /\ todo = {} /\ UNCHANGED <<listed, dstVal, p, failed, shifted, todo>>
        /\ dupes' = {} /\ Recorded' = Recorded
    BY <1>6, Settles DEF source, dest
  <2>2. ~shifted => p.dst = dstVal /\ p.src = folder.src
    BY <2>1 DEF Numberings, Open
  <2>3. \A m \in Recorded : row'[m] = row[m] \/ (row'[m].state = "done" /\ row'[m].dst = p.dst)
    BY <1>6, Settles
  <2>4. ~shifted => \A m : Counts(m) => Counts(m)'
    BY <2>1, <2>2, <2>3 DEF Counts
  <2>5. ASSUME ~shifted, NEW m \in dupes
        PROVE  Counts(m)'
    <3>1. m \in Recorded /\ row[m].state = "in_flight"
      BY DEF Copying
    <3>2. PICK s \in bodies : Content[s] = Content[m]
      BY DEF Copying
    <3>3. s \in Mirrored(p.src, p.dst)
      BY <2>2, <2>5 DEF Mirrored, Copying, Numberings
    <3>4. row'[m].state = "done"
      BY <1>6, <3>1, <3>2, <3>3, Settles
    <3>. QED
      BY <2>1, <2>2, <2>3, <2>5, <3>1, <3>4 DEF Counts
  <2>. QED
    BY <2>1, <2>4, <2>5 DEF AllClaimed, NoFailure
<1>7. CASE FlagStep
  <2>1. /\ phase = "store" /\ phase' = "store" /\ UNCHANGED <<p, listed, dstVal, failed, shifted, todo, dupes>> /\ Recorded' = Recorded
        /\ \A m \in Recorded : row'[m].state = row[m].state /\ row'[m].dst = row[m].dst
    BY <1>7, StoresFlags DEF FlagStep, source
  <2>2. \A m : Counts(m)' <=> Counts(m)
    BY <2>1 DEF Counts
  <2>. QED
    BY <2>1, <2>2 DEF AllClaimed, NoFailure
<1>8. CASE FlagFails
  BY <1>8, FailsToStore DEF FlagFails, AllClaimed, NoFailure
<1>9. CASE Condemn
  <2>1. /\ phase = "store" /\ phase' \in {"dedupe", "expunge"} /\ ~failed /\ p'.live = p.live
        /\ UNCHANGED <<row, dstVal, listed, failed, shifted, todo, dupes>>
    BY <1>9, Condemns DEF Deletes, source, dest, store, history
  <2>2. \A m : Counts(m)' <=> Counts(m)
    BY <2>1 DEF Counts, Recorded
  <2>. QED
    BY <2>1, <2>2 DEF AllClaimed, NoFailure
<1>10. CASE phase' \notin {"copy", "store", "expunge"}
  BY <1>10 DEF AllClaimed, NoFailure
<1>11. CASE Expunge \/ RemoveDuplicates
  BY <1>10, <1>11, Expunges
<1>. QED
  BY <1>1, <1>2, <1>3, <1>4, <1>5, <1>6, <1>7, <1>8, <1>9, <1>10, <1>11, InCopy, InStore, InExpunge

LEMMA TwinStep ==
    ASSUME Base, SpareInv, Next
    PROVE  TwinStays'
<1>0. Types /\ TwinStays
  BY DEF Base, SpareInv
<1>. USE <1>0
<1>. SUFFICES ASSUME phase' = "remove", ~shifted' PROVE TwinStays'
  BY DEF TwinStays
<1>1. CASE SourceStep
  <2>1. UNCHANGED <<phase, doomed, dest, history>>
    BY <1>1, SourceSteps, OthersRun DEF Types
  <2>. QED
    BY <2>1 DEF TwinStays, dest, history, UIDs, Copies
<1>2. CASE RenumberStep
  BY <1>2, RenumberSteps, OthersRun DEF Types
<1>3. CASE EditStep
  <2>1. UNCHANGED <<phase, doomed, shifted>>
    BY <1>3, EditSteps, OthersRun DEF Types
  <2>2. Copies(doomed)' = Copies(doomed) /\ \A u \in Copies(doomed) : u \in Nat
    BY <2>1 DEF Copies, Types, RunTypes, Victim, UIDType
  <2>3. \/ /\ UIDs' = UIDs \cup {nextUID} /\ nextUID' = nextUID + 1 /\ removed' = removed
           /\ \A u \in UIDs : box'[u] = box[u] /\ u # nextUID
        \/ /\ nextUID' = nextUID
           /\ \/ removed' # {}
              \/ UIDs' = UIDs /\ removed' = removed /\ \A w \in UIDs' : box'[w].content = box[w].content
    BY <1>3, EditSteps
  <2>4. \A u \in Copies(doomed) : u < nextUID
    BY <2>1 DEF TwinStays
  <2>. QED
    BY <2>1, <2>2, <2>3, <2>4, Numbers DEF TwinStays
<1>4. CASE FindDuplicates
  <2>1. /\ Copies(doomed') \subseteq UIDs /\ UNCHANGED dest
        /\ \A u \in Copies(doomed') : \E w \in UIDs \ Copies(doomed') : box[w].content = box[u].content
    BY <1>4, FindsDuplicates
  <2>. QED
    BY <2>1, Numbers DEF TwinStays, dest, UIDs
<1>. QED
  BY <1>1, <1>2, <1>3, <1>4, InRemove

LEMMA SpareStep ==
    ASSUME Base, ClaimInv, SpareInv, [Next]_vars
    PROVE  SpareInv'
<1>1. CASE Next
  BY <1>1, AlikeStep, AllClaimedStep, TwinStep DEF SpareInv
<1>2. CASE UNCHANGED vars
  BY <1>2 DEF SpareInv, ClaimsAlike, AllClaimed, NoFailure, TwinStays, Claims, Mirrored, Copies,
     vars, source, dest, store, run, history, UIDs, Recorded
<1>. QED
  BY <1>1, <1>2

LEMMA SpareInit == Init => SpareInv
<1>. SUFFICES ASSUME Init PROVE SpareInv
  OBVIOUS
<1>1. Claims = {} /\ phase = "idle"
  BY DEF Init, Recorded, Claims, Mirrored
<1>. QED
  BY <1>1 DEF SpareInv, ClaimsAlike, AllClaimed, NoFailure, TwinStays

LEMMA DeletionStep ==
    ASSUME Base, ClaimInv, SpareInv, [Next]_vars
    PROVE  DeletionSpares
<1>0. Types
  BY DEF Base
<1>. DEFINE Spared(u) ==
              \/ \E w \in UIDs' : box[w].content = box[u].content
              \/ /\ phase = "expunge"
                 /\ Identity[box[u].content] \in {Identity[Content[m]] : m \in (p.live \cap listed) \ Excluded}
                      => \E w \in UIDs' : Identity[box[w].content] = Identity[box[u].content]
<1>. SUFFICES ASSUME phase \in {"expunge", "remove"}, phase' \in {"forget", "finish"}, ~shifted, removed = {}
              PROVE  \A u \in UIDs \ UIDs' : Spared(u)
  BY DEF DeletionSpares
<1>. TAKE u \in UIDs \ UIDs'
<1>1. Expunge \/ RemoveDuplicates
  <2>0. Next
    BY DEF vars, run
  <2>1. ~ (SourceStep \/ RenumberStep \/ EditStep)
    BY <1>0, SourceSteps, RenumberSteps, EditSteps, OthersRun DEF Types
  <2>2. ~ (PlanStep \/ Dedup \/ EndStep)
    BY <1>0, Plans, Dedups, EndSteps, RunOver DEF PlanStep
  <2>3. ~ (Prepare \/ Recover \/ Verify \/ Diff)
    BY <1>0, Prepares, Recovers, Verifies, Diffs
  <2>4. ~ CopySteps
    BY <1>0, PassesBy, Adopts, CopiesOne DEF CopySteps, PassStep, AdoptStep, AppendStep, CopyEffect
  <2>5. ~ (SettleDuplicates \/ FlagStep \/ FlagFails)
    BY <1>0, Settles, StoresFlags, FailsToStore DEF FlagStep, FlagFails
  <2>6. ~ (Condemn \/ DeletesNothing \/ Forget \/ FindDuplicates)
    BY <1>0, Condemns, KeepsAll, Forgets, FindsDuplicates
  <2>. QED
    BY <2>0, <2>1, <2>2, <2>3, <2>4, <2>5, <2>6, Steps DEF CopySteps
<1>2. UIDs' = UIDs \ Copies(doomed) /\ \A w \in UIDs' : box'[w] = box[w]
  BY <1>0, <1>1, Expunges
<1>3. CASE phase = "remove"
  BY <1>2, <1>3 DEF SpareInv, TwinStays
<1>4. CASE phase = "expunge"
  <2>. SUFFICES ASSUME NEW m \in (p.live \cap listed) \ Excluded,
                       Identity[box[u].content] = Identity[Content[m]]
                PROVE  \E w \in UIDs' : Identity[box[w].content] = Identity[box[u].content]
    BY <1>4
  <2>1. todo = {} /\ dupes = {}
    BY <1>0, <1>4 DEF Types, Shape
  <2>2. m \in Claims \cap listed
    BY <1>4, <2>1 DEF SpareInv, AllClaimed, NoFailure
  <2>3. row[m].uid \in UIDs /\ row[m].uid \notin Copies(doomed)
    BY <1>4, <2>2 DEF ClaimInv, ClaimsHonoured, DoomedUnclaimed, Copies
  <2>4. Identity[box[row[m].uid].content] = Identity[Content[m]]
    BY <2>2, <2>3 DEF SpareInv, ClaimsAlike
  <2>. QED
    BY <1>2, <2>3, <2>4
<1>. QED
  BY <1>3, <1>4

\* Deletion never takes the last copy of what the source still holds, whoever
\* else is at the mailboxes, and a duplicate goes only where an identical
\* message stays (condemned, stillClaimed, confirmDuplicates, Partition).
THEOREM NothingHeldIsDeleted == Spec => NeverDeletesHeld
<1>1. Init => Base /\ ClaimInv /\ SpareInv
  BY BaseInit, ClaimInit, SpareInit
<1>2. Base /\ ClaimInv /\ SpareInv /\ [Next]_vars => Base' /\ ClaimInv' /\ SpareInv'
  BY BaseStep, ClaimStep, SpareStep
<1>3. Base /\ ClaimInv /\ SpareInv /\ [Next]_vars => [DeletionSpares]_vars
  BY DeletionStep
<1>. QED
  BY <1>1, <1>2, <1>3, PTL DEF Spec, NeverDeletesHeld

-----------------------------------------------------------------------------
(* What is owed *)

\* Whatever a run wrote of what it saw, is no later than what it saw.
LEMMA WatermarksStep ==
    ASSUME Base, Watermarks, Next
    PROVE  Watermarks'
<1>0. Types /\ Numberings /\ Watermarks
  BY DEF Base
<1>. USE <1>0
<1>1. CASE SourceStep
  <2>1. /\ UNCHANGED <<phase, opts, folder>> /\ p'.src = p.src /\ p'.modseq = p.modseq /\ p'.since = p.since
        /\ srcVal' = srcVal + 1 \/ (srcVal' = srcVal /\ modseq' = modseq + 1)
    BY <1>1, SourceSteps, OthersRun DEF Types, store
  <2>2. phase \notin {"idle", "planned"} => p.src <= srcVal
    BY DEF Numberings
  <2>. QED
    BY <2>1, <2>2, Numbers DEF Watermarks, Numberings
<1>2. CASE RenumberStep \/ EditStep
  <2>1. UNCHANGED <<phase, opts, folder, srcVal, modseq>> /\ p'.src = p.src /\ p'.modseq = p.modseq /\ p'.since = p.since
    BY <1>2, RenumberSteps, EditSteps, OthersRun DEF Types, store, source
  <2>. QED
    BY <2>1 DEF Watermarks
<1>3. CASE PlanStep
  BY <1>3, Plans DEF PlanStep, Watermarks, Going, Open, source, store
<1>4. CASE Dedup
  BY <1>4, Dedups, Numbers DEF Watermarks, Going, Open, source, store
<1>5. CASE EndStep
  <2>1. phase' = "idle" /\ UNCHANGED <<srcVal, modseq>>
    BY <1>5, EndSteps, RunOver DEF source
  <2>2. CASE folder' = folder
    BY <2>1, <2>2 DEF Watermarks, Going, Open
  <2>3. CASE folder' # folder
    <3>1. /\ phase = "finish" /\ "alone" \notin opts /\ folder'.src = folder.src
          /\ folder'.mark \in {folder.mark, p.modseq} /\ folder'.deleted \in {folder.deleted, p.modseq}
      BY <1>5, <2>3, EndSteps DEF NewMark, DeletedThrough
    <3>2. folder.src = p.src
      BY <3>1 DEF Numberings
    <3>. QED
      BY <2>1, <3>1, <3>2 DEF Watermarks, Going, Open
  <2>. QED
    BY <2>2, <2>3
<1>6. CASE Prepare
  <2>1. /\ phase' \in {"opened", "recovered"} /\ UNCHANGED <<srcVal, modseq>>
        /\ p'.src = srcVal /\ p'.modseq = modseq /\ p'.since = folder'.mark /\ folder'.src = srcVal
    BY <1>6, Prepares DEF source
  <2>2. folder'.mark <= modseq /\ folder'.deleted <= modseq
    <3>1. CASE p'.kept
      <4>1. folder.src \in {0, srcVal} /\ folder'.mark = folder.mark /\ folder'.deleted = folder.deleted
        BY <1>6, <3>1, Prepares DEF Kept
      <4>. QED
        BY <4>1, Numbers DEF Watermarks, Numberings
    <3>2. CASE ~p'.kept
      BY <1>6, <3>2, Prepares, Numbers
    <3>. QED
      BY <3>1, <3>2
  <2>. QED
    BY <2>1, <2>2, Numbers DEF Watermarks, Going, Open
<1>7. ASSUME /\ UNCHANGED <<srcVal, modseq, opts, folder>>
             /\ p'.src = p.src /\ p'.modseq = p.modseq /\ p'.since = p.since
             /\ phase \in Going \/ (phase \notin Going /\ phase \notin {"idle", "planned"} /\ phase' \notin Going)
      PROVE  Watermarks'
  <2>1. phase \notin {"idle", "planned"} /\ (phase' \in Going => phase \in Going)
    BY <1>7 DEF Going, Open
  <2>2. phase \in Going \/ phase \in {"dedupe", "remove", "finish"}
    BY <2>1 DEF Types, RunTypes, Phases
  <2>3. \/ "alone" \in opts /\ p.modseq = 0
        \/ folder.mark <= p.modseq /\ folder.deleted <= p.modseq
    BY <2>2 DEF Watermarks
  <2>4. phase' \in Going =>
          folder'.mark <= p'.modseq /\ folder'.deleted <= p'.modseq /\ p'.since = folder'.mark
    BY <1>7, <2>1 DEF Watermarks
  <2>5. p.src = srcVal => p.modseq <= modseq
    BY <2>1 DEF Watermarks
  <2>. QED
    BY <1>7, <2>3, <2>4, <2>5 DEF Watermarks
<1>8. CASE Recover \/ Verify \/ Diff
  BY <1>7, <1>8, Recovers, Verifies, Diffs DEF Going, Open, source, store
<1>9. CASE CopySteps
  BY <1>7, <1>9, PassesBy, Adopts, CopiesOne DEF CopySteps, PassStep, AdoptStep, AppendStep, CopyEffect,
     Going, Open, source
<1>10. CASE SettleDuplicates
  BY <1>7, <1>10, Settles DEF Going, Open, source
<1>11. CASE FlagStep \/ FlagFails
  BY <1>7, <1>11, StoresFlags, FailsToStore DEF FlagStep, FlagFails, Going, Open, source, store
<1>12. CASE Condemn \/ DeletesNothing
  BY <1>7, <1>12, Condemns, KeepsAll DEF Going, Open, source, store
<1>13. CASE Expunge \/ RemoveDuplicates
  BY <1>7, <1>13, Expunges DEF Going, Open, source, store
<1>14. CASE Forget \/ FindDuplicates
  BY <1>7, <1>14, Forgets, FindsDuplicates DEF Going, Open, source
<1>. QED
  BY <1>1, <1>2, <1>3, <1>4, <1>5, <1>6, <1>8, <1>9, <1>10, <1>11, <1>12, <1>13, <1>14, Steps DEF CopySteps

\* A change at the source is later than all that was written or seen.
LEMMA NothingStill ==
    ASSUME Base, Watermarks, SourceStep
    PROVE  /\ folder'.src = srcVal' => folder'.mark # modseq' /\ folder'.deleted # modseq'
           /\ phase \notin {"idle", "planned"} => ~Still'
<1>0. Types /\ Numberings
  BY DEF Base
<1>1. /\ UNCHANGED <<phase, folder>> /\ p'.src = p.src /\ p'.modseq = p.modseq
      /\ srcVal' = srcVal + 1 \/ (srcVal' = srcVal /\ modseq' = modseq + 1)
  BY <1>0, SourceSteps, OthersRun DEF Types, store
<1>2. phase \notin {"idle", "planned"} => p.src <= srcVal
  BY <1>0 DEF Numberings
<1>. QED
  BY <1>0, <1>1, <1>2, Numbers DEF Watermarks, Numberings, Still

\* Nobody but the source takes a copy from what is listed and leaves it to what
\* is not.
LEMMA ClearedStep ==
    ASSUME Base, ClaimInv, Cleared, Next, ~SourceStep,
           SettleDuplicates \/ Forget => p.live = listed
    PROVE  Cleared'
<1>0. /\ Types /\ \A m : m \in Claims <=> Counts(m)
      /\ \A m : m \in Claims' <=> Counts(m)'
      /\ \A m \in Claims : row[m].uid < nextUID /\ row[m].uid \in Nat
      /\ \A m \in Claims \ listed : row[m].uid \in UIDs => \E n \in Claims \cap listed : row[n].uid = row[m].uid
  <2>1. Base'
    BY BaseStep
  <2>2. Types
    BY DEF Base
  <2>. QED
    BY <2>1, <2>2, ClaimsAre, ClaimsNext DEF Cleared
<1>. SUFFICES ASSUME NEW m, Counts(m)', m \notin listed', row'[m].uid \in UIDs'
              PROVE  \E n \in listed' : Counts(n)' /\ row'[n].uid = row'[m].uid
  BY <1>0 DEF Cleared
<1>. USE <1>0
<1>a. listed' = listed /\ m \in Msgs
  <2>1. UNCHANGED source
    BY <1>0, PassesBy, Adopts, CopiesOne, QuietSteps DEF CopySteps, PassStep, AdoptStep, AppendStep, CopyEffect
  <2>2. Base'
    BY BaseStep
  <2>. QED
    BY <2>1, <2>2, ClaimsNext DEF source
<1>. USE <1>a
\* Rows and numbering as they were, and no more UIDs than there were.
<1>b. ASSUME UNCHANGED <<row, dstVal>>, row[m].uid \in UIDs
      PROVE  \E n \in listed' : Counts(n)' /\ row'[n].uid = row'[m].uid
  <2>1. m \in Claims \ listed
    BY <1>b DEF Counts, Recorded
  <2>. QED
    BY <1>b, <2>1 DEF Counts, Recorded
<1>2. CASE RenumberStep
  BY <1>2, RenumberedUnclaimed
<1>3. CASE EditStep
  <2>1. UNCHANGED <<row, dstVal>> /\ UIDs' \subseteq UIDs \cup {nextUID}
    BY <1>3, EditSteps DEF store
  <2>2. row[m].uid # nextUID
    BY <2>1, Numbers DEF Counts, Recorded
  <2>. QED
    BY <1>b, <2>1, <2>2
<1>4. CASE PlanStep \/ Dedup
  BY <1>b, <1>4, Plans, Dedups DEF PlanStep, dest, store, UIDs
<1>5. CASE EndStep
  BY <1>b, <1>5, EndSteps
<1>6. CASE Prepare
  BY <1>b, <1>6, Prepares DEF Counts, dest, UIDs
<1>7. CASE Recover
  <2>1. /\ Recorded' = Recorded /\ UNCHANGED dest
        /\ \A n \in Recorded : row'[n] = row[n] \/ n \in InFlight
        /\ row'[m] = row[m] \/ m \in listed \/ row'[m].state # "done"
    BY <1>7, Recovers DEF Counts
  <2>2. \A n : Counts(n) => Counts(n)' /\ row'[n] = row[n]
    BY <2>1 DEF Counts, InFlight, dest
  <2>3. row'[m] = row[m] /\ Counts(m) /\ row[m].uid \in UIDs
    BY <2>1 DEF Counts, dest, UIDs
  <2>. QED
    BY <2>2, <2>3
<1>8. CASE Verify
  <2>1. /\ Recorded' = Recorded \ Unhonoured /\ UNCHANGED dest
        /\ \A n \in Recorded' : row'[n] = row[n]
    BY <1>8, Verifies
  <2>2. \A n : Counts(n) /\ row[n].uid \in UIDs => Counts(n)' /\ row'[n] = row[n]
    BY <2>1 DEF Counts, Unhonoured, dest
  <2>3. row'[m] = row[m] /\ Counts(m) /\ row[m].uid \in UIDs
    BY <2>1 DEF Counts, dest, UIDs
  <2>. QED
    BY <2>2, <2>3
<1>9. CASE Diff
  BY <1>b, <1>9, Diffs DEF dest, store, UIDs
<1>10. CASE CopySteps
  <2>1. PICK k \in Msgs : Passes(k) \/ Takes(k) \/ Sends(k)
    BY <1>10 DEF CopySteps, PassStep, AdoptStep, AppendStep
  <2>2. CopyEffect(k)
    BY <2>1, PassesBy, Adopts, CopiesOne
  <2>3. ~Counts(k)
    BY <2>2 DEF CopyEffect, Base, Copying, Counts
  <2>4. \A n : Counts(n) => Counts(n)' /\ row'[n] = row[n]
    BY <2>2, <2>3 DEF CopyEffect, Counts
  <2>5. m # k
    <3>1. Passes(k) => row'[k].state # "done"
      BY PassesBy
    <3>2. Takes(k) \/ Sends(k) => k \in listed
      BY Adopts, CopiesOne
    <3>. QED
      BY <2>1, <3>1, <3>2 DEF Counts
  <2>6. Counts(m) /\ row'[m] = row[m]
    BY <2>2, <2>5 DEF CopyEffect, Counts
  <2>7. row[m].uid \in UIDs
    <3>1. UIDs' \subseteq UIDs \cup {nextUID}
      <4>1. CASE Passes(k) \/ Takes(k)
        BY <4>1, PassesBy, Adopts DEF dest, UIDs
      <4>2. CASE Sends(k)
        BY <4>2, CopiesOne
      <4>. QED
        BY <2>1, <4>1, <4>2
    <3>2. row[m].uid # nextUID
      BY <2>6, Numbers DEF Counts
    <3>. QED
      BY <2>6, <3>1, <3>2
  <2>. QED
    BY <2>4, <2>6, <2>7
<1>11. CASE SettleDuplicates
  <2>1. /\ Recorded' = Recorded /\ UNCHANGED dest
        /\ \A n \in Recorded : row'[n] = row[n] \/ n \in dupes
    BY <1>11, Settles
  <2>2. \A n \in dupes : n \in listed /\ ~Counts(n)
    BY <1>11 DEF Base, Copying, Counts
  <2>3. \A n : Counts(n) => Counts(n)' /\ row'[n] = row[n]
    BY <2>1, <2>2 DEF Counts, dest
  <2>4. row'[m] = row[m] /\ Counts(m) /\ row[m].uid \in UIDs
    BY <2>1, <2>2 DEF Counts, dest, UIDs
  <2>. QED
    BY <2>3, <2>4
<1>12. CASE FlagStep
  <2>1. /\ Recorded' = Recorded /\ UIDs' = UIDs /\ dstVal' = dstVal
        /\ \A n \in Recorded : /\ row'[n].state = row[n].state
                               /\ row'[n].dst = row[n].dst /\ row'[n].uid = row[n].uid
    BY <1>12, StoresFlags DEF FlagStep
  <2>2. \A n : Counts(n)' <=> Counts(n)
    BY <2>1 DEF Counts
  <2>3. row[m].uid \in UIDs
    BY <2>1 DEF Counts
  <2>. QED
    BY <2>1, <2>2, <2>3 DEF Counts
<1>13. CASE FlagFails
  BY <1>b, <1>13, FailsToStore DEF FlagFails, dest, store, UIDs
<1>14. CASE Condemn \/ DeletesNothing
  BY <1>b, <1>14, Condemns, KeepsAll DEF dest, store, UIDs
<1>15. CASE Expunge \/ RemoveDuplicates
  BY <1>b, <1>15, Expunges DEF store
<1>16. CASE Forget
  <2>1. /\ phase = "forget" /\ Recorded' = Recorded \ {v.src : v \in doomed} /\ UNCHANGED dest
        /\ \A n \in Recorded' : row'[n] = row[n]
    BY <1>16, Forgets
  <2>2. \A v \in doomed : v.src \notin listed
    BY <1>16, <2>1 DEF ClaimInv, DoomedUnclaimed
  <2>3. \A n \in listed : Counts(n) => Counts(n)' /\ row'[n] = row[n]
    BY <2>1, <2>2 DEF Counts, dest
  <2>4. row'[m] = row[m] /\ Counts(m) /\ row[m].uid \in UIDs
    BY <2>1 DEF Counts, dest, UIDs
  <2>. QED
    BY <2>3, <2>4
<1>17. CASE FindDuplicates
  <2>1. /\ phase = "dedupe" /\ Recorded' = Recorded /\ UNCHANGED dest
        /\ \A n \in Recorded : row'[n].state = row[n].state /\ row'[n].dst = row[n].dst
        /\ row'[m] = row[m] \/ row[m].uid \in UIDs
    BY <1>17, FindsDuplicates DEF Counts
  <2>2. \A k \in Mirrored(p.src, dstVal) : \A n \in Mirrored(p.src, dstVal) :
           row[k].uid = row[n].uid => row'[k].uid = row'[n].uid
    BY <1>17, FindsDuplicates
  <2>3. Mirrored(p.src, dstVal) = Claims
    BY <2>1, ClaimsAre
  <2>4. \A n : Counts(n)' <=> Counts(n)
    BY <2>1 DEF Counts, dest
  <2>5. row[m].uid \in UIDs
    BY <2>1 DEF dest, UIDs
  <2>. QED
    BY <2>2, <2>3, <2>4, <2>5
<1>. QED
  BY <1>2, <1>3, <1>4, <1>5, <1>6, <1>7, <1>8, <1>9, <1>10, <1>11, <1>12, <1>13, <1>14,
     <1>15, <1>16, <1>17, Steps DEF CopySteps


\* A run goes on with what it selected, listed and was told to do.
Later == {"copy", "store", "expunge", "forget", "dedupe", "remove", "finish"}
Ending == {"forget", "dedupe", "remove", "finish"}

LEMMA GoesOn ==
    ASSUME Base, Next, phase' \in Later, ~Diff, ~Dedup
    PROVE  /\ phase \in Later /\ p'.src = p.src /\ p'.modseq = p.modseq /\ p'.live = p.live
           /\ p'.filtered = p.filtered
           /\ opts' = opts /\ folder' = folder /\ (failed => failed')
           /\ phase' \in Ending /\ phase \notin Ending =>
                 Condemn \/ DeletesNothing \/ Expunge
           /\ phase \in Ending => phase' \in Ending /\ (refused => refused')
           /\ phase' \notin {"copy", "store"} => phase # "copy" /\ changes = {}
<1>0. Types /\ (phase # "store" => changes = {})
  BY DEF Base, Types, Shape
<1>. USE <1>0 DEF Later, Ending
<1>1. CASE SourceStep \/ RenumberStep \/ EditStep
  BY <1>1, SourceSteps, RenumberSteps, EditSteps, OthersRun DEF Types, store
<1>2. CASE PlanStep \/ EndStep
  BY <1>2, Plans, EndSteps, RunOver DEF PlanStep
<1>3. CASE Prepare \/ Recover \/ Verify
  BY <1>3, Prepares, Recovers, Verifies
<1>4. CASE CopySteps
  BY <1>4, PassesBy, Adopts, CopiesOne DEF CopySteps, PassStep, AdoptStep, AppendStep, CopyEffect
<1>5. CASE SettleDuplicates \/ FlagStep \/ FlagFails
  <2>1. CASE SettleDuplicates
    BY <2>1, Settles
  <2>2. CASE FlagStep
    BY <2>2, StoresFlags DEF FlagStep
  <2>3. CASE FlagFails
    BY <2>3, FailsToStore DEF FlagFails, store
  <2>. QED
    BY <1>5, <2>1, <2>2, <2>3
<1>6. CASE Condemn \/ DeletesNothing
  BY <1>6, Condemns, KeepsAll DEF store
<1>7. CASE Expunge \/ RemoveDuplicates
  <2>1. CASE phase = "expunge"
    <3>1. Expunge
      BY <1>7, <2>1 DEF RemoveDuplicates
    <3>. QED
      BY <1>7, <2>1, <3>1, Expunges DEF store
  <2>2. CASE phase # "expunge"
    BY <1>7, <2>2, Expunges DEF store
  <2>. QED
    BY <2>1, <2>2
<1>8. CASE Forget \/ FindDuplicates
  BY <1>8, Forgets, FindsDuplicates
<1>. QED
  BY <1>1, <1>2, <1>3, <1>4, <1>5, <1>6, <1>7, <1>8, Steps DEF CopySteps

\* The folder row is written before the copy pass, and at the end.
LEMMA FolderStays ==
    ASSUME Base, Next, ~SourceStep
    PROVE  folder' = folder \/ Prepare \/ EndStep
<1>0. Types
  BY DEF Base
<1>. USE <1>0
<1>1. CASE RenumberStep \/ EditStep \/ PlanStep \/ Dedup
  BY <1>1, RenumberSteps, EditSteps, Plans, Dedups DEF PlanStep, store
<1>2. CASE Recover \/ Verify \/ Diff
  BY <1>2, Recovers, Verifies, Diffs DEF store
<1>3. CASE CopySteps
  BY <1>3, PassesBy, Adopts, CopiesOne DEF CopySteps, PassStep, AdoptStep, AppendStep, CopyEffect
<1>4. CASE SettleDuplicates \/ FlagStep \/ FlagFails
  BY <1>4, Settles, StoresFlags, FailsToStore DEF FlagStep, FlagFails, store
<1>5. CASE Condemn \/ DeletesNothing \/ Expunge \/ RemoveDuplicates \/ Forget \/ FindDuplicates
  BY <1>5, Condemns, KeepsAll, Expunges, Forgets, FindsDuplicates DEF store
<1>. QED
  BY <1>1, <1>2, <1>3, <1>4, <1>5, Steps DEF CopySteps

\* A run under which the destination was renumbered, knows it until it is over.
LEMMA ShiftedBefore ==
    ASSUME Base, Next, ~SourceStep, ~RenumberStep, shifted'
    PROVE  /\ phase \notin {"idle", "planned"} /\ shifted
           /\ p'.src = p.src /\ p'.modseq = p.modseq /\ (phase' \in Open => phase \in Open)
<1>0. Types
  BY DEF Base
<1>. USE <1>0 DEF Open
<1>a. phase \in {"idle", "planned"} => ~shifted
  BY DEF Types, Shape
<1>1. CASE EditStep
  BY <1>a, <1>1, EditSteps, OthersRun DEF Types
<1>2. ~PlanStep /\ ~Dedup /\ ~EndStep /\ ~Prepare
  <2>1. Dedup \/ Prepare => phase \in {"idle", "planned"} /\ shifted' = shifted
    BY DEF Dedup, Prepare, history
  <2>2. PlanStep => phase = "idle" /\ shifted' = shifted
    BY DEF PlanStep, Plan, history
  <2>. QED
    BY <1>a, <2>1, <2>2, EndSteps
<1>3. CASE Recover \/ Verify \/ Diff
  BY <1>a, <1>3, Recovers, Verifies, Diffs DEF history
<1>4. CASE CopySteps
  BY <1>a, <1>4, PassesBy, Adopts, CopiesOne DEF CopySteps, PassStep, AdoptStep, AppendStep, CopyEffect
<1>5. CASE SettleDuplicates \/ FlagStep \/ FlagFails
  BY <1>a, <1>5, Settles, StoresFlags, FailsToStore DEF FlagStep, FlagFails, history
<1>6. CASE Condemn \/ DeletesNothing \/ Expunge \/ RemoveDuplicates \/ Forget \/ FindDuplicates
  BY <1>a, <1>6, Condemns, KeepsAll, Expunges, Forgets, FindsDuplicates DEF history
<1>. QED
  BY <1>1, <1>2, <1>3, <1>4, <1>5, <1>6, Steps DEF CopySteps

\* What a run claims anew, it lists.
LEMMA NewClaimsListed ==
    ASSUME Base, Next, SettleDuplicates => p.live = listed
    PROVE  \A m : Counts(m)' => Counts(m) \/ m \in listed
<1>0. Types
  BY DEF Base
<1>. USE <1>0
<1>. TAKE m
<1>. SUFFICES ASSUME Counts(m)' PROVE Counts(m) \/ m \in listed
  OBVIOUS
<1>1. CASE SourceStep \/ EditStep
  BY <1>1, SourceSteps, EditSteps DEF Counts, dest, store, Recorded
<1>2. CASE RenumberStep
  BY <1>2, RenumberedUnclaimed
<1>3. CASE PlanStep \/ Dedup \/ EndStep
  BY <1>3, Plans, Dedups, EndSteps DEF PlanStep, Counts, dest, store, Recorded
<1>4. CASE Prepare \/ Verify \/ Diff \/ Forget
  BY <1>4, Prepares, Verifies, Diffs, Forgets DEF Counts, dest, store, Recorded
<1>5. CASE Recover
  BY <1>5, Recovers DEF Counts, dest
<1>6. CASE CopySteps
  <2>1. PICK k \in Msgs : Passes(k) \/ Takes(k) \/ Sends(k)
    BY <1>6 DEF CopySteps, PassStep, AdoptStep, AppendStep
  <2>2. CopyEffect(k)
    BY <2>1, PassesBy, Adopts, CopiesOne
  <2>3. CASE m # k
    BY <2>2, <2>3 DEF CopyEffect, Counts
  <2>4. CASE m = k
    <3>1. Passes(k) => row'[k].state # "done"
      BY PassesBy
    <3>2. Takes(k) \/ Sends(k) => k \in listed
      BY Adopts, CopiesOne
    <3>. QED
      BY <2>1, <2>4, <3>1, <3>2 DEF Counts
  <2>. QED
    BY <2>3, <2>4
<1>7. CASE SettleDuplicates
  <2>1. dupes \subseteq listed
    BY <1>7 DEF Base, Copying
  <2>. QED
    BY <1>7, <2>1, Settles DEF Counts, dest
<1>8. CASE FlagStep
  BY <1>8, StoresFlags DEF FlagStep, Counts
<1>9. CASE FlagFails \/ Condemn \/ DeletesNothing
  BY <1>9, FailsToStore, Condemns, KeepsAll DEF FlagFails, Counts, dest, store, Recorded
<1>10. CASE Expunge \/ RemoveDuplicates
  BY <1>10, Expunges DEF Counts, store, Recorded
<1>11. CASE FindDuplicates
  BY <1>11, FindsDuplicates DEF Counts, dest
<1>. QED
  BY <1>1, <1>2, <1>3, <1>4, <1>5, <1>6, <1>7, <1>8, <1>9, <1>10, <1>11, Steps DEF CopySteps

\* Whatever is claimed and gone is condemned, unless what still is shares its
\* copy, or the ceiling refuses.
LEMMA CondemnsAllOwed ==
    ASSUME Base, ClaimInv, Owed, Condemn, Still, NEW m \in Claims \ listed
    PROVE  \/ refused' /\ doomed' = {}
           \/ row[m].uid \in Copies(doomed')
           \/ \E n \in Claims \cap listed : row[n].uid = row[m].uid
<1>0. Types /\ mirror.rows \subseteq MirrorRow
  BY DEF Base, Types, RunTypes
<1>1. /\ phase = "store"
      /\ \/ refused' /\ doomed' = {}
         \/ \A v \in Condemned(mirror.rows, p.src, p.live) : v.uid \in Copies(doomed')
  BY <1>0, Condemns
<1>2. p.live = listed /\ ~shifted
  BY <1>1 DEF Owed, Still
<1>3. \A n : n \in Mirrored(p.src, p.dst) <=> n \in Claims
  BY <1>1, <1>2, ClaimsAre DEF Open
<1>4. /\ \A r \in mirror.rows : r.msg \in Claims /\ row[r.msg].uid = r.uid
      /\ \A n \in Claims : \E r \in mirror.rows :
            r.uid = row[n].uid /\ (r.msg = n \/ {n, r.msg} \subseteq p.live)
  BY <1>1, <1>3 DEF ClaimInv, MirrorTrue
<1>5. PICK r \in mirror.rows : r.uid = row[m].uid /\ r.msg = m
  BY <1>2, <1>4
<1>6. CASE \E q \in mirror.rows : q.uid = r.uid /\ q.msg \in listed
  BY <1>4, <1>5, <1>6
<1>7. CASE \A q \in mirror.rows : q.uid = r.uid => q.msg \notin listed
  <2>. DEFINE v == [uid |-> r.uid, src |-> r.msg]
  <2>1. v \in EveryNomination(mirror.rows, p.live)
    BY <1>2, <1>5 DEF EveryNomination
  <2>2. v \in Vanished(mirror.rows, p.live)
    BY <1>2, <1>7, <2>1 DEF Vanished
  <2>3. v \in Condemned(mirror.rows, p.src, p.live) /\ v.uid = row[m].uid
    BY <1>5, <2>2 DEF Condemned
  <2>. QED
    BY <1>1, <2>3
<1>. QED
  BY <1>6, <1>7

LEMMA OwedInit == Init => Owed /\ Watermarks
<1>. SUFFICES ASSUME Init PROVE Owed /\ Watermarks
  OBVIOUS
<1>1. Claims = {} /\ phase = "idle" /\ modseq = 1 /\ folder.mark = 0 /\ folder.deleted = 0
  BY DEF Init, Recorded, Claims, Mirrored, NoFolder
<1>. QED
  BY <1>1 DEF Owed, Watermarks, Cleared, Going, Open

\* While the source stands still, what a run is to delete stays what it selected.
LEMMA OwedStep ==
    ASSUME Base, ClaimInv, Watermarks, Owed, Next
    PROVE  Owed'
<1>0. /\ Types /\ Numberings
      /\ \A m : m \in Claims <=> Counts(m)
      /\ \A m : m \in Claims' <=> Counts(m)'
  <2>1. Base'
    BY BaseStep
  <2>2. Types /\ Numberings
    BY DEF Base
  <2>. QED
    BY <2>1, <2>2, ClaimsAre, ClaimsNext
<1>. USE <1>0
<1>1. CASE SourceStep
  <2>1. phase' = phase
    BY <1>1, SourceSteps, OthersRun DEF Types
  <2>2. folder'.src = srcVal' => folder'.deleted # modseq'
    BY <1>1, NothingStill
  <2>3. phase \notin {"idle", "planned"} => ~Still'
    BY <1>1, NothingStill
  <2>4. phase' \in Ending => ~Still'
    BY <2>1, <2>3 DEF Ending
  <2>. QED
    BY <2>1, <2>2, <2>3, <2>4 DEF Owed, Ending
<1>2. CASE ~SourceStep
  <2>1. UNCHANGED source
    BY <1>2, PassesBy, Adopts, CopiesOne, QuietSteps DEF CopySteps, PassStep, AdoptStep, AppendStep, CopyEffect
  <2>a. listed' = listed /\ modseq' = modseq /\ srcVal' = srcVal
    BY <2>1 DEF source
  <2>2. phase' \in Later /\ Still' => p'.live = listed
    <3>1. CASE Diff
      BY <3>1, Diffs
    <3>2. CASE Dedup
      BY <2>a, <3>2, Dedups, Numbers DEF Still
    <3>3. CASE ~Diff /\ ~Dedup /\ phase' \in Later
      BY <2>a, <3>3, GoesOn DEF Owed, Still, Later
    <3>. QED
      BY <3>1, <3>2, <3>3
  <2>3. SettleDuplicates /\ (Still \/ Still') => p.live = listed
    <3>1. SettleDuplicates => phase = "copy" /\ p' = p
      BY Settles
    <3>. QED
      BY <2>a, <3>1 DEF Owed, Still
  <2>4. Forget /\ Still => p.live = listed
    BY Forgets DEF Owed
  <2>5. folder'.deleted = modseq' /\ folder'.src = srcVal' => Cleared'
    <3>. SUFFICES ASSUME folder'.deleted = modseq, folder'.src = srcVal PROVE Cleared'
      BY <2>a
    <3>1. CASE folder' = folder
      <4>1. Cleared
        BY <3>1 DEF Owed
      <4>2. SettleDuplicates \/ Forget => Still
        <5>1. SettleDuplicates \/ Forget => phase \in {"copy", "forget"}
          BY Settles, Forgets
        <5>2. phase \in {"copy", "forget"} => folder.deleted <= p.modseq /\ p.src = srcVal /\ p.modseq <= modseq
          BY <3>1 DEF Watermarks, Numberings, Going, Open
        <5>. QED
          BY <3>1, <5>1, <5>2, Numbers DEF Still
      <4>. QED
        BY <1>2, <2>3, <2>4, <4>1, <4>2, ClearedStep
    <3>2. CASE Prepare
      <4>1. CASE Recorded = {} \/ Recorded' = {}
        <5>1. Recorded' = {}
          BY <3>2, <4>1, Prepares DEF Recorded
        <5>. QED
          BY <5>1 DEF Cleared, Counts
      <4>2. CASE Recorded # {} /\ Recorded' # {}
        <5>1. folder.deleted = folder'.deleted /\ folder.src \in {0, srcVal}
          BY <3>2, <4>2, Prepares DEF Kept
        <5>2. Cleared
          BY <4>2, <5>1 DEF Owed, Numberings
        <5>. QED
          BY <1>2, <3>2, <5>2, ClearedStep, Prepares, Settles, Forgets
      <4>. QED
        BY <4>1, <4>2
    <3>3. CASE EndStep /\ folder' # folder
      <4>1. /\ phase = "finish" /\ "alone" \notin opts /\ folder'.src = folder.src
            /\ folder'.deleted = DeletedThrough
        BY <3>3, EndSteps
      <4>2. p.src = srcVal
        BY <4>1 DEF Numberings
      <4>3. Cleared
        <5>1. CASE folder'.deleted = folder.deleted
          BY <4>1, <5>1 DEF Owed
        <5>2. CASE folder'.deleted # folder.deleted
          <6>1. "delete2" \in opts /\ ~failed /\ ~refused /\ p.modseq = modseq
            BY <4>1, <5>2 DEF DeletedThrough
          <6>. QED
            BY <4>1, <4>2, <6>1 DEF Owed, Still
        <5>. QED
          BY <5>1, <5>2
      <4>4. ~SettleDuplicates /\ ~Forget
        BY <4>1, Settles, Forgets
      <4>. QED
        BY <1>2, <4>3, <4>4, ClearedStep
    <3>. QED
      BY <1>2, <3>1, <3>2, <3>3, FolderStays
  <2>6. phase' \notin {"idle", "planned"} /\ Still' /\ shifted' => Claims' \subseteq listed'
    <3>. SUFFICES ASSUME phase' \notin {"idle", "planned"}, Still', shifted', NEW m, Counts(m)'
                  PROVE  m \in listed
      BY <2>a
    <3>1. CASE RenumberStep
      BY <3>1, RenumberedUnclaimed
    <3>2. CASE ~RenumberStep
      <4>1. phase \notin {"idle", "planned"} /\ Still /\ shifted
        BY <1>2, <2>a, <3>2, ShiftedBefore DEF Still
      <4>2. Counts(m) \/ m \in listed
        BY <2>3, <4>1, NewClaimsListed
      <4>. QED
        BY <4>1, <4>2 DEF Owed
    <3>. QED
      BY <3>1, <3>2
  <2>7. phase' = "expunge" /\ Still' =>
          \A m \in Claims' \ listed' : row'[m].uid \in UIDs' =>
              \/ row'[m].uid \in Copies(doomed')
              \/ \E n \in Claims' \cap listed' : row'[n].uid = row'[m].uid
    <3>. SUFFICES ASSUME phase' = "expunge", Still', NEW m, Counts(m)', m \notin listed, row'[m].uid \in UIDs'
                  PROVE  \/ row'[m].uid \in Copies(doomed')
                         \/ \E n \in listed : Counts(n)' /\ row'[n].uid = row'[m].uid
      BY <2>a
    <3>1. CASE RenumberStep
      BY <3>1, RenumberedUnclaimed
    <3>2. CASE EditStep
      <4>1. /\ phase = "expunge" /\ Still /\ doomed' = doomed /\ UNCHANGED <<row, dstVal>> /\ Recorded' = Recorded
            /\ UIDs' \subseteq UIDs \cup {nextUID}
        BY <2>a, <3>2, EditSteps, OthersRun DEF Types, Still, store, Recorded
      <4>2. \A n : Counts(n)' <=> Counts(n)
        BY <4>1 DEF Counts
      <4>3. row[m].uid \in UIDs
        BY <4>1, <4>2, ClaimsAre, Numbers
      <4>. QED
        BY <4>1, <4>2, <4>3 DEF Owed, Copies
    <3>3. CASE Condemn
      <4>1. /\ UNCHANGED <<dest, store>> /\ Recorded' = Recorded /\ p'.src = p.src /\ p'.modseq = p.modseq
            /\ doomed' # {}
        BY <3>3, Condemns DEF store, Recorded
      <4>2. Still /\ m \in Claims \ listed /\ row' = row /\ \A n : Counts(n)' <=> Counts(n)
        BY <2>a, <4>1 DEF Still, Counts, dest, store
      <4>. QED
        BY <3>3, <4>1, <4>2, CondemnsAllOwed
    <3>4. CASE Expunge \/ RemoveDuplicates
      BY <3>4, Expunges
    <3>. QED
      BY <1>2, <3>1, <3>2, <3>3, <3>4, InExpunge
  <2>8. phase' \in Ending /\ "delete2" \in opts' /\ ~failed' /\ ~refused' /\ Still' => Cleared'
    <3>. SUFFICES ASSUME phase' \in Ending, "delete2" \in opts', ~failed', ~refused', Still' PROVE Cleared'
      OBVIOUS
    <3>1. ~Diff /\ ~Dedup
      BY Diffs, Dedups DEF Ending
    <3>2. /\ phase \in Later /\ Still /\ "delete2" \in opts /\ ~failed
          /\ phase \notin Ending => Condemn \/ DeletesNothing \/ Expunge
          /\ phase \in Ending => ~refused
      BY <2>a, <3>1, GoesOn DEF Still, Ending, Later
    <3>3. CASE phase \in Ending
      <4>1. Cleared
        BY <3>2, <3>3 DEF Owed, Ending
      <4>. QED
        BY <1>2, <2>3, <2>4, <3>2, <4>1, ClearedStep
    <3>4. CASE Condemn
      <4>1. UNCHANGED <<dest, store>> /\ doomed' = {}
        BY <3>4, Condemns DEF Ending
      <4>2. Cleared
        BY <3>2, <3>4, <4>1, CondemnsAllOwed DEF Cleared, Copies
      <4>3. ~SettleDuplicates /\ ~Forget
        BY <3>4, Condemns, Settles, Forgets
      <4>. QED
        BY <1>2, <4>2, <4>3, ClearedStep
    <3>5. CASE DeletesNothing
      BY <3>2, <3>5, KeepsAll DEF Deletes
    <3>6. CASE Expunge
      <4>1. phase = "expunge" /\ UNCHANGED <<dstVal, store>> /\ UIDs' = UIDs \ Copies(doomed)
        BY <3>6, Expunges DEF Expunge
      <4>2. \A n : Counts(n)' <=> Counts(n)
        BY <4>1 DEF Counts, store, Recorded
      <4>3. \A m \in Claims \ listed : row[m].uid \in UIDs =>
              \/ row[m].uid \in Copies(doomed)
              \/ \E n \in Claims \cap listed : row[n].uid = row[m].uid
        BY <3>2, <4>1 DEF Owed
      <4>. QED
        BY <2>a, <4>1, <4>2, <4>3 DEF Cleared, store
    <3>. QED
      BY <3>2, <3>3, <3>4, <3>5, <3>6
  <2>9. phase' \notin {"idle", "planned", "opened", "recovered", "verified"} => phase' \in Later
    BY TypesStep DEF Types, RunTypes, Phases, Going, Open, Later
  <2>. QED
    BY <2>a, <2>2, <2>5, <2>6, <2>7, <2>8, <2>9 DEF Owed, Ending
<1>. QED
  BY <1>1, <1>2

\* Deletions have a watermark of their own: when a run that deletes may skip the
\* folder, every copy on record whose message is gone has gone too, or is shared
\* with one that stays (unchanged, deleteVanished, markSynced).
THEOREM NothingIsOwed == Spec => []NothingOwed
<1>1. Init => Base /\ ClaimInv /\ Watermarks /\ Owed
  BY BaseInit, ClaimInit, OwedInit
<1>2. Base /\ ClaimInv /\ Watermarks /\ Owed /\ [Next]_vars => Base' /\ ClaimInv' /\ Watermarks' /\ Owed'
  <2>1. CASE UNCHANGED vars
    BY <2>1, BaseStep, ClaimStep DEF Watermarks, Owed, Cleared, Still, Claims, Mirrored, Copies,
       vars, source, dest, store, run, history, UIDs, Recorded
  <2>. QED
    BY <2>1, BaseStep, ClaimStep, WatermarksStep, OwedStep
<1>3. Owed => NothingOwed
  BY DEF Owed, Cleared, NothingOwed
<1>. QED
  BY <1>1, <1>2, <1>3, PTL DEF Spec

-----------------------------------------------------------------------------
(* The fast path *)

\* What others remove stays removed, until the destination has other numbers.
LEMMA RemovedGrows ==
    ASSUME Types, Next, ~RenumberStep
    PROVE  dstVal' = dstVal /\ removed \subseteq removed'
<1>1. CASE SourceStep \/ EditStep
  BY <1>1, SourceSteps, EditSteps DEF dest, history
<1>2. CASE PlanStep \/ Dedup \/ EndStep
  BY <1>2, Plans, Dedups, EndSteps DEF PlanStep, dest, history
<1>3. CASE Prepare \/ Recover \/ Verify \/ Diff
  BY <1>3, Prepares, Recovers, Verifies, Diffs DEF dest, history
<1>4. CASE CopySteps
  BY <1>4, PassesBy, Adopts, CopiesOne DEF CopySteps, PassStep, AdoptStep, AppendStep, CopyEffect
<1>5. CASE SettleDuplicates \/ FlagStep \/ FlagFails
  <2>1. CASE SettleDuplicates
    BY <2>1, Settles DEF dest
  <2>2. CASE FlagStep
    BY <2>2, StoresFlags DEF FlagStep
  <2>3. CASE FlagFails
    BY <2>3, FailsToStore DEF FlagFails, dest, history
  <2>. QED
    BY <1>5, <2>1, <2>2, <2>3
<1>6. CASE Condemn \/ DeletesNothing \/ Forget \/ FindDuplicates
  BY <1>6, Condemns, KeepsAll, Forgets, FindsDuplicates DEF dest, history
<1>7. CASE Expunge \/ RemoveDuplicates
  BY <1>7, Expunges
<1>. QED
  BY <1>1, <1>2, <1>3, <1>4, <1>5, <1>6, <1>7, Steps DEF CopySteps

\* A claim on a copy of what the source holds outlasts all that a run does, as long
\* as nobody removes copies and the fence holds.
LEMMA ClaimsStay ==
    ASSUME Base, ClaimInv, Next, ~RenumberStep, removed = {}, Prepare => p'.kept,
           Forget => p.live = listed, NEW m \in Claims \cap listed
    PROVE  Counts(m)'
<1>0. /\ Types /\ dstVal' = dstVal /\ Counts(m) /\ m \in Msgs
      /\ row[m].uid \in UIDs
  BY RemovedGrows, ClaimsAre DEF Base, ClaimInv, ClaimsHonoured, Types, StoreTypes, Counts
<1>. USE <1>0
<1>1. CASE SourceStep \/ EditStep
  BY <1>1, SourceSteps, EditSteps DEF Counts, store, Recorded
<1>2. CASE PlanStep \/ Dedup \/ EndStep
  BY <1>2, Plans, Dedups, EndSteps DEF PlanStep, Counts, store, Recorded
<1>3. CASE Prepare
  BY <1>3, Prepares DEF Counts, Recorded
<1>4. CASE Recover
  <2>1. m \notin InFlight
    BY DEF InFlight, Counts
  <2>. QED
    BY <1>4, <2>1, Recovers DEF Counts
<1>5. CASE Verify
  <2>1. m \notin Unhonoured
    BY DEF Unhonoured
  <2>. QED
    BY <1>5, <2>1, Verifies DEF Counts
<1>6. CASE Diff \/ Condemn \/ DeletesNothing \/ Expunge \/ RemoveDuplicates
  <2>1. CASE Diff
    BY <2>1, Diffs DEF Counts, store, Recorded
  <2>2. CASE Condemn \/ DeletesNothing
    BY <2>2, Condemns, KeepsAll DEF Counts, store, Recorded
  <2>3. CASE Expunge \/ RemoveDuplicates
    BY <2>3, Expunges DEF Counts, store, Recorded
  <2>. QED
    BY <1>6, <2>1, <2>2, <2>3
<1>7. CASE CopySteps
  <2>1. PICK k \in Msgs : Passes(k) \/ Takes(k) \/ Sends(k)
    BY <1>7 DEF CopySteps, PassStep, AdoptStep, AppendStep
  <2>2. CopyEffect(k)
    BY <2>1, PassesBy, Adopts, CopiesOne
  <2>3. k # m
    BY <2>2 DEF CopyEffect, Base, Copying, Counts
  <2>. QED
    BY <2>2, <2>3 DEF CopyEffect, Counts
<1>8. CASE SettleDuplicates
  <2>1. m \notin dupes
    BY DEF Base, Copying, Counts
  <2>. QED
    BY <1>8, <2>1, Settles DEF Counts
<1>9. CASE FlagStep \/ FlagFails
  <2>1. CASE FlagStep
    BY <2>1, StoresFlags DEF FlagStep, Counts
  <2>2. CASE FlagFails
    BY <2>2, FailsToStore DEF FlagFails, Counts, store, Recorded
  <2>. QED
    BY <1>9, <2>1, <2>2
<1>10. CASE Forget
  <2>1. \A v \in doomed : v.src # m
    BY <1>10, Forgets DEF ClaimInv, DoomedUnclaimed
  <2>. QED
    BY <1>10, <2>1, Forgets DEF Counts
<1>11. CASE FindDuplicates
  BY <1>11, FindsDuplicates DEF Counts
<1>. QED
  BY <1>1, <1>2, <1>3, <1>4, <1>5, <1>6, <1>7, <1>8, <1>9, <1>10, <1>11, Steps DEF CopySteps

LEMMA ApartStep ==
    ASSUME Base, ShiftedApart, Next
    PROVE  ShiftedApart'
<1>0. Types /\ folder.dst <= dstVal
  BY DEF Base, Numberings
<1>. USE <1>0
<1>1. CASE SourceStep
  BY <1>1, SourceSteps DEF ShiftedApart, dest, store, history
<1>2. CASE RenumberStep
  BY <1>2, RenumberSteps, Numbers DEF ShiftedApart, store
<1>3. CASE ~SourceStep /\ ~RenumberStep /\ shifted'
  <2>1. phase \notin {"idle", "planned"} /\ shifted
    BY <1>3, ShiftedBefore
  <2>2. folder'.dst = folder.dst
    BY <1>3, <2>1, FolderStays, Prepares, EndSteps
  <2>. QED
    BY <1>3, <2>1, <2>2, RemovedGrows DEF ShiftedApart
<1>. QED
  BY <1>1, <1>2, <1>3 DEF ShiftedApart

LEMMA UnfilteredStep ==
    ASSUME Base, Unfiltered, Next
    PROVE  Unfiltered'
<1>0. Types
  BY DEF Base
<1>. USE <1>0
<1>. SUFFICES ASSUME phase' \notin {"idle", "planned", "opened", "recovered", "verified"}, ~p'.filtered
              PROVE  p'.live \cap Excluded = {}
  BY DEF Unfiltered
<1>1. CASE Diff
  <2>1. todo' = (listed \ Settled(p.src)) \ Excluded /\ todo' = listed \ Settled(p.src) /\ p'.live = listed
    BY <1>1, Diffs
  <2>2. Settled(p.src) \cap Excluded = {}
    BY DEF Base, Seen, Settled, SyncedUIDs
  <2>. QED
    BY <2>1, <2>2
<1>2. CASE Dedup
  BY <1>2, Dedups
<1>3. CASE ~Diff /\ ~Dedup
  <2>1. phase' \in Later
    BY TypesStep DEF Types, RunTypes, Phases, Going, Open, Later
  <2>2. phase \in Later /\ p'.live = p.live /\ p'.filtered = p.filtered
    BY <1>3, <2>1, GoesOn
  <2>. QED
    BY <2>2 DEF Unfiltered, Later
<1>. QED
  BY <1>1, <1>2, <1>3

\* What a run that did not fail has to copy is claimed once it goes on to delete.
LEMMA ClaimsAllListed ==
    ASSUME Base, SpareInv, Owed, MarkInv, Condemn \/ DeletesNothing \/ Expunge,
           ~failed, Still, folder.dst = dstVal
    PROVE  listed \ Excluded \subseteq Claims
<1>1. Types /\ phase \in {"store", "expunge"}
  <2>1. Types
    BY DEF Base
  <2>. QED
    BY <2>1, Condemns, KeepsAll DEF Expunge
<1>2. todo = {} /\ dupes = {} /\ p.live = listed
  BY <1>1 DEF Types, Shape, Owed
<1>. QED
  BY <1>1, <1>2 DEF SpareInv, AllClaimed, MarkInv, ShiftedApart

LEMMA RunCoversStep ==
    ASSUME Base, ClaimInv, SpareInv, Watermarks, Owed, MarkInv, Next
    PROVE  RunCovers'
<1>0. /\ Types /\ Numberings
      /\ \A m : m \in Claims <=> Counts(m)
      /\ \A m : m \in Claims' <=> Counts(m)'
  BY BaseStep, ClaimsAre, ClaimsNext DEF Base
<1>. USE <1>0
<1>. SUFFICES ASSUME phase' \in Ending, ~failed', Still', folder'.dst = dstVal', removed' = {},
                     NEW m \in listed' \ Excluded
              PROVE  Counts(m)'
  BY DEF RunCovers, Ending
<1>1. ~SourceStep
  <2>1. SourceStep => phase' = phase
    BY SourceSteps, OthersRun DEF Types
  <2>. QED
    BY <2>1, NothingStill DEF Ending
<1>2. listed' = listed /\ modseq' = modseq /\ srcVal' = srcVal
  BY <1>1, PassesBy, Adopts, CopiesOne, QuietSteps
     DEF CopySteps, PassStep, AdoptStep, AppendStep, CopyEffect, source
<1>3. ~Diff /\ ~Dedup
  BY <1>2, Diffs, Dedups, Numbers DEF Ending, Still
<1>4. /\ phase \in Later /\ Still /\ ~failed /\ folder' = folder
      /\ phase \notin Ending => Condemn \/ DeletesNothing \/ Expunge
  BY <1>2, <1>3, GoesOn DEF Still, Ending, Later
<1>5. ~RenumberStep
  BY <1>4, RenumberSteps, Numbers DEF Numberings
<1>6. removed = {} /\ folder.dst = dstVal
  BY <1>4, <1>5, RemovedGrows
<1>7. m \in Claims \cap listed
  <2>1. CASE phase \in Ending
    BY <1>2, <1>4, <1>6, <2>1 DEF MarkInv, RunCovers, Ending
  <2>2. CASE phase \notin Ending
    BY <1>2, <1>4, <1>6, <2>2, ClaimsAllListed
  <2>. QED
    BY <2>1, <2>2
<1>8. Forget => p.live = listed
  BY <1>4, Forgets DEF Owed
<1>9. ~Prepare
  BY <1>4, Prepares DEF Later
<1>. QED
  BY <1>5, <1>6, <1>7, <1>8, <1>9, ClaimsStay

LEMMA MarkCoversStep ==
    ASSUME Base, ClaimInv, Watermarks, Owed, MarkInv, Next
    PROVE  MarkCovers'
<1>0. /\ Types /\ Numberings
      /\ \A m : m \in Claims <=> Counts(m)
      /\ \A m : m \in Claims' <=> Counts(m)'
  BY BaseStep, ClaimsAre, ClaimsNext DEF Base
<1>. USE <1>0
<1>. SUFFICES ASSUME folder'.mark = modseq', folder'.src = srcVal', folder'.dst = dstVal',
                     removed' = {}, NEW m \in listed'
              PROVE  Counts(m)'
  BY DEF MarkCovers
<1>1. ~SourceStep
  BY NothingStill
<1>2. listed' = listed /\ modseq' = modseq /\ srcVal' = srcVal
  BY <1>1, PassesBy, Adopts, CopiesOne, QuietSteps
     DEF CopySteps, PassStep, AdoptStep, AppendStep, CopyEffect, source
<1>3. ~RenumberStep
  BY RenumberSteps, Numbers DEF Numberings, store
<1>4. removed = {} /\ dstVal' = dstVal
  BY <1>3, RemovedGrows
<1>5. folder.src = srcVal /\ folder.dst = dstVal /\ (Prepare => p'.kept)
  <2>1. CASE Prepare
    <3>1. p'.kept /\ folder.mark = modseq
      BY <1>2, <2>1, Prepares, Numbers
    <3>2. folder.src # 0 /\ folder.dst # 0
      BY <3>1, Numbers DEF Numberings
    <3>. QED
      BY <2>1, <3>1, <3>2, Prepares DEF Kept
  <2>2. CASE ~Prepare
    BY <1>1, <1>2, <1>4, <2>2, FolderStays, EndSteps
  <2>. QED
    BY <2>1, <2>2
<1>6. m \in Claims \cap listed
  <2>1. CASE folder.mark = modseq
    BY <1>2, <1>4, <1>5, <2>1 DEF MarkInv, MarkCovers
  <2>2. CASE folder.mark # modseq
    <3>1. EndStep /\ folder' # folder
      BY <1>1, <1>2, <1>5, <2>2, FolderStays, Prepares
    <3>2. phase = "finish" /\ NewMark = modseq
      BY <1>2, <3>1, EndSteps
    <3>3. ~failed /\ ~p.filtered /\ Still
      BY <1>5, <2>2, <3>2 DEF NewMark, Numberings, Still
    <3>4. listed \cap Excluded = {}
      BY <3>2, <3>3 DEF MarkInv, Unfiltered, Owed
    <3>. QED
      BY <1>2, <1>4, <1>5, <3>2, <3>3, <3>4 DEF MarkInv, RunCovers
  <2>. QED
    BY <2>1, <2>2
<1>7. Forget => p.live = listed
  <2>1. CASE Forget
    <3>1. phase = "forget" /\ folder' = folder
      BY <2>1, Forgets
    <3>2. folder.mark <= p.modseq /\ p.src = srcVal /\ p.modseq <= modseq
      BY <1>5, <3>1 DEF Watermarks, Numberings, Going, Open
    <3>3. Still
      BY <1>2, <3>1, <3>2, Numbers DEF Still
    <3>. QED
      BY <3>1, <3>3 DEF Owed
  <2>. QED
    BY <2>1
<1>. QED
  BY <1>3, <1>4, <1>5, <1>6, <1>7, ClaimsStay

LEMMA MarkInit == Init => MarkInv
<1>. SUFFICES ASSUME Init PROVE MarkInv
  OBVIOUS
<1>1. phase = "idle" /\ modseq = 1 /\ folder.mark = 0 /\ shifted = FALSE
  BY DEF Init, NoFolder
<1>. QED
  BY <1>1 DEF MarkInv, ShiftedApart, Unfiltered, MarkCovers, RunCovers

\* The fast path passes nothing over: a folder that may be skipped has a claim on
\* a copy of every message of the source, unless copies were removed or the
\* destination was made again (canSkip, unchanged, markSynced).
THEOREM NothingIsPassedOver == Spec => []SkipsInStep
<1>1. Init => Base /\ ClaimInv /\ SpareInv /\ Watermarks /\ Owed /\ MarkInv
  BY BaseInit, ClaimInit, SpareInit, OwedInit, MarkInit
<1>2. Base /\ ClaimInv /\ SpareInv /\ Watermarks /\ Owed /\ MarkInv /\ [Next]_vars
        => Base' /\ ClaimInv' /\ SpareInv' /\ Watermarks' /\ Owed' /\ MarkInv'
  <2>1. CASE UNCHANGED vars
    <3>1. ASSUME MarkInv PROVE MarkInv'
      BY <2>1, <3>1 DEF MarkInv, ShiftedApart, Unfiltered, MarkCovers, RunCovers, Still, Claims, Mirrored,
         vars, source, dest, store, run, history, Recorded
    <3>2. ASSUME Watermarks, Owed PROVE Watermarks' /\ Owed'
      BY <2>1, <3>2 DEF Watermarks, Owed, Cleared, Still, Claims, Mirrored, Copies,
         vars, source, dest, store, run, history, UIDs, Recorded
    <3>. QED
      BY <3>1, <3>2, BaseStep, ClaimStep, SpareStep
  <2>2. CASE Next
    <3>. SUFFICES ASSUME Base, ClaimInv, SpareInv, Watermarks, Owed, MarkInv
                  PROVE  Base' /\ ClaimInv' /\ SpareInv' /\ Watermarks' /\ Owed' /\ MarkInv'
      OBVIOUS
    <3>1. Base' /\ ClaimInv' /\ SpareInv' /\ Watermarks' /\ Owed'
      BY <2>2, BaseStep, ClaimStep, SpareStep, WatermarksStep, OwedStep
    <3>2. MarkInv'
      BY <2>2, ApartStep, UnfilteredStep, MarkCoversStep, RunCoversStep DEF MarkInv
    <3>. QED
      BY <3>1, <3>2
  <2>. QED
    BY <2>1, <2>2
<1>3. MarkInv => SkipsInStep
  BY DEF MarkInv, MarkCovers, SkipsInStep, CanSkip, Unchanged
<1>. QED
  BY <1>1, <1>2, <1>3, PTL DEF Spec

-----------------------------------------------------------------------------
(* Flags *)

\* But for a STORE and a renumbering, what is settled stays as it was, and what
\* is claimed anew is unsettled or was just copied.
LEMMA FlagsKept ==
    ASSUME Base, Next, ~RenumberStep, ~FlagStep
    PROVE  /\ loose \subseteq loose' /\ UIDs' \subseteq UIDs \cup {nextUID}
           /\ \A u \in UIDs \cap UIDs' : u \in loose' \/ box'[u] = box[u]
           /\ \A m : Counts(m)' => \/ row'[m].uid \in loose'
                                   \/ Counts(m) /\ row'[m] = row[m]
                                   \/ m \in Msgs /\ Sends(m)
<1>0. Types
  BY DEF Base
<1>. USE <1>0
<1>. DEFINE Kept1 == /\ loose \subseteq loose' /\ UIDs' \subseteq UIDs \cup {nextUID}
                     /\ \A u \in UIDs \cap UIDs' : u \in loose' \/ box'[u] = box[u]
            Row1(m) == \/ row'[m].uid \in loose'
                       \/ Counts(m) /\ row'[m] = row[m]
                       \/ m \in Msgs /\ Sends(m)
<1>1. CASE SourceStep
  <2>1. UNCHANGED <<box, loose, row, dstVal>> /\ UIDs' = UIDs /\ Recorded' = Recorded
    BY <1>1, SourceSteps DEF dest, store, history, UIDs, Recorded
  <2>. QED
    BY <2>1 DEF Counts
<1>2. CASE EditStep
  <2>1. Kept1 /\ UNCHANGED <<row, dstVal>> /\ Recorded' = Recorded
    BY <1>2, EditSteps DEF store, Recorded
  <2>. QED
    BY <2>1 DEF Counts
<1>3. CASE PlanStep \/ Dedup
  <2>1. UNCHANGED <<box, loose, row, dstVal>> /\ UIDs' = UIDs /\ Recorded' = Recorded
    BY <1>3, Plans, Dedups DEF PlanStep, dest, store, history, UIDs, Recorded
  <2>. QED
    BY <2>1 DEF Counts
<1>4. CASE EndStep
  <2>1. Kept1 /\ UNCHANGED <<row, dstVal>> /\ Recorded' = Recorded
    BY <1>4, EndSteps DEF Recorded
  <2>. QED
    BY <2>1 DEF Counts
<1>5. CASE Prepare \/ Verify \/ Diff \/ Forget
  <2>1. /\ UNCHANGED <<box, loose, dstVal>> /\ UIDs' = UIDs /\ Recorded' \subseteq Recorded
        /\ \A m \in Recorded' : row'[m] = row[m]
    BY <1>5, Prepares, Verifies, Diffs, Forgets DEF dest, store, history, UIDs, Recorded
  <2>. QED
    BY <2>1 DEF Counts
<1>6. CASE Recover
  <2>1. /\ UNCHANGED <<box, dstVal>> /\ UIDs' = UIDs /\ Recorded' = Recorded /\ loose \subseteq loose'
        /\ \A m \in Recorded : row'[m] = row[m] \/ row'[m].state # "done" \/ row'[m].uid \in loose'
    BY <1>6, Recovers DEF dest, UIDs
  <2>. QED
    BY <2>1 DEF Counts
<1>7. CASE CopySteps
  <2>1. PICK k \in Msgs : Passes(k) \/ Takes(k) \/ Sends(k)
    BY <1>7 DEF CopySteps, PassStep, AdoptStep, AppendStep
  <2>2. CopyEffect(k)
    BY <2>1, PassesBy, Adopts, CopiesOne
  <2>3. \A m : Counts(m)' => m = k \/ (Counts(m) /\ row'[m] = row[m])
    BY <2>2 DEF CopyEffect, Counts
  <2>4. CASE Passes(k)
    <3>1. UNCHANGED <<box, loose>> /\ UIDs' = UIDs /\ row'[k].state # "done"
      BY <2>4, PassesBy DEF dest, UIDs
    <3>. QED
      BY <2>3, <3>1 DEF Counts
  <2>5. CASE Takes(k)
    <3>1. UNCHANGED box /\ UIDs' = UIDs /\ loose \subseteq loose' /\ row'[k].uid \in loose'
      BY <2>5, Adopts DEF dest, UIDs
    <3>. QED
      BY <2>3, <3>1
  <2>6. CASE Sends(k)
    <3>1. Kept1
      BY <2>6, CopiesOne
    <3>. QED
      BY <2>3, <2>6, <3>1
  <2>. QED
    BY <2>1, <2>4, <2>5, <2>6
<1>8. CASE SettleDuplicates
  <2>1. /\ UNCHANGED <<box, dstVal>> /\ UIDs' = UIDs /\ Recorded' = Recorded /\ loose \subseteq loose'
        /\ \A m \in Recorded : row'[m] = row[m] \/ row'[m].uid \in loose'
    BY <1>8, Settles DEF dest, UIDs
  <2>. QED
    BY <2>1 DEF Counts
<1>9. CASE FlagFails \/ Condemn \/ DeletesNothing
  <2>1. UNCHANGED <<box, loose, row, dstVal>> /\ UIDs' = UIDs /\ Recorded' = Recorded
    BY <1>9, FailsToStore, Condemns, KeepsAll DEF FlagFails, dest, store, history, UIDs, Recorded
  <2>. QED
    BY <2>1 DEF Counts
<1>10. CASE Expunge \/ RemoveDuplicates
  <2>1. Kept1 /\ UNCHANGED <<row, dstVal>> /\ Recorded' = Recorded
    BY <1>10, Expunges DEF store, Recorded
  <2>. QED
    BY <2>1 DEF Counts
<1>11. CASE FindDuplicates
  <2>1. /\ UNCHANGED <<box, dstVal>> /\ UIDs' = UIDs /\ Recorded' = Recorded /\ loose \subseteq loose'
        /\ \A m \in Recorded : row'[m] = row[m] \/ row'[m].uid \in loose'
        /\ \A m \in Recorded : row'[m].state = row[m].state /\ row'[m].dst = row[m].dst
    BY <1>11, FindsDuplicates DEF dest, UIDs
  <2>. QED
    BY <2>1 DEF Counts
<1>. QED
  BY <1>1, <1>2, <1>3, <1>4, <1>5, <1>6, <1>7, <1>8, <1>9, <1>10, <1>11, Steps DEF CopySteps

\* A STORE settles the flags of one copy, unless more than one row names it.
LEMMA StoreSettles ==
    ASSUME Base, ClaimInv, NEW c \in changes, StoreFlags(c)
    PROVE  /\ \A m : Counts(m)' <=> Counts(m)
           /\ \A m : Counts(m) => row'[m].uid = row[m].uid /\ (m # c.msg => row'[m] = row[m])
           /\ loose \subseteq loose' \cup {c.uid}
           /\ c.uid \notin loose' => /\ ~shifted /\ Counts(c.msg) /\ row[c.msg].uid = c.uid
                                     /\ \A m : Counts(m) /\ row[m].uid = c.uid => m = c.msg
           /\ Counts(c.msg) => row'[c.msg].flag = c.flag /\ row[c.msg].uid = c.uid /\ ~shifted
<1>0. Types /\ Numberings
  BY DEF Base
<1>1. /\ phase = "store" /\ UNCHANGED <<dstVal, p, shifted>> /\ Recorded' = Recorded
      /\ \A m \in Recorded : /\ row'[m].state = row[m].state /\ row'[m].dst = row[m].dst
                             /\ row'[m].uid = row[m].uid
                             /\ m # c.msg => row'[m] = row[m]
                             /\ m = c.msg => row'[m].flag = c.flag
      /\ loose' = IF shifted \/ Shared(c.msg) THEN loose \cup {c.uid} ELSE loose \ {c.uid}
  BY <1>0, StoresFlags
<1>2. c.msg \in Mirrored(p.src, p.dst) /\ row[c.msg].uid = c.uid
  BY <1>1 DEF ClaimInv, MirrorTrue
<1>3. c.msg \in Recorded /\ row[c.msg].state = "done" /\ row[c.msg].dst = p.dst /\ (shifted <=> p.dst # dstVal)
  BY <1>0, <1>1, <1>2 DEF Mirrored, Numberings, Open
<1>4. c.uid \notin loose' => ~shifted /\ ~Shared(c.msg)
  BY <1>1
<1>5. \A m : Counts(m) /\ row[m].uid = c.uid /\ m # c.msg /\ ~shifted => Shared(c.msg)
  BY <1>2, <1>3 DEF Counts, Shared
<1>. QED
  BY <1>1, <1>2, <1>3, <1>4, <1>5 DEF Counts

LEMMA SharedStep ==
    ASSUME Base, ClaimInv, FlagInv, Next
    PROVE  SharedLoose'
<1>0. /\ Types /\ Base' /\ \A m : m \in Claims' <=> Counts(m)'
      /\ \A m : Counts(m) => row[m].uid \in Nat /\ row[m].uid < nextUID
      /\ \A m : \A n : Counts(m) /\ Counts(n) /\ m # n /\ row[m].uid = row[n].uid => row[m].uid \in loose
  <2>1. Base' /\ Types
    BY BaseStep DEF Base
  <2>2. \A m : Counts(m) => row[m].uid \in Nat /\ row[m].uid < nextUID
    BY ClaimsAre
  <2>3. \A m : \A n : Counts(m) /\ Counts(n) /\ m # n /\ row[m].uid = row[n].uid => row[m].uid \in loose
    BY ClaimsAre DEF FlagInv, SharedLoose, Shared, Counts
  <2>. QED
    BY <2>1, <2>2, <2>3, ClaimsNext
<1>1. SUFFICES ASSUME NEW m, NEW n, Counts(m)', Counts(n)', m # n, row'[m].uid = row'[n].uid
               PROVE  row'[m].uid \in loose'
  <2>. SUFFICES ASSUME NEW m, Counts(m)', NEW n \in Recorded' \ {m},
                       row'[n].dst = row'[m].dst, row'[n].uid = row'[m].uid
                PROVE  row'[m].uid \in loose'
    BY <1>0 DEF SharedLoose, Shared
  <2>1. \A k \in Recorded' : row'[k].state = "done" <=> row'[k].uid # Nobody
    BY <1>0 DEF Base, Types, StoreTypes
  <2>2. Counts(n)'
    BY <2>1 DEF Counts
  <2>. QED
    BY <1>1, <2>2
<1>2. CASE RenumberStep
  BY <1>1, <1>2, RenumberedUnclaimed
<1>3. CASE FlagStep
  <2>1. PICK c \in changes : StoreFlags(c)
    BY <1>3 DEF FlagStep
  <2>2. Counts(m) /\ Counts(n) /\ row'[m].uid = row[m].uid /\ row'[n].uid = row[n].uid
    BY <1>1, <2>1, StoreSettles
  <2>3. row[m].uid \in loose
    BY <1>0, <1>1, <2>2
  <2>4. loose \subseteq loose' \cup {c.uid}
    BY <2>1, StoreSettles
  <2>5. c.uid \notin loose' => row[m].uid # c.uid \/ row[n].uid # c.uid
    <3>1. c.uid \notin loose' => \A k : Counts(k) /\ row[k].uid = c.uid => k = c.msg
      BY <2>1, StoreSettles
    <3>. QED
      BY <1>1, <2>2, <3>1
  <2>6. row[m].uid = row[n].uid
    BY <1>1, <2>2
  <2>. QED
    BY <2>2, <2>3, <2>4, <2>5, <2>6
<1>4. CASE ~RenumberStep /\ ~FlagStep
  <2>1. \A k : Counts(k)' => \/ row'[k].uid \in loose'
                             \/ Counts(k) /\ row'[k] = row[k]
                             \/ k \in Msgs /\ Sends(k)
    BY <1>4, FlagsKept
  <2>2. \A k \in Msgs : Sends(k) => /\ row'[k].uid = nextUID /\ Recorded' = Recorded \cup {k} /\ dstVal' = dstVal
                                         /\ \A j \in Recorded \ {k} : row'[j] = row[j]
    BY <1>0, CopiesOne DEF CopyEffect
  <2>3. loose \subseteq loose'
    BY <1>4, FlagsKept
  <2>4. CASE \E k \in {m, n} : k \in Msgs /\ Sends(k)
    <3>1. PICK k \in {m, n} : k \in Msgs /\ Sends(k)
      BY <2>4
    <3>2. PICK j \in {m, n} : j # k /\ Counts(j)' /\ row'[j].uid = row'[k].uid
      BY <1>1
    <3>3. Counts(j) /\ row'[j] = row[j]
      <4>1. j \in Recorded' /\ row'[j].state = "done" /\ row'[j].dst = dstVal'
        BY <3>2 DEF Counts
      <4>2. j \in Recorded /\ row'[j] = row[j] /\ dstVal' = dstVal
        BY <2>2, <3>1, <3>2, <4>1
      <4>. QED
        BY <4>1, <4>2 DEF Counts
    <3>. QED
      BY <1>0, <1>1, <2>2, <3>1, <3>2, <3>3
  <2>5. CASE ~ \E k \in {m, n} : k \in Msgs /\ Sends(k)
    BY <1>0, <1>1, <2>1, <2>3, <2>5
  <2>. QED
    BY <2>4, <2>5
<1>. QED
  BY <1>2, <1>3, <1>4

LEMMA AsRecordedStep ==
    ASSUME Base, ClaimInv, FlagInv, Next
    PROVE  CopyAsRecorded'
<1>0. /\ Types /\ Base' /\ \A m : m \in Claims' <=> Counts(m)'
      /\ \A m : Counts(m) => row[m].uid \in Nat /\ row[m].uid < nextUID
      /\ \A m : Counts(m) /\ row[m].uid \in UIDs \ loose => box[row[m].uid].flag = row[m].flag
  <2>1. Base' /\ Types
    BY BaseStep DEF Base
  <2>. QED
    BY <2>1, ClaimsAre, ClaimsNext DEF FlagInv, CopyAsRecorded
<1>1. SUFFICES ASSUME NEW m, Counts(m)', row'[m].uid \in UIDs', row'[m].uid \notin loose'
               PROVE  box'[row'[m].uid].flag = row'[m].flag
  BY <1>0 DEF CopyAsRecorded
<1>2. CASE RenumberStep
  BY <1>1, <1>2, RenumberedUnclaimed
<1>3. CASE FlagStep
  <2>1. PICK c \in changes : StoreFlags(c)
    BY <1>3 DEF FlagStep
  <2>2. Counts(m) /\ row'[m].uid = row[m].uid
    BY <1>1, <2>1, StoreSettles
  <2>3. CASE row[m].uid = c.uid
    <3>1. m = c.msg /\ row'[m].flag = c.flag
      BY <1>1, <2>1, <2>2, <2>3, StoreSettles
    <3>2. box'[c.uid].flag = c.flag
      BY <1>0, <1>1, <2>1, <2>2, <2>3, StoresFlags
    <3>. QED
      BY <2>2, <2>3, <3>1, <3>2
  <2>4. CASE row[m].uid # c.uid
    <3>1. row[m].uid \in UIDs \ loose /\ row'[m] = row[m] /\ box'[row[m].uid] = box[row[m].uid]
      <4>1. m # c.msg
        BY <2>1, <2>2, <2>4, StoreSettles
      <4>2. row[m].uid \notin loose /\ row'[m] = row[m]
        BY <1>1, <2>1, <2>2, <2>4, <4>1, StoreSettles
      <4>3. row[m].uid \in UIDs
        BY <1>0, <1>1, <2>1, <2>2, StoresFlags
      <4>. QED
        BY <1>0, <2>1, <2>4, <4>2, <4>3, StoresFlags
    <3>. QED
      BY <1>0, <2>2, <3>1
  <2>. QED
    BY <2>3, <2>4
<1>4. CASE ~RenumberStep /\ ~FlagStep
  <2>1. \/ Counts(m) /\ row'[m] = row[m]
        \/ m \in Msgs /\ Sends(m)
    BY <1>1, <1>4, FlagsKept
  <2>2. CASE m \in Msgs /\ Sends(m)
    <3>1. row'[m].uid = nextUID /\ row'[m].flag = flag[m] /\ box'[nextUID] = [content |-> Content[m], flag |-> flag[m]]
      BY <1>0, <2>2, CopiesOne
    <3>. QED
      BY <3>1
  <2>3. CASE Counts(m) /\ row'[m] = row[m]
    <3>1. row[m].uid \in UIDs /\ row[m].uid \notin loose
      BY <1>0, <1>1, <1>4, <2>3, FlagsKept, Numbers
    <3>2. box'[row[m].uid] = box[row[m].uid]
      BY <1>1, <1>4, <2>3, <3>1, FlagsKept
    <3>. QED
      BY <1>0, <2>3, <3>1, <3>2
  <2>. QED
    BY <2>1, <2>2, <2>3
<1>. QED
  BY <1>2, <1>3, <1>4

\* A row whose flags were those of the source keeps them while the source keeps
\* its own.
LEMMA CurrentStays ==
    ASSUME Base, ClaimInv, FlagInv, Next, ~SourceStep, ~RenumberStep,
           NEW upto \in Nat, FlagStep => p.src = srcVal /\ upto <= p.modseq,
           NEW m \in listed, Counts(m)', Counts(m) => Current(m, upto)
    PROVE  row'[m].uid \in loose' \/ changed[m] > upto \/ row'[m].flag = flag[m]
<1>0. Types /\ changed[m] \in Nat /\ p.modseq \in Nat
  BY Numbers DEF Base, Types, SourceTypes
<1>1. CASE FlagStep
  <2>1. PICK c \in changes : StoreFlags(c)
    BY <1>1 DEF FlagStep
  <2>2. phase = "store" /\ Counts(m) /\ row'[m].uid = row[m].uid
    BY <1>0, <2>1, StoreSettles, StoresFlags
  <2>3. CASE m = c.msg
    <3>1. changed[m] <= p.modseq => c.flag = flag[m]
      BY <1>1, <2>2, <2>3 DEF FlagInv, RowsCurrent
    <3>2. row'[m].flag = c.flag
      BY <2>1, <2>2, <2>3, StoreSettles
    <3>. QED
      BY <1>0, <1>1, <3>1, <3>2
  <2>4. CASE m # c.msg
    <3>1. row'[m] = row[m]
      BY <2>1, <2>2, <2>4, StoreSettles
    <3>2. row[m].uid \in loose => row[m].uid \in loose'
      BY <2>1, <2>2, <2>4, StoreSettles
    <3>. QED
      BY <1>0, <2>2, <3>1, <3>2 DEF Current
  <2>. QED
    BY <2>3, <2>4
<1>2. CASE ~FlagStep
  <2>1. CASE m \in Msgs /\ Sends(m)
    BY <1>0, <2>1, CopiesOne
  <2>2. CASE Counts(m) /\ row'[m] = row[m]
    BY <1>0, <1>2, <2>2, FlagsKept DEF Current
  <2>. QED
    BY <1>2, <2>1, <2>2, FlagsKept
<1>. QED
  BY <1>1, <1>2

LEMMA CurrentStep ==
    ASSUME Base, ClaimInv, Watermarks, FlagInv, Next
    PROVE  RowsCurrent'
<1>0. /\ Types /\ Numberings /\ Base' /\ \A m : m \in Claims' <=> Counts(m)'
      /\ \A m : m \in Claims <=> Counts(m)
  <2>1. Base' /\ Types /\ Numberings
    BY BaseStep DEF Base
  <2>. QED
    BY <2>1, ClaimsAre, ClaimsNext
<1>. USE <1>0
<1>1. CASE SourceStep
  <2>1. /\ UNCHANGED <<phase, opts, folder, row, loose, dstVal, shifted, changes, failed>>
        /\ Recorded' = Recorded /\ p'.src = p.src /\ p'.modseq = p.modseq
    BY <1>1, SourceSteps, OthersRun DEF Types, dest, store, history, Recorded
  <2>2. \A m : Counts(m)' <=> Counts(m)
    BY <2>1 DEF Counts
  <2>3. CASE srcVal' = srcVal + 1
    <3>1. folder'.src # srcVal' /\ (phase' \notin {"idle", "planned"} => p'.src # srcVal')
      <4>1. folder.src <= srcVal /\ (phase \notin {"idle", "planned"} => p.src <= srcVal)
        BY DEF Numberings
      <4>. QED
        BY <2>1, <2>3, <4>1, Numbers
    <3>. QED
      BY <3>1 DEF RowsCurrent, Open
  <2>4. ASSUME srcVal' = srcVal, modseq' = modseq + 1, NEW k \in Msgs, changed'[k] = modseq + 1,
               \A n \in Msgs \ {k} : changed'[n] = changed[n] /\ flag'[n] = flag[n],
               \/ k \notin listed /\ changed[k] = 1 /\ listed' = listed \cup {k}
               \/ k \in listed /\ listed' \in {listed, listed \ {k}}
        PROVE  RowsCurrent'
    <3>1. \A m \in listed' : \A upto \in Nat : upto <= modseq /\ changed'[m] <= upto =>
             m # k /\ m \in listed /\ changed[m] <= upto /\ flag'[m] = flag[m]
      BY <2>4, Numbers DEF Types, SourceTypes
    <3>2. \A m \in listed' : \A upto \in Nat :
             upto <= modseq /\ (m \in listed => Current(m, upto)) => Current(m, upto)'
      BY <2>1, <3>1 DEF Current
    <3>3. ASSUME folder'.src = srcVal', NEW m, Counts(m)', m \in listed' PROVE Current(m, folder.mark)'
      <4>1. folder.mark <= modseq /\ (m \in listed => Current(m, folder.mark))
        BY <2>1, <2>2, <2>4, <3>3 DEF Watermarks, FlagInv, RowsCurrent
      <4>2. (m \in listed' /\ folder.mark <= modseq /\ (m \in listed => Current(m, folder.mark)))
               => (row'[m].uid \notin loose' /\ changed'[m] <= folder.mark => row'[m].flag = flag'[m])
        BY <3>2, Numbers DEF Current
      <4>. QED
        BY <2>1, <3>3, <4>1, <4>2 DEF Current
    <3>a. phase \notin {"idle", "planned"} /\ p.src = srcVal => p.modseq <= modseq
      BY DEF Watermarks
    <3>4. ASSUME phase' \in Open, shifted', p'.src = srcVal', NEW m, Counts(m)', m \in listed'
          PROVE  Current(m, p.modseq)'
      <4>1. p.modseq <= modseq /\ (m \in listed => Current(m, p.modseq))
        BY <2>1, <2>2, <2>4, <3>4, <3>a DEF FlagInv, RowsCurrent, Open
      <4>2. row'[m].uid \notin loose' /\ changed'[m] <= p.modseq => row'[m].flag = flag'[m]
        BY <3>2, <3>4, <4>1, Numbers DEF Current
      <4>. QED
        BY <2>1, <4>2 DEF Current
    <3>5. phase' = "store" /\ p'.src = srcVal' =>
             \A c \in changes' : c.msg \in listed' /\ changed'[c.msg] <= p'.modseq => c.flag = flag'[c.msg]
      BY <2>1, <2>4, <3>1, <3>a, Numbers DEF FlagInv, RowsCurrent
    <3>6. ASSUME phase' \in {"store", "expunge", "forget", "dedupe", "remove", "finish"},
                 "alone" \notin opts', ~failed', p'.src = srcVal', NEW m, Counts(m)', m \in listed'
          PROVE  (\E c \in changes' : c.msg = m) \/ Current(m, p.modseq)'
      <4>1. p.modseq <= modseq
        BY <2>1, <2>4, <3>6, <3>a
      <4>2. m \in listed => (\E c \in changes : c.msg = m) \/ Current(m, p.modseq)
        BY <2>1, <2>2, <2>4, <3>6 DEF FlagInv, RowsCurrent
      <4>3. (m \in listed => Current(m, p.modseq)) =>
               (row'[m].uid \notin loose' /\ changed'[m] <= p.modseq => row'[m].flag = flag'[m])
        BY <3>2, <3>6, <4>1, Numbers DEF Current
      <4>. QED
        BY <2>1, <4>2, <4>3 DEF Current
    <3>. QED
      BY <2>1, <3>3, <3>4, <3>5, <3>6 DEF RowsCurrent, Current
  <2>. QED
    BY <1>1, <2>3, <2>4, SourceSteps
<1>2. CASE RenumberStep
  <2>1. UNCHANGED <<phase, changes, source>> /\ p'.src = p.src /\ p'.modseq = p.modseq
    BY <1>2, RenumberSteps, OthersRun DEF Types
  <2>2. \A m : m \notin Claims'
    BY <1>2, RenumberedUnclaimed
  <2>. QED
    BY <2>1, <2>2 DEF FlagInv, RowsCurrent, source
<1>3. CASE ~SourceStep /\ ~RenumberStep
  <2>1. listed' = listed /\ modseq' = modseq /\ srcVal' = srcVal /\ changed' = changed /\ flag' = flag
    BY <1>3, PassesBy, Adopts, CopiesOne, QuietSteps DEF CopySteps, PassStep, AdoptStep, AppendStep, CopyEffect, source
  <2>2. FlagStep => phase = "store" /\ p.src = folder.src /\ folder.mark <= p.modseq
    BY StoresFlags DEF FlagStep, Numberings, Watermarks, Going, Open
  <2>3. ASSUME folder'.src = srcVal', NEW m, Counts(m)', m \in listed' PROVE Current(m, folder.mark)'
    <3>a. folder'.mark \in Nat /\ p.modseq \in Nat /\ folder.mark \in Nat
      BY TypesStep, Numbers DEF Types, StoreTypes, FolderType
    <3>b. SUFFICES row'[m].uid \in loose' \/ changed[m] > folder'.mark \/ row'[m].flag = flag[m]
      <4>1. changed[m] \in Nat
        BY <2>1, <2>3 DEF Types, SourceTypes
      <4>. QED
        BY <2>1, <3>a, <4>1 DEF Current
    <3>1. CASE folder' = folder
      <4>1. Counts(m) => Current(m, folder.mark)
        BY <2>1, <2>3, <3>1 DEF FlagInv, RowsCurrent
      <4>. QED
        BY <1>3, <2>1, <2>2, <2>3, <3>1, <3>a, <4>1, CurrentStays
    <3>2. CASE Prepare
      <4>1. Recorded # {} /\ p'.kept
        BY <2>3, <3>2, Prepares DEF Counts, Recorded
      <4>2. folder.src = srcVal /\ folder'.mark = folder.mark
        BY <3>2, <4>1, Prepares DEF Kept, Numberings
      <4>3. Counts(m) => Current(m, folder.mark)
        BY <2>1, <2>3, <4>2 DEF FlagInv, RowsCurrent
      <4>4. ~FlagStep
        BY <3>2, Prepares, StoresFlags DEF FlagStep
      <4>. QED
        BY <1>3, <2>1, <2>3, <3>a, <4>2, <4>3, <4>4, CurrentStays
    <3>3. CASE EndStep /\ folder' # folder
      <4>1. /\ phase = "finish" /\ "alone" \notin opts /\ folder'.src = folder.src
            /\ folder'.mark = NewMark
        BY <3>3, EndSteps
      <4>2. p.src = srcVal /\ folder.src = srcVal /\ changes = {}
        BY <2>1, <2>3, <4>1 DEF Numberings, Types, Shape
      <4>3. folder'.mark = folder.mark \/ (folder'.mark = p.modseq /\ ~failed)
        BY <4>1 DEF NewMark
      <4>4. Counts(m) => Current(m, folder'.mark)
        BY <2>1, <2>3, <4>1, <4>2, <4>3 DEF FlagInv, RowsCurrent
      <4>5. ~FlagStep
        BY <2>2, <4>1
      <4>. QED
        BY <1>3, <2>1, <2>3, <3>a, <4>4, <4>5, CurrentStays
    <3>. QED
      BY <1>3, <3>1, <3>2, <3>3, FolderStays
  <2>4. ASSUME phase' \in Open, shifted', p'.src = srcVal', NEW m, Counts(m)', m \in listed'
        PROVE  Current(m, p.modseq)'
    <3>1. phase \in Open /\ shifted /\ p.src = srcVal /\ p'.modseq = p.modseq /\ p.modseq \in Nat
      BY <1>3, <2>1, <2>4, ShiftedBefore, Numbers
    <3>2. Counts(m) => Current(m, p.modseq)
      BY <2>1, <2>4, <3>1 DEF FlagInv, RowsCurrent
    <3>3. row'[m].uid \in loose' \/ changed[m] > p.modseq \/ row'[m].flag = flag[m]
      BY <1>3, <2>1, <2>4, <3>1, <3>2, CurrentStays
    <3>4. changed[m] \in Nat
      BY <2>1, <2>4 DEF Types, SourceTypes
    <3>. QED
      BY <2>1, <3>1, <3>3, <3>4 DEF Current
  <2>5. phase' = "store" /\ p'.src = srcVal' =>
           \A c \in changes' : c.msg \in listed' /\ changed'[c.msg] <= p'.modseq => c.flag = flag'[c.msg]
    <3>. SUFFICES ASSUME phase' = "store", p'.src = srcVal', NEW c \in changes',
                         c.msg \in listed, changed[c.msg] <= p'.modseq
                  PROVE  c.flag = flag[c.msg]
      BY <2>1
    <3>1. CASE EditStep
      <4>1. phase = "store" /\ changes' = changes /\ p'.src = p.src /\ p'.modseq = p.modseq
        BY <3>1, EditSteps, OthersRun DEF Types
      <4>. QED
        BY <2>1, <4>1 DEF FlagInv, RowsCurrent
    <3>2. CASE SettleDuplicates
      BY <2>1, <3>2, Settles
    <3>3. CASE FlagStep \/ FlagFails
      <4>1. phase = "store" /\ changes' \subseteq changes /\ p' = p
        BY <3>3, StoresFlags, FailsToStore DEF FlagStep, FlagFails
      <4>. QED
        BY <2>1, <4>1 DEF FlagInv, RowsCurrent
    <3>. QED
      BY <1>3, <3>1, <3>2, <3>3, InStore
  <2>6. ASSUME phase' \in {"store", "expunge", "forget", "dedupe", "remove", "finish"},
               "alone" \notin opts', ~failed', p'.src = srcVal', NEW m, Counts(m)', m \in listed'
        PROVE  (\E c \in changes' : c.msg = m) \/ Current(m, p.modseq)'
    <3>1. ~Diff /\ ~Dedup
      BY <2>6, Diffs, Dedups
    <3>2. /\ phase \in Later /\ p'.src = p.src /\ p'.modseq = p.modseq /\ p.modseq \in Nat
          /\ opts' = opts /\ ~failed /\ changed[m] \in Nat
          /\ phase' # "store" => phase # "copy" /\ changes = {}
      <4>1. changed[m] \in Nat /\ p.modseq \in Nat
        BY <2>1, <2>6, Numbers DEF Types, SourceTypes
      <4>. QED
        BY <2>6, <3>1, <4>1, GoesOn DEF Later
    <3>3. CASE SettleDuplicates
      <4>1. /\ phase = "copy" /\ p' = p /\ mirror'.rows = MirrorRows(p.src, p.dst) /\ p.src = srcVal
            /\ \A r \in mirror'.rows :
                  r.msg \in listed /\ changed[r.msg] > p.since /\ flag[r.msg] # r.flag
                     => \E c \in changes' : c.msg = r.msg
        BY <2>1, <2>6, <3>3, Settles
      <4>2. folder.src = srcVal /\ p.since = folder.mark
        BY <4>1 DEF Numberings, Watermarks, Going, Open
      <4>3. CASE row'[m].uid \in loose'
        BY <4>3 DEF Current
      <4>4. CASE Counts(m) /\ row'[m] = row[m] /\ shifted
        <5>1. Current(m, p.modseq)
          BY <2>1, <2>6, <4>1, <4>4 DEF FlagInv, RowsCurrent, Open
        <5>2. loose \subseteq loose'
          BY <3>3, Settles
        <5>. QED
          BY <2>1, <4>1, <4>4, <5>1, <5>2 DEF Current
      <4>5. CASE Counts(m) /\ row'[m] = row[m] /\ ~shifted
        <5>1. m \in Mirrored(p.src, p.dst)
          BY <4>1, <4>5, ClaimsAre DEF Open
        <5>2. PICK r \in mirror'.rows : r.msg = m /\ r.flag = row[m].flag
          BY <4>1, <5>1, RowsTyped DEF Types
        <5>3. CASE changed[m] > p.since /\ flag[m] # row[m].flag
          BY <2>1, <2>6, <4>1, <5>2, <5>3
        <5>4. CASE flag[m] = row[m].flag
          BY <2>1, <4>5, <5>4 DEF Current
        <5>5. CASE ~ (changed[m] > p.since)
          <6>1. Current(m, folder.mark)
            BY <2>1, <2>6, <4>2, <4>5 DEF FlagInv, RowsCurrent
          <6>2. changed[m] <= folder.mark
            BY <3>2, <4>2, <5>5, Numbers
          <6>3. loose \subseteq loose'
            BY <3>3, Settles
          <6>. QED
            BY <2>1, <4>5, <6>1, <6>2, <6>3 DEF Current
        <5>. QED
          BY <5>3, <5>4, <5>5
      <4>6. (Counts(m) /\ row'[m] = row[m]) \/ row'[m].uid \in loose'
        <5>1. ~RenumberStep /\ ~FlagStep
          BY <1>3, <4>1, <2>6, StoresFlags DEF FlagStep
        <5>2. ~ (m \in Msgs /\ Sends(m))
          BY <2>6, CopiesOne DEF CopyEffect
        <5>. QED
          BY <2>6, <5>1, <5>2, FlagsKept
      <4>. QED
        BY <4>3, <4>4, <4>5, <4>6
    <3>4. CASE phase # "copy" /\ ~FlagStep
      <4>1. changes \subseteq changes'
        <5>1. CASE phase' = "store"
          <6>1. ~SettleDuplicates /\ ~FlagFails
            BY <2>6, <3>4, Settles, FailsToStore DEF FlagFails
          <6>. QED
            BY <1>3, <3>4, <5>1, <6>1, InStore, EditSteps, OthersRun DEF Types
        <5>. QED
          BY <3>2, <5>1
      <4>2. Counts(m) => (\E c \in changes : c.msg = m) \/ Current(m, p.modseq)
        BY <2>1, <2>6, <3>2, <3>4 DEF FlagInv, RowsCurrent, Later
      <4>3. (Counts(m) => Current(m, p.modseq)) =>
               row'[m].uid \in loose' \/ changed[m] > p.modseq \/ row'[m].flag = flag[m]
        BY <1>3, <2>1, <2>6, <3>2, <3>4, CurrentStays
      <4>. QED
        BY <2>1, <3>2, <4>1, <4>2, <4>3 DEF Current
    <3>5. CASE FlagStep
      <4>1. PICK c \in changes : StoreFlags(c)
        BY <3>5 DEF FlagStep
      <4>2. phase = "store" /\ changes' = changes \ {c} /\ p' = p
        BY <4>1, StoresFlags
      <4>3. Counts(m)
        BY <2>6, <4>1, StoreSettles
      <4>4. (\E d \in changes : d.msg = m) \/ Current(m, p.modseq)
        BY <2>1, <2>6, <3>2, <4>2, <4>3 DEF FlagInv, RowsCurrent
      <4>5. CASE m = c.msg
        <5>1. row'[m].flag = c.flag
          BY <4>1, <4>3, <4>5, StoreSettles
        <5>2. changed[m] <= p.modseq => c.flag = flag[m]
          BY <2>1, <2>6, <3>2, <4>2, <4>5 DEF FlagInv, RowsCurrent
        <5>. QED
          BY <2>1, <4>2, <5>1, <5>2 DEF Current
      <4>6. CASE m # c.msg /\ Current(m, p.modseq)
        <5>1. row'[m].uid \in loose' \/ changed[m] > p.modseq \/ row'[m].flag = flag[m]
          BY <1>3, <2>1, <2>6, <3>2, <4>6, CurrentStays
        <5>. QED
          BY <2>1, <3>2, <5>1 DEF Current
      <4>7. CASE m # c.msg /\ \E d \in changes : d.msg = m
        BY <4>2, <4>7
      <4>. QED
        BY <4>4, <4>5, <4>6, <4>7
    <3>6. phase = "copy" => SettleDuplicates
      <4>1. CASE phase = "copy" /\ phase' = "store"
        BY <1>3, <4>1, InStore, EditSteps, OthersRun, StoresFlags, FailsToStore DEF FlagStep, FlagFails, Types
      <4>. QED
        BY <3>2, <4>1
    <3>. QED
      BY <3>3, <3>4, <3>5, <3>6
  <2>. QED
    BY <2>1, <2>3, <2>4, <2>5, <2>6 DEF RowsCurrent, Current
<1>. QED
  BY <1>1, <1>2, <1>3

LEMMA FlagInit == Init => FlagInv
<1>. SUFFICES ASSUME Init PROVE FlagInv
  OBVIOUS
<1>1. Claims = {} /\ phase = "idle"
  BY DEF Init, Recorded, Claims, Mirrored
<1>. QED
  BY <1>1 DEF FlagInv, SharedLoose, CopyAsRecorded, RowsCurrent, Open

\* The watermark covers flags too: when the folder may be skipped, every copy
\* whose flags nobody else touched has the flags of its source (sourceFlags,
\* resyncFlags, RecordFlags, markSynced).
THEOREM FlagsAreFollowed == Spec => []FlagsFollow
<1>1. Init => Base /\ ClaimInv /\ Watermarks /\ FlagInv
  BY BaseInit, ClaimInit, OwedInit, FlagInit
<1>2. Base /\ ClaimInv /\ Watermarks /\ FlagInv /\ [Next]_vars => Base' /\ ClaimInv' /\ Watermarks' /\ FlagInv'
  <2>1. CASE UNCHANGED vars
    BY <2>1, BaseStep, ClaimStep DEF Watermarks, FlagInv, SharedLoose, Shared, CopyAsRecorded, RowsCurrent,
       Current, Claims, Mirrored, vars, source, dest, store, run, history, UIDs, Recorded
  <2>. QED
    BY <2>1, BaseStep, ClaimStep, WatermarksStep, SharedStep, AsRecordedStep, CurrentStep DEF FlagInv
<1>3. Base /\ FlagInv => FlagsFollow
  <2>. SUFFICES ASSUME Base, FlagInv, folder.mark = modseq, folder.src = srcVal, NEW m \in Claims \cap listed,
                       row[m].uid \in UIDs \ loose
                PROVE  box[row[m].uid].flag = flag[m]
    BY DEF FlagsFollow
  <2>1. changed[m] <= modseq
    BY DEF Base, Seen, Types, SourceTypes
  <2>2. row[m].flag = flag[m]
    BY <2>1 DEF FlagInv, RowsCurrent, Current
  <2>. QED
    BY <2>2 DEF FlagInv, CopyAsRecorded
<1>. QED
  BY <1>1, <1>2, <1>3, PTL DEF Spec

-----------------------------------------------------------------------------
(* The preview *)

\* A dry run looks at the mailboxes and the rows, and at nothing else.
LEMMA PreviewStays ==
    ASSUME NEW o, UNCHANGED <<listed, srcVal, box, dstVal, row>>
    PROVE  Preview(o)' = Preview(o)
<1>1. UIDs' = UIDs /\ Recorded' = Recorded /\ InFlight' = InFlight
  BY DEF UIDs, Recorded, InFlight
<1>2. \A s, d : Mirrored(s, d)' = Mirrored(s, d)
  BY <1>1 DEF Mirrored
<1>3. MirrorRows(srcVal, dstVal)' = MirrorRows(srcVal, dstVal)
  BY <1>1, <1>2 DEF MirrorRows, Mirrored
<1>4. PreviewMissing(o)' = PreviewMissing(o)
  BY <1>1, <1>2 DEF PreviewMissing, ClaimedCount, Mirrored
<1>5. PreviewDeletes(o)' = PreviewDeletes(o)
  BY <1>1, <1>2, <1>3 DEF PreviewDeletes, Condemned, Vanished, Unrecorded, EveryNomination, SourceIdents,
     Idents, SyncedUIDs, Identifiable, FetchMeta, ClaimedDestUIDs, Copies
<1>6. Settled(srcVal)' = Settled(srcVal)
  BY <1>1 DEF Settled, SyncedUIDs
<1>. QED
  BY <1>1, <1>4, <1>5, <1>6 DEF Preview, PreviewFiltered

\* What a dry run foretells of a folder that its rows fit.
LEMMA PreviewForetells ==
    ASSUME Base, p.preview = Preview(opts), folder.src = srcVal, "delete2" \in opts
    PROVE  StrangersForetold /\ VanishedForetold
<1>0. Types /\ p.preview.deletes = Copies(Condemned(MirrorRows(srcVal, dstVal), srcVal, listed))
  BY DEF Base, Preview, PreviewDeletes
<1>1. StrangersForetold
  <2>. SUFFICES ASSUME NEW e \in Identifiable(FetchMeta(UIDs \ ClaimedDestUIDs(dstVal))),
                       ~ \E m \in listed \ Excluded : Identity[Content[m]] = Identity[e.content]
                PROVE  e.uid \in p.preview.deletes
    BY DEF StrangersForetold
  <2>1. Identity[e.content] \notin SourceIdents(srcVal, listed)
    <3>1. \A m \in Idents(srcVal) : m \in Recorded
      BY DEF Idents, SyncedUIDs
    <3>2. \A m \in Idents(srcVal) \cap listed : m \in listed \ Excluded
      BY <3>1 DEF Base, Seen
    <3>. QED
      BY <3>2 DEF SourceIdents
  <2>. DEFINE v == [uid |-> e.uid, src |-> Nobody]
  <2>2. v \in Unrecorded(SourceIdents(srcVal, listed))
    BY <2>1 DEF Unrecorded
  <2>3. v \in Condemned(MirrorRows(srcVal, dstVal), srcVal, listed) /\ v.uid = e.uid
    BY <2>2 DEF Condemned
  <2>. QED
    BY <1>0, <2>3 DEF Copies
<1>2. VanishedForetold
  <2>. DEFINE rows == MirrorRows(srcVal, dstVal)
  <2>. SUFFICES ASSUME NEW m \in Claims \ listed,
                       ~ \E n \in Claims \cap listed : row[n].uid = row[m].uid
                PROVE  row[m].uid \in p.preview.deletes
    BY DEF VanishedForetold
  <2>1. Claims = Mirrored(srcVal, dstVal)
    BY DEF Claims
  <2>2. PICK r \in rows : r.msg = m /\ r.uid = row[m].uid
    BY <1>0, <2>1, RowsTyped DEF Types
  <2>3. \A q \in rows : q.msg \in Claims /\ q.uid = row[q.msg].uid
    BY <1>0, <2>1, RowsTyped DEF Types
  <2>. HIDE DEF rows
  <2>. DEFINE v == [uid |-> r.uid, src |-> r.msg]
  <2>4. v \in EveryNomination(rows, listed)
    BY <2>2 DEF EveryNomination
  <2>5. \A q \in rows : q.uid = v.uid => q.msg \notin listed
    BY <2>2, <2>3
  <2>6. v \in Vanished(rows, listed)
    BY <2>4, <2>5 DEF Vanished
  <2>7. v \in Condemned(rows, srcVal, listed) /\ v.uid = row[m].uid
    BY <2>2, <2>6 DEF Condemned
  <2>. QED
    BY <1>0, <2>7 DEF Copies, rows
<1>. QED
  BY <1>1, <1>2

\* What verification drops, the dry run found missing.
LEMMA UnhonouredForetold ==
    ASSUME Base, phase = "recovered", p.src = srcVal, p.dst = dstVal, p.count = Cardinality(UIDs)
    PROVE  /\ Unhonoured \subseteq PreviewMissing(opts)
           /\ \A m \in Unhonoured : row[m].uid \notin UIDs
<1>2. ClaimedCount(srcVal, dstVal) \in Nat
  <2>. DEFINE uids == {row[m].uid : m \in Mirrored(srcVal, dstVal)}
  <2>1. \A m \in Mirrored(srcVal, dstVal) : row[m].uid \in 1..(nextUID - 1)
    <3>1. Types /\ BelowNext
      BY DEF Base
    <3>2. \A m \in Mirrored(srcVal, dstVal) :
             m \in Recorded /\ row[m].uid \in Nat /\ row[m].uid # 0 /\ row[m].uid < nextUID
      BY <3>1, Numbers DEF Mirrored, BelowNext, Nobody
    <3>. QED
      BY <3>1, <3>2, Numbers
  <2>2. uids \subseteq 1..(nextUID - 1)
    BY <2>1
  <2>3. IsFiniteSet(uids)
    <3>1. nextUID - 1 \in Int
      BY Numbers DEF Base
    <3>2. IsFiniteSet(1..(nextUID - 1))
      BY <3>1, FS_Interval
    <3>. QED
      BY <2>2, <3>2, FS_Subset
  <2>4. Cardinality(uids) \in Nat
    BY <2>3, FS_CardinalityType
  <2>. QED
    BY <2>4 DEF ClaimedCount
<1>3. Cardinality(UIDs) \in Nat
  BY UIDsCounted DEF Base, Types
<1>. QED
  BY <1>2, <1>3 DEF Unhonoured, PreviewMissing

LEMMA CalmStep ==
    ASSUME Base, Calm, Next
    PROVE  Calm'
<1>0. Types
  BY DEF Base
<1>. USE <1>0
<1>1. CASE SourceStep \/ RenumberStep \/ EditStep
  BY <1>1, SourceSteps, RenumberSteps, EditSteps, OthersRun DEF Types, Calm
<1>2. CASE PlanStep
  <2>1. PICK o \in Options, known \in BOOLEAN : Plan(o, known)
    BY <1>2 DEF PlanStep
  <2>2. phase' = "planned" /\ opts' = o /\ p'.preview = Preview(o)
        /\ UNCHANGED <<listed, srcVal, box, dstVal, row, shifted>>
    BY <2>1, Plans DEF source, dest, store, history
  <2>3. Preview(o)' = Preview(o)
    BY <2>2, PreviewStays
  <2>4. Preview(opts)' = Preview(o)'
    BY <2>2
  <2>5. ~shifted
    BY <2>1 DEF Plan, Types, Shape
  <2>. QED
    BY <2>2, <2>3, <2>4, <2>5 DEF Calm, Going, Open
<1>3. CASE Dedup
  <2>1. phase' = "dedupe" /\ ~shifted /\ shifted' = shifted
    BY <1>3, Dedups DEF Dedup, Types, Shape, history
  <2>. QED
    BY <2>1 DEF Calm, Going, Open
<1>4. CASE EndStep
  BY <1>4, EndSteps, RunOver DEF Calm
<1>5. CASE Prepare
  <2>1. /\ phase' \in {"opened", "recovered"} /\ p'.src = srcVal /\ p'.modseq = modseq
        /\ UNCHANGED <<srcVal, modseq, shifted>>
    BY <1>5, Prepares DEF source, history
  <2>2. ~shifted
    BY <1>5, Prepares DEF Types, Shape
  <2>. QED
    BY <2>1, <2>2 DEF Calm, Still
<1>6. ASSUME /\ UNCHANGED <<srcVal, modseq, shifted>> /\ p'.src = p.src /\ p'.modseq = p.modseq
             /\ p'.calm = p.calm /\ phase \notin {"idle", "planned"} /\ phase' # "planned"
             /\ phase' \in Going => phase \in Going
      PROVE  Calm'
  BY <1>6 DEF Calm, Still
<1>7. CASE Recover \/ Verify \/ Diff
  BY <1>6, <1>7, Recovers, Verifies, Diffs DEF Going, Open, source, store, history
<1>8. CASE CopySteps
  BY <1>6, <1>8, PassesBy, Adopts, CopiesOne DEF CopySteps, PassStep, AdoptStep, AppendStep, CopyEffect,
     Going, Open, source
<1>9. CASE SettleDuplicates
  BY <1>6, <1>9, Settles DEF Going, Open, source
<1>10. CASE FlagStep \/ FlagFails
  BY <1>6, <1>10, StoresFlags, FailsToStore DEF FlagStep, FlagFails, Going, Open, source, history
<1>11. CASE Condemn \/ DeletesNothing
  BY <1>6, <1>11, Condemns, KeepsAll DEF Going, Open, source, history
<1>12. CASE Expunge \/ RemoveDuplicates
  BY <1>6, <1>12, Expunges DEF Going, Open, source
<1>13. CASE Forget \/ FindDuplicates
  BY <1>6, <1>13, Forgets, FindsDuplicates DEF Going, Open, source, history
<1>. QED
  BY <1>1, <1>2, <1>3, <1>4, <1>5, <1>7, <1>8, <1>9, <1>10, <1>11, <1>12, <1>13, Steps DEF CopySteps

\* Which steps there are before flags are stored.
LEMMA InVerified ==
    ASSUME Types, Next, phase' \in {"recovered", "verified"}
    PROVE  SourceStep \/ RenumberStep \/ EditStep \/ Prepare \/ Recover \/ Verify
<1>1. ~ (PlanStep \/ Dedup \/ EndStep)
  BY Plans, Dedups, EndSteps, RunOver DEF PlanStep
<1>2. ~ CopySteps /\ ~Diff
  BY Diffs, PassesBy, Adopts, CopiesOne DEF CopySteps, PassStep, AdoptStep, AppendStep, CopyEffect
<1>3. ~ (SettleDuplicates \/ FlagStep \/ FlagFails)
  BY Settles, StoresFlags, FailsToStore DEF FlagStep, FlagFails
<1>4. ~ (Condemn \/ DeletesNothing \/ Expunge \/ RemoveDuplicates \/ Forget \/ FindDuplicates)
  BY Condemns, KeepsAll, Expunges, Forgets, FindsDuplicates
<1>. QED
  BY <1>1, <1>2, <1>3, <1>4, Steps DEF CopySteps

\* What was foretold of strangers stays so, while what was claimed stays
\* claimed, and what is new is claimed at once.
LEMMA StrangersStay ==
    ASSUME StrangersForetold, UNCHANGED <<listed, dstVal>>, p'.preview = p.preview,
           \A u \in UIDs' : \/ u \in UIDs /\ box'[u].content = box[u].content
                            \/ u \in ClaimedDestUIDs(dstVal)',
           ClaimedDestUIDs(dstVal) \cap UIDs \subseteq ClaimedDestUIDs(dstVal)'
    PROVE  StrangersForetold'
<1>. SUFFICES ASSUME NEW e \in Identifiable(FetchMeta(UIDs \ ClaimedDestUIDs(dstVal)))'
              PROVE  \/ e.uid \in p.preview.deletes
                     \/ \E m \in listed \ Excluded : Identity[Content[m]] = Identity[e.content]
  BY DEF StrangersForetold
<1>1. PICK u \in UIDs' : /\ u \notin ClaimedDestUIDs(dstVal)' /\ Identity[e.content] \notin Weak
                         /\ e = [uid |-> u, content |-> box'[u].content]
  BY DEF Identifiable, FetchMeta
<1>2. u \in UIDs /\ u \notin ClaimedDestUIDs(dstVal) /\ e = [uid |-> u, content |-> box[u].content]
  BY <1>1
<1>3. e \in Identifiable(FetchMeta(UIDs \ ClaimedDestUIDs(dstVal)))
  BY <1>1, <1>2 DEF Identifiable, FetchMeta
<1>. QED
  BY <1>3 DEF StrangersForetold

\* Rows that name a copy in the present numbering.
Names(m, u) == m \in Recorded /\ row[m].dst = dstVal /\ row[m].uid = u

LEMMA NamedAre ==
    \A u : u \in ClaimedDestUIDs(dstVal) <=> u # Nobody /\ \E m : Names(m, u)
  BY DEF ClaimedDestUIDs, Names

LEMMA NamedAreNext ==
    \A u : u \in ClaimedDestUIDs(dstVal)' <=> u # Nobody /\ \E m : Names(m, u)'
  BY DEF ClaimedDestUIDs, Names

LEMMA ForetoldStep ==
    ASSUME Base, Calm, Owed, AsPlanned, Next, Foretold',
           phase' \in {"verified", "copy", "store"}, "delete2" \in opts'
    PROVE  StrangersForetold' /\ VanishedForetold'
<1>0. /\ Types /\ Base' /\ \A m : m \in Claims <=> Counts(m)
      /\ \A m : m \in Claims' <=> Counts(m)'
      /\ \A m \in Recorded : row[m].state = "done" <=> row[m].uid # Nobody
      /\ \A m \in Recorded' : row'[m].state = "done" <=> row'[m].uid # Nobody
  <2>1. Base' /\ Types /\ Types'
    BY BaseStep, TypesStep DEF Base
  <2>. QED
    BY <2>1, ClaimsAre, ClaimsNext DEF Types, StoreTypes
<1>. USE <1>0
<1>1. ~SourceStep /\ ~RenumberStep /\ ~EditStep
  BY SourceSteps, RenumberSteps, EditSteps, OthersRun DEF Types, Foretold
\* Rows that count stay, but for those that name nothing, and a new one is of what is listed.
<1>2. ASSUME UNCHANGED <<listed, dstVal>>, p'.preview = p.preview, StrangersForetold, VanishedForetold,
             \A u \in UIDs' : \/ u \in UIDs /\ box'[u].content = box[u].content
                              \/ \E m : Names(m, u)',
             \A m : Counts(m) /\ row[m].uid \in UIDs => Counts(m)' /\ row'[m].uid = row[m].uid,
             \A m : Counts(m)' => \/ m \in listed
                                  \/ Counts(m) /\ row'[m].uid = row[m].uid
                                     /\ \A n : Counts(n) /\ row[n].uid = row[m].uid =>
                                           Counts(n)' /\ row'[n].uid = row[n].uid
      PROVE  StrangersForetold' /\ VanishedForetold'
  <2>1. \A m, u : Names(m, u) /\ u # Nobody <=> Counts(m) /\ row[m].uid = u
    BY DEF Names, Counts
  <2>2. \A m, u : Names(m, u)' /\ u # Nobody <=> Counts(m)' /\ row'[m].uid = u
    BY DEF Names, Counts
  <2>3. Nobody \notin UIDs /\ Nobody \notin UIDs'
    BY UIDsCounted, TypesStep DEF Types, DestTypes, Nobody
  <2>4. ClaimedDestUIDs(dstVal) \cap UIDs \subseteq ClaimedDestUIDs(dstVal)'
    BY <1>2, <2>1, <2>2, NamedAre, NamedAreNext
  <2>5. \A u \in UIDs' : \/ u \in UIDs /\ box'[u].content = box[u].content
                         \/ u \in ClaimedDestUIDs(dstVal)'
    BY <1>2, <2>3, NamedAreNext
  <2>6. StrangersForetold'
    BY <1>2, <2>4, <2>5, StrangersStay
  <2>7. VanishedForetold'
    <3>. SUFFICES ASSUME NEW m, Counts(m)', m \notin listed
                  PROVE  \/ row'[m].uid \in p.preview.deletes
                         \/ \E n \in listed : Counts(n)' /\ row'[n].uid = row'[m].uid
      BY <1>2 DEF VanishedForetold
    <3>1. Counts(m) /\ row'[m].uid = row[m].uid
          /\ \A n : Counts(n) /\ row[n].uid = row[m].uid => Counts(n)' /\ row'[n].uid = row[n].uid
      BY <1>2
    <3>2. \/ row[m].uid \in p.preview.deletes
          \/ \E n \in Claims \cap listed : row[n].uid = row[m].uid
      BY <1>2, <3>1 DEF VanishedForetold
    <3>. QED
      BY <3>1, <3>2
  <2>. QED
    BY <2>6, <2>7
<1>3. CASE Verify
  <2>1. /\ phase = "recovered" /\ UNCHANGED <<dest, source, opts, p, folder>>
        /\ Recorded' = Recorded \ Unhonoured /\ \A m \in Recorded' : row'[m] = row[m]
    BY <1>3, Verifies
  <2>2. Foretold /\ p.preview = Preview(opts) /\ p.count = Cardinality(UIDs) /\ p.src = srcVal /\ p.dst = dstVal
        /\ folder.src = srcVal
    BY <2>1 DEF Foretold, AsPlanned, Calm, Still, Base, Numberings, Going, Open
  <2>3. StrangersForetold /\ VanishedForetold
    BY <2>1, <2>2, PreviewForetells
  <2>4. \A m \in Unhonoured : row[m].uid \notin UIDs
    BY <2>1, <2>2, UnhonouredForetold
  <2>5. \A m : Counts(m) /\ row[m].uid \in UIDs => Counts(m)' /\ row'[m].uid = row[m].uid
    BY <2>1, <2>4 DEF Counts, dest
  <2>6. \A m, n : Counts(m)' /\ Counts(n) /\ row[n].uid = row[m].uid => Counts(n)' /\ row'[n].uid = row[n].uid
    <3>. SUFFICES ASSUME NEW m, NEW n, Counts(m)', Counts(n), row[n].uid = row[m].uid
                  PROVE  n \notin Unhonoured
      BY <2>1 DEF Counts, dest
    <3>1. m \in Mirrored(p.src, p.dst) /\ m \notin Unhonoured
      BY <2>1, <2>2 DEF Counts, dest, Mirrored, Base, Numberings
    <3>2. n \in Unhonoured => row[m].uid \notin UIDs /\ Unhonoured # {}
      BY <2>4
    <3>3. Unhonoured # {} => Unhonoured = {k \in Mirrored(p.src, p.dst) : row[k].uid \notin UIDs}
      BY DEF Unhonoured
    <3>. QED
      BY <3>1, <3>2, <3>3
  <2>7. \A m : Counts(m)' => Counts(m) /\ row'[m].uid = row[m].uid
    BY <2>1 DEF Counts, dest
  <2>8. UNCHANGED <<listed, dstVal, box, UIDs>> /\ p'.preview = p.preview
    BY <2>1 DEF dest, source, UIDs
  <2>. QED
    BY <1>2, <2>3, <2>5, <2>6, <2>7, <2>8
<1>. DEFINE Goes == /\ phase \in {"verified", "copy", "store"} /\ p'.preview = p.preview /\ opts' = opts
                    /\ p'.calm = p.calm /\ p'.kept = p.kept /\ UNCHANGED <<listed, dstVal>>
<1>4. Goes => StrangersForetold /\ VanishedForetold
  BY DEF Foretold, AsPlanned
<1>5. CASE Diff \/ FlagFails
  <2>1. Goes /\ UNCHANGED <<box, UIDs, row, Recorded>>
    BY <1>5, Diffs, FailsToStore DEF FlagFails, source, dest, store, UIDs, Recorded
  <2>2. \A m : Counts(m)' <=> Counts(m)
    BY <2>1 DEF Counts
  <2>. QED
    BY <1>2, <1>4, <2>1, <2>2
<1>6. CASE FlagStep
  <2>1. /\ Goes /\ UNCHANGED <<UIDs, Recorded>> /\ \A u \in UIDs : box'[u].content = box[u].content
        /\ \A m \in Recorded : row'[m].state = row[m].state /\ row'[m].dst = row[m].dst /\ row'[m].uid = row[m].uid
    BY <1>6, StoresFlags DEF FlagStep, source
  <2>2. \A m : Counts(m)' <=> Counts(m)
    BY <2>1 DEF Counts
  <2>3. \A m : Counts(m) => row'[m].uid = row[m].uid
    BY <2>1 DEF Counts
  <2>. QED
    BY <1>2, <1>4, <2>1, <2>2, <2>3
<1>7. CASE CopySteps
  <2>1. PICK k \in Msgs : Passes(k) \/ Takes(k) \/ Sends(k)
    BY <1>7 DEF CopySteps, PassStep, AdoptStep, AppendStep
  <2>2. CopyEffect(k)
    BY <2>1, PassesBy, Adopts, CopiesOne
  <2>3. Goes
    BY <2>2 DEF CopyEffect, source
  <2>4. ~Counts(k)
    BY <2>2 DEF CopyEffect, Base, Copying, Counts
  <2>5. \A m : Counts(m) => Counts(m)' /\ row'[m].uid = row[m].uid
    BY <2>2, <2>4 DEF CopyEffect, Counts
  <2>6. \A m : Counts(m)' => m = k \/ Counts(m)
    BY <2>2 DEF CopyEffect, Counts
  <2>7. k \in listed \/ ~Counts(k)'
    <3>1. Passes(k) => row'[k].state # "done"
      BY PassesBy
    <3>. QED
      BY <2>1, <3>1, Adopts, CopiesOne DEF Counts
  <2>8. \A u \in UIDs' : \/ u \in UIDs /\ box'[u].content = box[u].content
                         \/ \E m : Names(m, u)'
    <3>1. CASE Passes(k) \/ Takes(k)
      BY <3>1, PassesBy, Adopts DEF dest, UIDs
    <3>2. CASE Sends(k)
      <4>1. /\ UIDs' = UIDs \cup {nextUID} /\ \A u \in UIDs : box'[u] = box[u]
            /\ row'[k].uid = nextUID /\ row'[k].dst = dstVal /\ dstVal' = dstVal /\ k \in Recorded'
        BY <2>2, <3>2, CopiesOne DEF CopyEffect
      <4>. QED
        BY <4>1 DEF Names
    <3>. QED
      BY <2>1, <3>1, <3>2
  <2>. QED
    BY <1>2, <1>4, <2>3, <2>5, <2>6, <2>7, <2>8
<1>8. CASE SettleDuplicates
  <2>1. /\ Goes /\ phase = "copy" /\ UNCHANGED <<box, UIDs, Recorded>> /\ p' = p /\ UNCHANGED <<srcVal, modseq>>
        /\ \A m \in Recorded : row'[m] = row[m] \/ m \in dupes
    BY <1>8, Settles DEF source, dest, UIDs
  <2>2. p.live = listed
    BY <2>1 DEF Foretold, Calm, Owed, Going, Open
  <2>3. \A m \in dupes : m \in listed /\ ~Counts(m)
    BY <2>2 DEF Base, Copying, Counts
  <2>4. \A m : Counts(m) => Counts(m)' /\ row'[m].uid = row[m].uid
    BY <2>1, <2>3 DEF Counts
  <2>5. \A m : Counts(m)' => m \in listed \/ Counts(m)
    BY <2>1, <2>3 DEF Counts
  <2>. QED
    BY <1>2, <1>4, <2>1, <2>4, <2>5
<1>. QED
  <2>1. phase' = "verified" => Verify
    <3>1. phase' = "verified" => ~Prepare /\ ~Recover
      BY Prepares, Recovers
    <3>. QED
      BY <1>1, <3>1, InVerified
  <2>2. phase' = "store" => SettleDuplicates \/ FlagStep \/ FlagFails
    BY <1>1, InStore
  <2>3. phase' = "copy" => Diff \/ CopySteps
    BY <1>1, InCopy
  <2>. QED
    BY <1>3, <1>5, <1>6, <1>7, <1>8, <2>1, <2>2, <2>3

\* What a run condemns, the dry run foretold.
LEMMA CondemnForetold ==
    ASSUME Base, ClaimInv, SpareInv, Calm, Owed, AsPlanned, Foretold, Condemn
    PROVE  Copies(doomed') \subseteq p.preview.deletes
<1>0. Types
  BY DEF Base
<1>1. /\ phase = "store" /\ "delete2" \in opts /\ ~failed
      /\ doomed' \subseteq Condemned(mirror.rows, p.src, p.live)
  BY <1>0, Condemns DEF Deletes
<1>2. StrangersForetold /\ VanishedForetold /\ ~shifted /\ Still
  BY <1>1 DEF AsPlanned, Calm, Foretold, Going, Open
<1>3. p.live = listed /\ folder.src = p.src
  BY <1>1, <1>2 DEF Owed, Base, Numberings
<1>. SUFFICES ASSUME NEW v \in Condemned(mirror.rows, p.src, p.live)
              PROVE  v.uid \in p.preview.deletes
  BY <1>1 DEF Copies
<1>4. CASE v \in Vanished(mirror.rows, p.live)
  <2>1. PICK r \in mirror.rows : r.uid = v.uid /\ r.msg \notin p.live
    BY <1>4 DEF Vanished, EveryNomination
  <2>2. r.msg \in Mirrored(p.src, p.dst) /\ row[r.msg].uid = r.uid
    BY <1>1, <2>1 DEF ClaimInv, MirrorTrue
  <2>3. r.msg \in Claims \ listed
    BY <1>1, <1>2, <1>3, <2>1, <2>2, ClaimsAre DEF Open
  <2>4. ~ \E n \in Claims \cap listed : row[n].uid = v.uid
    BY <1>1, <1>2, CondemnedUnclaimed
  <2>. QED
    BY <1>2, <2>1, <2>2, <2>3, <2>4 DEF VanishedForetold
<1>5. CASE v \in Unrecorded(SourceIdents(p.src, p.live))
  <2>1. PICK e \in Identifiable(FetchMeta(UIDs \ ClaimedDestUIDs(dstVal))) :
           e.uid = v.uid /\ Identity[e.content] \notin SourceIdents(p.src, p.live)
    BY <1>5 DEF Unrecorded
  <2>2. ASSUME NEW m \in listed \ Excluded PROVE Identity[Content[m]] # Identity[e.content]
    <3>1. todo = {} /\ dupes = {}
      BY <1>0, <1>1 DEF Types, Shape
    <3>2. m \in Claims
      BY <1>1, <1>2, <1>3, <2>2, <3>1 DEF SpareInv, AllClaimed
    <3>3. m \in Idents(p.src) \cap p.live
      BY <1>3, <2>2, <3>2 DEF Claims, Mirrored, Idents, SyncedUIDs
    <3>. QED
      BY <2>1, <3>3 DEF SourceIdents
  <2>. QED
    BY <1>2, <2>1, <2>2 DEF StrangersForetold
<1>. QED
  BY <1>4, <1>5 DEF Condemned

LEMMA AsPlannedStep ==
    ASSUME Base, ClaimInv, SpareInv, Calm, Owed, AsPlanned, Next
    PROVE  AsPlanned'
<1>0. Types
  BY DEF Base
<1>. USE <1>0
<1>. SUFFICES ASSUME Foretold' PROVE AsPlanned'
  BY DEF AsPlanned
<1>a. phase = "idle" \/ ~ (SourceStep \/ RenumberStep \/ EditStep)
  BY SourceSteps, RenumberSteps, EditSteps, OthersRun DEF Types, Foretold
<1>1. phase' # "opened"
  <2>1. ASSUME phase' = "opened" PROVE FALSE
    <3>1. SourceStep \/ RenumberStep \/ EditStep => phase' = phase
      BY SourceSteps, RenumberSteps, EditSteps, OthersRun DEF Types
    <3>2. Prepare
      <4>1. ~ (PlanStep \/ Dedup \/ EndStep)
        BY <2>1, Plans, Dedups, EndSteps, RunOver DEF PlanStep
      <4>2. ~ (Recover \/ Verify \/ Diff)
        BY <2>1, Recovers, Verifies, Diffs
      <4>3. ~ CopySteps
        BY <2>1, PassesBy, Adopts, CopiesOne DEF CopySteps, PassStep, AdoptStep, AppendStep, CopyEffect
      <4>4. ~ (SettleDuplicates \/ FlagStep \/ FlagFails)
        BY <2>1, Settles, StoresFlags, FailsToStore DEF FlagStep, FlagFails
      <4>5. ~ (Condemn \/ DeletesNothing \/ Expunge \/ RemoveDuplicates \/ Forget \/ FindDuplicates)
        BY <2>1, Condemns, KeepsAll, Expunges, Forgets, FindsDuplicates
      <4>. QED
        BY <1>a, <2>1, <3>1, <4>1, <4>2, <4>3, <4>4, <4>5, Steps DEF CopySteps
    <3>3. phase = "planned" /\ p.calm /\ p.preview.sure /\ InFlight # {}
      BY <2>1, <3>2, Prepares DEF Foretold
    <3>4. p.preview = Preview(opts)
      BY <3>3 DEF Calm
    <3>5. Preview(opts).sure <=> InFlight = {}
      BY DEF Preview
    <3>. QED
      BY <3>3, <3>4, <3>5
  <2>. QED
    BY <2>1
<1>2. phase' = "recovered" => p'.preview = Preview(opts)' /\ p'.count = Cardinality(UIDs')
  <2>. SUFFICES ASSUME phase' = "recovered" PROVE p'.preview = Preview(opts)' /\ p'.count = Cardinality(UIDs')
    OBVIOUS
  <2>1. SourceStep \/ RenumberStep \/ EditStep => phase' = phase
    BY SourceSteps, RenumberSteps, EditSteps, OthersRun DEF Types
  <2>2. CASE Recover
    <3>1. phase = "opened" /\ Foretold
      BY <2>2, Recovers DEF Foretold
    <3>. QED
      BY <3>1 DEF AsPlanned
  <2>3. CASE Prepare
    <3>1. /\ phase = "planned" /\ p.calm /\ p'.preview = p.preview /\ p'.count = Cardinality(UIDs)
          /\ UNCHANGED <<opts, listed, srcVal, box, dstVal, row, UIDs>>
      BY <2>3, Prepares DEF Foretold, source, dest, UIDs
    <3>2. Preview(opts)' = Preview(opts)
      <4>1. ASSUME NEW o PROVE Preview(o)' = Preview(o)
        BY <3>1, PreviewStays
      <4>. QED
        BY <3>1, <4>1
    <3>3. p.preview = Preview(opts)
      BY <3>1 DEF Calm
    <3>. QED
      BY <3>1, <3>2, <3>3
  <2>. QED
    BY <1>a, <2>1, <2>2, <2>3, InVerified, Verifies
<1>3. phase' = "verified" => (listed' \ Settled(p.src)') \ Excluded \subseteq p'.preview.copies
  <2>. SUFFICES ASSUME phase' = "verified" PROVE (listed' \ Settled(p.src)') \ Excluded \subseteq p'.preview.copies
    OBVIOUS
  <2>1. Verify
    <3>1. SourceStep \/ RenumberStep \/ EditStep => phase' = phase
      BY SourceSteps, RenumberSteps, EditSteps, OthersRun DEF Types
    <3>. QED
      BY <1>a, <3>1, InVerified, Prepares, Recovers
  <2>2. /\ phase = "recovered" /\ listed' = listed /\ p' = p
        /\ Recorded' = Recorded \ Unhonoured /\ \A m \in Recorded' : row'[m] = row[m]
    BY <2>1, Verifies DEF source
  <2>3. Foretold /\ p.preview = Preview(opts) /\ p.count = Cardinality(UIDs) /\ p.src = srcVal /\ p.dst = dstVal
    BY <2>2 DEF Foretold, AsPlanned, Calm, Still, Base, Numberings, Going, Open
  <2>4. Unhonoured \subseteq PreviewMissing(opts)
    BY <2>2, <2>3, UnhonouredForetold
  <2>5. Settled(srcVal) \ Unhonoured \subseteq Settled(p.src)'
    BY <2>2, <2>3 DEF Settled, SyncedUIDs
  <2>6. p.preview.copies = (listed \ (Settled(srcVal) \ PreviewMissing(opts))) \ Excluded
    BY <2>3 DEF Preview, PreviewFiltered
  <2>. QED
    BY <2>2, <2>4, <2>5, <2>6
<1>4. phase' = "copy" => todo' \subseteq p'.preview.copies
  <2>. SUFFICES ASSUME phase' = "copy" PROVE todo' \subseteq p'.preview.copies
    OBVIOUS
  <2>1. SourceStep \/ RenumberStep \/ EditStep => phase' = phase
    BY SourceSteps, RenumberSteps, EditSteps, OthersRun DEF Types
  <2>2. CASE Diff
    <3>1. /\ phase = "verified" /\ todo' = (listed \ Settled(p.src)) \ Excluded /\ p'.preview = p.preview
          /\ p'.calm = p.calm /\ p'.kept = p.kept
      BY <2>2, Diffs
    <3>. QED
      BY <3>1 DEF AsPlanned, Foretold
  <2>3. CASE CopySteps
    <3>1. phase = "copy" /\ todo' \subseteq todo /\ p' = p
      BY <2>3, PassesBy, Adopts, CopiesOne DEF CopySteps, PassStep, AdoptStep, AppendStep, CopyEffect
    <3>. QED
      BY <3>1 DEF AsPlanned, Foretold
  <2>. QED
    BY <1>a, <2>1, <2>2, <2>3, InCopy
<1>5. phase' \in {"verified", "copy", "store"} /\ "delete2" \in opts' => StrangersForetold' /\ VanishedForetold'
  BY ForetoldStep
<1>6. phase' = "expunge" => Copies(doomed)' \subseteq p'.preview.deletes
  <2>. SUFFICES ASSUME phase' = "expunge" PROVE Copies(doomed') \subseteq p'.preview.deletes
    BY DEF Copies
  <2>1. SourceStep \/ RenumberStep \/ EditStep => phase' = phase
    BY SourceSteps, RenumberSteps, EditSteps, OthersRun DEF Types
  <2>2. Condemn
    BY <1>a, <2>1, InExpunge, Expunges
  <2>3. p'.preview = p.preview /\ Foretold
    BY <2>2, Condemns DEF Foretold
  <2>. QED
    BY <2>2, <2>3, CondemnForetold
<1>. QED
  BY <1>1, <1>2, <1>3, <1>4, <1>5, <1>6 DEF AsPlanned

LEMMA PreviewInit == Init => Calm /\ AsPlanned
<1>. SUFFICES ASSUME Init PROVE Calm /\ AsPlanned
  OBVIOUS
<1>1. phase = "idle"
  BY DEF Init
<1>. QED
  BY <1>1 DEF Calm, AsPlanned

\* What a dry run announces covers what the run then copies and deletes, if
\* nobody interferes, the fence holds and no dead run left a message in flight
\* (dryRunFolder, dryRunVerify, dryRunDeletions against verifyClaims, triage,
\* condemned).
THEOREM PreviewHolds == Spec => []PreviewCovers
<1>. DEFINE Inv == Base /\ ClaimInv /\ SpareInv /\ Watermarks /\ Owed /\ Calm /\ AsPlanned
<1>1. Init => Inv
  BY BaseInit, ClaimInit, SpareInit, OwedInit, PreviewInit
<1>2. Inv /\ [Next]_vars => Inv'
  <2>. SUFFICES ASSUME Inv, [Next]_vars PROVE Inv'
    OBVIOUS
  <2>1. Base' /\ ClaimInv' /\ SpareInv'
    BY BaseStep, ClaimStep, SpareStep
  <2>2. CASE Next
    BY <2>1, <2>2, WatermarksStep, OwedStep, CalmStep, AsPlannedStep
  <2>3. CASE UNCHANGED vars
    <3>1. Watermarks' /\ Owed'
      BY <2>3 DEF Watermarks, Owed, Cleared, Still, Claims, Mirrored, Copies,
         vars, source, dest, store, run, history, UIDs, Recorded
    <3>2. UNCHANGED <<listed, srcVal, modseq, box, dstVal, row, folder, phase, opts, p, todo, doomed, shifted,
                      UIDs, Recorded>>
      BY <2>3 DEF vars, source, dest, store, run, history, UIDs, Recorded
    <3>3. Preview(opts)' = Preview(opts)
      <4>1. ASSUME NEW o PROVE Preview(o)' = Preview(o)
        BY <3>2, PreviewStays
      <4>. QED
        BY <3>2, <4>1
    <3>4. Calm'
      BY <3>2, <3>3 DEF Calm, Still
    <3>5. Settled(p.src)' = Settled(p.src) /\ Claims' = Claims /\ Copies(doomed)' = Copies(doomed)
          /\ Identifiable(FetchMeta(UIDs \ ClaimedDestUIDs(dstVal)))'
                = Identifiable(FetchMeta(UIDs \ ClaimedDestUIDs(dstVal)))
      BY <3>2 DEF Settled, SyncedUIDs, Claims, Mirrored, Copies, Identifiable, FetchMeta, ClaimedDestUIDs
    <3>6. (StrangersForetold => StrangersForetold') /\ (VanishedForetold => VanishedForetold')
      BY <3>2, <3>5 DEF StrangersForetold, VanishedForetold
    <3>7. AsPlanned'
      BY <3>2, <3>3, <3>5, <3>6 DEF AsPlanned, Foretold
    <3>. QED
      BY <2>1, <3>1, <3>4, <3>7
  <2>. QED
    BY <2>2, <2>3
<1>3. Inv => PreviewCovers
  BY DEF AsPlanned, Foretold, PreviewCovers
<1>. HIDE DEF Inv
<1>. QED
  BY <1>1, <1>2, <1>3, PTL DEF Spec
=============================================================================
