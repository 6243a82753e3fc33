---------------------------- MODULE FolderMirror ----------------------------
(***************************************************************************)
(* One folder and its copy over many runs, while other people change both  *)
(* mailboxes (internal/syncer/syncer.go: plan, canSkip, prepareFolder,     *)
(* openDest, reconcile, verifyClaims, settleDuplicates, resyncFlags,       *)
(* deleteVanished, syncFolder, dryRunFolder; dedupe.go; internal/dedup;    *)
(* internal/state).                                                        *)
(*                                                                         *)
(* A source message is its UID; Content says what it holds, and two of     *)
(* equal content are repeats.  A destination message is a UID with content *)
(* and one flag.  How a single message gets across is MessageCopy: here it *)
(* is copied or abandoned in one step.  A run may die between any two      *)
(* steps, and both mailboxes may change between them.                      *)
(***************************************************************************)
EXTENDS Integers, FiniteSets, FiniteSetsExt, Functions

CONSTANTS Msgs,        \* source messages, by UID
          Content,     \* the content of each
          Identity,    \* what ident.Parse makes of each content
          Weak,        \* identities too thin to act on
          Late,        \* source messages that arrive later
          Excluded,    \* messages a filter or a search leaves out
          Strangers,   \* contents that others put on the destination
          Leftover,    \* contents on the destination before the first run
          Options,     \* the options a run may be given, each a set
          Floor,       \* defaultDeleteFloor
          Ceiling,     \* the deletion ceiling, in percent
          MaxTroubles  \* bound: changes by others, failures and deaths

Nobody == 0    \* the SrcUID of a message nobody recorded, and UID zero

ASSUME MirrorAssumption ==
    /\ IsFiniteSet(Msgs) /\ Nobody \notin Msgs
    /\ DOMAIN Content = Msgs
    /\ Late \subseteq Msgs /\ Excluded \subseteq Msgs
    /\ IsFiniteSet(DOMAIN Leftover) /\ DOMAIN Leftover = 1..Cardinality(DOMAIN Leftover)
    /\ Floor \in Nat /\ Ceiling \in 0..100 /\ MaxTroubles \in Nat

VARIABLES
    \* the source
    listed, flag, modseq, changed, srcVal,
    \* the destination
    box,       \* UID -> [content, flag]
    nextUID, dstVal,
    \* the state database
    row,       \* source message -> [state, src, dst, uid, flag]
    folder,    \* [src, dst, mark, deleted, finished]
    \* the run
    phase, opts,
    p,         \* prepared: the source as selected, and what the fence said
    todo, index, bodies, dupes,
    mirror,    \* prepared.mirror, Unread until it is loaded
    changes,   \* flag changes still to be stored
    doomed,    \* messages about to be expunged, [uid, src]
    failed, refused,
    \* bounds and history
    budget,    \* the troubles still to come
    removed,   \* destination UIDs removed by others, or by a run they misled
    loose,     \* destination UIDs whose flags this program did not settle
    shifted,   \* the destination was renumbered in the middle of this run
    torn       \* which copy is whose is lost: a run died after its fence had
               \* fallen or with duplicates left to remove, the number changed
               \* under a run that copied, or a look-alike was taken for a copy

source  == <<listed, flag, modseq, changed, srcVal>>
dest    == <<box, nextUID, dstVal>>
store   == <<row, folder>>
run     == <<phase, opts, p, todo, index, bodies, dupes, mirror, changes, doomed,
             failed, refused>>
history == <<removed, loose, shifted, torn>>
vars    == <<source, dest, store, run, budget, history>>

Unread == [loaded |-> FALSE, rows |-> {}]
NoFolder == [src |-> 0, dst |-> 0, mark |-> 0, deleted |-> 0, finished |-> FALSE]
NotPrepared ==
    [src |-> 0, modseq |-> 0, dst |-> 0, since |-> 0, kept |-> TRUE, fresh |-> TRUE,
     count |-> 0, known |-> TRUE, live |-> {}, filtered |-> FALSE, calm |-> TRUE,
     preview |-> [copies |-> {}, deletes |-> {}, sure |-> TRUE]]

Recorded == DOMAIN row
UIDs == DOMAIN box
Contents == Range(Content)

-----------------------------------------------------------------------------
(* What the servers answer (imapx.Conn). *)

\* Select: the destination as this connection sees it.
SelectDest(q) == [q EXCEPT !.dst = dstVal, !.count = Cardinality(UIDs), !.known = TRUE]

\* The index of a server may list messages that were expunged, or miss some that
\* are there.  AllUIDs: a SEARCH that does not agree with the size of the mailbox
\* is not believed, and the mailbox is walked instead (enumerateUIDs).
Phantoms == {m \in Msgs \ listed : changed[m] > 1}
Searches == {listed, listed \cup Phantoms} \cup {listed \ {m} : m \in listed}
BelievesSearch(searched) == searched
AllUIDs(searched) == IF Cardinality(searched) = Cardinality(listed) THEN searched ELSE listed

\* Lease.UIDValidity: a connection selects the mailbox now, or has had it selected
\* since prepareFolder and been idle.  Then it keeps that number, and what its
\* UIDs name.
LeaseNumbers == {srcVal, p.src}

\* FetchMeta: headers and sizes; ident.Parse tells which are enough to go by.
FetchMeta(uids) == {[uid |-> u, content |-> box[u].content] : u \in uids \cap UIDs}
Identifiable(metas) == {e \in metas : Identity[e.content] \notin Weak}

\* FetchFlags, CHANGEDSINCE a modification sequence.
FetchFlags(since) == {m \in listed : changed[m] > since}

\* SearchHeader finds nothing by a header that is too thin.
SearchHeader(m) ==
    {e.uid : e \in {x \in Identifiable(FetchMeta(UIDs)) : Identity[x.content] = Identity[Content[m]]}}

\* APPEND takes the next UID; STORE and EXPUNGE of a UID that is not there
\* succeed and do nothing.
Append(content, fl) ==
    /\ box' = [u \in UIDs \cup {nextUID} |->
                  IF u = nextUID THEN [content |-> content, flag |-> fl] ELSE box[u]]
    /\ nextUID' = nextUID + 1
Stored(c) == box' = [u \in UIDs |-> IF u = c.uid THEN [box[u] EXCEPT !.flag = c.flag] ELSE box[u]]
Remove(uids) == box' = Restrict(box, UIDs \ uids)

\* What a UID of the numbering this run works with names where the mailbox was
\* selected under another number: some other message.
Named(m, number) ==
    IF number = p.src \/ listed \subseteq {m} THEN m ELSE CHOOSE n \in listed \ {m} : TRUE

-----------------------------------------------------------------------------
(* What the state database answers.  A decision of the code comes after a   *)
(* faulty variant of it.                                                    *)

\* Mirrored: the copies known on both sides, in these two numberings.
Mirrored(s, d) ==
    {m \in Recorded : row[m].state = "done" /\ row[m].src = s /\ row[m].dst = d}

MirrorRows(s, d) == {[msg |-> m, uid |-> row[m].uid, flag |-> row[m].flag] : m \in Mirrored(s, d)}

\* ClaimedCount: distinct copies, for repeats share one.
ClaimedCount(s, d) == Cardinality({row[m].uid : m \in Mirrored(s, d)})

\* ClaimedDestUIDs, whatever state the row is in.
ClaimedDestUIDs(d) == {row[m].uid : m \in {n \in Recorded : row[n].dst = d}} \ {Nobody}

\* InFlight: what a dead run left unsettled.
InFlight == {m \in Recorded : row[m].state = "in_flight"}

\* SyncedUIDs: every row of this numbering of the source, whatever its state.
SyncedUIDs(s) == {m \in Recorded : row[m].src = s}

\* Idents, cut down by sourceIdents to what the source still lists.
Idents(s) == {m \in SyncedUIDs(s) : row[m].state = "done"}
SourceIdents(s, live) == {Identity[Content[m]] : m \in Idents(s) \cap live}

\* FenceUIDValidity keeps the rows unless either mailbox was renumbered.
Kept(s, d) == folder.src \in {0, s} /\ folder.dst \in {0, d}

-----------------------------------------------------------------------------
(* What a run decides *)

\* unchanged: a deletion that is still owed is a change too.
Unchanged(o) ==
    /\ "delete2" \in o => folder.deleted = modseq
    /\ "full" \notin o
    /\ folder.mark # 0 /\ folder.mark = modseq /\ folder.src = srcVal

\* canSkip: the destination has a vote, by the count that LIST gave.
CanSkip(o) ==
    /\ Unchanged(o)
    /\ p.known => ClaimedCount(srcVal, p.dst) <= p.count

\* verifyClaims: more claims than messages prove that copies are gone.
TrustsClaims == {}
Unhonoured ==
    IF ~p.kept \/ ("full" \notin opts /\ ClaimedCount(p.src, p.dst) <= p.count) THEN {}
    ELSE {m \in Mirrored(p.src, p.dst) : row[m].uid \notin UIDs}

\* triage, over the rows SyncedUIDs has for this numbering of the source.
Settled(s) == {m \in SyncedUIDs(s) : row[m].state \in {"done", "gone"}}
ToCopy(live) == live \ Settled(p.src)

\* searchedInto, keepMatching and selected: what is left out is left unrecorded.
Wanted(uids) == uids \ Excluded

\* indexDestination, made for a first sync and after the fence has fallen.
OffersClaimed == Identifiable(FetchMeta(UIDs))
Adoptable == Identifiable(FetchMeta(UIDs \ ClaimedDestUIDs(p.dst)))
IndexesOnce == IF p.fresh THEN Adoptable ELSE {}
Index == IF p.fresh \/ ~p.kept THEN Adoptable ELSE {}

Matching(m) == {e \in index : Identity[e.content] = Identity[Content[m]]}

\* The rows of the folder as mirrored answers: once, then from memory.
Mirrors == IF mirror.loaded THEN mirror.rows ELSE MirrorRows(p.src, p.dst)
Loaded == [loaded |-> TRUE, rows |-> Mirrors]

\* condemned, among the messages this program copied: the source message is
\* gone, and no other that is still there has the same copy (stillClaimed).
EveryNomination(rows, live) ==
    {[uid |-> r.uid, src |-> r.msg] : r \in {q \in rows : q.msg \notin live}}
Vanished(rows, live) ==
    {v \in EveryNomination(rows, live) : \A r \in rows : r.uid = v.uid => r.msg \notin live}

\* strangers: nobody recorded it and the source has nothing like it.
Unrecorded(idents) ==
    {[uid |-> e.uid, src |-> Nobody] :
        e \in {x \in Identifiable(FetchMeta(UIDs \ ClaimedDestUIDs(dstVal))) :
                 Identity[x.content] \notin idents}}

Condemned(rows, s, live) == Vanished(rows, live) \cup Unrecorded(SourceIdents(s, live))

\* stillClaimed nominates a shared copy once, by whichever row came first.
OncePerCopy(victims) ==
    {chosen \in SUBSET victims :
        \A v \in victims : Cardinality({w \in chosen : w.uid = v.uid}) = 1}

\* allowedToDelete: a few always, otherwise a share of the folder.
Allowed(o, n, population) ==
    \/ n = 0 \/ population = 0 \/ n <= Floor
    \/ 100 * n <= Ceiling * population
    \/ "force" \in o

Copies(victims) == {v.uid : v \in victims}

\* dedupeCandidates, then dedup.Candidates: alike in headers and size.
DedupeCandidates == Identifiable(FetchMeta(UIDs))
Group(u) ==
    {e.uid : e \in {x \in DedupeCandidates : Identity[x.content] = Identity[box[u].content]}}

\* Partition: the first claimed copy survives, or else the first of all.
Survivor(u) ==
    LET claimed == {row[m].uid : m \in Mirrored(p.src, dstVal)} \cap Group(u)
    IN  Min(IF claimed # {} THEN claimed ELSE Group(u))

\* confirmDuplicates: what is alike is compared in full before it goes.
Duplicates ==
    {u \in {e.uid : e \in DedupeCandidates} :
        Survivor(u) # u /\ box[u].content = box[Survivor(u)].content}

\* The rows that named a duplicate name its survivor.
LeavesRows == row
Repointed ==
    [m \in Recorded |->
        IF m \in Mirrored(p.src, dstVal) /\ row[m].uid \in Duplicates
        THEN [row[m] EXCEPT !.uid = Survivor(row[m].uid)] ELSE row[m]]

\* dryRunFolder: what a run would copy, and nominate for deletion, as things
\* are; it raises no fence and settles nothing, so it cannot be sure of what the
\* search for a message that a dead run left in flight will find.
\* dryRunFilter, dryRunVerify and dryRunDeletions, in the order of the run.
PreviewFiltered(uids) == uids \ Excluded
PreviewMissing(o) ==
    IF "full" \in o \/ ClaimedCount(srcVal, dstVal) > Cardinality(UIDs)
    THEN {m \in Mirrored(srcVal, dstVal) : row[m].uid \notin UIDs}
    ELSE {}
PreviewDeletes(o) ==
    IF "delete2" \in o
    THEN Copies(Condemned(MirrorRows(srcVal, dstVal), srcVal, listed))
    ELSE {}
PreviewForgetsStrangers(o) ==
    [copies |-> listed \ Excluded,
     deletes |-> Copies(Vanished(MirrorRows(srcVal, dstVal), listed)),
     sure |-> InFlight = {}]
Preview(o) ==
    [copies |-> PreviewFiltered(listed \ (Settled(srcVal) \ PreviewMissing(o))),
     deletes |-> PreviewDeletes(o),
     sure |-> InFlight = {}]

\* watermark: the flags of a new numbering are all unknown.
KeepsMark(kept) == folder.mark
Watermark(kept) == IF kept THEN folder.mark ELSE 0

\* syncFolder: what the folder row says after a run.
MarksFailures == p.modseq
NewMark == IF failed \/ p.filtered THEN folder.mark ELSE p.modseq
MarksAnyway == IF "delete2" \in opts THEN p.modseq ELSE folder.deleted
DeletedThrough ==
    IF "delete2" \in opts /\ ~failed /\ ~refused THEN p.modseq ELSE folder.deleted

-----------------------------------------------------------------------------
NoRun ==
    /\ phase' = "idle" /\ opts' = {} /\ p' = NotPrepared
    /\ todo' = {} /\ index' = {} /\ bodies' = {} /\ dupes' = {}
    /\ mirror' = Unread /\ changes' = {} /\ doomed' = {}
    /\ failed' = FALSE /\ refused' = FALSE

Init ==
    /\ listed = Msgs \ Late
    /\ flag = [m \in Msgs |-> 0]
    /\ modseq = 1 /\ changed = [m \in Msgs |-> 1] /\ srcVal = 1
    /\ box = [u \in DOMAIN Leftover |-> [content |-> Leftover[u], flag |-> 0]]
    /\ nextUID = 1 + Cardinality(DOMAIN Leftover) /\ dstVal = 1
    /\ row = [m \in {} |-> 0] /\ folder = NoFolder
    /\ phase = "idle" /\ opts = {} /\ p = NotPrepared
    /\ todo = {} /\ index = {} /\ bodies = {} /\ dupes = {}
    /\ mirror = Unread /\ changes = {} /\ doomed = {}
    /\ failed = FALSE /\ refused = FALSE
    /\ budget = MaxTroubles
    /\ removed = {} /\ loose = {} /\ shifted = FALSE /\ torn = FALSE

Trouble == budget > 0 /\ budget' = budget - 1

-----------------------------------------------------------------------------
(* prepareFolder *)

\* plan: LIST says what the destination holds, if the server will say.
Plan(o, known) ==
    /\ phase = "idle"
    /\ phase' = "planned" /\ opts' = o
    /\ p' = [NotPrepared EXCEPT !.dst = dstVal, !.count = Cardinality(UIDs), !.known = known,
                                !.preview = Preview(o)]
    /\ UNCHANGED <<source, dest, store, todo, index, bodies, dupes, mirror, changes,
                   doomed, failed, refused, budget, history>>

SkipFolder ==
    /\ phase = "planned" /\ CanSkip(opts)
    /\ NoRun
    /\ UNCHANGED <<source, dest, store, budget, removed, loose, torn>>
    /\ shifted' = FALSE

\* Both mailboxes are selected and the fence falls or holds.
Prepare ==
    /\ phase = "planned" /\ ~CanSkip(opts)
    /\ LET kept == Kept(srcVal, dstVal) IN
        /\ phase' = IF kept /\ InFlight # {} THEN "opened" ELSE "recovered"
        /\ p' = [SelectDest(p) EXCEPT !.src = srcVal, !.modseq = modseq,
                                      !.kept = kept, !.fresh = ~folder.finished,
                                      !.since = Watermark(kept)]
        /\ row' = IF kept THEN row ELSE [m \in {} |-> 0]
        /\ folder' = [folder EXCEPT !.src = srcVal, !.dst = dstVal,
                                    !.mark = Watermark(kept),
                                    !.deleted = IF kept THEN @ ELSE 0]
    /\ UNCHANGED <<source, dest, opts, todo, index, bodies, dupes, mirror, changes,
                   doomed, failed, refused, budget, history>>

\* recover: a row in flight is settled by searching for the newest match.
Located(m) == Max(SearchHeader(m))

Recover ==
    /\ phase = "opened"
    /\ LET found == {m \in InFlight \cap listed : SearchHeader(m) # {}}
       IN  /\ row' = [m \in Recorded |->
                 IF m \in found
                 THEN [row[m] EXCEPT !.state = "done", !.dst = p.dst, !.uid = Located(m)]
                 ELSE IF m \in InFlight \ listed THEN [row[m] EXCEPT !.state = "failed"]
                 ELSE row[m]]
           /\ loose' = loose \cup {Located(m) : m \in found}
           /\ torn' = (torn \/ \E m \in found : box[Located(m)].content # Content[m])
    /\ phase' = "recovered"
    /\ UNCHANGED <<source, dest, folder, opts, p, todo, index, bodies, dupes, mirror,
                   changes, doomed, failed, refused, budget, removed, shifted>>

\* verifyClaims drops the rows of copies that are gone.
Verify ==
    /\ phase = "recovered"
    /\ row' = Restrict(row, Recorded \ Unhonoured)
    /\ phase' = "verified"
    /\ UNCHANGED <<source, dest, folder, opts, p, todo, index, bodies, dupes, mirror,
                   changes, doomed, failed, refused, budget, history>>

Diff ==
    /\ phase = "verified"
    /\ phase' = "copy"
    /\ \E searched \in Searches :
        LET live   == AllUIDs(searched)
            wanted == Wanted(ToCopy(live))
        IN  /\ todo' = wanted
            /\ index' = IF wanted = {} THEN {} ELSE Index
            /\ p' = [p EXCEPT !.live = live, !.filtered = wanted # ToCopy(live)]
    /\ UNCHANGED <<source, dest, store, opts, bodies, dupes, mirror, changes, doomed,
                   failed, refused, budget, history>>

-----------------------------------------------------------------------------
(* The copy pass *)

Done(m, uid) ==
    [state |-> "done", src |-> p.src, dst |-> p.dst, uid |-> uid, flag |-> flag[m]]
Write(m, r) == row' = [n \in Recorded \cup {m} |-> IF n = m THEN r ELSE row[n]]
KeepsUID(s) == [state |-> s, src |-> p.src, dst |-> p.dst, uid |-> nextUID - 1, flag |-> 0]
Unclaimed(s) == [state |-> s, src |-> p.src, dst |-> 0, uid |-> Nobody, flag |-> 0]

\* checkNumbering: a connection that remembers another number is not read.
ReadsAnyway(number) == TRUE
NumberingHolds(number) == number = p.src
CopyStep(m, number) ==
    phase = "copy" /\ NumberingHolds(number) /\ m \in todo /\ todo' = todo \ {m}

FindGone(m, number) ==
    /\ CopyStep(m, number)
    /\ m \notin listed
    /\ Write(m, Unclaimed("gone"))
    /\ UNCHANGED <<source, dest, folder, phase, opts, p, index, bodies, dupes, mirror,
                   changes, doomed, failed, refused, budget, history>>

\* fetchOne records the flags of the source; the copy keeps its own.
Adopt(m, number) ==
    /\ CopyStep(m, number)
    /\ m \in listed /\ Matching(m) # {}
    /\ LET e == CHOOSE x \in Matching(m) : \A y \in Matching(m) : x.uid <= y.uid IN
        /\ index' = index \ {e}
        /\ Write(m, Done(m, e.uid))
        /\ loose' = loose \cup {e.uid}
        /\ torn' = (torn \/ e.content # Content[m])
    /\ UNCHANGED <<source, dest, folder, phase, opts, p, bodies, dupes, mirror, changes,
                   doomed, failed, refused, budget, removed, shifted>>

Copied(m) == \E s \in bodies : Content[s] = Content[m]

AppendCopy(m, number) ==
    /\ CopyStep(m, number)
    /\ m \in listed /\ Matching(m) = {} /\ ~Copied(m)
    /\ bodies' = bodies \cup {m}
    /\ Append(Content[Named(m, number)], flag[Named(m, number)])
    /\ Write(m, [Done(m, nextUID) EXCEPT !.dst = dstVal])
    /\ torn' = (torn \/ shifted)
    /\ UNCHANGED <<source, dstVal, folder, phase, opts, p, index, dupes, mirror, changes,
                   doomed, failed, refused, budget, removed, loose, shifted>>

\* A repeat is not appended; its row stays in flight for settleDuplicates.
Repeat(m, number) ==
    /\ CopyStep(m, number)
    /\ m \in listed /\ Matching(m) = {} /\ Copied(m)
    /\ dupes' = dupes \cup {m}
    /\ Write(m, [Unclaimed("in_flight") EXCEPT !.flag = flag[m]])
    /\ UNCHANGED <<source, dest, folder, phase, opts, p, index, bodies, mirror, changes,
                   doomed, failed, refused, budget, history>>

Fail(m, number) ==
    /\ CopyStep(m, number)
    /\ m \in listed /\ Matching(m) = {}
    /\ Trouble
    /\ Write(m, Unclaimed("failed"))
    /\ failed' = TRUE
    /\ UNCHANGED <<source, dest, folder, phase, opts, p, index, bodies, dupes, mirror,
                   changes, doomed, refused, history>>

Survivors(m) == {r \in Mirrors : r.msg \in bodies /\ Content[r.msg] = Content[m]}

\* sourceFlags asks what changed since the watermark of the last run, of
\* whatever numbering the source has by now.
SourceFlags == {m \in Msgs : Named(m, srcVal) \in FetchFlags(p.since)}

FlagChanges ==
    {[uid |-> r.uid, msg |-> r.msg, flag |-> flag[Named(r.msg, srcVal)]] :
        r \in {q \in Mirrors : q.msg \in SourceFlags /\ flag[Named(q.msg, srcVal)] # q.flag}}

SettleDuplicates ==
    /\ phase = "copy" /\ todo = {}
    /\ row' = [m \in Recorded |->
                 IF m \in dupes /\ Survivors(m) # {}
                 THEN [row[m] EXCEPT !.state = "done", !.dst = p.dst,
                                     !.uid = (CHOOSE r \in Survivors(m) : TRUE).uid]
                 ELSE row[m]]
    /\ loose' = loose \cup {r.uid : r \in UNION {Survivors(m) : m \in dupes}}
    /\ mirror' = Loaded
    /\ changes' = FlagChanges
    /\ phase' = "store" /\ index' = {} /\ bodies' = {} /\ dupes' = {}
    /\ UNCHANGED <<source, dest, folder, opts, p, todo, doomed, failed, refused, budget,
                   removed, shifted, torn>>

-----------------------------------------------------------------------------
(* resyncFlags *)

Shared(m) == \E n \in Recorded \ {m} : row[n].dst = row[m].dst /\ row[n].uid = row[m].uid

StoreFlags(c) ==
    /\ phase = "store" /\ c \in changes
    /\ Stored(c)
    /\ row' = [row EXCEPT ![c.msg].flag = c.flag]
    /\ loose' = IF shifted \/ Shared(c.msg) THEN loose \cup {c.uid} ELSE loose \ {c.uid}
    /\ changes' = changes \ {c}
    /\ UNCHANGED <<source, nextUID, dstVal, folder, phase, opts, p, todo, index, bodies,
                   dupes, mirror, doomed, failed, refused, budget, removed, shifted, torn>>

\* One message's flags failing keeps the watermark where it was.
StoreFails(c) ==
    /\ phase = "store" /\ c \in changes
    /\ Trouble
    /\ failed' = TRUE
    /\ changes' = changes \ {c}
    /\ UNCHANGED <<source, dest, store, phase, opts, p, todo, index, bodies, dupes,
                   mirror, doomed, refused, history>>

-----------------------------------------------------------------------------
(* deleteVanished and removeDestDuplicates *)

Deletes == "delete2" \in opts /\ ~failed

\* The destination is selected again; what may go is chosen.
Condemn ==
    /\ phase = "store" /\ changes = {} /\ Deletes
    /\ p' = SelectDest(p)
    /\ mirror' = [loaded |-> TRUE,
                  rows |-> IF mirror.loaded THEN mirror.rows ELSE MirrorRows(p.src, dstVal)]
    /\ LET all == Condemned(mirror'.rows, p.src, p.live)
           allowed == Allowed(opts, Cardinality(Copies(all)), p'.count)
       IN  /\ doomed' \in IF allowed THEN OncePerCopy(all) ELSE {{}}
           /\ refused' = ~allowed
    /\ phase' = IF doomed' = {} THEN "dedupe" ELSE "expunge"
    /\ UNCHANGED <<source, dest, store, opts, todo, index, bodies, dupes, changes,
                   failed, budget, history>>

DeletesNothing ==
    /\ phase = "store" /\ changes = {} /\ ~Deletes
    /\ phase' = "dedupe"
    /\ UNCHANGED <<source, dest, store, opts, p, todo, index, bodies, dupes, mirror,
                   changes, doomed, failed, refused, budget, history>>

\* UIDs of an old numbering name other messages in the new one.
Misled == removed' = IF shifted THEN removed \cup Copies(doomed) ELSE removed

Expunge ==
    /\ phase = "expunge"
    /\ Remove(Copies(doomed))
    /\ Misled
    /\ phase' = "forget"
    /\ UNCHANGED <<source, nextUID, dstVal, store, opts, p, todo, index, bodies, dupes,
                   mirror, changes, doomed, failed, refused, budget, loose, shifted, torn>>

Forget ==
    /\ phase = "forget"
    /\ row' = Restrict(row, Recorded \ {v.src : v \in doomed})
    /\ doomed' = {}
    /\ phase' = "dedupe"
    /\ UNCHANGED <<source, dest, folder, opts, p, todo, index, bodies, dupes, mirror,
                   changes, failed, refused, budget, history>>

\* The rows are pointed at the survivors before the duplicates go.
FindDuplicates ==
    /\ phase = "dedupe"
    /\ LET n == Cardinality(Duplicates)
           allowed == "dedupe" \in opts /\ Allowed(opts, n, Cardinality(UIDs))
       IN  /\ doomed' = IF allowed THEN {[uid |-> u, src |-> Nobody] : u \in Duplicates} ELSE {}
           /\ row' = IF allowed THEN Repointed ELSE row
           /\ loose' = IF allowed THEN loose \cup {Survivor(u) : u \in Duplicates} ELSE loose
           /\ refused' = (refused \/ ("dedupe" \in opts /\ ~allowed))
    /\ phase' = IF doomed' = {} THEN "finish" ELSE "remove"
    /\ UNCHANGED <<source, dest, folder, opts, p, todo, index, bodies, dupes, mirror,
                   changes, failed, budget, removed, shifted, torn>>

RemoveDuplicates ==
    /\ phase = "remove"
    /\ Remove(Copies(doomed))
    /\ Misled
    /\ doomed' = {}
    /\ phase' = "finish"
    /\ UNCHANGED <<source, nextUID, dstVal, store, opts, p, todo, index, bodies, dupes,
                   mirror, changes, failed, refused, budget, loose, shifted, torn>>

MarkSynced ==
    /\ phase = "finish" /\ "alone" \notin opts
    /\ folder' = [folder EXCEPT !.mark = NewMark, !.deleted = DeletedThrough,
                                !.finished = TRUE]
    /\ NoRun
    /\ shifted' = FALSE
    /\ UNCHANGED <<source, dest, row, budget, removed, loose, torn>>

\* The dedup command asks nothing of the source (claimsOver, dedupOne).
Dedup ==
    /\ phase = "idle"
    /\ opts' = {"dedupe", "alone"}
    /\ p' = SelectDest([NotPrepared EXCEPT !.src = folder.src])
    /\ phase' = "dedupe"
    /\ UNCHANGED <<source, dest, store, todo, index, bodies, dupes, mirror, changes,
                   doomed, failed, refused, budget, history>>

DedupEnds ==
    /\ phase = "finish" /\ "alone" \in opts
    /\ NoRun
    /\ shifted' = FALSE
    /\ UNCHANGED <<source, dest, store, budget, removed, loose, torn>>

-----------------------------------------------------------------------------
(* A run dies, or gives the folder up *)

Fenced == ~p.kept /\ phase \in {"opened", "recovered", "verified", "copy"}

RunStops ==
    /\ phase # "idle"
    /\ Trouble
    /\ NoRun
    /\ torn' = (torn \/ Fenced \/ phase = "remove")
    /\ shifted' = FALSE
    /\ UNCHANGED <<source, dest, store, removed, loose>>

\* errRenumbered: a connection shows other numbers than prepareFolder saw.  One
\* that was kept from a first pass may show older ones, which is RunStops.
CopyStops ==
    /\ phase = "copy" /\ todo # {} /\ \E number \in LeaseNumbers : ~NumberingHolds(number)
    /\ NoRun
    /\ torn' = (torn \/ Fenced)
    /\ shifted' = FALSE
    /\ UNCHANGED <<source, dest, store, budget, removed, loose>>

\* It dies between the STORE and RecordFlags.
StoreThenStops(c) ==
    /\ phase = "store" /\ c \in changes
    /\ Trouble
    /\ Stored(c)
    /\ loose' = loose \cup {c.uid}
    /\ NoRun
    /\ shifted' = FALSE
    /\ UNCHANGED <<source, nextUID, dstVal, store, removed, torn>>

-----------------------------------------------------------------------------
(* Others, at both ends *)

Change == Trouble /\ UNCHANGED <<dest, store, history>>
Edit == Trouble /\ UNCHANGED <<source, store, torn>>
Meanwhile ==
    /\ p' = IF phase = "idle" THEN p ELSE [p EXCEPT !.calm = FALSE]
    /\ UNCHANGED <<phase, opts, todo, index, bodies, dupes, mirror, changes, doomed,
                   failed, refused>>

Arrive(m) ==
    /\ m \in Late \ listed /\ changed[m] = 1
    /\ listed' = listed \cup {m}
    /\ modseq' = modseq + 1 /\ changed' = [changed EXCEPT ![m] = modseq']
    /\ UNCHANGED <<flag, srcVal>>
    /\ Change /\ Meanwhile

ExpungeSource(m) ==
    /\ m \in listed
    /\ listed' = listed \ {m}
    /\ modseq' = modseq + 1 /\ changed' = [changed EXCEPT ![m] = modseq']
    /\ UNCHANGED <<flag, srcVal>>
    /\ Change /\ Meanwhile

Reflag(m) ==
    /\ m \in listed
    /\ flag' = [flag EXCEPT ![m] = 1 - @]
    /\ modseq' = modseq + 1 /\ changed' = [changed EXCEPT ![m] = modseq']
    /\ UNCHANGED <<listed, srcVal>>
    /\ Change /\ Meanwhile

\* A renumbered mailbox may come back with a lower modification sequence.
RenumberSource ==
    /\ srcVal' = srcVal + 1 /\ modseq' = 2
    /\ changed' = [m \in Msgs |-> 2]
    /\ UNCHANGED <<listed, flag>>
    /\ Change /\ Meanwhile

AddStranger(c) ==
    /\ Append(c, 0)
    /\ UNCHANGED <<dstVal, removed, loose, shifted>>
    /\ Edit /\ Meanwhile

RemoveCopy(u) ==
    /\ u \in UIDs
    /\ Remove({u})
    /\ removed' = removed \cup {u}
    /\ UNCHANGED <<nextUID, dstVal, loose, shifted>>
    /\ Edit /\ Meanwhile

ReflagCopy(u) ==
    /\ u \in UIDs
    /\ box' = [box EXCEPT ![u].flag = 1 - @]
    /\ loose' = loose \cup {u}
    /\ UNCHANGED <<nextUID, dstVal, removed, shifted>>
    /\ Edit /\ Meanwhile

Renumbered ==
    /\ dstVal' = dstVal + 1
    /\ removed' = {} /\ loose' = {}
    /\ shifted' = (phase \notin {"idle", "planned"})
    /\ Edit /\ Meanwhile

\* The messages keep their order and are numbered from one.
RenumberDest ==
    /\ LET nth(i) == CHOOSE u \in UIDs : Cardinality({w \in UIDs : w <= u}) = i
       IN  box' = [i \in 1..Cardinality(UIDs) |-> box[nth(i)]]
    /\ nextUID' = 1 + Cardinality(UIDs)
    /\ Renumbered

\* The folder is deleted; it or the next run makes it again, empty.
RecreateDest ==
    /\ box' = [u \in {} |-> 0] /\ nextUID' = 1
    /\ Renumbered

-----------------------------------------------------------------------------
StoreChange(c) == StoreFlags(c) \/ StoreFails(c) \/ StoreThenStops(c)
CopyMessage(m, number) ==
    \/ FindGone(m, number) \/ Adopt(m, number) \/ AppendCopy(m, number)
    \/ Repeat(m, number) \/ Fail(m, number)

RunGoesOn ==
    \/ SkipFolder \/ Prepare \/ Recover \/ Verify \/ Diff \/ CopyStops \/ SettleDuplicates
    \/ Condemn \/ DeletesNothing \/ Expunge \/ Forget
    \/ FindDuplicates \/ RemoveDuplicates \/ MarkSynced \/ DedupEnds
    \/ \E m \in Msgs, number \in LeaseNumbers : CopyMessage(m, number)
    \/ \E c \in changes : StoreChange(c)

Others ==
    \/ \E m \in Msgs : Arrive(m) \/ ExpungeSource(m) \/ Reflag(m)
    \/ RenumberSource \/ RenumberDest \/ RecreateDest
    \/ \E c \in Strangers : AddStranger(c)
    \/ \E u \in UIDs : RemoveCopy(u) \/ ReflagCopy(u)

Next ==
    \/ \E o \in Options, known \in BOOLEAN : Plan(o, known)
    \/ Dedup \/ RunGoesOn \/ RunStops \/ Others

Spec == Init /\ [][Next]_vars

\* A run that is going goes on, and a complete one is made again and again.
Complete == {"full", "delete2", "dedupe", "force"}
FairSpec ==
    /\ Spec
    /\ WF_vars(RunGoesOn)
    /\ SF_vars(Plan(Complete, TRUE))

-----------------------------------------------------------------------------
(* Properties *)

\* Each row that counts as a copy.
Claims == Mirrored(folder.src, dstVal)

TypeOK ==
    /\ listed \in SUBSET Msgs
    /\ modseq \in Nat
    /\ UIDs \subseteq 1..(nextUID - 1)
    /\ \A u \in UIDs : box[u].content \in Contents \cup Strangers \cup Range(Leftover)
    /\ Recorded \subseteq Msgs
    /\ \A m \in Recorded : /\ row[m].state \in {"done", "gone", "failed", "in_flight"}
                           /\ (row[m].state = "done" <=> row[m].uid # Nobody)
    /\ folder.mark \in Nat /\ folder.deleted \in Nat
    /\ todo \subseteq Msgs /\ bodies \subseteq Msgs /\ dupes \subseteq Msgs
    /\ phase = "idle" => doomed = {} /\ changes = {}

\* No row names a copy that this program itself removed.  A claim that nothing
\* answers is copied again: "a folder that grew every time it was cleaned"
\* (Partition).
ClaimsHonoured ==
    \A m \in Claims \cap listed : row[m].uid \in UIDs \cup removed

\* No renumbering, lost claim, retry or second run makes more copies of a
\* content than the source has messages of it.  Not so when a run died after
\* its fence had fallen: the next one finds a fence that holds and a folder that
\* finished once, makes no index, and copies what it should adopt.  Nor when it
\* died before it removed duplicates that no row names any more, or when a copy
\* was passed over for a message that only looks like it.
NoSecondCopy ==
    \A m \in Msgs :
        Identity[Content[m]] \notin Weak /\ ~torn
            => Cardinality({u \in UIDs : box[u].content = Content[m]})
                 <= Cardinality({n \in Msgs : Content[n] = Content[m]})

\* Deletion never takes the last copy of what the source still holds, and a
\* duplicate goes only where an identical message stays.
DeletionSpares ==
    phase \in {"expunge", "remove"} /\ phase' \in {"forget", "finish"} /\ ~shifted /\ removed = {}
        => \A u \in UIDs \ UIDs' :
              \/ \E w \in UIDs' : box[w].content = box[u].content
              \/ /\ phase = "expunge"
                 /\ Identity[box[u].content] \in {Identity[Content[m]] : m \in (p.live \cap listed) \ Excluded}
                      => \E w \in UIDs' : Identity[box[w].content] = Identity[box[u].content]

NeverDeletesHeld == [][DeletionSpares]_vars

\* Deletions have a watermark of their own: a --delete2 run that may skip the
\* folder has nothing left to delete among the copies on record.
NothingOwed ==
    folder.deleted = modseq /\ folder.src = srcVal /\ phase = "idle"
        => \A m \in Claims \ listed :
              row[m].uid \in UIDs => \E n \in Claims \cap listed : row[n].uid = row[m].uid

\* The fast path passes nothing over: whatever failed, died or was renumbered
\* before, a folder that may be skipped has a claim on a copy of every message of
\* the source.  Not so where a copy was removed (AlwaysTriedAgain), nor of a
\* destination made again, which the fast path does not notice.
SkipsInStep ==
    phase = "planned" /\ CanSkip(opts) /\ dstVal = folder.dst /\ removed = {}
        => listed \subseteq Claims

\* "The number is only recorded by a run that finished the folder with nothing
\* failed, so a message that could not be copied is always tried again"
\* (README.md:485).  But the number may be on record from an earlier run: when
\* verifyClaims drops the claims of copies that were removed, it stays.
AlwaysTriedAgain ==
    phase = "planned" /\ CanSkip(opts) => \A m \in Recorded \cap listed : row[m].state # "failed"

\* A copy that a row claims is "not offered to a second one" (ClaimedDestUIDs):
\* two fetchers of one run, or two runs, never take one for two messages.
AdoptsUnclaimed ==
    row' # row /\ index' # index
        => \A m \in todo \ todo' : row'[m].uid \notin ClaimedDestUIDs(p.dst)

AdoptsOnce == [][AdoptsUnclaimed]_vars

\* The watermark covers flags too: once the folder may be skipped, a copy that
\* stands for one message has the flags of its source.  Not so where its flags
\* were not this program's to settle: others changed them, the copy was adopted
\* or found by a search, or the row had been written when a run died (loose).
FlagsFollow ==
    folder.mark = modseq /\ folder.src = srcVal /\ phase = "idle"
        => \A m \in Claims \cap listed :
              row[m].uid \in UIDs \ loose /\ ~Shared(m) => box[row[m].uid].flag = flag[m]

\* What a run does, if nobody interferes, a dry run would have announced, unless
\* a dead run left a message in flight: once that is found the claims may
\* outnumber the destination, and a copy long gone is missed.
PreviewCovers ==
    p.calm /\ p.kept /\ p.preview.sure =>
        /\ phase = "copy" => todo \subseteq p.preview.copies
        /\ phase = "expunge" => Copies(doomed) \subseteq p.preview.deletes

\* Whatever has happened, complete runs bring the destination back to what the
\* source holds: all of it, and nothing that can be told from it.
InStep ==
    /\ \A m \in listed \ Excluded : \E u \in UIDs : Identity[box[u].content] = Identity[Content[m]]
    /\ \A u \in UIDs : Identity[box[u].content] \in Weak \cup {Identity[Content[m]] : m \in listed}

EndsInStep == <>[]InStep
=============================================================================
