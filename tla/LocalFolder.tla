---------------------------- MODULE LocalFolder -----------------------------
(***************************************************************************)
(* One folder of the local store: a directory of message files, and a      *)
(* database beside it that numbers them (internal/localstore: store.go,    *)
(* folder.go, conn.go).                                                    *)
(*                                                                         *)
(* A message is its content.  The files are the truth and the database is  *)
(* a cache: it may be lost, damaged or restored from a backup, and files   *)
(* may come and go by hand.  Several connections open the folder and work  *)
(* in it at once, and the process may die between any two of their steps.  *)
(***************************************************************************)
EXTENDS Integers, FiniteSets, FiniteSetsExt, Functions

CONSTANTS Conns,        \* connections
          Mail,         \* messages that are appended, each a number
          Dropped,      \* messages that are put there by hand, likewise
          HandNumbers,  \* the numbers that files put there by hand may bear
          MaxSessions,  \* bound: runs of the program
          MaxTroubles   \* bound: crashes, failures and hands

ASSUME LocalAssumption ==
    /\ Mail \cup Dropped \subseteq Nat \ {0}
    /\ Mail \cap Dropped = {}
    /\ HandNumbers \subseteq Nat \ {0}
    /\ MaxSessions \in Nat /\ MaxTroubles \in Nat

VARIABLES
    \* the directory
    files,      \* UID -> message
    foreign,    \* messages in files whose names are not UIDs
    db,         \* the database on disk
    unlinked,   \* a database that was replaced while it was open
    old,        \* the database as the last run found it
    \* the process
    session,    \* "closed", "open" or "readonly"
    lastSeen,   \* lastUIDValidity
    handle,     \* the folder the store shares, or NoFolder
    pc, mine,   \* what a connection is doing, and the folder it is opening
    found, known, \* of its reconcile: the scan, and the rows it read
    job,        \* the message and the number it has in hand
    \* bounds and history
    clock, sessions, troubles,
    returned,   \* messages whose Append has returned
    taken,      \* messages that somebody removed
    named,      \* what each number has stood for
    lagged,     \* numbers were shown that the database on disk does not know of,
                \* or a hand gave one to another message
    blemished,  \* two opened the folder at once, or a row could not be written
    crossed,    \* a file was dropped in while the folder was being opened
    restored    \* the database is a backup nobody has opened yet

directory == <<files, foreign, db, unlinked, old>>
process   == <<session, lastSeen, handle>>
conns     == <<pc, mine, found, known, job>>
history   == <<returned, taken, named, lagged, blemished, crossed, restored>>
bounds    == <<clock, sessions, troubles>>
vars      == <<directory, process, conns, bounds, history>>

NoRows   == [u \in {} |-> 0]
NoFolder == [gen |-> 0, next |-> 0, validity |-> 0]
NoJob    == [msg |-> 0, uid |-> 0, next |-> 0]
NoScan   == [uids |-> {}, foreign |-> {}]

\* Every database file that ever was has a generation of its own.
Absent(g) == [gen |-> g, state |-> "none", next |-> 0, validity |-> 0, rows |-> NoRows]

UIDs == DOMAIN files
MaxUID(uids) == IF uids = {} THEN 0 ELSE Max(uids)
Larger(a, b) == IF a > b THEN a ELSE b

-----------------------------------------------------------------------------
(* Decisions, some after a faulty variant of it *)

\* newUIDValidity: the seconds of the clock, and never one it has seen.
NewUIDValidity == Larger(clock, lastSeen + 1)

\* claim: the next number, and above what the scan has seen.
ClaimsNext(f, atLeast) == f.next
Claimed(f, atLeast) == Larger(f.next, atLeast + 1)

\* raiseUIDNext never lowers.
Raised(f, uids) == [f EXCEPT !.next = Larger(@, MaxUID(uids) + 1)]

\* rebuild starts a new numbering.
KeepsNumbering == [gen |-> db.gen + 1, state |-> "good", next |-> 1,
                   validity |-> db.validity, rows |-> NoRows]
Rebuilt == [gen |-> db.gen + 1, state |-> "good", next |-> 1,
            validity |-> NewUIDValidity, rows |-> NoRows]

\* reconcile: rows for the files that have none, none for those without a file.
ForgetsOnly(rows, scan, knew) == Restrict(rows, DOMAIN rows \ (knew \ scan))
Reconciled(rows, scan, knew) ==
    LET adopted == (scan \cap UIDs) \ knew
        kept    == DOMAIN rows \ (knew \ scan)
    IN  [u \in kept \cup adopted |-> IF u \in adopted THEN 0 ELSE rows[u]]

-----------------------------------------------------------------------------
\* A handle writes to the database it opened, whether that still has a name.
Attached(f) == db.gen = f.gen
RowsOf(f) == IF Attached(f) THEN db.rows ELSE unlinked.rows
WriteNext(f, n) ==
    /\ db' = IF Attached(f) THEN [db EXCEPT !.next = n] ELSE db
    /\ UNCHANGED unlinked
WriteRows(f, rows) ==
    /\ db' = IF Attached(f) THEN [db EXCEPT !.rows = rows] ELSE db
    /\ unlinked' = IF ~Attached(f) /\ unlinked.gen = f.gen
                   THEN [unlinked EXCEPT !.rows = rows] ELSE unlinked

Trouble == troubles > 0 /\ troubles' = troubles - 1

Quiet == \A c \in Conns : pc[c] = "idle"
Opening == {c \in Conns : mine[c] # NoFolder \/ pc[c] \in {"rebuild", "load"}}

\* What others can see goes on record.
Shown(h, now) ==
    IF h = NoFolder THEN {}
    ELSE {[validity |-> h.validity, uid |-> u, msg |-> now[u]] : u \in DOMAIN now}

Rest(c) == /\ pc' = [pc EXCEPT ![c] = "idle"]
           /\ mine' = [mine EXCEPT ![c] = NoFolder]
           /\ found' = [found EXCEPT ![c] = NoScan]
           /\ known' = [known EXCEPT ![c] = {}]
           /\ job' = [job EXCEPT ![c] = NoJob]
Step(c, next) == pc' = [pc EXCEPT ![c] = next]

NoMemory ==
    /\ lastSeen' = 0 /\ handle' = NoFolder
    /\ pc' = [c \in Conns |-> "idle"] /\ mine' = [c \in Conns |-> NoFolder]
    /\ found' = [c \in Conns |-> NoScan] /\ known' = [c \in Conns |-> {}]
    /\ job' = [c \in Conns |-> NoJob]
    /\ unlinked' = Absent(0)

Init ==
    /\ files = NoRows /\ foreign = {} /\ unlinked = Absent(0)
    /\ db = [gen |-> 1, state |-> "good", next |-> 1, validity |-> 1, rows |-> NoRows]
    /\ old = db
    /\ session = "closed" /\ lastSeen = 0 /\ handle = NoFolder
    /\ pc = [c \in Conns |-> "idle"] /\ mine = [c \in Conns |-> NoFolder]
    /\ found = [c \in Conns |-> NoScan] /\ known = [c \in Conns |-> {}]
    /\ job = [c \in Conns |-> NoJob]
    /\ clock = 1 /\ sessions = MaxSessions /\ troubles = MaxTroubles
    /\ returned = {} /\ taken = {} /\ named = {}
    /\ lagged = FALSE /\ blemished = FALSE /\ crossed = FALSE /\ restored = FALSE

-----------------------------------------------------------------------------
(* The store *)

\* Across runs the clock has moved, past every number a run has seen.
TimePasses == clock' = Larger(clock, lastSeen)

Start(mode) ==
    /\ session = "closed" /\ sessions > 0
    /\ session' = mode /\ sessions' = sessions - 1 /\ clock' = clock + 1
    /\ old' = IF mode = "open" /\ db.state = "good" THEN db ELSE old
    /\ UNCHANGED <<files, foreign, db, unlinked, lastSeen, handle, conns, troubles, history>>

\* create makes the database of a folder that has none, and leaves one alone.
CreateFolder ==
    /\ session = "open" /\ db.state = "none"
    /\ db' = Rebuilt /\ lastSeen' = NewUIDValidity
    /\ UNCHANGED <<files, foreign, unlinked, old, session, handle, conns, bounds, history>>

\* Close waits for nobody, and nobody is at work when a run calls it.
Behind == handle # NoFolder /\ (~Attached(handle) \/ db.next < handle.next)

Close ==
    /\ session # "closed" /\ Quiet
    /\ session' = "closed" /\ NoMemory /\ TimePasses
    /\ lagged' = (lagged \/ (session = "open" /\ Behind))
    /\ UNCHANGED <<files, foreign, db, old, sessions, troubles, returned, taken, named,
                   blemished, crossed, restored>>

Crash ==
    /\ session = "open" /\ Trouble
    /\ session' = "closed" /\ NoMemory /\ TimePasses
    /\ lagged' = (lagged \/ Behind)
    /\ UNCHANGED <<files, foreign, db, old, sessions, returned, taken, named, blemished,
                   crossed, restored>>

-----------------------------------------------------------------------------
(* open: nobody holds the store's lock while a folder is opened *)

IsFolder == db.state # "none" \/ files # NoRows \/ foreign # {}

\* The database is judged before anything is done about it.
OpenFolder(c) ==
    /\ session = "open" /\ handle = NoFolder /\ pc[c] = "idle" /\ IsFolder
    /\ Step(c, IF db.state = "broken" THEN "rebuild" ELSE "load")
    /\ blemished' = (blemished \/ Opening # {})
    /\ UNCHANGED <<directory, process, mine, found, known, job, bounds, returned, taken,
                   named, lagged, crossed, restored>>

Rebuild(c) ==
    /\ pc[c] = "rebuild"
    /\ db' = Rebuilt /\ unlinked' = IF db.state = "good" THEN db ELSE unlinked
    /\ lastSeen' = NewUIDValidity
    /\ Step(c, "load")
    /\ UNCHANGED <<files, foreign, old, session, handle, mine, found, known, job, bounds, history>>

\* load: a database without a folder row is given one.
Load(c) ==
    /\ pc[c] = "load"
    /\ db' = IF db.state = "none" THEN Rebuilt ELSE db
    /\ lastSeen' = Larger(lastSeen, db'.validity)
    /\ mine' = [mine EXCEPT ![c] = [gen |-> db'.gen, next |-> db'.next, validity |-> db'.validity]]
    /\ Step(c, "scan")
    /\ UNCHANGED <<files, foreign, unlinked, old, session, handle, found, known, job,
                   bounds, history>>

Scan(c) ==
    /\ pc[c] = "scan"
    /\ found' = [found EXCEPT ![c] = [uids |-> UIDs, foreign |-> foreign]]
    /\ Step(c, "adopt")
    /\ UNCHANGED <<directory, process, mine, known, job, bounds, history>>

\* Files that are somebody's own are given numbers, in the order of their names.
AdoptClaim(c) ==
    /\ pc[c] = "adopt" /\ found[c].foreign # {}
    /\ LET uid == Claimed(mine[c], MaxUID(found[c].uids)) IN
        /\ mine' = [mine EXCEPT ![c].next = uid + 1]
        /\ job' = [job EXCEPT ![c] = [msg |-> Min(found[c].foreign), uid |-> uid, next |-> uid + 1]]
    /\ Step(c, "persist")
    /\ UNCHANGED <<directory, process, found, known, bounds, history>>

AdoptRename(c) ==
    /\ pc[c] = "rename" /\ mine[c] # NoFolder /\ job[c].msg \in foreign
    /\ foreign' = foreign \ {job[c].msg}
    /\ files' = [u \in UIDs \cup {job[c].uid} |-> IF u = job[c].uid THEN job[c].msg ELSE files[u]]
    /\ found' = [found EXCEPT ![c] = [uids |-> @.uids \cup {job[c].uid},
                                      foreign |-> @.foreign \ {job[c].msg}]]
    /\ named' = named \cup Shown(handle, files')
    /\ Step(c, "adopt")
    /\ UNCHANGED <<db, unlinked, old, process, mine, known, job, bounds, returned, taken,
                   lagged, blemished, crossed, restored>>

\* Another connection has adopted it, or it was taken away: the open fails.
AdoptFails(c) ==
    /\ pc[c] = "rename" /\ mine[c] # NoFolder /\ job[c].msg \notin foreign
    /\ Rest(c)
    /\ UNCHANGED <<directory, process, bounds, history>>

ReadKnown(c) ==
    /\ pc[c] = "adopt" /\ found[c].foreign = {}
    /\ known' = [known EXCEPT ![c] = DOMAIN RowsOf(mine[c])]
    /\ Step(c, "commit")
    /\ UNCHANGED <<directory, process, mine, found, job, bounds, history>>

Commit(c) ==
    /\ pc[c] = "commit"
    /\ WriteRows(mine[c], Reconciled(RowsOf(mine[c]), found[c].uids, known[c]))
    /\ Step(c, "raise")
    /\ UNCHANGED <<files, foreign, old, process, mine, found, known, job, bounds, history>>

RaiseUIDNext(c) ==
    /\ pc[c] = "raise"
    /\ LET f == Raised(mine[c], found[c].uids) IN
        /\ mine' = [mine EXCEPT ![c] = f]
        /\ IF f.next = mine[c].next THEN UNCHANGED <<db, unlinked>> ELSE WriteNext(f, f.next)
    /\ Step(c, "register")
    /\ UNCHANGED <<files, foreign, old, process, found, known, job, bounds, history>>

\* Whoever comes second closes its own and works with the first.
Register(c) ==
    /\ pc[c] = "register"
    /\ handle' = IF handle = NoFolder THEN mine[c] ELSE handle
    /\ named' = named \cup Shown(handle', files)
    /\ restored' = FALSE
    /\ Rest(c)
    /\ UNCHANGED <<directory, session, lastSeen, bounds, returned, taken, lagged, blemished,
                   crossed>>

\* Nobody has opened the folder since its database was made, or whoever did has
\* died of it: the number on disk is below those of the files.
Uncounted == ~restored /\ \E u \in UIDs : db.next <= u

\* openFolderReadOnly repairs nothing, and does without a damaged database.
OpenReadOnly ==
    /\ session = "readonly" /\ handle = NoFolder /\ IsFolder
    /\ handle' = IF db.state = "good"
                 THEN [gen |-> db.gen, next |-> db.next, validity |-> db.validity]
                 ELSE [gen |-> -1, next |-> MaxUID(UIDs) + 1, validity |-> 0]
    /\ lastSeen' = Larger(lastSeen, handle'.validity)
    /\ lagged' = (lagged \/ (db.state = "good" /\ Uncounted))
    /\ named' = IF db.state = "good" THEN named \cup Shown(handle', files) ELSE named
    /\ UNCHANGED <<directory, session, conns, bounds, returned, taken, blemished, crossed,
                   restored>>

-----------------------------------------------------------------------------
(* Append, StoreFlags, DeleteMessages *)

Ready(c) == session = "open" /\ handle # NoFolder /\ pc[c] = "idle"

\* The next message to append: which is which makes no difference.
Waiting == Mail \ (returned \cup {job[o].msg : o \in Conns} \cup Range(files) \cup taken)

\* The number is taken under the folder's lock ...
AppendClaim(c, m) ==
    /\ Ready(c) /\ Waiting # {} /\ m = Min(Waiting)
    /\ LET uid == Claimed(handle, 0) IN
        /\ handle' = [handle EXCEPT !.next = uid + 1]
        /\ job' = [job EXCEPT ![c] = [msg |-> m, uid |-> uid, next |-> uid + 1]]
    /\ Step(c, "persist")
    /\ UNCHANGED <<directory, session, lastSeen, mine, found, known, bounds, history>>

\* ... and written down outside it.
Persist(c) ==
    /\ pc[c] = "persist"
    /\ WriteNext(IF mine[c] # NoFolder THEN mine[c] ELSE handle, job[c].next)
    /\ Step(c, "rename")
    /\ UNCHANGED <<files, foreign, old, process, mine, found, known, job, bounds, history>>

AppendRename(c) ==
    /\ pc[c] = "rename" /\ mine[c] = NoFolder
    /\ files' = [u \in UIDs \cup {job[c].uid} |-> IF u = job[c].uid THEN job[c].msg ELSE files[u]]
    /\ named' = named \cup Shown(handle, files')
    /\ Step(c, "insert")
    /\ UNCHANGED <<foreign, db, unlinked, old, process, mine, found, known, job, bounds,
                   returned, taken, lagged, blemished, crossed, restored>>

AppendRow(c) ==
    /\ pc[c] = "insert"
    /\ WriteRows(handle, [u \in DOMAIN RowsOf(handle) \cup {job[c].uid} |->
                             IF u = job[c].uid THEN 1 ELSE RowsOf(handle)[u]])
    /\ returned' = returned \cup {job[c].msg}
    /\ Rest(c)
    /\ UNCHANGED <<files, foreign, old, process, bounds, taken, named, lagged, blemished,
                   crossed, restored>>

\* The database refuses a write: the number is spent, the file may be there.
AppendFails(c) ==
    /\ pc[c] \in {"persist", "insert"} /\ mine[c] = NoFolder /\ Trouble
    /\ blemished' = (blemished \/ pc[c] = "insert")
    /\ Rest(c)
    /\ UNCHANGED <<directory, process, clock, sessions, returned, taken, named, lagged,
                   crossed, restored>>

\* UPDATE of a row that is not there changes nothing.
StoreFlags(c, u) ==
    /\ Ready(c) /\ u \in DOMAIN RowsOf(handle) /\ RowsOf(handle)[u] = 0
    /\ WriteRows(handle, [RowsOf(handle) EXCEPT ![u] = 1])
    /\ UNCHANGED <<files, foreign, old, process, conns, bounds, history>>

DeleteFile(c, u) ==
    /\ Ready(c) /\ u \in UIDs /\ Trouble
    /\ files' = Restrict(files, UIDs \ {u})
    /\ taken' = taken \cup {files[u]}
    /\ job' = [job EXCEPT ![c] = [NoJob EXCEPT !.uid = u]]
    /\ Step(c, "unrow")
    /\ UNCHANGED <<foreign, db, unlinked, old, process, mine, found, known, clock, sessions,
                   returned, named, lagged, blemished, crossed, restored>>

DeleteRow(c) ==
    /\ pc[c] = "unrow"
    /\ WriteRows(handle, Restrict(RowsOf(handle), DOMAIN RowsOf(handle) \ {job[c].uid}))
    /\ Rest(c)
    /\ UNCHANGED <<files, foreign, old, process, bounds, history>>

-----------------------------------------------------------------------------
(* Hands, and what happens to a file at rest *)

AtRest == session = "closed" /\ Trouble
                /\ UNCHANGED <<unlinked, process, conns, clock, sessions, returned, named>>
ByHand == Trouble /\ UNCHANGED <<db, unlinked, old, process, conns, clock, sessions, returned,
                                named, blemished, restored>>

Elsewhere(m) == m \notin foreign \cup taken \cup Range(files)

\* A file is copied in with Finder, at any time, under a name of its own ...
DropIn(m) ==
    /\ Elsewhere(m)
    /\ foreign' = foreign \cup {m}
    /\ crossed' = (crossed \/ Opening # {})
    /\ ByHand
    /\ UNCHANGED <<files, taken, lagged>>

\* ... or, while the program does not run, under a number.
DropNumbered(m, u) ==
    /\ session = "closed" /\ Elsewhere(m) /\ u \notin UIDs
    /\ files' = [v \in UIDs \cup {u} |-> IF v = u THEN m ELSE files[v]]
    /\ lagged' = (lagged \/ \E n \in named : n.uid = u)
    /\ ByHand
    /\ UNCHANGED <<foreign, taken, crossed>>

\* A file is removed, at any time.  The numbers above those of a backup are
\* known by the files alone until it has been opened.
TakeAway(u) ==
    /\ u \in UIDs
    /\ files' = Restrict(files, UIDs \ {u})
    /\ taken' = taken \cup {files[u]}
    /\ lagged' = (lagged \/ restored)
    /\ ByHand
    /\ UNCHANGED <<foreign, crossed>>

LoseDatabase ==
    /\ db.state # "none"
    /\ db' = Absent(db.gen + 1)
    /\ AtRest
    /\ UNCHANGED <<files, foreign, old, taken, lagged, blemished, crossed, restored>>

DamageDatabase ==
    /\ db.state = "good"
    /\ db' = [db EXCEPT !.state = "broken"]
    /\ AtRest
    /\ UNCHANGED <<files, foreign, old, taken, lagged, blemished, crossed, restored>>

\* A backup of the database is put back, whatever has happened since.
\* raiseUIDNext heals it by the files that are there, and by nothing else.
Healable ==
    \A n \in named : n.validity = old.validity =>
        IF n.uid \in UIDs THEN files[n.uid] = n.msg ELSE n.uid < old.next
RestoreDatabase ==
    /\ old.state = "good"
    /\ db' = [old EXCEPT !.gen = db.gen + 1]
    /\ restored' = TRUE
    /\ lagged' = (lagged \/ ~Healable)
    /\ AtRest
    /\ UNCHANGED <<files, foreign, old, taken, blemished, crossed>>

-----------------------------------------------------------------------------
OpenStep(c) ==
    \/ OpenFolder(c) \/ Rebuild(c) \/ Load(c) \/ Scan(c)
    \/ AdoptClaim(c) \/ AdoptRename(c) \/ AdoptFails(c)
    \/ ReadKnown(c) \/ Commit(c) \/ RaiseUIDNext(c) \/ Register(c)

WorkStep(c) ==
    \/ \E m \in Mail : AppendClaim(c, m)
    \/ Persist(c) \/ AppendRename(c) \/ AppendRow(c) \/ AppendFails(c)
    \/ \E u \in UIDs : StoreFlags(c, u) \/ DeleteFile(c, u)
    \/ DeleteRow(c)

Hands ==
    \/ \E m \in Dropped : DropIn(m) \/ \E u \in HandNumbers : DropNumbered(m, u)
    \/ \E u \in UIDs : TakeAway(u)
    \/ LoseDatabase \/ DamageDatabase \/ RestoreDatabase

Next ==
    \/ \E mode \in {"open", "readonly"} : Start(mode)
    \/ CreateFolder \/ Close \/ Crash \/ OpenReadOnly
    \/ \E c \in Conns : OpenStep(c) \/ WorkStep(c)
    \/ Hands

Spec == Init /\ [][Next]_vars

-----------------------------------------------------------------------------
(* Properties *)

\* No message is written over.  What an append returned, or a hand put there,
\* is in the directory until somebody removes it, whatever number the database
\* remembers.  Not so when a file is dropped in while connections open the
\* folder: one that loaded the database before another registered the folder
\* may scan after it, and rename the file onto a number handed out since.
NothingLost == ~crossed =>
    /\ \A m \in returned \ taken : m \in Range(files)
    /\ \A m \in Dropped : (\E n \in named : n.msg = m) /\ m \notin taken => m \in Range(files)

NameOne(names) ==
    \A m, n \in names : m.validity = n.validity /\ m.uid = n.uid => m.msg = n.msg

\* Within one UIDVALIDITY a number never stands for two messages, the promise
\* of IMAP that raiseUIDNext and rebuild are about.  Not so after a run that
\* ended with a smaller number on disk than it had handed out, a dry run that
\* listed files above the number on disk, a backup that the files do not heal, a
\* file put there by hand under a number of old, or one dropped in meanwhile as
\* above.
NumberNamesOne == ~lagged /\ ~crossed => NameOne(named)

\* A message without a row is listed but never fetched, searched or flagged.
\* Between operations there is none, unless two connections opened the folder
\* at once: the later one drops the rows of what the earlier has appended since
\* its scan.
EveryFileHasRow ==
    handle # NoFolder /\ session = "open" /\ Quiet /\ ~blemished /\ ~crossed
        => UIDs \subseteq DOMAIN RowsOf(handle)
=============================================================================
