# TLA+ models of imapsync-go

imapsync-go copies mail from one IMAP account (or local store) to another. Many
goroutines fetch and append through two connection pools, and a SQLite database
remembers what has been copied, so that a run that dies can be followed by one
that neither loses a message nor copies it twice. This directory holds TLA+
models of the parts on which that rests, TLC configurations that check them on
small instances, and proofs that TLAPS checks for every instance.

## The system

| component | source | state | operations | what is hard |
|---|---|---|---|---|
| connection pool | `internal/pool` | token channel, idle stack, `width`, `debt`, `open`, three clocks | Acquire, Release, Close; shrink on refusal, grow when quiet | goroutines interleave at every lock, channel and network call |
| copying a folder | `internal/syncer/syncer.go` | `prepared`, `live` (adoption index, hashes, counters), rows | diff, adopt, fetch, append, settle, record, recover | crash between row and append; lost replies; concurrent fetchers |
| state database | `internal/state` | tables `folders`, `messages` | BeginAppend, CompleteAppend, FailAppend, MarkGone, MarkSynced, fence | what a row claims against what the servers hold |
| fast path, fence, verification | `syncer.go` canSkip, openDest, reconcile, verifyClaims | watermark, UIDVALIDITYs | skip, fence, forget rows | the destination changes behind the database |
| folder pipeline, byte budget | `syncer.go` copyFolder, `internal/budget` | two channels, a weighted semaphore, two pools | chunk, fetch, append | everybody waiting on everybody |
| flag resync | `syncer.go` resyncFlags | flags column, watermark | store flags | stale mirror map |
| deletion, duplicates | `syncer.go` deleteVanished, `dedupe.go`, `internal/dedup` | victims | condemn, re-check, expunge; ceiling | deleting what is still wanted |
| orchestration, health | `syncer.go` Run, pass, health | report, trouble counters | passes over folders, verdict | two passes, shared counters |
| retry, throttle | `internal/retry`, `internal/throttle` | attempt, bucket | Classify, Wait, spend | one error that is several things at once, cancelled waits |
| local store | `internal/localstore` | files, one database per folder, `uidnext` | Append, claim, reconcile, rebuild | crash between rename and insert; UIDs persisted out of order |
| folder plan, selection | `internal/folder`, `internal/selection` | none | Build, Wants | collisions, parents before children, inverted windows |
| searches | `internal/searchkey`, `localstore/search.go` | none | Parse, and, matches | zero means no bound; nesting; a refused key |
| credentials | `internal/imapx/credential.go`, `token.go` | held token | Secret, Refresh | one renewal for many workers |
| IMAP client | `internal/imapx` | one connection | commands | a broken command may have had its effect; a SEARCH that lists what is gone |
| dry run | `syncer.go` dryRunFolder | none | preview | says what a run would do, by other code |
| OAuth login, option table, configuration, probe, reports | the rest | - | text and one-off exchanges | no interleaving; not modelled |

A run (`Run`) lists both accounts through the pools, plans pairs of folders, and
works on several folders at once. Each folder takes a source and then a
destination lease to diff (`prepareFolder`), gives them back, and then runs
fetchers on source leases and appenders on destination leases, joined by a
channel and a byte budget (`copyFolder`). Every row of the database is written by
the worker that moves its message. The next run reads those rows.

What makes each part correct:

* pool: tokens are conserved, a connection has one user, the cap holds, Close
  leaves nothing behind, every Acquire returns;
* copying: a row that says done is backed by a copy, no crash makes a second
  copy, a folder is skipped only when nothing is left, everything is copied in
  the end;
* fast path: a skipped folder is really mirrored, even if the destination was
  renumbered or emptied;
* pipeline: no set of folders, widths and budget deadlocks;
* deletion: nothing the source still holds is deleted, and what may be skipped
  owes no deletion;
* dry run: what a run then does was announced;
* local store: no UID ever stands for two messages, every accepted message
  survives a crash;
* a run: it copies what the options ask for and nothing else, gives up only when
  it has to, and its report can be believed;
* credentials: of many workers that meet one expiry, one mints.

## Modules

| module | models | lines of code it stands for |
|---|---|---|
| `ConnPool` | the connection pool | `internal/pool/pool.go` 171-680 |
| `ConnLeases` | what the pool promises: exclusive leases, at most Cap, none after Close | comments of Acquire, Release, Close |
| `MCConnPool` | instances for TLC | |
| `ConnPoolProofs` | theorems of ConnPool, for any Cap, any finite set of workers and connections | |
| `MessageCopy` | one folder copied over many runs | `syncer.go` prepareFolder to syncFolder, `state.go` rows |
| `CopyLedger` | what the database promises: settled only if on the destination, and for good | |
| `MCMessageCopy` | instances for TLC | |
| `MessageCopyProofs` | theorems of MessageCopy, for any messages, attempts, failures and crashes | |
| `FolderPipeline` | several folders copied at once: leases, budget, channels, workers | `syncer.go` Run, pass, prepareFolder, copyFolder, fetchChunk, fetchOne, deliver, resyncFlags; `budget.go` |
| `MCFolderPipeline` | instances for TLC | |
| `FolderPipelineProofs` | the channel of fetched messages, for any folders and workers | |
| `FolderFlowProofs` | leases, messages in flight and the byte budget, for any folders, workers, sizes and budget | |
| `Sums` | what the sum over a finite set is, proved without a recursive operator | |
| `FolderMirror` | one folder and its copy over many runs, while others change both | `syncer.go` canSkip to syncFolder, dryRunFolder; `dedupe.go`, `internal/dedup`, `state.go` |
| `MCFolderMirror` | instance for TLC | |
| `FolderMirrorProofs` | theorems of FolderMirror, for any messages, contents, strangers, options and number of troubles | |
| `LocalFolder` | one folder of a local store | `localstore/folder.go`, `store.go`, `conn.go` |
| `MCLocalFolder` | instance for TLC | |
| `LocalFolderProofs` | theorems of LocalFolder, for any connections, messages, sessions and troubles | |
| `FolderPlan`, `MessageSelection`, `SearchKey` | the plan, the filter and the search, as operators | `folder/plan.go`, `selection.go`, `searchkey.go`, `localstore/search.go` |
| `RunControl` | a run from its options to its report; uses the three above | `syncer.go` Run, pass, health; `retry.go`, `token.go`, `credential.go`, `client.go` Dial |
| `MCRunControl` | accounts for TLC | |
| `RunControlProofs` | theorems of FolderPlan, SearchKey and RunControl | |

### ConnPool

A worker is one goroutine that calls Acquire and then Release, again and again;
`pc` says where it is. A section under `p.mu` is one action (`CountDial`,
`Shrink`, `Discard`, `Release` for put's section, `PayDebt`, `Grow`), so is each
channel operation (`ReceiveToken`, `ReturnToken`, `DrainToken`) and each network
call (`DialAccepted`, `DialFails`, `SelectSucceeds`, `SelectFails`, `CloseConn`).
`tokens` is the length of the channel, `debt` the tokens the governor still
wants back. `attempt` tells the three ways through `ready` apart: a fresh
connection, a reused one, and the second attempt after a reused one failed.
Close is one more process (`BeginClose` to `LogoutAll`); a second call of Close
returns at once without waiting for the first and changes nothing.

The clock is three Booleans, the only comparisons the code makes of it. A failed
dial stands for a refusal, a network error or a cancelled context, as the code
does not tell them apart. `trimIdleLocked` finds nothing to trim at its one call
site, because the width has just been set to `open`; it has no action. The
UIDVALIDITY a connection remembers from its last SELECT is `LeaseNumbers` of
FolderMirror. Holders that SELECT on a lease themselves (prepareFolder,
sourceFlags) do not tell the pool, and that is left out here.

Decisions (`NeedsSelect`, `Discards`, `Owes`, `MayGrow`, ...) are operators of
their own; before each stands a faulty variant, used to see that the properties
notice it.

### MessageCopy

`row`, `dstUID`, `mark` and `finished` are the database and survive a run;
`phase`, `step`, `free`, `bodies` and the rest are locals of a run and vanish
when it dies (`RunStops`, possible in any state of a run). `dest` is the
destination mailbox, the message behind each UID. Each statement to the database
and each command to a server is an action, so a crash falls between any two.
Fetchers and appenders are concurrent, so messages advance in any order.

The header digest, the Message-ID and the stamp are one `Identity`; `Weak`
messages are those whose header identifies nothing. `AppendBreaks` is the lost
connection: the message was stored or was not, and the worker does not know.
A retry pass of the same run (`Run` calls `pass` twice) is, for one folder, one
more run, and that is how it is modelled. Not in this module: chunks and the
byte budget (FolderPipeline), the filter (RunControl), renumbered mailboxes,
deletions, and a destination that others change (FolderMirror). A message that
arrives late is new to the row table (its UID was never used), as IMAP demands. A broken APPEND that the
server completes only after the search that follows it is not modelled: no
search could rule that out.

### FolderPipeline

What MessageCopy leaves out: how the goroutines of several folders pass messages
on and what they hold meanwhile. `main` is where `syncFolder` is for a folder; a
worker or a folder that needs a connection first waits at a step
(`WantsSource`, `WantsDest`), and is in `srcHeld` or `dstHeld` while it has one.
`flow` holds the channels of `copyFolder`: chunks not handed out (the producer),
`pending`, whether it is `sealed` (closed), and whether the error group is
`broken`, which cancels its context. `fetcher` and `appender` are the workers
with what is in their hands. The budget is `used` and the `queue` of
`semaphore.Weighted`, which serves its waiters in order.

A pool gives out at most its width of leases, one holder each; that this is what
the pool does is the subject of ConnPool. Retries are a choice after each
failure, and `MaxFaults` bounds the failures; a call whose context has ended may
still succeed, or fail without counting. The caller or the health ceiling may
interrupt the run in any state. The visits after the copy (flags, deletions,
duplicates) are modelled by the leases they take, in that order; what they
write is in FolderMirror. The rate allowance only delays and is left
out, and so are messages dropped by the filter or found missing among the
headers, which never enter the pipeline.

### FolderMirror

What MessageCopy holds still: here both mailboxes change under the program, are
renumbered or made again, between runs and in the middle of one. A message gets
across in one step, or is abandoned; all the rest of `syncFolder` is there, one
action per statement to the database or command that matters: `Plan` (the
listing, the options, and the dry run of the moment), `SkipFolder`, `Prepare`
with the fence, `Recover`, `Verify`, `Diff`, the copy, `SettleDuplicates`,
`StoreFlags`, `Condemn`, `Expunge`, `Forget`, `FindDuplicates`,
`RemoveDuplicates`, `MarkSynced`. `p` is `prepared`, what the run saw at its
SELECT and goes on believing; `mirror` is the map it loads once and uses to the
end. The database is `row` and `folder`; `mark` and `deleted` are its two
watermarks. `Dedup` is the command that removes duplicates without a source.

Others may `Arrive`, `ExpungeSource`, `Reflag`, `RenumberSource` at one end and
`AddStranger`, `RemoveCopy`, `ReflagCopy`, `RenumberDest`, `RecreateDest` at the
other, each time at the cost of a trouble, as do a failure and a run that dies
(`RunStops`, `StoreThenStops`). A SEARCH may list messages that are gone or miss
some that are there (`Searches`); `AllUIDs` detects it by counting and walks the
mailbox instead. A SEARCH that errs both ways, so that the count is right, is
believed by the code and not modelled. The number a lease shows is that of now,
or, on an idle connection that `ready` hands out without a SELECT (pool.go:343),
that of the time the run prepared the folder (`LeaseNumbers`); `NumberingHolds`
is what `checkNumbering` makes of it. Such a connection goes on serving the
numbering it selected, so a message copied through it is copied under the number
of the rows. It may also remember an older number, from a pass before: then the
folder is stopped although nothing was renumbered, which `RunStops` covers. The
check is made once per lease in the code and at each message here, so the model
may stop earlier than the code. History variables say what others did (`removed`, `loose`)
and what the program is known not to survive (`shifted`, `torn`); a property
that speaks only where they are false says so. `torn` is also set when a run
dies with duplicates left to remove, which no row names any more, and when a
message that only looks like another is taken for its copy. `preview.sure` says
that no message was in flight when the dry run looked; `PreviewCovers` promises
nothing otherwise.

Numbers grow by one where the code takes what a server gives; modification
sequences are compared and never computed. A destination that exists and cannot
be selected counts as existing. `--noresyncflags` is left out.

### LocalFolder

Directory, database and memory apart: `files` and `foreign` are the directory,
`db` the database file, `unlinked` one that was replaced while it was open,
`handle` the folder the store shares among its connections, `mine`, `found`,
`known` and `job` what a connection holds while it opens or appends. Claim,
persist, rename and insert are four steps of an append, since the folder's lock
covers only the first; scan, adopt, read, commit, raise and register are the
steps of opening, since the store's lock covers none of them. The process may
crash in between. Files are dropped in under a name of their own (`DropIn`) and
taken away at any time. At rest the database may be lost, damaged or replaced by
a backup, and a file may be put there under a number (`DropNumbered`).

Assumed: between two runs the clock moves past every UIDVALIDITY the earlier run
has seen (`TimePasses`), since `newUIDValidity` counts on past the clock. A
backup may be restored whatever has happened since; raising the next number
heals it by the files that are there (`Healable`), and where a later message has
been removed it heals nothing (`lagged`). A file is put there under a number only
while no session is open: a hand that takes the very name an append is about to
use is left out.

### FolderPlan, MessageSelection, SearchKey

Pure functions of the program as operators. A folder name is a sequence of
words, so prefixes, parents and delimiters are operations on sequences; a word
that contains the other side's delimiter is in `Dotted`. A filter is a record of
bounds with zero for none, as in the code. A search is a sequence of words;
criteria are the record of the library with its zero for "no bound" and its
nested lists, `Smaller`, `Later`, `Earlier` and `And` merge them as the code
does, and `Parser` is the recursive descent as a function of what is left.
Beside it stands `Meaning`: what a sentence selects, defined by sets of UIDs and
by every way of splitting the sentence, without criteria.

### RunControl

From the options to the report. `ReadSearch`, `ResolveFilter`, `PlanRun`,
`CreateNext` and `StartPass` are `Run` up to its passes; `NextFolder`,
`LaunchFolder` and `EndPass` are `pass`, with `Width` folders in flight. A
folder is a worker with a `step` (prepare, meta, copy), a `link` (from none over
login, renew and again to up), its messages and what it blames. Every failure
goes through `Classify`, an ordered list of questions asked of a set, because a
wrapped error may answer several; `Decide` is what fetchChunk and chunkMeta do
with the verdict; `Trouble` and `GiveUp` are the two critical sections of
`health.trouble`, so another worker may come between them. `Secret` and
`Refresh` hold the credential's lock while the minting command runs, so each is
one step; a mint may fail, or repeat a dead token.

## What the runs check

| run | bounds | properties | states |
|---|---|---|---|
| `pool` (`ConnPool.cfg`) | 3 workers, 3 connections, 1 mailbox, Cap 3, 1 fault | type invariant, `TokensConserved`, `Exclusive`, `CapRespected`, `OpenNeverUndercounts`, `ClosedHoldsNothing`, `LeaseHasMailbox`, `SendsNeverBlock`, `KeepsPromise` | 772,400 |
| `pool_live` | 2 workers, 2 connections, no mailbox, Cap 2, 2 faults, fair | `AcquireReturns`, `CloseReturns` | |
| `pool_open` | Cap 2, 2 faults | `OpenIsExact`, violated | |
| `copy` (`MessageCopy.cfg`) | one message twice (the second late), one weak; 2 attempts, 1 crash, 2 faults, 1 expunge | `DoneMeansCopied`, `NoSecondCopy`, `WatermarkHonest`, `KeepsLedger` | 1,030,634 |
| `copy_live` | two different weak messages, one late message the destination already holds; 1 crash, 2 faults, fair | `EventuallyCopied` | 321,532 |
| `copy_abandon` | 2 faults, no crash | `AskedFirst`, violated | |
| `copy_shared` | two messages, one Message-ID; 1 crash, 1 fault | `DoneMeansCopied`, violated | |
| `pipeline` (`FolderPipeline.cfg`) | folders of 3 and 1 messages, chunks of 2, 2 fetchers and 1 appender each, both pools 1 lease wide, budget 2 for sizes 0, 1, 2 and 5; 1 fault, 1 interrupt, fair | `BudgetConserved`, `MemoryBound`, `NoRefetch`, `NoSendOnClosed`, `NothingDropped`, `NothingLeftBehind`, `RunEnds` | 909,087 |
| `mirror` (`FolderMirror.cfg`) | one message twice, one other, one late and filtered out; 2 strangers, one of which looks like a source message; one thin message on the destination from the start; plain, `--delete2` and complete runs; 2 troubles, fair | type invariant, `ClaimsHonoured`, `NoSecondCopy`, `NothingOwed`, `FlagsFollow`, `PreviewCovers`, `SkipsInStep`, `NeverDeletesHeld`, `AdoptsOnce`, `EndsInStep` | 849,613 |
| `mirror_skip` (`FolderMirrorSkip.cfg`) | as `mirror` | `AlwaysTriedAgain`, violated | |
| `local` (`LocalFolder.cfg`) | 2 connections, 2 messages to append, 1 dropped in, by name or under number 2; 3 sessions, 2 troubles | `NothingLost`, `NumberNamesOne`, `EveryFileHasRow` | 7,098,451 |
| `control` (`RunControl.cfg`) | every source tree of up to 3 of 6 mailboxes on every destination of up to 4, under 5 sets of options; 8 filters with 3 limits; all searches of 3 pieces from 26 and of 4 from 10; 2 or 3 folders, 2 in flight, 2 attempts, a ceiling of 3, 3 tokens, up to 4 troubles | `PlanHonoured`, `ReportTells`, `SelectionHonoured`, `MintsOnlyRefused` | 1,321,393 |

Three workers are the fewest with which one shrinks the pool while a second
holds a lease and a third dials; with Cap 3 the width falls from 3 to 1 in one
refusal, so a debt of two arises. Workers and connections are symmetric. One
mailbox is enough, since a lease either names the selected one or not. In the
safety run one fault suffices for a refusal or a failed SELECT, and two are
allowed in the runs with two workers, which also check a refusal during the
second attempt. For the copy, two faults are what one message needs to use up
both its attempts; one crash, at any point, is followed by a run that recovers
and, because failures keep the watermark back, by another. The properties speak
of a crash between two steps, so a second crash adds a repetition and no case.
In the pipeline a folder of two chunks is what it takes for one fetcher to fail
while another goes on; the second folder competes for the same leases and bytes
in every phase. The message of size 5 is larger than the budget and the one of
size 0 is charged a byte. One fault suffices to fail a worker, a retry or a
folder anywhere, and a failed folder is run a second time.

For the mirror two troubles are what it takes to interrupt the repair of the
first: a renumbering and a death, a removal and a failure. The repeat makes two
claims on one copy, the stranger that looks like a source message is what
deletion must not trust, the filtered message keeps the watermark back. Nothing
in the properties depends on a third message of a kind. In the local store two
connections and two messages are the fewest that can persist their numbers out
of order, and three sessions let a damaged or restored database be opened,
repaired and opened again. In `control` four troubles are an expiry and the
three failures of the ceiling; two attempts are one retry.

Deadlock is checked in the passing runs of the pool, the copy, the mirror and
control, where something can always go on. A pipeline stops when its run is
over; that it stops nowhere else is `RunEnds`. The local store stops when its
sessions are used up.

### Fairness

Pool: a goroutine that can run does; a lease is released in the end (callers
defer Release); the waiters of a Go channel are served first come first served,
which gives strong fairness to a worker that waits for tokens, and to Close. A
dial is not promised to succeed. Copy: a run that is going goes on (weak
fairness of each message's steps and of the end of the run), and the folder is
run again as long as its watermark is behind, which is what an unattended sync
is for. No fairness is given to arrivals, expunges, faults or crashes. Pipeline:
weak fairness of all work together, the least there is: some goroutine that can
run does, and a command ends or fails, since commands carry a timeout. Whether
the run is interrupted is left open. Mirror: a run that is going goes on (weak
fairness of `RunGoesOn`), and a complete run, one with `--full`, `--delete2`,
duplicates removed and the ceiling lifted, is started again and again; strong
fairness, because it can start only between runs. In those runs the listing
tells the size of the destination (`Plan(Complete, TRUE)`), as a server does that
answers LIST-STATUS or STATUS. No fairness is given to what others do.
`LocalFolder` and `RunControl` state safety only; that a run ends is
`FolderPipeline`'s.

### What the violated runs show

* `pool_open`: `ready` closes a freshly dialled connection that failed its
  SELECT and returns without `discard` (pool.go:365-367), so `open` stays one too
  high, which the comment on `discard` (386-388) means to exclude. The pool
  parks one connection fewer and judges refusals against a count that is too
  high; `OpenNeverUndercounts` shows the error is to one side only, and the
  proofs that nothing worse follows from it.
* `copy_abandon`: `deliver` gives a message up after its last attempt before it
  asks the destination (syncer.go:2782), so a message whose last append landed is
  `failed`, which recovery does not look at, and is appended again later.
* `copy_shared`: `recover`, `deliver` and `settle` take the newest match without
  asking whether its UID is claimed, unlike adoption. Two messages that share a
  Message-ID can then stand on one copy, and the second is lost.
* `mirror_skip`: `verifyClaims` drops the rows of copies that were removed at the
  destination (syncer.go:1772) and leaves the watermark. If copying such a
  message again fails, `MarkSynced` keeps the watermark of the earlier run
  (state.go:324), which the source still shows; the claims no longer outnumber
  the destination, and the next run skips the folder with the message `failed`.
  The program's README (485-487) says that a message that could not be copied is
  always tried again. It is, once the source changes or `--full` is given
  (`EndsInStep`). Where nothing was removed the skip is sound (`SkipsInStep`).

`NoSecondCopy` therefore excludes messages a failed search was about and messages
given up without asking, and `EventuallyCopied` is checked where no two messages
are the same bytes (see the first point below).

### What the models show and no property claims

Writing `FolderMirror`, `LocalFolder` and `RunControl` showed behaviours that
limit what can be claimed. Each is in the model; the property that meets it
excludes it by name.

* The repeats of a survivor whose UID stayed unknown are left in flight "for the
  next run" (syncer.go:1211-1236), but nothing keeps the watermark back and the
  next run skips the folder. No content is lost (`DoneMeansCopied` and
  `WatermarkHonest` hold in `copy`); the rows stay unsettled, and the message is
  appended again when the folder changes.
* A destination renumbered in the middle of a run: `condemned` puts the new
  mailbox into `p.dst` after the mirror map was loaded (syncer.go:2161-2166), so
  STOREs and deletions go to other messages (`shifted`, `torn`). Complete runs
  repair it (`EndsInStep`).
* A run that dies after its fence has fallen: the next one finds a fence that
  holds and a folder that has finished once, makes no index, and copies what it
  should adopt (`torn`).
* A destination made again while the source does not change: no claim is on
  record under the new number, `ClaimedCount` is zero, and `canSkip` passes the
  folder over until the source changes or `--full` is given.
* Messages that a filter or search leaves out have no row, so `--delete2` takes
  their copies for strangers and deletes them (`Excluded` in `NeverDeletesHeld`).
* Adoption records the flags of the source without storing them at the
  destination, and a run that dies between STORE and RecordFlags may find the
  flag changed back; either way row and source agree and nothing is stored
  (`loose`).
* `sourceFlags` selects the source again and does not ask for its number.
* Two different messages with one identity: adoption and verification may settle
  on the lookalike, by design; `NeverDeletesHeld` and `InStep` speak of
  identities, not contents, where only headers are read.
* Local store: a database is made with the number 1 beside files that have
  numbers (`Open` makes that of the INBOX and opens no folder), and a dry run
  lists those files under the new UIDVALIDITY before any run has raised it. If
  the newest is then removed, its number goes to another message (`lagged`). A
  dry run records nothing, so nobody is misled by it.
* Local store: `claim` writes `uidnext` outside the lock under which it took the
  number (folder.go:463-471), so of two appends the slower may write the smaller
  value last. The run ends in good order, the newest message is removed by hand,
  and the next run finds no file above the value on disk: it gives the number to
  another message within the same UIDVALIDITY. TLC finds this when
  `NumberNamesOne` is checked without its exclusion of what follows such a run
  (`lagged`), with three messages, two sessions and one removal.
* Local store: the comment on `raiseUIDNext` says that raising the next number heals a
  stale database (folder.go:441-443). It does so by the files: if the newest
  message was removed after the backup was made, its number is handed out again
  under the restored UIDVALIDITY (`lagged`). The same goes for a file put there
  by hand under a number that had been another's.
* Local store: while a connection opens a folder, another may register it and
  hand out a number; if a file is dropped in meanwhile, the opener finds it in
  its scan and renames it onto that number (folder.go:373-388, store.go:163-190),
  so one of the two is written over. The three properties exclude what follows such
  a drop (`crossed`).
* Local store: of two connections that open a folder at once, the later one
  drops the rows of what was appended since its scan (`blemished`). An
  append that fails at its row has left the file behind, though it says it failed.
* Control: a caller that cancels makes the workers in flight count their
  failures, and the run may report that it gave up. A dial that times out is
  classified as the end of the context, so its folder gets no second pass. The
  failed resolution of a credential is kept for every later dial (`Resolve`).
* The UID set `*` by itself, which the parser spells as zero, matches no message
  of a local store; the searches checked have `n:*` ranges only. A date of
  1 January of the year 1 is no bound; days start at 1.

## What is proved

`ConnPoolProofs` proves for every Cap, every finite set of workers and
connections and any number of faults, from `PoolAssumption` alone:

* `PoolInvariant`: `Spec => []IInv`. None of the invariants below is inductive by
  itself: that tokens are conserved says nothing of how many a worker may hold
  while `Close` counts, and that the cap holds depends on every user of a
  connection holding a token. `IInv` adds what each program point may rely on:
  which connection a worker holds there, that `debt` and `toDrain` are within
  what circulates, and that a shut pool has drained.
* from it `TypeCorrect`, `TokensAreConserved`, `CapIsRespected`,
  `LeasesAreExclusive`, `OpenIsAnUpperBound`, `IdleStaysWithinWidth`,
  `LeasesHaveTheirMailbox`, `ClosedPoolIsEmpty`, `NoSendBlocks`;
* `PoolKeepsPromise`: every behaviour of ConnPool is one of ConnLeases, under
  the refinement mapping that shows a lease while its worker is at `leased`.

The proof has one lemma per action; steps that move a worker between two
program points share lemmas on the cardinality of the sets of workers at a point.

`MessageCopyProofs` proves of one folder, for any finite set of messages, any
number of attempts, faults, crashes and runs:

* `BaseInvariant` and `TypeCorrect`, from `CopyAssumption` alone. `BaseInv` adds
  to the types what a program point owes the database: from `BeginAppend` on the
  row says in flight (`RowsFollow`), nothing is copied while suspects are left
  (`RunShape`), a message found gone is never listed again (`GoneForGood`).
* `DoneIsCopied`, `WatermarkIsHonest` and `CopyKeepsLedger` (the rows implement
  CopyLedger), if no two messages that can be searched for share an identity and
  differ (`IdentityTellsApart`, a condition on the mail; `copy_shared` shows that
  it is needed). None of them is inductive: `DoneMeansCopied` needs that a
  message about to be recorded has landed (`LandedInHand`), which of a repeat is
  true only because its survivor is a body that this run has read
  (`DupsHaveSurvivor`, `BodiesServed`); the watermark needs `RunEarnsMark`, that
  as long as the source has not changed whatever the run is through with has
  landed or set `failed`.
* `NobodySendsTwice`: no second copy, if the destination held nothing
  identifiable before the first run (`NothingToAdopt`, true of the instance
  `copy`). Mail that somebody else put there would have to be adopted, and the
  index is made only until a run has once finished: a folder that finished with
  an empty source copies what arrives later beside what was there.
  `SentOnce` is inductive: a message that has landed has landed once, and its
  row, the running attempt or the recovery of the next run still knows.
  `IdentityTellsApart` is not needed here.

`FolderPipelineProofs` and `FolderFlowProofs` prove from `PipelineAssumption`, for
any folders, sizes, widths, budget and numbers of workers, in both passes:

* `NobodySendsOnClosed`: a fetcher at its send says nothing of the others;
  inductive is that a closed channel has no fetcher that has not returned
  (`ClosedMeansReturned`), which needs that a folder with nothing to copy, whose
  channel counts as closed, starts no fetcher (`NoChunksNoFetchers`).
* `FolderLeavesNothing`, from `PlaceInv`: a lease is held only by
  who is at a step that needs one (`Leases`), only a fetcher that waits for bytes
  is in the queue, once (`Queued`), what a worker has in hand fits its step (`Hands`), and a folder not
  in copy has no worker (`OnlyCopies`).
* `NobodyFetchesTwice`, from `FlowInv`: unread chunks, fetchers, channel and
  appenders hold disjoint sets of messages (`Apart`), chunks cut a list without
  repetition (`Ordered`, with `ChunksCut` on the cutting and `CopyList` on the
  list), and nothing done is still to be fetched (`Fresh`).
* `NobodyDropsMessages`, from `SettleInv`: while a copy goes well every message
  is settled or in somebody's hands (`Accounted`), a worker that gave up shows in
  the error group (`Shows`), and as long as there is something to do somebody is
  there to do it (`Served`).
* `BudgetIsConserved` and `MemoryIsBounded`, from the two disjointness results:
  a step adds a message to memory where it charges and removes one where it
  refunds; a message larger than the budget is charged all of it, so it is alone.
  Sums over sets of messages are taken apart in `Sums`, where the function behind
  the library's fold is shown to exist and to ignore the order, by the least
  counterexample in place of induction over an operator.

`LocalFolderProofs` proves of a local folder, for any connections, messages,
sessions, damages and restored backups:

All three hold unless a file was dropped in while the folder was being opened,
and are proved from invariants of the form `crossed \/ ...`, since what was
crossed stays so.

* `NothingIsLost`, from `LocalInv`: a number in a connection's hand is taken by no
  file and no other hand and below the next one (`Numbers`), so a rename never
  lands on a message; while the folder opens, that holds because the opener's
  scan is up to date or it will fail at a file somebody else adopted
  (`OpenersAgree`, `Adoption`).
* `EveryFileKeepsItsRow`, from `Rows`: as long as no two connections opened the
  folder at once, every file has a row or its insert is next.
* `NumbersNameOne`, from `Numbering` and `NamesInv`. What was ever shown under a
  UIDVALIDITY must be true of the files that are there and below the next number
  of whoever will hand out numbers under it (`TrueTo`): the database at rest, each
  connection while it opens the folder, the store's handle once it is open. Only
  a restored backup that can be healed may be behind, and then the files
  themselves stand above it.
  A number in hand was never shown, and of the databases made while the folder
  was being opened nothing was (`OpenersTrue`), because `newUIDValidity` is above
  every number on record (`Past`). When a run ends, what holds of its handle
  passes to the disk unless the number there is behind, which is `lagged`. The
  attempt to prove it refuted an earlier form that held on the instance of
  `local` only: it did not exclude the dry run described above, which takes four
  sessions and three troubles to show.

`FolderMirrorProofs` proves of a folder and its copy, from `MirrorAssumption`
alone, for any finite set of messages, any contents and identities, any options,
and any number of failures, deaths of a run and changes by others:

* `MirrorTypeSafety`. Everything below rests on `Base`, which adds to the types
  that what the database keeps is of one numbering of the source and of at most
  the present one of the destination, and which of the two a running fence has
  seen (`Numberings`); that a recorded UID was issued (`BelowNext`); that a
  message that has yet to arrive has left no row, and one found gone is not
  listed again (`Seen`); that what a run still has to copy is settled nowhere,
  and a repeat has a survivor with a row (`Copying`); that the index of the
  destination names what is there (`IndexTrue`).
* `ClaimsAreHonoured`, from `ClaimInv`. That no row names a copy the program
  removed depends on what it is about to remove: the condemned are claimed by
  nothing the source holds (`DoomedUnclaimed`), which holds because they were
  picked with the map of rows loaded before the flags were stored, and that map
  differs from the database only by repeats settled since (`MirrorTrue`).
* `CopiesAreAdoptedOnce`, the action property `AdoptsOnce`, from `IndexFree`: the
  index offers each copy once and none that a row of this numbering claims. That
  is so when it is built, a copy adopted leaves it, and what is appended was never
  in it.
* `NothingIsPassedOver`, from `MarkInv`: while the watermark is the source's and
  the destination is the one the fence saw, all that is listed is claimed
  (`MarkCovers`). The run that moves the watermark has claimed what it listed
  unless it failed or the source changed since its SELECT (`RunCovers`), and one
  that leaves a message out by filter or search moves nothing (`Unfiltered`). A
  destination renumbered under a run is not the one on record any more
  (`ShiftedApart`).
* `NothingHeldIsDeleted`, the action property `NeverDeletesHeld`, from
  `SpareInv`: a claim is on a message of the same identity (`ClaimsAlike`), a
  run that reaches deletion has failed at nothing (`NoFailure`) and so has a
  claim for all it listed (`AllClaimed`), and of each group of duplicates one
  stays (`TwinStays`).
* `NothingIsOwed`, from `Watermarks` and `Owed`: neither watermark is ahead of
  what the run saw, and the run that moves the deletion watermark has cleared
  the claims of what is gone since its fence, unless the source changed
  meanwhile, in which case the watermark stays behind.
* `FlagsAreFollowed`, from `FlagInv`: a row has the flags of its copy
  (`CopyAsRecorded`), two messages that share a copy are set apart
  (`SharedLoose`), and a row is up to date to the watermark, or its change is
  still on the run's list (`RowsCurrent`).
* `PreviewHolds`, from `Calm` and `AsPlanned`: what the preview announced still
  holds at each step up to the copy, and a copy on the destination without a
  claim, or with one whose message is gone, is announced or has somebody to keep
  it for (`StrangersForetold`, `VanishedForetold`).

TLC checked these invariants on the instance of the run `mirror` before they
were proved. Two of them corrected the model: the preview must not promise
anything while a message is in flight, and a run that dies before it removes its
duplicates leaves copies that no row names.

`RunControlProofs` proves, for any accounts, folders, ceiling, attempts, tokens
and errors, from `ControlAssumption`, `AlphabetAssumption` (no component stands
twice in the order of strings), `ErrorsAssumption` (no error is empty, and only
the limiter speaks of the rate) and `AccountsAssumption` (listings are finite,
and what names a mailbox is made of components):

* `NothingIsMerged`: no plan a run carries out sends two source mailboxes to one
  destination. A plan is built once, and `Build` refuses a collision however
  mappings, prefixes and roles brought it about.
* `RenewedOnlyWhenRefused`: `Spec => MintsOnlyRefused`. Inductive is
  `RefusedInv` (`RenewalFollowsRefusal`): a worker that asks for a better token
  holds one the server has refused. Every action that moves a worker has a lemma.
* `PlanIsHonoured`, from `Creating`, a part of `Control`: what is still to be
  created comes after those of its parents that are missing, and every
  destination of the plan is there or still to be created; since workers exist
  only in a pass (`Workers`) and a pass starts when nothing is left to create,
  no worker is early. That the list starts like that rests on
  `PlannedCreates`: the mailboxes found missing are finitely many and closed
  under missing parents (`NeededIsClosed`), names are totally ordered
  (`NamesAreOrdered`), and a finite set listed in a total order has each element
  once and after those before it (`InOrderLists`).
* `ReportCanBeBelieved`, from `Workers`, `Health` and `Passes`. None of its parts
  is inductive. That a verdict was earned needs that, while the run lives, the
  shared count is the true one although another worker may succeed between the
  two critical sections of `trouble` (`Health`: a worker in doubt has met the
  ceiling, whatever the count says by the time it gives up). That nobody is
  blamed for the end needs that an error of the context is asked about before
  any other (`ContextStops`), and that a wait the limiter refuses is marked as
  one (`Candid`). The second chance needs that a folder that waits is in the
  queue as long as the run lives, and how many passes each step of a worker
  implies (`Passes`). TLC checked the parts of `Control` on the instance of the
  run `control` before they were proved (`ControlHolds`).
* `RowsIntersect`: two criteria in a row select exactly what both of them
  select, for every message and all bounds: `And` erases no bound and invents
  none, the fault of the library that the comment on `and` describes.

Only proved, since the runs keep to what is harder to see: `IdleStaysWithinWidth`
of the pool, the types of MessageCopy, and those of the pipeline and the local
store, as parts of `PlaceInv` and `LocalInv`.

Only model-checked:

* liveness (`AcquireReturns`, `CloseReturns`, `EventuallyCopied`, `RunEnds`,
  `EndsInStep`): out of this prover's reach under fairness;
* `SelectionHonoured`, which compares what the recursive parser makes of a
  sentence with its meaning;
* `NoSecondCopy` of FolderMirror: it compares the number of copies with the
  number of messages, so its invariant must pair every copy of a content with a
  message of its own through rows, index, bodies and repeats, and it holds only
  if what others put on the destination is none of the source's contents, which
  the instance satisfies and `MirrorAssumption` does not ask.

## Plan

Written: all the modules above. Left: `NoSecondCopy` of FolderMirror, on the
assumption that strangers and what was there before carry no content of the
source.

## Not modelled

* Option translation (`internal/compat`) and configuration: text into settings,
  once, before a run. Tests list the tables.
* OAuth login and exchange: a sequential exchange in a process of its own; a run
  sees only the token, which RunControl mints.
* The probe and the documentation generator: tools beside the sync.
* Reports, progress figures, trace and wire encoding, TLS: wording and bytes.
* Header parsing (`internal/ident`): data; an identity is a value.
* The rate allowance, but for a wait past the deadline: it delays and decides
  nothing else. The length of pauses, likewise.
* `dryRunDuplicates`, and a dry run with a search run at the destination.
* `--noresyncflags`; servers without a hierarchy delimiter.
* Opening and migrating the state database; SQLite itself: a statement happens
  or it does not.
* Names on disk, the listing and the header cache of the local store.
