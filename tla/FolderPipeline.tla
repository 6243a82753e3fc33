--------------------------- MODULE FolderPipeline ---------------------------
(***************************************************************************)
(* Several folders copied at once (internal/syncer/syncer.go: Run, pass,   *)
(* syncFolder, prepareFolder, copyFolder, fetchChunk, fetchOne, deliver;   *)
(* internal/budget/budget.go).  What is at stake is the flow: leases on    *)
(* two pools, a byte budget, a channel of chunks and a channel of fetched  *)
(* messages, and how they come apart when a worker fails or the run is     *)
(* interrupted.  What becomes of a message is left to MessageCopy, and     *)
(* with it the filter and messages found expunged among the headers.       *)
(*                                                                         *)
(* A pool is reduced to who holds a lease: what ConnPool shows of it is    *)
(* that a lease is exclusive and that Acquire returns.  The governor may   *)
(* have narrowed a pool, so there may be fewer leases than workers.        *)
(* How often a failure is tried again is a choice, bounded by MaxFaults.   *)
(***************************************************************************)
EXTENDS Integers, Sequences, FiniteSets, FiniteSetsExt, SequencesExt

CONSTANTS Folders,
          Todo,          \* the messages of each folder, in UID order
          Size,          \* RFC822.SIZE of each message
          ChunkSize,     \* copyChunk
          Readers,       \* as many as src.Cap(): folders at once, fetchers each
          Writers,       \* as many as dst.Cap(): appenders each, room in pending
          SrcWidth,      \* leases the source pool gives out
          DstWidth,      \* leases the destination pool gives out
          Budget,        \* bytes
          MaxFaults      \* bound: commands and connections that fail

Msgs == UNION {ToSet(Todo[f]) : f \in Folders}
SrcCap == Cardinality(Readers)
DstCap == Cardinality(Writers)

ASSUME PipelineAssumption ==
    /\ IsFiniteSet(Folders) /\ IsFiniteSet(Readers) /\ IsFiniteSet(Writers)
    /\ Folders \cap (Folders \X (Readers \cup Writers)) = {}
    /\ \A f \in Folders : Todo[f] \in Seq(Msgs)
    /\ \A f, g \in Folders : f # g => ToSet(Todo[f]) \cap ToSet(Todo[g]) = {}
    /\ \A f \in Folders : IsInjective(Todo[f])
    /\ \A m \in Msgs : Size[m] \in Nat
    /\ {ChunkSize, SrcWidth, DstWidth, Budget} \subseteq Nat \ {0}
    /\ SrcWidth <= SrcCap /\ DstWidth <= DstCap
    /\ MaxFaults \in Nat

Fetchers  == Folders \X Readers
Appenders == Folders \X Writers

VARIABLES
    main,     \* where syncFolder is, per folder
    again,    \* Run has started its second pass
    stopped,  \* the run's context has ended
    faults,
    srcHeld,  \* who holds a source lease: a folder or a fetcher
    dstHeld,  \* who holds a destination lease: a folder or an appender
    used,     \* bytes charged to the budget
    queue,    \* fetchers in semaphore.Acquire, first come first served
    flow,     \* copyFolder's channels: chunks not handed out, messages pending,
              \* whether pending is sealed, whether the error group is broken
    fetcher,  \* where each fetcher is and what is left of its chunk
    appender, \* where each appender is and the message in its hands, if any
    status    \* the row of each message

vars == <<main, again, stopped, faults, srcHeld, dstHeld, used, queue,
          flow, fetcher, appender, status>>

Ended   == {"ok", "failed", "skipped"}
Running == {"src", "dst", "index", "copy", "resync", "flags", "delete", "repeats"}
Over == {"returned", "gaveUp"}

-----------------------------------------------------------------------------
(* What the code decides, each decision after a faulty variant of it *)

\* Budget.Acquire charges at least one byte and at most the whole budget.
ChargesAll(m) == Max({Size[m], 1})
Charge(m) == Min({Max({Size[m], 1}), Budget})

\* semaphore.Acquire lets the first in the queue through once its bytes fit.
FitsAlone(w) == TRUE
Fits(w) == used + Charge(Head(fetcher[w].batch)) <= Budget

\* copyFolder refunds what was fetched and will not be appended.
LeavesRest(f) == {}
Leftovers(f) == ToSet(flow[f].pending)

Chunks(s) ==
    [i \in 1..((Len(s) + ChunkSize - 1) \div ChunkSize) |->
        SubSeq(s, (i - 1) * ChunkSize + 1, Min({i * ChunkSize, Len(s)}))]

\* fetchChunk tries again from the message that failed.
RestartsChunk(w) ==
    CHOOSE c \in ToSet(Chunks(Todo[w[1]])) : Head(fetcher[w].batch) \in ToSet(c)
Resume(w) == fetcher[w].batch

\* pending is closed when every fetcher of the folder has returned.
FirstIsEnough(f) == \E r \in Readers : fetcher[<<f, r>>].at \in Over
FetchersReturned(f) == \A r \in Readers : fetcher[<<f, r>>].at \in Over

\* fetchers.Wait reports that one of them failed.
DropsError(f) == FALSE
FetchersFailed(f) == \E r \in Readers : fetcher[<<f, r>>].at = "gaveUp"

\* g.Wait: the producer, the closer and every appender have returned.
AppendersLeft(f) == flow[f].sealed
CopyOver(f) ==
    /\ flow[f].chunks = <<>> /\ flow[f].sealed
    /\ \A a \in Writers : appender[<<f, a>>].at \in Over

\* What follows the copy gives each lease back before it asks for the next.
Released(f) == {f}

\* triage: what is not on the destination yet, as far as the rows say.
ToCopy(f, rows) ==
    LET left[n \in 0..Len(Todo[f])] ==
            IF n = 0 THEN <<>>
            ELSE IF rows[Todo[f][n]] = "done" THEN left[n - 1]
                 ELSE Append(left[n - 1], Todo[f][n])
    IN  left[Len(Todo[f])]

-----------------------------------------------------------------------------
Idle == [chunks |-> <<>>, pending |-> <<>>, sealed |-> TRUE, broken |-> FALSE]
NoBatch == [at |-> "returned", batch |-> <<>>]
NoItem == [at |-> "returned", item |-> {}]

Init ==
    /\ main = [f \in Folders |-> "waiting"]
    /\ again = FALSE /\ stopped = FALSE /\ faults = 0
    /\ srcHeld = {} /\ dstHeld = {} /\ used = 0 /\ queue = <<>>
    /\ flow = [f \in Folders |-> Idle]
    /\ fetcher = [w \in Fetchers |-> NoBatch]
    /\ appender = [a \in Appenders |-> NoItem]
    /\ status = [m \in Msgs |-> "none"]

\* gctx, the context of a folder's workers, has ended.
CtxDone(f) == stopped \/ flow[f].broken

\* A call fails: the server or the connection is at fault, or the context ended.
Fault == faults < MaxFaults /\ faults' = faults + 1
CallFails(ended) == Fault \/ (ended /\ UNCHANGED faults)

\* What to do about it: a cancelled context is never tried again, nor can a
\* message be recorded as failed under one.
Verdicts(f) == IF CtxDone(f) THEN {"give up"} ELSE {"give up", "skip", "retry"}

MoveMain(f, to) == main' = [main EXCEPT ![f] = to]
Drop(x) == srcHeld' = srcHeld \ {x} /\ dstHeld' = dstHeld \ {x}
Refund(ms) == used' = used - MapThenSumSet(Charge, ms)
Fetcher(w, to, batch) == fetcher' = [fetcher EXCEPT ![w] = [at |-> to, batch |-> batch]]
Appender(a, to, item) == appender' = [appender EXCEPT ![a] = [at |-> to, item |-> item]]
Mark(m, s) == status' = [status EXCEPT ![m] = s]

-----------------------------------------------------------------------------
(* The pools *)

WantsSource(x) ==
    \/ x \in Folders /\ main[x] \in {"src", "resync"}
    \/ x \in Fetchers /\ fetcher[x].at \in {"meta", "run"} /\ fetcher[x].batch # <<>>

WantsDest(x) ==
    \/ x \in Folders /\ main[x] \in {"dst", "flags", "delete", "repeats"}
    \/ x \in Appenders /\ appender[x].at \in {"append", "look", "find"}

LeaseSource(x) ==
    /\ WantsSource(x) /\ x \notin srcHeld
    /\ Cardinality(srcHeld) < SrcWidth
    /\ srcHeld' = srcHeld \cup {x}
    /\ UNCHANGED <<main, again, stopped, faults, dstHeld, used, queue, flow,
                   fetcher, appender, status>>

LeaseDest(x) ==
    /\ WantsDest(x) /\ x \notin dstHeld
    /\ Cardinality(dstHeld) < DstWidth
    /\ dstHeld' = dstHeld \cup {x}
    /\ UNCHANGED <<main, again, stopped, faults, srcHeld, used, queue, flow,
                   fetcher, appender, status>>

-----------------------------------------------------------------------------
(* fetchChunk, one of the fetchers w of a folder *)

\* The producer hands out the next chunk.
GetsChunk(w) ==
    LET f == w[1]
    IN  /\ fetcher[w].at = "draw" /\ flow[f].chunks # <<>>
        /\ Fetcher(w, "meta", Head(flow[f].chunks))
        /\ flow' = [flow EXCEPT ![f].chunks = Tail(@)]
        /\ UNCHANGED <<main, again, stopped, faults, srcHeld, dstHeld, used, queue,
                       appender, status>>

NoMoreChunks(w) ==
    /\ fetcher[w].at = "draw" /\ flow[w[1]].chunks = <<>>
    /\ Fetcher(w, "returned", <<>>)
    /\ UNCHANGED <<main, again, stopped, faults, srcHeld, dstHeld, used, queue,
                   flow, appender, status>>

\* chunkMeta, on a lease of its own.
ReadsHeaders(w) ==
    /\ fetcher[w].at = "meta" /\ w \in srcHeld
    /\ Fetcher(w, "run", fetcher[w].batch)
    /\ Drop(w)
    /\ UNCHANGED <<main, again, stopped, faults, used, queue, flow, appender, status>>

HeadersFail(w) ==
    /\ fetcher[w].at = "meta" /\ CallFails(CtxDone(w[1]))
    /\ \E verdict \in Verdicts(w[1]) \ {"skip"} :
          IF verdict = "retry" THEN Fetcher(w, "meta", fetcher[w].batch)
          ELSE Fetcher(w, "gaveUp", <<>>)
    /\ Drop(w)
    /\ UNCHANGED <<main, again, stopped, used, queue, flow, appender, status>>

\* fetchOne finds the message in the adoption index.
Adopts(w) ==
    /\ fetcher[w].at = "run" /\ w \in srcHeld /\ fetcher[w].batch # <<>>
    /\ Mark(Head(fetcher[w].batch), "done")
    /\ Fetcher(w, "run", Tail(fetcher[w].batch))
    /\ UNCHANGED <<main, again, stopped, faults, srcHeld, dstHeld, used, queue,
                   flow, appender>>

\* fetchOne records the message in flight and asks the budget for its bytes.
Begins(w) ==
    /\ fetcher[w].at = "run" /\ w \in srcHeld /\ fetcher[w].batch # <<>>
    /\ Mark(Head(fetcher[w].batch), "in_flight")
    /\ Fetcher(w, "charge", fetcher[w].batch)
    /\ queue' = Append(queue, w)
    /\ UNCHANGED <<main, again, stopped, faults, srcHeld, dstHeld, used, flow, appender>>

Charged(w) ==
    /\ fetcher[w].at = "charge" /\ queue # <<>> /\ Head(queue) = w /\ Fits(w)
    /\ queue' = Tail(queue)
    /\ used' = used + Charge(Head(fetcher[w].batch))
    /\ Fetcher(w, "body", fetcher[w].batch)
    /\ UNCHANGED <<main, again, stopped, faults, srcHeld, dstHeld, flow, appender, status>>

ReadsBody(w) ==
    /\ fetcher[w].at = "body"
    /\ Fetcher(w, "send", fetcher[w].batch)
    /\ UNCHANGED <<main, again, stopped, faults, srcHeld, dstHeld, used, queue,
                   flow, appender, status>>

\* The message is gone from the source, or repeats one already fetched.
NothingToSend(w) ==
    LET m == Head(fetcher[w].batch)
    IN  /\ fetcher[w].at = "body"
        /\ Refund({m}) /\ Mark(m, "done")
        /\ Fetcher(w, "run", Tail(fetcher[w].batch))
        /\ UNCHANGED <<main, again, stopped, faults, srcHeld, dstHeld, queue, flow, appender>>

Sends(w) ==
    LET f == w[1]
    IN  /\ fetcher[w].at = "send" /\ Len(flow[f].pending) < DstCap
        /\ flow' = [flow EXCEPT ![f].pending = Append(@, Head(fetcher[w].batch))]
        /\ Fetcher(w, "run", Tail(fetcher[w].batch))
        /\ UNCHANGED <<main, again, stopped, faults, srcHeld, dstHeld, used, queue,
                       appender, status>>

\* fetchRun fails anywhere: what was charged is refunded, the lease goes back,
\* and fetchChunk decides what to do about the message it was at.
FetchFails(w) ==
    LET f == w[1]
        m == Head(fetcher[w].batch)
    IN  /\ fetcher[w].batch # <<>>
        /\ \/ fetcher[w].at \in {"run", "body"} /\ CallFails(CtxDone(f))
           \/ fetcher[w].at \in {"charge", "send"} /\ CtxDone(f) /\ UNCHANGED faults
        /\ IF fetcher[w].at \in {"body", "send"} THEN Refund({m}) ELSE UNCHANGED used
        /\ queue' = RemoveFirst(queue, w)
        /\ Drop(w)
        /\ \E verdict \in Verdicts(f) :
              \/ /\ verdict = "give up"
                 /\ Fetcher(w, "gaveUp", <<>>) /\ UNCHANGED status
              \/ /\ verdict = "retry"
                 /\ Fetcher(w, "run", Resume(w)) /\ UNCHANGED status
              \/ /\ verdict = "skip"
                 /\ Fetcher(w, "run", Tail(fetcher[w].batch)) /\ Mark(m, "failed")
        /\ UNCHANGED <<main, again, stopped, flow, appender>>

ChunkDone(w) ==
    /\ fetcher[w].at = "run" /\ fetcher[w].batch = <<>>
    /\ Fetcher(w, "draw", <<>>)
    /\ Drop(w)
    /\ UNCHANGED <<main, again, stopped, faults, used, queue, flow, appender, status>>

-----------------------------------------------------------------------------
(* deliver, one of the appenders a of a folder *)

TakesItem(a) ==
    LET f == a[1]
    IN  /\ appender[a].at = "take" /\ flow[f].pending # <<>>
        /\ Appender(a, "append", {Head(flow[f].pending)})
        /\ flow' = [flow EXCEPT ![f].pending = Tail(@)]
        /\ UNCHANGED <<main, again, stopped, faults, srcHeld, dstHeld, used, queue,
                       fetcher, status>>

NoMoreItems(a) ==
    /\ appender[a].at = "take" /\ flow[a[1]].pending = <<>> /\ flow[a[1]].sealed
    /\ Appender(a, "returned", {})
    /\ UNCHANGED <<main, again, stopped, faults, srcHeld, dstHeld, used, queue,
                   flow, fetcher, status>>

\* deliver returns nil and the message lets go of its bytes.
Finish(a, s) ==
    /\ \A m \in appender[a].item : Mark(m, s)
    /\ Refund(appender[a].item)
    /\ Appender(a, "take", {})

\* deliver returns an error, which cancels gctx.
GiveUp(a) ==
    /\ Refund(appender[a].item)
    /\ Appender(a, "gaveUp", {})
    /\ flow' = [flow EXCEPT ![a[1]].broken = TRUE]
    /\ UNCHANGED status

\* APPEND is accepted, with the UID it was given or without.
Appended(a) ==
    /\ appender[a].at = "append" /\ a \in dstHeld
    /\ \/ Finish(a, "done")
       \/ Appender(a, "find", appender[a].item) /\ UNCHANGED <<used, status>>
    /\ Drop(a)
    /\ UNCHANGED <<main, again, stopped, faults, queue, flow, fetcher>>

AppendFails(a) ==
    /\ appender[a].at = "append" /\ CallFails(CtxDone(a[1]))
    /\ \E verdict \in Verdicts(a[1]) :
          \/ verdict = "give up" /\ GiveUp(a)
          \/ verdict = "skip" /\ Finish(a, "failed") /\ UNCHANGED flow
          \/ /\ verdict = "retry"
             /\ Appender(a, "look", appender[a].item) /\ UNCHANGED <<used, flow, status>>
    /\ Drop(a)
    /\ UNCHANGED <<main, again, stopped, queue, fetcher>>

\* locateOnDest, on a second lease, or on none for what cannot be searched for.
Looked(a) ==
    /\ \/ appender[a].at = "find" /\ Finish(a, "done")
       \/ appender[a].at = "look" /\ a \in dstHeld /\ Finish(a, "done")
       \/ /\ appender[a].at = "look"
          /\ Appender(a, "append", appender[a].item) /\ UNCHANGED <<used, status>>
    /\ Drop(a)
    /\ UNCHANGED <<main, again, stopped, faults, queue, flow, fetcher>>

LookFails(a) ==
    /\ appender[a].at \in {"look", "find"} /\ CallFails(CtxDone(a[1]))
    /\ GiveUp(a) /\ Drop(a)
    /\ UNCHANGED <<main, again, stopped, queue, fetcher>>

-----------------------------------------------------------------------------
(* syncFolder, and the pass over all folders *)

\* pass looks at the context and then waits for a slot.
Reaches(f) ==
    /\ main[f] = "waiting" /\ ~stopped /\ \A g \in Folders : main[g] # "gate"
    /\ MoveMain(f, "gate")
    /\ UNCHANGED <<again, stopped, faults, srcHeld, dstHeld, used, queue, flow,
                   fetcher, appender, status>>

Starts(f) ==
    /\ main[f] = "gate"
    /\ Cardinality({g \in Folders : main[g] \in Running}) < SrcCap
    /\ MoveMain(f, "src")
    /\ UNCHANGED <<again, stopped, faults, srcHeld, dstHeld, used, queue, flow,
                   fetcher, appender, status>>

\* A folder the pass does not get to; in the second pass its first report stands.
LeavesOut(f) ==
    /\ main[f] = "waiting" /\ stopped
    /\ MoveMain(f, IF again THEN "failed" ELSE "skipped")
    /\ UNCHANGED <<again, stopped, faults, srcHeld, dstHeld, used, queue, flow,
                   fetcher, appender, status>>

\* canSkip: the source has not moved since everything was copied.
Unchanged(f) ==
    /\ main[f] = "src" /\ f \in srcHeld /\ ToCopy(f, status) = <<>>
    /\ MoveMain(f, "ok")
    /\ Drop(f)
    /\ UNCHANGED <<again, stopped, faults, used, queue, flow, fetcher, appender, status>>

\* Selected and changed: the destination is leased besides the source.
Selects(f) ==
    /\ main[f] = "src" /\ f \in srcHeld
    /\ MoveMain(f, "dst")
    /\ UNCHANGED <<again, stopped, faults, srcHeld, dstHeld, used, queue, flow,
                   fetcher, appender, status>>

\* recover finds some of the suspects on the destination; the source is let go.
Diffs(f) ==
    /\ main[f] = "dst" /\ f \in dstHeld
    /\ \E found \in SUBSET {m \in ToSet(Todo[f]) : status[m] = "in_flight"} :
          status' = [m \in Msgs |-> IF m \in found THEN "done" ELSE status[m]]
    /\ MoveMain(f, "index")
    /\ srcHeld' = srcHeld \ {f}
    /\ UNCHANGED <<again, stopped, faults, dstHeld, used, queue, flow, fetcher, appender>>

\* indexDestination ends, the destination is let go, and copyFolder starts as
\* many workers as there is work for.
Indexed(f) ==
    LET todo == ToCopy(f, status)
    IN  /\ main[f] = "index"
        /\ \E R \in kSubset(Min({SrcCap, Len(Chunks(todo))}), Readers),
              W \in kSubset(Min({DstCap, Len(todo)}), Writers) :
              /\ fetcher' = [w \in Fetchers |->
                    IF w[1] # f THEN fetcher[w]
                    ELSE IF w[2] \in R THEN [at |-> "draw", batch |-> <<>>] ELSE NoBatch]
              /\ appender' = [a \in Appenders |->
                    IF a[1] # f THEN appender[a]
                    ELSE IF a[2] \in W THEN [at |-> "take", item |-> {}] ELSE NoItem]
        /\ flow' = [flow EXCEPT ![f] = [Idle EXCEPT !.chunks = Chunks(todo),
                                                    !.sealed = todo = <<>>]]
        /\ MoveMain(f, "copy")
        /\ Drop(f)
        /\ UNCHANGED <<again, stopped, faults, used, queue, status>>

PrepareFails(f) ==
    /\ main[f] \in {"src", "dst", "index"} /\ CallFails(stopped)
    /\ MoveMain(f, "failed")
    /\ Drop(f)
    /\ UNCHANGED <<again, stopped, used, queue, flow, fetcher, appender, status>>

\* The producer gives up the chunks it has not handed out.
ProducerQuits(f) ==
    /\ main[f] = "copy" /\ CtxDone(f) /\ flow[f].chunks # <<>>
    /\ flow' = [flow EXCEPT ![f].chunks = <<>>, ![f].broken = TRUE]
    /\ UNCHANGED <<main, again, stopped, faults, srcHeld, dstHeld, used, queue,
                   fetcher, appender, status>>

\* The goroutine that waits for the fetchers closes pending.
Seals(f) ==
    /\ main[f] = "copy" /\ ~flow[f].sealed /\ FetchersReturned(f)
    /\ flow' = [flow EXCEPT ![f].sealed = TRUE, ![f].broken = @ \/ FetchersFailed(f)]
    /\ UNCHANGED <<main, again, stopped, faults, srcHeld, dstHeld, used, queue,
                   fetcher, appender, status>>

CopyEnds(f) ==
    /\ main[f] = "copy" /\ CopyOver(f)
    /\ Refund(Leftovers(f))
    /\ flow' = [flow EXCEPT ![f].pending = <<>>]
    /\ MoveMain(f, IF flow[f].broken THEN "failed" ELSE "resync")
    /\ UNCHANGED <<again, stopped, faults, srcHeld, dstHeld, queue, fetcher,
                   appender, status>>

\* resyncFlags reads the source and then stores at the destination;
\* deleteVanished and removeDestDuplicates follow.  A visit with nothing to do
\* takes no lease, and without the source's flags there are none to store.
NextVisit(f) ==
    CASE main[f] = "resync"  -> IF f \in srcHeld THEN "flags" ELSE "delete"
      [] main[f] = "flags"   -> "delete"
      [] main[f] = "delete"  -> "repeats"
      [] main[f] = "repeats" -> "ok"

Visits(f) ==
    /\ main[f] \in {"resync", "flags", "delete", "repeats"}
    /\ MoveMain(f, NextVisit(f))
    /\ srcHeld' = srcHeld \ {f} /\ dstHeld' = dstHeld \ Released(f)
    /\ UNCHANGED <<again, stopped, faults, used, queue, flow, fetcher, appender, status>>

VisitFails(f) ==
    /\ main[f] \in {"resync", "flags", "delete", "repeats"} /\ CallFails(stopped)
    /\ MoveMain(f, "failed")
    /\ Drop(f)
    /\ UNCHANGED <<again, stopped, used, queue, flow, fetcher, appender, status>>

\* Run goes once more over the folders that failed.
SecondPass ==
    /\ ~again /\ ~stopped
    /\ \A f \in Folders : main[f] \in Ended
    /\ \E f \in Folders : main[f] = "failed"
    /\ again' = TRUE
    /\ main' = [f \in Folders |-> IF main[f] = "failed" THEN "waiting" ELSE main[f]]
    /\ UNCHANGED <<stopped, faults, srcHeld, dstHeld, used, queue, flow, fetcher,
                   appender, status>>

RunOver ==
    /\ \A f \in Folders : main[f] \in Ended
    /\ again \/ stopped \/ \A f \in Folders : main[f] # "failed"

\* The caller cancels the run, or the health ceiling does.
Interrupt ==
    /\ ~stopped /\ ~RunOver
    /\ stopped' = TRUE
    /\ UNCHANGED <<main, again, faults, srcHeld, dstHeld, used, queue, flow,
                   fetcher, appender, status>>

-----------------------------------------------------------------------------
FolderStep(f) ==
    \/ LeaseSource(f) \/ LeaseDest(f)
    \/ Reaches(f) \/ Starts(f) \/ LeavesOut(f)
    \/ Unchanged(f) \/ Selects(f) \/ Diffs(f) \/ Indexed(f) \/ PrepareFails(f)
    \/ ProducerQuits(f) \/ Seals(f) \/ CopyEnds(f)
    \/ Visits(f) \/ VisitFails(f)

FetcherStep(w) ==
    \/ LeaseSource(w)
    \/ GetsChunk(w) \/ NoMoreChunks(w) \/ ReadsHeaders(w) \/ HeadersFail(w)
    \/ Adopts(w) \/ Begins(w) \/ Charged(w) \/ ReadsBody(w) \/ NothingToSend(w)
    \/ Sends(w) \/ FetchFails(w) \/ ChunkDone(w)

AppenderStep(a) ==
    \/ LeaseDest(a)
    \/ TakesItem(a) \/ NoMoreItems(a) \/ Appended(a) \/ AppendFails(a)
    \/ Looked(a) \/ LookFails(a)

Work ==
    \/ \E f \in Folders : FolderStep(f)
    \/ \E w \in Fetchers : FetcherStep(w)
    \/ \E a \in Appenders : AppenderStep(a)
    \/ SecondPass

Next == Work \/ Interrupt

Spec == Init /\ [][Next]_vars

\* Some goroutine that can run does, and every command ends: commands carry a
\* timeout.  Nobody has to interrupt the run.
FairSpec == Spec /\ WF_vars(Work)

-----------------------------------------------------------------------------
(* Properties *)

InHands(f) == UNION {appender[<<f, a>>].item : a \in Writers}
Charging(f) == {w \in {f} \X Readers : fetcher[w].at \in {"body", "send"}}
InMemory ==
    UNION {{Head(fetcher[w].batch) : w \in Charging(f)} \cup
           ToSet(flow[f].pending) \cup InHands(f) : f \in Folders}

\* What is charged to the budget is exactly what the messages in memory cost:
\* no path through fetchOne, deliver or the end of copyFolder forgets a refund
\* or makes it twice (syncer.go:1907-1913, budget.go:73-98).
BudgetConserved == used = MapThenSumSet(Charge, InMemory)

\* "The honest bound is therefore max(budget, largest single message)"
\* (budget.go:24-26), whatever mix of sizes is in memory.
MemoryBound ==
    MapThenSumSet(LAMBDA m : Size[m], InMemory)
        <= Max({Budget} \cup {Size[m] : m \in Msgs})

\* A message that was sent to the appenders is not fetched again in the same
\* pass, whatever fails: it would be copied twice (syncer.go:1928-1931).
NoRefetch ==
    \A w \in Fetchers : \A m \in ToSet(fetcher[w].batch) :
        /\ m \notin ToSet(flow[w[1]].pending) \cup InHands(w[1])
        /\ status[m] # "done"

\* No fetcher sends into pending after it was closed, which would panic
\* (syncer.go:1885-1893).
NoSendOnClosed ==
    \A w \in Fetchers : fetcher[w].at = "send" => ~flow[w[1]].sealed

\* A folder whose copy is over without an error has settled every one of its
\* messages: what a worker left behind shows as an error (syncer.go:1268-1270).
NothingDropped ==
    \A f \in Folders : main[f] \in {"resync", "flags", "delete", "repeats", "ok"} =>
        \A m \in ToSet(Todo[f]) : status[m] \in {"done", "failed"}

\* A folder that has ended, well or not, leaves nothing behind: no goroutine, no
\* lease, no place in the queue, no message in memory (syncer.go:1905-1914).
NothingLeftBehind ==
    \A f \in Folders : main[f] \in Ended =>
        /\ \A r \in Readers : fetcher[<<f, r>>].at \in Over
        /\ \A a \in Writers : appender[<<f, a>>].at \in Over
        /\ (srcHeld \cup dstHeld) \cap ({f} \cup {f} \X (Readers \cup Writers)) = {}
        /\ \A i \in DOMAIN queue : queue[i][1] # f
        /\ flow[f].pending = <<>>

\* Every run ends, however narrow the pools and the budget are, whatever fails
\* and whenever it is interrupted: the waits for leases, for the budget and on
\* the channels never form a circle (syncer.go:1546-1549, 1849).
RunEnds == <>RunOver
=============================================================================
