------------------------ MODULE FolderPipelineProofs ------------------------
(***************************************************************************)
(* Nothing is sent into pending after it was closed, for any folders, any  *)
(* sizes and any number of workers.  A fetcher reads the channel without a *)
(* lock, so this rests on what a closed channel says of every fetcher of   *)
(* the folder, in this pass and in the one before it.                      *)
(***************************************************************************)
EXTENDS FolderPipeline, TLAPS, FiniteSetTheorems

\* The functions and records the steps update exist where they are updated.
Shape ==
    /\ DOMAIN fetcher = Fetchers
    /\ DOMAIN flow = Folders
    /\ \A f \in Folders : DOMAIN flow[f] = {"chunks", "pending", "sealed", "broken"}

\* Once pending is closed, every fetcher of the folder has returned.
ClosedMeansReturned ==
    \A f \in Folders : flow[f].sealed =>
        \A r \in Readers : fetcher[<<f, r>>].at \in Over

IInv == Shape /\ ClosedMeansReturned

-----------------------------------------------------------------------------
\* A step that moves one fetcher which had not returned, and leaves the channel
\* of its folder open if it was open, keeps the invariant.
LEMMA FetcherMoves ==
    ASSUME IInv, NEW w \in Fetchers, fetcher[w].at \notin Over,
           NEW to, NEW batch, Fetcher(w, to, batch),
           DOMAIN flow' = Folders,
           \A f \in Folders : /\ DOMAIN flow'[f] = DOMAIN flow[f]
                              /\ flow'[f].sealed = flow[f].sealed
    PROVE  IInv'
<1>1. \A v \in Fetchers : v # w => fetcher'[v] = fetcher[v]
    BY DEF IInv, Shape, Fetcher
<1>2. Shape'
    BY DEF IInv, Shape, Fetcher
<1>3. ~flow[w[1]].sealed
    BY DEF IInv, ClosedMeansReturned, Fetchers
<1>4. ASSUME NEW f \in Folders, flow'[f].sealed, NEW r \in Readers
      PROVE  fetcher'[<<f, r>>].at \in Over
    <2>1. flow[f].sealed /\ f # w[1]
        BY <1>3, <1>4
    <2>2. <<f, r>> \in Fetchers /\ <<f, r>> # w
        BY <2>1 DEF Fetchers
    <2> QED BY <1>1, <2>1, <2>2 DEF IInv, ClosedMeansReturned
<1> QED BY <1>2, <1>4 DEF IInv, ClosedMeansReturned

\* A step that moves no fetcher and seals nothing keeps the invariant.
LEMMA FetchersRest ==
    ASSUME IInv, UNCHANGED fetcher, DOMAIN flow' = Folders,
           \A f \in Folders : /\ DOMAIN flow'[f] = DOMAIN flow[f]
                              /\ flow'[f].sealed = flow[f].sealed
    PROVE  IInv'
BY DEF IInv, Shape, ClosedMeansReturned

LEMMA NothingOnTheWay ==
    ASSUME IInv, UNCHANGED <<fetcher, flow>>
    PROVE  IInv'
BY DEF IInv, Shape, ClosedMeansReturned

-----------------------------------------------------------------------------
LEMMA FetcherKeeps ==
    ASSUME IInv, NEW w \in Fetchers, FetcherStep(w)
    PROVE  IInv'
<1>0. w[1] \in Folders
    BY DEF Fetchers
<1>1. CASE LeaseSource(w)
    BY <1>1, NothingOnTheWay DEF LeaseSource
<1>2. CASE GetsChunk(w)
    <2>1. fetcher[w].at \notin Over
        BY <1>2 DEF GetsChunk, Over
    <2>2. Fetcher(w, "meta", Head(flow[w[1]].chunks))
        BY <1>2 DEF GetsChunk
    <2>3. flow' = [flow EXCEPT ![w[1]].chunks = Tail(@)]
        BY <1>2 DEF GetsChunk
    <2> QED BY <1>0, <2>1, <2>2, <2>3, FetcherMoves DEF IInv, Shape
<1>3. CASE Sends(w)
    <2>1. fetcher[w].at \notin Over
        BY <1>3 DEF Sends, Over
    <2>2. Fetcher(w, "run", Tail(fetcher[w].batch))
        BY <1>3 DEF Sends
    <2>3. flow' = [flow EXCEPT ![w[1]].pending = Append(@, Head(fetcher[w].batch))]
        BY <1>3 DEF Sends
    <2> QED BY <1>0, <2>1, <2>2, <2>3, FetcherMoves DEF IInv, Shape
<1>4. ASSUME fetcher[w].at \notin Over, UNCHANGED flow,
             \E to, batch : Fetcher(w, to, batch)
      PROVE  IInv'
    <2>1. PICK to, batch : Fetcher(w, to, batch)
        BY <1>4
    <2> QED BY <1>4, <2>1, FetcherMoves DEF IInv, Shape
<1>5. CASE NoMoreChunks(w)
    BY <1>4, <1>5 DEF NoMoreChunks, Over
<1>6. CASE ReadsHeaders(w)
    BY <1>4, <1>6 DEF ReadsHeaders, Over
<1>7. CASE HeadersFail(w)
    BY <1>4, <1>7 DEF HeadersFail, Over
<1>8. CASE Adopts(w)
    BY <1>4, <1>8 DEF Adopts, Over
<1>9. CASE Begins(w)
    BY <1>4, <1>9 DEF Begins, Over
<1>10. CASE ReadsBody(w)
    BY <1>4, <1>10 DEF ReadsBody, Over
<1>11. CASE NothingToSend(w)
    BY <1>4, <1>11 DEF NothingToSend, Over
<1>12. CASE FetchFails(w)
    BY <1>4, <1>12 DEF FetchFails, Over
<1>13. CASE ChunkDone(w)
    BY <1>4, <1>13 DEF ChunkDone, Over
<1>14. CASE Charged(w)
    BY <1>4, <1>14 DEF Charged, Over
<1> QED
    BY <1>1, <1>2, <1>3, <1>5, <1>6, <1>7, <1>8, <1>9, <1>10, <1>11, <1>12,
       <1>13, <1>14 DEF FetcherStep

LEMMA AppenderKeeps ==
    ASSUME IInv, NEW a \in Appenders, AppenderStep(a)
    PROVE  IInv'
<1>0. a[1] \in Folders
    BY DEF Appenders
<1>1. CASE TakesItem(a)
    <2>1. flow' = [flow EXCEPT ![a[1]].pending = Tail(@)] /\ UNCHANGED fetcher
        BY <1>1 DEF TakesItem
    <2> QED BY <1>0, <2>1, FetchersRest DEF IInv, Shape
<1>2. ASSUME GiveUp(a), UNCHANGED fetcher
      PROVE  IInv'
    <2>1. flow' = [flow EXCEPT ![a[1]].broken = TRUE]
        BY <1>2 DEF GiveUp
    <2> QED BY <1>0, <1>2, <2>1, FetchersRest DEF IInv, Shape
<1>3. CASE AppendFails(a)
    <2>1. UNCHANGED flow \/ GiveUp(a)
        BY <1>3 DEF AppendFails
    <2> QED BY <1>2, <1>3, <2>1, NothingOnTheWay DEF AppendFails
<1>4. CASE LookFails(a)
    BY <1>2, <1>4 DEF LookFails
<1>5. CASE LeaseDest(a) \/ NoMoreItems(a) \/ Appended(a) \/ Looked(a)
    BY <1>5, NothingOnTheWay DEF LeaseDest, NoMoreItems, Appended, Looked
<1> QED
    BY <1>1, <1>3, <1>4, <1>5 DEF AppenderStep

\* A folder with nothing to copy starts no fetcher, so its channel may be closed
\* from the start.
LEMMA NoChunksNoFetchers ==
    ASSUME NEW R \in kSubset(Min({SrcCap, Len(Chunks(<<>>))}), Readers)
    PROVE  R = {}
<1>1. IsFiniteSet(Readers) /\ SrcCap \in Nat
    BY PipelineAssumption, FS_CardinalityType DEF PipelineAssumption, SrcCap
<1>2. ChunkSize \in Nat \ {0}
    BY PipelineAssumption DEF PipelineAssumption
<1>3. (0 + ChunkSize - 1) \div ChunkSize = 0
    BY <1>2
<1>4. Len(Chunks(<<>>)) = 0
    BY <1>3 DEF Chunks
<1>5. Min({SrcCap, 0}) = 0
    BY <1>1 DEF Min
<1>6. R \subseteq Readers /\ Cardinality(R) = 0
    BY <1>4, <1>5 DEF kSubset
<1>7. IsFiniteSet(R)
    BY <1>1, <1>6, FS_Subset
<1> QED BY <1>6, <1>7, FS_EmptySet

LEMMA FolderKeeps ==
    ASSUME IInv, NEW f \in Folders, FolderStep(f)
    PROVE  IInv'
<1>1. CASE Indexed(f)
    <2> DEFINE todo == ToCopy(f, status)
    <2>1. PICK R \in kSubset(Min({SrcCap, Len(Chunks(todo))}), Readers) :
             fetcher' = [w \in Fetchers |->
                 IF w[1] # f THEN fetcher[w]
                 ELSE IF w[2] \in R THEN [at |-> "draw", batch |-> <<>>] ELSE NoBatch]
        BY <1>1 DEF Indexed
    <2>2. flow' = [flow EXCEPT ![f] = [Idle EXCEPT !.chunks = Chunks(todo),
                                                   !.sealed = todo = <<>>]]
        BY <1>1 DEF Indexed
    <2>3. /\ DOMAIN flow' = Folders
          /\ \A g \in Folders : g # f => flow'[g] = flow[g]
          /\ DOMAIN flow'[f] = {"chunks", "pending", "sealed", "broken"}
          /\ flow'[f].sealed = (todo = <<>>)
        BY <2>2 DEF IInv, Shape, Idle
    <2>4. Shape'
        BY <2>1, <2>3 DEF IInv, Shape
    <2>5. ASSUME NEW g \in Folders, flow'[g].sealed, NEW r \in Readers
          PROVE  fetcher'[<<g, r>>].at \in Over
        <3>1. <<g, r>> \in Fetchers
            BY DEF Fetchers
        <3>2. CASE g # f
            BY <2>1, <2>3, <2>5, <3>1, <3>2 DEF IInv, ClosedMeansReturned
        <3>3. CASE g = f
            <4>1. todo = <<>>
                BY <2>3, <2>5, <3>3
            <4>2. R = {}
                BY <2>1, <4>1, NoChunksNoFetchers
            <4> QED BY <2>1, <3>1, <3>3, <4>2 DEF NoBatch, Over
        <3> QED BY <3>2, <3>3
    <2> QED BY <2>4, <2>5 DEF IInv, ClosedMeansReturned
<1>2. CASE ProducerQuits(f)
    <2>1. /\ flow' = [flow EXCEPT ![f].chunks = <<>>, ![f].broken = TRUE]
          /\ UNCHANGED fetcher
        BY <1>2 DEF ProducerQuits
    <2> QED BY <2>1, FetchersRest DEF IInv, Shape
<1>3. CASE CopyEnds(f)
    <2>1. flow' = [flow EXCEPT ![f].pending = <<>>] /\ UNCHANGED fetcher
        BY <1>3 DEF CopyEnds
    <2> QED BY <2>1, FetchersRest DEF IInv, Shape
<1>4. CASE Seals(f)
    <2>1. /\ flow' = [flow EXCEPT ![f].sealed = TRUE, ![f].broken = @ \/ FetchersFailed(f)]
          /\ UNCHANGED fetcher
        BY <1>4 DEF Seals
    <2>2. \A r \in Readers : fetcher[<<f, r>>].at \in Over
        BY <1>4 DEF Seals, FetchersReturned
    <2>3. /\ DOMAIN flow' = Folders
          /\ \A g \in Folders : DOMAIN flow'[g] = DOMAIN flow[g]
          /\ \A g \in Folders : g # f => flow'[g] = flow[g]
        BY <2>1 DEF IInv, Shape
    <2> QED BY <2>1, <2>2, <2>3 DEF IInv, Shape, ClosedMeansReturned
<1>5. CASE UNCHANGED <<fetcher, flow>>
    BY <1>5, NothingOnTheWay
<1> QED
    BY <1>1, <1>2, <1>3, <1>4, <1>5
    DEF FolderStep, LeaseSource, LeaseDest, Reaches, Starts, LeavesOut, Unchanged,
        Selects, Diffs, PrepareFails, Visits, VisitFails

-----------------------------------------------------------------------------
\* A closed channel has no fetcher left that could send into it.
THEOREM ChannelInvariant == Spec => []IInv
<1>1. Init => IInv
    BY DEF Init, IInv, Shape, ClosedMeansReturned, Idle, NoBatch, Over, Fetchers
<1>2. IInv /\ [Next]_vars => IInv'
    <2> SUFFICES ASSUME IInv, [Next]_vars PROVE IInv'
        OBVIOUS
    <2>1. CASE Work
        <3>1. CASE SecondPass
            BY <3>1, NothingOnTheWay DEF SecondPass
        <3> QED BY <2>1, <3>1, FolderKeeps, FetcherKeeps, AppenderKeeps DEF Work
    <2>2. CASE Interrupt
        BY <2>2, NothingOnTheWay DEF Interrupt
    <2>3. CASE UNCHANGED vars
        BY <2>3, NothingOnTheWay DEF vars
    <2> QED BY <2>1, <2>2, <2>3 DEF Next
<1> QED BY <1>1, <1>2, PTL DEF Spec

\* No fetcher sends into pending after it was closed, whatever failed and in
\* whichever pass (syncer.go:1885-1893).
THEOREM NobodySendsOnClosed == Spec => []NoSendOnClosed
<1>1. IInv => NoSendOnClosed
    <2> SUFFICES ASSUME IInv, NEW w \in Fetchers, fetcher[w].at = "send"
                 PROVE  ~flow[w[1]].sealed
        BY DEF NoSendOnClosed
    <2>1. w[1] \in Folders /\ w[2] \in Readers /\ w = <<w[1], w[2]>>
        BY DEF Fetchers
    <2> QED BY <2>1 DEF IInv, ClosedMeansReturned, Over
<1> QED BY <1>1, ChannelInvariant, PTL
=============================================================================
