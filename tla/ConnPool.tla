------------------------------ MODULE ConnPool ------------------------------
(***************************************************************************)
(* The connection pool of internal/pool/pool.go: a channel of tokens that  *)
(* limits concurrency, a stack of idle connections, and a governor that    *)
(* narrows the pool when the server refuses a connection and widens it     *)
(* again when the server has been quiet.                                   *)
(*                                                                         *)
(* A worker is one goroutine that calls Acquire and later Release.  Every  *)
(* critical section of p.mu, every channel operation and every network     *)
(* call is an action of its own, so workers interleave exactly where the   *)
(* code lets them.  The idle stack is a set: nothing turns on its order.   *)
(* The clock is reduced to what the code compares it with: whether lastOK  *)
(* is inside capacityWindow, and whether growQuiet and growStep have       *)
(* passed.                                                                 *)
(***************************************************************************)
EXTENDS Naturals, FiniteSets

CONSTANTS Workers,      \* goroutines that lease connections
          Conns,        \* identities for connections, reused after a close
          Mailboxes,    \* mailboxes a lease can ask for
          NoConn,       \* a worker that holds no connection
          NoMailbox,    \* the empty mailbox name
          Cap,          \* Options.Cap
          MaxFaults     \* bound: dials and SELECTs that fail

ASSUME PoolAssumption ==
    /\ Cap \in Nat \ {0}
    /\ IsFiniteSet(Workers)
    /\ IsFiniteSet(Conns)
    /\ NoConn \notin Conns
    /\ NoMailbox \notin Mailboxes
    /\ MaxFaults \in Nat

VARIABLES
    tokens,        \* values sitting in the tokens channel
    done,          \* the done channel has been closed
    closed, idle, width, debt, open,       \* the fields under p.mu
    recentOK,      \* lastOK is inside capacityWindow
    refusalQuiet,  \* growQuiet has passed since lastRefusal
    growthQuiet,   \* growStep has passed since lastGrow
    pc,            \* where each worker is
    held,          \* the connection in each worker's hands
    want,          \* the mailbox each worker asked for
    attempt,       \* "fresh", "reused", or "second" after a failed reuse
    result,        \* why the worker is giving its token back
    selected,      \* conn.selected, per connection
    faults,        \* counts up to MaxFaults
    closer,        \* where the call of Close is
    toDrain,       \* tokens Close still waits for
    closing        \* connections Close took off the idle list

channelVars == <<tokens, done>>
clockVars   == <<recentOK, refusalQuiet, growthQuiet>>
widthVars   == <<width, debt>>
workerVars  == <<pc, held, want, attempt, result>>
closeVars   == <<closed, closer, toDrain, closing>>
vars == <<channelVars, clockVars, widthVars, open, idle, workerVars,
          selected, faults, closeVars>>

Steps == {"out", "wait", "take", "dial", "count", "refused", "holds",
          "select", "discard", "leased", "close", "pay", "return", "grow"}

TypeOK ==
    /\ tokens \in 0..Cap
    /\ done \in BOOLEAN
    /\ closed \in BOOLEAN
    /\ idle \in SUBSET Conns
    /\ width \in 1..Cap
    /\ debt \in 0..Cap
    /\ open \in Nat
    /\ recentOK \in BOOLEAN
    /\ refusalQuiet \in BOOLEAN
    /\ growthQuiet \in BOOLEAN
    /\ pc \in [Workers -> Steps]
    /\ held \in [Workers -> Conns \cup {NoConn}]
    /\ want \in [Workers -> Mailboxes \cup {NoMailbox}]
    /\ attempt \in [Workers -> {"fresh", "reused", "second"}]
    /\ result \in [Workers -> {"nil", "error", "room"}]
    /\ selected \in [Conns -> Mailboxes \cup {NoMailbox}]
    /\ faults \in Nat
    /\ closer \in {"open", "signal", "drain", "logout", "closed"}
    /\ toDrain \in 0..Cap
    /\ closing \in SUBSET Conns

-----------------------------------------------------------------------------
\* A worker is out of the token's custody before it receives one and after it
\* has sent it back or destroyed it.
HoldsToken(w) == pc[w] \notin {"out", "wait", "grow"}

\* Workers whose connection take has counted in open and nobody has uncounted:
\* from the moment it is dialled and counted to the section of put or discard.
CountedConn(w) == pc[w] \in {"select", "leased", "discard"}

Live == idle \cup closing \cup ({held[w] : w \in Workers} \ {NoConn})

\* Bookkeeping of the model: a worker's locals are reset when they go out of
\* scope, a connection's fields when it is closed.
Forget(c) == selected' = [selected EXCEPT ![c] = NoMailbox]

GiveUp(w, why) ==
    /\ pc' = [pc EXCEPT ![w] = "pay"]
    /\ result' = [result EXCEPT ![w] = why]
    /\ attempt' = [attempt EXCEPT ![w] = "fresh"]

Larger(a, b)  == IF a > b THEN a ELSE b
Smaller(a, b) == IF a < b THEN a ELSE b

\* The decisions the actions below take, each with faulty variants of it that
\* the properties are tried on.

\* On the first attempt a connection that already has the mailbox, or a lease
\* that wants none, needs no SELECT; the second attempt always selects.
TrustsIdle(w, c) == want[w] # NoMailbox /\ c \notin idle
NeedsSelect(w, c) ==
    \/ attempt[w] = "second"
    \/ want[w] # NoMailbox /\ selected[c] # want[w]

\* take dials only when nothing is idle.
DialsAnyway == TRUE
MustDial == idle = {}

\* open once take has dialled.
CountsFirstDial(w) == IF attempt[w] = "second" THEN open ELSE open + 1
OpenWithDial(w) == open + 1

\* The width a refusal sets: the connections open now, and at least one.
NoFloor == open
NarrowTo == Larger(open, 1)

\* put closes a connection that is broken, that Close would miss, or that is
\* more than the width allows; any other it parks.
Discards(err) == err = "broken" \/ closed \/ open > width

ParksAll(w, err) == idle \cup {held[w]}
IdleAfter(w, err) == IF Discards(err) THEN idle ELSE idle \cup {held[w]}

\* payDebt swallows a token only while Close is not counting them.
OwesWhileClosing == debt > 0
Owes == ~closed /\ debt > 0

CollectsForEver == debt
DebtAfterPaying == debt - 1

\* grow adds a token only to a pool that is settled, open and below Cap.
ForgetsCap == ~closed /\ debt = 0 /\ refusalQuiet /\ growthQuiet
MayGrow == ~closed /\ debt = 0 /\ width < Cap /\ refusalQuiet /\ growthQuiet

\* How many tokens Close has to take, and when it has them.
ForgetsDebt == width
Circulating == width + debt

DoesNotWait == TRUE
Drained == toDrain = 0

\* New: the channel starts full, nothing is dialled, every clock is zero.
Init ==
    /\ tokens = Cap /\ done = FALSE /\ closed = FALSE
    /\ idle = {} /\ width = Cap /\ debt = 0 /\ open = 0
    /\ recentOK = FALSE /\ refusalQuiet = TRUE /\ growthQuiet = TRUE
    /\ pc = [w \in Workers |-> "out"]
    /\ held = [w \in Workers |-> NoConn]
    /\ want = [w \in Workers |-> NoMailbox]
    /\ attempt = [w \in Workers |-> "fresh"]
    /\ result = [w \in Workers |-> "nil"]
    /\ selected = [c \in Conns |-> NoMailbox]
    /\ faults = 0
    /\ closer = "open" /\ toDrain = 0 /\ closing = {}

-----------------------------------------------------------------------------
(* Acquire *)

\* A context that has already ended never gets in.
Acquire(w, m) ==
    /\ pc[w] = "out"
    /\ pc' = [pc EXCEPT ![w] = "wait"]
    /\ want' = [want EXCEPT ![w] = m]
    /\ UNCHANGED <<channelVars, clockVars, widthVars, open, idle, held,
                   attempt, result, selected, faults, closeVars>>

\* The three cases of Acquire's select: a token, a closed pool, or a context
\* that ends, which it may do at any time.
ReceiveToken(w) ==
    /\ pc[w] = "wait"
    /\ tokens > 0
    /\ tokens' = tokens - 1
    /\ pc' = [pc EXCEPT ![w] = "take"]
    /\ UNCHANGED <<done, clockVars, widthVars, open, idle, held, want, attempt,
                   result, selected, faults, closeVars>>

AcquireClosed(w) ==
    /\ pc[w] = "wait"
    /\ done
    /\ pc' = [pc EXCEPT ![w] = "out"]
    /\ want' = [want EXCEPT ![w] = NoMailbox]
    /\ UNCHANGED <<channelVars, clockVars, widthVars, open, idle, held,
                   attempt, result, selected, faults, closeVars>>

AcquireCancelled(w) ==
    /\ pc[w] = "wait"
    /\ pc' = [pc EXCEPT ![w] = "out"]
    /\ want' = [want EXCEPT ![w] = NoMailbox]
    /\ UNCHANGED <<channelVars, clockVars, widthVars, open, idle, held,
                   attempt, result, selected, faults, closeVars>>

\* take pops an idle connection.
TakeIdle(w) ==
    /\ pc[w] = "take"
    /\ \E c \in idle :
          /\ idle' = idle \ {c}
          /\ held' = [held EXCEPT ![w] = c]
          /\ pc' = [pc EXCEPT ![w] = IF NeedsSelect(w, c)
                                     THEN "select" ELSE "leased"]
          /\ attempt' = [attempt EXCEPT
                ![w] = IF NeedsSelect(w, c) /\ @ = "fresh" THEN "reused" ELSE @]
    /\ UNCHANGED <<channelVars, clockVars, widthVars, open, want, result,
                   selected, faults, closeVars>>

TakeNothing(w) ==
    /\ pc[w] = "take"
    /\ MustDial
    /\ pc' = [pc EXCEPT ![w] = "dial"]
    /\ UNCHANGED <<channelVars, clockVars, widthVars, open, idle, held, want,
                   attempt, result, selected, faults, closeVars>>

\* The server accepted: the connection exists before the pool counts it.
DialAccepted(w) ==
    /\ pc[w] = "dial"
    /\ \E c \in Conns \ Live : held' = [held EXCEPT ![w] = c]
    /\ pc' = [pc EXCEPT ![w] = "count"]
    /\ UNCHANGED <<channelVars, clockVars, widthVars, open, idle, want,
                   attempt, result, selected, faults, closeVars>>

CountDial(w) ==
    /\ pc[w] = "count"
    /\ open' = OpenWithDial(w)
    /\ recentOK' = TRUE
    /\ pc' = [pc EXCEPT ![w] = IF NeedsSelect(w, held[w])
                               THEN "select" ELSE "leased"]
    /\ UNCHANGED <<channelVars, refusalQuiet, growthQuiet, widthVars, idle,
                   held, want, attempt, result, selected, faults, closeVars>>

\* A call can fail because the server refused it, the network broke or the
\* caller's context ended; the code does not tell these apart.
CallFails ==
    /\ faults < MaxFaults
    /\ faults' = faults + 1

DialFails(w) ==
    /\ pc[w] = "dial"
    /\ CallFails
    /\ pc' = [pc EXCEPT ![w] = "refused"]
    /\ UNCHANGED <<channelVars, clockVars, widthVars, open, idle, held, want,
                   attempt, result, selected, closeVars>>

\* refused: no judgement without recent success.
NotRefused(w) ==
    /\ pc[w] = "refused"
    /\ closed \/ ~recentOK
    /\ GiveUp(w, "error")
    /\ UNCHANGED <<channelVars, clockVars, widthVars, open, idle, held, want,
                   selected, faults, closeVars>>

\* refused: the pool already is as narrow as what it holds.
AlreadyNarrow(w) ==
    /\ pc[w] = "refused"
    /\ ~closed /\ recentOK
    /\ NarrowTo >= width
    /\ refusalQuiet' = FALSE
    /\ pc' = [pc EXCEPT ![w] = "holds"]
    /\ UNCHANGED <<channelVars, recentOK, growthQuiet, widthVars, open, idle,
                   held, want, attempt, result, selected, faults, closeVars>>

\* refused: shrink to the connections open now and pay the debt with the tokens
\* that are free.  trimIdleLocked finds nothing to trim: open is no more than
\* the width that has just been set from it.
Shrink(w) ==
    /\ pc[w] = "refused"
    /\ ~closed /\ recentOK
    /\ NarrowTo < width
    /\ width' = NarrowTo
    /\ LET owed == debt + (width - NarrowTo)
           paid == Smaller(tokens, owed)
       IN  tokens' = tokens - paid /\ debt' = owed - paid
    /\ refusalQuiet' = FALSE
    /\ pc' = [pc EXCEPT ![w] = "holds"]
    /\ UNCHANGED <<done, recentOK, growthQuiet, open, idle, held, want, attempt,
                   result, selected, faults, closeVars>>

\* holdsConnections, read in a critical section of its own.  The second
\* attempt of ready returns the SELECT error whatever take answered.
JudgeRefusal(w) ==
    /\ pc[w] = "holds"
    /\ GiveUp(w, IF open > 0 /\ attempt[w] # "second" THEN "room" ELSE "error")
    /\ UNCHANGED <<channelVars, clockVars, widthVars, open, idle, held, want,
                   selected, faults, closeVars>>

-----------------------------------------------------------------------------
(* ready: selecting the mailbox *)

SelectSucceeds(w) ==
    /\ pc[w] = "select"
    /\ selected' = [selected EXCEPT ![held[w]] = want[w]]
    /\ pc' = [pc EXCEPT ![w] = "leased"]
    /\ attempt' = [attempt EXCEPT ![w] = "fresh"]
    /\ UNCHANGED <<channelVars, clockVars, widthVars, open, idle, held, want,
                   result, faults, closeVars>>

\* The connection is closed.  Only a reused connection, or the second attempt,
\* goes on to discard; a connection just dialled returns the error at once.
SelectFails(w) ==
    /\ pc[w] = "select"
    /\ CallFails
    /\ held' = [held EXCEPT ![w] = NoConn]
    /\ Forget(held[w])
    /\ IF attempt[w] = "fresh"
       THEN GiveUp(w, "error")
       ELSE pc' = [pc EXCEPT ![w] = "discard"] /\ UNCHANGED <<attempt, result>>
    /\ UNCHANGED <<channelVars, clockVars, widthVars, open, idle, want,
                   closeVars>>

\* discard, and then either the one fresh take or the error.
Discard(w) ==
    /\ pc[w] = "discard"
    /\ open' = open - 1
    /\ IF attempt[w] = "reused"
       THEN /\ pc' = [pc EXCEPT ![w] = "take"]
            /\ attempt' = [attempt EXCEPT ![w] = "second"]
            /\ UNCHANGED result
       ELSE GiveUp(w, "error")
    /\ UNCHANGED <<channelVars, clockVars, widthVars, idle, held, want,
                   selected, faults, closeVars>>

-----------------------------------------------------------------------------
(* Release: put, payDebt, the send, grow *)

\* put's critical section, for the error Release was passed: nil, an ordinary
\* one, or ErrConnectionBroken.
Release(w, err) ==
    /\ pc[w] = "leased"
    /\ result' = [result EXCEPT ![w] = IF err = "nil" THEN "nil" ELSE "error"]
    /\ recentOK' = (recentOK \/ err = "nil")
    /\ idle' = IdleAfter(w, err)
    /\ IF Discards(err)
       THEN /\ open' = open - 1
            /\ pc' = [pc EXCEPT ![w] = "close"]
            /\ UNCHANGED held
       ELSE /\ held' = [held EXCEPT ![w] = NoConn]
            /\ pc' = [pc EXCEPT ![w] = "pay"]
            /\ UNCHANGED open
    /\ want' = [want EXCEPT ![w] = NoMailbox]
    /\ UNCHANGED <<channelVars, refusalQuiet, growthQuiet, widthVars, attempt,
                   selected, faults, closeVars>>

CloseConn(w) ==
    /\ pc[w] = "close"
    /\ held' = [held EXCEPT ![w] = NoConn]
    /\ Forget(held[w])
    /\ pc' = [pc EXCEPT ![w] = "pay"]
    /\ UNCHANGED <<channelVars, clockVars, widthVars, open, idle, want,
                   attempt, result, faults, closeVars>>

\* Where a worker goes once its token is gone: round Acquire's loop again, on
\* to grow, or out with an error.
GoOn(w) ==
    /\ pc' = [pc EXCEPT ![w] = CASE result[w] = "room" -> "wait"
                                 [] result[w] = "nil"  -> "grow"
                                 [] OTHER              -> "out"]
    /\ result' = [result EXCEPT ![w] = "nil"]
    /\ want' = [want EXCEPT
          ![w] = IF result[w] = "room" THEN want[w] ELSE NoMailbox]

\* payDebt, called by put and by a failed Acquire.
PayDebt(w) ==
    /\ pc[w] = "pay"
    /\ IF Owes
       THEN debt' = DebtAfterPaying /\ GoOn(w)
       ELSE /\ pc' = [pc EXCEPT ![w] = "return"]
            /\ UNCHANGED <<debt, result, want>>
    /\ UNCHANGED <<channelVars, clockVars, width, open, idle, held, attempt,
                   selected, faults, closeVars>>

\* p.tokens <- struct{}{}: blocks while the channel is full.
ReturnToken(w) ==
    /\ pc[w] = "return"
    /\ tokens < Cap
    /\ tokens' = tokens + 1
    /\ GoOn(w)
    /\ UNCHANGED <<done, clockVars, widthVars, open, idle, held, attempt,
                   selected, faults, closeVars>>

\* grow sends its token under the lock, so a full channel would hang the pool.
Grow(w) ==
    /\ pc[w] = "grow"
    /\ MayGrow
    /\ tokens < Cap
    /\ width' = width + 1
    /\ growthQuiet' = FALSE
    /\ tokens' = tokens + 1
    /\ pc' = [pc EXCEPT ![w] = "out"]
    /\ UNCHANGED <<done, recentOK, refusalQuiet, debt, open, idle, held, want,
                   attempt, result, selected, faults, closeVars>>

NoGrow(w) ==
    /\ pc[w] = "grow"
    /\ ~MayGrow
    /\ pc' = [pc EXCEPT ![w] = "out"]
    /\ UNCHANGED <<channelVars, clockVars, widthVars, open, idle, held, want,
                   attempt, result, selected, faults, closeVars>>

-----------------------------------------------------------------------------
(* Close; a second call returns at once and changes nothing *)

BeginClose ==
    /\ closer = "open"
    /\ closed' = TRUE
    /\ toDrain' = Circulating
    /\ closer' = "signal"
    /\ UNCHANGED <<channelVars, clockVars, widthVars, open, idle, workerVars,
                   selected, faults, closing>>

SignalDone ==
    /\ closer = "signal"
    /\ done' = TRUE
    /\ closer' = "drain"
    /\ UNCHANGED <<tokens, clockVars, widthVars, open, idle, workerVars,
                   selected, faults, closed, toDrain, closing>>

DrainToken ==
    /\ closer = "drain"
    /\ toDrain > 0
    /\ tokens > 0
    /\ tokens' = tokens - 1
    /\ toDrain' = toDrain - 1
    /\ UNCHANGED <<done, clockVars, widthVars, open, idle, workerVars,
                   selected, faults, closed, closer, closing>>

TakeIdleList ==
    /\ closer = "drain"
    /\ Drained
    /\ closing' = idle
    /\ idle' = {}
    /\ closer' = "logout"
    /\ UNCHANGED <<channelVars, clockVars, widthVars, open, workerVars,
                   selected, faults, closed, toDrain>>

LogoutAll ==
    /\ closer = "logout"
    /\ closing' = {}
    /\ selected' = [c \in Conns |-> IF c \in closing THEN NoMailbox ELSE selected[c]]
    /\ closer' = "closed"
    /\ UNCHANGED <<channelVars, clockVars, widthVars, open, idle, workerVars,
                   faults, closed, toDrain>>

-----------------------------------------------------------------------------
(* The environment *)

WindowPasses ==
    /\ recentOK
    /\ recentOK' = FALSE
    /\ UNCHANGED <<channelVars, refusalQuiet, growthQuiet, widthVars, open,
                   idle, workerVars, selected, faults, closeVars>>

RefusalAges ==
    /\ ~refusalQuiet
    /\ refusalQuiet' = TRUE
    /\ UNCHANGED <<channelVars, recentOK, growthQuiet, widthVars, open, idle,
                   workerVars, selected, faults, closeVars>>

GrowthAges ==
    /\ ~growthQuiet
    /\ growthQuiet' = TRUE
    /\ UNCHANGED <<channelVars, recentOK, refusalQuiet, widthVars, open, idle,
                   workerVars, selected, faults, closeVars>>

-----------------------------------------------------------------------------
AcquireSteps(w) ==
    \/ \E m \in Mailboxes \cup {NoMailbox} : Acquire(w, m)
    \/ ReceiveToken(w) \/ AcquireClosed(w) \/ AcquireCancelled(w)
    \/ TakeIdle(w) \/ TakeNothing(w)
    \/ DialAccepted(w) \/ CountDial(w) \/ DialFails(w)
    \/ NotRefused(w) \/ AlreadyNarrow(w) \/ Shrink(w) \/ JudgeRefusal(w)
    \/ SelectSucceeds(w) \/ SelectFails(w) \/ Discard(w)

ReleaseSteps(w) ==
    \/ \E err \in {"nil", "error", "broken"} : Release(w, err)
    \/ CloseConn(w) \/ PayDebt(w) \/ ReturnToken(w) \/ Grow(w) \/ NoGrow(w)

CloseSteps == BeginClose \/ SignalDone \/ DrainToken \/ TakeIdleList \/ LogoutAll

ClockSteps == WindowPasses \/ RefusalAges \/ GrowthAges

Next ==
    \/ \E w \in Workers : AcquireSteps(w) \/ ReleaseSteps(w)
    \/ CloseSteps
    \/ ClockSteps

Spec == Init /\ [][Next]_vars

\* What scheduling gives: a goroutine that can run does, and a lease is
\* released in the end.  The waiters of a Go channel are served in order, so a
\* worker that waits for a token and sees one again and again gets one; a
\* select with several ready cases takes each of them in the long run.
WorkerSteps(w) ==
    \/ TakeIdle(w) \/ TakeNothing(w)
    \/ DialAccepted(w) \/ CountDial(w) \/ DialFails(w)
    \/ NotRefused(w) \/ AlreadyNarrow(w) \/ Shrink(w) \/ JudgeRefusal(w)
    \/ SelectSucceeds(w) \/ SelectFails(w) \/ Discard(w)
    \/ ReleaseSteps(w)

Fairness ==
    /\ \A w \in Workers : /\ WF_vars(WorkerSteps(w))
                          /\ SF_vars(ReceiveToken(w))
                          /\ SF_vars(AcquireClosed(w))
    /\ WF_vars(SignalDone \/ TakeIdleList \/ LogoutAll)
    /\ SF_vars(DrainToken)

FairSpec == Spec /\ Fairness

-----------------------------------------------------------------------------
(* Properties *)

InCustody == {w \in Workers : HoldsToken(w)}

\* "tokens still in circulation == width + debt" (the comment on Pool.tokens),
\* and, once Close has read that sum, the same for what it still waits for.
\* A token lost on any path starves the pool; one too many overfills it.
TokensConserved ==
    tokens + Cardinality(InCustody) = IF closed THEN toDrain ELSE width + debt

\* A connection is in one place only: with one worker, on the idle list, or
\* with Close (Lease: "exclusive use of one connection until Release").
Exclusive ==
    /\ idle \cap closing = {}
    /\ \A v, w \in Workers :
          /\ held[v] # NoConn => held[v] \notin idle \cup closing
          /\ held[v] = held[w] /\ held[v] # NoConn => v = w

ConnUsers ==
    {w \in Workers : pc[w] \in {"dial", "count", "select", "leased", "close"}}

\* The server never sees more than Cap connections, counting those still being
\* dialled, those being closed, and those nobody uses (Options.Cap).
CapRespected ==
    Cardinality(idle) + Cardinality(closing) + Cardinality(ConnUsers) <= Cap

\* Parked connections never outnumber the width, though the width falls while
\* connections are lent out and dials are still on their way (refused, put).
IdleWithinWidth == Cardinality(idle) <= width

Counted == {w \in Workers : CountedConn(w)}

\* open never counts fewer connections than there are (the comment on
\* discard: "the count cannot go negative here"), so a refusal never sets the
\* width below the connections that are working.
OpenNeverUndercounts == open >= Cardinality(idle) + Cardinality(Counted)

\* When Close returns, nothing the pool dialled is left and no token is out,
\* whatever Acquires and Releases raced with it.
ClosedHoldsNothing ==
    closer = "closed" => Live = {} /\ InCustody = {} /\ tokens = 0

\* A lease is on a connection with the mailbox its caller asked for selected,
\* although SELECT is skipped on a connection that already has it.
LeaseHasMailbox ==
    \A w \in Workers :
        pc[w] = "leased" =>
            held[w] # NoConn /\ want[w] \in {NoMailbox, selected[held[w]]}

\* A call of Acquire comes back, with a lease or an error: no worker waits for
\* ever on tokens lost to a shrink, a failed dial or a shutdown.
AcquireReturns ==
    \A w \in Workers : pc[w] = "wait" ~> pc[w] \in {"leased", "out"}

\* Close comes back although workers keep arriving while it drains.
CloseReturns == closer = "signal" ~> closer = "closed"

\* The pool keeps the promise of ConnLeases.
Promise == INSTANCE ConnLeases
    WITH lease <- [w \in Workers |-> IF pc[w] = "leased" THEN held[w] ELSE NoConn],
         shut  <- closer \in {"logout", "closed"}

KeepsPromise == Promise!Spec

\* "so the open count does not drift upwards" (the comment on discard): open
\* counts just the connections the pool has.
OpenIsExact ==
    open = Cardinality(idle) + Cardinality(closing) + Cardinality(Counted)

\* Nobody is ever about to send a token into a full channel: put and a failed
\* Acquire would block for ever, grow would block holding the lock.
SendsNeverBlock ==
    \A w \in Workers :
        pc[w] = "return" \/ (pc[w] = "grow" /\ MayGrow) => tokens < Cap

=============================================================================
