--------------------------- MODULE ConnPoolProofs ---------------------------
(***************************************************************************)
(* Machine-checked proofs about ConnPool, for any number of workers,       *)
(* connections and mailboxes and any Cap.                                  *)
(***************************************************************************)
EXTENDS ConnPool, Integers, FiniteSetTheorems, TLAPS

\* What a worker's place contributes to the three counts.
Custody(p) == IF p \in {"out", "wait", "grow"} THEN 0 ELSE 1
Using(p)   == IF p \in {"dial", "count", "select", "leased", "close"} THEN 1 ELSE 0
Counting(p) == IF p \in {"select", "leased", "discard"} THEN 1 ELSE 0

-----------------------------------------------------------------------------
(* The inductive invariant *)

\* A worker has a connection in hand just between the dial or the pop and the
\* close or the push.
HeldInPlace ==
    \A w \in Workers :
        held[w] # NoConn <=> pc[w] \in {"count", "select", "leased", "close"}

\* How far Close has come: nothing is idle once it has taken the list, and it
\* only gets there with every token.
ClosePhases ==
    /\ closed <=> closer # "open"
    /\ closer \in {"logout", "closed"} => toDrain = 0 /\ idle = {}
    /\ closer # "logout" => closing = {}

WithinCap == width + debt <= Cap

IInv ==
    /\ TypeOK
    /\ TokensConserved
    /\ WithinCap
    /\ CapRespected
    /\ OpenNeverUndercounts
    /\ IdleWithinWidth
    /\ Exclusive
    /\ HeldInPlace
    /\ ClosePhases
    /\ LeaseHasMailbox

-----------------------------------------------------------------------------
(* Counting workers *)

\* Two sets that agree except perhaps on x.
LEMMA Flip ==
    ASSUME NEW S, NEW T, NEW x, IsFiniteSet(S), S \ {x} = T \ {x}
    PROVE  /\ IsFiniteSet(T)
           /\ Cardinality(S) \in Nat
           /\ Cardinality(T) \in Nat
           /\ Cardinality(T) + (IF x \in S THEN 1 ELSE 0)
                 = Cardinality(S) + (IF x \in T THEN 1 ELSE 0)
<1>1. IsFiniteSet(S \ {x})
  BY FS_RemoveElement
<1>2. T = S \ {x} \/ T = (S \ {x}) \cup {x}
  OBVIOUS
<1>3. IsFiniteSet(T)
  BY <1>1, <1>2, FS_AddElement
<1>4. Cardinality(S) \in Nat /\ Cardinality(T) \in Nat /\ Cardinality(S \ {x}) \in Nat
  BY <1>1, <1>3, FS_CardinalityType
<1>5. Cardinality(S \ {x})
         = IF x \in S THEN Cardinality(S) - 1 ELSE Cardinality(S)
  BY FS_RemoveElement
<1>6. Cardinality(T \ {x})
         = IF x \in T THEN Cardinality(T) - 1 ELSE Cardinality(T)
  BY <1>3, FS_RemoveElement
<1>7. Cardinality(S \ {x}) = Cardinality(T \ {x})
  OBVIOUS
<1>. QED
  BY <1>3, <1>4, <1>5, <1>6, <1>7

\* The sets of workers that are counted are finite.
LEMMA CountsAreNat ==
    /\ IsFiniteSet(InCustody) /\ Cardinality(InCustody) \in Nat
    /\ IsFiniteSet(ConnUsers) /\ Cardinality(ConnUsers) \in Nat
    /\ IsFiniteSet(Counted) /\ Cardinality(Counted) \in Nat
<1>1. /\ InCustody \in SUBSET Workers
      /\ ConnUsers \in SUBSET Workers
      /\ Counted \in SUBSET Workers
  BY DEF InCustody, ConnUsers, Counted
<1>. QED
  BY <1>1, FS_Subset, FS_CardinalityType, PoolAssumption

\* How the three counts change when w moves to p.
Shift(w, p) ==
    /\ Cardinality(InCustody') \in Nat
    /\ Cardinality(ConnUsers') \in Nat
    /\ Cardinality(Counted') \in Nat
    /\ Cardinality(InCustody') + Custody(pc[w]) = Cardinality(InCustody) + Custody(p)
    /\ Cardinality(ConnUsers') + Using(pc[w]) = Cardinality(ConnUsers) + Using(p)
    /\ Cardinality(Counted') + Counting(pc[w]) = Cardinality(Counted) + Counting(p)

\* One worker moves from its place to another.
LEMMA Moves ==
    ASSUME NEW w \in Workers, NEW p, pc \in [Workers -> Steps],
           pc' = [pc EXCEPT ![w] = p]
    PROVE  Shift(w, p)
<1>1. /\ InCustody \ {w} = InCustody' \ {w}
      /\ w \in InCustody <=> Custody(pc[w]) = 1
      /\ w \in InCustody' <=> Custody(p) = 1
  BY DEF InCustody, HoldsToken, Custody
<1>2. /\ ConnUsers \ {w} = ConnUsers' \ {w}
      /\ w \in ConnUsers <=> Using(pc[w]) = 1
      /\ w \in ConnUsers' <=> Using(p) = 1
  BY DEF ConnUsers, Using
<1>3. /\ Counted \ {w} = Counted' \ {w}
      /\ w \in Counted <=> Counting(pc[w]) = 1
      /\ w \in Counted' <=> Counting(p) = 1
  BY DEF Counted, CountedConn, Counting
<1>4. /\ Custody(pc[w]) \in {0, 1} /\ Custody(p) \in {0, 1}
      /\ Using(pc[w]) \in {0, 1} /\ Using(p) \in {0, 1}
      /\ Counting(pc[w]) \in {0, 1} /\ Counting(p) \in {0, 1}
  BY DEF Custody, Using, Counting
<1>5. /\ Cardinality(InCustody') \in Nat
      /\ Cardinality(InCustody') + Custody(pc[w])
            = Cardinality(InCustody) + Custody(p)
  BY <1>1, <1>4, CountsAreNat, Flip
<1>6. /\ Cardinality(ConnUsers') \in Nat
      /\ Cardinality(ConnUsers') + Using(pc[w])
            = Cardinality(ConnUsers) + Using(p)
  BY <1>2, <1>4, CountsAreNat, Flip
<1>7. /\ Cardinality(Counted') \in Nat
      /\ Cardinality(Counted') + Counting(pc[w])
            = Cardinality(Counted) + Counting(p)
  BY <1>3, <1>4, CountsAreNat, Flip
<1>. QED
  BY <1>5, <1>6, <1>7 DEF Shift

\* The idle list gains or loses one connection.
LEMMA IdleCounts ==
    ASSUME idle \in SUBSET Conns, NEW c
    PROVE  /\ IsFiniteSet(idle) /\ Cardinality(idle) \in Nat
           /\ c \in idle => Cardinality(idle \ {c}) = Cardinality(idle) - 1
           /\ c \notin idle => Cardinality(idle \cup {c}) = Cardinality(idle) + 1
<1>1. IsFiniteSet(idle)
  BY FS_Subset, PoolAssumption
<1>. QED
  BY <1>1, FS_CardinalityType, FS_AddElement, FS_RemoveElement

-----------------------------------------------------------------------------
(* Every step keeps the invariant *)

LEMMA InitInv == Init => IInv
<1>. SUFFICES ASSUME Init PROVE IInv
  OBVIOUS
<1>1. InCustody = {} /\ ConnUsers = {} /\ Counted = {}
  BY DEF Init, InCustody, HoldsToken, ConnUsers, Counted, CountedConn
<1>2. Cardinality({}) = 0
  BY FS_EmptySet
<1>3. TypeOK
  <2>1. Cap \in Nat /\ Cap >= 1
    BY PoolAssumption
  <2>2. /\ tokens \in 0..Cap /\ width \in 1..Cap /\ debt \in 0..Cap
        /\ open \in Nat /\ faults \in Nat /\ toDrain \in 0..Cap
    BY <2>1 DEF Init
  <2>3. /\ pc \in [Workers -> Steps]
        /\ held \in [Workers -> Conns \cup {NoConn}]
        /\ want \in [Workers -> Mailboxes \cup {NoMailbox}]
        /\ attempt \in [Workers -> {"fresh", "reused", "second"}]
        /\ result \in [Workers -> {"nil", "error", "room"}]
        /\ selected \in [Conns -> Mailboxes \cup {NoMailbox}]
    BY DEF Init, Steps
  <2>. QED
    BY <2>2, <2>3 DEF Init, TypeOK
<1>4. TokensConserved /\ WithinCap /\ CapRespected /\ OpenNeverUndercounts
      /\ IdleWithinWidth
  BY <1>1, <1>2, PoolAssumption
  DEF Init, TokensConserved, WithinCap, CapRespected, OpenNeverUndercounts,
      IdleWithinWidth
<1>5. Exclusive /\ HeldInPlace /\ ClosePhases /\ LeaseHasMailbox
  BY DEF Init, Exclusive, HeldInPlace, ClosePhases, LeaseHasMailbox
<1>. QED
  BY <1>3, <1>4, <1>5 DEF IInv

\* w moves to p and nothing the invariant speaks of changes otherwise.
Quiet(w, p) ==
    /\ pc' = [pc EXCEPT ![w] = p]
    /\ UNCHANGED <<tokens, closed, idle, width, debt, open, held, selected,
                   closer, toDrain, closing>>
    /\ Custody(p) = Custody(pc[w])
    /\ Using(p) <= Using(pc[w])
    /\ Counting(p) <= Counting(pc[w])
    /\ p \in {"count", "select", "leased", "close"}
          <=> pc[w] \in {"count", "select", "leased", "close"}
    /\ p # "leased"
    /\ \A v \in Workers \ {w} : want'[v] = want[v]

\* A worker moves on without touching the pool, the connections or the tokens.
LEMMA LocalMove ==
    ASSUME IInv, TypeOK', NEW w \in Workers, NEW p \in Steps,
           Quiet(w, p)
    PROVE  IInv'
<1>. USE DEF Quiet
<1>1. Shift(w, p)
  BY Moves DEF IInv, TypeOK
<1>2. /\ Custody(pc[w]) \in Nat /\ Custody(p) \in Nat
      /\ Using(pc[w]) \in Nat /\ Using(p) \in Nat
      /\ Counting(pc[w]) \in Nat /\ Counting(p) \in Nat
  BY DEF Custody, Using, Counting
<1>3. TokensConserved' /\ WithinCap' /\ CapRespected' /\ OpenNeverUndercounts'
      /\ IdleWithinWidth'
  <2>1. /\ Cardinality(InCustody') = Cardinality(InCustody)
        /\ Cardinality(ConnUsers') <= Cardinality(ConnUsers)
        /\ Cardinality(Counted') <= Cardinality(Counted)
    BY <1>1, <1>2, CountsAreNat DEF Shift
  <2>2. Cardinality(idle) \in Nat /\ Cardinality(closing) \in Nat
    BY FS_Subset, FS_CardinalityType, PoolAssumption DEF IInv, TypeOK
  <2>. QED
    BY <2>1, <2>2, <1>1, CountsAreNat, PoolAssumption
    DEF IInv, TypeOK, Shift, TokensConserved, WithinCap, CapRespected,
        OpenNeverUndercounts, IdleWithinWidth
<1>4. Exclusive' /\ HeldInPlace' /\ ClosePhases' /\ LeaseHasMailbox'
  BY DEF IInv, TypeOK, Exclusive, HeldInPlace, ClosePhases, LeaseHasMailbox
<1>. QED
  BY <1>3, <1>4 DEF IInv

LEMMA AcquireInv ==
    ASSUME IInv, NEW w \in Workers, NEW m \in Mailboxes \cup {NoMailbox}, Acquire(w, m)
    PROVE  IInv'
<1>. USE DEF IInv, TypeOK, Acquire, channelVars, clockVars, widthVars,
             closeVars
<1>1. TypeOK'
  BY DEF Steps
<1>2. Quiet(w, "wait")
  BY DEF Quiet, Custody, Using, Counting
<1>. QED
  BY <1>1, <1>2, LocalMove DEF Steps

LEMMA AcquireClosedInv ==
    ASSUME IInv, NEW w \in Workers, AcquireClosed(w)
    PROVE  IInv'
<1>. USE DEF IInv, TypeOK, AcquireClosed, channelVars, clockVars, widthVars,
             closeVars
<1>1. TypeOK'
  BY DEF Steps
<1>2. Quiet(w, "out")
  BY DEF Quiet, Custody, Using, Counting
<1>. QED
  BY <1>1, <1>2, LocalMove DEF Steps

LEMMA AcquireCancelledInv ==
    ASSUME IInv, NEW w \in Workers, AcquireCancelled(w)
    PROVE  IInv'
<1>. USE DEF IInv, TypeOK, AcquireCancelled, channelVars, clockVars, widthVars,
             closeVars
<1>1. TypeOK'
  BY DEF Steps
<1>2. Quiet(w, "out")
  BY DEF Quiet, Custody, Using, Counting
<1>. QED
  BY <1>1, <1>2, LocalMove DEF Steps

LEMMA DialFailsInv ==
    ASSUME IInv, NEW w \in Workers, DialFails(w)
    PROVE  IInv'
<1>. USE DEF IInv, TypeOK, DialFails, CallFails, channelVars, clockVars, widthVars,
             closeVars
<1>1. TypeOK'
  BY DEF Steps
<1>2. Quiet(w, "refused")
  BY DEF Quiet, Custody, Using, Counting
<1>. QED
  BY <1>1, <1>2, LocalMove DEF Steps

LEMMA NotRefusedInv ==
    ASSUME IInv, NEW w \in Workers, NotRefused(w)
    PROVE  IInv'
<1>. USE DEF IInv, TypeOK, NotRefused, GiveUp, channelVars, clockVars, widthVars,
             closeVars
<1>1. TypeOK'
  BY DEF Steps
<1>2. Quiet(w, "pay")
  BY DEF Quiet, Custody, Using, Counting
<1>. QED
  BY <1>1, <1>2, LocalMove DEF Steps

LEMMA AlreadyNarrowInv ==
    ASSUME IInv, NEW w \in Workers, AlreadyNarrow(w)
    PROVE  IInv'
<1>. USE DEF IInv, TypeOK, AlreadyNarrow, channelVars, clockVars, widthVars,
             closeVars
<1>1. TypeOK'
  BY DEF Steps
<1>2. Quiet(w, "holds")
  BY DEF Quiet, Custody, Using, Counting
<1>. QED
  BY <1>1, <1>2, LocalMove DEF Steps

LEMMA JudgeRefusalInv ==
    ASSUME IInv, NEW w \in Workers, JudgeRefusal(w)
    PROVE  IInv'
<1>. USE DEF IInv, TypeOK, JudgeRefusal, GiveUp, channelVars, clockVars, widthVars,
             closeVars
<1>1. TypeOK'
  BY DEF Steps
<1>2. Quiet(w, "pay")
  BY DEF Quiet, Custody, Using, Counting
<1>. QED
  BY <1>1, <1>2, LocalMove DEF Steps

LEMMA NoGrowInv ==
    ASSUME IInv, NEW w \in Workers, NoGrow(w)
    PROVE  IInv'
<1>. USE DEF IInv, TypeOK, NoGrow, channelVars, clockVars, widthVars,
             closeVars
<1>1. TypeOK'
  BY DEF Steps
<1>2. Quiet(w, "out")
  BY DEF Quiet, Custody, Using, Counting
<1>. QED
  BY <1>1, <1>2, LocalMove DEF Steps

LEMMA IdleIsNat ==
    ASSUME TypeOK
    PROVE  Cardinality(idle) \in Nat /\ Cardinality(closing) \in Nat
BY FS_Subset, FS_CardinalityType, PoolAssumption DEF TypeOK

\* While somebody has a token in hand, Close has not got past its wait.
LEMMA InHand ==
    ASSUME IInv, NEW w \in Workers, HoldsToken(w)
    PROVE  closer \notin {"logout", "closed"} /\ closing = {}
<1>1. Cardinality(InCustody) # 0
  BY CountsAreNat, FS_EmptySet DEF InCustody
<1>. QED
  BY <1>1, CountsAreNat DEF IInv, TypeOK, TokensConserved, ClosePhases

LEMMA ReceiveTokenInv ==
    ASSUME IInv, NEW w \in Workers, ReceiveToken(w)
    PROVE  IInv'
<1>. USE DEF IInv, TypeOK, ReceiveToken, channelVars, clockVars, widthVars,
             closeVars
<1>1. Shift(w, "take")
  BY Moves
<1>2. TypeOK'
  BY PoolAssumption DEF Steps
<1>3. TokensConserved' /\ WithinCap' /\ CapRespected' /\ OpenNeverUndercounts'
      /\ IdleWithinWidth'
  <2>1. TokensConserved' /\ WithinCap'
    BY <1>1, CountsAreNat, PoolAssumption, IdleIsNat
    DEF TokensConserved, WithinCap, Shift, Custody, Using, Counting
  <2>2. CapRespected' /\ OpenNeverUndercounts' /\ IdleWithinWidth'
    BY <1>1, CountsAreNat, PoolAssumption, IdleIsNat
    DEF CapRespected, OpenNeverUndercounts, IdleWithinWidth, Shift, Custody, Using, Counting
  <2>. QED
    BY <2>1, <2>2
<1>4. Exclusive' /\ HeldInPlace' /\ ClosePhases' /\ LeaseHasMailbox'
  BY PoolAssumption DEF Exclusive, HeldInPlace, ClosePhases, LeaseHasMailbox
<1>. QED
  BY <1>2, <1>3, <1>4

LEMMA TakeNothingInv ==
    ASSUME IInv, NEW w \in Workers, TakeNothing(w)
    PROVE  IInv'
<1>. USE DEF IInv, TypeOK, TakeNothing, MustDial, channelVars, clockVars, widthVars,
             closeVars
<1>0. Cardinality(ConnUsers') <= Cardinality(InCustody') /\ closing = {}
  <2>1. ConnUsers' \in SUBSET InCustody' /\ InCustody' \in SUBSET Workers
    BY DEF ConnUsers, InCustody, HoldsToken
  <2>2. closing = {}
    BY InHand DEF HoldsToken
  <2>. QED
    BY <2>1, <2>2, FS_Subset, PoolAssumption
<1>1. Shift(w, "dial")
  BY Moves
<1>2. TypeOK'
  BY PoolAssumption DEF Steps
<1>3. TokensConserved' /\ WithinCap' /\ OpenNeverUndercounts' /\ IdleWithinWidth'
  BY <1>1, CountsAreNat, PoolAssumption, IdleIsNat
  DEF TokensConserved, WithinCap, OpenNeverUndercounts,
      IdleWithinWidth, Shift, Custody, Using, Counting
<1>5. CapRespected'
  <2>1. Cardinality(idle') = 0 /\ Cardinality(closing') = 0
    BY <1>0, FS_EmptySet
  <2>2. tokens' + Cardinality(InCustody') <= Cap
    BY <1>1, <1>3, PoolAssumption DEF TokensConserved, WithinCap, Shift
  <2>. QED
    BY <1>0, <1>1, <1>2, <2>1, <2>2, PoolAssumption DEF CapRespected, Shift
<1>4. Exclusive' /\ HeldInPlace' /\ ClosePhases' /\ LeaseHasMailbox'
  BY PoolAssumption DEF Exclusive, HeldInPlace, ClosePhases, LeaseHasMailbox
<1>. QED
  BY <1>2, <1>3, <1>4, <1>5

LEMMA DialAcceptedInv ==
    ASSUME IInv, NEW w \in Workers, DialAccepted(w)
    PROVE  IInv'
<1>. USE DEF IInv, TypeOK, DialAccepted, channelVars, clockVars, widthVars,
             closeVars
<1>0. PICK c \in Conns \ Live : held' = [held EXCEPT ![w] = c]
  OBVIOUS
<1>5. c # NoConn /\ c \notin idle \cup closing /\ \A v \in Workers : held[v] # c
  BY <1>0, PoolAssumption DEF Live
<1>1. Shift(w, "count")
  BY Moves
<1>2. TypeOK'
  BY PoolAssumption DEF Steps
<1>3. TokensConserved' /\ WithinCap' /\ CapRespected' /\ OpenNeverUndercounts'
      /\ IdleWithinWidth'
  <2>1. TokensConserved' /\ WithinCap'
    BY <1>1, CountsAreNat, PoolAssumption, IdleIsNat
    DEF TokensConserved, WithinCap, Shift, Custody, Using, Counting
  <2>2. CapRespected' /\ OpenNeverUndercounts' /\ IdleWithinWidth'
    BY <1>1, CountsAreNat, PoolAssumption, IdleIsNat
    DEF CapRespected, OpenNeverUndercounts, IdleWithinWidth, Shift, Custody, Using, Counting
  <2>. QED
    BY <2>1, <2>2
<1>4. Exclusive' /\ HeldInPlace' /\ ClosePhases' /\ LeaseHasMailbox'
  BY PoolAssumption, <1>0, <1>5 DEF Exclusive, HeldInPlace, ClosePhases, LeaseHasMailbox
<1>. QED
  BY <1>2, <1>3, <1>4

LEMMA CountDialInv ==
    ASSUME IInv, NEW w \in Workers, CountDial(w)
    PROVE  IInv'
<1>. USE DEF IInv, TypeOK, CountDial, OpenWithDial, NeedsSelect, channelVars, clockVars, widthVars,
             closeVars
<1>1. Shift(w, pc'[w])
  BY Moves
<1>2. TypeOK'
  BY PoolAssumption DEF Steps
<1>3. TokensConserved' /\ WithinCap' /\ CapRespected' /\ OpenNeverUndercounts'
      /\ IdleWithinWidth'
  <2>1. TokensConserved' /\ WithinCap'
    BY <1>1, CountsAreNat, PoolAssumption, IdleIsNat
    DEF TokensConserved, WithinCap, Shift, Custody, Using, Counting
  <2>2. CapRespected' /\ OpenNeverUndercounts' /\ IdleWithinWidth'
    BY <1>1, CountsAreNat, PoolAssumption, IdleIsNat
    DEF CapRespected, OpenNeverUndercounts, IdleWithinWidth, Shift, Custody, Using, Counting
  <2>. QED
    BY <2>1, <2>2
<1>4. Exclusive' /\ HeldInPlace' /\ ClosePhases' /\ LeaseHasMailbox'
  BY PoolAssumption DEF Exclusive, HeldInPlace, ClosePhases, LeaseHasMailbox
<1>. QED
  BY <1>2, <1>3, <1>4

LEMMA DiscardInv ==
    ASSUME IInv, NEW w \in Workers, Discard(w)
    PROVE  IInv'
<1>. USE DEF IInv, TypeOK, Discard, GiveUp, channelVars, clockVars, widthVars,
             closeVars
<1>1. Shift(w, pc'[w])
  BY Moves
<1>2. TypeOK'
  <2>1. open - 1 \in Nat
    BY <1>1, CountsAreNat, IdleIsNat DEF OpenNeverUndercounts, Shift, Counting
  <2>. QED
    BY <2>1 DEF Steps
<1>3. TokensConserved' /\ WithinCap' /\ CapRespected' /\ OpenNeverUndercounts'
      /\ IdleWithinWidth'
  <2>1. TokensConserved' /\ WithinCap'
    BY <1>1, CountsAreNat, PoolAssumption, IdleIsNat
    DEF TokensConserved, WithinCap, Shift, Custody, Using, Counting
  <2>2. CapRespected' /\ OpenNeverUndercounts' /\ IdleWithinWidth'
    BY <1>1, CountsAreNat, PoolAssumption, IdleIsNat
    DEF CapRespected, OpenNeverUndercounts, IdleWithinWidth, Shift, Custody, Using, Counting
  <2>. QED
    BY <2>1, <2>2
<1>4. Exclusive' /\ HeldInPlace' /\ ClosePhases' /\ LeaseHasMailbox'
  BY PoolAssumption DEF Exclusive, HeldInPlace, ClosePhases, LeaseHasMailbox
<1>. QED
  BY <1>2, <1>3, <1>4

LEMMA CloseConnInv ==
    ASSUME IInv, NEW w \in Workers, CloseConn(w)
    PROVE  IInv'
<1>. USE DEF IInv, TypeOK, CloseConn, Forget, channelVars, clockVars, widthVars,
             closeVars
<1>1. Shift(w, "pay")
  BY Moves
<1>2. TypeOK'
  BY PoolAssumption DEF Steps
<1>3. TokensConserved' /\ WithinCap' /\ CapRespected' /\ OpenNeverUndercounts'
      /\ IdleWithinWidth'
  <2>1. TokensConserved' /\ WithinCap'
    BY <1>1, CountsAreNat, PoolAssumption, IdleIsNat
    DEF TokensConserved, WithinCap, Shift, Custody, Using, Counting
  <2>2. CapRespected' /\ OpenNeverUndercounts' /\ IdleWithinWidth'
    BY <1>1, CountsAreNat, PoolAssumption, IdleIsNat
    DEF CapRespected, OpenNeverUndercounts, IdleWithinWidth, Shift, Custody, Using, Counting
  <2>. QED
    BY <2>1, <2>2
<1>4. Exclusive' /\ HeldInPlace' /\ ClosePhases' /\ LeaseHasMailbox'
  BY PoolAssumption DEF Exclusive, HeldInPlace, ClosePhases, LeaseHasMailbox
<1>. QED
  BY <1>2, <1>3, <1>4

LEMMA SelectSucceedsInv ==
    ASSUME IInv, NEW w \in Workers, SelectSucceeds(w)
    PROVE  IInv'
<1>. USE DEF IInv, TypeOK, SelectSucceeds, channelVars, clockVars, widthVars,
             closeVars
<1>1. Shift(w, "leased")
  BY Moves
<1>2. TypeOK'
  BY PoolAssumption DEF Steps
<1>3. TokensConserved' /\ WithinCap' /\ CapRespected' /\ OpenNeverUndercounts'
      /\ IdleWithinWidth'
  <2>1. TokensConserved' /\ WithinCap'
    BY <1>1, CountsAreNat, PoolAssumption, IdleIsNat
    DEF TokensConserved, WithinCap, Shift, Custody, Using, Counting
  <2>2. CapRespected' /\ OpenNeverUndercounts' /\ IdleWithinWidth'
    BY <1>1, CountsAreNat, PoolAssumption, IdleIsNat
    DEF CapRespected, OpenNeverUndercounts, IdleWithinWidth, Shift, Custody, Using, Counting
  <2>. QED
    BY <2>1, <2>2
<1>4. Exclusive' /\ HeldInPlace' /\ ClosePhases' /\ LeaseHasMailbox'
  BY PoolAssumption DEF Exclusive, HeldInPlace, ClosePhases, LeaseHasMailbox
<1>. QED
  BY <1>2, <1>3, <1>4

LEMMA SelectFailsInv ==
    ASSUME IInv, NEW w \in Workers, SelectFails(w)
    PROVE  IInv'
<1>. USE DEF IInv, TypeOK, SelectFails, CallFails, Forget, GiveUp, channelVars, clockVars, widthVars,
             closeVars
<1>1. Shift(w, pc'[w])
  BY Moves
<1>2. TypeOK'
  <2>1. /\ pc' \in [Workers -> Steps]
        /\ attempt' \in [Workers -> {"fresh", "reused", "second"}]
        /\ result' \in [Workers -> {"nil", "error", "room"}]
    BY DEF Steps
  <2>2. held' \in [Workers -> Conns \cup {NoConn}]
    OBVIOUS
  <2>3. selected' \in [Conns -> Mailboxes \cup {NoMailbox}]
    OBVIOUS
  <2>4. faults' \in Nat
    OBVIOUS
  <2>. QED
    BY <2>1, <2>2, <2>3, <2>4
<1>3. TokensConserved' /\ WithinCap' /\ CapRespected' /\ OpenNeverUndercounts'
      /\ IdleWithinWidth'
  <2>1. TokensConserved' /\ WithinCap'
    BY <1>1, CountsAreNat, PoolAssumption, IdleIsNat
    DEF TokensConserved, WithinCap, Shift, Custody, Using, Counting
  <2>2. CapRespected' /\ OpenNeverUndercounts' /\ IdleWithinWidth'
    BY <1>1, CountsAreNat, PoolAssumption, IdleIsNat
    DEF CapRespected, OpenNeverUndercounts, IdleWithinWidth, Shift, Custody, Using, Counting
  <2>. QED
    BY <2>1, <2>2
<1>4. Exclusive' /\ HeldInPlace' /\ ClosePhases' /\ LeaseHasMailbox'
  BY PoolAssumption DEF Exclusive, HeldInPlace, ClosePhases, LeaseHasMailbox
<1>. QED
  BY <1>2, <1>3, <1>4

LEMMA PayDebtInv ==
    ASSUME IInv, NEW w \in Workers, PayDebt(w)
    PROVE  IInv'
<1>. USE DEF IInv, TypeOK, PayDebt, Owes, DebtAfterPaying, GoOn, channelVars, clockVars, widthVars,
             closeVars
<1>1. Shift(w, pc'[w])
  BY Moves
<1>2. TypeOK'
  BY PoolAssumption DEF Steps
<1>3. TokensConserved' /\ WithinCap' /\ CapRespected' /\ OpenNeverUndercounts'
      /\ IdleWithinWidth'
  <2>1. TokensConserved' /\ WithinCap'
    BY <1>1, CountsAreNat, PoolAssumption, IdleIsNat
    DEF TokensConserved, WithinCap, Shift, Custody, Using, Counting
  <2>2. CapRespected' /\ OpenNeverUndercounts' /\ IdleWithinWidth'
    BY <1>1, CountsAreNat, PoolAssumption, IdleIsNat
    DEF CapRespected, OpenNeverUndercounts, IdleWithinWidth, Shift, Custody, Using, Counting
  <2>. QED
    BY <2>1, <2>2
<1>4. Exclusive' /\ HeldInPlace' /\ ClosePhases' /\ LeaseHasMailbox'
  BY PoolAssumption DEF Exclusive, HeldInPlace, ClosePhases, LeaseHasMailbox
<1>. QED
  BY <1>2, <1>3, <1>4

LEMMA ReturnTokenInv ==
    ASSUME IInv, NEW w \in Workers, ReturnToken(w)
    PROVE  IInv'
<1>. USE DEF IInv, TypeOK, ReturnToken, GoOn, channelVars, clockVars, widthVars,
             closeVars
<1>1. Shift(w, pc'[w])
  BY Moves
<1>2. TypeOK'
  BY PoolAssumption DEF Steps
<1>3. TokensConserved' /\ WithinCap' /\ CapRespected' /\ OpenNeverUndercounts'
      /\ IdleWithinWidth'
  <2>1. TokensConserved' /\ WithinCap'
    BY <1>1, CountsAreNat, PoolAssumption, IdleIsNat
    DEF TokensConserved, WithinCap, Shift, Custody, Using, Counting
  <2>2. CapRespected' /\ OpenNeverUndercounts' /\ IdleWithinWidth'
    BY <1>1, CountsAreNat, PoolAssumption, IdleIsNat
    DEF CapRespected, OpenNeverUndercounts, IdleWithinWidth, Shift, Custody, Using, Counting
  <2>. QED
    BY <2>1, <2>2
<1>4. Exclusive' /\ HeldInPlace' /\ ClosePhases' /\ LeaseHasMailbox'
  BY PoolAssumption DEF Exclusive, HeldInPlace, ClosePhases, LeaseHasMailbox
<1>. QED
  BY <1>2, <1>3, <1>4

LEMMA GrowInv ==
    ASSUME IInv, NEW w \in Workers, Grow(w)
    PROVE  IInv'
<1>. USE DEF IInv, TypeOK, Grow, MayGrow, channelVars, clockVars, widthVars,
             closeVars
<1>1. Shift(w, "out")
  BY Moves
<1>2. TypeOK'
  <2>1. width' \in 1..Cap /\ tokens' \in 0..Cap
    BY PoolAssumption
  <2>. QED
    BY <2>1 DEF Steps
<1>3. TokensConserved' /\ WithinCap' /\ CapRespected' /\ OpenNeverUndercounts'
      /\ IdleWithinWidth'
  <2>1. TokensConserved' /\ WithinCap'
    BY <1>1, CountsAreNat, PoolAssumption, IdleIsNat
    DEF TokensConserved, WithinCap, Shift, Custody, Using, Counting
  <2>2. CapRespected' /\ OpenNeverUndercounts' /\ IdleWithinWidth'
    BY <1>1, CountsAreNat, PoolAssumption, IdleIsNat
    DEF CapRespected, OpenNeverUndercounts, IdleWithinWidth, Shift, Custody, Using, Counting
  <2>. QED
    BY <2>1, <2>2
<1>4. Exclusive' /\ HeldInPlace' /\ ClosePhases' /\ LeaseHasMailbox'
  BY PoolAssumption DEF Exclusive, HeldInPlace, ClosePhases, LeaseHasMailbox
<1>. QED
  BY <1>2, <1>3, <1>4

LEMMA SumBound == \A i, j, k \in Nat : i + j + k <= Cap => k <= Cap
BY PoolAssumption

LEMMA DebtBound == \A i \in 1..Cap, d \in Nat : i + d <= Cap => d \in 0..Cap
BY PoolAssumption

LEMMA ShrinkInv ==
    ASSUME IInv, NEW w \in Workers, Shrink(w)
    PROVE  IInv'
<1>. USE DEF IInv, TypeOK, Shrink, NarrowTo, Larger, Smaller, channelVars, clockVars, widthVars,
             closeVars
<1>1. Shift(w, "holds")
  BY Moves
<1>2. TypeOK'
  <2>1. width' \in 1..Cap /\ width' + debt' <= Cap /\ tokens' \in 0..Cap
        /\ debt' \in Nat
    BY PoolAssumption DEF WithinCap
  <2>2. debt' \in 0..Cap
    BY <2>1, DebtBound
  <2>3. pc' \in [Workers -> Steps]
    BY DEF Steps
  <2>. QED
    BY <2>1, <2>2, <2>3
<1>3. TokensConserved' /\ WithinCap' /\ CapRespected' /\ OpenNeverUndercounts'
      /\ IdleWithinWidth'
  <2>1. TokensConserved' /\ WithinCap'
    BY <1>1, CountsAreNat, PoolAssumption, IdleIsNat
    DEF TokensConserved, WithinCap, Shift, Custody, Using, Counting
  <2>2. CapRespected' /\ OpenNeverUndercounts' /\ IdleWithinWidth'
    BY <1>1, CountsAreNat, PoolAssumption, IdleIsNat
    DEF CapRespected, OpenNeverUndercounts, IdleWithinWidth, Shift, Custody, Using, Counting
  <2>. QED
    BY <2>1, <2>2
<1>4. Exclusive' /\ HeldInPlace' /\ ClosePhases' /\ LeaseHasMailbox'
  BY PoolAssumption DEF Exclusive, HeldInPlace, ClosePhases, LeaseHasMailbox
<1>. QED
  BY <1>2, <1>3, <1>4

LEMMA TakeIdleInv ==
    ASSUME IInv, NEW w \in Workers, TakeIdle(w)
    PROVE  IInv'
<1>. USE DEF IInv, TypeOK, TakeIdle, NeedsSelect, channelVars, clockVars, widthVars,
             closeVars
<1>0. PICK c \in idle : /\ idle' = idle \ {c}
                       /\ held' = [held EXCEPT ![w] = c]
                       /\ pc' = [pc EXCEPT ![w] = IF NeedsSelect(w, c)
                                                  THEN "select" ELSE "leased"]
  OBVIOUS
<1>1. pc' = [pc EXCEPT ![w] = pc'[w]] /\ pc'[w] \in {"select", "leased"}
  BY <1>0
<1>6. Shift(w, pc'[w])
  BY <1>1, Moves
<1>2. TypeOK'
  BY <1>0 DEF Steps
<1>3. Cardinality(idle') = Cardinality(idle) - 1
  BY <1>0, IdleCounts
<1>4. TokensConserved' /\ WithinCap' /\ CapRespected' /\ OpenNeverUndercounts'
      /\ IdleWithinWidth'
  <2>0. Cardinality(InCustody') = Cardinality(InCustody)
    BY <1>1, <1>6, CountsAreNat DEF Shift, Custody
  <2>1. TokensConserved' /\ WithinCap'
    BY <2>0 DEF TokensConserved, WithinCap
  <2>2. CapRespected' /\ OpenNeverUndercounts' /\ IdleWithinWidth'
    BY <1>1, <1>3, <1>6, CountsAreNat, PoolAssumption, IdleIsNat
    DEF CapRespected, OpenNeverUndercounts, IdleWithinWidth, Shift, Custody, Using, Counting
  <2>. QED
    BY <2>1, <2>2
<1>5. Exclusive' /\ HeldInPlace' /\ ClosePhases' /\ LeaseHasMailbox'
  BY <1>0, PoolAssumption DEF Exclusive, HeldInPlace, ClosePhases, LeaseHasMailbox
<1>. QED
  BY <1>2, <1>4, <1>5

\* put keeps the connection only while the list is within the width.
LEMMA ReleaseInv ==
    ASSUME IInv, NEW w \in Workers, NEW err \in {"nil", "error", "broken"},
           Release(w, err)
    PROVE  IInv'
<1>. USE DEF IInv, TypeOK, Release, IdleAfter, channelVars, clockVars, widthVars,
             closeVars
<1>0. held[w] \in Conns /\ held[w] \notin idle
  BY DEF HeldInPlace, Exclusive
<1>1. Shift(w, pc'[w])
  BY Moves
<1>2. IsFiniteSet(idle) /\ Cardinality(idle \cup {held[w]}) = Cardinality(idle) + 1
  BY <1>0, IdleCounts
<1>3. CASE Discards(err)
  <2>1. TypeOK'
    <3>1. open - 1 \in Nat
      BY <1>1, CountsAreNat, IdleIsNat DEF OpenNeverUndercounts, Shift, Counting
    <3>. QED
      BY <1>3, <3>1 DEF Steps
  <2>2. TokensConserved' /\ WithinCap' /\ CapRespected' /\ OpenNeverUndercounts'
        /\ IdleWithinWidth'
    <3>1. TokensConserved' /\ WithinCap'
        BY <1>1, <1>3, CountsAreNat, PoolAssumption, IdleIsNat
      DEF TokensConserved, WithinCap, Shift, Custody, Using, Counting
    <3>2. CapRespected' /\ OpenNeverUndercounts' /\ IdleWithinWidth'
        BY <1>1, <1>3, CountsAreNat, PoolAssumption, IdleIsNat
      DEF CapRespected, OpenNeverUndercounts, IdleWithinWidth, Shift, Custody, Using, Counting
    <3>. QED
      BY <3>1, <3>2
  <2>3. Exclusive' /\ HeldInPlace' /\ ClosePhases' /\ LeaseHasMailbox'
    BY <1>3, PoolAssumption DEF Exclusive, HeldInPlace, ClosePhases, LeaseHasMailbox
  <2>. QED
    BY <2>1, <2>2, <2>3
<1>4. CASE ~Discards(err)
  <2>1. ~closed /\ open <= width
    BY <1>4 DEF Discards
  <2>2. TypeOK'
    BY <1>0, <1>4 DEF Steps
  <2>3. idle' = idle \cup {held[w]}
    BY <1>4
  <2>4. TokensConserved' /\ WithinCap' /\ CapRespected' /\ OpenNeverUndercounts'
    <3>1. /\ Cardinality(InCustody') = Cardinality(InCustody)
          /\ Cardinality(ConnUsers') + 1 = Cardinality(ConnUsers)
          /\ Cardinality(Counted') + 1 = Cardinality(Counted)
          /\ Cardinality(idle') = Cardinality(idle) + 1
      BY <1>1, <1>2, <1>4, <2>3, CountsAreNat
      DEF Shift, Custody, Using, Counting
    <3>2. TokensConserved' /\ WithinCap'
      BY <3>1, <1>4 DEF TokensConserved, WithinCap
    <3>3. CapRespected' /\ OpenNeverUndercounts'
      BY <3>1, <1>4, CountsAreNat, <1>1, IdleIsNat, PoolAssumption
      DEF CapRespected, OpenNeverUndercounts, Shift
    <3>. QED
      BY <3>2, <3>3
  <2>5. IdleWithinWidth'
    <3>1. Cardinality(idle) + 1 <= open
      BY <1>1, CountsAreNat, IdleIsNat
      DEF OpenNeverUndercounts, Shift, Custody, Using, Counting
    <3>. QED
      BY <1>2, <2>1, <2>3, <3>1, IdleIsNat, PoolAssumption DEF IdleWithinWidth
  <2>6. Exclusive' /\ HeldInPlace' /\ LeaseHasMailbox'
    BY <1>0, <1>4, PoolAssumption DEF Exclusive, HeldInPlace, LeaseHasMailbox,
       ClosePhases
  <2>7. ClosePhases'
    BY <1>4, <2>1 DEF ClosePhases
  <2>. QED
    BY <2>2, <2>4, <2>5, <2>6, <2>7
<1>. QED
  BY <1>3, <1>4

-----------------------------------------------------------------------------
(* Steps of Close and of the environment *)

\* The workers stand still.
LEMMA StandStill ==
    ASSUME UNCHANGED pc
    PROVE  /\ Cardinality(InCustody') = Cardinality(InCustody)
           /\ Cardinality(ConnUsers') = Cardinality(ConnUsers)
           /\ Cardinality(Counted') = Cardinality(Counted)
<1>1. InCustody' = InCustody /\ ConnUsers' = ConnUsers /\ Counted' = Counted
  BY DEF InCustody, HoldsToken, ConnUsers, Counted, CountedConn
<1>. QED
  BY <1>1

LEMMA BeginCloseInv ==
    ASSUME IInv, BeginClose
    PROVE  IInv'
<1>. USE DEF IInv, TypeOK, BeginClose, Circulating, channelVars, clockVars, widthVars,
             workerVars, closeVars
<1>1. TypeOK'
  BY PoolAssumption DEF WithinCap
<1>2. TokensConserved' /\ WithinCap' /\ CapRespected' /\ OpenNeverUndercounts'
      /\ IdleWithinWidth'
  <2>1. TokensConserved' /\ WithinCap'
    BY StandStill, CountsAreNat, PoolAssumption, IdleIsNat
    DEF TokensConserved, WithinCap, ClosePhases
  <2>2. CapRespected' /\ OpenNeverUndercounts' /\ IdleWithinWidth'
    BY StandStill, CountsAreNat, PoolAssumption, IdleIsNat
    DEF CapRespected, OpenNeverUndercounts, IdleWithinWidth, ClosePhases
  <2>. QED
    BY <2>1, <2>2
<1>3. Exclusive' /\ HeldInPlace' /\ ClosePhases' /\ LeaseHasMailbox'
  BY PoolAssumption DEF Exclusive, HeldInPlace, ClosePhases, LeaseHasMailbox
<1>. QED
  BY <1>1, <1>2, <1>3

LEMMA SignalDoneInv ==
    ASSUME IInv, SignalDone
    PROVE  IInv'
<1>. USE DEF IInv, TypeOK, SignalDone, channelVars, clockVars, widthVars,
             workerVars, closeVars
<1>1. TypeOK'
  BY PoolAssumption
<1>2. TokensConserved' /\ WithinCap' /\ CapRespected' /\ OpenNeverUndercounts'
      /\ IdleWithinWidth'
  <2>1. TokensConserved' /\ WithinCap'
    BY StandStill, CountsAreNat, PoolAssumption, IdleIsNat
    DEF TokensConserved, WithinCap
  <2>2. CapRespected' /\ OpenNeverUndercounts' /\ IdleWithinWidth'
    BY StandStill, CountsAreNat, PoolAssumption, IdleIsNat
    DEF CapRespected, OpenNeverUndercounts, IdleWithinWidth
  <2>. QED
    BY <2>1, <2>2
<1>3. Exclusive' /\ HeldInPlace' /\ ClosePhases' /\ LeaseHasMailbox'
  BY PoolAssumption DEF Exclusive, HeldInPlace, ClosePhases, LeaseHasMailbox
<1>. QED
  BY <1>1, <1>2, <1>3

LEMMA DrainTokenInv ==
    ASSUME IInv, DrainToken
    PROVE  IInv'
<1>. USE DEF IInv, TypeOK, DrainToken, channelVars, clockVars, widthVars,
             workerVars, closeVars
<1>1. TypeOK'
  BY PoolAssumption
<1>2. TokensConserved'
  <2>1. closed /\ tokens \in Nat /\ toDrain \in Nat
    BY PoolAssumption DEF ClosePhases
  <2>2. tokens + Cardinality(InCustody) = toDrain
    BY <2>1 DEF TokensConserved
  <2>3. tokens - 1 + Cardinality(InCustody) = toDrain - 1
    BY <2>1, <2>2, CountsAreNat
  <2>. QED
    BY <2>1, <2>3, StandStill DEF TokensConserved
<1>4. WithinCap' /\ CapRespected' /\ OpenNeverUndercounts' /\ IdleWithinWidth'
  BY StandStill, CountsAreNat, PoolAssumption, IdleIsNat
  DEF WithinCap, CapRespected, OpenNeverUndercounts, IdleWithinWidth
<1>3. Exclusive' /\ HeldInPlace' /\ ClosePhases' /\ LeaseHasMailbox'
  BY PoolAssumption DEF Exclusive, HeldInPlace, ClosePhases, LeaseHasMailbox
<1>. QED
  BY <1>1, <1>2, <1>3, <1>4

LEMMA TakeIdleListInv ==
    ASSUME IInv, TakeIdleList
    PROVE  IInv'
<1>. USE DEF IInv, TypeOK, TakeIdleList, Drained, channelVars, clockVars, widthVars,
             workerVars, closeVars
<1>0. /\ Cardinality(idle') = 0
      /\ Cardinality(closing') = Cardinality(idle)
      /\ Cardinality(closing) = 0
  BY FS_EmptySet DEF ClosePhases
<1>1. TypeOK'
  BY PoolAssumption
<1>2. TokensConserved' /\ WithinCap' /\ CapRespected' /\ OpenNeverUndercounts'
      /\ IdleWithinWidth'
  <2>1. TokensConserved' /\ WithinCap'
    BY StandStill, CountsAreNat, PoolAssumption, IdleIsNat, <1>0
    DEF TokensConserved, WithinCap
  <2>2. CapRespected' /\ OpenNeverUndercounts' /\ IdleWithinWidth'
    BY StandStill, CountsAreNat, PoolAssumption, IdleIsNat, <1>0
    DEF CapRespected, OpenNeverUndercounts, IdleWithinWidth
  <2>. QED
    BY <2>1, <2>2
<1>3. Exclusive' /\ HeldInPlace' /\ ClosePhases' /\ LeaseHasMailbox'
  BY PoolAssumption DEF Exclusive, HeldInPlace, ClosePhases, LeaseHasMailbox
<1>. QED
  BY <1>1, <1>2, <1>3

LEMMA LogoutAllInv ==
    ASSUME IInv, LogoutAll
    PROVE  IInv'
<1>. USE DEF IInv, TypeOK, LogoutAll, channelVars, clockVars, widthVars,
             workerVars, closeVars
<1>1. TypeOK'
  BY PoolAssumption
<1>2. TokensConserved' /\ WithinCap' /\ CapRespected' /\ OpenNeverUndercounts'
      /\ IdleWithinWidth'
  <2>1. TokensConserved' /\ WithinCap'
    BY StandStill, CountsAreNat, PoolAssumption, IdleIsNat, FS_EmptySet
    DEF TokensConserved, WithinCap
  <2>2. CapRespected' /\ OpenNeverUndercounts' /\ IdleWithinWidth'
    BY StandStill, CountsAreNat, PoolAssumption, IdleIsNat, FS_EmptySet
    DEF CapRespected, OpenNeverUndercounts, IdleWithinWidth
  <2>. QED
    BY <2>1, <2>2
<1>3. Exclusive' /\ HeldInPlace' /\ ClosePhases' /\ LeaseHasMailbox'
  BY PoolAssumption DEF Exclusive, HeldInPlace, ClosePhases, LeaseHasMailbox
<1>. QED
  BY <1>1, <1>2, <1>3

LEMMA WindowPassesInv ==
    ASSUME IInv, WindowPasses
    PROVE  IInv'
<1>. USE DEF IInv, TypeOK, WindowPasses, channelVars, clockVars, widthVars,
             workerVars, closeVars
<1>1. TypeOK'
  BY PoolAssumption
<1>2. TokensConserved' /\ WithinCap' /\ CapRespected' /\ OpenNeverUndercounts'
      /\ IdleWithinWidth'
  <2>1. TokensConserved' /\ WithinCap'
    BY StandStill, CountsAreNat, PoolAssumption, IdleIsNat
    DEF TokensConserved, WithinCap
  <2>2. CapRespected' /\ OpenNeverUndercounts' /\ IdleWithinWidth'
    BY StandStill, CountsAreNat, PoolAssumption, IdleIsNat
    DEF CapRespected, OpenNeverUndercounts, IdleWithinWidth
  <2>. QED
    BY <2>1, <2>2
<1>3. Exclusive' /\ HeldInPlace' /\ ClosePhases' /\ LeaseHasMailbox'
  BY PoolAssumption DEF Exclusive, HeldInPlace, ClosePhases, LeaseHasMailbox
<1>. QED
  BY <1>1, <1>2, <1>3

LEMMA RefusalAgesInv ==
    ASSUME IInv, RefusalAges
    PROVE  IInv'
<1>. USE DEF IInv, TypeOK, RefusalAges, channelVars, clockVars, widthVars,
             workerVars, closeVars
<1>1. TypeOK'
  BY PoolAssumption
<1>2. TokensConserved' /\ WithinCap' /\ CapRespected' /\ OpenNeverUndercounts'
      /\ IdleWithinWidth'
  <2>1. TokensConserved' /\ WithinCap'
    BY StandStill, CountsAreNat, PoolAssumption, IdleIsNat
    DEF TokensConserved, WithinCap
  <2>2. CapRespected' /\ OpenNeverUndercounts' /\ IdleWithinWidth'
    BY StandStill, CountsAreNat, PoolAssumption, IdleIsNat
    DEF CapRespected, OpenNeverUndercounts, IdleWithinWidth
  <2>. QED
    BY <2>1, <2>2
<1>3. Exclusive' /\ HeldInPlace' /\ ClosePhases' /\ LeaseHasMailbox'
  BY PoolAssumption DEF Exclusive, HeldInPlace, ClosePhases, LeaseHasMailbox
<1>. QED
  BY <1>1, <1>2, <1>3

LEMMA GrowthAgesInv ==
    ASSUME IInv, GrowthAges
    PROVE  IInv'
<1>. USE DEF IInv, TypeOK, GrowthAges, channelVars, clockVars, widthVars,
             workerVars, closeVars
<1>1. TypeOK'
  BY PoolAssumption
<1>2. TokensConserved' /\ WithinCap' /\ CapRespected' /\ OpenNeverUndercounts'
      /\ IdleWithinWidth'
  <2>1. TokensConserved' /\ WithinCap'
    BY StandStill, CountsAreNat, PoolAssumption, IdleIsNat
    DEF TokensConserved, WithinCap
  <2>2. CapRespected' /\ OpenNeverUndercounts' /\ IdleWithinWidth'
    BY StandStill, CountsAreNat, PoolAssumption, IdleIsNat
    DEF CapRespected, OpenNeverUndercounts, IdleWithinWidth
  <2>. QED
    BY <2>1, <2>2
<1>3. Exclusive' /\ HeldInPlace' /\ ClosePhases' /\ LeaseHasMailbox'
  BY PoolAssumption DEF Exclusive, HeldInPlace, ClosePhases, LeaseHasMailbox
<1>. QED
  BY <1>1, <1>2, <1>3

LEMMA StutterInv == IInv /\ UNCHANGED vars => IInv'
<1>. SUFFICES ASSUME IInv, UNCHANGED vars PROVE IInv'
  OBVIOUS
<1>. USE DEF vars, channelVars, clockVars, widthVars,
             workerVars, closeVars
<1>1. InCustody' = InCustody /\ ConnUsers' = ConnUsers /\ Counted' = Counted
  BY DEF InCustody, HoldsToken, ConnUsers, Counted, CountedConn
<1>. QED
  BY <1>1 DEF IInv, TypeOK, TokensConserved, WithinCap, CapRespected,
     OpenNeverUndercounts, IdleWithinWidth, Exclusive, HeldInPlace, ClosePhases,
     LeaseHasMailbox

LEMMA NextInv == IInv /\ [Next]_vars => IInv'
<1>. SUFFICES ASSUME IInv, [Next]_vars PROVE IInv'
  OBVIOUS
<1>1. CASE \E w \in Workers : AcquireSteps(w)
  BY <1>1, AcquireInv, ReceiveTokenInv, AcquireClosedInv, AcquireCancelledInv,
     TakeIdleInv, TakeNothingInv, DialAcceptedInv, CountDialInv, DialFailsInv,
     NotRefusedInv, AlreadyNarrowInv, ShrinkInv, JudgeRefusalInv,
     SelectSucceedsInv, SelectFailsInv, DiscardInv
  DEF AcquireSteps
<1>2. CASE \E w \in Workers : ReleaseSteps(w)
  BY <1>2, ReleaseInv, CloseConnInv, PayDebtInv, ReturnTokenInv, GrowInv, NoGrowInv
  DEF ReleaseSteps
<1>3. CASE CloseSteps
  BY <1>3, BeginCloseInv, SignalDoneInv, DrainTokenInv, TakeIdleListInv, LogoutAllInv
  DEF CloseSteps
<1>4. CASE ClockSteps
  BY <1>4, WindowPassesInv, RefusalAgesInv, GrowthAgesInv DEF ClockSteps
<1>5. CASE UNCHANGED vars
  BY <1>5, StutterInv
<1>. QED
  BY <1>1, <1>2, <1>3, <1>4, <1>5 DEF Next

-----------------------------------------------------------------------------
(* The theorems *)

\* The strengthened invariant holds in every behaviour of the pool.
THEOREM PoolInvariant == Spec => []IInv
<1>. QED
  BY InitInv, NextInv, PTL DEF Spec

\* Every variable keeps its type; in particular width stays in 1..Cap whatever
\* refused and grow do to it, and open never goes below zero in put or discard.
THEOREM TypeCorrect == Spec => []TypeOK
<1>1. IInv => TypeOK
  BY DEF IInv
<1>. QED
  BY <1>1, PoolInvariant, PTL

\* The sum that the comment on Pool.tokens claims is kept by every path through
\* Acquire, Release, refused, payDebt, grow and Close.
THEOREM TokensAreConserved == Spec => []TokensConserved
<1>1. IInv => TokensConserved
  BY DEF IInv
<1>. QED
  BY <1>1, PoolInvariant, PTL

\* Options.Cap bounds what the server sees, for every Cap and any number of workers.
THEOREM CapIsRespected == Spec => []CapRespected
<1>1. IInv => CapRespected
  BY DEF IInv
<1>. QED
  BY <1>1, PoolInvariant, PTL

\* No connection is lent twice, or lent while it is idle or being logged out.
THEOREM LeasesAreExclusive == Spec => []Exclusive
<1>1. IInv => Exclusive
  BY DEF IInv
<1>. QED
  BY <1>1, PoolInvariant, PTL

\* A refusal that reads open never narrows the pool below what is working.
THEOREM OpenIsAnUpperBound == Spec => []OpenNeverUndercounts
<1>1. IInv => OpenNeverUndercounts
  BY DEF IInv
<1>. QED
  BY <1>1, PoolInvariant, PTL

\* put parks no more than the width, however the width moves meanwhile.
THEOREM IdleStaysWithinWidth == Spec => []IdleWithinWidth
<1>1. IInv => IdleWithinWidth
  BY DEF IInv
<1>. QED
  BY <1>1, PoolInvariant, PTL

\* A lease is on the mailbox that was asked for, although ready skips SELECT.
THEOREM LeasesHaveTheirMailbox == Spec => []LeaseHasMailbox
<1>1. IInv => LeaseHasMailbox
  BY DEF IInv
<1>. QED
  BY <1>1, PoolInvariant, PTL

\* After Close nothing is left that could have been leaked.
THEOREM ClosedPoolIsEmpty == Spec => []ClosedHoldsNothing
<1>1. IInv => ClosedHoldsNothing
  <2>. SUFFICES ASSUME IInv, closer = "closed" PROVE Live = {} /\ InCustody = {} /\ tokens = 0
    BY DEF ClosedHoldsNothing
  <2>1. idle = {} /\ closing = {} /\ closed /\ toDrain = 0
    BY DEF IInv, ClosePhases
  <2>2. tokens + Cardinality(InCustody) = 0
    BY <2>1 DEF IInv, TokensConserved
  <2>3. tokens = 0 /\ Cardinality(InCustody) = 0
    BY <2>2, CountsAreNat, PoolAssumption DEF IInv, TypeOK
  <2>4. InCustody = {}
    BY <2>3, CountsAreNat, FS_EmptySet
  <2>5. \A w \in Workers : held[w] = NoConn
    BY <2>4 DEF InCustody, HoldsToken, IInv, HeldInPlace
  <2>. QED
    BY <2>1, <2>3, <2>4, <2>5 DEF Live
<1>. QED
  BY <1>1, PoolInvariant, PTL

\* The channel has room for every token that put, a failed Acquire or grow is
\* about to send, so none of them blocks, grow with the lock held least of all.
THEOREM NoSendBlocks == Spec => []SendsNeverBlock
<1>1. IInv => SendsNeverBlock
  <2>. SUFFICES ASSUME IInv PROVE SendsNeverBlock
    OBVIOUS
  <2>. USE DEF IInv, TypeOK, WithinCap, TokensConserved
  <2>1. ASSUME NEW w \in Workers, pc[w] = "return" PROVE tokens < Cap
    <3>1. Cardinality(InCustody) # 0
      <4>1. w \in InCustody
        BY <2>1 DEF InCustody, HoldsToken
      <4>. QED
        BY <4>1, CountsAreNat, FS_EmptySet
    <3>. QED
      BY <3>1, CountsAreNat, PoolAssumption
  <2>2. MayGrow => tokens < Cap
    BY CountsAreNat, PoolAssumption DEF MayGrow
  <2>. QED
    BY <2>1, <2>2 DEF SendsNeverBlock
<1>. QED
  BY <1>1, PoolInvariant, PTL

-----------------------------------------------------------------------------
(* The pool implements ConnLeases *)

\* The lease a caller sees.
LeaseOf == [w \in Workers |-> IF pc[w] = "leased" THEN held[w] ELSE NoConn]

LeasedWorkers == {w \in Workers : LeaseOf[w] # NoConn}

\* A lease that is about to be granted finds room below Cap.
LEMMA RoomForGrant ==
    ASSUME IInv', NEW w \in Workers, w \notin LeasedWorkers,
           LeasedWorkers \cup {w} \subseteq ConnUsers'
    PROVE  Cardinality(LeasedWorkers) < Cap
<1>1. IsFiniteSet(ConnUsers') /\ ConnUsers' \in SUBSET Workers
  BY FS_Subset, PoolAssumption DEF ConnUsers
<1>2. Cardinality(ConnUsers') <= Cap
  <2>1. idle' \in SUBSET Conns /\ closing' \in SUBSET Conns
    BY DEF IInv, TypeOK
  <2>2. Cardinality(idle') \in Nat /\ Cardinality(closing') \in Nat
        /\ Cardinality(ConnUsers') \in Nat
    BY <1>1, <2>1, FS_Subset, FS_CardinalityType, PoolAssumption
  <2>3. Cardinality(idle') + Cardinality(closing') + Cardinality(ConnUsers') <= Cap
    BY DEF IInv, CapRespected
  <2>. QED
    BY ONLY <2>2, <2>3, SumBound, PoolAssumption
<1>3. /\ IsFiniteSet(LeasedWorkers)
      /\ Cardinality(LeasedWorkers \cup {w}) = Cardinality(LeasedWorkers) + 1
      /\ Cardinality(LeasedWorkers) \in Nat
      /\ Cardinality(LeasedWorkers \cup {w}) <= Cardinality(ConnUsers')
      /\ Cardinality(ConnUsers') \in Nat
  <2>1. IsFiniteSet(LeasedWorkers)
    BY <1>1, FS_Subset
  <2>. QED
    BY <1>1, <2>1, FS_Subset, FS_AddElement, FS_CardinalityType
<1>. QED
  BY <1>2, <1>3, PoolAssumption

\* Steps that grant a lease, give one back, or shut the pool; the others leave
\* what ConnLeases speaks of alone.
LEMMA GrantStep ==
    ASSUME IInv, IInv', NEW w \in Workers, UNCHANGED closer,
           HoldsToken(w), pc[w] # "leased",
           pc' = [pc EXCEPT ![w] = "leased"],
           NEW c \in Conns, held'[w] = c,
           \A v \in Workers \ {w} : held'[v] = held[v]
    PROVE  Promise!Next
<1>1. closer \notin {"logout", "closed"}
  BY InHand
<1>2. LeaseOf' = [LeaseOf EXCEPT ![w] = c]
  <2>1. pc'[w] = "leased" /\ \A v \in Workers \ {w} : pc'[v] = pc[v]
    BY DEF IInv, TypeOK
  <2>2. \A v \in Workers : LeaseOf'[v] = IF v = w THEN c ELSE LeaseOf[v]
    BY <2>1 DEF LeaseOf
  <2>. QED
    BY <2>2 DEF LeaseOf
<1>3. \A v \in Workers : LeaseOf[v] # c
  <2>1. c # NoConn
    BY PoolAssumption
  <2>2. \A v \in Workers \ {w} : held[v] # c
    BY <2>1 DEF IInv, Exclusive
  <2>. QED
    BY <2>1, <2>2 DEF LeaseOf
<1>4. LeaseOf[w] = NoConn
  BY DEF LeaseOf
<1>5. Cardinality(LeasedWorkers) < Cap
  <2>1. w \notin LeasedWorkers /\ LeasedWorkers \cup {w} \subseteq ConnUsers'
    BY DEF LeasedWorkers, LeaseOf, ConnUsers, IInv, TypeOK
  <2>. QED
    BY <2>1, RoomForGrant
<1>6. Promise!Grant(w, c)
  <2>1. Cardinality(Promise!Holders) < Cap
    BY <1>5 DEF Promise!Holders, LeasedWorkers, LeaseOf
  <2>. QED
    BY <1>1, <1>2, <1>3, <1>4, <2>1 DEF Promise!Grant, LeaseOf, Cardinality, Promise!Cardinality
<1>. QED
  BY <1>6 DEF Promise!Next

LEMMA ReturnStep ==
    ASSUME IInv, NEW w \in Workers, NEW err \in {"nil", "error", "broken"},
           Release(w, err)
    PROVE  Promise!Next
<1>1. /\ pc[w] = "leased" /\ held[w] # NoConn
      /\ pc'[w] # "leased"
      /\ \A v \in Workers \ {w} : pc'[v] = pc[v] /\ held'[v] = held[v]
      /\ UNCHANGED closer
  BY DEF Release, IInv, TypeOK, HeldInPlace, closeVars
<1>2. LeaseOf[w] # NoConn /\ LeaseOf' = [LeaseOf EXCEPT ![w] = NoConn]
  <2>1. \A v \in Workers : LeaseOf'[v] = IF v = w THEN NoConn ELSE LeaseOf[v]
    BY <1>1 DEF LeaseOf
  <2>. QED
    BY <1>1, <2>1 DEF LeaseOf
<1>3. Promise!Return(w)
  BY <1>1, <1>2 DEF Promise!Return, LeaseOf
<1>. QED
  BY <1>3 DEF Promise!Next

LEMMA ShutStep ==
    ASSUME IInv, TakeIdleList
    PROVE  Promise!Next
<1>1. toDrain = 0 /\ closed
  BY DEF TakeIdleList, Drained, IInv, ClosePhases
<1>2. Cardinality(InCustody) = 0
  BY <1>1, CountsAreNat, PoolAssumption DEF IInv, TypeOK, TokensConserved
<1>3. InCustody = {}
  BY <1>2, CountsAreNat, FS_EmptySet
<1>4. \A w \in Workers : LeaseOf[w] = NoConn
  BY <1>3 DEF InCustody, HoldsToken, LeaseOf
<1>5. Promise!Shut
  BY <1>4 DEF Promise!Shut, Promise!Holders, LeaseOf, TakeIdleList, workerVars
<1>. QED
  BY <1>5 DEF Promise!Next

\* A step of a worker that has no lease before or after it.
LEMMA Unseen ==
    ASSUME NEW w \in Workers, UNCHANGED closer,
           pc[w] # "leased", pc'[w] # "leased",
           \A v \in Workers \ {w} : pc'[v] = pc[v] /\ held'[v] = held[v]
    PROVE  UNCHANGED Promise!leaseVars
<1>1. \A v \in Workers : LeaseOf'[v] = LeaseOf[v]
  BY DEF LeaseOf
<1>2. LeaseOf' = LeaseOf
  BY <1>1 DEF LeaseOf
<1>. QED
  BY <1>2 DEF Promise!leaseVars, LeaseOf

LEMMA AcquireRefines ==
    ASSUME IInv, IInv', NEW w \in Workers, AcquireSteps(w)
    PROVE  [Promise!Next]_Promise!leaseVars
<1>. USE DEF IInv, TypeOK, closeVars
<1>1. CASE TakeIdle(w)
  <2>1. PICK c \in idle :
          /\ held' = [held EXCEPT ![w] = c]
          /\ pc' = [pc EXCEPT ![w] = IF NeedsSelect(w, c)
                                     THEN "select" ELSE "leased"]
    BY <1>1 DEF TakeIdle
  <2>2. /\ HoldsToken(w) /\ pc[w] # "leased" /\ UNCHANGED closer
        /\ held'[w] = c /\ c \in Conns
        /\ \A v \in Workers \ {w} : held'[v] = held[v]
    BY <1>1, <2>1 DEF TakeIdle, HoldsToken
  <2>3. CASE NeedsSelect(w, c)
    BY <2>1, <2>2, <2>3, Unseen
  <2>4. CASE ~NeedsSelect(w, c)
    BY <2>1, <2>2, <2>4, GrantStep
  <2>. QED
    BY <2>3, <2>4
<1>2. CASE CountDial(w)
  <2>1. /\ HoldsToken(w) /\ pc[w] # "leased" /\ UNCHANGED closer
        /\ held'[w] = held[w] /\ held[w] \in Conns
        /\ \A v \in Workers \ {w} : held'[v] = held[v]
        /\ pc' = [pc EXCEPT ![w] = IF NeedsSelect(w, held[w])
                                   THEN "select" ELSE "leased"]
    BY <1>2 DEF CountDial, HoldsToken, HeldInPlace
  <2>2. CASE NeedsSelect(w, held[w])
    BY <2>1, <2>2, Unseen
  <2>3. CASE ~NeedsSelect(w, held[w])
    BY <2>1, <2>3, GrantStep
  <2>. QED
    BY <2>2, <2>3
<1>3. CASE SelectSucceeds(w)
  <2>1. /\ HoldsToken(w) /\ pc[w] # "leased" /\ UNCHANGED closer
        /\ held'[w] = held[w] /\ held[w] \in Conns
        /\ \A v \in Workers \ {w} : held'[v] = held[v]
        /\ pc' = [pc EXCEPT ![w] = "leased"]
    BY <1>3 DEF SelectSucceeds, HoldsToken, HeldInPlace
  <2>. QED
    BY <2>1, GrantStep
<1>4. CASE ~(TakeIdle(w) \/ CountDial(w) \/ SelectSucceeds(w))
  <2>1. /\ pc[w] # "leased" /\ pc'[w] # "leased" /\ UNCHANGED closer
        /\ \A v \in Workers \ {w} : pc'[v] = pc[v] /\ held'[v] = held[v]
    BY <1>4 DEF AcquireSteps, Acquire, ReceiveToken, AcquireClosed,
       AcquireCancelled, TakeNothing, DialAccepted, DialFails, NotRefused,
       AlreadyNarrow, Shrink, JudgeRefusal, SelectFails, Discard, GiveUp
  <2>. QED
    BY <2>1, Unseen
<1>. QED
  BY <1>1, <1>2, <1>3, <1>4

LEMMA ReleaseRefines ==
    ASSUME IInv, IInv', NEW w \in Workers, ReleaseSteps(w)
    PROVE  [Promise!Next]_Promise!leaseVars
<1>1. CASE \E err \in {"nil", "error", "broken"} : Release(w, err)
  BY <1>1, ReturnStep
<1>2. CASE CloseConn(w) \/ PayDebt(w) \/ ReturnToken(w) \/ Grow(w) \/ NoGrow(w)
  <2>1. /\ pc[w] # "leased" /\ UNCHANGED closer
        /\ \A v \in Workers \ {w} : pc'[v] = pc[v] /\ held'[v] = held[v]
    BY <1>2 DEF IInv, TypeOK, CloseConn, PayDebt, ReturnToken, GoOn, Grow, NoGrow,
       closeVars
  <2>2. pc'[w] # "leased"
    <3>1. CASE CloseConn(w) \/ Grow(w) \/ NoGrow(w)
      BY <3>1 DEF IInv, TypeOK, CloseConn, Grow, NoGrow
    <3>2. CASE PayDebt(w) \/ ReturnToken(w)
      BY <3>2 DEF IInv, TypeOK, PayDebt, ReturnToken, GoOn
    <3>. QED
      BY <1>2, <3>1, <3>2
  <2>. QED
    BY <2>1, <2>2, Unseen
<1>. QED
  BY <1>1, <1>2 DEF ReleaseSteps

LEMMA Refines == IInv /\ IInv' /\ [Next]_vars => [Promise!Next]_Promise!leaseVars
<1>. SUFFICES ASSUME IInv, IInv', [Next]_vars PROVE [Promise!Next]_Promise!leaseVars
  OBVIOUS
<1>1. CASE \E w \in Workers : AcquireSteps(w) \/ ReleaseSteps(w)
  BY <1>1, AcquireRefines, ReleaseRefines
<1>2. CASE TakeIdleList
  BY <1>2, ShutStep
<1>3. CASE /\ ~TakeIdleList
           /\ CloseSteps \/ ClockSteps \/ UNCHANGED vars
  <2>1. /\ UNCHANGED <<pc, held>>
        /\ closer' \in {"logout", "closed"} <=> closer \in {"logout", "closed"}
    BY <1>3 DEF CloseSteps, BeginClose, SignalDone, DrainToken, LogoutAll,
       ClockSteps, WindowPasses, RefusalAges, GrowthAges, vars,
       workerVars, closeVars
  <2>. QED
    BY <2>1 DEF Promise!leaseVars
<1>. QED
  BY <1>1, <1>2, <1>3 DEF Next

\* The pool keeps what ConnLeases promises its callers: exclusive leases, at
\* most Cap of them, and none once Close has drained the pool.
THEOREM PoolKeepsPromise == Spec => KeepsPromise
<1>1. Init => Promise!Init
  BY DEF Init, Promise!Init
<1>. QED
  BY <1>1, Refines, PoolInvariant, PTL DEF Spec, KeepsPromise, Promise!Spec

=============================================================================
