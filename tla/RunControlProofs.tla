--------------------------- MODULE RunControlProofs ---------------------------
(***************************************************************************)
(* What holds of a run for every account, width, ceiling and number of     *)
(* tokens: a plan never merges two mailboxes and finds its destination     *)
(* ready, only a refused token is replaced, and the report tells why the   *)
(* run ended and whom it blames.                                           *)
(***************************************************************************)
EXTENDS RunControl, FiniteSetTheorems, SequenceTheorems, TLAPS

-----------------------------------------------------------------------------
(***************************************************************************)
(* The plan                                                                *)
(***************************************************************************)
\* Build hands out no plan in which two source mailboxes share a destination:
\* checkCollisions looks at every pair it returns.
LEMMA BuildMergesNothing ==
  ASSUME NEW source, NEW dest, NEW o, NEW p, NEW q,
         p \in Build(source, dest, o).pairs, q \in Build(source, dest, o).pairs,
         p.source # q.source
  PROVE  FoldName(p.dest) # FoldName(q.dest)
<1> DEFINE pairs == Pairs(source, dest, o)
<1>1. CASE Collide(pairs)
  BY <1>1 DEF Build
<1>2. CASE ~Collide(pairs)
  <2>1. p \in pairs /\ q \in pairs
    BY <1>2 DEF Build
  <2>2. QED
    BY <1>2, <2>1 DEF Collide
<1>3. QED
  BY <1>1, <1>2

\* Of the steps of a run only PlanRun makes a plan.
LEMMA PlanIsBuiltOnce ==
  ASSUME [Next]_vars
  PROVE  plan' = plan \/ plan' = Build(account.source, account.dest, account.opts).pairs
<1>1. ASSUME PlanRun PROVE plan' = plan \/ plan' = Build(account.source, account.dest, account.opts).pairs
  BY <1>1 DEF PlanRun
<1>2. ASSUME NEW f \in DOMAIN folder, FolderStep(f) PROVE plan' = plan
  BY <1>2 DEF FolderStep, GiveUp, Resolve, Secret, Login, Renew, Succeed, Refuse, Throttled,
              Interrupted, LaunchFolder, runVars
<1>3. QED
  BY <1>1, <1>2 DEF Next, vars, ReadSearch, ResolveFilter, CreateNext, StartPass, NextFolder, EndPass,
                    Finished, Expire, End, runVars

\* No reachable plan merges two source mailboxes, whatever both servers list and
\* whatever the options map (folder.Build refuses instead of guessing).
THEOREM NothingIsMerged == Spec => []NeverMerged
<1>1. Init => NeverMerged
  BY DEF Init, NeverMerged
<1>2. NeverMerged /\ [Next]_vars => NeverMerged'
  BY PlanIsBuiltOnce, BuildMergesNothing DEF NeverMerged
<1>3. QED
  BY <1>1, <1>2, PTL DEF Spec

-----------------------------------------------------------------------------
(***************************************************************************)
(* The search                                                              *)
(***************************************************************************)
\* The bounds of criteria are numbers, where zero is none.
HasBounds(c) ==
  {c.since, c.before, c.sentSince, c.sentBefore, c.larger, c.smaller} \subseteq Nat

\* Keys in a row select the messages that every one of them selects: no bound is
\* lost to a key that has none of its own (searchkey.and; go-imap's And loses
\* SMALLER that way).
THEOREM RowsIntersect ==
  ASSUME NEW c, NEW d, HasBounds(c), HasBounds(d), NEW uid,
         NEW m, m.internal \in Int, m.sent \in Int, m.size \in Int
  PROVE  /\ MatchesIndex(And(c, d), m, uid) <=> MatchesIndex(c, m, uid) /\ MatchesIndex(d, m, uid)
         /\ MatchesContent(And(c, d), m) <=> MatchesContent(c, m) /\ MatchesContent(d, m)
<1> DEFINE e == And(c, d)
<1>1. (e.since # 0 => m.internal >= e.since)
      <=> (c.since # 0 => m.internal >= c.since) /\ (d.since # 0 => m.internal >= d.since)
  BY DEF And, Later, HasBounds
<1>2. (e.before # 0 => m.internal < e.before)
      <=> (c.before # 0 => m.internal < c.before) /\ (d.before # 0 => m.internal < d.before)
  BY DEF And, Earlier, HasBounds
<1>3. (e.larger > 0 => m.size > e.larger)
      <=> (c.larger > 0 => m.size > c.larger) /\ (d.larger > 0 => m.size > d.larger)
  BY DEF And, Later, HasBounds
<1>4. (e.smaller > 0 => m.size < e.smaller)
      <=> (c.smaller > 0 => m.size < c.smaller) /\ (d.smaller > 0 => m.size < d.smaller)
  BY DEF And, Smaller, HasBounds
<1>5. (e.sentSince # 0 => m.sent >= e.sentSince)
      <=> (c.sentSince # 0 => m.sent >= c.sentSince) /\ (d.sentSince # 0 => m.sent >= d.sentSince)
  BY DEF And, Later, HasBounds
<1>6. (e.sentBefore # 0 => m.sent < e.sentBefore)
      <=> (c.sentBefore # 0 => m.sent < c.sentBefore) /\ (d.sentBefore # 0 => m.sent < d.sentBefore)
  BY DEF And, Earlier, HasBounds
<1>7. /\ e.uid = c.uid \cup d.uid /\ e.flag = c.flag \cup d.flag /\ e.notFlag = c.notFlag \cup d.notFlag
      /\ e.header = c.header \cup d.header /\ e.body = c.body \cup d.body /\ e.text = c.text \cup d.text
  BY DEF And
<1>8. MatchesIndex(e, m, uid) <=> MatchesIndex(c, m, uid) /\ MatchesIndex(d, m, uid)
  <2> HIDE DEF e
  <2>1. (\A set \in e.uid : NumIn(set, uid))
        <=> (\A set \in c.uid : NumIn(set, uid)) /\ (\A set \in d.uid : NumIn(set, uid))
    BY <1>7
  <2>2. e.flag \subseteq m.flags <=> c.flag \subseteq m.flags /\ d.flag \subseteq m.flags
    BY <1>7
  <2>3. e.notFlag \cap m.flags = {} <=> c.notFlag \cap m.flags = {} /\ d.notFlag \cap m.flags = {}
    BY <1>7
  <2>4. QED
    BY <1>1, <1>2, <1>3, <1>4, <2>1, <2>2, <2>3 DEF MatchesIndex
<1>9. MatchesContent(e, m) <=> MatchesContent(c, m) /\ MatchesContent(d, m)
  <2> HIDE DEF e
  <2>1. \A s : e.header \subseteq s <=> c.header \subseteq s /\ d.header \subseteq s
    BY <1>7
  <2>2. \A s : e.body \subseteq s <=> c.body \subseteq s /\ d.body \subseteq s
    BY <1>7
  <2>3. \A s : e.text \subseteq s <=> c.text \subseteq s /\ d.text \subseteq s
    BY <1>7
  <2>4. QED
    BY <1>5, <1>6, <2>1, <2>2, <2>3 DEF MatchesContent
<1>10. QED
  BY <1>8, <1>9

-----------------------------------------------------------------------------
(***************************************************************************)
(* The credential                                                          *)
(***************************************************************************)
\* A worker that goes to renew its token was refused with that token.
RenewsRefused(w) ==
  /\ {"link", "token"} \subseteq DOMAIN w
  /\ w.link = "renew" => w.token \in refused

RefusedInv == \A f \in DOMAIN folder : RenewsRefused(folder[f])

\* What a failure makes of a worker: its token stays, and its link too unless
\* the connection is spoilt.
LEMMA DecideKeepsToken ==
  ASSUME NEW w, NEW err, {"link", "token"} \subseteq DOMAIN w
  PROVE  /\ DOMAIN Decide(w, err) = DOMAIN w
         /\ Decide(w, err).link = w.link /\ Decide(w, err).token = w.token
<1>1. ASSUME NEW v, NEW e, {"link", "token"} \subseteq DOMAIN v
      PROVE  DOMAIN Over(v, e) = DOMAIN v /\ Over(v, e).link = v.link /\ Over(v, e).token = v.token
  BY <1>1 DEF Over
<1>2. /\ DOMAIN WrittenOff(w, err) = DOMAIN w
      /\ WrittenOff(w, err).link = w.link /\ WrittenOff(w, err).token = w.token
  <2> DEFINE m    == Stuck(w)
             next == [w EXCEPT !.todo = @ \ {m}, !.failed = @ \cup {m}, !.blame = @ \cup err,
                               !.attempt = 0, !.doubt = {}]
  <2>1. DOMAIN next = DOMAIN w /\ next.link = w.link /\ next.token = w.token
    OBVIOUS
  <2>2. WrittenOff(w, err) = next \/ WrittenOff(w, err) = Over(next, {})
    BY DEF WrittenOff
  <2> HIDE DEF next
  <2>3. DOMAIN Over(next, {}) = DOMAIN next
        /\ Over(next, {}).link = next.link /\ Over(next, {}).token = next.token
    BY <1>1, <2>1
  <2>4. QED
    BY <2>1, <2>2, <2>3
<1>3. LET next == [w EXCEPT !.attempt = @ + 1, !.doubt = {}] IN
      DOMAIN next = DOMAIN w /\ next.link = w.link /\ next.token = w.token
  OBVIOUS
<1>4. QED
  BY <1>1, <1>2, <1>3 DEF Decide

\* A failure leaves a worker that renews only what was refused.
LEMMA TroubleKeepsRefused ==
  ASSUME RefusedInv, NEW f \in DOMAIN folder, NEW w, NEW err, Trouble(f, w, err),
         {"link", "token"} \subseteq DOMAIN w,
         w.link = "renew" => w.token \in refused', refused \subseteq refused'
  PROVE  RefusedInv'
<1> DEFINE spoilt == Discarded(w, err)
<1>1. /\ DOMAIN spoilt = DOMAIN w
      /\ spoilt.token = w.token /\ (spoilt.link = w.link \/ spoilt.link = "none")
  BY DEF Discarded
<1>2. DOMAIN Decide(spoilt, err) = DOMAIN w /\ Decide(spoilt, err).token = w.token
      /\ (Decide(spoilt, err).link = w.link \/ Decide(spoilt, err).link = "none")
  BY <1>1, DecideKeepsToken
<1>3. LET v == [spoilt EXCEPT !.doubt = err] IN
      DOMAIN v = DOMAIN w /\ v.token = w.token /\ (v.link = w.link \/ v.link = "none")
  BY <1>1
<1>4. PICK v : /\ folder' = [folder EXCEPT ![f] = v]
               /\ DOMAIN v = DOMAIN w /\ v.token = w.token /\ (v.link = w.link \/ v.link = "none")
  BY <1>2, <1>3 DEF Trouble
<1>5. QED
  BY <1>4 DEF RefusedInv, RenewsRefused

\* A step of a worker that is given another record of the same shape.
LEMMA WorkerKeepsRefused ==
  ASSUME RefusedInv, NEW f \in DOMAIN folder, NEW v, folder' = [folder EXCEPT ![f] = v],
         refused \subseteq refused', {"link", "token"} \subseteq DOMAIN v,
         v.link = "renew" => v.token \in refused'
  PROVE  RefusedInv'
<1> SUFFICES ASSUME NEW g \in DOMAIN folder' PROVE RenewsRefused(folder[g])'
  BY DEF RefusedInv
<1>1. DOMAIN folder' = DOMAIN folder
  OBVIOUS
<1>2. CASE g = f
  BY <1>1, <1>2 DEF RenewsRefused
<1>3. CASE g # f
  BY <1>1, <1>3 DEF RefusedInv, RenewsRefused
<1>4. QED
  BY <1>2, <1>3

\* What is renewed was refused, and every step keeps it so.
LEMMA RefusedStep ==
  ASSUME RefusedInv, [Next]_vars
  PROVE  RefusedInv'
<1> USE DEF healthVars, tokenVars, runVars
<1>1. ASSUME UNCHANGED <<folder, refused>> PROVE RefusedInv'
  BY <1>1 DEF RefusedInv, RenewsRefused
<1>2. CASE ReadSearch \/ ResolveFilter \/ CreateNext \/ StartPass \/ Finished \/ Expire \/ End \/ UNCHANGED vars
  BY <1>1, <1>2 DEF ReadSearch, ResolveFilter, CreateNext, StartPass, Finished, Expire, End, vars
<1>3. CASE PlanRun
  <2>1. CASE UNCHANGED folder
    BY <1>1, <1>3, <2>1 DEF PlanRun
  <2>2. CASE ~UNCHANGED folder
    BY <1>3, <2>2 DEF PlanRun, Fresh, RefusedInv, RenewsRefused
  <2>3. QED
    BY <2>1, <2>2
<1>4. CASE NextFolder
  <2>1. CASE UNCHANGED folder
    BY <1>1, <1>4, <2>1 DEF NextFolder
  <2>2. CASE folder' = [folder EXCEPT ![Head(queue)].step = "cleared"]
    BY <1>4, <2>2 DEF NextFolder, RefusedInv, RenewsRefused
  <2>3. QED
    BY <1>4, <2>1, <2>2 DEF NextFolder
<1>5. CASE EndPass
  BY <1>5 DEF EndPass, RefusedInv, RenewsRefused
<1>6. ASSUME NEW f \in DOMAIN folder, FolderStep(f) PROVE RefusedInv'
  <2> DEFINE w == folder[f]
  <2>0. {"link", "token"} \subseteq DOMAIN w /\ (w.link = "renew" => w.token \in refused)
    BY DEF RefusedInv, RenewsRefused
  <2>1. CASE GiveUp(f)
    <3> DEFINE v == Decide(w, w.doubt)
    <3>1. DOMAIN v = DOMAIN w /\ v.link = w.link /\ v.token = w.token
      BY <2>0, DecideKeepsToken
    <3>2. folder' = [folder EXCEPT ![f] = v] /\ refused' = refused
      BY <2>1 DEF GiveUp
    <3> HIDE DEF v
    <3>3. QED
      BY <2>0, <3>1, <3>2, WorkerKeepsRefused
  <2>2. CASE Resolve(f)
    BY <1>1, <2>0, <2>2, TroubleKeepsRefused DEF Resolve
  <2>3. CASE Secret(f)
    <3>1. CASE Trouble(f, w, {"unknown"})
      BY <2>0, <2>3, <3>1, TroubleKeepsRefused DEF Secret
    <3>2. CASE \E t : folder' = [folder EXCEPT ![f] = [w EXCEPT !.link = "login", !.token = t]]
      BY <2>0, <2>3, <3>2 DEF Secret, RefusedInv, RenewsRefused
    <3>3. QED
      BY <2>3, <3>1, <3>2 DEF Secret
  <2>4. CASE Login(f)
    <3> DEFINE v == [w EXCEPT !.link = "none"]
    <3>1. {"link", "token"} \subseteq DOMAIN v /\ v.link = "none"
      BY <2>0
    <3>2. refused \subseteq refused'
      BY <2>4 DEF Login, Accepted, TurnedDown, Unreached
    <3>3. ASSUME NEW e, Trouble(f, v, e) PROVE RefusedInv'
      BY <3>1, <3>2, <3>3, TroubleKeepsRefused
    <3>4. CASE folder' = [folder EXCEPT ![f].link = "up"]
      BY <2>0, <3>2, <3>4 DEF RefusedInv, RenewsRefused
    <3>5. CASE folder' = [folder EXCEPT ![f].link = "renew"] /\ w.token \in refused'
      BY <2>0, <3>2, <3>5 DEF RefusedInv, RenewsRefused
    <3>6. QED
      BY <2>4, <3>3, <3>4, <3>5 DEF Login, Accepted, TurnedDown, Unreached
  <2>5. CASE Renew(f)
    <3> DEFINE v == [w EXCEPT !.link = "none"]
    <3>1. {"link", "token"} \subseteq DOMAIN v /\ v.link = "none"
      BY <2>0
    <3>2. refused' = refused
      BY <2>5 DEF Renew
    <3>3. CASE Trouble(f, v, {"auth"})
      BY <3>1, <3>2, <3>3, TroubleKeepsRefused
    <3>4. CASE \E t : folder' = [folder EXCEPT ![f] = [w EXCEPT !.link = "again", !.token = t]]
      BY <2>0, <3>2, <3>4 DEF RefusedInv, RenewsRefused
    <3>5. QED
      BY <2>5, <3>3, <3>4 DEF Renew, Declines, TakesHeld, MintsAnew
  <2>6. CASE Succeed(f)
    <3>1. ASSUME NEW v, v \in {Opened(f, w), Read(f, w), Copied(w)}
          PROVE  DOMAIN v = DOMAIN w /\ v.link = w.link /\ v.token = w.token
      BY <2>0, <3>1 DEF Opened, Read, Copied, Over
    <3>2. PICK v \in {Opened(f, w), Read(f, w), Copied(w)} : folder' = [folder EXCEPT ![f] = v]
      BY <2>6 DEF Succeed
    <3>3. DOMAIN v = DOMAIN w /\ v.link = w.link /\ v.token = w.token
      BY <3>1
    <3>4. refused' = refused
      BY <2>6 DEF Succeed
    <3>5. QED
      BY <2>0, <3>2, <3>3, <3>4, WorkerKeepsRefused
  <2>7. CASE Refuse(f) \/ Throttled(f) \/ Interrupted(f)
    BY <2>0, <2>7, TroubleKeepsRefused DEF Refuse, Throttled, Interrupted
  <2>8. CASE LaunchFolder(f)
    BY <2>0, <2>8 DEF LaunchFolder, RefusedInv, RenewsRefused
  <2>9. QED
    BY <1>6, <2>1, <2>2, <2>3, <2>4, <2>5, <2>6, <2>7, <2>8 DEF FolderStep
<1>7. QED
  BY <1>2, <1>3, <1>4, <1>5, <1>6 DEF Next

\* Of the steps of a run only Secret and Renew change what is held: Secret when
\* nothing is, Renew when it is what the worker was refused with.
LEMMA HeldStep ==
  ASSUME RefusedInv, [Next]_vars, held' # held
  PROVE  held = NoToken \/ held \in refused
<1> USE DEF healthVars, tokenVars, runVars
<1>0. held' # held
  OBVIOUS
<1>1. ASSUME NEW f \in DOMAIN folder, FolderStep(f) PROVE held = NoToken \/ held \in refused
  <2>1. CASE Secret(f)
    BY <2>1 DEF Secret
  <2>2. CASE Renew(f)
    <3>1. MustMint(folder[f].token) /\ folder[f].link = "renew"
      BY <1>0, <2>2 DEF Renew, Declines, TakesHeld, MintsAnew
    <3>2. QED
      BY <3>1 DEF MustMint, RefusedInv, RenewsRefused
  <2>3. QED
    BY <1>1, <2>1, <2>2 DEF FolderStep, GiveUp, Resolve, Login, Accepted, TurnedDown,
                            Unreached, Succeed, Refuse, Throttled, Interrupted, LaunchFolder
<1>2. QED
  BY <1>1 DEF Next, vars, ReadSearch, ResolveFilter, PlanRun, CreateNext, StartPass, NextFolder, EndPass,
              Finished, Expire, End

\* Every worker that goes to renew its token was refused with it: what Refresh
\* is given as stale is a token the server turned down.
THEOREM RenewalFollowsRefusal == Spec => []RefusedInv
<1>1. Init => RefusedInv
  BY DEF Init, RefusedInv
<1>2. RefusedInv /\ [Next]_vars => RefusedInv'
  BY RefusedStep
<1>3. QED
  BY <1>1, <1>2, PTL DEF Spec

\* A token is replaced only after the server refused that very token, for any
\* number of workers, folders and tokens (tokenCredential.Refresh).
THEOREM RenewedOnlyWhenRefused == Spec => MintsOnlyRefused
<1>1. RefusedInv /\ [Next]_vars => [held' # held => held = NoToken \/ held \in refused]_vars
  BY HeldStep
<1>2. QED
  BY <1>1, RenewalFollowsRefusal, PTL DEF Spec, MintsOnlyRefused
-----------------------------------------------------------------------------
(***************************************************************************)
(* Orders                                                                  *)
(***************************************************************************)
\* A strict total order on a set, as a set of pairs.
Orders(R, S) ==
  /\ \A x \in S : <<x, x>> \notin R
  /\ \A x, y \in S : x # y => <<x, y>> \in R \/ <<y, x>> \in R
  /\ \A x, y, z \in S : <<x, y>> \in R /\ <<y, z>> \in R => <<x, z>> \in R

\* In a total order no two elements have equally many before them, and none has
\* as many as there are elements.
LEMMA RanksDiffer ==
  ASSUME NEW S, IsFiniteSet(S), NEW R, Orders(R, S), NEW x \in S
  PROVE  /\ Cardinality({ u \in S : <<u, x>> \in R }) \in 0..(Cardinality(S) - 1)
         /\ \A y \in S : <<x, y>> \in R =>
              Cardinality({ u \in S : <<u, x>> \in R }) < Cardinality({ u \in S : <<u, y>> \in R })
<1> DEFINE below(z) == { u \in S : <<u, z>> \in R }
<1>1. ASSUME NEW T, IsFiniteSet(T), NEW V \in SUBSET T, NEW z \in T, z \notin V
      PROVE  Cardinality(V) \in Nat /\ Cardinality(V) < Cardinality(T)
  <2>1. IsFiniteSet(V) /\ Cardinality(V) <= Cardinality(T) /\ (Cardinality(T) = Cardinality(V) => T = V)
    BY <1>1, FS_Subset
  <2>2. Cardinality(V) \in Nat /\ Cardinality(T) \in Nat
    BY <1>1, <2>1, FS_CardinalityType
  <2>. QED
    BY <1>1, <2>1, <2>2
<1>2. Cardinality(below(x)) \in Nat /\ Cardinality(below(x)) < Cardinality(S)
  <2>1. below(x) \in SUBSET S /\ x \notin below(x)
    BY DEF Orders
  <2>. QED
    BY <1>1, <2>1
<1>3. ASSUME NEW y \in S, <<x, y>> \in R PROVE Cardinality(below(x)) < Cardinality(below(y))
  <2>1. IsFiniteSet(below(y))
    BY FS_Subset
  <2>2. below(x) \in SUBSET below(y) /\ x \in below(y) /\ x \notin below(x)
    BY <1>3 DEF Orders
  <2> HIDE DEF below
  <2>. QED
    BY <1>1, <2>1, <2>2
<1>4. Cardinality(S) \in Nat
  BY FS_CardinalityType
<1>. QED
  BY <1>2, <1>3, <1>4

\* Each position is somebody's: as many ranks as elements.
LEMMA RanksFill ==
  ASSUME NEW S, IsFiniteSet(S), NEW R, Orders(R, S), NEW i \in 1..Cardinality(S)
  PROVE  \E x \in S : Cardinality({ u \in S : <<u, x>> \in R }) = i - 1
<1> DEFINE n    == Cardinality(S)
           rank == [x \in S |-> Cardinality({ u \in S : <<u, x>> \in R })]
<1>1. n \in Nat
  BY FS_CardinalityType
<1>2. rank \in [S -> 0..(n - 1)]
  BY RanksDiffer
<1>3. ASSUME NEW x \in S, NEW y \in S, rank[x] = rank[y] PROVE x = y
  <2>1. CASE <<x, y>> \in R
    <3>1. rank[x] < rank[y]
      BY <2>1, RanksDiffer
    <3>. QED
      BY <1>1, <1>2, <1>3, <3>1
  <2>2. CASE <<y, x>> \in R
    <3>1. rank[y] < rank[x]
      BY <2>2, RanksDiffer
    <3>. QED
      BY <1>1, <1>2, <1>3, <3>1
  <2>. QED
    BY <2>1, <2>2 DEF Orders
<1> HIDE DEF rank
<1>4. rank \in Injection(S, 0..(n - 1))
  BY <1>2, <1>3 DEF Injection, IsInjective
<1>5. IsFiniteSet(0..(n - 1)) /\ Cardinality(0..(n - 1)) = n
  <2> HIDE DEF n
  <2>1. 0 \in Int /\ n - 1 \in Int
    BY <1>1
  <2>2. IsFiniteSet(0..(n - 1))
        /\ Cardinality(0..(n - 1)) = IF 0 > n - 1 THEN 0 ELSE (n - 1) - 0 + 1
    BY <2>1, FS_Interval
  <2>. QED
    BY <1>1, <2>2
<1>6. rank \in Surjection(S, 0..(n - 1))
  BY <1>4, <1>5, FS_Injection
<1>7. i - 1 \in 0..(n - 1)
  BY <1>1
<1>8. PICK x \in S : rank[x] = i - 1
  BY <1>6, <1>7 DEF Surjection
<1>. QED
  BY <1>8 DEF rank

\* InOrder lists every element once, each after those before it.
LEMMA InOrderLists ==
  ASSUME NEW S, IsFiniteSet(S), NEW R, Orders(R, S)
  PROVE  /\ InOrder(S, R) \in Seq(S) /\ Len(InOrder(S, R)) = Cardinality(S)
         /\ \A i, j \in 1..Len(InOrder(S, R)) : InOrder(S, R)[i] = InOrder(S, R)[j] => i = j
         /\ \A i, j \in 1..Len(InOrder(S, R)) : <<InOrder(S, R)[i], InOrder(S, R)[j]>> \in R => i < j
         /\ \A x \in S : \E i \in 1..Len(InOrder(S, R)) : InOrder(S, R)[i] = x
<1> DEFINE n       == Cardinality(S)
           rank(x) == Cardinality({ u \in S : <<u, x>> \in R })
           s       == InOrder(S, R)
<1>1. n \in Nat
  BY FS_CardinalityType
<1>2. \A x \in S : rank(x) \in 0..(n - 1)
  BY RanksDiffer
<1>3. \A x, y \in S : <<x, y>> \in R => rank(x) < rank(y)
  BY RanksDiffer
<1>4. \A i \in 1..n : \E x \in S : rank(x) = i - 1
  BY RanksFill
<1>5. s = [i \in 1..n |-> CHOOSE x \in S : rank(x) = i - 1]
  BY DEF InOrder
<1> HIDE DEF n, rank, s
<1>6. \A i \in 1..n : s[i] \in S /\ rank(s[i]) = i - 1
  BY <1>4, <1>5
<1>7. s \in Seq(S) /\ Len(s) = n
  <2>1. s \in [1..n -> S]
    BY <1>5, <1>6
  <2>2. s \in Seq(S)
    BY <1>1, <2>1
  <2>. QED
    BY <1>1, <2>1, <2>2
<1>8. ASSUME NEW x \in S PROVE \E i \in 1..n : s[i] = x
  <2>1. rank(x) \in 0..(n - 1) /\ rank(x) + 1 \in 1..n
    BY <1>1, <1>2
  <2>2. s[rank(x) + 1] \in S /\ rank(s[rank(x) + 1]) = rank(x)
    BY <1>6, <2>1
  <2>3. s[rank(x) + 1] = x
    <3>1. ~ (rank(x) < rank(s[rank(x) + 1])) /\ ~ (rank(s[rank(x) + 1]) < rank(x))
      BY <2>1, <2>2
    <3>. QED
      BY <1>3, <2>2, <3>1 DEF Orders
  <2>. QED
    BY <2>1, <2>3
<1>9. ASSUME NEW i \in 1..n, NEW j \in 1..n
      PROVE  (s[i] = s[j] => i = j) /\ (<<s[i], s[j]>> \in R => i < j)
  <2>1. /\ s[i] \in S /\ s[j] \in S /\ rank(s[i]) = i - 1 /\ rank(s[j]) = j - 1
    BY <1>6
  <2>2. <<s[i], s[j]>> \in R => rank(s[i]) < rank(s[j])
    BY <1>3, <2>1
  <2>3. s[i] = s[j] => i - 1 = j - 1
    BY <2>1
  <2>4. <<s[i], s[j]>> \in R => i - 1 < j - 1
    BY <2>1, <2>2
  <2>. QED
    BY <1>1, <2>3, <2>4
<1>10. \A i, j \in 1..n : (s[i] = s[j] => i = j) /\ (<<s[i], s[j]>> \in R => i < j)
  BY <1>9
<1>11. n = Cardinality(S)
  BY DEF n
<1>12. s = InOrder(S, R)
  BY DEF s
<1>13. \A x \in S : \E i \in 1..Len(s) : s[i] = x
  BY <1>7, <1>8
<1>14. /\ \A i, j \in 1..Len(s) : s[i] = s[j] => i = j
       /\ \A i, j \in 1..Len(s) : <<s[i], s[j]>> \in R => i < j
  BY <1>7, <1>10
<1>15. s \in Seq(S) /\ Len(s) = Cardinality(S)
  BY <1>7, <1>11
<1>. QED
  BY <1>12, <1>13, <1>14, <1>15

\* Of finitely many elements in a total order one is least.
LEMMA LeastIsThere ==
  ASSUME NEW S, IsFiniteSet(S), NEW R, Orders(R, S), S # {}
  PROVE  \E x \in S : \A y \in S \ {x} : <<x, y>> \in R
<1>1. Cardinality(S) \in Nat /\ Cardinality(S) # 0
  BY FS_CardinalityType, FS_EmptySet
<1>2. PICK x \in S : Cardinality({ u \in S : <<u, x>> \in R }) = 1 - 1
  <2>1. 1 \in 1..Cardinality(S)
    BY <1>1
  <2>. QED
    BY <2>1, RanksFill
<1>3. { u \in S : <<u, x>> \in R } = {}
  <2>1. IsFiniteSet({ u \in S : <<u, x>> \in R })
    BY FS_Subset
  <2>. QED
    BY <1>2, <2>1, FS_EmptySet
<1>. QED
  BY <1>3 DEF Orders

-----------------------------------------------------------------------------
(***************************************************************************)
(* The order of names                                                      *)
(***************************************************************************)
\* A component has its place in the alphabet.
LEMMA PlaceFinds ==
  ASSUME NEW c \in Range(Alphabet)
  PROVE  Place(c) \in 1..Len(Alphabet) /\ Alphabet[Place(c)] = c
<1>1. DOMAIN Alphabet = 1..Len(Alphabet)
  BY AlphabetAssumption DEF Names
<1>2. \E i \in 1..Len(Alphabet) : Alphabet[i] = c
  BY <1>1 DEF Range
<1>. QED
  BY <1>2 DEF Place

\* A strict prefix is shorter and agrees as far as it goes.
LEMMA PrefixMeans ==
  ASSUME NEW a \in Names, NEW b \in Names
  PROVE  IsStrictPrefix(a, b) <=> Len(a) < Len(b) /\ \A i \in 1..Len(a) : a[i] = b[i]
<1> DEFINE T == Range(Alphabet)
<1>1. a \in Seq(T) /\ b \in Seq(T) /\ Len(a) \in Nat /\ Len(b) \in Nat
  BY DEF Names
<1>2. SubSeq(a, 1, Len(a)) = a
  BY <1>1, SubSeqFull
<1>3. ASSUME Len(a) <= Len(b)
      PROVE  /\ SubSeq(b, 1, Len(a)) \in Seq(T) /\ Len(SubSeq(b, 1, Len(a))) = Len(a)
             /\ \A i \in 1..Len(a) : SubSeq(b, 1, Len(a))[i] = b[i]
  <2>1. \A i \in 1..Len(a) : b[i] \in T
    BY <1>1, <1>3
  <2>2. 1 \in Int /\ Len(a) \in Int
    BY <1>1
  <2> HIDE DEF T
  <2>3. /\ SubSeq(b, 1, Len(a)) \in Seq(T)
        /\ Len(SubSeq(b, 1, Len(a))) = IF 1 <= Len(a) THEN Len(a) - 1 + 1 ELSE 0
        /\ \A i \in 1..(Len(a) - 1 + 1) : SubSeq(b, 1, Len(a))[i] = b[1 + i - 1]
    BY <2>1, <2>2, SubSeqProperties
  <2>4. Len(a) - 1 + 1 = Len(a) /\ \A i \in 1..Len(a) : 1 + i - 1 = i
    BY <1>1
  <2>. QED
    BY <1>1, <2>3, <2>4
<1>4. ASSUME Len(a) < Len(b), \A i \in 1..Len(a) : a[i] = b[i]
      PROVE  IsStrictPrefix(a, b)
  <2>1. SubSeq(b, 1, Len(a)) = a
    BY <1>1, <1>3, <1>4, SeqEqual
  <2>2. a # b
    BY <1>1, <1>4
  <2>. QED
    BY <1>1, <1>2, <1>4, <2>1, <2>2 DEF IsStrictPrefix, IsPrefix
<1>5. ASSUME IsStrictPrefix(a, b)
      PROVE  Len(a) < Len(b) /\ \A i \in 1..Len(a) : a[i] = b[i]
  <2>1. Len(a) <= Len(b) /\ a = SubSeq(b, 1, Len(a)) /\ a # b
    BY <1>2, <1>5 DEF IsStrictPrefix, IsPrefix
  <2>2. \A i \in 1..Len(a) : a[i] = b[i]
    BY <1>3, <2>1
  <2>3. Len(a) # Len(b)
    BY <1>1, <2>1, <2>2, SeqEqual
  <2>. QED
    BY <1>1, <2>1, <2>2, <2>3
<1>. QED
  BY <1>4, <1>5

\* Where two names differ first.
Differs(a, b, i) ==
  /\ i \in 1..Len(a) /\ i <= Len(b) /\ a[i] # b[i]
  /\ \A j \in 1..(i - 1) : a[j] = b[j]

\* Two names that differ within both have a first place where they do.
LEMMA FirstDifference ==
  ASSUME NEW a \in Names, NEW b \in Names, NEW k \in 1..Len(a), k <= Len(b), a[k] # b[k]
  PROVE  \E i : Differs(a, b, i)
<1> DEFINE D == { i \in Nat : i \in 1..Len(a) /\ i <= Len(b) /\ a[i] # b[i] }
<1>1. Len(a) \in Nat /\ Len(b) \in Nat
  BY DEF Names
<1>2. k \in D
  BY <1>1
<1>3. PICK i \in D : \A j \in D : i <= j
  <2> DEFINE R == { p \in D \X D : p[1] < p[2] }
  <2>1. IsFiniteSet(1..Len(a))
    BY <1>1, FS_Interval
  <2>2. D \in SUBSET (1..Len(a)) /\ D \subseteq Nat /\ k \in D
    BY <1>2
  <2> HIDE DEF D
  <2>3. IsFiniteSet(D)
    BY <2>1, <2>2, FS_Subset
  <2>4. Orders(R, D)
    BY <2>2 DEF Orders
  <2>5. PICK x \in D : \A y \in D \ {x} : <<x, y>> \in R
    BY <2>2, <2>3, <2>4, LeastIsThere
  <2>6. \A y \in D \ {x} : x < y
    BY <2>5
  <2>7. \A y \in D : x <= y
    BY <2>2, <2>6
  <2>. QED
    BY <2>7
<1>4. ASSUME NEW j \in 1..(i - 1) PROVE a[j] = b[j]
  <2>1. j \notin D
    BY <1>3
  <2>. QED
    BY <1>1, <1>3, <2>1
<1>. QED
  BY <1>3, <1>4 DEF Differs

\* Before, said place by place.
LEMMA BeforeMeans ==
  ASSUME NEW a \in Names, NEW b \in Names
  PROVE  Before(a, b) <=> \/ Len(a) < Len(b) /\ \A i \in 1..Len(a) : a[i] = b[i]
                          \/ \E i : Differs(a, b, i) /\ Place(a[i]) < Place(b[i])
<1>1. Len(a) \in Nat /\ Len(b) \in Nat
  BY DEF Names
<1>2. \A i \in 1..Len(a) : a[i] \in Range(Alphabet)
  BY DEF Names
<1>3. \A i \in 1..Len(b) : b[i] \in Range(Alphabet)
  BY DEF Names
<1>4. ASSUME NEW i \in 1..Len(a), i <= Len(b) PROVE Place(a[i]) < Place(b[i]) => a[i] # b[i]
  <2>1. Place(a[i]) \in Int
    BY <1>2, PlaceFinds
  <2>. QED
    BY <2>1
<1>5. (\E i \in 1..Len(a) : /\ i <= Len(b) /\ Place(a[i]) < Place(b[i])
                            /\ \A j \in 1..(i - 1) : a[j] = b[j])
      <=> \E i : Differs(a, b, i) /\ Place(a[i]) < Place(b[i])
  BY <1>4 DEF Differs
<1>. QED
  BY <1>5, PrefixMeans DEF Before

\* Of two names one comes before the other, ...
LEMMA BeforeIsTotal ==
  ASSUME NEW a \in Names, NEW b \in Names, a # b
  PROVE  Before(a, b) \/ Before(b, a)
<1>1. Len(a) \in Nat /\ Len(b) \in Nat /\ a \in Seq(Range(Alphabet)) /\ b \in Seq(Range(Alphabet))
  BY DEF Names
<1>2. CASE \E k \in 1..Len(a) : k <= Len(b) /\ a[k] # b[k]
  <2>1. PICK i : Differs(a, b, i)
    BY <1>2, FirstDifference
  <2>2. Differs(b, a, i)
    BY <1>1, <2>1 DEF Differs
  <2>3. a[i] \in Range(Alphabet) /\ b[i] \in Range(Alphabet) /\ a[i] # b[i]
    BY <1>1, <2>1, <2>2 DEF Differs
  <2>4. Place(a[i]) \in Int /\ Place(b[i]) \in Int /\ Place(a[i]) # Place(b[i])
    BY <2>3, PlaceFinds
  <2>5. Place(a[i]) < Place(b[i]) \/ Place(b[i]) < Place(a[i])
    BY <2>4
  <2>. QED
    BY <2>1, <2>2, <2>5, BeforeMeans
<1>3. CASE \A k \in 1..Len(a) : k <= Len(b) => a[k] = b[k]
  <2>1. CASE Len(a) < Len(b)
    <3>1. \A k \in 1..Len(a) : a[k] = b[k]
      BY <1>1, <1>3, <2>1
    <3>. QED
      BY <2>1, <3>1, BeforeMeans
  <2>2. CASE Len(b) < Len(a)
    <3>1. \A k \in 1..Len(b) : b[k] = a[k]
      BY <1>1, <1>3, <2>2
    <3>. QED
      BY <2>2, <3>1, BeforeMeans
  <2>3. CASE Len(a) = Len(b)
    <3>1. \A k \in 1..Len(a) : a[k] = b[k]
      BY <1>1, <1>3, <2>3
    <3>. QED
      BY <1>1, <2>3, <3>1, SeqEqual
  <2>. QED
    BY <1>1, <2>1, <2>2, <2>3
<1>. QED
  BY <1>2, <1>3

\* ... none before itself, ...
LEMMA BeforeIsStrict ==
  ASSUME NEW a \in Names
  PROVE  ~Before(a, a)
<1>1. Len(a) \in Nat
  BY DEF Names
<1>. QED
  BY <1>1, BeforeMeans DEF Differs

\* ... and what comes before the earlier comes before the later.
LEMMA BeforeIsTransitive ==
  ASSUME NEW a \in Names, NEW b \in Names, NEW c \in Names, Before(a, b), Before(b, c)
  PROVE  Before(a, c)
<1> DEFINE Starts(x, y) == Len(x) < Len(y) /\ \A i \in 1..Len(x) : x[i] = y[i]
           Less(x, y)   == \E i : Differs(x, y, i) /\ Place(x[i]) < Place(y[i])
<1>1. Len(a) \in Nat /\ Len(b) \in Nat /\ Len(c) \in Nat
  BY DEF Names
<1>2. (Starts(a, b) \/ Less(a, b)) /\ (Starts(b, c) \/ Less(b, c))
  BY BeforeMeans
<1>3. Starts(a, c) \/ Less(a, c) => Before(a, c)
  BY BeforeMeans
<1>4. CASE Starts(a, b) /\ Starts(b, c)
  <2>1. Starts(a, c)
    BY <1>1, <1>4
  <2>. QED
    BY <1>3, <2>1
<1>5. CASE Starts(a, b) /\ Less(b, c)
  <2>1. PICK i : Differs(b, c, i) /\ Place(b[i]) < Place(c[i])
    BY <1>5
  <2>2. CASE i <= Len(a)
    <3>1. Differs(a, c, i) /\ Place(a[i]) < Place(c[i])
      BY <1>1, <1>5, <2>1, <2>2 DEF Differs
    <3>. QED
      BY <1>3, <3>1
  <2>3. CASE i > Len(a)
    <3>1. Starts(a, c)
      BY <1>1, <1>5, <2>1, <2>3 DEF Differs
    <3>. QED
      BY <1>3, <3>1
  <2>. QED
    BY <1>1, <2>1, <2>2, <2>3 DEF Differs
<1>6. CASE Less(a, b) /\ Starts(b, c)
  <2>1. PICK i : Differs(a, b, i) /\ Place(a[i]) < Place(b[i])
    BY <1>6
  <2>2. Differs(a, c, i) /\ Place(a[i]) < Place(c[i])
    BY <1>1, <1>6, <2>1 DEF Differs
  <2>. QED
    BY <1>3, <2>2
<1>7. CASE Less(a, b) /\ Less(b, c)
  <2>1. PICK i : Differs(a, b, i) /\ Place(a[i]) < Place(b[i])
    BY <1>7
  <2>2. PICK j : Differs(b, c, j) /\ Place(b[j]) < Place(c[j])
    BY <1>7
  <2>3. i \in Int /\ j \in Int
    BY <2>1, <2>2 DEF Differs
  <2>4. CASE i < j
    <3>1. Differs(a, c, i) /\ Place(a[i]) < Place(c[i])
      BY <1>1, <2>1, <2>2, <2>3, <2>4 DEF Differs
    <3>. QED
      BY <1>3, <3>1
  <2>5. CASE j < i
    <3>1. Differs(a, c, j) /\ Place(a[j]) < Place(c[j])
      BY <1>1, <2>1, <2>2, <2>3, <2>5 DEF Differs
    <3>. QED
      BY <1>3, <3>1
  <2>6. CASE i = j
    <3>1. a[i] \in Range(Alphabet) /\ b[i] \in Range(Alphabet) /\ c[i] \in Range(Alphabet)
      BY <1>1, <2>1, <2>2, <2>6 DEF Differs, Names
    <3>2. Place(a[i]) \in Int /\ Place(b[i]) \in Int /\ Place(c[i]) \in Int
      BY <3>1, PlaceFinds
    <3>3. Place(a[i]) < Place(c[i])
      BY <2>1, <2>2, <2>6, <3>2
    <3>4. a[i] # c[i]
      BY <3>2, <3>3
    <3>5. Differs(a, c, i)
      BY <1>1, <2>1, <2>2, <2>6, <3>4 DEF Differs
    <3>. QED
      BY <1>3, <3>3, <3>5
  <2>. QED
    BY <2>3, <2>4, <2>5, <2>6
<1>. QED
  BY <1>2, <1>4, <1>5, <1>6, <1>7

\* Names are in a total order, and so they are by depth.
LEMMA NamesAreOrdered ==
  ASSUME NEW S \in SUBSET Names
  PROVE  Orders(ByName(S), S) /\ Orders(ByDepth(S), S)
<1>1. \A a, b \in S : <<a, b>> \in ByName(S) <=> Before(a, b)
  BY DEF ByName
<1>2. \A a, b \in S : <<a, b>> \in ByDepth(S)
                        <=> Len(a) < Len(b) \/ (Len(a) = Len(b) /\ Before(a, b))
  BY DEF ByDepth
<1>3. \A a \in S : Len(a) \in Nat /\ a \in Names
  BY DEF Names
<1>4. \A a \in S : ~Before(a, a)
  BY <1>3, BeforeIsStrict
<1>5. \A a, b \in S : a # b => Before(a, b) \/ Before(b, a)
  BY <1>3, BeforeIsTotal
<1>6. \A a, b, c \in S : Before(a, b) /\ Before(b, c) => Before(a, c)
  BY <1>3, BeforeIsTransitive
<1>7. Orders(ByName(S), S)
  BY <1>1, <1>4, <1>5, <1>6 DEF Orders
<1>8. Orders(ByDepth(S), S)
  <2>1. \A x \in S : <<x, x>> \notin ByDepth(S)
    BY <1>2, <1>3, <1>4
  <2>2. \A x, y \in S : x # y => <<x, y>> \in ByDepth(S) \/ <<y, x>> \in ByDepth(S)
    BY <1>2, <1>3, <1>5
  <2>3. ASSUME NEW x \in S, NEW y \in S, NEW z \in S,
               <<x, y>> \in ByDepth(S), <<y, z>> \in ByDepth(S)
        PROVE  <<x, z>> \in ByDepth(S)
    <3>1. Len(x) \in Nat /\ Len(y) \in Nat /\ Len(z) \in Nat
      BY <1>3
    <3>2. Len(x) < Len(y) \/ (Len(x) = Len(y) /\ Before(x, y))
      BY <1>2, <2>3
    <3>3. Len(y) < Len(z) \/ (Len(y) = Len(z) /\ Before(y, z))
      BY <1>2, <2>3
    <3>4. Len(x) < Len(z) \/ (Len(x) = Len(z) /\ Before(x, z))
      BY <1>6, <3>1, <3>2, <3>3
    <3>. QED
      BY <1>2, <3>4
  <2>. QED
    BY <2>1, <2>2, <2>3 DEF Orders
<1>. QED
  BY <1>7, <1>8

\* Of some names one is first.
LEMMA FirstIsThere ==
  ASSUME NEW S \in SUBSET Names, IsFiniteSet(S), S # {}
  PROVE  First(S) \in S
<1>1. Orders(ByName(S), S)
  BY NamesAreOrdered
<1>2. PICK n \in S : \A m \in S \ {n} : <<n, m>> \in ByName(S)
  BY <1>1, LeastIsThere
<1>. QED
  BY <1>2 DEF First, ByName

-----------------------------------------------------------------------------
(***************************************************************************)
(* What a plan is made of                                                  *)
(***************************************************************************)
\* A finite set has a finite image.
LEMMA FiniteImage ==
  ASSUME NEW S, IsFiniteSet(S), NEW f, DOMAIN f = S
  PROVE  IsFiniteSet({ f[x] : x \in S })
<1> DEFINE T == { f[x] : x \in S }
           g == [x \in S |-> f[x]]
<1>1. g \in Surjection(S, T)
  BY DEF Surjection
<1>. QED
  BY <1>1, FS_Surjection

\* A name without its prefix is a name.
LEMMA StrippedIsName ==
  ASSUME NEW name \in Names, NEW prefix \in Names
  PROVE  StripPrefix(name, prefix) \in Names
<1>1. /\ Len(name) \in Int /\ Len(prefix) + 1 \in Int /\ Len(prefix) \in Nat
      /\ \A i \in (Len(prefix) + 1)..Len(name) : name[i] \in Range(Alphabet)
  BY DEF Names
<1>2. SubSeq(name, Len(prefix) + 1, Len(name)) \in Seq(Range(Alphabet))
  <2> DEFINE T == Range(Alphabet)
             m == Len(prefix) + 1
             n == Len(name)
  <2>1. m \in Int /\ n \in Int /\ \A i \in m..n : name[i] \in T
    BY <1>1
  <2> HIDE DEF T, m, n
  <2>2. SubSeq(name, m, n) \in Seq(T)
    BY <2>1, SubSeqProperties
  <2>. QED
    BY <2>2 DEF T, m, n
<1>. QED
  BY <1>2 DEF StripPrefix, Names

\* A choice among mailboxes is a name that one of them has.
LEMMA ChosenName ==
  ASSUME NEW dest, IsFiniteSet(dest), \A f \in dest : f.name \in Names,
         NEW T \in SUBSET { f.name : f \in dest }, T # {}
  PROVE  First(T) \in T /\ First(T) \in Names
<1>1. IsFiniteSet({ f.name : f \in dest })
  <2> DEFINE g == [f \in dest |-> f.name]
  <2>1. DOMAIN g = dest
    OBVIOUS
  <2>2. { f.name : f \in dest } = { g[x] : x \in dest }
    OBVIOUS
  <2> HIDE DEF g
  <2>. QED
    BY <2>1, <2>2, FiniteImage
<1>2. IsFiniteSet(T) /\ T \in SUBSET Names
  BY <1>1, FS_Subset
<1>. QED
  BY <1>2, FirstIsThere

\* What Build pairs: a listed mailbox with a name, which the destination has or
\* is to be given.
LEMMA PairIsNamed ==
  ASSUME NEW a \in Accounts, NEW q \in Pairs(a.source, a.dest, a.opts)
  PROVE  /\ q.dest \in Names /\ q.source \in { f.name : f \in a.source }
         /\ q.create \/ Existing(q.dest, a.dest) # {}
<1> DEFINE o == a.opts
<1>1. PICK f \in a.source : q \in PairsOf(f, a.dest, o)
  BY DEF Pairs
<1> DEFINE rel    == StripPrefix(f.name, o.srcPrefix)
           role   == DetectRole(f, rel)
           target == DestinationFor(f, rel, role, a.dest, o)
           own    == Existing(target, a.dest)
           named  == NamesOfRole(a.dest, role, o.dstPrefix)
<1>2. /\ IsFiniteSet(a.dest) /\ \A g \in a.dest : g.name \in Names
      /\ f.name \in Names /\ o.subfolder \in Names /\ o.srcPrefix \in Names /\ o.dstPrefix \in Names
      /\ \A n \in DOMAIN o.mappings : o.mappings[n] \in Names
  BY AccountsAssumption
<1>3. q = [ source |-> f.name, dest |-> IF own # {} THEN First(own) ELSE target,
            role |-> role, create |-> own = {} ]
  BY <1>1 DEF PairsOf
<1>4. rel \in Names
  BY <1>2, StrippedIsName
<1>5. named # {} => First(named) \in Names
  <2>1. named \in SUBSET { g.name : g \in a.dest }
    BY DEF NamesOfRole
  <2>. QED
    BY <1>2, <2>1, ChosenName
<1>6. <<"INBOX">> \in Names
  BY AlphabetAssumption DEF Names
<1> HIDE DEF o, rel, role, named
<1>7. target \in Names
  <2>1. ASSUME NEW x \in Names, NEW y \in Names PROVE x \o y \in Names
    BY DEF Names
  <2>2. \/ target = o.subfolder \o o.mappings[f.name] /\ f.name \in DOMAIN o.mappings
        \/ target = o.subfolder \o <<"INBOX">>
        \/ target = o.subfolder \o First(named) /\ named # {}
        \/ target = o.subfolder \o (o.dstPrefix \o rel)
    BY DEF DestinationFor, named
  <2>. QED
    BY <1>2, <1>4, <1>5, <1>6, <2>1, <2>2
<1> HIDE DEF target
<1>8. own # {} => First(own) \in own /\ First(own) \in Names
  <2>1. own \in SUBSET { g.name : g \in a.dest }
    BY DEF Existing
  <2>. QED
    BY <1>2, <2>1, ChosenName
<1>9. own # {} => Existing(First(own), a.dest) # {}
  BY <1>8 DEF Existing
<1>. QED
  BY <1>3, <1>7, <1>8, <1>9

\* Only finitely many mailboxes are planned for.
LEMMA PlansAreFinite ==
  ASSUME NEW a \in Accounts
  PROVE  IsFiniteSet({ f.name : f \in a.source }) /\ IsFiniteSet(Pairs(a.source, a.dest, a.opts))
<1>1. IsFiniteSet(a.source)
  BY AccountsAssumption
<1>2. IsFiniteSet({ f.name : f \in a.source })
  <2> DEFINE g == [f \in a.source |-> f.name]
  <2>1. DOMAIN g = a.source
    OBVIOUS
  <2>2. { f.name : f \in a.source } = { g[x] : x \in a.source }
    OBVIOUS
  <2> HIDE DEF g
  <2>. QED
    BY <1>1, <2>1, <2>2, FiniteImage
<1>3. IsFiniteSet(Pairs(a.source, a.dest, a.opts))
  <2> DEFINE g == [f \in a.source |-> PairsOf(f, a.dest, a.opts)]
             U == { PairsOf(f, a.dest, a.opts) : f \in a.source }
  <2>1. DOMAIN g = a.source
    OBVIOUS
  <2>2. U = { g[x] : x \in a.source }
    OBVIOUS
  <2>3. ASSUME NEW T \in U PROVE IsFiniteSet(T)
    <3>1. PICK f \in a.source : T = PairsOf(f, a.dest, a.opts)
      BY <2>3
    <3>2. T = {} \/ \E q : T = {q}
      BY <3>1 DEF PairsOf
    <3>. QED
      BY <3>2, FS_EmptySet, FS_Singleton
  <2>4. Pairs(a.source, a.dest, a.opts) = UNION U
    BY DEF Pairs
  <2> HIDE DEF g, U
  <2>5. IsFiniteSet(U)
    BY <1>1, <2>1, <2>2, FiniteImage
  <2>. QED
    BY <2>3, <2>4, <2>5, FS_UNION
<1>. QED
  BY <1>2, <1>3

\* The parents of a name are shorter names, and theirs are among them.
LEMMA ParentsAreNames ==
  ASSUME NEW d \in Names
  PROVE  /\ IsFiniteSet(Parents(d))
         /\ \A p \in Parents(d) : p \in Names /\ Len(p) < Len(d) /\ Parents(p) \subseteq Parents(d)
<1> DEFINE T == Range(Alphabet)
<1>1. d \in Seq(T) /\ Len(d) \in Nat
  BY DEF Names
<1>2. ASSUME NEW n \in 1..(Len(d) - 1)
      PROVE  SubSeq(d, 1, n) \in Seq(T) /\ Len(SubSeq(d, 1, n)) = n
  <2>1. 1 \in Int /\ n \in Int /\ 1 <= n /\ n - 1 + 1 = n /\ \A i \in 1..n : d[i] \in T
    BY <1>1
  <2> HIDE DEF T
  <2>2. /\ SubSeq(d, 1, n) \in Seq(T)
        /\ Len(SubSeq(d, 1, n)) = IF 1 <= n THEN n - 1 + 1 ELSE 0
    BY <2>1, SubSeqProperties
  <2>. QED
    BY <2>1, <2>2
<1>3. IsFiniteSet(Parents(d))
  <2> DEFINE I == 1..(Len(d) - 1)
             g == [n \in I |-> SubSeq(d, 1, n)]
  <2>1. DOMAIN g = I /\ Parents(d) = { g[n] : n \in I }
    BY DEF Parents
  <2>2. IsFiniteSet(I)
    BY <1>1, FS_Interval
  <2> HIDE DEF g, I
  <2>. QED
    BY <2>1, <2>2, FiniteImage
<1>4. ASSUME NEW p \in Parents(d)
      PROVE  p \in Names /\ Len(p) < Len(d) /\ Parents(p) \subseteq Parents(d)
  <2>1. PICK n \in 1..(Len(d) - 1) : p = SubSeq(d, 1, n)
    BY DEF Parents
  <2>2. p \in Names /\ Len(p) = n
    BY <1>2, <2>1 DEF Names
  <2>3. ASSUME NEW m \in 1..(n - 1) PROVE SubSeq(p, 1, m) \in Parents(d)
    <3>1. /\ d \in Seq(T) /\ 1 \in 1..Len(d) /\ n \in 1..Len(d)
          /\ 1 \in 1..(n - 1 + 1) /\ m \in 1..(n - 1 + 1)
      BY <1>1, <2>1
    <3> HIDE DEF T
    <3>2. SubSeq(SubSeq(d, 1, n), 1, m) = SubSeq(d, 1 + 1 - 1, 1 + m - 1)
      BY <3>1, SubSeqOfSubSeq
    <3>3. 1 + 1 - 1 = 1 /\ 1 + m - 1 = m /\ m \in 1..(Len(d) - 1)
      BY <1>1, <2>1
    <3>4. SubSeq(p, 1, m) = SubSeq(d, 1, m)
      BY <2>1, <3>2, <3>3
    <3>. QED
      BY <3>3, <3>4 DEF Parents
  <2>. QED
    BY <1>1, <2>2, <2>3 DEF Parents
<1>. QED
  BY <1>3, <1>4

\* The mailboxes to create are finitely many names, and with each of them its
\* parents, but for those the destination has.
LEMMA NeededIsClosed ==
  ASSUME NEW a \in Accounts
  PROVE  LET needed == Needed(Pairs(a.source, a.dest, a.opts), a.dest) IN
         /\ IsFiniteSet(needed) /\ needed \in SUBSET Names
         /\ \A n \in needed : \A p \in Parents(n) : p \in needed \/ Existing(p, a.dest) # {}
<1> DEFINE pairs  == Pairs(a.source, a.dest, a.opts)
           asked  == { q \in pairs : q.create }
           new    == { q.dest : q \in asked }
           above  == UNION { Parents(d) : d \in new }
           needed == Needed(pairs, a.dest)
<1>1. needed = new \cup { n \in above : Existing(n, a.dest) = {} }
  BY DEF Needed
<1>2. new \in SUBSET Names
  BY PairIsNamed
<1>3. IsFiniteSet(new)
  <2> DEFINE g == [q \in asked |-> q.dest]
  <2>1. DOMAIN g = asked /\ new = { g[q] : q \in asked }
    OBVIOUS
  <2>2. IsFiniteSet(asked)
    BY PlansAreFinite, FS_Subset
  <2> HIDE DEF g, new, asked
  <2>. QED
    BY <2>1, <2>2, FiniteImage
<1> HIDE DEF needed, new
<1>4. \A n \in above : n \in Names /\ Parents(n) \subseteq above
  <2> SUFFICES ASSUME NEW d \in new, NEW n \in Parents(d) PROVE n \in Names /\ Parents(n) \subseteq above
    OBVIOUS
  <2>1. Parents(n) \subseteq Parents(d) /\ n \in Names
    BY <1>2, ParentsAreNames
  <2>. QED
    BY <2>1
<1>5. IsFiniteSet(above)
  <2> DEFINE g == [d \in new |-> Parents(d)]
             U == { Parents(d) : d \in new }
  <2>1. DOMAIN g = new /\ U = { g[d] : d \in new }
    OBVIOUS
  <2>2. \A T \in U : IsFiniteSet(T)
    BY <1>2, ParentsAreNames
  <2> HIDE DEF g, U
  <2>3. IsFiniteSet(U)
    BY <1>3, <2>1, FiniteImage
  <2>4. IsFiniteSet(UNION U)
    BY <2>2, <2>3, FS_UNION
  <2>. QED
    BY <2>4 DEF U
<1>6. IsFiniteSet(needed)
  <2>1. IsFiniteSet({ n \in above : Existing(n, a.dest) = {} })
    BY <1>5, FS_Subset
  <2>. QED
    BY <1>1, <1>3, <2>1, FS_Union
<1>7. needed \in SUBSET Names
  BY <1>1, <1>2, <1>4
<1>8. ASSUME NEW n \in needed, NEW p \in Parents(n) PROVE p \in needed \/ Existing(p, a.dest) # {}
  <2>1. Parents(n) \subseteq above
    BY <1>1, <1>4, <1>8
  <2>. QED
    BY <1>1, <1>8, <2>1
<1>. QED
  BY <1>6, <1>7, <1>8 DEF needed

-----------------------------------------------------------------------------
(***************************************************************************)
(* What a run rests on                                                     *)
(***************************************************************************)
Fields == DOMAIN Fresh
Busy   == {"prepare", "meta", "copy"}
Steps  == Busy \cup {"queued", "cleared", "over"}
Early  == {"options", "filter", "plan"}

\* An error that blames nobody for the end of the run, unless it stops the run.
Candid(err) == "rate" \in err => err \cap ContextErrors # {}

Worker(w) ==
  /\ DOMAIN w = Fields /\ w.step \in Steps
  /\ w.doubt # {} => w.step \in {"meta", "copy"}
  /\ w.blame \cap (ContextErrors \cup {"rate"}) = {} /\ Candid(w.doubt)

Workers ==
  /\ phase \in Early \cup {"create", "first", "second", "over"}
  /\ account \in Accounts /\ DOMAIN folder \subseteq { f.name : f \in account.source }
  /\ \A f \in DOMAIN folder : Worker(folder[f])
  /\ phase \in Early => DOMAIN folder = {}
  /\ ~Passing => \A f \in DOMAIN folder : folder[f].step \in {"queued", "over"}

\* A parent that is still missing is created before, and every mailbox of the
\* plan is there or is to be created.
Creating ==
  /\ creates \in Seq(Names)
  /\ phase \in Early => made = account.dest /\ creates = <<>> /\ plan = {}
  /\ Passing => creates = <<>>
  /\ \A i \in 1..Len(creates) : \A p \in Parents(creates[i]) :
        Existing(p, made) # {} \/ \E j \in 1..(i - 1) : creates[j] = p
  /\ \A q \in plan : Existing(q.dest, made) # {} \/ \E j \in 1..Len(creates) : creates[j] = q.dest

Doubtful == { f \in DOMAIN folder : folder[f].doubt # {} }

\* While the run lives the record counts what was not followed by a success.
Health ==
  /\ ctx \in {"live", "cancelled", "expired", "stopped"} /\ reason \in BOOLEAN /\ earned \in BOOLEAN
  /\ inARow \in Nat /\ streak \in Nat
  /\ Live => inARow = streak
  /\ streak >= Ceiling => earned
  /\ Live /\ Doubtful # {} => earned
  /\ ctx = "stopped" => earned
  /\ earned => reason \/ Doubtful # {}
  /\ phase \in Early \cup {"create"} => ~reason
  /\ phase # "over" => result = "running"
  /\ phase = "over" /\ reason => result = "verdict"
  /\ result \in {"cancelled", "expired"} => ctx = result

\* A folder that waits is in the queue, and its passes fit how far the run is.
Passes ==
  /\ queue \in Seq(DOMAIN folder)
  /\ \A i \in 1..Len(queue) : folder[queue[i]].step = "queued"
  /\ \A i, j \in 1..Len(queue) : queue[i] = queue[j] => i = j
  /\ Passing /\ Live =>
       \A f \in DOMAIN folder : folder[f].step = "queued" => \E i \in 1..Len(queue) : queue[i] = f
  /\ phase = "create" => queue = <<>> /\ \A f \in DOMAIN folder : folder[f].step = "queued"
                                                                  /\ folder[f].passes = 0
  /\ phase \in Early => queue = <<>>
  /\ phase = "first" => \A f \in DOMAIN folder :
       folder[f].passes = IF folder[f].step \in {"queued", "cleared"} THEN 0 ELSE 1
  /\ phase = "second" => \A f \in DOMAIN folder :
       \/ folder[f].step \in {"queued", "cleared"} /\ folder[f].passes = 1
       \/ folder[f].step \in Busy \cup {"over"} /\ folder[f].passes = 2
       \/ folder[f].step = "over" /\ folder[f].passes = 1 /\ ~Retryable(folder[f].err)
  /\ SecondChance

-----------------------------------------------------------------------------
(***************************************************************************)
(* Errors and workers                                                      *)
(***************************************************************************)
\* An error of the context is asked about first, and stops the folder.
LEMMA ContextStops ==
  ASSUME NEW err, err \cap ContextErrors # {}
  PROVE  Classify(err) = "Stop"
<1> DEFINE yes   == { i \in DOMAIN Questions : Questions[i][1] \cap err # {} }
           first == CHOOSE i \in yes : \A j \in yes : i <= j
<1>1. DOMAIN Questions = 1..12 /\ Questions[1] = <<ContextErrors, "Stop">>
  BY DEF Questions
<1>2. 1 \in yes /\ yes \subseteq 1..12
  BY <1>1
<1> HIDE DEF yes
<1>3. first \in yes /\ \A j \in yes : first <= j
  <2>1. \E i \in yes : \A j \in yes : i <= j
    BY <1>2
  <2>. QED
    BY <2>1
<1>4. Classify(err) = IF yes = {} THEN "Skip" ELSE Questions[first][2]
  BY DEF Classify, yes
<1> HIDE DEF first
<1>5. first = 1
  BY <1>2, <1>3
<1>6. Classify(err) = Questions[1][2]
  BY <1>2, <1>4, <1>5
<1>7. Questions[1][2] = "Stop"
  BY <1>1
<1>. QED
  BY <1>6, <1>7

FieldsAre == Fields = {"step", "link", "token", "attempt", "todo", "doubt", "err", "passes",
                       "copied", "failed", "blame"}

\* What becomes of a worker that is decided on: it goes on, or is over.
LEMMA WorkerDecides ==
  ASSUME NEW w, Worker(w), NEW err, Candid(err)
  PROVE  /\ Worker(Decide(w, err)) /\ Decide(w, err).doubt = {}
         /\ Decide(w, err).passes = w.passes /\ Decide(w, err).step \in {w.step, "over"}
<1>0. FieldsAre
  BY DEF FieldsAre, Fields, Fresh
<1> DEFINE Fine(v) == /\ Worker(v) /\ v.doubt = {} /\ v.passes = w.passes
                      /\ v.step \in {w.step, "over"}
<1>1. Candid({})
  BY DEF Candid
<1>2. ASSUME NEW v, Worker(v), v.passes = w.passes, NEW e PROVE Fine(Over(v, e))
  <2>1. /\ DOMAIN Over(v, e) = Fields /\ Over(v, e).step = "over" /\ Over(v, e).doubt = {}
        /\ Over(v, e).passes = v.passes /\ Over(v, e).blame = v.blame
    BY <1>0, <1>2 DEF Over, Worker, FieldsAre
  <2>. QED
    BY <1>1, <1>2, <2>1 DEF Worker, Steps
<1>3. Fine([w EXCEPT !.attempt = @ + 1, !.doubt = {}])
  <2> DEFINE v == [w EXCEPT !.attempt = @ + 1, !.doubt = {}]
  <2>1. /\ DOMAIN v = Fields /\ v.step = w.step /\ v.doubt = {} /\ v.passes = w.passes
        /\ v.blame = w.blame
    BY <1>0 DEF Worker, FieldsAre
  <2> HIDE DEF v
  <2>2. Fine(v)
    BY <1>1, <2>1 DEF Worker
  <2>. QED
    BY <2>2 DEF v
<1>4. ASSUME Classify(err) # "Stop" PROVE Fine(WrittenOff(w, err))
  <2> DEFINE m == Stuck(w)
             v == [w EXCEPT !.todo = @ \ {m}, !.failed = @ \cup {m}, !.blame = @ \cup err,
                            !.attempt = 0, !.doubt = {}]
  <2>1. err \cap (ContextErrors \cup {"rate"}) = {}
    BY <1>4, ContextStops DEF Candid
  <2>2. /\ DOMAIN v = Fields /\ v.step = w.step /\ v.doubt = {} /\ v.passes = w.passes
        /\ v.blame = w.blame \cup err
    BY <1>0 DEF Worker, FieldsAre
  <2>3. WrittenOff(w, err) = IF v.todo = {} THEN Over(v, {}) ELSE v
    BY DEF WrittenOff
  <2> HIDE DEF v
  <2>4. Fine(v)
    BY <1>1, <2>1, <2>2 DEF Worker
  <2>5. Fine(Over(v, {}))
    BY <1>2, <2>4
  <2>. QED
    BY <2>3, <2>4, <2>5
<1>5. Fine(Over(w, err))
  BY <1>2
<1> HIDE DEF Fine
<1>6. Fine(Decide(w, err))
  BY <1>3, <1>4, <1>5 DEF Decide
<1>. QED
  BY <1>6 DEF Fine

\* What a step of a worker that was at work makes of it and of the record.
Effect(f, v) ==
  /\ folder' = [folder EXCEPT ![f] = v]
  /\ Worker(v) /\ v.passes = folder[f].passes /\ v.step \in Busy \cup {"over"}
  /\ ctx' = ctx /\ reason' = reason
  /\ inARow' \in Nat /\ streak' \in Nat /\ earned' \in BOOLEAN
  /\ Live => inARow' = streak'
  /\ streak' >= Ceiling => earned'
  /\ earned => earned'
  /\ earned' => earned \/ v.doubt # {}
  /\ Live /\ v.doubt # {} => earned'

\* The connection of a worker is no concern of its record.
LEMMA WorkerRelinks ==
  ASSUME NEW w, Worker(w), NEW l
  PROVE  /\ Worker([w EXCEPT !.link = l])
         /\ [w EXCEPT !.link = l].passes = w.passes /\ [w EXCEPT !.link = l].step = w.step
         /\ [w EXCEPT !.link = l].doubt = w.doubt
<1> DEFINE v == [w EXCEPT !.link = l]
<1>1. FieldsAre
  BY DEF FieldsAre, Fields, Fresh
<1>2. /\ DOMAIN v = Fields /\ v.step = w.step /\ v.doubt = w.doubt /\ v.passes = w.passes
      /\ v.blame = w.blame
  BY <1>1 DEF Worker, FieldsAre
<1> HIDE DEF v
<1>3. Worker(v)
  BY <1>2 DEF Worker
<1>. QED
  BY <1>2, <1>3 DEF v

\* A failure is counted, and its worker decided on or left in doubt.
LEMMA TroubleCounts ==
  ASSUME Health, NEW f \in DOMAIN folder, folder[f].doubt = {},
         NEW w, Worker(w), w.doubt = {}, w.passes = folder[f].passes, w.step = folder[f].step,
         w.step \in Busy, NEW err, err # {}, Candid(err), Trouble(f, w, err)
  PROVE  \E v : Effect(f, v)
<1> DEFINE spoilt == Discarded(w, err)
           doubts == [spoilt EXCEPT !.doubt = err]
<1>0. FieldsAre
  BY DEF FieldsAre, Fields, Fresh
<1>1. /\ Worker(spoilt) /\ spoilt.doubt = {} /\ spoilt.passes = folder[f].passes
      /\ spoilt.step = w.step
  BY WorkerRelinks DEF Discarded
<1>2. /\ DOMAIN doubts = Fields /\ doubts.step = spoilt.step /\ doubts.doubt = err
      /\ doubts.passes = spoilt.passes /\ doubts.blame = spoilt.blame
  BY <1>0, <1>1 DEF Worker, FieldsAre
<1>3. /\ Worker(Decide(spoilt, err)) /\ Decide(spoilt, err).doubt = {}
      /\ Decide(spoilt, err).passes = folder[f].passes
      /\ Decide(spoilt, err).step \in Busy \cup {"over"}
  BY <1>1, WorkerDecides
<1>4. /\ inARow \in Nat /\ streak \in Nat /\ earned \in BOOLEAN /\ (Live => inARow = streak)
      /\ (streak >= Ceiling => earned) /\ Ceiling \in Nat
  BY ControlAssumption DEF Health
<1>5. CASE w.step = "prepare"
  <2>1. folder' = [folder EXCEPT ![f] = Decide(spoilt, err)] /\ UNCHANGED healthVars
    BY <1>5 DEF Trouble
  <2>2. Effect(f, Decide(spoilt, err))
    BY <1>3, <1>4, <2>1 DEF Effect, healthVars, Live
  <2>. QED
    BY <2>2
<1>6. CASE w.step # "prepare"
  <2>1. /\ inARow' = inARow + 1 /\ streak' = (IF Live THEN streak + 1 ELSE streak)
        /\ earned' = (earned \/ streak' >= Ceiling) /\ ctx' = ctx /\ reason' = reason
        /\ folder' = [folder EXCEPT ![f] = IF inARow + 1 < Ceiling THEN Decide(spoilt, err) ELSE doubts]
    BY <1>6 DEF Trouble
  <2>2. CASE inARow + 1 < Ceiling
    <3>1. folder' = [folder EXCEPT ![f] = Decide(spoilt, err)]
      BY <2>1, <2>2
    <3>2. (earned' <=> earned) /\ inARow' \in Nat /\ streak' \in Nat /\ earned' \in BOOLEAN
          /\ (Live => inARow' = streak') /\ (streak' >= Ceiling => earned')
      BY <1>4, <2>1, <2>2
    <3>3. Effect(f, Decide(spoilt, err))
      BY <1>3, <2>1, <3>1, <3>2 DEF Effect
    <3>. QED
      BY <3>3
  <2>3. CASE ~ (inARow + 1 < Ceiling)
    <3>1. folder' = [folder EXCEPT ![f] = doubts]
      BY <2>1, <2>3
    <3> HIDE DEF doubts
    <3>2. Worker(doubts) /\ doubts.doubt # {} /\ doubts.passes = folder[f].passes
          /\ doubts.step \in Busy \cup {"over"}
      BY <1>1, <1>2, <1>6 DEF Worker, Busy
    <3>3. (Live => earned') /\ inARow' \in Nat /\ streak' \in Nat /\ earned' \in BOOLEAN
          /\ (Live => inARow' = streak') /\ (streak' >= Ceiling => earned') /\ (earned => earned')
      <4>1. (earned' <=> earned \/ streak' >= Ceiling) /\ earned' \in BOOLEAN
        BY <2>1
      <4>2. inARow' \in Nat /\ inARow' >= Ceiling
        BY <1>4, <2>1, <2>3
      <4>3. CASE Live
        <5>1. streak' = inARow'
          BY <1>4, <2>1, <4>3
        <5>. QED
          BY <4>1, <4>2, <5>1
      <4>4. CASE ~Live
        <5>1. streak' = streak
          BY <2>1, <4>4
        <5>. QED
          BY <1>4, <4>1, <4>2, <4>4, <5>1
      <4>. QED
        BY <4>3, <4>4
    <3>4. Effect(f, doubts)
      BY <2>1, <3>1, <3>2, <3>3 DEF Effect
    <3>. QED
      BY <3>4
  <2>. QED
    BY <2>2, <2>3
<1>. QED
  BY <1>5, <1>6

\* The same, of a worker at work whose connection the failure may cost.
LEMMA TroubleEffect ==
  ASSUME Workers, Health, NEW f \in DOMAIN folder, Working(f), NEW err, err # {}, Candid(err),
         Trouble(f, folder[f], err) \/ Trouble(f, [folder[f] EXCEPT !.link = "none"], err)
  PROVE  \E v : Effect(f, v)
<1> DEFINE w == folder[f]
           v == [w EXCEPT !.link = "none"]
<1>1. Worker(w) /\ w.doubt = {} /\ w.step \in Busy
  BY DEF Workers, Working, Busy
<1>2. Worker(v) /\ v.doubt = {} /\ v.passes = w.passes /\ v.step = w.step
  BY <1>1, WorkerRelinks
<1>3. CASE Trouble(f, w, err)
  BY <1>1, <1>3, TroubleCounts
<1>4. CASE Trouble(f, v, err)
  <2> HIDE DEF v
  <2>. QED
    BY <1>1, <1>2, <1>4, TroubleCounts
<1>. QED
  BY <1>3, <1>4

\* A worker that goes on to another step of its dial.
LEMMA DialEffect ==
  ASSUME Workers, Health, NEW f \in DOMAIN folder, Working(f), NEW v,
         folder' = [folder EXCEPT ![f] = v], UNCHANGED healthVars,
         DOMAIN v = Fields, v.step = folder[f].step, v.doubt = {}, v.passes = folder[f].passes,
         v.blame = folder[f].blame
  PROVE  Effect(f, v)
<1>1. Worker(folder[f]) /\ folder[f].step \in Busy /\ folder[f].doubt = {}
  BY DEF Workers, Working, Busy
<1>2. Worker(v)
  BY <1>1 DEF Worker
<1>3. /\ inARow \in Nat /\ streak \in Nat /\ earned \in BOOLEAN /\ (Live => inARow = streak)
      /\ (streak >= Ceiling => earned)
  BY DEF Health
<1>. QED
  BY <1>1, <1>2, <1>3 DEF Effect, healthVars

\* An operation that succeeds changes a worker's work and clears the record.
LEMMA SuccessEffect ==
  ASSUME Workers, Health, NEW f \in DOMAIN folder, Succeed(f)
  PROVE  \E v : Effect(f, v)
<1> DEFINE w == folder[f]
<1>0. FieldsAre
  BY DEF FieldsAre, Fields, Fresh
<1>1. Worker(w) /\ w.doubt = {} /\ w.step \in Busy
  BY DEF Workers, Succeed, Working, Busy
<1>2. /\ inARow \in Nat /\ streak \in Nat /\ earned \in BOOLEAN /\ (Live => inARow = streak)
      /\ (streak >= Ceiling => earned) /\ Ceiling \in Nat \ {0}
  BY ControlAssumption DEF Health
<1>3. PICK v \in {Opened(f, w), Read(f, w), Copied(w)} : folder' = [folder EXCEPT ![f] = v]
  BY DEF Succeed
<1> DEFINE Fine(x) == /\ DOMAIN x = Fields /\ x.step \in Busy \cup {"over"} /\ x.doubt = {}
                      /\ x.passes = w.passes /\ x.blame = w.blame
<1>4. ASSUME NEW x, Fine(x), NEW e PROVE Fine(Over(x, e))
  BY <1>0, <1>4 DEF Over, FieldsAre
<1>5. Fine(w)
  BY <1>1 DEF Worker
<1>6. Fine(Opened(f, w))
  <2> DEFINE todo == SearchedInto(f, DOMAIN Mail(f) \ w.copied)
             x == [w EXCEPT !.step = "meta", !.todo = todo]
  <2>1. Fine(x)
    BY <1>0, <1>5 DEF FieldsAre, Busy
  <2>2. Opened(f, w) = IF todo = {} THEN Over(w, {}) ELSE x
    BY DEF Opened
  <2> HIDE DEF x, Fine, todo
  <2>. QED
    BY <1>4, <1>5, <2>1, <2>2
<1>7. Fine(Read(f, w))
  <2> DEFINE todo == { m \in w.todo : Active(filter) => Wants(filter, Mail(f)[m], account.now) }
             x == [w EXCEPT !.step = "copy", !.todo = todo, !.attempt = 0]
  <2>1. Fine(x)
    BY <1>0, <1>5 DEF FieldsAre, Busy
  <2>2. Read(f, w) = IF todo = {} THEN Over(w, {}) ELSE x
    BY DEF Read
  <2> HIDE DEF x, Fine, todo
  <2>. QED
    BY <1>4, <1>5, <2>1, <2>2
<1>8. Fine(Copied(w))
  <2> DEFINE m == Stuck(w)
             x == [w EXCEPT !.todo = @ \ {m}, !.copied = @ \cup {m}, !.attempt = 0]
  <2>1. Fine(x)
    BY <1>0, <1>5 DEF FieldsAre
  <2>2. Copied(w) = IF x.todo = {} THEN Over(x, {}) ELSE x
    BY DEF Copied
  <2> HIDE DEF x, Fine
  <2>. QED
    BY <1>4, <2>1, <2>2
<1>9. Fine(v)
  BY <1>6, <1>7, <1>8
<1>10. Worker(v)
  BY <1>1, <1>9 DEF Worker, Steps, Candid
<1>11. /\ ctx' = ctx /\ reason' = reason /\ earned' = earned
       /\ \/ inARow' = inARow /\ streak' = streak
          \/ inARow' = 0 /\ streak' = 0
  BY DEF Succeed, Progress
<1>12. /\ inARow' \in Nat /\ streak' \in Nat /\ earned' \in BOOLEAN
       /\ (Live => inARow' = streak') /\ (streak' >= Ceiling => earned') /\ (earned' <=> earned)
  <2>1. CASE inARow' = inARow /\ streak' = streak
    BY <1>2, <1>11, <2>1
  <2>2. CASE inARow' = 0 /\ streak' = 0
    BY <1>2, <1>11, <2>2
  <2>. QED
    BY <1>11, <2>1, <2>2
<1> HIDE DEF w
<1>13. v.step \in Busy \cup {"over"} /\ v.doubt = {} /\ v.passes = folder[f].passes
  BY <1>9 DEF w
<1>. QED
  BY <1>3, <1>10, <1>11, <1>12, <1>13 DEF Effect

\* Whatever a worker does, but for setting out and giving up.
LEMMA StepEffect ==
  ASSUME Workers, Health, NEW f \in DOMAIN folder, FolderStep(f), ~GiveUp(f), ~LaunchFolder(f)
  PROVE  UNCHANGED runVars /\ (UNCHANGED <<folder, healthVars>> \/ \E v : Effect(f, v))
<1> DEFINE w == folder[f]
           Done == UNCHANGED <<folder, healthVars>> \/ \E v : Effect(f, v)
           Troubled(err) == Trouble(f, w, err) \/ Trouble(f, [w EXCEPT !.link = "none"], err)
<1>0. FieldsAre
  BY DEF FieldsAre, Fields, Fresh
<1>1. Worker(w)
  BY DEF Workers
<1>2. UNCHANGED runVars
  BY DEF FolderStep, Resolve, Secret, Login, Renew, Succeed, Refuse, Throttled, Interrupted
<1>3. ASSUME Working(f), NEW err, err # {}, Candid(err), Troubled(err) PROVE Done
  BY <1>3, TroubleEffect
<1>4. ASSUME Working(f), NEW v, folder' = [folder EXCEPT ![f] = v], UNCHANGED healthVars,
             DOMAIN v = Fields, v.step = w.step, v.doubt = w.doubt, v.passes = w.passes,
             v.blame = w.blame
      PROVE  Done
  <2>1. w.doubt = {}
    BY <1>4 DEF Working
  <2>. QED
    BY <1>4, <2>1, DialEffect
<1>. SUFFICES Done
  BY <1>2
<1> HIDE DEF Troubled, Done
<1>5. Candid({"unknown"}) /\ Candid({"auth"})
  BY DEF Candid
<1>6. CASE Resolve(f)
  <2>1. CASE Trouble(f, w, {"unknown"})
    BY <1>3, <1>5, <1>6, <2>1 DEF Resolve, Troubled
  <2>2. CASE UNCHANGED <<folder, healthVars>>
    BY <2>2 DEF Done
  <2>. QED
    BY <1>6, <2>1, <2>2 DEF Resolve
<1>7. ASSUME Working(f), NEW l, NEW t, UNCHANGED healthVars,
             folder' = [folder EXCEPT ![f] = [w EXCEPT !.link = l, !.token = t]]
      PROVE  Done
  <2> DEFINE v == [w EXCEPT !.link = l, !.token = t]
  <2>1. /\ DOMAIN v = Fields /\ v.step = w.step /\ v.doubt = w.doubt /\ v.passes = w.passes
        /\ v.blame = w.blame
    BY <1>0, <1>1 DEF Worker, FieldsAre
  <2> HIDE DEF v
  <2>. QED
    BY <1>4, <1>7, <2>1 DEF v
<1>8. ASSUME Working(f), NEW l, UNCHANGED healthVars, folder' = [folder EXCEPT ![f].link = l]
      PROVE  Done
  <2> DEFINE v == [w EXCEPT !.link = l]
  <2>1. /\ DOMAIN v = Fields /\ v.step = w.step /\ v.doubt = w.doubt /\ v.passes = w.passes
        /\ v.blame = w.blame
    BY <1>0, <1>1 DEF Worker, FieldsAre
  <2>2. folder' = [folder EXCEPT ![f] = v]
    BY <1>8
  <2> HIDE DEF v
  <2>. QED
    BY <1>4, <1>8, <2>1, <2>2
<1>9. CASE Secret(f)
  <2>1. CASE Trouble(f, w, {"unknown"})
    BY <1>3, <1>5, <1>9, <2>1 DEF Secret, Troubled
  <2>2. CASE \E t : folder' = [folder EXCEPT ![f] = [w EXCEPT !.link = "login", !.token = t]]
                    /\ UNCHANGED healthVars
    BY <1>7, <1>9, <2>2 DEF Secret
  <2>. QED
    BY <1>9, <2>1, <2>2 DEF Secret
<1>10. CASE Login(f)
  <2>1. CASE Accepted(f)
    BY <1>8, <1>10, <2>1 DEF Login, Accepted
  <2>2. CASE TurnedDown(f)
    BY <1>3, <1>5, <1>8, <1>10, <2>2 DEF Login, TurnedDown, Troubled
  <2>3. CASE Unreached(f)
    <3>1. PICK e \in DialErrors : Trouble(f, [w EXCEPT !.link = "none"], e)
      BY <2>3 DEF Unreached
    <3>2. e # {} /\ Candid(e)
      BY <3>1, ErrorsAssumption DEF Candid
    <3>. QED
      BY <1>3, <1>10, <3>1, <3>2 DEF Login, Troubled
  <2>. QED
    BY <1>10, <2>1, <2>2, <2>3 DEF Login
<1>11. CASE Renew(f)
  <2>1. CASE Trouble(f, [w EXCEPT !.link = "none"], {"auth"})
    BY <1>3, <1>5, <1>11, <2>1 DEF Renew, Troubled
  <2>2. CASE \E t : folder' = [folder EXCEPT ![f] = [w EXCEPT !.link = "again", !.token = t]]
                    /\ UNCHANGED healthVars
    BY <1>7, <1>11, <2>2 DEF Renew
  <2>. QED
    BY <1>11, <2>1, <2>2 DEF Renew, Declines, TakesHeld, MintsAnew
<1>12. CASE Succeed(f)
  BY <1>12, SuccessEffect DEF Done
<1>13. CASE Refuse(f)
  <2>1. PICK e \in Answers : Trouble(f, w, e)
    BY <1>13 DEF Refuse
  <2>2. e # {} /\ Candid(e)
    BY <2>1, ErrorsAssumption DEF Candid
  <2>. QED
    BY <1>3, <1>13, <2>1, <2>2 DEF Refuse, Troubled
<1>14. CASE Throttled(f)
  <2> DEFINE e == Classifiable({"rate"}, account.deadline)
  <2>1. "deadline" \in e
    BY <1>14 DEF Throttled, Classifiable, ContextErrors
  <2>2. e # {} /\ Candid(e) /\ Trouble(f, w, e)
    BY <1>14, <2>1 DEF Candid, ContextErrors, Throttled
  <2> HIDE DEF e
  <2>. QED
    BY <1>3, <1>14, <2>2 DEF Throttled, Troubled
<1>15. CASE Interrupted(f)
  <2>1. PICK e \in { {"deadline"}, {"canceled"}, {"broken", "canceled"} } : Trouble(f, w, e)
    BY <1>15 DEF Interrupted
  <2>2. e # {} /\ Candid(e)
    BY <2>1 DEF Candid
  <2>. QED
    BY <1>3, <1>15, <2>1, <2>2 DEF Interrupted, Troubled
<1>. QED
  BY <1>6, <1>9, <1>10, <1>11, <1>12, <1>13, <1>14, <1>15 DEF FolderStep

-----------------------------------------------------------------------------
(***************************************************************************)
(* Steps                                                                   *)
(***************************************************************************)
Control == Workers /\ Creating /\ Health /\ Passes

\* A worker that is in doubt gives up, and one that waited sets out.
LEMMA GiveUpEffect ==
  ASSUME Workers, NEW f \in DOMAIN folder, GiveUp(f)
  PROVE  /\ folder[f].step \in Busy /\ UNCHANGED <<runVars, inARow, streak, earned>>
         /\ reason' = TRUE /\ ctx' = IF Live THEN "stopped" ELSE ctx
         /\ \E v : /\ folder' = [folder EXCEPT ![f] = v]
                   /\ Worker(v) /\ v.doubt = {} /\ v.passes = folder[f].passes
                   /\ v.step \in Busy \cup {"over"}
<1>1. Worker(folder[f]) /\ folder[f].doubt # {}
  BY DEF Workers, GiveUp
<1>2. folder[f].step \in Busy /\ Candid(folder[f].doubt)
  BY <1>1 DEF Worker, Busy
<1>3. LET v == Decide(folder[f], folder[f].doubt) IN
      Worker(v) /\ v.doubt = {} /\ v.passes = folder[f].passes /\ v.step \in Busy \cup {"over"}
  BY <1>1, <1>2, WorkerDecides
<1>. QED
  BY <1>2, <1>3 DEF GiveUp

\* A worker that waited for its place sets out afresh, one pass on.
LEMMA LaunchEffect ==
  ASSUME Workers, NEW f \in DOMAIN folder, LaunchFolder(f)
  PROVE  /\ folder[f].step = "cleared" /\ UNCHANGED <<runVars, healthVars>> /\ folder[f].doubt = {}
         /\ \E v : /\ folder' = [folder EXCEPT ![f] = v]
                   /\ Worker(v) /\ v.doubt = {} /\ v.passes = folder[f].passes + 1
                   /\ v.step = "prepare"
<1> DEFINE w == folder[f]
           v == [w EXCEPT !.step = "prepare", !.err = {}, !.failed = {}, !.attempt = 0, !.passes = w.passes + 1]
<1>0. FieldsAre
  BY DEF FieldsAre, Fields, Fresh
<1>1. Worker(w) /\ w.step = "cleared" /\ w.doubt = {}
  BY DEF Workers, Worker, LaunchFolder, Cleared
<1>2. /\ DOMAIN v = Fields /\ v.step = "prepare" /\ v.doubt = w.doubt /\ v.passes = w.passes + 1
      /\ v.blame = w.blame
  BY <1>0, <1>1 DEF Worker, FieldsAre
<1>3. folder' = [folder EXCEPT ![f] = v]
  BY DEF LaunchFolder
<1>4. UNCHANGED <<runVars, healthVars>>
  BY DEF LaunchFolder
<1> HIDE DEF v
<1>5. Worker(v)
  BY <1>1, <1>2 DEF Worker, Steps, Busy
<1>. QED
  BY <1>1, <1>2, <1>3, <1>4, <1>5

\* Folders are worked on during a pass, and what the run is at stays.
LEMMA WorkersPass ==
  ASSUME Workers, NEW f \in DOMAIN folder, FolderStep(f)
  PROVE  Passing /\ UNCHANGED runVars /\ folder[f].step \in Busy \cup {"cleared"}
<1>1. UNCHANGED runVars
  BY DEF FolderStep, GiveUp, LaunchFolder, Resolve, Secret, Login, Renew, Succeed, Refuse, Throttled, Interrupted
<1>2. folder[f].step \in Busy \cup {"cleared"}
  <2>1. CASE GiveUp(f)
    BY <2>1, GiveUpEffect
  <2>2. CASE LaunchFolder(f)
    BY <2>2, LaunchEffect
  <2>3. CASE Working(f)
    BY <2>3 DEF Working, Busy
  <2>. QED
    BY <2>1, <2>2, <2>3 DEF FolderStep, Resolve, Secret, Login, Renew, Succeed, Refuse, Throttled, Interrupted
<1>. QED
  BY <1>1, <1>2 DEF Workers, Busy

\* However a worker steps, it stays one; it sets out for a pass or goes on with it.
LEMMA WorkerSteps ==
  ASSUME Workers, Health, NEW f \in DOMAIN folder, FolderStep(f)
  PROVE  \/ UNCHANGED <<folder, healthVars>>
         \/ \E v : /\ folder' = [folder EXCEPT ![f] = v] /\ Worker(v)
                   /\ \/ /\ folder[f].step \in Busy /\ v.step \in Busy \cup {"over"}
                         /\ v.passes = folder[f].passes
                      \/ /\ folder[f].step = "cleared" /\ v.step = "prepare"
                         /\ v.passes = folder[f].passes + 1
<1>1. CASE GiveUp(f)
  BY <1>1, GiveUpEffect
<1>2. CASE LaunchFolder(f)
  BY <1>2, LaunchEffect
<1>3. CASE ~GiveUp(f) /\ ~LaunchFolder(f)
  <2>1. folder[f].step \in Busy
    BY <1>3 DEF FolderStep, Resolve, Secret, Login, Renew, Succeed, Refuse, Throttled, Interrupted, Working, Busy
  <2>. QED
    BY <1>3, <2>1, StepEffect DEF Effect
<1>. QED
  BY <1>1, <1>2, <1>3

\* A folder leaves the queue.
LEMMA NextEffect ==
  ASSUME Control, NextFolder, Live
  PROVE  /\ queue # <<>> /\ Head(queue) \in DOMAIN folder /\ folder[Head(queue)].step = "queued"
         /\ queue' = Tail(queue) /\ Head(queue) = queue[1]
         /\ \E v : /\ folder' = [folder EXCEPT ![Head(queue)] = v] /\ Worker(v)
                   /\ v.step = "cleared" /\ v.passes = folder[Head(queue)].passes /\ v.doubt = {}
<1> DEFINE f == Head(queue)
           w == folder[f]
           v == [w EXCEPT !.step = "cleared"]
<1>0. FieldsAre
  BY DEF FieldsAre, Fields, Fresh
<1>1. queue # <<>> /\ queue \in Seq(DOMAIN folder) /\ queue' = Tail(queue)
  BY DEF NextFolder, Control, Passes
<1>2. f = queue[1] /\ 1 \in 1..Len(queue) /\ f \in DOMAIN folder
  BY <1>1
<1>3. w.step = "queued" /\ Worker(w) /\ w.doubt = {}
  BY <1>2 DEF Control, Passes, Workers, Worker
<1>4. /\ DOMAIN v = Fields /\ v.step = "cleared" /\ v.doubt = w.doubt /\ v.passes = w.passes
      /\ v.blame = w.blame
  BY <1>0, <1>3 DEF Worker, FieldsAre
<1>5. folder' = [folder EXCEPT ![f] = v]
  BY DEF NextFolder
<1> HIDE DEF v
<1>6. Worker(v)
  BY <1>3, <1>4 DEF Worker, Steps
<1>. QED
  BY <1>1, <1>2, <1>3, <1>4, <1>5, <1>6

\* Every step keeps the workers' records whole.
LEMMA WorkersStep ==
  ASSUME Control, [Next]_vars
  PROVE  Workers'
<1>0. Workers /\ FieldsAre
  BY DEF Control, FieldsAre, Fields, Fresh
<1>1. ASSUME UNCHANGED <<account, folder>>, phase' \in Early \cup {"create", "first", "second", "over"},
             phase' \in Early => phase \in Early, Passing \/ Passing' => phase' \in {"first", "second"}
      PROVE  Workers'
  BY <1>0, <1>1 DEF Workers, Passing, Early
<1>2. CASE ReadSearch \/ ResolveFilter \/ CreateNext \/ StartPass
  BY <1>1, <1>2 DEF ReadSearch, ResolveFilter, CreateNext, StartPass, Return, Early, Passing, Workers, Control
<1>3. CASE Finished \/ Expire \/ End \/ UNCHANGED vars
  <2>1. UNCHANGED <<account, phase, folder>>
    BY <1>3 DEF Finished, Expire, End, vars, runVars
  <2>. QED
    BY <1>0, <2>1 DEF Workers, Passing
<1>4. CASE PlanRun
  <2>1. phase = "plan" /\ DOMAIN folder = {} /\ account' = account /\ account \in Accounts
    BY <1>0, <1>4 DEF PlanRun, Workers, Early
  <2>2. CASE phase' = "over" /\ UNCHANGED folder
    BY <2>1, <2>2 DEF Workers, Early, Passing
  <2>3. CASE ~ (phase' = "over" /\ UNCHANGED folder)
    <3> DEFINE p == Build(account.source, account.dest, account.opts)
    <3>1. phase' = "create" /\ folder' = [f \in { q.source : q \in p.pairs } |-> Fresh]
      BY <1>4, <2>3 DEF PlanRun, Return
    <3>2. p.pairs \subseteq Pairs(account.source, account.dest, account.opts)
      BY DEF Build
    <3>3. { q.source : q \in p.pairs } \subseteq { f.name : f \in account.source }
      BY <2>1, <3>2, PairIsNamed
    <3>4. Worker(Fresh) /\ Fresh.step = "queued"
      BY DEF Fresh, Worker, Fields, Steps, Candid
    <3> HIDE DEF p
    <3>5. DOMAIN folder' = { q.source : q \in p.pairs } /\ \A f \in DOMAIN folder' : folder'[f] = Fresh
      BY <3>1
    <3>. QED
      BY <2>1, <3>1, <3>3, <3>4, <3>5 DEF Workers, Early
  <2>. QED
    BY <2>2, <2>3
<1>5. CASE NextFolder
  <2>1. UNCHANGED <<account, phase>> /\ Passing
    BY <1>5 DEF NextFolder
  <2>2. CASE UNCHANGED folder
    BY <1>0, <2>1, <2>2 DEF Workers, Passing
  <2>3. CASE Live
    <3>1. PICK v : folder' = [folder EXCEPT ![Head(queue)] = v] /\ Worker(v)
      BY <1>5, <2>3, NextEffect
    <3>. QED
      BY <1>0, <2>1, <3>1 DEF Workers, Passing
  <2>. QED
    BY <1>5, <2>2, <2>3 DEF NextFolder
<1>6. CASE EndPass
  <2>1. account' = account /\ Passing /\ \A f \in DOMAIN folder : folder[f].step \in {"queued", "over"}
    BY <1>6 DEF EndPass
  <2>2. CASE phase' = "over" /\ UNCHANGED folder
    BY <1>0, <2>1, <2>2 DEF Workers, Passing, Early
  <2>3. CASE ~ (phase' = "over" /\ UNCHANGED folder)
    <3>1. phase' = "second"
          /\ folder' = [f \in DOMAIN folder |->
                          IF f \in Again THEN [folder[f] EXCEPT !.step = "queued"] ELSE folder[f]]
      BY <1>6, <2>3 DEF EndPass, Return
    <3>2. ASSUME NEW f \in DOMAIN folder PROVE Worker(folder'[f])
      <4> DEFINE v == [folder[f] EXCEPT !.step = "queued"]
      <4>1. Worker(folder[f]) /\ folder[f].doubt = {}
        BY <1>0, <2>1 DEF Workers, Worker
      <4>2. DOMAIN v = Fields /\ v.step = "queued" /\ v.doubt = folder[f].doubt /\ v.blame = folder[f].blame
        BY <1>0, <4>1 DEF Worker, FieldsAre
      <4> HIDE DEF v
      <4>3. Worker(v)
        BY <4>1, <4>2 DEF Worker, Steps
      <4>. QED
        BY <3>1, <4>1, <4>3 DEF v
    <3>3. DOMAIN folder' = DOMAIN folder
      BY <3>1
    <3>. QED
      BY <1>0, <2>1, <3>1, <3>2, <3>3 DEF Workers, Passing, Early
  <2>. QED
    BY <2>2, <2>3
<1>7. ASSUME NEW f \in DOMAIN folder, FolderStep(f) PROVE Workers'
  <2>1. Passing /\ UNCHANGED <<account, phase>>
    BY <1>0, <1>7, WorkersPass DEF runVars
  <2>2. CASE UNCHANGED folder
    BY <1>0, <2>1, <2>2 DEF Workers, Passing
  <2>3. CASE \E v : folder' = [folder EXCEPT ![f] = v] /\ Worker(v)
    BY <1>0, <2>1, <2>3 DEF Workers, Passing
  <2>. QED
    BY <1>0, <1>7, <2>2, <2>3, WorkerSteps DEF Control
<1>. QED
  BY <1>2, <1>3, <1>4, <1>5, <1>6, <1>7 DEF Next

\* What there is to create follows the plan: each name after its parents.
LEMMA PlannedCreates ==
  ASSUME NEW a \in Accounts
  PROVE  LET p == Build(a.source, a.dest, a.opts) IN
         /\ p.creates \in Seq(Names)
         /\ \A i \in 1..Len(p.creates) : \A n \in Parents(p.creates[i]) :
               Existing(n, a.dest) # {} \/ \E j \in 1..(i - 1) : p.creates[j] = n
         /\ \A q \in p.pairs :
               Existing(q.dest, a.dest) # {} \/ \E j \in 1..Len(p.creates) : p.creates[j] = q.dest
<1> DEFINE pairs  == Pairs(a.source, a.dest, a.opts)
           needed == Needed(pairs, a.dest)
           s      == CreateOrder(needed)
           p      == Build(a.source, a.dest, a.opts)
<1>1. CASE Collide(pairs)
  <2>1. p.creates = <<>> /\ p.pairs = {}
    BY <1>1 DEF Build
  <2> HIDE DEF p
  <2>2. p.creates \in Seq(Names) /\ Len(p.creates) = 0
    BY <2>1
  <2>. QED
    BY <2>1, <2>2 DEF p
<1>2. CASE ~Collide(pairs)
  <2>1. p.creates = s /\ p.pairs = pairs
    BY <1>2 DEF Build
  <2>2. /\ IsFiniteSet(needed) /\ needed \in SUBSET Names
        /\ \A n \in needed : \A m \in Parents(n) : m \in needed \/ Existing(m, a.dest) # {}
    BY NeededIsClosed
  <2> HIDE DEF p, needed
  <2>3. Orders(ByDepth(needed), needed)
    BY <2>2, NamesAreOrdered
  <2>4. /\ s \in Seq(needed)
        /\ \A i, j \in 1..Len(s) : <<s[i], s[j]>> \in ByDepth(needed) => i < j
        /\ \A x \in needed : \E i \in 1..Len(s) : s[i] = x
    BY <2>2, <2>3, InOrderLists DEF CreateOrder
  <2> HIDE DEF s
  <2>5. s \in Seq(Names) /\ \A i \in 1..Len(s) : s[i] \in needed /\ s[i] \in Names
    BY <2>2, <2>4
  <2>6. ASSUME NEW i \in 1..Len(s), NEW n \in Parents(s[i])
        PROVE  Existing(n, a.dest) # {} \/ \E j \in 1..(i - 1) : s[j] = n
    <3>1. CASE n \in needed
      <4>1. PICK j \in 1..Len(s) : s[j] = n
        BY <2>4, <3>1
      <4>2. Len(n) < Len(s[i])
        BY <2>5, <2>6, ParentsAreNames
      <4>3. <<s[j], s[i]>> \in ByDepth(needed)
        BY <2>5, <3>1, <4>1, <4>2 DEF ByDepth
      <4>4. j < i
        BY <2>4, <4>3
      <4>. QED
        BY <2>4, <4>1, <4>4
    <3>2. CASE n \notin needed
      BY <2>2, <2>5, <2>6, <3>2
    <3>. QED
      BY <3>1, <3>2
  <2>7. ASSUME NEW q \in pairs
        PROVE  Existing(q.dest, a.dest) # {} \/ \E j \in 1..Len(s) : s[j] = q.dest
    <3>1. CASE q.create
      <4>1. q.dest \in needed
        BY <3>1 DEF Needed, needed
      <4>. QED
        BY <2>4, <4>1
    <3>2. CASE ~q.create
      BY <3>2, PairIsNamed
    <3>. QED
      BY <3>1, <3>2
  <2>. QED
    BY <2>1, <2>5, <2>6, <2>7 DEF p
<1>. QED
  BY <1>1, <1>2

\* Every step keeps what is left to create in an order that can be carried out.
LEMMA CreatingStep ==
  ASSUME Control, [Next]_vars
  PROVE  Creating'
<1>0. Workers /\ Creating
  BY DEF Control
<1>1. ASSUME UNCHANGED <<account, plan, creates, made>>, phase' \in Early => phase \in Early,
             Passing' => creates = <<>>
      PROVE  Creating'
  BY <1>0, <1>1 DEF Creating
<1>2. CASE ReadSearch \/ ResolveFilter \/ StartPass \/ NextFolder \/ EndPass
  BY <1>0, <1>1, <1>2 DEF ReadSearch, ResolveFilter, StartPass, NextFolder, EndPass, Return, Creating, Early, Passing
<1>3. CASE Finished \/ Expire \/ End \/ UNCHANGED vars
  <2>1. UNCHANGED <<account, phase, plan, creates, made>>
    BY <1>3 DEF Finished, Expire, End, vars, runVars
  <2>. QED
    BY <1>0, <1>1, <2>1 DEF Creating, Passing
<1>4. CASE PlanRun
  <2>1. /\ phase = "plan" /\ account' = account /\ made' = made /\ account \in Accounts
        /\ made = account.dest
    BY <1>0, <1>4 DEF PlanRun, Workers, Creating, Early
  <2>2. CASE phase' = "over" /\ UNCHANGED <<plan, creates>>
    BY <1>1, <2>1, <2>2 DEF Early, Passing
  <2>3. CASE ~ (phase' = "over" /\ UNCHANGED <<plan, creates>>)
    <3> DEFINE p == Build(account.source, account.dest, account.opts)
    <3>1. phase' = "create" /\ plan' = p.pairs /\ creates' = p.creates
      BY <1>4, <2>3 DEF PlanRun, Return
    <3>2. /\ p.creates \in Seq(Names)
          /\ \A i \in 1..Len(p.creates) : \A n \in Parents(p.creates[i]) :
               Existing(n, made) # {} \/ \E j \in 1..(i - 1) : p.creates[j] = n
          /\ \A q \in p.pairs :
               Existing(q.dest, made) # {} \/ \E j \in 1..Len(p.creates) : p.creates[j] = q.dest
      BY <2>1, PlannedCreates
    <3> HIDE DEF p
    <3>. QED
      BY <2>1, <3>1, <3>2 DEF Creating, Early, Passing
  <2>. QED
    BY <2>2, <2>3
<1>5. CASE CreateNext
  <2>1. CASE UNCHANGED <<made, creates>>
    BY <1>1, <1>5, <2>1 DEF CreateNext, Return, Early, Passing
  <2>2. CASE ~UNCHANGED <<made, creates>>
    <3> DEFINE new == [name |-> Head(creates), attr |-> NoRole, selectable |-> TRUE]
    <3>1. /\ phase = "create" /\ phase' = phase /\ plan' = plan /\ creates # <<>>
          /\ creates' = Tail(creates) /\ made' = made \cup {new}
      BY <1>5, <2>2 DEF CreateNext
    <3>2. /\ creates \in Seq(Names) /\ creates' \in Seq(Names) /\ Len(creates) \in Nat \ {0}
          /\ Len(creates') = Len(creates) - 1 /\ Head(creates) = creates[1]
          /\ \A i \in 1..Len(creates') : creates'[i] = creates[i + 1]
      BY <1>0, <3>1 DEF Creating
    <3>3. ASSUME NEW n, Existing(n, made) # {} \/ n = creates[1] PROVE Existing(n, made') # {}
      <4>1. CASE Existing(n, made) # {}
        BY <3>1, <4>1 DEF Existing
      <4>2. CASE n = creates[1]
        <5>1. new \in made' /\ new.name = n
          BY <3>1, <3>2, <4>2
        <5>. QED
          BY <5>1 DEF Existing
      <4>. QED
        BY <3>3, <4>1, <4>2
    <3>4. ASSUME NEW i \in 1..Len(creates'), NEW n \in Parents(creates'[i])
          PROVE  Existing(n, made') # {} \/ \E j \in 1..(i - 1) : creates'[j] = n
      <4>1. i + 1 \in 1..Len(creates) /\ n \in Parents(creates[i + 1])
        BY <3>2, <3>4
      <4>2. Existing(n, made) # {} \/ \E j \in 1..(i + 1 - 1) : creates[j] = n
        BY <1>0, <4>1 DEF Creating
      <4>3. ASSUME NEW j \in 1..(i + 1 - 1), creates[j] = n, j # 1
            PROVE  j - 1 \in 1..(i - 1) /\ creates'[j - 1] = n
        BY <3>2, <4>3
      <4>. QED
        BY <3>3, <4>2, <4>3
    <3>5. ASSUME NEW q \in plan
          PROVE  Existing(q.dest, made') # {} \/ \E j \in 1..Len(creates') : creates'[j] = q.dest
      <4>1. Existing(q.dest, made) # {} \/ \E j \in 1..Len(creates) : creates[j] = q.dest
        BY <1>0 DEF Creating
      <4>2. ASSUME NEW j \in 1..Len(creates), creates[j] = q.dest, j # 1
            PROVE  j - 1 \in 1..Len(creates') /\ creates'[j - 1] = q.dest
        BY <3>2, <4>2
      <4>. QED
        BY <3>3, <4>1, <4>2
    <3>. QED
      BY <3>1, <3>2, <3>4, <3>5 DEF Creating, Early, Passing
  <2>. QED
    BY <2>1, <2>2
<1>6. ASSUME NEW f \in DOMAIN folder, FolderStep(f) PROVE Creating'
  <2>1. UNCHANGED runVars
    BY <1>0, <1>6, WorkersPass
  <2>. QED
    BY <1>0, <1>1, <2>1 DEF Creating, Passing, runVars
<1>. QED
  BY <1>2, <1>3, <1>4, <1>5, <1>6 DEF Next

\* Who is in doubt when one worker has moved.
LEMMA DoubtfulMoves ==
  ASSUME NEW f \in DOMAIN folder, NEW v, folder' = [folder EXCEPT ![f] = v]
  PROVE  /\ Doubtful' # {} <=> Doubtful \ {f} # {} \/ v.doubt # {}
         /\ folder[f].doubt = {} => Doubtful \ {f} = Doubtful
<1>1. DOMAIN folder' = DOMAIN folder /\ folder'[f] = v /\ \A g \in DOMAIN folder \ {f} : folder'[g] = folder[g]
  OBVIOUS
<1>2. Doubtful' = (Doubtful \ {f}) \cup { g \in {f} : v.doubt # {} }
  BY <1>1 DEF Doubtful
<1>. QED
  BY <1>2 DEF Doubtful

\* Every step keeps the health record true to what went wrong.
LEMMA HealthStep ==
  ASSUME Control, [Next]_vars
  PROVE  Health'
<1>0. Workers /\ Health /\ Ceiling \in Nat \ {0}
  BY ControlAssumption DEF Control
<1> USE DEF healthVars
<1>1. ASSUME UNCHANGED healthVars, Doubtful' # {} <=> Doubtful # {},
             phase' \in Early \cup {"create"} => phase \in Early \cup {"create"},
             phase = "over" => phase' = phase,
             \/ result' = result /\ phase' # "over"
             \/ result' = result /\ phase' = phase
             \/ phase' = "over" /\ phase # "over" /\ result' = Verdict
             \/ phase' = "over" /\ phase # "over" /\ ~reason /\ result' \notin {"cancelled", "expired"}
      PROVE  Health'
  <2>1. UNCHANGED <<Live, Verdict>>
    BY <1>1 DEF Live, Verdict
  <2>2. CASE result' = result /\ phase' # "over"
    <3>1. phase # "over"
      BY <1>1, <2>2
    <3>2. phase' \in Early \cup {"create"} => ~reason
      BY <1>0, <1>1 DEF Health
    <3>. QED
      BY <1>0, <1>1, <2>1, <2>2, <3>1, <3>2 DEF Health
  <2>5. CASE UNCHANGED <<phase, result>>
    BY <1>0, <1>1, <2>1, <2>5 DEF Health
  <2>3. CASE phase' = "over" /\ phase # "over" /\ result' = Verdict
    BY <1>0, <1>1, <2>1, <2>3 DEF Health, Verdict, Live, Early
  <2>4. CASE phase' = "over" /\ ~reason /\ result' \notin {"cancelled", "expired"}
    BY <1>0, <1>1, <2>1, <2>4 DEF Health, Early
  <2>. QED
    BY <1>1, <2>2, <2>3, <2>4, <2>5
<1>2. CASE UNCHANGED folder /\ UNCHANGED healthVars /\ UNCHANGED <<phase, result>>
  BY <1>1, <1>2 DEF Doubtful
<1>3. CASE Finished \/ Expire \/ UNCHANGED vars
  BY <1>2, <1>3 DEF Finished, Expire, vars, runVars
<1>4. ASSUME UNCHANGED folder, UNCHANGED healthVars, phase \in Early \cup {"create"},
             \/ phase' \in Early \cup {"create", "first"} /\ result' = result
             \/ phase' = "over" /\ result' \in {"unsearchable", "invalid", "unplanned", "collision", "uncreated"}
      PROVE  Health'
  <2>1. ~reason /\ phase # "over"
    BY <1>0, <1>4 DEF Health, Early
  <2>2. Doubtful' = Doubtful
    BY <1>4 DEF Doubtful
  <2>. QED
    BY <1>1, <1>4, <2>1, <2>2 DEF Early
<1>5. CASE ReadSearch \/ ResolveFilter \/ CreateNext \/ StartPass
  BY <1>4, <1>5 DEF ReadSearch, ResolveFilter, CreateNext, StartPass, Return, Early
<1>6. CASE PlanRun
  <2>1. CASE UNCHANGED folder /\ phase' = "over"
    BY <1>4, <1>6, <2>1 DEF PlanRun, Return, Early
  <2>2. CASE ~ (UNCHANGED folder /\ phase' = "over")
    <3>1. phase = "plan" /\ phase' = "create" /\ result' = result /\ UNCHANGED healthVars
          /\ \A f \in DOMAIN folder' : folder'[f] = Fresh
      BY <1>6, <2>2 DEF PlanRun, Return
    <3>2. Doubtful = {} /\ Doubtful' = {}
      BY <1>0, <3>1 DEF Doubtful, Workers, Early, Fresh
    <3>. QED
      BY <1>1, <3>1, <3>2 DEF Early
  <2>. QED
    BY <2>1, <2>2
<1>7. CASE NextFolder
  <2>1. Passing /\ UNCHANGED <<phase, result>> /\ UNCHANGED healthVars
    BY <1>7 DEF NextFolder
  <2>2. CASE UNCHANGED folder
    BY <1>2, <2>1, <2>2
  <2>3. CASE Live
    <3> DEFINE f == Head(queue)
    <3>1. PICK v : folder' = [folder EXCEPT ![f] = v] /\ v.doubt = {}
      BY <1>7, <2>3, NextEffect
    <3>2. f \in DOMAIN folder /\ folder[f].step = "queued"
      BY <1>7, <2>3, NextEffect
    <3>3. folder[f].doubt = {}
      BY <1>0, <3>2 DEF Workers, Worker
    <3> HIDE DEF f
    <3>4. Doubtful' # {} <=> Doubtful # {}
      BY <3>1, <3>2, <3>3, DoubtfulMoves
    <3>. QED
      BY <1>1, <2>1, <3>4 DEF Passing
  <2>. QED
    BY <1>7, <2>2, <2>3 DEF NextFolder
<1>8. CASE EndPass
  <2>1. Passing /\ (\A f \in DOMAIN folder : folder[f].step \in {"queued", "over"}) /\ UNCHANGED healthVars
    BY <1>8 DEF EndPass
  <2>2. \A f \in DOMAIN folder : folder[f].doubt = {}
    BY <1>0, <2>1 DEF Workers, Worker
  <2>3. Doubtful = {}
    BY <2>2 DEF Doubtful
  <2>4. CASE UNCHANGED folder /\ phase' = "over" /\ result' = Verdict
    <3>1. Doubtful' = Doubtful
      BY <2>4 DEF Doubtful
    <3>2. phase \in {"first", "second"} /\ phase # "over"
      BY <2>1 DEF Passing
    <3>3. phase' \notin Early \cup {"create"}
      BY <2>4 DEF Early
    <3>4. UNCHANGED healthVars
      BY <2>1
    <3>5. phase' = "over" /\ phase # "over" /\ result' = Verdict
      BY <2>4, <3>2
    <3>. QED
      BY <1>1, <3>1, <3>2, <3>3, <3>4, <3>5
  <2>5. CASE ~ (UNCHANGED folder /\ phase' = "over" /\ result' = Verdict)
    <3>1. phase' = "second" /\ result' = result
          /\ folder' = [f \in DOMAIN folder |->
                          IF f \in Again THEN [folder[f] EXCEPT !.step = "queued"] ELSE folder[f]]
      BY <1>8, <2>5 DEF EndPass, Return
    <3>2. ASSUME NEW f \in DOMAIN folder PROVE folder'[f].doubt = {}
      <4>1. FieldsAre /\ DOMAIN folder[f] = Fields
        BY <1>0 DEF FieldsAre, Fields, Fresh, Workers, Worker
      <4>2. [folder[f] EXCEPT !.step = "queued"].doubt = folder[f].doubt
        BY <4>1 DEF FieldsAre
      <4>. QED
        BY <2>2, <3>1, <4>2
    <3>3. Doubtful' = {}
      BY <3>1, <3>2 DEF Doubtful
    <3>4. phase \in {"first", "second"} /\ phase # "over"
      BY <2>1 DEF Passing
    <3>5. phase' \notin Early \cup {"create"} /\ phase' # "over"
      BY <3>1 DEF Early
    <3>. QED
      BY <1>1, <2>1, <2>3, <3>1, <3>3, <3>4, <3>5
  <2>. QED
    BY <2>4, <2>5
<1>9. CASE End
  <2>1. /\ Live /\ phase # "over" /\ ctx' \in {"cancelled", "expired"}
        /\ UNCHANGED <<phase, result, inARow, reason, streak, earned, folder>>
    BY <1>9 DEF End, runVars
  <2>2. Doubtful' = Doubtful
    BY <2>1 DEF Doubtful
  <2>. QED
    BY <1>0, <2>1, <2>2 DEF Health, Live
<1>10. ASSUME NEW f \in DOMAIN folder, FolderStep(f) PROVE Health'
  <2>1. Passing /\ UNCHANGED <<phase, result>>
    BY <1>0, <1>10, WorkersPass DEF runVars
  <2>2. phase \notin Early \cup {"create", "over"} /\ result = "running"
    BY <1>0, <2>1 DEF Passing, Early, Health
  <2>3. CASE GiveUp(f)
    <3>1. /\ UNCHANGED <<inARow, streak, earned>> /\ reason' = TRUE
          /\ ctx' = IF Live THEN "stopped" ELSE ctx
      BY <1>0, <2>3, GiveUpEffect
    <3>2. Live => earned
      <4>1. f \in Doubtful
        BY <2>3 DEF GiveUp, Doubtful
      <4>. QED
        BY <1>0, <4>1 DEF Health
    <3>. QED
      BY <1>0, <2>1, <2>2, <3>1, <3>2 DEF Health, Live
  <2>4. CASE LaunchFolder(f)
    <3>1. PICK v : folder' = [folder EXCEPT ![f] = v] /\ v.doubt = {}
      BY <1>0, <2>4, LaunchEffect
    <3>2. folder[f].doubt = {} /\ UNCHANGED healthVars
      BY <1>0, <2>4, LaunchEffect
    <3>3. Doubtful' # {} <=> Doubtful # {}
      BY <3>1, <3>2, DoubtfulMoves
    <3>. QED
      BY <1>1, <2>1, <2>2, <3>2, <3>3
  <2>5. CASE ~GiveUp(f) /\ ~LaunchFolder(f)
    <3>1. CASE UNCHANGED <<folder, healthVars>>
      BY <1>2, <2>1, <3>1
    <3>2. ASSUME NEW v, Effect(f, v) PROVE Health'
      <4>1. folder[f].doubt = {}
        BY <1>10, <2>5 DEF FolderStep, Resolve, Secret, Login, Renew, Succeed, Refuse, Throttled, Interrupted, Working
      <4>2. Doubtful' # {} <=> Doubtful # {} \/ v.doubt # {}
        BY <3>2, <4>1, DoubtfulMoves DEF Effect
      <4>3. Live' <=> Live
        BY <3>2 DEF Effect, Live
      <4>. QED
        BY <1>0, <2>1, <2>2, <3>2, <4>2, <4>3 DEF Health, Effect
    <3>. QED
      BY <1>0, <1>10, <2>5, <3>1, <3>2, StepEffect
  <2>. QED
    BY <2>3, <2>4, <2>5
<1>. QED
  BY <1>3, <1>5, <1>6, <1>7, <1>8, <1>9, <1>10 DEF Next

\* A list of folders names each of them once.
LEMMA FoldersListed ==
  ASSUME Workers, NEW S \in SUBSET DOMAIN folder
  PROVE  /\ Listed(S) \in Seq(S)
         /\ \A i, j \in 1..Len(Listed(S)) : Listed(S)[i] = Listed(S)[j] => i = j
         /\ \A x \in S : \E i \in 1..Len(Listed(S)) : Listed(S)[i] = x
<1>1. S \subseteq { f.name : f \in account.source } /\ account \in Accounts
  BY DEF Workers
<1>2. IsFiniteSet(S)
  BY <1>1, PlansAreFinite, FS_Subset
<1>3. S \in SUBSET Names
  BY <1>1, AccountsAssumption
<1>4. Orders(ByName(S), S)
  BY <1>3, NamesAreOrdered
<1>. QED
  BY <1>2, <1>4, InOrderLists DEF Listed

\* No worker brings a run back to life.
LEMMA NoneRevives ==
  ASSUME Workers, Health, NEW f \in DOMAIN folder, FolderStep(f)
  PROVE  Live' => Live
<1>1. CASE GiveUp(f)
  BY <1>1, GiveUpEffect DEF Live
<1>2. CASE LaunchFolder(f)
  <2>1. UNCHANGED healthVars
    BY <1>2, LaunchEffect
  <2>. QED
    BY <2>1 DEF healthVars, Live
<1>3. CASE ~GiveUp(f) /\ ~LaunchFolder(f)
  <2>1. CASE UNCHANGED <<folder, healthVars>>
    BY <2>1 DEF healthVars, Live
  <2>2. CASE \E v : Effect(f, v)
    BY <2>2 DEF Effect, Live
  <2>. QED
    BY <1>3, <2>1, <2>2, StepEffect
<1>. QED
  BY <1>1, <1>2, <1>3

\* How far a worker is in its passes, whichever pass the run is in.
Counted(p, w) ==
  /\ p = "first" => w.passes = IF w.step \in {"queued", "cleared"} THEN 0 ELSE 1
  /\ p = "second" => \/ w.step \in {"queued", "cleared"} /\ w.passes = 1
                     \/ w.step \in Busy \cup {"over"} /\ w.passes = 2
                     \/ w.step = "over" /\ w.passes = 1 /\ ~Retryable(w.err)

\* A worker's step keeps the count of its passes.
LEMMA WorkersPassOn ==
  ASSUME Control, NEW f \in DOMAIN folder, FolderStep(f)
  PROVE  Passes'
<1>0. Workers /\ Health /\ Passes
  BY DEF Control
<1>1. /\ Passing /\ UNCHANGED <<phase, queue, result>> /\ folder[f].step \in Busy \cup {"cleared"}
      /\ (Live' => Live)
  BY <1>0, WorkersPass, NoneRevives DEF runVars
<1>2. phase \in {"first", "second"} /\ phase # "create" /\ phase \notin Early
  BY <1>1 DEF Passing, Early
<1>3. result' # "ok"
  BY <1>0, <1>1, <1>2 DEF Health
<1>4. CASE UNCHANGED <<folder, healthVars>>
  <2>1. UNCHANGED <<phase, queue, folder>>
    BY <1>1, <1>4
  <2>. QED
    BY <1>0, <1>1, <1>2, <1>3, <2>1 DEF Passes, SecondChance, Passing
<1>5. ASSUME NEW v, folder' = [folder EXCEPT ![f] = v],
             \/ folder[f].step \in Busy /\ v.step \in Busy \cup {"over"} /\ v.passes = folder[f].passes
             \/ folder[f].step = "cleared" /\ v.step = "prepare" /\ v.passes = folder[f].passes + 1
      PROVE  Passes'
  <2>1. /\ DOMAIN folder' = DOMAIN folder /\ folder'[f] = v
        /\ \A g \in DOMAIN folder \ {f} : folder'[g] = folder[g]
    BY <1>5
  <2>2. folder[f].step # "queued" /\ v.step # "queued"
    BY <1>5 DEF Busy
  <2>3. \A g \in DOMAIN folder : Counted(phase, folder[g])
    BY <1>0 DEF Passes, Counted
  <2>4. Counted(phase, v)
    <3>1. Counted(phase, folder[f])
      BY <2>3
    <3>. QED
      BY <1>5, <3>1 DEF Counted, Busy
  <2>5. \A g \in DOMAIN folder' : Counted(phase', folder'[g])
    BY <1>1, <2>1, <2>3, <2>4
  <2>6. \A i \in 1..Len(queue) : queue[i] \in DOMAIN folder /\ queue[i] # f /\ folder'[queue[i]].step = "queued"
    BY <1>0, <2>1, <2>2 DEF Passes
  <2>7. Live' => \A g \in DOMAIN folder' : folder'[g].step = "queued" => \E i \in 1..Len(queue) : queue[i] = g
    BY <1>0, <1>1, <2>1, <2>2 DEF Passes
  <2>8. queue' \in Seq(DOMAIN folder') /\ \A i, j \in 1..Len(queue') : queue'[i] = queue'[j] => i = j
    BY <1>0, <1>1, <2>1 DEF Passes
  <2>. QED
    BY <1>1, <1>2, <1>3, <2>5, <2>6, <2>7, <2>8 DEF Passes, SecondChance, Counted, Passing
<1>. QED
  BY <1>0, <1>4, <1>5, WorkerSteps

\* Every step keeps the queue and the passes in agreement.
LEMMA PassesStep ==
  ASSUME Control, [Next]_vars
  PROVE  Passes'
<1>0. Workers /\ Health /\ Passes
  BY DEF Control
<1>1. ASSUME UNCHANGED <<queue, folder, phase, result>>, Live' => Live PROVE Passes'
  BY <1>0, <1>1 DEF Passes, SecondChance, Passing
<1>2. ASSUME UNCHANGED <<queue, folder>>, phase \in Early \cup {"create"},
             result' = result \/ result' # "ok",
             (phase' \in Early /\ phase \in Early) \/ phase' = "over"
      PROVE  Passes'
  <2>1. result = "running"
    BY <1>0, <1>2 DEF Health, Early
  <2>2. result' # "ok" /\ phase' \notin {"create", "first", "second"} /\ (phase' \in Early => queue = <<>>)
    BY <1>0, <1>2, <2>1 DEF Passes, Early
  <2>3. ~Passing'
    BY <2>2 DEF Passing
  <2>. QED
    BY <1>0, <1>2, <2>2, <2>3 DEF Passes, SecondChance
<1>3. CASE ReadSearch \/ ResolveFilter
  BY <1>2, <1>3 DEF ReadSearch, ResolveFilter, Return, Early
<1>4. CASE CreateNext
  <2>1. CASE UNCHANGED <<phase, result>>
    <3>1. UNCHANGED <<queue, folder, ctx>>
      BY <1>4 DEF CreateNext, healthVars
    <3>. QED
      BY <1>1, <2>1, <3>1 DEF Live
  <2>2. CASE ~UNCHANGED <<phase, result>>
    BY <1>2, <1>4, <2>2 DEF CreateNext, Return
  <2>. QED
    BY <2>1, <2>2
<1>5. CASE Finished \/ Expire \/ End \/ UNCHANGED vars
  <2>1. UNCHANGED <<queue, folder, phase, result>>
    BY <1>5 DEF Finished, Expire, End, vars, runVars
  <2>2. Live' => Live
    BY <1>5 DEF Finished, Expire, End, vars, healthVars, Live
  <2>. QED
    BY <1>1, <2>1, <2>2
<1>6. CASE PlanRun
  <2>1. phase = "plan" /\ queue' = queue /\ queue = <<>>
    BY <1>0, <1>6 DEF PlanRun, Passes, Early
  <2>2. CASE phase' = "over" /\ UNCHANGED folder
    BY <1>2, <1>6, <2>1, <2>2 DEF PlanRun, Return, Early
  <2>3. CASE ~ (phase' = "over" /\ UNCHANGED folder)
    <3>1. phase' = "create" /\ result' = result /\ \A f \in DOMAIN folder' : folder'[f] = Fresh
      BY <1>6, <2>3 DEF PlanRun, Return
    <3>2. Fresh.step = "queued" /\ Fresh.passes = 0
      BY DEF Fresh
    <3>3. result = "running" /\ ~Passing' /\ phase' \notin Early
      BY <1>0, <2>1, <3>1 DEF Health, Passing, Early
    <3>4. queue' \in Seq(DOMAIN folder') /\ Len(queue') = 0
      BY <2>1
    <3>. QED
      BY <2>1, <3>1, <3>2, <3>3, <3>4 DEF Passes, SecondChance
  <2>. QED
    BY <2>2, <2>3
<1>7. CASE StartPass
  <2>1. /\ phase = "create" /\ phase' = "first" /\ queue' = Listed(DOMAIN folder)
        /\ UNCHANGED <<folder, result>>
    BY <1>7 DEF StartPass
  <2>2. result = "running" /\ \A f \in DOMAIN folder : folder[f].step = "queued" /\ folder[f].passes = 0
    BY <1>0, <2>1 DEF Health, Passes
  <2>3. /\ queue' \in Seq(DOMAIN folder) /\ \A i, j \in 1..Len(queue') : queue'[i] = queue'[j] => i = j
        /\ \A f \in DOMAIN folder : \E i \in 1..Len(queue') : queue'[i] = f
    BY <1>0, <2>1, FoldersListed
  <2>4. \A i \in 1..Len(queue') : queue'[i] \in DOMAIN folder
    BY <2>3
  <2>. QED
    BY <2>1, <2>2, <2>3, <2>4 DEF Passes, SecondChance, Early
<1>8. CASE NextFolder
  <2>1. Passing /\ UNCHANGED <<phase, result>> /\ UNCHANGED ctx
    BY <1>8 DEF NextFolder, healthVars
  <2>2. phase' \in {"first", "second"} /\ phase' # "create" /\ phase' \notin Early
    BY <2>1 DEF Passing, Early
  <2>3. result' # "ok"
    BY <1>0, <2>1, <2>2 DEF Health
  <2>4. CASE ~Live
    <3>1. queue' = <<>> /\ UNCHANGED folder /\ ~Live'
      BY <1>8, <2>1, <2>4 DEF NextFolder, Live
    <3>2. queue' \in Seq(DOMAIN folder') /\ Len(queue') = 0
      BY <3>1
    <3>. QED
      BY <1>0, <2>1, <2>2, <2>3, <3>1, <3>2 DEF Passes, SecondChance
  <2>5. CASE Live
    <3> DEFINE f == Head(queue)
    <3>1. /\ queue # <<>> /\ f \in DOMAIN folder /\ folder[f].step = "queued"
          /\ queue' = Tail(queue) /\ f = queue[1]
      BY <1>8, <2>5, NextEffect
    <3>2. PICK v : /\ folder' = [folder EXCEPT ![f] = v]
                   /\ v.step = "cleared" /\ v.passes = folder[f].passes
      BY <1>8, <2>5, NextEffect
    <3> HIDE DEF f
    <3>3. /\ DOMAIN folder' = DOMAIN folder /\ folder'[f] = v
          /\ \A g \in DOMAIN folder \ {f} : folder'[g] = folder[g]
      BY <3>1, <3>2
    <3>4. queue \in Seq(DOMAIN folder)
      BY <1>0 DEF Passes
    <3>5. /\ queue' \in Seq(DOMAIN folder) /\ Len(queue) \in Nat \ {0} /\ Len(queue') = Len(queue) - 1
          /\ \A i \in 1..Len(queue') : queue'[i] = queue[i + 1]
      BY <3>1, <3>4
    <3>6. \A i \in 1..Len(queue') : i + 1 \in 1..Len(queue) /\ i + 1 # 1
      BY <3>5
    <3>7. \A i, j \in 1..Len(queue) : queue[i] = queue[j] => i = j
      BY <1>0 DEF Passes
    <3>8. \A i \in 1..Len(queue') : queue'[i] \in DOMAIN folder /\ queue'[i] # f
      <4>1. 1 \in 1..Len(queue)
        BY <3>5
      <4>. QED
        BY <3>1, <3>4, <3>5, <3>6, <3>7, <4>1
    <3>9. \A i \in 1..Len(queue') : folder'[queue'[i]].step = "queued"
      BY <1>0, <3>3, <3>5, <3>6, <3>8 DEF Passes
    <3>10. \A i, j \in 1..Len(queue') : queue'[i] = queue'[j] => i = j
      <4>1. ASSUME NEW i \in 1..Len(queue'), NEW j \in 1..Len(queue'), queue'[i] = queue'[j] PROVE i = j
        <5>1. queue[i + 1] = queue[j + 1]
          BY <3>5, <4>1
        <5>2. i + 1 = j + 1
          BY <3>6, <3>7, <5>1
        <5>. QED
          BY <5>2, <3>5
      <4>. QED
        BY <4>1
    <3>11. ASSUME NEW g \in DOMAIN folder', folder'[g].step = "queued"
           PROVE  \E i \in 1..Len(queue') : queue'[i] = g
      <4>1. g # f /\ g \in DOMAIN folder /\ folder[g].step = "queued"
        BY <3>2, <3>3, <3>11
      <4>2. PICK i \in 1..Len(queue) : queue[i] = g
        BY <1>0, <2>1, <2>5, <4>1 DEF Passes
      <4>3. i # 1
        BY <3>1, <4>1, <4>2
      <4>4. i - 1 \in 1..Len(queue') /\ (i - 1) + 1 = i
        BY <3>5, <4>3
      <4>. QED
        BY <3>5, <4>2, <4>4
    <3>12. \A g \in DOMAIN folder' : Counted(phase', folder'[g])
      <4>1. \A g \in DOMAIN folder : Counted(phase, folder[g])
        BY <1>0 DEF Passes, Counted
      <4>2. Counted(phase, v)
        BY <3>1, <3>2, <4>1 DEF Counted, Busy
      <4>. QED
        BY <2>1, <3>3, <4>1, <4>2
    <3>. QED
      BY <2>2, <2>3, <3>3, <3>5, <3>9, <3>10, <3>11, <3>12 DEF Passes, SecondChance, Counted
  <2>. QED
    BY <2>4, <2>5
<1>9. CASE EndPass
  <2>1. /\ phase \in {"first", "second"} /\ queue = <<>> /\ UNCHANGED ctx
        /\ \A f \in DOMAIN folder : folder[f].step \in {"queued", "over"}
    BY <1>9 DEF EndPass, Passing, healthVars
  <2>2. result = "running"
    BY <1>0, <2>1 DEF Health
  <2>3. Live => \A f \in DOMAIN folder : folder[f].step = "over"
    <3>1. Passing /\ Len(queue) = 0
      BY <2>1 DEF Passing
    <3>2. Live => \A f \in DOMAIN folder : folder[f].step = "queued" => \E i \in 1..Len(queue) : queue[i] = f
      BY <1>0, <3>1 DEF Passes
    <3>. QED
      BY <2>1, <3>1, <3>2
  <2>4. CASE phase' = "over" /\ UNCHANGED <<queue, folder>> /\ result' = Verdict /\ (phase = "second" \/ Again = {} \/ ~Live)
    <3>1. result' = "ok" => \A f \in DOMAIN folder :
            folder[f].passes = 2 \/ (folder[f].passes = 1 /\ ~Retryable(folder[f].err))
      <4>1. ASSUME result' = "ok", NEW f \in DOMAIN folder
            PROVE  folder[f].passes = 2 \/ (folder[f].passes = 1 /\ ~Retryable(folder[f].err))
        <5>1. Live
          BY <1>0, <2>4, <4>1 DEF Verdict, Health, Live
        <5>2. folder[f].step = "over"
          BY <2>3, <4>1, <5>1
        <5>3. CASE phase = "first"
          <6>1. folder[f].passes = 1
            BY <1>0, <4>1, <5>2, <5>3 DEF Passes
          <6>2. f \notin Again
            BY <2>4, <5>1, <5>3
          <6>. QED
            BY <4>1, <5>2, <6>1, <6>2 DEF Again
        <5>4. CASE phase = "second"
          <6>1. Counted(phase, folder[f])
            BY <1>0, <4>1 DEF Passes, Counted
          <6>. QED
            BY <5>2, <5>4, <6>1 DEF Counted
        <5>. QED
          BY <2>1, <5>3, <5>4
      <4>. QED
        BY <4>1
    <3>2. ~Passing' /\ phase' \notin Early
      BY <2>4 DEF Passing, Early
    <3>. QED
      BY <1>0, <2>4, <3>1, <3>2 DEF Passes, SecondChance
  <2>5. CASE /\ phase = "first" /\ Live /\ phase' = "second" /\ queue' = Listed(Again) /\ result' = result
             /\ folder' = [f \in DOMAIN folder |->
                             IF f \in Again THEN [folder[f] EXCEPT !.step = "queued"] ELSE folder[f]]
    <3>1. /\ queue' \in Seq(Again) /\ \A i, j \in 1..Len(queue') : queue'[i] = queue'[j] => i = j
          /\ \A f \in Again : \E i \in 1..Len(queue') : queue'[i] = f
      <4>1. Again \in SUBSET DOMAIN folder
        BY DEF Again
      <4>. QED
        BY <1>0, <2>5, <4>1, FoldersListed
    <3>2. DOMAIN folder' = DOMAIN folder /\ Again \subseteq DOMAIN folder
      BY <2>5 DEF Again
    <3>3. ASSUME NEW f \in Again PROVE folder'[f].step = "queued" /\ folder'[f].passes = folder[f].passes
      <4>1. FieldsAre /\ DOMAIN folder[f] = Fields
        BY <1>0, <3>2 DEF FieldsAre, Fields, Fresh, Workers, Worker
      <4>2. LET v == [folder[f] EXCEPT !.step = "queued"] IN v.step = "queued" /\ v.passes = folder[f].passes
        BY <4>1 DEF FieldsAre
      <4>. QED
        BY <2>5, <3>2, <4>2
    <3>4. \A f \in DOMAIN folder \ Again : folder'[f] = folder[f] /\ folder[f].step = "over" /\ ~Retryable(folder[f].err)
      BY <2>3, <2>5 DEF Again
    <3>5. \A f \in DOMAIN folder : folder[f].passes = 1
      BY <1>0, <2>3, <2>5 DEF Passes
    <3>6. \A f \in DOMAIN folder' : Counted("second", folder'[f])
      BY <3>2, <3>3, <3>4, <3>5 DEF Counted
    <3>7. queue' \in Seq(DOMAIN folder') /\ \A i \in 1..Len(queue') : folder'[queue'[i]].step = "queued"
      BY <3>1, <3>2, <3>3
    <3>8. \A f \in DOMAIN folder' : folder'[f].step = "queued" => f \in Again
      BY <3>2, <3>4
    <3>9. phase' \notin Early /\ result' # "ok"
      BY <2>2, <2>5 DEF Early
    <3>. QED
      BY <2>5, <3>1, <3>6, <3>7, <3>8, <3>9 DEF Passes, SecondChance, Counted
  <2>. QED
    BY <1>9, <2>4, <2>5 DEF EndPass, Return
<1>10. ASSUME NEW f \in DOMAIN folder, FolderStep(f) PROVE Passes'
  BY <1>10, WorkersPassOn
<1>. QED
  BY <1>3, <1>4, <1>5, <1>6, <1>7, <1>8, <1>9, <1>10 DEF Next

\* What a run rests on holds of every reachable state: its workers' records are
\* whole, what is left to create comes parents first, the health record counts
\* what nothing has followed, and the queue fits the passes (Syncer.Run, health,
\* createFolders, pass).
THEOREM ControlHolds == Spec => []Control
<1>1. Init => Control
  <2> SUFFICES ASSUME Init PROVE Control
    OBVIOUS
  <2>1. /\ phase = "options" /\ account \in Accounts /\ made = account.dest /\ creates = <<>> /\ plan = {}
        /\ queue = <<>> /\ folder = [f \in {} |-> Fresh] /\ result = "running"
        /\ ctx = "live" /\ inARow = 0 /\ streak = 0 /\ reason = FALSE /\ earned = FALSE
    BY DEF Init
  <2>2. DOMAIN folder = {}
    BY <2>1
  <2>3. ~Passing /\ phase \in Early /\ phase \notin {"create", "first", "second", "over"}
    BY <2>1 DEF Passing, Early
  <2>4. Workers
    BY <2>1, <2>2, <2>3 DEF Workers
  <2>5. Creating
    <3>1. creates \in Seq(Names) /\ Len(creates) = 0
      BY <2>1
    <3>. QED
      BY <2>1, <2>3, <3>1 DEF Creating
  <2>6. Health
    <3>1. Doubtful = {}
      BY <2>2 DEF Doubtful
    <3>2. Ceiling \in Nat \ {0}
      BY ControlAssumption
    <3>3. inARow \in Nat /\ streak \in Nat /\ inARow = streak /\ ~ (streak >= Ceiling)
      BY <2>1, <3>2
    <3>4. reason \in BOOLEAN /\ earned \in BOOLEAN /\ ~reason /\ ~earned
      BY <2>1
    <3>. QED
      BY <2>1, <2>3, <3>1, <3>3, <3>4 DEF Health
  <2>7. Passes
    <3>1. queue \in Seq(DOMAIN folder) /\ Len(queue) = 0
      BY <2>1
    <3>. QED
      BY <2>1, <2>2, <2>3, <3>1 DEF Passes, SecondChance
  <2>. QED
    BY <2>4, <2>5, <2>6, <2>7 DEF Control
<1>2. Control /\ [Next]_vars => Control'
  BY WorkersStep, CreatingStep, HealthStep, PassesStep DEF Control
<1>. QED
  BY <1>1, <1>2, PTL DEF Spec

\* A run's report can be believed, for every account, ceiling, number of attempts
\* and set of errors: a verdict was earned by failures with nothing copied in
\* between, no message is written off because the run was ending, and a run that
\* returns without an error has given each folder its second chance (health,
\* retry.Classify, classifiable, retryable, the second pass of Run).
THEOREM ReportCanBeBelieved == Spec => []ReportTells
<1>1. Control => ReportTells
  <2> SUFFICES ASSUME Control PROVE ReportTells
    OBVIOUS
  <2>1. VerdictEarned
    BY DEF Control, Health, Doubtful, VerdictEarned
  <2>2. NobodyBlamedForTheEnd
    BY DEF Control, Workers, Worker, NobodyBlamedForTheEnd
  <2>3. SecondChance
    BY DEF Control, Passes
  <2>. QED
    BY <2>1, <2>2, <2>3 DEF ReportTells
<1>. QED
  BY <1>1, ControlHolds, PTL


\* The plan a run carries out is safe, whatever both servers list: no two source
\* mailboxes meet in one destination, each CREATE finds the parents of its name
\* there, and the first worker sets out when every destination mailbox exists
\* (folder.Build, createOrder, createFolders).
THEOREM PlanIsHonoured == Spec => []PlanHonoured
<1>1. Control => ParentsFirst /\ DestinationReady
  <2> SUFFICES ASSUME Control PROVE ParentsFirst /\ DestinationReady
    OBVIOUS
  <2>1. ParentsFirst
    <3> SUFFICES ASSUME creates # <<>>, NEW p \in Parents(Head(creates))
                 PROVE  Existing(p, made) # {}
      BY DEF ParentsFirst, TakesName
    <3>1. creates \in Seq(Names) /\ 1 \in 1..Len(creates) /\ Head(creates) = creates[1]
      BY DEF Control, Creating
    <3>2. Existing(p, made) # {} \/ \E j \in 1..(1 - 1) : creates[j] = p
      BY <3>1 DEF Control, Creating
    <3>. QED
      BY <3>2
  <2>2. DestinationReady
    <3> SUFFICES ASSUME InFlight # {}, NEW q \in plan PROVE Existing(q.dest, made) # {}
      BY DEF DestinationReady
    <3>1. \E f \in DOMAIN folder : folder[f].step \notin {"queued", "over"}
      BY DEF InFlight
    <3>2. Passing
      BY <3>1 DEF Control, Workers
    <3>3. Len(creates) = 0
      BY <3>2 DEF Control, Creating
    <3>. QED
      BY <3>3 DEF Control, Creating
  <2>. QED
    BY <2>1, <2>2
<1>. QED
  BY <1>1, ControlHolds, NothingIsMerged, PTL DEF PlanHonoured
=============================================================================
