-------------------------- MODULE FolderFlowProofs --------------------------
(***************************************************************************)
(* What holds of any folders, messages, workers and byte budget. First     *)
(* where everybody is and what they hold (PlaceInv), then that no message  *)
(* is in two places (FlowInv), then that each one of a copy that goes well *)
(* is settled or in somebody's hands (SettleInv), last that the budget is  *)
(* what the messages in memory cost (BudgetInv). Each invariant is         *)
(* inductive given those before it and IInv of FolderPipelineProofs.       *)
(***************************************************************************)
EXTENDS FolderPipelineProofs, SequenceTheorems

Charges == INSTANCE Sums WITH W <- Charge
Sizes   == INSTANCE Sums WITH W <- LAMBDA m : Size[m]

-----------------------------------------------------------------------------
(* Sequences, chunks and numbers *)

LEMMA TailFacts ==
    ASSUME NEW M, NEW s \in Seq(M), s # <<>>
    PROVE  /\ Head(s) \in M /\ Head(s) = s[1] /\ 1 \in DOMAIN s
           /\ Tail(s) \in Seq(M)
           /\ DOMAIN Tail(s) = 1..(Len(s) - 1)
           /\ \A i \in DOMAIN Tail(s) : Tail(s)[i] = s[i + 1] /\ i + 1 \in DOMAIN s
           /\ \A i \in DOMAIN s : i = 1 \/ i - 1 \in DOMAIN Tail(s) 
  OBVIOUS

LEMMA TailSet ==
    ASSUME NEW M, NEW s \in Seq(M), s # <<>>, IsInjective(s)
    PROVE  /\ Head(s) \in ToSet(s) /\ IsInjective(Tail(s))
           /\ ToSet(Tail(s)) = ToSet(s) \ {Head(s)}
<1>1. IsInjective(Tail(s)) /\ Head(s) \in ToSet(s)
  BY TailFacts DEF IsInjective, ToSet
<1>2. \A m \in ToSet(Tail(s)) : m \in ToSet(s) /\ m # Head(s)
  BY TailFacts DEF IsInjective, ToSet
<1>3. ASSUME NEW m \in ToSet(s), m # Head(s) PROVE m \in ToSet(Tail(s))
  <2>1. PICK i \in DOMAIN s : s[i] = m
    BY DEF ToSet
  <2>2. i - 1 \in DOMAIN Tail(s) /\ Tail(s)[i - 1] = m
    BY <1>3, <2>1, TailFacts
  <2>. QED
    BY <2>2 DEF ToSet
<1>. QED
  BY <1>1, <1>2, <1>3

LEMMA AppendSet ==
    ASSUME NEW M, NEW s \in Seq(M), NEW x \in M
    PROVE  /\ Append(s, x) \in Seq(M) /\ ToSet(Append(s, x)) = ToSet(s) \cup {x}
           /\ IsInjective(s) /\ x \notin ToSet(s) => IsInjective(Append(s, x))
<1>1. /\ Append(s, x) \in Seq(M) /\ DOMAIN Append(s, x) = DOMAIN s \cup {Len(s) + 1}
      /\ Append(s, x)[Len(s) + 1] = x /\ \A i \in DOMAIN s : Append(s, x)[i] = s[i]
  OBVIOUS
<1>2. ToSet(Append(s, x)) = ToSet(s) \cup {x}
  BY <1>1 DEF ToSet
<1>3. Len(s) + 1 \notin DOMAIN s
  OBVIOUS
<1>4. ASSUME IsInjective(s), x \notin ToSet(s),
             NEW i \in DOMAIN Append(s, x), NEW j \in DOMAIN Append(s, x),
             Append(s, x)[i] = Append(s, x)[j]
      PROVE  i = j
  BY <1>1, <1>3, <1>4 DEF ToSet, IsInjective
<1>. QED
  BY <1>1, <1>2, <1>4 DEF IsInjective

\* Whoever leaves the queue is not in it any more, and the others keep their order.
\* Leaving the queue: one's own place goes, the others keep theirs.
LEMMA RemoveFacts ==
    ASSUME NEW M, NEW s \in Seq(M), IsInjective(s), NEW w
    PROVE  /\ RemoveFirst(s, w) \in Seq(M) /\ IsInjective(RemoveFirst(s, w))
           /\ ToSet(RemoveFirst(s, w)) = ToSet(s) \ {w}
<1>1. CASE \A i \in DOMAIN s : s[i] # w
  <2>1. RemoveFirst(s, w) = s
    BY <1>1 DEF RemoveFirst
  <2>. QED
    BY <1>1, <2>1 DEF ToSet
<1>2. CASE \E i \in DOMAIN s : s[i] = w
  <2>1. PICK k \in 1..Len(s) : s[k] = w
    BY <1>2
  <2>2. {i \in 1..Len(s) : s[i] = w} = {k}
    BY <2>1 DEF IsInjective
  <2>3. Min({k}) = k
    BY <2>1 DEF Min
  <2>4. RemoveFirst(s, w) = SubSeq(s, 1, k - 1) \o SubSeq(s, k + 1, Len(s))
    BY <2>1, <2>2, <2>3 DEF RemoveFirst, RemoveAt, SelectInSeq
  <2>. DEFINE r == RemoveFirst(s, w)
  <2>5. /\ r \in Seq(M) /\ DOMAIN r = 1..(Len(s) - 1)
        /\ \A i \in 1..(k - 1) : r[i] = s[i]
        /\ \A i \in k..(Len(s) - 1) : r[i] = s[i + 1]
    <3>. DEFINE p == SubSeq(s, 1, k - 1)
                q == SubSeq(s, k + 1, Len(s))
    <3>1. p \in Seq(M) /\ Len(p) = k - 1 /\ \A i \in 1..(k - 1) : p[i] = s[i]
      BY <2>1
    <3>2. q \in Seq(M) /\ Len(q) = Len(s) - k /\ \A i \in 1..(Len(s) - k) : q[i] = s[k + i]
      BY <2>1
    <3>. HIDE DEF p, q
    <3>3. /\ p \o q \in Seq(M) /\ Len(p \o q) = Len(s) - 1
          /\ \A i \in 1..(Len(s) - 1) : (p \o q)[i] = IF i <= k - 1 THEN p[i] ELSE q[i - (k - 1)]
      <4>1. /\ p \o q \in Seq(M) /\ Len(p \o q) = Len(p) + Len(q)
            /\ \A i \in 1..(Len(p) + Len(q)) :
                  (p \o q)[i] = IF i <= Len(p) THEN p[i] ELSE q[i - Len(p)]
        BY <3>1, <3>2, ConcatProperties, Zenon
      <4>2. Len(p) + Len(q) = Len(s) - 1
        BY <2>1, <3>1, <3>2
      <4>. QED
        BY <3>1, <4>1, <4>2
    <3>4. /\ \A i \in 1..(k - 1) : (p \o q)[i] = s[i]
          /\ \A i \in k..(Len(s) - 1) : (p \o q)[i] = s[i + 1]
      <4>1. \A i \in k..(Len(s) - 1) : /\ i - (k - 1) \in 1..(Len(s) - k)
                                       /\ k + (i - (k - 1)) = i + 1 /\ i \in 1..(Len(s) - 1)
        BY <2>1
      <4>. QED
        BY <2>1, <3>1, <3>2, <3>3, <4>1
    <3>5. r = p \o q
      BY <2>4 DEF p, q
    <3>. QED
      BY <2>1, <3>1, <3>3, <3>4, <3>5
  <2>. HIDE DEF r
  <2>6. IsInjective(r)
    BY <2>1, <2>5 DEF IsInjective
  <2>7. ToSet(r) \subseteq ToSet(s) \ {w}
    BY <2>1, <2>5 DEF IsInjective, ToSet
  <2>8. ASSUME NEW i \in DOMAIN s, s[i] # w PROVE s[i] \in ToSet(r)
    <3>1. CASE i < k
      BY <2>1, <2>5, <3>1 DEF ToSet
    <3>2. CASE i > k
      <4>1. i - 1 \in DOMAIN r /\ r[i - 1] = s[i]
        BY <2>1, <2>5, <3>2
      <4>. QED
        BY <4>1 DEF ToSet
    <3>. QED
      BY <2>1, <2>8, <3>1, <3>2
  <2>9. ToSet(s) \ {w} \subseteq ToSet(r)
    BY <2>8 DEF ToSet
  <2>. QED
    BY <2>5, <2>6, <2>7, <2>9 DEF r
<1>. QED
  BY <1>1, <1>2

-----------------------------------------------------------------------------
LEMMA MinOfTwo ==
    ASSUME NEW a \in Int, NEW b \in Int
    PROVE  Min({a, b}) = IF a <= b THEN a ELSE b
<1>1. ASSUME NEW c \in {a, b}, \A d \in {a, b} : c <= d
      PROVE  c = IF a <= b THEN a ELSE b
  BY <1>1
<1>2. \E c \in {a, b} : \A d \in {a, b} : c <= d
  <2>1. CASE a <= b
    BY <2>1
  <2>2. CASE ~(a <= b)
    BY <2>2
  <2>. QED
    BY <2>1, <2>2
<1>. QED
  BY <1>1, <1>2 DEF Min

LEMMA MaxOfTwo ==
    ASSUME NEW a \in Int, NEW b \in Int
    PROVE  Max({a, b}) = IF a >= b THEN a ELSE b
<1>1. ASSUME NEW c \in {a, b}, \A d \in {a, b} : c >= d
      PROVE  c = IF a >= b THEN a ELSE b
  BY <1>1
<1>2. \E c \in {a, b} : \A d \in {a, b} : c >= d
  <2>1. CASE a >= b
    BY <2>1
  <2>2. CASE ~(a >= b)
    BY <2>2
  <2>. QED
    BY <2>1, <2>2
<1>. QED
  BY <1>1, <1>2 DEF Max

LEMMA Times ==
    ASSUME NEW a \in Int, NEW b \in Int, NEW c \in Nat, a <= b
    PROVE  a * c <= b * c
  OBVIOUS

LEMMA Division ==
    ASSUME NEW a \in Nat, NEW b \in Nat \ {0}
    PROVE  /\ a \div b \in Nat /\ (a \div b) * b <= a /\ a < (a \div b) * b + b
  OBVIOUS

\* The chunks of a sequence cut it up: each member is in exactly one of them.
LEMMA ChunksCut ==
    ASSUME NEW M, NEW s \in Seq(M), IsInjective(s)
    PROVE  /\ Chunks(s) \in Seq(Seq(M))
           /\ UNION {ToSet(Chunks(s)[i]) : i \in DOMAIN Chunks(s)} = ToSet(s)
           /\ \A i \in DOMAIN Chunks(s) :
                 /\ IsInjective(Chunks(s)[i])
                 /\ \A j \in DOMAIN Chunks(s) :
                       i # j => ToSet(Chunks(s)[i]) \cap ToSet(Chunks(s)[j]) = {}
<1>. DEFINE L == Len(s)
            C == ChunkSize
            n == (L + C - 1) \div C
            Top(i) == IF i * C <= L THEN i * C ELSE L
<1>0. L \in Nat /\ C \in Nat \ {0} /\ DOMAIN s = 1..L
  BY PipelineAssumption DEF PipelineAssumption
<1>1. n \in Nat /\ n * C <= L + C - 1 /\ L + C - 1 < n * C + C
  <2>1. L + C - 1 \in Nat
    BY <1>0
  <2>. QED
    BY <1>0, <2>1, Division
<1>. HIDE DEF L, C, n
<1>2. DOMAIN Chunks(s) = 1..n /\ \A i \in 1..n : Chunks(s)[i] = SubSeq(s, (i - 1) * C + 1, Top(i))
  <2>1. \A i \in 1..n : i * C \in Int /\ Min({i * C, L}) = Top(i)
    BY <1>0, <1>1, MinOfTwo
  <2>2. Chunks(s) = [i \in 1..n |-> SubSeq(s, (i - 1) * C + 1, Min({i * C, L}))]
    BY DEF Chunks, n, C, L
  <2>. QED
    BY <2>1, <2>2
\* Chunk i holds what is above its lower end and not above its upper one.
<1>3. ASSUME NEW i \in 1..n
      PROVE  /\ (i - 1) * C \in Nat /\ Top(i) \in 0..L /\ i * C = (i - 1) * C + C
             /\ Chunks(s)[i] \in Seq(M)
             /\ DOMAIN Chunks(s)[i] = 1..(Top(i) - (i - 1) * C)
             /\ \A k \in 1..(Top(i) - (i - 1) * C) : Chunks(s)[i][k] = s[(i - 1) * C + k]
  <2>1. i - 1 \in Nat /\ i \in Nat
    BY <1>1
  <2>2. (i - 1) * C \in Nat /\ i * C \in Nat /\ i * C = (i - 1) * C + C
    BY <1>0, <2>1
  <2>3. Top(i) \in 0..L
    BY <1>0, <2>2
  <2>4. (i - 1) * C < L
    <3>1. (i - 1) * C <= (n - 1) * C
      BY <1>0, <1>1, <2>1, Times
    <3>2. (n - 1) * C = n * C - C
      BY <1>0, <1>1
    <3>. QED
      BY <1>0, <1>1, <2>2, <3>1, <3>2
  <2>. DEFINE lo == (i - 1) * C
              hi == Top(i)
  <2>5. lo \in Nat /\ hi \in 0..L /\ lo < L /\ lo <= hi
    BY <1>0, <2>2, <2>3, <2>4
  <2>6. Chunks(s)[i] = SubSeq(s, lo + 1, hi)
    BY <1>2
  <2>. HIDE DEF lo, hi
  <2>7. \A k \in (lo + 1)..hi : s[k] \in M
    BY <1>0, <2>5
  <2>8. /\ SubSeq(s, lo + 1, hi) \in Seq(M)
        /\ Len(SubSeq(s, lo + 1, hi)) = hi - lo
        /\ \A k \in 1..(hi - lo) : SubSeq(s, lo + 1, hi)[k] = s[lo + k]
    <3>1. lo + 1 \in Int /\ hi \in Int
      BY <1>0, <2>5
    <3>2. /\ SubSeq(s, lo + 1, hi) \in Seq(M)
          /\ Len(SubSeq(s, lo + 1, hi)) = IF lo + 1 <= hi THEN hi - (lo + 1) + 1 ELSE 0
          /\ \A k \in 1..(hi - (lo + 1) + 1) : SubSeq(s, lo + 1, hi)[k] = s[lo + 1 + k - 1]
      BY <2>7, <3>1, SubSeqProperties
    <3>3. hi - (lo + 1) + 1 = hi - lo /\ \A k \in 1..(hi - lo) : lo + 1 + k - 1 = lo + k
      BY <1>0, <2>5
    <3>. QED
      BY <1>0, <2>5, <3>2, <3>3
  <2>9. DOMAIN SubSeq(s, lo + 1, hi) = 1..(hi - lo)
    BY <2>8
  <2>. QED
    BY <2>2, <2>3, <2>6, <2>8, <2>9 DEF lo, hi
<1>. HIDE DEF Top
<1>4. \A i \in 1..n : Top(i) <= i * C
  BY <1>0 DEF Top
<1>5. Chunks(s) \in Seq(Seq(M))
  <2>1. Chunks(s) = [i \in 1..n |-> Chunks(s)[i]]
    BY <1>2 DEF Chunks
  <2>. QED
    BY SMTT(30), <1>1, <1>3, <2>1
\* Where the k-th of chunk i stands in the sequence.
<1>6. ASSUME NEW i \in 1..n, NEW k \in DOMAIN Chunks(s)[i]
      PROVE  /\ (i - 1) * C + k \in 1..L /\ (i - 1) * C + k <= i * C
             /\ Chunks(s)[i][k] = s[(i - 1) * C + k]
  <2>. DEFINE lo == (i - 1) * C
              up == i * C
  <2>1. /\ lo \in Nat /\ Top(i) \in 0..L /\ up = lo + C /\ Top(i) <= up
        /\ k \in 1..(Top(i) - lo) /\ \A l \in 1..(Top(i) - lo) : Chunks(s)[i][l] = s[lo + l]
    BY <1>3, <1>4
  <2>. HIDE DEF lo, up
  <2>2. lo + k \in 1..L /\ lo + k <= up /\ Chunks(s)[i][k] = s[lo + k]
    BY <1>0, <2>1
  <2>. QED
    BY <2>2 DEF lo, up
<1>7. ASSUME NEW i \in 1..n, NEW j \in 1..n, NEW k \in DOMAIN Chunks(s)[i],
             NEW l \in DOMAIN Chunks(s)[j], Chunks(s)[i][k] = Chunks(s)[j][l]
      PROVE  i = j /\ k = l
  <2>. DEFINE a == (i - 1) * C
              b == (j - 1) * C
  <2>1. /\ a + k \in 1..L /\ a + k <= i * C /\ b + l \in 1..L /\ b + l <= j * C
        /\ a \in Nat /\ b \in Nat /\ k >= 1 /\ l >= 1 /\ k \in Int /\ l \in Int
        /\ i * C \in Int /\ j * C \in Int
    <3>1. k \in 1..(Top(i) - a) /\ l \in 1..(Top(j) - b)
      BY <1>3
    <3>2. k >= 1 /\ l >= 1 /\ k \in Int /\ l \in Int
      <4>1. Top(i) \in 0..L /\ Top(j) \in 0..L /\ a \in Nat /\ b \in Nat
        BY <1>3
      <4>. HIDE DEF a, b
      <4>2. Top(i) - a \in Int /\ Top(j) - b \in Int
        BY <1>0, <4>1
      <4>. QED
        BY <3>1, <4>2
    <3>3. a \in Nat /\ b \in Nat /\ i * C \in Int /\ j * C \in Int
      BY <1>0, <1>3
    <3>. QED
      BY <1>6, <3>2, <3>3
  <2>2. a + k = b + l
    <3>1. s[a + k] = s[b + l]
      BY <1>6, <1>7
    <3>. QED
      BY <1>0, <2>1, <3>1 DEF IsInjective
  <2>3. i <= j - 1 => i * C <= b
    BY <1>0, Times
  <2>4. j <= i - 1 => j * C <= a
    BY <1>0, Times
  <2>. HIDE DEF a, b
  <2>5. ~(i <= j - 1) /\ ~(j <= i - 1)
    BY <1>0, <2>1, <2>2, <2>3, <2>4
  <2>6. i = j
    BY <1>1, <2>5
  <2>. QED
    BY <2>1, <2>2, <2>6 DEF a, b
<1>8. ASSUME NEW p \in 1..L
      PROVE  \E i \in 1..n : \E k \in DOMAIN Chunks(s)[i] : Chunks(s)[i][k] = s[p]
  <2>. DEFINE q == (p - 1) \div C
  <2>1. p - 1 \in Nat
    BY <1>0
  <2>2. q \in Nat /\ q * C <= p - 1 /\ p - 1 < q * C + C
    BY <1>0, <2>1, Division
  <2>. HIDE DEF q
  <2>3. q + 1 <= n
    <3>. SUFFICES ASSUME n <= q PROVE FALSE
      BY <1>1, <2>2
    <3>1. n * C <= q * C
      BY <1>0, <1>1, <2>2, Times
    <3>. QED
      BY <1>0, <1>1, <2>2, <3>1
  <2>4. q + 1 \in 1..n /\ (q + 1) - 1 = q /\ (q + 1) * C = q * C + C
    BY <1>0, <1>1, <2>2, <2>3
  <2>5. Top(q + 1) >= p
    BY <1>0, <2>2, <2>4 DEF Top
  <2>6. p - q * C \in 1..(Top(q + 1) - q * C) /\ q * C + (p - q * C) = p
    <3>1. Top(q + 1) \in 0..L /\ q * C \in Nat
      BY <1>3, <2>4
    <3>. QED
      BY <1>0, <2>2, <2>5, <3>1
  <2>7. /\ p - q * C \in DOMAIN Chunks(s)[q + 1]
        /\ Chunks(s)[q + 1][p - q * C] = s[p]
    BY <1>3, <2>4, <2>6
  <2>. QED
    BY <2>4, <2>7
<1>9. UNION {ToSet(Chunks(s)[i]) : i \in DOMAIN Chunks(s)} = ToSet(s)
  <2>1. \A i \in 1..n : ToSet(Chunks(s)[i]) \subseteq ToSet(s)
    BY <1>0, <1>6 DEF ToSet
  <2>2. \A m \in ToSet(s) : \E i \in 1..n : m \in ToSet(Chunks(s)[i])
    BY <1>0, <1>8 DEF ToSet
  <2>. QED
    BY <1>2, <2>1, <2>2
<1>10. \A i \in 1..n : IsInjective(Chunks(s)[i])
  BY <1>7 DEF IsInjective
<1>11. \A i, j \in 1..n : i # j => ToSet(Chunks(s)[i]) \cap ToSet(Chunks(s)[j]) = {}
  BY <1>7 DEF ToSet
<1>. QED
  BY <1>2, <1>5, <1>9, <1>10, <1>11

\* What is to be copied is what is not done, each message once.
LEMMA CopyList ==
    ASSUME NEW f \in Folders, NEW rows
    PROVE  /\ ToCopy(f, rows) \in Seq(Msgs) /\ IsInjective(ToCopy(f, rows))
           /\ ToSet(ToCopy(f, rows)) = {m \in ToSet(Todo[f]) : rows[m] # "done"}
<1>. DEFINE s == Todo[f]
            L == Len(s)
            Step(g, k) == IF k = 0 THEN <<>>
                          ELSE IF rows[s[k]] = "done" THEN g[k - 1] ELSE Append(g[k - 1], s[k])
<1>0. s \in Seq(Msgs) /\ L \in Nat /\ DOMAIN s = 1..L /\ IsInjective(s)
  BY PipelineAssumption DEF PipelineAssumption
<1>1. \E g : g = [k \in 0..L |-> Step(g, k)]
  <2>. DEFINE B == {n \in Nat : \E g : g = [k \in 0..n |-> Step(g, k)]}
  <2>1. 0 \in B
    <3>1. [k \in 0..0 |-> <<>>] = [j \in 0..0 |-> Step([k \in 0..0 |-> <<>>], j)]
      OBVIOUS
    <3>. QED
      BY <3>1
  <2>2. ASSUME NEW n \in B PROVE n + 1 \in B
    <3>1. PICK g : g = [k \in 0..n |-> Step(g, k)]
      BY <2>2
    <3>. DEFINE h == [k \in 0..(n + 1) |-> Step(g, k)]
    <3>2. \A k \in 0..n : k \in 0..(n + 1) /\ h[k] = g[k]
      <4>1. \A k \in 0..n : g[k] = Step(g, k)
        BY <3>1
      <4>. QED
        BY <4>1
    <3>3. \A k \in 0..(n + 1) : k # 0 => k - 1 \in 0..n
      OBVIOUS
    <3>. HIDE DEF h
    <3>4. \A k \in 0..(n + 1) : Step(h, k) = Step(g, k)
      BY <3>2, <3>3
    <3>5. h = [k \in 0..(n + 1) |-> Step(h, k)]
      BY <3>4 DEF h
    <3>. HIDE DEF Step
    <3>6. \E e : e = [k \in 0..(n + 1) |-> Step(e, k)]
      BY <3>5
    <3>. QED
      BY <3>6
  <2>3. B = Nat
    <3>. HIDE DEF B
    <3>1. B \in SUBSET Nat
      BY DEF B
    <3>. QED
      BY <2>1, <2>2, <3>1, Charges!FromZero
  <2>. QED
    BY <1>0, <2>3
<1>. DEFINE left == CHOOSE g : g = [k \in 0..L |-> Step(g, k)]
<1>2. ToCopy(f, rows) = left[L]
  BY DEF ToCopy
<1>3. left = [k \in 0..L |-> Step(left, k)]
  <2>. HIDE DEF Step, L
  <2>. QED
    BY <1>1
<1>. HIDE DEF left
<1>4. /\ left[0] = <<>>
      /\ \A k \in 1..L : left[k] = IF rows[s[k]] = "done" THEN left[k - 1]
                                   ELSE Append(left[k - 1], s[k])
  <2>1. \A k \in 0..L : left[k] = Step(left, k)
    BY <1>3
  <2>. QED
    BY <1>0, <2>1
<1>. DEFINE Good(k) == /\ left[k] \in Seq(Msgs) /\ IsInjective(left[k])
                       /\ ToSet(left[k]) = {s[i] : i \in {j \in 1..k : rows[s[j]] # "done"}}
            G == {k \in Nat : k <= L => Good(k)}
<1>5. 0 \in G
  <2>. HIDE DEF left, s, L
  <2>1. {j \in 1..0 : rows[s[j]] # "done"} = {}
    OBVIOUS
  <2>2. <<>> \in Seq(Msgs) /\ IsInjective(<<>>) /\ ToSet(<<>>) = {}
    BY DEF ToSet, IsInjective
  <2>3. {s[i] : i \in {}} = {}
    OBVIOUS
  <2>. QED
    BY <1>4, <2>1, <2>2, <2>3
<1>6. ASSUME NEW k \in G PROVE k + 1 \in G
  <2>. SUFFICES ASSUME k + 1 <= L PROVE Good(k + 1)
    OBVIOUS
  <2>1. Good(k) /\ k + 1 \in 1..L /\ (k + 1) - 1 = k
    BY <1>0, <1>6
  <2>2. s[k + 1] \in Msgs
    BY <1>0, <2>1
  <2>. HIDE DEF s, L
  <2>3. CASE rows[s[k + 1]] = "done"
    <3>1. left[k + 1] = left[k]
      BY <1>4, <2>1, <2>3
    <3>2. {j \in 1..(k + 1) : rows[s[j]] # "done"} = {j \in 1..k : rows[s[j]] # "done"}
      BY <2>3
    <3>. QED
      BY <2>1, <3>1, <3>2
  <2>4. CASE rows[s[k + 1]] # "done"
    <3>1. left[k + 1] = Append(left[k], s[k + 1])
      BY <1>4, <2>1, <2>4
    <3>2. \A j \in 1..k : j # k + 1 /\ j \in 1..L
      BY <1>0, <2>1
    <3>3. s[k + 1] \notin ToSet(left[k])
      BY <1>0, <2>1, <3>2 DEF IsInjective
    <3>4. {j \in 1..(k + 1) : rows[s[j]] # "done"}
            = {j \in 1..k : rows[s[j]] # "done"} \cup {k + 1}
      BY <2>4
    <3>. HIDE DEF left
    <3>5. /\ left[k + 1] \in Seq(Msgs) /\ IsInjective(left[k + 1])
          /\ ToSet(left[k + 1]) = ToSet(left[k]) \cup {s[k + 1]}
      BY <2>1, <2>2, <3>1, <3>3, AppendSet
    <3>. QED
      BY <2>1, <3>4, <3>5
  <2>. QED
    BY <2>3, <2>4
<1>7. G = Nat
  <2>. HIDE DEF G
  <2>1. G \in SUBSET Nat
    BY DEF G
  <2>. QED
    BY <1>5, <1>6, <2>1, Charges!FromZero
<1>8. Good(L)
  <2>1. L \in Nat
    BY <1>0
  <2>. HIDE DEF left, s, L, Good
  <2>2. L \in G
    <3>. HIDE DEF G
    <3>. QED
      BY <1>7, <2>1
  <2>3. L <= L
    BY <2>1
  <2>. QED
    BY <2>2, <2>3
<1>9. {s[i] : i \in {j \in 1..L : rows[s[j]] # "done"}} = {m \in ToSet(s) : rows[m] # "done"}
  BY <1>0 DEF ToSet
<1>. QED
  BY <1>2, <1>8, <1>9

-----------------------------------------------------------------------------
(* What a set of messages costs *)

\* There are finitely many folders, and each lists finitely many messages.
LEMMA MsgsFinite == IsFiniteSet(Msgs)
<1>1. ASSUME NEW f \in Folders PROVE IsFiniteSet(ToSet(Todo[f]))
  <2>1. Todo[f] \in Seq(ToSet(Todo[f]))
    BY PipelineAssumption DEF PipelineAssumption, ToSet
  <2>2. \A m \in ToSet(Todo[f]) : \E n \in 1..Len(Todo[f]) : Todo[f][n] = m
    BY PipelineAssumption DEF PipelineAssumption, ToSet
  <2>. QED
    BY <2>1, <2>2 DEF IsFiniteSet
<1>. DEFINE Sets == {ToSet(Todo[f]) : f \in Folders}
<1>2. [f \in Folders |-> ToSet(Todo[f])] \in Surjection(Folders, Sets)
  BY DEF Surjection
<1>3. IsFiniteSet(Folders)
  BY PipelineAssumption DEF PipelineAssumption
<1>. HIDE DEF Sets
<1>4. IsFiniteSet(Sets)
  BY <1>2, <1>3, FS_Surjection
<1>5. \A S \in Sets : IsFiniteSet(S)
  BY <1>1 DEF Sets
<1>6. IsFiniteSet(UNION Sets)
  BY <1>4, <1>5, FS_UNION
<1>. QED
  BY <1>6 DEF Sets, Msgs

LEMMA ChargeIs ==
    ASSUME NEW m \in Msgs
    PROVE  /\ Charge(m) \in 1..Budget /\ Budget \in Nat \ {0} /\ Size[m] \in Nat
           /\ Size[m] > Charge(m) => Charge(m) = Budget
<1>1. Budget \in Nat \ {0} /\ Size[m] \in Nat
  BY PipelineAssumption DEF PipelineAssumption
<1>2. Max({Size[m], 1}) = IF Size[m] >= 1 THEN Size[m] ELSE 1
  BY <1>1, MaxOfTwo
<1>. DEFINE larger == Max({Size[m], 1})
<1>3. larger \in Int
  BY <1>1, <1>2
<1>. HIDE DEF larger
<1>4. Min({larger, Budget}) = IF larger <= Budget THEN larger ELSE Budget
  BY <1>1, <1>3, MinOfTwo
<1>5. Charge(m) = IF larger <= Budget THEN larger ELSE Budget
  BY <1>4 DEF Charge, larger
<1>. QED
  BY <1>1, <1>2, <1>5 DEF larger

Cost(S) == MapThenSumSet(Charge, S)

\* What is in memory costs the sum of what its messages cost.
LEMMA CostIs ==
    /\ Cost({}) = 0
    /\ \A S \in SUBSET Msgs :
          /\ Cost(S) \in Nat
          /\ \A m \in S : Cost(S) = Charge(m) + Cost(S \ {m})
          /\ \A T \in SUBSET S : Cost(S \ T) = Cost(S) - Cost(T)
<1>1. \A S \in SUBSET Msgs : Cost(S) = Charges!Sum(S)
  BY DEF Cost, MapThenSumSet, MapThenFoldSet, Charges!Sum, Charges!MapThenSumSet,
         Charges!MapThenFoldSet
<1>2. \A S : IsFiniteSet(S) <=> Charges!IsFiniteSet(S)
  BY DEF IsFiniteSet, Charges!IsFiniteSet
<1>3. \A S \in SUBSET Msgs : Charges!IsFiniteSet(S) /\ Charges!Weighed(S)
  BY <1>2, MsgsFinite, FS_Subset, ChargeIs DEF Charges!Weighed
<1>4. Charges!Sum({}) = 0
  BY Charges!SumEmpty
<1>5. \A S \in SUBSET Msgs : Charges!Sum(S) \in Nat
  BY <1>3, Charges!SumType
<1>6. \A S \in SUBSET Msgs : \A m \in S : Charges!Sum(S) = Charge(m) + Charges!Sum(S \ {m})
  BY <1>3, Charges!SumTake
<1>7. \A S \in SUBSET Msgs : /\ \A m \in S : S \ {m} \in SUBSET Msgs
                             /\ \A T \in SUBSET S : T \in SUBSET Msgs /\ S \ T \in SUBSET Msgs
  OBVIOUS
<1>9. \A S \in SUBSET Msgs : \A T \in SUBSET S :
          Charges!Sum(S \ T) = Charges!Sum(S) - Charges!Sum(T)
  BY <1>3, Charges!SumMinus
<1>8. {} \in SUBSET Msgs
  OBVIOUS
<1>. HIDE DEF Cost
<1>10. Cost({}) = 0
  BY <1>1, <1>4, <1>8
<1>11. ASSUME NEW S \in SUBSET Msgs
       PROVE  /\ Cost(S) \in Nat
              /\ \A m \in S : Cost(S) = Charge(m) + Cost(S \ {m})
              /\ \A T \in SUBSET S : Cost(S \ T) = Cost(S) - Cost(T)
  <2>1. Cost(S) = Charges!Sum(S) /\ Cost(S) \in Nat
    BY <1>1, <1>5
  <2>2. ASSUME NEW m \in S PROVE Cost(S) = Charge(m) + Cost(S \ {m})
    <3>1. Cost(S \ {m}) = Charges!Sum(S \ {m})
      BY <1>1, <1>7
    <3>. QED
      BY <1>6, <2>1, <3>1
  <2>3. ASSUME NEW T \in SUBSET S PROVE Cost(S \ T) = Cost(S) - Cost(T)
    <3>1. Cost(S \ T) = Charges!Sum(S \ T) /\ Cost(T) = Charges!Sum(T)
      BY <1>1, <1>7
    <3>. QED
      BY <1>9, <2>1, <3>1
  <2>. QED
    BY <2>1, <2>2, <2>3
<1>. QED
  BY <1>10, <1>11

LEMMA CostOfOne ==
    ASSUME NEW m \in Msgs
    PROVE  Cost({m}) = Charge(m)
<1>1. {m} \in SUBSET Msgs /\ m \in {m} /\ {m} \ {m} = {}
  OBVIOUS
<1>2. Cost({m}) = Charge(m) + 0
  BY <1>1, CostIs
<1>. QED
  BY <1>2, ChargeIs

-----------------------------------------------------------------------------
(* Where everybody is, and what is in whose hands *)

FetcherPoints  == Over \cup {"draw", "meta", "run", "charge", "body", "send"}
AppenderPoints == Over \cup {"take", "append", "look", "find"}
MainPoints     == Ended \cup Running \cup {"waiting", "gate"}
Flows == [chunks : Seq(Seq(Msgs)), pending : Seq(Msgs), sealed : BOOLEAN, broken : BOOLEAN]
Rows == {"none", "in_flight", "done", "failed"}

TypeOK ==
    /\ main \in [Folders -> MainPoints]
    /\ srcHeld \subseteq Folders \cup Fetchers /\ dstHeld \subseteq Folders \cup Appenders
    /\ used \in Int
    /\ queue \in Seq(Fetchers)
    /\ flow \in [Folders -> Flows]
    /\ fetcher \in [Fetchers -> [at : FetcherPoints, batch : Seq(Msgs)]]
    /\ appender \in [Appenders -> [at : AppenderPoints, item : SUBSET Msgs]]
    /\ status \in [Msgs -> Rows]

\* A worker has something in hand where its code says so, and nothing elsewhere.
Hands ==
    /\ \A w \in Fetchers :
          /\ fetcher[w].at \in Over \cup {"draw"} => fetcher[w].batch = <<>>
          /\ fetcher[w].at \in {"charge", "body", "send"} => fetcher[w].batch # <<>>
    /\ \A a \in Appenders :
          IF appender[a].at \in {"append", "look", "find"}
          THEN \E m \in Msgs : appender[a].item = {m} ELSE appender[a].item = {}

\* Leases and places in the queue belong to somebody who is where they are needed.
Leases ==
    /\ \A f \in Folders : f \in srcHeld => main[f] \in {"src", "dst", "resync"}
    /\ \A w \in Fetchers : w \in srcHeld => fetcher[w].at \notin Over \cup {"draw"}
    /\ \A f \in Folders :
          f \in dstHeld => main[f] \in {"dst", "index", "flags", "delete", "repeats"}
    /\ \A a \in Appenders : a \in dstHeld => appender[a].at \in {"append", "look", "find"}

Queued ==
    /\ IsInjective(queue)
    /\ \A w \in ToSet(queue) : fetcher[w].at = "charge"

\* Outside copyFolder a folder has no worker and its channels are empty.
Vacant(f) ==
    /\ \A r \in Readers : fetcher[<<f, r>>].at \in Over
    /\ \A a \in Writers : appender[<<f, a>>].at \in Over
    /\ flow[f].chunks = <<>> /\ flow[f].pending = <<>>

OnlyCopies == \A f \in Folders : main[f] # "copy" => Vacant(f)

PlaceInv == TypeOK /\ Hands /\ Leases /\ Queued /\ OnlyCopies

-----------------------------------------------------------------------------
LEMMA OfAFolder ==
    ASSUME NEW w \in Fetchers \cup Appenders
    PROVE  w \notin Folders /\ w[1] \in Folders
BY PipelineAssumption DEF PipelineAssumption, Fetchers, Appenders

\* A step that moves one fetcher which had not returned.
LEMMA FetcherPlaces ==
    ASSUME PlaceInv, NEW w \in Fetchers, fetcher[w].at \notin Over,
           NEW to \in FetcherPoints, NEW batch \in Seq(Msgs), Fetcher(w, to, batch),
           to \in Over \cup {"draw"} => batch = <<>>,
           to \in {"charge", "body", "send"} => batch # <<>>,
           UNCHANGED <<main, appender>>,
           flow' \in [Folders -> Flows],
           \A f \in Folders : f # w[1] => flow'[f] = flow[f],
           used' \in Int, status' \in [Msgs -> Rows],
           srcHeld' \subseteq srcHeld \cup {w},
           w \in srcHeld' => to \notin Over \cup {"draw"},
           dstHeld' \subseteq dstHeld,
           queue' \in Seq(Fetchers), IsInjective(queue'),
           ToSet(queue') \subseteq ToSet(queue) \cup {w},
           w \in ToSet(queue') => to = "charge"
    PROVE  PlaceInv'
<1>1. /\ fetcher' \in [Fetchers -> [at : FetcherPoints, batch : Seq(Msgs)]]
      /\ fetcher'[w] = [at |-> to, batch |-> batch]
      /\ fetcher'[w].at = to /\ fetcher'[w].batch = batch
      /\ \A v \in Fetchers : v # w => fetcher'[v] = fetcher[v]
  BY DEF PlaceInv, TypeOK, Fetcher
<1>2. w \notin Folders /\ w[1] \in Folders /\ w = <<w[1], w[2]>> /\ w[2] \in Readers
  BY OfAFolder DEF Fetchers
<1>3. main[w[1]] = "copy"
  BY <1>2 DEF PlaceInv, OnlyCopies, Vacant
<1>4. TypeOK'
  <2>1. srcHeld' \subseteq Folders \cup Fetchers /\ dstHeld' \subseteq Folders \cup Appenders
    BY DEF PlaceInv, TypeOK
  <2>. QED
    BY <1>1, <2>1 DEF PlaceInv, TypeOK
<1>5. Hands'
  <2>1. \A v \in Fetchers :
          /\ fetcher'[v].at \in Over \cup {"draw"} => fetcher'[v].batch = <<>>
          /\ fetcher'[v].at \in {"charge", "body", "send"} => fetcher'[v].batch # <<>>
    BY <1>1 DEF PlaceInv, Hands
  <2>. QED
    BY <2>1 DEF PlaceInv, Hands
<1>6. Leases'
  <2>1. \A v \in Fetchers : v \in srcHeld' => fetcher'[v].at \notin Over \cup {"draw"}
    BY <1>1 DEF PlaceInv, Leases
  <2>2. \A f \in Folders : (f \in srcHeld' => f \in srcHeld) /\ (f \in dstHeld' => f \in dstHeld)
    BY <1>2
  <2>. QED
    BY <2>1, <2>2 DEF PlaceInv, Leases
<1>7. Queued'
  <2>1. ASSUME NEW v \in ToSet(queue') PROVE fetcher'[v].at = "charge"
    <3>1. v = w \/ v \in ToSet(queue)
      OBVIOUS
    <3>2. v \in Fetchers
      BY <2>1 DEF ToSet
    <3>. QED
      BY <1>1, <2>1, <3>1, <3>2 DEF PlaceInv, Queued
  <2>. QED
    BY <2>1 DEF Queued
<1>8. OnlyCopies'
  <2>. SUFFICES ASSUME NEW f \in Folders, main[f] # "copy" PROVE Vacant(f)'
    BY DEF OnlyCopies
  <2>1. f # w[1] /\ Vacant(f) /\ flow'[f] = flow[f]
    BY <1>3 DEF PlaceInv, OnlyCopies
  <2>2. \A r \in Readers : fetcher'[<<f, r>>] = fetcher[<<f, r>>]
    BY <1>1, <2>1 DEF Fetchers
  <2>. QED
    BY <2>1, <2>2 DEF Vacant
<1>. QED
  BY <1>4, <1>5, <1>6, <1>7, <1>8 DEF PlaceInv

\* A step that moves one appender which had not returned.
LEMMA AppenderPlaces ==
    ASSUME PlaceInv, NEW a \in Appenders, appender[a].at \notin Over,
           NEW to \in AppenderPoints, NEW item \in SUBSET Msgs, Appender(a, to, item),
           IF to \in {"append", "look", "find"}
           THEN \E m \in Msgs : item = {m} ELSE item = {},
           UNCHANGED <<main, fetcher, queue>>,
           flow' \in [Folders -> Flows],
           \A f \in Folders : f # a[1] => flow'[f] = flow[f],
           used' \in Int, status' \in [Msgs -> Rows],
           srcHeld' \subseteq srcHeld, dstHeld' \subseteq dstHeld \cup {a},
           a \in dstHeld' => to \in {"append", "look", "find"}
    PROVE  PlaceInv'
<1>1. /\ appender' \in [Appenders -> [at : AppenderPoints, item : SUBSET Msgs]]
      /\ appender'[a] = [at |-> to, item |-> item]
      /\ appender'[a].at = to /\ appender'[a].item = item
      /\ \A b \in Appenders : b # a => appender'[b] = appender[b]
  BY DEF PlaceInv, TypeOK, Appender
<1>2. a \notin Folders /\ a[1] \in Folders /\ a = <<a[1], a[2]>> /\ a[2] \in Writers
  BY OfAFolder DEF Appenders
<1>3. main[a[1]] = "copy"
  BY <1>2 DEF PlaceInv, OnlyCopies, Vacant
<1>4. TypeOK'
  <2>1. srcHeld' \subseteq Folders \cup Fetchers /\ dstHeld' \subseteq Folders \cup Appenders
    BY DEF PlaceInv, TypeOK
  <2>. QED
    BY <1>1, <2>1 DEF PlaceInv, TypeOK
<1>5. Hands'
  BY <1>1 DEF PlaceInv, Hands
<1>6. Leases'
  BY <1>1, <1>2 DEF PlaceInv, Leases
<1>7. Queued'
  BY DEF PlaceInv, Queued
<1>8. OnlyCopies'
  <2>. SUFFICES ASSUME NEW f \in Folders, main[f] # "copy" PROVE Vacant(f)'
    BY DEF OnlyCopies
  <2>1. f # a[1] /\ Vacant(f) /\ flow'[f] = flow[f]
    BY <1>3 DEF PlaceInv, OnlyCopies
  <2>2. \A b \in Writers : appender'[<<f, b>>] = appender[<<f, b>>]
    BY <1>1, <2>1 DEF Appenders
  <2>. QED
    BY <2>1, <2>2 DEF Vacant
<1>. QED
  BY <1>4, <1>5, <1>6, <1>7, <1>8 DEF PlaceInv

\* A step that moves one folder and no worker.
LEMMA FolderPlaces ==
    ASSUME PlaceInv, NEW f \in Folders, NEW to \in MainPoints, MoveMain(f, to),
           UNCHANGED <<fetcher, appender, queue>>,
           flow' \in [Folders -> Flows],
           \A g \in Folders : g # f => flow'[g] = flow[g],
           used' \in Int, status' \in [Msgs -> Rows],
           srcHeld' \subseteq srcHeld \cup {f},
           f \in srcHeld' => to \in {"src", "dst", "resync"},
           dstHeld' \subseteq dstHeld \cup {f},
           f \in dstHeld' => to \in {"dst", "index", "flags", "delete", "repeats"},
           to # "copy" => Vacant(f)'
    PROVE  PlaceInv'
<1>1. /\ main' \in [Folders -> MainPoints] /\ main'[f] = to
      /\ \A g \in Folders : g # f => main'[g] = main[g]
  BY DEF PlaceInv, TypeOK, MoveMain
<1>2. f \notin Fetchers \cup Appenders
  BY OfAFolder
<1>4. TypeOK'
  <2>1. srcHeld' \subseteq Folders \cup Fetchers /\ dstHeld' \subseteq Folders \cup Appenders
    BY DEF PlaceInv, TypeOK
  <2>. QED
    BY <1>1, <2>1 DEF PlaceInv, TypeOK
<1>5. Hands'
  BY DEF PlaceInv, Hands
<1>6. Leases'
  BY <1>1, <1>2 DEF PlaceInv, Leases
<1>7. Queued'
  BY DEF PlaceInv, Queued
<1>8. OnlyCopies'
  <2>. SUFFICES ASSUME NEW g \in Folders, main'[g] # "copy" PROVE Vacant(g)'
    BY DEF OnlyCopies
  <2>1. CASE g = f
    BY <1>1, <2>1
  <2>2. CASE g # f
    <3>1. Vacant(g) /\ flow'[g] = flow[g]
      BY <1>1, <2>2 DEF PlaceInv, OnlyCopies
    <3>. QED
      BY <3>1 DEF Vacant
  <2>. QED
    BY <2>1, <2>2
<1>. QED
  BY <1>4, <1>5, <1>6, <1>7, <1>8 DEF PlaceInv

\* What is in a fetcher's hands before a step of its own.
LEMMA FetcherFacts ==
    ASSUME PlaceInv, NEW w \in Fetchers
    PROVE  /\ fetcher[w] = [at |-> fetcher[w].at, batch |-> fetcher[w].batch]
           /\ fetcher[w].at \in FetcherPoints /\ fetcher[w].batch \in Seq(Msgs)
           /\ fetcher[w].batch # <<>> =>
                 /\ Head(fetcher[w].batch) \in Msgs
                 /\ Tail(fetcher[w].batch) \in Seq(Msgs)
           /\ w[1] \in Folders /\ flow[w[1]] \in Flows
           /\ fetcher[w].at # "charge" => w \notin ToSet(queue)
<1>1. fetcher[w] \in [at : FetcherPoints, batch : Seq(Msgs)]
  BY DEF PlaceInv, TypeOK
<1>2. w[1] \in Folders /\ flow[w[1]] \in Flows
  BY DEF PlaceInv, TypeOK, Fetchers
<1>3. fetcher[w].at # "charge" => w \notin ToSet(queue)
  BY DEF PlaceInv, Queued
<1>. QED
  BY <1>1, <1>2, <1>3, TailFacts

\* What a step that only moves a fetcher leaves alone.
LEMMA TypesNow ==
    ASSUME PlaceInv
    PROVE  /\ flow \in [Folders -> Flows] /\ used \in Int /\ status \in [Msgs -> Rows]
           /\ queue \in Seq(Fetchers) /\ IsInjective(queue)
           /\ DOMAIN fetcher = Fetchers /\ DOMAIN appender = Appenders
BY DEF PlaceInv, TypeOK, Queued

LEMMA FetcherKeepsPlace ==
    ASSUME PlaceInv, NEW w \in Fetchers, FetcherStep(w)
    PROVE  PlaceInv'
<1>. DEFINE at == fetcher[w].at
            batch == fetcher[w].batch
            f == w[1]
            Quiet == UNCHANGED <<main, appender>>
<1>0. /\ fetcher[w] = [at |-> at, batch |-> batch]
      /\ at \in FetcherPoints /\ batch \in Seq(Msgs)
      /\ batch # <<>> => Head(batch) \in Msgs /\ Tail(batch) \in Seq(Msgs)
      /\ f \in Folders /\ flow[f] \in Flows
      /\ at # "charge" => w \notin ToSet(queue)
      /\ at \in Over \cup {"draw"} => batch = <<>>
      /\ at \in {"charge", "body", "send"} => batch # <<>>
  BY FetcherFacts DEF PlaceInv, Hands
<1>00. <<>> \in Seq(Msgs)
  OBVIOUS
<1>1. CASE LeaseSource(w)
  <2>1. at \in {"meta", "run"} /\ w \notin Folders
    BY <1>1, OfAFolder DEF LeaseSource, WantsSource
  <2>2. Fetcher(w, at, batch)
    <3>. DEFINE hands == [at |-> at, batch |-> batch]
    <3>1. fetcher[w] = hands /\ fetcher' = fetcher
      BY <1>0, <1>1 DEF LeaseSource
    <3>. HIDE DEF hands
    <3>2. [fetcher EXCEPT ![w] = hands] = fetcher
      BY <3>1 DEF PlaceInv, TypeOK
    <3>. QED
      BY <3>1, <3>2 DEF Fetcher, hands
  <2>. QED
    BY <1>0, <1>1, <2>1, <2>2, TypesNow, FetcherPlaces DEF LeaseSource, Over
<1>2. CASE GetsChunk(w)
  <2>. DEFINE now == [flow EXCEPT ![f].chunks = Tail(@)]
  <2>1. flow[f].chunks \in Seq(Seq(Msgs)) /\ flow[f].chunks # <<>>
    BY <1>0, <1>2 DEF GetsChunk, Flows
  <2>2. Head(flow[f].chunks) \in Seq(Msgs) /\ Tail(flow[f].chunks) \in Seq(Seq(Msgs))
    BY <2>1, TailFacts
  <2>3. now \in [Folders -> Flows] /\ \A g \in Folders : g # f => now[g] = flow[g]
    BY <2>2, TypesNow DEF Flows
  <2>4. flow' = now /\ at = "draw" /\ Fetcher(w, "meta", Head(flow[f].chunks))
    BY <1>2 DEF GetsChunk
  <2>. QED
    BY <1>0, <1>2, <2>2, <2>3, <2>4, TypesNow, FetcherPlaces
    DEF GetsChunk, Over, FetcherPoints
<1>3. CASE NoMoreChunks(w)
  BY <1>0, <1>00, <1>3, TypesNow, FetcherPlaces DEF NoMoreChunks, Over, FetcherPoints,
     PlaceInv, Leases
<1>4. CASE ReadsHeaders(w)
  BY <1>0, <1>4, TypesNow, FetcherPlaces DEF ReadsHeaders, Drop, Over, FetcherPoints
<1>5. CASE HeadersFail(w)
  BY <1>0, <1>00, <1>5, TypesNow, FetcherPlaces DEF HeadersFail, Drop, Over, FetcherPoints
<1>6. CASE Adopts(w)
  <2>1. status' \in [Msgs -> Rows]
    BY <1>0, <1>6, TypesNow DEF Adopts, Mark, Rows
  <2>. QED
    BY <1>0, <1>6, <2>1, TypesNow, FetcherPlaces DEF Adopts, Over, FetcherPoints
<1>7. CASE Begins(w)
  <2>1. status' \in [Msgs -> Rows]
    BY <1>0, <1>7, TypesNow DEF Begins, Mark, Rows
  <2>2. at = "run" /\ w \notin ToSet(queue)
    BY <1>0, <1>7 DEF Begins
  <2>3. /\ Append(queue, w) \in Seq(Fetchers) /\ IsInjective(Append(queue, w))
        /\ ToSet(Append(queue, w)) = ToSet(queue) \cup {w}
    BY <2>2, TypesNow, AppendSet
  <2>. QED
    BY <1>0, <1>7, <2>1, <2>2, <2>3, TypesNow, FetcherPlaces
    DEF Begins, Over, FetcherPoints
<1>8. CASE Charged(w)
  <2>1. /\ at = "charge" /\ queue # <<>> /\ Head(queue) = w /\ queue' = Tail(queue)
        /\ used' = used + Charge(Head(batch)) /\ Fetcher(w, "body", batch)
    BY <1>8 DEF Charged
  <2>2. /\ Tail(queue) \in Seq(Fetchers) /\ IsInjective(Tail(queue))
        /\ ToSet(Tail(queue)) = ToSet(queue) \ {w}
    BY <2>1, TypesNow, TailFacts, TailSet
  <2>3. used' \in Int
    BY <1>0, <2>1, TypesNow, ChargeIs
  <2>. QED
    BY <1>0, <1>8, <2>1, <2>2, <2>3, TypesNow, FetcherPlaces
    DEF Charged, Over, FetcherPoints, PlaceInv, Leases
<1>9. CASE ReadsBody(w)
  BY <1>0, <1>9, TypesNow, FetcherPlaces DEF ReadsBody, Over, FetcherPoints
<1>10. CASE NothingToSend(w)
  <2>1. status' \in [Msgs -> Rows]
    BY <1>0, <1>10, TypesNow DEF NothingToSend, Mark, Rows
  <2>2. used' \in Int
    <3>1. used' = used - Cost({Head(batch)}) /\ Head(batch) \in Msgs
      BY <1>0, <1>10 DEF NothingToSend, Refund, Cost
    <3>. QED
      BY <3>1, CostOfOne, ChargeIs, TypesNow
  <2>. QED
    BY <1>0, <1>10, <2>1, <2>2, TypesNow, FetcherPlaces
    DEF NothingToSend, Over, FetcherPoints
<1>11. CASE Sends(w)
  <2>. DEFINE now == [flow EXCEPT ![f].pending = Append(@, Head(batch))]
  <2>1. at = "send" /\ flow' = now /\ Fetcher(w, "run", Tail(batch))
    BY <1>11 DEF Sends
  <2>2. Append(flow[f].pending, Head(batch)) \in Seq(Msgs)
    BY <1>0, <2>1, AppendSet DEF Flows
  <2>3. now \in [Folders -> Flows] /\ \A g \in Folders : g # f => now[g] = flow[g]
    BY <2>2, TypesNow DEF Flows
  <2>. QED
    BY <1>0, <1>11, <2>1, <2>3, TypesNow, FetcherPlaces DEF Sends, Over, FetcherPoints
<1>12. CASE FetchFails(w)
  <2>1. /\ batch # <<>> /\ at \in {"run", "body", "charge", "send"}
        /\ queue' = RemoveFirst(queue, w) /\ Drop(w)
        /\ used' = used - Cost({Head(batch)}) \/ used' = used
        /\ UNCHANGED <<main, flow, appender>>
    BY <1>12 DEF FetchFails, Refund, Cost
  <2>2. used' \in Int
    BY <1>0, <2>1, CostOfOne, ChargeIs, TypesNow
  <2>3. /\ queue' \in Seq(Fetchers) /\ IsInjective(queue')
        /\ ToSet(queue') = ToSet(queue) \ {w}
    BY <2>1, TypesNow, RemoveFacts
  <2>4. \/ Fetcher(w, "gaveUp", <<>>) /\ UNCHANGED status
        \/ Fetcher(w, "run", batch) /\ UNCHANGED status
        \/ Fetcher(w, "run", Tail(batch)) /\ Mark(Head(batch), "failed")
    BY <1>12 DEF FetchFails, Resume
  <2>5. status' \in [Msgs -> Rows]
    BY <1>0, <2>1, <2>4, TypesNow DEF Mark, Rows
  <2>6. /\ srcHeld' \subseteq srcHeld /\ dstHeld' \subseteq dstHeld /\ w \notin srcHeld'
        /\ at \notin Over /\ w \notin ToSet(queue')
    BY <2>1, <2>3 DEF Drop, Over
  <2>7. \E to \in {"gaveUp", "run"}, left \in Seq(Msgs) :
           Fetcher(w, to, left) /\ (to = "gaveUp" => left = <<>>)
    BY <1>0, <1>00, <2>1, <2>4
  <2>. QED
    BY <1>0, <2>1, <2>2, <2>3, <2>5, <2>6, <2>7, TypesNow, FetcherPlaces
    DEF Over, FetcherPoints
<1>13. CASE ChunkDone(w)
  BY <1>0, <1>00, <1>13, TypesNow, FetcherPlaces DEF ChunkDone, Drop, Over, FetcherPoints
<1>. QED
  BY <1>1, <1>2, <1>3, <1>4, <1>5, <1>6, <1>7, <1>8, <1>9, <1>10, <1>11, <1>12, <1>13
  DEF FetcherStep

LEMMA AppenderKeepsPlace ==
    ASSUME PlaceInv, NEW a \in Appenders, AppenderStep(a)
    PROVE  PlaceInv'
<1>. DEFINE at == appender[a].at
            item == appender[a].item
            f == a[1]
            Held == {"append", "look", "find"}
<1>0. /\ appender[a] = [at |-> at, item |-> item]
      /\ at \in AppenderPoints /\ item \in SUBSET Msgs
      /\ at \in Held => \E m \in Msgs : item = {m}
      /\ at \notin Held => item = {}
      /\ f \in Folders /\ flow[f] \in Flows
  <2>1. appender[a] \in [at : AppenderPoints, item : SUBSET Msgs]
    BY DEF PlaceInv, TypeOK
  <2>2. f \in Folders /\ flow[f] \in Flows
    BY DEF PlaceInv, TypeOK, Appenders
  <2>. QED
    BY <2>1, <2>2 DEF PlaceInv, Hands
<1>00. {} \in SUBSET Msgs
  OBVIOUS
<1>1. Cost(item) \in Nat
  BY <1>0, CostIs
\* What the ways of letting go of a message have in common.
<1>3. ASSUME Finish(a, "done") \/ Finish(a, "failed"), at \in Held
      PROVE  used' \in Int /\ status' \in [Msgs -> Rows] /\ Appender(a, "take", {})
  <2>1. used' = used - Cost(item) /\ Appender(a, "take", {})
    BY <1>3 DEF Finish, Refund, Cost
  <2>2. PICK m \in Msgs : item = {m}
    BY <1>0, <1>3
  <2>3. Mark(m, "done") \/ Mark(m, "failed")
    BY <1>3, <2>2 DEF Finish
  <2>4. status' \in [Msgs -> Rows]
    BY <2>3, TypesNow DEF Mark, Rows
  <2>. QED
    BY <1>1, <2>1, <2>4, TypesNow
<1>4. ASSUME GiveUp(a)
      PROVE  /\ used' \in Int /\ status' \in [Msgs -> Rows] /\ Appender(a, "gaveUp", {})
             /\ flow' \in [Folders -> Flows] /\ \A g \in Folders : g # f => flow'[g] = flow[g]
  <2>. DEFINE now == [flow EXCEPT ![f].broken = TRUE]
  <2>1. /\ used' = used - Cost(item) /\ Appender(a, "gaveUp", {}) /\ flow' = now
        /\ status' = status
    BY <1>4 DEF GiveUp, Refund, Cost
  <2>2. now \in [Folders -> Flows] /\ \A g \in Folders : g # f => now[g] = flow[g]
    BY <1>0, TypesNow DEF Flows
  <2>. QED
    BY <1>1, <2>1, <2>2, TypesNow
<1>5. CASE LeaseDest(a)
  <2>1. at \in Held
    BY <1>5, OfAFolder DEF LeaseDest, WantsDest
  <2>2. Appender(a, at, item)
    <3>. DEFINE hands == [at |-> at, item |-> item]
    <3>1. appender[a] = hands /\ appender' = appender
      BY <1>0, <1>5 DEF LeaseDest
    <3>. HIDE DEF hands
    <3>2. [appender EXCEPT ![a] = hands] = appender
      BY <3>1 DEF PlaceInv, TypeOK
    <3>. QED
      BY <3>1, <3>2 DEF Appender, hands
  <2>. QED
    BY <1>0, <1>5, <2>1, <2>2, TypesNow, AppenderPlaces DEF LeaseDest, Over
<1>6. CASE TakesItem(a)
  <2>. DEFINE now == [flow EXCEPT ![f].pending = Tail(@)]
  <2>1. /\ at = "take" /\ flow[f].pending # <<>> /\ flow' = now
        /\ Appender(a, "append", {Head(flow[f].pending)})
    BY <1>6 DEF TakesItem
  <2>2. Head(flow[f].pending) \in Msgs /\ Tail(flow[f].pending) \in Seq(Msgs)
    BY <1>0, <2>1, TailFacts DEF Flows
  <2>3. now \in [Folders -> Flows] /\ \A g \in Folders : g # f => now[g] = flow[g]
    BY <2>2, TypesNow DEF Flows
  <2>4. {Head(flow[f].pending)} \in SUBSET Msgs
    BY <2>2
  <2>. QED
    BY <1>0, <1>6, <2>1, <2>2, <2>3, <2>4, TypesNow, AppenderPlaces
    DEF TakesItem, Over, AppenderPoints
<1>7. CASE NoMoreItems(a)
  BY <1>0, <1>00, <1>7, TypesNow, AppenderPlaces DEF NoMoreItems, Over, AppenderPoints,
     PlaceInv, Leases
<1>8. CASE Appended(a)
  <2>1. /\ at = "append" /\ Drop(a) /\ UNCHANGED <<main, queue, flow, fetcher>>
        /\ \/ Finish(a, "done")
           \/ Appender(a, "find", item) /\ UNCHANGED <<used, status>>
    BY <1>8 DEF Appended
  <2>2. CASE Finish(a, "done")
    BY <1>0, <1>00, <1>3, <2>1, <2>2, TypesNow, AppenderPlaces DEF Drop, Over, AppenderPoints
  <2>3. CASE Appender(a, "find", item) /\ UNCHANGED <<used, status>>
    BY <1>0, <2>1, <2>3, TypesNow, AppenderPlaces DEF Drop, Over, AppenderPoints
  <2>. QED
    BY <2>1, <2>2, <2>3
<1>9. CASE AppendFails(a)
  <2>1. /\ at = "append" /\ Drop(a) /\ UNCHANGED <<main, queue, fetcher>>
        /\ \/ GiveUp(a)
           \/ Finish(a, "failed") /\ UNCHANGED flow
           \/ Appender(a, "look", item) /\ UNCHANGED <<used, flow, status>>
    BY <1>9 DEF AppendFails
  <2>2. CASE GiveUp(a)
    BY <1>0, <1>00, <1>4, <2>1, <2>2, AppenderPlaces DEF Drop, Over, AppenderPoints
  <2>3. CASE Finish(a, "failed") /\ UNCHANGED flow
    BY <1>0, <1>00, <1>3, <2>1, <2>3, TypesNow, AppenderPlaces DEF Drop, Over, AppenderPoints
  <2>4. CASE Appender(a, "look", item) /\ UNCHANGED <<used, flow, status>>
    BY <1>0, <2>1, <2>4, TypesNow, AppenderPlaces DEF Drop, Over, AppenderPoints
  <2>. QED
    BY <2>1, <2>2, <2>3, <2>4
<1>10. CASE Looked(a)
  <2>1. /\ at \in {"look", "find"} /\ Drop(a) /\ UNCHANGED <<main, queue, flow, fetcher>>
        /\ \/ Finish(a, "done")
           \/ Appender(a, "append", item) /\ UNCHANGED <<used, status>>
    BY <1>10 DEF Looked
  <2>2. CASE Finish(a, "done")
    BY <1>0, <1>00, <1>3, <2>1, <2>2, TypesNow, AppenderPlaces DEF Drop, Over, AppenderPoints
  <2>3. CASE Appender(a, "append", item) /\ UNCHANGED <<used, status>>
    BY <1>0, <2>1, <2>3, TypesNow, AppenderPlaces DEF Drop, Over, AppenderPoints
  <2>. QED
    BY <2>1, <2>2, <2>3
<1>11. CASE LookFails(a)
  <2>1. /\ at \in {"look", "find"} /\ Drop(a) /\ GiveUp(a)
        /\ UNCHANGED <<main, queue, fetcher>>
    BY <1>11 DEF LookFails
  <2>. QED
    BY <1>0, <1>00, <1>4, <2>1, AppenderPlaces DEF Drop, Over, AppenderPoints
<1>. QED
  BY <1>5, <1>6, <1>7, <1>8, <1>9, <1>10, <1>11 DEF AppenderStep

\* Chunks are cut and workers are started once the destination is indexed.
LEMMA IndexedKeepsPlace ==
    ASSUME PlaceInv, NEW f \in Folders, Indexed(f)
    PROVE  PlaceInv'
<1>. DEFINE todo == ToCopy(f, status)
            next == [Idle EXCEPT !.chunks = Chunks(todo), !.sealed = todo = <<>>]
<1>1. PICK R \in SUBSET Readers, W \in SUBSET Writers :
         /\ fetcher' = [w \in Fetchers |->
               IF w[1] # f THEN fetcher[w]
               ELSE IF w[2] \in R THEN [at |-> "draw", batch |-> <<>>] ELSE NoBatch]
         /\ appender' = [a \in Appenders |->
               IF a[1] # f THEN appender[a]
               ELSE IF a[2] \in W THEN [at |-> "take", item |-> {}] ELSE NoItem]
  BY DEF Indexed, kSubset
<1>2. /\ main[f] = "index" /\ flow' = [flow EXCEPT ![f] = next]
      /\ MoveMain(f, "copy") /\ Drop(f) /\ UNCHANGED <<used, queue, status>>
  BY DEF Indexed
<1>3. todo \in Seq(Msgs) /\ IsInjective(todo)
  BY CopyList
<1>4. Chunks(todo) \in Seq(Seq(Msgs))
  BY <1>3, ChunksCut
<1>. HIDE DEF todo
<1>5. next \in Flows
  <2>. DEFINE cut == Chunks(todo)
              none == todo = <<>>
  <2>1. cut \in Seq(Seq(Msgs)) /\ none \in BOOLEAN /\ <<>> \in Seq(Msgs)
    BY <1>4
  <2>2. Idle \in Flows
    <3>1. Idle = [chunks |-> <<>>, pending |-> <<>>, sealed |-> TRUE, broken |-> FALSE]
      BY DEF Idle
    <3>2. <<>> \in Seq(Seq(Msgs)) /\ <<>> \in Seq(Msgs)
      OBVIOUS
    <3>. QED
      BY <3>1, <3>2 DEF Flows
  <2>3. next = [Idle EXCEPT !.chunks = cut, !.sealed = none]
    OBVIOUS
  <2>. HIDE DEF cut, none, next
  <2>. QED
    BY <2>1, <2>2, <2>3 DEF Flows
<1>. HIDE DEF next
<1>6. flow' \in [Folders -> Flows] /\ \A g \in Folders : g # f => flow'[g] = flow[g]
  BY <1>2, <1>5, TypesNow
<1>7. main' \in [Folders -> MainPoints] /\ main' = [main EXCEPT ![f] = "copy"]
  BY <1>2 DEF PlaceInv, TypeOK, MoveMain, MainPoints, Running
<1>8. \A w \in Fetchers :
         /\ fetcher'[w] \in [at : FetcherPoints, batch : Seq(Msgs)]
         /\ w[1] # f => fetcher'[w] = fetcher[w]
         /\ w[1] = f => fetcher'[w].at \in {"draw", "returned"} /\ fetcher'[w].batch = <<>>
  <2>1. [at |-> "draw", batch |-> <<>>] \in [at : FetcherPoints, batch : Seq(Msgs)]
    BY DEF FetcherPoints
  <2>2. NoBatch \in [at : FetcherPoints, batch : Seq(Msgs)]
    BY DEF FetcherPoints, NoBatch, Over
  <2>3. \A w \in Fetchers : fetcher[w] \in [at : FetcherPoints, batch : Seq(Msgs)]
    BY DEF PlaceInv, TypeOK
  <2>. QED
    BY <1>1, <2>1, <2>2, <2>3 DEF NoBatch
<1>9. \A a \in Appenders :
         /\ appender'[a] \in [at : AppenderPoints, item : SUBSET Msgs]
         /\ a[1] # f => appender'[a] = appender[a]
         /\ a[1] = f => appender'[a].at \in {"take", "returned"} /\ appender'[a].item = {}
  <2>1. [at |-> "take", item |-> {}] \in [at : AppenderPoints, item : SUBSET Msgs]
    BY DEF AppenderPoints
  <2>2. NoItem \in [at : AppenderPoints, item : SUBSET Msgs]
    BY DEF AppenderPoints, NoItem, Over
  <2>3. \A a \in Appenders : appender[a] \in [at : AppenderPoints, item : SUBSET Msgs]
    BY DEF PlaceInv, TypeOK
  <2>. QED
    BY <1>1, <2>1, <2>2, <2>3 DEF NoItem
<1>10. Vacant(f)
  BY <1>2 DEF PlaceInv, OnlyCopies
<1>11. /\ \A w \in Fetchers : w[1] = f => fetcher[w].at \in Over
       /\ \A a \in Appenders : a[1] = f => appender[a].at \in Over
  <2>1. \A w \in Fetchers : w[1] = f => w[2] \in Readers /\ w = <<f, w[2]>>
    BY DEF Fetchers
  <2>2. \A a \in Appenders : a[1] = f => a[2] \in Writers /\ a = <<f, a[2]>>
    BY DEF Appenders
  <2>. QED
    BY <1>10, <2>1, <2>2 DEF Vacant
<1>12. TypeOK'
  <2>1. /\ fetcher' \in [Fetchers -> [at : FetcherPoints, batch : Seq(Msgs)]]
        /\ appender' \in [Appenders -> [at : AppenderPoints, item : SUBSET Msgs]]
    BY <1>1, <1>8, <1>9
  <2>2. srcHeld' \subseteq Folders \cup Fetchers /\ dstHeld' \subseteq Folders \cup Appenders
    BY <1>2 DEF Drop, PlaceInv, TypeOK
  <2>. QED
    BY <1>2, <1>6, <1>7, <2>1, <2>2 DEF PlaceInv, TypeOK
<1>13. Hands'
  <2>1. ASSUME NEW w \in Fetchers
        PROVE  /\ fetcher'[w].at \in Over \cup {"draw"} => fetcher'[w].batch = <<>>
               /\ fetcher'[w].at \in {"charge", "body", "send"} => fetcher'[w].batch # <<>>
    BY <1>8 DEF PlaceInv, Hands, Over
  <2>2. ASSUME NEW a \in Appenders
        PROVE  IF appender'[a].at \in {"append", "look", "find"}
               THEN \E m \in Msgs : appender'[a].item = {m} ELSE appender'[a].item = {}
    <3>1. CASE a[1] = f
      BY <1>9, <3>1
    <3>2. CASE a[1] # f
      BY <1>9, <3>2 DEF PlaceInv, Hands
    <3>. QED
      BY <3>1, <3>2
  <2>. QED
    BY <2>1, <2>2 DEF Hands
<1>14. Leases'
  <2>1. /\ srcHeld' = srcHeld \ {f} /\ dstHeld' = dstHeld \ {f}
        /\ \A g \in Folders : g # f => main'[g] = main[g]
    BY <1>2, <1>7 DEF Drop, PlaceInv, TypeOK
  <2>2. \A w \in Fetchers : w \in srcHeld => w[1] # f
    BY <1>11 DEF PlaceInv, Leases
  <2>3. \A a \in Appenders : a \in dstHeld => a[1] # f
    BY <1>11 DEF PlaceInv, Leases, Over
  <2>. QED
    BY <1>8, <1>9, <2>1, <2>2, <2>3 DEF PlaceInv, Leases
<1>15. Queued'
  <2>1. \A w \in ToSet(queue) : w \in Fetchers /\ w[1] # f
    BY <1>11, TypesNow DEF PlaceInv, Queued, Over, ToSet
  <2>. QED
    BY <1>2, <1>8, <2>1 DEF PlaceInv, Queued
<1>16. OnlyCopies'
  <2>. SUFFICES ASSUME NEW g \in Folders, main'[g] # "copy" PROVE Vacant(g)'
    BY DEF OnlyCopies
  <2>1. g # f /\ main[g] # "copy"
    BY <1>7 DEF PlaceInv, TypeOK
  <2>2. \A r \in Readers : fetcher'[<<g, r>>] = fetcher[<<g, r>>]
    BY <1>8, <2>1 DEF Fetchers
  <2>3. \A b \in Writers : appender'[<<g, b>>] = appender[<<g, b>>]
    BY <1>9, <2>1 DEF Appenders
  <2>. QED
    BY <1>6, <2>1, <2>2, <2>3 DEF PlaceInv, OnlyCopies, Vacant
<1>. QED
  BY <1>12, <1>13, <1>14, <1>15, <1>16 DEF PlaceInv

\* Every other step that a folder takes by itself.
LEMMA FolderKeepsPlace ==
    ASSUME IInv, PlaceInv, NEW f \in Folders, FolderStep(f)
    PROVE  PlaceInv'
<1>. DEFINE Still == UNCHANGED <<fetcher, appender, queue>>
<1>0. /\ main[f] # "copy" => Vacant(f)
      /\ f \in srcHeld => main[f] \in {"src", "dst", "resync"}
      /\ f \in dstHeld => main[f] \in {"dst", "index", "flags", "delete", "repeats"}
      /\ main[f] \in MainPoints /\ flow[f] \in Flows
  BY DEF PlaceInv, OnlyCopies, Leases, TypeOK
<1>00. UNCHANGED main => MoveMain(f, main[f])
  <2>1. [main EXCEPT ![f] = main[f]] = main
    BY DEF PlaceInv, TypeOK
  <2>. QED
    BY <2>1 DEF MoveMain
<1>000. UNCHANGED <<flow, fetcher, appender>> /\ main[f] # "copy" => Vacant(f)'
  BY <1>0 DEF Vacant
<1>1. CASE LeaseSource(f)
  <2>1. main[f] \in {"src", "resync"}
    BY <1>1, OfAFolder DEF LeaseSource, WantsSource
  <2>. QED
    BY <1>0, <1>00, <1>000, <1>1, <2>1, TypesNow, FolderPlaces DEF LeaseSource
<1>2. CASE LeaseDest(f)
  <2>1. main[f] \in {"dst", "flags", "delete", "repeats"}
    BY <1>2, OfAFolder DEF LeaseDest, WantsDest
  <2>. QED
    BY <1>0, <1>00, <1>000, <1>2, <2>1, TypesNow, FolderPlaces DEF LeaseDest
<1>3. CASE Reaches(f)
  BY <1>0, <1>000, <1>3, TypesNow, FolderPlaces DEF Reaches, MainPoints
<1>4. CASE Starts(f)
  BY <1>0, <1>000, <1>4, TypesNow, FolderPlaces DEF Starts, MainPoints, Running
<1>5. CASE LeavesOut(f)
  BY <1>0, <1>000, <1>5, TypesNow, FolderPlaces DEF LeavesOut, MainPoints, Ended
<1>6. CASE Unchanged(f)
  BY <1>0, <1>000, <1>6, TypesNow, FolderPlaces DEF Unchanged, Drop, MainPoints, Ended
<1>7. CASE Selects(f)
  BY <1>0, <1>000, <1>7, TypesNow, FolderPlaces DEF Selects, MainPoints, Running
<1>8. CASE Diffs(f)
  <2>1. status' \in [Msgs -> Rows]
    BY <1>8, TypesNow DEF Diffs, Rows
  <2>. QED
    BY <1>0, <1>000, <1>8, <2>1, TypesNow, FolderPlaces DEF Diffs, MainPoints, Running
<1>9. CASE Indexed(f)
  BY <1>9, IndexedKeepsPlace
<1>10. CASE PrepareFails(f)
  BY <1>0, <1>000, <1>10, TypesNow, FolderPlaces DEF PrepareFails, Drop, MainPoints, Ended
<1>11. CASE ProducerQuits(f)
  <2>. DEFINE now == [flow EXCEPT ![f].chunks = <<>>, ![f].broken = TRUE]
  <2>1. /\ now \in [Folders -> Flows] /\ \A g \in Folders : g # f => now[g] = flow[g]
    <3>. DEFINE cut == [flow EXCEPT ![f].chunks = <<>>]
    <3>1. cut \in [Folders -> Flows] /\ \A g \in Folders : g # f => cut[g] = flow[g]
      <4>1. <<>> \in Seq(Seq(Msgs))
        OBVIOUS
      <4>. QED
        BY <4>1, TypesNow DEF Flows
    <3>2. now = [cut EXCEPT ![f].broken = TRUE]
      BY TypesNow
    <3>. HIDE DEF cut, now
    <3>. QED
      BY <3>1, <3>2 DEF Flows
  <2>. QED
    BY <1>0, <1>00, <1>11, <2>1, TypesNow, FolderPlaces DEF ProducerQuits
<1>12. CASE Seals(f)
  <2>. DEFINE now == [flow EXCEPT ![f].sealed = TRUE, ![f].broken = @ \/ FetchersFailed(f)]
              over == flow[f].broken \/ FetchersFailed(f)
  <2>0. over \in BOOLEAN
    OBVIOUS
  <2>1. /\ now \in [Folders -> Flows] /\ \A g \in Folders : g # f => now[g] = flow[g]
    <3>1. now = [flow EXCEPT ![f].sealed = TRUE, ![f].broken = over]
      OBVIOUS
    <3>. HIDE DEF over, now
    <3>. QED
      BY <2>0, <3>1, TypesNow DEF Flows
  <2>. QED
    BY <1>0, <1>00, <1>12, <2>1, TypesNow, FolderPlaces DEF Seals
<1>13. CASE CopyEnds(f)
  <2>. DEFINE now == [flow EXCEPT ![f].pending = <<>>]
              to == IF flow[f].broken THEN "failed" ELSE "resync"
  <2>1. /\ now \in [Folders -> Flows] /\ \A g \in Folders : g # f => now[g] = flow[g]
        /\ now[f].pending = <<>> /\ now[f].chunks = flow[f].chunks
    <3>1. <<>> \in Seq(Msgs)
      OBVIOUS
    <3>. QED
      BY <3>1, TypesNow DEF Flows
  <2>2. /\ main[f] = "copy" /\ CopyOver(f) /\ flow' = now /\ MoveMain(f, to)
        /\ used' = used - Cost(ToSet(flow[f].pending))
        /\ UNCHANGED <<srcHeld, dstHeld, queue, fetcher, appender, status>>
    BY <1>13 DEF CopyEnds, Refund, Leftovers, Cost
  <2>3. used' \in Int
    <3>1. ToSet(flow[f].pending) \in SUBSET Msgs
      BY <1>0 DEF Flows, ToSet
    <3>. QED
      BY <2>2, <3>1, CostIs, TypesNow
  <2>4. \A r \in Readers : fetcher[<<f, r>>].at \in Over
    BY <2>2 DEF CopyOver, IInv, ClosedMeansReturned
  <2>5. Vacant(f)'
    BY <2>1, <2>2, <2>4 DEF CopyOver, Vacant
  <2>6. to \in MainPoints /\ to \in {"failed", "resync"}
    BY DEF MainPoints, Ended, Running
  <2>. HIDE DEF to, now
  <2>. QED
    BY <1>0, <2>1, <2>2, <2>3, <2>5, <2>6, TypesNow, FolderPlaces
<1>14. CASE Visits(f)
  <2>1. NextVisit(f) \in MainPoints /\ NextVisit(f) # "copy" /\ main[f] # "copy"
    BY <1>14 DEF Visits, NextVisit, MainPoints, Ended, Running
  <2>. QED
    BY <1>0, <1>000, <1>14, <2>1, TypesNow, FolderPlaces DEF Visits, Released
<1>15. CASE VisitFails(f)
  BY <1>0, <1>000, <1>15, TypesNow, FolderPlaces DEF VisitFails, Drop, MainPoints, Ended
<1>. QED
  BY <1>1, <1>2, <1>3, <1>4, <1>5, <1>6, <1>7, <1>8, <1>9, <1>10, <1>11, <1>12, <1>13,
     <1>14, <1>15 DEF FolderStep

LEMMA PlaceStarts ==
    ASSUME Init
    PROVE  PlaceInv
<1>1. IsFiniteSet(Msgs) /\ <<>> \in Seq(Msgs) /\ <<>> \in Seq(Seq(Msgs)) /\ <<>> \in Seq(Fetchers)
  BY MsgsFinite
<1>2. Idle \in Flows
  BY <1>1 DEF Idle, Flows
<1>3. /\ NoBatch \in [at : FetcherPoints, batch : Seq(Msgs)]
      /\ NoItem \in [at : AppenderPoints, item : SUBSET Msgs]
  BY <1>1 DEF NoBatch, NoItem, FetcherPoints, AppenderPoints, Over
<1>4. TypeOK
  BY <1>1, <1>2, <1>3 DEF Init, TypeOK, MainPoints, Rows
<1>5. Hands /\ Leases
  BY DEF Init, Hands, Leases, NoBatch, NoItem, Over
<1>6. Queued
  BY DEF Init, Queued, IsInjective, ToSet
<1>7. OnlyCopies
  <2>1. \A f \in Folders : /\ \A r \in Readers : <<f, r>> \in Fetchers
                           /\ \A a \in Writers : <<f, a>> \in Appenders
    BY DEF Fetchers, Appenders
  <2>. QED
    BY <2>1 DEF Init, OnlyCopies, Vacant, Idle, NoBatch, NoItem, Over
<1>. QED
  BY <1>4, <1>5, <1>6, <1>7 DEF PlaceInv

LEMMA RestKeepsPlace ==
    ASSUME PlaceInv, SecondPass \/ Interrupt \/ UNCHANGED vars
    PROVE  PlaceInv'
<1>1. ASSUME UNCHANGED <<main, srcHeld, dstHeld, used, queue, flow, fetcher, appender, status>>
      PROVE  PlaceInv'
  BY <1>1 DEF PlaceInv, TypeOK, Hands, Leases, Queued, OnlyCopies, Vacant
<1>2. CASE SecondPass
  <2>1. /\ main' \in [Folders -> MainPoints]
        /\ \A f \in Folders : main[f] \in Ended /\ main'[f] # "copy"
    BY <1>2 DEF SecondPass, PlaceInv, TypeOK, MainPoints, Ended
  <2>2. UNCHANGED <<srcHeld, dstHeld, used, queue, flow, fetcher, appender, status>>
    BY <1>2 DEF SecondPass
  <2>3. TypeOK'
    BY <2>1, <2>2 DEF PlaceInv, TypeOK
  <2>4. Hands' /\ Queued'
    BY <2>2 DEF PlaceInv, Hands, Queued
  <2>5. Leases'
    BY <2>1, <2>2 DEF PlaceInv, Leases, Ended
  <2>6. OnlyCopies'
    BY <2>1, <2>2 DEF PlaceInv, OnlyCopies, Vacant, Ended
  <2>. QED
    BY <2>3, <2>4, <2>5, <2>6 DEF PlaceInv
<1>. QED
  BY <1>1, <1>2 DEF Interrupt, vars

\* Everybody is where the code says they are, with what they need in hand: the
\* leases, the places in the queue and the workers of a folder belong to the steps
\* of fetchChunk, deliver and syncFolder that take them (syncer.go:1546-1914).
THEOREM PlaceInvariant == Spec => []PlaceInv
<1>1. Init => PlaceInv
  BY PlaceStarts
<1>2. IInv /\ PlaceInv /\ [Next]_vars => PlaceInv'
  BY FolderKeepsPlace, FetcherKeepsPlace, AppenderKeepsPlace, RestKeepsPlace
  DEF Next, Work
<1>. QED
  BY <1>1, <1>2, ChannelInvariant, PTL DEF Spec

\* A folder that has ended, well or not, has no goroutine, no lease, no place in the
\* queue and no message left, whatever failed and wherever the run was interrupted
\* (syncer.go:1905-1914).
THEOREM FolderLeavesNothing == Spec => []NothingLeftBehind
<1>1. ASSUME PlaceInv PROVE NothingLeftBehind
  <2>. SUFFICES ASSUME NEW f \in Folders, main[f] \in Ended
                PROVE  /\ \A r \in Readers : fetcher[<<f, r>>].at \in Over
                       /\ \A a \in Writers : appender[<<f, a>>].at \in Over
                       /\ (srcHeld \cup dstHeld) \cap ({f} \cup {f} \X (Readers \cup Writers)) = {}
                       /\ \A i \in DOMAIN queue : queue[i][1] # f
                       /\ flow[f].pending = <<>>
    BY DEF NothingLeftBehind
  <2>1. Vacant(f)
    BY <1>1 DEF PlaceInv, OnlyCopies, Ended
  <2>2. f \notin srcHeld \cup dstHeld
    BY <1>1 DEF PlaceInv, Leases, Ended
  <2>3. ASSUME NEW x \in {f} \X (Readers \cup Writers) PROVE x \notin srcHeld \cup dstHeld
    <3>1. x[1] = f /\ x[2] \in Readers \cup Writers /\ x = <<f, x[2]>> /\ x \notin Folders
      BY PipelineAssumption DEF PipelineAssumption
    <3>2. x \in Fetchers => x \notin srcHeld
      BY <1>1, <2>1, <3>1 DEF PlaceInv, Leases, Vacant, Fetchers
    <3>3. x \in Appenders => x \notin dstHeld
      BY <1>1, <2>1, <3>1 DEF PlaceInv, Leases, Vacant, Appenders, Over
    <3>. QED
      BY <1>1, <3>1, <3>2, <3>3 DEF PlaceInv, TypeOK
  <2>4. ASSUME NEW i \in DOMAIN queue PROVE queue[i][1] # f
    <3>1. queue[i] \in Fetchers /\ fetcher[queue[i]].at = "charge"
      BY <1>1 DEF PlaceInv, TypeOK, Queued, ToSet
    <3>2. queue[i][2] \in Readers /\ queue[i] = <<queue[i][1], queue[i][2]>>
      BY <3>1 DEF Fetchers
    <3>. QED
      BY <2>1, <3>1, <3>2 DEF Vacant, Over
  <2>5. (srcHeld \cup dstHeld) \cap ({f} \cup {f} \X (Readers \cup Writers)) = {}
    BY <2>2, <2>3
  <2>. QED
    BY <2>1, <2>4, <2>5 DEF Vacant
<1>. QED
  BY <1>1, PlaceInvariant, PTL

-----------------------------------------------------------------------------
(* A message is in one place *)

\* What is still to be handed out, in a fetcher's hands, on the way, in an
\* appender's hands.
Cut(cs) ==
    \A i \in DOMAIN cs :
        /\ IsInjective(cs[i])
        /\ \A j \in DOMAIN cs : i # j => ToSet(cs[i]) \cap ToSet(cs[j]) = {}
Spread(cs) == UNION {ToSet(cs[i]) : i \in DOMAIN cs}

Unread(f)  == Spread(flow[f].chunks)
Batch(w)   == ToSet(fetcher[w].batch)
Waiting(f) == ToSet(flow[f].pending)
Item(a)    == appender[a].item

\* Each sequence holds messages of its folder, and none twice.
Ordered ==
    /\ \A f \in Folders :
          /\ Cut(flow[f].chunks) /\ IsInjective(flow[f].pending)
          /\ Unread(f) \cup Waiting(f) \subseteq ToSet(Todo[f])
    /\ \A w \in Fetchers :
          IsInjective(fetcher[w].batch) /\ Batch(w) \subseteq ToSet(Todo[w[1]])
    /\ \A a \in Appenders : Item(a) \subseteq ToSet(Todo[a[1]])

\* No two places hold the same message.
Apart ==
    /\ \A w \in Fetchers :
          /\ Batch(w) \cap (Unread(w[1]) \cup Waiting(w[1])) = {}
          /\ \A v \in Fetchers : v # w => Batch(w) \cap Batch(v) = {}
          /\ \A a \in Appenders : Batch(w) \cap Item(a) = {}
    /\ \A f \in Folders : Unread(f) \cap Waiting(f) = {}
    /\ \A a \in Appenders :
          /\ Item(a) \cap (Unread(a[1]) \cup Waiting(a[1])) = {}
          /\ \A b \in Appenders : a # b => Item(a) \cap Item(b) = {}

\* Nothing that is done is going to be fetched.
Fresh ==
    /\ \A f \in Folders : \A m \in Unread(f) : status[m] # "done"
    /\ \A w \in Fetchers : \A m \in Batch(w) : status[m] # "done"

FlowInv == Ordered /\ Apart /\ Fresh

LEMMA TailCut ==
    ASSUME NEW M, NEW cs \in Seq(Seq(M)), cs # <<>>, Cut(cs)
    PROVE  /\ Cut(Tail(cs)) /\ IsInjective(Head(cs)) /\ Head(cs) \in Seq(M)
           /\ ToSet(Head(cs)) \subseteq Spread(cs)
           /\ Spread(Tail(cs)) = Spread(cs) \ ToSet(Head(cs))
<1>1. /\ Head(cs) = cs[1] /\ 1 \in DOMAIN cs /\ Head(cs) \in Seq(M)
      /\ \A i \in DOMAIN Tail(cs) : Tail(cs)[i] = cs[i + 1] /\ i + 1 \in DOMAIN cs /\ i + 1 # 1
      /\ \A i \in DOMAIN cs : i = 1 \/ (i - 1 \in DOMAIN Tail(cs) /\ Tail(cs)[i - 1] = cs[i])
  OBVIOUS
<1>2. Cut(Tail(cs))
  <2>1. \A i, j \in DOMAIN Tail(cs) : i # j => i + 1 # j + 1
    OBVIOUS
  <2>. QED
    BY <1>1, <2>1 DEF Cut
<1>3. ToSet(Head(cs)) \subseteq Spread(cs) /\ IsInjective(Head(cs))
  BY <1>1 DEF Spread, Cut
<1>4. Spread(Tail(cs)) \subseteq Spread(cs) \ ToSet(Head(cs))
  <2>. SUFFICES ASSUME NEW i \in DOMAIN Tail(cs)
                PROVE  ToSet(Tail(cs)[i]) \subseteq Spread(cs) \ ToSet(Head(cs))
    BY DEF Spread
  <2>. QED
    BY <1>1 DEF Spread, Cut
<1>5. Spread(cs) \ ToSet(Head(cs)) \subseteq Spread(Tail(cs))
  <2>. SUFFICES ASSUME NEW i \in DOMAIN cs, NEW m \in ToSet(cs[i]), m \notin ToSet(Head(cs))
                PROVE  m \in Spread(Tail(cs))
    BY DEF Spread
  <2>. QED
    BY <1>1 DEF Spread
<1>. QED
  BY <1>1, <1>2, <1>3, <1>4, <1>5

LEMMA NothingCut == Cut(<<>>) /\ Spread(<<>>) = {} /\ IsInjective(<<>>) /\ ToSet(<<>>) = {}
  BY DEF Cut, Spread, IsInjective, ToSet

\* A message belongs to one folder.
LEMMA Home ==
    /\ \A f, g \in Folders : f # g => ToSet(Todo[f]) \cap ToSet(Todo[g]) = {}
    /\ \A w \in Fetchers \cup Appenders : w[1] \in Folders
    /\ \A f \in Folders : ToSet(Todo[f]) \subseteq Msgs
BY PipelineAssumption DEF PipelineAssumption, Fetchers, Appenders, Msgs

\* A step after which every place holds the same or less.
LEMMA FlowShrinks ==
    ASSUME FlowInv,
           \A f \in Folders :
               /\ Cut(flow'[f].chunks) /\ IsInjective(flow'[f].pending)
               /\ Unread(f)' \subseteq Unread(f) /\ Waiting(f)' \subseteq Waiting(f),
           \A w \in Fetchers : IsInjective(fetcher'[w].batch) /\ Batch(w)' \subseteq Batch(w),
           \A a \in Appenders : Item(a)' \subseteq Item(a),
           \A m \in Msgs : status'[m] = "done" =>
               \/ status[m] = "done"
               \/ /\ \A f \in Folders : m \notin Unread(f)'
                  /\ \A w \in Fetchers : m \notin Batch(w)'
    PROVE  FlowInv'
<1>1. Ordered'
  <2>1. ASSUME NEW f \in Folders
        PROVE  /\ Cut(flow'[f].chunks) /\ IsInjective(flow'[f].pending)
               /\ Unread(f)' \cup Waiting(f)' \subseteq ToSet(Todo[f])
    BY DEF FlowInv, Ordered
  <2>2. ASSUME NEW w \in Fetchers
        PROVE  IsInjective(fetcher'[w].batch) /\ Batch(w)' \subseteq ToSet(Todo[w[1]])
    BY DEF FlowInv, Ordered
  <2>3. ASSUME NEW a \in Appenders PROVE Item(a)' \subseteq ToSet(Todo[a[1]])
    BY DEF FlowInv, Ordered
  <2>. QED
    BY <2>1, <2>2, <2>3 DEF Ordered
<1>2. Apart'
  <2>1. ASSUME NEW w \in Fetchers
        PROVE  /\ Batch(w)' \cap (Unread(w[1])' \cup Waiting(w[1])') = {}
               /\ \A v \in Fetchers : v # w => Batch(w)' \cap Batch(v)' = {}
               /\ \A a \in Appenders : Batch(w)' \cap Item(a)' = {}
    <3>1. w[1] \in Folders
      BY Home
    <3>2. Batch(w)' \cap (Unread(w[1])' \cup Waiting(w[1])') = {}
      BY <3>1 DEF FlowInv, Apart
    <3>3. ASSUME NEW v \in Fetchers, v # w PROVE Batch(w)' \cap Batch(v)' = {}
      BY <3>3 DEF FlowInv, Apart
    <3>4. ASSUME NEW a \in Appenders PROVE Batch(w)' \cap Item(a)' = {}
      BY DEF FlowInv, Apart
    <3>. QED
      BY <3>2, <3>3, <3>4
  <2>2. ASSUME NEW f \in Folders PROVE Unread(f)' \cap Waiting(f)' = {}
    BY DEF FlowInv, Apart
  <2>3. ASSUME NEW a \in Appenders
        PROVE  /\ Item(a)' \cap (Unread(a[1])' \cup Waiting(a[1])') = {}
               /\ \A b \in Appenders : a # b => Item(a)' \cap Item(b)' = {}
    <3>1. a[1] \in Folders
      BY Home
    <3>2. Item(a)' \cap (Unread(a[1])' \cup Waiting(a[1])') = {}
      BY <3>1 DEF FlowInv, Apart
    <3>3. ASSUME NEW b \in Appenders, a # b PROVE Item(a)' \cap Item(b)' = {}
      BY <3>3 DEF FlowInv, Apart
    <3>. QED
      BY <3>2, <3>3
  <2>. QED
    BY <2>1, <2>2, <2>3 DEF Apart
<1>3. Fresh'
  <2>1. ASSUME NEW f \in Folders, NEW m \in Unread(f)' PROVE status'[m] # "done"
    <3>1. m \in Unread(f) /\ m \in Msgs
      BY Home DEF FlowInv, Ordered
    <3>. QED
      BY <3>1 DEF FlowInv, Fresh
  <2>2. ASSUME NEW w \in Fetchers, NEW m \in Batch(w)' PROVE status'[m] # "done"
    <3>1. m \in Batch(w) /\ m \in Msgs
      BY Home DEF FlowInv, Ordered
    <3>. QED
      BY <3>1 DEF FlowInv, Fresh
  <2>. QED
    BY <2>1, <2>2 DEF Fresh
<1>. QED
  BY <1>1, <1>2, <1>3 DEF FlowInv

\* A fetcher keeps its batch, drops the first of it or all of it, and settles no
\* message but the one it drops.
LEMMA FetcherShrinks ==
    ASSUME PlaceInv, FlowInv, NEW w \in Fetchers, NEW to, NEW left, Fetcher(w, to, left),
           UNCHANGED <<flow, appender>>,
           \/ left \in {fetcher[w].batch, <<>>}
           \/ left = Tail(fetcher[w].batch) /\ fetcher[w].batch # <<>>,
           \/ UNCHANGED status
           \/ /\ fetcher[w].batch # <<>>
              /\ \E s : /\ Mark(Head(fetcher[w].batch), s)
                        /\ s = "done" => left = Tail(fetcher[w].batch)
    PROVE  FlowInv'
<1>. DEFINE batch == fetcher[w].batch
<1>1. /\ fetcher'[w].batch = left /\ batch \in Seq(Msgs) /\ IsInjective(batch)
      /\ \A v \in Fetchers : v # w => fetcher'[v].batch = fetcher[v].batch
  <2>1. fetcher' = [fetcher EXCEPT ![w] = [at |-> to, batch |-> left]] /\ DOMAIN fetcher = Fetchers
    BY TypesNow DEF Fetcher
  <2>2. fetcher'[w] = [at |-> to, batch |-> left]
    BY <2>1
  <2>3. fetcher'[w].batch = left
    BY <2>2
  <2>4. \A v \in Fetchers : v # w => fetcher'[v].batch = fetcher[v].batch
    BY <2>1
  <2>. QED
    BY <2>3, <2>4, FetcherFacts DEF FlowInv, Ordered
<1>2. \/ left = fetcher[w].batch \/ left = <<>>
      \/ left = Tail(fetcher[w].batch) /\ fetcher[w].batch # <<>>
  OBVIOUS
<1>3. /\ IsInjective(left) /\ ToSet(left) \subseteq ToSet(batch)
      /\ left = Tail(batch) /\ batch # <<>> => ToSet(left) = ToSet(batch) \ {Head(batch)}
  BY <1>1, <1>2, TailSet, NothingCut
<1>4. \A v \in Fetchers : IsInjective(fetcher'[v].batch) /\ Batch(v)' \subseteq Batch(v)
  BY <1>1, <1>3 DEF Batch, FlowInv, Ordered
<1>5. \A f \in Folders :
         /\ Cut(flow'[f].chunks) /\ IsInjective(flow'[f].pending)
         /\ Unread(f)' = Unread(f) /\ Waiting(f)' = Waiting(f)
  BY DEF FlowInv, Ordered, Unread, Waiting
<1>6. \A a \in Appenders : Item(a)' = Item(a)
  BY DEF Item
<1>7. ASSUME NEW m \in Msgs, status'[m] = "done", status[m] # "done"
      PROVE  /\ \A f \in Folders : m \notin Unread(f)'
             /\ \A v \in Fetchers : m \notin Batch(v)'
  <2>1. batch # <<>>
    BY <1>7
  <2>2. PICK s : Mark(Head(batch), s) /\ (s = "done" => left = Tail(batch))
    BY <1>7
  <2>3. m = Head(batch) /\ s = "done"
    BY <1>7, <2>2 DEF Mark, PlaceInv, TypeOK
  <2>4. m \in Batch(w) /\ m \notin Batch(w)'
    BY <1>1, <1>3, <2>1, <2>2, <2>3, TailSet DEF Batch
  <2>5. ASSUME NEW f \in Folders PROVE m \notin Unread(f)'
    <3>1. m \notin Unread(f)
      BY <2>4, Home DEF FlowInv, Ordered, Apart
    <3>. QED
      BY <1>5, <3>1
  <2>6. ASSUME NEW v \in Fetchers PROVE m \notin Batch(v)'
    BY <1>4, <2>4 DEF FlowInv, Apart
  <2>. QED
    BY <2>5, <2>6
<1>. QED
  BY <1>4, <1>5, <1>6, <1>7, FlowShrinks

\* An appender keeps its message or lets go of it, and settles no other.
LEMMA AppenderShrinks ==
    ASSUME PlaceInv, FlowInv, NEW a \in Appenders, NEW to, NEW item, Appender(a, to, item),
           UNCHANGED fetcher, item \in {appender[a].item, {}},
           \A f \in Folders : flow'[f].chunks = flow[f].chunks /\ flow'[f].pending = flow[f].pending,
           \/ UNCHANGED status
           \/ \E m \in appender[a].item : \E s : Mark(m, s)
    PROVE  FlowInv'
<1>1. /\ appender'[a].item = item
      /\ \A b \in Appenders : b # a => appender'[b].item = appender[b].item
  <2>1. appender' = [appender EXCEPT ![a] = [at |-> to, item |-> item]] /\ DOMAIN appender = Appenders
    BY TypesNow DEF Appender
  <2>2. appender'[a] = [at |-> to, item |-> item]
    BY <2>1
  <2>. QED
    BY <2>1, <2>2
<1>2. \A b \in Appenders : Item(b)' \subseteq Item(b)
  BY <1>1 DEF Item
<1>3. \A w \in Fetchers : IsInjective(fetcher'[w].batch) /\ Batch(w)' = Batch(w)
  BY DEF Batch, FlowInv, Ordered
<1>4. \A f \in Folders :
         /\ Cut(flow'[f].chunks) /\ IsInjective(flow'[f].pending)
         /\ Unread(f)' = Unread(f) /\ Waiting(f)' = Waiting(f)
  BY DEF FlowInv, Ordered, Unread, Waiting
<1>5. ASSUME NEW m \in Msgs, status'[m] = "done", status[m] # "done"
      PROVE  /\ \A f \in Folders : m \notin Unread(f)'
             /\ \A v \in Fetchers : m \notin Batch(v)'
  <2>1. m \in Item(a)
    BY <1>5 DEF Mark, PlaceInv, TypeOK, Item
  <2>2. ASSUME NEW f \in Folders PROVE m \notin Unread(f)
    BY <2>1, Home DEF FlowInv, Ordered, Apart
  <2>3. ASSUME NEW v \in Fetchers PROVE m \notin Batch(v)
    BY <2>1 DEF FlowInv, Apart
  <2>. QED
    BY <1>3, <1>4, <2>2, <2>3
<1>. QED
  BY <1>2, <1>3, <1>4, <1>5, FlowShrinks

\* The chunk that a fetcher is given leaves the producer.
LEMMA GetsChunkKeepsFlow ==
    ASSUME PlaceInv, FlowInv, NEW w \in Fetchers, GetsChunk(w)
    PROVE  FlowInv'
<1>. DEFINE f == w[1]
            cs == flow[f].chunks
            c == Head(cs)
<1>0. f \in Folders /\ cs \in Seq(Seq(Msgs)) /\ cs # <<>> /\ Cut(cs)
  BY FetcherFacts DEF GetsChunk, Flows, FlowInv, Ordered
<1>1. /\ Cut(Tail(cs)) /\ IsInjective(c)
      /\ ToSet(c) \subseteq Unread(f) /\ Spread(Tail(cs)) = Unread(f) \ ToSet(c)
  BY <1>0, TailCut DEF Unread
<1>2. /\ fetcher'[w].batch = c
      /\ \A v \in Fetchers : v # w => fetcher'[v].batch = fetcher[v].batch
  <2>1. /\ fetcher' = [fetcher EXCEPT ![w] = [at |-> "meta", batch |-> c]]
        /\ DOMAIN fetcher = Fetchers
    BY TypesNow DEF GetsChunk, Fetcher
  <2>2. fetcher'[w] = [at |-> "meta", batch |-> c]
    BY <2>1
  <2>. QED
    BY <2>1, <2>2
<1>3. /\ \A g \in Folders : flow'[g].pending = flow[g].pending
      /\ \A g \in Folders : g # f => flow'[g].chunks = flow[g].chunks
      /\ flow'[f].chunks = Tail(cs)
  <2>1. flow' = [flow EXCEPT ![f].chunks = Tail(@)]
    BY DEF GetsChunk
  <2>2. flow[f] \in Flows /\ DOMAIN flow = Folders
    BY <1>0, TypesNow
  <2>. QED
    BY <1>0, <2>1, <2>2 DEF Flows
<1>4. UNCHANGED <<appender, status>>
  BY DEF GetsChunk
<1>. HIDE DEF c, cs
<1>5. /\ \A g \in Folders : /\ Waiting(g)' = Waiting(g) /\ Unread(g)' \subseteq Unread(g)
                            /\ g # f => Unread(g)' = Unread(g)
      /\ Unread(f)' = Unread(f) \ ToSet(c) /\ ToSet(c) \subseteq Unread(f)
      /\ Batch(w)' = ToSet(c)
      /\ \A v \in Fetchers : v # w => Batch(v)' = Batch(v)
      /\ \A a \in Appenders : Item(a)' = Item(a)
  BY <1>0, <1>1, <1>2, <1>3, <1>4 DEF Waiting, Unread, Batch, Item
<1>6. Ordered'
  <2>1. \A g \in Folders : /\ Cut(flow'[g].chunks) /\ IsInjective(flow'[g].pending)
                           /\ Unread(g)' \cup Waiting(g)' \subseteq ToSet(Todo[g])
    BY <1>1, <1>3, <1>5 DEF FlowInv, Ordered
  <2>2. \A v \in Fetchers : IsInjective(fetcher'[v].batch) /\ Batch(v)' \subseteq ToSet(Todo[v[1]])
    BY <1>0, <1>1, <1>2, <1>5 DEF FlowInv, Ordered
  <2>. QED
    BY <1>5, <2>1, <2>2 DEF FlowInv, Ordered
\* The chunk meets nobody else's messages.
<1>7. /\ \A v \in Fetchers : v # w => ToSet(c) \cap Batch(v) = {}
      /\ \A a \in Appenders : ToSet(c) \cap Item(a) = {}
      /\ ToSet(c) \cap Waiting(f) = {}
  <2>1. ASSUME NEW v \in Fetchers PROVE Unread(f) \cap Batch(v) = {}
    BY <1>0, Home DEF FlowInv, Ordered, Apart
  <2>2. ASSUME NEW a \in Appenders PROVE Unread(f) \cap Item(a) = {}
    BY <1>0, Home DEF FlowInv, Ordered, Apart
  <2>. QED
    BY <1>0, <1>5, <2>1, <2>2 DEF FlowInv, Apart
<1>8. Apart'
  <2>1. ASSUME NEW v \in Fetchers
        PROVE  /\ Batch(v)' \cap (Unread(v[1])' \cup Waiting(v[1])') = {}
               /\ \A u \in Fetchers : u # v => Batch(v)' \cap Batch(u)' = {}
               /\ \A a \in Appenders : Batch(v)' \cap Item(a)' = {}
    <3>1. CASE v = w
      BY <1>0, <1>5, <1>7, <3>1
    <3>2. CASE v # w
      <4>1. v[1] \in Folders
        BY Home
      <4>2. Batch(v) \cap (Unread(v[1]) \cup Waiting(v[1])) = {}
        BY DEF FlowInv, Apart
      <4>3. \A u \in Fetchers : u # v => Batch(v)' \cap Batch(u)' = {}
        BY <1>5, <1>7, <3>2 DEF FlowInv, Apart
      <4>4. \A a \in Appenders : Batch(v)' \cap Item(a)' = {}
        BY <1>5, <3>2 DEF FlowInv, Apart
      <4>. QED
        BY <1>5, <3>2, <4>1, <4>2, <4>3, <4>4
    <3>. QED
      BY <3>1, <3>2
  <2>2. \A g \in Folders : Unread(g)' \cap Waiting(g)' = {}
    BY <1>5 DEF FlowInv, Apart
  <2>3. \A a \in Appenders :
           /\ Item(a)' \cap (Unread(a[1])' \cup Waiting(a[1])') = {}
           /\ \A b \in Appenders : a # b => Item(a)' \cap Item(b)' = {}
    <3>1. \A a \in Appenders : a[1] \in Folders
      BY Home
    <3>2. \A a \in Appenders : Item(a)' \cap (Unread(a[1])' \cup Waiting(a[1])') = {}
      BY <1>5, <3>1 DEF FlowInv, Apart
    <3>. QED
      BY <1>5, <3>2 DEF FlowInv, Apart
  <2>. QED
    BY <2>1, <2>2, <2>3 DEF Apart
<1>9. Fresh'
  <2>1. \A g \in Folders : \A m \in Unread(g)' : status'[m] # "done"
    BY <1>4, <1>5 DEF FlowInv, Fresh
  <2>2. \A v \in Fetchers : \A m \in Batch(v)' : status'[m] # "done"
    BY <1>0, <1>4, <1>5 DEF FlowInv, Fresh
  <2>. QED
    BY <2>1, <2>2 DEF Fresh
<1>. QED
  BY <1>6, <1>8, <1>9 DEF FlowInv

\* The message that a fetcher sends leaves its hands.
LEMMA SendsKeepsFlow ==
    ASSUME PlaceInv, FlowInv, NEW w \in Fetchers, Sends(w)
    PROVE  FlowInv'
<1>. DEFINE f == w[1]
            batch == fetcher[w].batch
            m == Head(batch)
            pending == flow[f].pending
<1>0. /\ f \in Folders /\ batch \in Seq(Msgs) /\ batch # <<>> /\ IsInjective(batch)
      /\ pending \in Seq(Msgs) /\ IsInjective(pending)
  BY FetcherFacts DEF Sends, Flows, FlowInv, Ordered, PlaceInv, Hands
<1>1. /\ IsInjective(Tail(batch)) /\ m \in Msgs
      /\ m \in Batch(w) /\ ToSet(Tail(batch)) = Batch(w) \ {m}
  BY <1>0, TailFacts, TailSet DEF Batch
<1>2. m \notin Waiting(f) /\ m \notin Unread(f)
  BY <1>1 DEF FlowInv, Apart
<1>3. IsInjective(Append(pending, m)) /\ ToSet(Append(pending, m)) = Waiting(f) \cup {m}
  BY <1>0, <1>1, <1>2, AppendSet DEF Waiting
<1>4. /\ fetcher'[w].batch = Tail(batch)
      /\ \A v \in Fetchers : v # w => fetcher'[v].batch = fetcher[v].batch
  <2>1. /\ fetcher' = [fetcher EXCEPT ![w] = [at |-> "run", batch |-> Tail(batch)]]
        /\ DOMAIN fetcher = Fetchers
    BY TypesNow DEF Sends, Fetcher
  <2>2. fetcher'[w] = [at |-> "run", batch |-> Tail(batch)]
    BY <2>1
  <2>. QED
    BY <2>1, <2>2
<1>5. /\ \A g \in Folders : flow'[g].chunks = flow[g].chunks
      /\ \A g \in Folders : g # f => flow'[g].pending = flow[g].pending
      /\ flow'[f].pending = Append(pending, m)
  <2>1. flow' = [flow EXCEPT ![f].pending = Append(@, m)]
    BY DEF Sends
  <2>2. flow[f] \in Flows /\ DOMAIN flow = Folders
    BY <1>0, TypesNow
  <2>. QED
    BY <1>0, <2>1, <2>2 DEF Flows
<1>6. UNCHANGED <<appender, status>>
  BY DEF Sends
<1>. HIDE DEF m, batch, pending
<1>7. /\ \A g \in Folders : Unread(g)' = Unread(g) /\ (g # f => Waiting(g)' = Waiting(g))
      /\ Waiting(f)' = Waiting(f) \cup {m}
      /\ Batch(w)' = Batch(w) \ {m}
      /\ \A v \in Fetchers : v # w => Batch(v)' = Batch(v)
      /\ \A a \in Appenders : Item(a)' = Item(a)
  BY <1>1, <1>3, <1>4, <1>5, <1>6 DEF Waiting, Unread, Batch, Item
<1>8. Ordered'
  <2>1. \A g \in Folders : /\ Cut(flow'[g].chunks) /\ IsInjective(flow'[g].pending)
                           /\ Unread(g)' \cup Waiting(g)' \subseteq ToSet(Todo[g])
    BY <1>1, <1>3, <1>5, <1>7 DEF FlowInv, Ordered
  <2>2. \A v \in Fetchers : IsInjective(fetcher'[v].batch) /\ Batch(v)' \subseteq ToSet(Todo[v[1]])
    BY <1>1, <1>4, <1>7 DEF FlowInv, Ordered
  <2>. QED
    BY <1>7, <2>1, <2>2 DEF FlowInv, Ordered
<1>9. /\ \A v \in Fetchers : v # w => m \notin Batch(v)
      /\ \A a \in Appenders : m \notin Item(a)
  BY <1>1 DEF FlowInv, Apart
<1>10. Apart'
  <2>1. ASSUME NEW v \in Fetchers
        PROVE  /\ Batch(v)' \cap (Unread(v[1])' \cup Waiting(v[1])') = {}
               /\ \A u \in Fetchers : u # v => Batch(v)' \cap Batch(u)' = {}
               /\ \A a \in Appenders : Batch(v)' \cap Item(a)' = {}
    <3>1. v[1] \in Folders
      BY Home
    <3>2. Batch(v)' \cap (Unread(v[1])' \cup Waiting(v[1])') = {}
      BY <1>7, <1>9, <3>1 DEF FlowInv, Apart
    <3>3. \A u \in Fetchers : u # v => Batch(v)' \cap Batch(u)' = {}
      BY <1>7 DEF FlowInv, Apart
    <3>4. \A a \in Appenders : Batch(v)' \cap Item(a)' = {}
      BY <1>7 DEF FlowInv, Apart
    <3>. QED
      BY <3>2, <3>3, <3>4
  <2>2. \A g \in Folders : Unread(g)' \cap Waiting(g)' = {}
    BY <1>2, <1>7 DEF FlowInv, Apart
  <2>3. \A a \in Appenders :
           /\ Item(a)' \cap (Unread(a[1])' \cup Waiting(a[1])') = {}
           /\ \A b \in Appenders : a # b => Item(a)' \cap Item(b)' = {}
    <3>1. \A a \in Appenders : a[1] \in Folders
      BY Home
    <3>2. \A a \in Appenders : Item(a)' \cap (Unread(a[1])' \cup Waiting(a[1])') = {}
      BY <1>7, <1>9, <3>1 DEF FlowInv, Apart
    <3>. QED
      BY <1>7, <3>2 DEF FlowInv, Apart
  <2>. QED
    BY <2>1, <2>2, <2>3 DEF Apart
<1>11. Fresh'
  BY <1>6, <1>7 DEF FlowInv, Fresh
<1>. QED
  BY <1>8, <1>10, <1>11 DEF FlowInv

\* The message that an appender takes leaves the channel.
LEMMA TakesItemKeepsFlow ==
    ASSUME PlaceInv, FlowInv, NEW a \in Appenders, TakesItem(a)
    PROVE  FlowInv'
<1>. DEFINE f == a[1]
            pending == flow[f].pending
            m == Head(pending)
<1>0. f \in Folders /\ flow[f] \in Flows
  BY Home, TypesNow
<1>1. pending \in Seq(Msgs) /\ IsInjective(pending) /\ pending # <<>>
  BY <1>0 DEF TakesItem, Flows, FlowInv, Ordered
<1>2. /\ IsInjective(Tail(pending)) /\ m \in Waiting(f)
      /\ ToSet(Tail(pending)) = Waiting(f) \ {m}
  BY <1>1, TailSet DEF Waiting
<1>3. /\ appender'[a].item = {m}
      /\ \A b \in Appenders : b # a => appender'[b].item = appender[b].item
  <2>1. /\ appender' = [appender EXCEPT ![a] = [at |-> "append", item |-> {m}]]
        /\ DOMAIN appender = Appenders
    BY TypesNow DEF TakesItem, Appender
  <2>2. appender'[a] = [at |-> "append", item |-> {m}]
    BY <2>1
  <2>. QED
    BY <2>1, <2>2
<1>4. /\ \A g \in Folders : flow'[g].chunks = flow[g].chunks
      /\ \A g \in Folders : g # f => flow'[g].pending = flow[g].pending
      /\ flow'[f].pending = Tail(pending)
  <2>1. flow' = [flow EXCEPT ![f].pending = Tail(@)]
    BY DEF TakesItem
  <2>2. flow[f] \in Flows /\ DOMAIN flow = Folders
    BY <1>0, TypesNow
  <2>. QED
    BY <1>0, <2>1, <2>2 DEF Flows
<1>5. UNCHANGED <<fetcher, status>>
  BY DEF TakesItem
<1>. HIDE DEF m, pending
<1>6. /\ \A g \in Folders : Unread(g)' = Unread(g) /\ (g # f => Waiting(g)' = Waiting(g))
      /\ Waiting(f)' = Waiting(f) \ {m}
      /\ Item(a)' = {m}
      /\ \A b \in Appenders : b # a => Item(b)' = Item(b)
      /\ \A v \in Fetchers : Batch(v)' = Batch(v)
  BY <1>2, <1>3, <1>4, <1>5 DEF Waiting, Unread, Batch, Item
\* Nobody else holds it.
<1>7. /\ \A v \in Fetchers : m \notin Batch(v)
      /\ \A b \in Appenders : m \notin Item(b)
      /\ m \notin Unread(f) /\ m \in ToSet(Todo[f])
  <2>1. \A v \in Fetchers : m \notin Batch(v)
    BY <1>0, <1>2, Home DEF FlowInv, Ordered, Apart
  <2>2. \A b \in Appenders : m \notin Item(b)
    BY <1>0, <1>2, Home DEF FlowInv, Ordered, Apart
  <2>. QED
    BY <1>0, <1>2, <2>1, <2>2 DEF FlowInv, Ordered, Apart
<1>8. Ordered'
  <2>1. \A g \in Folders : /\ Cut(flow'[g].chunks) /\ IsInjective(flow'[g].pending)
                           /\ Unread(g)' \cup Waiting(g)' \subseteq ToSet(Todo[g])
    BY <1>2, <1>4, <1>6 DEF FlowInv, Ordered
  <2>2. \A v \in Fetchers : IsInjective(fetcher'[v].batch) /\ Batch(v)' \subseteq ToSet(Todo[v[1]])
    BY <1>5, <1>6 DEF FlowInv, Ordered
  <2>3. \A b \in Appenders : Item(b)' \subseteq ToSet(Todo[b[1]])
    BY <1>6, <1>7 DEF FlowInv, Ordered
  <2>. QED
    BY <2>1, <2>2, <2>3 DEF Ordered
<1>9. Apart'
  <2>1. ASSUME NEW v \in Fetchers
        PROVE  /\ Batch(v)' \cap (Unread(v[1])' \cup Waiting(v[1])') = {}
               /\ \A u \in Fetchers : u # v => Batch(v)' \cap Batch(u)' = {}
               /\ \A b \in Appenders : Batch(v)' \cap Item(b)' = {}
    <3>1. v[1] \in Folders
      BY Home
    <3>2. Batch(v)' \cap (Unread(v[1])' \cup Waiting(v[1])') = {}
      BY <1>6, <3>1 DEF FlowInv, Apart
    <3>3. \A u \in Fetchers : u # v => Batch(v)' \cap Batch(u)' = {}
      BY <1>6 DEF FlowInv, Apart
    <3>4. \A b \in Appenders : Batch(v)' \cap Item(b)' = {}
      BY <1>6, <1>7 DEF FlowInv, Apart
    <3>. QED
      BY <3>2, <3>3, <3>4
  <2>2. \A g \in Folders : Unread(g)' \cap Waiting(g)' = {}
    BY <1>6 DEF FlowInv, Apart
  <2>3. ASSUME NEW b \in Appenders
        PROVE  /\ Item(b)' \cap (Unread(b[1])' \cup Waiting(b[1])') = {}
               /\ \A c \in Appenders : b # c => Item(b)' \cap Item(c)' = {}
    <3>1. b[1] \in Folders
      BY Home
    <3>2. Item(b)' \cap (Unread(b[1])' \cup Waiting(b[1])') = {}
      <4>1. CASE b = a
        BY <1>6, <1>7, <3>1, <4>1
      <4>2. CASE b # a
        BY <1>6, <3>1, <4>2 DEF FlowInv, Apart
      <4>. QED
        BY <4>1, <4>2
    <3>3. \A c \in Appenders : b # c => Item(b)' \cap Item(c)' = {}
      BY <1>6, <1>7 DEF FlowInv, Apart
    <3>. QED
      BY <3>2, <3>3
  <2>. QED
    BY <2>1, <2>2, <2>3 DEF Apart
<1>10. Fresh'
  BY <1>5, <1>6 DEF FlowInv, Fresh
<1>. QED
  BY <1>8, <1>9, <1>10 DEF FlowInv

\* A folder outside copyFolder holds nothing in any of the four places.
LEMMA VacantHoldsNothing ==
    ASSUME PlaceInv, NEW f \in Folders, Vacant(f)
    PROVE  /\ Unread(f) = {} /\ Waiting(f) = {}
           /\ \A w \in Fetchers : w[1] = f => fetcher[w].batch = <<>> /\ Batch(w) = {}
           /\ \A a \in Appenders : a[1] = f => Item(a) = {}
<1>1. \A w \in Fetchers : w[1] = f => fetcher[w].at \in Over
  <2>1. \A w \in Fetchers : w[1] = f => w[2] \in Readers /\ w = <<f, w[2]>>
    BY DEF Fetchers
  <2>. QED
    BY <2>1 DEF Vacant
<1>2. \A a \in Appenders : a[1] = f => appender[a].at \in Over
  <2>1. \A a \in Appenders : a[1] = f => a[2] \in Writers /\ a = <<f, a[2]>>
    BY DEF Appenders
  <2>. QED
    BY <2>1 DEF Vacant
<1>3. \A w \in Fetchers : w[1] = f => fetcher[w].batch = <<>>
  BY <1>1 DEF PlaceInv, Hands
<1>4. \A a \in Appenders : a[1] = f => Item(a) = {}
  BY <1>2 DEF PlaceInv, Hands, Over, Item
<1>. QED
  BY <1>3, <1>4, NothingCut DEF Vacant, Unread, Waiting, Batch

LEMMA IndexedKeepsFlow ==
    ASSUME PlaceInv, FlowInv, NEW f \in Folders, Indexed(f)
    PROVE  FlowInv'
<1>. DEFINE todo == ToCopy(f, status)
            next == [Idle EXCEPT !.chunks = Chunks(todo), !.sealed = todo = <<>>]
<1>0. PICK R \in SUBSET Readers, W \in SUBSET Writers :
         /\ fetcher' = [w \in Fetchers |->
               IF w[1] # f THEN fetcher[w]
               ELSE IF w[2] \in R THEN [at |-> "draw", batch |-> <<>>] ELSE NoBatch]
         /\ appender' = [a \in Appenders |->
               IF a[1] # f THEN appender[a]
               ELSE IF a[2] \in W THEN [at |-> "take", item |-> {}] ELSE NoItem]
  BY DEF Indexed, kSubset
<1>1. main[f] = "index" /\ flow' = [flow EXCEPT ![f] = next] /\ UNCHANGED status
  BY DEF Indexed
<1>2. /\ Unread(f) = {} /\ Waiting(f) = {}
      /\ \A w \in Fetchers : w[1] = f => fetcher[w].batch = <<>>
      /\ \A a \in Appenders : a[1] = f => appender[a].item = {}
  BY <1>1, VacantHoldsNothing DEF PlaceInv, OnlyCopies, Item
<1>3. /\ todo \in Seq(Msgs) /\ IsInjective(todo)
      /\ ToSet(todo) = {m \in ToSet(Todo[f]) : status[m] # "done"}
  BY CopyList
<1>4. /\ next.chunks = Chunks(todo) /\ next.pending = <<>>
      /\ \A g \in Folders : g # f => flow'[g] = flow[g]
      /\ flow'[f] = next
  BY <1>1, TypesNow DEF Idle
<1>5. Spread(Chunks(todo)) = ToSet(todo) /\ Cut(Chunks(todo))
  BY <1>3, ChunksCut DEF Spread, Cut
<1>6. /\ \A w \in Fetchers : fetcher'[w].batch = fetcher[w].batch
      /\ \A a \in Appenders : appender'[a].item = appender[a].item
  <2>1. \A w \in Fetchers : fetcher'[w].batch = fetcher[w].batch
    BY <1>0, <1>2 DEF NoBatch
  <2>2. \A a \in Appenders : appender'[a].item = appender[a].item
    BY <1>0, <1>2 DEF NoItem
  <2>. QED
    BY <2>1, <2>2
<1>. HIDE DEF next, todo
<1>7. /\ Unread(f)' = ToSet(todo) /\ Waiting(f)' = {}
      /\ \A g \in Folders : g # f => Unread(g)' = Unread(g) /\ Waiting(g)' = Waiting(g)
      /\ \A w \in Fetchers : Batch(w)' = Batch(w) /\ (w[1] = f => Batch(w) = {})
      /\ \A a \in Appenders : Item(a)' = Item(a) /\ (a[1] = f => Item(a) = {})
  BY <1>2, <1>4, <1>5, <1>6, NothingCut DEF Unread, Waiting, Batch, Item
<1>8. Ordered'
  <2>1. \A g \in Folders : /\ Cut(flow'[g].chunks) /\ IsInjective(flow'[g].pending)
                           /\ Unread(g)' \cup Waiting(g)' \subseteq ToSet(Todo[g])
    BY <1>3, <1>4, <1>5, <1>7, NothingCut DEF FlowInv, Ordered
  <2>2. \A w \in Fetchers : IsInjective(fetcher'[w].batch) /\ Batch(w)' \subseteq ToSet(Todo[w[1]])
    BY <1>6, <1>7 DEF FlowInv, Ordered
  <2>. QED
    BY <1>7, <2>1, <2>2 DEF FlowInv, Ordered
<1>9. Apart'
  <2>1. \A x \in Fetchers \cup Appenders : x[1] \in Folders
    BY Home
  <2>2. \A w \in Fetchers : Batch(w)' \cap (Unread(w[1])' \cup Waiting(w[1])') = {}
    BY <1>7, <2>1 DEF FlowInv, Apart
  <2>3. \A a \in Appenders : Item(a)' \cap (Unread(a[1])' \cup Waiting(a[1])') = {}
    BY <1>7, <2>1 DEF FlowInv, Apart
  <2>4. \A g \in Folders : Unread(g)' \cap Waiting(g)' = {}
    BY <1>7 DEF FlowInv, Apart
  <2>5. \A w \in Fetchers : /\ \A v \in Fetchers : v # w => Batch(w)' \cap Batch(v)' = {}
                            /\ \A a \in Appenders : Batch(w)' \cap Item(a)' = {}
    BY <1>7 DEF FlowInv, Apart
  <2>6. \A a \in Appenders : \A b \in Appenders : a # b => Item(a)' \cap Item(b)' = {}
    BY <1>7 DEF FlowInv, Apart
  <2>. QED
    BY <2>2, <2>3, <2>4, <2>5, <2>6 DEF Apart
<1>10. Fresh'
  BY <1>1, <1>3, <1>7 DEF FlowInv, Fresh
<1>. QED
  BY <1>8, <1>9, <1>10 DEF FlowInv

\* A step that moves no worker and hands nothing out.
LEMMA FolderShrinks ==
    ASSUME PlaceInv, FlowInv, UNCHANGED <<fetcher, appender>>,
           \A f \in Folders :
               /\ flow'[f].chunks \in {flow[f].chunks, <<>>}
               /\ flow'[f].pending \in {flow[f].pending, <<>>},
           \A m \in Msgs : status'[m] = "done" =>
               status[m] = "done" \/ \E f \in Folders : Vacant(f) /\ m \in ToSet(Todo[f])
    PROVE  FlowInv'
<1>1. \A f \in Folders :
         /\ Cut(flow'[f].chunks) /\ IsInjective(flow'[f].pending)
         /\ Unread(f)' \subseteq Unread(f) /\ Waiting(f)' \subseteq Waiting(f)
  BY NothingCut DEF FlowInv, Ordered, Unread, Waiting
<1>2. /\ \A w \in Fetchers : IsInjective(fetcher'[w].batch) /\ Batch(w)' = Batch(w)
      /\ \A a \in Appenders : Item(a)' = Item(a)
  BY DEF FlowInv, Ordered, Batch, Item
<1>3. ASSUME NEW m \in Msgs, NEW f \in Folders, Vacant(f), m \in ToSet(Todo[f])
      PROVE  /\ \A g \in Folders : m \notin Unread(g)'
             /\ \A w \in Fetchers : m \notin Batch(w)'
  <2>1. /\ Unread(f) = {} /\ \A w \in Fetchers : w[1] = f => Batch(w) = {}
    BY <1>3, VacantHoldsNothing
  <2>2. ASSUME NEW g \in Folders PROVE m \notin Unread(g)
    BY <1>3, <2>1, Home DEF FlowInv, Ordered
  <2>3. ASSUME NEW w \in Fetchers PROVE m \notin Batch(w)
    BY <1>3, <2>1, Home DEF FlowInv, Ordered
  <2>. QED
    BY <1>1, <1>2, <2>2, <2>3
<1>. QED
  BY <1>1, <1>2, <1>3, FlowShrinks

LEMMA FolderKeepsFlow ==
    ASSUME PlaceInv, FlowInv, NEW f \in Folders, FolderStep(f)
    PROVE  FlowInv'
<1>0. DOMAIN flow = Folders /\ \A g \in Folders : flow[g] \in Flows
  BY TypesNow
<1>1. CASE Indexed(f)
  BY <1>1, IndexedKeepsFlow
<1>2. CASE UNCHANGED <<flow, fetcher, appender, status>>
  BY <1>2, FolderShrinks
<1>3. CASE Diffs(f)
  <2>1. Vacant(f)
    BY <1>3 DEF Diffs, PlaceInv, OnlyCopies
  <2>2. \A m \in Msgs : status'[m] = "done" => status[m] = "done" \/ m \in ToSet(Todo[f])
    BY <1>3 DEF Diffs
  <2>3. UNCHANGED <<flow, fetcher, appender>>
    BY <1>3 DEF Diffs
  <2>. QED
    BY <2>1, <2>2, <2>3, FolderShrinks
<1>4. CASE ProducerQuits(f)
  <2>1. \A g \in Folders : flow'[g].chunks \in {flow[g].chunks, <<>>} /\ flow'[g].pending = flow[g].pending
    BY <1>0, <1>4 DEF ProducerQuits, Flows
  <2>. QED
    BY <1>4, <2>1, FolderShrinks DEF ProducerQuits
<1>5. CASE Seals(f)
  <2>1. \A g \in Folders : flow'[g].chunks = flow[g].chunks /\ flow'[g].pending = flow[g].pending
    BY <1>0, <1>5 DEF Seals, Flows
  <2>. QED
    BY <1>5, <2>1, FolderShrinks DEF Seals
<1>6. CASE CopyEnds(f)
  <2>1. \A g \in Folders : flow'[g].chunks = flow[g].chunks /\ flow'[g].pending \in {flow[g].pending, <<>>}
    BY <1>0, <1>6 DEF CopyEnds, Flows
  <2>. QED
    BY <1>6, <2>1, FolderShrinks DEF CopyEnds
<1>. QED
  BY <1>1, <1>2, <1>3, <1>4, <1>5, <1>6
  DEF FolderStep, LeaseSource, LeaseDest, Reaches, Starts, LeavesOut, Unchanged,
      Selects, PrepareFails, Visits, VisitFails

LEMMA FetcherKeepsFlow ==
    ASSUME PlaceInv, FlowInv, NEW w \in Fetchers, FetcherStep(w)
    PROVE  FlowInv'
<1>1. CASE GetsChunk(w)
  BY <1>1, GetsChunkKeepsFlow
<1>2. CASE Sends(w)
  BY <1>2, SendsKeepsFlow
<1>3. CASE LeaseSource(w)
  BY <1>3, FolderShrinks DEF LeaseSource
<1>4. CASE NoMoreChunks(w)
  BY <1>4, FetcherShrinks DEF NoMoreChunks
<1>5. CASE ReadsHeaders(w)
  BY <1>5, FetcherShrinks DEF ReadsHeaders
<1>6. CASE HeadersFail(w)
  BY <1>6, FetcherShrinks DEF HeadersFail
<1>7. CASE Adopts(w)
  BY <1>7, FetcherShrinks DEF Adopts
<1>8. CASE Begins(w)
  <2>1. /\ fetcher[w].batch # <<>> /\ Mark(Head(fetcher[w].batch), "in_flight")
        /\ Fetcher(w, "charge", fetcher[w].batch) /\ UNCHANGED <<flow, appender>>
    BY <1>8 DEF Begins
  <2>2. \E s : /\ Mark(Head(fetcher[w].batch), s)
              /\ s = "done" => fetcher[w].batch = Tail(fetcher[w].batch)
    <3>1. "in_flight" # "done"
      OBVIOUS
    <3>. QED
      BY <2>1, <3>1
  <2>. QED
    BY <2>1, <2>2, FetcherShrinks
<1>9. CASE Charged(w)
  BY <1>9, FetcherShrinks DEF Charged
<1>10. CASE ReadsBody(w)
  BY <1>10, FetcherShrinks DEF ReadsBody
<1>11. CASE NothingToSend(w)
  <2>1. fetcher[w].batch # <<>>
    BY <1>11 DEF NothingToSend, PlaceInv, Hands
  <2>. QED
    BY <1>11, <2>1, FetcherShrinks DEF NothingToSend
<1>12. CASE FetchFails(w)
  <2>1. fetcher[w].batch # <<>> /\ UNCHANGED <<flow, appender>>
    BY <1>12 DEF FetchFails
  <2>2. \/ Fetcher(w, "gaveUp", <<>>) /\ UNCHANGED status
        \/ Fetcher(w, "run", fetcher[w].batch) /\ UNCHANGED status
        \/ Fetcher(w, "run", Tail(fetcher[w].batch)) /\ Mark(Head(fetcher[w].batch), "failed")
    BY <1>12 DEF FetchFails, Resume
  <2>. QED
    BY <2>1, <2>2, FetcherShrinks
<1>13. CASE ChunkDone(w)
  BY <1>13, FetcherShrinks DEF ChunkDone
<1>. QED
  BY <1>1, <1>2, <1>3, <1>4, <1>5, <1>6, <1>7, <1>8, <1>9, <1>10, <1>11, <1>12, <1>13
  DEF FetcherStep

LEMMA AppenderKeepsFlow ==
    ASSUME PlaceInv, FlowInv, NEW a \in Appenders, AppenderStep(a)
    PROVE  FlowInv'
<1>0. DOMAIN flow = Folders /\ (\A g \in Folders : flow[g] \in Flows) /\ a[1] \in Folders
  BY TypesNow, Home
<1>1. ASSUME Finish(a, "done") \/ Finish(a, "failed"), UNCHANGED <<fetcher, flow>>,
             appender[a].at \in {"append", "look", "find"}
      PROVE  FlowInv'
  <2>1. PICK m : appender[a].item = {m}
    BY <1>1 DEF PlaceInv, Hands
  <2>2. Appender(a, "take", {}) /\ \E s : Mark(m, s)
    BY <1>1, <2>1 DEF Finish
  <2>3. m \in appender[a].item
    BY <2>1
  <2>. QED
    BY <1>1, <2>2, <2>3, AppenderShrinks
<1>2. ASSUME GiveUp(a), UNCHANGED fetcher
      PROVE  FlowInv'
  <2>1. \A g \in Folders : flow'[g].chunks = flow[g].chunks /\ flow'[g].pending = flow[g].pending
    BY <1>0, <1>2 DEF GiveUp, Flows
  <2>. QED
    BY <1>2, <2>1, AppenderShrinks DEF GiveUp
<1>3. ASSUME NEW to, Appender(a, to, appender[a].item), UNCHANGED <<fetcher, flow, status>>
      PROVE  FlowInv'
  BY <1>3, AppenderShrinks
<1>4. CASE LeaseDest(a)
  BY <1>4, FolderShrinks DEF LeaseDest
<1>5. CASE TakesItem(a)
  BY <1>5, TakesItemKeepsFlow
<1>6. CASE NoMoreItems(a)
  BY <1>6, AppenderShrinks DEF NoMoreItems
<1>7. CASE Appended(a)
  BY <1>1, <1>3, <1>7 DEF Appended
<1>8. CASE AppendFails(a)
  BY <1>1, <1>2, <1>3, <1>8 DEF AppendFails
<1>9. CASE Looked(a)
  BY <1>1, <1>3, <1>9 DEF Looked
<1>10. CASE LookFails(a)
  BY <1>2, <1>10 DEF LookFails
<1>. QED
  BY <1>4, <1>5, <1>6, <1>7, <1>8, <1>9, <1>10 DEF AppenderStep

\* Every message of a folder in copy is in at most one place: chunks not handed out,
\* a fetcher's chunk, the channel, an appender's hands; and nothing that is done is
\* going to be fetched (syncer.go:1840-1914).
THEOREM FlowInvariant == Spec => []FlowInv
<1>1. ASSUME Init PROVE FlowInv
  <2>1. /\ \A f \in Folders : flow[f].chunks = <<>> /\ flow[f].pending = <<>>
        /\ \A w \in Fetchers : fetcher[w].batch = <<>>
        /\ \A a \in Appenders : appender[a].item = {}
    BY <1>1 DEF Init, Idle, NoBatch, NoItem
  <2>. QED
    BY <2>1, NothingCut DEF FlowInv, Ordered, Apart, Fresh, Unread, Waiting, Batch, Item
<1>2. PlaceInv /\ FlowInv /\ [Next]_vars => FlowInv'
  <2>. SUFFICES ASSUME PlaceInv, FlowInv, [Next]_vars PROVE FlowInv'
    OBVIOUS
  <2>1. CASE SecondPass \/ Interrupt \/ UNCHANGED vars
    BY <2>1, FolderShrinks DEF SecondPass, Interrupt, vars
  <2>. QED
    BY <2>1, FolderKeepsFlow, FetcherKeepsFlow, AppenderKeepsFlow DEF Next, Work
<1>. QED
  BY <1>1, <1>2, PlaceInvariant, PTL DEF Spec

\* A message that was sent to the appenders, or is done, is in no fetcher's chunk,
\* wherever its chunk is taken up again after a failure (syncer.go:1928-1931).
THEOREM NobodyFetchesTwice == Spec => []NoRefetch
<1>1. ASSUME PlaceInv, FlowInv PROVE NoRefetch
  <2>. SUFFICES ASSUME NEW w \in Fetchers, NEW m \in Batch(w)
                PROVE  /\ m \notin Waiting(w[1]) \cup InHands(w[1])
                       /\ status[m] # "done"
    BY DEF NoRefetch, Batch, Waiting
  <2>1. m \notin Waiting(w[1]) /\ status[m] # "done"
    BY <1>1 DEF FlowInv, Apart, Fresh
  <2>2. \A a \in Writers : <<w[1], a>> \in Appenders
    BY Home DEF Appenders
  <2>3. m \notin InHands(w[1])
    <3>1. \A a \in Appenders : m \notin Item(a)
      BY <1>1 DEF FlowInv, Apart
    <3>2. \A a \in Writers : m \notin appender[<<w[1], a>>].item
      BY <2>2, <3>1 DEF Item
    <3>. QED
      BY <3>2 DEF InHands
  <2>. QED
    BY <2>1, <2>3
<1>. QED
  BY <1>1, PlaceInvariant, FlowInvariant, PTL

-----------------------------------------------------------------------------
(* What is not settled is in somebody's hands *)

Settled(m) == status[m] \in {"done", "failed"}
Held(f) == Unread(f) \cup Waiting(f) \cup InHands(f) \cup UNION {Batch(<<f, r>>) : r \in Readers}

\* Nothing has gone wrong in the copy of a folder so far.
GoesWell(f) ==
    main[f] = "copy" /\ ~flow[f].broken /\ \A r \in Readers : fetcher[<<f, r>>].at # "gaveUp"
Accounted(f) ==
    GoesWell(f) => \A m \in ToSet(Todo[f]) : Settled(m) \/ m \in Held(f)

\* A failed fetcher shows once the channel is closed, and as long as it is open
\* or holds anything there is an appender to serve it.
Shows(f) ==
    main[f] = "copy" /\ flow[f].sealed /\ ~flow[f].broken =>
        \A r \in Readers : fetcher[<<f, r>>].at = "returned"
Served(f) ==
    main[f] = "copy" =>
        \/ flow[f].pending = <<>> /\ flow[f].sealed
        \/ flow[f].broken
        \/ \E a \in Writers : appender[<<f, a>>].at \notin Over

AfterCopy == {"resync", "flags", "delete", "repeats", "ok"}
AllSettled(f) == main[f] \in AfterCopy => \A m \in ToSet(Todo[f]) : Settled(m)

Settles(f) == Accounted(f) /\ Shows(f) /\ Served(f) /\ AllSettled(f)
SettleInv == \A f \in Folders : Settles(f)

\* A step of one folder, or of a worker of one, leaves the other folders alone.
LEMMA OthersSettle ==
    ASSUME SettleInv, NEW f \in Folders,
           \A g \in Folders : g # f => main'[g] = main[g] /\ flow'[g] = flow[g],
           \A w \in Fetchers : w[1] # f => fetcher'[w] = fetcher[w],
           \A a \in Appenders : a[1] # f => appender'[a] = appender[a],
           \A m \in Msgs : m \notin ToSet(Todo[f]) => status'[m] = status[m],
           Settles(f)'
    PROVE  SettleInv'
<1>. SUFFICES ASSUME NEW g \in Folders, g # f PROVE Settles(g)'
  BY DEF SettleInv
<1>1. main'[g] = main[g] /\ flow'[g] = flow[g]
  OBVIOUS
<1>2. /\ \A r \in Readers : fetcher'[<<g, r>>] = fetcher[<<g, r>>]
      /\ \A a \in Writers : appender'[<<g, a>>] = appender[<<g, a>>]
  BY DEF Fetchers, Appenders
<1>3. \A m \in ToSet(Todo[g]) : status'[m] = status[m]
  BY Home
<1>4. Held(g)' = Held(g)
  <2>1. Unread(g)' = Unread(g) /\ Waiting(g)' = Waiting(g)
    BY <1>1 DEF Unread, Waiting
  <2>2. InHands(g)' = InHands(g)
    BY <1>2 DEF InHands
  <2>3. \A r \in Readers : Batch(<<g, r>>)' = Batch(<<g, r>>)
    BY <1>2 DEF Batch
  <2>4. UNION {Batch(<<g, r>>)' : r \in Readers} = UNION {Batch(<<g, r>>) : r \in Readers}
    BY <2>3
  <2>. QED
    BY <2>1, <2>2, <2>4 DEF Held
<1>5. Settles(g)
  BY DEF SettleInv
<1>6. Accounted(g)'
  BY <1>1, <1>2, <1>3, <1>4, <1>5 DEF Settles, Accounted, GoesWell, Settled
<1>7. Shows(g)'
  BY <1>1, <1>2, <1>5 DEF Settles, Shows
<1>8. Served(g)'
  BY <1>1, <1>2, <1>5 DEF Settles, Served
<1>9. AllSettled(g)'
  BY <1>1, <1>3, <1>5 DEF Settles, AllSettled, Settled
<1>. QED
  BY <1>6, <1>7, <1>8, <1>9 DEF Settles

LEMMA NothingSettles ==
    ASSUME SettleInv, UNCHANGED <<main, flow, fetcher, appender, status>>
    PROVE  SettleInv'
<1>. SUFFICES ASSUME NEW f \in Folders PROVE Settles(f)'
  BY DEF SettleInv
<1>1. Held(f)' = Held(f)
  BY DEF Held, Unread, Waiting, InHands, Batch
<1>2. Settles(f)
  BY DEF SettleInv
<1>3. Accounted(f)'
  BY <1>1, <1>2 DEF Settles, Accounted, GoesWell, Settled
<1>4. Shows(f)' /\ Served(f)'
  BY <1>2 DEF Settles, Shows, Served
<1>5. AllSettled(f)'
  BY <1>2 DEF Settles, AllSettled, Settled
<1>. QED
  BY <1>3, <1>4, <1>5 DEF Settles

\* What one fetcher holds, and what its folder holds besides.
LEMMA HeldByFetcher ==
    ASSUME NEW w \in Fetchers
    PROVE  /\ w = <<w[1], w[2]>> /\ w[2] \in Readers /\ w[1] \in Folders
           /\ Batch(w) \subseteq Held(w[1]) /\ Waiting(w[1]) \subseteq Held(w[1])
           /\ Unread(w[1]) \subseteq Held(w[1])
<1>1. w = <<w[1], w[2]>> /\ w[2] \in Readers /\ w[1] \in Folders
  BY DEF Fetchers
<1>2. Batch(w) \in {Batch(<<w[1], r>>) : r \in Readers}
  BY <1>1
<1>. QED
  BY <1>1, <1>2 DEF Held

\* A fetcher's step: its message is settled, handed on or still in its chunk.
LEMMA FetcherSettles ==
    ASSUME IInv, PlaceInv, FlowInv, SettleInv, NEW w \in Fetchers, fetcher[w].at \notin Over,
           NEW to, NEW left, Fetcher(w, to, left),
           UNCHANGED <<main, appender>>,
           DOMAIN flow' = Folders, \A g \in Folders : g # w[1] => flow'[g] = flow[g],
           flow'[w[1]].sealed = flow[w[1]].sealed, flow'[w[1]].broken = flow[w[1]].broken,
           \A m \in Msgs : m \notin Batch(w) => status'[m] = status[m],
           to # "gaveUp" =>
               \A m \in Unread(w[1]) \cup Waiting(w[1]) \cup Batch(w) :
                   m \in Unread(w[1])' \cup Waiting(w[1])' \cup ToSet(left) \/ Settled(m)'
    PROVE  SettleInv'
<1>. DEFINE f == w[1]
<1>1. /\ w = <<f, w[2]>> /\ w[2] \in Readers /\ f \in Folders
      /\ Batch(w) \subseteq ToSet(Todo[f])
  BY HeldByFetcher DEF FlowInv, Ordered
<1>2. main[f] = "copy" /\ ~flow[f].sealed
  BY <1>1 DEF PlaceInv, OnlyCopies, Vacant, IInv, ClosedMeansReturned
<1>3. /\ fetcher'[w].at = to /\ fetcher'[w].batch = left
      /\ \A v \in Fetchers : v # w => fetcher'[v] = fetcher[v]
  <2>1. /\ fetcher' = [fetcher EXCEPT ![w] = [at |-> to, batch |-> left]]
        /\ DOMAIN fetcher = Fetchers
    BY TypesNow DEF Fetcher
  <2>2. fetcher'[w] = [at |-> to, batch |-> left]
    BY <2>1
  <2>. QED
    BY <2>1, <2>2
<1>4. Accounted(f)'
  <2>. SUFFICES ASSUME GoesWell(f)', NEW m \in ToSet(Todo[f]), ~Settled(m)'
                PROVE  m \in Held(f)'
    BY DEF Accounted
  <2>1. to # "gaveUp"
    BY <1>1, <1>3 DEF GoesWell
  <2>2. GoesWell(f)
    <3>1. \A r \in Readers : fetcher[<<f, r>>].at # "gaveUp"
      <4>. SUFFICES ASSUME NEW r \in Readers PROVE fetcher[<<f, r>>].at # "gaveUp"
        OBVIOUS
      <4>1. <<f, r>> \in Fetchers
        BY <1>1 DEF Fetchers
      <4>. QED
        BY <1>3, <4>1 DEF GoesWell, Over
    <3>. QED
      BY <1>2, <3>1 DEF GoesWell
  <2>3. m \in Msgs
    BY <1>1, Home
  <2>4. CASE m \in Batch(w) \cup Unread(f) \cup Waiting(f)
    <3>1. m \in Unread(f)' \cup Waiting(f)' \cup Batch(w)'
      BY <1>3, <2>1, <2>4 DEF Batch
    <3>2. Batch(w)' \in {Batch(<<f, r>>)' : r \in Readers}
      BY <1>1
    <3>. QED
      BY <3>1, <3>2 DEF Held
  <2>5. CASE m \notin Batch(w) \cup Unread(f) \cup Waiting(f)
    <3>1. ~Settled(m)
      BY <2>3, <2>5 DEF Settled
    <3>2. m \in Held(f)
      BY <1>1, <2>2, <3>1 DEF SettleInv, Settles, Accounted
    <3>3. CASE m \in InHands(f)
      BY <3>3 DEF Held, InHands
    <3>4. CASE \E r \in Readers : m \in Batch(<<f, r>>)
      <4>1. PICK r \in Readers : m \in Batch(<<f, r>>)
        BY <3>4
      <4>2. <<f, r>> \in Fetchers /\ <<f, r>> # w
        BY <1>1, <2>5, <4>1 DEF Fetchers
      <4>3. m \in Batch(<<f, r>>)'
        BY <1>3, <4>1, <4>2 DEF Batch
      <4>. QED
        BY <4>3 DEF Held
    <3>. QED
      BY <2>5, <3>2, <3>3, <3>4 DEF Held
  <2>. QED
    BY <2>4, <2>5
<1>5. Shows(f)'
  BY <1>2 DEF Shows
<1>6. Served(f)'
  BY <1>1, <1>2 DEF SettleInv, Settles, Served
<1>7. AllSettled(f)'
  BY <1>2 DEF AllSettled, AfterCopy
<1>8. \A m \in Msgs : m \notin ToSet(Todo[f]) => status'[m] = status[m]
  BY <1>1
<1>. QED
  BY <1>1, <1>3, <1>4, <1>5, <1>6, <1>7, <1>8, OthersSettle DEF Settles

\* An appender's step: its message is settled or still in its hands, and when it
\* leaves, the channel is empty and closed or the copy is broken.
LEMMA AppenderSettles ==
    ASSUME PlaceInv, FlowInv, SettleInv, NEW a \in Appenders, appender[a].at \notin Over,
           NEW to, NEW item, Appender(a, to, item),
           UNCHANGED <<main, fetcher>>,
           \A g \in Folders : g # a[1] => flow'[g] = flow[g],
           flow'[a[1]].sealed = flow[a[1]].sealed, flow'[a[1]].chunks = flow[a[1]].chunks,
           flow[a[1]].broken => flow'[a[1]].broken,
           \A m \in Msgs : m \notin Item(a) => status'[m] = status[m],
           \/ to \notin Over
           \/ flow'[a[1]].broken
           \/ flow'[a[1]].pending = <<>> /\ flow'[a[1]].sealed,
           flow'[a[1]].broken \/
               \A m \in Waiting(a[1]) \cup Item(a) : m \in Waiting(a[1])' \cup item \/ Settled(m)'
    PROVE  SettleInv'
<1>. DEFINE f == a[1]
<1>1. /\ a = <<f, a[2]>> /\ a[2] \in Writers /\ f \in Folders
      /\ Item(a) \subseteq ToSet(Todo[f])
  BY DEF FlowInv, Ordered, Appenders
<1>2. main[f] = "copy"
  BY <1>1 DEF PlaceInv, OnlyCopies, Vacant
<1>3. /\ appender'[a].at = to /\ appender'[a].item = item
      /\ \A b \in Appenders : b # a => appender'[b] = appender[b]
  <2>1. /\ appender' = [appender EXCEPT ![a] = [at |-> to, item |-> item]]
        /\ DOMAIN appender = Appenders
    BY TypesNow DEF Appender
  <2>2. appender'[a] = [at |-> to, item |-> item]
    BY <2>1
  <2>. QED
    BY <2>1, <2>2
<1>4. Accounted(f)'
  <2>. SUFFICES ASSUME GoesWell(f)', NEW m \in ToSet(Todo[f]), ~Settled(m)'
                PROVE  m \in Held(f)'
    BY DEF Accounted
  <2>1. ~flow'[f].broken /\ GoesWell(f)
    BY <1>2 DEF GoesWell
  <2>2. m \in Msgs
    BY <1>1, Home
  <2>3. CASE m \in Item(a) \cup Waiting(f)
    <3>1. m \in Waiting(f)' \cup Item(a)'
      BY <1>3, <2>1, <2>3 DEF Item
    <3>2. Item(a)' \in {appender'[<<f, b>>].item : b \in Writers}
      BY <1>1 DEF Item
    <3>3. Item(a)' \subseteq InHands(f)'
      BY <3>2 DEF InHands
    <3>. QED
      BY <3>1, <3>3 DEF Held
  <2>4. CASE m \notin Item(a) \cup Waiting(f)
    <3>1. ~Settled(m)
      BY <2>2, <2>4 DEF Settled
    <3>2. m \in Held(f)
      BY <1>1, <2>1, <3>1 DEF SettleInv, Settles, Accounted
    <3>3. CASE m \in Unread(f) \/ m \in UNION {Batch(<<f, r>>) : r \in Readers}
      BY <3>3 DEF Held, Unread, Batch
    <3>4. CASE \E b \in Writers : m \in appender[<<f, b>>].item
      <4>1. PICK b \in Writers : m \in appender[<<f, b>>].item
        BY <3>4
      <4>2. <<f, b>> \in Appenders /\ <<f, b>> # a
        BY <1>1, <2>4, <4>1 DEF Appenders, Item
      <4>3. m \in appender'[<<f, b>>].item
        BY <1>3, <4>1, <4>2
      <4>. QED
        BY <4>3 DEF Held, InHands
    <3>. QED
      BY <2>4, <3>2, <3>3, <3>4 DEF Held, InHands
  <2>. QED
    BY <2>3, <2>4
<1>5. Shows(f)'
  BY <1>1 DEF SettleInv, Settles, Shows
<1>6. Served(f)'
  BY <1>1, <1>3 DEF Served
<1>7. AllSettled(f)'
  BY <1>2 DEF AllSettled, AfterCopy
<1>8. \A m \in Msgs : m \notin ToSet(Todo[f]) => status'[m] = status[m]
  BY <1>1
<1>. QED
  BY <1>1, <1>3, <1>4, <1>5, <1>6, <1>7, <1>8, OthersSettle DEF Settles

LEMMA FetcherKeepsSettled ==
    ASSUME IInv, PlaceInv, FlowInv, SettleInv, NEW w \in Fetchers, FetcherStep(w)
    PROVE  SettleInv'
<1>. DEFINE at == fetcher[w].at
            batch == fetcher[w].batch
            f == w[1]
<1>0. /\ f \in Folders /\ flow[f] \in Flows /\ batch \in Seq(Msgs) /\ IsInjective(batch)
      /\ DOMAIN flow = Folders
      /\ at \in Over \cup {"draw"} => batch = <<>>
      /\ at \in {"charge", "body", "send"} => batch # <<>>
  BY FetcherFacts, TypesNow DEF FlowInv, Ordered, PlaceInv, Hands
<1>1. batch # <<>> => /\ Head(batch) \in Batch(w) /\ Head(batch) \in Msgs
                      /\ ToSet(Tail(batch)) = Batch(w) \ {Head(batch)}
  BY <1>0, TailSet, TailFacts DEF Batch
\* The ways of keeping the chunk, or its rest.
<1>2. ASSUME NEW to, at \notin Over, Fetcher(w, to, batch), UNCHANGED <<main, appender, flow, status>>
      PROVE  SettleInv'
  BY <1>0, <1>2, FetcherSettles DEF Batch, Waiting, Unread
<1>3. ASSUME at \notin Over, Fetcher(w, "gaveUp", <<>>), UNCHANGED <<main, appender, flow, status>>
      PROVE  SettleInv'
  BY <1>0, <1>3, FetcherSettles
<1>4. ASSUME NEW to, at \notin Over, Fetcher(w, to, <<>>), batch = <<>>,
             UNCHANGED <<main, appender, flow, status>>
      PROVE  SettleInv'
  BY <1>2, <1>4
<1>5. ASSUME NEW s \in {"done", "failed"}, at \notin Over, batch # <<>>,
             Fetcher(w, "run", Tail(batch)), Mark(Head(batch), s),
             UNCHANGED <<main, appender, flow>>
      PROVE  SettleInv'
  <2>. DEFINE h == Head(batch)
  <2>0. /\ h \in Batch(w) /\ h \in Msgs /\ ToSet(Tail(batch)) = Batch(w) \ {h}
        /\ status' = [status EXCEPT ![h] = s] /\ status \in [Msgs -> Rows]
    BY <1>1, <1>5, TypesNow DEF Mark
  <2>. HIDE DEF h
  <2>1. status'[h] = s /\ \A m \in Msgs : m \notin Batch(w) => status'[m] = status[m]
    BY <2>0
  <2>2. Unread(f)' = Unread(f) /\ Waiting(f)' = Waiting(f)
    BY <1>5 DEF Unread, Waiting
  <2>3. \A m \in Unread(f) \cup Waiting(f) \cup Batch(w) :
            m \in Unread(f)' \cup Waiting(f)' \cup ToSet(Tail(batch)) \/ Settled(m)'
    BY <1>5, <2>0, <2>1, <2>2 DEF Settled
  <2>. QED
    BY <1>0, <1>5, <2>1, <2>3, FetcherSettles
<1>6. CASE LeaseSource(w)
  BY <1>6, NothingSettles DEF LeaseSource
<1>7. CASE GetsChunk(w)
  <2>. DEFINE cs == flow[f].chunks
  <2>1. cs \in Seq(Seq(Msgs)) /\ cs # <<>> /\ Cut(cs) /\ at = "draw"
    BY <1>0, <1>7 DEF GetsChunk, Flows, FlowInv, Ordered
  <2>2. flow' = [flow EXCEPT ![f].chunks = Tail(@)]
    BY <1>7 DEF GetsChunk
  <2>3. /\ DOMAIN flow' = Folders /\ \A g \in Folders : g # f => flow'[g] = flow[g]
        /\ flow'[f].sealed = flow[f].sealed /\ flow'[f].broken = flow[f].broken
        /\ flow'[f].pending = flow[f].pending /\ flow'[f].chunks = Tail(cs)
    BY <1>0, <2>2 DEF Flows
  <2>4. Unread(f)' = Unread(f) \ ToSet(Head(cs)) /\ Waiting(f)' = Waiting(f)
    BY <2>1, <2>3, TailCut DEF Unread, Waiting
  <2>5. batch = <<>> /\ Batch(w) = {}
    BY <1>0, <2>1, NothingCut DEF Batch
  <2>6. /\ UNCHANGED <<main, appender, status>> /\ Fetcher(w, "meta", Head(cs)) /\ at \notin Over
    BY <1>7 DEF GetsChunk, Over
  <2>7. \A m \in Unread(f) \cup Waiting(f) \cup Batch(w) :
            m \in Unread(f)' \cup Waiting(f)' \cup ToSet(Head(cs)) \/ Settled(m)'
    BY <2>4, <2>5
  <2>. HIDE DEF cs
  <2>. QED
    BY <2>3, <2>6, <2>7, FetcherSettles
<1>8. CASE Sends(w)
  <2>1. flow' = [flow EXCEPT ![f].pending = Append(@, Head(batch))] /\ batch # <<>>
    BY <1>0, <1>8 DEF Sends
  <2>2. /\ DOMAIN flow' = Folders /\ \A g \in Folders : g # f => flow'[g] = flow[g]
        /\ flow'[f].sealed = flow[f].sealed /\ flow'[f].broken = flow[f].broken
        /\ flow'[f].pending = Append(flow[f].pending, Head(batch))
        /\ flow'[f].chunks = flow[f].chunks
    BY <1>0, <2>1 DEF Flows
  <2>3. Unread(f)' = Unread(f) /\ Waiting(f)' = Waiting(f) \cup {Head(batch)}
    BY <1>0, <1>1, <2>1, <2>2, AppendSet DEF Unread, Waiting, Flows
  <2>4. /\ UNCHANGED <<main, appender, status>> /\ Fetcher(w, "run", Tail(batch)) /\ at \notin Over
    BY <1>8 DEF Sends, Over
  <2>5. \A m \in Unread(f) \cup Waiting(f) \cup Batch(w) :
            m \in Unread(f)' \cup Waiting(f)' \cup ToSet(Tail(batch)) \/ Settled(m)'
    BY <1>1, <2>1, <2>3
  <2>. QED
    BY <2>2, <2>4, <2>5, FetcherSettles
<1>9. CASE NoMoreChunks(w)
  BY <1>0, <1>4, <1>9 DEF NoMoreChunks, Over
<1>10. CASE ReadsHeaders(w)
  BY <1>2, <1>10 DEF ReadsHeaders, Over
<1>11. CASE HeadersFail(w)
  BY <1>2, <1>3, <1>11 DEF HeadersFail, Over
<1>12. CASE Adopts(w)
  BY <1>5, <1>12 DEF Adopts, Over
<1>13. CASE Begins(w)
  <2>1. /\ batch # <<>> /\ Mark(Head(batch), "in_flight") /\ Fetcher(w, "charge", batch)
        /\ UNCHANGED <<main, flow, appender>> /\ at \notin Over
    BY <1>13 DEF Begins, Over
  <2>2. \A m \in Msgs : m \notin Batch(w) => status'[m] = status[m]
    BY <1>1, <2>1, TypesNow DEF Mark
  <2>3. \A m \in Unread(f) \cup Waiting(f) \cup Batch(w) :
            m \in Unread(f)' \cup Waiting(f)' \cup ToSet(batch) \/ Settled(m)'
    BY <2>1 DEF Unread, Waiting, Batch
  <2>. QED
    BY <1>0, <2>1, <2>2, <2>3, FetcherSettles
<1>14. CASE Charged(w)
  BY <1>2, <1>14 DEF Charged, Over
<1>15. CASE ReadsBody(w)
  BY <1>2, <1>15 DEF ReadsBody, Over
<1>16. CASE NothingToSend(w)
  BY <1>0, <1>5, <1>16 DEF NothingToSend, Over
<1>17. CASE FetchFails(w)
  <2>1. /\ batch # <<>> /\ at \in {"run", "body", "charge", "send"}
        /\ UNCHANGED <<main, flow, appender>>
    BY <1>17 DEF FetchFails
  <2>2. \/ Fetcher(w, "gaveUp", <<>>) /\ UNCHANGED status
        \/ Fetcher(w, "run", batch) /\ UNCHANGED status
        \/ Fetcher(w, "run", Tail(batch)) /\ Mark(Head(batch), "failed")
    BY <1>17 DEF FetchFails, Resume
  <2>3. at \notin Over
    BY <2>1 DEF Over
  <2>. QED
    BY <1>2, <1>3, <1>5, <2>1, <2>2, <2>3
<1>18. CASE ChunkDone(w)
  BY <1>4, <1>18 DEF ChunkDone, Over
<1>. QED
  BY <1>6, <1>7, <1>8, <1>9, <1>10, <1>11, <1>12, <1>13, <1>14, <1>15, <1>16, <1>17, <1>18
  DEF FetcherStep

LEMMA AppenderKeepsSettled ==
    ASSUME PlaceInv, FlowInv, SettleInv, NEW a \in Appenders, AppenderStep(a)
    PROVE  SettleInv'
<1>. DEFINE at == appender[a].at
            item == appender[a].item
            f == a[1]
            InHand == {"append", "look", "find"}
<1>0. /\ f \in Folders /\ DOMAIN flow = Folders /\ flow[f] \in Flows
      /\ at \in InHand => \E m \in Msgs : item = {m}
      /\ at \notin InHand => item = {}
      /\ item = Item(a)
  BY Home, TypesNow DEF PlaceInv, Hands, Item
<1>1. ASSUME NEW s \in {"done", "failed"}, Finish(a, s), at \in InHand,
             UNCHANGED <<main, fetcher, flow>>
      PROVE  SettleInv'
  <2>1. PICK m \in Msgs : item = {m}
    BY <1>0, <1>1
  <2>2. /\ Appender(a, "take", {}) /\ status' = [status EXCEPT ![m] = s]
        /\ status \in [Msgs -> Rows]
    BY <1>1, <2>1, TypesNow DEF Finish, Mark
  <2>3. status'[m] = s /\ \A n \in Msgs : n \notin Item(a) => status'[n] = status[n]
    BY <1>0, <2>1, <2>2
  <2>4. Waiting(f)' = Waiting(f)
    BY <1>1 DEF Waiting
  <2>5. \A n \in Waiting(f) \cup Item(a) : n \in Waiting(f)' \cup {} \/ Settled(n)'
    BY <1>0, <1>1, <2>1, <2>3, <2>4 DEF Settled
  <2>6. at \notin Over /\ "take" \notin Over
    BY <1>1 DEF Over
  <2>. QED
    BY <1>1, <2>2, <2>3, <2>5, <2>6, AppenderSettles
<1>2. ASSUME GiveUp(a), at \notin Over, UNCHANGED <<main, fetcher>>
      PROVE  SettleInv'
  <2>1. /\ Appender(a, "gaveUp", {}) /\ UNCHANGED status
        /\ flow' = [flow EXCEPT ![f].broken = TRUE]
    BY <1>2 DEF GiveUp
  <2>2. /\ \A g \in Folders : g # f => flow'[g] = flow[g]
        /\ flow'[f].sealed = flow[f].sealed /\ flow'[f].chunks = flow[f].chunks
        /\ flow'[f].broken
    BY <1>0, <2>1 DEF Flows
  <2>. QED
    BY <1>2, <2>1, <2>2, AppenderSettles
<1>3. ASSUME NEW to, Appender(a, to, item), at \notin Over, to \notin Over,
             UNCHANGED <<main, fetcher, flow, status>>
      PROVE  SettleInv'
  BY <1>0, <1>3, AppenderSettles DEF Waiting
<1>4. CASE LeaseDest(a)
  BY <1>4, NothingSettles DEF LeaseDest
<1>5. CASE TakesItem(a)
  <2>. DEFINE pending == flow[f].pending
  <2>1. /\ at = "take" /\ pending # <<>> /\ flow' = [flow EXCEPT ![f].pending = Tail(@)]
        /\ Appender(a, "append", {Head(pending)})
        /\ UNCHANGED <<main, fetcher, status>>
    BY <1>5 DEF TakesItem
  <2>2. /\ \A g \in Folders : g # f => flow'[g] = flow[g]
        /\ flow'[f].sealed = flow[f].sealed /\ flow'[f].chunks = flow[f].chunks
        /\ flow'[f].broken = flow[f].broken /\ flow'[f].pending = Tail(pending)
    BY <1>0, <2>1 DEF Flows
  <2>3. pending \in Seq(Msgs) /\ IsInjective(pending)
    BY <1>0 DEF Flows, FlowInv, Ordered
  <2>4. Waiting(f)' = Waiting(f) \ {Head(pending)}
    BY <2>1, <2>2, <2>3, TailSet DEF Waiting
  <2>5. Item(a) = {} /\ at \notin Over /\ "append" \notin Over
    BY <1>0, <2>1 DEF Over
  <2>6. \A m \in Waiting(f) \cup Item(a) : m \in Waiting(f)' \cup {Head(pending)} \/ Settled(m)'
    BY <2>4, <2>5
  <2>. HIDE DEF pending
  <2>. QED
    BY <2>1, <2>2, <2>5, <2>6, AppenderSettles
<1>6. CASE NoMoreItems(a)
  <2>1. /\ at = "take" /\ flow[f].pending = <<>> /\ flow[f].sealed
        /\ Appender(a, "returned", {}) /\ UNCHANGED <<main, flow, fetcher, status>>
    BY <1>6 DEF NoMoreItems
  <2>2. Item(a) = {} /\ at \notin Over
    BY <1>0, <2>1 DEF Over
  <2>. QED
    BY <2>1, <2>2, AppenderSettles DEF Waiting
<1>7. CASE Appended(a)
  BY <1>1, <1>3, <1>7 DEF Appended, Over
<1>8. CASE AppendFails(a)
  <2>1. /\ at = "append" /\ at \notin Over /\ at \in InHand /\ UNCHANGED <<main, fetcher>>
        /\ \/ GiveUp(a)
           \/ Finish(a, "failed") /\ UNCHANGED flow
           \/ Appender(a, "look", item) /\ UNCHANGED <<used, flow, status>>
    BY <1>8 DEF AppendFails, Over
  <2>2. "look" \notin Over
    BY DEF Over
  <2>. QED
    BY <1>1, <1>2, <1>3, <2>1, <2>2
<1>9. CASE Looked(a)
  BY <1>1, <1>3, <1>9 DEF Looked, Over
<1>10. CASE LookFails(a)
  BY <1>2, <1>10 DEF LookFails, Over
<1>. QED
  BY <1>4, <1>5, <1>6, <1>7, <1>8, <1>9, <1>10 DEF AppenderStep

\* A folder with something to copy starts an appender.
LEMMA SomeoneAppends ==
    ASSUME NEW n \in Nat \ {0}, NEW W \in kSubset(Min({DstCap, n}), Writers)
    PROVE  W # {}
<1>1. IsFiniteSet(Writers) /\ DstCap \in Nat /\ DstWidth \in Nat \ {0} /\ DstWidth <= DstCap
  BY PipelineAssumption, FS_CardinalityType DEF PipelineAssumption, DstCap
<1>2. Min({DstCap, n}) = IF DstCap <= n THEN DstCap ELSE n
  BY <1>1, MinOfTwo
<1>3. Cardinality(W) = Min({DstCap, n})
  BY DEF kSubset
<1>4. Cardinality(W) # 0
  BY <1>1, <1>2, <1>3
<1>. QED
  BY <1>4, FS_EmptySet

LEMMA IndexedSettles ==
    ASSUME IInv, PlaceInv, FlowInv, SettleInv, NEW f \in Folders, Indexed(f)
    PROVE  SettleInv'
<1>. DEFINE todo == ToCopy(f, status)
            next == [Idle EXCEPT !.chunks = Chunks(todo), !.sealed = todo = <<>>]
<1>0. PICK R \in kSubset(Min({SrcCap, Len(Chunks(todo))}), Readers),
           W \in kSubset(Min({DstCap, Len(todo)}), Writers) :
         /\ fetcher' = [w \in Fetchers |->
               IF w[1] # f THEN fetcher[w]
               ELSE IF w[2] \in R THEN [at |-> "draw", batch |-> <<>>] ELSE NoBatch]
         /\ appender' = [a \in Appenders |->
               IF a[1] # f THEN appender[a]
               ELSE IF a[2] \in W THEN [at |-> "take", item |-> {}] ELSE NoItem]
  BY DEF Indexed
<1>1. /\ flow' = [flow EXCEPT ![f] = next] /\ MoveMain(f, "copy") /\ UNCHANGED status
  BY DEF Indexed
<1>2. /\ todo \in Seq(Msgs) /\ IsInjective(todo)
      /\ ToSet(todo) = {m \in ToSet(Todo[f]) : status[m] # "done"}
  BY CopyList
<1>3. Spread(Chunks(todo)) = ToSet(todo)
  BY <1>2, ChunksCut DEF Spread
<1>4. W \subseteq Writers
  BY DEF kSubset
<1>5. todo = <<>> => R = {}
  BY NoChunksNoFetchers
<1>6. todo # <<>> => W # {}
  <2>. HIDE DEF todo
  <2>1. todo # <<>> => Len(todo) \in Nat \ {0}
    BY <1>2
  <2>. QED
    BY <2>1, SomeoneAppends
<1>7. /\ next.chunks = Chunks(todo) /\ next.pending = <<>> /\ next.sealed = (todo = <<>>)
      /\ \A g \in Folders : g # f => flow'[g] = flow[g]
      /\ flow'[f] = next
  BY <1>1, TypesNow DEF Idle
<1>8. main'[f] = "copy" /\ \A g \in Folders : g # f => main'[g] = main[g]
  BY <1>1 DEF MoveMain, PlaceInv, TypeOK
<1>. HIDE DEF next, todo
<1>9. Accounted(f)'
  <2>1. Unread(f)' = ToSet(todo)
    BY <1>3, <1>7 DEF Unread
  <2>2. \A m \in ToSet(Todo[f]) : Settled(m)' \/ m \in Unread(f)'
    BY <1>1, <1>2, <2>1 DEF Settled
  <2>. QED
    BY <2>2 DEF Accounted, Held
<1>10. Shows(f)'
  <2>. SUFFICES ASSUME todo = <<>>, NEW r \in Readers PROVE fetcher'[<<f, r>>].at = "returned"
    BY <1>7 DEF Shows
  <2>1. <<f, r>> \in Fetchers /\ R = {}
    BY <1>5 DEF Fetchers
  <2>. QED
    BY <1>0, <2>1 DEF NoBatch
<1>11. Served(f)'
  <2>1. CASE todo = <<>>
    BY <1>7, <2>1 DEF Served
  <2>2. CASE todo # <<>>
    <3>1. PICK b \in Writers : b \in W
      BY <1>4, <1>6, <2>2
    <3>2. <<f, b>> \in Appenders
      BY DEF Appenders
    <3>3. appender'[<<f, b>>].at = "take"
      BY <1>0, <3>1, <3>2
    <3>. QED
      BY <3>3 DEF Served, Over
  <2>. QED
    BY <2>1, <2>2
<1>12. AllSettled(f)'
  BY <1>8 DEF AllSettled, AfterCopy
<1>13. /\ \A w \in Fetchers : w[1] # f => fetcher'[w] = fetcher[w]
       /\ \A a \in Appenders : a[1] # f => appender'[a] = appender[a]
  BY <1>0
<1>. QED
  BY <1>1, <1>7, <1>8, <1>9, <1>10, <1>11, <1>12, <1>13, OthersSettle DEF Settles

\* A folder that goes anywhere but into copyFolder, or beyond it, settles nothing.
LEMMA ElsewhereSettles ==
    ASSUME PlaceInv, SettleInv, NEW f \in Folders, NEW to, MoveMain(f, to), to # "copy",
           UNCHANGED <<fetcher, appender>>,
           \A g \in Folders : g # f => flow'[g] = flow[g],
           \A m \in Msgs : m \notin ToSet(Todo[f]) => status'[m] = status[m],
           to \in AfterCopy => \A m \in ToSet(Todo[f]) : Settled(m)'
    PROVE  SettleInv'
<1>1. main'[f] = to /\ \A g \in Folders : g # f => main'[g] = main[g]
  BY DEF MoveMain, PlaceInv, TypeOK
<1>2. Accounted(f)' /\ Shows(f)' /\ Served(f)' /\ AllSettled(f)'
  BY <1>1 DEF Accounted, GoesWell, Shows, Served, AllSettled
<1>. QED
  BY <1>1, <1>2, OthersSettle DEF Settles

LEMMA FolderKeepsSettled ==
    ASSUME IInv, PlaceInv, FlowInv, SettleInv, NEW f \in Folders, FolderStep(f)
    PROVE  SettleInv'
<1>0. /\ DOMAIN flow = Folders /\ \A g \in Folders : flow[g] \in Flows
      /\ Settles(f)
  BY TypesNow DEF SettleInv
<1>1. CASE LeaseSource(f) \/ LeaseDest(f)
  BY <1>1, NothingSettles DEF LeaseSource, LeaseDest
<1>2. CASE Reaches(f) \/ Starts(f) \/ LeavesOut(f) \/ Selects(f) \/ PrepareFails(f) \/ VisitFails(f)
  BY <1>2, ElsewhereSettles
  DEF Reaches, Starts, LeavesOut, Selects, PrepareFails, VisitFails, AfterCopy
<1>3. CASE Diffs(f)
  <2>1. \A m \in Msgs : m \notin ToSet(Todo[f]) => status'[m] = status[m]
    BY <1>3 DEF Diffs
  <2>. QED
    BY <1>3, <2>1, ElsewhereSettles DEF Diffs, AfterCopy
<1>4. CASE Unchanged(f)
  <2>1. \A m \in ToSet(Todo[f]) : Settled(m)
    <3>1. ToSet(ToCopy(f, status)) = {}
      BY <1>4, NothingCut DEF Unchanged
    <3>. QED
      BY <3>1, CopyList DEF Settled
  <2>2. \A m \in ToSet(Todo[f]) : Settled(m)'
    BY <1>4, <2>1 DEF Unchanged, Settled
  <2>. QED
    BY <1>4, <2>2, ElsewhereSettles DEF Unchanged
<1>5. CASE Visits(f)
  <2>1. main[f] \in AfterCopy /\ NextVisit(f) # "copy"
    BY <1>5 DEF Visits, NextVisit, AfterCopy
  <2>2. \A m \in ToSet(Todo[f]) : Settled(m)'
    BY <1>0, <1>5, <2>1 DEF Visits, Settles, AllSettled, Settled
  <2>. QED
    BY <1>5, <2>1, <2>2, ElsewhereSettles DEF Visits
<1>6. CASE Indexed(f)
  BY <1>6, IndexedSettles
<1>7. CASE ProducerQuits(f)
  <2>1. /\ \A g \in Folders : g # f => flow'[g] = flow[g]
        /\ flow'[f].broken /\ main[f] = "copy"
    BY <1>0, <1>7 DEF ProducerQuits, Flows
  <2>2. UNCHANGED <<main, fetcher, appender, status>>
    BY <1>7 DEF ProducerQuits
  <2>3. Accounted(f)' /\ Shows(f)' /\ Served(f)' /\ AllSettled(f)'
    BY <2>1, <2>2 DEF Accounted, GoesWell, Shows, Served, AllSettled, AfterCopy
  <2>. QED
    BY <2>1, <2>2, <2>3, OthersSettle DEF Settles
<1>8. CASE Seals(f)
  <2>0. /\ flow' = [flow EXCEPT ![f].sealed = TRUE, ![f].broken = @ \/ FetchersFailed(f)]
        /\ main[f] = "copy" /\ ~flow[f].sealed /\ FetchersReturned(f)
        /\ UNCHANGED <<main, fetcher, appender, status>>
    BY <1>8 DEF Seals
  <2>1. /\ \A g \in Folders : g # f => flow'[g] = flow[g]
        /\ flow'[f].pending = flow[f].pending /\ flow'[f].chunks = flow[f].chunks
        /\ flow'[f].broken = (flow[f].broken \/ FetchersFailed(f))
    BY <1>0, <2>0 DEF Flows
  <2>2. Held(f)' = Held(f)
    BY <2>0, <2>1 DEF Held, Unread, Waiting, InHands, Batch
  <2>3. Accounted(f)'
    BY <1>0, <2>0, <2>1, <2>2 DEF Settles, Accounted, GoesWell, Settled
  <2>4. Shows(f)'
    BY <2>0, <2>1 DEF Shows, FetchersReturned, FetchersFailed, Over
  <2>5. Served(f)'
    BY <1>0, <2>0, <2>1 DEF Settles, Served
  <2>6. AllSettled(f)'
    BY <2>0 DEF AllSettled, AfterCopy
  <2>. QED
    BY <2>0, <2>1, <2>3, <2>4, <2>5, <2>6, OthersSettle DEF Settles
<1>9. CASE CopyEnds(f)
  <2>. DEFINE to == IF flow[f].broken THEN "failed" ELSE "resync"
  <2>1. /\ main[f] = "copy" /\ CopyOver(f) /\ MoveMain(f, to)
        /\ flow' = [flow EXCEPT ![f].pending = <<>>]
        /\ UNCHANGED <<fetcher, appender, status>>
    BY <1>9 DEF CopyEnds
  <2>2. \A g \in Folders : g # f => flow'[g] = flow[g]
    BY <1>0, <2>1
  <2>3. ASSUME ~flow[f].broken PROVE \A m \in ToSet(Todo[f]) : Settled(m)
    <3>1. flow[f].chunks = <<>> /\ flow[f].sealed /\ \A a \in Writers : appender[<<f, a>>].at \in Over
      BY <2>1 DEF CopyOver
    <3>2. \A r \in Readers : fetcher[<<f, r>>].at = "returned"
      BY <1>0, <2>1, <2>3, <3>1 DEF Settles, Shows
    <3>3. flow[f].pending = <<>>
      BY <1>0, <2>1, <2>3, <3>1 DEF Settles, Served
    <3>4. \A r \in Readers : Batch(<<f, r>>) = {}
      BY <3>2, NothingCut DEF PlaceInv, Hands, Fetchers, Over, Batch
    <3>5. \A a \in Writers : appender[<<f, a>>].item = {}
      BY <3>1 DEF PlaceInv, Hands, Appenders, Over
    <3>6. Held(f) = {}
      BY <3>1, <3>3, <3>4, <3>5, NothingCut DEF Held, Unread, Waiting, InHands
    <3>7. GoesWell(f)
      BY <2>1, <2>3, <3>2 DEF GoesWell
    <3>. QED
      BY <1>0, <3>6, <3>7 DEF Settles, Accounted
  <2>4. to \in AfterCopy => \A m \in ToSet(Todo[f]) : Settled(m)'
    BY <2>1, <2>3 DEF AfterCopy, Settled
  <2>5. to # "copy"
    OBVIOUS
  <2>. HIDE DEF to
  <2>. QED
    BY <2>1, <2>2, <2>4, <2>5, ElsewhereSettles
<1>. QED
  BY <1>1, <1>2, <1>3, <1>4, <1>5, <1>6, <1>7, <1>8, <1>9 DEF FolderStep

\* As long as the copy of a folder goes well, each of its messages is settled or in
\* one of the four places; and when it does not, the error group or the fetchers say
\* so before the copy can end (syncer.go:1268-1270, 1885-1914).
THEOREM SettleInvariant == Spec => []SettleInv
<1>1. ASSUME Init PROVE SettleInv
  BY <1>1 DEF Init, SettleInv, Settles, Accounted, GoesWell, Shows, Served, AllSettled, AfterCopy
<1>2. IInv /\ PlaceInv /\ FlowInv /\ SettleInv /\ [Next]_vars => SettleInv'
  <2>. SUFFICES ASSUME IInv, PlaceInv, FlowInv, SettleInv, [Next]_vars PROVE SettleInv'
    OBVIOUS
  <2>1. CASE Interrupt \/ UNCHANGED vars
    BY <2>1, NothingSettles DEF Interrupt, vars
  <2>2. CASE SecondPass
    <3>1. \A f \in Folders : main'[f] \in Ended \cup {"waiting"} /\ (main'[f] = main[f] \/ main'[f] = "waiting")
      BY <2>2 DEF SecondPass
    <3>2. \A f \in Folders : AllSettled(f)
      BY DEF SettleInv, Settles
    <3>3. UNCHANGED status
      BY <2>2 DEF SecondPass
    <3>4. \A f \in Folders : AllSettled(f)'
      BY <3>1, <3>2, <3>3 DEF AllSettled, AfterCopy, Settled
    <3>5. \A f \in Folders : main'[f] # "copy"
      BY <3>1 DEF Ended
    <3>. QED
      BY <3>4, <3>5 DEF SettleInv, Settles, Accounted, GoesWell, Shows, Served
  <2>. QED
    BY <2>1, <2>2, FolderKeepsSettled, FetcherKeepsSettled, AppenderKeepsSettled
    DEF Next, Work
<1>. QED
  BY <1>1, <1>2, ChannelInvariant, PlaceInvariant, FlowInvariant, PTL DEF Spec

\* A folder whose copy is over without an error has settled every one of its
\* messages (syncer.go:1268-1270).
THEOREM NobodyDropsMessages == Spec => []NothingDropped
<1>1. SettleInv => NothingDropped
  BY DEF SettleInv, Settles, AllSettled, AfterCopy, Settled, NothingDropped
<1>. QED
  BY <1>1, SettleInvariant, PTL

-----------------------------------------------------------------------------
(* The byte budget *)

\* What a fetcher has been charged for and not handed on.
Carried(w) ==
    IF fetcher[w].at \in {"body", "send"} THEN {Head(fetcher[w].batch)} ELSE {}

Carry == UNION {Carried(w) : w \in Fetchers}
Wait  == UNION {Waiting(f) : f \in Folders}
Hand  == UNION {Item(a) : a \in Appenders}

LEMMA MemoryIs == InMemory = Carry \cup Wait \cup Hand
<1>. DEFINE At(f) == {Head(fetcher[w].batch) : w \in Charging(f)} \cup
                         ToSet(flow[f].pending) \cup InHands(f)
<1>1. InMemory = UNION {At(f) : f \in Folders}
  BY DEF InMemory
<1>2. ASSUME NEW m \in InMemory PROVE m \in Carry \cup Wait \cup Hand
  <2>1. PICK f \in Folders : m \in At(f)
    BY <1>1, <1>2
  <2>2. CASE m \in {Head(fetcher[w].batch) : w \in Charging(f)}
    <3>1. PICK w \in Charging(f) : m = Head(fetcher[w].batch)
      BY <2>2
    <3>2. w \in Fetchers /\ m \in Carried(w)
      BY <3>1 DEF Charging, Fetchers, Carried
    <3>. QED
      BY <3>2 DEF Carry
  <2>3. CASE m \in ToSet(flow[f].pending)
    BY <2>3 DEF Waiting, Wait
  <2>4. CASE m \in InHands(f)
    <3>1. PICK a \in Writers : m \in appender[<<f, a>>].item
      BY <2>4 DEF InHands
    <3>2. <<f, a>> \in Appenders /\ m \in Item(<<f, a>>)
      BY <3>1 DEF Appenders, Item
    <3>. QED
      BY <3>2 DEF Hand
  <2>. QED
    BY <2>1, <2>2, <2>3, <2>4
<1>3. ASSUME NEW w \in Fetchers, NEW m \in Carried(w) PROVE m \in InMemory
  <2>1. w[1] \in Folders /\ w \in {w[1]} \X Readers
    BY DEF Fetchers
  <2>2. w \in Charging(w[1]) /\ m = Head(fetcher[w].batch)
    BY <1>3, <2>1 DEF Carried, Charging
  <2>3. m \in At(w[1])
    BY <2>2
  <2>. QED
    BY <1>1, <2>1, <2>3
<1>4. ASSUME NEW f \in Folders, NEW m \in Waiting(f) PROVE m \in InMemory
  <2>1. m \in At(f)
    BY <1>4 DEF Waiting
  <2>. QED
    BY <1>1, <2>1
<1>5. ASSUME NEW a \in Appenders, NEW m \in Item(a) PROVE m \in InMemory
  <2>1. a[1] \in Folders /\ a[2] \in Writers /\ a = <<a[1], a[2]>>
    BY DEF Appenders
  <2>2. appender[a].item \in {appender[<<a[1], b>>].item : b \in Writers}
    BY <2>1
  <2>3. m \in At(a[1])
    BY <1>5, <2>2 DEF Item, InHands
  <2>. QED
    BY <1>1, <2>1, <2>3
<1>6. Carry \subseteq InMemory
  <2>. HIDE DEF At
  <2>. QED
    BY <1>3 DEF Carry
<1>7. Wait \subseteq InMemory /\ Hand \subseteq InMemory
  <2>. HIDE DEF At
  <2>. QED
    BY <1>4, <1>5 DEF Wait, Hand
<1>8. InMemory \subseteq Carry \cup Wait \cup Hand
  BY <1>2
<1>. QED
  BY <1>6, <1>7, <1>8

\* What a fetcher carries is the first message of its chunk.
LEMMA CarriedIs ==
    ASSUME PlaceInv, FlowInv
    PROVE  /\ \A w \in Fetchers : Carried(w) \subseteq Batch(w)
           /\ InMemory \subseteq Msgs
<1>1. ASSUME NEW w \in Fetchers PROVE Carried(w) \subseteq Batch(w)
  <2>1. fetcher[w].batch \in Seq(Msgs) /\ IsInjective(fetcher[w].batch)
    BY FetcherFacts DEF FlowInv, Ordered
  <2>2. fetcher[w].at \in {"body", "send"} => fetcher[w].batch # <<>>
    BY DEF PlaceInv, Hands
  <2>. QED
    BY <2>1, <2>2, TailSet DEF Carried, Batch
<1>2. InMemory \subseteq Msgs
  <2>1. /\ \A w \in Fetchers : Carried(w) \subseteq Msgs
        /\ \A f \in Folders : Waiting(f) \subseteq Msgs
        /\ \A a \in Appenders : Item(a) \subseteq Msgs
    BY <1>1, Home DEF FlowInv, Ordered
  <2>2. Carry \subseteq Msgs /\ Wait \subseteq Msgs /\ Hand \subseteq Msgs
    BY <2>1 DEF Carry, Wait, Hand
  <2>. QED
    BY <2>2, MemoryIs
<1>. QED
  BY <1>1, <1>2

\* A step after which everybody carries the same.
LEMMA MemoryStays ==
    ASSUME \A w \in Fetchers : Carried(w)' = Carried(w),
           \A f \in Folders : Waiting(f)' = Waiting(f),
           \A a \in Appenders : Item(a)' = Item(a)
    PROVE  InMemory' = InMemory
<1>1. (InMemory = Carry \cup Wait \cup Hand)'
  BY MemoryIs, PTL
<1>2. Carry' = Carry /\ Wait' = Wait /\ Hand' = Hand
  BY DEF Carry, Wait, Hand
<1>. QED
  BY <1>1, <1>2, MemoryIs

\* The bytes charged are what is in memory costs, and never above the budget.
BudgetInv == BudgetConserved /\ used <= Budget

LEMMA BudgetStays ==
    ASSUME BudgetInv, InMemory' = InMemory, UNCHANGED used
    PROVE  BudgetInv'
BY DEF BudgetInv, BudgetConserved

\* Messages that leave memory give back what they cost.
LEMMA BudgetRefunds ==
    ASSUME PlaceInv, FlowInv, BudgetInv, NEW T \in SUBSET InMemory,
           InMemory' = InMemory \ T, Refund(T)
    PROVE  BudgetInv'
<1>1. InMemory \in SUBSET Msgs /\ T \in SUBSET Msgs
  BY CarriedIs
<1>2. used = Cost(InMemory) /\ used' = used - Cost(T) /\ used <= Budget
  BY DEF BudgetInv, BudgetConserved, Refund, Cost
<1>3. Cost(InMemory \ T) = Cost(InMemory) - Cost(T) /\ Cost(T) \in Nat /\ Cost(InMemory) \in Nat
  BY <1>1, CostIs
<1>4. Budget \in Nat
  BY PipelineAssumption DEF PipelineAssumption
<1>5. used' = Cost(InMemory)' /\ used' <= Budget
  <2>1. Cost(InMemory)' = Cost(InMemory \ T)
    BY DEF Cost
  <2>. QED
    BY <1>2, <1>3, <1>4, <2>1
<1>. QED
  BY <1>5 DEF BudgetInv, BudgetConserved, Cost

\* What one fetcher, one channel or one appender has, nobody else has.
LEMMA AloneInMemory ==
    ASSUME PlaceInv, FlowInv
    PROVE  /\ \A w \in Fetchers :
                 /\ \A v \in Fetchers : v # w => Batch(w) \cap Carried(v) = {}
                 /\ Batch(w) \cap (Wait \cup Hand) = {}
           /\ \A a \in Appenders :
                 /\ \A b \in Appenders : b # a => Item(a) \cap Item(b) = {}
                 /\ Item(a) \cap (Wait \cup Carry) = {}
           /\ \A f \in Folders :
                 /\ \A g \in Folders : g # f => Waiting(f) \cap Waiting(g) = {}
                 /\ Waiting(f) \cap (Hand \cup Carry) = {}
<1>0. \A w \in Fetchers : Carried(w) \subseteq Batch(w)
  BY CarriedIs
<1>1. ASSUME NEW w \in Fetchers, NEW f \in Folders PROVE Batch(w) \cap Waiting(f) = {}
  BY Home DEF FlowInv, Ordered, Apart
<1>2. ASSUME NEW a \in Appenders, NEW f \in Folders PROVE Item(a) \cap Waiting(f) = {}
  BY Home DEF FlowInv, Ordered, Apart
<1>3. ASSUME NEW f \in Folders, NEW g \in Folders, f # g PROVE Waiting(f) \cap Waiting(g) = {}
  BY <1>3, Home DEF FlowInv, Ordered
<1>4. \A w \in Fetchers : \A a \in Appenders : Batch(w) \cap Item(a) = {}
  BY DEF FlowInv, Apart
<1>5. \A w \in Fetchers : /\ \A v \in Fetchers : v # w => Batch(w) \cap Carried(v) = {}
                          /\ Batch(w) \cap (Wait \cup Hand) = {}
  BY <1>0, <1>1, <1>4 DEF FlowInv, Apart, Wait, Hand
<1>6. \A a \in Appenders : /\ \A b \in Appenders : b # a => Item(a) \cap Item(b) = {}
                           /\ Item(a) \cap (Wait \cup Carry) = {}
  BY <1>0, <1>2, <1>4 DEF FlowInv, Apart, Wait, Carry
<1>7. \A f \in Folders : /\ \A g \in Folders : g # f => Waiting(f) \cap Waiting(g) = {}
                         /\ Waiting(f) \cap (Hand \cup Carry) = {}
  BY <1>0, <1>1, <1>2, <1>3 DEF Hand, Carry
<1>. QED
  BY <1>5, <1>6, <1>7

\* What a fetcher would carry there.
Carries(to, left) == IF to \in {"body", "send"} THEN {Head(left)} ELSE {}

LEMMA FetcherCarries ==
    ASSUME PlaceInv, FlowInv, NEW w \in Fetchers, NEW to, NEW left, Fetcher(w, to, left),
           UNCHANGED <<flow, appender>>
    PROVE  InMemory' = (InMemory \ Carried(w)) \cup Carries(to, left)
<1>1. /\ fetcher'[w].at = to /\ fetcher'[w].batch = left
      /\ \A v \in Fetchers : v # w => fetcher'[v] = fetcher[v]
  <2>1. /\ fetcher' = [fetcher EXCEPT ![w] = [at |-> to, batch |-> left]]
        /\ DOMAIN fetcher = Fetchers
    BY TypesNow DEF Fetcher
  <2>2. fetcher'[w] = [at |-> to, batch |-> left]
    BY <2>1
  <2>. QED
    BY <2>1, <2>2
<1>2. /\ Carried(w)' = Carries(to, left)
      /\ \A v \in Fetchers : v # w => Carried(v)' = Carried(v)
  BY <1>1 DEF Carried, Carries
<1>3. Wait' = Wait /\ Hand' = Hand
  BY DEF Wait, Hand, Waiting, Item
<1>4. (InMemory = Carry \cup Wait \cup Hand)'
  BY MemoryIs, PTL
<1>5. Carried(w) \cap (Wait \cup Hand) = {} /\ \A v \in Fetchers : v # w => Carried(w) \cap Carried(v) = {}
  BY AloneInMemory, CarriedIs
<1>6. Carry' = (Carry \ Carried(w)) \cup Carries(to, left)
  BY <1>2, <1>5 DEF Carry
<1>. QED
  BY <1>3, <1>4, <1>5, <1>6, MemoryIs

LEMMA AppenderHolds ==
    ASSUME PlaceInv, FlowInv, NEW a \in Appenders, NEW to, NEW item, Appender(a, to, item),
           UNCHANGED fetcher, \A f \in Folders : flow'[f].pending = flow[f].pending
    PROVE  InMemory' = (InMemory \ Item(a)) \cup item
<1>1. /\ appender'[a].item = item
      /\ \A b \in Appenders : b # a => appender'[b] = appender[b]
  <2>1. /\ appender' = [appender EXCEPT ![a] = [at |-> to, item |-> item]]
        /\ DOMAIN appender = Appenders
    BY TypesNow DEF Appender
  <2>2. appender'[a] = [at |-> to, item |-> item]
    BY <2>1
  <2>. QED
    BY <2>1, <2>2
<1>2. Item(a)' = item /\ \A b \in Appenders : b # a => Item(b)' = Item(b)
  BY <1>1 DEF Item
<1>3. Wait' = Wait /\ Carry' = Carry
  BY DEF Wait, Carry, Waiting, Carried
<1>4. (InMemory = Carry \cup Wait \cup Hand)'
  BY MemoryIs, PTL
<1>5. Item(a) \cap (Wait \cup Carry) = {} /\ \A b \in Appenders : b # a => Item(a) \cap Item(b) = {}
  BY AloneInMemory
<1>6. Hand' = (Hand \ Item(a)) \cup item
  BY <1>2, <1>5 DEF Hand
<1>. QED
  BY <1>3, <1>4, <1>5, <1>6, MemoryIs

LEMMA FetcherKeepsBudget ==
    ASSUME PlaceInv, FlowInv, BudgetInv, NEW w \in Fetchers, FetcherStep(w)
    PROVE  BudgetInv'
<1>. DEFINE at == fetcher[w].at
            batch == fetcher[w].batch
            m == Head(batch)
            f == w[1]
<1>0. /\ batch \in Seq(Msgs) /\ IsInjective(batch) /\ f \in Folders /\ flow[f] \in Flows
      /\ DOMAIN flow = Folders
      /\ at \in {"charge", "body", "send"} => batch # <<>>
      /\ batch # <<>> => m \in Batch(w) /\ m \in Msgs
      /\ Carried(w) \subseteq InMemory
  <2>1. /\ batch \in Seq(Msgs) /\ f \in Folders /\ flow[f] \in Flows /\ DOMAIN flow = Folders
        /\ batch # <<>> => m \in Msgs
    BY FetcherFacts, TypesNow
  <2>2. IsInjective(batch) /\ (at \in {"charge", "body", "send"} => batch # <<>>)
    BY DEF FlowInv, Ordered, PlaceInv, Hands
  <2>3. batch # <<>> => m \in Batch(w)
    BY <2>1, <2>2, TailSet DEF Batch
  <2>4. Carried(w) \subseteq InMemory
    BY MemoryIs DEF Carry
  <2>. QED
    BY <2>1, <2>2, <2>3, <2>4
\* Neither here nor there does it carry anything.
<1>1. ASSUME NEW to, NEW left, Fetcher(w, to, left), at \notin {"body", "send"},
             to \notin {"body", "send"}, UNCHANGED <<flow, appender, used>>
      PROVE  BudgetInv'
  <2>1. Carried(w) = {} /\ Carries(to, left) = {}
    BY <1>1 DEF Carried, Carries
  <2>2. InMemory' = (InMemory \ Carried(w)) \cup Carries(to, left)
    BY <1>1, FetcherCarries
  <2>. QED
    BY <1>1, <2>1, <2>2, BudgetStays
\* It lets go of what it carried.
<1>2. ASSUME NEW to, NEW left, Fetcher(w, to, left), at \in {"body", "send"},
             to \notin {"body", "send"}, UNCHANGED <<flow, appender>>, Refund({m})
      PROVE  BudgetInv'
  <2>1. Carried(w) = {m} /\ Carries(to, left) = {}
    BY <1>2 DEF Carried, Carries
  <2>2. InMemory' = (InMemory \ Carried(w)) \cup Carries(to, left)
    BY <1>2, FetcherCarries
  <2>3. InMemory' = InMemory \ {m} /\ {m} \in SUBSET InMemory
    BY <1>0, <2>1, <2>2
  <2>. QED
    BY <1>2, <2>3, BudgetRefunds
<1>3. CASE LeaseSource(w)
  <2>1. UNCHANGED <<flow, fetcher, appender, used>>
    BY <1>3 DEF LeaseSource
  <2>. QED
    BY <2>1, MemoryStays, BudgetStays DEF Carried, Waiting, Item
<1>4. CASE GetsChunk(w)
  <2>1. /\ at = "draw" /\ Fetcher(w, "meta", Head(flow[f].chunks))
        /\ flow' = [flow EXCEPT ![f].chunks = Tail(@)] /\ UNCHANGED <<appender, used>>
    BY <1>4 DEF GetsChunk
  <2>2. \A g \in Folders : flow'[g].pending = flow[g].pending
    BY <1>0, <2>1
  <2>3. \A v \in Fetchers : Carried(v)' = Carried(v)
    <3>1. fetcher'[w] = [at |-> "meta", batch |-> Head(flow[f].chunks)]
      BY <2>1, TypesNow DEF Fetcher
    <3>2. \A v \in Fetchers : v # w => fetcher'[v] = fetcher[v]
      BY <2>1, TypesNow DEF Fetcher
    <3>3. fetcher'[w].at = "meta"
      BY <3>1
    <3>. QED
      BY <2>1, <3>2, <3>3 DEF Carried
  <2>. QED
    BY <2>1, <2>2, <2>3, MemoryStays, BudgetStays DEF Waiting, Item
<1>5. CASE NoMoreChunks(w)
  BY <1>1, <1>5 DEF NoMoreChunks
<1>6. CASE ReadsHeaders(w)
  BY <1>1, <1>6 DEF ReadsHeaders
<1>7. CASE HeadersFail(w)
  BY <1>1, <1>7 DEF HeadersFail
<1>8. CASE Adopts(w)
  BY <1>1, <1>8 DEF Adopts
<1>9. CASE Begins(w)
  BY <1>1, <1>9 DEF Begins
<1>10. CASE Charged(w)
  <2>1. /\ at = "charge" /\ Fits(w) /\ used' = used + Charge(m) /\ Fetcher(w, "body", batch)
        /\ UNCHANGED <<flow, appender>> /\ m \in Batch(w) /\ m \in Msgs
    BY <1>0, <1>10 DEF Charged
  <2>2. Carried(w) = {} /\ Carries("body", batch) = {m}
    BY <2>1 DEF Carried, Carries
  <2>3. InMemory' = (InMemory \ Carried(w)) \cup Carries("body", batch)
    BY <2>1, FetcherCarries
  <2>4. InMemory' = InMemory \cup {m}
    BY <2>2, <2>3
  <2>5. m \notin InMemory
    <3>1. m \notin Wait \cup Hand
      BY <2>1, AloneInMemory
    <3>2. \A v \in Fetchers : m \notin Carried(v)
      BY <2>1, <2>2, AloneInMemory
    <3>. QED
      BY <3>1, <3>2, MemoryIs DEF Carry
  <2>6. InMemory \cup {m} \in SUBSET Msgs /\ (InMemory \cup {m}) \ {m} = InMemory
    BY <2>1, <2>5, CarriedIs
  <2>7. Cost(InMemory \cup {m}) = Charge(m) + Cost(InMemory)
    BY <2>6, CostIs
  <2>8. Cost(InMemory)' = Cost(InMemory \cup {m})
    BY <2>4 DEF Cost
  <2>9. used = Cost(InMemory) /\ used + Charge(m) <= Budget
    BY <2>1 DEF Fits, BudgetInv, BudgetConserved, Cost
  <2>10. Charge(m) \in Int /\ Cost(InMemory) \in Int
    BY <2>1, ChargeIs, CarriedIs, CostIs
  <2>11. used' = Cost(InMemory)' /\ used' <= Budget
    BY <2>1, <2>7, <2>8, <2>9, <2>10
  <2>. QED
    BY <2>11 DEF BudgetInv, BudgetConserved, Cost
<1>11. CASE ReadsBody(w)
  <2>1. /\ at = "body" /\ Fetcher(w, "send", batch) /\ UNCHANGED <<flow, appender, used>>
    BY <1>11 DEF ReadsBody
  <2>2. Carried(w) = {m} /\ Carries("send", batch) = {m}
    BY <2>1 DEF Carried, Carries
  <2>3. InMemory' = (InMemory \ Carried(w)) \cup Carries("send", batch)
    BY <2>1, FetcherCarries
  <2>4. InMemory' = InMemory
    BY <1>0, <2>2, <2>3
  <2>. QED
    BY <2>1, <2>4, BudgetStays
<1>12. CASE NothingToSend(w)
  BY <1>2, <1>12 DEF NothingToSend
<1>13. CASE Sends(w)
  <2>1. /\ at = "send" /\ Fetcher(w, "run", Tail(batch))
        /\ flow' = [flow EXCEPT ![f].pending = Append(@, m)] /\ UNCHANGED <<appender, used>>
    BY <1>13 DEF Sends
  <2>2. /\ flow'[f].pending = Append(flow[f].pending, m)
        /\ \A g \in Folders : g # f => flow'[g] = flow[g]
    BY <1>0, <2>1
  <2>3. Waiting(f)' = Waiting(f) \cup {m} /\ \A g \in Folders : g # f => Waiting(g)' = Waiting(g)
    BY <1>0, <2>1, <2>2, AppendSet DEF Waiting, Flows
  <2>4. Carried(w) = {m} /\ Carried(w)' = {} /\ \A v \in Fetchers : v # w => Carried(v)' = Carried(v)
    <3>1. fetcher'[w] = [at |-> "run", batch |-> Tail(batch)]
      BY <2>1, TypesNow DEF Fetcher
    <3>2. \A v \in Fetchers : v # w => fetcher'[v] = fetcher[v]
      BY <2>1, TypesNow DEF Fetcher
    <3>3. fetcher'[w].at = "run"
      BY <3>1
    <3>. QED
      BY <2>1, <3>2, <3>3 DEF Carried
  <2>5. Hand' = Hand
    BY <2>1 DEF Hand, Item
  <2>. HIDE DEF m
  <2>6. Wait' = Wait \cup {m}
    BY <1>0, <2>3 DEF Wait
  <2>7. Carry = Carry' \cup {m}
    BY <2>4 DEF Carry
  <2>8. (InMemory = Carry \cup Wait \cup Hand)'
    BY MemoryIs, PTL
  <2>9. InMemory' = InMemory
    BY <2>5, <2>6, <2>7, <2>8, MemoryIs
  <2>. QED
    BY <2>1, <2>9, BudgetStays
<1>14. CASE FetchFails(w)
  <2>1. /\ UNCHANGED <<flow, appender>>
        /\ \E to, left : Fetcher(w, to, left) /\ to \notin {"body", "send"}
        /\ IF at \in {"body", "send"} THEN Refund({m}) ELSE UNCHANGED used
    <3>1. \/ Fetcher(w, "gaveUp", <<>>)
          \/ Fetcher(w, "run", batch)
          \/ Fetcher(w, "run", Tail(batch))
      BY <1>14 DEF FetchFails, Resume
    <3>2. \E to, left : Fetcher(w, to, left) /\ to \notin {"body", "send"}
      <4>1. "gaveUp" \notin {"body", "send"} /\ "run" \notin {"body", "send"}
        OBVIOUS
      <4>. QED
        BY <3>1, <4>1
    <3>. QED
      BY <1>14, <3>2 DEF FetchFails
  <2>. QED
    BY <1>1, <1>2, <2>1
<1>15. CASE ChunkDone(w)
  BY <1>1, <1>15 DEF ChunkDone
<1>. QED
  BY <1>3, <1>4, <1>5, <1>6, <1>7, <1>8, <1>9, <1>10, <1>11, <1>12, <1>13, <1>14, <1>15
  DEF FetcherStep

LEMMA AppenderKeepsBudget ==
    ASSUME PlaceInv, FlowInv, BudgetInv, NEW a \in Appenders, AppenderStep(a)
    PROVE  BudgetInv'
<1>. DEFINE at == appender[a].at
            item == appender[a].item
            f == a[1]
<1>0. /\ f \in Folders /\ DOMAIN flow = Folders /\ flow[f] \in Flows
      /\ at \notin {"append", "look", "find"} => Item(a) = {}
      /\ item = Item(a) /\ Item(a) \subseteq InMemory
  <2>1. f \in Folders /\ DOMAIN flow = Folders /\ flow[f] \in Flows
    BY Home, TypesNow
  <2>2. Item(a) \subseteq InMemory
    BY MemoryIs DEF Hand
  <2>. QED
    BY <2>1, <2>2 DEF PlaceInv, Hands, Item
<1>1. ASSUME NEW to, Appender(a, to, {}), UNCHANGED fetcher, Refund(item),
             \A g \in Folders : flow'[g].pending = flow[g].pending
      PROVE  BudgetInv'
  <2>1. InMemory' = (InMemory \ Item(a)) \cup {}
    BY <1>1, AppenderHolds
  <2>. QED
    BY <1>0, <1>1, <2>1, BudgetRefunds
<1>2. ASSUME NEW to, Appender(a, to, item), UNCHANGED <<fetcher, flow, used>>
      PROVE  BudgetInv'
  <2>1. InMemory' = (InMemory \ Item(a)) \cup item
    BY <1>2, AppenderHolds
  <2>. QED
    BY <1>0, <1>2, <2>1, BudgetStays
<1>3. ASSUME Finish(a, "done") \/ Finish(a, "failed"), UNCHANGED <<fetcher, flow>>
      PROVE  BudgetInv'
  BY <1>1, <1>3 DEF Finish
<1>4. ASSUME GiveUp(a), UNCHANGED fetcher
      PROVE  BudgetInv'
  <2>1. \A g \in Folders : flow'[g].pending = flow[g].pending
    BY <1>0, <1>4 DEF GiveUp, Flows
  <2>. QED
    BY <1>1, <1>4, <2>1 DEF GiveUp
<1>5. CASE LeaseDest(a)
  BY <1>5, MemoryStays, BudgetStays DEF LeaseDest, Carried, Waiting, Item
<1>6. CASE TakesItem(a)
  <2>. DEFINE pending == flow[f].pending
              m == Head(pending)
  <2>1. /\ at = "take" /\ pending # <<>> /\ flow' = [flow EXCEPT ![f].pending = Tail(@)]
        /\ Appender(a, "append", {m}) /\ UNCHANGED <<fetcher, used>>
    BY <1>6 DEF TakesItem
  <2>2. flow'[f].pending = Tail(pending) /\ \A g \in Folders : g # f => flow'[g] = flow[g]
    BY <1>0, <2>1
  <2>3. pending \in Seq(Msgs) /\ IsInjective(pending)
    BY <1>0 DEF Flows, FlowInv, Ordered
  <2>4. /\ Waiting(f)' = Waiting(f) \ {m} /\ m \in Waiting(f)
        /\ \A g \in Folders : g # f => Waiting(g)' = Waiting(g)
    BY <2>1, <2>2, <2>3, TailSet DEF Waiting
  <2>5. /\ Item(a) = {} /\ Item(a)' = {m}
        /\ \A b \in Appenders : b # a => Item(b)' = Item(b)
    <3>1. appender'[a] = [at |-> "append", item |-> {m}]
      BY <2>1, TypesNow DEF Appender
    <3>2. \A b \in Appenders : b # a => appender'[b] = appender[b]
      BY <2>1, TypesNow DEF Appender
    <3>. QED
      BY <1>0, <2>1, <3>1, <3>2 DEF Item
  <2>6. Carry' = Carry
    BY <2>1 DEF Carry, Carried
  <2>. HIDE DEF m, pending
  <2>7. Wait = Wait' \cup {m}
    BY <1>0, <2>4 DEF Wait
  <2>8. Hand' = Hand \cup {m}
    BY <2>5 DEF Hand
  <2>9. (InMemory = Carry \cup Wait \cup Hand)'
    BY MemoryIs, PTL
  <2>10. InMemory' = InMemory
    BY <2>6, <2>7, <2>8, <2>9, MemoryIs
  <2>. QED
    BY <2>1, <2>10, BudgetStays
<1>7. CASE NoMoreItems(a)
  <2>1. item = {} /\ Appender(a, "returned", {}) /\ UNCHANGED <<fetcher, flow, used>>
    BY <1>0, <1>7 DEF NoMoreItems
  <2>. QED
    BY <1>2, <2>1
<1>8. CASE Appended(a)
  BY <1>2, <1>3, <1>8 DEF Appended
<1>9. CASE AppendFails(a)
  BY <1>2, <1>3, <1>4, <1>9 DEF AppendFails
<1>10. CASE Looked(a)
  BY <1>2, <1>3, <1>10 DEF Looked
<1>11. CASE LookFails(a)
  BY <1>4, <1>11 DEF LookFails
<1>. QED
  BY <1>5, <1>6, <1>7, <1>8, <1>9, <1>10, <1>11 DEF AppenderStep

LEMMA FolderKeepsBudget ==
    ASSUME PlaceInv, FlowInv, BudgetInv, NEW f \in Folders, FolderStep(f)
    PROVE  BudgetInv'
<1>0. DOMAIN flow = Folders /\ \A g \in Folders : flow[g] \in Flows
  BY TypesNow
<1>1. ASSUME UNCHANGED <<fetcher, appender, used>>,
             \A g \in Folders : flow'[g].pending = flow[g].pending
      PROVE  BudgetInv'
  BY <1>1, MemoryStays, BudgetStays DEF Carried, Waiting, Item
<1>2. CASE Indexed(f)
  <2>1. PICK R \in SUBSET Readers, W \in SUBSET Writers :
           /\ fetcher' = [w \in Fetchers |->
                 IF w[1] # f THEN fetcher[w]
                 ELSE IF w[2] \in R THEN [at |-> "draw", batch |-> <<>>] ELSE NoBatch]
           /\ appender' = [a \in Appenders |->
                 IF a[1] # f THEN appender[a]
                 ELSE IF a[2] \in W THEN [at |-> "take", item |-> {}] ELSE NoItem]
    BY <1>2 DEF Indexed, kSubset
  <2>2. Vacant(f) /\ UNCHANGED used
    BY <1>2 DEF Indexed, PlaceInv, OnlyCopies
  <2>3. /\ \A w \in Fetchers : w[1] = f => fetcher[w].batch = <<>>
        /\ \A a \in Appenders : a[1] = f => Item(a) = {}
    BY <2>2, VacantHoldsNothing
  <2>4. \A w \in Fetchers : Carried(w)' = Carried(w)
    <3>1. \A w \in Fetchers : w[1] = f => Carried(w) = {}
      BY <2>3 DEF PlaceInv, Hands, Carried
    <3>2. \A w \in Fetchers : w[1] = f => Carried(w)' = {}
      BY <2>1 DEF Carried, NoBatch
    <3>3. \A w \in Fetchers : w[1] # f => Carried(w)' = Carried(w)
      BY <2>1 DEF Carried
    <3>. QED
      BY <3>1, <3>2, <3>3
  <2>5. \A a \in Appenders : Item(a)' = Item(a)
    BY <2>1, <2>3 DEF Item, NoItem
  <2>6. \A g \in Folders : flow'[g].pending = flow[g].pending
    <3>1. flow[f].pending = <<>>
      BY <2>2 DEF Vacant
    <3>2. flow'[f].pending = <<>> /\ \A g \in Folders : g # f => flow'[g] = flow[g]
      BY <1>0, <1>2 DEF Indexed, Idle
    <3>. QED
      BY <3>1, <3>2
  <2>. QED
    BY <2>2, <2>4, <2>5, <2>6, MemoryStays, BudgetStays DEF Waiting
<1>3. CASE ProducerQuits(f)
  <2>1. \A g \in Folders : flow'[g].pending = flow[g].pending
    BY <1>0, <1>3 DEF ProducerQuits, Flows
  <2>. QED
    BY <1>1, <1>3, <2>1 DEF ProducerQuits
<1>4. CASE Seals(f)
  <2>1. \A g \in Folders : flow'[g].pending = flow[g].pending
    BY <1>0, <1>4 DEF Seals, Flows
  <2>. QED
    BY <1>1, <1>4, <2>1 DEF Seals
<1>5. CASE CopyEnds(f)
  <2>1. /\ flow' = [flow EXCEPT ![f].pending = <<>>] /\ Refund(Waiting(f))
        /\ UNCHANGED <<fetcher, appender>>
    BY <1>5 DEF CopyEnds, Leftovers, Waiting
  <2>2. Waiting(f)' = {} /\ \A g \in Folders : g # f => Waiting(g)' = Waiting(g)
    BY <1>0, <2>1, NothingCut DEF Waiting
  <2>3. Carry' = Carry /\ Hand' = Hand
    BY <2>1 DEF Carry, Hand, Carried, Item
  <2>4. /\ \A g \in Folders : g # f => Waiting(f) \cap Waiting(g) = {}
        /\ Waiting(f) \cap (Hand \cup Carry) = {}
    BY AloneInMemory
  <2>5. Wait' = Wait \ Waiting(f) /\ Waiting(f) \subseteq Wait
    BY <2>2, <2>4 DEF Wait
  <2>6. (InMemory = Carry \cup Wait \cup Hand)'
    BY MemoryIs, PTL
  <2>7. InMemory' = InMemory \ Waiting(f) /\ Waiting(f) \in SUBSET InMemory
    BY <2>3, <2>4, <2>5, <2>6, MemoryIs
  <2>. QED
    BY <2>1, <2>7, BudgetRefunds
<1>6. CASE UNCHANGED <<flow, fetcher, appender, used>>
  BY <1>1, <1>6
<1>. QED
  BY <1>2, <1>3, <1>4, <1>5, <1>6
  DEF FolderStep, LeaseSource, LeaseDest, Reaches, Starts, LeavesOut, Unchanged,
      Selects, Diffs, PrepareFails, Visits, VisitFails

\* The bytes charged to the budget are what the messages in memory cost, and never
\* more than the budget (budget.go:73-98, syncer.go:1907-1913).
THEOREM BudgetInvariant == Spec => []BudgetInv
<1>1. ASSUME Init PROVE BudgetInv
  <2>1. /\ \A f \in Folders : flow[f].pending = <<>>
        /\ \A w \in Fetchers : fetcher[w].at = "returned"
        /\ \A a \in Appenders : appender[a].item = {}
    BY <1>1 DEF Init, Idle, NoBatch, NoItem
  <2>2. Carry = {} /\ Wait = {} /\ Hand = {}
    BY <2>1, NothingCut DEF Carry, Wait, Hand, Carried, Waiting, Item
  <2>3. InMemory = {}
    BY <2>2, MemoryIs
  <2>4. used = 0 /\ Cost(InMemory) = 0 /\ Budget \in Nat
    BY <1>1, <2>3, CostIs, PipelineAssumption DEF Init, PipelineAssumption
  <2>. QED
    BY <2>4 DEF BudgetInv, BudgetConserved, Cost
<1>2. PlaceInv /\ FlowInv /\ BudgetInv /\ [Next]_vars => BudgetInv'
  <2>. SUFFICES ASSUME PlaceInv, FlowInv, BudgetInv, [Next]_vars PROVE BudgetInv'
    OBVIOUS
  <2>1. CASE SecondPass \/ Interrupt \/ UNCHANGED vars
    BY <2>1, MemoryStays, BudgetStays DEF SecondPass, Interrupt, vars, Carried, Waiting, Item
  <2>. QED
    BY <2>1, FolderKeepsBudget, FetcherKeepsBudget, AppenderKeepsBudget DEF Next, Work
<1>. QED
  BY <1>1, <1>2, PlaceInvariant, FlowInvariant, PTL DEF Spec

\* No path through fetchOne, deliver or the end of copyFolder forgets a refund or makes
\* it twice: what is charged is what the messages in memory cost (syncer.go:1907-1913,
\* budget.go:73-98).
THEOREM BudgetIsConserved == Spec => []BudgetConserved
<1>1. BudgetInv => BudgetConserved
  BY DEF BudgetInv
<1>. QED
  BY <1>1, BudgetInvariant, PTL

-----------------------------------------------------------------------------
(* What the budget bounds: the bytes in memory *)

Bytes(S) == MapThenSumSet(LAMBDA m : Size[m], S)

LEMMA BytesIs ==
    /\ Bytes({}) = 0
    /\ \A S \in SUBSET Msgs :
          /\ Bytes(S) \in Nat
          /\ \A m \in S : Bytes(S) = Size[m] + Bytes(S \ {m})
<1>1. \A S \in SUBSET Msgs : Bytes(S) = Sizes!Sum(S)
  BY Zenon DEF Bytes, MapThenSumSet, MapThenFoldSet, Sizes!Sum, Sizes!MapThenSumSet,
               Sizes!MapThenFoldSet
<1>2. \A S : IsFiniteSet(S) <=> Sizes!IsFiniteSet(S)
  BY DEF IsFiniteSet, Sizes!IsFiniteSet
<1>3. \A S \in SUBSET Msgs : Sizes!IsFiniteSet(S) /\ Sizes!Weighed(S)
  BY <1>2, MsgsFinite, FS_Subset, ChargeIs DEF Sizes!Weighed
<1>4. Sizes!Sum({}) = 0
  BY Sizes!SumEmpty
<1>5. \A S \in SUBSET Msgs : Sizes!Sum(S) \in Nat
  BY <1>3, Sizes!SumType
<1>6. \A S \in SUBSET Msgs : \A m \in S : Sizes!Sum(S) = Size[m] + Sizes!Sum(S \ {m})
  BY <1>3, Sizes!SumTake
<1>7. \A S \in SUBSET Msgs : \A m \in S : S \ {m} \in SUBSET Msgs
  OBVIOUS
<1>8. {} \in SUBSET Msgs
  OBVIOUS
<1>. HIDE DEF Bytes
<1>. QED
  BY <1>1, <1>4, <1>5, <1>6, <1>7, <1>8

\* Messages that cost what they weigh weigh no more than they cost.
LEMMA BytesBelowCost ==
    ASSUME NEW S \in SUBSET Msgs, \A m \in S : Size[m] <= Charge(m)
    PROVE  Bytes(S) <= Cost(S)
<1>. DEFINE B == {n \in Nat : \A s \in SUBSET S : Cardinality(s) = n => Bytes(s) <= Cost(s)}
<1>0. \A s \in SUBSET S : /\ IsFiniteSet(s) /\ Cardinality(s) \in Nat /\ s \in SUBSET Msgs
                          /\ Bytes(s) \in Nat /\ Cost(s) \in Nat
  BY MsgsFinite, FS_Subset, FS_CardinalityType, BytesIs, CostIs
<1>1. 0 \in B
  <2>1. \A s \in SUBSET S : Cardinality(s) = 0 => s = {}
    BY <1>0, FS_EmptySet
  <2>2. Bytes({}) <= Cost({})
    BY BytesIs, CostIs
  <2>. QED
    BY <2>1, <2>2
<1>2. ASSUME NEW n \in B PROVE n + 1 \in B
  <2>. SUFFICES ASSUME NEW s \in SUBSET S, Cardinality(s) = n + 1
                PROVE  Bytes(s) <= Cost(s)
    OBVIOUS
  <2>0. s # {} /\ IsFiniteSet(s) /\ n \in Nat
    BY <1>0, FS_EmptySet
  <2>1. PICK m \in s : TRUE
    BY <2>0
  <2>. DEFINE rest == s \ {m}
  <2>2. rest \in SUBSET S /\ Cardinality(rest) = n
    <3>1. Cardinality(s \ {m}) = Cardinality(s) - 1
      BY <2>0, <2>1, FS_RemoveElement
    <3>. QED
      BY <2>0, <3>1
  <2>3. Bytes(rest) <= Cost(rest)
    BY <1>2, <2>2
  <2>4. Bytes(s) = Size[m] + Bytes(rest) /\ Cost(s) = Charge(m) + Cost(rest)
    BY <1>0, <2>1, BytesIs, CostIs
  <2>5. Size[m] <= Charge(m) /\ Size[m] \in Int /\ Charge(m) \in Int
    BY <2>1, ChargeIs
  <2>6. Bytes(rest) \in Int /\ Cost(rest) \in Int
    BY <1>0, <2>2
  <2>. HIDE DEF rest
  <2>. QED
    BY <2>3, <2>4, <2>5, <2>6
<1>3. B = Nat
  <2>. HIDE DEF B
  <2>1. B \in SUBSET Nat
    BY DEF B
  <2>. QED
    BY <1>1, <1>2, <2>1, Charges!FromZero
<1>. QED
  BY <1>0, <1>3

\* The larger of the budget and the largest message exists.
LEMMA LargestIs ==
    LET S == {Budget} \cup {Size[m] : m \in Msgs}
    IN  Max(S) \in Nat /\ \A y \in S : y <= Max(S)
<1>. DEFINE S == {Budget} \cup {Size[m] : m \in Msgs}
            b == Budget + Bytes(Msgs)
<1>0. Budget \in Nat /\ \A m \in Msgs : Size[m] \in Nat
  BY PipelineAssumption DEF PipelineAssumption
<1>1. S \in SUBSET Nat /\ S # {}
  BY <1>0
<1>2. Bytes(Msgs) \in Nat /\ \A m \in Msgs : Size[m] <= Bytes(Msgs)
  <2>1. Bytes(Msgs) \in Nat
    BY BytesIs
  <2>2. ASSUME NEW m \in Msgs PROVE Size[m] <= Bytes(Msgs)
    <3>1. Bytes(Msgs) = Size[m] + Bytes(Msgs \ {m})
      BY BytesIs
    <3>2. Bytes(Msgs \ {m}) \in Nat
      BY BytesIs
    <3>. QED
      BY <1>0, <2>1, <3>1, <3>2
  <2>. QED
    BY <2>1, <2>2
<1>3. b \in Nat /\ \A y \in S : y <= b
  <2>1. b \in Nat /\ Budget <= b
    BY <1>0, <1>2
  <2>2. \A m \in Msgs : Size[m] <= b
    BY <1>0, <1>2
  <2>. QED
    BY <2>1, <2>2
<1>. HIDE DEF S, b
<1>4. \E x \in S : \A y \in S : x >= y
  BY <1>1, <1>3, Charges!Greatest
<1>5. Max(S) \in S /\ \A y \in S : Max(S) >= y
  BY <1>4 DEF Max
<1>6. Max(S) \in Nat /\ \A y \in S : y <= Max(S)
  BY <1>1, <1>5
<1>. QED
  BY <1>6 DEF S

\* "The honest bound is therefore max(budget, largest single message)"
\* (budget.go:24-26): a message larger than the budget is in memory alone, and any
\* others together fit into it.
THEOREM MemoryIsBounded == Spec => []MemoryBound
<1>1. ASSUME PlaceInv, FlowInv, BudgetInv PROVE MemoryBound
  <2>. DEFINE top == Max({Budget} \cup {Size[m] : m \in Msgs})
  <2>1. top \in Nat /\ Budget <= top /\ \A m \in Msgs : Size[m] <= top
    BY LargestIs
  <2>. HIDE DEF top
  <2>2. InMemory \in SUBSET Msgs /\ Cost(InMemory) \in Nat /\ Bytes(InMemory) \in Nat
    BY <1>1, CarriedIs, CostIs, BytesIs
  <2>3. Cost(InMemory) <= Budget /\ Budget \in Nat
    BY <1>1, PipelineAssumption DEF BudgetInv, BudgetConserved, Cost, PipelineAssumption
  <2>4. CASE \A m \in InMemory : Size[m] <= Charge(m)
    <3>1. Bytes(InMemory) <= Cost(InMemory)
      BY <2>2, <2>4, BytesBelowCost
    <3>. QED
      BY <2>1, <2>2, <2>3, <3>1 DEF MemoryBound, Bytes, top
  <2>5. CASE \E m \in InMemory : Size[m] > Charge(m)
    <3>1. PICK m \in InMemory : Size[m] > Charge(m)
      BY <2>5
    <3>. DEFINE rest == InMemory \ {m}
    <3>2. m \in Msgs /\ Charge(m) = Budget /\ Size[m] \in Nat
      BY <2>2, <3>1, ChargeIs
    <3>3. rest \in SUBSET Msgs /\ Cost(rest) \in Nat /\ Bytes(rest) \in Nat
      BY <2>2, CostIs, BytesIs
    <3>4. Cost(InMemory) = Charge(m) + Cost(rest) /\ Bytes(InMemory) = Size[m] + Bytes(rest)
      BY <2>2, <3>1, CostIs, BytesIs
    <3>5. Cost(rest) = 0
      BY <2>3, <3>2, <3>3, <3>4
    <3>6. rest = {}
      <4>. SUFFICES ASSUME NEW x \in rest PROVE FALSE
        OBVIOUS
      <4>1. Cost(rest) = Charge(x) + Cost(rest \ {x})
        BY <3>3, CostIs
      <4>2. Charge(x) >= 1 /\ Charge(x) \in Int
        BY <3>3, ChargeIs
      <4>3. rest \ {x} \in SUBSET Msgs
        BY <3>3
      <4>4. Cost(rest \ {x}) \in Nat
        BY <4>3, CostIs
      <4>. QED
        BY <3>5, <4>1, <4>2, <4>4
    <3>. HIDE DEF rest
    <3>7. Bytes(InMemory) = Size[m]
      BY <3>2, <3>4, <3>6, BytesIs
    <3>8. Bytes(InMemory) <= top
      BY <2>1, <3>2, <3>7
    <3>. QED
      BY <3>8 DEF MemoryBound, Bytes, top
  <2>6. \A m \in InMemory : Size[m] \in Int /\ Charge(m) \in Int
    BY <2>2, ChargeIs
  <2>. QED
    BY <2>4, <2>5, <2>6
<1>. QED
  BY <1>1, PlaceInvariant, FlowInvariant, BudgetInvariant, PTL
====
