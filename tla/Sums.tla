-------------------------------- MODULE Sums --------------------------------
(***************************************************************************)
(* What MapThenSumSet returns of a finite set whose members weigh W, as    *)
(* far as it can be said without a recursive definition: nothing weighs    *)
(* nothing, and a member adds its weight, whichever is taken out first.    *)
(***************************************************************************)
EXTENDS Integers, FiniteSets, FiniteSetsExt, FiniteSetTheorems, WellFoundedInduction, TLAPS

CONSTANT W(_)

Sum(S) == MapThenSumSet(W, S)

\* The function that MapThenSumSet goes through to add up S.
First(s) == CHOOSE x \in s : TRUE
Adds(g, S) ==
    g = [s \in SUBSET S |-> IF s = {} THEN 0 ELSE W(First(s)) + g[s \ {First(s)}]]

-----------------------------------------------------------------------------
LEMMA FromZero ==
    ASSUME NEW B \in SUBSET Nat, 0 \in B, \A n \in B : n + 1 \in B
    PROVE  B = Nat
<1>. DEFINE S == Nat \ B
<1>. SUFFICES ASSUME S # {} PROVE FALSE
  OBVIOUS
<1>1. IsWellFoundedOn(OpToRel(<,Nat), Nat)
  BY NatLessThanWellFounded
<1>2. PICK x \in S : \A y \in S : ~ (<<y, x>> \in OpToRel(<,Nat))
  BY <1>1, WFMin
<1>3. \A y \in S : ~ (y < x)
  BY <1>2 DEF OpToRel
<1>4. x # 0 /\ x - 1 \in Nat
  OBVIOUS
<1>5. x - 1 \in B
  BY <1>3, <1>4
<1>. QED
  BY <1>4, <1>5

LEMMA FirstIsIn ==
    ASSUME NEW s, s # {}
    PROVE  First(s) \in s
  BY DEF First

\* Taking out a member leaves one less.
LEMMA OneLess ==
    ASSUME NEW S, IsFiniteSet(S), NEW x \in S
    PROVE  /\ IsFiniteSet(S \ {x}) /\ Cardinality(S) \in Nat \ {0}
           /\ Cardinality(S \ {x}) = Cardinality(S) - 1
<1>1. IsFiniteSet(S \ {x}) /\ Cardinality(S \ {x}) = Cardinality(S) - 1
  BY FS_RemoveElement
<1>2. Cardinality(S) \in Nat /\ Cardinality(S) # 0
  BY FS_CardinalityType, FS_EmptySet
<1>. QED
  BY <1>1, <1>2

-----------------------------------------------------------------------------
\* The function exists: it is built up over sets of more and more members.
LEMMA AddsExists ==
    ASSUME NEW S, IsFiniteSet(S)
    PROVE  \E g : Adds(g, S)
<1>. DEFINE Upto(n) == {s \in SUBSET S : Cardinality(s) <= n}
            Step(g, s) == IF s = {} THEN 0 ELSE W(First(s)) + g[s \ {First(s)}]
            B == {n \in Nat : \E g : g = [s \in Upto(n) |-> Step(g, s)]}
<1>0. \A s \in SUBSET S : IsFiniteSet(s) /\ Cardinality(s) \in Nat /\ Cardinality(s) <= Cardinality(S)
  BY FS_Subset, FS_CardinalityType
<1>1. 0 \in B
  <2>. DEFINE g == [s \in Upto(0) |-> 0]
  <2>1. \A s \in Upto(0) : s = {}
    BY <1>0, FS_EmptySet
  <2>2. g = [s \in Upto(0) |-> Step(g, s)]
    BY <2>1
  <2>. QED
    BY <2>2
<1>2. ASSUME NEW n \in B PROVE n + 1 \in B
  <2>1. PICK g : g = [s \in Upto(n) |-> Step(g, s)]
    BY <1>2
  <2>. DEFINE h == [s \in Upto(n + 1) |-> Step(g, s)]
  <2>2. \A s \in Upto(n) : s \in Upto(n + 1) /\ h[s] = g[s]
    <3>1. \A s \in Upto(n) : s \in Upto(n + 1)
      BY <1>0
    <3>2. \A s \in Upto(n) : g[s] = Step(g, s)
      BY <2>1
    <3>. QED
      BY <3>1, <3>2
  <2>3. \A s \in Upto(n + 1) : s # {} => s \ {First(s)} \in Upto(n)
    <3>. TAKE s \in Upto(n + 1)
    <3>. HAVE s # {}
    <3>1. First(s) \in s /\ IsFiniteSet(s) /\ Cardinality(s) <= n + 1
      BY FirstIsIn, <1>0
    <3>2. Cardinality(s \ {First(s)}) = Cardinality(s) - 1 /\ Cardinality(s) \in Nat
      BY <3>1, OneLess
    <3>. QED
      BY <3>1, <3>2
  <2>. HIDE DEF Upto
  <2>4. \A s \in Upto(n + 1) : Step(h, s) = Step(g, s)
    BY <2>2, <2>3
  <2>5. h = [s \in Upto(n + 1) |-> Step(h, s)]
    BY <2>4
  <2>. HIDE DEF h, Step
  <2>6. \E f : f = [s \in Upto(n + 1) |-> Step(f, s)]
    BY <2>5
  <2>. QED
    BY <2>6
<1>3. B = Nat
  <2>. HIDE DEF B
  <2>1. B \in SUBSET Nat
    BY DEF B
  <2>. QED
    BY <1>1, <1>2, <2>1, FromZero
<1>4. PICK g : g = [s \in Upto(Cardinality(S)) |-> Step(g, s)]
  BY <1>0, <1>3
<1>5. Upto(Cardinality(S)) = SUBSET S
  BY <1>0
<1>. QED
  BY <1>4, <1>5 DEF Adds

\* Two of them agree where both are defined.
LEMMA AddsAgree ==
    ASSUME NEW S, IsFiniteSet(S), NEW T, NEW g, Adds(g, S), NEW h, Adds(h, T)
    PROVE  \A s \in SUBSET (S \cap T) : g[s] = h[s]
<1>. DEFINE B == {n \in Nat : \A s \in SUBSET (S \cap T) : Cardinality(s) = n => g[s] = h[s]}
<1>0. \A s \in SUBSET (S \cap T) : IsFiniteSet(s) /\ Cardinality(s) \in Nat
  BY FS_Subset, FS_CardinalityType
<1>1. \A s \in SUBSET (S \cap T) :
         /\ s # {} => g[s] = W(First(s)) + g[s \ {First(s)}]
         /\ s # {} => h[s] = W(First(s)) + h[s \ {First(s)}]
         /\ s = {} => g[s] = h[s]
  BY DEF Adds
<1>2. 0 \in B
  BY <1>0, <1>1, FS_EmptySet
<1>3. ASSUME NEW n \in B PROVE n + 1 \in B
  <2>1. ASSUME NEW s \in SUBSET (S \cap T), Cardinality(s) = n + 1
        PROVE  g[s] = h[s]
    <3>1. s # {}
      BY <2>1, FS_EmptySet
    <3>2. First(s) \in s
      BY <3>1, FirstIsIn
    <3>3. s \ {First(s)} \in SUBSET (S \cap T) /\ Cardinality(s \ {First(s)}) = n
      BY <1>0, <2>1, <3>2, OneLess
    <3>4. g[s \ {First(s)}] = h[s \ {First(s)}]
      BY <1>3, <3>3
    <3>. QED
      BY <1>1, <3>1, <3>4
  <2>. QED
    BY <2>1
<1>4. B = Nat
  <2>. HIDE DEF B
  <2>1. B \in SUBSET Nat
    BY DEF B
  <2>. QED
    BY <1>2, <1>3, <2>1, FromZero
<1>. QED
  BY <1>0, <1>4

LEMMA SumIsAdds ==
    ASSUME NEW S, IsFiniteSet(S)
    PROVE  \E g : Adds(g, S) /\ Sum(S) = g[S]
<1>1. Sum(S) = (CHOOSE g : Adds(g, S))[S]
  BY DEF Sum, MapThenSumSet, MapThenFoldSet, Adds, First
<1>. QED
  BY <1>1, AddsExists

\* Nothing weighs nothing.
LEMMA SumEmpty == Sum({}) = 0
  BY DEF Sum, MapThenSumSet, MapThenFoldSet

LEMMA SumFirst ==
    ASSUME NEW S, IsFiniteSet(S), S # {}
    PROVE  Sum(S) = W(First(S)) + Sum(S \ {First(S)})
<1>. DEFINE T == S \ {First(S)}
<1>1. First(S) \in S /\ IsFiniteSet(T)
  BY FirstIsIn, OneLess
<1>2. PICK g : Adds(g, S) /\ Sum(S) = g[S]
  BY SumIsAdds
<1>3. PICK h : Adds(h, T) /\ Sum(T) = h[T]
  BY <1>1, SumIsAdds
<1>4. g[S] = W(First(S)) + g[T]
  BY <1>2 DEF Adds
<1>5. g[T] = h[T]
  BY <1>1, <1>2, <1>3, AddsAgree
<1>. QED
  BY <1>2, <1>3, <1>4, <1>5

Weighed(S) == \A x \in S : W(x) \in Nat

LEMMA SumType ==
    ASSUME NEW S, IsFiniteSet(S), Weighed(S)
    PROVE  \A s \in SUBSET S : Sum(s) \in Nat
<1>. DEFINE B == {n \in Nat : \A s \in SUBSET S : Cardinality(s) = n => Sum(s) \in Nat}
<1>0. \A s \in SUBSET S : IsFiniteSet(s) /\ Cardinality(s) \in Nat
  BY FS_Subset, FS_CardinalityType
<1>1. 0 \in B
  BY <1>0, FS_EmptySet, SumEmpty
<1>2. ASSUME NEW n \in B PROVE n + 1 \in B
  <2>1. ASSUME NEW s \in SUBSET S, Cardinality(s) = n + 1
        PROVE  Sum(s) \in Nat
    <3>1. s # {} /\ IsFiniteSet(s)
      BY <1>0, <2>1, FS_EmptySet
    <3>2. First(s) \in s /\ Sum(s) = W(First(s)) + Sum(s \ {First(s)})
      BY <3>1, FirstIsIn, SumFirst
    <3>3. Cardinality(s \ {First(s)}) = n
      BY <2>1, <3>1, <3>2, OneLess
    <3>4. Sum(s \ {First(s)}) \in Nat /\ W(First(s)) \in Nat
      BY <1>2, <3>2, <3>3 DEF Weighed
    <3>. QED
      BY <3>2, <3>4
  <2>. QED
    BY <2>1
<1>3. B = Nat
  <2>. HIDE DEF B
  <2>1. B \in SUBSET Nat
    BY DEF B
  <2>. QED
    BY <1>1, <1>2, <2>1, FromZero
<1>. QED
  BY <1>0, <1>3

\* A member adds its weight, whichever it is.
LEMMA SumTake ==
    ASSUME NEW S, IsFiniteSet(S), Weighed(S), NEW x \in S
    PROVE  Sum(S) = W(x) + Sum(S \ {x})
<1>. DEFINE B == {n \in Nat : \A s \in SUBSET S : Cardinality(s) = n =>
                     \A y \in s : Sum(s) = W(y) + Sum(s \ {y})}
<1>0. \A s \in SUBSET S : IsFiniteSet(s) /\ Cardinality(s) \in Nat
  BY FS_Subset, FS_CardinalityType
<1>1. 0 \in B
  BY <1>0, FS_EmptySet, SumEmpty
<1>2. ASSUME NEW n \in B PROVE n + 1 \in B
  <2>. SUFFICES ASSUME NEW s \in SUBSET S, Cardinality(s) = n + 1
                PROVE  \A y \in s : Sum(s) = W(y) + Sum(s \ {y})
    OBVIOUS
  <2>. DEFINE f == First(s)
  <2>1. s # {} /\ IsFiniteSet(s)
    BY <1>0, FS_EmptySet
  <2>2. f \in s /\ Sum(s) = W(f) + Sum(s \ {f})
    BY <2>1, FirstIsIn, SumFirst
  <2>. HIDE DEF f
  <2>3. \A y \in s : s \ {y} \in SUBSET S /\ Cardinality(s \ {y}) = n
    BY <2>1, OneLess
  <2>4. \A y \in s : \A z \in s \ {y} : Sum(s \ {y}) = W(z) + Sum((s \ {y}) \ {z})
    BY <1>2, <2>3
  <2>5. ASSUME NEW y \in s, y # f
        PROVE  Sum(s) = W(y) + Sum(s \ {y})
    <3>1. Sum(s \ {f}) = W(y) + Sum((s \ {f}) \ {y})
      BY <2>2, <2>4, <2>5
    <3>2. Sum(s \ {y}) = W(f) + Sum((s \ {y}) \ {f})
      BY <2>2, <2>4, <2>5
    <3>3. (s \ {f}) \ {y} = (s \ {y}) \ {f}
      OBVIOUS
    <3>4. W(y) \in Nat /\ W(f) \in Nat
      BY <2>2 DEF Weighed
    <3>5. Sum((s \ {f}) \ {y}) \in Nat
      BY SumType
    <3>6. Sum(s \ {y}) = W(f) + Sum((s \ {f}) \ {y})
      BY <3>2, <3>3
    <3>7. Sum(s) = W(f) + (W(y) + Sum((s \ {f}) \ {y}))
      BY <2>2, <3>1
    <3>. QED
      BY <3>4, <3>5, <3>6, <3>7
  <2>. QED
    BY <2>2, <2>4, <2>5 DEF Weighed
<1>3. B = Nat
  <2>. HIDE DEF B
  <2>1. B \in SUBSET Nat
    BY DEF B
  <2>. QED
    BY <1>1, <1>2, <2>1, FromZero
<1>. QED
  BY <1>0, <1>3

\* What is taken out takes its weight with it.
LEMMA SumMinus ==
    ASSUME NEW S, IsFiniteSet(S), Weighed(S), NEW T \in SUBSET S
    PROVE  Sum(S \ T) = Sum(S) - Sum(T)
<1>. DEFINE B == {n \in Nat : \A t \in SUBSET S : Cardinality(t) = n =>
                     Sum(S) = Sum(t) + Sum(S \ t)}
<1>0. \A s \in SUBSET S : /\ IsFiniteSet(s) /\ Cardinality(s) \in Nat
                          /\ Sum(s) \in Nat /\ Weighed(s)
  BY FS_Subset, FS_CardinalityType, SumType DEF Weighed
<1>1. 0 \in B
  <2>1. \A t \in SUBSET S : Cardinality(t) = 0 => t = {} /\ S \ t = S
    BY <1>0, FS_EmptySet
  <2>. QED
    BY <1>0, <2>1, SumEmpty
<1>2. ASSUME NEW n \in B PROVE n + 1 \in B
  <2>. SUFFICES ASSUME NEW t \in SUBSET S, Cardinality(t) = n + 1
                PROVE  Sum(S) = Sum(t) + Sum(S \ t)
    OBVIOUS
  <2>1. PICK x \in t : TRUE
    BY FS_EmptySet
  <2>. DEFINE rest == t \ {x}
              left == S \ rest
  <2>2. rest \in SUBSET S /\ Cardinality(rest) = n
    BY <1>0, <2>1, OneLess
  <2>3. Sum(S) = Sum(rest) + Sum(left)
    BY <1>2, <2>2
  <2>4. Sum(t) = W(x) + Sum(rest)
    BY <1>0, <2>1, SumTake
  <2>5. left \in SUBSET S /\ x \in left /\ left \ {x} = S \ t
    BY <2>1
  <2>. HIDE DEF left, rest
  <2>6. Sum(left) = W(x) + Sum(left \ {x})
    BY <1>0, <2>5, SumTake
  <2>7. /\ W(x) \in Nat /\ Sum(rest) \in Nat /\ Sum(left) \in Nat /\ Sum(t) \in Nat
        /\ Sum(S \ t) \in Nat
    BY <1>0, <2>1, <2>2, <2>5 DEF Weighed
  <2>8. Sum(left) = W(x) + Sum(S \ t)
    BY <2>5, <2>6
  <2>. QED
    BY <2>3, <2>4, <2>7, <2>8
<1>3. B = Nat
  <2>. HIDE DEF B
  <2>1. B \in SUBSET Nat
    BY DEF B
  <2>. QED
    BY <1>1, <1>2, <2>1, FromZero
<1>4. Sum(S) = Sum(T) + Sum(S \ T)
  BY <1>0, <1>3
<1>5. Sum(S) \in Nat /\ Sum(T) \in Nat /\ Sum(S \ T) \in Nat
  BY <1>0
<1>. QED
  BY <1>4, <1>5

\* Numbers that stay below a bound have a largest one.
LEMMA Greatest ==
    ASSUME NEW S \in SUBSET Nat, S # {}, NEW b \in Nat, \A y \in S : y <= b
    PROVE  \E x \in S : \A y \in S : x >= y
<1>. DEFINE Bounds == {n \in Nat : \A y \in S : y <= n}
<1>1. IsWellFoundedOn(OpToRel(<,Nat), Nat)
  BY NatLessThanWellFounded
<1>2. Bounds # {} /\ Bounds \subseteq Nat
  OBVIOUS
<1>3. PICK x \in Bounds : \A y \in Bounds : ~ (<<y, x>> \in OpToRel(<,Nat))
  BY <1>1, <1>2, WFMin
<1>4. \A y \in Bounds : ~ (y < x)
  BY <1>3 DEF OpToRel
<1>5. ASSUME x \notin S PROVE FALSE
  <2>1. PICK y \in S : TRUE
    OBVIOUS
  <2>2. x \in Nat /\ y \in Nat /\ y <= x /\ y # x
    BY <1>5
  <2>3. x - 1 \in Nat /\ \A z \in S : z <= x - 1
    <3>1. \A z \in S : z \in Nat /\ z <= x /\ z # x
      BY <1>5
    <3>. QED
      BY <2>2, <3>1
  <2>. QED
    BY <1>4, <2>2, <2>3
<1>. QED
  BY <1>5
=============================================================================
