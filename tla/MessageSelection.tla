--------------------------- MODULE MessageSelection ---------------------------
(***************************************************************************)
(* Which messages of a folder a run copies (internal/selection).  Sizes,   *)
(* ages and dates are numbers: a date is the day it names, an age the days *)
(* since.  A bound of zero is no bound, as in the code.                    *)
(***************************************************************************)
EXTENDS Integers

NoDate == -1      \* a message without a usable Date: header (time.IsZero)

\* Active: the filter excludes something.
Active(f) == f.maxSize > 0 \/ f.minSize > 0 \/ f.maxAge > 0 \/ f.minAge > 0

\* Validate: a size window with no room in it is refused before the run.
Valid(f) == ~(f.maxSize > 0 /\ f.minSize > 0 /\ f.minSize + 1 >= f.maxSize)

\* CapSize: MaxSize is exclusive while APPENDLIMIT is inclusive.
CapSize(f, limit) ==
  IF limit <= 0 \/ (f.maxSize # 0 /\ limit + 1 >= f.maxSize) THEN f
                                                            ELSE [f EXCEPT !.maxSize = limit + 1]

\* basisDate: an undated message is as old as its INTERNALDATE.
BasisDate(f, m) == IF f.basis = "internal" \/ m.sent = NoDate THEN m.internal ELSE m.sent

\* wantsSize: both bounds exclude the message that sits on them.
WantsSize(f, size) ==
  /\ f.maxSize > 0 => size < f.maxSize
  /\ f.minSize > 0 => size > f.minSize

\* wantsAge: both bounds include their edge; with both given, the band they
\* share or, when they share none, the two regions.
WantsAge(f, age) ==
  LET recent == age <= f.maxAge
      old    == age >= f.minAge
  IN \/ f.maxAge = 0 /\ f.minAge = 0
     \/ f.maxAge > 0 /\ f.minAge = 0 /\ recent
     \/ f.maxAge = 0 /\ f.minAge > 0 /\ old
     \/ f.maxAge > 0 /\ f.minAge > 0
          /\ IF f.minAge <= f.maxAge THEN recent /\ old ELSE recent \/ old

\* Filter.Wants, for a message read on the given day.
Wants(f, m, now) == WantsSize(f, m.size) /\ WantsAge(f, now - BasisDate(f, m))
=============================================================================
