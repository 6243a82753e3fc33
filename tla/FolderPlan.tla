------------------------------ MODULE FolderPlan ------------------------------
(***************************************************************************)
(* Which source mailbox is copied to which destination mailbox             *)
(* (internal/folder).  A mailbox name is the sequence of its components,   *)
(* so a hierarchy delimiter is what stands between two of them; Dotted are *)
(* the components that hold the destination's delimiter.  A pattern or a   *)
(* list of the options is the set of the names it matches.                 *)
(***************************************************************************)
EXTENDS Integers, FiniteSets, Sequences, SequencesExt

CONSTANTS
  Alphabet,     \* the components, in the order strings compare
  Dotted,       \* components that contain the destination's delimiter
  NameRole      \* nameRoles: a function from names to roles

Names == Seq(Range(Alphabet))

\* No component stands twice in the order.
ASSUME AlphabetAssumption ==
  /\ Alphabet \in Names /\ "INBOX" \in Range(Alphabet)
  /\ \A i, j \in 1..Len(Alphabet) : Alphabet[i] = Alphabet[j] => i = j

NoRole == "none"
Virtual == {"All", "Flagged", "Important"}        \* Role.Virtual

\* The spellings of INBOX, the only name that is compared without case.
Inboxes == { <<"INBOX">>, <<"Inbox">> }

\* foldName
FoldName(name) == IF name \in Inboxes THEN <<"INBOX">> ELSE name

Place(c) == CHOOSE i \in 1..Len(Alphabet) : Alphabet[i] = c

\* The order of names: component by component, a name before those below it.
Before(a, b) ==
  \/ IsStrictPrefix(a, b)
  \/ \E i \in 1..Len(a) : /\ i <= Len(b) /\ Place(a[i]) < Place(b[i])
                          /\ \A j \in 1..(i - 1) : a[j] = b[j]

First(names) == CHOOSE n \in names : \A m \in names \ {n} : Before(n, m)

\* stripPrefix: a prefix that is the whole name is kept.
StripPrefix(name, prefix) ==
  IF IsStrictPrefix(prefix, name) THEN SubSeq(name, Len(prefix) + 1, Len(name)) ELSE name

\* detectRole: INBOX, then the server's attribute, then the whole path's name.
DetectRole(f, rel) ==
  IF f.name \in Inboxes THEN "INBOX"
  ELSE IF f.attr # NoRole THEN f.attr
  ELSE IF rel \in DOMAIN NameRole THEN NameRole[rel] ELSE NoRole

\* rolesOf, for one role: what the destination calls it.  A folder the server
\* marked outranks one whose name suggests it; among equals the first name.
NamesOfRole(dest, role, prefix) ==
  LET serving == { f \in dest : f.selectable /\ DetectRole(f, StripPrefix(f.name, prefix)) = role }
      marked  == { f \in serving : f.attr = role }
  IN { f.name : f \in IF marked # {} THEN marked ELSE serving }

\* filterReason: why a source mailbox is left out.
LeftOut(f, role, o) ==
  \/ ~f.selectable
  \/ role \in Virtual /\ ~o.virtual
  \/ o.only # {} /\ f.name \notin o.only
  \/ o.include # {} /\ f.name \notin o.include
  \/ f.name \in o.exclude

\* translate refuses a component that would split in two.
Translates(rel, o) == o.sameDelim \/ \A i \in DOMAIN rel : rel[i] \notin Dotted

\* destinationFor, for a name that translates or needs no translation.
DestinationFor(f, rel, role, dest, o) ==
  LET named == NamesOfRole(dest, role, o.dstPrefix)
  IN o.subfolder \o
       ( IF f.name \in DOMAIN o.mappings THEN o.mappings[f.name]
         ELSE IF role = "INBOX" THEN <<"INBOX">>
         ELSE IF o.automap /\ role # NoRole /\ named # {} THEN First(named)
         ELSE o.dstPrefix \o rel )

\* The mailboxes destinationFor gives a name without asking translate.
NeedsNoTranslation(f, role, dest, o) ==
  \/ f.name \in DOMAIN o.mappings
  \/ role = "INBOX"
  \/ o.automap /\ role # NoRole /\ NamesOfRole(dest, role, o.dstPrefix) # {}

\* The destination's own spelling of a name, when it has that mailbox.
Existing(name, dest) == { f.name : f \in { g \in dest : FoldName(g.name) = FoldName(name) } }

\* The loop of Build: the pair a source mailbox makes, or none.
PairsOf(f, dest, o) ==
  LET rel    == StripPrefix(f.name, o.srcPrefix)
      role   == DetectRole(f, rel)
      target == DestinationFor(f, rel, role, dest, o)
      own    == Existing(target, dest)
  IN IF \/ LeftOut(f, role, o)
        \/ ~Translates(rel, o) /\ ~NeedsNoTranslation(f, role, dest, o)
       THEN {}
       ELSE { [ source |-> f.name, dest |-> IF own # {} THEN First(own) ELSE target,
                role |-> role, create |-> own = {} ] }

Pairs(source, dest, o) == UNION { PairsOf(f, dest, o) : f \in source }

\* checkCollisions
Collide(pairs) ==
  \E p, q \in pairs : p.source # q.source /\ FoldName(p.dest) = FoldName(q.dest)

\* The parents of a name, itself excluded.
Parents(name) == { SubSeq(name, 1, n) : n \in 1..(Len(name) - 1) }

\* Mutant: only the mailboxes that are copied to are created.
CopiedToOnly(pairs, dest) == { p.dest : p \in { q \in pairs : q.create } }

\* The mailboxes createOrder finds missing.
Needed(pairs, dest) ==
  LET new == { p.dest : p \in { q \in pairs : q.create } }
  IN new \cup { n \in UNION { Parents(d) : d \in new } : Existing(n, dest) = {} }

\* A finite set in an order, which is a set of pairs: each element comes after
\* as many as it has before it.
InOrder(S, order) ==
  [i \in 1..Cardinality(S) |->
     CHOOSE x \in S : Cardinality({ y \in S : <<y, x>> \in order }) = i - 1]

ByName(S)  == { p \in S \X S : Before(p[1], p[2]) }
ByDepth(S) == { p \in S \X S : \/ Len(p[1]) < Len(p[2])
                                \/ (Len(p[1]) = Len(p[2]) /\ Before(p[1], p[2])) }

\* createOrder: by depth, then by name.
CreateOrder(needed) == InOrder(needed, ByDepth(needed))

\* Build: nothing is planned when two mailboxes would be merged.
Build(source, dest, o) ==
  LET pairs == Pairs(source, dest, o)
  IN IF Collide(pairs) THEN [ok |-> FALSE, pairs |-> {}, creates |-> <<>>]
     ELSE [ok |-> TRUE, pairs |-> pairs, creates |-> CreateOrder(Needed(pairs, dest))]
=============================================================================
