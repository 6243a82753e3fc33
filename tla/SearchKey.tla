------------------------------- MODULE SearchKey -------------------------------
(***************************************************************************)
(* The SEARCH a user gives for the source (internal/searchkey) and what it *)
(* selects (internal/localstore/search.go, and an IMAP server).            *)
(*                                                                         *)
(* A search is the sequence of tokens lex makes of it.  A token stands for *)
(* its text in upper case; what a text is as a value is a constant.        *)
(* Criteria are go-imap's: a bound of 0 is no bound, and NOT and OR name   *)
(* the positions of the keys they are about.                               *)
(***************************************************************************)
EXTENDS Integers, Sequences

CONSTANTS
  Quoted,    \* tokens that are quoted strings
  SizeOf,    \* the tokens that are numbers of bytes, and which
  DayOf,     \* the tokens that are dates, and the day of each, from 1
  UIDsOf     \* the tokens that are sets of UIDs: ranges <<lo, hi>>, 0 for "*"

Parentheses == {"(", ")"}

-----------------------------------------------------------------------------
(* Criteria *)

Anything == [ since |-> 0, before |-> 0, sentSince |-> 0, sentBefore |-> 0, larger |-> 0, smaller |-> 0,
              flag |-> {}, notFlag |-> {}, uid |-> {}, header |-> {}, body |-> {}, text |-> {},
              not |-> {}, or |-> {} ]

\* later and earlier: bounds that both hold, where zero is none.
Later(a, b)   == IF a = 0 \/ (b # 0 /\ b > a) THEN b ELSE a
Earlier(a, b) == IF a = 0 \/ (b # 0 /\ b < a) THEN b ELSE a

\* The library's own And, which takes the zero of the other side for a bound.
LibrarySmaller(a, b) == IF a = 0 \/ b < a THEN b ELSE a
Smaller(a, b) == IF b > 0 /\ (a = 0 \/ b < a) THEN b ELSE a

\* and: keys in a row all hold.
And(c, d) ==
  [ since |-> Later(c.since, d.since), before |-> Earlier(c.before, d.before),
    sentSince |-> Later(c.sentSince, d.sentSince), sentBefore |-> Earlier(c.sentBefore, d.sentBefore),
    larger |-> Later(c.larger, d.larger), smaller |-> Smaller(c.smaller, d.smaller),
    flag |-> c.flag \cup d.flag, notFlag |-> c.notFlag \cup d.notFlag, uid |-> c.uid \cup d.uid,
    header |-> c.header \cup d.header, body |-> c.body \cup d.body, text |-> c.text \cup d.text,
    not |-> c.not \cup d.not, or |-> c.or \cup d.or ]

-----------------------------------------------------------------------------
(* Keys *)

SystemFlags == {"ANSWERED", "DELETED", "DRAFT", "FLAGGED", "SEEN"}
Negated == [ UNANSWERED |-> "ANSWERED", UNDELETED |-> "DELETED", UNDRAFT |-> "DRAFT",
             UNFLAGGED |-> "FLAGGED", UNSEEN |-> "SEEN" ]

\* Keys without an argument, keys that take one value, and those that take a
\* date or a number of bytes; the rest of the atoms are no search keys.
BareKeys == SystemFlags \cup DOMAIN Negated \cup {"ALL"}
TextKeys == {"KEYWORD", "UNKEYWORD", "BCC", "CC", "FROM", "SUBJECT", "TO", "BODY", "TEXT"}
DateKeys == {"SINCE", "BEFORE", "ON", "SENTSINCE", "SENTBEFORE", "SENTON"}
SizeKeys == {"LARGER", "SMALLER"}

\* flagKey, of a key that is about a system flag.
FlagKey(name) ==
  IF name \in SystemFlags THEN [Anything EXCEPT !.flag = {name}]
  ELSE IF name = "ALL" THEN Anything
  ELSE [Anything EXCEPT !.notFlag = {Negated[name]}]

\* textKey, and the keywords of flagKey.
TextKey(name, v) ==
  CASE name = "KEYWORD"   -> [Anything EXCEPT !.flag = {v}]
    [] name = "UNKEYWORD" -> [Anything EXCEPT !.notFlag = {v}]
    [] name = "BODY"      -> [Anything EXCEPT !.body = {v}]
    [] name = "TEXT"      -> [Anything EXCEPT !.text = {v}]
    [] OTHER              -> [Anything EXCEPT !.header = { <<name, v>> }]

\* setDate: ON is the half-open day.
SetDate(name, d) ==
  CASE name = "SINCE"      -> [Anything EXCEPT !.since = d]
    [] name = "BEFORE"     -> [Anything EXCEPT !.before = d]
    [] name = "ON"         -> [Anything EXCEPT !.since = d, !.before = d + 1]
    [] name = "SENTSINCE"  -> [Anything EXCEPT !.sentSince = d]
    [] name = "SENTBEFORE" -> [Anything EXCEPT !.sentBefore = d]
    [] name = "SENTON"     -> [Anything EXCEPT !.sentSince = d, !.sentBefore = d + 1]

SetSize(name, n) ==
  IF name = "LARGER" THEN [Anything EXCEPT !.larger = n] ELSE [Anything EXCEPT !.smaller = n]

\* size: a bound of zero would be dropped on its way, so it is refused.
SizeAllowed(v) == v \in DOMAIN SizeOf /\ SizeOf[v] # 0

-----------------------------------------------------------------------------
(* Parse *)

Refused == [ok |-> FALSE, c |-> Anything, next |-> 0, n |-> 0]
Taken(c, next) == [ok |-> TRUE, c |-> c, next |-> next, n |-> 1]

\* What key and keys return from every position of a search.
Parser(toks) ==
  LET has(i)   == i <= Len(toks)
      value(i) == has(i) /\ toks[i] \notin Parentheses
      read[x \in {"key", "keys"} \X (1..Len(toks) + 2)] ==
        LET i == x[2]
            group ==
              LET inner == read[<<"keys", i + 1>>]
              IN IF inner.ok /\ inner.n > 0 /\ has(inner.next) THEN Taken(inner.c, inner.next + 1) ELSE Refused
            negation ==
              IF read[<<"key", i + 1>>].ok
                THEN Taken([Anything EXCEPT !.not = {i + 1}], read[<<"key", i + 1>>].next) ELSE Refused
            choice ==
              LET left == read[<<"key", i + 1>>] IN
              IF left.ok /\ read[<<"key", left.next>>].ok
                THEN Taken([Anything EXCEPT !.or = { <<i + 1, left.next>> }], read[<<"key", left.next>>].next)
                ELSE Refused
            row ==
              LET first == read[<<"key", i>>]
                  rest  == read[<<"keys", first.next>>]
              IN IF first.ok /\ rest.ok
                   THEN [ok |-> TRUE, c |-> And(first.c, rest.c), next |-> rest.next, n |-> 1 + rest.n]
                   ELSE Refused
            key ==
              CASE toks[i] \in Quoted \/ toks[i] = ")" -> Refused
                [] toks[i] = "("         -> group
                [] toks[i] = "NOT"       -> negation
                [] toks[i] = "OR"        -> choice
                [] toks[i] \in BareKeys  -> Taken(FlagKey(toks[i]), i + 1)
                [] toks[i] \in TextKeys /\ value(i + 1) -> Taken(TextKey(toks[i], toks[i + 1]), i + 2)
                [] toks[i] = "HEADER" /\ value(i + 1) /\ value(i + 2) ->
                     Taken([Anything EXCEPT !.header = { <<toks[i + 1], toks[i + 2]>> }], i + 3)
                [] toks[i] \in DateKeys /\ value(i + 1) /\ toks[i + 1] \in DOMAIN DayOf ->
                     Taken(SetDate(toks[i], DayOf[toks[i + 1]]), i + 2)
                [] toks[i] \in SizeKeys /\ value(i + 1) /\ SizeAllowed(toks[i + 1]) ->
                     Taken(SetSize(toks[i], SizeOf[toks[i + 1]]), i + 2)
                [] toks[i] = "UID" /\ value(i + 1) /\ toks[i + 1] \in DOMAIN UIDsOf ->
                     Taken([Anything EXCEPT !.uid = {UIDsOf[toks[i + 1]]}], i + 2)
                [] OTHER -> Refused
        IN IF x[1] = "keys"
             THEN IF ~has(i) \/ toks[i] = ")" THEN [Refused EXCEPT !.ok = TRUE, !.next = i] ELSE row
             ELSE IF has(i) THEN key ELSE Refused
  IN read

\* Parse: the whole search is read, and there is something in it.
Parses(toks) ==
  LET top == Parser(toks)[<<"keys", 1>>]
  IN top.ok /\ top.n > 0 /\ top.next > Len(toks)

-----------------------------------------------------------------------------
(* What criteria select *)

\* UIDSet.Contains, where zero at the end of a range is the largest number.
NumIn(ranges, uid) ==
  \E r \in ranges : r[1] # 0 /\ r[1] <= uid /\ (uid <= r[2] \/ r[2] = 0)

\* matchesIndex: an undated message is older than every date.
MatchesIndex(c, m, uid) ==
  /\ \A set \in c.uid : NumIn(set, uid)
  /\ c.since # 0 => m.internal >= c.since
  /\ c.before # 0 => m.internal < c.before
  /\ c.larger > 0 => m.size > c.larger
  /\ c.smaller > 0 => m.size < c.smaller
  /\ c.flag \subseteq m.flags /\ c.notFlag \cap m.flags = {}

\* matchesContent: headers and bodies are the words that are found in them.
MatchesContent(c, m) ==
  /\ c.sentSince # 0 => m.sent >= c.sentSince
  /\ c.sentBefore # 0 => m.sent < c.sentBefore
  /\ c.header \subseteq m.header
  /\ c.body \subseteq m.body
  /\ c.text \subseteq m.body \cup { h[2] : h \in m.header }

\* matches, with matchesNested.
Matches(toks, m, uid) ==
  LET read == Parser(toks)
      met[x \in DOMAIN read] ==
        LET c == read[x].c IN
        /\ MatchesIndex(c, m, uid) /\ MatchesContent(c, m)
        /\ \A j \in c.not : ~met[<<"key", j>>]
        /\ \A o \in c.or : met[<<"key", o[1]>>] \/ met[<<"key", o[2]>>]
  IN met[<<"keys", 1>>]

\* evaluate: what a search finds in a folder; without one, everything.
Evaluate(toks, mail) ==
  { uid \in DOMAIN mail : toks # <<>> => Matches(toks, mail[uid], uid) }

-----------------------------------------------------------------------------
(***************************************************************************)
(* The reference: RFC 3501's search-key by what each sentence means, the   *)
(* set of messages it selects.  A stretch of tokens is a sentence if it    *)
(* means anything.                                                         *)
(***************************************************************************)
Meaning(toks, mail) ==
  LET all     == DOMAIN mail
      such(P(_)) == { u \in all : P(u) }
      of(name, v) ==
        LET day(u)  == mail[u].internal
            sent(u) == mail[u].sent
            size(u) == mail[u].size
        IN CASE name \in TextKeys -> {such(LAMBDA u : MatchesContent(TextKey(name, v), mail[u])
                                                       /\ MatchesIndex(TextKey(name, v), mail[u], u))}
             [] name \in DateKeys /\ v \in DOMAIN DayOf -> {
                  CASE name = "SINCE"      -> such(LAMBDA u : day(u) >= DayOf[v])
                    [] name = "BEFORE"     -> such(LAMBDA u : day(u) < DayOf[v])
                    [] name = "ON"         -> such(LAMBDA u : day(u) = DayOf[v])
                    [] name = "SENTSINCE"  -> such(LAMBDA u : sent(u) >= DayOf[v])
                    [] name = "SENTBEFORE" -> such(LAMBDA u : sent(u) < DayOf[v])
                    [] name = "SENTON"     -> such(LAMBDA u : sent(u) = DayOf[v]) }
             [] name = "LARGER"  /\ SizeAllowed(v) -> {such(LAMBDA u : size(u) > SizeOf[v])}
             [] name = "SMALLER" /\ SizeAllowed(v) -> {such(LAMBDA u : size(u) < SizeOf[v])}
             [] name = "UID" /\ v \in DOMAIN UIDsOf -> {such(LAMBDA u : NumIn(UIDsOf[v], u))}
             [] OTHER -> {}
      bare(name) ==
        CASE name = "ALL" -> {all}
          [] name \in SystemFlags -> {such(LAMBDA u : name \in mail[u].flags)}
          [] name \in DOMAIN Negated -> {such(LAMBDA u : Negated[name] \notin mail[u].flags)}
          [] OTHER -> {}
      means[s \in {"one", "row"} \X (1..Len(toks)) \X (1..Len(toks))] ==
        LET i == s[2]
            j == s[3]
            both(first, i1, second, k) == means[<<first, i1, k>>] \X means[<<second, k + 1, j>>]
            one ==
              CASE i = j -> bare(toks[i])
                [] i < j /\ toks[i] = "NOT" -> { all \ x : x \in means[<<"one", i + 1, j>>] }
                [] i < j /\ toks[i] = "OR" ->
                     { p[1] \cup p[2] : p \in UNION { both("one", i + 1, "one", k) : k \in (i + 1)..(j - 1) } }
                [] i + 1 < j /\ toks[i] = "(" /\ toks[j] = ")" -> means[<<"row", i + 1, j - 1>>]
                [] j = i + 1 /\ toks[j] \notin Parentheses -> of(toks[i], toks[j])
                [] j = i + 2 /\ toks[i] = "HEADER" /\ {toks[i + 1], toks[j]} \cap Parentheses = {} ->
                     {such(LAMBDA u : <<toks[i + 1], toks[j]>> \in mail[u].header)}
                [] OTHER -> {}
        IN IF s[1] = "one" THEN one
           ELSE one \cup { p[1] \cap p[2] : p \in UNION { both("one", i, "row", k) : k \in i..(j - 1) } }
  IN IF toks = <<>> THEN {} ELSE means[<<"row", 1, Len(toks)>>]
=============================================================================
