----------------------------- MODULE MCRunControl -----------------------------
(***************************************************************************)
(* Accounts for TLC.  PlanStudy: many listings and options, no mail and no *)
(* troubles.  MailStudy: one folder and many filters.  RunStudy: folders   *)
(* side by side, and troubles.                                             *)
(***************************************************************************)
EXTENDS RunControl

MCAlphabet == <<"INBOX", "Inbox", "All", "Old", "Sent", "SentItems", "Work", "a.b", "y24">>
MCNameRole == [ n \in { <<"Sent">>, <<"SentItems">> } |-> "Sent" ]

Box(name) == [name |-> name, attr |-> NoRole, selectable |-> TRUE]
Sources == { Box(<<"Sent">>), [Box(<<"SentItems">>) EXCEPT !.attr = "Sent"], Box(<<"Work">>),
             Box(<<"Work", "y24">>), Box(<<"Old", "a.b">>), [Box(<<"All">>) EXCEPT !.attr = "All"] }
Dests == { Box(<<"Sent">>), [Box(<<"SentItems">>) EXCEPT !.attr = "Sent"], Box(<<"Work">>),
           [Box(<<"Old">>) EXCEPT !.selectable = FALSE] }

NoMappings == [ n \in {} |-> <<>> ]
Plain == [ sameDelim |-> TRUE, srcPrefix |-> <<>>, dstPrefix |-> <<>>, automap |-> TRUE,
           virtual |-> FALSE, only |-> {}, include |-> {}, exclude |-> {},
           mappings |-> NoMappings, subfolder |-> <<>> ]
OptionSets == {
  Plain, [Plain EXCEPT !.automap = FALSE, !.virtual = TRUE],
  [Plain EXCEPT !.sameDelim = FALSE, !.subfolder = <<"Old", "y24">>],
  [Plain EXCEPT !.dstPrefix = <<"INBOX">>, !.srcPrefix = <<"Work">>],
  [Plain EXCEPT !.mappings = [ n \in { <<"Work">> } |-> <<"Inbox">> ], !.exclude = { <<"INBOX">> }] }

AnyMail == [ maxSize |-> 0, minSize |-> 0, maxAge |-> 0, minAge |-> 0, basis |-> "sent" ]
Letter(size, sent, internal) ==
  [size |-> size, sent |-> sent, internal |-> internal, flags |-> {}, header |-> {}, body |-> {}]
Account(source, dest, opts, mail, f, limit, n) ==
  [ source |-> source, dest |-> dest, opts |-> opts, mail |-> mail, filter |-> f, search |-> <<>>,
    appendLimit |-> limit, now |-> 30, deadline |-> FALSE, throttled |-> FALSE, password |-> FALSE, troubles |-> n ]
Empty(source) == [ n \in { f.name : f \in source } |-> <<>> ]
Inbox == Box(<<"INBOX">>)

PlanStudy ==
  UNION { LET source == s \cup {Inbox} IN
            { Account(source, d \cup {Inbox}, o, Empty(source), AnyMail, 0, 0) : d \in SUBSET Dests, o \in OptionSets }
          : s \in { t \in SUBSET Sources : Cardinality(t) <= 3 } }

Letters == << Letter(4, 25, 25), Letter(5, 20, 28), Letter(6, 10, 30), Letter(2, NoDate, 12),
              Letter(3, 15, 2), Letter(1, 0, 29) >>
Filters == { [AnyMail EXCEPT !.maxSize = 5], [AnyMail EXCEPT !.minSize = 2, !.maxSize = 6],
             [AnyMail EXCEPT !.minSize = 4, !.maxSize = 5], [AnyMail EXCEPT !.maxAge = 10],
             [AnyMail EXCEPT !.minAge = 18], [AnyMail EXCEPT !.minAge = 10, !.maxAge = 20],
             [AnyMail EXCEPT !.minAge = 20, !.maxAge = 10, !.basis = "internal"], AnyMail }
MailStudy ==
  { Account({Inbox}, {Inbox}, Plain, [n \in {<<"INBOX">>} |-> Letters], f, l, 1) : f \in Filters, l \in {0, 4, 5} }

Side(source, n) ==
  Account(source, {Inbox}, Plain,
          [ name \in { f.name : f \in source } |-> << Letter(1, 25, 25), Letter(1, 26, 26) >> ], AnyMail, 0, n)
Two == Side({Inbox, Box(<<"Work">>)}, 4)
Three == [Side({Inbox, Box(<<"Work">>), Box(<<"Sent">>)}, 1) EXCEPT !.password = TRUE]
RunStudy == { Two, Three, [Two EXCEPT !.deadline = TRUE, !.throttled = TRUE, !.troubles = 1] }

\* Searches: every row of up to three pieces, and longer ones of fewer.
MCSizeOf == [ n \in {"0", "4", "5"} |-> IF n = "0" THEN 0 ELSE IF n = "4" THEN 4 ELSE 5 ]
MCDayOf  == [ d \in {"day15", "day25"} |-> IF d = "day15" THEN 15 ELSE 25 ]
MCUIDsOf == [ s \in {"2:4", "5:*"} |-> IF s = "2:4" THEN { <<2, 4>> } ELSE { <<5, 0>> } ]
Pieces == { <<"SEEN">>, <<"UNSEEN">>, <<"NOT">>, <<"OR">>, <<"(">>, <<")">>,
            <<"SMALLER", "5">>, <<"LARGER", "4">>, <<"ON", "day25">>, <<"SENTBEFORE", "day15">> }
MorePieces == Pieces \cup
          { <<"ALL">>, <<"RECENT">>, <<"2:4">>, <<"UID", "2:4">>, <<"UID", "5:*">>, <<"UID">>, <<"SMALLER", "0">>,
            <<"SMALLER", "4">>, <<"BEFORE", "day25">>, <<"SINCE", "day15">>, <<"SENTON", "day25">>,
            <<"HEADER", "SUBJECT", "SEEN">>, <<"SUBJECT">>, <<"quoted">>, <<"TEXT", "quoted">>, <<"KEYWORD", "work">> }
Searches == { a \o b \o c : a, b, c \in MorePieces } \cup { a \o b \o c \o d : a, b, c, d \in Pieces }
Marked(letter, flags, header, body) == [letter EXCEPT !.flags = flags, !.header = header, !.body = body]
Searchable == <<
  Marked(Letter(4, 25, 25), {"SEEN"}, { <<"SUBJECT", "SEEN">> }, {}),
  Marked(Letter(5, 14, 25), {}, { <<"FROM", "SEEN">> }, {"quoted"}),
  Marked(Letter(3, NoDate, 15), {"SEEN", "work"}, { <<"SUBJECT", "quoted">> }, {}),
  Letter(6, 24, 26), Letter(4, 26, 12) >>
SearchStudy ==
  { [Account({Inbox}, {Inbox}, Plain, [n \in {<<"INBOX">>} |-> Searchable], AnyMail, 0, 0) EXCEPT !.search = s] :
      s \in Searches }

MCAccounts == PlanStudy \cup MailStudy \cup RunStudy \cup SearchStudy
MCAnswers == { {"broken"}, {"auth"}, {"capacity", "eof"}, {"gone"}, {"unknown"} }
MCDialErrors == { {"eof"}, {"deadline"} }
=============================================================================
