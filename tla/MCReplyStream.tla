---------------------------- MODULE MCReplyStream ---------------------------
(***************************************************************************)
(* Responses whose fields hold every token that means something to the     *)
(* parser, alone and in the order that would make it a line of its own.    *)
(***************************************************************************)
EXTENDS ReplyStream

Lines ==
  {<<Newline, "&", "4", " ", "f", Newline>>, <<Newline, "!", "a">>,
   <<Newline, "&", "1", " ", "1">>, <<Newline, "=", "OK", Newline>>,
   <<Tab, "]", Newline, "[", " ", "a", Tab>>}
Strings ==
  Lines \cup {<<>>, <<"a">>, <<"NULL">>, <<Quote>>, <<Backslash>>, <<Backslash, Quote>>,
             <<"byte27">>, <<Tab>>, <<",", Tab>>, <<"[", " ", "]", Newline>>, <<"!">>,
             <<"&", "4", Tab, "f">>}
OptStrings == {{}} \cup {{s} : s \in Strings}

Varchar == Column(<<"sys", ".", "t">>, <<"a">>, <<"varchar", 2>>)
Number == Column(<<"t">>, <<"b">>, <<"decimal", 3, 2>>)
Named(name) == [Number EXCEPT !.name = name]
Names ==
  {<<>>, <<Quote>>, <<Backslash, "n">>, <<"a", " ", Quote, "b">>, <<"a", ",", "b">>, <<"&", "1">>}

Result(kind, columns, rows, more) ==
  [kind |-> kind, id |-> 7, total |-> Len(rows) + more, columns |-> columns, rows |-> rows,
   plan |-> FALSE]
Strs(rows) == Result("data", <<Varchar>>, rows, 0)

One == {Strs(<< <<f>> >>) : f \in OptStrings}
Two ==
  {Strs(<< <<f>>, <<g>> >>) : f \in OptStrings, g \in {{}, {<<Quote>>}} \cup {{s} : s \in Lines}}
Pairs ==
  {Result("data", <<Varchar, Number>>, << <<f, g>> >>, 1) :
     f \in OptStrings, g \in {{}, {<<"-", "1">>}, {<<"0", ".", "5">>}}}
  \cup {Result("prepared", <<Number, Varchar>>, << <<{<<"1">>}, f>>, <<{}, f>> >>, 1) : f \in OptStrings}
Titled ==
  {Result("data", <<Named(n), Named(m)>>, <<>>, more) : n, m \in Names, more \in {0, 2}}
Plan == [Result("data", <<Varchar>>, << <<{<<"a", "=">>}>>, <<{<<>>}>> >>, 0) EXCEPT !.plan = TRUE]
Explain == [kind |-> "explain", lines |-> << <<"&", "4", " ", "f">>, <<"!">> >>]
Small ==
  {[kind |-> "update", n |-> 2], [kind |-> "other"], [kind |-> "ok"],
   [kind |-> "tx", on |-> TRUE], [kind |-> "tx", on |-> FALSE]}
Errors == {[kind |-> "error", text |-> <<"a">>]}

(* A field on its own, for the conversions.                                 *)
Texts(tokens, n) == UNION {[1 .. k -> tokens] : k \in 0 .. n}
DecimalTexts ==
  Texts({"0", "1", "7", ".", "-"}, 4)
  \cup {<<"1", "2", "7">>, <<"1", "2", "8">>, <<"-", "1", "2", "8">>, <<"-", "1", "2", "9">>,
        <<"2", "5", "5">>, <<"2", "5", "6">>, <<"1", ".", "2", "8">>}
  \cup {[i \in 1 .. k |-> "0"] : k \in 7 .. 8}
  \cup {<<".">> \o [i \in 1 .. k |-> "0"] : k \in 7 .. 8}
TheWidths == {Signed(8), Unsigned(8), Signed(16)}
TheCompared == {<<"0">>, <<"1">>, <<"1", ".", "0">>, <<"-", ".", "1", "0">>, <<"7", "0">>}

Dates ==
  {<<y, m, d>> : y \in {-32768, -1, 0, 2014, 32767}, m \in {0, 12}, d \in {1, 255}}
Times == {<<h, 59, s, us>> : h \in {0, 23}, s \in {0, 60}, us \in {0, 1, 120000, 999999}}
Zones == {<<-27000>>, <<-1800>>, <<0>>, <<19800>>}
TheTemporals ==
  [type : {RawDate}, values : Dates] \cup [type : {RawTime}, values : Times]
  \cup [type : {RawTimestamp}, values : {d \o t : d \in Dates, t \in Times}]
  \cup [type : {RawTimeTz}, values : {t \o z : t \in Times, z \in Zones}]
  \cup [type : {RawTimestampTz},
        values : {d \o t \o z : d \in {<<-1, 2, 3>>, <<2014, 2, 14>>}, t \in Times, z \in Zones}]
YearWidthI16 == Signed(16)
FieldWidthU8 == Unsigned(8)
MicroWidthBits == Unsigned(27)

Fields == {Result("data", <<Number>>, << <<{t}>> >>, 0) :
             t \in (DecimalTexts \ {<<>>}) \cup {t.text : t \in RenderedTemporals}}

AllResponses ==
  {<<>>}
  \cup {<<r>> : r \in One \cup Two \cup Pairs \cup Titled \cup Fields \cup Small \cup Errors \cup {Plan, Explain}}
  \cup {<<r, s>> : r \in One \cup Titled \cup Small, s \in Small \cup Errors}
  \cup {<<s, r, e>> : s \in Small, r \in Pairs, e \in Errors}
  \cup {<<p, s, r>> : p \in {Plan, Explain}, s \in Small \ {[kind |-> "ok"]}, r \in One}
(* A query without rows, then an EXPLAIN.                                   *)
EmptyThenExplain == {<<Result("data", <<Number>>, <<>>, 0), Explain>>}
CutResponses == {<<r>> : r \in One \cup {r \in Pairs : r.kind = "prepared"}}
=============================================================================
