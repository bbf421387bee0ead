------------------------------ MODULE ReplyText -----------------------------
(***************************************************************************)
(* The text of replies, of src/cursor/replies.rs and src/cursor/rowset.rs: *)
(* a buffer with a read position, the header lines that start each reply,  *)
(* and rows of fields that are unescaped in place.                         *)
(*                                                                         *)
(* A result is a record whose err is "none" or the variant of BadReply.    *)
(***************************************************************************)
EXTENDS Text

CONSTANT HeaderNumbers  \* the numbers headers hold

Newline == "newline"
Tab == "tab"
Quote == "quote"
Backslash == "backslash"

-----------------------------------------------------------------------------
(* ReplyBuf.  pos is the number of tokens consumed.                         *)
Buf(data, pos) == [data |-> data, pos |-> pos]
Peek(buf) == After(buf.data, buf.pos)
LooksAt(buf, prefix) == StartsWith(Peek(buf), prefix)
Consume(buf, n) == Buf(buf.data, buf.pos + n)

SplitResult(err, buf, text) == [err |-> err, buf |-> buf, text |-> text]
SplitText(buf, rest, text) ==
  CASE rest = <<>> -> SplitResult("UnexpectedEnd", buf, <<>>)
    [] rest # <<>> /\ text = rest -> SplitResult("SepNotFound", buf, <<>>)
    [] OTHER -> SplitResult("none", Consume(buf, Len(text) + 1), text)
SplitOff(buf, separator) == SplitText(buf, Peek(buf), Until(Peek(buf), {separator}))

(* find_line: how many tokens before the line that starts so, as an option. *)
AnywhereInLine(buf, first) ==
  {Find(Peek(buf), <<first>>) - 1} \ {-1}
FindLine(buf, first) ==
  LET rest == Peek(buf)
  IN  IF StartsWith(rest, <<first>>) THEN {0}
      ELSE {Find(rest, <<Newline, first>>)} \ {0}

(* convert_backslashes.  Escape is what follows a backslash: the token it   *)
(* stands for and how many tokens it takes.                                 *)
Plain == ("t" :> Tab) @@ ("n" :> Newline) @@ ("f" :> "formfeed") @@ ("r" :> "return")
         @@ (Backslash :> Backslash) @@ (Quote :> Quote)
Octal == [d \in {ToString(i) : i \in 0 .. 7} |-> CHOOSE i \in 0 .. 7 : ToString(i) = d]
Byte(code) ==
  LET ascii == (9 :> Tab) @@ (10 :> Newline) @@ (34 :> Quote) @@ (92 :> Backslash) @@ (97 :> "a")
  IN  IF code \in DOMAIN ascii THEN ascii[code] ELSE "byte" \o ToString(code)

Escaped(err, token, n) == [err |-> err, token |-> token, n |-> n]
Escape(rest) ==
  LET token == rest[1]
  IN  CASE rest = <<>> -> Escaped("InvalidBackslashEscape", "", 0)
        [] rest # <<>> /\ token \in DOMAIN Plain -> Escaped("none", Plain[token], 1)
        [] rest # <<>> /\ token \in {"0", "1", "2", "3"} ->
             CASE Len(rest) < 3 -> Escaped("UnexpectedEnd", "", 1)
               [] Len(rest) >= 3 /\ {rest[2], rest[3]} \subseteq DOMAIN Octal ->
                    Escaped("none", Byte(64 * Octal[token] + 8 * Octal[rest[2]] + Octal[rest[3]]), 3)
               [] OTHER -> Escaped("InvalidBackslashEscape", "", 3)
        [] OTHER -> Escaped("InvalidBackslashEscape", "", 1)

Unescaped(err, data, rd, wr) == [err |-> err, data |-> data, rd |-> rd, wr |-> wr]
RECURSIVE ConvertBackslashes(_, _, _)
ConvertBackslashes(data, rd, wr) ==
  CASE rd = Len(data) -> Unescaped("UnexpectedEnd", data, rd, wr)
    [] rd < Len(data) /\ data[rd + 1] = Quote -> Unescaped("none", data, rd + 1, wr)
    [] rd < Len(data) /\ data[rd + 1] = Backslash ->
         LET e == Escape(After(data, rd + 1))
         IN  IF e.err # "none" THEN Unescaped(e.err, data, rd, wr)
             ELSE ConvertBackslashes([data EXCEPT ![wr + 1] = e.token], rd + 1 + e.n, wr + 1)
    [] OTHER -> ConvertBackslashes([data EXCEPT ![wr + 1] = data[rd + 1]], rd + 1, wr + 1)

-----------------------------------------------------------------------------
(* RowSet.  A field is None or where its text lies: a set with at most one  *)
(* pair.                                                                    *)
Row(err, buf, fields) == [err |-> err, buf |-> buf, fields |-> fields]

ConsumeFieldSeparator(row, comma) ==
  LET expected == IF comma THEN <<",", Tab>> ELSE <<Tab>>
  IN  CASE Len(Peek(row.buf)) < Len(expected) -> [row EXCEPT !.err = "UnexpectedEnd"]
        [] Len(Peek(row.buf)) >= Len(expected) /\ LooksAt(row.buf, expected) ->
             [row EXCEPT !.buf = Consume(@, Len(expected))]
        [] OTHER -> [row EXCEPT !.err = "SepNotFound"]

(* Without a quote or a backslash conversion starts, and fails, at the end. *)
UnescapedField(row, i, comma, start, done) ==
  IF done.err # "none" THEN [row EXCEPT !.buf = Buf(done.data, start), !.err = done.err]
  ELSE ConsumeFieldSeparator([row EXCEPT !.buf = Buf(done.data, done.rd),
                                         !.fields[i] = {<<start, done.wr - start>>}], comma)
QuotedField(row, i, comma) ==
  LET start == row.buf.pos + 1
      from == start + Len(Until(After(row.buf.data, start), {Quote, Backslash}))
  IN  UnescapedField(row, i, comma, start, ConvertBackslashes(row.buf.data, from, from))

BareField(row, i, comma, rough) ==
  LET bare == comma => StartsWith(Reverse(rough.text), <<",">>)
      text == IF comma THEN Front(rough.text) ELSE rough.text
  IN  CASE rough.err # "none" -> [row EXCEPT !.err = rough.err]
        [] rough.err = "none" /\ ~bare ->
             [row EXCEPT !.buf = rough.buf,
                         !.err = IF rough.text = <<>> THEN "UnexpectedEnd" ELSE "SepNotFound"]
        [] OTHER ->
             [row EXCEPT !.buf = rough.buf,
                         !.fields[i] = IF text = <<"NULL">> THEN {}
                                       ELSE {<<row.buf.pos, Len(text)>>}]
UnquotedField(row, i, comma) == BareField(row, i, comma, SplitOff(row.buf, Tab))

TakeField(row, i, ncols) ==
  LET rest == Peek(row.buf)
      comma == i < ncols
  IN  CASE row.err # "none" -> row
        [] row.err = "none" /\ rest = <<>> -> [row EXCEPT !.err = "UnexpectedEnd"]
        [] row.err = "none" /\ StartsWith(rest, <<"]">>) -> [row EXCEPT !.err = "TooFewColumns"]
        [] row.err = "none" /\ StartsWith(rest, <<Quote>>) -> QuotedField(row, i, comma)
        [] OTHER -> UnquotedField(row, i, comma)

EndRow(row) ==
  CASE row.err # "none" -> row
    [] row.err = "none" /\ Len(Peek(row.buf)) < 2 -> [row EXCEPT !.err = "UnexpectedEnd"]
    [] row.err = "none" /\ LooksAt(row.buf, <<"]", Newline>>) -> [row EXCEPT !.buf = Consume(@, 2)]
    [] OTHER -> [row EXCEPT !.err = "SepNotFound"]

PlainRow(rowset) ==
  LET start == Row("none", Consume(rowset.buf, 2), rowset.fields)
  IN  CASE Len(Peek(rowset.buf)) < 2 -> Row("UnexpectedEnd", rowset.buf, rowset.fields)
        [] Len(Peek(rowset.buf)) >= 2 /\ ~LooksAt(rowset.buf, <<"[", " ">>) ->
             Row("UnexpectedHeader", rowset.buf, rowset.fields)
        [] OTHER -> EndRow(FoldLeftDomain(LAMBDA row, i : TakeField(row, i, rowset.ncols),
                                          start, rowset.fields))

NosliceLine(rowset, buf, line) ==
  IF line.err # "none" THEN Row(line.err, buf, rowset.fields)
  ELSE Row("none", line.buf, [rowset.fields EXCEPT ![1] = {<<buf.pos, Len(line.text)>>}])
NosliceRow(rowset) ==
  LET buf == Consume(rowset.buf, 1)
  IN  NosliceLine(rowset, buf, SplitOff(buf, Newline))

(* advance: the rowset after it, whether there is a row, and the error,     *)
(* which clears the fields.                                                 *)
AtRow(rowset) == LooksAt(rowset.buf, IF rowset.noslice THEN <<"=">> ELSE <<"[">>)
AdvanceTo(rowset, row) ==
  [err |-> row.err, more |-> row.err = "none",
   rowset |-> [rowset EXCEPT !.buf = row.buf,
                             !.fields = IF row.err = "none" THEN row.fields ELSE <<>>]]
Advance(rowset) ==
  IF AtRow(rowset)
    THEN AdvanceTo(rowset, IF rowset.noslice THEN NosliceRow(rowset) ELSE PlainRow(rowset))
    ELSE [err |-> "none", more |-> FALSE,
          rowset |-> [rowset EXCEPT !.fields = [i \in DOMAIN @ |-> {}]]]

(* finish: everything before the next line with "&" or "=" is skipped.      *)
Finish(buf) ==
  LET boundary == FindLine(buf, "&") \cup FindLine(buf, "=")
  IN  Consume(buf, IF boundary = {} THEN Len(Peek(buf)) ELSE Min(boundary))

(* get_field_raw.                                                           *)
GetFieldRaw(rowset, i) ==
  {SubSeq(rowset.buf.data, f[1] + 1, f[1] + f[2]) : f \in rowset.fields[i]}

-----------------------------------------------------------------------------
(* Header lines.                                                            *)
AsciiWhitespace == {" ", Tab, Newline, "formfeed", "return"}
TrimAscii(line) ==
  LET Skip(text) == LET i == SelectInSeq(text, LAMBDA token : token \notin AsciiWhitespace)
                    IN  IF i = 0 THEN <<>> ELSE After(text, i - 1)
  IN  Reverse(Skip(Reverse(Skip(line))))

NumberOf(text) == {n \in HeaderNumbers : text = <<ToString(n)>>}

Header(err, buf, numbers) == [err |-> err, buf |-> buf, numbers |-> numbers]
ParseHeaderLine(buf, line, n) ==
  LET parts == Split(After(line, 3), " ")
      numbers == [i \in 1 .. n |-> NumberOf(parts[i])]
  IN  IF \/ Len(line) < 3 \/ line[1] # "&" \/ line[2] \notin {ToString(d) : d \in 0 .. 9}
         \/ line[3] # " " \/ Len(parts) < n \/ \E i \in 1 .. n : numbers[i] = {}
        THEN Header("InvalidHeader", buf, <<>>)
        ELSE Header("none", buf, [i \in 1 .. n |-> CHOOSE v \in numbers[i] : TRUE])
HeaderOf(buf, line, n) ==
  IF line.err # "none" THEN Header(line.err, buf, <<>>)
  ELSE ParseHeaderLine(line.buf, TrimAscii(line.text), n)
ParseHeader(buf, n) == HeaderOf(buf, SplitOff(buf, Newline), n)

(* An autocommit line, as an option, and what a whole response says.  Any   *)
(* whitespace separates its fields.                                         *)
ParseAutocommitLine(line) ==
  LET Blank(token) == IF token \in AsciiWhitespace THEN " " ELSE token
      rest == [i \in 1 .. Len(line) - 2 |-> Blank(line[i + 2])]
      fields == SelectSeq(Split(rest, " "), LAMBDA field : field # <<>>)
      flag == IF fields = <<>> THEN <<>> ELSE Head(fields)
  IN  IF StartsWith(line, <<"&", "4">>) /\ StartsWith(rest, <<" ">>) /\ flag \in {<<"t">>, <<"f">>}
        THEN {flag = <<"t">>}
        ELSE {}
ResponseAutocommit(response) ==
  FoldLeft(LAMBDA last, line :
             IF ParseAutocommitLine(line) = {} THEN last ELSE ParseAutocommitLine(line),
           {}, Split(response, Newline))

(* server_error: the lines of an error, in order.                           *)
ServerError(response) ==
  SelectSeq(Split(response, Newline), LAMBDA line : StartsWith(line, <<"!">>))

-----------------------------------------------------------------------------
(* The columns of a result.                                                 *)
MapiCodes ==
  {"boolean", "tinyint", "smallint", "int", "bigint", "hugeint", "oid", "char", "clob", "str",
   "varchar", "decimal", "real", "double", "month_interval", "day_interval", "sec_interval",
   "time", "timetz", "date", "timestamp", "timestamptz", "blob", "url", "inet", "inet4", "inet6",
   "json", "uuid", "geometry", "xml"}
FromMapiCode(text) ==
  {<<IF c \in {"char", "clob", "str"} THEN "varchar" ELSE c>> : c \in {c \in MapiCodes : text = <<c>>}}

Column(table, name, typ) == [table_name |-> table, name |-> name, typ |-> typ]

DecodeColumnName(rendered) ==
  LET inner == SubSeq(rendered, 2, Len(rendered) - 1)
      done == FoldLeft(LAMBDA acc, c :
                CASE acc.err -> acc
                  [] ~acc.err /\ acc.escaped ->
                       [acc EXCEPT !.out = Append(@, c), !.escaped = FALSE,
                                   !.err = c \notin {Quote, Backslash}]
                  [] ~acc.err /\ ~acc.escaped /\ c = Backslash -> [acc EXCEPT !.escaped = TRUE]
                  [] OTHER -> [acc EXCEPT !.out = Append(@, c)],
                [out |-> <<>>, escaped |-> FALSE, err |-> FALSE], inner)
  IN  CASE ~StartsWith(rendered, <<Quote>>) -> {rendered}
        [] StartsWith(rendered, <<Quote>>) /\ Len(rendered) >= 2 /\ Last(rendered) = Quote
             /\ ~done.err /\ ~done.escaped -> {done.out}
        [] OTHER -> {}

(* What each line sets in a column: a set with at most one element.         *)
Update(column, kind, text) ==
  CASE kind = "table_name" -> {[column EXCEPT !.table_name = text]}
    [] kind = "name" -> {[column EXCEPT !.name = n] : n \in DecodeColumnName(text)}
    [] kind = "type" -> {[column EXCEPT !.typ = t] : t \in FromMapiCode(text)}
    [] kind = "length" ->
         IF column.typ[1] = "varchar"
           THEN {[column EXCEPT !.typ = <<"varchar", n>>] : n \in NumberOf(text)}
           ELSE {column}
    [] OTHER ->
         IF column.typ[1] = "decimal"
           THEN {[column EXCEPT !.typ = <<"decimal", p, s>>] :
                   p \in NumberOf(Until(text, {" "})),
                   s \in NumberOf(After(text, Len(Until(text, {" "})) + 1))}
           ELSE {column}

UpdateColumns(acc, buf, kind, parts) ==
  LET updated == [i \in DOMAIN acc.columns |-> Update(acc.columns[i], kind, parts[i])]
  IN  IF Len(parts) = Len(acc.columns) /\ \A i \in DOMAIN updated : updated[i] # {}
        THEN [acc EXCEPT !.buf = buf,
                         !.columns = [i \in DOMAIN @ |-> CHOOSE c \in updated[i] : TRUE]]
        ELSE [acc EXCEPT !.err = "InvalidHeader"]
DataHeaderLine(acc, kind, line, sep) ==
  CASE acc.err # "none" -> acc
    [] acc.err = "none" /\ line.err # "none" -> [acc EXCEPT !.err = line.err]
    [] acc.err = "none" /\ line.err = "none" /\ ~StartsWith(line.text, <<"%", " ">>) ->
         [acc EXCEPT !.err = "UnexpectedHeader"]
    [] acc.err = "none" /\ line.err = "none" /\ StartsWith(line.text, <<"%", " ">>)
         /\ sep > 2 /\ After(line.text, sep + 2) = <<kind>> ->
         UpdateColumns(acc, line.buf, kind, SplitAt(SubSeq(line.text, 3, sep - 1), <<",", Tab>>))
    [] OTHER -> [acc EXCEPT !.err = "InvalidHeader"]
ParseDataHeader(acc, kind) ==
  LET line == SplitOff(acc.buf, Newline)
  IN  DataHeaderLine(acc, kind, line, Find(line.text, <<" ", "#", " ">>))

-----------------------------------------------------------------------------
(* ReplyParser.  err is also set when a reply could not be parsed.          *)
Parser(kind, buf) ==
  [kind |-> kind, err |-> "none", affected |-> {}, columns |-> <<>>, to_close |-> {},
   rowset |-> [buf |-> buf, ncols |-> 0, fields |-> <<>>, noslice |-> FALSE]]
Bad(err) == [Parser("Exhausted", Buf(<<>>, 0)) EXCEPT !.err = err]

RowSet(buf, ncols) ==
  [buf |-> buf, ncols |-> ncols, fields |-> [i \in 1 .. ncols |-> {}], noslice |-> FALSE]
RowSetNoslice(buf) == [RowSet(buf, 1) EXCEPT !.noslice = TRUE]

Data(buf, total, columns, to_close, noslice) ==
  [Parser("Data", buf) EXCEPT
     !.affected = {total}, !.columns = columns, !.to_close = to_close,
     !.rowset = IF noslice THEN RowSetNoslice(buf) ELSE RowSet(buf, Len(columns))]

(* The column lines; a plan has no typesizes.                               *)
ParseTypeSizes(described) ==
  IF LooksAt(described.buf, <<"=">>) THEN described ELSE ParseDataHeader(described, "typesizes")
ParseColumns(buf, ncols) ==
  ParseTypeSizes(
    FoldLeft(ParseDataHeader,
             [err |-> "none", buf |-> buf,
              columns |-> [i \in 1 .. ncols |-> Column(<<>>, <<>>, <<"int">>)]],
             <<"table_name", "name", "type", "length">>))
DataOf(columns, total, to_close) ==
  IF columns.err # "none" THEN Bad(columns.err)
  ELSE Data(columns.buf, total, columns.columns, to_close, LooksAt(columns.buf, <<"=">>))
DataBehind(header, prepared) ==
  LET total == header.numbers[2]
      ncols == header.numbers[3]
      included == header.numbers[4]
  IN  CASE header.err # "none" -> Bad(header.err)
        [] header.err = "none" /\ included > total -> Bad("TooManyIncludedRows")
        [] header.err = "none" /\ included <= total /\ 10 * (ncols - 1) > Len(Peek(header.buf)) ->
             Bad("TooManyColumns")
        [] OTHER -> DataOf(ParseColumns(header.buf, ncols), total,
                           {id \in {header.numbers[1]} : ~prepared /\ included < total})
ParseData(buf, prepared) == DataBehind(ParseHeader(buf, 4), prepared)

ParseNoslice(buf) ==
  LET lines == Split(Peek(buf), Newline)
      other == SelectInSeq(lines, LAMBDA line : ~StartsWith(line, <<"=">>))
  IN  Data(buf, IF other = 0 THEN Len(lines) ELSE other - 1,
           <<Column(<<>>, <<"rel">>, <<"varchar", 0>>)>>, {}, TRUE)

(* parse_successful_update, parse_successful_other, parse_ok,               *)
(* parse_autocommit_status and parse_error.                                 *)
Success(header) ==
  IF header.err # "none" THEN Bad(header.err)
  ELSE [Parser("Success", header.buf) EXCEPT !.affected = ToSet(header.numbers)]
ParseSuccess(buf, n) == Success(ParseHeader(buf, n))
ParseLine(line, kind) ==
  CASE line.err # "none" -> Bad(line.err)
    [] line.err = "none" /\ kind = "Tx" /\ ParseAutocommitLine(TrimAscii(line.text)) = {} ->
         Bad("InvalidHeader")
    [] OTHER -> Parser(kind, line.buf)

ParseReply(buf) ==
  LET rest == Peek(buf)
      At(prefix) == StartsWith(rest, prefix)
  IN  CASE rest = <<>> -> Parser("Exhausted", Buf(<<>>, 0))
        [] At(<<"&", "1">>) \/ At(<<"&", "5">>) -> ParseData(buf, At(<<"&", "5">>))
        [] At(<<"&", "2">>) -> ParseSuccess(buf, 1)
        [] At(<<"&", "3">>) -> ParseSuccess(buf, 0)
        [] At(<<"&", "4">>) -> ParseLine(SplitOff(buf, Newline), "Tx")
        [] At(<<"!">>) -> ParseLine(SplitOff(buf, Newline), "Error")
        [] At(<<"=", "OK", Newline>>) -> ParseLine(SplitOff(buf, Newline), "Success")
        [] At(<<"=">>) /\ ~At(<<"=", "OK", Newline>>) -> ParseNoslice(buf)
        [] OTHER -> Bad("UnknownResponse")

IntoNextReply(parser) ==
  ParseReply(IF parser.kind = "Data" THEN Finish(parser.rowset.buf) ELSE parser.rowset.buf)
=============================================================================
