----------------------------- MODULE ReplyStream ----------------------------
(***************************************************************************)
(* A response from the text the server writes to what the user of a cursor *)
(* sees: install_response and next_reply of src/cursor/mod.rs over the     *)
(* parser of ReplyText, and the typed values of src/convert.               *)
(*                                                                         *)
(* The server may send any of Responses, sequences of replies, and may cut *)
(* off the text of a response in Cut.  Render is the server's.             *)
(***************************************************************************)
EXTENDS ReplyText, Temporal

CONSTANTS
  Responses,  \* the responses the server may send
  Cut,        \* those of which only a part may arrive
  MaxSeen,    \* bound on the replies seen: a plan left unread is seen again
  Widths,     \* integer types of decimals
  Compared,   \* texts of decimals to compare with
  Temporals   \* temporal values, with their types

VARIABLES
  sent,        \* the replies the server rendered
  whole,       \* the response was not cut off
  response,    \* its text, until it is installed
  replies,     \* Cursor.replies
  outcome,     \* what the last call returned
  autocommit,  \* what the response said of ServerState.autocommit
  closed,      \* the result ids given to queue_close
  seen,        \* the replies seen, with the rows read
  astray       \* calls go on after an error, or behind a plan with rows unread

vars == <<sent, whole, response, replies, outcome, autocommit, closed, seen, astray>>

-----------------------------------------------------------------------------
(* How the server renders replies.                                          *)
RenderToken(token) ==
  CASE token = Tab -> <<Backslash, "t">>
    [] token = Newline -> <<Backslash, "n">>
    [] token \in {Backslash, Quote} -> <<Backslash, token>>
    [] token = "byte27" -> <<Backslash, "0", "3", "3">>
    [] OTHER -> <<token>>
RenderText(text) == FlattenSeq([i \in DOMAIN text |-> RenderToken(text[i])])
RenderField(field, typ) ==
  IF field = {} THEN <<"NULL">>
  ELSE LET text == CHOOSE t \in field : TRUE
       IN  IF typ[1] = "varchar" THEN <<Quote>> \o RenderText(text) \o <<Quote>> ELSE text
RenderRow(row, columns) ==
  <<"[", " ">>
  \o Joined([i \in DOMAIN row |-> RenderField(row[i], columns[i].typ)], <<",", Tab>>)
  \o <<Tab, "]", Newline>>

RenderName(name) ==
  IF ToSet(name) \cap {" ", ",", Quote, Backslash} = {} THEN name
  ELSE <<Quote>> \o RenderText(name) \o <<Quote>>
RenderLine(texts, kind) ==
  <<"%", " ">> \o Joined(texts, <<",", Tab>>) \o <<" ", "#", " ", kind, Newline>>
RenderLength(column) ==
  IF column.typ[1] = "varchar" THEN <<ToString(column.typ[2])>> ELSE <<"1">>
RenderSizes(column) ==
  IF column.typ[1] = "decimal" THEN <<ToString(column.typ[2]), " ", ToString(column.typ[3])>>
  ELSE <<"0", " ", "0">>
RenderNumbers(numbers) == Joined([i \in DOMAIN numbers |-> <<ToString(numbers[i])>>], <<" ">>)
RenderPlan(lines) ==
  FlattenSeq([i \in DOMAIN lines |-> <<"=">> \o lines[i] \o <<Newline>>])
RenderData(digit, r) ==
  <<"&", digit, " ">> \o RenderNumbers(<<r.id, r.total, Len(r.columns), Len(r.rows)>>)
  \o <<Newline>>
  \o RenderLine([i \in DOMAIN r.columns |-> r.columns[i].table_name], "table_name")
  \o RenderLine([i \in DOMAIN r.columns |-> RenderName(r.columns[i].name)], "name")
  \o RenderLine([i \in DOMAIN r.columns |-> <<r.columns[i].typ[1]>>], "type")
  \o RenderLine([i \in DOMAIN r.columns |-> RenderLength(r.columns[i])], "length")
  \o IF r.plan THEN RenderPlan([i \in DOMAIN r.rows |-> CHOOSE t \in r.rows[i][1] : TRUE])
     ELSE RenderLine([i \in DOMAIN r.columns |-> RenderSizes(r.columns[i])], "typesizes")
          \o FlattenSeq([i \in DOMAIN r.rows |-> RenderRow(r.rows[i], r.columns)])

RenderReply(r) ==
  CASE r.kind = "data" -> RenderData("1", r)
    [] r.kind = "prepared" -> RenderData("5", r)
    [] r.kind = "explain" -> RenderPlan(r.lines)
    [] r.kind = "update" -> <<"&", "2", " ", ToString(r.n), " ", "0", Newline>>
    [] r.kind = "other" -> <<"&", "3", " ", "0", Newline>>
    [] r.kind = "ok" -> <<"=", "OK", Newline>>
    [] r.kind = "tx" -> <<"&", "4", " ", IF r.on THEN "t" ELSE "f", " ", "f", Newline>>
    [] r.kind = "error" -> <<"!">> \o r.text \o <<Newline>>
Render(rs) == FlattenSeq([i \in DOMAIN rs |-> RenderReply(rs[i])])

-----------------------------------------------------------------------------
(* What the user sees of a reply, and what the server's replies should show.*)
View(kind, affected, columns) ==
  [kind |-> kind, affected |-> affected, columns |-> columns, rows |-> <<>>]
ViewOf(parser) == View(parser.kind, parser.affected, parser.columns)
Expected(r) ==
  CASE r.kind \in {"data", "prepared"} -> [View("Data", {r.total}, r.columns) EXCEPT !.rows = r.rows]
    [] r.kind = "explain" ->
         [View("Data", {Len(r.lines)}, <<Column(<<>>, <<"rel">>, <<"varchar", 0>>)>>)
            EXCEPT !.rows = [i \in DOMAIN r.lines |-> <<{r.lines[i]}>>]]
    [] r.kind = "update" -> View("Success", {r.n}, <<>>)
    [] r.kind \in {"other", "ok"} -> View("Success", {}, <<>>)
    [] r.kind = "tx" -> View("Tx", {}, <<>>)
    [] r.kind = "error" -> View("Error", {}, <<>>)

(* exhaust: the result ids it closes.  An error on the way ends it, before  *)
(* the id of the reply it leaves is queued.  A plan with rows unread is     *)
(* found again and again.                                                   *)
RECURSIVE ExhaustTurn(_, _, _)
ExhaustTurn(parser, next, ids) ==
  CASE parser.kind = "Exhausted" -> [outcome |-> "exhausted", ids |-> ids]
    [] parser.kind # "Exhausted" /\ next.err # "none" -> [outcome |-> "bad reply", ids |-> ids]
    [] parser.kind # "Exhausted" /\ next = parser -> [outcome |-> "never returns", ids |-> ids]
    [] OTHER -> ExhaustTurn(next, IntoNextReply(next), ids \cup parser.to_close)
Exhaust(parser, ids) == ExhaustTurn(parser, IntoNextReply(parser), ids)

NoReplies == Parser("Exhausted", Buf(<<>>, 0))

Init ==
  /\ sent \in Responses
  /\ \E n \in IF sent \in Cut THEN 0 .. Len(Render(sent)) ELSE {Len(Render(sent))} :
       /\ response = SubSeq(Render(sent), 1, n)
       /\ whole = (n = Len(Render(sent)))
  /\ replies = NoReplies
  /\ outcome = "none"
  /\ autocommit = {}
  /\ closed = {}
  /\ seen = <<>>
  /\ astray = FALSE

(* The end of command_with_uploads, and install_response.                   *)
InstallResponse ==
  /\ outcome = "none"
  /\ autocommit' = ResponseAutocommit(response)
  /\ response' = <<>>
  /\ \E first \in {ParseReply(Buf(response, 0))} :
       \/ /\ first.err # "none"
          /\ outcome' = "bad reply"
          /\ UNCHANGED <<replies, closed, seen>>
       \/ /\ first.err = "none" /\ ServerError(response) # <<>>
          /\ \E done \in {Exhaust(first, {})} :
               /\ closed' = done.ids
               /\ outcome' = IF done.outcome = "never returns" THEN done.outcome ELSE "server error"
          /\ UNCHANGED <<replies, seen>>
       \/ /\ first.err = "none" /\ ServerError(response) = <<>>
          /\ outcome' = "ok"
          /\ replies' = first
          /\ seen' = IF first.kind = "Exhausted" THEN <<>> ELSE <<ViewOf(first)>>
          /\ UNCHANGED closed
  /\ UNCHANGED <<sent, whole, astray>>

GoesAstray == astray \/ outcome = "bad reply"
LeavesPlan == replies.kind = "Data" /\ replies.rowset.noslice /\ AtRow(replies.rowset)

NextReply ==
  /\ replies.kind # "Exhausted" /\ Len(seen) <= MaxSeen
  /\ astray' = (GoesAstray \/ LeavesPlan)
  /\ \E next \in {IntoNextReply(replies)} :
       IF next.err # "none"
         THEN /\ outcome' = "bad reply"
              /\ replies' = NoReplies
              /\ UNCHANGED <<closed, seen>>
         ELSE /\ outcome' = "ok"
              /\ replies' = next
              /\ closed' = closed \cup replies.to_close
              /\ seen' = IF next.kind = "Exhausted" THEN seen ELSE Append(seen, ViewOf(next))
  /\ UNCHANGED <<sent, whole, response, autocommit>>

(* next_row at a result set, where the rows it has go on; the loop's        *)
(* fetch_more_rows is Cursor's.  A row more than the header announced is an *)
(* error (count_row).                                                       *)
NextRow ==
  LET total == CHOOSE n \in replies.affected : TRUE
      read == Len(Last(seen).rows)
  IN  /\ replies.kind = "Data"
      /\ \E row \in {Advance(replies.rowset)} :
         /\ replies' = [replies EXCEPT !.rowset = row.rowset]
         /\ \/ /\ row.more /\ read < total
               /\ outcome' = "ok"
               /\ seen' = [seen EXCEPT ![Len(seen)].rows =
                             Append(@, [i \in DOMAIN row.rowset.fields |-> GetFieldRaw(row.rowset, i)])]
            \/ /\ row.err # "none" \/ (row.more /\ read >= total)
               /\ outcome' = "bad reply"
               /\ UNCHANGED seen
            \/ /\ row.err = "none" /\ ~row.more
               /\ outcome' = IF read >= total THEN "end" ELSE "fetch"
               /\ UNCHANGED seen
      /\ astray' = GoesAstray
      /\ UNCHANGED <<sent, whole, response, autocommit, closed>>

(* The next execute, or close.                                              *)
ExhaustReplies ==
  /\ replies.kind # "Exhausted"
  /\ \E done \in {Exhaust(replies, closed)} :
       /\ closed' = done.ids
       /\ outcome' = done.outcome
       /\ astray' = (GoesAstray \/ done.outcome = "never returns")
  /\ replies' = NoReplies
  /\ UNCHANGED <<sent, whole, response, autocommit, seen>>

Next == InstallResponse \/ NextReply \/ NextRow \/ ExhaustReplies
Spec == Init /\ [][Next]_vars

-----------------------------------------------------------------------------
(* The fields that are not replies or text keep their range.                *)
TypeOK ==
  /\ whole \in BOOLEAN /\ astray \in BOOLEAN
  /\ outcome \in {"none", "ok", "end", "fetch", "exhausted", "never returns", "server error", "bad reply"}
  /\ autocommit \in SUBSET BOOLEAN
  /\ closed \subseteq HeaderNumbers

Open(r) == r.kind = "data" /\ Len(r.rows) < r.total
PlanBehindNothing ==
  \E i \in 1 .. Len(sent) - 1 :
    /\ sent[i].kind \in {"data", "prepared"} /\ sent[i].rows = <<>>
    /\ sent[i + 1].kind \in {"explain", "ok"}
SentErrors == {i \in DOMAIN sent : sent[i].kind = "error"}
SentTx == {i \in DOMAIN sent : sent[i].kind = "tx"}

(* A response cut off shows a beginning of what was sent, and nothing else. *)
SeenIsSent ==
  /\ Len(seen) <= Len(sent)
  /\ \A i \in DOMAIN seen :
       LET e == Expected(sent[i])
       IN  /\ seen[i] = [e EXCEPT !.rows = seen[i].rows]
           /\ IsPrefix(seen[i].rows, e.rows)
(* A whole response is understood: no error but the server's, every reply,  *)
(* every row.                                                               *)
WholeIsUnderstood ==
  /\ outcome # "bad reply"
  /\ (outcome = "server error") <=> (outcome # "none" /\ SentErrors # {})
  /\ outcome \in {"end", "fetch"} => Last(seen).rows = Expected(sent[Len(seen)]).rows
  /\ outcome = "ok" /\ replies.kind = "Exhausted" => Len(seen) = Len(sent)
  /\ outcome # "none" => autocommit = {sent[i].on : i \in {i \in SentTx : \A j \in SentTx : j <= i}}
(* Once the replies are behind, what the server kept open is to be closed.  *)
OpenResultsAreClosed ==
  outcome # "none" /\ replies.kind = "Exhausted" => closed = {r.id : r \in {r \in ToSet(sent) : Open(r)}}

(* Whatever the fields of rows hold (quotes, backslashes, control           *)
(* characters, text that looks like a header, an error, an autocommit line  *)
(* or a row), the user of a cursor sees the replies the server sent, in     *)
(* order: kind, row count, columns and rows, with NULL apart from "NULL"    *)
(* (RowSet::advance, convert_backslashes, ReplyParser::parse).  That holds  *)
(* however many rows were read before each next_reply (RowSet::finish).     *)
(* The server's errors and autocommit lines are found and never imagined    *)
(* (server_error, response_autocommit), its open results are closed, and a  *)
(* response that was cut off never yields a row that was not sent before an *)
(* error is returned.                                                       *)
(* The exceptions are the replies of lines with "=": a plan left with rows  *)
(* unread, and one behind a result without rows.                            *)
ReadsWhatWasSent ==
  ~astray /\ ~PlanBehindNothing =>
    SeenIsSent /\ (whole => WholeIsUnderstood /\ OpenResultsAreClosed)

(* next_row returns "a boolean that indicates whether such a row was        *)
(* present": it does not fail on a response that arrived whole.             *)
NextRowTells == whole => outcome # "bad reply"

-----------------------------------------------------------------------------
(* What texts denote, by position.                                          *)
Unsign(text) == IF StartsWith(text, <<"-">>) THEN Tail(text) ELSE text
Whole(text) == Until(Unsign(text), {"."})
Fraction(text) == After(Unsign(text), Len(Whole(text)) + 1)
IsDecimal(text) ==
  /\ Unsign(text) # <<>>
  /\ ToSet(Whole(text)) \cup ToSet(Fraction(text)) \subseteq Digits
Denoted(text) ==
  LET digits == Whole(text) \o Fraction(text)
      n == FoldLeftDomain(LAMBDA v, i : v + Digit(digits[i]) * 10 ^ (Len(digits) - i), 0, digits)
  IN  IF Unsign(text) = text THEN n ELSE -n

DecimalIsExact(text, width) ==
  LET d == DecimalOf(text, width)
  IN  /\ d.err = "none" <=>
           /\ IsDecimal(text) /\ Fits(Denoted(text), width)
           /\ width.min = 0 => Unsign(text) = text
           /\ Len(Whole(text)) <= MaxScale /\ Len(Fraction(text)) <= MaxScale
      /\ d.err = "none" =>
           /\ d.n = Denoted(text) /\ d.scale = Len(Fraction(text))
           /\ \A s \in 0 .. MicroDigits : \A v \in AtScale(d, s, width) :
                s >= d.scale /\ v = d.n * 10 ^ (s - d.scale)

(* How the server writes DATE, TIME and TIMESTAMP values.                   *)
RECURSIVE DigitsOf(_, _)
DigitsOf(n, width) ==
  IF width = 0 THEN <<>> ELSE Append(DigitsOf(n \div 10, width - 1), ToString(n % 10))
Sign(n) == IF n < 0 THEN -1 ELSE 1
RenderPart(part, v) ==
  CASE part = "year" -> (IF v < 0 THEN <<"-">> ELSE <<>>) \o DigitsOf(Sign(v) * v, 5)
    [] part = "field" -> DigitsOf(v, 3)
    [] part = "fraction" -> IF v = 0 THEN <<>> ELSE <<".">> \o DigitsOf(v, MicroDigits)
    [] part = "tz" -> <<IF v < 0 THEN "-" ELSE "+">> \o DigitsOf((Sign(v) * v) \div 3600, 3)
                      \o <<":">> \o DigitsOf(((Sign(v) * v) \div 60) % 60, 2)
RenderTemporal(values, type) ==
  FoldLeft(LAMBDA acc, part :
             IF part \in {"year", "field", "fraction", "tz"}
               THEN [left |-> Tail(acc.left), text |-> acc.text \o RenderPart(part, Head(acc.left))]
               ELSE [acc EXCEPT !.text = Append(@, part)],
           [left |-> values, text |-> <<>>], type).text
RenderedTemporals ==
  {[text |-> RenderTemporal(t.values, t.type), type |-> t.type, values |-> t.values] : t \in Temporals}

(* Equality is that of the numbers denoted, where both can be scaled.       *)
EqualityIsExact(text, other, width) ==
  LET d == DecimalOf(text, width)
      e == DecimalOf(other, width)
      highest == IF d.scale > e.scale THEN d.scale ELSE e.scale
      Scaled(x) == x.n * 10 ^ (highest - x.scale)
  IN  d.err = "none" /\ e.err = "none" =>
        /\ DecimalEq(d, e, width) = DecimalEq(e, d, width)
        /\ DecimalEq(d, e, width) => Scaled(d) = Scaled(e)
        /\ Scaled(d) = Scaled(e) /\ Scaled(d) # 0 /\ Fits(Scaled(d), width) => DecimalEq(d, e, width)

TemporalIsExact(text) ==
  /\ \A t \in RenderedTemporals : \A type \in TemporalTypes :
       text = t.text => Extract(text, type) = IF type = t.type THEN {t.values} ELSE {}
  /\ \A type \in TemporalTypes : \A v \in Extract(text, type) :
       Extract(RenderTemporal(v, type), type) = {v}

(* A field of the current row that converts at all converts to what its     *)
(* digits denote by position.  A decimal is refused only when it does not   *)
(* fit its integer type or has more digits than a u8 counts; rescaling and  *)
(* comparing never lose a digit (RawDecimal).  A temporal value comes back  *)
(* as the server wrote it, down to the sign of a zone less than an hour     *)
(* west and of a year before 0, and converts to no other type (RawDate,     *)
(* RawTime, RawTz and the types made of them).                              *)
ConversionsAreExact ==
  replies.kind = "Data" =>
    \A i \in DOMAIN replies.rowset.fields : \A text \in GetFieldRaw(replies.rowset, i) :
      /\ \A width \in Widths :
           /\ DecimalIsExact(text, width)
           /\ \A other \in Compared : EqualityIsExact(text, other, width)
           /\ \A v \in DurationOf(text, width) :
                v * 10 ^ Len(Fraction(text)) = Denoted(text) * 1000
      /\ TemporalIsExact(text)
=============================================================================
