------------------------------ MODULE Temporal ------------------------------
(***************************************************************************)
(* The DATE, TIME and TIMESTAMP values of src/convert/raw_temporal.rs, as  *)
(* sequences of numbers: year, month, day, hours, minutes, seconds,        *)
(* microseconds, seconds east of UTC.                                      *)
(***************************************************************************)
EXTENDS Decimal

CONSTANTS
  YearWidth,   \* i16
  FieldWidth,  \* u8
  MicroWidth,  \* u32
  MicroDigits  \* 6

Taken(rest, values) == [err |-> FALSE, rest |-> rest, values |-> values]
NotTaken == [err |-> TRUE, rest |-> <<>>, values |-> <<>>]

(* take_unsigned and take_signed: all digits count, and must fit.           *)
ValueOf(digits) == FoldLeft(LAMBDA n, token : 10 * n + Digit(token), 0, digits)
TakeValue(digits, value, rest, width) ==
  IF digits = <<>> \/ ~Fits(value, width) THEN NotTaken ELSE Taken(rest, <<value>>)
TakeDigits(text, digits, sign, width) ==
  TakeValue(digits, sign * ValueOf(digits), After(text, Len(digits)), width)
LeadingDigits(text) == Before(text, SelectInSeq(text, LAMBDA token : token \notin Digits))
TakeNumber(text, sign, width) == TakeDigits(text, LeadingDigits(text), sign, width)
TakeUnsigned(text, width) == TakeNumber(text, 1, width)
TakeSigned(text, width) ==
  LET minus == StartsWith(text, <<"-">>)
  IN  TakeNumber(IF minus THEN Tail(text) ELSE text, IF minus THEN -1 ELSE 1, width)
TakeSep(text, separator) ==
  IF StartsWith(text, <<separator>>) THEN Taken(Tail(text), <<>>) ELSE NotTaken

(* One part after the other, up to the first that is not there.             *)
And(taken, next) ==
  IF taken.err \/ next.err THEN NotTaken ELSE Taken(next.rest, taken.values \o next.values)
AndSep(taken, separator) == And(taken, TakeSep(taken.rest, separator))
AndUnsigned(taken) == And(taken, TakeUnsigned(taken.rest, FieldWidth))

(* The fraction of a TIME, which may be left out.                           *)
TakeMicros(d) ==
  LET micros == AtScale(d, MicroDigits, MicroWidth)
  IN  IF d.err # "none" \/ micros = {} THEN NotTaken
      ELSE Taken(d.rest, <<CHOOSE m \in micros : TRUE>>)
TakeFraction(text) ==
  TakeMicros(IF StartsWith(text, <<".">>) THEN ParseUnsigned(text, MicroWidth)
             ELSE Decimal(0, MicroDigits, text))

(* RawTz.                                                                   *)
SignLost(sign, hours, minutes) == 3600 * sign * hours + 60 * minutes
SecondsEast(sign, hours, minutes) == sign * (3600 * hours + 60 * minutes)
Zone(sign, taken) ==
  IF taken.err THEN NotTaken
  ELSE Taken(taken.rest, <<SecondsEast(sign, taken.values[1], taken.values[2])>>)
TakeTz(text) ==
  IF text = <<>> \/ text[1] \notin {"+", "-"} THEN NotTaken
  ELSE Zone(IF text[1] = "-" THEN -1 ELSE 1,
            AndUnsigned(AndSep(TakeUnsigned(Tail(text), FieldWidth), ":")))

-----------------------------------------------------------------------------
RawDate == <<"year", "-", "field", "-", "field">>
RawTime == <<"field", ":", "field", ":", "field", "fraction">>
RawTimestamp == RawDate \o <<" ">> \o RawTime
RawTimeTz == RawTime \o <<"tz">>
RawTimestampTz == RawTimestamp \o <<"tz">>
TemporalTypes == {RawDate, RawTime, RawTimestamp, RawTimeTz, RawTimestampTz}

Take(text, part) ==
  CASE part = "year" -> TakeSigned(text, YearWidth)
    [] part = "field" -> TakeUnsigned(text, FieldWidth)
    [] part = "fraction" -> TakeFraction(text)
    [] part = "tz" -> TakeTz(text)
    [] OTHER -> TakeSep(text, part)

Parse(text, type) ==
  FoldLeft(LAMBDA taken, part : And(taken, Take(taken.rest, part)), Taken(text, <<>>), type)

(* extract, with expect_end: a set with at most one element.                *)
ExpectEnd(taken) == IF taken.err \/ taken.rest # <<>> THEN {} ELSE {taken.values}
Extract(text, type) == ExpectEnd(Parse(text, type))
=============================================================================
