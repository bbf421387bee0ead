------------------------------- MODULE Decimal ------------------------------
(***************************************************************************)
(* RawDecimal of src/convert/raw_decimal.rs, over texts of digits.  A      *)
(* width is the range of an integer type.                                  *)
(***************************************************************************)
EXTENDS Text

CONSTANT MaxScale  \* u8::MAX

Digits == {ToString(d) : d \in 0 .. 9}
Digit(token) == CHOOSE d \in 0 .. 9 : ToString(d) = token

Signed(bits) == [min |-> -(2 ^ (bits - 1)), max |-> 2 ^ (bits - 1) - 1]
Unsigned(bits) == [min |-> 0, max |-> 2 ^ bits - 1]
Fits(n, width) == n \in width.min .. width.max

(* A turn of parse_digits: digits are accumulated, and counted since the    *)
(* period.                                                                  *)
Accumulate(acc, token, sign, width) ==
  LET n == 10 * acc.n + sign * Digit(token)
  IN  IF Fits(10 * acc.n, width) /\ Fits(n, width) /\ acc.scale < MaxScale
        THEN [acc EXCEPT !.n = n, !.scale = @ + 1, !.used = @ + 1]
        ELSE [acc EXCEPT !.err = "OutOfRange"]
ParseDigit(acc, token, sign, width) ==
  CASE acc.err # "none" \/ acc.stop -> acc
    [] ~(acc.err # "none" \/ acc.stop) /\ token \in Digits -> Accumulate(acc, token, sign, width)
    [] ~(acc.err # "none" \/ acc.stop) /\ token = "." /\ ~acc.period ->
         [acc EXCEPT !.scale = 0, !.period = TRUE, !.used = @ + 1]
    [] OTHER -> [acc EXCEPT !.stop = TRUE]

Decimal(n, scale, rest) == [err |-> "none", n |-> n, scale |-> scale, rest |-> rest]
DecimalError(err) == [err |-> err, n |-> 0, scale |-> 0, rest |-> <<>>]

Accumulated(text, acc) ==
  CASE acc.err # "none" -> DecimalError(acc.err)
    [] acc.err = "none" /\ acc.used = 0 ->
         DecimalError(IF text = <<>> THEN "Empty" ELSE "UnexpectedCharacter")
    [] OTHER -> Decimal(acc.n, IF acc.period THEN acc.scale ELSE 0, After(text, acc.used))
ParseDigits(text, sign, width) ==
  Accumulated(text, FoldLeft(LAMBDA acc, token : ParseDigit(acc, token, sign, width),
                             [n |-> 0, scale |-> 0, period |-> FALSE, used |-> 0,
                              stop |-> FALSE, err |-> "none"], text))

ParseUnsigned(text, width) == ParseDigits(text, 1, width)
ParseSigned(text, width) ==
  LET minus == StartsWith(text, <<"-">>)
  IN  ParseDigits(IF minus THEN Tail(text) ELSE text, IF minus THEN -1 ELSE 1, width)

(* from_str.                                                                *)
WholeText(parsed) ==
  IF parsed.err = "none" /\ parsed.rest # <<>> THEN DecimalError("UnexpectedCharacter")
  ELSE parsed
DecimalOf(text, width) ==
  WholeText(IF width.min < 0 THEN ParseSigned(text, width) ELSE ParseUnsigned(text, width))

(* at_scale, as a set with at most one element, and ==.                     *)
AtScale(d, scale, width) ==
  LET power == 10 ^ (scale - d.scale)
  IN  IF scale < d.scale \/ ~Fits(power, width) \/ ~Fits(d.n * power, width) THEN {}
      ELSE {d.n * power}
DecimalEq(d, e, width) ==
  LET highest == IF d.scale > e.scale THEN d.scale ELSE e.scale
  IN  AtScale(d, highest, width) # {} /\ AtScale(d, highest, width) = AtScale(e, highest, width)

(* Duration::extract: milliseconds.                                         *)
Milliseconds(d, width) == IF d.err = "none" THEN AtScale(d, 3, width) ELSE {}
DurationOf(text, width) == Milliseconds(DecimalOf(text, width), width)
=============================================================================
