-------------------------------- MODULE Text --------------------------------
(***************************************************************************)
(* Texts: sequences of tokens.  A token is a character, or a word or       *)
(* number that the code only reads as a whole.  These are the methods of   *)
(* str and slices that the code uses.                                      *)
(***************************************************************************)
EXTENDS Integers, Sequences, SequencesExt, TLC

(* The part before the first of the tokens, and what follows n tokens.      *)
Before(text, i) == IF i = 0 THEN text ELSE SubSeq(text, 1, i - 1)
Until(text, stops) == Before(text, SelectInSeq(text, LAMBDA token : token \in stops))
After(text, n) == SubSeq(text, n + 1, Len(text))

StartsWith(text, prefix) ==
  Len(prefix) <= Len(text) /\ SubSeq(text, 1, Len(prefix)) = prefix

(* Where a longer separator starts, or 0.                                   *)
Find(text, separator) ==
  SelectInSeq([i \in DOMAIN text |-> StartsWith(After(text, i - 1), separator)],
              LAMBDA found : found)

Between(text, ends) ==
  [k \in 1 .. Len(ends) - 1 |-> SubSeq(text, ends[k] + 1, ends[k + 1] - 1)]
Split(text, separator) ==
  Between(text, <<0>> \o SelectSeq([i \in DOMAIN text |-> i], LAMBDA i : text[i] = separator)
                \o <<Len(text) + 1>>)

RECURSIVE SplitAt(_, _)
SplitAt(text, separator) ==
  LET i == Find(text, separator)
  IN  IF i = 0 THEN <<text>>
      ELSE <<SubSeq(text, 1, i - 1)>> \o SplitAt(After(text, i - 1 + Len(separator)), separator)

Joined(texts, separator) ==
  FlattenSeq([i \in DOMAIN texts |-> IF i = 1 THEN texts[i] ELSE separator \o texts[i]])
=============================================================================
