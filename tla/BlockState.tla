----------------------------- MODULE BlockState -----------------------------
(***************************************************************************)
(* MAPI block headers and the BlockState automaton of                      *)
(* src/framing/blockstate.rs, as operators.  A byte is a number below Base *)
(* (256 in the code) and a block holds at most BlockSize (8190) bytes.     *)
(***************************************************************************)
EXTENDS Integers, Sequences

CONSTANTS BlockSize, Base

ASSUME BlockAssumption ==
  /\ BlockSize \in Nat \ {0}
  /\ Base \in Nat \ {0} /\ Base % 2 = 0
  /\ 2 * BlockSize + 1 < Base * Base

Lesser(m, n) == IF m <= n THEN m ELSE n

(* n applications of Step, for the bounded loops of the framing code.       *)
Iterate(Step(_), s, n) ==
  LET f[i \in 0 .. n] == IF i = 0 THEN s ELSE Step(f[i - 1]) IN f[n]

Drop(s, n) == SubSeq(s, n + 1, Len(s))

-----------------------------------------------------------------------------
(* A header is the little-endian number 2 * size + last.                    *)
Header(size, last) ==
  LET n == 2 * size + (IF last THEN 1 ELSE 0) IN <<n % Base, n \div Base>>

HeaderSize(h) == (h[1] + Base * h[2]) \div 2

HeaderIsLast(h) == h[1] % 2 = 1

HeaderValid(h) == HeaderSize(h) <= BlockSize

-----------------------------------------------------------------------------
Start == [tag |-> "Start"]
PartialHeader(lo) == [tag |-> "PartialHeader", lo |-> lo]
Body(remaining, last) == [tag |-> "Body", remaining |-> remaining, last |-> last]
End == [tag |-> "End"]

NeverEnds(remaining, last) ==
  IF remaining = 0 THEN Start ELSE Body(remaining, last)

New(remaining, last) ==
  IF remaining = 0 THEN (IF last THEN End ELSE Start) ELSE Body(remaining, last)

FromHeader(h) == New(HeaderSize(h), HeaderIsLast(h))

(* The loop of skip_headers returns, or goes on behind a header of which it *)
(* has the last n bytes in data.                                            *)
Stop(s, status, from, to, st) ==
  [status |-> status, range |-> <<from, to>>, pos |-> s.pos, st |-> st]

PassHeader(s, h, n) ==
  IF HeaderValid(h)
    THEN [status |-> "Loop", range |-> s.range, pos |-> s.pos + n, st |-> FromHeader(h)]
    ELSE Stop(s, "InvalidBlockSize", 0, 0, s.st)

(* One turn of the loop over data.  range is the half-open range of body    *)
(* bytes; pos counts the bytes that are interpreted.                        *)
SkipStep(data, s) ==
  LET avail == Len(data) - s.pos
  IN  CASE s.status # "Loop" -> s
        [] s.status = "Loop" /\ avail = 0 -> Stop(s, "Ok", Len(data), Len(data), s.st)
        [] s.status = "Loop" /\ avail > 0 /\ s.st.tag = "Body" ->
             LET n == Lesser(s.st.remaining, avail)
             IN  Stop(s, "Ok", s.pos, s.pos + n, New(s.st.remaining - n, s.st.last))
        [] s.status = "Loop" /\ avail >= 2 /\ s.st.tag = "Start" ->
             PassHeader(s, SubSeq(data, s.pos + 1, s.pos + 2), 2)
        [] s.status = "Loop" /\ avail = 1 /\ s.st.tag = "Start" ->
             Stop(s, "Ok", Len(data), Len(data), PartialHeader(data[s.pos + 1]))
        [] s.status = "Loop" /\ avail > 0 /\ s.st.tag = "PartialHeader" ->
             PassHeader(s, <<s.st.lo, data[s.pos + 1]>>, 1)
        [] s.status = "Loop" /\ avail > 0 /\ s.st.tag = "End" ->
             Stop(s, "MessageAlreadyComplete", 0, 0, s.st)

(* skip_headers: every turn consumes a byte or stops.                       *)
SkipHeaders(self, data) ==
  Iterate(LAMBDA s : SkipStep(data, s),
          [status |-> "Loop", range |-> <<0, 0>>, pos |-> 0, st |-> self],
          Len(data) + 1)

=============================================================================
