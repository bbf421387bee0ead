---------------------------- MODULE BlockStreams ----------------------------
(***************************************************************************)
(* What a stream of blocks says, for any block size, any base of the bytes *)
(* and any messages: lemmas about the operators of the modules BlockState  *)
(* and Framing.                                                            *)
(*                                                                         *)
(* A stream is described by its points. A point is what a reader that      *)
(* takes one byte at a time knows: how much the block still needs, whether *)
(* it is the last of its message, perhaps half of a header, the current    *)
(* message so far and the number of messages before it. Leads says which   *)
(* point a byte leads to. A stream carries messages (Carries) if there is  *)
(* a path of points from the first of its bytes to its end on which each   *)
(* message comes out whole.                                                *)
(*                                                                         *)
(* The parts: what a header says; skip_headers, turn by turn; taking bytes *)
(* off the front of a stream and adding a block behind its end; the point  *)
(* for each state of MapiReader, and where reading a header or a body      *)
(* leaves it; the reference reader of InStep, which follows the same       *)
(* points; the operations of MapiBuf, and that append and end add exactly  *)
(* what they are given to the stream.                                      *)
(*                                                                         *)
(* A loop of the code is a recursive function here, and induction over its *)
(* turns is made with the least turn that goes wrong (LeastNumber).        *)
(***************************************************************************)
EXTENDS Framing, SequenceTheorems, WellFoundedInduction, TLAPS

Byte == 0 .. (Base - 1)

-----------------------------------------------------------------------------
(* What a header says is what it was made from.                             *)
LEMMA HeaderSays ==
  ASSUME NEW size \in 0 .. BlockSize, NEW last \in BOOLEAN
  PROVE  /\ Header(size, last) \in Byte \X Byte
         /\ HeaderSize(Header(size, last)) = size
         /\ HeaderIsLast(Header(size, last)) = last
<1> DEFINE n == 2 * size + (IF last THEN 1 ELSE 0)
           q == n \div Base
           r == n % Base
<1>1. BlockSize \in Nat /\ Base \in Nat /\ Base > 0 /\ Base % 2 = 0
      /\ 2 * BlockSize + 1 < Base * Base /\ size \in Nat /\ size <= BlockSize
  BY BlockAssumption
<1>2. n \in Nat /\ n < Base * Base
  BY <1>1
<1>3. q \in Int /\ r \in Int /\ n = Base * q + r /\ 0 <= r /\ r < Base
  <2> HIDE DEF n
  <2> QED BY <1>1, <1>2
<1>4. q >= 0
  <2> HIDE DEF n, q, r
  <2> SUFFICES ASSUME q <= -1 PROVE FALSE
    BY <1>3
  <2>1. Base * q <= Base * (-1)
    BY <1>1, <1>3
  <2> QED BY <2>1, <1>1, <1>2, <1>3
<1>5. q < Base
  <2> HIDE DEF n, q, r
  <2> SUFFICES ASSUME q >= Base PROVE FALSE
    BY <1>3, <1>1
  <2>1. Base * q >= Base * Base
    BY <1>1, <1>3
  <2> QED BY <2>1, <1>1, <1>2, <1>3
<1>6. r % 2 = n % 2
  <2>1. PICK k \in Nat : Base = 2 * k
    <3>1. Base = 2 * (Base \div 2) /\ Base \div 2 \in Nat
      BY <1>1
    <3> QED BY <3>1, Zenon
  <2> HIDE DEF n, q, r
  <2>2. k * q \in Int /\ Base * q = 2 * (k * q)
    BY <2>1, <1>3
  <2> DEFINE p == k * q
  <2>3. p \in Int /\ n = 2 * p + r
    BY <2>2, <1>3, Zenon
  <2> HIDE DEF p
  <2> QED BY <2>3, <1>2, <1>3
<1>7. n \div 2 = size /\ n % 2 = (IF last THEN 1 ELSE 0)
  BY <1>1
<1>8. Header(size, last) = <<r, q>>
  BY Zenon DEF Header
<1> HIDE DEF n, q, r
<1>9. HeaderSize(<<r, q>>) = size
  <2>1. r + Base * q = n
    BY <1>1, <1>2, <1>3
  <2>2. HeaderSize(<<r, q>>) = (r + Base * q) \div 2
    BY Zenon DEF HeaderSize
  <2> QED BY <2>1, <2>2, <1>7, Zenon
<1>10. HeaderIsLast(<<r, q>>) = last
  <2>1. HeaderIsLast(<<r, q>>) <=> last
    BY <1>6, <1>7 DEF HeaderIsLast
  <2> QED BY <2>1, Zenon DEF HeaderIsLast
<1> QED BY <1>3, <1>4, <1>5, <1>8, <1>9, <1>10, <1>1 DEF Byte

-----------------------------------------------------------------------------
(* A set of numbers that is not empty has a least one.                      *)
LEMMA LeastNumber ==
  ASSUME NEW T \in SUBSET Nat, T # {}
  PROVE  \E n \in T : \A m \in T : n <= m
<1> DEFINE Less == {ss \in Nat \X Nat : ss[1] < ss[2]}
<1>1. IsWellFoundedOn(Less, Nat)
  BY NatLessThanWellFounded, Zenon DEF OpToRel
<1>2. \E x \in T : \A y \in T : ~(<<y, x>> \in Less)
  <2> HIDE DEF Less
  <2> QED BY <1>1, WFMin, Zenon
<1>3. PICK x \in T : \A y \in T : ~(<<y, x>> \in Less)
  BY <1>2, Zenon
<1>4. ASSUME NEW y \in T PROVE x <= y
  <2>1. ~(y < x)
    BY <1>3, Zenon
  <2> QED BY <2>1
<1> QED BY <1>4, Zenon

(* The turns of the loop of skip_headers.                                   *)
SkipTurns(f, s, data, n) ==
  f = [i \in 0 .. n |-> IF i = 0 THEN s ELSE SkipStep(data, f[i - 1])]

(* The loop has any number of turns.                                        *)
LEMMA SkipTurnsExist ==
  ASSUME NEW s, NEW data, NEW n \in Nat
  PROVE  \E f : SkipTurns(f, s, data, n)
<1> DEFINE Is(f, k) == SkipTurns(f, s, data, k)
           T == {k \in Nat : ~ \E f : Is(f, k)}
<1> USE DEF SkipTurns
<1> SUFFICES ASSUME T # {} PROVE FALSE
  BY Zenon
<1>1. PICK k \in T : \A m \in T : k <= m
  <2> HIDE DEF T
  <2>1. T \in SUBSET Nat
    BY Zenon DEF T
  <2> QED BY <2>1, LeastNumber, Zenon
<1>2. CASE k = 0
  <2>1. Is([i \in 0 .. 0 |-> s], 0)
    OBVIOUS
  <2> QED BY <2>1, <1>2, <1>1, Zenon
<1>3. CASE k > 0
  <2>1. k - 1 \in Nat /\ k - 1 \notin T
    BY <1>1, <1>3
  <2>2. PICK f : Is(f, k - 1)
    BY <2>1, Zenon
  <2> DEFINE g == [i \in 0 .. k |-> IF i < k THEN f[i] ELSE SkipStep(data, f[k - 1])]
  <2>3. ASSUME NEW i \in 0 .. k
        PROVE  g[i] = IF i = 0 THEN s ELSE SkipStep(data, g[i - 1])
    BY <2>2, <1>3
  <2>4. Is(g, k)
    BY <2>3, Zenon
  <2> QED BY <2>4, <1>1, Zenon
<1> QED BY <1>1, <1>2, <1>3

Looping(pos, st) == [status |-> "Loop", range |-> <<0, 0>>, pos |-> pos, st |-> st]
Skipped(from, to, pos, st) ==
  [status |-> "Ok", range |-> <<from, to>>, pos |-> pos, st |-> st]

SkipLoop(f, self, data) ==
  /\ f[0] = Looping(0, self)
  /\ \A i \in 1 .. Len(data) + 1 : f[i] = SkipStep(data, f[i - 1])
  /\ SkipHeaders(self, data) = f[Len(data) + 1]

(* skip_headers returns what the loop has after one turn more than it has   *)
(* bytes.                                                                   *)
LEMMA SkipRun ==
  ASSUME NEW self, NEW data, Len(data) \in Nat
  PROVE  \E f : SkipLoop(f, self, data)
<1> DEFINE s == Looping(0, self)
           n == Len(data) + 1
           F == CHOOSE f : SkipTurns(f, s, data, n)
<1>1. SkipHeaders(self, data) = F[n]
  BY Zenon DEF SkipHeaders, Iterate, SkipTurns, Looping
<1>n. n \in Nat
  OBVIOUS
<1> HIDE DEF s, n
<1>2. SkipTurns(F, s, data, n)
  BY <1>n, SkipTurnsExist, Zenon
<1> HIDE DEF F
<1>3. F[0] = s /\ \A i \in 1 .. n : F[i] = SkipStep(data, F[i - 1])
  BY <1>2, <1>n DEF SkipTurns
<1> QED BY <1>1, <1>3, Zenon DEF s, n, SkipLoop

(* Leaving the loop with a body, as a record that names every field.        *)
LEMMA StopIs ==
  ASSUME NEW pos, NEW st, NEW from, NEW to, NEW new
  PROVE  Stop(Looping(pos, st), "Ok", from, to, new) = Skipped(from, to, pos, new)
BY Zenon DEF Looping, Skipped, Stop

(* The fields of a turn that goes on.                                       *)
LEMMA LoopingIs ==
  ASSUME NEW pos, NEW st
  PROVE  /\ Looping(pos, st).status = "Loop" /\ Looping(pos, st).pos = pos
         /\ Looping(pos, st).st = st
BY Zenon DEF Looping

(* A turn with no byte left ends the loop with an empty body.               *)
LEMMA TurnAtEnd ==
  ASSUME NEW data, NEW pos \in Nat, NEW st, Len(data) = pos
  PROVE  SkipStep(data, Looping(pos, st)) = Skipped(pos, pos, pos, st)
<1>1. SkipStep(data, Looping(pos, st)) = Stop(Looping(pos, st), "Ok", Len(data), Len(data), st)
  BY LoopingIs DEF SkipStep
<1> QED BY <1>1, StopIs

(* A turn that finds one byte of a header keeps it.                         *)
LEMMA TurnHalf ==
  ASSUME NEW data, NEW st, st.tag = "Start", Len(data) = 1
  PROVE  SkipStep(data, Looping(0, st)) = Skipped(1, 1, 0, PartialHeader(data[1]))
<1>1. SkipStep(data, Looping(0, st)) =
        Stop(Looping(0, st), "Ok", Len(data), Len(data), PartialHeader(data[0 + 1]))
  BY LoopingIs DEF SkipStep
<1> QED BY <1>1, StopIs

(* A turn that finds a header goes on behind it.                            *)
LEMMA TurnHeader ==
  ASSUME NEW data, NEW st, st.tag = "Start", Len(data) = 2, HeaderValid(SubSeq(data, 1, 2))
  PROVE  SkipStep(data, Looping(0, st)) = Looping(2, FromHeader(SubSeq(data, 1, 2)))
<1>1. SkipStep(data, Looping(0, st)) = PassHeader(Looping(0, st), SubSeq(data, 1, 2), 2)
  BY LoopingIs DEF SkipStep
<1>2. PassHeader(Looping(0, st), SubSeq(data, 1, 2), 2) = Looping(2, FromHeader(SubSeq(data, 1, 2)))
  BY DEF PassHeader, Looping
<1> QED BY <1>1, <1>2, Zenon

(* A turn that finds the other half of a header goes on behind it.          *)
LEMMA TurnOtherHalf ==
  ASSUME NEW data, NEW st, st.tag = "PartialHeader", Len(data) = 1,
         HeaderValid(<<st.lo, data[1]>>)
  PROVE  SkipStep(data, Looping(0, st)) = Looping(1, FromHeader(<<st.lo, data[1]>>))
<1>1. SkipStep(data, Looping(0, st)) = PassHeader(Looping(0, st), <<st.lo, data[1]>>, 1)
  BY LoopingIs DEF SkipStep
<1>2. PassHeader(Looping(0, st), <<st.lo, data[1]>>, 1) = Looping(1, FromHeader(<<st.lo, data[1]>>))
  BY DEF PassHeader, Looping
<1> QED BY <1>1, <1>2, Zenon

(* A turn in a body ends the loop with what there is of it.                 *)
LEMMA TurnBody ==
  ASSUME NEW data, NEW st, st.tag = "Body", Len(data) \in Nat \ {0}, st.remaining \in Nat
  PROVE  LET n == Lesser(st.remaining, Len(data))
         IN  SkipStep(data, Looping(0, st)) = Skipped(0, n, 0, New(st.remaining - n, st.last))
<1> DEFINE n == Lesser(st.remaining, Len(data))
<1>1. SkipStep(data, Looping(0, st)) =
        Stop(Looping(0, st), "Ok", 0, 0 + Lesser(st.remaining, Len(data) - 0),
             New(st.remaining - Lesser(st.remaining, Len(data) - 0), st.last))
  BY LoopingIs DEF SkipStep
<1>2. Len(data) - 0 = Len(data) /\ 0 + n = n
  BY DEF Lesser
<1> QED BY <1>1, <1>2, StopIs

(* A loop that has ended stays as it is.                                    *)
LEMMA TurnStopped ==
  ASSUME NEW data, NEW from, NEW to, NEW pos, NEW st
  PROVE  SkipStep(data, Skipped(from, to, pos, st)) = Skipped(from, to, pos, st)
<1> DEFINE s == Skipped(from, to, pos, st)
<1>1. s.status # "Loop"
  BY Zenon DEF Skipped
<1> HIDE DEF s
<1>2. SkipStep(data, s) = s
  BY <1>1, Zenon DEF SkipStep
<1> QED BY <1>2, Zenon DEF s

(* skip_headers of nothing leaves the state alone.                          *)
LEMMA SkipNothing ==
  ASSUME NEW self
  PROVE  SkipHeaders(self, <<>>) = Skipped(0, 0, 0, self)
<1>0. Len(<<>>) = 0
  OBVIOUS
<1>n. Len(<<>>) \in Nat
  BY <1>0, Zenon
<1>1. PICK f : SkipLoop(f, self, <<>>)
  BY SkipRun, <1>n, Zenon
<1>2. SkipHeaders(self, <<>>) = SkipStep(<<>>, Looping(0, self))
  BY <1>1, <1>0 DEF SkipLoop
<1> QED BY <1>2, <1>0, TurnAtEnd, Zenon

(* skip_headers of half a header keeps it in the state.                     *)
LEMMA SkipHalfHeader ==
  ASSUME NEW lo
  PROVE  SkipHeaders(Start, <<lo>>) = Skipped(1, 1, 0, PartialHeader(lo))
<1>0. Len(<<lo>>) = 1 /\ <<lo>>[1] = lo /\ Start.tag = "Start"
  BY Zenon DEF Start
<1>n. Len(<<lo>>) \in Nat
  BY <1>0, Zenon
<1>1. PICK f : SkipLoop(f, Start, <<lo>>)
  BY SkipRun, <1>n, Zenon
<1>2. /\ f[1] = SkipStep(<<lo>>, Looping(0, Start)) /\ f[2] = SkipStep(<<lo>>, f[1])
      /\ SkipHeaders(Start, <<lo>>) = f[2]
  BY <1>1, <1>0 DEF SkipLoop
<1>3. f[1] = Skipped(1, 1, 0, PartialHeader(lo))
  BY <1>2, <1>0, TurnHalf, Zenon
<1> QED BY <1>2, <1>3, TurnStopped

(* skip_headers of a header gives the state that the header says.           *)
LEMMA SkipHeader ==
  ASSUME NEW lo, NEW hi, HeaderValid(<<lo, hi>>)
  PROVE  SkipHeaders(Start, <<lo, hi>>) = Skipped(2, 2, 2, FromHeader(<<lo, hi>>))
<1> DEFINE h == <<lo, hi>>
<1>0. Len(h) = 2 /\ SubSeq(h, 1, 2) = h /\ Start.tag = "Start"
  <2>1. h \in Seq({lo, hi}) /\ Len(h) = 2
    OBVIOUS
  <2>2. SubSeq(h, 1, Len(h)) = h
    BY <2>1, SubSeqFull, Zenon
  <2> QED BY <2>1, <2>2, Zenon DEF Start
<1> HIDE DEF h
<1>n. Len(h) \in Nat
  BY <1>0
<1>1. PICK f : SkipLoop(f, Start, h)
  BY SkipRun, <1>n, Zenon
<1>2. /\ f[1] = SkipStep(h, Looping(0, Start)) /\ f[2] = SkipStep(h, f[1])
      /\ f[3] = SkipStep(h, f[2]) /\ SkipHeaders(Start, h) = f[3]
  BY <1>1, <1>0 DEF SkipLoop
<1>3. f[1] = Looping(2, FromHeader(h))
  BY <1>2, <1>0, TurnHeader, Zenon DEF h
<1>4. SkipStep(h, Looping(2, FromHeader(h))) = Skipped(2, 2, 2, FromHeader(h))
  BY <1>0, TurnAtEnd, Zenon
<1> QED BY <1>2, <1>3, <1>4, TurnStopped DEF h

(* skip_headers of the other half gives the state that both halves say.     *)
LEMMA SkipOtherHalf ==
  ASSUME NEW lo, NEW hi, HeaderValid(<<lo, hi>>)
  PROVE  SkipHeaders(PartialHeader(lo), <<hi>>) = Skipped(1, 1, 1, FromHeader(<<lo, hi>>))
<1> DEFINE h == <<hi>>
           st == PartialHeader(lo)
<1>0. Len(h) = 1 /\ h[1] = hi /\ st.tag = "PartialHeader" /\ st.lo = lo
  BY Zenon DEF PartialHeader
<1> HIDE DEF h, st
<1>n. Len(h) \in Nat
  BY <1>0
<1>1. PICK f : SkipLoop(f, st, h)
  BY SkipRun, <1>n, Zenon
<1>2. /\ f[1] = SkipStep(h, Looping(0, st)) /\ f[2] = SkipStep(h, f[1])
      /\ SkipHeaders(st, h) = f[2]
  BY <1>1, <1>0 DEF SkipLoop
<1>3. f[1] = Looping(1, FromHeader(<<lo, hi>>))
  BY <1>2, <1>0, TurnOtherHalf, Zenon
<1>4. f[2] = Skipped(1, 1, 1, FromHeader(<<lo, hi>>))
  <2>1. 1 \in Nat
    OBVIOUS
  <2>2. SkipStep(h, Looping(1, FromHeader(<<lo, hi>>))) = Skipped(1, 1, 1, FromHeader(<<lo, hi>>))
    BY ONLY <2>1, <1>0, TurnAtEnd, Zenon
  <2> QED BY ONLY <2>2, <1>2, <1>3, Zenon
<1> QED BY ONLY <1>2, <1>4, Zenon DEF h, st

(* skip_headers in a body gives what there is of it, and what it still      *)
(* needs.                                                                   *)
LEMMA SkipBody ==
  ASSUME NEW r \in Nat \ {0}, NEW last, NEW data, Len(data) \in Nat \ {0}
  PROVE  LET n == Lesser(r, Len(data))
         IN  SkipHeaders(Body(r, last), data) = Skipped(0, n, 0, New(r - n, last))
<1> DEFINE n == Lesser(r, Len(data))
           st == Body(r, last)
<1>0. st.tag = "Body" /\ st.remaining = r /\ st.last = last
  BY Zenon DEF Body
<1> HIDE DEF st
<1>1. PICK f : SkipLoop(f, st, data)
  BY SkipRun, Zenon
<1>2. f[1] = SkipStep(data, Looping(0, st))
  BY <1>1 DEF SkipLoop
<1>3. f[1] = Skipped(0, n, 0, New(r - n, last))
  BY <1>2, <1>0, TurnBody, Zenon
<1> HIDE DEF n
<1>4. f[Len(data) + 1] = f[1]
  <2> DEFINE T == {i \in Nat : i <= Len(data) /\ f[i + 1] # f[1]}
  <2> SUFFICES ASSUME T # {} PROVE FALSE
    OBVIOUS
  <2>1. PICK i \in T : \A m \in T : i <= m
    <3>1. T \in SUBSET Nat
      OBVIOUS
    <3> HIDE DEF T
    <3> QED BY <3>1, LeastNumber, Zenon
  <2>2. i \in Nat /\ i <= Len(data) /\ f[i + 1] # f[1] /\ i - 1 \notin T
    <3>1. i - 1 \in T => i <= i - 1
      <4> HIDE DEF T
      <4> QED BY <2>1, Zenon
    <3> QED BY <3>1, <2>1
  <2>3. i # 0
    BY <2>2
  <2>4. f[i] = f[1]
    BY <2>2, <2>3
  <2>5. f[i + 1] = SkipStep(data, f[i])
    BY <2>2, <1>1 DEF SkipLoop
  <2> QED BY <2>2, <2>4, <2>5, <1>3, TurnStopped
<1> QED BY <1>1, <1>3, <1>4, Zenon DEF n, st, SkipLoop

-----------------------------------------------------------------------------
(* A point of the stream: what a reader knows that has come so far.  It     *)
(* still needs so many bytes of the block, which is the last one of its     *)
(* message or not, has perhaps half of a header, has cur of the current     *)
(* message, and has seen the end of n messages.                             *)
Point(need, last, lo, cur, n) ==
  [need |-> need, last |-> last, lo |-> lo, cur |-> cur, n |-> n]

(* The points that a stream of the messages msgs can have, of which the     *)
(* last one is not complete.                                                *)
IsPoint(p, msgs) ==
  /\ p = Point(p.need, p.last, p.lo, p.cur, p.n)
  /\ p.need \in 0 .. BlockSize /\ p.last \in BOOLEAN
  /\ p.lo \in Seq(Byte) /\ Len(p.lo) <= 1 /\ p.cur \in Seq(Byte)
  /\ p.need > 0 => p.lo = <<>>
  /\ p.need = 0 => ~p.last
  /\ p.n \in Nat /\ p.n < Len(msgs)
  /\ Len(p.cur) + p.need <= Len(msgs[p.n + 1])

(* The byte leads from the point p to the point q.                          *)
Completes(p, m, q, msgs) ==
  /\ p.n + 1 < Len(msgs) /\ msgs[p.n + 1] = m
  /\ q = Point(0, FALSE, <<>>, <<>>, p.n + 1)

Leads(p, byte, q, msgs) ==
  \/ p.need > 1 /\ q = Point(p.need - 1, p.last, <<>>, Append(p.cur, byte), p.n)
  \/ p.need = 1 /\ ~p.last /\ q = Point(0, FALSE, <<>>, Append(p.cur, byte), p.n)
  \/ p.need = 1 /\ p.last /\ Completes(p, Append(p.cur, byte), q, msgs)
  \/ p.need = 0 /\ p.lo = <<>> /\ q = Point(0, FALSE, <<byte>>, p.cur, p.n)
  \/ /\ p.need = 0 /\ p.lo # <<>> /\ HeaderValid(<<p.lo[1], byte>>)
     /\ LET h == <<p.lo[1], byte>>
        IN  IF HeaderSize(h) = 0 /\ HeaderIsLast(h)
              THEN Completes(p, p.cur, q, msgs)
              ELSE q = Point(HeaderSize(h), HeaderIsLast(h), <<>>, p.cur, p.n)

(* At the end of the stream there is a whole number of blocks, and tail is  *)
(* what they leave of the last message.                                     *)
AtEnd(p, tail, msgs) ==
  /\ p.need = 0 /\ p.lo = <<>> /\ p.n = Len(msgs) - 1
  /\ p.cur \o tail = msgs[Len(msgs)]

(* The points of a stream that starts at p.                                 *)
Points(L, st, p, msgs) ==
  /\ L[0] = p
  /\ \A i \in 0 .. Len(st) : IsPoint(L[i], msgs)
  /\ \A i \in 1 .. Len(st) : Leads(L[i - 1], st[i], L[i], msgs)

(* The stream st, read from the point p, carries the messages msgs as far   *)
(* as it goes; a whole one carries all but the tail of the last.            *)
Carries(st, p, msgs, whole, tail) ==
  \E L : Points(L, st, p, msgs) /\ (whole => AtEnd(L[Len(st)], tail, msgs))

Messages(msgs) == msgs \in Seq(Seq(Byte)) /\ Len(msgs) > 0

(* What is left of a sequence.                                              *)
LEMMA DropIs ==
  ASSUME NEW S, NEW s \in Seq(S), NEW k \in 0 .. Len(s)
  PROVE  /\ Drop(s, k) \in Seq(S) /\ Len(Drop(s, k)) = Len(s) - k
         /\ \A i \in 1 .. Len(s) - k : Drop(s, k)[i] = s[k + i]
<1> DEFINE d == SubSeq(s, k + 1, Len(s))
<1>1. Len(s) \in Nat /\ k \in Nat /\ k <= Len(s)
  BY LenProperties
<1>2. \A i \in k + 1 .. Len(s) : s[i] \in S
  BY <1>1, ElementOfSeq
<1>3. /\ d \in Seq(S) /\ Len(d) = IF k + 1 <= Len(s) THEN Len(s) - (k + 1) + 1 ELSE 0
      /\ \A i \in 1 .. Len(s) - (k + 1) + 1 : d[i] = s[(k + 1) + i - 1]
  <2>1. k + 1 \in Int /\ Len(s) \in Int
    BY <1>1
  <2> QED BY <1>2, <2>1, SubSeqProperties
<1>4. d = Drop(s, k)
  BY Zenon DEF Drop
<1> HIDE DEF d
<1>5. Len(d) = Len(s) - k /\ \A i \in 1 .. Len(s) - k : d[i] = s[k + i]
  BY <1>1, <1>3
<1> QED BY <1>3, <1>4, <1>5, Zenon

(* What is taken of a sequence.                                             *)
LEMMA TakeIs ==
  ASSUME NEW S, NEW s \in Seq(S), NEW k \in 0 .. Len(s)
  PROVE  /\ SubSeq(s, 1, k) \in Seq(S) /\ Len(SubSeq(s, 1, k)) = k
         /\ \A i \in 1 .. k : SubSeq(s, 1, k)[i] = s[i]
<1> DEFINE d == SubSeq(s, 1, k)
<1>1. Len(s) \in Nat /\ k \in Nat /\ k <= Len(s)
  BY LenProperties
<1>2. \A i \in 1 .. k : s[i] \in S
  BY <1>1, ElementOfSeq
<1>3. /\ d \in Seq(S) /\ Len(d) = IF 1 <= k THEN k - 1 + 1 ELSE 0
      /\ \A i \in 1 .. k - 1 + 1 : d[i] = s[1 + i - 1]
  <2>1. k \in Int /\ 1 \in Int
    BY <1>1
  <2> QED BY <1>2, <2>1, SubSeqProperties
<1> HIDE DEF d
<1>5. Len(d) = k /\ \A i \in 1 .. k : d[i] = s[i]
  BY <1>1, <1>3
<1> QED BY <1>3, <1>5, Zenon DEF d

(* One byte is taken from the stream.                                       *)
LEMMA TakeByte ==
  ASSUME NEW st \in Seq(Byte), NEW p, NEW msgs, NEW whole, NEW tail,
         Carries(st, p, msgs, whole, tail), st # <<>>
  PROVE  /\ IsPoint(p, msgs)
         /\ \E q : Leads(p, st[1], q, msgs) /\ Carries(Drop(st, 1), q, msgs, whole, tail)
<1>1. PICK L : Points(L, st, p, msgs) /\ (whole => AtEnd(L[Len(st)], tail, msgs))
  BY Zenon DEF Carries
<1>2. Len(st) \in Nat \ {0}
  BY EmptySeq, Zenon
<1> DEFINE rest == Drop(st, 1)
           M == [i \in 0 .. Len(rest) |-> L[i + 1]]
<1>3. Len(rest) = Len(st) - 1 /\ \A i \in 1 .. Len(rest) : rest[i] = st[i + 1]
  <2>1. 1 \in 0 .. Len(st)
    BY <1>2
  <2>2. /\ Len(rest) = Len(st) - 1
        /\ \A i \in 1 .. Len(st) - 1 : rest[i] = st[1 + i]
    BY <2>1, DropIs, Zenon
  <2> QED BY <2>2, <1>2
<1> HIDE DEF rest
<1>4. IsPoint(p, msgs) /\ Leads(p, st[1], L[1], msgs)
  BY <1>1, <1>2 DEF Points
<1>5. Points(M, rest, L[1], msgs)
  <2>1. M[0] = L[1]
    BY <1>2, <1>3
  <2>2. \A i \in 0 .. Len(rest) : IsPoint(M[i], msgs)
    BY <1>1, <1>2, <1>3 DEF Points
  <2>3. ASSUME NEW i \in 1 .. Len(rest) PROVE Leads(M[i - 1], rest[i], M[i], msgs)
    <3>1. M[i - 1] = L[i] /\ M[i] = L[i + 1] /\ rest[i] = st[i + 1]
      BY <1>2, <1>3
    <3>2. i + 1 \in 1 .. Len(st) /\ (i + 1) - 1 = i
      BY <1>2, <1>3
    <3> QED BY <1>1, <3>1, <3>2, Zenon DEF Points
  <2> QED BY <2>1, <2>2, <2>3, Zenon DEF Points
<1>6. M[Len(rest)] = L[Len(st)]
  BY <1>2, <1>3
<1> HIDE DEF M
<1>7. Carries(rest, L[1], msgs, whole, tail)
  BY <1>1, <1>5, <1>6, Zenon DEF Carries
<1> QED BY <1>4, <1>7, Zenon DEF rest

(* The stream is cut off somewhere.                                         *)
LEMMA CutShort ==
  ASSUME NEW st \in Seq(Byte), NEW p, NEW msgs, NEW whole, NEW tail, NEW new,
         Carries(st, p, msgs, whole, tail), NEW k \in 0 .. Len(st)
  PROVE  Carries(SubSeq(st, 1, k), p, msgs, FALSE, new)
<1>1. PICK L : Points(L, st, p, msgs)
  BY Zenon DEF Carries
<1> DEFINE s == SubSeq(st, 1, k)
<1>2. Len(s) = k /\ \A i \in 1 .. k : s[i] = st[i]
  BY TakeIs, Zenon
<1> HIDE DEF s
<1>3. Points(L, s, p, msgs)
  BY <1>1, <1>2, SMTT(30) DEF Points
<1> QED BY <1>3, Zenon DEF Carries, s

(* Dropping twice is dropping the sum.                                      *)
LEMMA DropDrop ==
  ASSUME NEW S, NEW s \in Seq(S), NEW a \in 0 .. Len(s), NEW b \in 0 .. Len(s) - a
  PROVE  Drop(Drop(s, a), b) = Drop(s, a + b)
<1>1. Len(s) \in Nat /\ a + b \in 0 .. Len(s)
  BY LenProperties
<1>2. /\ Drop(s, a) \in Seq(S) /\ Len(Drop(s, a)) = Len(s) - a
      /\ \A i \in 1 .. Len(s) - a : Drop(s, a)[i] = s[a + i]
  BY DropIs, Zenon
<1>3. /\ Drop(s, a + b) \in Seq(S) /\ Len(Drop(s, a + b)) = Len(s) - (a + b)
      /\ \A i \in 1 .. Len(s) - (a + b) : Drop(s, a + b)[i] = s[(a + b) + i]
  BY DropIs, <1>1, Zenon
<1> DEFINE d == Drop(s, a)
<1>4. /\ Drop(d, b) \in Seq(S) /\ Len(Drop(d, b)) = Len(d) - b
      /\ \A i \in 1 .. Len(d) - b : Drop(d, b)[i] = d[b + i]
  <2> HIDE DEF d
  <2>1. d \in Seq(S) /\ b \in 0 .. Len(d)
    BY <1>2, Zenon DEF d
  <2> QED BY <2>1, DropIs, Zenon
<1> HIDE DEF d
<1>5. Len(Drop(d, b)) = Len(Drop(s, a + b))
  BY <1>1, <1>2, <1>3, <1>4 DEF d
<1>6. ASSUME NEW i \in 1 .. Len(Drop(d, b)) PROVE Drop(d, b)[i] = Drop(s, a + b)[i]
  <2>1. i \in 1 .. Len(d) - b /\ b + i \in 1 .. Len(s) - a /\ a + (b + i) = (a + b) + i
    BY <1>1, <1>2, <1>4 DEF d
  <2>2. Drop(d, b)[i] = s[a + (b + i)]
    BY <2>1, <1>2, <1>4, Zenon DEF d
  <2>3. Drop(s, a + b)[i] = s[(a + b) + i]
    BY <2>1, <1>1, <1>2, <1>3 DEF d
  <2> QED BY <2>1, <2>2, <2>3, Zenon
<1>7. Drop(d, b) = Drop(s, a + b)
  BY <1>3, <1>4, <1>5, <1>6, SeqEqual, Zenon
<1> QED BY <1>7, Zenon DEF d

(* Dropping nothing and dropping everything.                                *)
LEMMA DropNone ==
  ASSUME NEW S, NEW s \in Seq(S)
  PROVE  Drop(s, 0) = s /\ SubSeq(s, 1, 0) = <<>> /\ Drop(s, Len(s)) = <<>>
<1>1. Len(s) \in Nat
  BY LenProperties, Zenon
<1>2. Drop(s, 0) = SubSeq(s, 1, Len(s))
  BY DEF Drop
<1>3. SubSeq(s, 1, Len(s)) = s
  BY SubSeqFull, Zenon
<1>4. SubSeq(s, 1, 0) = <<>>
  BY SubSeqEmpty
<1>5. Drop(s, Len(s)) = <<>>
  BY <1>1, SubSeqEmpty DEF Drop
<1> QED BY <1>2, <1>3, <1>4, <1>5, Zenon

(* A message grows by one byte of what is taken.                            *)
LEMMA OneMore ==
  ASSUME NEW S, NEW c \in Seq(S), NEW s \in Seq(S), NEW j \in 1 .. Len(s)
  PROVE  Append(c \o SubSeq(s, 1, j - 1), s[j]) = c \o SubSeq(s, 1, j)
<1> DEFINE a == SubSeq(s, 1, j - 1)
           b == SubSeq(s, 1, j)
<1>1. Len(s) \in Nat /\ j - 1 \in 0 .. Len(s) /\ j \in 0 .. Len(s) /\ Len(c) \in Nat
      /\ s[j] \in S
  BY LenProperties, ElementOfSeq
<1>2. a \in Seq(S) /\ Len(a) = j - 1 /\ \A i \in 1 .. j - 1 : a[i] = s[i]
  BY <1>1, TakeIs, Zenon
<1>3. b \in Seq(S) /\ Len(b) = j /\ \A i \in 1 .. j : b[i] = s[i]
  BY <1>1, TakeIs, Zenon
<1> HIDE DEF a, b
<1>4. /\ c \o a \in Seq(S) /\ Len(c \o a) = Len(c) + Len(a)
      /\ \A i \in 1 .. Len(c) + Len(a) : (c \o a)[i] = IF i <= Len(c) THEN c[i] ELSE a[i - Len(c)]
  BY <1>2, ConcatProperties, Zenon
<1>5. /\ c \o b \in Seq(S) /\ Len(c \o b) = Len(c) + Len(b)
      /\ \A i \in 1 .. Len(c) + Len(b) : (c \o b)[i] = IF i <= Len(c) THEN c[i] ELSE b[i - Len(c)]
  BY <1>3, ConcatProperties, Zenon
<1> DEFINE d == c \o a
           e == c \o b
           f == Append(d, s[j])
<1>6. /\ f \in Seq(S) /\ Len(f) = Len(d) + 1
      /\ \A i \in 1 .. Len(d) : f[i] = d[i]
      /\ f[Len(d) + 1] = s[j]
  BY <1>1, <1>4, AppendProperties
<1> HIDE DEF d, e, f
<1>7. Len(f) = Len(e)
  BY <1>1, <1>2, <1>3, <1>4, <1>5, <1>6 DEF d, e
<1>8. ASSUME NEW i \in 1 .. Len(f) PROVE f[i] = e[i]
  <2>1. Len(f) = Len(c) + j /\ Len(d) = Len(c) + (j - 1)
    BY <1>1, <1>2, <1>4, <1>6 DEF d
  <2>2. CASE i <= Len(c)
    BY <2>1, <2>2, <1>1, <1>2, <1>3, <1>4, <1>5, <1>6, SMTT(20) DEF d, e
  <2>3. CASE i > Len(c) /\ i <= Len(d)
    <3>1. i - Len(c) \in 1 .. j - 1 /\ i \in 1 .. Len(d) /\ i \in 1 .. Len(c) + Len(a)
          /\ i \in 1 .. Len(c) + Len(b) /\ ~(i <= Len(c)) /\ i - Len(c) \in 1 .. j
      <4> DEFINE C == Len(c)
                 E == Len(d)
      <4>1. /\ C \in Nat /\ E = C + (j - 1) /\ i > C /\ i <= E /\ Len(a) = j - 1 /\ Len(b) = j
            /\ Len(f) = C + j /\ j \in Nat \ {0}
        BY ONLY <2>1, <2>3, <1>1, <1>2, <1>3, j \in 1 .. Len(s)
      <4> HIDE DEF C, E
      <4>2. i - C \in 1 .. j - 1 /\ i \in 1 .. E /\ i \in 1 .. C + Len(a)
            /\ i \in 1 .. C + Len(b) /\ ~(i <= C) /\ i - C \in 1 .. j
        BY ONLY <4>1, i \in 1 .. Len(f)
      <4> QED BY ONLY <4>2, Zenon DEF C, E
    <3>2. f[i] = a[i - Len(c)] /\ e[i] = b[i - Len(c)]
      BY <3>1, <1>4, <1>5, <1>6, Zenon DEF d, e
    <3> QED BY <3>1, <3>2, <1>2, <1>3, Zenon
  <2>4. CASE i = Len(d) + 1
    <3>1. i - Len(c) = j /\ i \in 1 .. Len(c) + Len(b) /\ ~(i <= Len(c)) /\ j \in 1 .. j
      BY <2>1, <2>4, <1>1, <1>2, <1>3
    <3> QED BY <3>1, <2>4, <1>3, <1>5, <1>6, Zenon DEF e
  <2> QED BY <2>1, <2>2, <2>3, <2>4, <1>1
<1>9. f = e
  BY <1>5, <1>6, <1>7, <1>8, SeqEqual, Zenon DEF e
<1> QED BY <1>9, Zenon DEF a, b, d, e, f

(* Bytes s of a body are taken from the stream.                             *)
BodyTaken(p, s, q, msgs) ==
  \/ Len(s) < p.need /\ q = Point(p.need - Len(s), p.last, <<>>, p.cur \o s, p.n)
  \/ Len(s) = p.need /\ ~p.last /\ q = Point(0, FALSE, <<>>, p.cur \o s, p.n)
  \/ Len(s) = p.need /\ p.last /\ Completes(p, p.cur \o s, q, msgs)

(* Where a byte leads, by where it is in its block.                         *)
LEMMA LeadsOn ==
  ASSUME NEW p, NEW byte, NEW q, NEW msgs, Leads(p, byte, q, msgs), p.need \in Nat
  PROVE  /\ p.need > 1 => q = Point(p.need - 1, p.last, <<>>, Append(p.cur, byte), p.n)
         /\ p.need = 1 /\ ~p.last => q = Point(0, FALSE, <<>>, Append(p.cur, byte), p.n)
         /\ p.need = 1 /\ p.last => Completes(p, Append(p.cur, byte), q, msgs)
         /\ p.need = 0 /\ p.lo = <<>> => q = Point(0, FALSE, <<byte>>, p.cur, p.n)
         /\ p.need = 0 /\ p.lo # <<>> =>
              /\ HeaderValid(<<p.lo[1], byte>>)
              /\ LET h == <<p.lo[1], byte>>
                 IN  IF HeaderSize(h) = 0 /\ HeaderIsLast(h)
                       THEN Completes(p, p.cur, q, msgs)
                       ELSE q = Point(HeaderSize(h), HeaderIsLast(h), <<>>, p.cur, p.n)
<1>1. p.need > 1 => p.need # 1 /\ p.need # 0
  OBVIOUS
<1>2. p.need = 1 => ~(p.need > 1) /\ p.need # 0
  OBVIOUS
<1>3. p.need = 0 => ~(p.need > 1) /\ p.need # 1
  OBVIOUS
<1> QED BY <1>1, <1>2, <1>3, Zenon DEF Leads

(* A stream is read from one of its points.                                 *)
LEMMA FirstPoint ==
  ASSUME NEW st, Len(st) \in Nat, NEW p, NEW msgs, NEW whole, NEW tail,
         Carries(st, p, msgs, whole, tail)
  PROVE  IsPoint(p, msgs)
BY DEF Carries, Points

(* Bytes of a body are taken from the stream, which goes on from the point  *)
(* they lead to.                                                            *)
LEMMA TakeBody ==
  ASSUME NEW st \in Seq(Byte), NEW p, NEW msgs, NEW whole, NEW tail,
         Carries(st, p, msgs, whole, tail), p.need > 0,
         NEW j \in 0 .. Len(st), j <= p.need
  PROVE  \E q : /\ BodyTaken(p, SubSeq(st, 1, j), q, msgs)
                /\ Carries(Drop(st, j), q, msgs, whole, tail)
<1> DEFINE Taken(k) == \E q : /\ BodyTaken(p, SubSeq(st, 1, k), q, msgs)
                              /\ Carries(Drop(st, k), q, msgs, whole, tail)
           T == {k \in Nat : k <= Len(st) /\ k <= p.need /\ ~ Taken(k)}
<1>1. Len(st) \in Nat
  BY LenProperties, Zenon
<1>2. IsPoint(p, msgs)
  BY <1>1, FirstPoint, Zenon
<1>3. p.need \in Nat /\ p.cur \in Seq(Byte) /\ p = Point(p.need, p.last, <<>>, p.cur, p.n)
  <2>1. p = Point(p.need, p.last, p.lo, p.cur, p.n) /\ p.need > 0 => p.lo = <<>>
    BY <1>2, Zenon DEF IsPoint
  <2>2. BlockSize \in Nat
    BY BlockAssumption, Zenon
  <2> QED BY <2>1, <2>2, <1>2 DEF IsPoint
<1> SUFFICES ASSUME T # {} PROVE FALSE
  <2>1. j \in Nat
    BY <1>1
  <2> HIDE DEF Taken
  <2>2. Taken(j)
    BY <2>1
  <2> QED BY <2>2, Zenon DEF Taken
<1>4. PICK k \in T : \A m \in T : k <= m
  <2>1. T \in SUBSET Nat
    OBVIOUS
  <2> HIDE DEF T
  <2> QED BY <2>1, LeastNumber, Zenon
<1>5. k \in Nat /\ k <= Len(st) /\ k <= p.need /\ ~ Taken(k) /\ k - 1 \notin T
  <2>1. k - 1 \in T => k <= k - 1
    <3> HIDE DEF T
    <3> QED BY <1>4, Zenon
  <2> HIDE DEF Taken
  <2> QED BY <2>1, <1>4
<1> HIDE DEF T, Taken
<1>6. CASE k = 0
  <2>1. Drop(st, k) = st /\ SubSeq(st, 1, k) = <<>> /\ p.cur \o <<>> = p.cur
    BY <1>3, <1>6, DropNone, ConcatEmptySeq, Zenon
  <2>2. Len(<<>>) = 0 /\ p.need - 0 = p.need
    BY <1>3
  <2>3. BodyTaken(p, <<>>, p, msgs)
    BY <2>1, <2>2, <1>3, Zenon DEF BodyTaken
  <2> QED BY <2>1, <2>3, <1>5, Zenon DEF Taken
<1>7. CASE k > 0
  <2> DEFINE s == SubSeq(st, 1, k - 1)
             d == Drop(st, k - 1)
  <2>0. k - 1 \in Nat /\ k - 1 \in 0 .. Len(st) /\ k \in 1 .. Len(st) /\ k \in 0 .. Len(st)
    BY <1>1, <1>5, <1>7
  <2>1. PICK q : BodyTaken(p, s, q, msgs) /\ Carries(d, q, msgs, whole, tail)
    <3>1. Taken(k - 1)
      BY <2>0, <1>3, <1>5 DEF T
    <3> QED BY <3>1, Zenon DEF Taken
  <2>2. s \in Seq(Byte) /\ Len(s) = k - 1
    BY <2>0, TakeIs, Zenon
  <2>3. q = Point(p.need - (k - 1), p.last, <<>>, p.cur \o s, p.n)
    <3>1. Len(s) # p.need
      BY <2>2, <1>3, <1>5
    <3> HIDE DEF s
    <3> QED BY <3>1, <2>1, <2>2, Zenon DEF BodyTaken
  <2>4. d \in Seq(Byte) /\ Len(d) = Len(st) - (k - 1) /\ d[1] = st[k]
    <3>1. /\ d \in Seq(Byte) /\ Len(d) = Len(st) - (k - 1)
          /\ \A i \in 1 .. Len(st) - (k - 1) : d[i] = st[(k - 1) + i]
      BY <2>0, DropIs, Zenon
    <3>2. 1 \in 1 .. Len(st) - (k - 1) /\ (k - 1) + 1 = k
      BY <1>1, <2>0
    <3> QED BY <3>1, <3>2, Zenon
  <2>5. d # <<>> /\ Drop(d, 1) = Drop(st, k)
    <3>1. 1 \in 0 .. Len(st) - (k - 1) /\ (k - 1) + 1 = k
      BY <1>1, <2>0
    <3>2. Drop(Drop(st, k - 1), 1) = Drop(st, (k - 1) + 1)
      BY <2>0, <3>1, DropDrop, Zenon
    <3> HIDE DEF d
    <3>3. d # <<>>
      BY <2>4, <3>1, <1>1, <2>0
    <3> QED BY <3>1, <3>2, <3>3, Zenon DEF d
  <2> HIDE DEF d, s
  <2>6. PICK r : Leads(q, st[k], r, msgs) /\ Carries(Drop(st, k), r, msgs, whole, tail)
    BY <2>1, <2>4, <2>5, TakeByte, Zenon
  <2>7. Append(p.cur \o s, st[k]) = p.cur \o SubSeq(st, 1, k) /\ Len(SubSeq(st, 1, k)) = k
    BY <1>3, <2>0, OneMore, TakeIs, Zenon DEF s
  <2>8. q.need = p.need - (k - 1) /\ q.last = p.last /\ q.cur = p.cur \o s /\ q.n = p.n
    BY <2>3, Zenon DEF Point
  <2>n. q.need \in Nat
    BY <2>8, <1>3, <1>5
  <2> DEFINE t == SubSeq(st, 1, k)
  <2> HIDE DEF t
  <2>9. BodyTaken(p, t, r, msgs)
    <3>1. CASE k < p.need
      <4>1. q.need > 1 /\ q.need - 1 = p.need - k
        BY <3>1, <2>8, <1>3, <1>5
      <4>2. r = Point(q.need - 1, q.last, <<>>, Append(q.cur, st[k]), q.n)
        BY ONLY <4>1, <2>6, <2>n, LeadsOn, Zenon
      <4>3. r = Point(p.need - k, p.last, <<>>, p.cur \o t, p.n)
        BY ONLY <4>1, <4>2, <2>7, <2>8, Zenon DEF t
      <4> QED BY <4>3, <3>1, <2>7, Zenon DEF BodyTaken, t
    <3>2. CASE k = p.need
      <4>1. q.need = 1
        BY <3>2, <2>8, <1>3, <1>5
      <4>2. \/ ~p.last /\ r = Point(0, FALSE, <<>>, p.cur \o t, p.n)
            \/ p.last /\ Completes(q, p.cur \o t, r, msgs)
        <5>1. \/ ~q.last /\ r = Point(0, FALSE, <<>>, Append(q.cur, st[k]), q.n)
              \/ q.last /\ Completes(q, Append(q.cur, st[k]), r, msgs)
          BY ONLY <4>1, <2>6, <2>n, LeadsOn, Zenon
        <5> QED BY ONLY <5>1, <2>7, <2>8, Zenon DEF t
      <4>3. Completes(q, p.cur \o t, r, msgs) => Completes(p, p.cur \o t, r, msgs)
        BY <2>8, Zenon DEF Completes
      <4> QED BY <4>2, <4>3, <3>2, <2>7, Zenon DEF BodyTaken, t
    <3> QED BY <3>1, <3>2, <1>3, <1>5
  <2> QED BY <2>6, <2>9, <1>5, Zenon DEF t, Taken
<1> QED BY <1>5, <1>6, <1>7

(* The messages grow: the last one gets longer, or others follow it.        *)
LEMMA MessagesGrow ==
  ASSUME NEW st, Len(st) \in Nat, NEW p, NEW L, NEW msgs, NEW new,
         Messages(msgs), Messages(new), Points(L, st, p, msgs),
         Len(msgs) <= Len(new), \A i \in 1 .. Len(msgs) - 1 : new[i] = msgs[i],
         Len(msgs[Len(msgs)]) <= Len(new[Len(msgs)])
  PROVE  Points(L, st, p, new)
<1>1. /\ Len(msgs) \in Nat \ {0} /\ Len(new) \in Nat
      /\ \A i \in 1 .. Len(msgs) : Len(msgs[i]) \in Nat
      /\ \A i \in 1 .. Len(new) : Len(new[i]) \in Nat
  <2>1. msgs \in Seq(Seq(Byte)) /\ new \in Seq(Seq(Byte)) /\ Len(msgs) > 0
    BY Zenon DEF Messages
  <2>2. Len(msgs) \in Nat /\ Len(new) \in Nat
    BY <2>1, LenProperties, Zenon
  <2>3. \A i \in 1 .. Len(msgs) : msgs[i] \in Seq(Byte)
    BY <2>1, ElementOfSeq, Zenon
  <2>4. \A i \in 1 .. Len(new) : new[i] \in Seq(Byte)
    BY <2>1, ElementOfSeq, Zenon
  <2> QED BY <2>1, <2>2, <2>3, <2>4, LenProperties
<1>2. \A i \in 1 .. Len(msgs) : Len(msgs[i]) <= Len(new[i])
  <2> TAKE i \in 1 .. Len(msgs)
  <2>1. CASE i = Len(msgs)
    BY <2>1, Zenon
  <2>2. CASE i # Len(msgs)
    <3>1. i \in 1 .. Len(msgs) - 1
      BY <2>2, <1>1
    <3>2. new[i] = msgs[i]
      BY <3>1, Zenon
    <3>3. Len(msgs[i]) \in Nat
      BY ONLY <1>1, i \in 1 .. Len(msgs), Zenon
    <3> QED BY ONLY <3>2, <3>3
  <2> QED BY ONLY <2>1, <2>2, Zenon
<1>3. ASSUME NEW q, IsPoint(q, msgs) PROVE IsPoint(q, new)
  <2>1. q.n + 1 \in 1 .. Len(msgs) /\ q.n < Len(new)
    <3>1. q.n \in Nat /\ q.n < Len(msgs)
      BY ONLY <1>3, Zenon DEF IsPoint
    <3> QED BY ONLY <3>1, <1>1, Len(msgs) <= Len(new)
  <2>2. Len(q.cur) + q.need <= Len(msgs[q.n + 1]) /\ Len(q.cur) \in Nat /\ q.need \in Nat
    BY <1>3, BlockAssumption, LenProperties DEF IsPoint
  <2>3. Len(q.cur) + q.need <= Len(new[q.n + 1])
    <3>1. Len(msgs[q.n + 1]) <= Len(new[q.n + 1]) /\ Len(msgs[q.n + 1]) \in Nat
          /\ q.n + 1 \in 1 .. Len(new)
      BY <1>1, <1>2, <2>1, SMTT(20)
    <3>2. Len(new[q.n + 1]) \in Nat
      BY <1>1, <3>1, Zenon
    <3> QED BY ONLY <3>1, <3>2, <2>2, SMTT(20)
  <2> QED BY <1>3, <2>1, <2>3, Zenon DEF IsPoint
<1>4. ASSUME NEW q, NEW r, NEW m, q.n \in Nat, Completes(q, m, r, msgs)
      PROVE  Completes(q, m, r, new)
  <2>1. q.n + 1 < Len(new) /\ q.n + 1 \in 1 .. Len(msgs) - 1
    BY <1>1, <1>4 DEF Completes
  <2> QED BY <2>1, <1>4, Zenon DEF Completes
<1>5. ASSUME NEW q, NEW r, NEW byte, q.n \in Nat, Leads(q, byte, r, msgs)
      PROVE  Leads(q, byte, r, new)
  <2>1. \A m : Completes(q, m, r, msgs) => Completes(q, m, r, new)
    BY <1>4, <1>5, Zenon
  <2> QED BY <1>5, <2>1, Zenon DEF Leads
<1>6. ASSUME NEW i \in 1 .. Len(st) PROVE Leads(L[i - 1], st[i], L[i], new)
  <2>1. i - 1 \in 0 .. Len(st)
    OBVIOUS
  <2>2. L[i - 1].n \in Nat /\ Leads(L[i - 1], st[i], L[i], msgs)
    BY <2>1, Zenon DEF Points, IsPoint
  <2> QED BY <2>2, <1>5, Zenon
<1> QED BY <1>3, <1>6, Zenon DEF Points

(* A block follows the stream st.                                           *)
Followed(s, st, h, body) ==
  /\ s \in Seq(Byte) /\ Len(s) = Len(st) + 2 + Len(body)
  /\ \A i \in 1 .. Len(st) : s[i] = st[i]
  /\ s[Len(st) + 1] = h[1] /\ s[Len(st) + 2] = h[2]
  /\ \A i \in 1 .. Len(body) : s[Len(st) + 2 + i] = body[i]

(* The points in its body.                                                  *)
BodyPoint(cur, n, body, end, i) ==
  IF end /\ i = Len(body)
    THEN Point(0, FALSE, <<>>, <<>>, n + 1)
    ELSE Point(Len(body) - i, end, <<>>, cur \o SubSeq(body, 1, i), n)

(* They are points of the stream.                                           *)
LEMMA BodyPointIsPoint ==
  ASSUME NEW msgs, Messages(msgs), NEW cur \in Seq(Byte), NEW body \in Seq(Byte),
         NEW n \in Nat, n < Len(msgs), NEW end \in BOOLEAN, Len(body) <= BlockSize,
         Len(cur) + Len(body) <= Len(msgs[n + 1]), end => n + 1 < Len(msgs),
         NEW i \in 0 .. Len(body)
  PROVE  IsPoint(BodyPoint(cur, n, body, end, i), msgs)
<1>0. /\ Len(msgs) \in Nat /\ \A k \in 1 .. Len(msgs) : Len(msgs[k]) \in Nat
      /\ Len(body) \in Nat /\ Len(cur) \in Nat /\ BlockSize \in Nat
  <2>1. msgs \in Seq(Seq(Byte))
    BY Zenon DEF Messages
  <2>2. \A k \in 1 .. Len(msgs) : msgs[k] \in Seq(Byte)
    BY <2>1, ElementOfSeq, Zenon
  <2> QED BY <2>1, <2>2, LenProperties, BlockAssumption, Zenon
<1>e. <<>> \in Seq(Byte) /\ Len(<<>>) = 0
  BY EmptySeq, Zenon
<1>1. CASE end /\ i = Len(body)
  <2> DEFINE q == Point(0, FALSE, <<>>, <<>>, n + 1)
  <2>1. q.need = 0 /\ q.last = FALSE /\ q.lo = <<>> /\ q.cur = <<>> /\ q.n = n + 1
    BY Zenon DEF Point
  <2>2. BodyPoint(cur, n, body, end, i) = q
    BY <1>1, Zenon DEF BodyPoint
  <2> HIDE DEF q
  <2>3. n + 1 \in Nat /\ n + 1 < Len(msgs) /\ (n + 1) + 1 \in 1 .. Len(msgs)
    BY <1>1, <1>0
  <2>4. Len(msgs[(n + 1) + 1]) \in Nat
    BY <2>3, <1>0, Zenon
  <2>5. q = Point(q.need, q.last, q.lo, q.cur, q.n)
    BY <2>1, Zenon DEF q
  <2>6. IsPoint(q, msgs)
    <3>1. Len(q.cur) + q.need = 0 /\ q.n + 1 = (n + 1) + 1
      BY ONLY <2>1, <1>e
    <3>2. Len(q.cur) + q.need <= Len(msgs[q.n + 1])
      BY ONLY <3>1, <2>4
    <3>3. q.need \in 0 .. BlockSize /\ ~(q.need > 0) /\ Len(q.lo) <= 1
      BY ONLY <2>1, <1>0, <1>e
    <3> QED BY <2>1, <2>3, <2>5, <3>2, <3>3, <1>e, Zenon DEF IsPoint
  <2> QED BY <2>2, <2>6, Zenon
<1>2. CASE ~(end /\ i = Len(body))
  <2> DEFINE c == cur \o SubSeq(body, 1, i)
             q == Point(Len(body) - i, end, <<>>, c, n)
  <2>1. q.need = Len(body) - i /\ q.last = end /\ q.lo = <<>> /\ q.cur = c /\ q.n = n
    BY Zenon DEF Point
  <2>2. BodyPoint(cur, n, body, end, i) = q
    BY <1>2, Zenon DEF BodyPoint
  <2>3. c \in Seq(Byte) /\ Len(c) = Len(cur) + i
    <3>1. SubSeq(body, 1, i) \in Seq(Byte) /\ Len(SubSeq(body, 1, i)) = i
      BY TakeIs, Zenon
    <3> QED BY <3>1, ConcatProperties
  <2> HIDE DEF c, q
  <2>5. q = Point(q.need, q.last, q.lo, q.cur, q.n)
    BY <2>1, Zenon DEF q
  <2>6. q.need \in 0 .. BlockSize /\ (q.need = 0 => ~end)
    BY <2>1, <1>0, <1>2
  <2>7. Len(q.cur) + q.need <= Len(msgs[q.n + 1])
    BY <2>1, <2>3, <1>0, SMTT(20)
  <2>8. IsPoint(q, msgs)
    BY <2>1, <2>3, <2>5, <2>6, <2>7, <1>0, <1>e DEF IsPoint
  <2> QED BY <2>2, <2>8, Zenon
<1> QED BY <1>1, <1>2, Zenon

(* Each byte of the body leads from one of them to the next.                *)
LEMMA BodyPointLeads ==
  ASSUME NEW msgs, NEW cur \in Seq(Byte), NEW body \in Seq(Byte), NEW n, NEW end \in BOOLEAN,
         end => n + 1 < Len(msgs) /\ msgs[n + 1] = cur \o body, NEW i \in 1 .. Len(body)
  PROVE  Leads(BodyPoint(cur, n, body, end, i - 1), body[i], BodyPoint(cur, n, body, end, i), msgs)
<1>0. Len(body) \in Nat
  BY LenProperties, Zenon
<1> DEFINE c == cur \o SubSeq(body, 1, i - 1)
           p == Point(Len(body) - (i - 1), end, <<>>, c, n)
           q == BodyPoint(cur, n, body, end, i)
<1>1. BodyPoint(cur, n, body, end, i - 1) = p
  <2>1. i - 1 # Len(body)
    BY <1>0
  <2> QED BY <2>1, Zenon DEF BodyPoint
<1>2. Append(c, body[i]) = cur \o SubSeq(body, 1, i)
  BY OneMore, Zenon
<1>3. p.need = Len(body) - (i - 1) /\ p.last = end /\ p.cur = c /\ p.n = n
  BY Zenon DEF Point
<1> HIDE DEF c, p, q
<1>4. CASE i < Len(body)
  <2>1. p.need > 1 /\ p.need - 1 = Len(body) - i /\ i # Len(body)
    BY <1>0, <1>3, <1>4
  <2>2. q = Point(p.need - 1, p.last, <<>>, Append(p.cur, body[i]), p.n)
    BY <2>1, <1>2, <1>3, Zenon DEF BodyPoint, q
  <2>3. Leads(p, body[i], q, msgs)
    BY <2>1, <2>2, Zenon DEF Leads
  <2> QED BY <2>3, <1>1, Zenon DEF q
<1>5. CASE i = Len(body)
  <2>1. p.need = 1 /\ Len(body) - i = 0 /\ SubSeq(body, 1, i) = body
    <3>1. SubSeq(body, 1, Len(body)) = body
      BY SubSeqFull, Zenon
    <3> QED BY <3>1, <1>0, <1>3, <1>5
  <2>2. CASE end
    <3>1. q = Point(0, FALSE, <<>>, <<>>, n + 1)
      BY <2>2, <1>5, Zenon DEF BodyPoint, q
    <3>2. Completes(p, Append(p.cur, body[i]), q, msgs)
      BY <3>1, <2>1, <2>2, <1>2, <1>3, Zenon DEF Completes
    <3>3. Leads(p, body[i], q, msgs)
      BY <3>2, <2>1, <2>2, <1>3, Zenon DEF Leads
    <3> QED BY <3>3, <1>1, Zenon DEF q
  <2>3. CASE ~end
    <3>1. q = Point(Len(body) - i, end, <<>>, cur \o SubSeq(body, 1, i), n)
      BY <2>3, Zenon DEF BodyPoint, q
    <3>2. end = FALSE
      BY <2>3, Zenon
    <3>3. q = Point(0, FALSE, <<>>, Append(p.cur, body[i]), p.n)
      BY <3>1, <3>2, <2>1, <1>2, <1>3, Zenon
    <3>4. Leads(p, body[i], q, msgs)
      BY <3>3, <2>1, <2>3, <1>3, Zenon DEF Leads
    <3> QED BY <3>4, <1>1, Zenon DEF q
  <2> QED BY <2>2, <2>3, Zenon
<1> QED BY <1>0, <1>4, <1>5

(* The second byte of the header leads to the first of them.                *)
LEMMA HeaderLeads ==
  ASSUME NEW msgs, NEW cur \in Seq(Byte), NEW body \in Seq(Byte), NEW n, NEW end \in BOOLEAN,
         end => n + 1 < Len(msgs) /\ msgs[n + 1] = cur \o body, Len(body) <= BlockSize
  PROVE  LET h == Header(Len(body), end)
         IN  Leads(Point(0, FALSE, <<h[1]>>, cur, n), h[2], BodyPoint(cur, n, body, end, 0), msgs)
<1> DEFINE h == Header(Len(body), end)
           p == Point(0, FALSE, <<h[1]>>, cur, n)
           q == BodyPoint(cur, n, body, end, 0)
<1>0. Len(body) \in 0 .. BlockSize
  BY LenProperties, BlockAssumption
<1>1. h = <<h[1], h[2]>> /\ HeaderSize(h) = Len(body) /\ HeaderIsLast(h) = end
  BY <1>0, HeaderSays
<1>2. p.need = 0 /\ p.lo = <<h[1]>> /\ p.cur = cur /\ p.n = n
  BY Zenon DEF Point
<1>3. cur \o SubSeq(body, 1, 0) = cur
  BY SubSeqEmpty, ConcatEmptySeq
<1>4. <<h[1]>> # <<>> /\ <<h[1]>>[1] = h[1] /\ Len(body) - 0 = Len(body)
  BY <1>0, BlockAssumption
<1>5. HeaderValid(h)
  BY <1>1, Zenon DEF HeaderValid
<1> HIDE DEF h, p, q
<1>6. CASE end /\ Len(body) = 0
  <2>1. q = Point(0, FALSE, <<>>, <<>>, n + 1)
    BY <1>6, Zenon DEF q, BodyPoint
  <2>2. cur \o body = cur
    <3>1. body = <<>>
      BY <1>6, EmptySeq, Zenon
    <3> QED BY <3>1, ConcatEmptySeq, Zenon
  <2>3. Completes(p, p.cur, q, msgs)
    BY <2>1, <2>2, <1>2, <1>6, Zenon DEF Completes
  <2>4. Leads(p, h[2], q, msgs)
    BY <2>3, <1>1, <1>2, <1>4, <1>5, <1>6, Zenon DEF Leads
  <2> QED BY <2>4, Zenon DEF h, p, q
<1>7. CASE ~(end /\ Len(body) = 0)
  <2>1. q = Point(Len(body), end, <<>>, cur, n)
    BY <1>3, <1>4, <1>7, Zenon DEF q, BodyPoint
  <2>2. Leads(p, h[2], q, msgs)
    BY <2>1, <1>1, <1>2, <1>4, <1>5, <1>7, Zenon DEF Leads
  <2> QED BY <2>2, Zenon DEF h, p, q
<1> QED BY <1>6, <1>7, Zenon

(* A block is added to a stream that ends between two blocks.               *)
MayFollow(st, s, p, L, e, msgs, body, end) ==
  /\ Messages(msgs) /\ Points(L, st, p, msgs) /\ e = L[Len(st)]
  /\ e.need = 0 /\ e.lo = <<>> /\ Len(body) <= BlockSize
  /\ Len(e.cur) + Len(body) <= Len(msgs[e.n + 1])
  /\ end => e.n + 1 < Len(msgs) /\ msgs[e.n + 1] = e.cur \o body
  /\ Followed(s, st, Header(Len(body), end), body)

BlockPoints(s, p, e, msgs, body, end) ==
  \E M : /\ Points(M, s, p, msgs)
         /\ M[Len(s)] = BodyPoint(e.cur, e.n, body, end, Len(body))

(* The header and the body lead from the end of the stream to the end of    *)
(* the block.                                                               *)
LEMMA BlockFollows ==
  ASSUME NEW st \in Seq(Byte), NEW s, NEW p, NEW L, NEW e, NEW msgs, NEW body \in Seq(Byte),
         NEW end \in BOOLEAN, MayFollow(st, s, p, L, e, msgs, body, end)
  PROVE  BlockPoints(s, p, e, msgs, body, end)
<1>a. /\ Messages(msgs) /\ Points(L, st, p, msgs) /\ e = L[Len(st)]
      /\ e.need = 0 /\ e.lo = <<>> /\ Len(body) <= BlockSize
      /\ Len(e.cur) + Len(body) <= Len(msgs[e.n + 1])
      /\ end => e.n + 1 < Len(msgs) /\ msgs[e.n + 1] = e.cur \o body
      /\ Followed(s, st, Header(Len(body), end), body)
  BY Zenon DEF MayFollow
<1> SUFFICES \E M : /\ Points(M, s, p, msgs)
                   /\ M[Len(s)] = BodyPoint(e.cur, e.n, body, end, Len(body))
  BY Zenon DEF BlockPoints
<1> USE <1>a
<1> DEFINE N == Len(st)
           h == Header(Len(body), end)
           half == Point(0, FALSE, <<h[1]>>, e.cur, e.n)
           M == [i \in 0 .. Len(s) |->
                   IF i <= N THEN L[i] ELSE IF i = N + 1 THEN half
                   ELSE BodyPoint(e.cur, e.n, body, end, i - (N + 2))]
<1>0. N \in Nat /\ Len(body) \in Nat /\ Len(s) = N + 2 + Len(body)
  BY LenProperties, Zenon DEF Followed
<1>1. /\ \A i \in 1 .. N : s[i] = st[i]
      /\ s[N + 1] = h[1] /\ s[N + 2] = h[2]
      /\ \A i \in 1 .. Len(body) : s[N + 2 + i] = body[i]
  BY Zenon DEF Followed
<1>2. IsPoint(e, msgs)
  BY <1>0, SMTT(20) DEF Points
<1>3. e.cur \in Seq(Byte) /\ e.n \in Nat /\ e.n < Len(msgs) /\ e = Point(0, e.last, <<>>, e.cur, e.n)
  BY <1>2, Zenon DEF IsPoint
<1> HIDE DEF N, h
<1>4. IsPoint(half, msgs)
  <2>1. h[1] \in Byte
    <3>1. Len(body) \in 0 .. BlockSize
      BY <1>0, BlockAssumption, SMTT(30)
    <3> QED BY <3>1, HeaderSays, Zenon DEF h
  <2>2. <<h[1]>> \in Seq(Byte) /\ Len(<<h[1]>>) = 1
    BY <2>1, SMTT(20)
  <2>3. half.need = 0 /\ half.last = FALSE /\ half.lo = <<h[1]>> /\ half.cur = e.cur /\ half.n = e.n
    BY Zenon DEF Point
  <2>4. half = Point(half.need, half.last, half.lo, half.cur, half.n)
    BY <2>3, Zenon
  <2> HIDE DEF half
  <2>5. half.need \in 0 .. BlockSize /\ ~(half.need > 0) /\ Len(half.lo) <= 1
    BY <2>2, <2>3, BlockAssumption, SMTT(20)
  <2>6. Len(half.cur) + half.need <= Len(msgs[half.n + 1])
    BY <2>3, <1>2, Zenon DEF IsPoint
  <2> QED BY <2>2, <2>3, <2>4, <2>5, <2>6, <1>3, Zenon DEF IsPoint
<1>5. \A i \in 0 .. Len(body) : IsPoint(BodyPoint(e.cur, e.n, body, end, i), msgs)
  BY <1>3, BodyPointIsPoint, Zenon
<1>m. \A i \in 0 .. Len(s) :
        /\ i <= N => M[i] = L[i]
        /\ i = N + 1 => M[i] = half
        /\ i > N + 1 => M[i] = BodyPoint(e.cur, e.n, body, end, i - (N + 2))
  <2> HIDE DEF half
  <2> TAKE i \in 0 .. Len(s)
  <2>1. M[i] = IF i <= N THEN L[i] ELSE IF i = N + 1 THEN half
               ELSE BodyPoint(e.cur, e.n, body, end, i - (N + 2))
    BY Zenon
  <2> HIDE DEF M
  <2>2. i = N + 1 => ~(i <= N)
    BY ONLY <1>0, i \in 0 .. Len(s)
  <2>3. i > N + 1 => ~(i <= N) /\ i # N + 1
    BY ONLY <1>0, i \in 0 .. Len(s)
  <2> QED BY ONLY <2>1, <2>2, <2>3, Zenon
<1> HIDE DEF M
<1>6. M[0] = p
  <2>1. 0 \in 0 .. Len(s) /\ 0 <= N
    BY ONLY <1>0
  <2> QED BY <2>1, <1>m, Zenon DEF Points
<1>7. ASSUME NEW i \in 0 .. Len(s) PROVE IsPoint(M[i], msgs)
  <2>1. CASE i <= N
    <3>1. M[i] = L[i] /\ i \in 0 .. Len(st)
      <4>1. M[i] = L[i]
        BY ONLY <2>1, <1>m, i \in 0 .. Len(s), Zenon
      <4> QED BY ONLY <4>1, <2>1, <1>0, i \in 0 .. Len(s) DEF N
    <3> QED BY <3>1, Zenon DEF Points
  <2>2. CASE i = N + 1
    BY ONLY <2>2, <1>m, <1>4, i \in 0 .. Len(s), Zenon
  <2>3. CASE i > N + 1
    <3>1. M[i] = BodyPoint(e.cur, e.n, body, end, i - (N + 2)) /\ i - (N + 2) \in 0 .. Len(body)
      <4>1. M[i] = BodyPoint(e.cur, e.n, body, end, i - (N + 2))
        BY ONLY <2>3, <1>m, i \in 0 .. Len(s), Zenon
      <4> QED BY ONLY <4>1, <2>3, <1>0, i \in 0 .. Len(s)
    <3> QED BY ONLY <3>1, <1>5, Zenon
  <2> QED BY ONLY <2>1, <2>2, <2>3, <1>0, i \in 0 .. Len(s)
<1>8. ASSUME NEW i \in 1 .. Len(s) PROVE Leads(M[i - 1], s[i], M[i], msgs)
  <2>0. i \in 0 .. Len(s) /\ i - 1 \in 0 .. Len(s) /\ i \in Nat /\ i > 0
    BY ONLY <1>0, i \in 1 .. Len(s), SMTT(20)
  <2>1. CASE i <= N
    <3>1. M[i] = L[i] /\ M[i - 1] = L[i - 1] /\ i \in 1 .. Len(st) /\ s[i] = st[i]
      <4>1. i - 1 <= N /\ i \in 1 .. N
        BY ONLY <2>0, <2>1, <1>0
      <4>2. M[i] = L[i] /\ M[i - 1] = L[i - 1] /\ s[i] = st[i]
        BY ONLY <4>1, <2>0, <2>1, <1>1, <1>m, Zenon
      <4> QED BY ONLY <4>1, <4>2, Zenon DEF N
    <3> QED BY <3>1, Zenon DEF Points
  <2>2. CASE i = N + 1
    <3>1. M[i - 1] = e /\ M[i] = half /\ s[i] = h[1]
      <4>1. i - 1 = Len(st) /\ i - 1 <= N
        BY ONLY <2>2, <1>0 DEF N
      <4>2. M[i - 1] = L[i - 1] /\ M[i] = half
        BY ONLY <4>1, <2>0, <2>2, <1>m, Zenon
      <4> QED BY <4>1, <4>2, <2>2, <1>1, Zenon
    <3>2. Leads(e, h[1], half, msgs)
      BY Zenon DEF Leads
    <3> QED BY <3>1, <3>2, Zenon
  <2>3. CASE i = N + 2
    <3>1. M[i - 1] = half /\ M[i] = BodyPoint(e.cur, e.n, body, end, 0) /\ s[i] = h[2]
      <4>1. i - 1 = N + 1 /\ i > N + 1 /\ i - (N + 2) = 0
        BY ONLY <2>3, <1>0
      <4>2. M[i - 1] = half /\ M[i] = BodyPoint(e.cur, e.n, body, end, i - (N + 2))
        BY ONLY <4>1, <2>0, <1>m, Zenon
      <4> QED BY <4>1, <4>2, <2>3, <1>1, Zenon
    <3>2. Leads(half, h[2], BodyPoint(e.cur, e.n, body, end, 0), msgs)
      BY <1>3, HeaderLeads, Zenon DEF h
    <3> QED BY <3>1, <3>2, Zenon
  <2>4. CASE i > N + 2
    <3> DEFINE j == i - (N + 2)
    <3>1. j \in 1 .. Len(body) /\ N + 2 + j = i /\ (i - 1) - (N + 2) = j - 1
      BY ONLY <2>0, <2>4, <1>0, i \in 1 .. Len(s)
    <3>2. /\ M[i - 1] = BodyPoint(e.cur, e.n, body, end, j - 1)
          /\ M[i] = BodyPoint(e.cur, e.n, body, end, j) /\ s[i] = body[j]
      <4>1. i > N + 1 /\ i - 1 > N + 1
        BY ONLY <2>0, <2>4, <1>0
      <4>2. /\ M[i - 1] = BodyPoint(e.cur, e.n, body, end, (i - 1) - (N + 2))
            /\ M[i] = BodyPoint(e.cur, e.n, body, end, i - (N + 2))
        BY ONLY <4>1, <2>0, <1>m, Zenon
      <4>3. s[N + 2 + j] = body[j]
        BY ONLY <3>1, <1>1, Zenon
      <4> QED BY ONLY <4>2, <4>3, <3>1, Zenon
    <3> HIDE DEF j
    <3>3. Leads(BodyPoint(e.cur, e.n, body, end, j - 1), body[j],
                BodyPoint(e.cur, e.n, body, end, j), msgs)
      BY <3>1, <1>3, BodyPointLeads, Zenon
    <3> QED BY <3>2, <3>3, Zenon
  <2> QED BY ONLY <2>0, <2>1, <2>2, <2>3, <2>4, <1>0, SMTT(30)
<1>9. M[Len(s)] = BodyPoint(e.cur, e.n, body, end, Len(body))
  <2>1. Len(s) \in 0 .. Len(s) /\ Len(s) > N + 1 /\ Len(s) - (N + 2) = Len(body)
    BY ONLY <1>0, SMTT(20)
  <2> QED BY <2>1, <1>m, Zenon
<1>10. Points(M, s, p, msgs)
  BY <1>6, <1>7, <1>8, Zenon DEF Points
<1> QED BY <1>9, <1>10, Zenon

(* Concatenation is associative.                                            *)
LEMMA Associative ==
  ASSUME NEW a \in Seq(Byte), NEW b \in Seq(Byte), NEW c \in Seq(Byte)
  PROVE  (a \o b) \o c = a \o (b \o c)
BY ConcatAssociative

(* A block that is not the last one leaves the rest of the message to come. *)
LEMMA AddBlock ==
  ASSUME NEW st \in Seq(Byte), NEW s, NEW p, NEW msgs, Messages(msgs),
         NEW body \in Seq(Byte), NEW rest \in Seq(Byte), Len(body) <= BlockSize,
         Carries(st, p, msgs, TRUE, body \o rest),
         Followed(s, st, Header(Len(body), FALSE), body)
  PROVE  Carries(s, p, msgs, TRUE, rest)
<1>1. PICK L : Points(L, st, p, msgs) /\ AtEnd(L[Len(st)], body \o rest, msgs)
  BY Zenon DEF Carries
<1> DEFINE e == L[Len(st)]
<1>0. Len(body) \in Nat /\ Len(rest) \in Nat /\ Len(msgs) \in Nat /\ Len(msgs) > 0 /\ Len(st) \in Nat
  BY LenProperties, Zenon DEF Messages
<1>2. e.need = 0 /\ e.lo = <<>> /\ e.n = Len(msgs) - 1 /\ e.cur \o (body \o rest) = msgs[Len(msgs)]
  BY <1>1, Zenon DEF AtEnd
<1>3. e.cur \in Seq(Byte) /\ e.n \in Nat
  BY <1>0, <1>1 DEF Points, IsPoint
<1> DEFINE c == e.cur
<1> HIDE DEF c
<1>4. /\ body \o rest \in Seq(Byte) /\ Len(body \o rest) = Len(body) + Len(rest)
      /\ Len(c \o (body \o rest)) = Len(c) + (Len(body) + Len(rest)) /\ Len(c) \in Nat
  <2>1. c \in Seq(Byte)
    BY <1>3, Zenon DEF c
  <2>2. body \o rest \in Seq(Byte) /\ Len(body \o rest) = Len(body) + Len(rest)
    BY ConcatProperties, Zenon
  <2> DEFINE d == body \o rest
  <2> HIDE DEF d
  <2>3. Len(c \o d) = Len(c) + Len(d)
    BY <2>1, <2>2, ConcatProperties, Zenon DEF d
  <2> QED BY <2>1, <2>2, <2>3, LenProperties, Zenon DEF d
<1>5. e.n + 1 = Len(msgs)
  BY ONLY <1>0, <1>2
<1>6. Len(e.cur) + Len(body) <= Len(msgs[e.n + 1])
  <2>1. Len(msgs[e.n + 1]) = Len(c) + (Len(body) + Len(rest))
    BY ONLY <1>2, <1>4, <1>5, Zenon DEF c
  <2> QED BY ONLY <2>1, <1>0, <1>4 DEF c
<1>7. PICK M : Points(M, s, p, msgs) /\ M[Len(s)] = BodyPoint(e.cur, e.n, body, FALSE, Len(body))
  <2> HIDE DEF e
  <2>1. e = L[Len(st)]
    BY Zenon DEF e
  <2>2. FALSE \in BOOLEAN /\ (FALSE => e.n + 1 < Len(msgs) /\ msgs[e.n + 1] = e.cur \o body)
    OBVIOUS
  <2>3. MayFollow(st, s, p, L, e, msgs, body, FALSE)
    BY <1>1, <1>2, <1>6, <2>1, <2>2, Zenon DEF MayFollow
  <2>4. BlockPoints(s, p, e, msgs, body, FALSE)
    BY <2>2, <2>3, BlockFollows, Zenon
  <2> QED BY <2>4, Zenon DEF BlockPoints
<1>8. BodyPoint(e.cur, e.n, body, FALSE, Len(body)) = Point(0, FALSE, <<>>, e.cur \o body, e.n)
  <2>1. SubSeq(body, 1, Len(body)) = body
    BY SubSeqFull, Zenon
  <2>2. Len(body) - Len(body) = 0
    BY <1>0
  <2> QED BY <2>1, <2>2, Zenon DEF BodyPoint
<1>9. (e.cur \o body) \o rest = msgs[Len(msgs)]
  BY <1>2, <1>3, Associative, Zenon
<1>10. AtEnd(M[Len(s)], rest, msgs)
  <2> DEFINE q == Point(0, FALSE, <<>>, e.cur \o body, e.n)
  <2>1. q.need = 0 /\ q.lo = <<>> /\ q.n = e.n /\ q.cur = e.cur \o body
    BY Zenon DEF Point
  <2> HIDE DEF q, e
  <2>2. AtEnd(q, rest, msgs)
    BY <2>1, <1>2, <1>9, Zenon DEF AtEnd
  <2> QED BY <2>2, <1>7, <1>8, Zenon DEF q
<1> QED BY <1>7, <1>10, Zenon DEF Carries

(* The last block of a message completes it, and the next message starts    *)
(* empty.                                                                   *)
LEMMA AddLast ==
  ASSUME NEW st \in Seq(Byte), NEW s, NEW p, NEW msgs, Messages(msgs),
         NEW body \in Seq(Byte), Len(body) <= BlockSize, Carries(st, p, msgs, TRUE, body),
         Followed(s, st, Header(Len(body), TRUE), body)
  PROVE  Messages(Append(msgs, <<>>)) /\ Carries(s, p, Append(msgs, <<>>), TRUE, <<>>)
<1> DEFINE new == Append(msgs, <<>>)
<1>1. PICK L : Points(L, st, p, msgs) /\ AtEnd(L[Len(st)], body, msgs)
  BY Zenon DEF Carries
<1> DEFINE e == L[Len(st)]
<1>0. Len(body) \in Nat /\ Len(msgs) \in Nat /\ Len(msgs) > 0 /\ Len(st) \in Nat
      /\ msgs \in Seq(Seq(Byte))
  BY LenProperties, Zenon DEF Messages
<1>e. <<>> \in Seq(Byte) /\ Len(<<>>) = 0 /\ <<>> \o <<>> = <<>>
  BY EmptySeq, ConcatEmptySeq, Zenon
<1>2. /\ new \in Seq(Seq(Byte)) /\ Len(new) = Len(msgs) + 1
      /\ \A i \in 1 .. Len(msgs) : new[i] = msgs[i]
      /\ new[Len(msgs) + 1] = <<>>
  BY <1>0, <1>e, AppendProperties
<1> HIDE DEF new
<1>3. e.need = 0 /\ e.lo = <<>> /\ e.n = Len(msgs) - 1 /\ e.cur \o body = msgs[Len(msgs)]
  BY <1>1, Zenon DEF AtEnd
<1>4. e.cur \in Seq(Byte) /\ e.n \in Nat
  <2>1. Len(st) \in 0 .. Len(st)
    BY ONLY <1>0
  <2>2. IsPoint(L[Len(st)], msgs)
    BY <2>1, <1>1, Zenon DEF Points
  <2> QED BY ONLY <2>2, Zenon DEF IsPoint
<1>5. Messages(new) /\ new[Len(msgs)] = msgs[Len(msgs)]
  <2>1. Len(new) > 0 /\ Len(msgs) \in 1 .. Len(msgs)
    BY ONLY <1>0, <1>2, SMTT(30)
  <2> QED BY ONLY <1>2, <2>1, Zenon DEF Messages
<1>6. Points(L, st, p, new)
  <2>1. Len(msgs) <= Len(new) /\ 1 .. Len(msgs) - 1 \subseteq 1 .. Len(msgs)
    BY ONLY <1>0, <1>2, SMTT(20)
  <2>3. \A i \in 1 .. Len(msgs) - 1 : new[i] = msgs[i]
    BY ONLY <2>1, <1>2, Zenon
  <2>2. Len(msgs[Len(msgs)]) <= Len(new[Len(msgs)])
    <3>1. msgs[Len(msgs)] \in Seq(Byte)
      BY <1>0, ElementOfSeq
    <3>2. Len(msgs[Len(msgs)]) \in Nat
      BY <3>1, LenProperties, Zenon
    <3> QED BY ONLY <3>2, <1>5
  <2> QED BY <2>1, <2>2, <2>3, <1>0, <1>1, <1>5, MessagesGrow, Zenon
<1>7. e.n + 1 = Len(msgs) /\ e.n + 1 < Len(new)
  BY ONLY <1>0, <1>2, <1>3, SMTT(30)
<1>8. new[e.n + 1] = e.cur \o body /\ Len(e.cur) + Len(body) <= Len(new[e.n + 1])
  <2>1. new[e.n + 1] = e.cur \o body
    BY ONLY <1>7, <1>5, <1>3, Zenon
  <2>2. Len(e.cur \o body) = Len(e.cur) + Len(body) /\ Len(e.cur) \in Nat
    BY <1>4, ConcatProperties, LenProperties, Zenon
  <2> QED BY ONLY <2>1, <2>2, <1>0
<1>9. PICK M : Points(M, s, p, new) /\ M[Len(s)] = BodyPoint(e.cur, e.n, body, TRUE, Len(body))
  <2> HIDE DEF e
  <2>1. e = L[Len(st)]
    BY Zenon DEF e
  <2>2. TRUE => e.n + 1 < Len(new) /\ new[e.n + 1] = e.cur \o body
    BY <1>7, <1>8, Zenon
  <2>3. TRUE \in BOOLEAN
    OBVIOUS
  <2>4. MayFollow(st, s, p, L, e, new, body, TRUE)
    BY <1>3, <1>5, <1>6, <1>8, <2>1, <2>2, Zenon DEF MayFollow
  <2>5. BlockPoints(s, p, e, new, body, TRUE)
    BY <2>3, <2>4, BlockFollows, Zenon
  <2> QED BY <2>5, Zenon DEF BlockPoints
<1>10. AtEnd(M[Len(s)], <<>>, new)
  <2> DEFINE q == Point(0, FALSE, <<>>, <<>>, e.n + 1)
  <2>1. q.need = 0 /\ q.lo = <<>> /\ q.n = e.n + 1 /\ q.cur = <<>>
    BY Zenon DEF Point
  <2>2. M[Len(s)] = q
    BY <1>9, Zenon DEF BodyPoint
  <2> HIDE DEF q, e
  <2>3. q.n = Len(new) - 1 /\ new[Len(new)] = <<>>
    BY ONLY <2>1, <1>0, <1>2, <1>7
  <2> QED BY <2>1, <2>2, <2>3, <1>e, Zenon DEF AtEnd
<1>11. Carries(s, p, new, TRUE, <<>>)
  BY <1>9, <1>10, Zenon DEF Carries
<1> QED BY <1>5, <1>11, Zenon DEF new

(* What is added to the last message is added to what is still to come of   *)
(* it.                                                                      *)
LEMMA GrowLast ==
  ASSUME NEW st \in Seq(Byte), NEW p, NEW done \in Seq(Seq(Byte)), NEW c \in Seq(Byte),
         NEW d \in Seq(Byte), NEW tail \in Seq(Byte),
         Carries(st, p, Append(done, c), TRUE, tail)
  PROVE  /\ Messages(Append(done, c)) /\ Messages(Append(done, c \o d))
         /\ Carries(st, p, Append(done, c \o d), TRUE, tail \o d)
<1> DEFINE msgs == Append(done, c)
           new == Append(done, c \o d)
           m == Len(done) + 1
<1>1. PICK L : Points(L, st, p, msgs) /\ AtEnd(L[Len(st)], tail, msgs)
  BY Zenon DEF Carries
<1>0. Len(done) \in Nat /\ Len(st) \in Nat /\ Len(c) \in Nat /\ Len(d) \in Nat
  BY LenProperties, Zenon
<1>c. c \o d \in Seq(Byte) /\ Len(c \o d) = Len(c) + Len(d)
  BY ConcatProperties, Zenon
<1>2. /\ msgs \in Seq(Seq(Byte)) /\ Len(msgs) = m
      /\ \A i \in 1 .. Len(done) : msgs[i] = done[i]
      /\ msgs[m] = c
  BY AppendProperties
<1>3. /\ new \in Seq(Seq(Byte)) /\ Len(new) = m
      /\ \A i \in 1 .. Len(done) : new[i] = done[i]
      /\ new[m] = c \o d
  BY <1>c, AppendProperties
<1> HIDE DEF msgs, new
<1>4. Messages(msgs) /\ Messages(new)
  BY <1>0, <1>2, <1>3 DEF Messages
<1>5. Points(L, st, p, new)
  <2>1. /\ Len(msgs) <= Len(new) /\ \A i \in 1 .. Len(msgs) - 1 : new[i] = msgs[i]
    BY ONLY <1>0, <1>2, <1>3
  <2>2. Len(msgs[Len(msgs)]) <= Len(new[Len(msgs)])
    BY ONLY <1>0, <1>c, <1>2, <1>3
  <2> QED BY <2>1, <2>2, <1>0, <1>1, <1>4, MessagesGrow, Zenon
<1> DEFINE e == L[Len(st)]
<1>6. e.need = 0 /\ e.lo = <<>> /\ e.n = Len(msgs) - 1 /\ e.cur \o tail = msgs[Len(msgs)]
  BY <1>1, Zenon DEF AtEnd
<1>7. e.cur \in Seq(Byte)
  BY <1>0, <1>1 DEF Points, IsPoint
<1>8. e.cur \o (tail \o d) = (e.cur \o tail) \o d
  BY <1>7, Associative, Zenon
<1>9. AtEnd(e, tail \o d, new)
  BY <1>2, <1>3, <1>6, <1>8, Zenon DEF AtEnd
<1>10. Carries(st, p, new, TRUE, tail \o d)
  BY <1>5, <1>9, Zenon DEF Carries
<1> QED BY <1>4, <1>10, Zenon DEF msgs, new

-----------------------------------------------------------------------------
(* The point where MapiReader is, from what it knows: its state, the part   *)
(* of a header that read_exact has, and what it took of the message.        *)
At(st, hd, o, n) ==
  Point(IF st.tag = "Body" THEN st.remaining ELSE 0,
        IF st.tag = "Body" THEN st.last ELSE FALSE,
        IF st.tag = "PartialHeader" THEN <<st.lo>> ELSE hd,
        IF st = End THEN <<>> ELSE o,
        IF st = End THEN n + 1 ELSE n)

IsState(st) ==
  \/ st \in {Start, End}
  \/ \E lo \in Byte : st = PartialHeader(lo)
  \/ \E r \in 1 .. BlockSize, last \in BOOLEAN : st = Body(r, last)

(* The reader.  Its point for each of its states: before a header,          *)
LEMMA AtStart ==
  ASSUME NEW hd, NEW o, NEW n
  PROVE  At(Start, hd, o, n) = Point(0, FALSE, hd, o, n)
<1>1. Start.tag = "Start" /\ End.tag = "End"
  BY Zenon DEF Start, End
<1>2. Start # End
  BY <1>1, Zenon
<1> QED BY <1>1, <1>2, Zenon DEF At

(* behind half of a header,                                                 *)
LEMMA AtHalf ==
  ASSUME NEW hd, NEW o, NEW n, NEW lo
  PROVE  At(PartialHeader(lo), hd, o, n) = Point(0, FALSE, <<lo>>, o, n)
<1> DEFINE st == PartialHeader(lo)
<1>1. st.tag = "PartialHeader" /\ st.lo = lo /\ End.tag = "End"
  BY Zenon DEF PartialHeader, End
<1> HIDE DEF st
<1>2. st # End
  BY <1>1, Zenon
<1>3. At(st, hd, o, n) = Point(0, FALSE, <<lo>>, o, n)
  BY <1>1, <1>2, Zenon DEF At
<1> QED BY <1>3, Zenon DEF st

(* in a body,                                                               *)
LEMMA AtBody ==
  ASSUME NEW hd, NEW o, NEW n, NEW r, NEW last
  PROVE  At(Body(r, last), hd, o, n) = Point(r, last, hd, o, n)
<1> DEFINE st == Body(r, last)
<1>1. st.tag = "Body" /\ st.remaining = r /\ st.last = last /\ End.tag = "End"
  BY Zenon DEF Body, End
<1> HIDE DEF st
<1>2. st # End
  BY <1>1, Zenon
<1>3. At(st, hd, o, n) = Point(r, last, hd, o, n)
  BY <1>1, <1>2, Zenon DEF At
<1> QED BY <1>3, Zenon DEF st

(* and behind the last byte of a message.                                   *)
LEMMA AtEndState ==
  ASSUME NEW hd, NEW o, NEW n
  PROVE  At(End, hd, o, n) = Point(0, FALSE, hd, <<>>, n + 1)
<1>1. End.tag = "End"
  BY Zenon DEF End
<1> QED BY <1>1, Zenon DEF At

(* The new state is the one for the point q, where a message may have       *)
(* ended.                                                                   *)
Lands(st, q, o, n, msgs) ==
  /\ IsState(st) /\ q = At(st, <<>>, o, n)
  /\ st = End => n + 1 < Len(msgs) /\ msgs[n + 1] = o

(* The states of the reader are distinct.                                   *)
LEMMA StatesDiffer ==
  ASSUME NEW lo, NEW r, NEW last
  PROVE  Start # End /\ PartialHeader(lo) # End /\ Body(r, last) # End
         /\ PartialHeader(lo) # Start /\ Body(r, last) # Start
         /\ PartialHeader(lo) # Body(r, last)
<1>1. /\ Start.tag = "Start" /\ End.tag = "End" /\ PartialHeader(lo).tag = "PartialHeader"
      /\ Body(r, last).tag = "Body"
  BY Zenon DEF Start, End, PartialHeader, Body
<1> QED BY <1>1, Zenon

(* A point is where the reader is if its state says the same.               *)
LEMMA LandsAt ==
  ASSUME NEW q, NEW o, NEW n, NEW msgs
  PROVE  /\ q = Point(0, FALSE, <<>>, o, n) => Lands(Start, q, o, n, msgs)
         /\ \A lo \in Byte :
              q = Point(0, FALSE, <<lo>>, o, n) => Lands(PartialHeader(lo), q, o, n, msgs)
         /\ \A r \in 1 .. BlockSize, last \in BOOLEAN :
              q = Point(r, last, <<>>, o, n) => Lands(Body(r, last), q, o, n, msgs)
         /\ /\ q = Point(0, FALSE, <<>>, <<>>, n + 1)
            /\ n + 1 < Len(msgs) /\ msgs[n + 1] = o
            => Lands(End, q, o, n, msgs)
<1>1. q = Point(0, FALSE, <<>>, o, n) => Lands(Start, q, o, n, msgs)
  <2>1. At(Start, <<>>, o, n) = Point(0, FALSE, <<>>, o, n)
    BY AtStart, Zenon
  <2>2. Start # End
    BY StatesDiffer, Zenon
  <2> QED BY <2>1, <2>2, Zenon DEF Lands, IsState
<1>2. ASSUME NEW lo \in Byte
      PROVE  q = Point(0, FALSE, <<lo>>, o, n) => Lands(PartialHeader(lo), q, o, n, msgs)
  <2>1. At(PartialHeader(lo), <<>>, o, n) = Point(0, FALSE, <<lo>>, o, n)
    BY AtHalf, Zenon
  <2>2. PartialHeader(lo) # End
    BY StatesDiffer, Zenon
  <2> QED BY <2>1, <2>2, Zenon DEF Lands, IsState
<1>3. ASSUME NEW r \in 1 .. BlockSize, NEW last \in BOOLEAN
      PROVE  q = Point(r, last, <<>>, o, n) => Lands(Body(r, last), q, o, n, msgs)
  <2>1. At(Body(r, last), <<>>, o, n) = Point(r, last, <<>>, o, n)
    BY AtBody, Zenon
  <2>2. Body(r, last) # End
    BY StatesDiffer, Zenon
  <2>3. IsState(Body(r, last))
    BY Zenon DEF IsState
  <2> QED BY <2>1, <2>2, <2>3, Zenon DEF Lands
<1>4. /\ q = Point(0, FALSE, <<>>, <<>>, n + 1) /\ n + 1 < Len(msgs) /\ msgs[n + 1] = o
      => Lands(End, q, o, n, msgs)
  <2>1. At(End, <<>>, o, n) = Point(0, FALSE, <<>>, <<>>, n + 1)
    BY AtEndState, Zenon
  <2> QED BY <2>1, Zenon DEF Lands, IsState
<1> QED BY <1>1, <1>2, <1>3, <1>4, Zenon

(* The second byte of a header is valid with the first, and leads to the    *)
(* state that from_header gives.                                            *)
LEMMA HeaderRead ==
  ASSUME NEW lo \in Byte, NEW byte \in Byte, NEW o, NEW n, NEW q, NEW msgs,
         Leads(Point(0, FALSE, <<lo>>, o, n), byte, q, msgs)
  PROVE  HeaderValid(<<lo, byte>>) /\ Lands(FromHeader(<<lo, byte>>), q, o, n, msgs)
<1> DEFINE p == Point(0, FALSE, <<lo>>, o, n)
           h == <<lo, byte>>
           S == HeaderSize(h)
           E == HeaderIsLast(h)
<1>1. p.need = 0 /\ p.lo = <<lo>> /\ p.lo # <<>> /\ p.lo[1] = lo /\ p.cur = o /\ p.n = n
  <2>1. <<lo>> # <<>> /\ <<lo>>[1] = lo
    OBVIOUS
  <2> QED BY <2>1, Zenon DEF Point
<1>l. Leads(p, byte, q, msgs)
  BY Zenon
<1> HIDE DEF p
<1>2. p.need \in Nat
  BY ONLY <1>1
<1>3. /\ HeaderValid(h)
      /\ IF S = 0 /\ E THEN Completes(p, o, q, msgs) ELSE q = Point(S, E, <<>>, o, n)
  <2>1. /\ HeaderValid(<<p.lo[1], byte>>)
        /\ LET g == <<p.lo[1], byte>>
           IN  IF HeaderSize(g) = 0 /\ HeaderIsLast(g)
                 THEN Completes(p, p.cur, q, msgs)
                 ELSE q = Point(HeaderSize(g), HeaderIsLast(g), <<>>, p.cur, p.n)
    BY ONLY <1>1, <1>2, <1>l, LeadsOn, Zenon
  <2> QED BY ONLY <2>1, <1>1, Zenon
<1>4. S \in 0 .. BlockSize /\ E \in BOOLEAN
  <2>1. S \in Nat
    <3>1. h[1] = lo /\ h[2] = byte /\ lo \in Nat /\ byte \in Nat /\ Base \in Nat
      BY BlockAssumption DEF Byte
    <3>2. Base * byte \in Nat
      BY ONLY <3>1
    <3> DEFINE m == Base * byte
    <3>3. S = (lo + m) \div 2
      BY ONLY <3>1, Zenon DEF HeaderSize
    <3> HIDE DEF m, S
    <3> QED BY ONLY <3>1, <3>2, <3>3 DEF m
  <2>2. S <= BlockSize
    BY <1>3, Zenon DEF HeaderValid
  <2>3. E \in BOOLEAN
    BY Zenon DEF HeaderIsLast
  <2> QED BY <2>1, <2>2, <2>3, BlockAssumption
<1>5. FromHeader(h) = New(S, E)
  BY Zenon DEF FromHeader
<1> HIDE DEF S, E, h
<1>6. CASE S = 0 /\ E
  <2>1. New(S, E) = End
    BY <1>6, Zenon DEF New
  <2>2. n + 1 < Len(msgs) /\ msgs[n + 1] = o /\ q = Point(0, FALSE, <<>>, <<>>, n + 1)
    BY ONLY <1>1, <1>3, <1>6, Zenon DEF Completes
  <2> QED BY ONLY <1>3, <1>5, <2>1, <2>2, LandsAt, Zenon DEF h
<1>7. CASE S = 0 /\ ~E
  <2>1. New(S, E) = Start /\ E = FALSE
    BY <1>4, <1>7, Zenon DEF New
  <2>2. q = Point(0, FALSE, <<>>, o, n)
    BY ONLY <1>3, <1>7, <2>1, Zenon
  <2> QED BY ONLY <1>3, <1>5, <2>1, <2>2, LandsAt, Zenon DEF h
<1>8. CASE S # 0
  <2>1. New(S, E) = Body(S, E)
    BY <1>8, Zenon DEF New
  <2>2. q = Point(S, E, <<>>, o, n)
    BY ONLY <1>3, <1>8, Zenon
  <2>3. S \in 1 .. BlockSize
    BY ONLY <1>4, <1>8
  <2> QED BY ONLY <1>3, <1>4, <1>5, <2>1, <2>2, <2>3, LandsAt, Zenon DEF h
<1> QED BY <1>6, <1>7, <1>8, Zenon

(* Bytes of a body lead to the state that State::new gives.                 *)
LEMMA BodyRead ==
  ASSUME NEW r \in 1 .. BlockSize, NEW last \in BOOLEAN, NEW o, NEW n, NEW s, NEW q, NEW msgs,
         Len(s) \in Nat, Len(s) <= r,
         BodyTaken(Point(r, last, <<>>, o, n), s, q, msgs)
  PROVE  Lands(New(r - Len(s), last), q, o \o s, n, msgs)
<1> DEFINE p == Point(r, last, <<>>, o, n)
           S == r - Len(s)
<1>1. p.need = r /\ p.last = last /\ p.cur = o /\ p.n = n
  BY Zenon DEF Point
<1>2. BodyTaken(p, s, q, msgs)
  OBVIOUS
<1> HIDE DEF p
<1>3. /\ Len(s) < r => q = Point(S, last, <<>>, o \o s, n)
      /\ Len(s) = r /\ ~last => q = Point(0, FALSE, <<>>, o \o s, n)
      /\ Len(s) = r /\ last => /\ n + 1 < Len(msgs) /\ msgs[n + 1] = o \o s
                               /\ q = Point(0, FALSE, <<>>, <<>>, n + 1)
  <2>1. \/ Len(s) < r /\ q = Point(S, last, <<>>, o \o s, n)
        \/ Len(s) = r /\ ~last /\ q = Point(0, FALSE, <<>>, o \o s, n)
        \/ Len(s) = r /\ last /\ n + 1 < Len(msgs) /\ msgs[n + 1] = o \o s
                      /\ q = Point(0, FALSE, <<>>, <<>>, n + 1)
    BY <1>1, <1>2, Zenon DEF BodyTaken, Completes
  <2>2. ~(Len(s) < r /\ Len(s) = r)
    BY ONLY Len(s) \in Nat, r \in 1 .. BlockSize
  <2> QED BY ONLY <2>1, <2>2, Zenon
<1>n. BlockSize \in Nat
  BY BlockAssumption, Zenon
<1>4. CASE Len(s) < r
  <2>1. S \in 1 .. BlockSize /\ S # 0
    BY ONLY <1>4, <1>n, Len(s) \in Nat, r \in 1 .. BlockSize
  <2> HIDE DEF S
  <2>2. New(S, last) = Body(S, last)
    BY <2>1, Zenon DEF New
  <2> QED BY ONLY <1>3, <1>4, <2>1, <2>2, last \in BOOLEAN, LandsAt, Zenon DEF S
<1>5. CASE Len(s) = r /\ ~last
  <2>1. S = 0
    BY ONLY <1>5, r \in 1 .. BlockSize, <1>n
  <2>2. New(S, last) = Start
    BY ONLY <1>5, <2>1, Zenon DEF New
  <2> QED BY ONLY <1>3, <1>5, <2>2, LandsAt, Zenon
<1>6. CASE Len(s) = r /\ last
  <2>1. S = 0
    BY ONLY <1>6, r \in 1 .. BlockSize, <1>n
  <2>2. New(S, last) = End
    BY ONLY <1>6, <2>1, Zenon DEF New
  <2> QED BY ONLY <1>3, <1>6, <2>2, LandsAt, Zenon
<1> QED BY <1>4, <1>5, <1>6, <1>n

(* The reader goes on in state s with the stream st.                        *)
Resumes(s, st, o, n, msgs, whole, tail) ==
  /\ IsState(s) /\ Carries(st, At(s, <<>>, o, n), msgs, whole, tail)
  /\ s = End => n + 1 < Len(msgs) /\ msgs[n + 1] = o

(* The reader goes on from the point it lands at.                           *)
LEMMA LandsResumes ==
  ASSUME NEW s, NEW q, NEW o, NEW n, NEW msgs, Lands(s, q, o, n, msgs),
         NEW st, NEW whole, NEW tail, Carries(st, q, msgs, whole, tail)
  PROVE  Resumes(s, st, o, n, msgs, whole, tail)
BY Zenon DEF Lands, Resumes

(* The reader takes the first byte of a header.                             *)
LEMMA TakeHalf ==
  ASSUME NEW st \in Seq(Byte), st # <<>>, NEW o, NEW n, NEW msgs, NEW whole, NEW tail,
         Carries(st, Point(0, FALSE, <<>>, o, n), msgs, whole, tail)
  PROVE  /\ st[1] \in Byte
         /\ Carries(Drop(st, 1), Point(0, FALSE, <<st[1]>>, o, n), msgs, whole, tail)
<1> DEFINE p == Point(0, FALSE, <<>>, o, n)
<1>1. p.need = 0 /\ p.lo = <<>> /\ p.cur = o /\ p.n = n
  BY Zenon DEF Point
<1>2. PICK q : Leads(p, st[1], q, msgs) /\ Carries(Drop(st, 1), q, msgs, whole, tail)
  BY TakeByte, Zenon
<1> HIDE DEF p
<1>3. p.need \in Nat
  BY ONLY <1>1
<1>4. q = Point(0, FALSE, <<st[1]>>, o, n)
  <2>1. q = Point(0, FALSE, <<st[1]>>, p.cur, p.n)
    BY ONLY <1>1, <1>2, <1>3, LeadsOn, Zenon
  <2> QED BY ONLY <2>1, <1>1, Zenon
<1>5. st[1] \in Byte
  <2>1. Len(st) \in Nat /\ Len(st) # 0
    BY EmptySeq, LenProperties, Zenon
  <2>2. 1 \in 1 .. Len(st)
    BY ONLY <2>1
  <2> QED BY <2>2, ElementOfSeq, Zenon
<1> QED BY <1>2, <1>4, <1>5, Zenon

(* The reader takes the second byte of a header, which is a valid one.      *)
LEMMA TakeOtherHalf ==
  ASSUME NEW st \in Seq(Byte), st # <<>>, NEW o, NEW n, NEW msgs, NEW whole, NEW tail,
         NEW lo \in Byte, Carries(st, Point(0, FALSE, <<lo>>, o, n), msgs, whole, tail)
  PROVE  /\ st[1] \in Byte /\ HeaderValid(<<lo, st[1]>>)
         /\ Resumes(FromHeader(<<lo, st[1]>>), Drop(st, 1), o, n, msgs, whole, tail)
<1>1. PICK q : /\ Leads(Point(0, FALSE, <<lo>>, o, n), st[1], q, msgs)
               /\ Carries(Drop(st, 1), q, msgs, whole, tail)
  BY TakeByte, Zenon
<1>2. st[1] \in Byte
  <2>1. Len(st) \in Nat /\ Len(st) # 0
    BY EmptySeq, LenProperties, Zenon
  <2>2. 1 \in 1 .. Len(st)
    BY ONLY <2>1
  <2> QED BY <2>2, ElementOfSeq, Zenon
<1>3. HeaderValid(<<lo, st[1]>>) /\ Lands(FromHeader(<<lo, st[1]>>), q, o, n, msgs)
  BY <1>1, <1>2, HeaderRead, Zenon
<1> QED BY ONLY <1>1, <1>2, <1>3, LandsResumes, Zenon

(* The reader takes both bytes of a header.                                 *)
LEMMA TakeHeader ==
  ASSUME NEW st \in Seq(Byte), Len(st) >= 2, NEW o, NEW n, NEW msgs, NEW whole, NEW tail,
         Carries(st, Point(0, FALSE, <<>>, o, n), msgs, whole, tail)
  PROVE  /\ st[1] \in Byte /\ st[2] \in Byte /\ HeaderValid(<<st[1], st[2]>>)
         /\ Resumes(FromHeader(<<st[1], st[2]>>), Drop(st, 2), o, n, msgs, whole, tail)
<1>0. Len(st) \in Nat /\ st # <<>> /\ 1 \in 0 .. Len(st) /\ 1 \in 0 .. Len(st) - 1
      /\ 1 \in 1 .. Len(st) - 1
  BY LenProperties
<1> DEFINE d == Drop(st, 1)
<1>1. d \in Seq(Byte) /\ Len(d) = Len(st) - 1 /\ d[1] = st[2] /\ Drop(d, 1) = Drop(st, 2)
  <2>1. d \in Seq(Byte) /\ Len(d) = Len(st) - 1 /\ \A i \in 1 .. Len(st) - 1 : d[i] = st[1 + i]
    BY <1>0, DropIs, Zenon
  <2>2. Drop(d, 1) = Drop(st, 1 + 1)
    BY <1>0, DropDrop, Zenon
  <2> HIDE DEF d
  <2>3. d[1] = st[1 + 1]
    BY ONLY <2>1, <1>0, Zenon
  <2> QED BY ONLY <2>1, <2>2, <2>3
<1>2. st[1] \in Byte /\ Carries(d, Point(0, FALSE, <<st[1]>>, o, n), msgs, whole, tail)
  BY <1>0, TakeHalf, Zenon
<1> HIDE DEF d
<1>3. d # <<>>
  BY <1>0, <1>1
<1>4. /\ d[1] \in Byte /\ HeaderValid(<<st[1], d[1]>>)
      /\ Resumes(FromHeader(<<st[1], d[1]>>), Drop(d, 1), o, n, msgs, whole, tail)
  BY <1>1, <1>2, <1>3, TakeOtherHalf, Zenon
<1> QED BY ONLY <1>1, <1>2, <1>4, Zenon

(* Two bytes in a row.                                                      *)
LEMMA PairIs ==
  ASSUME NEW a \in Byte, NEW b \in Byte
  PROVE  <<a>> \o <<b>> = <<a, b>> /\ Len(<<a, b>>) = 2
<1>1. <<a>> \in Seq(Byte) /\ <<b>> \in Seq(Byte) /\ <<a, b>> \in Seq(Byte)
      /\ Len(<<a>>) = 1 /\ Len(<<b>>) = 1 /\ Len(<<a, b>>) = 2
  OBVIOUS
<1>2. /\ <<a>> \o <<b>> \in Seq(Byte) /\ Len(<<a>> \o <<b>>) = 2
      /\ \A i \in 1 .. 2 : (<<a>> \o <<b>>)[i] = <<a, b>>[i]
  OBVIOUS
<1> QED BY <1>1, <1>2, SeqEqual, Zenon

(* Sequences of one and of two bytes.                                       *)
LEMMA ShortSequences ==
  ASSUME NEW s \in Seq(Byte)
  PROVE  /\ Len(s) = 1 => s = <<s[1]>>
         /\ Len(s) = 2 => s = <<s[1], s[2]>>
OBVIOUS

(* read_body.                                                               *)
BodyDone(r, last, got, j, s) ==
  /\ SkipHeaders(Body(r, last), got) = Skipped(0, j, 0, New(r - j, last))
  /\ \E k : SkipHeaders(New(r - j, last), Drop(got, j)) =
              Skipped(Len(Drop(got, j)), Len(Drop(got, j)), k, s)

(* The reader takes the rest of a body, or part of it, and, where this is   *)
(* not the last block of the message, up to two bytes of the header that    *)
(* follows.                                                                 *)
LEMMA BodyAndHeader ==
  ASSUME NEW st \in Seq(Byte), NEW o, NEW n, NEW msgs, NEW whole, NEW tail,
         NEW r \in 1 .. BlockSize, NEW last \in BOOLEAN,
         Carries(st, Point(r, last, <<>>, o, n), msgs, whole, tail),
         NEW c \in 1 .. Len(st), c <= r + 2, last => c <= r,
         NEW got, got = SubSeq(st, 1, c), NEW j, j = Lesser(r, c)
  PROVE  \E s : /\ BodyDone(r, last, got, j, s)
                /\ Resumes(s, Drop(st, c), o \o SubSeq(got, 1, j), n, msgs, whole, tail)
<1>n. BlockSize \in Nat /\ Len(st) \in Nat /\ r \in Nat \ {0} /\ c \in 0 .. Len(st)
      /\ c \in Nat \ {0}
  BY BlockAssumption, LenProperties
<1>1. /\ j \in 1 .. r /\ j \in 0 .. c /\ j \in 0 .. Len(st) /\ j <= r /\ j \in Nat
      /\ c - j \in 0 .. 2 /\ (c - j # 0 => j = r /\ ~last)
  BY ONLY <1>n, c <= r + 2, last => c <= r, j = Lesser(r, c), c \in 1 .. Len(st) DEF Lesser
<1>2. got \in Seq(Byte) /\ Len(got) = c /\ \A i \in 1 .. c : got[i] = st[i]
  BY <1>n, TakeIs, Zenon
<1>3. SkipHeaders(Body(r, last), got) = Skipped(0, j, 0, New(r - j, last))
  <2>1. Len(got) \in Nat \ {0}
    BY <1>2, <1>n, Zenon
  <2>2. SkipHeaders(Body(r, last), got)
          = Skipped(0, Lesser(r, Len(got)), 0, New(r - Lesser(r, Len(got)), last))
    BY <1>n, <2>1, SkipBody, Zenon
  <2> QED BY ONLY <2>2, <1>2, j = Lesser(r, c), Zenon
<1> DEFINE a == SubSeq(got, 1, j)
           t == Drop(got, j)
           d == Drop(st, j)
           u == o \o a
<1>4. a = SubSeq(st, 1, j) /\ Len(a) = j
  <2>1. a \in Seq(Byte) /\ Len(a) = j /\ \A i \in 1 .. j : a[i] = got[i]
    BY ONLY <1>1, <1>2, TakeIs, Zenon
  <2> DEFINE b == SubSeq(st, 1, j)
  <2>2. b \in Seq(Byte) /\ Len(b) = j /\ \A i \in 1 .. j : b[i] = st[i]
    BY <1>1, TakeIs, Zenon
  <2> HIDE DEF a, b
  <2>3. \A i \in 1 .. j : i \in 1 .. c
    BY ONLY <1>1, <1>n
  <2>4. \A i \in 1 .. j : a[i] = b[i]
    BY ONLY <2>1, <2>2, <2>3, <1>2, Zenon
  <2>5. a = b
    BY ONLY <2>1, <2>2, <2>4, SeqEqual, Zenon
  <2> QED BY ONLY <2>1, <2>5, Zenon DEF b
<1>5. t \in Seq(Byte) /\ Len(t) = c - j /\ \A i \in 1 .. c - j : t[i] = st[j + i]
  <2>1. t \in Seq(Byte) /\ Len(t) = c - j /\ \A i \in 1 .. c - j : t[i] = got[j + i]
    BY ONLY <1>1, <1>2, DropIs, Zenon
  <2>2. \A i \in 1 .. c - j : j + i \in 1 .. c
    BY ONLY <1>1, <1>n
  <2> QED BY ONLY <2>1, <2>2, <1>2, Zenon
<1>6. d \in Seq(Byte) /\ Len(d) = Len(st) - j /\ \A i \in 1 .. Len(st) - j : d[i] = st[j + i]
  BY <1>1, DropIs, Zenon
<1>7. Drop(d, c - j) = Drop(st, c)
  <2>1. c - j \in 0 .. Len(st) - j /\ j + (c - j) = c
    BY ONLY <1>1, <1>n
  <2>2. Drop(d, c - j) = Drop(st, j + (c - j))
    BY <1>1, <2>1, DropDrop
  <2> QED BY ONLY <2>1, <2>2, Zenon
<1>8. PICK q : /\ BodyTaken(Point(r, last, <<>>, o, n), a, q, msgs)
               /\ Carries(d, q, msgs, whole, tail)
  <2>1. Point(r, last, <<>>, o, n).need = r
    BY Zenon DEF Point
  <2>2. r > 0
    BY ONLY <1>n
  <2>3. \E q : /\ BodyTaken(Point(r, last, <<>>, o, n), SubSeq(st, 1, j), q, msgs)
               /\ Carries(Drop(st, j), q, msgs, whole, tail)
    BY <2>1, <2>2, <1>1, TakeBody, Zenon
  <2> QED BY ONLY <2>3, <1>4, Zenon
<1> HIDE DEF a, t, d
<1>9. Resumes(New(r - j, last), d, u, n, msgs, whole, tail)
  <2>1. Len(a) \in Nat /\ Len(a) <= r
    BY ONLY <1>1, <1>4, Zenon
  <2>2. Lands(New(r - Len(a), last), q, u, n, msgs)
    BY ONLY <1>8, <2>1, r \in 1 .. BlockSize, last \in BOOLEAN, BodyRead, Zenon
  <2> QED BY ONLY <2>2, <1>4, <1>8, LandsResumes, Zenon
<1> SUFFICES \E s : /\ \E k : SkipHeaders(New(r - j, last), t) = Skipped(Len(t), Len(t), k, s)
                    /\ Resumes(s, Drop(st, c), u, n, msgs, whole, tail)
  BY <1>3, Zenon DEF BodyDone, t, a
<1>10. CASE c - j = 0
  <2>1. t = <<>> /\ Len(t) = 0
    BY ONLY <1>5, <1>10, EmptySeq, Zenon
  <2>2. Drop(st, c) = d
    BY ONLY <1>6, <1>7, <1>10, DropNone, Zenon
  <2>3. SkipHeaders(New(r - j, last), t) = Skipped(Len(t), Len(t), 0, New(r - j, last))
    BY ONLY <2>1, SkipNothing, Zenon
  <2> QED BY ONLY <2>2, <2>3, <1>9, Zenon
<1>11. c - j # 0 => New(r - j, last) = Start /\ Carries(d, Point(0, FALSE, <<>>, u, n), msgs, whole, tail)
  <2> SUFFICES ASSUME c - j # 0
               PROVE  New(r - j, last) = Start /\ Carries(d, Point(0, FALSE, <<>>, u, n), msgs, whole, tail)
    BY Zenon
  <2>1. r - j = 0 /\ ~last
    BY <1>1, <1>n
  <2>2. New(r - j, last) = Start
    BY ONLY <2>1, Zenon DEF New
  <2>3. Carries(d, At(Start, <<>>, u, n), msgs, whole, tail)
    BY ONLY <1>9, <2>2, Zenon DEF Resumes
  <2> QED BY ONLY <2>2, <2>3, AtStart, Zenon
<1>12. CASE c - j = 1
  <2>0. New(r - j, last) = Start /\ Carries(d, Point(0, FALSE, <<>>, u, n), msgs, whole, tail)
    <3>1. c - j # 0
      BY ONLY <1>12
    <3> QED BY ONLY <3>1, <1>11, Zenon
  <2>1. t = <<t[1]>> /\ t[1] = d[1]
    <3>1. Len(t) = 1 /\ 1 \in 1 .. c - j /\ 1 \in 1 .. Len(st) - j
      BY ONLY <1>1, <1>5, <1>12, <1>n, c \in 1 .. Len(st)
    <3>2. t[1] = st[j + 1] /\ d[1] = st[j + 1]
      BY ONLY <3>1, <1>5, <1>6, Zenon
    <3>3. t = <<t[1]>>
      BY ONLY <1>5, <3>1, ShortSequences, Zenon
    <3> QED BY ONLY <3>2, <3>3, Zenon
  <2>2. d # <<>>
    <3>1. Len(d) # 0
      BY ONLY <1>1, <1>6, <1>12, <1>n, c \in 1 .. Len(st), SMTT(30)
    <3> QED BY ONLY <3>1, <1>6, EmptySeq, Zenon
  <2>3. /\ d[1] \in Byte
        /\ Carries(Drop(d, 1), Point(0, FALSE, <<d[1]>>, u, n), msgs, whole, tail)
    BY ONLY <1>6, <2>0, <2>2, TakeHalf, Zenon
  <2>4. Lands(PartialHeader(d[1]), Point(0, FALSE, <<d[1]>>, u, n), u, n, msgs)
    BY ONLY <2>3, LandsAt, Zenon
  <2>5. Resumes(PartialHeader(d[1]), Drop(d, 1), u, n, msgs, whole, tail)
    BY ONLY <2>3, <2>4, LandsResumes, Zenon
  <2>6. SkipHeaders(Start, <<d[1]>>) = Skipped(1, 1, 0, PartialHeader(d[1]))
    BY ONLY SkipHalfHeader, Zenon
  <2>7. SkipHeaders(New(r - j, last), t) = Skipped(Len(t), Len(t), 0, PartialHeader(d[1]))
    <3>1. Len(t) = 1 /\ New(r - j, last) = Start
      BY ONLY <1>5, <1>12, <2>0, Zenon
    <3> QED BY ONLY <2>1, <2>6, <3>1, Zenon
  <2> QED BY ONLY <2>5, <2>7, <1>7, <1>12, Zenon
<1>13. CASE c - j = 2
  <2>0. New(r - j, last) = Start /\ Carries(d, Point(0, FALSE, <<>>, u, n), msgs, whole, tail)
    <3>1. c - j # 0
      BY ONLY <1>13
    <3> QED BY ONLY <3>1, <1>11, Zenon
  <2>1. t = <<t[1], t[2]>> /\ t[1] = d[1] /\ t[2] = d[2]
    <3>1. Len(t) = 2 /\ 1 \in 1 .. c - j /\ 1 \in 1 .. Len(st) - j
          /\ 2 \in 1 .. c - j /\ 2 \in 1 .. Len(st) - j
      BY ONLY <1>1, <1>5, <1>13, <1>n, c \in 1 .. Len(st), SMTT(30)
    <3>2. t[1] = st[j + 1] /\ d[1] = st[j + 1] /\ t[2] = st[j + 2] /\ d[2] = st[j + 2]
      BY ONLY <3>1, <1>5, <1>6, Zenon
    <3>3. t = <<t[1], t[2]>>
      BY ONLY <1>5, <3>1, ShortSequences, Zenon
    <3> QED BY ONLY <3>2, <3>3, Zenon
  <2>2. Len(d) >= 2
    BY ONLY <1>1, <1>6, <1>13, <1>n, c \in 1 .. Len(st)
  <2>3. /\ HeaderValid(<<d[1], d[2]>>)
        /\ Resumes(FromHeader(<<d[1], d[2]>>), Drop(d, 2), u, n, msgs, whole, tail)
    BY ONLY <1>6, <2>0, <2>2, TakeHeader, Zenon
  <2>4. SkipHeaders(Start, <<d[1], d[2]>>) = Skipped(2, 2, 2, FromHeader(<<d[1], d[2]>>))
    BY ONLY <2>3, SkipHeader, Zenon
  <2>5. SkipHeaders(New(r - j, last), t) = Skipped(Len(t), Len(t), 2, FromHeader(<<d[1], d[2]>>))
    <3>1. Len(t) = 2 /\ New(r - j, last) = Start
      BY ONLY <1>5, <1>13, <2>0, Zenon
    <3>2. t = <<d[1], d[2]>>
      BY ONLY <2>1, Zenon
    <3> QED BY ONLY <2>4, <3>1, <3>2, Zenon
  <2> QED BY ONLY <2>3, <2>5, <1>7, <1>13, Zenon
<1> QED
  <2>1. c - j = 0 \/ c - j = 1 \/ c - j = 2
    BY ONLY <1>1
  <2> QED BY ONLY <2>1, <1>10, <1>12, <1>13, Zenon

-----------------------------------------------------------------------------
Decoded(need, last, lo, cur, ms, byte, d) ==
  /\ need > 1 => d = Decoder(need - 1, last, <<>>, Append(cur, byte), ms)
  /\ need = 1 /\ last => d = Decoder(0, FALSE, <<>>, <<>>, Append(ms, Append(cur, byte)))
  /\ need = 1 /\ ~last => d = Decoder(0, FALSE, <<>>, Append(cur, byte), ms)
  /\ need = 0 /\ lo = <<>> => d = Decoder(0, FALSE, <<byte>>, cur, ms)
  /\ need = 0 /\ lo # <<>> =>
       IF HeaderSize(<<lo[1], byte>>) = 0 /\ HeaderIsLast(<<lo[1], byte>>)
         THEN d = Decoder(0, FALSE, <<>>, <<>>, Append(ms, cur))
         ELSE d = Decoder(HeaderSize(<<lo[1], byte>>), HeaderIsLast(<<lo[1], byte>>),
                          <<>>, cur, ms)

(* What one byte does to the reference reader.                              *)
LEMMA DecodeIs ==
  ASSUME NEW need \in Nat, NEW last, NEW lo, NEW cur, NEW ms, NEW byte
  PROVE  Decoded(need, last, lo, cur, ms, byte, Decode(Decoder(need, last, lo, cur, ms), byte))
<1> DEFINE s == Decoder(need, last, lo, cur, ms)
           d == Decode(s, byte)
<1>1. s.need = need /\ s.last = last /\ s.lo = lo /\ s.cur = cur /\ s.msgs = ms
  BY Zenon DEF Decoder
<1>2. /\ HeaderSize(<<lo[1], byte>>) = (lo[1] + Base * byte) \div 2
      /\ HeaderIsLast(<<lo[1], byte>>) = (lo[1] % 2 = 1)
  <2>1. <<lo[1], byte>>[1] = lo[1] /\ <<lo[1], byte>>[2] = byte
    OBVIOUS
  <2> QED BY ONLY <2>1, Zenon DEF HeaderSize, HeaderIsLast
<1>3. /\ need > 1 => ~(need = 1) /\ ~(need = 0)
      /\ need = 1 => ~(need > 1) /\ ~(need = 0)
      /\ need = 0 => ~(need > 1) /\ ~(need = 1)
      /\ need > 1 \/ need = 1 \/ need = 0
  BY ONLY need \in Nat
<1> HIDE DEF s, d
<1>4. CASE need > 1
  BY ONLY <1>1, <1>3, <1>4, Zenon DEF d, s, Decode, Decoded
<1>5. CASE need = 1
  BY ONLY <1>1, <1>3, <1>5, Zenon DEF d, s, Decode, Decoded
<1>6. CASE need = 0 /\ lo = <<>>
  BY ONLY <1>1, <1>3, <1>6, Zenon DEF d, s, Decode, Decoded
<1>7. CASE need = 0 /\ lo # <<>>
  <2> DEFINE size == (lo[1] + Base * byte) \div 2
             end == lo[1] % 2 = 1
  <2>1. d = IF size = 0 /\ end THEN Decoder(0, FALSE, <<>>, <<>>, Append(ms, cur))
                               ELSE Decoder(size, end, <<>>, cur, ms)
    BY ONLY <1>1, <1>3, <1>7, Zenon DEF d, Decode
  <2>2. size = HeaderSize(<<lo[1], byte>>) /\ end = HeaderIsLast(<<lo[1], byte>>)
    BY ONLY <1>2, Zenon
  <2> HIDE DEF size, end
  <2> QED BY ONLY <2>1, <2>2, <1>3, <1>7, Zenon DEF d, s, Decoded
<1> QED BY ONLY <1>3, <1>4, <1>5, <1>6, <1>7, Zenon DEF d, s

(* The reference reader at the point p, with the messages ms.               *)
DecoderAt(p, ms) == Decoder(p.need, p.last, p.lo, p.cur, ms)

Steps(p, q, byte, ms, msgs) ==
  \/ q.n = p.n /\ Decode(DecoderAt(p, ms), byte) = DecoderAt(q, ms)
  \/ /\ q.n = p.n + 1 /\ p.n + 1 < Len(msgs)
     /\ Decode(DecoderAt(p, ms), byte) = DecoderAt(q, Append(ms, msgs[p.n + 1]))

(* One byte takes the reference reader from a point to the next one, and    *)
(* hands out the message that it completes.                                 *)
LEMMA DecodeFollows ==
  ASSUME NEW p, NEW q, NEW msgs, IsPoint(p, msgs), NEW byte, Leads(p, byte, q, msgs), NEW ms
  PROVE  Steps(p, q, byte, ms, msgs)
<1>1. /\ p.need \in Nat /\ (p.need > 1 \/ p.need = 1 \/ p.need = 0) /\ p.last \in BOOLEAN
  <2>1. p.need \in 0 .. BlockSize /\ p.last \in BOOLEAN
    BY Zenon DEF IsPoint
  <2>2. BlockSize \in Nat
    BY BlockAssumption, Zenon
  <2> QED BY ONLY <2>1, <2>2
<1> DEFINE d == Decode(Decoder(p.need, p.last, p.lo, p.cur, ms), byte)
           h == <<p.lo[1], byte>>
<1>2. d = Decode(DecoderAt(p, ms), byte)
  BY ONLY Zenon DEF DecoderAt
<1>3. /\ p.need > 1 => d = Decoder(p.need - 1, p.last, <<>>, Append(p.cur, byte), ms)
      /\ p.need = 1 /\ p.last =>
           d = Decoder(0, FALSE, <<>>, <<>>, Append(ms, Append(p.cur, byte)))
      /\ p.need = 1 /\ ~p.last => d = Decoder(0, FALSE, <<>>, Append(p.cur, byte), ms)
      /\ p.need = 0 /\ p.lo = <<>> => d = Decoder(0, FALSE, <<byte>>, p.cur, ms)
      /\ p.need = 0 /\ p.lo # <<>> =>
           IF HeaderSize(h) = 0 /\ HeaderIsLast(h)
             THEN d = Decoder(0, FALSE, <<>>, <<>>, Append(ms, p.cur))
             ELSE d = Decoder(HeaderSize(h), HeaderIsLast(h), <<>>, p.cur, ms)
  <2>1. Decoded(p.need, p.last, p.lo, p.cur, ms, byte, d)
    BY ONLY <1>1, DecodeIs, Zenon
  <2> HIDE DEF d
  <2> QED BY ONLY <2>1, Zenon DEF Decoded
<1>4. /\ p.need > 1 => q = Point(p.need - 1, p.last, <<>>, Append(p.cur, byte), p.n)
      /\ p.need = 1 /\ ~p.last => q = Point(0, FALSE, <<>>, Append(p.cur, byte), p.n)
      /\ p.need = 1 /\ p.last => Completes(p, Append(p.cur, byte), q, msgs)
      /\ p.need = 0 /\ p.lo = <<>> => q = Point(0, FALSE, <<byte>>, p.cur, p.n)
      /\ p.need = 0 /\ p.lo # <<>> =>
           IF HeaderSize(h) = 0 /\ HeaderIsLast(h)
             THEN Completes(p, p.cur, q, msgs)
             ELSE q = Point(HeaderSize(h), HeaderIsLast(h), <<>>, p.cur, p.n)
  BY ONLY <1>1, Leads(p, byte, q, msgs), LeadsOn, Zenon
<1> HIDE DEF d, h
<1>5. ASSUME NEW m, Completes(p, m, q, msgs), d = Decoder(0, FALSE, <<>>, <<>>, Append(ms, m))
      PROVE  Steps(p, q, byte, ms, msgs)
  <2>1. q = Point(0, FALSE, <<>>, <<>>, p.n + 1) /\ p.n + 1 < Len(msgs) /\ msgs[p.n + 1] = m
    BY ONLY <1>5, Zenon DEF Completes
  <2>2. q.n = p.n + 1 /\ DecoderAt(q, Append(ms, m)) = Decoder(0, FALSE, <<>>, <<>>, Append(ms, m))
    BY ONLY <2>1, Zenon DEF Point, DecoderAt
  <2> QED BY ONLY <2>1, <2>2, <1>2, <1>5, Zenon DEF Steps
<1>6. ASSUME NEW need, NEW last, NEW lo, NEW cur, q = Point(need, last, lo, cur, p.n),
             d = Decoder(need, last, lo, cur, ms)
      PROVE  Steps(p, q, byte, ms, msgs)
  <2>1. q.n = p.n /\ DecoderAt(q, ms) = Decoder(need, last, lo, cur, ms)
    BY ONLY <1>6, Zenon DEF Point, DecoderAt
  <2> QED BY ONLY <2>1, <1>2, <1>6, Zenon DEF Steps
<1>7. CASE p.need > 1
  BY ONLY <1>3, <1>4, <1>6, <1>7, Zenon
<1>8. CASE p.need = 1
  BY ONLY <1>3, <1>4, <1>5, <1>6, <1>8, Zenon
<1>9. CASE p.need = 0 /\ p.lo = <<>>
  BY ONLY <1>3, <1>4, <1>6, <1>9, Zenon
<1>10. CASE p.need = 0 /\ p.lo # <<>>
  BY ONLY <1>3, <1>4, <1>5, <1>6, <1>10, Zenon
<1> QED BY ONLY <1>1, <1>7, <1>8, <1>9, <1>10, Zenon

DecodeTurns(f, s, bytes, n) ==
  f = [i \in 0 .. n |-> IF i = 0 THEN s ELSE Decode(f[i - 1], bytes[i])]

(* The reference reader can be run over any number of bytes.                *)
LEMMA DecodeTurnsExist ==
  ASSUME NEW s, NEW bytes, NEW n \in Nat
  PROVE  \E f : DecodeTurns(f, s, bytes, n)
<1> DEFINE Is(f, k) == DecodeTurns(f, s, bytes, k)
           T == {k \in Nat : ~ \E f : Is(f, k)}
<1> USE DEF DecodeTurns
<1> SUFFICES ASSUME T # {} PROVE FALSE
  BY Zenon
<1>1. PICK k \in T : \A m \in T : k <= m
  <2> HIDE DEF T
  <2>1. T \in SUBSET Nat
    BY Zenon DEF T
  <2> QED BY <2>1, LeastNumber, Zenon
<1>2. CASE k = 0
  <2>1. Is([i \in 0 .. 0 |-> s], 0)
    OBVIOUS
  <2> QED BY <2>1, <1>2, <1>1, Zenon
<1>3. CASE k > 0
  <2>1. k - 1 \in Nat /\ k - 1 \notin T
    BY <1>1, <1>3
  <2>2. PICK f : Is(f, k - 1)
    BY <2>1, Zenon
  <2> DEFINE g == [i \in 0 .. k |-> IF i < k THEN f[i] ELSE Decode(f[k - 1], bytes[k])]
  <2>3. ASSUME NEW i \in 0 .. k
        PROVE  g[i] = IF i = 0 THEN s ELSE Decode(g[i - 1], bytes[i])
    BY <2>2, <1>3
  <2>4. Is(g, k)
    BY <2>3, Zenon
  <2> QED BY <2>4, <1>1, Zenon
<1> QED BY <1>1, <1>2, <1>3

(* A slice of a sequence grows by one element.                              *)
LEMMA SliceGrows ==
  ASSUME NEW S, NEW s \in Seq(S), NEW a \in Nat, NEW n \in Nat, a <= n, n < Len(s)
  PROVE  SubSeq(s, a + 1, n + 1) = Append(SubSeq(s, a + 1, n), s[n + 1])
<1> DEFINE x == SubSeq(s, a + 1, n)
           y == SubSeq(s, a + 1, n + 1)
           e == s[n + 1]
<1>1. /\ Len(s) \in Nat /\ a + 1 \in Int /\ n \in Int /\ n + 1 \in Int
      /\ \A i \in a + 1 .. n + 1 : i \in 1 .. Len(s)
      /\ \A i \in a + 1 .. n : i \in 1 .. Len(s)
  BY LenProperties
<1>2. /\ \A i \in a + 1 .. n + 1 : s[i] \in S
      /\ \A i \in a + 1 .. n : s[i] \in S
  BY ONLY <1>1, s \in Seq(S), ElementOfSeq, Zenon
<1>3. e \in S
  <2>1. n + 1 \in a + 1 .. n + 1
    BY ONLY <1>1, a \in Nat, n \in Nat, a <= n, SMTT(30)
  <2> QED BY ONLY <1>2, <2>1, Zenon
<1>4. /\ x \in Seq(S) /\ Len(x) = n - a
      /\ \A i \in 1 .. n - a : x[i] = s[a + i]
  <2>1. /\ x \in Seq(S) /\ Len(x) = IF a + 1 <= n THEN n - (a + 1) + 1 ELSE 0
        /\ \A i \in 1 .. n - (a + 1) + 1 : x[i] = s[(a + 1) + i - 1]
    BY ONLY <1>1, <1>2, SubSeqProperties, SMTT(30)
  <2> HIDE DEF x
  <2> QED BY ONLY <2>1, a \in Nat, n \in Nat, a <= n, SMTT(30)
<1>5. /\ y \in Seq(S) /\ Len(y) = n - a + 1
      /\ \A i \in 1 .. n - a + 1 : y[i] = s[a + i]
  <2>1. /\ y \in Seq(S) /\ Len(y) = IF a + 1 <= n + 1 THEN (n + 1) - (a + 1) + 1 ELSE 0
        /\ \A i \in 1 .. (n + 1) - (a + 1) + 1 : y[i] = s[(a + 1) + i - 1]
    BY ONLY <1>1, <1>2, SubSeqProperties
  <2> HIDE DEF y
  <2> QED BY ONLY <2>1, a \in Nat, n \in Nat, a <= n
<1>e. e = s[a + (n - a + 1)]
  <2>1. n + 1 = a + (n - a + 1)
    OBVIOUS
  <2> QED BY ONLY <2>1, Zenon
<1> HIDE DEF x, y, e
<1>6. /\ Append(x, e) \in Seq(S) /\ Len(Append(x, e)) = Len(x) + 1
      /\ \A i \in 1 .. Len(x) : Append(x, e)[i] = x[i]
      /\ Append(x, e)[Len(x) + 1] = e
  <2>1. x \in Seq(S) /\ e \in S
    BY ONLY <1>3, <1>4, Zenon
  <2> QED BY ONLY <2>1, AppendProperties
<1>7. \A i \in 1 .. n - a + 1 : Append(x, e)[i] = y[i]
  BY ONLY <1>4, <1>5, <1>6, <1>e, a \in Nat, n \in Nat, a <= n, SMTT(30)
<1> QED BY ONLY <1>5, <1>6, <1>7, <1>4, SeqEqual, SMTT(30) DEF x, y, e

(* The reference reader takes the messages that the points say.             *)
LEMMA DecodeAllIs ==
  ASSUME NEW L, NEW st, Len(st) \in Nat, NEW p, NEW all \in Seq(Seq(Byte)), NEW last,
         Points(L, st, p, Append(all, last)),
         NEW a \in Nat, a <= p.n
  PROVE  DecodeAll(DecoderAt(p, SubSeq(all, a + 1, p.n)), st) =
           DecoderAt(L[Len(st)], SubSeq(all, a + 1, L[Len(st)].n))
<1> DEFINE N == Len(st)
           s == DecoderAt(p, SubSeq(all, a + 1, p.n))
           F == CHOOSE f : DecodeTurns(f, s, st, N)
           Is(k) == /\ L[k].n \in Nat /\ a <= L[k].n
                    /\ F[k] = DecoderAt(L[k], SubSeq(all, a + 1, L[k].n))
<1>0. N \in Nat
  OBVIOUS
<1>1. DecodeAll(s, st) = F[N]
  BY Zenon DEF DecodeAll, DecodeTurns
<1>2. /\ L[0] = p
      /\ \A i \in 0 .. N : IsPoint(L[i], Append(all, last))
      /\ \A i \in 1 .. N : Leads(L[i - 1], st[i], L[i], Append(all, last))
  BY Zenon DEF Points
<1>s. s = DecoderAt(p, SubSeq(all, a + 1, p.n))
  OBVIOUS
<1> HIDE DEF s, N
<1>3. DecodeTurns(F, s, st, N)
  BY <1>0, DecodeTurnsExist, Zenon
<1> HIDE DEF F
<1>4. F[0] = s /\ \A i \in 1 .. N : F[i] = Decode(F[i - 1], st[i])
  BY <1>3, <1>0 DEF DecodeTurns
<1>5. /\ Len(Append(all, last)) = Len(all) + 1 /\ Len(all) \in Nat
      /\ \A i \in 1 .. Len(all) : Append(all, last)[i] = all[i]
  BY ONLY all \in Seq(Seq(Byte)), AppendProperties, LenProperties
<1>6. \A i \in 0 .. N : L[i].n \in Nat
  BY ONLY <1>2, Zenon DEF IsPoint
<1>7. Is(0)
  <2>1. 0 \in 0 .. N
    BY ONLY <1>0
  <2>2. L[0].n \in Nat /\ a <= L[0].n
    BY ONLY <2>1, <1>2, <1>6, a <= p.n, Zenon
  <2> QED BY ONLY <2>2, <1>2, <1>4, <1>s, Zenon
<1>8. ASSUME NEW k \in 1 .. N, Is(k - 1)
      PROVE  Is(k)
  <2> DEFINE q == L[k - 1]
             ms == SubSeq(all, a + 1, q.n)
  <2>1. k - 1 \in 0 .. N /\ k \in 0 .. N
    BY ONLY <1>0, k \in 1 .. N
  <2>2. Steps(q, L[k], st[k], ms, Append(all, last))
    BY ONLY <2>1, <1>2, k \in 1 .. N, DecodeFollows, Zenon
  <2>3. F[k] = Decode(DecoderAt(q, ms), st[k])
    BY ONLY <1>4, <1>8, k \in 1 .. N, Zenon
  <2>4. q.n \in Nat /\ L[k].n \in Nat /\ a <= q.n
    BY ONLY <2>1, <1>6, <1>8, Zenon
  <2> HIDE DEF q, ms
  <2>5. CASE L[k].n = q.n /\ Decode(DecoderAt(q, ms), st[k]) = DecoderAt(L[k], ms)
    BY ONLY <2>3, <2>4, <2>5, Zenon DEF ms
  <2>6. CASE /\ L[k].n = q.n + 1 /\ q.n + 1 < Len(Append(all, last))
             /\ Decode(DecoderAt(q, ms), st[k]) =
                  DecoderAt(L[k], Append(ms, Append(all, last)[q.n + 1]))
    <3>1. q.n < Len(all) /\ q.n + 1 \in 1 .. Len(all) /\ a <= L[k].n
      BY ONLY <2>4, <2>6, <1>5, a \in Nat, SMTT(20)
    <3>2. SubSeq(all, a + 1, q.n + 1) = Append(ms, all[q.n + 1])
      BY ONLY <2>4, <3>1, a \in Nat, all \in Seq(Seq(Byte)), SliceGrows, Zenon DEF ms
    <3>3. Append(all, last)[q.n + 1] = all[q.n + 1]
      BY ONLY <3>1, <1>5, Zenon
    <3> QED BY ONLY <2>3, <2>4, <2>6, <3>1, <3>2, <3>3, Zenon
  <2> QED BY ONLY <2>2, <2>5, <2>6, Zenon DEF Steps
<1> HIDE DEF Is
<1> DEFINE T == {k \in Nat : k <= N /\ ~Is(k)}
<1>9. T = {}
  <2> SUFFICES ASSUME T # {} PROVE FALSE
    OBVIOUS
  <2>1. PICK k \in T : \A m \in T : k <= m
    <3>1. T \in SUBSET Nat
      OBVIOUS
    <3> HIDE DEF T
    <3> QED BY <3>1, LeastNumber, Zenon
  <2>2. k \in Nat /\ k <= N /\ ~Is(k) /\ k - 1 \notin T
    <3>1. k - 1 \in T => k <= k - 1
      <4> HIDE DEF T
      <4> QED BY <2>1, Zenon
    <3> QED BY <3>1, <2>1
  <2>3. k # 0
    BY ONLY <2>2, <1>7, Zenon
  <2>4. k - 1 \in Nat /\ k - 1 <= N /\ k \in 1 .. N
    BY ONLY <2>2, <2>3, <1>0
  <2>5. Is(k - 1)
    BY ONLY <2>2, <2>4, Zenon DEF T
  <2> QED BY ONLY <2>2, <2>4, <2>5, <1>8, Zenon
<1>10. Is(N)
  <2>1. N \in Nat /\ N <= N
    BY <1>0
  <2> QED BY ONLY <2>1, <1>9, Zenon DEF T
<1> QED BY ONLY <1>1, <1>10, Zenon DEF Is, s, N

(* A slice of no element and of one element.                                *)
LEMMA SliceOfNoneOrOne ==
  ASSUME NEW S, NEW s \in Seq(S), NEW a \in Nat
  PROVE  /\ SubSeq(s, a + 1, a) = <<>>
         /\ a < Len(s) => SubSeq(s, a + 1, a + 1) = <<s[a + 1]>>
<1>1. SubSeq(s, a + 1, a) = <<>>
  BY SubSeqEmpty
<1>2. ASSUME a < Len(s)
      PROVE  SubSeq(s, a + 1, a + 1) = <<s[a + 1]>>
  <2>1. a <= a
    OBVIOUS
  <2>2. SubSeq(s, a + 1, a + 1) = Append(<<>>, s[a + 1])
    BY ONLY <1>1, <1>2, <2>1, s \in Seq(S), a \in Nat, SliceGrows, Zenon
  <2>3. Append(<<>>, s[a + 1]) = <<s[a + 1]>>
    OBVIOUS
  <2> QED BY ONLY <2>2, <2>3, Zenon
<1> QED BY ONLY <1>1, <1>2, Zenon

-----------------------------------------------------------------------------
(* MapiBuf.  The open block is the tail of the buffer behind the dummy      *)
(* header; what is before that header is finished.                          *)
IsBuf(b) ==
  /\ b \in [buffer : Seq(Byte), block_left : 0 .. BlockSize, reset_pending : BOOLEAN]
  /\ Len(b.buffer) >= 2 + Used(b)
  /\ b.reset_pending => b.block_left = BlockSize

Open(b) == SubSeq(b.buffer, Len(b.buffer) - Used(b) + 1, Len(b.buffer))

Filling(b) == IsBuf(b) /\ ~b.reset_pending

(* The length and the bytes of the open block.                              *)
LEMMA OpenIs ==
  ASSUME NEW b, IsBuf(b)
  PROVE  /\ Used(b) \in 0 .. BlockSize /\ Len(b.buffer) \in Nat
         /\ Open(b) \in Seq(Byte) /\ Len(Open(b)) = Used(b)
         /\ \A i \in 1 .. Used(b) : Open(b)[i] = b.buffer[Len(b.buffer) - Used(b) + i]
<1> DEFINE s == b.buffer
           N == Len(s)
           U == Used(b)
<1>1. s \in Seq(Byte) /\ b.block_left \in 0 .. BlockSize
  BY Zenon DEF IsBuf
<1>2. N \in Nat
  BY <1>1, LenProperties, Zenon
<1>3. U \in 0 .. BlockSize
  BY <1>1, BlockAssumption DEF Used
<1>4. U <= N - 2
  BY <1>2, <1>3 DEF IsBuf
<1> HIDE DEF s, N, U
<1>5. N - U + 1 \in 1 .. N + 1 /\ N - (N - U + 1) + 1 = U
  BY <1>2, <1>3, <1>4, BlockAssumption, SMTT(30)
<1>6. N = Len(s)
  BY Zenon DEF N
<1>7. /\ SubSeq(s, N - U + 1, N) \in Seq(Byte)
      /\ Len(SubSeq(s, N - U + 1, N)) = U
      /\ \A i \in 1 .. U : SubSeq(s, N - U + 1, N)[i] = s[N - U + i]
  BY <1>1, <1>2, <1>3, <1>4, <1>5, <1>6, BlockAssumption, SubSeqProperties, SMTT(20)
<1> QED BY <1>2, <1>3, <1>7, Zenon DEF s, N, U, Open

(* The length and the bytes of what is finished.                            *)
LEMMA FinishedIs ==
  ASSUME NEW b, Filling(b)
  PROVE  /\ Finished(b) \in Seq(Byte) /\ Len(Finished(b)) = Len(b.buffer) - 2 - Used(b)
         /\ Len(b.buffer) - 2 - Used(b) \in Nat
         /\ \A i \in 1 .. Len(b.buffer) - 2 - Used(b) : Finished(b)[i] = b.buffer[i]
<1> DEFINE s == b.buffer
           n == Len(s) - 2 - Used(b)
<1>1. s \in Seq(Byte) /\ Finished(b) = SubSeq(s, 1, n)
  BY Zenon DEF Filling, IsBuf, Finished
<1>2. Used(b) \in 0 .. BlockSize /\ Len(s) \in Nat
  BY OpenIs, Zenon DEF Filling
<1>3. n \in 0 .. Len(s)
  BY <1>2, BlockAssumption DEF Filling, IsBuf
<1> HIDE DEF s, n
<1>4. /\ SubSeq(s, 1, n) \in Seq(Byte) /\ Len(SubSeq(s, 1, n)) = n
      /\ \A i \in 1 .. n : SubSeq(s, 1, n)[i] = s[i]
  BY <1>1, <1>2, <1>3, SubSeqProperties
<1>5. n \in Nat
  BY <1>2, <1>3
<1> QED BY <1>1, <1>4, <1>5, Zenon DEF s, n

(* The open block is no longer than a block.                                *)
LEMMA OpenFits ==
  ASSUME NEW b, Filling(b)
  PROVE  Open(b) \in Seq(Byte) /\ Len(Open(b)) <= BlockSize /\ Finished(b) \in Seq(Byte)
<1>1. /\ Used(b) \in 0 .. BlockSize /\ Len(Open(b)) = Used(b) /\ Open(b) \in Seq(Byte)
      /\ Finished(b) \in Seq(Byte)
  BY OpenIs, FinishedIs, Zenon DEF Filling
<1>2. BlockSize \in Nat
  BY BlockAssumption, Zenon
<1> QED BY ONLY <1>1, <1>2

(* prepare_reset clears the buffer that was handed out, and nothing that is *)
(* still to be sent.                                                        *)
LEMMA PrepareResetIs ==
  ASSUME NEW b, IsBuf(b)
  PROVE  /\ Filling(PrepareReset(b))
         /\ Finished(PrepareReset(b)) = Finished(b)
         /\ Open(PrepareReset(b)) = Open(b)
         /\ PrepareReset(b).block_left = b.block_left
<1>1. CASE ~b.reset_pending
  BY <1>1, Zenon DEF PrepareReset, Filling
<1>2. CASE b.reset_pending
  <2> DEFINE c == PrepareReset(b)
             s == SubSeq(b.buffer, 1, 2)
  <2>1. c = [b EXCEPT !.buffer = s, !.reset_pending = FALSE]
    BY <1>2, Zenon DEF PrepareReset
  <2>2. /\ b.buffer \in Seq(Byte) /\ b.block_left = BlockSize
        /\ Used(b) = 0 /\ Len(b.buffer) >= 2 /\ Len(b.buffer) \in Nat
    BY <1>2, OpenIs, BlockAssumption DEF IsBuf, Used
  <2>3. s \in Seq(Byte) /\ Len(s) = 2
    BY <2>2, SubSeqProperties
  <2> HIDE DEF s
  <2>4. /\ c \in [buffer : Seq(Byte), block_left : 0 .. BlockSize, reset_pending : BOOLEAN]
        /\ c.buffer = s /\ c.block_left = BlockSize /\ c.reset_pending = FALSE
    BY <2>1, <2>2, <2>3, Zenon DEF IsBuf
  <2> HIDE DEF c
  <2>5. Used(c) = 0
    BY <2>4, BlockAssumption DEF Used
  <2>6. Filling(c)
    <3>1. Len(c.buffer) = 2
      BY ONLY <2>3, <2>4, Zenon
    <3>2. Len(c.buffer) >= 2 + Used(c)
      BY ONLY <3>1, <2>5
    <3> QED BY ONLY <2>4, <3>2, Zenon DEF Filling, IsBuf
  <2>7. Open(b) \in Seq(Byte) /\ Len(Open(b)) = 0 /\ Open(c) \in Seq(Byte) /\ Len(Open(c)) = 0
    BY <2>2, <2>5, <2>6, OpenIs, Zenon DEF Filling
  <2>8. Finished(c) \in Seq(Byte) /\ Len(Finished(c)) = 0 /\ Finished(b) = <<>>
    <3>1. Len(c.buffer) - 2 - Used(c) = 0
      BY ONLY <2>3, <2>4, <2>5
    <3>2. Finished(c) \in Seq(Byte) /\ Len(Finished(c)) = 0
      BY <3>1, <2>6, FinishedIs, Zenon
    <3> QED BY <3>2, <1>2, Zenon DEF Finished
  <2>9. Open(b) = <<>> /\ Open(c) = <<>> /\ Finished(c) = <<>>
    BY ONLY <2>7, <2>8, EmptySeq, Zenon
  <2> QED BY <2>2, <2>4, <2>6, <2>8, <2>9, Zenon DEF c
<1> QED BY <1>1, <1>2, Zenon DEF IsBuf

(* Bytes that fit are appended to the open block.                           *)
LEMMA AppendChunkIs ==
  ASSUME NEW b, Filling(b), NEW data \in Seq(Byte), Fits(b, data)
  PROVE  /\ Filling(AppendChunk(b, data))
         /\ Finished(AppendChunk(b, data)) = Finished(b)
         /\ Open(AppendChunk(b, data)) = Open(b) \o data
         /\ AppendChunk(b, data).block_left = b.block_left - Len(data)
<1> DEFINE c == AppendChunk(b, data)
           s == b.buffer
           t == s \o data
           N == Len(s)
           D == Len(data)
           U == Used(b)
<1>1. /\ b \in [buffer : Seq(Byte), block_left : 0 .. BlockSize, reset_pending : BOOLEAN]
      /\ s \in Seq(Byte) /\ b.block_left \in 0 .. BlockSize /\ ~b.reset_pending /\ IsBuf(b)
  BY Zenon DEF Filling, IsBuf
<1>2. N \in Nat /\ D \in Nat /\ U \in 0 .. BlockSize /\ U = BlockSize - b.block_left
      /\ D <= b.block_left /\ N >= 2 + U
  BY <1>1, LenProperties, OpenIs, Zenon DEF Fits, Used, IsBuf
<1>n. U \in Nat /\ BlockSize \in Nat
  BY <1>2, BlockAssumption, SMTT(20)
<1>3. /\ t \in Seq(Byte) /\ Len(t) = N + D
      /\ \A i \in 1 .. N : t[i] = s[i]
      /\ \A i \in 1 .. D : t[N + i] = data[i]
  <2>1. t \in Seq(Byte) /\ Len(t) = N + D
    BY <1>1, ConcatProperties, Zenon
  <2>2. \A i \in 1 .. N + D : t[i] = IF i <= N THEN s[i] ELSE data[i - N]
    BY <1>1, ConcatProperties, Zenon
  <2> HIDE DEF s, t, N, D
  <2>3. ASSUME NEW i \in 1 .. N PROVE t[i] = s[i]
    BY <1>2, <2>2
  <2>4. ASSUME NEW i \in 1 .. D PROVE t[N + i] = data[i]
    <3>1. N + i \in 1 .. N + D /\ ~(N + i <= N) /\ (N + i) - N = i
      BY <1>2
    <3> QED BY <3>1, <2>2, Zenon
  <2> QED BY <2>1, <2>3, <2>4, Zenon
<1>4. c = [b EXCEPT !.buffer = t, !.block_left = b.block_left - D]
  BY Zenon DEF AppendChunk
<1> HIDE DEF s, t, N, D, U
<1>5. b.block_left - D \in 0 .. BlockSize
  BY <1>1, <1>2, BlockAssumption, SMTT(20)
<1>6. /\ c \in [buffer : Seq(Byte), block_left : 0 .. BlockSize, reset_pending : BOOLEAN]
      /\ c.buffer = t /\ c.block_left = b.block_left - D /\ c.reset_pending = b.reset_pending
  BY <1>1, <1>3, <1>4, <1>5, Zenon
<1> HIDE DEF c
<1>7. Used(c) = U + D /\ Len(c.buffer) = N + D /\ Len(c.buffer) - 2 - Used(c) = N - 2 - U
      /\ Len(c.buffer) - Used(c) = N - U
  <2>1. Used(c) = BlockSize - (b.block_left - D) /\ Len(c.buffer) = N + D
    BY ONLY <1>3, <1>6, Zenon DEF Used
  <2>2. b.block_left \in 0 .. BlockSize
    BY ONLY <1>1, Zenon
  <2>3. Used(c) = U + D
    BY ONLY <2>1, <2>2, <1>2, <1>n, SMTT(20)
  <2> HIDE DEF D
  <2>4. N \in Nat /\ D \in Nat
    BY ONLY <1>2, Zenon
  <2> QED BY ONLY <2>1, <2>3, <2>4, <1>n
<1>8. Filling(c)
  <2>1. Len(c.buffer) >= 2 + Used(c)
    BY ONLY <1>2, <1>7, SMTT(20)
  <2>2. ~c.reset_pending
    BY ONLY <1>1, <1>6, Zenon
  <2> QED BY ONLY <2>1, <2>2, <1>6, Zenon DEF Filling, IsBuf
<1>9. Finished(c) = Finished(b)
  <2> DEFINE n == N - 2 - U
  <2>1. /\ Finished(b) \in Seq(Byte) /\ Len(Finished(b)) = n /\ n \in Nat
        /\ \A i \in 1 .. n : Finished(b)[i] = s[i]
    BY FinishedIs, Zenon DEF s, N, U
  <2>2. /\ Finished(c) \in Seq(Byte) /\ Len(Finished(c)) = n
        /\ \A i \in 1 .. n : Finished(c)[i] = t[i]
    BY <1>6, <1>7, <1>8, FinishedIs, Zenon
  <2>3. 1 .. n \subseteq 1 .. N
    BY <1>2, <2>1, BlockAssumption, SMTT(30)
  <2> HIDE DEF n
  <2>4. \A i \in 1 .. n : Finished(c)[i] = Finished(b)[i]
    BY ONLY <2>1, <2>2, <2>3, <1>3, Zenon
  <2> QED BY ONLY <2>1, <2>2, <2>4, SeqEqual, Zenon
<1>10. Open(c) = Open(b) \o data
  <2>1. /\ Open(b) \in Seq(Byte) /\ Len(Open(b)) = U
        /\ \A i \in 1 .. U : Open(b)[i] = s[N - U + i]
    BY <1>1, OpenIs, Zenon DEF s, N, U
  <2>2. /\ Open(c) \in Seq(Byte) /\ Len(Open(c)) = U + D
        /\ \A i \in 1 .. U + D : Open(c)[i] = t[N - U + i]
    <3>1. IsBuf(c)
      BY <1>8, Zenon DEF Filling
    <3>2. /\ Open(c) \in Seq(Byte) /\ Len(Open(c)) = Used(c)
          /\ \A i \in 1 .. Used(c) : Open(c)[i] = t[Len(c.buffer) - Used(c) + i]
      BY <3>1, <1>6, OpenIs, Zenon
    <3> QED BY ONLY <3>2, <1>7, Zenon
  <2> DEFINE o == Open(b)
             x == o \o data
  <2>3. x \in Seq(Byte) /\ Len(x) = U + D
    BY <2>1, ConcatProperties, Zenon DEF D
  <2>4. \A i \in 1 .. U + D : x[i] = IF i <= U THEN o[i] ELSE data[i - U]
    BY <2>1, ConcatProperties DEF D
  <2> HIDE DEF o, x
  <2>7. U \in Nat /\ N \in Nat /\ D \in Nat /\ N >= 2 + U
    BY ONLY <1>2, <1>n, Zenon
  <2>5. ASSUME NEW i \in 1 .. U + D PROVE Open(c)[i] = x[i]
    <3>1. CASE i <= U
      <4>1. i \in 1 .. U /\ N - U + i \in 1 .. N
        BY ONLY <3>1, <2>7, SMTT(20)
      <4> QED BY <4>1, <3>1, <1>3, <2>1, <2>2, <2>4, SMTT(30) DEF o
    <3>2. CASE ~(i <= U)
      <4>1. i - U \in 1 .. D /\ N - U + i = N + (i - U)
        BY ONLY <3>2, <2>7, SMTT(30)
      <4> QED BY <4>1, <3>2, <1>3, <2>2, <2>4, Zenon
    <3> QED BY <3>1, <3>2, Zenon
  <2>6. Open(c) = x
    BY ONLY <2>2, <2>3, <2>5, SeqEqual, Zenon
  <2> QED BY <2>6, Zenon DEF o, x
<1> QED BY <1>6, <1>8, <1>9, <1>10, Zenon DEF c, D

(* finish_block turns the open block into a finished one with its header,   *)
(* and opens an empty one.                                                  *)
LEMMA FinishBlockIs ==
  ASSUME NEW b, Filling(b), NEW end \in BOOLEAN
  PROVE  /\ Filling(FinishBlock(b, end)) /\ FinishBlock(b, end).block_left = BlockSize
         /\ Open(FinishBlock(b, end)) = <<>>
         /\ Followed(Finished(FinishBlock(b, end)), Finished(b),
                     Header(Len(Open(b)), end), Open(b))
<1> DEFINE c == FinishBlock(b, end)
           s == b.buffer
           N == Len(s)
           U == Used(b)
           K == N - U - 2
           h == Header(U, end)
           w == [s EXCEPT ![K + 1] = h[1], ![K + 2] = h[2]]
           t == w \o Dummy
<1>1. /\ b \in [buffer : Seq(Byte), block_left : 0 .. BlockSize, reset_pending : BOOLEAN]
      /\ s \in Seq(Byte) /\ ~b.reset_pending /\ IsBuf(b)
  BY Zenon DEF Filling, IsBuf
<1>2. /\ N \in Nat /\ U \in 0 .. BlockSize
      /\ Open(b) \in Seq(Byte) /\ Len(Open(b)) = U
      /\ \A i \in 1 .. U : Open(b)[i] = s[N - U + i]
  BY <1>1, OpenIs, Zenon
<1>3. /\ Finished(b) \in Seq(Byte) /\ Len(Finished(b)) = N - 2 - U
      /\ \A i \in 1 .. N - 2 - U : Finished(b)[i] = s[i] /\ N - 2 - U \in Nat
  BY FinishedIs, Zenon
<1>4. h[1] \in Byte /\ h[2] \in Byte
  BY <1>2, HeaderSays, Zenon
<1>5. c = [b EXCEPT !.buffer = t, !.block_left = BlockSize]
  BY Zenon DEF FinishBlock, Used
<1>n. U \in Nat /\ BlockSize \in Nat /\ BlockSize \in 0 .. BlockSize
  BY <1>2, BlockAssumption
<1>6. /\ K \in Nat /\ N - 2 - U = K /\ N = K + 2 + U
      /\ K + 1 \in 1 .. N /\ K + 2 \in 1 .. N /\ K + 1 # K + 2
  <2>1. N >= 2 + U
    BY <1>1, Zenon DEF IsBuf
  <2> HIDE DEF N, U
  <2> QED BY ONLY <2>1, <1>2, <1>n
<1> HIDE DEF s, N, K, h, U, c
<1>7. /\ w \in Seq(Byte) /\ Len(w) = N /\ w[K + 1] = h[1] /\ w[K + 2] = h[2]
      /\ \A i \in 1 .. N : i # K + 1 /\ i # K + 2 => w[i] = s[i]
  <2>1. N = Len(s)
    BY Zenon DEF N
  <2> DEFINE v == [s EXCEPT ![K + 1] = h[1]]
  <2>2. v \in Seq(Byte) /\ Len(v) = N /\ v[K + 1] = h[1]
        /\ \A i \in 1 .. N : i # K + 1 => v[i] = s[i]
    <3>1. s \in Seq(Byte) /\ K + 1 \in 1 .. Len(s) /\ h[1] \in Byte
      BY <2>1, <1>1, <1>4, <1>6, Zenon
    <3> QED BY ONLY <3>1, <2>1, ExceptSeq
  <2> HIDE DEF v
  <2> DEFINE x == [v EXCEPT ![K + 2] = h[2]]
  <2>3. x \in Seq(Byte) /\ Len(x) = N /\ x[K + 2] = h[2]
        /\ \A i \in 1 .. N : i # K + 2 => x[i] = v[i]
    BY ONLY <2>2, <1>4, <1>6, ExceptSeq
  <2>4. x = w
    BY Zenon DEF v
  <2> HIDE DEF x, w
  <2>5. x[K + 1] = h[1]
    BY ONLY <2>2, <2>3, <1>6, Zenon
  <2>6. \A i \in 1 .. N : i # K + 1 /\ i # K + 2 => x[i] = s[i]
    BY ONLY <2>2, <2>3, Zenon
  <2> QED BY ONLY <2>3, <2>4, <2>5, <2>6, Zenon
<1> HIDE DEF w
<1>8. /\ t \in Seq(Byte) /\ Len(t) = N + 2 /\ \A i \in 1 .. N : t[i] = w[i]
  <2>1. Dummy \in Seq(Byte) /\ Len(Dummy) = 2
    <3>1. Base - 1 \in Byte
      BY BlockAssumption DEF Byte
    <3> QED BY <3>1 DEF Dummy
  <2> DEFINE d == Dummy
  <2> HIDE DEF d
  <2>2. d \in Seq(Byte) /\ Len(d) = 2
    BY <2>1, Zenon DEF d
  <2>3. w \o d \in Seq(Byte) /\ Len(w \o d) = N + 2 /\ \A i \in 1 .. N : (w \o d)[i] = w[i]
    <3>1. w \o d \in Seq(Byte) /\ Len(w \o d) = Len(w) + Len(d)
          /\ \A i \in 1 .. Len(w) + Len(d) : (w \o d)[i] = IF i <= Len(w) THEN w[i] ELSE d[i - Len(w)]
      BY <1>7, <2>2, ConcatProperties, Zenon
    <3> DEFINE x == w \o d
    <3> HIDE DEF x
    <3>2. \A i \in 1 .. N : i \in 1 .. Len(w) + Len(d) /\ i <= Len(w)
      BY <1>2, <1>7, <2>2
    <3>3. \A i \in 1 .. N : x[i] = w[i]
      BY <3>1, <3>2, Zenon DEF x
    <3> QED BY <3>1, <3>3, <1>7, <2>2, Zenon DEF x
  <2> QED BY <2>3, Zenon DEF d
<1> HIDE DEF t
<1>9. /\ c \in [buffer : Seq(Byte), block_left : 0 .. BlockSize, reset_pending : BOOLEAN]
      /\ c.buffer = t /\ c.block_left = BlockSize /\ c.reset_pending = b.reset_pending
  BY <1>1, <1>5, <1>8, <1>n, Zenon
<1>10. Used(c) = 0 /\ Len(c.buffer) = N + 2 /\ Len(c.buffer) - 2 - Used(c) = N
  <2>1. Used(c) = BlockSize - BlockSize /\ Len(c.buffer) = N + 2
    BY ONLY <1>8, <1>9, Zenon DEF Used
  <2> QED BY ONLY <2>1, <1>2, <1>n
<1>11. Filling(c)
  <2>1. Len(c.buffer) >= 2 + Used(c)
    BY ONLY <1>10, <1>2
  <2>2. ~c.reset_pending
    BY ONLY <1>1, <1>9, Zenon
  <2> QED BY ONLY <2>1, <2>2, <1>9, Zenon DEF Filling, IsBuf
<1>12. Open(c) = <<>>
  <2>1. Open(c) \in Seq(Byte) /\ Len(Open(c)) = 0
    BY <1>10, <1>11, OpenIs, Zenon DEF Filling
  <2> QED BY ONLY <2>1, EmptySeq, Zenon
<1>13. /\ Finished(c) \in Seq(Byte) /\ Len(Finished(c)) = N
       /\ \A i \in 1 .. N : Finished(c)[i] = w[i]
  <2>1. /\ Finished(c) \in Seq(Byte) /\ Len(Finished(c)) = N
        /\ \A i \in 1 .. N : Finished(c)[i] = t[i]
    BY <1>9, <1>10, <1>11, FinishedIs, Zenon
  <2> QED BY ONLY <2>1, <1>8, Zenon
<1>14. Len(Finished(b)) = K
  BY ONLY <1>3, <1>6, Zenon
<1>15. \A i \in 1 .. K : Finished(c)[i] = Finished(b)[i]
  <2>1. \A i \in 1 .. K : i \in 1 .. N /\ i # K + 1 /\ i # K + 2
    BY ONLY <1>6, <1>n
  <2> QED BY ONLY <2>1, <1>3, <1>6, <1>7, <1>13, Zenon
<1>16. \A i \in 1 .. U : Finished(c)[K + 2 + i] = Open(b)[i]
  <2>1. \A i \in 1 .. U : /\ K + 2 + i \in 1 .. N /\ K + 2 + i # K + 1 /\ K + 2 + i # K + 2
                          /\ N - U + i = K + 2 + i
    BY ONLY <1>6, <1>n, SMTT(30)
  <2> TAKE i \in 1 .. U
  <2>2. K + 2 + i \in 1 .. N /\ w[K + 2 + i] = s[K + 2 + i]
    BY ONLY <2>1, <1>7, i \in 1 .. U, Zenon
  <2>3. Open(b)[i] = s[K + 2 + i]
    BY ONLY <2>1, <1>2, i \in 1 .. U, Zenon
  <2> QED BY ONLY <2>2, <2>3, <1>13, Zenon
<1>17. Followed(Finished(c), Finished(b), Header(Len(Open(b)), end), Open(b))
  <2>1. Finished(c)[K + 1] = h[1] /\ Finished(c)[K + 2] = h[2]
    BY ONLY <1>6, <1>7, <1>13, Zenon
  <2>2. Header(Len(Open(b)), end) = h
    BY ONLY <1>2, Zenon DEF h
  <2> QED BY ONLY <1>2, <1>6, <1>13, <1>14, <1>15, <1>16, <2>1, <2>2, Zenon DEF Followed
<1> QED BY <1>9, <1>11, <1>12, <1>17, Zenon DEF c

(* reset hands out what is finished and leaves nothing in the buffer.       *)
LEMMA ResetIs ==
  ASSUME NEW b, IsBuf(b), b.block_left = BlockSize
  PROVE  /\ IsBuf(Reset(b).b) /\ Reset(b).raw = Finished(b)
         /\ Finished(Reset(b).b) = <<>> /\ Open(Reset(b).b) = <<>> /\ Open(b) = <<>>
<1> DEFINE c == PrepareReset(b)
           d == [c EXCEPT !.block_left = BlockSize, !.reset_pending = TRUE]
<1>1. Filling(c) /\ Finished(c) = Finished(b) /\ Open(c) = Open(b) /\ c.block_left = BlockSize
  BY PrepareResetIs, Zenon
<1>2. Reset(b).b = d /\ Reset(b).raw = SubSeq(c.buffer, 1, Len(c.buffer) - 2)
  BY <1>1, Zenon DEF Reset
<1> HIDE DEF c
<1>n. BlockSize \in Nat /\ BlockSize \in 0 .. BlockSize
  BY BlockAssumption
<1>3. c \in [buffer : Seq(Byte), block_left : 0 .. BlockSize, reset_pending : BOOLEAN]
      /\ c.reset_pending = FALSE
  BY <1>1, Zenon DEF Filling, IsBuf
<1>4. /\ d \in [buffer : Seq(Byte), block_left : 0 .. BlockSize, reset_pending : BOOLEAN]
      /\ d.buffer = c.buffer /\ d.block_left = BlockSize /\ d.reset_pending = TRUE
  BY <1>3, <1>n, Zenon
<1> HIDE DEF d
<1>5. Used(c) = 0 /\ Used(d) = 0
  <2>1. Used(c) = BlockSize - BlockSize /\ Used(d) = BlockSize - BlockSize
    BY ONLY <1>1, <1>4, Zenon DEF Used
  <2> QED BY ONLY <2>1, <1>n
<1>6. Len(c.buffer) \in Nat /\ Len(c.buffer) >= 2
  BY <1>1, <1>5, OpenIs DEF Filling, IsBuf
<1>7. IsBuf(d)
  <2>1. Len(d.buffer) >= 2 + Used(d)
    BY ONLY <1>4, <1>5, <1>6
  <2> QED BY ONLY <2>1, <1>4, Zenon DEF IsBuf
<1>8. Finished(c) = SubSeq(c.buffer, 1, Len(c.buffer) - 2)
  <2>1. Len(c.buffer) - 2 - Used(c) = Len(c.buffer) - 2
    BY ONLY <1>5, <1>6
  <2> QED BY ONLY <2>1, <1>3, Zenon DEF Finished
<1>9. Finished(d) = <<>>
  BY ONLY <1>4, Zenon DEF Finished
<1>10. Open(d) = <<>> /\ Open(b) = <<>>
  <2>1. Open(d) \in Seq(Byte) /\ Len(Open(d)) = 0
    BY <1>5, <1>7, OpenIs, Zenon
  <2>2. Open(c) \in Seq(Byte) /\ Len(Open(c)) = 0
    BY <1>1, <1>5, OpenIs, Zenon DEF Filling
  <2> QED BY ONLY <2>1, <2>2, <1>1, EmptySeq, Zenon
<1> QED BY <1>1, <1>2, <1>7, <1>8, <1>9, <1>10, Zenon

(* What is taken and what is left make up the sequence.                     *)
LEMMA TakeAndDrop ==
  ASSUME NEW S, NEW s \in Seq(S), NEW k \in 0 .. Len(s)
  PROVE  SubSeq(s, 1, k) \o Drop(s, k) = s
<1> DEFINE a == SubSeq(s, 1, k)
           d == Drop(s, k)
           N == Len(s)
<1>0. N \in Nat /\ k \in Nat /\ k <= N
  BY LenProperties
<1>1. a \in Seq(S) /\ Len(a) = k /\ \A i \in 1 .. k : a[i] = s[i]
  BY TakeIs, Zenon
<1>2. d \in Seq(S) /\ Len(d) = N - k /\ \A i \in 1 .. N - k : d[i] = s[k + i]
  BY DropIs, Zenon
<1> HIDE DEF a, d
<1> DEFINE x == a \o d
<1>3. x \in Seq(S) /\ Len(x) = Len(a) + Len(d)
      /\ \A i \in 1 .. Len(a) + Len(d) : x[i] = IF i <= Len(a) THEN a[i] ELSE d[i - Len(a)]
  BY <1>1, <1>2, ConcatProperties, Zenon
<1> HIDE DEF x, N
<1>4. ASSUME NEW i \in 1 .. N PROVE x[i] = s[i]
  <2>1. CASE i <= k
    <3>1. i \in 1 .. k /\ i \in 1 .. Len(a) + Len(d) /\ i <= Len(a)
      BY <2>1, <1>0, <1>1, <1>2, SMTT(30)
    <3> QED BY <3>1, <1>1, <1>3, Zenon
  <2>2. CASE ~(i <= k)
    <3>1. i - k \in 1 .. N - k /\ k + (i - k) = i /\ i \in 1 .. Len(a) + Len(d) /\ ~(i <= Len(a))
      BY <2>2, <1>0, <1>1, <1>2, SMTT(30)
    <3> QED BY <3>1, <1>1, <1>2, <1>3, Zenon
  <2> QED BY <2>1, <2>2, Zenon
<1>5. Len(x) = N
  BY <1>0, <1>1, <1>2, <1>3, SMTT(30)
<1>6. x = s
  BY ONLY <1>3, <1>4, <1>5, s \in Seq(S), SeqEqual, Zenon DEF N
<1> QED BY <1>6, Zenon DEF x, a, d

(* A block follows a stream also behind other bytes.                        *)
LEMMA FollowedBehind ==
  ASSUME NEW x \in Seq(Byte), NEW st \in Seq(Byte), NEW s, NEW h, NEW body \in Seq(Byte),
         Followed(s, st, h, body)
  PROVE  Followed(x \o s, x \o st, h, body)
<1> DEFINE X == Len(x)
           N == Len(st)
           B == Len(body)
           a == x \o s
           c == x \o st
<1>0. X \in Nat /\ N \in Nat /\ B \in Nat
  BY LenProperties, Zenon
<1>1. /\ s \in Seq(Byte) /\ Len(s) = N + 2 + B /\ \A i \in 1 .. N : s[i] = st[i]
      /\ s[N + 1] = h[1] /\ s[N + 2] = h[2] /\ \A i \in 1 .. B : s[N + 2 + i] = body[i]
  BY Zenon DEF Followed
<1>2. /\ a \in Seq(Byte) /\ Len(a) = X + Len(s)
      /\ \A i \in 1 .. X + Len(s) : a[i] = IF i <= X THEN x[i] ELSE s[i - X]
  <2>1. s \in Seq(Byte)
    BY <1>1, Zenon
  <2> QED BY ONLY <2>1, x \in Seq(Byte), ConcatProperties, Zenon
<1>3. /\ c \in Seq(Byte) /\ Len(c) = X + N
      /\ \A i \in 1 .. X + N : c[i] = IF i <= X THEN x[i] ELSE st[i - X]
  BY ConcatProperties, Zenon
<1>l. Len(s) = N + 2 + B
  BY ONLY <1>1, Zenon
<1> HIDE DEF X, N, B, a, c
<1>4. \A i \in 1 .. Len(s) : a[X + i] = s[i]
  <2>1. \A i \in 1 .. Len(s) : X + i \in 1 .. X + Len(s) /\ ~(X + i <= X) /\ (X + i) - X = i
    BY ONLY <1>0, <1>l, SMTT(20)
  <2> QED BY ONLY <2>1, <1>2, Zenon
<1>5. ASSUME NEW i \in 1 .. X + N PROVE a[i] = c[i]
  <2>1. i \in 1 .. X + Len(s)
    BY ONLY i \in 1 .. X + N, <1>0, <1>l
  <2>2. CASE i <= X
    BY ONLY <2>1, <2>2, <1>2, <1>3, i \in 1 .. X + N, Zenon
  <2>3. CASE ~(i <= X)
    <3>1. i - X \in 1 .. N
      BY ONLY <2>3, <1>0, i \in 1 .. X + N
    <3> QED BY ONLY <3>1, <2>1, <2>3, <1>1, <1>2, <1>3, i \in 1 .. X + N, Zenon
  <2> QED BY <2>2, <2>3, Zenon
<1>6. a[X + N + 1] = h[1] /\ a[X + N + 2] = h[2]
  <2>1. N + 1 \in 1 .. Len(s) /\ N + 2 \in 1 .. Len(s) /\ X + (N + 1) = X + N + 1
        /\ X + (N + 2) = X + N + 2
    BY ONLY <1>0, <1>l
  <2> QED BY ONLY <2>1, <1>1, <1>4, Zenon
<1>7. ASSUME NEW i \in 1 .. B PROVE a[X + N + 2 + i] = body[i]
  <2>1. N + 2 + i \in 1 .. Len(s) /\ X + (N + 2 + i) = X + N + 2 + i
    BY ONLY <1>0, <1>l, i \in 1 .. B
  <2>2. s[N + 2 + i] = body[i]
    BY ONLY <1>1, i \in 1 .. B, Zenon
  <2>3. a[X + (N + 2 + i)] = s[N + 2 + i]
    BY ONLY <2>1, <1>4, Zenon
  <2> QED BY ONLY <2>1, <2>2, <2>3, Zenon
<1>8. Len(a) = X + N + 2 + B
  BY ONLY <1>0, <1>l, <1>2, SMTT(20)
<1>9. Followed(a, c, h, body)
  BY <1>2, <1>3, <1>5, <1>6, <1>7, <1>8, Zenon DEF Followed, B
<1> QED BY <1>9, Zenon DEF a, c

-----------------------------------------------------------------------------
(* Packing.  Behind x the buffer holds the stream that leads from p through *)
(* msgs, up to the rest of the last message.                                *)
Packed(x, b, p, msgs, rest) ==
  Filling(b) /\ Carries(x \o Finished(b), p, msgs, TRUE, Open(b) \o rest)

(* Packing bytes that fit.                                                  *)
LEMMA PackChunk ==
  ASSUME NEW x, NEW b, NEW p, NEW msgs, NEW data \in Seq(Byte), NEW rest \in Seq(Byte),
         Fits(b, data), Packed(x, b, p, msgs, data \o rest)
  PROVE  Packed(x, AppendChunk(b, data), p, msgs, rest)
<1>1. Filling(b) /\ Carries(x \o Finished(b), p, msgs, TRUE, Open(b) \o (data \o rest))
  BY Zenon DEF Packed
<1>2. Open(b) \in Seq(Byte)
  BY <1>1, OpenIs, Zenon DEF Filling
<1>3. Open(b) \o (data \o rest) = (Open(b) \o data) \o rest
  BY <1>2, Associative, Zenon
<1>4. /\ Filling(AppendChunk(b, data)) /\ Finished(AppendChunk(b, data)) = Finished(b)
      /\ Open(AppendChunk(b, data)) = Open(b) \o data
  BY <1>1, AppendChunkIs, Zenon
<1> QED BY ONLY <1>1, <1>3, <1>4, Zenon DEF Packed

(* Packing a block that is full.                                            *)
LEMMA PackBlock ==
  ASSUME NEW x \in Seq(Byte), NEW b, NEW p, NEW msgs, Messages(msgs), NEW rest \in Seq(Byte),
         Packed(x, b, p, msgs, rest)
  PROVE  Packed(x, FinishBlock(b, FALSE), p, msgs, rest)
<1> DEFINE c == FinishBlock(b, FALSE)
           st == x \o Finished(b)
           s == x \o Finished(c)
<1>1. Filling(b) /\ Carries(st, p, msgs, TRUE, Open(b) \o rest)
  BY Zenon DEF Packed
<1>2. Open(b) \in Seq(Byte) /\ Len(Open(b)) <= BlockSize /\ Finished(b) \in Seq(Byte)
  BY ONLY <1>1, OpenFits, Zenon
<1>3. /\ Filling(c) /\ Open(c) = <<>>
      /\ Followed(Finished(c), Finished(b), Header(Len(Open(b)), FALSE), Open(b))
  BY <1>1, FinishBlockIs, Zenon
<1> HIDE DEF c
<1>4. Followed(s, st, Header(Len(Open(b)), FALSE), Open(b))
  BY ONLY <1>2, <1>3, x \in Seq(Byte), FollowedBehind, Zenon
<1>5. st \in Seq(Byte)
  BY <1>2, ConcatProperties, Zenon
<1> HIDE DEF s, st
<1>6. Carries(s, p, msgs, TRUE, rest)
  BY ONLY <1>1, <1>2, <1>4, <1>5, Messages(msgs), rest \in Seq(Byte), AddBlock, Zenon
<1>7. Open(c) \o rest = rest
  BY <1>3, ConcatEmptySeq, Zenon
<1> QED BY <1>3, <1>6, <1>7, Zenon DEF Packed, s, c

(* Packing the last block of a message.                                     *)
LEMMA PackLast ==
  ASSUME NEW x \in Seq(Byte), NEW b, NEW p, NEW msgs, Messages(msgs),
         Packed(x, b, p, msgs, <<>>)
  PROVE  /\ Messages(Append(msgs, <<>>))
         /\ Packed(x, FinishBlock(b, TRUE), p, Append(msgs, <<>>), <<>>)
         /\ FinishBlock(b, TRUE).block_left = BlockSize
<1> DEFINE c == FinishBlock(b, TRUE)
           st == x \o Finished(b)
           s == x \o Finished(c)
<1>1. Filling(b) /\ Carries(st, p, msgs, TRUE, Open(b) \o <<>>)
  BY Zenon DEF Packed
<1>2. Open(b) \in Seq(Byte) /\ Len(Open(b)) <= BlockSize /\ Finished(b) \in Seq(Byte)
  BY ONLY <1>1, OpenFits, Zenon
<1>3. /\ Filling(c) /\ Open(c) = <<>> /\ c.block_left = BlockSize
      /\ Followed(Finished(c), Finished(b), Header(Len(Open(b)), TRUE), Open(b))
  BY <1>1, FinishBlockIs, Zenon
<1> HIDE DEF c
<1>4. Followed(s, st, Header(Len(Open(b)), TRUE), Open(b))
  BY ONLY <1>2, <1>3, x \in Seq(Byte), FollowedBehind, Zenon
<1>5. st \in Seq(Byte)
  BY <1>2, ConcatProperties, Zenon
<1>7. Open(b) \o <<>> = Open(b) /\ <<>> \o <<>> = <<>>
  BY <1>2, ConcatEmptySeq, EmptySeq, Zenon
<1> HIDE DEF s, st
<1>6. Messages(Append(msgs, <<>>)) /\ Carries(s, p, Append(msgs, <<>>), TRUE, <<>>)
  <2>1. Carries(st, p, msgs, TRUE, Open(b))
    BY ONLY <1>1, <1>7, Zenon
  <2> QED BY ONLY <2>1, <1>2, <1>4, <1>5, Messages(msgs), AddLast, Zenon
<1> QED BY <1>3, <1>6, <1>7, Zenon DEF Packed, s, c

Adding(b, data) == [b |-> b, data |-> data]

(* One turn of the loop of append packs some of the data and leaves the     *)
(* rest.                                                                    *)
LEMMA AppendStepPacks ==
  ASSUME NEW x \in Seq(Byte), NEW b, NEW p, NEW msgs, Messages(msgs), NEW data \in Seq(Byte),
         data # <<>>, Packed(x, b, p, msgs, data)
  PROVE  \E c, rest : /\ AppendStep(Adding(b, data)) = Adding(c, rest)
                      /\ rest \in Seq(Byte) /\ Len(rest) < Len(data)
                      /\ Packed(x, c, p, msgs, rest)
<1> DEFINE d == IF b.block_left = 0 THEN FinishBlock(b, FALSE) ELSE b
           n == Lesser(Len(data), d.block_left)
           chunk == SubSeq(data, 1, n)
           rest == Drop(data, n)
<1>1. AppendStep(Adding(b, data)) = Adding(AppendChunk(d, chunk), rest)
  <2>1. Adding(b, data).b = b /\ Adding(b, data).data = data
    BY Zenon DEF Adding
  <2> QED BY <2>1, Zenon DEF AppendStep, Adding
<1>2. Len(data) \in Nat /\ Len(data) > 0
  BY EmptySeq, LenProperties
<1>3. Packed(x, d, p, msgs, data)
  BY PackBlock, Zenon
<1>4. d.block_left \in Nat /\ d.block_left > 0
  <2>1. Filling(b) /\ b.block_left \in 0 .. BlockSize
    BY Zenon DEF Packed, Filling, IsBuf
  <2>2. FinishBlock(b, FALSE).block_left = BlockSize
    BY <2>1, FinishBlockIs, Zenon
  <2>3. BlockSize \in Nat /\ BlockSize > 0
    BY BlockAssumption
  <2>4. CASE b.block_left = 0
    BY ONLY <2>2, <2>3, <2>4, Zenon DEF d
  <2>5. CASE b.block_left # 0
    <3>1. d = b
      BY ONLY <2>5, Zenon DEF d
    <3> HIDE DEF d
    <3> QED BY ONLY <3>1, <2>1, <2>3, <2>5
  <2> QED BY ONLY <2>4, <2>5, Zenon
<1> HIDE DEF d
<1>5. n \in 0 .. Len(data) /\ n > 0 /\ n <= d.block_left
  BY ONLY <1>2, <1>4 DEF Lesser
<1> HIDE DEF n
<1>6. chunk \in Seq(Byte) /\ Len(chunk) = n /\ rest \in Seq(Byte) /\ Len(rest) = Len(data) - n
  BY <1>5, TakeIs, DropIs, Zenon
<1>7. chunk \o rest = data
  BY <1>5, TakeAndDrop, Zenon
<1> HIDE DEF chunk, rest
<1>8. Fits(d, chunk) /\ Len(rest) < Len(data)
  BY ONLY <1>2, <1>4, <1>5, <1>6, SMTT(30) DEF Fits
<1>9. Packed(x, AppendChunk(d, chunk), p, msgs, rest)
  BY ONLY <1>3, <1>6, <1>7, <1>8, PackChunk, Zenon
<1> QED BY <1>1, <1>6, <1>8, <1>9, Zenon

AppendTurns(f, s, n) ==
  f = [i \in 0 .. n |-> IF i = 0 THEN s ELSE AppendStep(f[i - 1])]

(* The loop of append has any number of turns.                              *)
LEMMA AppendTurnsExist ==
  ASSUME NEW s, NEW n \in Nat
  PROVE  \E f : AppendTurns(f, s, n)
<1> DEFINE Is(f, k) == AppendTurns(f, s, k)
           T == {k \in Nat : ~ \E f : Is(f, k)}
<1> USE DEF AppendTurns
<1> SUFFICES ASSUME T # {} PROVE FALSE
  BY Zenon
<1>1. PICK k \in T : \A m \in T : k <= m
  <2> HIDE DEF T
  <2>1. T \in SUBSET Nat
    BY Zenon DEF T
  <2> QED BY <2>1, LeastNumber, Zenon
<1>2. CASE k = 0
  <2>1. Is([i \in 0 .. 0 |-> s], 0)
    OBVIOUS
  <2> QED BY <2>1, <1>2, <1>1, Zenon
<1>3. CASE k > 0
  <2>1. k - 1 \in Nat /\ k - 1 \notin T
    BY <1>1, <1>3
  <2>2. PICK f : Is(f, k - 1)
    BY <2>1, Zenon
  <2> DEFINE g == [i \in 0 .. k |-> IF i < k THEN f[i] ELSE AppendStep(f[k - 1])]
  <2>3. ASSUME NEW i \in 0 .. k
        PROVE  g[i] = IF i = 0 THEN s ELSE AppendStep(g[i - 1])
    BY <2>2, <1>3
  <2>4. Is(g, k)
    BY <2>3, Zenon
  <2> QED BY <2>4, <1>1, Zenon
<1> QED BY <1>1, <1>2, <1>3

Left(s, x, p, msgs, n) ==
  \E c, rest : /\ s = Adding(c, rest) /\ rest \in Seq(Byte) /\ Len(rest) <= n
               /\ Packed(x, c, p, msgs, rest)

(* The loop of append packs all of the data.                                *)
LEMMA AppendLongPacks ==
  ASSUME NEW x \in Seq(Byte), NEW b, NEW p, NEW msgs, Messages(msgs), NEW data \in Seq(Byte),
         Packed(x, b, p, msgs, data)
  PROVE  Packed(x, AppendLong(b, data), p, msgs, <<>>)
<1> DEFINE N == Len(data)
           s == Adding(b, data)
           F == CHOOSE f : AppendTurns(f, s, N)
<1>1. AppendLong(b, data) = F[N].b
  BY Zenon DEF AppendLong, Iterate, AppendTurns, Adding
<1>0. N \in Nat
  BY LenProperties, Zenon
<1>d. Left(s, x, p, msgs, N)
  <2>1. Len(data) <= N
    BY <1>0
  <2> QED BY <2>1, Zenon DEF Left
<1> HIDE DEF s, N
<1>2. AppendTurns(F, s, N)
  BY <1>0, AppendTurnsExist, Zenon
<1> HIDE DEF F
<1>3. F[0] = s /\ \A i \in 1 .. N : F[i] = AppendStep(F[i - 1])
  BY <1>2, <1>0 DEF AppendTurns
<1> DEFINE T == {k \in Nat : k <= N /\ ~Left(F[k], x, p, msgs, N - k)}
<1>4. T = {}
  <2> SUFFICES ASSUME T # {} PROVE FALSE
    OBVIOUS
  <2>1. PICK k \in T : \A m \in T : k <= m
    <3>1. T \in SUBSET Nat
      OBVIOUS
    <3> HIDE DEF T
    <3> QED BY <3>1, LeastNumber, Zenon
  <2>2. k \in Nat /\ k <= N /\ ~Left(F[k], x, p, msgs, N - k) /\ k - 1 \notin T
    <3>1. k - 1 \in T => k <= k - 1
      <4> HIDE DEF T
      <4> QED BY <2>1, Zenon
    <3> QED BY <3>1, <2>1
  <2>3. k # 0
    <3>1. N - 0 = N
      BY <1>0
    <3> QED BY <3>1, <2>2, <1>3, <1>d, Zenon
  <2>4. k - 1 \in Nat /\ k - 1 <= N /\ k \in 1 .. N
    BY ONLY <2>2, <2>3, <1>0, SMTT(30)
  <2>5. Left(F[k - 1], x, p, msgs, N - (k - 1))
    BY ONLY <2>2, <2>4, Zenon DEF T
  <2>6. PICK c, rest : /\ F[k - 1] = Adding(c, rest) /\ rest \in Seq(Byte)
                       /\ Len(rest) <= N - (k - 1) /\ Packed(x, c, p, msgs, rest)
    BY <2>5, Zenon DEF Left
  <2>7. F[k] = AppendStep(Adding(c, rest))
    BY ONLY <2>4, <2>6, <1>3, Zenon
  <2>8. CASE rest = <<>>
    <3>1. AppendStep(Adding(c, rest)) = Adding(c, rest)
      BY <2>8, Zenon DEF AppendStep, Adding
    <3>2. Len(rest) <= N - k
      <4>1. Len(rest) = 0
        BY <2>8, Zenon
      <4> QED BY ONLY <4>1, <2>2, <1>0, SMTT(30)
    <3> QED BY ONLY <3>1, <3>2, <2>2, <2>6, <2>7, Zenon DEF Left
  <2>9. CASE rest # <<>>
    <3>1. PICK d, r : /\ AppendStep(Adding(c, rest)) = Adding(d, r)
                      /\ r \in Seq(Byte) /\ Len(r) < Len(rest) /\ Packed(x, d, p, msgs, r)
      BY <2>6, <2>9, AppendStepPacks, Zenon
    <3>2. Len(r) <= N - k
      <4>1. Len(r) \in Nat /\ Len(rest) \in Nat
        BY <2>6, <3>1, LenProperties, Zenon
      <4> QED BY ONLY <4>1, <3>1, <2>2, <2>6, <1>0, SMTT(20)
    <3> QED BY ONLY <3>1, <3>2, <2>2, <2>7, Zenon DEF Left
  <2> QED BY <2>8, <2>9, Zenon
<1>5. Left(F[N], x, p, msgs, 0)
  <2>1. N \in Nat /\ N <= N /\ N - N = 0
    BY <1>0
  <2> QED BY ONLY <2>1, <1>4, Zenon DEF T
<1>6. PICK c, rest : /\ F[N] = Adding(c, rest) /\ rest \in Seq(Byte)
                     /\ Len(rest) <= 0 /\ Packed(x, c, p, msgs, rest)
  BY <1>5, Zenon DEF Left
<1>7. rest = <<>>
  BY ONLY <1>6, EmptySeq, LenProperties, SMTT(20)
<1>8. F[N].b = c
  BY ONLY <1>6 DEF Adding
<1> QED BY ONLY <1>1, <1>6, <1>7, <1>8, Zenon

(* append packs all of the data, whether it fits the open block or not.     *)
LEMMA AppendedPacks ==
  ASSUME NEW x \in Seq(Byte), NEW b, NEW p, NEW msgs, Messages(msgs), NEW data \in Seq(Byte),
         IsBuf(b), Carries(x \o Finished(b), p, msgs, TRUE, Open(b) \o data)
  PROVE  Packed(x, Appended(b, data), p, msgs, <<>>)
<1> DEFINE c == PrepareReset(b)
<1>1. Packed(x, c, p, msgs, data)
  BY PrepareResetIs, Zenon DEF Packed
<1>2. CASE Fits(c, data)
  <2>1. data \o <<>> = data /\ <<>> \in Seq(Byte)
    BY ConcatEmptySeq, EmptySeq, Zenon
  <2> HIDE DEF c
  <2>2. Packed(x, AppendChunk(c, data), p, msgs, <<>>)
    BY ONLY <1>1, <1>2, <2>1, data \in Seq(Byte), PackChunk, Zenon
  <2> QED BY <2>2, <1>2, Zenon DEF Appended, c
<1>3. CASE ~Fits(c, data)
  <2>1. Packed(x, AppendLong(c, data), p, msgs, <<>>)
    BY <1>1, AppendLongPacks, Zenon
  <2> QED BY <2>1, <1>3, Zenon DEF Appended
<1> QED BY <1>2, <1>3, Zenon

(* end packs the last block of the message.                                 *)
LEMMA EndedPacks ==
  ASSUME NEW x \in Seq(Byte), NEW b, NEW p, NEW msgs, Messages(msgs),
         IsBuf(b), Carries(x \o Finished(b), p, msgs, TRUE, Open(b))
  PROVE  /\ Messages(Append(msgs, <<>>)) /\ Packed(x, Ended(b), p, Append(msgs, <<>>), <<>>)
         /\ Ended(b).block_left = BlockSize
<1> DEFINE c == PrepareReset(b)
<1>1. Open(b) \o <<>> = Open(b)
  BY OpenIs, ConcatEmptySeq, Zenon
<1>2. Packed(x, c, p, msgs, <<>>)
  BY <1>1, PrepareResetIs, Zenon DEF Packed
<1> QED BY <1>2, PackLast, Zenon DEF Ended

=============================================================================
