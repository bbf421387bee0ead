---------------------------- MODULE FramingProofs ----------------------------
(***************************************************************************)
(* The safety properties of the module Framing, for any payload, block     *)
(* size, size of the read buffer, limit and bounds.                        *)
(*                                                                         *)
(* The argument. Wherever the reader is, the bytes it has not taken yet    *)
(* (in the read buffer, in the socket and in the finished blocks of        *)
(* MapiBuf) carry the rest of the messages from the reader's point on, up  *)
(* to what is in the open block (StreamOK). That is inductive together     *)
(* with the shape of the buffer, of the socket and of the reader's state   *)
(* (SenderOK, SocketOK, ReaderOK), with what was handed out (HandedOut)    *)
(* and with how long the message being read may have become in each mode   *)
(* (Limited). A step of the sender changes the end of the stream, and a    *)
(* step of the reader its front; the lemmas of BlockStreams say that both  *)
(* keep it a stream of the same messages. When the connection breaks the   *)
(* stream is a part of what it was, and carries the same messages as far   *)
(* as it goes.                                                             *)
(*                                                                         *)
(* TypeOK, ReceivedInOrder, SoundStreamIsAccepted and LimitIsExact follow  *)
(* from the invariant directly. InStep follows because the reference       *)
(* reader, started at the reader's point, hands out the messages between   *)
(* that point and the end of the stream (DecodeAllIs).                     *)
(***************************************************************************)
EXTENDS BlockStreams

-----------------------------------------------------------------------------
Here ==
  IF mode = "idle" THEN Point(0, FALSE, <<>>, <<>>, Len(received))
                   ELSE At(state, header, out, Len(received))

SenderOK ==
  /\ IsBuf(buf) /\ composing \in Seq(Byte) /\ sent \in Seq(Seq(Byte))
  /\ total \in 0 .. Len(Payload)

SocketOK ==
  /\ cut \in BOOLEAN /\ wire \in Seq(Byte)
  /\ rbuf \in Seq(Byte) /\ Len(rbuf) <= ReadBufferSize

ReaderOK ==
  /\ IsState(state) /\ mode \in Modes \cup {"TooLong", "Eof"}
  /\ mode = "idle" => state \in {Start, End}
  /\ header \in Seq(Byte) /\ Len(header) <= 1
  /\ header # <<>> => state = Start /\ mode # "idle"
  /\ out \in Seq(Byte) /\ received \in Seq([data : Seq(Byte), how : Modes])

(* What was handed out, and what is handed out next.                        *)
HandedOut ==
  /\ \A i \in 1 .. Len(received) : Len(sent) >= i /\ received[i].data = sent[i]
  /\ mode # "idle" /\ state = End =>
       Len(received) < Len(sent) /\ out = sent[Len(received) + 1]

Limited ==
  /\ mode = "limited" => Len(out) <= Limit
  /\ mode = "extra" => Len(out) = Limit
  /\ mode = "TooLong" => Len(out) > Limit
  /\ \A i \in 1 .. Len(received) :
       received[i].how \in {"limited", "extra"} => Len(received[i].data) <= Limit

(* What the reader has not taken yet, from where it is, carries the         *)
(* messages, of which the last one is the one that is being composed.       *)
StreamOK == Carries(Stream, Here, Append(sent, composing), ~cut, Open(buf))

IInv == SenderOK /\ SocketOK /\ ReaderOK /\ HandedOut /\ Limited /\ StreamOK

-----------------------------------------------------------------------------
(* The socket.  What is taken from the front of a stream does not depend on *)
(* what follows.                                                            *)
LEMMA DropBefore ==
  ASSUME NEW a \in Seq(Byte), NEW v \in Seq(Byte), NEW c \in 0 .. Len(a)
  PROVE  /\ SubSeq(a \o v, 1, c) = SubSeq(a, 1, c) /\ Drop(a \o v, c) = Drop(a, c) \o v
         /\ a \o v \in Seq(Byte) /\ c \in 0 .. Len(a \o v)
<1> DEFINE A == Len(a)
           V == Len(v)
           x == a \o v
           d == Drop(a, c)
           y == d \o v
           z == Drop(x, c)
<1>0. A \in Nat /\ V \in Nat /\ c \in Nat /\ c <= A
  BY LenProperties
<1>1. /\ x \in Seq(Byte) /\ Len(x) = A + V
      /\ \A i \in 1 .. A + V : x[i] = IF i <= A THEN a[i] ELSE v[i - A]
  BY ConcatProperties, Zenon
<1>2. d \in Seq(Byte) /\ Len(d) = A - c /\ \A i \in 1 .. A - c : d[i] = a[c + i]
  BY DropIs, Zenon
<1> HIDE DEF x, d
<1>3. /\ y \in Seq(Byte) /\ Len(y) = Len(d) + V
      /\ \A i \in 1 .. Len(d) + V : y[i] = IF i <= Len(d) THEN d[i] ELSE v[i - Len(d)]
  BY <1>2, ConcatProperties, Zenon
<1> HIDE DEF y
<1>x. c \in 0 .. Len(x)
  BY <1>0, <1>1
<1>4. z \in Seq(Byte) /\ Len(z) = Len(x) - c /\ \A i \in 1 .. Len(x) - c : z[i] = x[c + i]
  BY ONLY <1>1, <1>x, DropIs, Zenon
<1> HIDE DEF z, A, V
<1>5. Len(y) = (A - c) + V /\ Len(z) = (A - c) + V
  BY ONLY <1>0, <1>1, <1>2, <1>3, <1>4
<1>6. ASSUME NEW i \in 1 .. (A - c) + V PROVE y[i] = z[i]
  <2>1. i \in 1 .. Len(d) + V /\ i \in 1 .. Len(x) - c /\ c + i \in 1 .. A + V
    BY ONLY <1>0, <1>1, <1>2
  <2>2. CASE i <= A - c
    <3>1. i <= Len(d) /\ i \in 1 .. A - c /\ c + i <= A
      BY ONLY <2>2, <1>0, <1>2
    <3> QED BY ONLY <3>1, <2>1, <1>1, <1>2, <1>3, <1>4, Zenon
  <2>3. CASE ~(i <= A - c)
    <3>1. ~(i <= Len(d)) /\ ~(c + i <= A) /\ i - Len(d) = (c + i) - A
      BY ONLY <2>3, <1>0, <1>2
    <3> QED BY ONLY <3>1, <2>1, <1>1, <1>3, <1>4, Zenon
  <2> QED BY <2>2, <2>3, Zenon
<1>7. y = z
  BY ONLY <1>3, <1>4, <1>5, <1>6, SeqEqual, Zenon
<1>8. SubSeq(x, 1, c) = SubSeq(a, 1, c)
  <2>1. /\ SubSeq(a, 1, c) \in Seq(Byte) /\ Len(SubSeq(a, 1, c)) = c
        /\ \A i \in 1 .. c : SubSeq(a, 1, c)[i] = a[i]
    BY TakeIs, Zenon
  <2>2. /\ SubSeq(x, 1, c) \in Seq(Byte) /\ Len(SubSeq(x, 1, c)) = c
        /\ \A i \in 1 .. c : SubSeq(x, 1, c)[i] = x[i]
    BY ONLY <1>1, <1>x, TakeIs, Zenon
  <2>3. \A i \in 1 .. c : x[i] = a[i]
    <3>1. \A i \in 1 .. c : i \in 1 .. A + V /\ i <= A
      BY ONLY <1>0
    <3> QED BY ONLY <3>1, <1>1, Zenon
  <2> DEFINE e == SubSeq(a, 1, c)
             f == SubSeq(x, 1, c)
  <2> HIDE DEF e, f
  <2>4. \A i \in 1 .. c : f[i] = e[i]
    BY ONLY <2>1, <2>2, <2>3, Zenon DEF e, f
  <2>5. e = f
    BY <2>1, <2>2, <2>4, SeqEqual, Zenon DEF e, f
  <2> QED BY <2>5, Zenon DEF e, f
<1> QED BY <1>1, <1>x, <1>7, <1>8, Zenon DEF x, y, z, d

Obtained(r, x, n) ==
  /\ r.got \in Seq(Byte) /\ Len(r.got) \in 1 .. n /\ Len(r.got) <= Len(x)
  /\ r.got = SubSeq(x, 1, Len(r.got))
  /\ r.rbuf \in Seq(Byte) /\ r.wire \in Seq(Byte) /\ Len(r.rbuf) <= ReadBufferSize
  /\ r.rbuf \o r.wire = Drop(x, Len(r.got))

(* A read of the BufReader returns the front of what it holds and of what   *)
(* has arrived, at most as much as was asked for, and loses nothing.        *)
LEMMA SockReadObtains ==
  ASSUME SocketOK, NEW n \in Nat \ {0}, NEW k, Arrives(k)
  PROVE  Obtained(SockRead(n, k), rbuf \o wire, n)
<1> DEFINE a == IF rbuf = <<>> THEN SubSeq(wire, 1, k) ELSE rbuf
           v == Drop(wire, k)
           c == Lesser(Len(a), n)
           r == SockRead(n, k)
<1>1. r.got = SubSeq(a, 1, c) /\ r.rbuf = Drop(a, c) /\ r.wire = v
  BY Zenon DEF SockRead
<1>0. rbuf \in Seq(Byte) /\ wire \in Seq(Byte) /\ Len(rbuf) <= ReadBufferSize
      /\ ReadBufferSize \in Nat /\ Len(wire) \in Nat /\ Len(rbuf) \in Nat
  BY FramingAssumption, LenProperties, Zenon DEF SocketOK
<1>2. /\ a \in Seq(Byte) /\ v \in Seq(Byte) /\ a \o v = rbuf \o wire
      /\ Len(a) \in 1 .. ReadBufferSize
  <2>1. CASE rbuf = <<>>
    <3>1. k \in 0 .. Len(wire) /\ k \in 1 .. ReadBufferSize
      BY ONLY <2>1, <1>0, Arrives(k) DEF Arrives, Lesser
    <3>2. SubSeq(wire, 1, k) \in Seq(Byte) /\ Len(SubSeq(wire, 1, k)) = k /\ v \in Seq(Byte)
      BY ONLY <1>0, <3>1, TakeIs, DropIs, Zenon
    <3>3. SubSeq(wire, 1, k) \o v = wire
      BY ONLY <1>0, <3>1, TakeAndDrop, Zenon
    <3>4. rbuf \o wire = wire
      BY <2>1, <1>0, ConcatEmptySeq, Zenon
    <3> QED BY ONLY <2>1, <3>1, <3>2, <3>3, <3>4, Zenon
  <2>2. CASE rbuf # <<>>
    <3>1. k = 0
      BY <2>2, Zenon DEF Arrives
    <3>2. v = wire
      BY <3>1, <1>0, DropNone, Zenon
    <3>3. Len(rbuf) \in 1 .. ReadBufferSize
      <4>1. Len(rbuf) # 0
        BY ONLY <2>2, <1>0, EmptySeq, Zenon
      <4> QED BY ONLY <4>1, <1>0
    <3> QED BY ONLY <2>2, <3>2, <3>3, <1>0, Zenon
  <2> QED BY <2>1, <2>2, Zenon
<1> HIDE DEF a, v
<1>3. c \in 0 .. Len(a) /\ c \in 1 .. n /\ Len(a) - c <= ReadBufferSize
  BY ONLY <1>0, <1>2, n \in Nat \ {0} DEF Lesser
<1> HIDE DEF c
<1>4. /\ SubSeq(a, 1, c) \in Seq(Byte) /\ Len(SubSeq(a, 1, c)) = c
      /\ Drop(a, c) \in Seq(Byte) /\ Len(Drop(a, c)) = Len(a) - c
  BY ONLY <1>2, <1>3, TakeIs, DropIs, Zenon
<1>5. /\ SubSeq(a \o v, 1, c) = SubSeq(a, 1, c) /\ Drop(a \o v, c) = Drop(a, c) \o v
      /\ c \in 0 .. Len(a \o v)
  BY ONLY <1>2, <1>3, DropBefore, Zenon
<1>6. c <= Len(rbuf \o wire)
  <2>1. c \in 0 .. Len(rbuf \o wire)
    BY ONLY <1>2, <1>5, Zenon
  <2> QED BY ONLY <2>1
<1> HIDE DEF r
<1>7. Len(r.got) = c
  BY ONLY <1>1, <1>4, Zenon
<1> QED BY <1>1, <1>2, <1>3, <1>4, <1>5, <1>6, <1>7, Zenon DEF Obtained, r

TakenFrom(r, st, rest, n) ==
  /\ st \in Seq(Byte) /\ Len(r.got) \in 1 .. n /\ Len(r.got) \in 0 .. Len(st)
  /\ r.got = SubSeq(st, 1, Len(r.got))
  /\ (r.rbuf \o r.wire) \o rest = Drop(st, Len(r.got))

(* So what it returns is the front of the stream.                           *)
LEMMA ObtainedFromStream ==
  ASSUME NEW x \in Seq(Byte), NEW rest \in Seq(Byte), NEW n \in Nat, NEW r, Obtained(r, x, n)
  PROVE  TakenFrom(r, x \o rest, rest, n)
<1> DEFINE c == Len(r.got)
<1>1. /\ c \in 1 .. n /\ c <= Len(x) /\ r.got = SubSeq(x, 1, c)
      /\ r.rbuf \o r.wire = Drop(x, c)
  BY Zenon DEF Obtained
<1> HIDE DEF c
<1>2. c \in 0 .. Len(x)
  BY <1>1, LenProperties
<1>3. /\ SubSeq(x \o rest, 1, c) = SubSeq(x, 1, c) /\ Drop(x \o rest, c) = Drop(x, c) \o rest
      /\ x \o rest \in Seq(Byte) /\ c \in 0 .. Len(x \o rest)
  BY <1>2, DropBefore, Zenon
<1> QED BY ONLY <1>1, <1>3, Zenon DEF c, TakenFrom

-----------------------------------------------------------------------------
(* The sender's steps.  What is finished in the buffer is a sequence of     *)
(* bytes.                                                                   *)
LEMMA FinishedSeq ==
  ASSUME NEW b, IsBuf(b)
  PROVE  Finished(b) \in Seq(Byte)
<1>1. CASE b.reset_pending
  BY <1>1, EmptySeq, Zenon DEF Finished
<1>2. CASE ~b.reset_pending
  BY <1>2, FinishedIs, Zenon DEF Filling
<1> QED BY <1>1, <1>2, Zenon

(* What a packed buffer carries.                                            *)
LEMMA PackedIs ==
  ASSUME NEW x, NEW b, NEW p, NEW msgs, Packed(x, b, p, msgs, <<>>)
  PROVE  IsBuf(b) /\ Carries(x \o Finished(b), p, msgs, TRUE, Open(b))
<1>1. Open(b) \o <<>> = Open(b)
  BY OpenIs, ConcatEmptySeq, Zenon DEF Packed, Filling
<1> QED BY <1>1, Zenon DEF Packed, Filling

(* Writing what reset hands out moves it to the wire and leaves the stream  *)
(* as it is.                                                                *)
LEMMA ResetPacks ==
  ASSUME NEW r \in Seq(Byte), NEW w \in Seq(Byte), NEW b, IsBuf(b), b.block_left = BlockSize,
         NEW p, NEW msgs, Carries((r \o w) \o Finished(b), p, msgs, TRUE, Open(b))
  PROVE  /\ IsBuf(Reset(b).b) /\ Reset(b).raw \in Seq(Byte)
         /\ Carries((r \o (w \o Reset(b).raw)) \o Finished(Reset(b).b), p, msgs, TRUE,
                    Open(Reset(b).b))
<1> DEFINE raw == Reset(b).raw
           d == Reset(b).b
<1>1. IsBuf(d) /\ raw = Finished(b) /\ Finished(d) = <<>> /\ Open(d) = <<>> /\ Open(b) = <<>>
  BY ResetIs, Zenon
<1>2. raw \in Seq(Byte)
  BY <1>1, FinishedSeq, Zenon
<1> HIDE DEF raw, d
<1>3. (r \o w) \o raw = r \o (w \o raw)
  BY <1>2, Associative, Zenon
<1>4. (r \o (w \o raw)) \o <<>> = r \o (w \o raw)
  <2>1. w \o raw \in Seq(Byte)
    BY <1>2, ConcatProperties, Zenon
  <2> DEFINE y == w \o raw
  <2> HIDE DEF y
  <2>2. r \o y \in Seq(Byte)
    BY <2>1, ConcatProperties, Zenon DEF y
  <2> DEFINE z == r \o y
  <2> HIDE DEF z
  <2>3. z \o <<>> = z
    BY <2>2, ConcatEmptySeq, Zenon DEF z
  <2> QED BY <2>3, Zenon DEF y, z
<1>5. Carries((r \o (w \o raw)) \o Finished(d), p, msgs, TRUE, Open(d))
  BY <1>1, <1>3, <1>4, Zenon
<1> QED BY <1>1, <1>2, <1>5, Zenon DEF raw, d

(* What the invariant says of a stream that is not cut.                     *)
LEMMA InvUncut ==
  ASSUME IInv, ~cut
  PROVE  /\ Stream = (rbuf \o wire) \o Finished(buf) /\ rbuf \o wire \in Seq(Byte)
         /\ Finished(buf) \in Seq(Byte) /\ IsBuf(buf) /\ Stream \in Seq(Byte)
         /\ rbuf \in Seq(Byte) /\ wire \in Seq(Byte)
         /\ composing \in Seq(Byte) /\ sent \in Seq(Seq(Byte))
         /\ Messages(Append(sent, composing))
         /\ Carries((rbuf \o wire) \o Finished(buf), Here, Append(sent, composing), TRUE, Open(buf))
<1>1. /\ IsBuf(buf) /\ composing \in Seq(Byte) /\ sent \in Seq(Seq(Byte))
      /\ rbuf \in Seq(Byte) /\ wire \in Seq(Byte)
  BY Zenon DEF IInv, SenderOK, SocketOK
<1>2. Finished(buf) \in Seq(Byte)
  BY <1>1, FinishedSeq, Zenon
<1>3. rbuf \o wire \in Seq(Byte)
  BY <1>1, ConcatProperties, Zenon
<1>4. Stream = (rbuf \o wire) \o Finished(buf)
  BY Zenon DEF Stream
<1> DEFINE x == rbuf \o wire
           f == Finished(buf)
<1> HIDE DEF x, f
<1>5. x \o f \in Seq(Byte)
  BY <1>2, <1>3, ConcatProperties, Zenon DEF x, f
<1>6. Messages(Append(sent, composing))
  <2>1. /\ Append(sent, composing) \in Seq(Seq(Byte))
        /\ Len(Append(sent, composing)) = Len(sent) + 1 /\ Len(sent) \in Nat
    BY <1>1, AppendProperties, LenProperties, Zenon
  <2>2. Len(Append(sent, composing)) > 0
    BY ONLY <2>1
  <2> QED BY <2>1, <2>2, Zenon DEF Messages
<1>7. Carries(Stream, Here, Append(sent, composing), TRUE, Open(buf))
  <2>1. (~cut) = TRUE
    OBVIOUS
  <2>2. Carries(Stream, Here, Append(sent, composing), ~cut, Open(buf))
    BY Zenon DEF IInv, StreamOK
  <2> QED BY <2>1, <2>2, Zenon
<1> QED BY <1>1, <1>2, <1>3, <1>4, <1>5, <1>6, <1>7, Zenon DEF x, f

(* A step of the sender keeps the invariant if the stream it leaves still   *)
(* carries the messages from where the reader is.                           *)
LEMMA SenderStep ==
  ASSUME IInv, ~cut, UNCHANGED <<cut, reader>>, SenderOK', wire' \in Seq(Byte),
         Len(sent) <= Len(sent'), \A i \in 1 .. Len(sent) : sent'[i] = sent[i],
         Carries((rbuf \o wire') \o Finished(buf'), Here, Append(sent', composing'), TRUE, Open(buf'))
  PROVE  IInv'
<1> USE DEF reader
<1>1. SocketOK'
  BY Zenon DEF IInv, SocketOK
<1>2. ReaderOK' /\ Limited'
  BY Zenon DEF IInv, ReaderOK, Limited
<1>3. Len(sent) \in Nat /\ Len(sent') \in Nat /\ Len(received) \in Nat
  BY LenProperties, Zenon DEF IInv, SenderOK, ReaderOK
<1>4. HandedOut'
  <2>1. /\ \A i \in 1 .. Len(received) : Len(sent) >= i /\ received[i].data = sent[i]
        /\ mode # "idle" /\ state = End =>
             Len(received) < Len(sent) /\ out = sent[Len(received) + 1]
    BY Zenon DEF IInv, HandedOut
  <2>2. ASSUME NEW i \in 1 .. Len(received)
        PROVE  Len(sent') >= i /\ received[i].data = sent'[i]
    <3>1. i \in 1 .. Len(sent) /\ Len(sent') >= i
      BY <1>3, <2>1
    <3> QED BY <3>1, <2>1, Zenon
  <2>3. ASSUME mode # "idle", state = End
        PROVE  Len(received) < Len(sent') /\ out = sent'[Len(received) + 1]
    <3>1. Len(received) < Len(sent) /\ out = sent[Len(received) + 1]
      BY <2>1, <2>3, Zenon
    <3>2. Len(received) + 1 \in 1 .. Len(sent) /\ Len(received) < Len(sent')
      BY <1>3, <3>1
    <3> QED BY <3>1, <3>2, Zenon
  <2> QED BY <2>2, <2>3, Zenon DEF HandedOut
<1>5. StreamOK'
  <2>1. Here' = Here
    BY Zenon DEF Here, At
  <2>2. Stream' = (rbuf \o wire') \o Finished(buf')
    BY Zenon DEF Stream
  <2>3. (~cut') = TRUE
    OBVIOUS
  <2> QED BY <2>1, <2>2, <2>3, Zenon DEF StreamOK
<1> QED BY <1>1, <1>2, <1>4, <1>5, Zenon DEF IInv

(* The bytes given to append are bytes.                                     *)
LEMMA PayloadPiece ==
  ASSUME NEW t \in 0 .. Len(Payload), NEW n \in Nat, t + n <= Len(Payload)
  PROVE  SubSeq(Payload, t + 1, t + n) \in Seq(Byte)
<1>1. Payload \in Seq(Byte) /\ Len(Payload) \in Nat
  BY FramingAssumption, LenProperties, Zenon DEF Byte
<1>2. t + 1 \in 1 .. Len(Payload) + 1 /\ t + n \in (t + 1) - 1 .. Len(Payload)
  BY <1>1
<1> QED BY <1>1, <1>2, SubSeqProperties

(* MapiBuf::append and append_text keep the invariant.                      *)
LEMMA AppendDataKeeps ==
  ASSUME IInv, NEW n \in 0 .. Len(Payload), AppendData(n)
  PROVE  IInv'
<1> DEFINE data == SubSeq(Payload, total + 1, total + n)
           x == rbuf \o wire
           new == Append(sent, composing \o data)
<1>1. /\ ~cut /\ total + n <= Len(Payload) /\ total' = total + n
      /\ buf' = Appended(buf, data) /\ composing' = composing \o data
      /\ UNCHANGED <<sent, wire, cut, reader>>
  BY Zenon DEF AppendData
<1>2. total \in 0 .. Len(Payload) /\ n \in Nat /\ total' \in 0 .. Len(Payload)
  <2>1. total \in 0 .. Len(Payload) /\ Len(Payload) \in Nat
    BY FramingAssumption, LenProperties, Zenon DEF IInv, SenderOK
  <2> QED BY ONLY <2>1, <1>1, n \in 0 .. Len(Payload)
<1>3. data \in Seq(Byte)
  BY <1>1, <1>2, PayloadPiece, Zenon
<1> HIDE DEF data
<1>4. /\ x \in Seq(Byte) /\ Finished(buf) \in Seq(Byte) /\ IsBuf(buf)
      /\ composing \in Seq(Byte) /\ sent \in Seq(Seq(Byte)) /\ wire \in Seq(Byte)
      /\ Carries(x \o Finished(buf), Here, Append(sent, composing), TRUE, Open(buf))
      /\ Open(buf) \in Seq(Byte)
  BY <1>1, InvUncut, OpenIs, Zenon
<1>5. x \o Finished(buf) \in Seq(Byte) /\ composing' \in Seq(Byte)
  BY <1>1, <1>3, <1>4, InvUncut, ConcatProperties, Zenon
<1> HIDE DEF x
<1>6. Messages(new) /\ Carries(x \o Finished(buf), Here, new, TRUE, Open(buf) \o data)
  BY ONLY <1>3, <1>4, <1>5, GrowLast, Zenon
<1> HIDE DEF new
<1>7. Packed(x, Appended(buf, data), Here, new, <<>>)
  BY ONLY <1>3, <1>4, <1>6, AppendedPacks, Zenon
<1>8. IsBuf(buf') /\ Carries(x \o Finished(buf'), Here, new, TRUE, Open(buf'))
  BY ONLY <1>1, <1>7, PackedIs, Zenon
<1>9. SenderOK'
  BY <1>1, <1>2, <1>4, <1>5, <1>8, Zenon DEF SenderOK
<1>10. Carries((rbuf \o wire') \o Finished(buf'), Here, Append(sent', composing'), TRUE, Open(buf'))
  BY ONLY <1>1, <1>8, Zenon DEF x, new
<1>11. Len(sent) <= Len(sent') /\ \A i \in 1 .. Len(sent) : sent'[i] = sent[i]
  BY <1>1, <1>4, LenProperties, SMTT(30)
<1> QED BY <1>1, <1>4, <1>9, <1>10, <1>11, SenderStep, Zenon

(* Ending a message adds it behind the ones that were sent.                 *)
LEMMA SentGrows ==
  ASSUME NEW s \in Seq(Seq(Byte)), NEW c \in Seq(Byte)
  PROVE  /\ Append(s, c) \in Seq(Seq(Byte)) /\ Len(s) <= Len(Append(s, c))
         /\ \A i \in 1 .. Len(s) : Append(s, c)[i] = s[i]
<1>1. /\ Append(s, c) \in Seq(Seq(Byte)) /\ Len(Append(s, c)) = Len(s) + 1
      /\ \A i \in 1 .. Len(s) : Append(s, c)[i] = s[i] /\ Len(s) \in Nat
  BY AppendProperties, LenProperties
<1>2. Len(s) \in Nat
  BY LenProperties, Zenon
<1> QED BY ONLY <1>1, <1>2, SMTT(20)

(* MapiBuf::end keeps the invariant.                                        *)
LEMMA EndMessageKeeps ==
  ASSUME IInv, EndMessage
  PROVE  IInv'
<1> DEFINE x == rbuf \o wire
           new == Append(Append(sent, composing), <<>>)
<1>1. /\ ~cut /\ buf' = Ended(buf) /\ sent' = Append(sent, composing) /\ composing' = <<>>
      /\ UNCHANGED <<total, wire, cut, reader>>
  BY Zenon DEF EndMessage
<1>2. /\ x \in Seq(Byte) /\ IsBuf(buf) /\ wire \in Seq(Byte)
      /\ composing \in Seq(Byte) /\ sent \in Seq(Seq(Byte)) /\ Messages(Append(sent, composing))
      /\ Carries(x \o Finished(buf), Here, Append(sent, composing), TRUE, Open(buf))
  BY <1>1, InvUncut, Zenon
<1> HIDE DEF x
<1>3. Packed(x, Ended(buf), Here, new, <<>>)
  BY ONLY <1>2, EndedPacks, Zenon
<1> HIDE DEF new
<1>4. IsBuf(buf') /\ Carries(x \o Finished(buf'), Here, new, TRUE, Open(buf'))
  BY ONLY <1>1, <1>3, PackedIs, Zenon
<1>5. /\ sent' \in Seq(Seq(Byte)) /\ Len(sent) <= Len(sent')
      /\ \A i \in 1 .. Len(sent) : sent'[i] = sent[i]
  BY <1>1, <1>2, SentGrows, Zenon
<1>6. SenderOK'
  BY <1>1, <1>4, <1>5, EmptySeq, Zenon DEF SenderOK, IInv
<1>7. Carries((rbuf \o wire') \o Finished(buf'), Here, Append(sent', composing'), TRUE, Open(buf'))
  BY ONLY <1>1, <1>4, Zenon DEF x, new
<1> QED BY <1>1, <1>2, <1>5, <1>6, <1>7, SenderStep, Zenon

(* send_delayed keeps the invariant.                                        *)
LEMMA SendDelayedKeeps ==
  ASSUME IInv, SendDelayed
  PROVE  IInv'
<1> DEFINE raw == Reset(buf).raw
<1>1. /\ ~cut /\ buf.block_left = BlockSize /\ buf' = Reset(buf).b /\ wire' = wire \o raw
      /\ UNCHANGED <<composing, total, sent, cut, reader>>
  BY Zenon DEF SendDelayed
<1>2. /\ rbuf \in Seq(Byte) /\ wire \in Seq(Byte) /\ IsBuf(buf)
      /\ composing \in Seq(Byte) /\ sent \in Seq(Seq(Byte))
      /\ Carries((rbuf \o wire) \o Finished(buf), Here, Append(sent, composing), TRUE, Open(buf))
  BY <1>1, InvUncut, Zenon
<1>3. /\ IsBuf(Reset(buf).b) /\ raw \in Seq(Byte)
      /\ Carries((rbuf \o (wire \o raw)) \o Finished(Reset(buf).b), Here, Append(sent, composing),
                 TRUE, Open(Reset(buf).b))
  BY ONLY <1>1, <1>2, ResetPacks, Zenon
<1> HIDE DEF raw
<1>4. wire' \in Seq(Byte)
  BY <1>1, <1>2, <1>3, ConcatProperties, Zenon
<1>5. SenderOK'
  BY <1>1, <1>2, <1>3, Zenon DEF SenderOK, IInv
<1>6. Carries((rbuf \o wire') \o Finished(buf'), Here, Append(sent', composing'), TRUE, Open(buf'))
  BY ONLY <1>1, <1>3, Zenon
<1>7. Len(sent) <= Len(sent') /\ \A i \in 1 .. Len(sent) : sent'[i] = sent[i]
  BY <1>1, <1>2, LenProperties
<1> QED BY <1>1, <1>4, <1>5, <1>6, <1>7, SenderStep, Zenon

(* MapiBuf::write_reset keeps the invariant.                                *)
LEMMA WriteResetKeeps ==
  ASSUME IInv, WriteReset
  PROVE  IInv'
<1> DEFINE x == rbuf \o wire
           b == Ended(buf)
           new == Append(Append(sent, composing), <<>>)
           raw == Reset(b).raw
<1>1. /\ ~cut /\ buf' = Reset(b).b /\ wire' = wire \o raw
      /\ sent' = Append(sent, composing) /\ composing' = <<>>
      /\ UNCHANGED <<total, cut, reader>>
  BY Zenon DEF WriteReset
<1>2. /\ x \in Seq(Byte) /\ IsBuf(buf) /\ rbuf \in Seq(Byte) /\ wire \in Seq(Byte)
      /\ composing \in Seq(Byte) /\ sent \in Seq(Seq(Byte)) /\ Messages(Append(sent, composing))
      /\ Carries(x \o Finished(buf), Here, Append(sent, composing), TRUE, Open(buf))
  BY <1>1, InvUncut, Zenon
<1> HIDE DEF x
<1>3. Packed(x, b, Here, new, <<>>) /\ b.block_left = BlockSize
  BY ONLY <1>2, EndedPacks, Zenon
<1> HIDE DEF new, b
<1>4. IsBuf(b) /\ Carries((rbuf \o wire) \o Finished(b), Here, new, TRUE, Open(b))
  BY ONLY <1>3, PackedIs, Zenon DEF x
<1>5. /\ IsBuf(Reset(b).b) /\ raw \in Seq(Byte)
      /\ Carries((rbuf \o (wire \o raw)) \o Finished(Reset(b).b), Here, new,
                 TRUE, Open(Reset(b).b))
  BY ONLY <1>2, <1>3, <1>4, ResetPacks, Zenon
<1> HIDE DEF raw
<1>6. wire' \in Seq(Byte)
  BY <1>1, <1>2, <1>5, ConcatProperties, Zenon
<1>7. /\ sent' \in Seq(Seq(Byte)) /\ Len(sent) <= Len(sent')
      /\ \A i \in 1 .. Len(sent) : sent'[i] = sent[i]
  BY <1>1, <1>2, SentGrows, Zenon
<1>8. SenderOK'
  BY <1>1, <1>5, <1>7, EmptySeq, Zenon DEF SenderOK, IInv
<1>9. Carries((rbuf \o wire') \o Finished(buf'), Here, Append(sent', composing'), TRUE, Open(buf'))
  BY ONLY <1>1, <1>5, Zenon DEF new
<1> QED BY <1>1, <1>6, <1>7, <1>8, <1>9, SenderStep, Zenon

(* A block that the server closes early keeps the invariant.                *)
LEMMA ServerClosesBlockKeeps ==
  ASSUME IInv, ServerClosesBlock
  PROVE  IInv'
<1> DEFINE x == rbuf \o wire
           c == PrepareReset(buf)
           msgs == Append(sent, composing)
<1>1. /\ ~cut /\ buf' = FinishBlock(c, FALSE)
      /\ UNCHANGED <<composing, total, sent, wire, cut, reader>>
  BY Zenon DEF ServerClosesBlock
<1>2. /\ x \in Seq(Byte) /\ IsBuf(buf) /\ wire \in Seq(Byte) /\ composing \in Seq(Byte)
      /\ sent \in Seq(Seq(Byte)) /\ Messages(msgs)
      /\ Carries(x \o Finished(buf), Here, msgs, TRUE, Open(buf))
  BY <1>1, InvUncut, Zenon
<1> HIDE DEF x, msgs
<1>3. Packed(x, c, Here, msgs, <<>>)
  <2>1. Open(buf) \o <<>> = Open(buf)
    BY <1>2, OpenIs, ConcatEmptySeq, Zenon
  <2> QED BY ONLY <2>1, <1>2, PrepareResetIs, Zenon DEF Packed
<1> HIDE DEF c
<1>4. Packed(x, FinishBlock(c, FALSE), Here, msgs, <<>>)
  <2>1. <<>> \in Seq(Byte)
    BY EmptySeq, Zenon
  <2> QED BY ONLY <2>1, <1>2, <1>3, PackBlock, Zenon
<1>5. IsBuf(buf') /\ Carries(x \o Finished(buf'), Here, msgs, TRUE, Open(buf'))
  BY ONLY <1>1, <1>4, PackedIs, Zenon
<1>6. SenderOK'
  BY <1>1, <1>2, <1>5, Zenon DEF SenderOK, IInv
<1>7. Carries((rbuf \o wire') \o Finished(buf'), Here, Append(sent', composing'), TRUE, Open(buf'))
  BY ONLY <1>1, <1>5, Zenon DEF x, msgs
<1>8. Len(sent) <= Len(sent') /\ \A i \in 1 .. Len(sent) : sent'[i] = sent[i]
  BY <1>1, <1>2, LenProperties
<1> QED BY <1>1, <1>2, <1>6, <1>7, <1>8, SenderStep, Zenon

(* A connection that breaks keeps the invariant: what has not arrived is    *)
(* lost, and nothing in front of it.                                        *)
LEMMA CutKeeps ==
  ASSUME IInv, NEW k \in 0 .. Len(wire), Cut(k)
  PROVE  IInv'
<1> DEFINE x == rbuf \o wire
           f == Finished(buf)
           st == x \o f
           w == SubSeq(wire, 1, k)
           msgs == Append(sent, composing)
<1>1. ~cut /\ cut' = TRUE /\ wire' = w /\ UNCHANGED <<sender, reader>>
  BY Zenon DEF Cut
<1>2. /\ x \in Seq(Byte) /\ f \in Seq(Byte) /\ st \in Seq(Byte)
      /\ rbuf \in Seq(Byte) /\ wire \in Seq(Byte)
      /\ Carries(st, Here, msgs, TRUE, Open(buf))
  BY <1>1, InvUncut, Zenon
<1>3. w \in Seq(Byte)
  BY <1>2, TakeIs, Zenon
<1> DEFINE y == rbuf \o w
           n == Len(y)
<1>4. y \in Seq(Byte) /\ n \in 0 .. Len(st) /\ SubSeq(st, 1, n) = y
  <2>1. w \o Drop(wire, k) = wire /\ Drop(wire, k) \in Seq(Byte)
    BY <1>2, TakeAndDrop, DropIs, Zenon
  <2> DEFINE v == Drop(wire, k)
  <2> HIDE DEF v, w
  <2>2. y \in Seq(Byte)
    BY <1>2, <1>3, ConcatProperties, Zenon
  <2>3. y \o v = x
    <3>1. v \in Seq(Byte) /\ w \o v = wire
      BY ONLY <2>1, Zenon DEF v
    <3>2. rbuf \in Seq(Byte) /\ w \in Seq(Byte) /\ v \in Seq(Byte)
      BY ONLY <3>1, <1>2, <1>3, Zenon
    <3>3. (rbuf \o w) \o v = rbuf \o (w \o v)
      BY ONLY <3>2, Associative, Zenon
    <3> QED BY ONLY <3>1, <3>3, Zenon
  <2>4. st = y \o (v \o f)
    <3>1. v \in Seq(Byte) /\ f \in Seq(Byte) /\ y \in Seq(Byte)
      BY ONLY <2>1, <2>2, <1>2, Zenon DEF v
    <3> HIDE DEF y, x, f
    <3>2. (y \o v) \o f = y \o (v \o f)
      BY ONLY <3>1, Associative, Zenon
    <3> QED BY ONLY <2>3, <3>2, Zenon
  <2>5. v \o f \in Seq(Byte)
    BY <2>1, <1>2, ConcatProperties, Zenon DEF v
  <2> DEFINE z == v \o f
  <2> HIDE DEF y, z, st
  <2>6. n \in 0 .. Len(y)
    BY <2>2, LenProperties
  <2>7. SubSeq(y \o z, 1, n) = SubSeq(y, 1, n) /\ n \in 0 .. Len(y \o z)
    BY <2>2, <2>5, <2>6, DropBefore, Zenon DEF z
  <2>8. SubSeq(y, 1, Len(y)) = y
    BY <2>2, SubSeqFull, Zenon
  <2> QED BY ONLY <2>2, <2>4, <2>7, <2>8, Zenon DEF z
<1> HIDE DEF st, n
<1>5. Carries(SubSeq(st, 1, n), Here, msgs, FALSE, Open(buf))
  BY ONLY <1>2, <1>4, CutShort, Zenon
<1>6. StreamOK'
  <2>1. y \o <<>> = y
    BY <1>4, ConcatEmptySeq, Zenon
  <2>2. Stream' = y
    BY <1>1, <2>1, Zenon DEF Stream, reader
  <2>3. Here' = Here /\ (~cut') = FALSE /\ Append(sent, composing)' = msgs /\ Open(buf)' = Open(buf)
    BY <1>1, Zenon DEF Here, At, sender, reader, Open, Used
  <2> HIDE DEF y, msgs
  <2>4. Carries(Stream', Here', Append(sent, composing)', ~cut', Open(buf)')
    BY ONLY <2>2, <2>3, <1>4, <1>5, Zenon
  <2> QED BY ONLY <2>4, Zenon DEF StreamOK
<1>7. SenderOK' /\ ReaderOK' /\ HandedOut' /\ Limited'
  BY <1>1, Zenon DEF IInv, SenderOK, ReaderOK, HandedOut, Limited, sender, reader
<1>8. SocketOK'
  BY <1>1, <1>3, Zenon DEF IInv, SocketOK, reader
<1> QED BY <1>6, <1>7, <1>8, Zenon DEF IInv

-----------------------------------------------------------------------------
(* The invariant, reader's steps.                                           *)
Rest == IF cut THEN <<>> ELSE Finished(buf)

(* What the invariant says of the stream, cut or not.                       *)
LEMMA InvStream ==
  ASSUME IInv
  PROVE  /\ Stream = (rbuf \o wire) \o Rest /\ rbuf \o wire \in Seq(Byte) /\ Rest \in Seq(Byte)
         /\ Carries((rbuf \o wire) \o Rest, Here, Append(sent, composing), ~cut, Open(buf))
         /\ Len(received) \in Nat /\ Len(sent) \in Nat
         /\ Len(Append(sent, composing)) = Len(sent) + 1
         /\ \A i \in 1 .. Len(sent) : Append(sent, composing)[i] = sent[i]
<1>1. rbuf \in Seq(Byte) /\ wire \in Seq(Byte) /\ IsBuf(buf) /\ sent \in Seq(Seq(Byte))
      /\ composing \in Seq(Byte) /\ received \in Seq([data : Seq(Byte), how : Modes])
  BY Zenon DEF IInv, SenderOK, SocketOK, ReaderOK
<1>2. Rest \in Seq(Byte) /\ rbuf \o wire \in Seq(Byte)
  <2>1. Finished(buf) \in Seq(Byte) /\ <<>> \in Seq(Byte)
    BY <1>1, FinishedSeq, EmptySeq, Zenon
  <2> QED BY <2>1, <1>1, ConcatProperties, Zenon DEF Rest
<1>3. Stream = (rbuf \o wire) \o Rest
  BY Zenon DEF Stream, Rest
<1>4. Carries(Stream, Here, Append(sent, composing), ~cut, Open(buf))
  BY Zenon DEF IInv, StreamOK
<1>5. /\ Len(received) \in Nat /\ Len(sent) \in Nat
      /\ Len(Append(sent, composing)) = Len(sent) + 1
      /\ \A i \in 1 .. Len(sent) : Append(sent, composing)[i] = sent[i]
  BY <1>1, AppendProperties, LenProperties
<1> QED BY ONLY <1>2, <1>3, <1>4, <1>5, Zenon

(* A step that takes nothing from the stream and leaves the reader where it *)
(* is keeps the invariant.                                                  *)
LEMMA QuietStep ==
  ASSUME IInv, UNCHANGED <<sender, wire, cut, rbuf>>, Here' = Here,
         ReaderOK', HandedOut', Limited'
  PROVE  IInv'
<1>1. SenderOK' /\ SocketOK'
  BY Zenon DEF IInv, SenderOK, SocketOK, sender
<1>2. Stream' = Stream /\ Append(sent, composing)' = Append(sent, composing)
      /\ (~cut)' = ~cut /\ Open(buf)' = Open(buf)
  BY Zenon DEF Stream, sender, Open, Used, Finished
<1>3. Carries(Stream, Here, Append(sent, composing), ~cut, Open(buf))
  BY Zenon DEF IInv, StreamOK
<1>4. Carries(Stream', Here', Append(sent, composing)', (~cut)', Open(buf)')
  BY ONLY <1>2, <1>3, Here' = Here, Zenon
<1>5. StreamOK'
  BY ONLY <1>4, Zenon DEF StreamOK
<1> QED BY <1>1, <1>5, Zenon DEF IInv

(* MapiReader::new keeps the invariant.                                     *)
LEMMA NewReaderKeeps ==
  ASSUME IInv, NEW how \in {"read", "limited"}, NewReader(how)
  PROVE  IInv'
<1>1. /\ mode = "idle" /\ mode' = how /\ state' = Start /\ out' = <<>>
      /\ UNCHANGED <<sender, wire, cut, rbuf, header, received>>
  BY Zenon DEF NewReader
<1>2. header = <<>>
  BY <1>1, Zenon DEF IInv, ReaderOK
<1>3. Here' = Here
  <2>1. Here = Point(0, FALSE, <<>>, <<>>, Len(received))
    BY <1>1, Zenon DEF Here
  <2>2. Here' = At(Start, <<>>, <<>>, Len(received))
    BY <1>1, <1>2, Zenon DEF Here
  <2> QED BY ONLY <2>1, <2>2, AtStart, Zenon
<1>4. ReaderOK'
  <2>1. IsState(state')
    BY <1>1, Zenon DEF IsState
  <2>2. mode' \in Modes \cup {"TooLong", "Eof"} /\ mode' # "idle"
    BY <1>1, Zenon DEF Modes
  <2>3. out' \in Seq(Byte)
    BY <1>1, EmptySeq, Zenon
  <2>4. /\ header' \in Seq(Byte) /\ Len(header') <= 1 /\ header' = <<>>
        /\ received' \in Seq([data : Seq(Byte), how : Modes])
    BY <1>1, <1>2, Zenon DEF IInv, ReaderOK
  <2> QED BY <2>1, <2>2, <2>3, <2>4, Zenon DEF ReaderOK
<1>5. HandedOut'
  <2>1. state' # End
    BY <1>1, StatesDiffer, Zenon
  <2> QED BY <1>1, <2>1, Zenon DEF IInv, HandedOut, sender
<1>6. Limited'
  <2>1. Len(<<>>) = 0 /\ Limit \in Nat
    BY FramingAssumption, Zenon
  <2>2. Len(out') <= Limit
    BY ONLY <2>1, <1>1
  <2> QED BY <1>1, <2>2, Zenon DEF IInv, Limited
<1> QED BY <1>1, <1>3, <1>4, <1>5, <1>6, QuietStep, Zenon

(* A read at the end of a message keeps the invariant.                      *)
LEMMA ReadEofKeeps ==
  ASSUME IInv, ReadEof
  PROVE  IInv'
<1>1. /\ mode # "idle" /\ state # End /\ mode' = "Eof"
      /\ UNCHANGED <<sender, wire, cut, rbuf, header, state, out, received>>
  BY Zenon DEF ReadEof, Reading
<1>2. Here' = Here
  BY <1>1, Zenon DEF Here, At
<1>3. ReaderOK'
  <2>1. mode' \in Modes \cup {"TooLong", "Eof"} /\ mode' # "idle"
    BY <1>1, Zenon DEF Modes
  <2> QED BY <1>1, <2>1, Zenon DEF IInv, ReaderOK
<1>4. HandedOut' /\ Limited'
  BY <1>1, Zenon DEF IInv, HandedOut, Limited, sender
<1> QED BY <1>1, <1>2, <1>3, <1>4, QuietStep, Zenon

(* MapiReader::finish keeps the invariant.                                  *)
LEMMA FinishKeeps ==
  ASSUME IInv, Finish
  PROVE  IInv'
<1>1. /\ mode # "idle" /\ state # End /\ mode' = "skip"
      /\ UNCHANGED <<sender, wire, cut, rbuf, header, state, out, received>>
  BY Zenon DEF Finish
<1>2. Here' = Here
  BY <1>1, Zenon DEF Here, At
<1>3. ReaderOK'
  <2>1. mode' \in Modes \cup {"TooLong", "Eof"} /\ mode' # "idle"
    BY <1>1, Zenon DEF Modes
  <2> QED BY <1>1, <2>1, Zenon DEF IInv, ReaderOK
<1>4. HandedOut' /\ Limited'
  BY <1>1, Zenon DEF IInv, HandedOut, Limited, sender
<1> QED BY <1>1, <1>2, <1>3, <1>4, QuietStep, Zenon

(* to_limited, at its limit before the end of the message, keeps the        *)
(* invariant.                                                               *)
LEMMA LimitReachedKeeps ==
  ASSUME IInv, LimitReached
  PROVE  IInv'
<1>1. /\ mode # "idle" /\ state # End /\ mode' = "extra" /\ Len(out) = Limit
      /\ UNCHANGED <<sender, wire, cut, rbuf, header, state, out, received>>
  BY Zenon DEF LimitReached, Probe
<1>2. Here' = Here
  BY <1>1, Zenon DEF Here, At
<1>3. ReaderOK'
  <2>1. mode' \in Modes \cup {"TooLong", "Eof"} /\ mode' # "idle"
    BY <1>1, Zenon DEF Modes
  <2> QED BY <1>1, <2>1, Zenon DEF IInv, ReaderOK
<1>4. HandedOut' /\ Limited'
  BY <1>1, Zenon DEF IInv, HandedOut, Limited, sender
<1> QED BY <1>1, <1>2, <1>3, <1>4, QuietStep, Zenon

(* A message that is handed out whole keeps the invariant.                  *)
LEMMA DoneKeeps ==
  ASSUME IInv, Done
  PROVE  IInv'
<1> DEFINE e == [data |-> out, how |-> mode]
           N == Len(received)
<1>1. /\ mode \in Modes \ {"idle"} /\ state = End /\ mode' = "idle"
      /\ received' = Append(received, e)
      /\ UNCHANGED <<sender, wire, cut, rbuf, header, state, out>>
  BY Zenon DEF Done
<1>2. header = <<>> /\ out \in Seq(Byte) /\ received \in Seq([data : Seq(Byte), how : Modes])
  BY <1>1, StatesDiffer, Zenon DEF IInv, ReaderOK
<1>3. e \in [data : Seq(Byte), how : Modes] /\ e.data = out /\ e.how = mode
  BY <1>1, <1>2, Zenon
<1> HIDE DEF e
<1>4. /\ received' \in Seq([data : Seq(Byte), how : Modes]) /\ Len(received') = N + 1
      /\ \A i \in 1 .. N : received'[i] = received[i]
      /\ received'[N + 1] = e
  BY <1>1, <1>2, <1>3, AppendProperties
<1>5. N \in Nat
  BY <1>2, LenProperties, Zenon
<1> HIDE DEF N
<1>n. N = Len(received)
  BY Zenon DEF N
<1>6. \A i \in 1 .. N + 1 : i = N + 1 \/ i \in 1 .. N
  BY ONLY <1>5
<1>7. Here' = Here
  <2>1. Here' = Point(0, FALSE, <<>>, <<>>, N + 1)
    BY <1>1, <1>4, Zenon DEF Here
  <2>2. Here = At(End, <<>>, out, N)
    BY <1>1, <1>2, Zenon DEF Here, N
  <2> QED BY ONLY <2>1, <2>2, AtEndState, Zenon
<1>8. ReaderOK'
  <2>1. mode' \in Modes
    BY <1>1, Zenon DEF Modes
  <2> QED BY <1>1, <1>2, <1>4, <2>1, Zenon DEF IInv, ReaderOK
<1>9. HandedOut'
  <2>1. /\ \A i \in 1 .. N : Len(sent) >= i /\ received[i].data = sent[i]
        /\ N < Len(sent) /\ out = sent[N + 1]
    BY <1>1, <1>n, Zenon DEF IInv, HandedOut
  <2>2. Len(sent) >= N + 1
    <3>1. Len(sent) \in Nat
      BY InvStream, Zenon
    <3> QED BY ONLY <2>1, <1>5, <3>1
  <2>3. \A i \in 1 .. N + 1 : Len(sent) >= i /\ received'[i].data = sent[i]
    BY ONLY <1>3, <1>4, <1>6, <2>1, <2>2, Zenon
  <2> QED BY <1>1, <1>4, <2>3, Zenon DEF HandedOut, sender
<1>10. Limited'
  <2>1. /\ \A i \in 1 .. N : received[i].how \in {"limited", "extra"} =>
                               Len(received[i].data) <= Limit
        /\ mode = "limited" => Len(out) <= Limit
        /\ mode = "extra" => Len(out) = Limit
    BY <1>n, Zenon DEF IInv, Limited
  <2>2. mode \in {"limited", "extra"} => Len(out) <= Limit
    <3>1. Len(out) = Limit => Len(out) <= Limit
      BY FramingAssumption
    <3> QED BY ONLY <2>1, <3>1, Zenon
  <2>3. \A i \in 1 .. N + 1 : received'[i].how \in {"limited", "extra"} =>
                                Len(received'[i].data) <= Limit
    BY ONLY <1>3, <1>4, <1>6, <2>1, <2>2, Zenon
  <2> QED BY <1>1, <1>4, <2>3, Zenon DEF Limited
<1> QED BY <1>1, <1>7, <1>8, <1>9, <1>10, QuietStep, Zenon

(* The reader has taken bytes from the stream and moved on.                 *)
LEMMA ReaderMoves ==
  ASSUME IInv, UNCHANGED <<sender, cut, received>>, SocketOK', Limited',
         mode # "idle", mode' \in {mode, "TooLong"}, IsState(state'), out' \in Seq(Byte),
         header' \in Seq(Byte), Len(header') <= 1, header' # <<>> => state' = Start,
         Carries((rbuf' \o wire') \o Rest, At(state', header', out', Len(received)),
                 Append(sent, composing), ~cut, Open(buf)),
         state' = End => /\ Len(received) + 1 < Len(Append(sent, composing))
                         /\ Append(sent, composing)[Len(received) + 1] = out'
  PROVE  IInv'
<1>1. SenderOK'
  BY Zenon DEF IInv, SenderOK, sender
<1>2. mode' # "idle" /\ mode' \in Modes \cup {"TooLong", "Eof"}
  BY Zenon DEF IInv, ReaderOK
<1>3. ReaderOK'
  BY <1>2, Zenon DEF IInv, ReaderOK
<1>4. HandedOut'
  <2>1. \A i \in 1 .. Len(received) : Len(sent) >= i /\ received[i].data = sent[i]
    BY Zenon DEF IInv, HandedOut
  <2>2. ASSUME state' = End
        PROVE  Len(received) < Len(sent) /\ out' = sent[Len(received) + 1]
    <3>1. /\ Len(received) \in Nat /\ Len(sent) \in Nat
          /\ Len(Append(sent, composing)) = Len(sent) + 1
          /\ \A i \in 1 .. Len(sent) : Append(sent, composing)[i] = sent[i]
      BY InvStream, Zenon
    <3>2. Len(received) < Len(sent) /\ Len(received) + 1 \in 1 .. Len(sent)
      BY <2>2, <3>1
    <3>3. Append(sent, composing)[Len(received) + 1] = sent[Len(received) + 1]
      BY ONLY <3>1, <3>2, Zenon
    <3> QED BY <2>2, <3>2, <3>3, Zenon
  <2> QED BY <2>1, <2>2, Zenon DEF HandedOut, sender
<1>5. StreamOK'
  <2>1. Here' = At(state', header', out', Len(received))
    BY <1>2, Zenon DEF Here
  <2>2. Stream' = (rbuf' \o wire') \o Rest
    BY Zenon DEF Stream, Rest, sender
  <2>3. Append(sent, composing)' = Append(sent, composing) /\ (~cut)' = ~cut /\ Open(buf)' = Open(buf)
    BY Zenon DEF sender, Open, Used
  <2>4. Carries(Stream', Here', Append(sent, composing)', (~cut)', Open(buf)')
    BY <2>1, <2>2, <2>3, Zenon
  <2> QED BY ONLY <2>4, Zenon DEF StreamOK
<1> QED BY <1>1, <1>3, <1>4, <1>5, Zenon DEF IInv

(* What is obtained from the socket is the beginning of the stream.         *)
LEMMA SockReadTakes ==
  ASSUME IInv, NEW n \in Nat \ {0}, NEW k, Arrives(k), NEW r, r = SockRead(n, k)
  PROVE  /\ r.got \in Seq(Byte) /\ Len(r.got) \in 1 .. n
         /\ Len(r.got) \in 0 .. Len((rbuf \o wire) \o Rest)
         /\ (rbuf \o wire) \o Rest \in Seq(Byte)
         /\ r.got = SubSeq((rbuf \o wire) \o Rest, 1, Len(r.got))
         /\ (r.rbuf \o r.wire) \o Rest = Drop((rbuf \o wire) \o Rest, Len(r.got))
         /\ r.rbuf \in Seq(Byte) /\ r.wire \in Seq(Byte) /\ Len(r.rbuf) <= ReadBufferSize
<1>1. rbuf \o wire \in Seq(Byte) /\ Rest \in Seq(Byte)
  BY InvStream, Zenon
<1>2. Obtained(r, rbuf \o wire, n)
  BY SockReadObtains, Zenon DEF IInv
<1>3. /\ r.got \in Seq(Byte) /\ r.rbuf \in Seq(Byte) /\ r.wire \in Seq(Byte)
      /\ Len(r.rbuf) <= ReadBufferSize
  BY <1>2, Zenon DEF Obtained
<1> DEFINE x == rbuf \o wire
<1> HIDE DEF x
<1>4. x \in Seq(Byte) /\ Obtained(r, x, n) /\ n \in Nat
  BY <1>1, <1>2, Zenon DEF x
<1>5. TakenFrom(r, x \o Rest, Rest, n)
  BY ONLY <1>1, <1>4, ObtainedFromStream, Zenon
<1> QED BY ONLY <1>3, <1>5, Zenon DEF x, TakenFrom

(* read_header, of a whole header, of one half or of the other, keeps the   *)
(* invariant.                                                               *)
LEMMA ReadHeaderKeeps ==
  ASSUME IInv, NEW k \in 0 .. ReadBufferSize, ReadHeader(k)
  PROVE  IInv'
<1>0. /\ Reading /\ state.tag \in {"Start", "PartialHeader"} /\ Arrives(k)
      /\ UNCHANGED <<sender, cut, out, received>>
  BY Zenon DEF ReadHeader
<1>1. PICK size, r, h, i :
        /\ size = (IF state = Start THEN 2 ELSE 1) /\ r = SockRead(size - Len(header), k)
        /\ h = header \o r.got /\ i = SkipHeaders(state, h)
        /\ rbuf' = r.rbuf /\ wire' = r.wire
        /\ header' = IF Len(h) < size THEN h ELSE <<>>
        /\ state' = IF Len(h) < size \/ i.status # "Ok" THEN state ELSE i.st
        /\ mode' = IF Len(h) < size \/ i.status = "Ok" THEN mode ELSE "Invalid"
  BY Zenon DEF ReadHeader
<1> DEFINE N == Len(received)
           msgs == Append(sent, composing)
           st == (rbuf \o wire) \o Rest
           c == Len(r.got)
<1>2. /\ mode # "idle" /\ header \in Seq(Byte) /\ Len(header) <= 1 /\ out \in Seq(Byte)
      /\ header # <<>> => state = Start
  BY <1>0, Zenon DEF Reading, IInv, ReaderOK
<1>3. state = Start \/ \E lo \in Byte : state = PartialHeader(lo)
  <2>1. state # End /\ \A rr, last : state # Body(rr, last)
    BY <1>0 DEF End, Body
  <2>2. IsState(state)
    BY Zenon DEF IInv, ReaderOK
  <2> QED BY ONLY <2>1, <2>2, Zenon DEF IsState
<1>4. /\ Len(header) \in Nat /\ size - Len(header) \in Nat \ {0} /\ size \in {1, 2}
      /\ state # Start => header = <<>>
  <2>0. Len(header) \in Nat
    BY <1>2, LenProperties, Zenon
  <2> DEFINE m == Len(header)
  <2>m. m \in Nat /\ m <= 1
    BY ONLY <2>0, <1>2, Zenon
  <2> HIDE DEF m
  <2>1. m = 0 \/ m = 1
    BY ONLY <2>m
  <2>2. state # Start => header = <<>> /\ Len(header) = 0
    BY <1>2, EmptySeq, Zenon
  <2>3. CASE state = Start
    <3>1. size = 2
      BY ONLY <2>3, <1>1, Zenon
    <3>2. size - m \in Nat \ {0} /\ size \in {1, 2}
      BY ONLY <2>1, <3>1
    <3> QED BY ONLY <2>0, <2>3, <3>2, Zenon DEF m
  <2>4. CASE state # Start
    <3>1. size = 1
      BY ONLY <2>4, <1>1, Zenon
    <3>2. m = 0
      BY ONLY <2>2, <2>4, Zenon DEF m
    <3>3. size - m \in Nat \ {0} /\ size \in {1, 2}
      BY ONLY <3>1, <3>2
    <3> QED BY ONLY <2>0, <2>2, <2>4, <3>3, Zenon DEF m
  <2> QED BY ONLY <2>3, <2>4, Zenon
<1>5. /\ r.got \in Seq(Byte) /\ c \in 1 .. size - Len(header)
      /\ c \in 0 .. Len(st) /\ st \in Seq(Byte) /\ r.got = SubSeq(st, 1, c)
      /\ (r.rbuf \o r.wire) \o Rest = Drop(st, c)
      /\ r.rbuf \in Seq(Byte) /\ r.wire \in Seq(Byte) /\ Len(r.rbuf) <= ReadBufferSize
  <2>1. r = SockRead(size - Len(header), k)
    BY <1>1, Zenon
  <2> DEFINE n == size - Len(header)
  <2> HIDE DEF n
  <2>2. n \in Nat \ {0} /\ r = SockRead(n, k)
    BY ONLY <2>1, <1>4, Zenon DEF n
  <2>3. /\ r.got \in Seq(Byte) /\ Len(r.got) \in 1 .. n
        /\ Len(r.got) \in 0 .. Len((rbuf \o wire) \o Rest)
        /\ (rbuf \o wire) \o Rest \in Seq(Byte)
        /\ r.got = SubSeq((rbuf \o wire) \o Rest, 1, Len(r.got))
        /\ (r.rbuf \o r.wire) \o Rest = Drop((rbuf \o wire) \o Rest, Len(r.got))
        /\ r.rbuf \in Seq(Byte) /\ r.wire \in Seq(Byte) /\ Len(r.rbuf) <= ReadBufferSize
    BY ONLY IInv, <1>0, <2>2, SockReadTakes, Zenon
  <2> QED BY ONLY <2>3, Zenon DEF n
<1>6. Carries(st, At(state, header, out, N), msgs, ~cut, Open(buf))
  <2>1. Here = At(state, header, out, N)
    BY <1>2, Zenon DEF Here
  <2> QED BY <2>1, InvStream, Zenon
<1>7. Len(st) \in Nat /\ Len(st) > 0 /\ st # <<>> /\ r.got[1] = st[1]
      /\ (c = 2 => Len(st) >= 2 /\ r.got[2] = st[2])
  <2> HIDE DEF st, c
  <2>1. Len(st) \in Nat /\ Len(st) > 0 /\ (c = 2 => Len(st) >= 2) /\ 1 \in 1 .. c
        /\ (c = 2 => 2 \in 1 .. c)
    <3>1. Len(st) \in Nat
      BY ONLY <1>5, LenProperties, Zenon
    <3> QED BY ONLY <3>1, <1>4, <1>5, SMTT(30)
  <2>2. \A j \in 1 .. c : r.got[j] = st[j]
    BY ONLY <1>5, TakeIs, Zenon
  <2>3. st # <<>>
    BY ONLY <2>1, <1>5, EmptySeq, SMTT(30)
  <2> QED BY ONLY <2>1, <2>2, <2>3, Zenon

(* Whatever has arrived of the header, the reader can go on.                *)
<1>8. /\ mode' = mode /\ IsState(state') /\ header' \in Seq(Byte) /\ Len(header') <= 1
      /\ header' # <<>> => state' = Start
      /\ Carries(Drop(st, c), At(state', header', out, N), msgs, ~cut, Open(buf))
      /\ state' = End => N + 1 < Len(msgs) /\ msgs[N + 1] = out
  <2> HIDE DEF st, c, msgs, N
  <2>n. <<>> \in Seq(Byte) /\ Len(<<>>) = 0 /\ Len(<<>>) <= 1
    BY EmptySeq
  (* The header is complete.                                                *)
  <2>h. ASSUME NEW g, NEW f, ~(Len(h) < size), SkipHeaders(state, h) = Skipped(f, f, g, i.st),
               Resumes(i.st, Drop(st, c), out, N, msgs, ~cut, Open(buf))
        PROVE  /\ mode' = mode /\ IsState(state') /\ header' \in Seq(Byte) /\ Len(header') <= 1
               /\ header' # <<>> => state' = Start
               /\ Carries(Drop(st, c), At(state', header', out, N), msgs, ~cut, Open(buf))
               /\ state' = End => N + 1 < Len(msgs) /\ msgs[N + 1] = out
    <3>1. i.status = "Ok"
      <4>1. i = Skipped(f, f, g, i.st)
        BY ONLY <2>h, <1>1, Zenon
      <4>2. Skipped(f, f, g, i.st).status = "Ok"
        BY Zenon DEF Skipped
      <4> QED BY ONLY <4>1, <4>2, Zenon
    <3>2. mode' = mode /\ state' = i.st /\ header' = <<>>
      BY ONLY <3>1, <2>h, <1>1, Zenon
    <3> QED BY ONLY <3>2, <2>h, <2>n, Zenon DEF Resumes
  <2>g. Len(r.got) = c /\ r.got \in Seq(Byte) /\ (c = 1 => r.got = <<st[1]>>)
        /\ (c = 2 => r.got = <<st[1], st[2]>>)
    <3>1. Len(r.got) = c /\ r.got \in Seq(Byte)
      BY ONLY <1>5, Zenon DEF c
    <3> QED BY ONLY <3>1, <1>7, ShortSequences, Zenon
  <2>1. CASE state = Start /\ header = <<>>
    <3>1. size = 2 /\ h = r.got /\ (c = 1 \/ c = 2)
      <4>1. size = 2
        BY ONLY <1>1, <2>1, Zenon
      <4>2. h = r.got
        BY ONLY <1>1, <2>1, <2>g, ConcatEmptySeq, Zenon
      <4>3. Len(header) = 0 /\ c \in 1 .. 2 - Len(header)
        BY ONLY <1>5, <2>1, <2>n, <4>1, Zenon
      <4>4. c = 1 \/ c = 2
        BY ONLY <4>3
      <4> QED BY ONLY <4>1, <4>2, <4>4, Zenon
    <3>2. Carries(st, Point(0, FALSE, <<>>, out, N), msgs, ~cut, Open(buf))
      BY ONLY <1>6, <2>1, AtStart, Zenon
    <3>3. CASE c = 1
      <4>1. Len(h) < size /\ h = <<st[1]>> /\ Len(h) <= 1
        <5>1. Len(h) = 1 /\ size = 2
          BY ONLY <3>1, <3>3, <2>g, Zenon
        <5>2. Len(h) < size /\ Len(h) <= 1
          BY ONLY <5>1
        <5> QED BY ONLY <5>2, <3>1, <3>3, <2>g, Zenon
      <4>2. mode' = mode /\ state' = Start /\ header' = <<st[1]>>
        BY ONLY <4>1, <1>1, <2>1, Zenon
      <4>3. /\ st[1] \in Byte
            /\ Carries(Drop(st, 1), Point(0, FALSE, <<st[1]>>, out, N), msgs, ~cut, Open(buf))
        BY ONLY <1>5, <1>7, <3>2, TakeHalf, Zenon
      <4>4. Carries(Drop(st, c), At(state', header', out, N), msgs, ~cut, Open(buf))
        BY ONLY <3>3, <4>2, <4>3, AtStart, Zenon
      <4>5. IsState(state') /\ state' # End
        BY ONLY <4>2, StatesDiffer, Zenon DEF IsState
      <4>6. header' \in Seq(Byte) /\ Len(header') <= 1
        BY ONLY <4>1, <4>2, <2>g, <3>1, Zenon
      <4> QED BY ONLY <4>2, <4>4, <4>5, <4>6, Zenon
    <3>4. CASE c = 2
      <4>1. ~(Len(h) < size) /\ h = <<st[1], st[2]>>
        <5>1. Len(h) = 2 /\ size = 2
          BY ONLY <3>1, <3>4, <2>g, Zenon
        <5>2. ~(Len(h) < size)
          BY ONLY <5>1
        <5> QED BY ONLY <5>2, <3>1, <3>4, <2>g, Zenon
      <4>2. /\ HeaderValid(<<st[1], st[2]>>)
            /\ Resumes(FromHeader(<<st[1], st[2]>>), Drop(st, 2), out, N, msgs, ~cut, Open(buf))
        BY ONLY <1>5, <1>7, <3>2, <3>4, TakeHeader, Zenon
      <4>3. SkipHeaders(state, h) = Skipped(2, 2, 2, FromHeader(<<st[1], st[2]>>))
        BY ONLY <4>1, <4>2, <2>1, SkipHeader, Zenon
      <4>4. i.st = FromHeader(<<st[1], st[2]>>)
        BY ONLY <4>3, <1>1, SMTT(30) DEF Skipped
      <4> QED BY ONLY <4>1, <4>2, <4>3, <4>4, <3>4, <2>h, Zenon
    <3> QED BY ONLY <3>1, <3>3, <3>4, Zenon
  <2>2. CASE state = Start /\ header # <<>>
    <3>1. Len(header) = 1 /\ header = <<header[1]>> /\ header[1] \in Byte
      <4>1. Len(header) # 0
        BY ONLY <1>2, <2>2, EmptySeq, Zenon
      <4> DEFINE m == Len(header)
      <4>m. m \in Nat /\ m <= 1 /\ m # 0
        BY ONLY <4>1, <1>2, <1>4, Zenon
      <4> HIDE DEF m
      <4>n. m = 1
        BY ONLY <4>m
      <4>2. Len(header) = 1
        BY ONLY <4>n, Zenon DEF m
      <4>3. 1 \in 1 .. Len(header)
        BY ONLY <4>2
      <4> QED BY ONLY <4>2, <4>3, <1>2, ShortSequences, ElementOfSeq, Zenon
    <3>2. size = 2 /\ c = 1
      <4>1. size = 2
        BY ONLY <1>1, <2>2, Zenon
      <4>2. c \in 1 .. 2 - 1
        BY ONLY <4>1, <3>1, <1>5, Zenon
      <4> QED BY ONLY <4>1, <4>2, SMTT(20)
    <3> DEFINE lo == header[1]
               hi == st[1]
    <3>3. h = <<lo, hi>> /\ ~(Len(h) < size)
      <4>1. h = <<lo>> \o <<hi>>
        BY ONLY <1>1, <3>1, <3>2, <2>g, Zenon
      <4>b. lo \in Byte /\ hi \in Byte
        <5>1. 1 \in 1 .. Len(st)
          BY ONLY <1>7
        <5> QED BY ONLY <5>1, <3>1, <1>5, ElementOfSeq, Zenon
      <4> HIDE DEF lo, hi
      <4>2. <<lo>> \o <<hi>> = <<lo, hi>> /\ Len(<<lo, hi>>) = 2
        BY ONLY <4>b, PairIs, Zenon
      <4>3. Len(h) = 2
        BY ONLY <4>1, <4>2, Zenon
      <4>4. ~(Len(h) < size)
        BY ONLY <4>3, <3>2, SMTT(30)
      <4> QED BY ONLY <4>1, <4>2, <4>4, Zenon
    <3>4. Carries(st, Point(0, FALSE, <<lo>>, out, N), msgs, ~cut, Open(buf))
      BY ONLY <1>6, <2>2, <3>1, AtStart, Zenon
    <3>5. /\ HeaderValid(<<lo, hi>>)
          /\ Resumes(FromHeader(<<lo, hi>>), Drop(st, 1), out, N, msgs, ~cut, Open(buf))
      BY ONLY <1>5, <1>7, <3>1, <3>4, TakeOtherHalf, Zenon
    <3> HIDE DEF lo, hi
    <3>6. SkipHeaders(state, h) = Skipped(2, 2, 2, FromHeader(<<lo, hi>>))
      BY ONLY <3>3, <3>5, <2>2, SkipHeader, Zenon
    <3>7. i.st = FromHeader(<<lo, hi>>)
      BY ONLY <3>6, <1>1, SMTT(30) DEF Skipped
    <3> QED BY ONLY <3>2, <3>3, <3>5, <3>6, <3>7, <2>h, Zenon
  <2>3. CASE state # Start
    <3>1. PICK lo \in Byte : state = PartialHeader(lo)
      BY ONLY <2>3, <1>3, Zenon
    <3>2. header = <<>> /\ size = 1 /\ c = 1 /\ h = r.got
      <4>1. header = <<>> /\ size = 1
        BY ONLY <1>1, <1>4, <2>3, Zenon
      <4>2. c \in 1 .. 1 - 0
        BY ONLY <4>1, <1>5, <2>n, Zenon
      <4>3. h = r.got
        BY ONLY <1>1, <4>1, <2>g, ConcatEmptySeq, Zenon
      <4>4. c = 1
        BY ONLY <4>2
      <4> QED BY ONLY <4>1, <4>3, <4>4, Zenon
    <3>3. h = <<st[1]>> /\ ~(Len(h) < size)
      <4>1. Len(h) = 1
        BY ONLY <3>2, <2>g, Zenon
      <4>2. ~(Len(h) < size)
        BY ONLY <4>1, <3>2, SMTT(30)
      <4> QED BY ONLY <4>2, <3>2, <2>g, Zenon
    <3>4. Carries(st, Point(0, FALSE, <<lo>>, out, N), msgs, ~cut, Open(buf))
      BY ONLY <1>6, <3>1, AtHalf, Zenon
    <3>5. /\ HeaderValid(<<lo, st[1]>>)
          /\ Resumes(FromHeader(<<lo, st[1]>>), Drop(st, 1), out, N, msgs, ~cut, Open(buf))
      BY ONLY <1>5, <1>7, <3>1, <3>4, TakeOtherHalf, Zenon
    <3>6. SkipHeaders(state, h) = Skipped(1, 1, 1, FromHeader(<<lo, st[1]>>))
      BY ONLY <3>1, <3>3, <3>5, SkipOtherHalf, Zenon
    <3>7. i.st = FromHeader(<<lo, st[1]>>)
      BY ONLY <3>6, <1>1, SMTT(20) DEF Skipped
    <3> QED BY ONLY <3>2, <3>3, <3>5, <3>6, <3>7, <2>h, Zenon
  <2> QED BY <2>1, <2>2, <2>3, Zenon
<1>9. SocketOK'
  BY <1>0, <1>1, <1>5, Zenon DEF IInv, SocketOK
<1>10. Limited'
  BY <1>0, <1>8, Zenon DEF IInv, Limited
<1> QED
  <2>1. (rbuf' \o wire') \o Rest = Drop(st, c)
    BY ONLY <1>1, <1>5, Zenon
  <2>2. out' = out /\ mode' \in {mode, "TooLong"} /\ out' \in Seq(Byte)
        /\ UNCHANGED <<sender, cut, received>>
    BY <1>0, <1>2, <1>8, Zenon
  <2> HIDE DEF st, c
  <2> QED BY <1>2, <1>8, <1>9, <1>10, <2>1, <2>2, ReaderMoves, SMTT(20)

(* The size of the buffer that the callers of read give it.                 *)
LEMMA BufSizeIs ==
  ASSUME IInv, Reading, NEW n, n \in BufSizes
  PROVE  /\ n \in Nat \ {0} /\ Limit \in Nat /\ Len(out) \in Nat
         /\ mode = "limited" => Len(out) + n <= Limit
         /\ mode = "extra" => n = 1
<1> DEFINE q == Len(out)
<1>1. q \in Nat /\ Limit \in Nat /\ MaxBuf \in Nat
  BY FramingAssumption, LenProperties, Zenon DEF IInv, ReaderOK
<1>2. BlockSize \in Nat
  BY BlockAssumption, Zenon
<1>3. mode \in {"read", "skip", "extra"} \/ (mode = "limited" /\ q < Limit)
  BY ONLY Reading, Zenon DEF Reading
<1>4. n \in (CASE mode = "read"    -> 1 .. MaxBuf
               [] mode = "limited" -> 1 .. Lesser(MaxBuf, Limit - q)
               [] mode = "extra"   -> {1}
               [] mode = "skip"    -> {BlockSize + 2})
  BY ONLY n \in BufSizes, Zenon DEF BufSizes
<1> HIDE DEF q
<1>5. /\ n \in Nat \ {0} /\ (mode = "limited" => q + n <= Limit) /\ (mode = "extra" => n = 1)
  <2>1. CASE mode = "read"
    BY ONLY <2>1, <1>1, <1>4, SMTT(30)
  <2>2. CASE mode = "limited" /\ q < Limit
    BY ONLY <2>2, <1>1, <1>4, SMTT(30) DEF Lesser
  <2>3. CASE mode = "extra"
    BY ONLY <2>3, <1>4, SMTT(30)
  <2>4. CASE mode = "skip"
    BY ONLY <2>4, <1>2, <1>4, SMTT(20)
  <2> QED BY ONLY <2>1, <2>2, <2>3, <2>4, <1>3, Zenon
<1> QED BY ONLY <1>1, <1>5, Zenon DEF q

(* read_body, which may take up to two bytes of the next header, keeps the  *)
(* invariant.                                                               *)
LEMMA ReadBodyKeeps ==
  ASSUME IInv, NEW n, NEW k, ReadBody(n, k)
  PROVE  IInv'
<1>0. /\ Reading /\ state.tag = "Body" /\ Arrives(k) /\ n \in BufSizes
      /\ UNCHANGED <<sender, cut, header, received>>
  BY Zenon DEF ReadBody
<1> DEFINE Effect(r, body, next, sound) ==
             /\ rbuf' = r.rbuf /\ wire' = r.wire
             /\ state' = next.st
             /\ out' = out \o SubSeq(r.got, 1, body.range[2])
             /\ mode' = CASE next.status # "Ok" -> "Invalid"
                          [] next.status = "Ok" /\ ~sound -> "Panic"
                          [] next.status = "Ok" /\ sound ->
                               IF mode = "extra" THEN "TooLong" ELSE mode
<1>e. \E r \in {SockRead(Lesser(IdealRead, n), k)} :
      \E body \in {SkipHeaders(state, r.got)} :
      \E tail \in {Drop(r.got, body.range[2])} :
      \E next \in {SkipHeaders(body.st, tail)} :
      \E sound \in {body.range[1] = 0 /\ next.range = <<Len(tail), Len(tail)>>} :
        Effect(r, body, next, sound)
  BY ONLY ReadBody(n, k), Zenon DEF ReadBody
<1> HIDE DEF Effect
<1>1. PICK r, body, t, next, sound :
        /\ r = SockRead(Lesser(IdealRead, n), k) /\ body = SkipHeaders(state, r.got)
        /\ t = Drop(r.got, body.range[2]) /\ next = SkipHeaders(body.st, t)
        /\ sound = (body.range[1] = 0 /\ next.range = <<Len(t), Len(t)>>)
        /\ Effect(r, body, next, sound)
  BY ONLY <1>e, Zenon
<1>f. /\ rbuf' = r.rbuf /\ wire' = r.wire /\ state' = next.st
      /\ out' = out \o SubSeq(r.got, 1, body.range[2])
      /\ mode' = CASE next.status # "Ok" -> "Invalid"
                   [] next.status = "Ok" /\ ~sound -> "Panic"
                   [] next.status = "Ok" /\ sound ->
                        IF mode = "extra" THEN "TooLong" ELSE mode
  BY ONLY <1>1, Zenon DEF Effect
<1> DEFINE N == Len(received)
           msgs == Append(sent, composing)
           st == (rbuf \o wire) \o Rest
           c == Len(r.got)
<1>2. PICK rr \in 1 .. BlockSize, last \in BOOLEAN : state = Body(rr, last)
  <2>1. state \notin {Start, End} /\ \A lo : state # PartialHeader(lo)
    BY <1>0 DEF End, Start, PartialHeader
  <2>2. IsState(state)
    BY Zenon DEF IInv, ReaderOK
  <2> QED BY ONLY <2>1, <2>2, Zenon DEF IsState
<1>3. mode # "idle" /\ header = <<>> /\ out \in Seq(Byte)
  <2>1. state # Start
    BY ONLY <1>2, StatesDiffer, Zenon
  <2> QED BY <2>1, <1>0, Zenon DEF Reading, IInv, ReaderOK
<1>4. /\ n \in Nat \ {0} /\ Limit \in Nat /\ Len(out) \in Nat
      /\ mode = "limited" => Len(out) + n <= Limit
      /\ mode = "extra" => n = 1
  BY <1>0, BufSizeIs, Zenon
<1>5. PICK m \in Nat \ {0} : /\ m <= rr + 2 /\ (last => m <= rr) /\ m <= n
                             /\ r = SockRead(m, k)
  <2>1. IdealRead = IF last THEN rr ELSE rr + 2
    BY ONLY <1>2, Zenon DEF IdealRead, Body
  <2>2. rr \in Nat \ {0}
    BY BlockAssumption
  <2> DEFINE m == Lesser(IdealRead, n)
  <2>3. m \in Nat \ {0} /\ m <= rr + 2 /\ (last => m <= rr) /\ m <= n
    BY ONLY <1>4, <2>1, <2>2, last \in BOOLEAN, SMTT(30) DEF Lesser
  <2>4. r = SockRead(m, k)
    BY ONLY <1>1, Zenon
  <2> HIDE DEF m
  <2> QED BY ONLY <2>3, <2>4, Zenon
<1>6. /\ r.got \in Seq(Byte) /\ c \in 1 .. m
      /\ c \in 0 .. Len(st) /\ st \in Seq(Byte) /\ r.got = SubSeq(st, 1, c)
      /\ (r.rbuf \o r.wire) \o Rest = Drop(st, c)
      /\ r.rbuf \in Seq(Byte) /\ r.wire \in Seq(Byte) /\ Len(r.rbuf) <= ReadBufferSize
  BY ONLY IInv, <1>0, <1>5, SockReadTakes, Zenon
<1>7. Carries(st, Point(rr, last, <<>>, out, N), msgs, ~cut, Open(buf))
  <2>1. Here = At(state, header, out, N)
    BY <1>3, Zenon DEF Here
  <2>2. Carries(st, Here, msgs, ~cut, Open(buf))
    BY InvStream, Zenon
  <2> HIDE DEF st, msgs, N
  <2> QED BY ONLY <2>1, <2>2, <1>2, <1>3, AtBody, Zenon
<1> HIDE DEF st, c, msgs, N
<1> DEFINE j == Lesser(rr, c)
<1>8. c \in 1 .. Len(st) /\ c \in Nat \ {0} /\ c <= rr + 2 /\ (last => c <= rr) /\ c <= n
      /\ rr \in Nat \ {0} /\ j \in Nat \ {0} /\ j <= c /\ j \in 0 .. c
  <2>1. Len(st) \in Nat /\ rr \in Nat \ {0}
    BY <1>6, LenProperties, BlockAssumption, SMTT(30)
  <2> QED BY ONLY <2>1, <1>4, <1>5, <1>6, last \in BOOLEAN, SMTT(20) DEF Lesser
<1> HIDE DEF j
<1>9. PICK s : /\ BodyDone(rr, last, r.got, j, s)
               /\ Resumes(s, Drop(st, c), out \o SubSeq(r.got, 1, j), N, msgs, ~cut, Open(buf))
  <2>1. j = Lesser(rr, c)
    BY Zenon DEF j
  <2> QED BY ONLY <2>1, <1>6, <1>7, <1>8, BodyAndHeader, Zenon
<1>10. /\ state' = s /\ out' = out \o SubSeq(r.got, 1, j)
       /\ mode' = IF mode = "extra" THEN "TooLong" ELSE mode
  <2>1. body = Skipped(0, j, 0, New(rr - j, last))
    BY ONLY <1>1, <1>2, <1>9, Zenon DEF BodyDone
  <2>2. body.range[1] = 0 /\ body.range[2] = j /\ body.st = New(rr - j, last)
    BY ONLY <2>1, Zenon DEF Skipped
  <2> DEFINE tail == Drop(r.got, j)
  <2>3. PICK g : SkipHeaders(New(rr - j, last), tail) = Skipped(Len(tail), Len(tail), g, s)
    BY ONLY <1>9, Zenon DEF BodyDone
  <2>4. /\ next = SkipHeaders(New(rr - j, last), tail)
        /\ sound = (body.range[1] = 0 /\ next.range = <<Len(tail), Len(tail)>>)
    BY ONLY <1>1, <2>2, Zenon
  <2> HIDE DEF tail
  <2>5. next = Skipped(Len(tail), Len(tail), g, s)
    BY ONLY <2>3, <2>4, Zenon
  <2>6. next.status = "Ok" /\ next.st = s /\ next.range = <<Len(tail), Len(tail)>>
    BY ONLY <2>5, Zenon DEF Skipped
  <2>7. sound
    BY ONLY <2>2, <2>4, <2>6, Zenon
  <2>8. state' = s /\ out' = out \o SubSeq(r.got, 1, j)
    BY ONLY <1>f, <2>2, <2>6, Zenon
  <2>9. mode' = IF mode = "extra" THEN "TooLong" ELSE mode
    BY ONLY <1>f, <2>6, <2>7, Zenon
  <2> QED BY ONLY <2>8, <2>9, Zenon
<1>11. out' \in Seq(Byte) /\ Len(out') = Len(out) + j
  <2>1. c = Len(r.got)
    BY Zenon DEF c
  <2>2. SubSeq(r.got, 1, j) \in Seq(Byte) /\ Len(SubSeq(r.got, 1, j)) = j
    BY ONLY <2>1, <1>6, <1>8, TakeIs, SMTT(20)
  <2> QED BY ONLY <2>2, <1>3, <1>10, ConcatProperties, Zenon
<1>12. SocketOK'
  BY <1>0, <1>f, <1>6, Zenon DEF IInv, SocketOK
<1>13. Limited'
  <2>1. Limited /\ received' = received
    BY <1>0, Zenon DEF IInv
  <2>2. mode' = "limited" => Len(out') <= Limit
    <3>1. ASSUME mode' = "limited" PROVE mode = "limited"
      BY ONLY <3>1, <1>10, Zenon
    <3> QED BY ONLY <3>1, <1>4, <1>8, <1>11, SMTT(20)
  <2>3. mode' # "extra"
    BY ONLY <1>10, Zenon
  <2>4. mode' = "TooLong" => Len(out') > Limit
    <3>1. ASSUME mode' = "TooLong" PROVE mode = "extra"
      BY <3>1, <1>0, <1>10, Zenon DEF Reading
    <3>2. ASSUME mode = "extra" PROVE Len(out) = Limit
      BY ONLY <2>1, <3>2, Zenon DEF Limited
    <3> QED BY ONLY <3>1, <3>2, <1>4, <1>8, <1>11, SMTT(20)
  <2> QED BY ONLY <2>1, <2>2, <2>3, <2>4, Zenon DEF Limited
<1> QED
  <2>1. (rbuf' \o wire') \o Rest = Drop(st, c)
    BY ONLY <1>f, <1>6, Zenon
  <2>2. /\ mode' \in {mode, "TooLong"} /\ UNCHANGED <<sender, cut, received>>
        /\ header' = <<>> /\ header' \in Seq(Byte) /\ Len(header') <= 1
    BY <1>0, <1>3, <1>10, SMTT(30)
  <2>3. /\ IsState(state') /\ Carries(Drop(st, c), At(state', <<>>, out', N), msgs, ~cut, Open(buf))
        /\ (state' = End => N + 1 < Len(msgs) /\ msgs[N + 1] = out')
    BY ONLY <1>9, <1>10, Zenon DEF Resumes
  <2>4. /\ IsState(state')
        /\ Carries((rbuf' \o wire') \o Rest, At(state', header', out', Len(received)),
                   Append(sent, composing), ~cut, Open(buf))
        /\ (state' = End => /\ Len(received) + 1 < Len(Append(sent, composing))
                            /\ Append(sent, composing)[Len(received) + 1] = out')
    BY ONLY <2>1, <2>2, <2>3, Zenon DEF N, msgs
  <2> QED BY <1>3, <1>11, <1>12, <1>13, <2>2, <2>4, ReaderMoves, SMTT(20)
-----------------------------------------------------------------------------
(* A new buffer has nothing in it.                                          *)
LEMMA NewBuf ==
  IsBuf(WithBuf) /\ Finished(WithBuf) = <<>> /\ Open(WithBuf) = <<>>
<1>1. Base - 1 \in Byte /\ Base \in Nat
  BY BlockAssumption DEF Byte
<1>2. BlockSize \in Nat
  BY BlockAssumption, Zenon
<1>3. /\ WithBuf.buffer = Dummy /\ WithBuf.block_left = BlockSize
      /\ WithBuf.reset_pending = FALSE
  BY Zenon DEF WithBuf
<1>4. Dummy \in Seq(Byte) /\ Len(Dummy) = 2
  BY ONLY <1>1 DEF Dummy
<1>5. Used(WithBuf) = 0
  BY ONLY <1>2, <1>3, SMTT(30) DEF Used
<1>6. IsBuf(WithBuf)
  <2>1. BlockSize \in 0 .. BlockSize /\ 2 >= 2 + 0
    BY ONLY <1>2
  <2>2. WithBuf \in [buffer : Seq(Byte), block_left : 0 .. BlockSize, reset_pending : BOOLEAN]
    BY ONLY <2>1, <1>4, Zenon DEF WithBuf
  <2> QED BY ONLY <2>1, <2>2, <1>3, <1>4, <1>5, Zenon DEF IsBuf
<1>7. Open(WithBuf) \in Seq(Byte) /\ Len(Open(WithBuf)) = 0
  BY ONLY <1>5, <1>6, OpenIs, Zenon
<1>8. Finished(WithBuf) \in Seq(Byte) /\ Len(Finished(WithBuf)) = 0
  <2>1. Filling(WithBuf)
    BY ONLY <1>3, <1>6, Zenon DEF Filling
  <2>2. Finished(WithBuf) \in Seq(Byte) /\ Len(Finished(WithBuf)) = 2 - 2 - 0
    BY ONLY <2>1, <1>3, <1>4, <1>5, FinishedIs, Zenon
  <2> QED BY ONLY <2>2
<1> QED BY ONLY <1>6, <1>7, <1>8, EmptySeq, Zenon

(* The invariant holds at the start.                                        *)
LEMMA InitHolds ==
  ASSUME Init
  PROVE  IInv
<1>1. <<>> \in Seq(Byte) /\ Len(<<>>) = 0
  OBVIOUS
<1>2. SenderOK
  <2>1. Len(Payload) \in Nat
    BY FramingAssumption, LenProperties, Zenon
  <2>2. 0 \in 0 .. Len(Payload)
    BY ONLY <2>1
  <2> QED BY <2>2, NewBuf, SMTT(20) DEF Init, SenderOK
<1>3. SocketOK
  <2>1. 0 <= ReadBufferSize
    BY FramingAssumption
  <2>2. rbuf = <<>> /\ wire = <<>> /\ cut = FALSE
    BY Zenon DEF Init
  <2> QED BY ONLY <1>1, <2>1, <2>2, Zenon DEF SocketOK
<1>4. ReaderOK
  BY <1>1 DEF Init, ReaderOK, IsState, Modes
<1>5. HandedOut
  BY DEF Init, HandedOut
<1>6. Limited
  BY DEF Init, Limited
<1>7. StreamOK
  <2> DEFINE p == Point(0, FALSE, <<>>, <<>>, 0)
             msgs == << <<>> >>
             L == [i \in {0} |-> p]
  <2>1. Stream = <<>> /\ Open(buf) = <<>>
    <3>1. rbuf = <<>> /\ wire = <<>> /\ cut = FALSE /\ buf = WithBuf
      BY Zenon DEF Init
    <3>2. Stream = (<<>> \o <<>>) \o <<>>
      BY ONLY <3>1, NewBuf, Zenon DEF Stream
    <3>3. (<<>> \o <<>>) \o <<>> = <<>>
      OBVIOUS
    <3> QED BY ONLY <3>1, <3>2, <3>3, NewBuf, Zenon
  <2>2. Here = p /\ Append(sent, composing) = msgs
    BY DEF Init, Here
  <2>3. Len(msgs) = 1 /\ msgs[1] = <<>> /\ L[0] = p
    OBVIOUS
  <2>4. /\ p = Point(p.need, p.last, p.lo, p.cur, p.n)
        /\ p.need = 0 /\ p.last = FALSE /\ p.lo = <<>> /\ p.cur = <<>> /\ p.n = 0
    BY Zenon DEF Point
  <2>5. BlockSize \in Nat
    BY BlockAssumption, Zenon
  <2> HIDE DEF p, msgs, L
  <2>6. IsPoint(p, msgs)
    <3>1. 0 \in 0 .. BlockSize /\ 0 <= 1 /\ ~(0 > 0) /\ 0 \in Nat /\ 0 < 1 /\ 0 + 1 = 1
          /\ 0 + 0 <= 0
      BY ONLY <2>5
    <3> QED BY ONLY <1>1, <2>3, <2>4, <3>1, Zenon DEF IsPoint
  <2>7. Points(L, <<>>, p, msgs)
    BY ONLY <1>1, <2>3, <2>6, SMTT(20) DEF Points
  <2>8. AtEnd(L[0], <<>>, msgs)
    BY ONLY <1>1, <2>3, <2>4, SMTT(30) DEF AtEnd
  <2>9. Carries(<<>>, p, msgs, ~cut, <<>>)
    BY ONLY <1>1, <2>7, <2>8, Zenon DEF Carries
  <2> QED BY ONLY <2>1, <2>2, <2>9, Zenon DEF StreamOK
<1> QED BY ONLY <1>2, <1>3, <1>4, <1>5, <1>6, <1>7, Zenon DEF IInv

(* The invariant depends on the variables only.                             *)
LEMMA StutterKeeps ==
  ASSUME IInv, UNCHANGED vars
  PROVE  IInv'
<1>1. /\ buf' = buf /\ composing' = composing /\ total' = total /\ sent' = sent
      /\ wire' = wire /\ cut' = cut /\ rbuf' = rbuf /\ header' = header /\ state' = state
      /\ mode' = mode /\ out' = out /\ received' = received
  BY Zenon DEF vars, sender, reader
<1>2. SenderOK' /\ SocketOK'
  BY <1>1, Zenon DEF IInv, SenderOK, SocketOK
<1>3. ReaderOK' /\ HandedOut' /\ Limited'
  BY <1>1, Zenon DEF IInv, ReaderOK, HandedOut, Limited
<1>4. Stream' = Stream /\ Here' = Here
  BY <1>1, Zenon DEF Stream, Here
<1>5. StreamOK'
  BY <1>1, <1>4, Zenon DEF IInv, StreamOK
<1> QED BY ONLY <1>2, <1>3, <1>5, Zenon DEF IInv

(* Every step keeps the invariant.                                          *)
LEMMA NextKeeps ==
  ASSUME IInv, [Next]_vars
  PROVE  IInv'
<1>1. ASSUME NEW n \in 0 .. Len(Payload), AppendData(n) PROVE IInv'
  BY <1>1, AppendDataKeeps, Zenon
<1>2. CASE EndMessage
  BY <1>2, EndMessageKeeps, Zenon
<1>3. CASE SendDelayed
  BY <1>3, SendDelayedKeeps, SMTT(20)
<1>4. CASE WriteReset
  BY <1>4, WriteResetKeeps, Zenon
<1>5. CASE ServerClosesBlock
  BY <1>5, ServerClosesBlockKeeps, Zenon
<1>6. ASSUME NEW k \in 0 .. Len(wire), Cut(k) PROVE IInv'
  BY <1>6, CutKeeps, Zenon
<1>7. ASSUME NEW how \in {"read", "limited"}, NewReader(how) PROVE IInv'
  BY <1>7, NewReaderKeeps, Zenon
<1>8. ASSUME NEW k \in 0 .. ReadBufferSize, ReadHeader(k) PROVE IInv'
  BY <1>8, ReadHeaderKeeps, Zenon
<1>9. ASSUME NEW n, NEW k, ReadBody(n, k) PROVE IInv'
  BY <1>9, ReadBodyKeeps, SMTT(20)
<1>10. CASE ReadEof
  BY <1>10, ReadEofKeeps, Zenon
<1>11. CASE LimitReached
  BY <1>11, LimitReachedKeeps, Zenon
<1>12. CASE Done
  BY <1>12, DoneKeeps, Zenon
<1>13. CASE Finish
  BY <1>13, FinishKeeps, Zenon
<1>14. CASE UNCHANGED vars
  BY <1>14, StutterKeeps, Zenon
<1>15. CASE Read
  BY ONLY Read, <1>7, <1>8, <1>9, <1>10, <1>11, <1>12, Zenon DEF Read
<1> QED BY ONLY [Next]_vars, <1>1, <1>2, <1>3, <1>4, <1>5, <1>6, <1>13, <1>14, <1>15, Zenon DEF Next

(* The inductive invariant: in every reachable state the bytes that the     *)
(* reader has not taken yet carry, from the point where it is, the messages *)
(* that the sender has sent, whatever the payload, the sizes of the blocks, *)
(* of the buffers and of the reads, and wherever the connection breaks.     *)
THEOREM Invariance == Spec => []IInv
<1>1. Init => IInv
  BY InitHolds, Zenon
<1>2. IInv /\ [Next]_vars => IInv'
  BY NextKeeps, Zenon
<1> QED BY <1>1, <1>2, PTL DEF Spec
-----------------------------------------------------------------------------
(* The reference reader starts where MapiReader is.                         *)
Started ==
  Decoder(IF state.tag = "Body" THEN state.remaining ELSE 0,
          IF state.tag = "Body" THEN state.last ELSE FALSE,
          IF state.tag = "PartialHeader" THEN <<state.lo>> ELSE header,
          IF mode = "idle" \/ state = End THEN <<>> ELSE out,
          IF mode # "idle" /\ state = End THEN <<out>> ELSE <<>>)

(* It is the reader at the point Here, which has handed out nothing yet.    *)
LEMMA StartedHere ==
  ASSUME IInv
  PROVE  /\ Started = DecoderAt(Here, SubSeq(sent, Len(received) + 1, Here.n))
         /\ Len(received) \in Nat /\ Len(received) <= Here.n
<1> DEFINE N == Len(received)
<1>1. N \in Nat /\ sent \in Seq(Seq(Byte)) /\ Len(sent) \in Nat /\ N <= N /\ N <= N + 1
  <2>1. N \in Nat /\ Len(sent) \in Nat
    BY InvStream, Zenon
  <2>2. sent \in Seq(Seq(Byte))
    BY Zenon DEF IInv, SenderOK
  <2> HIDE DEF N
  <2> QED BY ONLY <2>1, <2>2
<1>2. /\ SubSeq(sent, N + 1, N) = <<>>
      /\ N < Len(sent) => SubSeq(sent, N + 1, N + 1) = <<sent[N + 1]>>
  BY ONLY <1>1, SliceOfNoneOrOne, Zenon
<1>3. CASE mode = "idle"
  <2>1. header = <<>> /\ state \in {Start, End}
    BY <1>3, Zenon DEF IInv, ReaderOK
  <2>2. state.tag # "Body" /\ state.tag # "PartialHeader"
    BY <2>1 DEF Start, End
  <2>3. Here = Point(0, FALSE, <<>>, <<>>, N)
    BY <1>3, Zenon DEF Here
  <2>4. Started = Decoder(0, FALSE, <<>>, <<>>, <<>>)
    BY ONLY <2>1, <2>2, <1>3, Zenon DEF Started
  <2>5. Here.n = N /\ \A ms : DecoderAt(Here, ms) = Decoder(0, FALSE, <<>>, <<>>, ms)
    BY ONLY <2>3, Zenon DEF DecoderAt, Point
  <2> QED BY ONLY <2>4, <2>5, <1>1, <1>2, Zenon
<1>4. CASE mode # "idle" /\ state # End
  <2> DEFINE need == IF state.tag = "Body" THEN state.remaining ELSE 0
             last == IF state.tag = "Body" THEN state.last ELSE FALSE
             lo == IF state.tag = "PartialHeader" THEN <<state.lo>> ELSE header
  <2>1. Here = Point(need, last, lo, out, N)
    BY ONLY <1>4, Zenon DEF Here, At
  <2>2. Started = Decoder(need, last, lo, out, <<>>)
    BY ONLY <1>4, Zenon DEF Started
  <2> HIDE DEF need, last, lo
  <2>3. Here.n = N /\ \A ms : DecoderAt(Here, ms) = Decoder(need, last, lo, out, ms)
    BY ONLY <2>1, Zenon DEF DecoderAt, Point
  <2> QED BY ONLY <2>2, <2>3, <1>1, <1>2, Zenon
<1>5. CASE mode # "idle" /\ state = End
  <2>1. N < Len(sent) /\ out = sent[N + 1]
    BY <1>5, Zenon DEF IInv, HandedOut
  <2>2. state.tag # "Body" /\ state.tag # "PartialHeader"
    BY ONLY <1>5, Zenon DEF End
  <2>3. Here = Point(0, FALSE, header, <<>>, N + 1)
    BY ONLY <1>5, <2>2, Zenon DEF Here, At
  <2>4. Started = Decoder(0, FALSE, header, <<>>, <<out>>)
    BY ONLY <1>5, <2>2, Zenon DEF Started
  <2>5. Here.n = N + 1 /\ \A ms : DecoderAt(Here, ms) = Decoder(0, FALSE, header, <<>>, ms)
    BY ONLY <2>3, Zenon DEF DecoderAt, Point
  <2> QED BY ONLY <2>1, <2>4, <2>5, <1>1, <1>2, Zenon
<1> QED BY ONLY <1>3, <1>4, <1>5, Zenon

(* The invariant implies that the reader is in step.                        *)
LEMMA InStepHolds ==
  ASSUME IInv
  PROVE  InStep
<1> SUFFICES ASSUME ~cut
             PROVE  Remaining = SubSeq(sent, Len(received) + 1, Len(sent))
  BY Zenon DEF InStep
<1> DEFINE N == Len(received)
<1>1. Remaining = DecodeAll(Started, Stream).msgs
  BY ONLY Zenon DEF Remaining, Started
<1>2. Started = DecoderAt(Here, SubSeq(sent, N + 1, Here.n)) /\ N \in Nat /\ N <= Here.n
  BY StartedHere, Zenon
<1>3. PICK L : /\ Points(L, Stream, Here, Append(sent, composing))
               /\ AtEnd(L[Len(Stream)], Open(buf), Append(sent, composing))
  BY Zenon DEF IInv, StreamOK, Carries
<1>4. Len(Stream) \in Nat
  <2>1. Stream = (rbuf \o wire) \o Rest /\ rbuf \o wire \in Seq(Byte) /\ Rest \in Seq(Byte)
    BY InvStream, Zenon
  <2> QED BY ONLY <2>1, ConcatProperties, LenProperties, Zenon
<1>5. sent \in Seq(Seq(Byte))
  BY Zenon DEF IInv, SenderOK
<1> HIDE DEF N
<1>6. DecodeAll(Started, Stream) =
        DecoderAt(L[Len(Stream)], SubSeq(sent, N + 1, L[Len(Stream)].n))
  BY ONLY <1>2, <1>3, <1>4, <1>5, DecodeAllIs, Zenon
<1>7. L[Len(Stream)].n = Len(sent)
  <2>1. Len(Append(sent, composing)) = Len(sent) + 1 /\ Len(sent) \in Nat
    BY InvStream, Zenon
  <2>2. L[Len(Stream)].n = Len(Append(sent, composing)) - 1
    BY ONLY <1>3, Zenon DEF AtEnd
  <2> QED BY ONLY <2>1, <2>2, SMTT(30)
<1>8. DecoderAt(L[Len(Stream)], SubSeq(sent, N + 1, Len(sent))).msgs =
        SubSeq(sent, N + 1, Len(sent))
  BY ONLY Zenon DEF DecoderAt, Decoder
<1> QED BY ONLY <1>1, <1>6, <1>7, <1>8, Zenon DEF N

(* The invariant implies that the limit is exact.                           *)
LEMMA LimitIsExactHolds ==
  ASSUME IInv
  PROVE  LimitIsExact
<1> DEFINE N == Len(received)
           msgs == Append(sent, composing)
<1>1. ASSUME mode = "TooLong"
      PROVE  Len(msgs[N + 1]) > Limit
  <2>1. Len(out) > Limit /\ out \in Seq(Byte) /\ mode # "idle"
    BY <1>1, Zenon DEF IInv, Limited, ReaderOK
  <2>2. CASE state = End
    <3>1. N < Len(sent) /\ out = sent[N + 1]
      BY <2>1, <2>2, Zenon DEF IInv, HandedOut
    <3>2. /\ N \in Nat /\ Len(sent) \in Nat
          /\ \A i \in 1 .. Len(sent) : msgs[i] = sent[i]
      BY InvStream, Zenon
    <3> HIDE DEF N, msgs
    <3>3. N + 1 \in 1 .. Len(sent)
      BY ONLY <3>1, <3>2
    <3> QED BY ONLY <3>1, <3>2, <3>3, <2>1, Zenon
  <2>3. CASE state # End
    <3>1. Here.cur = out /\ Here.n = N
      BY <2>1, <2>3, Zenon DEF Here, At, Point
    <3>2. IsPoint(Here, msgs)
      <4>1. Carries(Stream, Here, msgs, ~cut, Open(buf))
        BY Zenon DEF IInv, StreamOK
      <4>2. Len(Stream) \in Nat
        <5>1. Stream = (rbuf \o wire) \o Rest /\ rbuf \o wire \in Seq(Byte) /\ Rest \in Seq(Byte)
          BY InvStream, Zenon
        <5> QED BY ONLY <5>1, ConcatProperties, LenProperties, Zenon
      <4> HIDE DEF msgs
      <4> QED BY ONLY <4>1, <4>2, FirstPoint, Zenon
    <3>3. /\ Here.need \in 0 .. BlockSize /\ Here.n < Len(msgs) /\ Here.n \in Nat
          /\ Len(Here.cur) + Here.need <= Len(msgs[Here.n + 1])
      BY ONLY <3>2, Zenon DEF IsPoint
    <3>4. BlockSize \in Nat /\ Limit \in Nat /\ Len(out) \in Nat
      BY <2>1, BlockAssumption, FramingAssumption, LenProperties, Zenon
    <3>5. Len(msgs[N + 1]) \in Nat
      <4>1. msgs \in Seq(Seq(Byte)) /\ Len(msgs) \in Nat
        BY AppendProperties, LenProperties, Zenon DEF IInv, SenderOK
      <4> HIDE DEF msgs, N
      <4>2. N + 1 \in 1 .. Len(msgs)
        BY ONLY <4>1, <3>1, <3>3, SMTT(30)
      <4>3. msgs[N + 1] \in Seq(Byte)
        BY ONLY <4>1, <4>2, ElementOfSeq, Zenon
      <4> QED BY ONLY <4>3, LenProperties, Zenon
    <3> DEFINE x == Len(msgs[N + 1])
               y == Len(out)
               z == Here.need
    <3>6. y + z <= x /\ x \in Nat /\ y \in Nat /\ z \in 0 .. BlockSize /\ y > Limit
      BY ONLY <3>1, <3>3, <3>4, <3>5, <2>1, Zenon
    <3> HIDE DEF x, y, z
    <3>7. x > Limit
      BY ONLY <3>4, <3>6
    <3> QED BY ONLY <3>7, Zenon DEF x
  <2> QED BY ONLY <2>2, <2>3, Zenon
<1>2. \A i \in 1 .. N :
        received[i].how \in {"limited", "extra"} => Len(received[i].data) <= Limit
  BY Zenon DEF IInv, Limited
<1> QED BY ONLY <1>1, <1>2, Zenon DEF LimitIsExact

(* The invariant implies the types.                                         *)
LEMMA TypeOKHolds ==
  ASSUME IInv
  PROVE  TypeOK
<1>1. /\ IsBuf(buf) /\ rbuf \in Seq(Byte) /\ Len(rbuf) <= ReadBufferSize /\ IsState(state)
      /\ header \in Seq(Byte) /\ Len(header) <= 1 /\ mode \in Modes \cup {"TooLong", "Eof"}
  BY Zenon DEF IInv, SenderOK, SocketOK, ReaderOK
<1>2. /\ buf.buffer \in Seq(Byte) /\ buf.block_left \in 0 .. BlockSize
      /\ buf.reset_pending \in BOOLEAN /\ Len(buf.buffer) >= 2 + Used(buf)
  BY ONLY <1>1, Zenon DEF IsBuf
<1>3. Len(buf.buffer) >= 2
  <2>1. Used(buf) \in 0 .. BlockSize /\ Len(buf.buffer) \in Nat
    BY ONLY <1>1, OpenIs, Zenon
  <2>2. BlockSize \in Nat
    BY BlockAssumption, Zenon
  <2> QED BY ONLY <1>2, <2>1, <2>2, SMTT(30)
<1>4. mode \in Modes \cup Failures
  BY ONLY <1>1, Zenon DEF Failures
<1>5. state.tag = "Body" => state.remaining \in 1 .. BlockSize
  BY ONLY <1>1 DEF IsState, Start, End, PartialHeader, Body
<1> QED BY ONLY <1>1, <1>2, <1>3, <1>4, <1>5, Zenon DEF TypeOK, Byte

(* The invariant implies that the messages arrive whole and in order.       *)
LEMMA ReceivedInOrderHolds ==
  ASSUME IInv
  PROVE  ReceivedInOrder
<1> DEFINE N == Len(received)
<1>1. \A i \in 1 .. N : Len(sent) >= i /\ received[i].data = sent[i]
  BY Zenon DEF IInv, HandedOut
<1>2. N \in Nat /\ Len(sent) \in Nat
  BY InvStream, Zenon
<1> HIDE DEF N
<1>3. N <= Len(sent)
  BY ONLY <1>1, <1>2
<1> QED BY ONLY <1>1, <1>3, Zenon DEF ReceivedInOrder, N

(* The invariant implies that no header is refused.                         *)
LEMMA SoundStreamIsAcceptedHolds ==
  ASSUME IInv
  PROVE  SoundStreamIsAccepted
BY Zenon DEF IInv, ReaderOK, Modes, SoundStreamIsAccepted

(* Every variable of the sender, of the socket and of the reader keeps its  *)
(* type: the open block of MapiBuf is never longer than a block, and        *)
(* MapiReader never needs more of one.                                      *)
THEOREM TypeCorrect == Spec => []TypeOK
BY Invariance, TypeOKHolds, PTL

(* MapiReader and the stream never get out of step: the bytes that are      *)
(* buffered, on the way and finished in MapiBuf decode, from the state that *)
(* the reader is in, to the rest of the messages that were sent and to      *)
(* nothing else.                                                            *)
THEOREM StaysInStep == Spec => []InStep
BY Invariance, InStepHolds, PTL

(* A message that a MapiReader has read to its end, through read, finish or *)
(* to_limited, is the next message that was ended in the MapiBuf, whole, in *)
(* order and once, also when the socket is cut: a truncated message is      *)
(* never handed out.                                                        *)
THEOREM ReceivesInOrder == Spec => []ReceivedInOrder
BY Invariance, ReceivedInOrderHolds, PTL

(* MapiReader never reports an invalid block or a message that is already   *)
(* complete for a stream that MapiBuf has made, or a server that closes its *)
(* blocks early, and the assertions in read_body never fail.                *)
THEOREM AcceptsSoundStreams == Spec => []SoundStreamIsAccepted
BY Invariance, SoundStreamIsAcceptedHolds, PTL

(* to_limited refuses a message only if it is longer than the limit and     *)
(* never hands out one that is, wherever the blocks end.                    *)
THEOREM LimitExact == Spec => []LimitIsExact
BY Invariance, LimitIsExactHolds, PTL
=============================================================================
