------------------------------ MODULE Framing -------------------------------
(***************************************************************************)
(* The block protocol of src/framing: a MapiBuf that packs messages into   *)
(* blocks, the socket that carries them, ServerSock with its read buffer,  *)
(* and a MapiReader that unpacks one message at a time through read,       *)
(* finish, to_limited or to_limited_string.                                *)
(*                                                                         *)
(* Callers append the bytes of Payload one after the other, in pieces of   *)
(* any size, and end messages between any two of them.  The sender may     *)
(* also close a block early, as the server does with its own blocks.  The  *)
(* socket hands out what it has in pieces of any size and may be cut at    *)
(* any point.                                                              *)
(***************************************************************************)
EXTENDS BlockState

CONSTANTS
  ReadBufferSize,  \* READ_BUFFER_SIZE
  Limit,           \* the limit given to to_limited
  Payload,         \* the payload bytes of all messages together
  MaxMessages,     \* bound: messages composed
  MaxBlocks,       \* bound: blocks the server closes early
  MaxBuf           \* bound: size of a caller's read buffer

ASSUME FramingAssumption ==
  /\ ReadBufferSize \in Nat /\ Limit \in Nat
  /\ MaxMessages \in Nat /\ MaxBlocks \in Nat /\ MaxBuf \in Nat
  /\ Payload \in Seq(0 .. (Base - 1))

VARIABLES
  buf,        \* MapiBuf: buffer, block_left, reset_pending
  composing,  \* payload of the message that is being composed
  total,      \* payload bytes appended so far
  sent,       \* payloads of the messages that were ended
  early,      \* blocks closed early
  wire,       \* bytes in the socket
  cut,        \* the sender's end of the socket is gone
  rbuf,       \* read_buffer[read_position .. read_length] of ServerSock
  header,     \* what read_exact has so far of a block header
  state,      \* MapiReader's BlockState
  mode,       \* how the current message is read, or how reading failed
  out,        \* payload taken from the current message
  received    \* the messages that were read to their end, and how

sender == <<buf, composing, total, sent, early>>
reader == <<rbuf, header, state, mode, out, received>>
vars == <<sender, wire, cut, reader>>

Modes == {"idle", "read", "skip", "limited", "extra"}
Failures == {"TooLong", "Eof", "Invalid", "Panic"}

-----------------------------------------------------------------------------
(* MapiBuf.  finish_block overwrites the dummy header of the open block and *)
(* starts a new one.                                                        *)
Dummy == <<Base - 1, Base - 1>>

WithBuf == [buffer |-> Dummy, block_left |-> BlockSize, reset_pending |-> FALSE]

PrepareReset(b) ==
  IF b.reset_pending
    THEN [b EXCEPT !.buffer = SubSeq(@, 1, 2), !.reset_pending = FALSE] ELSE b

FinishBlock(b, end) ==
  LET used == BlockSize - b.block_left
      start == Len(b.buffer) - used - 2
      h == Header(used, end)
  IN  [b EXCEPT !.buffer = [@ EXCEPT ![start + 1] = h[1], ![start + 2] = h[2]]
                             \o Dummy,
                !.block_left = BlockSize]

AppendChunk(b, data) == [b EXCEPT !.buffer = @ \o data, !.block_left = @ - Len(data)]

(* One turn of the loop of append_long.                                     *)
AppendStep(s) ==
  IF s.data = <<>> THEN s ELSE
  LET c == IF s.b.block_left = 0 THEN FinishBlock(s.b, FALSE) ELSE s.b
      n == Lesser(Len(s.data), c.block_left)
  IN  [b |-> AppendChunk(c, SubSeq(s.data, 1, n)), data |-> Drop(s.data, n)]

AppendLong(b, data) == Iterate(AppendStep, [b |-> b, data |-> data], Len(data)).b

Fits(c, data) == Len(data) <= c.block_left

Appended(b, data) ==
  LET c == PrepareReset(b)
  IN  IF Fits(c, data) THEN AppendChunk(c, data) ELSE AppendLong(c, data)

Ended(b) == FinishBlock(PrepareReset(b), TRUE)

ResetForgotten(b) ==
  LET c == PrepareReset(b)
  IN  [raw |-> SubSeq(c.buffer, 1, Len(c.buffer) - 2),
       b |-> [c EXCEPT !.block_left = BlockSize]]

Reset(b) ==
  LET c == PrepareReset(b)
      raw == IF c.block_left = BlockSize THEN Len(c.buffer) - 2 ELSE Len(c.buffer)
  IN  [raw |-> SubSeq(c.buffer, 1, raw),
       b |-> [c EXCEPT !.block_left = BlockSize, !.reset_pending = TRUE]]

-----------------------------------------------------------------------------
(* The sender.  Callers append, end a message, and write what is complete:  *)
(* send_delayed resets without ending, write_reset ends first.              *)
AppendData(n) ==
  /\ ~cut /\ Len(sent) < MaxMessages /\ total + n <= Len(Payload)
  /\ LET data == SubSeq(Payload, total + 1, total + n)
     IN  buf' = Appended(buf, data) /\ composing' = composing \o data
  /\ total' = total + n
  /\ UNCHANGED <<sent, early, wire, cut, reader>>

EndMessage ==
  /\ ~cut /\ Len(sent) < MaxMessages
  /\ buf' = Ended(buf)
  /\ sent' = Append(sent, composing)
  /\ composing' = <<>>
  /\ UNCHANGED <<total, early, wire, cut, reader>>

SendDelayed ==
  /\ ~cut /\ composing = <<>>
  /\ buf.block_left = BlockSize
  /\ buf' = Reset(buf).b
  /\ wire' = wire \o Reset(buf).raw
  /\ UNCHANGED <<composing, total, sent, early, cut, reader>>

WriteReset ==
  /\ ~cut /\ Len(sent) < MaxMessages
  /\ buf' = Reset(Ended(buf)).b
  /\ wire' = wire \o Reset(Ended(buf)).raw
  /\ sent' = Append(sent, composing)
  /\ composing' = <<>>
  /\ UNCHANGED <<total, early, cut, reader>>

(* The server may close a block before it is full, even an empty one.       *)
ServerClosesBlock ==
  /\ ~cut /\ early < MaxBlocks /\ Len(sent) < MaxMessages
  /\ buf' = FinishBlock(PrepareReset(buf), FALSE)
  /\ early' = early + 1
  /\ UNCHANGED <<composing, total, sent, wire, cut, reader>>

(* The connection breaks and only k of the bytes in flight arrive.          *)
Cut(k) ==
  /\ ~cut
  /\ cut' = TRUE
  /\ wire' = SubSeq(wire, 1, k)
  /\ UNCHANGED <<sender, reader>>

-----------------------------------------------------------------------------
(* ServerSock::read for n bytes when the socket yields k: the read buffer   *)
(* is filled only when it is empty.                                         *)
Arrives(k) ==
  IF rbuf = <<>> THEN k \in 1 .. Lesser(ReadBufferSize, Len(wire)) ELSE k = 0

SockReadLoses(n, k) ==
  LET available == IF rbuf = <<>> THEN SubSeq(wire, 1, k) ELSE rbuf
  IN  [got |-> SubSeq(available, 1, Lesser(Len(available), n)), rbuf |-> <<>>,
       wire |-> Drop(wire, k)]

SockRead(n, k) ==
  LET available == IF rbuf = <<>> THEN SubSeq(wire, 1, k) ELSE rbuf
      count == Lesser(Len(available), n)
  IN  [got |-> SubSeq(available, 1, count), rbuf |-> Drop(available, count),
       wire |-> Drop(wire, k)]

AtEof == rbuf = <<>> /\ wire = <<>> /\ cut

(* A do_read is in progress: the caller's buffer is not empty.  take() stops *)
(* handing its reader a buffer once the limit is reached.                    *)
Reading == mode \in {"read", "skip", "extra"} \/ (mode = "limited" /\ Len(out) < Limit)

NewReader(how) ==
  /\ mode = "idle"
  /\ mode' = how
  /\ state' = Start
  /\ out' = <<>>
  /\ UNCHANGED <<sender, wire, cut, rbuf, header, received>>

ReadHeader(k) ==
  /\ Reading /\ state.tag \in {"Start", "PartialHeader"}
  /\ Arrives(k)
  /\ \E size \in {IF state = Start THEN 2 ELSE 1} :
     \E r \in {SockRead(size - Len(header), k)} :
     \E h \in {header \o r.got} :
     \E i \in {SkipHeaders(state, h)} :
       /\ rbuf' = r.rbuf /\ wire' = r.wire
       /\ header' = IF Len(h) < size THEN h ELSE <<>>
       /\ state' = IF Len(h) < size \/ i.status # "Ok" THEN state ELSE i.st
       /\ mode' = IF Len(h) < size \/ i.status = "Ok" THEN mode ELSE "Invalid"
  /\ UNCHANGED <<sender, cut, out, received>>

(* The size of the buffer that do_read gets: the caller's choice in read,   *)
(* at most what is left of the limit, one byte to probe for more.           *)
BufSizes ==
  CASE mode = "read"    -> 1 .. MaxBuf
    [] mode = "limited" -> 1 .. Lesser(MaxBuf, Limit - Len(out))
    [] mode = "extra"   -> {1}
    [] mode = "skip"    -> {BlockSize + 2}

AlwaysAhead == state.remaining + 2
IdealRead == IF state.last THEN state.remaining ELSE state.remaining + 2

(* read_body: the bytes after the body belong to the next header.  The two  *)
(* assertions of the code are the test for Panic.                           *)
ReadBody(n, k) ==
  /\ Reading /\ state.tag = "Body"
  /\ n \in BufSizes /\ Arrives(k)
  /\ \E r \in {SockRead(Lesser(IdealRead, n), k)} :
     \E body \in {SkipHeaders(state, r.got)} :
     \E tail \in {Drop(r.got, body.range[2])} :
     \E next \in {SkipHeaders(body.st, tail)} :
     \E sound \in {body.range[1] = 0 /\ next.range = <<Len(tail), Len(tail)>>} :
       /\ rbuf' = r.rbuf /\ wire' = r.wire
       /\ state' = next.st
       /\ out' = out \o SubSeq(r.got, 1, body.range[2])
       /\ mode' = CASE next.status # "Ok" -> "Invalid"
                    [] next.status = "Ok" /\ ~sound -> "Panic"
                    [] next.status = "Ok" /\ sound ->
                         IF mode = "extra" THEN "TooLong" ELSE mode
  /\ UNCHANGED <<sender, cut, header, received>>

(* read_exact and read_some fail when the socket has ended.                 *)
ReadEof ==
  /\ Reading /\ state # End /\ AtEof
  /\ mode' = "Eof"
  /\ UNCHANGED <<sender, wire, cut, rbuf, header, state, out, received>>

(* finish before the end of the message: skip_to_end.                       *)
Finish ==
  /\ mode = "read" /\ state # End
  /\ mode' = "skip"
  /\ UNCHANGED <<sender, wire, cut, rbuf, header, state, out, received>>

RefuseAtLimit == "TooLong"
Probe == "extra"

(* to_limited has its limit but has not seen the end of the message.        *)
LimitReached ==
  /\ mode = "limited" /\ Len(out) = Limit /\ state # End
  /\ mode' = Probe
  /\ UNCHANGED <<sender, wire, cut, rbuf, header, state, out, received>>

(* do_read returns 0 at End; the reader gives its socket back.              *)
Done ==
  /\ mode \in Modes \ {"idle"} /\ state = End
  /\ mode' = "idle"
  /\ received' = Append(received, [data |-> out, how |-> mode])
  /\ UNCHANGED <<sender, wire, cut, rbuf, header, state, out>>

-----------------------------------------------------------------------------
Init ==
  /\ buf = WithBuf /\ composing = <<>> /\ total = 0 /\ sent = <<>> /\ early = 0
  /\ wire = <<>> /\ cut = FALSE
  /\ rbuf = <<>> /\ header = <<>> /\ state = Start
  /\ mode = "idle" /\ out = <<>> /\ received = <<>>

Read ==
  \/ \E how \in {"read", "limited"} : NewReader(how)
  \/ \E k \in 0 .. ReadBufferSize : ReadHeader(k)
  \/ \E n \in 1 .. (MaxBuf + BlockSize + 2), k \in 0 .. ReadBufferSize : ReadBody(n, k)
  \/ ReadEof \/ LimitReached \/ Done

Next ==
  \/ \E n \in 0 .. Len(Payload) : AppendData(n)
  \/ EndMessage \/ SendDelayed \/ WriteReset \/ ServerClosesBlock
  \/ \E k \in 0 .. Len(wire) : Cut(k)
  \/ Read \/ Finish

Spec == Init /\ [][Next]_vars

(* A caller that has started to read goes on until its call returns.        *)
FairSpec == Spec /\ WF_vars(Read)

-----------------------------------------------------------------------------
(* The types of the variables.                                              *)
TypeOK ==
  /\ buf.buffer \in Seq(0 .. (Base - 1)) /\ Len(buf.buffer) >= 2
  /\ buf.block_left \in 0 .. BlockSize /\ buf.reset_pending \in BOOLEAN
  /\ rbuf \in Seq(0 .. (Base - 1)) /\ Len(rbuf) <= ReadBufferSize
  /\ header \in Seq(0 .. (Base - 1)) /\ Len(header) <= 1
  /\ mode \in Modes \cup Failures
  /\ state.tag = "Body" => state.remaining \in 1 .. BlockSize

(* A reader of one byte at a time, written from the description of the      *)
(* protocol rather than from skip_headers.                                  *)
Decoder(need, last, lo, cur, msgs) ==
  [need |-> need, last |-> last, lo |-> lo, cur |-> cur, msgs |-> msgs]

Decode(s, byte) ==
  CASE s.need > 1 -> Decoder(s.need - 1, s.last, <<>>, Append(s.cur, byte), s.msgs)
    [] s.need = 1 ->
         LET m == Append(s.cur, byte)
         IN  IF s.last THEN Decoder(0, FALSE, <<>>, <<>>, Append(s.msgs, m))
                       ELSE Decoder(0, FALSE, <<>>, m, s.msgs)
    [] s.need = 0 /\ s.lo = <<>> -> Decoder(0, FALSE, <<byte>>, s.cur, s.msgs)
    [] s.need = 0 /\ s.lo # <<>> ->
         LET size == (s.lo[1] + Base * byte) \div 2
             last == s.lo[1] % 2 = 1
         IN  IF size = 0 /\ last
               THEN Decoder(0, FALSE, <<>>, <<>>, Append(s.msgs, s.cur))
               ELSE Decoder(size, last, <<>>, s.cur, s.msgs)

DecodeAll(s, bytes) ==
  LET f[i \in 0 .. Len(bytes)] == IF i = 0 THEN s ELSE Decode(f[i - 1], bytes[i])
  IN  f[Len(bytes)]

(* The bytes of finished blocks that MapiReader has not taken yet.  A block *)
(* that was not written is gone when the connection is.                     *)
Used(b) == BlockSize - b.block_left

Finished(b) ==
  IF b.reset_pending THEN <<>> ELSE SubSeq(b.buffer, 1, Len(b.buffer) - 2 - Used(b))

Stream == rbuf \o wire \o (IF cut THEN <<>> ELSE Finished(buf))

(* What these bytes still say, from the point where MapiReader's state      *)
(* claims to be.                                                            *)
Remaining ==
  LET ended == mode = "idle" \/ state = End
      s == Decoder(IF state.tag = "Body" THEN state.remaining ELSE 0,
                   IF state.tag = "Body" THEN state.last ELSE FALSE,
                   IF state.tag = "PartialHeader" THEN <<state.lo>> ELSE header,
                   IF ended THEN <<>> ELSE out,
                   IF mode # "idle" /\ state = End THEN <<out>> ELSE <<>>)
  IN  DecodeAll(s, Stream).msgs

(* The reader is always in step with the sender: wherever the blocks and    *)
(* the pieces of the socket end, what it has taken and what it will still   *)
(* take are exactly the messages sent, cut at the same places.  In          *)
(* particular it never takes a byte of the next message.                    *)
InStep ==
  ~cut /\ mode \in Modes \cup {"TooLong"} =>
    Remaining = SubSeq(sent, Len(received) + 1, Len(sent))

(* Every message read to its end is the next message sent, whole, also when *)
(* the socket is cut: a truncated message is never handed out.              *)
ReceivedInOrder ==
  /\ Len(received) <= Len(sent)
  /\ \A i \in 1 .. Len(received) : received[i].data = sent[i]

(* A reader of a sound stream never reports InvalidBlockSize or             *)
(* MessageAlreadyComplete and never fails one of its assertions.            *)
SoundStreamIsAccepted == mode \notin {"Invalid", "Panic"}

(* to_limited refuses a message exactly when it is longer than the limit:   *)
(* one of exactly the limit passes, however many empty blocks end it.       *)
LimitIsExact ==
  /\ mode = "TooLong" =>
       Len(Append(sent, composing)[Len(received) + 1]) > Limit
  /\ \A i \in 1 .. Len(received) :
       received[i].how \in {"limited", "extra"} => Len(received[i].data) <= Limit

(* A reader is never left waiting for bytes that no sender owes it: once    *)
(* all messages are written they are all read, unless the socket is cut or  *)
(* a message is refused.                                                    *)
EverythingArrives ==
  (Len(sent) = MaxMessages /\ buf.reset_pending) ~>
    (Len(received) = MaxMessages \/ cut \/ mode = "TooLong")
=============================================================================
