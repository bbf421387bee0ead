----------------------------- MODULE CursorProofs ----------------------------
(***************************************************************************)
(* RowsInOrder, WindowBounds, EndMeansAllRows, ExportedResultIsLive and    *)
(* ResultsAccounted of the module Cursor, for all replies, any number of   *)
(* results, and every size of a usize.                                     *)
(*                                                                         *)
(* The argument.  The row that the row set is about to give is the next    *)
(* row of the result, unless the row set is empty or the result has been   *)
(* read to its end (RowInv): a text window starts at next_row, and nothing *)
(* moves one without the other before.  A result that came whole is in the *)
(* row set until a row of it is lost, so an export can only name a result  *)
(* that came in part (or one that has lost a row), and that one is to be   *)
(* closed, by its id.  The results of one response have ids of their own,  *)
(* larger than those before (Identified), and what reads a reply moves the *)
(* id from the replies to the queue; so the places are disjoint, and what  *)
(* the cursor holds is kept by the server (KeptInv).                       *)
(***************************************************************************)
EXTENDS Cursor, FiniteSetTheorems, WellFoundedInduction, TLAPS

(* The server keeps the result of this reply.                               *)
Open(reply) ==
  reply.kind = "data" /\ ~reply.prepared /\ reply.included < reply.total

Identified(replies) ==
  /\ \A i \in 1 .. Len(replies) : Open(replies[i]) => replies[i].id # NoId
  /\ \A i, j \in 1 .. Len(replies) :
       Open(replies[i]) /\ Open(replies[j]) /\ i # j => replies[i].id # replies[j].id

(* ToClose of any parser, and what it holds with the replies behind it.     *)
ClosedBy(parser) ==
  IF parser.kind = "data" /\ parser.to_close # NoId THEN {parser.to_close} ELSE {}
HeldBy(parser, replies) == ClosedBy(parser) \cup Unclosed(replies)

(* What holds of the header of a result.                                    *)
Header(parser) ==
  /\ parser.included <= parser.total
  /\ parser.noslice \/ parser.prepared => parser.included = parser.total
  /\ parser.to_close = IF ~parser.prepared /\ parser.included < parser.total
                         THEN parser.id ELSE NoId
  /\ parser.included < parser.total => parser.id # NoId

(* Where the row set is in the result.                                      *)
InPlace(parser, fault) ==
  /\ parser.next_row <= parser.total /\ parser.from <= parser.to
  /\ parser.from < parser.to /\ parser.next_row < parser.total =>
       parser.from = parser.next_row
  /\ ~fault /\ parser.included = parser.total =>
       parser.from = parser.next_row /\ parser.to = parser.total

RowInv ==
  cur.kind = "data" =>
    Header(cur) /\ InPlace(cur, lost) /\ seen = [i \in 1 .. cur.next_row |-> i - 1]

CallInv ==
  /\ pc \in {"next_row", "fetch_binary", "receive"} => cur.kind = "data"
  /\ pc = "skip" => then \in {"next_row", "fetch_binary"}
  /\ pc = "gone" => cur = Exhausted
  /\ cur = Exhausted => rest = <<>>
  /\ pc # "drop" => collected = {}
  /\ asked.kind # "none" => pc = "receive"
  /\ pc = "receive" => conn

AskedInv ==
  asked.kind # "none" =>
    /\ asked.n >= 1 /\ asked.start + asked.n <= cur.total
    /\ asked.kind = "text" =>
         /\ asked.start = cur.next_row
         /\ max_prefetch # Unlimited => asked.n <= max_prefetch + 1
    /\ asked.id = cur.id /\ (cur.to_close = NoId => lost)

KeptInv ==
  /\ Identified(rest) /\ ClosedBy(cur) \cap Unclosed(rest) = {}
  /\ HeldBy(cur, rest) \subseteq 1 .. opened
  /\ conn => HeldBy(cur, rest) \subseteq live
  /\ ResultsAccounted

IInv == TypeOK /\ RowInv /\ CallInv /\ AskedInv /\ KeptInv

-----------------------------------------------------------------------------
(* Replies.                                                                 *)

(* A reply of kind data has the fields of one, and only that has them.      *)
LEMMA ReplyKinds ==
  ASSUME NEW reply \in ReplyRecords
  PROVE  /\ reply.kind \in {"success", "error", "bad", "data"}
         /\ reply.kind = "data" =>
              /\ reply \in DataReplies
              /\ reply.id \in Nat /\ reply.noslice \in BOOLEAN /\ reply.prepared \in BOOLEAN
              /\ reply.total \in Nat /\ reply.included \in Nat
              /\ reply.included <= reply.total
              /\ reply.noslice \/ reply.prepared => reply.included = reply.total
PROOF
  BY DEF ReplyRecords, DataReplies

(* The same for ReplyParser.                                                *)
LEMMA ParserKinds ==
  ASSUME NEW parser \in Parsers
  PROVE  /\ parser.kind \in {"exhausted", "success", "error", "data"}
         /\ parser.kind = "data" =>
              /\ parser \in DataParsers
              /\ parser.id \in Nat /\ parser.noslice \in BOOLEAN /\ parser.prepared \in BOOLEAN
              /\ parser.next_row \in Nat /\ parser.total \in Nat /\ parser.included \in Nat
              /\ parser.from \in Nat /\ parser.to \in Nat /\ parser.stuck \in BOOLEAN
              /\ parser.to_close \in Nat
         /\ parser.kind = "exhausted" => parser = Exhausted
PROOF
  BY DEF Parsers, DataParsers, Exhausted

(* What is unclosed in a sequence of replies, element by element.           *)
LEMMA UnclosedIs ==
  ASSUME NEW replies, NEW id
  PROVE  id \in Unclosed(replies) <=>
           \E i \in 1 .. Len(replies) : Open(replies[i]) /\ id = replies[i].id
PROOF
  BY DEF Unclosed, Open

(* Reading one reply splits what is unclosed.                               *)
LEMMA HeadTail ==
  ASSUME NEW replies \in Seq(ReplyRecords), replies # <<>>, Identified(replies)
  PROVE  /\ Head(replies) \in ReplyRecords /\ Tail(replies) \in Seq(ReplyRecords)
         /\ Identified(Tail(replies))
         /\ Unclosed(replies) =
              (IF Open(Head(replies)) THEN {Head(replies).id} ELSE {})
                \cup Unclosed(Tail(replies))
         /\ Open(Head(replies)) =>
              Head(replies).id # NoId /\ Head(replies).id \notin Unclosed(Tail(replies))
PROOF
  <1> DEFINE T == Tail(replies)
  <1>1. /\ Head(replies) \in ReplyRecords /\ T \in Seq(ReplyRecords)
        /\ Head(replies) = replies[1]
        /\ Len(replies) \in Nat /\ Len(replies) >= 1 /\ Len(T) = Len(replies) - 1
        /\ \A i \in 1 .. Len(T) : T[i] = replies[i + 1]
    OBVIOUS
  <1> HIDE DEF T
  <1>2. Identified(T)
    <2>1. ASSUME NEW i \in 1 .. Len(T)
          PROVE  i + 1 \in 1 .. Len(replies) /\ T[i] = replies[i + 1]
      BY <1>1
    <2>2. ASSUME NEW i \in 1 .. Len(T), NEW j \in 1 .. Len(T), i # j
          PROVE  i + 1 # j + 1
      BY <1>1, <2>2
    <2>3. ASSUME NEW i \in 1 .. Len(T), Open(T[i])
          PROVE  T[i].id # NoId
      <3>1. i + 1 \in 1 .. Len(replies) /\ T[i] = replies[i + 1]
        BY <2>1
      <3> QED BY <2>3, <3>1 DEF Identified
    <2>4. ASSUME NEW i \in 1 .. Len(T), NEW j \in 1 .. Len(T),
                 Open(T[i]), Open(T[j]), i # j
          PROVE  T[i].id # T[j].id
      <3>1. /\ i + 1 \in 1 .. Len(replies) /\ T[i] = replies[i + 1]
            /\ j + 1 \in 1 .. Len(replies) /\ T[j] = replies[j + 1] /\ i + 1 # j + 1
        BY <2>1, <2>2, <2>4
      <3> QED BY <2>4, <3>1 DEF Identified
    <2> QED BY <2>3, <2>4, Zenon DEF Identified
  <1>3. ASSUME NEW id
        PROVE  id \in Unclosed(replies) <=>
                 (Open(replies[1]) /\ id = replies[1].id) \/ id \in Unclosed(T)
    <2>1. ASSUME NEW i \in 1 .. Len(replies), Open(replies[i]), id = replies[i].id, i # 1
          PROVE  id \in Unclosed(T)
      <3>1. i - 1 \in 1 .. Len(T) /\ T[i - 1] = replies[i]
        BY <1>1, <2>1
      <3> QED BY <3>1, <2>1, UnclosedIs
    <2>2. ASSUME id \in Unclosed(T)
          PROVE  id \in Unclosed(replies)
      <3>1. PICK i \in 1 .. Len(T) : Open(T[i]) /\ id = T[i].id
        BY <2>2, UnclosedIs
      <3>2. i + 1 \in 1 .. Len(replies) /\ T[i] = replies[i + 1]
        BY <1>1
      <3> QED BY <3>1, <3>2, UnclosedIs
    <2>3. 1 \in 1 .. Len(replies)
      BY <1>1
    <2> QED BY <2>1, <2>2, <2>3, UnclosedIs
  <1>4. ASSUME Open(replies[1])
        PROVE  replies[1].id # NoId /\ replies[1].id \notin Unclosed(T)
    <2>1. ASSUME NEW i \in 1 .. Len(T), Open(T[i])
          PROVE  replies[1].id # T[i].id
      BY <1>1, <1>4, <2>1 DEF Identified
    <2>2. replies[1].id # NoId
      BY <1>1, <1>4 DEF Identified
    <2> QED BY <2>1, <2>2, UnclosedIs
  <1>5. Unclosed(replies) = (IF Open(replies[1]) THEN {replies[1].id} ELSE {}) \cup Unclosed(T)
    BY <1>3, Zenon
  <1> QED BY <1>1, <1>2, <1>4, <1>5 DEF T

(* A parser that has just been made: no row has been read.                  *)
Fresh(parser) ==
  parser.kind = "data" =>
    Header(parser) /\ InPlace(parser, FALSE) /\ parser.next_row = 0

(* parse takes the first reply, and what was unclosed stays so.             *)
LEMMA ParseFacts ==
  ASSUME NEW replies \in Seq(ReplyRecords), Identified(replies), Parse(replies).ok
  PROVE  /\ Parse(replies).cur \in Parsers
         /\ Parse(replies).rest \in Seq(ReplyRecords)
         /\ Fresh(Parse(replies).cur)
         /\ Parse(replies).cur = Exhausted => Parse(replies).rest = <<>>
         /\ Identified(Parse(replies).rest)
         /\ ClosedBy(Parse(replies).cur) \cap Unclosed(Parse(replies).rest) = {}
         /\ HeldBy(Parse(replies).cur, Parse(replies).rest) = Unclosed(replies)
PROOF
  <1>1. CASE replies = <<>>
    <2>1. Parse(replies).cur = Exhausted /\ Parse(replies).rest = <<>>
      BY <1>1 DEF Parse
    <2>2. Exhausted \in Parsers /\ Exhausted.kind = "exhausted"
      BY DEF Exhausted, Parsers
    <2>3. ClosedBy(Exhausted) = {}
      BY <2>2 DEF ClosedBy
    <2>4. Fresh(Exhausted)
      BY <2>2 DEF Fresh
    <2> QED BY <1>1, <2>1, <2>2, <2>3, <2>4 DEF HeldBy
  <1>2. CASE replies # <<>>
    <2> DEFINE H == Head(replies)
               T == Tail(replies)
               C == IF H.kind = "data" THEN ParseData(H) ELSE [kind |-> H.kind]
    <2>1. H.kind # "bad" /\ Parse(replies).cur = C /\ Parse(replies).rest = T
      BY <1>2 DEF Parse
    <2>2. /\ H \in ReplyRecords /\ T \in Seq(ReplyRecords) /\ Identified(T)
          /\ Unclosed(replies) = (IF Open(H) THEN {H.id} ELSE {}) \cup Unclosed(T)
          /\ Open(H) => H.id # NoId /\ H.id \notin Unclosed(T)
      BY <1>2, HeadTail
    <2> HIDE DEF H, T
    <2>3. CASE H.kind = "data"
      <3>1. /\ H.id \in Nat /\ H.noslice \in BOOLEAN /\ H.prepared \in BOOLEAN
            /\ H.total \in Nat /\ H.included \in Nat /\ H.included <= H.total
            /\ H.noslice \/ H.prepared => H.included = H.total
        BY <2>2, <2>3, ReplyKinds
      <3> DEFINE close == IF ~H.prepared /\ H.included < H.total THEN H.id ELSE NoId
      <3>2. close \in Nat /\ close = IF Open(H) THEN H.id ELSE NoId
        BY <2>3, <3>1 DEF Open, NoId
      <3> HIDE DEF close
      <3>3. C = [kind |-> "data", id |-> H.id, noslice |-> H.noslice,
                 prepared |-> H.prepared, next_row |-> 0, total |-> H.total,
                 included |-> H.included, from |-> 0, to |-> H.included,
                 stuck |-> FALSE, to_close |-> close]
        BY <2>3 DEF ParseData, close
      <3>4. C \in Parsers
        <4> HIDE DEF C
        <4>1. C \in DataParsers
          BY <3>1, <3>2, <3>3 DEF DataParsers
        <4> QED BY <4>1 DEF Parsers
      <3>5. /\ C.kind = "data" /\ C.id = H.id /\ C.noslice = H.noslice
            /\ C.prepared = H.prepared /\ C.next_row = 0 /\ C.total = H.total
            /\ C.included = H.included /\ C.from = 0 /\ C.to = H.included
            /\ C.to_close = close
        BY <3>3
      <3> HIDE DEF C
      <3>6. Header(C)
        BY <2>2, <2>3, <3>1, <3>5 DEF Header, Open, close
      <3>7. InPlace(C, FALSE)
        BY <3>1, <3>5 DEF InPlace
      <3>8. ClosedBy(C) = IF Open(H) THEN {H.id} ELSE {}
        BY <3>2, <3>5, <2>2 DEF ClosedBy
      <3>9. C # Exhausted
        BY <3>5 DEF Exhausted
      <3> QED BY <2>1, <2>2, <3>4, <3>5, <3>6, <3>7, <3>8, <3>9 DEF Fresh, HeldBy
    <2>4. CASE H.kind # "data"
      <3>1. C = [kind |-> H.kind] /\ H.kind \in {"success", "error"}
        BY <2>1, <2>2, <2>4, ReplyKinds
      <3>2. C \in Parsers /\ C.kind = H.kind /\ C # Exhausted
        BY <3>1 DEF Parsers, Exhausted
      <3> HIDE DEF C
      <3>3. ~Open(H) /\ ClosedBy(C) = {} /\ Fresh(C)
        BY <2>4, <3>2 DEF Open, ClosedBy, Fresh
      <3> QED BY <2>1, <2>2, <3>2, <3>3 DEF HeldBy
    <2> QED BY <2>3, <2>4
  <1> QED BY <1>1, <1>2

(* A set of positions has a first one.                                      *)
LEMMA FirstPosition ==
  ASSUME NEW S \in SUBSET Nat, S # {}
  PROVE  Min(S) \in S /\ \A i \in S : Min(S) <= i
PROOF
  <1> DEFINE Less == {ss \in Nat \X Nat : ss[1] < ss[2]}
  <1>1. IsWellFoundedOn(Less, Nat)
    BY NatLessThanWellFounded DEF OpToRel
  <1>2. \E x \in S : \A y \in S : ~(<<y, x>> \in Less)
    <2> HIDE DEF Less
    <2> QED BY <1>1, WFMin
  <1>3. PICK x \in S : \A y \in S : ~(<<y, x>> \in Less)
    BY <1>2
  <1>4. ASSUME NEW y \in S PROVE x <= y
    <2>1. x \in Nat /\ y \in Nat /\ <<y, x>> \notin Less
      BY <1>3
    <2>2. ~(y < x)
      BY <2>1
    <2> QED BY <2>1, <2>2
  <1>5. \E m \in S : \A y \in S : m <= y
    BY <1>4
  <1> QED BY <1>5, Zenon DEF Min

(* When the open replies of one sequence are found in another, each by as   *)
(* many places off, they have their ids from there.                         *)
LEMMA Shifted ==
  ASSUME NEW s, NEW t, NEW d \in Int,
         \A i \in 1 .. Len(s) : Open(s[i]) => i + d \in 1 .. Len(t) /\ s[i] = t[i + d]
  PROVE  Unclosed(s) \subseteq Unclosed(t) /\ (Identified(t) => Identified(s))
PROOF
  <1>1. ASSUME NEW id \in Unclosed(s)
        PROVE  id \in Unclosed(t)
    <2>1. PICK i \in 1 .. Len(s) : Open(s[i]) /\ id = s[i].id
      BY UnclosedIs
    <2>2. PICK j \in 1 .. Len(t) : s[i] = t[j]
      BY <2>1
    <2> QED BY <2>1, <2>2, UnclosedIs
  <1>2. ASSUME Identified(t), NEW i \in 1 .. Len(s), Open(s[i])
        PROVE  /\ s[i].id # NoId
               /\ \A j \in 1 .. Len(s) : Open(s[j]) /\ i # j => s[i].id # s[j].id
    <2>1. PICK k \in 1 .. Len(t) : k = i + d /\ s[i] = t[k]
      BY <1>2
    <2>2. ASSUME NEW j \in 1 .. Len(s), Open(s[j]), i # j
          PROVE  s[i].id # s[j].id
      <3>1. PICK l \in 1 .. Len(t) : l = j + d /\ s[j] = t[l]
        BY <2>2
      <3>2. k # l
        BY <2>1, <2>2, <3>1
      <3> QED BY <1>2, <2>1, <2>2, <3>1, <3>2, Zenon DEF Identified
    <2> QED BY <1>2, <2>1, <2>2, Zenon DEF Identified
  <1> QED BY <1>1, <1>2, Zenon DEF Identified

(* The replies behind a position, when those before it are not of kind      *)
(* data: nothing unclosed is left behind.                                   *)
LEMMA SkipFacts ==
  ASSUME NEW replies \in Seq(ReplyRecords), Identified(replies),
         NEW k \in 1 .. Len(replies),
         \A i \in 1 .. k - 1 : replies[i].kind # "data"
  PROVE  LET S == SubSeq(replies, k, Len(replies))
         IN  S \in Seq(ReplyRecords) /\ Identified(S) /\ Unclosed(S) = Unclosed(replies)
PROOF
  <1> DEFINE S == SubSeq(replies, k, Len(replies))
  <1>1. /\ Len(replies) \in Nat /\ Len(S) = Len(replies) - k + 1
        /\ S \in Seq(ReplyRecords)
        /\ \A i \in 1 .. Len(S) : S[i] = replies[i + k - 1]
    OBVIOUS
  <1> HIDE DEF S
  <1>2. PICK d \in Int : d = k - 1
    OBVIOUS
  <1>3. ASSUME NEW i \in 1 .. Len(S)
        PROVE  i + d \in 1 .. Len(replies) /\ S[i] = replies[i + d]
    BY <1>1, <1>2
  <1>4. Identified(S) /\ Unclosed(S) \subseteq Unclosed(replies)
    BY <1>3, Shifted
  <1>5. ASSUME NEW i \in 1 .. Len(replies), Open(replies[i])
        PROVE  i + (0 - d) \in 1 .. Len(S) /\ replies[i] = S[i + (0 - d)]
    <2>1. ~(i \in 1 .. k - 1)
      BY <1>5 DEF Open
    <2>2. PICK j \in 1 .. Len(S) : j = i - k + 1
      BY <1>1, <2>1
    <2>3. i + (0 - d) = j /\ j + k - 1 = i
      BY <1>1, <1>2, <2>2
    <2> QED BY <1>1, <2>2, <2>3
  <1>6. Unclosed(replies) \subseteq Unclosed(S)
    <2>1. PICK e \in Int : e = 0 - d
      OBVIOUS
    <2> QED BY <1>5, <2>1, Shifted
  <1> QED BY <1>1, <1>4, <1>6 DEF S

(* RowSet::finish leaves no result that the server keeps behind.            *)
LEMMA FinishFacts ==
  ASSUME TypeOK, Identified(rest), cur.kind = "data"
  PROVE  Finish \in Seq(ReplyRecords) /\ Identified(Finish) /\ Unclosed(Finish) = Unclosed(rest)
PROOF
  <1> DEFINE unread == cur.to - cur.from
             I == {i \in 1 .. Len(rest) : rest[i].kind # "error"}
             next == Min(I)
             plan == [kind |-> "data", id |-> NoId, noslice |-> TRUE, prepared |-> FALSE,
                      total |-> unread, included |-> unread]
  <1>1. Finish = IF cur.noslice /\ unread > 0 THEN <<plan>> \o rest
                 ELSE IF I = {} THEN <<>> ELSE SubSeq(rest, next, Len(rest))
    BY Zenon DEF Finish
  <1>2. rest \in Seq(ReplyRecords) /\ Len(rest) \in Nat /\ unread \in Int
    BY ParserKinds DEF TypeOK
  <1>3. CASE cur.noslice /\ unread > 0
    <2> DEFINE F == <<plan>> \o rest
    <2>1. plan \in ReplyRecords
      <3>1. unread \in Nat
        BY <1>2, <1>3
      <3> HIDE DEF unread
      <3>2. plan \in DataReplies
        BY <3>1 DEF DataReplies, NoId
      <3> QED BY <3>2 DEF ReplyRecords
    <2>2. ~Open(plan)
      BY <1>2 DEF Open
    <2> HIDE DEF plan
    <2>3. /\ F \in Seq(ReplyRecords) /\ Len(F) = Len(rest) + 1
          /\ F[1] = plan /\ \A i \in 2 .. Len(F) : F[i] = rest[i - 1]
      BY <1>2, <2>1
    <2> HIDE DEF F
    <2>4. PICK d \in Int : d = -1
      OBVIOUS
    <2>5. ASSUME NEW i \in 1 .. Len(F), Open(F[i])
          PROVE  i + d \in 1 .. Len(rest) /\ F[i] = rest[i + d]
      <3>1. i # 1
        BY <2>2, <2>3, <2>5
      <3>2. i + d = i - 1
        BY <2>4
      <3> QED BY <1>2, <2>3, <3>1, <3>2
    <2>6. Identified(F) /\ Unclosed(F) \subseteq Unclosed(rest)
      BY <2>5, Shifted
    <2>7. Unclosed(rest) \subseteq Unclosed(F)
      <3>1. PICK e \in Int : e = 1
        OBVIOUS
      <3>2. ASSUME NEW i \in 1 .. Len(rest)
            PROVE  i + e \in 1 .. Len(F) /\ rest[i] = F[i + e]
        BY <1>2, <2>3, <3>1
      <3> QED BY <3>2, Shifted
    <2>8. Finish = F
      BY <1>1, <1>3 DEF F
    <2> QED BY <2>3, <2>6, <2>7, <2>8
  <1>4. CASE ~(cur.noslice /\ unread > 0) /\ I = {}
    <2>1. Finish = <<>>
      BY <1>1, <1>4
    <2>2. \A i \in 1 .. Len(rest) : ~Open(rest[i])
      BY <1>4 DEF Open
    <2>3. Unclosed(rest) = {}
      BY <2>2, UnclosedIs, Zenon
    <2>4. Unclosed(<<>>) = {} /\ Identified(<<>>) /\ <<>> \in Seq(ReplyRecords)
      BY DEF Unclosed, Identified
    <2> QED BY <2>1, <2>3, <2>4
  <1>5. CASE ~(cur.noslice /\ unread > 0) /\ I # {}
    <2>1. I \in SUBSET Nat
      OBVIOUS
    <2>2. Min(I) \in I /\ \A i \in I : Min(I) <= i
      BY <1>5, <2>1, FirstPosition, Zenon
    <2>3. PICK k \in 1 .. Len(rest) : k = Min(I)
      BY <2>2
    <2>4. \A i \in 1 .. k - 1 : rest[i].kind # "data"
      BY <1>2, <2>2, <2>3
    <2>5. next = k
      BY <2>3
    <2>6. Finish = SubSeq(rest, k, Len(rest))
      <3> HIDE DEF next, unread, plan
      <3> QED BY <1>1, <1>5, <2>5, Zenon
    <2> QED BY <1>2, <2>4, <2>6, SkipFacts
  <1> QED BY <1>3, <1>4, <1>5

(* What into_next_reply gives.                                              *)
LEMMA NextFacts ==
  ASSUME TypeOK, KeptInv, IntoNextReply.ok
  PROVE  /\ IntoNextReply.cur \in Parsers
         /\ IntoNextReply.rest \in Seq(ReplyRecords)
         /\ Fresh(IntoNextReply.cur)
         /\ IntoNextReply.cur = Exhausted => IntoNextReply.rest = <<>>
         /\ Identified(IntoNextReply.rest)
         /\ ClosedBy(IntoNextReply.cur) \cap Unclosed(IntoNextReply.rest) = {}
         /\ HeldBy(IntoNextReply.cur, IntoNextReply.rest) = Unclosed(rest)
PROOF
  <1> DEFINE B == IF cur.kind = "data" THEN Finish ELSE rest
  <1>1. B \in Seq(ReplyRecords) /\ Identified(B) /\ Unclosed(B) = Unclosed(rest)
    BY FinishFacts DEF TypeOK, KeptInv
  <1>2. IntoNextReply = Parse(B)
    BY DEF IntoNextReply
  <1> HIDE DEF B
  <1> QED BY <1>1, <1>2, ParseFacts

-----------------------------------------------------------------------------
(* What the steps have in common.                                           *)

(* What the cursor holds, by the definitions that the proof uses.           *)
LEMMA HeldIs ==
  /\ ToClose = ClosedBy(cur) /\ Held = HeldBy(cur, rest)
  /\ ToClose' = ClosedBy(cur') /\ Held' = HeldBy(cur', rest')
PROOF
  BY DEF ToClose, ClosedBy, Held, HeldBy

(* An exhausted cursor holds nothing.                                       *)
LEMMA NothingHeld ==
  /\ Exhausted \in Parsers /\ Exhausted.kind = "exhausted"
  /\ <<>> \in Seq(ReplyRecords) /\ Identified(<<>>)
  /\ ClosedBy(Exhausted) = {} /\ Unclosed(<<>>) = {} /\ HeldBy(Exhausted, <<>>) = {}
  /\ Fresh(Exhausted)
PROOF
  <1>1. Exhausted \in Parsers /\ Exhausted.kind = "exhausted"
    BY DEF Exhausted, Parsers
  <1>2. <<>> \in Seq(ReplyRecords) /\ Identified(<<>>) /\ Unclosed(<<>>) = {}
    BY DEF Identified, Unclosed
  <1>3. ClosedBy(Exhausted) = {} /\ Fresh(Exhausted)
    BY <1>1 DEF ClosedBy, Fresh
  <1> QED BY <1>1, <1>2, <1>3 DEF HeldBy

(* A step that holds on to what the cursor holds, and perhaps sends the     *)
(* closes that were queued.                                                 *)
LEMMA KeptStep ==
  ASSUME KeptInv, ClosedBy(cur') = ClosedBy(cur), rest' = rest, opened' = opened,
         collected' = collected, conn' => conn, ~lost' => ~lost,
         (closes' = closes /\ live' = live) \/ Flush
  PROVE  KeptInv'
PROOF
  <1> DEFINE H == HeldBy(cur, rest)
  <1>1. HeldBy(cur', rest') = H /\ Held = H /\ Held' = H
    BY HeldIs DEF HeldBy
  <1>2. /\ H \subseteq 1 .. opened /\ (conn => H \subseteq live)
        /\ conn /\ ~lost => live = H \cup collected \cup closes
        /\ H \cap closes = {} /\ H \cap collected = {} /\ collected \cap closes = {}
    BY <1>1 DEF KeptInv, ResultsAccounted
  <1> HIDE DEF H
  <1>3. /\ conn' => H \subseteq live'
        /\ conn' /\ ~lost' => live' = H \cup collected' \cup closes'
        /\ H \cap closes' = {} /\ H \cap collected' = {} /\ collected' \cap closes' = {}
    BY <1>2 DEF Flush
  <1>4. ResultsAccounted'
    BY <1>1, <1>3 DEF ResultsAccounted
  <1>5. Identified(rest') /\ ClosedBy(cur') \cap Unclosed(rest') = {}
    BY DEF KeptInv
  <1>6. HeldBy(cur', rest') \subseteq 1 .. opened' /\ (conn' => HeldBy(cur', rest') \subseteq live')
    BY <1>1, <1>2, <1>3
  <1> QED BY <1>4, <1>5, <1>6, Zenon DEF KeptInv

(* The cursor goes on to the next reply, or loses the replies.              *)
LEMMA NextReplyStep ==
  ASSUME IInv, NextReply, collected = {},
         UNCHANGED <<reply_size, max_prefetch, collected, conn, serverVars>>
  PROVE  /\ cur' \in Parsers /\ rest' \in Seq(ReplyRecords) /\ seen' \in Seq(Nat)
         /\ closes' \cup collected' \cup live' \subseteq 1 .. opened' /\ lost' \in BOOLEAN
         /\ RowInv' /\ KeptInv'
         /\ cur' = Exhausted => rest' = <<>>
         /\ ~IntoNextReply.ok => cur' = Exhausted
PROOF
  <1> USE DEF serverVars
  <1>1. seen' = <<>> /\ seen' \in Seq(Nat) /\ seen' = [i \in 1 .. 0 |-> i - 1]
    BY DEF NextReply
  <1> DEFINE C == ClosedBy(cur)
             U == Unclosed(rest)
  <1>2. /\ C \cap U = {} /\ C \cup U \subseteq 1 .. opened
        /\ conn => C \cup U \subseteq live
        /\ conn /\ ~lost => live = C \cup U \cup closes
        /\ (C \cup U) \cap closes = {} /\ closes \cup live \subseteq 1 .. opened
        /\ lost \in BOOLEAN
    BY HeldIs DEF IInv, TypeOK, KeptInv, ResultsAccounted, HeldBy
  <1>3. CASE IntoNextReply.ok
    <2>1. /\ cur' = IntoNextReply.cur /\ rest' = IntoNextReply.rest
          /\ closes' = closes \cup C /\ lost' = lost
      BY <1>3, HeldIs DEF NextReply
    <2>2. /\ cur' \in Parsers /\ rest' \in Seq(ReplyRecords) /\ Fresh(cur')
          /\ cur' = Exhausted => rest' = <<>>
          /\ Identified(rest') /\ ClosedBy(cur') \cap Unclosed(rest') = {}
          /\ HeldBy(cur', rest') = U
      BY <1>3, <2>1, NextFacts DEF IInv
    <2> HIDE DEF C, U
    <2>3. RowInv'
      <3>1. cur'.kind = "data" =>
              Header(cur') /\ InPlace(cur', FALSE) /\ cur'.next_row = 0
        BY <2>2 DEF Fresh
      <3>2. InPlace(cur', FALSE) => InPlace(cur', lost')
        BY DEF InPlace
      <3> QED BY <1>1, <3>1, <3>2 DEF RowInv
    <2>4. ResultsAccounted'
      <3>1. Held' = U
        BY <2>2, HeldIs
      <3> QED BY <1>2, <2>1, <3>1 DEF ResultsAccounted
    <2>5. U \subseteq 1 .. opened' /\ (conn' => U \subseteq live')
      BY <1>2
    <2>6. KeptInv'
      BY <2>2, <2>4, <2>5, Zenon DEF KeptInv
    <2>7. closes' \cup collected' \cup live' \subseteq 1 .. opened'
      BY <1>2, <2>1
    <2> QED BY <1>1, <1>2, <1>3, <2>1, <2>2, <2>3, <2>6, <2>7
  <1>4. CASE ~IntoNextReply.ok
    <2>1. cur' = Exhausted /\ rest' = <<>> /\ lost' = TRUE /\ closes' = closes
      BY <1>4 DEF NextReply
    <2>2. RowInv'
      BY <2>1, NothingHeld DEF RowInv
    <2>3. Held' = {}
      BY <2>1, NothingHeld, HeldIs
    <2>4. ResultsAccounted'
      BY <1>2, <2>1, <2>3 DEF ResultsAccounted
    <2>5. KeptInv'
      BY <2>1, <2>4, NothingHeld, Zenon DEF KeptInv
    <2> QED BY <1>1, <1>2, <2>1, <2>2, <2>5, NothingHeld
  <1> QED BY <1>3, <1>4

-----------------------------------------------------------------------------
(* The invariant holds initially, and every step preserves it.              *)

Labels == {"idle", "next_reply", "exhaust", "skip", "next_row", "fetch_binary",
           "receive", "drop", "gone"}
Continuations == {"return", "execute", "close", "discard", "next_row", "fetch_binary"}
Values == {"ok", "true", "false", "err"}

(* A new cursor on a connection that works.                                 *)
LEMMA InitIInv == Init => IInv
PROOF
  <1> SUFFICES ASSUME Init PROVE IInv
    OBVIOUS
  <1> USE DEF Init
  <1>1. asked \in Exports /\ asked.kind = "none"
    BY DEF NoExport, Exports, NoId
  <1>2. Held = {}
    BY HeldIs, NothingHeld
  <1>3. TypeOK
    <2>1. /\ cur \in Parsers /\ rest \in Seq(ReplyRecords) /\ seen \in Seq(Nat)
          /\ closes \cup collected \cup live \subseteq 1 .. opened /\ opened \in Nat
      BY NothingHeld
    <2>2. /\ reply_size \in 1 .. UsizeMax /\ max_prefetch \in MaxPrefetches
          /\ conn \in BOOLEAN /\ lost \in BOOLEAN
      BY CursorAssumption
    <2> QED BY <1>1, <2>1, <2>2 DEF TypeOK
  <1>4. RowInv
    BY NothingHeld DEF RowInv
  <1>5. CallInv /\ AskedInv
    BY <1>1 DEF CallInv, AskedInv
  <1>6. ResultsAccounted
    BY <1>2 DEF ResultsAccounted
  <1>7. KeptInv
    BY <1>6, NothingHeld, Zenon DEF KeptInv
  <1> QED BY <1>3, <1>4, <1>5, <1>7 DEF IInv

(* No export is under way.                                                  *)
LEMMA NoExportIs == NoExport \in Exports /\ NoExport.kind = "none"
PROOF
  BY DEF NoExport, Exports, NoId

(* A step that leaves the replies alone, and what was read of them.         *)
LEMMA QuietStep ==
  ASSUME IInv, UNCHANGED <<cur, rest, seen, lost, opened, collected, max_prefetch>>,
         (closes' = closes /\ live' = live) \/ Flush,
         reply_size' \in 1 .. UsizeMax, conn' \in BOOLEAN, conn' => conn,
         pc' \in Labels, then' \in Continuations, ret' \in Values,
         asked' \in Exports, asked'.kind = "text" => asked'.n \in 1 .. UsizeMax,
         CallInv', AskedInv'
  PROVE  IInv'
PROOF
  <1>1. closes' \cup collected' \cup live' \subseteq 1 .. opened'
    BY DEF IInv, TypeOK, Flush
  <1>2. TypeOK'
    BY <1>1 DEF IInv, TypeOK, Labels, Continuations, Values
  <1>3. RowInv'
    BY DEF IInv, RowInv
  <1>4. KeptInv'
    BY KeptStep DEF IInv
  <1> QED BY <1>2, <1>3, <1>4 DEF IInv

(* The calls, as far as they start a loop.                                  *)
LEMMA CallStep ==
  ASSUME IInv, Execute \/ Close \/ NextReplyCall \/ NextRow \/ FetchBinary
  PROVE  IInv'
PROOF
  <1>1. /\ pc = "idle"
        /\ UNCHANGED <<cursorVars, closes, conn, serverVars, asked, ghostVars, ret>>
        /\ <<pc', then'>> \in {<<"exhaust", "execute">>, <<"exhaust", "close">>,
             <<"next_reply", "return">>, <<"skip", "next_row">>, <<"skip", "fetch_binary">>}
    BY DEF Execute, Close, NextReplyCall, NextRow, FetchBinary, Call, Goto
  <1>2. /\ UNCHANGED <<cur, rest, seen, lost, opened, collected, max_prefetch>>
        /\ UNCHANGED <<closes, live, reply_size, conn, asked, ret>>
    BY <1>1 DEF cursorVars, serverVars, ghostVars
  <1>3. /\ pc' \in Labels /\ then' \in Continuations /\ asked.kind = "none"
        /\ pc' \in {"exhaust", "next_reply", "skip"}
        /\ pc' = "skip" => then' \in {"next_row", "fetch_binary"}
    BY <1>1 DEF Labels, Continuations, IInv, CallInv, TypeOK, Exports
  <1>4. CallInv' /\ AskedInv'
    BY <1>1, <1>2, <1>3 DEF IInv, CallInv, AskedInv
  <1>5. /\ reply_size' \in 1 .. UsizeMax /\ conn' \in BOOLEAN /\ ret' \in Values
        /\ asked' \in Exports /\ asked'.kind # "text"
    BY <1>2, <1>3 DEF IInv, TypeOK, Values
  <1> QED BY <1>2, <1>3, <1>4, <1>5, QuietStep

(* set_reply_size, and the beginning of Drop.                               *)
LEMMA SettingStep ==
  ASSUME IInv, (\E n \in ReplySizes : SetReplySize(n)) \/ Drop
  PROVE  IInv'
PROOF
  <1>1. /\ pc = "idle" /\ pc' \in {"idle", "drop"} /\ then' = then
        /\ UNCHANGED <<cur, rest, seen, lost, opened, max_prefetch>>
        /\ UNCHANGED <<closes, live, conn, asked, ret>>
        /\ reply_size' = reply_size \/ reply_size' \in ReplySizes
        /\ collected' = collected \/ collected' = {}
    BY DEF SetReplySize, Drop, serverVars, ghostVars, Goto
  <1>2. asked.kind = "none" /\ collected = {} /\ collected' = collected
    BY <1>1 DEF IInv, CallInv, TypeOK, Exports
  <1>3. /\ pc' \in Labels /\ then' \in Continuations
        /\ reply_size' \in 1 .. UsizeMax /\ conn' \in BOOLEAN /\ ret' \in Values
        /\ asked' \in Exports /\ asked'.kind # "text"
    BY <1>1, <1>2, CursorAssumption DEF IInv, TypeOK, Values, Labels, Continuations
  <1>4. CallInv' /\ AskedInv'
    BY <1>1, <1>2 DEF IInv, CallInv, AskedInv
  <1> QED BY <1>1, <1>2, <1>3, <1>4, QuietStep

(* Connection::cursor.                                                      *)
LEMMA NewStep ==
  ASSUME IInv, New
  PROVE  IInv'
PROOF
  <1> USE DEF New, serverVars
  <1>1. /\ cur = Exhausted /\ rest = <<>> /\ cur' = cur /\ rest' = rest
        /\ collected = {} /\ asked.kind = "none"
    BY DEF IInv, CallInv, TypeOK, Exports
  <1>2. seen' = <<>> /\ seen' \in Seq(Nat) /\ reply_size' \in 1 .. UsizeMax
    BY CursorAssumption
  <1>3. TypeOK'
    BY <1>1, <1>2 DEF IInv, TypeOK
  <1>4. RowInv'
    BY <1>1, NothingHeld DEF RowInv
  <1>5. CallInv' /\ AskedInv'
    BY <1>1 DEF IInv, CallInv, AskedInv
  <1>6. KeptInv'
    BY <1>1, KeptStep DEF IInv
  <1> QED BY <1>3, <1>4, <1>5, <1>6 DEF IInv

(* The steps that go to the next reply.                                     *)
LEMMA ReadStep ==
  ASSUME IInv, StepNextReply \/ ExhaustTurn \/ SkipTurn
  PROVE  IInv'
PROOF
  <1>1. /\ NextReply /\ pc \in {"next_reply", "exhaust", "skip"} /\ then' = then
        /\ UNCHANGED <<reply_size, max_prefetch, collected, conn, serverVars>>
        /\ asked' = asked
    BY DEF StepNextReply, ExhaustTurn, SkipTurn
  <1>2. collected = {} /\ asked.kind = "none"
    BY <1>1 DEF IInv, CallInv, TypeOK, Exports
  <1>3. /\ cur' \in Parsers /\ rest' \in Seq(ReplyRecords) /\ seen' \in Seq(Nat)
        /\ closes' \cup collected' \cup live' \subseteq 1 .. opened' /\ lost' \in BOOLEAN
        /\ RowInv' /\ KeptInv'
        /\ cur' = Exhausted => rest' = <<>>
        /\ ~IntoNextReply.ok => cur' = Exhausted
    BY <1>1, <1>2, NextReplyStep
  <1>4. /\ ret' \in Values
        /\ \/ pc' = pc /\ pc' \in {"exhaust", "skip"}
           \/ pc' = "idle"
           \/ pc' = "gone" /\ ~IntoNextReply.ok
    <2>1. CASE StepNextReply
      BY <2>1 DEF StepNextReply, Return, Values
    <2>2. CASE ExhaustTurn
      BY <2>2 DEF ExhaustTurn, Return, Values, IInv, TypeOK
    <2>3. CASE SkipTurn
      BY <2>3 DEF SkipTurn, Return, Values, IInv, TypeOK
    <2> QED BY <2>1, <2>2, <2>3
  <1>5. TypeOK'
    BY <1>1, <1>2, <1>3, <1>4 DEF IInv, TypeOK, Values, serverVars
  <1>6. CallInv' /\ AskedInv'
    BY <1>1, <1>2, <1>3, <1>4 DEF IInv, CallInv, AskedInv
  <1> QED BY <1>3, <1>5, <1>6 DEF IInv

(* The end of a discarding loop, a command that fails, and close.           *)
LEMMA CommandStep ==
  ASSUME IInv,
         Discarded \/ CommandFails \/ \E delayed_error \in BOOLEAN : CloseCommand(delayed_error)
  PROVE  IInv'
PROOF
  <1>1. /\ UNCHANGED <<cur, rest, seen, lost, opened, collected, max_prefetch, reply_size, then>>
        /\ (closes' = closes /\ live' = live) \/ Flush
        /\ conn' = conn \/ conn' = FALSE
        /\ asked' = asked \/ asked' = NoExport
        /\ ret' \in Values
        /\ pc = "receive" \/ (pc = "exhaust" /\ cur = Exhausted)
        /\ pc' = "idle" \/ (pc' = "gone" /\ pc = "exhaust")
        /\ pc = "receive" => asked' = NoExport
    BY DEF Discarded, CommandFails, CloseCommand, cursorVars, serverVars, ghostVars, Return,
           Values
  <1>2. asked'.kind = "none" /\ asked' \in Exports
    BY <1>1, NoExportIs DEF IInv, CallInv, TypeOK, Exports
  <1>3. /\ pc' \in Labels /\ then' \in Continuations
        /\ reply_size' \in 1 .. UsizeMax /\ conn' \in BOOLEAN /\ (conn' => conn)
    <2>1. conn' = conn \/ conn' = FALSE
      BY <1>1
    <2>2. conn \in BOOLEAN
      BY DEF IInv, TypeOK
    <2>3. conn' \in BOOLEAN /\ (conn' => conn)
      <3>1. CASE conn' = conn
        BY <2>2, <3>1
      <3>2. CASE conn' = FALSE
        BY <3>2
      <3> QED BY <2>1, <3>1, <3>2
    <2>4. pc' \in {"idle", "gone"} /\ then' = then /\ reply_size' = reply_size
      BY <1>1, Zenon
    <2>5. pc' \in Labels /\ then' \in Continuations /\ reply_size' \in 1 .. UsizeMax
      BY <2>4 DEF IInv, TypeOK, Labels, Continuations
    <2> QED BY <2>3, <2>5, Zenon
  <1>4. CallInv' /\ AskedInv'
    BY <1>1, <1>2 DEF IInv, CallInv, AskedInv
  <1> QED BY <1>1, <1>2, <1>3, <1>4, QuietStep

(* The end of skip_to_result_set and of the rows, and a binary result.      *)
LEMMA EndStep ==
  ASSUME IInv, SkipEnds \/ NoMoreRows \/ \E ok \in BOOLEAN : ReceiveBinary(ok)
  PROVE  IInv'
PROOF
  <1>1. /\ UNCHANGED <<cur, rest, seen, lost, opened, collected, max_prefetch, reply_size, then>>
        /\ UNCHANGED <<closes, live, conn>>
        /\ asked' = asked \/ asked' = NoExport
        /\ pc = "receive" => asked' = NoExport
        /\ pc \in {"skip", "next_row", "receive"}
        /\ pc' = "idle" \/ (pc = "skip" /\ pc' = then /\ cur.kind = "data")
        /\ ret' \in Values
    <2>1. CASE SkipEnds
      <3>1. cur.kind = "exhausted" => cur = Exhausted
        BY ParserKinds, SMTT(30) DEF IInv, TypeOK
      <3> QED BY <2>1, <3>1 DEF SkipEnds, cursorVars, serverVars, ghostVars, Return, Goto,
                               Values, IInv, TypeOK
    <2>2. CASE NoMoreRows \/ \E ok \in BOOLEAN : ReceiveBinary(ok)
      BY <2>2 DEF NoMoreRows, ReceiveBinary, cursorVars, serverVars, ghostVars, Return, Values
    <2> QED BY <2>1, <2>2
  <1>2. asked'.kind = "none" /\ asked' \in Exports
    BY <1>1, NoExportIs DEF IInv, CallInv, TypeOK, Exports
  <1>3. /\ pc' \in Labels /\ then' \in Continuations /\ pc' \in {"idle", "next_row", "fetch_binary"}
        /\ reply_size' \in 1 .. UsizeMax /\ conn' \in BOOLEAN
    BY <1>1 DEF IInv, TypeOK, CallInv, Labels, Continuations
  <1>4. CallInv' /\ AskedInv'
    BY <1>1, <1>2, <1>3 DEF IInv, CallInv, AskedInv
  <1> QED BY <1>1, <1>2, <1>3, <1>4, QuietStep

-----------------------------------------------------------------------------
(* Rows.                                                                    *)

(* A step that changes where the row set is, and nothing else of the        *)
(* replies.                                                                 *)
LEMMA RowStep ==
  ASSUME IInv, cur.kind = "data", cur' \in DataParsers,
         cur'.id = cur.id, cur'.noslice = cur.noslice, cur'.prepared = cur.prepared,
         cur'.total = cur.total, cur'.included = cur.included, cur'.to_close = cur.to_close,
         UNCHANGED <<then, rest, opened, collected, max_prefetch, conn>>,
         (closes' = closes /\ live' = live) \/ Flush,
         lost' \in BOOLEAN, ~lost' => ~lost, InPlace(cur', lost'),
         seen' \in Seq(Nat), seen' = [i \in 1 .. cur'.next_row |-> i - 1],
         reply_size' \in 1 .. UsizeMax, ret' \in Values,
         pc' \in {"idle", "next_row", "receive"}, pc # "drop",
         asked' \in Exports, asked'.kind = "text" => asked'.n \in 1 .. UsizeMax,
         asked'.kind # "none" => pc' = "receive", pc' = "receive" => conn, AskedInv'
  PROVE  IInv'
PROOF
  <1>1. cur' \in Parsers /\ cur'.kind = "data" /\ cur' # Exhausted
    BY DEF Parsers, DataParsers, Exhausted
  <1>2. closes' \cup collected' \cup live' \subseteq 1 .. opened'
    BY DEF IInv, TypeOK, Flush
  <1>3. TypeOK'
    BY <1>1, <1>2 DEF IInv, TypeOK, Values
  <1>4. Header(cur')
    BY DEF IInv, RowInv, Header
  <1>5. RowInv'
    BY <1>4 DEF RowInv
  <1>6. CallInv'
    BY <1>1 DEF IInv, CallInv
  <1>7. KeptInv'
    <2>1. ClosedBy(cur') = ClosedBy(cur)
      BY <1>1 DEF ClosedBy
    <2> QED BY <2>1, KeptStep DEF IInv
  <1> QED BY <1>3, <1>5, <1>6, <1>7 DEF IInv

(* The next row is the one behind the last.                                 *)
LEMMA AppendRow ==
  ASSUME NEW n \in Nat, NEW rows, rows = [i \in 1 .. n |-> i - 1]
  PROVE  /\ rows \in Seq(Nat) /\ Len(rows) = n
         /\ Append(rows, n) = [i \in 1 .. n + 1 |-> i - 1]
         /\ Append(rows, n) \in Seq(Nat)
PROOF
  <1>1. rows \in Seq(Nat) /\ Len(rows) = n
    OBVIOUS
  <1>2. /\ Append(rows, n) \in Seq(Nat) /\ Len(Append(rows, n)) = n + 1
        /\ \A i \in 1 .. n + 1 : Append(rows, n)[i] = i - 1
    BY <1>1
  <1> QED BY <1>1, <1>2

(* RowSet::advance and count_row.                                           *)
LEMMA AdvanceStep ==
  ASSUME IInv, Advance
  PROVE  IInv'
PROOF
  <1> USE DEF Advance, serverVars
  <1>1. /\ cur.kind = "data" /\ cur \in DataParsers /\ asked.kind = "none"
        /\ cur.next_row \in Nat /\ cur.total \in Nat /\ cur.included \in Nat
        /\ cur.from \in Nat /\ cur.to \in Nat
    BY ParserKinds DEF IInv, TypeOK, CallInv, Exports
  <1>2. InPlace(cur, lost) /\ seen = [i \in 1 .. cur.next_row |-> i - 1]
    BY <1>1 DEF IInv, RowInv
  <1>3. ret' \in Values /\ pc' = "idle"
    BY DEF Values, Return
  <1>4. /\ reply_size' \in 1 .. UsizeMax /\ lost' \in BOOLEAN /\ asked' \in Exports
        /\ asked'.kind = "none" /\ seen \in Seq(Nat) /\ AskedInv'
    BY <1>1 DEF IInv, TypeOK, AskedInv
  <1>5. CASE cur.next_row >= cur.total
    <2>1. /\ cur' = [cur EXCEPT !.from = cur.from + 1] /\ seen' = seen
      BY <1>5
    <2>2. /\ cur' \in DataParsers /\ cur'.from = cur.from + 1
          /\ cur'.to = cur.to /\ cur'.next_row = cur.next_row
          /\ cur'.id = cur.id /\ cur'.noslice = cur.noslice /\ cur'.prepared = cur.prepared
          /\ cur'.total = cur.total /\ cur'.included = cur.included
          /\ cur'.to_close = cur.to_close
      BY <1>1, <2>1 DEF DataParsers
    <2>3. InPlace(cur', lost')
      BY <1>1, <1>2, <1>5, <2>2 DEF InPlace
    <2> QED BY <1>1, <1>2, <1>3, <1>4, <2>1, <2>2, <2>3, RowStep
  <1>6. CASE ~(cur.next_row >= cur.total)
    <2>1. /\ cur' = [cur EXCEPT !.from = cur.from + 1, !.next_row = cur.next_row + 1]
          /\ seen' = Append(seen, cur.from)
      BY <1>6
    <2>2. /\ cur' \in DataParsers /\ cur'.from = cur.from + 1
          /\ cur'.to = cur.to /\ cur'.next_row = cur.next_row + 1
          /\ cur'.id = cur.id /\ cur'.noslice = cur.noslice /\ cur'.prepared = cur.prepared
          /\ cur'.total = cur.total /\ cur'.included = cur.included
          /\ cur'.to_close = cur.to_close
      <3>1. PICK moved : moved = [cur EXCEPT !.from = cur.from + 1]
        BY Zenon
      <3>2. cur' = [moved EXCEPT !.next_row = cur.next_row + 1]
        BY <2>1, <3>1, Zenon
      <3> HIDE DEF Advance
      <3>3. /\ moved \in DataParsers /\ moved.from = cur.from + 1 /\ moved.to = cur.to
            /\ moved.id = cur.id /\ moved.noslice = cur.noslice
            /\ moved.prepared = cur.prepared /\ moved.total = cur.total
            /\ moved.included = cur.included /\ moved.to_close = cur.to_close
        BY <1>1, <3>1 DEF DataParsers
      <3> QED BY <1>1, <3>2, <3>3 DEF DataParsers
    <2>3. cur.from = cur.next_row
      BY <1>1, <1>2, <1>6 DEF InPlace
    <2>4. InPlace(cur', lost')
      BY <1>1, <1>2, <1>6, <2>2, <2>3 DEF InPlace
    <2>5. seen' \in Seq(Nat) /\ seen' = [i \in 1 .. cur'.next_row |-> i - 1]
      BY <1>1, <1>2, <2>1, <2>2, <2>3, AppendRow
    <2> QED BY <1>1, <1>3, <1>4, <2>2, <2>4, <2>5, RowStep
  <1> QED BY <1>5, <1>6

(* A row that cannot be parsed.                                             *)
LEMMA AdvanceFailsStep ==
  ASSUME IInv, NEW stuck \in BOOLEAN, AdvanceFails(stuck)
  PROVE  IInv'
PROOF
  <1> USE DEF AdvanceFails, serverVars
  <1>1. /\ cur.kind = "data" /\ cur \in DataParsers /\ asked.kind = "none"
        /\ cur.next_row \in Nat /\ cur.total \in Nat /\ cur.included \in Nat
        /\ cur.from \in Nat /\ cur.to \in Nat
    BY ParserKinds DEF IInv, TypeOK, CallInv, Exports
  <1>2. InPlace(cur, lost) /\ seen = [i \in 1 .. cur.next_row |-> i - 1]
    BY <1>1 DEF IInv, RowInv
  <1>3. ret' \in Values /\ pc' = "idle" /\ lost'
    BY DEF Values, Return
  <1>4. /\ reply_size' \in 1 .. UsizeMax /\ lost' \in BOOLEAN /\ asked' \in Exports
        /\ asked'.kind = "none" /\ seen' \in Seq(Nat) /\ AskedInv'
    BY <1>1 DEF IInv, TypeOK, AskedInv
  <1>5. /\ cur' \in DataParsers /\ cur'.from = cur.from
        /\ cur'.to = cur.to \/ cur'.to = cur.from
        /\ cur'.next_row = cur.next_row
        /\ cur'.id = cur.id /\ cur'.noslice = cur.noslice /\ cur'.prepared = cur.prepared
        /\ cur'.total = cur.total /\ cur'.included = cur.included
        /\ cur'.to_close = cur.to_close
    <2>1. CASE stuck
      <3>1. cur' = [cur EXCEPT !.stuck = TRUE]
        BY <2>1
      <3> QED BY <1>1, <3>1 DEF DataParsers
    <2>2. CASE ~stuck
      <3>1. cur' = [cur EXCEPT !.to = cur.from]
        BY <2>2
      <3> QED BY <1>1, <3>1 DEF DataParsers
    <2> QED BY <2>1, <2>2
  <1>6. InPlace(cur', lost')
    BY <1>1, <1>2, <1>3, <1>5 DEF InPlace
  <1> QED BY <1>1, <1>2, <1>3, <1>4, <1>5, <1>6, RowStep

(* What holds of a result while rows of it are read.                        *)
LEMMA ResultFacts ==
  ASSUME IInv, cur.kind = "data"
  PROVE  /\ cur \in DataParsers /\ cur.id \in Nat /\ cur.prepared \in BOOLEAN
         /\ cur.next_row \in Nat /\ cur.total \in Nat /\ cur.included \in Nat
         /\ cur.from \in Nat /\ cur.to \in Nat
         /\ InPlace(cur, lost) /\ seen = [i \in 1 .. cur.next_row |-> i - 1]
         /\ cur.included <= cur.total
         /\ cur.to_close = NoId <=> cur.included = cur.total
         /\ cur.to_close # NoId => cur.to_close = cur.id /\ ~cur.prepared
PROOF
  <1>1. /\ cur \in DataParsers /\ cur.id \in Nat /\ cur.prepared \in BOOLEAN
        /\ cur.next_row \in Nat /\ cur.total \in Nat /\ cur.included \in Nat
        /\ cur.from \in Nat /\ cur.to \in Nat
    BY ParserKinds DEF IInv, TypeOK
  <1>2. Header(cur) /\ InPlace(cur, lost) /\ seen = [i \in 1 .. cur.next_row |-> i - 1]
    BY DEF IInv, RowInv
  <1>3. /\ cur.included <= cur.total
        /\ cur.to_close = NoId <=> cur.included = cur.total
        /\ cur.to_close # NoId => cur.to_close = cur.id /\ ~cur.prepared
    BY <1>1, <1>2 DEF Header
  <1> QED BY <1>1, <1>2, <1>3

(* The size of a window: never 0, and at most what may be read ahead.       *)
LEMMA WindowSize ==
  ASSUME TypeOK
  PROVE  /\ NextWindowSize(reply_size) \in 1 .. UsizeMax
         /\ max_prefetch # Unlimited => NextWindowSize(reply_size) <= max_prefetch + 1
PROOF
  <1>1. /\ UsizeMax \in Nat /\ reply_size \in Nat /\ reply_size >= 1 /\ reply_size <= UsizeMax
        /\ max_prefetch = Unlimited \/ max_prefetch \in 0 .. UsizeMax
    BY CursorAssumption DEF TypeOK
  <1>2. SaturatingDouble(reply_size) \in 1 .. UsizeMax
    BY <1>1 DEF SaturatingDouble
  <1>3. CASE max_prefetch = Unlimited
    BY <1>2, <1>3 DEF NextWindowSize
  <1>4. CASE max_prefetch # Unlimited
    <2>1. /\ SaturatingSucc(max_prefetch) \in 1 .. UsizeMax
          /\ SaturatingSucc(max_prefetch) <= max_prefetch + 1
      BY <1>1, <1>4 DEF SaturatingSucc
    <2> QED BY <1>1, <1>2, <1>4, <2>1 DEF NextWindowSize, Least
  <1> QED BY <1>3, <1>4

(* decide_next_fetch and the request.                                       *)
LEMMA FetchStep ==
  ASSUME IInv, FetchMoreRows
  PROVE  IInv'
PROOF
  <1>1. /\ pc = "next_row" /\ cur.from = cur.to /\ ~(cur.next_row >= cur.total)
        /\ cur' = [cur EXCEPT !.from = 0, !.to = 0]
        /\ UNCHANGED <<then, max_prefetch, rest, reply_size, collected, conn, opened>>
        /\ UNCHANGED <<seen, lost>>
    BY DEF FetchMoreRows, AllRead, ghostVars
  <1>2. cur.kind = "data" /\ asked.kind = "none" /\ TypeOK
    BY <1>1 DEF IInv, CallInv, TypeOK, Exports
  <1>3. /\ cur \in DataParsers /\ cur.id \in Nat
        /\ cur.next_row \in Nat /\ cur.total \in Nat /\ cur.included \in Nat
        /\ cur.from \in Nat /\ cur.to \in Nat
        /\ InPlace(cur, lost) /\ seen = [i \in 1 .. cur.next_row |-> i - 1]
        /\ cur.to_close = NoId <=> cur.included = cur.total
    BY <1>2, ResultFacts
  <1>4. cur.included = cur.total => lost
    BY <1>1, <1>3 DEF InPlace
  <1>5. /\ cur' \in DataParsers /\ cur'.from = 0
        /\ cur'.to = 0 /\ cur'.next_row = cur.next_row
        /\ cur'.id = cur.id /\ cur'.noslice = cur.noslice /\ cur'.prepared = cur.prepared
        /\ cur'.total = cur.total /\ cur'.included = cur.included
        /\ cur'.to_close = cur.to_close
    <2>1. PICK moved : moved = [cur EXCEPT !.from = 0]
      BY Zenon
    <2>2. cur' = [moved EXCEPT !.to = 0]
      BY <1>1, <2>1, Zenon
    <2>3. /\ moved \in DataParsers /\ moved.from = 0 /\ moved.next_row = cur.next_row
          /\ moved.id = cur.id /\ moved.noslice = cur.noslice
          /\ moved.prepared = cur.prepared /\ moved.total = cur.total
          /\ moved.included = cur.included /\ moved.to_close = cur.to_close
      BY <1>3, <2>1 DEF DataParsers
    <2> QED BY <2>2, <2>3 DEF DataParsers
  <1>6. InPlace(cur', lost')
    BY <1>1, <1>3, <1>4, <1>5 DEF InPlace
  <1>7. /\ lost' \in BOOLEAN /\ seen' \in Seq(Nat) /\ reply_size' \in 1 .. UsizeMax
        /\ seen' = [i \in 1 .. cur'.next_row |-> i - 1]
    BY <1>1, <1>2, <1>3, <1>5 DEF TypeOK
  <1>8. CASE conn
    <2> DEFINE size == Least(cur.total - cur.next_row, NextWindowSize(reply_size))
    <2>1. /\ asked' = [kind |-> "text", id |-> cur.id, start |-> cur.next_row, n |-> size]
          /\ Flush /\ pc' = "receive" /\ ret' = ret
      BY <1>8 DEF FetchMoreRows, ExportFrom, Goto
    <2>2. /\ size \in 1 .. UsizeMax /\ size \in Nat /\ cur.next_row + size <= cur.total
          /\ max_prefetch # Unlimited => size <= max_prefetch + 1
      <3>1. UsizeMax \in Nat /\ (max_prefetch # Unlimited => max_prefetch \in Nat)
        BY <1>2, CursorAssumption DEF TypeOK
      <3>2. /\ NextWindowSize(reply_size) \in 1 .. UsizeMax
            /\ max_prefetch # Unlimited => NextWindowSize(reply_size) <= max_prefetch + 1
        BY <1>2, WindowSize
      <3> QED BY <1>1, <1>3, <3>1, <3>2 DEF Least
    <2> HIDE DEF size
    <2>3. /\ asked' \in Exports /\ asked'.kind = "text" /\ asked'.id = cur.id
          /\ asked'.start = cur.next_row /\ asked'.n = size
      BY <1>3, <2>1, <2>2 DEF Exports
    <2>4. AskedInv'
      BY <1>1, <1>3, <1>4, <1>5, <2>2, <2>3 DEF AskedInv
    <2>5. ret' \in Values
      BY <1>2, <2>1 DEF TypeOK, Values
    <2> QED BY <1>1, <1>2, <1>5, <1>6, <1>7, <1>8, <2>1, <2>2, <2>3, <2>4, <2>5, RowStep
  <1>9. CASE ~conn
    <2>1. /\ pc' = "idle" /\ ret' \in Values /\ UNCHANGED <<asked, closes, live>>
      BY <1>1, <1>9 DEF FetchMoreRows, Return, Values
    <2>2. asked' \in Exports /\ asked'.kind = "none" /\ AskedInv'
      BY <1>2, <2>1 DEF TypeOK, AskedInv
    <2> QED BY <1>1, <1>2, <1>5, <1>6, <1>7, <2>1, <2>2, RowStep
  <1> QED BY <1>8, <1>9

(* The rows of a window arrive.                                             *)
LEMMA ReceiveStep ==
  ASSUME IInv, NEW k \in Nat, NEW refused \in BOOLEAN, ReceiveRows(k, refused)
  PROVE  IInv'
PROOF
  <1>1. /\ pc = "receive" /\ asked.kind = "text" /\ asked' = NoExport
        /\ UNCHANGED <<then, max_prefetch, rest, collected, closes, conn, live, opened>>
        /\ UNCHANGED <<seen, lost>>
    BY DEF ReceiveRows, serverVars, ghostVars
  <1>2. cur.kind = "data" /\ TypeOK /\ conn /\ asked.n \in Nat
    BY <1>1 DEF IInv, CallInv, TypeOK, Exports
  <1>3. /\ cur \in DataParsers
        /\ cur.next_row \in Nat /\ cur.total \in Nat /\ cur.included \in Nat
        /\ cur.from \in Nat /\ cur.to \in Nat
        /\ InPlace(cur, lost) /\ seen = [i \in 1 .. cur.next_row |-> i - 1]
        /\ cur.to_close = NoId <=> cur.included = cur.total
    BY <1>2, ResultFacts
  <1>4. /\ asked.start = cur.next_row /\ asked.n >= 1 /\ asked.start + asked.n <= cur.total
        /\ cur.included = cur.total => lost
    BY <1>1, <1>3 DEF IInv, AskedInv
  <1>5. /\ asked' \in Exports /\ asked'.kind = "none" /\ AskedInv'
        /\ lost' \in BOOLEAN /\ seen' \in Seq(Nat)
    BY <1>1, <1>2, NoExportIs DEF TypeOK, AskedInv
  <1>6. CASE refused \/ ~HasPendingRow(k)
    <2>1. cur' = cur /\ reply_size' = reply_size /\ pc' = "idle" /\ ret' \in Values
      BY <1>1, <1>6 DEF ReceiveRows, Return, Values
    <2>2. /\ cur' \in DataParsers /\ InPlace(cur', lost') /\ reply_size' \in 1 .. UsizeMax
          /\ seen' = [i \in 1 .. cur'.next_row |-> i - 1]
      BY <1>1, <1>2, <1>3, <2>1 DEF TypeOK
    <2> QED BY <1>1, <1>2, <1>5, <2>1, <2>2, RowStep
  <1>7. CASE ~(refused \/ ~HasPendingRow(k))
    <2>1. /\ cur' = [cur EXCEPT !.from = asked.start, !.to = asked.start + k]
          /\ reply_size' = NextWindowSize(reply_size) /\ pc' = "next_row" /\ ret' = ret
      BY <1>7 DEF ReceiveRows, Goto
    <2>2. /\ cur' \in DataParsers /\ cur'.from = asked.start
          /\ cur'.to = asked.start + k /\ cur'.next_row = cur.next_row
          /\ cur'.id = cur.id /\ cur'.noslice = cur.noslice /\ cur'.prepared = cur.prepared
          /\ cur'.total = cur.total /\ cur'.included = cur.included
          /\ cur'.to_close = cur.to_close
      <3>1. PICK moved : moved = [cur EXCEPT !.from = asked.start]
        BY Zenon
      <3>2. cur' = [moved EXCEPT !.to = asked.start + k]
        BY <2>1, <3>1, Zenon
      <3>3. /\ moved \in DataParsers /\ moved.from = asked.start
            /\ moved.next_row = cur.next_row
            /\ moved.id = cur.id /\ moved.noslice = cur.noslice
            /\ moved.prepared = cur.prepared /\ moved.total = cur.total
            /\ moved.included = cur.included /\ moved.to_close = cur.to_close
        BY <1>3, <1>4, <3>1 DEF DataParsers
      <3>4. asked.start + k \in Nat
        BY <1>3, <1>4
      <3> QED BY <3>2, <3>3, <3>4 DEF DataParsers
    <2>3. InPlace(cur', lost')
      BY <1>1, <1>2, <1>3, <1>4, <2>2 DEF InPlace
    <2>4. reply_size' \in 1 .. UsizeMax /\ ret' \in Values
      BY <1>2, <2>1, WindowSize DEF TypeOK, Values
    <2>5. seen' = [i \in 1 .. cur'.next_row |-> i - 1]
      BY <1>1, <1>3, <2>2
    <2> QED BY <1>1, <1>2, <1>5, <2>1, <2>2, <2>3, <2>4, <2>5, RowStep
  <1> QED BY <1>6, <1>7

(* fetch_binary_into.                                                       *)
LEMMA BinaryStep ==
  ASSUME IInv, NEW start \in Nat, NEW count \in Nat, FetchBinaryInto(start, count)
  PROVE  IInv'
PROOF
  <1>1. /\ pc = "fetch_binary"
        /\ UNCHANGED <<cur, rest, seen, lost, opened, collected, max_prefetch, reply_size,
                       then, conn>>
    BY DEF FetchBinaryInto, cursorVars, ghostVars
  <1>2. cur.kind = "data" /\ asked.kind = "none" /\ TypeOK
    BY <1>1 DEF IInv, CallInv, TypeOK, Exports
  <1>3. reply_size' \in 1 .. UsizeMax /\ conn' \in BOOLEAN /\ then' \in Continuations
    BY <1>1, <1>2 DEF TypeOK, Continuations
  <1> DEFINE Exported == ~cur.prepared /\ Resident /\ count > 0 /\ start < cur.total /\ conn
  <1>4. CASE Exported
    <2> DEFINE size == Least(count, cur.total - start)
    <2>1. /\ asked' = [kind |-> "binary", id |-> cur.id, start |-> start, n |-> size]
          /\ Flush /\ pc' = "receive" /\ ret' = ret
      BY <1>4 DEF FetchBinaryInto, Goto
    <2>2. /\ cur.total \in Nat /\ cur.id \in Nat /\ cur.included # cur.total
          /\ cur.to_close = NoId <=> cur.included = cur.total
      BY <1>2, <1>4, ResultFacts DEF Resident
    <2>3. size \in Nat /\ size >= 1 /\ start + size <= cur.total
      BY <1>4, <2>2 DEF Least
    <2> HIDE DEF size
    <2>4. /\ asked' \in Exports /\ asked'.kind = "binary" /\ asked'.id = cur.id
          /\ asked'.start = start /\ asked'.n = size
      BY <2>1, <2>2, <2>3 DEF Exports
    <2>5. AskedInv'
      BY <1>1, <2>2, <2>3, <2>4 DEF AskedInv
    <2>6. CallInv'
      BY <1>1, <1>2, <1>4, <2>1 DEF IInv, CallInv
    <2>7. pc' \in Labels /\ ret' \in Values
      BY <1>2, <2>1 DEF TypeOK, Labels, Values
    <2> QED BY <1>1, <1>3, <2>1, <2>4, <2>5, <2>6, <2>7, QuietStep
  <1>5. CASE ~Exported
    <2>1. pc' = "idle" /\ ret' = "err" /\ UNCHANGED <<asked, closes, live>>
      BY <1>1, <1>5 DEF FetchBinaryInto, Return
    <2>2. asked' \in Exports /\ asked'.kind = "none" /\ AskedInv'
      BY <1>2, <2>1 DEF TypeOK, AskedInv
    <2>3. CallInv'
      BY <1>1, <1>2, <2>1 DEF IInv, CallInv
    <2>4. pc' \in Labels /\ ret' \in Values
      BY <2>1 DEF Labels, Values
    <2> QED BY <1>1, <1>3, <2>1, <2>2, <2>3, <2>4, QuietStep
  <1> QED BY <1>4, <1>5

-----------------------------------------------------------------------------
(* A turn of Drop: the id goes to those that are collected, and at the end  *)
(* they are queued together.                                                *)
LEMMA DropStep ==
  ASSUME IInv, DropTurn
  PROVE  IInv'
PROOF
  <1> DEFINE C == ClosedBy(cur)
             U == Unclosed(rest)
             H == HeldBy(cur', rest')
             ids == IF IntoNextReply.ok THEN collected \cup C ELSE collected
  <1>1. /\ pc = "drop" /\ UNCHANGED <<then, max_prefetch, reply_size, conn, live, opened>>
        /\ UNCHANGED <<asked, ret>> /\ lost' = (lost \/ ~IntoNextReply.ok) /\ seen' = <<>>
        /\ cur' = IF IntoNextReply.ok THEN IntoNextReply.cur ELSE Exhausted
        /\ rest' = IF IntoNextReply.ok THEN IntoNextReply.rest ELSE <<>>
        /\ IF cur' = Exhausted
             THEN closes' = closes \cup ids /\ collected' = {} /\ pc' = "gone"
             ELSE collected' = ids /\ closes' = closes /\ pc' = pc
    BY HeldIs DEF DropTurn, serverVars, Goto
  <1>2. /\ C \cap U = {} /\ C \cup U \subseteq 1 .. opened
        /\ conn => C \cup U \subseteq live
        /\ conn /\ ~lost => live = C \cup U \cup collected \cup closes
        /\ (C \cup U) \cap closes = {} /\ (C \cup U) \cap collected = {}
        /\ collected \cap closes = {} /\ closes \cup collected \cup live \subseteq 1 .. opened
        /\ lost \in BOOLEAN /\ asked.kind = "none"
    BY <1>1, HeldIs DEF IInv, TypeOK, KeptInv, ResultsAccounted, HeldBy, CallInv, Exports
  <1>3. /\ cur' \in Parsers /\ rest' \in Seq(ReplyRecords) /\ Fresh(cur')
        /\ cur' = Exhausted => rest' = <<>>
        /\ Identified(rest') /\ ClosedBy(cur') \cap Unclosed(rest') = {}
        /\ IntoNextReply.ok => H = U
        /\ ~IntoNextReply.ok => H = {} /\ cur' = Exhausted
    <2>1. CASE IntoNextReply.ok
      BY <1>1, <2>1, NextFacts DEF IInv
    <2>2. CASE ~IntoNextReply.ok
      BY <1>1, <2>2, NothingHeld
    <2> QED BY <2>1, <2>2, SMTT(30)
  <1>4. lost' \in BOOLEAN /\ (~lost' => ~lost /\ IntoNextReply.ok)
    BY <1>1, <1>2
  <1>5. cur' = Exhausted => H = {}
    BY <1>3, NothingHeld
  <1> HIDE DEF C, U, H
  <1>6. /\ closes' \cup collected' \cup live' \subseteq 1 .. opened' /\ H \subseteq 1 .. opened'
        /\ H \cap closes' = {} /\ H \cap collected' = {} /\ collected' \cap closes' = {}
        /\ conn' => H \subseteq live'
    BY <1>1, <1>2, <1>3, <1>5
  <1>7. conn' /\ ~lost' => live' = H \cup collected' \cup closes'
    BY <1>1, <1>2, <1>3, <1>4, <1>5
  <1>8. Held' = H
    BY HeldIs DEF H
  <1>9. ResultsAccounted'
    BY <1>6, <1>7, <1>8 DEF ResultsAccounted
  <1>10. KeptInv'
    BY <1>3, <1>6, <1>9, Zenon DEF KeptInv, H
  <1>11. RowInv'
    <2>1. InPlace(cur', FALSE) => InPlace(cur', lost')
      BY DEF InPlace
    <2>2. seen' = [i \in 1 .. 0 |-> i - 1]
      BY <1>1
    <2> QED BY <1>3, <2>1, <2>2 DEF RowInv, Fresh
  <1>12. TypeOK'
    BY <1>1, <1>3, <1>4, <1>6, SMTT(30) DEF IInv, TypeOK
  <1>13. CallInv' /\ AskedInv'
    BY <1>1, <1>2, <1>3 DEF CallInv, AskedInv
  <1> QED BY <1>10, <1>11, <1>12, <1>13 DEF IInv

-----------------------------------------------------------------------------
(* The results of a response.                                               *)

(* How many results the server has created with the first replies.          *)
UpTo(response, i) ==
  {j \in 1 .. i : response[j].kind = "data" /\ ~response[j].noslice}

(* The numbers grow with every result that is created.                      *)
LEMMA NumbersGrow ==
  ASSUME NEW response \in Seq(ReplyRecords)
  PROVE  /\ Cardinality(Created(response)) \in Nat
         /\ \A i \in Created(response) :
              Cardinality(UpTo(response, i)) \in 1 .. Cardinality(Created(response))
         /\ \A i, j \in Created(response) :
              i < j => Cardinality(UpTo(response, i)) < Cardinality(UpTo(response, j))
PROOF
  <1>1. Len(response) \in Nat
    OBVIOUS
  <1>2. IsFiniteSet(1 .. Len(response))
    BY <1>1, FS_Interval
  <1>3. Created(response) \in SUBSET (1 .. Len(response))
    BY DEF Created
  <1>4. IsFiniteSet(Created(response))
    BY <1>2, <1>3, FS_Subset
  <1>5. Cardinality(Created(response)) \in Nat
    BY <1>4, FS_CardinalityType
  <1>6. ASSUME NEW i \in Created(response)
        PROVE  /\ UpTo(response, i) \in SUBSET Created(response) /\ i \in UpTo(response, i)
               /\ IsFiniteSet(UpTo(response, i)) /\ Cardinality(UpTo(response, i)) \in Nat
               /\ Cardinality(UpTo(response, i)) <= Cardinality(Created(response))
               /\ Cardinality(UpTo(response, i)) # 0
    <2>1. UpTo(response, i) \in SUBSET Created(response) /\ i \in UpTo(response, i)
      BY <1>1, <1>3 DEF UpTo, Created
    <2>2. /\ IsFiniteSet(UpTo(response, i))
          /\ Cardinality(UpTo(response, i)) <= Cardinality(Created(response))
      BY <1>4, <2>1, FS_Subset
    <2>3. Cardinality(UpTo(response, i)) \in Nat
      BY <2>2, FS_CardinalityType
    <2>4. Cardinality(UpTo(response, i)) # 0
      BY <2>1, <2>2, FS_EmptySet
    <2> QED BY <2>1, <2>2, <2>3, <2>4
  <1>7. ASSUME NEW i \in Created(response), NEW j \in Created(response), i < j
        PROVE  Cardinality(UpTo(response, i)) < Cardinality(UpTo(response, j))
    <2>1. i \in Nat /\ j \in Nat
      BY <1>3
    <2>2. UpTo(response, i) \in SUBSET UpTo(response, j) /\ j \notin UpTo(response, i)
      BY <1>7, <2>1 DEF UpTo
    <2>3. /\ Cardinality(UpTo(response, i)) <= Cardinality(UpTo(response, j))
          /\ Cardinality(UpTo(response, i)) # Cardinality(UpTo(response, j))
      BY <1>6, <2>2, FS_Subset
    <2> QED BY <1>6, <2>3
  <1>8. ASSUME NEW i \in Created(response)
        PROVE  Cardinality(UpTo(response, i)) \in 1 .. Cardinality(Created(response))
    BY <1>5, <1>6
  <1> QED BY <1>5, <1>7, <1>8

(* The server gives an id to a result, and nothing else changes.            *)
LEMMA WithIdsIs ==
  ASSUME NEW response \in Seq(ReplyRecords), opened \in Nat
  PROVE  /\ WithIds(response) \in Seq(ReplyRecords)
         /\ Len(WithIds(response)) = Len(response)
         /\ \A i \in 1 .. Len(response) :
              /\ Open(WithIds(response)[i]) <=> Open(response[i])
              /\ Open(response[i]) =>
                   /\ i \in Created(response)
                   /\ WithIds(response)[i].id = opened + Cardinality(UpTo(response, i))
PROOF
  <1> DEFINE W == WithIds(response)
             Number(i) == IF response[i].noslice THEN NoId
                          ELSE opened + Cardinality(UpTo(response, i))
  <1>1. /\ Len(response) \in Nat
        /\ W = [i \in 1 .. Len(response) |->
                 IF response[i].kind # "data" THEN response[i]
                 ELSE [response[i] EXCEPT !.id = Number(i)]]
    BY DEF WithIds, UpTo
  <1>2. ASSUME NEW i \in 1 .. Len(response)
        PROVE  /\ W[i] \in ReplyRecords /\ (Open(W[i]) <=> Open(response[i]))
               /\ Open(response[i]) =>
                    /\ i \in Created(response)
                    /\ W[i].id = opened + Cardinality(UpTo(response, i))
    <2>1. response[i] \in ReplyRecords
      OBVIOUS
    <2>2. PICK r : r = response[i]
      OBVIOUS
    <2>3. PICK m : m = Number(i)
      OBVIOUS
    <2>4. W[i] = IF r.kind # "data" THEN r ELSE [r EXCEPT !.id = m]
      BY <1>1, <2>2, <2>3
    <2>5. CASE r.kind # "data"
      BY <2>1, <2>2, <2>4, <2>5 DEF Open
    <2>6. CASE r.kind = "data"
      <3>1. /\ r \in DataReplies /\ r.noslice \in BOOLEAN /\ r.prepared \in BOOLEAN
            /\ r.total \in Nat /\ r.included \in Nat /\ r.included <= r.total
            /\ r.noslice \/ r.prepared => r.included = r.total
        BY <2>1, <2>2, <2>6, ReplyKinds
      <3>2. Open(r) => ~r.noslice
        BY <3>1 DEF Open
      <3>3. i \in Created(response) <=> ~r.noslice
        BY <2>2, <2>6 DEF Created
      <3>4. m \in Nat
        <4>1. i \in Created(response) => Cardinality(UpTo(response, i)) \in Nat
          BY NumbersGrow
        <4> QED BY <2>2, <2>3, <3>3, <4>1 DEF NoId
      <3>5. Open(r) => m = opened + Cardinality(UpTo(response, i))
        BY <2>2, <2>3, <3>2
      <3> HIDE DEF W, Number
      <3>6. W[i] = [r EXCEPT !.id = m]
        BY <2>4, <2>6
      <3>7. /\ W[i] \in DataReplies /\ W[i].id = m /\ W[i].kind = "data"
            /\ W[i].prepared = r.prepared /\ W[i].total = r.total
            /\ W[i].included = r.included
        BY ONLY <2>6, <3>1, <3>4, <3>6 DEF DataReplies
      <3>8. W[i] \in ReplyRecords /\ (Open(W[i]) <=> Open(r))
        BY <2>6, <3>7 DEF ReplyRecords, Open
      <3> QED BY <2>2, <3>2, <3>3, <3>5, <3>7, <3>8
    <2> QED BY <2>5, <2>6
  <1>3. W \in [1 .. Len(response) -> ReplyRecords]
    BY <1>1, <1>2
  <1>4. W \in Seq(ReplyRecords) /\ Len(W) = Len(response)
    BY <1>1, <1>3
  <1> QED BY <1>2, <1>4

(* The results that the server keeps are those that the replies say are     *)
(* not whole, by ids that are new and their own.                            *)
LEMMA ResponseFacts ==
  ASSUME NEW response \in Seq(ReplyRecords), opened \in Nat
  PROVE  /\ Identified(WithIds(response)) /\ Unclosed(WithIds(response)) = Kept(response)
         /\ Cardinality(Created(response)) \in Nat
         /\ \A id \in Kept(response) :
              id \in Nat /\ id > opened /\ id <= opened + Cardinality(Created(response))
PROOF
  <1> DEFINE W == WithIds(response)
  <1>1. Len(W) = Len(response) /\ Len(response) \in Nat
    BY WithIdsIs
  <1>2. ASSUME NEW i \in 1 .. Len(response)
        PROVE  /\ Open(W[i]) <=> Open(response[i])
               /\ Open(response[i]) =>
                    i \in Created(response) /\ W[i].id = opened + Cardinality(UpTo(response, i))
    BY WithIdsIs
  <1>3. Cardinality(Created(response)) \in Nat
    BY NumbersGrow
  <1> HIDE DEF W
  <1>4. ASSUME NEW i \in 1 .. Len(W), Open(W[i])
        PROVE  /\ W[i].id \in Nat /\ W[i].id > opened
               /\ W[i].id <= opened + Cardinality(Created(response))
    <2>1. i \in Created(response) /\ W[i].id = opened + Cardinality(UpTo(response, i))
      BY <1>1, <1>2, <1>4
    <2>2. Cardinality(UpTo(response, i)) \in 1 .. Cardinality(Created(response))
      BY <2>1, NumbersGrow
    <2> QED BY <1>3, <2>1, <2>2
  <1>5. ASSUME NEW i \in 1 .. Len(W), NEW j \in 1 .. Len(W), Open(W[i]), Open(W[j]), i < j
        PROVE  W[i].id # W[j].id
    <2>1. /\ i \in Created(response) /\ W[i].id = opened + Cardinality(UpTo(response, i))
          /\ j \in Created(response) /\ W[j].id = opened + Cardinality(UpTo(response, j))
      BY <1>1, <1>2, <1>5
    <2>2. /\ Cardinality(UpTo(response, i)) \in Nat /\ Cardinality(UpTo(response, j)) \in Nat
          /\ Cardinality(UpTo(response, i)) < Cardinality(UpTo(response, j))
      BY <1>5, <2>1, NumbersGrow
    <2> QED BY <2>1, <2>2
  <1>6. Identified(W)
    <2>1. ASSUME NEW i \in 1 .. Len(W), Open(W[i])
          PROVE  W[i].id # NoId
      BY <1>4, <2>1 DEF NoId
    <2>2. ASSUME NEW i \in 1 .. Len(W), NEW j \in 1 .. Len(W), Open(W[i]), Open(W[j]), i # j
          PROVE  W[i].id # W[j].id
      <3>1. i < j \/ j < i
        BY <1>1, <2>2
      <3> QED BY <1>5, <2>2, <3>1
    <2> QED BY <2>1, <2>2 DEF Identified
  <1>7. ASSUME NEW id
        PROVE  id \in Kept(response) <=> id \in Unclosed(W)
    <2>1. id \in Kept(response) <=>
            \E i \in 1 .. Len(response) :
               i \in Created(response) /\ Open(response[i]) /\ id = W[i].id
      BY Zenon DEF Kept, Created, Open, W
    <2>2. id \in Unclosed(W) <=> \E i \in 1 .. Len(W) : Open(W[i]) /\ id = W[i].id
      BY UnclosedIs
    <2> QED BY <1>1, <1>2, <2>1, <2>2
  <1>8. ASSUME NEW id \in Kept(response)
        PROVE  id \in Nat /\ id > opened /\ id <= opened + Cardinality(Created(response))
    <2>1. PICK i \in 1 .. Len(W) : Open(W[i]) /\ id = W[i].id
      BY <1>7, UnclosedIs
    <2> QED BY <1>4, <2>1
  <1> QED BY <1>3, <1>6, <1>7, <1>8 DEF W

(* A response is a sequence of replies.                                     *)
LEMMA ResponseType ==
  ASSUME NEW response \in Responses
  PROVE  response \in Seq(ReplyRecords)
PROOF
  <1>1. PICK m \in 0 .. MaxReplies : response \in [1 .. m -> Replies]
    BY DEF Responses
  <1>2. response \in [1 .. m -> ReplyRecords] /\ m \in Nat
    BY <1>1, CursorAssumption
  <1> QED BY <1>2

(* install_response.                                                        *)
LEMMA ExecuteStep ==
  ASSUME IInv, NEW response \in Seq(ReplyRecords), NEW delayed_error \in BOOLEAN,
         ExecuteCommand(response, delayed_error)
  PROVE  IInv'
PROOF
  <1> DEFINE W == WithIds(response)
             K == Kept(response)
             size == Cardinality(Created(response))
  <1>1. /\ pc = "exhaust" /\ cur = Exhausted /\ then = "execute" /\ conn
        /\ closes' = {} /\ live' = (live \ closes) \cup K /\ opened' = opened + size
        /\ UNCHANGED <<max_prefetch, reply_size, collected, conn, asked>>
    BY DEF ExecuteCommand
  <1>2. /\ rest = <<>> /\ collected = {} /\ asked.kind = "none" /\ opened \in Nat
        /\ lost \in BOOLEAN /\ live \cup closes \subseteq 1 .. opened
    BY <1>1 DEF IInv, CallInv, TypeOK, Exports
  <1>3. conn /\ ~lost => live = closes
    BY <1>1, <1>2, HeldIs, NothingHeld DEF IInv, KeptInv, ResultsAccounted
  <1>4. /\ W \in Seq(ReplyRecords) /\ Identified(W) /\ Unclosed(W) = K /\ size \in Nat
        /\ \A id \in K : id \in Nat /\ id > opened /\ id <= opened + size
    BY <1>2, WithIdsIs, ResponseFacts
  <1> HIDE DEF K, size
  <1>5. /\ opened' \in Nat /\ K \subseteq 1 .. opened' /\ K \subseteq live'
        /\ closes' \cup collected' \cup live' \subseteq 1 .. opened'
    BY <1>1, <1>2, <1>4
  <1>6. conn' /\ ~lost => live' = K
    BY <1>1, <1>3
  <1>7. CASE Parse(W).ok
    <2>1. /\ cur' = Parse(W).cur /\ rest' = Parse(W).rest /\ seen' = <<>> /\ lost' = lost
          /\ \/ then' = "discard" /\ pc' = "exhaust" /\ ret' = ret
             \/ then' = then /\ pc' = "idle" /\ ret' = "ok"
      BY <1>1, <1>7 DEF ExecuteCommand, Return
    <2>2. /\ cur' \in Parsers /\ rest' \in Seq(ReplyRecords) /\ Fresh(cur')
          /\ cur' = Exhausted => rest' = <<>>
          /\ Identified(rest') /\ ClosedBy(cur') \cap Unclosed(rest') = {}
          /\ HeldBy(cur', rest') = K
      BY <1>4, <1>7, <2>1, ParseFacts
    <2> HIDE DEF W
    <2>3. Held' = K
      BY <2>2, HeldIs
    <2>4. ResultsAccounted'
      BY <1>1, <1>2, <1>6, <2>1, <2>3 DEF ResultsAccounted
    <2>5. KeptInv'
      BY <1>5, <2>2, <2>4, Zenon DEF KeptInv
    <2>6. RowInv'
      <3>1. InPlace(cur', FALSE) => InPlace(cur', lost')
        BY DEF InPlace
      <3>2. seen' = [i \in 1 .. 0 |-> i - 1]
        BY <2>1
      <3> QED BY <2>2, <3>1, <3>2 DEF RowInv, Fresh
    <2>7. TypeOK'
      <3>1. pc' \in Labels /\ then' \in Continuations /\ ret' \in Values /\ seen' \in Seq(Nat)
        BY <1>1, <2>1 DEF IInv, TypeOK, Labels, Continuations, Values
      <3> QED BY <1>1, <1>2, <1>5, <2>1, <2>2, <3>1
              DEF IInv, TypeOK, Labels, Continuations, Values
    <2>8. CallInv' /\ AskedInv'
      BY <1>1, <1>2, <2>1, <2>2 DEF CallInv, AskedInv
    <2> QED BY <2>5, <2>6, <2>7, <2>8, SMTT(30) DEF IInv
  <1>8. CASE ~Parse(W).ok
    <2>1. pc' = "idle" /\ ret' = "err" /\ lost' = TRUE /\ UNCHANGED <<then, cur, rest, seen>>
      BY <1>1, <1>8 DEF ExecuteCommand, Return
    <2>2. HeldBy(cur', rest') = {} /\ Held' = {}
      BY <1>1, <1>2, <2>1, NothingHeld, HeldIs
    <2>3. ResultsAccounted'
      BY <1>1, <1>2, <2>1, <2>2 DEF ResultsAccounted
    <2>4. Identified(rest') /\ ClosedBy(cur') \cap Unclosed(rest') = {}
      BY <1>1, <1>2, <2>1, NothingHeld
    <2>5. KeptInv'
      BY <2>2, <2>3, <2>4, Zenon DEF KeptInv
    <2>6. RowInv'
      BY <1>1, <2>1, NothingHeld DEF RowInv
    <2>7. TypeOK'
      BY <1>1, <1>2, <1>5, <2>1 DEF IInv, TypeOK
    <2>8. CallInv' /\ AskedInv'
      BY <1>1, <1>2, <2>1 DEF CallInv, AskedInv
    <2> QED BY <2>5, <2>6, <2>7, <2>8 DEF IInv
  <1> QED BY <1>7, <1>8

-----------------------------------------------------------------------------
(* IInv is an invariant of the cursor: its replies, rows and exports stay   *)
(* in place whatever calls are made and whatever the server answers.        *)
THEOREM Invariance == Spec => []IInv
PROOF
  <1>1. IInv /\ [Next]_vars => IInv'
    <2> SUFFICES ASSUME IInv, [Next]_vars PROVE IInv'
      OBVIOUS
    <2>1. CASE Begin
      <3>1. CASE Execute \/ Close \/ NextReplyCall \/ NextRow \/ FetchBinary
        BY <3>1, CallStep
      <3>2. CASE (\E n \in ReplySizes : SetReplySize(n)) \/ Drop
        BY <3>2, SettingStep
      <3>3. CASE New
        BY <3>3, NewStep
      <3> QED BY <2>1, <3>1, <3>2, <3>3, Zenon DEF Begin
    <2>2. CASE Running
      <3>1. CASE StepNextReply \/ ExhaustTurn \/ SkipTurn
        BY <3>1, ReadStep
      <3>2. CASE \/ Discarded \/ CommandFails
                 \/ \E delayed_error \in BOOLEAN : CloseCommand(delayed_error)
        BY <3>2, CommandStep
      <3>3. ASSUME NEW response \in Responses,
                   NEW delayed_error \in BOOLEAN, ExecuteCommand(response, delayed_error)
            PROVE  IInv'
        BY <3>3, ResponseType, ExecuteStep
      <3>4. CASE SkipEnds \/ NoMoreRows \/ \E ok \in BOOLEAN : ReceiveBinary(ok)
        BY <3>4, EndStep
      <3>5. CASE Advance
        BY <3>5, AdvanceStep
      <3>6. CASE FetchMoreRows
        BY <3>6, FetchStep
      <3>7. ASSUME NEW k \in 0 .. UsizeMax + 1, NEW refused \in BOOLEAN,
                   ReceiveRows(k, refused)
            PROVE  IInv'
        BY <3>7, ReceiveStep
      <3>8. ASSUME NEW start \in 0 .. 2, NEW count \in 0 .. 2, FetchBinaryInto(start, count)
            PROVE  IInv'
        BY <3>8, BinaryStep
      <3>9. ASSUME NEW stuck \in BOOLEAN, AdvanceFails(stuck)
            PROVE  IInv'
        BY <3>9, AdvanceFailsStep
      <3>10. CASE DropTurn
        BY <3>10, DropStep
      <3> QED BY <2>2, <3>1, <3>2, <3>3, <3>4, <3>5, <3>6, <3>7, <3>8, <3>9, <3>10, Zenon
              DEF Running
    <2>3. CASE UNCHANGED vars
      <3>1. /\ UNCHANGED <<cur, rest, seen, lost, opened, collected, max_prefetch>>
            /\ UNCHANGED <<closes, live, reply_size, conn, pc, then, ret, asked>>
        BY <2>3 DEF vars, cursorVars, serverVars, ghostVars
      <3>2. /\ reply_size' \in 1 .. UsizeMax /\ conn' \in BOOLEAN
            /\ pc' \in Labels /\ then' \in Continuations /\ ret' \in Values
            /\ asked' \in Exports /\ (asked'.kind = "text" => asked'.n \in 1 .. UsizeMax)
        BY <3>1 DEF IInv, TypeOK, Labels, Continuations, Values
      <3>3. CallInv' /\ AskedInv'
        BY <3>1 DEF IInv, CallInv, AskedInv
      <3> QED BY <3>1, <3>2, <3>3, QuietStep
    <2> QED BY <2>1, <2>2, <2>3 DEF Next
  <1> QED BY <1>1, InitIInv, PTL DEF Spec

(* next_row gives the rows of every result in order, each once, for windows *)
(* of any sizes and through all that fails in between (RowSet::advance,     *)
(* count_row, fetch_more_rows).                                             *)
THEOREM InOrder == Spec => []RowsInOrder
PROOF
  <1>1. IInv => RowsInOrder
    BY DEF IInv, RowInv, RowsInOrder, InPlace
  <1> QED BY <1>1, Invariance, PTL

(* No export asks for nothing, for rows the result does not have, or for    *)
(* more than may be read ahead, whatever the width of a usize               *)
(* (decide_next_fetch, fetch_binary_into).                                  *)
THEOREM Windows == Spec => []WindowBounds
PROOF
  <1>1. ASSUME IInv, asked.kind # "none" PROVE WindowBounds
    <2>1. pc = "receive" /\ cur.kind = "data"
      BY <1>1 DEF IInv, CallInv
    <2>2. cur.next_row \in Nat /\ seen = [i \in 1 .. cur.next_row |-> i - 1]
      BY <1>1, <2>1, ResultFacts
    <2>3. Len(seen) = cur.next_row
      BY <2>2, AppendRow
    <2> QED BY <1>1, <2>3 DEF IInv, AskedInv, WindowBounds
  <1>2. IInv => WindowBounds
    BY <1>1 DEF WindowBounds
  <1> QED BY <1>2, Invariance, PTL

(* next_row says that there are no more rows only behind the last one.      *)
THEOREM AllRows == Spec => EndMeansAllRows
PROOF
  <1> DEFINE Ends == pc = "next_row" /\ pc' = "idle" /\ ret' = "false"
  <1>1. IInv /\ [Next]_vars => [Ends => Len(seen) = cur.total]_vars
    <2> SUFFICES ASSUME IInv, Next, Ends PROVE Len(seen) = cur.total
      BY DEF vars
    <2>1. cur.kind = "data"
      BY DEF IInv, CallInv
    <2>2. /\ cur.next_row \in Nat /\ cur.total \in Nat /\ cur.next_row <= cur.total
          /\ seen = [i \in 1 .. cur.next_row |-> i - 1]
      BY <2>1, ResultFacts DEF InPlace
    <2>3. cur.next_row >= cur.total
      <3>1. ~Begin
        BY DEF Begin, Execute, Close, NextReplyCall, NextRow, FetchBinary, Call, Drop, New,
               SetReplySize
      <3>2. CASE Advance \/ FetchMoreRows \/ \E stuck \in BOOLEAN : AdvanceFails(stuck)
        BY <3>2 DEF Advance, FetchMoreRows, AdvanceFails, Return, Goto
      <3>3. CASE NoMoreRows
        BY <3>3 DEF NoMoreRows, AllRead
      <3>4. Running => Advance \/ FetchMoreRows \/ NoMoreRows
                         \/ \E stuck \in BOOLEAN : AdvanceFails(stuck)
        BY DEF Running, StepNextReply, ExhaustTurn, Discarded, CommandFails, CloseCommand,
               ExecuteCommand, SkipTurn, SkipEnds, ReceiveRows, FetchBinaryInto,
               ReceiveBinary, DropTurn
      <3> QED BY <3>1, <3>2, <3>3, <3>4 DEF Next
    <2>4. Len(seen) = cur.next_row
      BY <2>2, AppendRow
    <2> QED BY <2>2, <2>3, <2>4
  <1> QED BY <1>1, Invariance, PTL DEF Spec, EndMeansAllRows

(* An export names a result that the server keeps, whatever was closed      *)
(* before it (Delayed::close_result, and the closes sent with the export).  *)
THEOREM Exported == Spec => []ExportedResultIsLive
PROOF
  <1>1. ASSUME IInv, asked.kind # "none" PROVE ExportedResultIsLive
    <2>1. cur.kind = "data" /\ conn
      BY <1>1 DEF IInv, CallInv
    <2>2. asked.id = cur.id /\ (cur.to_close = NoId => lost)
      BY <1>1 DEF IInv, AskedInv
    <2>3. CASE cur.to_close = NoId
      BY <2>2, <2>3 DEF ExportedResultIsLive
    <2>4. CASE cur.to_close # NoId
      <3>1. cur.to_close = cur.id
        BY <1>1, <2>1, <2>4, ResultFacts
      <3>2. cur.to_close \in HeldBy(cur, rest)
        BY <2>1, <2>4 DEF HeldBy, ClosedBy
      <3> QED BY <1>1, <2>1, <2>2, <3>1, <3>2 DEF IInv, KeptInv, ExportedResultIsLive
    <2> QED BY <2>3, <2>4
  <1>2. IInv => ExportedResultIsLive
    BY <1>1 DEF ExportedResultIsLive
  <1> QED BY <1>2, Invariance, PTL

(* Every result that the server keeps is in one place of the client, and so *)
(* is closed once, for any number of results and of replies.                *)
THEOREM Accounted == Spec => []ResultsAccounted
PROOF
  <1>1. IInv => ResultsAccounted
    BY DEF IInv, KeptInv
  <1> QED BY <1>1, Invariance, PTL
=============================================================================
