----------------------------- MODULE UploadProofs ----------------------------
(***************************************************************************)
(* TransferInStep, FileIsWhole and OkMeansNoTrouble of the module Upload,  *)
(* for files of any size, any size of a chunk and any number of requests.  *)
(*                                                                         *)
(* The argument.  What is under way between client and server is one of a  *)
(* few phases (Between, Granted, Opening and so on), and where the client  *)
(* is in command_with_uploads decides which (PhaseInv).  The bytes that    *)
(* the server has, those in the message under way, those pending and those *)
(* of the slice are the bytes of the file, in this order (Follows); only   *)
(* finish sends a message without bytes, and then there are no others.     *)
(***************************************************************************)
EXTENDS Upload, SequenceTheorems, TLAPS

(* The bytes of the file behind the first a, up to the first b.             *)
Counted(a, b) == [i \in 1 .. b - a |-> a + i]

Accept == Fragment(<<Newline>>, FALSE)
Whole(bytes) == Fragment(bytes, TRUE)
InFlight == c2s[Len(c2s)].bytes

(* The server has read nothing of the file.                                 *)
Fresh == first /\ incoming = <<>> /\ got = <<>> /\ ~ended

(* Nothing is under way, or the next request, or the response.              *)
Between ==
  /\ c2s = <<>>
  /\ \/ s2c = <<>> /\ spc = "run"
     \/ (\E known \in BOOLEAN : s2c = <<Message("request", known)>>) /\ spc = "file" /\ Fresh
     \/ (\E ok \in BOOLEAN : s2c = <<Message("response", ok)>>) /\ spc = "done"

(* The client has taken the request, and refused it or not yet answered.    *)
Granted == s2c = <<>> /\ c2s = <<>> /\ spc = "file" /\ Fresh
RefusalSent ==
  s2c = <<>> /\ c2s = <<Whole(<<Refusal>>)>> /\ spc = "file" /\ Fresh

(* The file is accepted, and no message of it is under way.                 *)
Opening ==
  /\ s2c = <<>> /\ spc = "file"
  /\ \/ Fresh /\ c2s = <<Accept>>
     \/ first /\ incoming = <<Newline>> /\ got = <<>> /\ ~ended /\ c2s = <<>>
     \/ ~first /\ incoming = <<>> /\ c2s = <<>>

(* A message of the file is under way.                                      *)
Sent ==
  /\ s2c = <<>> /\ spc = "file"
  /\ \/ Fresh /\ c2s = <<Accept, Whole(InFlight)>>
     \/ first /\ incoming = <<Newline>> /\ got = <<>> /\ ~ended /\ c2s = <<Whole(InFlight)>>
     \/ ~first /\ incoming = <<>> /\ c2s = <<Whole(InFlight)>>
  /\ InFlight \in Seq(Nat) /\ Len(InFlight) <= ChunkSize
  /\ InFlight = Counted(Len(got), Len(got) + Len(InFlight))
  /\ Len(got) + Len(InFlight) <= written
  /\ InFlight = <<>> => given /\ Len(got) = written

(* The message is answered: the server wants more, has enough, or is done.  *)
More ==
  /\ s2c = <<Message("more", TRUE)>> /\ spc = "file"
  /\ c2s = <<>> /\ ~first /\ incoming = <<>>
Enough ==
  /\ c2s = <<>>
  /\ \/ s2c = <<Message("complete", TRUE)>> /\ spc = "run"
     \/ /\ \E known \in BOOLEAN :
             s2c = <<Message("complete", TRUE), Message("request", known)>>
        /\ spc = "file" /\ Fresh
     \/ /\ \E ok \in BOOLEAN : s2c = <<Message("complete", TRUE), Message("response", ok)>>
        /\ spc = "done"
Responded ==
  /\ \E ok \in BOOLEAN : s2c = <<Message("response", ok)>>
  /\ spc = "done" /\ c2s = <<>>
Over == s2c = <<>> /\ c2s = <<>> /\ spc = "done"

(* What the client still has to send.                                       *)
Follows(n) ==
  /\ n + Len(pending) <= written
  /\ pending = Counted(n, n + Len(pending))
  /\ data = Counted(n + Len(pending), written)

(* What is under way.                                                       *)
Phase ==
  Between \/ RefusalSent \/ Granted \/ Opening \/ Sent \/ More \/ Enough \/ Over

InFile == pc \in {"produce", "chunk", "finish", "finish_again", "finished"}

PhaseInv ==
  /\ pc = "reply" => Between \/ RefusalSent
  /\ InFile /\ outcome = "none" =>
       /\ Follows(Len(got))
       /\ IF started THEN Opening ELSE Granted /\ pending = <<>>
  /\ InFile /\ outcome = "complete" => Between
  /\ InFile /\ outcome \in {"response", "error_response"} => Over
  /\ pc = "prompt" =>
       /\ started /\ outcome = "none"
       /\ \/ Sent /\ Follows(Len(got) + Len(InFlight))
          \/ More /\ Follows(Len(got))
          \/ Enough
          \/ Responded
  /\ pc = "done" =>
       IF ret # "broken" THEN Over ELSE Phase

(* The parts of the type invariant.                                         *)
Labelled ==
  /\ pc \in {"reply", "produce", "chunk", "prompt", "finish", "finish_again",
             "finished", "done"}
  /\ outcome \in {"none", "complete", "response", "error_response"}
ClientTypes ==
  /\ pc \in {"reply", "produce", "chunk", "prompt", "finish", "finish_again",
             "finished", "done"}
  /\ resume \in {"reply", "chunk", "finish", "finish_again", "finished"}
  /\ outcome \in {"none", "complete", "response", "error_response"}
  /\ ret \in {"none", "ok", "producer", "refused", "server", "broken"}
  /\ data \in Seq(Nat) /\ pending \in Seq(Nat) /\ Len(pending) < ChunkSize
  /\ written \in 0 .. MaxBytes
  /\ started \in BOOLEAN /\ signalled \in BOOLEAN
  /\ producer_error \in BOOLEAN /\ refused \in BOOLEAN /\ given \in BOOLEAN
  /\ trouble \in BOOLEAN
ServerTypes ==
  /\ spc \in {"run", "file", "done"}
  /\ incoming \in {<<>>, <<Newline>>} /\ got \in Seq(Nat)
  /\ requests \in 0 .. MaxRequests
  /\ first \in BOOLEAN /\ ended \in BOOLEAN
Small == \A i \in 1 .. Len(c2s) : Len(c2s[i].bytes) <= ChunkSize

Finishing == {"finish", "finish_again", "finished"}

ClientInv ==
  /\ ret = "none" <=> pc # "done"
  /\ pc \notin {"chunk", "prompt", "done"} => data = <<>>
  /\ pc \in {"chunk", "finish_again", "finished"} => started
  /\ InFile /\ outcome # "none" => started
  /\ pc \in {"produce", "chunk"} \/ (pc = "prompt" /\ resume = "chunk") => ~given
  /\ pc = "prompt" => resume # "reply" /\ (resume # "chunk" => data = <<>>)
  /\ pc \in Finishing \/ (pc = "prompt" /\ resume \in Finishing) => given
  /\ \/ pc \in {"finish_again", "finished"}
     \/ pc = "prompt" /\ resume \in {"finish_again", "finished"}
     => pending = <<>>

GotInv == got = Counted(0, Len(got)) /\ (ended => given /\ Len(got) = written)

(* Whatever went wrong is remembered, unless the transport is gone.         *)
TroubleInv ==
  /\ trouble => refused \/ producer_error \/ ret = "broken"
  /\ ret = "ok" => ~refused /\ ~producer_error

IInv == TypeOK /\ PhaseInv /\ ClientInv /\ GotInv /\ TroubleInv
-----------------------------------------------------------------------------
(* Sequences of consecutive bytes.                                          *)

(* Counted(a, b) has the bytes behind the first a up to the first b.        *)
LEMMA CountedIs ==
  ASSUME NEW a \in Nat, NEW b \in Nat, a <= b
  PROVE  /\ Counted(a, b) \in Seq(Nat) /\ Len(Counted(a, b)) = b - a
         /\ \A i \in 1 .. b - a : Counted(a, b)[i] = a + i
  BY DEF Counted

(* There are no bytes between a and a.                                      *)
LEMMA CountedNone ==
  ASSUME NEW a \in Nat
  PROVE  Counted(a, a) = <<>>
  BY CountedIs

(* Bytes up to b and those behind b are the bytes without a gap.            *)
LEMMA CountedJoin ==
  ASSUME NEW a \in Nat, NEW b \in Nat, NEW c \in Nat, a <= b, b <= c
  PROVE  Counted(a, b) \o Counted(b, c) = Counted(a, c)
<1> DEFINE u == Counted(a, b)
           v == Counted(b, c)
           w == Counted(a, c)
<1>1. /\ u \in Seq(Nat) /\ Len(u) = b - a /\ \A i \in 1 .. b - a : u[i] = a + i
      /\ v \in Seq(Nat) /\ Len(v) = c - b /\ \A i \in 1 .. c - b : v[i] = b + i
  BY CountedIs
<1>2. w \in Seq(Nat) /\ Len(w) = c - a /\ \A i \in 1 .. c - a : w[i] = a + i
  <2>1. a <= c
    OBVIOUS
  <2> QED
    BY <2>1, CountedIs
<1> HIDE DEF u, v, w
<1>3. u \o v \in Seq(Nat) /\ Len(u \o v) = c - a
  <2>1. u \o v \in Seq(Nat) /\ Len(u \o v) = Len(u) + Len(v)
    BY <1>1, ConcatProperties
  <2> QED
    BY <1>1, <2>1
<1>4. ASSUME NEW i \in 1 .. c - a PROVE (u \o v)[i] = a + i
  <2>1. CASE i <= b - a
    BY <1>1, <2>1
  <2>2. CASE i > b - a
    <3>1. i - (b - a) \in 1 .. c - b
      BY <2>2
    <3>2. v[i - (b - a)] = b + (i - (b - a))
      BY <1>1, <3>1
    <3>3. (u \o v)[i] = v[i - (b - a)]
      <4>1. i \in 1 .. Len(u) + Len(v) /\ ~(i <= Len(u))
        BY <1>1, <2>2
      <4>2. (u \o v)[i] = v[i - Len(u)]
        BY <1>1, <4>1, ConcatProperties
      <4> QED
        BY <1>1, <4>2
    <3> QED
      BY <3>2, <3>3
  <2> QED
    BY <1>1, <2>1, <2>2
<1>5. \A i \in 1 .. Len(u \o v) : (u \o v)[i] = w[i]
  BY <1>2, <1>3, <1>4
<1>6. u \o v = w
  BY <1>2, <1>3, <1>5, SeqEqual
<1> QED
  BY <1>6 DEF u, v, w

(* A chunk taken from consecutive bytes, and what is left of them.          *)
LEMMA CountedCut ==
  ASSUME NEW a \in Nat, NEW b \in Nat, NEW n \in Nat, a + n <= b
  PROVE  /\ Take(Counted(a, b), n) = Counted(a, a + n)
         /\ From(Counted(a, b), n) = Counted(a + n, b)
<1> DEFINE s == Counted(a, b)
<1>1. s \in Seq(Nat) /\ Len(s) = b - a /\ \A i \in 1 .. b - a : s[i] = a + i
  BY CountedIs
<1>2. Take(s, n) = Counted(a, a + n)
  <2>1. /\ Take(s, n) \in Seq(Nat) /\ Len(Take(s, n)) = n
        /\ \A i \in 1 .. n : Take(s, n)[i] = s[i]
    BY <1>1 DEF Take
  <2>2. \A i \in 1 .. n : Take(s, n)[i] = a + i
    BY <1>1, <2>1
  <2>3. /\ Counted(a, a + n) \in Seq(Nat) /\ Len(Counted(a, a + n)) = n
        /\ \A i \in 1 .. n : Counted(a, a + n)[i] = a + i
    <3>1. a + n \in Nat /\ a <= a + n /\ a + n - a = n
      OBVIOUS
    <3> QED
      BY <3>1, CountedIs
  <2> HIDE DEF s
  <2> QED
    BY <2>1, <2>2, <2>3
<1>3. From(s, n) = Counted(a + n, b)
  <2>1. /\ From(s, n) \in Seq(Nat) /\ Len(From(s, n)) = b - a - n
        /\ \A i \in 1 .. b - a - n : From(s, n)[i] = s[n + i]
    BY <1>1 DEF From
  <2>2. \A i \in 1 .. b - a - n : From(s, n)[i] = a + n + i
    BY <1>1, <2>1
  <2>3. /\ Counted(a + n, b) \in Seq(Nat) /\ Len(Counted(a + n, b)) = b - a - n
        /\ \A i \in 1 .. b - a - n : Counted(a + n, b)[i] = a + n + i
    <3>1. a + n \in Nat /\ b - (a + n) = b - a - n
      OBVIOUS
    <3> QED
      BY <3>1, CountedIs
  <2> HIDE DEF s
  <2> QED
    BY <2>1, <2>2, <2>3
<1> QED
  BY <1>2, <1>3

(* Queues of at most two elements.                                          *)
LEMMA Queues ==
  ASSUME NEW x, NEW y
  PROVE  /\ Append(<<>>, x) = <<x>> /\ Append(<<x>>, y) = <<x, y>>
         /\ Head(<<x>>) = x /\ Tail(<<x>>) = <<>>
         /\ Head(<<x, y>>) = x /\ Tail(<<x, y>>) = <<y>>
         /\ <<x>> # <<>> /\ <<x, y>> # <<>>
<1>1. Append(<<>>, x) = <<x>>
  BY SMTT(30)
<1>2. Append(<<x>>, y) = <<x, y>>
  <2> DEFINE s == Append(<<x>>, y)
             t == <<x, y>>
  <2>1. <<x>> \in Seq({x, y}) /\ y \in {x, y} /\ Len(<<x>>) = 1 /\ <<x>>[1] = x
    OBVIOUS
  <2>2. s \in Seq({x, y}) /\ Len(s) = 2 /\ s[1] = x /\ s[2] = y
    BY <2>1, AppendProperties
  <2>3. t \in Seq({x, y}) /\ Len(t) = 2 /\ t[1] = x /\ t[2] = y
    OBVIOUS
  <2> HIDE DEF s, t
  <2>4. \A i \in 1 .. Len(s) : s[i] = t[i]
    BY <2>2, <2>3
  <2>5. s = t
    BY <2>2, <2>3, <2>4, SeqEqual
  <2> QED
    BY <2>5 DEF s, t
<1>3. Head(<<x>>) = x /\ Head(<<x, y>>) = x
  OBVIOUS
<1>4. Tail(<<x>>) = <<>>
  OBVIOUS
<1>5. Tail(<<x, y>>) = <<y>>
  OBVIOUS
<1>6. <<x>> # <<>> /\ <<x, y>> # <<>>
  OBVIOUS
<1> QED
  BY <1>1, <1>2, <1>3, <1>4, <1>5, <1>6

(* What send_message puts behind a queue of at most one element.            *)
LEMMA Joins ==
  ASSUME NEW x, NEW y
  PROVE  /\ (<<>> \o <<>>) \o <<x>> = <<x>> /\ (<<x>> \o <<>>) \o <<y>> = <<x, y>>
         /\ (<<>> \o <<x>>) \o <<y>> = <<x, y>>
         /\ <<>> \o <<>> = <<>> /\ <<x>> \o <<>> = <<x>> /\ <<>> \o <<x>> = <<x>>
<1>1. <<>> \o <<>> = <<>>
  OBVIOUS
<1>2. <<x>> \o <<>> = <<x>>
  OBVIOUS
<1>3. <<>> \o <<x>> = <<x>>
  OBVIOUS
<1>4. <<x>> \o <<y>> = <<x, y>>
  <2> DEFINE s == <<x>> \o <<y>>
             t == <<x, y>>
  <2>1. /\ <<x>> \in Seq({x, y}) /\ Len(<<x>>) = 1 /\ <<x>>[1] = x
        /\ <<y>> \in Seq({x, y}) /\ Len(<<y>>) = 1 /\ <<y>>[1] = y
    OBVIOUS
  <2>2. s \in Seq({x, y}) /\ Len(s) = 2 /\ s[1] = x /\ s[2] = y
    BY <2>1, ConcatProperties
  <2>3. t \in Seq({x, y}) /\ Len(t) = 2 /\ t[1] = x /\ t[2] = y
    OBVIOUS
  <2> HIDE DEF s, t
  <2>4. \A i \in 1 .. Len(s) : s[i] = t[i]
    BY <2>2, <2>3
  <2>5. s = t
    BY <2>2, <2>3, <2>4, SeqEqual
  <2> QED
    BY <2>5 DEF s, t
<1> QED
  BY <1>1, <1>2, <1>3, <1>4

(* The type invariant in three parts.                                       *)
LEMMA TypesAre ==
  TypeOK <=> ClientTypes /\ ServerTypes /\ Small
BY DEF TypeOK, ClientTypes, ServerTypes, Small

(* Types that many steps need.                                              *)
LEMMA TypeFacts ==
  ASSUME TypeOK
  PROVE  /\ written \in Nat /\ got \in Seq(Nat) /\ Len(got) \in Nat
         /\ pending \in Seq(Nat) /\ Len(pending) \in Nat /\ data \in Seq(Nat)
         /\ ChunkSize \in Nat /\ ChunkSize > 0 /\ Len(pending) < ChunkSize
<1>1. /\ written \in 0 .. MaxBytes /\ got \in Seq(Nat) /\ pending \in Seq(Nat)
      /\ data \in Seq(Nat) /\ Len(pending) < ChunkSize
  BY DEF TypeOK
<1> QED
  BY <1>1, UploadAssumption

(* When the slice is used up, what is pending ends with the last byte.      *)
LEMMA FollowsAll ==
  ASSUME TypeOK, NEW n \in Nat, Follows(n), data = <<>>
  PROVE  n + Len(pending) = written
<1>1. pending \in Seq(Nat) /\ written \in Nat
  BY TypeFacts
<1>2. n + Len(pending) \in Nat /\ n + Len(pending) <= written
  BY <1>1 DEF Follows
<1>3. Len(Counted(n + Len(pending), written)) = written - (n + Len(pending))
  BY <1>1, <1>2, CountedIs
<1>4. Len(Counted(n + Len(pending), written)) = 0
  BY DEF Follows
<1> QED
  BY <1>1, <1>2, <1>3, <1>4

-----------------------------------------------------------------------------
(* The steps of the server, phase by phase.                                 *)

(* Between files the server may send the next request or the response.      *)
LEMMA BetweenStep ==
  ASSUME Between, GotInv, got \in Seq(Nat), Server
  PROVE  Between' /\ GotInv' /\ got' \in Seq(Nat) /\ UNCHANGED <<clientVars, callVars>>
<1>1. ASSUME NEW known \in BOOLEAN, ServerRequests(known)
      PROVE  Between' /\ GotInv' /\ got' \in Seq(Nat)
  <2>1. s2c = <<>> /\ c2s' = <<>> /\ got' = <<>> /\ ~ended'
    BY <1>1 DEF Between, ServerRequests
  <2>2. s2c' = <<Message("request", known)>>
    BY <1>1, <2>1, Queues DEF ServerRequests
  <2>3. Fresh' /\ spc' = "file"
    BY <1>1 DEF ServerRequests, Fresh
  <2>4. GotInv'
    BY <2>1, CountedNone DEF GotInv
  <2> QED
    BY <2>1, <2>2, <2>3, <2>4 DEF Between
<1>2. ASSUME NEW ok \in BOOLEAN, ServerResponds(ok)
      PROVE  Between' /\ GotInv' /\ got' \in Seq(Nat)
  <2>1. s2c = <<>> /\ c2s' = <<>> /\ spc' = "done"
    BY <1>2 DEF Between, ServerResponds
  <2>2. s2c' = <<Message("response", ok)>>
    BY <1>2, <2>1, Queues DEF ServerResponds
  <2>3. GotInv' /\ got' \in Seq(Nat)
    BY <1>2 DEF ServerResponds, GotInv, fileVars
  <2> QED
    BY <2>1, <2>2, <2>3 DEF Between
<1> QED
  BY <1>1, <1>2 DEF Server, Between, ServerReadsFragment, ServerReadsMessage,
                    ServerRequests, ServerResponds

(* The last file is complete for the server, which may go on like Between.  *)
LEMMA EnoughStep ==
  ASSUME Enough, GotInv, got \in Seq(Nat), Server
  PROVE  Enough' /\ GotInv' /\ got' \in Seq(Nat)
<1>1. ASSUME NEW known \in BOOLEAN, ServerRequests(known)
      PROVE  Enough' /\ GotInv' /\ got' \in Seq(Nat)
  <2>1. s2c = <<Message("complete", TRUE)>> /\ c2s' = <<>> /\ got' = <<>> /\ ~ended'
    BY <1>1 DEF Enough, ServerRequests
  <2>2. s2c' = <<Message("complete", TRUE), Message("request", known)>>
    BY <1>1, <2>1, Queues DEF ServerRequests
  <2>3. Fresh' /\ spc' = "file"
    BY <1>1 DEF ServerRequests, Fresh
  <2>4. GotInv'
    BY <2>1, CountedNone DEF GotInv
  <2> QED
    BY <2>1, <2>2, <2>3, <2>4 DEF Enough
<1>2. ASSUME NEW ok \in BOOLEAN, ServerResponds(ok)
      PROVE  Enough' /\ GotInv' /\ got' \in Seq(Nat)
  <2>1. s2c = <<Message("complete", TRUE)>> /\ c2s' = <<>> /\ spc' = "done"
    BY <1>2 DEF Enough, ServerResponds
  <2>2. s2c' = <<Message("complete", TRUE), Message("response", ok)>>
    BY <1>2, <2>1, Queues DEF ServerResponds
  <2>3. GotInv' /\ got' \in Seq(Nat)
    BY <1>2 DEF ServerResponds, GotInv, fileVars
  <2> QED
    BY <2>1, <2>2, <2>3 DEF Enough
<1> QED
  BY <1>1, <1>2 DEF Server, Enough, ServerReadsFragment, ServerReadsMessage

(* The server waits for the client.                                         *)
LEMMA WaitingStep ==
  ASSUME Server, Granted \/ More \/ Over \/ Responded
  PROVE  FALSE
BY DEF Server, Granted, More, Over, Responded, ServerRequests, ServerResponds,
       ServerReadsFragment, ServerReadsMessage

(* A refusal sends the server back to the statement.                        *)
LEMMA RefusalStep ==
  ASSUME RefusalSent, GotInv, got \in Seq(Nat), Server
  PROVE  Between' /\ GotInv' /\ got' \in Seq(Nat)
<1> DEFINE refusal == Whole(<<Refusal>>)
<1>1. /\ c2s = <<refusal>> /\ s2c = <<>> /\ spc = "file" /\ Fresh
      /\ refusal.last = TRUE /\ refusal.bytes = <<Refusal>>
  BY DEF RefusalSent, Whole, Fragment
<1> HIDE DEF refusal
<1>2. Head(c2s) = refusal /\ Tail(c2s) = <<>>
  BY <1>1, Queues
<1>3. PICK answer \in {"more", "complete", "response"}, ok \in BOOLEAN :
        ServerReadsMessage(answer, ok)
  BY <1>1, <1>2 DEF Server, ServerRequests, ServerResponds, ServerReadsFragment
<1>4. incoming \o Head(c2s).bytes = <<Refusal>> /\ first
  BY <1>1, <1>2, Joins DEF Fresh
<1>5. Head(incoming \o Head(c2s).bytes) # Newline
  <2>1. Head(<<Refusal>>) = Refusal
    BY Queues
  <2>2. Refusal # Newline
    BY DEF Refusal, Newline
  <2> QED
    BY <1>4, <2>1, <2>2
<1>6. spc' = "run" /\ UNCHANGED <<s2c, first, got, ended>> /\ c2s' = <<>>
  BY <1>2, <1>3, <1>4, <1>5 DEF ServerReadsMessage
<1>7. UNCHANGED <<given, written>>
  BY <1>3 DEF ServerReadsMessage, fileVars
<1> QED
  BY <1>1, <1>6, <1>7 DEF Between, GotInv

(* The server reads the newline that accepts the file, and waits for more.  *)
LEMMA OpeningStep ==
  ASSUME Opening, Server
  PROVE  Opening' /\ UNCHANGED <<got, ended, given, written>>
<1>1. spc = "file"
  BY DEF Opening
<1>2. c2s # <<>>
  BY <1>1 DEF Server, ServerRequests, ServerResponds, ServerReadsFragment, ServerReadsMessage
<1>3. s2c = <<>> /\ Fresh /\ c2s = <<Accept>>
  BY <1>2 DEF Opening
<1>4. Head(c2s) = Accept /\ Tail(c2s) = <<>>
  BY <1>3, Queues
<1>5. Accept.last = FALSE /\ Accept.bytes = <<Newline>>
  BY SMTT(30) DEF Accept, Fragment
<1>6. ServerReadsFragment
  BY <1>1, <1>4, <1>5 DEF Server, ServerRequests, ServerResponds, ServerReadsMessage
<1>7. incoming' = <<Newline>>
  BY <1>3, <1>4, <1>5, <1>6, Joins DEF ServerReadsFragment, Fresh
<1> QED
  BY <1>1, <1>3, <1>4, <1>6, <1>7 DEF ServerReadsFragment, Opening, Fresh, fileVars

(* The first line of a message.                                             *)
LEMMA FirstLine ==
  ASSUME NEW m \in Seq(Nat)
  PROVE  /\ Head(<<Newline>> \o m) = Newline /\ Tail(<<Newline>> \o m) = m
         /\ <<>> \o m = m
<1> DEFINE s == <<Newline>> \o m
<1>1. <<Newline>> \in Seq(Nat) /\ Len(<<Newline>>) = 1 /\ <<Newline>>[1] = Newline
  BY DEF Newline
<1>2. /\ s \in Seq(Nat) /\ Len(s) = 1 + Len(m) /\ s[1] = Newline
      /\ \A i \in 1 .. Len(m) : s[i + 1] = m[i]
  <2>1. /\ s \in Seq(Nat) /\ Len(s) = 1 + Len(m)
        /\ \A i \in 1 .. 1 + Len(m) : s[i] = IF i <= 1 THEN <<Newline>>[i] ELSE m[i - 1]
    BY <1>1, ConcatProperties
  <2> HIDE DEF s
  <2> QED
    BY <1>1, <2>1
<1> HIDE DEF s
<1>3. s # <<>> /\ Head(s) = Newline
  BY <1>2
<1>4. Tail(s) \in Seq(Nat) /\ Len(Tail(s)) = Len(m) /\ \A i \in 1 .. Len(m) : Tail(s)[i] = m[i]
  BY <1>2, <1>3
<1>5. Tail(s) = m
  BY <1>4, SeqEqual
<1>6. <<>> \o m = m
  OBVIOUS
<1> QED
  BY <1>3, <1>5, <1>6 DEF s

(* The server reads the message that is under way: its bytes follow those   *)
(* that the server has, and a message without bytes is the end of the file. *)
LEMMA SentStep ==
  ASSUME Sent, GotInv, got \in Seq(Nat), written \in Nat, Server
  PROVE  /\ GotInv' /\ got' \in Seq(Nat)
         /\ \/ Sent' /\ got' = got /\ InFlight' = InFlight
            \/ More' /\ Len(got') = Len(got) + Len(InFlight)
            \/ Enough'
            \/ Responded'
<1>1. PICK m : m = InFlight
  OBVIOUS
<1>2. /\ s2c = <<>> /\ spc = "file" /\ m \in Seq(Nat) /\ Len(m) <= ChunkSize
      /\ m = Counted(Len(got), Len(got) + Len(m)) /\ Len(got) + Len(m) <= written
      /\ m = <<>> => given /\ Len(got) = written
  BY <1>1 DEF Sent
<1>3. /\ Accept.last = FALSE /\ Accept.bytes = <<Newline>>
      /\ Whole(m).last = TRUE /\ Whole(m).bytes = m
  BY DEF Accept, Whole, Fragment
<1>4. CASE Fresh /\ c2s = <<Accept, Whole(m)>>
  <2>1. Head(c2s) = Accept /\ Tail(c2s) = <<Whole(m)>>
    BY <1>4, Queues
  <2>2. ServerReadsFragment
    BY <1>2, <1>3, <2>1 DEF Server, ServerRequests, ServerResponds, ServerReadsMessage
  <2>3. incoming' = <<Newline>> /\ c2s' = <<Whole(m)>>
    BY <1>3, <1>4, <2>1, <2>2, Joins DEF ServerReadsFragment, Fresh
  <2>4. UNCHANGED <<s2c, spc, first, got, ended, given, written>>
    BY <2>2 DEF ServerReadsFragment, fileVars
  <2>5. InFlight' = m
    <3>1. Len(<<Whole(m)>>) = 1 /\ <<Whole(m)>>[1] = Whole(m)
      OBVIOUS
    <3> QED
      BY <1>3, <2>3, <3>1 DEF InFlight
  <2>6. first' /\ got' = <<>> /\ ~ended'
    BY <1>4, <2>4 DEF Fresh
  <2>7. Sent'
    BY <1>2, <2>3, <2>4, <2>5, <2>6 DEF Sent
  <2> QED
    BY <1>1, <2>4, <2>5, <2>7 DEF GotInv
<1>5. CASE /\ c2s = <<Whole(m)>>
           /\ \/ first /\ incoming = <<Newline>>
              \/ ~first /\ incoming = <<>>
  <2>1. Head(c2s) = Whole(m) /\ Tail(c2s) = <<>>
    BY <1>5, Queues
  <2>2. PICK answer \in {"more", "complete", "response"}, ok \in BOOLEAN :
          (answer # "response" => ok) /\ ServerReadsMessage(answer, ok)
    BY <1>2, <1>3, <2>1 DEF Server, ServerRequests, ServerResponds, ServerReadsFragment
  <2>3. /\ incoming \o Head(c2s).bytes = incoming \o m
        /\ ~(first /\ Head(incoming \o m) # Newline)
        /\ (IF first THEN Tail(incoming \o m) ELSE incoming \o m) = m
    BY <1>2, <1>3, <1>5, <2>1, FirstLine
  <2>4. /\ got' = got \o m /\ ended' = (ended \/ m = <<>>) /\ first' = FALSE
        /\ s2c' = Append(s2c, Message(answer, ok))
        /\ spc' = CASE answer = "more" -> "file"
                    [] answer = "complete" -> "run"
                    [] answer = "response" -> "done"
        /\ c2s' = <<>> /\ incoming' = <<>> /\ UNCHANGED <<given, written>>
    BY <2>1, <2>2, <2>3 DEF ServerReadsMessage, fileVars
  <2>5. s2c' = <<Message(answer, ok)>>
    BY <1>2, <2>4, Queues
  <2>6. got' = Counted(0, Len(got) + Len(m))
    <3>1. Len(got) \in Nat /\ Len(m) \in Nat /\ got = Counted(0, Len(got))
      BY <1>2 DEF GotInv
    <3>2. Counted(0, Len(got)) \o Counted(Len(got), Len(got) + Len(m))
            = Counted(0, Len(got) + Len(m))
      <4>1. /\ 0 \in Nat /\ Len(got) + Len(m) \in Nat
            /\ 0 <= Len(got) /\ Len(got) <= Len(got) + Len(m)
        BY <3>1
      <4> QED
        BY <3>1, <4>1, CountedJoin
    <3> QED
      BY <1>2, <2>4, <3>1, <3>2
  <2>7. got' \in Seq(Nat) /\ Len(got') = Len(got) + Len(m)
    BY <1>2, <2>4, ConcatProperties
  <2>8. ended' => given' /\ Len(got') = written'
    <3>1. CASE m = <<>>
      BY <1>2, <2>4, <2>7, <3>1
    <3>2. CASE ended /\ m # <<>>
      <4>1. Len(got) = written /\ Len(m) > 0
        BY <1>2, <3>2 DEF GotInv
      <4> QED
        BY <1>2, <4>1
    <3> QED
      BY <2>4, <3>1, <3>2
  <2>9. GotInv'
    BY <2>6, <2>7, <2>8 DEF GotInv
  <2>10. CASE answer = "more"
    BY <1>1, <2>2, <2>4, <2>5, <2>7, <2>9, <2>10 DEF More
  <2>11. CASE answer = "complete"
    BY <2>2, <2>4, <2>5, <2>7, <2>9, <2>11 DEF Enough
  <2>12. CASE answer = "response"
    BY <2>2, <2>4, <2>5, <2>7, <2>9, <2>12 DEF Responded
  <2> QED
    BY <2>10, <2>11, <2>12
<1> QED
  BY <1>1, <1>4, <1>5 DEF Sent

(* Wherever the client is, one of the phases describes what is under way.   *)
LEMMA SomePhase ==
  PhaseInv /\ Labelled => Phase
<1>1. Responded => Between
  BY DEF Responded, Between
<1> QED
  BY <1>1 DEF PhaseInv, InFile, Labelled, Phase

(* No message is longer than a chunk, and only a server that reads a file   *)
(* has something to read.                                                   *)
LEMMA MessagesAreSmall ==
  Phase => Small /\ (spc # "file" => c2s = <<>>)
<1> SUFFICES ASSUME Phase
             PROVE  Small /\ (spc # "file" => c2s = <<>>)
  OBVIOUS
<1> USE DEF Small
<1>1. c2s = <<>> => Small
  OBVIOUS
<1>2. ASSUME NEW f, c2s = <<f>>, Len(f.bytes) <= ChunkSize
      PROVE  Small
  <2>1. Len(c2s) = 1 /\ c2s[1] = f
    BY <1>2
  <2>2. \A i \in 1 .. 1 : i = 1
    OBVIOUS
  <2> QED
    BY <1>2, <2>1, <2>2
<1>3. ASSUME NEW f, NEW g, c2s = <<f, g>>, Len(f.bytes) <= ChunkSize, Len(g.bytes) <= ChunkSize
      PROVE  Small
  <2>1. Len(c2s) = 2 /\ c2s[1] = f /\ c2s[2] = g
    BY <1>3
  <2>2. \A i \in 1 .. 2 : i = 1 \/ i = 2
    OBVIOUS
  <2> QED
    BY <1>3, <2>1, <2>2
<1>4. Accept.bytes = <<Newline>> /\ Whole(<<Refusal>>).bytes = <<Refusal>>
  BY DEF Accept, Whole, Fragment
<1>5. Whole(InFlight).bytes = InFlight
  BY DEF Whole, Fragment
<1>6. Len(<<Newline>>) <= ChunkSize /\ Len(<<Refusal>>) <= ChunkSize
  <2>1. Len(<<Newline>>) = 1 /\ Len(<<Refusal>>) = 1
    OBVIOUS
  <2> QED
    BY <2>1, UploadAssumption
<1>7. CASE Between \/ Granted \/ More \/ Enough \/ Over
  BY <1>1, <1>7 DEF Between, Granted, More, Enough, Over
<1>8. CASE RefusalSent
  BY <1>2, <1>4, <1>6, <1>8 DEF RefusalSent
<1>9. CASE Opening
  BY <1>1, <1>2, <1>4, <1>6, <1>9 DEF Opening
<1>10. CASE Sent
  BY <1>2, <1>3, <1>4, <1>5, <1>6, <1>10 DEF Sent
<1> QED
  BY <1>7, <1>8, <1>9, <1>10 DEF Phase

(* Of a message that is not complete the server has the first line.         *)
LEMMA IncomingStep ==
  ASSUME TypeOK, PhaseInv, Server
  PROVE  incoming' \in {<<>>, <<Newline>>}
<1>1. ASSUME ServerReadsFragment
      PROVE  incoming' = <<Newline>>
  <2>1. Phase
    BY SomePhase DEF TypeOK, Labelled
  <2>2. Whole(<<Refusal>>).last = TRUE /\ Whole(InFlight).last = TRUE
    BY DEF Whole, Fragment
  <2>3. incoming = <<>> /\ Head(c2s) = Accept
    <3>1. CASE RefusalSent
      <4>1. Head(c2s) = Whole(<<Refusal>>)
        BY <3>1, Queues DEF RefusalSent
      <4> QED
        BY <1>1, <2>2, <4>1 DEF ServerReadsFragment
    <3>2. CASE Opening
      <4>1. Fresh /\ c2s = <<Accept>>
        BY <1>1, <3>2 DEF ServerReadsFragment, Opening
      <4> QED
        BY <4>1, Queues DEF Fresh
    <3>3. CASE Sent
      <4>1. CASE c2s = <<Whole(InFlight)>>
        <5>1. Head(c2s) = Whole(InFlight)
          BY <4>1, Queues
        <5> QED
          BY <1>1, <2>2, <5>1 DEF ServerReadsFragment
      <4>2. CASE Fresh /\ c2s = <<Accept, Whole(InFlight)>>
        BY <4>2, Queues DEF Fresh
      <4> QED
        BY <3>3, <4>1, <4>2 DEF Sent
    <3>4. CASE Between \/ Granted \/ More \/ Enough \/ Over
      BY <1>1, <3>4 DEF Between, Granted, More, Enough, Over, ServerReadsFragment
    <3> QED
      BY <2>1, <3>1, <3>2, <3>3, <3>4 DEF Phase
  <2>4. Accept.bytes = <<Newline>>
    BY DEF Accept, Fragment
  <2> QED
    BY <1>1, <2>3, <2>4, Joins DEF ServerReadsFragment
<1>2. incoming \in {<<>>, <<Newline>>}
  BY DEF TypeOK
<1> QED
  BY <1>1, <1>2 DEF Server, ServerRequests, ServerResponds, ServerReadsMessage

(* A step of the server keeps the phases in step with the client.           *)
LEMMA ServerStep ==
  ASSUME IInv, Server
  PROVE  IInv'
<1>1. UNCHANGED <<clientVars, callVars, fileVars, trouble>>
  BY DEF Server, ServerRequests, ServerResponds, ServerReadsFragment, ServerReadsMessage
<1>2. /\ pc' = pc /\ resume' = resume /\ data' = data /\ pending' = pending
      /\ started' = started /\ outcome' = outcome /\ signalled' = signalled
      /\ producer_error' = producer_error /\ refused' = refused /\ ret' = ret
      /\ written' = written /\ given' = given /\ trouble' = trouble
  BY <1>1 DEF clientVars, callVars, fileVars
<1>3. TypeOK /\ PhaseInv /\ GotInv /\ got \in Seq(Nat) /\ written \in Nat
  BY TypeFacts DEF IInv
<1>4. PhaseInv' /\ GotInv' /\ got' \in Seq(Nat)
  <2>1. CASE pc = "reply"
    <3>1. Between' /\ GotInv' /\ got' \in Seq(Nat)
      BY <1>3, <2>1, BetweenStep, RefusalStep DEF PhaseInv
    <3> QED
      BY <1>2, <2>1, <3>1 DEF PhaseInv, InFile
  <2>2. CASE InFile /\ outcome = "none"
    <3>1. started /\ Opening /\ Follows(Len(got))
      BY <1>3, <2>2, WaitingStep DEF PhaseInv
    <3>2. Opening' /\ UNCHANGED <<got, ended, given, written>>
      BY <3>1, OpeningStep
    <3>3. GotInv' /\ got' \in Seq(Nat) /\ Follows(Len(got))'
      BY <1>2, <1>3, <3>1, <3>2 DEF GotInv, Follows
    <3> QED
      BY <1>2, <2>2, <3>1, <3>2, <3>3 DEF PhaseInv, InFile
  <2>3. CASE InFile /\ outcome = "complete"
    <3>1. Between' /\ GotInv' /\ got' \in Seq(Nat)
      BY <1>3, <2>3, BetweenStep DEF PhaseInv
    <3> QED
      BY <1>2, <2>3, <3>1 DEF PhaseInv, InFile
  <2>4. CASE InFile /\ outcome \in {"response", "error_response"}
    BY <1>3, <2>4, WaitingStep DEF PhaseInv
  <2>5. CASE pc = "prompt"
    <3>1. started /\ outcome = "none"
      BY <1>3, <2>5 DEF PhaseInv
    <3>2. CASE Sent /\ Follows(Len(got) + Len(InFlight))
      <4>1. /\ GotInv' /\ got' \in Seq(Nat)
            /\ \/ Sent' /\ got' = got /\ InFlight' = InFlight
               \/ More' /\ Len(got') = Len(got) + Len(InFlight)
               \/ Enough'
               \/ Responded'
        BY <1>3, <3>2, SentStep
      <4>2. PICK n : n = Len(got) + Len(InFlight)
        OBVIOUS
      <4>3. Follows(n)'
        BY <1>2, <3>2, <4>2 DEF Follows
      <4>4. \/ Sent' /\ Follows(Len(got) + Len(InFlight))'
            \/ More' /\ Follows(Len(got))'
            \/ Enough'
            \/ Responded'
        BY <4>1, <4>2, <4>3
      <4> QED
        BY <1>2, <2>5, <3>1, <4>1, <4>4 DEF PhaseInv, InFile
    <3>3. CASE Enough
      <4>1. Enough' /\ GotInv' /\ got' \in Seq(Nat)
        BY <1>3, <3>3, EnoughStep
      <4> QED
        BY <1>2, <2>5, <3>1, <4>1 DEF PhaseInv, InFile
    <3> QED
      BY <1>3, <2>5, <3>2, <3>3, WaitingStep DEF PhaseInv
  <2>6. CASE pc = "done"
    <3>1. ret = "broken"
      BY <1>3, <2>6, WaitingStep DEF PhaseInv
    <3>2. Responded' => Between'
      BY DEF Responded, Between
    <3>3. /\ Between' \/ RefusalSent' \/ Granted' \/ Opening' \/ Sent' \/ More' \/ Enough'
          /\ GotInv' /\ got' \in Seq(Nat)
      <4>1. CASE Between
        BY <1>3, <4>1, BetweenStep
      <4>2. CASE RefusalSent
        BY <1>3, <4>2, RefusalStep
      <4>3. CASE Opening
        BY <1>3, <4>3, OpeningStep DEF GotInv
      <4>4. CASE Sent
        BY <1>3, <3>2, <4>4, SentStep
      <4>5. CASE Enough
        BY <1>3, <4>5, EnoughStep
      <4> QED
        BY <1>3, <2>6, <3>1, <4>1, <4>2, <4>3, <4>4, <4>5, WaitingStep DEF PhaseInv, Phase
    <3> QED
      BY <1>2, <2>6, <3>1, <3>3 DEF PhaseInv, InFile, Phase
  <2> QED
    BY <1>3, <2>1, <2>2, <2>3, <2>4, <2>5, <2>6 DEF TypeOK, InFile
<1>5. ClientInv'
  BY <1>2 DEF IInv, ClientInv, InFile, Finishing
<1>6. TroubleInv'
  BY <1>2 DEF IInv, TroubleInv
<1>7. requests' \in 0 .. MaxRequests
  <2>1. requests \in 0 .. MaxRequests
    BY <1>3, SMTT(30) DEF TypeOK
  <2>2. requests' = requests \/ (requests < MaxRequests /\ requests' = requests + 1)
    BY DEF Server, ServerRequests, ServerResponds, ServerReadsFragment, ServerReadsMessage
  <2> QED
    BY <2>1, <2>2, UploadAssumption
<1>8. spc' \in {"run", "file", "done"} /\ first' \in BOOLEAN /\ ended' \in BOOLEAN
  BY <1>3 DEF TypeOK, Server, ServerRequests, ServerResponds, ServerReadsFragment,
       ServerReadsMessage
<1>9. incoming' \in {<<>>, <<Newline>>}
  BY <1>3, IncomingStep
<1>10. Small'
  <2>1. Labelled'
    BY <1>2, <1>3 DEF TypeOK, Labelled
  <2> QED
    BY <1>4, <2>1, SomePhase, MessagesAreSmall, PTL
<1>11. TypeOK'
  <2>0. ClientTypes
    BY <1>3, TypesAre
  <2>1. ClientTypes'
    BY <1>1, <2>0 DEF ClientTypes, clientVars, callVars, fileVars
  <2>2. ServerTypes'
    BY <1>4, <1>7, <1>8, <1>9 DEF ServerTypes
  <2> QED
    BY <1>10, <2>1, <2>2, TypesAre, PTL
<1> QED
  BY <1>4, <1>5, <1>6, <1>11 DEF IInv

-----------------------------------------------------------------------------
(* The steps of the client.                                                 *)

(* What is left to show for a step of the client.                           *)
LEMMA ClientStep ==
  ASSUME IInv, UNCHANGED serverVars,
         ClientTypes', PhaseInv', ClientInv', GotInv', TroubleInv'
  PROVE  IInv'
<1>1. Labelled'
  BY DEF ClientTypes, Labelled
<1>2. Small'
  BY <1>1, SomePhase, MessagesAreSmall, PTL
<1>3. ServerTypes
  BY TypesAre DEF IInv
<1>4. ServerTypes'
  BY <1>3 DEF ServerTypes, serverVars
<1>5. TypeOK'
  BY <1>2, <1>4, TypesAre, PTL
<1> QED
  BY <1>5 DEF IInv

(* The server's part of the invariant, when the client moves on.            *)
LEMMA GotKept ==
  ASSUME GotInv, UNCHANGED serverVars, UNCHANGED <<given, written>>
  PROVE  GotInv'
BY DEF GotInv, serverVars

(* The result of a call that has a response.                                *)
LEMMA FinalIs ==
  ASSUME NEW ok \in BOOLEAN, NEW failed \in BOOLEAN
  PROVE  /\ Final(ok, failed) \in {"ok", "producer", "refused", "server"}
         /\ Final(ok, failed) = "ok" => ~refused /\ ~failed
BY DEF Final, FinalIgnoringProducer

(* The transport fails.                                                     *)
LEMMA BreakStep ==
  ASSUME IInv, Break
  PROVE  IInv'
<1>1. /\ pc # "done" /\ pc' = "done" /\ ret' = "broken"
      /\ UNCHANGED <<resume, data, pending, started, outcome, signalled, producer_error,
                     refused, c2s, s2c, written, given, trouble>>
      /\ UNCHANGED serverVars
  BY DEF Break, fileVars
<1>2. UNCHANGED <<spc, incoming, first, got, ended>>
  BY <1>1 DEF serverVars
<1>3. Phase
  BY SomePhase DEF IInv, TypeOK, Labelled
<1>4. Phase'
  BY <1>1, <1>2, <1>3 DEF Phase, Between, RefusalSent, Granted, Opening, Sent, More, Enough,
       Over, Fresh, InFlight
<1>5. PhaseInv'
  BY <1>1, <1>4 DEF PhaseInv, InFile
<1>6. ClientInv'
  BY <1>1 DEF ClientInv, InFile, Finishing
<1>7. GotInv'
  BY <1>1, GotKept DEF IInv
<1>8. TroubleInv'
  BY <1>1 DEF TroubleInv
<1>9. ClientTypes'
  <2>1. ClientTypes
    BY TypesAre DEF IInv
  <2> QED
    BY <1>1, <2>1 DEF ClientTypes
<1> QED
  BY <1>1, <1>5, <1>6, <1>7, <1>8, <1>9, ClientStep

(* The response ends the call, a request is refused or goes to a callback.  *)
LEMMA ReadReplyStep ==
  ASSUME IInv, ReadReply
  PROVE  IInv'
<1>1. /\ pc = "reply" /\ s2c # <<>> /\ s2c' = Tail(s2c)
      /\ resume' = resume /\ data' = data /\ producer_error' = producer_error
      /\ trouble' = (trouble \/ c2s' # c2s) /\ UNCHANGED serverVars
  BY DEF ReadReply
<1>2. UNCHANGED <<spc, incoming, first, got, ended>>
  BY <1>1 DEF serverVars
<1>3. Between /\ data = <<>> /\ ret = "none" /\ GotInv
  BY <1>1 DEF IInv, PhaseInv, ClientInv, RefusalSent
<1>4. ClientTypes
  BY TypesAre DEF IInv
<1>5. producer_error \in BOOLEAN /\ refused \in BOOLEAN /\ trouble \in BOOLEAN
  BY <1>4 DEF ClientTypes
<1>6. trouble => refused \/ producer_error
  BY <1>3 DEF IInv, TroubleInv
<1>7. CASE Head(s2c).kind = "response"
  <2>1. PICK ok \in BOOLEAN :
          s2c = <<Message("response", ok)>> /\ spc = "done" /\ c2s = <<>>
    <3>1. ASSUME NEW known \in BOOLEAN, s2c = <<Message("request", known)>>
          PROVE  FALSE
      BY <1>7, <3>1, Queues DEF Message
    <3> QED
      BY <1>1, <1>3, <3>1 DEF Between
  <2>2. Head(s2c) = Message("response", ok) /\ Head(s2c).ok = ok /\ s2c' = <<>>
    BY <1>1, <2>1, Queues DEF Message
  <2>3. /\ pc' = "done" /\ ret' = Final(ok, producer_error)
        /\ UNCHANGED <<c2s, refused, pending, started, outcome, signalled, given, written>>
    BY <1>7, <2>2 DEF ReadReply, Conclude, fileVars
  <2>4. /\ ret' \in {"ok", "producer", "refused", "server"}
        /\ ret' = "ok" => ~refused /\ ~producer_error
    BY <1>5, <2>3, FinalIs
  <2>5. Over'
    BY <1>2, <2>1, <2>2, <2>3 DEF Over
  <2>6. PhaseInv'
    BY <2>3, <2>4, <2>5 DEF PhaseInv, InFile
  <2>7. ClientInv'
    BY <2>3, <2>4 DEF ClientInv, InFile, Finishing
  <2>8. TroubleInv'
    BY <1>1, <1>6, <2>3, <2>4 DEF TroubleInv
  <2>9. GotInv'
    BY <1>1, <1>3, <2>3, GotKept
  <2>10. ClientTypes'
    <3>1. trouble' \in BOOLEAN
      BY <1>1, <1>5, <2>3
    <3> QED
      BY <1>1, <1>4, <2>3, <2>4, <3>1 DEF ClientTypes
  <2> QED
    BY <1>1, <2>6, <2>7, <2>8, <2>9, <2>10, ClientStep
<1>8. CASE Head(s2c).kind = "request"
  <2>1. PICK known \in BOOLEAN :
          s2c = <<Message("request", known)>> /\ spc = "file" /\ Fresh /\ c2s = <<>>
    <3>1. ASSUME NEW ok \in BOOLEAN, s2c = <<Message("response", ok)>>
          PROVE  FALSE
      BY <1>8, <3>1, Queues DEF Message
    <3> QED
      BY <1>1, <1>3, <3>1 DEF Between
  <2>2. s2c' = <<>> /\ Fresh'
    BY <1>1, <1>2, <2>1, Queues DEF Fresh
  <2>3. CASE Refuse /\ UNCHANGED <<pc, ret, pending, started, outcome, signalled, fileVars>>
    <3>1. /\ c2s' = <<Whole(<<Refusal>>)>> /\ refused' = TRUE
          /\ pc' = "reply" /\ ret' = "none"
          /\ UNCHANGED <<pending, started, outcome, signalled, given, written>>
      BY <1>1, <1>3, <2>1, <2>3, Queues DEF Refuse, RefusalIsFinal, Whole, fileVars
    <3>2. RefusalSent'
      BY <1>2, <2>1, <2>2, <3>1 DEF RefusalSent
    <3>3. PhaseInv'
      BY <3>1, <3>2 DEF PhaseInv, InFile
    <3>4. ClientInv'
      BY <1>1, <1>3, <3>1 DEF ClientInv, InFile, Finishing
    <3>5. TroubleInv'
      BY <3>1 DEF TroubleInv
    <3>6. GotInv'
      BY <1>1, <1>3, <3>1, GotKept
    <3>7. ClientTypes'
      <4>1. trouble' \in BOOLEAN
        BY <1>1, <1>5
      <4> QED
        BY <1>1, <1>4, <3>1, <4>1 DEF ClientTypes
    <3> QED
      BY <1>1, <3>3, <3>4, <3>5, <3>6, <3>7, ClientStep
  <2>4. CASE /\ pc' = "produce" /\ pending' = <<>> /\ started' = FALSE /\ outcome' = "none"
             /\ signalled' = FALSE /\ written' = 0 /\ given' = FALSE
             /\ UNCHANGED <<c2s, refused, ret>>
    <3>1. Granted'
      BY <1>2, <2>1, <2>2, <2>4 DEF Granted
    <3>2. Follows(Len(got))'
      <4>1. got' = <<>> /\ data' = <<>> /\ Len(<<>>) = 0 /\ Counted(0, 0) = <<>>
        BY <1>1, <1>3, <2>2, CountedNone DEF Fresh
      <4> QED
        BY <2>4, <4>1 DEF Follows
    <3>3. PhaseInv'
      BY <2>4, <3>1, <3>2 DEF PhaseInv, InFile
    <3>4. ClientInv'
      BY <1>1, <1>3, <2>4 DEF ClientInv, InFile, Finishing
    <3>5. TroubleInv'
      BY <1>1, <1>3, <1>6, <2>4 DEF TroubleInv
    <3>6. GotInv'
      BY <1>2, <1>3, <2>2 DEF GotInv, Fresh
    <3>7. ClientTypes'
      <4>1. trouble' \in BOOLEAN /\ 0 \in 0 .. MaxBytes
        BY <1>1, <1>5, UploadAssumption
      <4>2. pending' \in Seq(Nat) /\ Len(pending') < ChunkSize
        BY <2>4, UploadAssumption
      <4> QED
        BY <1>1, <1>4, <2>4, <4>1, <4>2 DEF ClientTypes
    <3> QED
      BY <1>1, <3>3, <3>4, <3>5, <3>6, <3>7, ClientStep
  <2> QED
    BY <1>8, <2>3, <2>4 DEF ReadReply
<1> QED
  BY <1>7, <1>8 DEF ReadReply

(* The server's answer to a message.                                        *)
LEMMA ReadPromptStep ==
  ASSUME IInv, ReadPrompt
  PROVE  IInv'
<1>1. /\ pc = "prompt" /\ s2c # <<>> /\ s2c' = Tail(s2c) /\ pc' = resume
      /\ UNCHANGED <<resume, data, pending, started, signalled, producer_error, refused, ret,
                     c2s, given, written, trouble>>
      /\ UNCHANGED serverVars
  BY DEF ReadPrompt, callVars, fileVars
<1>2. UNCHANGED <<spc, incoming, first, got, ended>>
  BY <1>1 DEF serverVars
<1>3. /\ started /\ outcome = "none" /\ GotInv /\ ClientInv /\ ret = "none"
      /\ resume \in {"chunk", "finish", "finish_again", "finished"}
  BY <1>1 DEF IInv, PhaseInv, ClientInv, TypeOK
<1>4. ClientTypes
  BY TypesAre DEF IInv
<1>5. \/ outcome' = "none" /\ Opening' /\ Follows(Len(got))'
      \/ outcome' = "complete" /\ Between'
      \/ outcome' \in {"response", "error_response"} /\ Over'
  <2>1. CASE More /\ Follows(Len(got))
    <3>1. Head(s2c).kind = "more" /\ s2c' = <<>>
      BY <1>1, <2>1, Queues DEF More, Message
    <3>2. outcome' = "none"
      BY <3>1 DEF ReadPrompt
    <3> QED
      BY <1>1, <1>2, <2>1, <3>1, <3>2 DEF More, Opening, Follows
  <2>2. CASE Enough
    <3>1. Head(s2c).kind = "complete"
      BY <2>2, Queues DEF Enough, Message
    <3>2. outcome' = "complete"
      BY <3>1 DEF ReadPrompt
    <3>3. Between'
      <4>1. CASE s2c = <<Message("complete", TRUE)>> /\ spc = "run"
        BY <1>1, <1>2, <2>2, <4>1, Queues DEF Enough, Between
      <4>2. ASSUME NEW known \in BOOLEAN, spc = "file", Fresh,
                   s2c = <<Message("complete", TRUE), Message("request", known)>>
            PROVE  Between'
        <5>1. s2c' = <<Message("request", known)>> /\ Fresh'
          BY <1>1, <1>2, <4>2, Queues DEF Fresh
        <5> QED
          BY <1>1, <1>2, <2>2, <4>2, <5>1 DEF Enough, Between
      <4>3. ASSUME NEW ok \in BOOLEAN, spc = "done",
                   s2c = <<Message("complete", TRUE), Message("response", ok)>>
            PROVE  Between'
        <5>1. s2c' = <<Message("response", ok)>>
          BY <1>1, <4>3, Queues
        <5> QED
          BY <1>1, <1>2, <2>2, <4>3, <5>1 DEF Enough, Between
      <4> QED
        BY <2>2, <4>1, <4>2, <4>3 DEF Enough
    <3> QED
      BY <3>2, <3>3
  <2>3. CASE Responded
    <3>1. Head(s2c).kind = "response" /\ s2c' = <<>>
      BY <1>1, <2>3, Queues DEF Responded, Message
    <3>2. outcome' \in {"response", "error_response"}
      BY <3>1 DEF ReadPrompt
    <3> QED
      BY <1>1, <1>2, <2>3, <3>1, <3>2 DEF Responded, Over
  <2> QED
    BY <1>1, <2>1, <2>2, <2>3 DEF IInv, PhaseInv, Sent
<1>6. PhaseInv'
  BY <1>1, <1>3, <1>5 DEF PhaseInv, InFile
<1>7. ClientInv'
  BY <1>1, <1>3 DEF ClientInv, InFile, Finishing
<1>8. GotInv'
  BY <1>1, <1>3, GotKept
<1>9. TroubleInv'
  BY <1>1 DEF IInv, TroubleInv
<1>10. ClientTypes'
  <2>1. outcome' \in {"none", "complete", "response", "error_response"}
    BY <1>5
  <2> QED
    BY <1>1, <1>3, <1>4, <2>1 DEF ClientTypes
<1> QED
  BY <1>1, <1>6, <1>7, <1>8, <1>9, <1>10, ClientStep

(* start and send_message: a message that continues the file is under way.  *)
LEMMA SendStep ==
  ASSUME TypeOK, IF started THEN Opening ELSE Granted,
         NEW m \in Seq(Nat), m = Counted(Len(got), Len(got) + Len(m)), Len(m) <= ChunkSize,
         Len(got) + Len(m) <= written, m = <<>> => given /\ Len(got) = written,
         c2s' = c2s \o Start \o <<Fragment(m, TRUE)>>,
         UNCHANGED <<s2c, given, written>>, UNCHANGED serverVars
  PROVE  Sent' /\ InFlight' = m
<1>1. UNCHANGED <<spc, incoming, first, got, ended>>
  BY DEF serverVars
<1>2. Whole(m) = Fragment(m, TRUE) /\ Whole(m).bytes = m /\ Fragment(<<Newline>>, FALSE) = Accept
  BY DEF Whole, Accept, Fragment
<1>3. \/ c2s' = <<Whole(m)>>
      \/ c2s' = <<Accept, Whole(m)>>
  BY <1>2, Joins DEF Start, Opening, Granted
<1>4. InFlight' = m
  <2>1. CASE c2s' = <<Whole(m)>>
    <3>1. Len(<<Whole(m)>>) = 1 /\ <<Whole(m)>>[1] = Whole(m)
      OBVIOUS
    <3> QED
      BY <1>2, <2>1, <3>1 DEF InFlight
  <2>2. CASE c2s' = <<Accept, Whole(m)>>
    <3>1. Len(<<Accept, Whole(m)>>) = 2 /\ <<Accept, Whole(m)>>[2] = Whole(m)
      OBVIOUS
    <3> QED
      BY <1>2, <2>2, <3>1 DEF InFlight
  <2> QED
    BY <1>3, <2>1, <2>2
<1>5. \/ Fresh /\ c2s' = <<Accept, Whole(m)>>
      \/ first /\ incoming = <<Newline>> /\ got = <<>> /\ ~ended /\ c2s' = <<Whole(m)>>
      \/ ~first /\ incoming = <<>> /\ c2s' = <<Whole(m)>>
  BY <1>2, Joins DEF Start, Opening, Granted
<1>6. s2c' = <<>> /\ spc' = "file"
  BY <1>1 DEF Opening, Granted
<1>7. Sent'
  BY <1>1, <1>4, <1>5, <1>6 DEF Sent, Fresh
<1> QED
  BY <1>4, <1>7

(* finish sends what is pending.                                            *)
LEMMA FinishFlushStep ==
  ASSUME IInv, FinishFlush
  PROVE  IInv'
<1>1. /\ pc = "finish" /\ outcome = "none" /\ pending # <<>>
      /\ pc' = "prompt" /\ resume' = "finish" /\ pending' = <<>>
      /\ c2s' = c2s \o <<>> \o <<Fragment(pending, TRUE)>>
      /\ UNCHANGED <<data, started, outcome, signalled, producer_error, refused, ret, s2c,
                     given, written, trouble>>
      /\ UNCHANGED serverVars
  BY DEF FinishFlush, AllFlushed, SendMessage, callVars, fileVars
<1>2. /\ started /\ Opening /\ Follows(Len(got)) /\ data = <<>> /\ given /\ ret = "none"
      /\ TypeOK /\ GotInv
  BY <1>1 DEF IInv, PhaseInv, ClientInv, InFile, Finishing
<1>3. /\ Len(got) \in Nat /\ pending \in Seq(Nat) /\ Len(pending) \in Nat
      /\ ChunkSize \in Nat /\ Len(pending) < ChunkSize /\ written \in Nat
  BY <1>2, TypeFacts
<1>4. Sent' /\ InFlight' = pending
  <2>1. /\ pending = Counted(Len(got), Len(got) + Len(pending)) /\ Len(pending) <= ChunkSize
        /\ Len(got) + Len(pending) <= written
    BY <1>2, <1>3 DEF Follows
  <2>2. c2s' = c2s \o Start \o <<Fragment(pending, TRUE)>>
    BY <1>1, <1>2 DEF Start
  <2> QED
    BY <1>1, <1>2, <1>3, <2>1, <2>2, SendStep
<1>5. Follows(Len(got) + Len(InFlight))'
  <2>1. PICK n \in Nat : n = Len(got) + Len(pending)
    BY <1>3
  <2>2. n <= written /\ data = Counted(n, written)
    BY <1>2, <2>1 DEF Follows
  <2>3. /\ Len(<<>>) = 0 /\ n + 0 = n /\ Counted(n, n) = <<>>
    BY CountedNone
  <2>4. Follows(n)'
    BY <1>1, <2>2, <2>3 DEF Follows
  <2>5. got' = got
    BY <1>1 DEF serverVars
  <2> QED
    BY <1>4, <2>1, <2>4, <2>5
<1>6. PhaseInv'
  BY <1>1, <1>2, <1>4, <1>5 DEF PhaseInv, InFile
<1>7. ClientInv'
  BY <1>1, <1>2 DEF ClientInv, InFile, Finishing
<1>8. GotInv'
  BY <1>1, <1>2, GotKept
<1>9. TroubleInv'
  BY <1>1 DEF IInv, TroubleInv
<1>10. ClientTypes'
  <2>1. ClientTypes
    BY <1>2, TypesAre
  <2>2. pending' \in Seq(Nat) /\ Len(pending') < ChunkSize
    BY <1>1, UploadAssumption
  <2> QED
    BY <1>1, <2>1, <2>2 DEF ClientTypes
<1> QED
  BY <1>1, <1>6, <1>7, <1>8, <1>9, <1>10, ClientStep

(* finish sends a message without bytes once all bytes are sent.            *)
LEMMA EmptyStep ==
  ASSUME IInv, pc \in {"finish", "finish_again"}, outcome = "none", pending = <<>>,
         c2s' = c2s \o Start \o <<Fragment(<<>>, TRUE)>>, pc' = "prompt",
         resume' \in {"finish_again", "finished"}, started' = TRUE,
         UNCHANGED <<data, pending, outcome, signalled, producer_error, refused, ret, s2c,
                     given, written, trouble>>,
         UNCHANGED serverVars
  PROVE  IInv'
<1>1. /\ IF started THEN Opening ELSE Granted
      /\ Follows(Len(got)) /\ data = <<>> /\ given /\ ret = "none" /\ TypeOK /\ GotInv
  BY DEF IInv, PhaseInv, ClientInv, InFile, Finishing
<1>2. Len(got) \in Nat /\ ChunkSize \in Nat /\ written \in Nat
  BY <1>1, TypeFacts
<1>3. Len(got) = written
  <2>1. Len(got) + Len(pending) = written
    BY <1>1, <1>2, FollowsAll
  <2> QED
    BY <1>2, <2>1
<1>4. PICK m : m = <<>>
  OBVIOUS
<1>5. /\ m \in Seq(Nat) /\ Len(m) = 0 /\ Len(got) + Len(m) = Len(got)
      /\ m = Counted(Len(got), Len(got) + Len(m))
  BY <1>2, <1>4, CountedNone
<1>6. Sent' /\ InFlight' = m
  <2>1. Len(m) <= ChunkSize /\ Len(got) + Len(m) <= written
    BY <1>2, <1>3, <1>5
  <2>2. c2s' = c2s \o Start \o <<Fragment(m, TRUE)>>
    BY <1>4
  <2> QED
    BY <1>1, <1>3, <1>5, <2>1, <2>2, SendStep
<1>7. Follows(Len(got) + Len(InFlight))'
  <2>1. got' = got
    BY DEF serverVars
  <2>2. Follows(Len(got))'
    BY <1>1, <2>1 DEF Follows
  <2> QED
    BY <1>5, <1>6, <2>1, <2>2
<1>8. PhaseInv'
  BY <1>6, <1>7 DEF PhaseInv, InFile
<1>9. ClientInv'
  BY <1>1 DEF ClientInv, InFile, Finishing
<1>10. GotInv'
  BY <1>1, GotKept
<1>11. TroubleInv'
  BY DEF IInv, TroubleInv
<1>12. ClientTypes'
  <2>1. ClientTypes
    BY <1>1, TypesAre
  <2> QED
    BY <2>1 DEF ClientTypes
<1> QED
  BY <1>8, <1>9, <1>10, <1>11, <1>12, ClientStep

(* A turn of write_chunk: a message of the size of a chunk, or all that is  *)
(* there becomes pending, or the rest is not wanted.                        *)
LEMMA ChunkTurnStep ==
  ASSUME IInv, ChunkTurn
  PROVE  IInv'
<1> DEFINE buffer == pending \o data
<1>1. /\ pc = "chunk"
      /\ UNCHANGED <<started, outcome, producer_error, refused, ret, s2c, given, written,
                     trouble>>
      /\ UNCHANGED serverVars
  BY DEF ChunkTurn, callVars, fileVars
<1>2. /\ started /\ ~given /\ ret = "none" /\ TypeOK /\ GotInv
      /\ outcome \in {"none", "complete", "response", "error_response"}
  BY <1>1 DEF IInv, ClientInv, TypeOK
<1>3. /\ Len(got) \in Nat /\ pending \in Seq(Nat) /\ Len(pending) \in Nat /\ data \in Seq(Nat)
      /\ ChunkSize \in Nat /\ ChunkSize > 0 /\ Len(pending) < ChunkSize /\ written \in Nat
  BY <1>2, TypeFacts
<1>4. PICK n \in Nat : n = Len(got)
  BY <1>3
<1>5. got' = got /\ UNCHANGED <<spc, incoming, first, ended>>
  BY <1>1 DEF serverVars
<1>6. GotInv' /\ TroubleInv'
  BY <1>1, <1>2, GotKept DEF IInv, TroubleInv
<1>7. ClientTypes
  BY <1>2, TypesAre
<1>8. ASSUME outcome = "none"
      PROVE  /\ Opening /\ n <= written /\ buffer = Counted(n, written)
             /\ Len(buffer) = written - n /\ buffer \in Seq(Nat)
  <2>1. Opening /\ Follows(n)
    BY <1>1, <1>2, <1>4, <1>8 DEF IInv, PhaseInv, InFile
  <2>2. PICK m \in Nat : m = n + Len(pending)
    BY <1>3
  <2>3. n <= m /\ m <= written /\ pending = Counted(n, m) /\ data = Counted(m, written)
    BY <1>3, <2>1, <2>2 DEF Follows
  <2>4. buffer = Counted(n, written)
    BY <1>3, <2>3, CountedJoin
  <2>5. n <= written
    BY <1>3, <2>3
  <2> QED
    BY <1>3, <2>1, <2>4, <2>5, CountedIs
<1> HIDE DEF buffer
<1>9. CASE /\ outcome = "none" /\ FillsChunk(buffer)
           /\ SendMessage(<<>>, Take(buffer, ChunkSize), "chunk")
           /\ data' = From(buffer, ChunkSize) /\ pending' = <<>>
           /\ UNCHANGED signalled
  <2>1. PICK m \in Nat : m = n + ChunkSize
    BY <1>3
  <2>2. n <= m /\ m <= written /\ n <= written
    BY <1>3, <1>8, <1>9, <2>1 DEF FillsChunk
  <2>3. /\ Take(buffer, ChunkSize) = Counted(n, m) /\ data' = Counted(m, written)
        /\ Counted(n, m) \in Seq(Nat) /\ Len(Counted(n, m)) = ChunkSize
        /\ Counted(m, written) \in Seq(Nat)
    <3>1. Take(buffer, ChunkSize) = Counted(n, m) /\ From(buffer, ChunkSize) = Counted(m, written)
      BY <1>3, <1>8, <1>9, <2>1, <2>2, CountedCut
    <3>2. Counted(n, m) \in Seq(Nat) /\ Len(Counted(n, m)) = m - n
      BY <2>2, CountedIs
    <3>3. Counted(m, written) \in Seq(Nat)
      BY <1>3, <2>2, CountedIs
    <3> QED
      BY <1>3, <1>9, <2>1, <3>1, <3>2, <3>3
  <2>4. PICK chunk \in Seq(Nat) : chunk = Counted(n, m)
    BY <2>3
  <2>5. c2s' = c2s \o Start \o <<Fragment(chunk, TRUE)>> /\ pc' = "prompt" /\ resume' = "chunk"
    BY <1>2, <1>9, <2>3, <2>4 DEF SendMessage, Start
  <2>6. /\ Len(chunk) = ChunkSize /\ Len(got) + Len(chunk) = m /\ chunk # <<>>
        /\ chunk = Counted(Len(got), Len(got) + Len(chunk))
    BY <1>3, <1>4, <2>1, <2>3, <2>4
  <2>7. Sent' /\ InFlight' = chunk
    <3>1. Len(chunk) <= ChunkSize /\ Len(got) + Len(chunk) <= written
      BY <1>3, <2>2, <2>6
    <3> QED
      BY <1>1, <1>2, <1>8, <1>9, <2>5, <2>6, <3>1, SendStep
  <2>8. Follows(m)'
    <3>1. Len(<<>>) = 0 /\ m + 0 = m /\ Counted(m, m) = <<>>
      BY CountedNone
    <3> QED
      BY <1>1, <1>9, <2>2, <2>3, <3>1 DEF Follows
  <2>9. Follows(Len(got) + Len(InFlight))'
    BY <1>5, <2>6, <2>7, <2>8
  <2>10. PhaseInv'
    BY <1>1, <1>2, <1>9, <2>5, <2>7, <2>9 DEF PhaseInv, InFile
  <2>11. ClientInv'
    BY <1>1, <1>2, <1>9, <2>5 DEF ClientInv, InFile, Finishing
  <2>12. ClientTypes'
    <3>1. data' \in Seq(Nat) /\ pending' \in Seq(Nat) /\ Len(pending') < ChunkSize
      BY <1>9, <2>3, UploadAssumption
    <3> QED
      BY <1>1, <1>7, <1>9, <2>5, <3>1 DEF ClientTypes
  <2> QED
    BY <1>1, <1>6, <2>10, <2>11, <2>12, ClientStep
<1>10. CASE /\ outcome = "none" /\ ~FillsChunk(buffer)
            /\ pending' = buffer /\ data' = <<>> /\ pc' = "produce"
            /\ UNCHANGED <<c2s, resume, signalled>>
  <2>1. Opening'
    BY <1>1, <1>5, <1>8, <1>10 DEF Opening, Fresh
  <2>2. Len(buffer) < ChunkSize
    BY <1>3, <1>8, <1>10 DEF FillsChunk
  <2>3. Follows(n)'
    <3>1. n + Len(buffer) = written /\ Counted(written, written) = <<>>
      BY <1>3, <1>8, <1>10, CountedNone
    <3>2. pending' = Counted(n, written) /\ n + Len(pending') = written /\ written' = written
      BY <1>1, <1>8, <1>10, <3>1
    <3> QED
      BY <1>3, <1>10, <3>1, <3>2 DEF Follows
  <2>4. PhaseInv'
    BY <1>1, <1>2, <1>4, <1>5, <1>10, <2>1, <2>3 DEF PhaseInv, InFile
  <2>5. ClientInv'
    BY <1>1, <1>2, <1>10 DEF ClientInv, InFile, Finishing
  <2>6. ClientTypes'
    BY <1>1, <1>7, <1>8, <1>10, <2>2 DEF ClientTypes
  <2> QED
    BY <1>1, <1>6, <2>4, <2>5, <2>6, ClientStep
<1>11. CASE /\ outcome # "none"
            /\ signalled' = (signalled \/ data # <<>>)
            /\ data' = <<>> /\ pc' = "produce"
            /\ UNCHANGED <<c2s, resume, pending>>
  <2>1. /\ outcome = "complete" => Between'
        /\ outcome \in {"response", "error_response"} => Over'
    BY <1>1, <1>5, <1>11 DEF IInv, PhaseInv, InFile, Between, Over, Fresh
  <2>2. PhaseInv'
    BY <1>1, <1>11, <2>1 DEF PhaseInv, InFile
  <2>3. ClientInv'
    BY <1>1, <1>2, <1>11 DEF ClientInv, InFile, Finishing
  <2>4. ClientTypes'
    <3>1. signalled' \in BOOLEAN /\ data' \in Seq(Nat)
      BY <1>7, <1>11 DEF ClientTypes
    <3> QED
      BY <1>1, <1>7, <1>11, <3>1 DEF ClientTypes
  <2> QED
    BY <1>1, <1>6, <2>2, <2>3, <2>4, ClientStep
<1> QED
  BY <1>9, <1>10, <1>11 DEF ChunkTurn, buffer

(* write_chunk accepts the file if that has not been done, and takes bytes. *)
LEMMA WriteChunkStep ==
  ASSUME IInv, NEW k \in 1 .. MaxWrite, WriteChunk(k)
  PROVE  IInv'
<1>1. /\ pc = "produce" /\ written + k <= MaxBytes
      /\ UNCHANGED <<resume, pending, outcome, producer_error, refused, ret, s2c, given, trouble>>
      /\ UNCHANGED serverVars
  BY DEF WriteChunk, callVars
<1>2. /\ data = <<>> /\ ~given /\ ret = "none" /\ TypeOK /\ GotInv
      /\ outcome # "none" => started
  BY <1>1 DEF IInv, ClientInv, InFile
<1>3. Len(got) \in Nat /\ Len(pending) \in Nat /\ written \in Nat /\ k \in Nat /\ MaxBytes \in Nat
  BY <1>2, TypeFacts, UploadAssumption
<1>4. got' = got /\ UNCHANGED <<spc, incoming, first, ended>>
  BY <1>1 DEF serverVars
<1>5. GotInv' /\ TroubleInv'
  BY <1>1, <1>2, <1>4 DEF IInv, TroubleInv, GotInv
<1>6. ClientTypes
  BY <1>2, TypesAre
<1>7. CASE outcome # "none"
  <2>1. signalled' = TRUE /\ UNCHANGED <<pc, data, started, c2s, written>>
    BY <1>7 DEF WriteChunk
  <2>2. /\ outcome = "complete" => Between'
        /\ outcome \in {"response", "error_response"} => Over'
    BY <1>1, <1>4, <1>7, <2>1 DEF IInv, PhaseInv, InFile, Between, Over, Fresh
  <2>3. PhaseInv'
    BY <1>1, <1>7, <2>1, <2>2 DEF PhaseInv, InFile
  <2>4. ClientInv'
    BY <1>1, <1>2, <1>7, <2>1 DEF ClientInv, InFile, Finishing
  <2>5. ClientTypes'
    BY <1>1, <1>6, <2>1 DEF ClientTypes
  <2> QED
    BY <1>1, <1>5, <2>3, <2>4, <2>5, ClientStep
<1>8. CASE outcome = "none"
  <2>1. /\ c2s' = c2s \o Start /\ started' = TRUE /\ pc' = "chunk"
        /\ data' = [i \in 1 .. k |-> written + i] /\ written' = written + k
        /\ signalled' = signalled
    BY <1>8 DEF WriteChunk
  <2>2. Follows(Len(got)) /\ IF started THEN Opening ELSE Granted
    BY <1>1, <1>8 DEF IInv, PhaseInv, InFile
  <2>3. Opening'
    <3>1. CASE started
      <4>1. c2s' = c2s
        BY <2>1, <2>2, <3>1, Joins DEF Start, Opening
      <4> QED
        BY <1>1, <1>4, <2>2, <3>1, <4>1 DEF Opening, Fresh
    <3>2. CASE ~started
      <4>1. c2s' = <<Accept>>
        BY <2>1, <2>2, <3>2, Joins DEF Start, Granted, Accept
      <4> QED
        BY <1>1, <1>4, <2>2, <3>2, <4>1 DEF Opening, Granted, Fresh
    <3> QED
      BY <3>1, <3>2
  <2>4. data' = Counted(written, written + k) /\ data' \in Seq(Nat)
    <3>1. written + k - written = k
      BY <1>3
    <3> QED
      BY <1>3, <2>1, <3>1 DEF Counted
  <2>5. Follows(Len(got))'
    <3>1. Len(got) + Len(pending) = written
      BY <1>2, <1>3, <2>2, FollowsAll
    <3>2. written <= written'
      BY <1>3, <2>1
    <3> QED
      BY <1>1, <1>4, <2>1, <2>2, <2>4, <3>1, <3>2 DEF Follows
  <2>6. PhaseInv'
    BY <1>1, <1>8, <2>1, <2>3, <2>5 DEF PhaseInv, InFile
  <2>7. ClientInv'
    BY <1>1, <1>2, <2>1 DEF ClientInv, InFile, Finishing
  <2>8. ClientTypes'
    <3>1. written' \in 0 .. MaxBytes
      BY <1>1, <1>3, <2>1
    <3> QED
      BY <1>1, <1>6, <2>1, <2>4, <3>1 DEF ClientTypes
  <2> QED
    BY <1>1, <1>5, <2>6, <2>7, <2>8, ClientStep
<1> QED
  BY <1>7, <1>8

(* The callback returns Ok.                                                 *)
LEMMA CallbackReturnsStep ==
  ASSUME IInv, CallbackReturns
  PROVE  IInv'
<1>1. /\ pc = "produce" /\ pc' = "finish" /\ given' = TRUE
      /\ UNCHANGED <<resume, data, pending, started, outcome, signalled, producer_error, refused,
                     ret, c2s, s2c, written, trouble>>
      /\ UNCHANGED serverVars
  BY DEF CallbackReturns, callVars
<1>2. UNCHANGED <<spc, incoming, first, got, ended>>
  BY <1>1 DEF serverVars
<1>3. PhaseInv'
  <2>1. /\ outcome = "none" => /\ Follows(Len(got))'
                               /\ started => Opening'
                               /\ ~started => Granted' /\ pending' = <<>>
        /\ outcome = "complete" => Between'
        /\ outcome \in {"response", "error_response"} => Over'
    BY <1>1, <1>2 DEF IInv, PhaseInv, InFile, Follows, Opening, Granted, Between, Over, Fresh
  <2> QED
    BY <1>1, <2>1, SMTT(30) DEF PhaseInv, InFile
<1>4. ClientInv'
  BY <1>1 DEF IInv, ClientInv, InFile, Finishing
<1>5. GotInv' /\ TroubleInv'
  BY <1>1, <1>2 DEF IInv, GotInv, TroubleInv
<1>6. ClientTypes'
  <2>1. ClientTypes
    BY TypesAre DEF IInv
  <2> QED
    BY <1>1, <2>1 DEF ClientTypes
<1> QED
  BY <1>1, <1>3, <1>4, <1>5, <1>6, ClientStep

(* The file has its outcome: the loop goes on, or the call has its result.  *)
LEMMA ProceedStep ==
  ASSUME IInv, InFile, outcome # "none", pc \notin {"chunk"}, NEW failed \in BOOLEAN,
         Proceed(failed), producer_error' = failed, producer_error => failed,
         trouble' \in BOOLEAN, trouble' => trouble \/ failed,
         UNCHANGED <<resume, data, pending, started, outcome, signalled, refused, c2s, s2c,
                     given, written>>,
         UNCHANGED serverVars
  PROVE  IInv'
<1>1. UNCHANGED <<spc, incoming, first, got, ended>>
  BY DEF serverVars
<1>2. /\ data = <<>> /\ ret = "none" /\ GotInv
      /\ trouble => refused \/ producer_error
  BY DEF IInv, ClientInv, TroubleInv, InFile
<1>3. ClientTypes
  BY TypesAre DEF IInv
<1>4. GotInv'
  BY <1>2, GotKept
<1>5. CASE outcome = "complete"
  <2>1. pc' = "reply" /\ ret' = ret
    BY <1>5 DEF Proceed, FileComplete
  <2>2. Between'
    BY <1>1, <1>5 DEF IInv, PhaseInv, Between, Fresh
  <2>3. PhaseInv' /\ TroubleInv'
    BY <1>2, <2>1, <2>2 DEF PhaseInv, TroubleInv, InFile
  <2>4. ClientInv'
    BY <1>2, <2>1 DEF ClientInv, InFile, Finishing
  <2>5. ClientTypes'
    BY <1>3, <2>1 DEF ClientTypes
  <2> QED
    BY <1>4, <2>3, <2>4, <2>5, ClientStep
<1>6. CASE outcome \in {"response", "error_response"}
  <2>1. PICK ok \in BOOLEAN : pc' = "done" /\ ret' = Final(ok, failed)
    BY <1>6 DEF Proceed, FileComplete, Conclude
  <2>2. /\ ret' \in {"ok", "producer", "refused", "server"}
        /\ ret' = "ok" => ~refused /\ ~failed
    BY <2>1, FinalIs
  <2>3. Over'
    BY <1>1, <1>6 DEF IInv, PhaseInv, Over
  <2>4. PhaseInv'
    BY <2>1, <2>2, <2>3 DEF PhaseInv, InFile
  <2>5. TroubleInv'
    BY <1>2, <2>2 DEF TroubleInv
  <2>6. ClientInv'
    BY <2>1, <2>2 DEF ClientInv, InFile, Finishing
  <2>7. ClientTypes'
    BY <1>3, <2>1, <2>2 DEF ClientTypes
  <2> QED
    BY <1>4, <2>4, <2>5, <2>6, <2>7, ClientStep
<1> QED
  BY <1>3, <1>5, <1>6 DEF ClientTypes

(* The callback returns an error: the request is refused, or the file       *)
(* cannot be completed, or the server had enough of it.                     *)
LEMMA CallbackFailsStep ==
  ASSUME IInv, NEW own \in BOOLEAN, CallbackFails(own)
  PROVE  IInv'
<1>1. /\ pc = "produce" /\ trouble' = (trouble \/ own)
      /\ UNCHANGED <<resume, data, pending, started, outcome, signalled, s2c, given, written>>
      /\ UNCHANGED serverVars
  BY DEF CallbackFails, fileVars
<1>2. UNCHANGED <<spc, incoming, first, got, ended>>
  BY <1>1 DEF serverVars
<1>3. ClientTypes
  BY TypesAre DEF IInv
<1>4. /\ data = <<>> /\ ret = "none" /\ GotInv /\ (outcome # "none" => started)
  BY <1>1 DEF IInv, ClientInv, InFile
<1>5. GotInv' /\ trouble' \in BOOLEAN
  BY <1>1, <1>3, <1>4, GotKept DEF ClientTypes
<1>6. CASE ~started
  <2>1. /\ c2s' = Append(c2s, Fragment(<<Refusal>>, TRUE)) /\ refused' = TRUE /\ pc' = "reply"
        /\ UNCHANGED <<ret, producer_error>>
    BY <1>6 DEF CallbackFails, Refuse, RefusalIsFinal
  <2>2. Granted
    BY <1>1, <1>4, <1>6 DEF IInv, PhaseInv, InFile
  <2>3. c2s' = <<Whole(<<Refusal>>)>>
    BY <2>1, <2>2, Queues DEF Granted, Whole
  <2>4. RefusalSent'
    BY <1>1, <1>2, <2>2, <2>3 DEF RefusalSent, Granted, Fresh
  <2>5. PhaseInv' /\ TroubleInv'
    BY <1>4, <2>1, <2>4 DEF PhaseInv, InFile, TroubleInv
  <2>6. ClientInv'
    BY <1>1, <1>4, <2>1 DEF ClientInv, InFile, Finishing
  <2>7. ClientTypes'
    BY <1>1, <1>3, <1>5, <2>1 DEF ClientTypes
  <2> QED
    BY <1>1, <1>5, <2>5, <2>6, <2>7, ClientStep
<1>7. CASE started /\ outcome = "none"
  <2>1. pc' = "done" /\ ret' = "broken" /\ UNCHANGED <<c2s, refused, producer_error>>
    BY <1>7 DEF CallbackFails
  <2>2. Opening'
    BY <1>1, <1>2, <1>7, <2>1 DEF IInv, PhaseInv, InFile, Opening, Fresh
  <2>3. PhaseInv' /\ TroubleInv'
    BY <2>1, <2>2 DEF PhaseInv, Phase, InFile, TroubleInv
  <2>4. ClientInv'
    BY <2>1 DEF ClientInv, InFile, Finishing
  <2>5. ClientTypes'
    BY <1>1, <1>3, <1>5, <2>1 DEF ClientTypes
  <2> QED
    BY <1>1, <1>5, <2>3, <2>4, <2>5, ClientStep
<1>8. CASE started /\ outcome # "none"
  <2>1. PICK failed \in BOOLEAN : failed = (producer_error \/ own)
    OBVIOUS
  <2>2. producer_error' = failed /\ Proceed(failed) /\ UNCHANGED <<c2s, refused>>
    BY <1>8, <2>1 DEF CallbackFails, OwnRemembered
  <2>3. InFile /\ pc \notin {"chunk"} /\ (producer_error => failed) /\ (trouble' => trouble \/ failed)
    BY <1>1, <2>1 DEF InFile
  <2> QED
    BY <1>1, <1>5, <1>8, <2>2, <2>3, ProceedStep
<1> QED
  BY <1>6, <1>7, <1>8

(* The steps of finish.                                                     *)
LEMMA FinishStep ==
  ASSUME IInv, FinishFlush \/ FinishEmpty \/ FinishEmptyAgain \/ FinishGivesUp \/ FinishOutcome
  PROVE  IInv'
<1>1. CASE FinishFlush
  BY <1>1, FinishFlushStep
<1>2. CASE FinishEmpty
  <2>1. /\ pc = "finish" /\ outcome = "none" /\ pending = <<>> /\ started' = TRUE
        /\ c2s' = c2s \o Start \o <<Fragment(<<>>, TRUE)>>
        /\ pc' = "prompt" /\ resume' = "finish_again"
        /\ UNCHANGED <<data, pending, outcome, signalled, producer_error, refused, ret, s2c,
                       given, written, trouble>>
        /\ UNCHANGED serverVars
    BY <1>2 DEF FinishEmpty, AllFlushed, SendMessage, callVars, fileVars
  <2> QED
    BY <2>1, EmptyStep
<1>3. CASE FinishEmptyAgain
  <2>1. started = TRUE /\ pending = <<>> /\ Start = <<>>
    BY <1>3 DEF IInv, ClientInv, TypeOK, FinishEmptyAgain, Start
  <2>2. /\ pc = "finish_again" /\ outcome = "none" /\ started' = TRUE
        /\ c2s' = c2s \o Start \o <<Fragment(<<>>, TRUE)>>
        /\ pc' = "prompt" /\ resume' = "finished"
        /\ UNCHANGED <<data, pending, outcome, signalled, producer_error, refused, ret, s2c,
                       given, written, trouble>>
        /\ UNCHANGED serverVars
    BY <1>3, <2>1 DEF FinishEmptyAgain, SendMessage, callVars, fileVars
  <2> QED
    BY <2>1, <2>2, EmptyStep
<1>4. CASE FinishGivesUp
  <2>1. Break
    BY <1>4 DEF FinishGivesUp, Break
  <2> QED
    BY <2>1, BreakStep
<1>5. CASE FinishOutcome
  <2>1. /\ InFile /\ outcome # "none" /\ pc \notin {"chunk"} /\ Proceed(producer_error)
        /\ UNCHANGED <<resume, data, pending, started, outcome, signalled, producer_error,
                       refused, c2s, s2c, given, written, trouble>>
        /\ UNCHANGED serverVars
    BY <1>5 DEF FinishOutcome, InFile, fileVars
  <2>2. producer_error \in BOOLEAN /\ trouble' \in BOOLEAN
    BY <2>1 DEF IInv, TypeOK
  <2>3. PICK failed \in BOOLEAN : failed = producer_error
    BY <2>2
  <2>4. /\ Proceed(failed) /\ producer_error' = failed /\ (producer_error => failed)
        /\ (trouble' => trouble \/ failed)
    BY <2>1, <2>3
  <2> QED
    BY <2>1, <2>2, <2>4, ProceedStep
<1> QED
  BY <1>1, <1>2, <1>3, <1>4, <1>5

-----------------------------------------------------------------------------
(* A statement begins without files.                                        *)
LEMMA InitIInv ==
  ASSUME Init
  PROVE  IInv
<1>1. TypeOK
  <2>0. /\ 0 \in 0 .. MaxBytes /\ 0 \in 0 .. MaxRequests
        /\ <<>> \in Seq(Nat) /\ Len(<<>>) < ChunkSize
    BY UploadAssumption
  <2>1. ClientTypes
    BY <2>0 DEF Init, ClientTypes
  <2>2. ServerTypes
    BY <2>0 DEF Init, ServerTypes
  <2>3. Small
    BY DEF Init, Small
  <2> QED
    BY <2>1, <2>2, <2>3, TypesAre
<1>2. PhaseInv
  BY DEF Init, PhaseInv, Between, InFile
<1>3. ClientInv /\ TroubleInv
  BY DEF Init, ClientInv, TroubleInv, InFile, Finishing
<1>4. GotInv
  BY CountedNone DEF Init, GotInv
<1> QED
  BY <1>1, <1>2, <1>3, <1>4 DEF IInv

(* For files of every size and chunks of every size the invariant holds     *)
(* whatever the server answers and whenever the callback fails: what is     *)
(* under way fits where the client is, and the bytes follow each other.     *)
THEOREM Invariance == Spec => []IInv
<1>1. Init => IInv
  BY InitIInv
<1>2. ASSUME IInv, [Next]_vars PROVE IInv'
  <2>1. CASE Client
    BY <1>2, <2>1, ReadReplyStep, ReadPromptStep, ChunkTurnStep, FinishStep DEF Client
  <2>2. CASE Callback
    BY <1>2, <2>2, CallbackFailsStep, CallbackReturnsStep DEF Callback
  <2>3. CASE Server
    BY <1>2, <2>3, ServerStep
  <2>4. CASE Break
    BY <1>2, <2>4, BreakStep
  <2>5. CASE \E k \in 1 .. MaxWrite : WriteChunk(k)
    BY <1>2, <2>5, WriteChunkStep
  <2>6. CASE UNCHANGED vars
    <3>1. UNCHANGED <<clientVars, callVars, c2s, s2c, serverVars, fileVars, trouble>>
      BY <2>6 DEF vars
    <3>2. /\ UNCHANGED <<pc, resume, data, pending, started, outcome, signalled, producer_error,
                         refused, ret, c2s, s2c, written, given, trouble>>
          /\ UNCHANGED <<spc, incoming, first, got, requests, ended>>
      BY <3>1 DEF clientVars, callVars, serverVars, fileVars
    <3>3. PhaseInv'
      <4>1. /\ Between' = Between /\ RefusalSent' = RefusalSent /\ Granted' = Granted
            /\ Opening' = Opening /\ More' = More /\ Enough' = Enough
            /\ Responded' = Responded /\ Over' = Over
        BY <3>2 DEF Between, RefusalSent, Granted, Opening, More, Enough, Responded, Over, Fresh
      <4>2. Sent' = Sent /\ InFlight' = InFlight
        BY <3>2 DEF Sent, Fresh, InFlight
      <4>3. \A n : Follows(n) => Follows(n)'
        BY <3>2 DEF Follows
      <4>4. /\ Follows(Len(got)) => Follows(Len(got))'
            /\ Follows(Len(got) + Len(InFlight)) => Follows(Len(got) + Len(InFlight))'
        BY <3>2, <4>2, <4>3
      <4> QED
        BY <1>2, <3>2, <4>1, <4>2, <4>4, SMTT(30) DEF IInv, PhaseInv, Phase, InFile
    <3>4. ClientInv' /\ TroubleInv'
      BY <1>2, <3>2 DEF IInv, ClientInv, TroubleInv, InFile, Finishing
    <3>5. GotInv'
      BY <1>2, <3>2 DEF IInv, GotInv
    <3>6. ClientTypes'
      <4>1. ClientTypes
        BY <1>2, TypesAre DEF IInv
      <4> QED
        BY <3>2, <4>1 DEF ClientTypes
    <3> QED
      BY <1>2, <3>1, <3>3, <3>4, <3>5, <3>6, ClientStep
  <2> QED
    BY <1>2, <2>1, <2>2, <2>3, <2>4, <2>5, <2>6 DEF Next, Returned
<1> QED
  BY <1>1, <1>2, PTL DEF Spec

(* Client and server agree on what every message is, and a call that        *)
(* returns with the connection intact leaves nothing to be read.            *)
THEOREM InStep == Spec => []TransferInStep
<1>1. IInv => TransferInStep
  <2> SUFFICES ASSUME IInv PROVE TransferInStep
    OBVIOUS
  <2>1. pc = "reply" /\ s2c # <<>> => Head(s2c).kind \in {"request", "response"}
    BY Queues DEF IInv, PhaseInv, Between, RefusalSent, Message
  <2>2. pc = "prompt" /\ s2c # <<>> => Head(s2c).kind # "request"
    BY Queues DEF IInv, PhaseInv, Sent, More, Enough, Responded, Message
  <2>3. spc # "file" => c2s = <<>>
    BY SomePhase, MessagesAreSmall DEF IInv, TypeOK, Labelled
  <2>4. pc = "done" /\ ret # "broken" => s2c = <<>> /\ c2s = <<>> /\ spc = "done"
    BY DEF IInv, PhaseInv, Over
  <2> QED
    BY <2>1, <2>2, <2>3, <2>4 DEF TransferInStep
<1> QED
  BY <1>1, Invariance, PTL

(* The server has the bytes in the order in which they were written, and    *)
(* all of them when it has seen the end of a file whose callback was Ok.    *)
THEOREM FilesAreWhole == Spec => []FileIsWhole
<1>1. IInv => FileIsWhole
  <2> SUFFICES ASSUME IInv PROVE FileIsWhole
    OBVIOUS
  <2>1. Len(got) \in Nat /\ written \in Nat
    BY TypeFacts DEF IInv
  <2>2. \A n \in Nat : Counted(0, n) = [i \in 1 .. n |-> i]
    BY DEF Counted
  <2> QED
    BY <2>1, <2>2 DEF IInv, GotInv, FileIsWhole
<1> QED
  BY <1>1, Invariance, PTL

(* Ok means that no request was refused and no callback failed.             *)
THEOREM NoTrouble == Spec => []OkMeansNoTrouble
<1>1. IInv => OkMeansNoTrouble
  BY DEF IInv, TroubleInv, OkMeansNoTrouble
<1> QED
  BY <1>1, Invariance, PTL

(* pending never fills a chunk, and no message is longer than one.          *)
THEOREM TypeCorrect == Spec => []TypeOK
  BY Invariance, PTL DEF IInv
=============================================================================
