------------------------------- MODULE Upload -------------------------------
(***************************************************************************)
(* A statement whose execution asks the client for files                   *)
(* (src/cursor/upload.rs): command_with_uploads answers the requests, a    *)
(* callback produces each file, and StreamingUpload cuts what it writes    *)
(* into messages, each of which the server acknowledges with a prompt.     *)
(*                                                                         *)
(* Bytes are numbered within their file.  The server is not part of the    *)
(* repository; it is modelled from the prompts that the code expects.      *)
(***************************************************************************)
EXTENDS Integers, Sequences

CONSTANTS
  ChunkSize,   \* upload_chunk_size
  MaxWrite,    \* bound: bytes of one write_chunk
  MaxBytes,    \* bound: bytes of one file
  MaxRequests  \* bound: requests of one statement

ASSUME UploadAssumption ==
  ChunkSize \in Nat \ {0} /\ MaxWrite \in Nat /\ MaxBytes \in Nat /\ MaxRequests \in Nat

VARIABLES
  pc,              \* the client: "reply", "produce", "chunk", "prompt", "done"
  resume,          \* where the client goes on after the prompt
  data,            \* what is left of the slice given to write_chunk
  pending, started, outcome,   \* StreamingUpload
  signalled,       \* write_chunk has returned UploadComplete
  producer_error, refused,     \* what command_with_uploads remembers
  ret,             \* what the call returns
  c2s, s2c,        \* fragments to the server, messages to the client
  spc,             \* the server: "run", "file", "done"
  incoming,        \* server: fragments of a message that is not complete
  first,           \* server: this is the first message of the file
  got,             \* server: bytes of the file
  requests,        \* server: requests so far
  written,         \* bytes the callback has written to this file
  given,           \* the callback has returned Ok for this file
  ended,           \* the server has seen the end of this file
  trouble          \* a request was refused or a callback has failed

clientVars == <<pc, resume, data, pending, started, outcome, signalled>>
callVars == <<producer_error, refused, ret>>
serverVars == <<spc, incoming, first, got, requests, ended>>
fileVars == <<written, given>>
vars == <<clientVars, callVars, c2s, s2c, serverVars, fileVars, trouble>>

Newline == 0
Refusal == -1

Fragment(bytes, last) == [bytes |-> bytes, last |-> last]
Message(kind, ok) == [kind |-> kind, ok |-> ok]

Take(s, n) == SubSeq(s, 1, n)
From(s, n) == SubSeq(s, n + 1, Len(s))

-----------------------------------------------------------------------------
(* The loop of command_with_uploads.                                        *)

(* The error of the producer or the refusal outrank an answer that is a     *)
(* success; a server error outranks the producer's.                         *)
FinalIgnoringProducer(ok) ==
  IF refused THEN "refused" ELSE IF ok THEN "ok" ELSE "server"
Final(ok, failed) ==
  CASE failed -> IF ok THEN "producer" ELSE "server"
    [] ~failed -> FinalIgnoringProducer(ok)

Conclude(ok, failed) == pc' = "done" /\ ret' = Final(ok, failed)

RefusalOpen == FALSE
RefusalIsFinal == TRUE

(* refuse_upload.                                                           *)
Refuse == c2s' = Append(c2s, Fragment(<<Refusal>>, RefusalIsFinal)) /\ refused' = TRUE

(* The message holds the final response, or a request: of a kind that the   *)
(* client does not know, one that an earlier error of the producer refuses, *)
(* or one that goes to the callback.                                        *)
ReadReply ==
  /\ pc = "reply" /\ s2c # <<>>
  /\ s2c' = Tail(s2c)
  /\ LET message == Head(s2c)
     IN  \/ /\ message.kind = "response"
            /\ Conclude(message.ok, producer_error)
            /\ UNCHANGED <<c2s, refused, pending, started, outcome, signalled, fileVars>>
         \/ /\ message.kind = "request" /\ (~message.ok \/ producer_error)
            /\ Refuse
            /\ UNCHANGED <<pc, ret, pending, started, outcome, signalled, fileVars>>
         \/ /\ message.kind = "request" /\ message.ok /\ ~producer_error
            /\ pc' = "produce"
            /\ pending' = <<>> /\ started' = FALSE /\ outcome' = "none"
            /\ signalled' = FALSE /\ written' = 0 /\ given' = FALSE
            /\ UNCHANGED <<c2s, refused, ret>>
  /\ trouble' = (trouble \/ c2s' # c2s)
  /\ UNCHANGED <<resume, data, producer_error, serverVars>>

-----------------------------------------------------------------------------
(* StreamingUpload.                                                         *)

(* start: a newline that does not complete a message accepts the upload.    *)
Start == IF started THEN <<>> ELSE <<Fragment(<<Newline>>, FALSE)>>

(* send_message, up to the prompt.                                          *)
SendMessage(before, bytes, label) ==
  /\ c2s' = c2s \o before \o <<Fragment(bytes, TRUE)>>
  /\ pc' = "prompt" /\ resume' = label

ReadPrompt ==
  /\ pc = "prompt" /\ s2c # <<>>
  /\ s2c' = Tail(s2c)
  /\ outcome' = CASE Head(s2c).kind = "more" -> "none"
                  [] Head(s2c).kind = "complete" -> "complete"
                  [] OTHER -> IF Head(s2c).ok THEN "response" ELSE "error_response"
  /\ pc' = resume
  /\ UNCHANGED <<resume, data, pending, started, signalled, callVars, c2s, serverVars,
                 fileVars, trouble>>

(* write_chunk is called with k bytes.                                      *)
WriteChunk(k) ==
  /\ pc = "produce" /\ written + k <= MaxBytes
  /\ IF outcome # "none"
       THEN signalled' = TRUE /\ UNCHANGED <<pc, data, started, c2s, written>>
       ELSE /\ c2s' = c2s \o Start
            /\ started' = TRUE
            /\ data' = [i \in 1 .. k |-> written + i] /\ written' = written + k
            /\ pc' = "chunk"
            /\ UNCHANGED signalled
  /\ UNCHANGED <<resume, pending, outcome, callVars, s2c, serverVars, given, trouble>>

FillsChunk(buffer) == Len(buffer) >= ChunkSize

(* A turn of write_chunk: pending and data together make a message as soon  *)
(* as they have the size of a chunk.                                        *)
ChunkTurn ==
  /\ pc = "chunk"
  /\ LET buffer == pending \o data
     IN  \/ /\ outcome = "none" /\ FillsChunk(buffer)
            /\ SendMessage(<<>>, Take(buffer, ChunkSize), "chunk")
            /\ data' = From(buffer, ChunkSize) /\ pending' = <<>>
            /\ UNCHANGED signalled
         \/ /\ outcome = "none" /\ ~FillsChunk(buffer)
            /\ pending' = buffer /\ data' = <<>> /\ pc' = "produce"
            /\ UNCHANGED <<c2s, resume, signalled>>
         \/ /\ outcome # "none"
            /\ signalled' = (signalled \/ data # <<>>)
            /\ data' = <<>> /\ pc' = "produce"
            /\ UNCHANGED <<c2s, resume, pending>>
  /\ UNCHANGED <<started, outcome, callVars, s2c, serverVars, fileVars, trouble>>

(* What the caller does with the outcome of a file.                         *)
AnswerComplete == FALSE
FileComplete == outcome = "complete"

Proceed(failed) ==
  IF FileComplete THEN pc' = "reply" /\ UNCHANGED ret
                          ELSE Conclude(outcome = "response", failed)

(* The callback returns an error: its own, or the signal of write_chunk.    *)
OwnForgotten(own) == producer_error
OwnRemembered(own) == producer_error \/ own

CallbackFails(own) ==
  /\ pc = "produce" /\ (own \/ signalled)
  /\ IF ~started THEN Refuse /\ pc' = "reply" /\ UNCHANGED <<ret, producer_error>>
     ELSE /\ UNCHANGED <<c2s, refused>>
          /\ IF outcome = "none" THEN pc' = "done" /\ ret' = "broken"
                                      /\ UNCHANGED producer_error
             ELSE producer_error' = OwnRemembered(own) /\ Proceed(OwnRemembered(own))
  /\ trouble' = (trouble \/ own)
  /\ UNCHANGED <<resume, data, pending, started, outcome, signalled, s2c, serverVars,
                 fileVars>>

(* The callback returns Ok.                                                 *)
CallbackReturns ==
  /\ pc = "produce"
  /\ pc' = "finish" /\ given' = TRUE
  /\ UNCHANGED <<resume, data, pending, started, outcome, signalled, callVars, c2s,
                 s2c, serverVars, written, trouble>>

NothingToFlush == TRUE
AllFlushed == pending = <<>>

(* finish: what is pending, then one empty message, then another if the     *)
(* server still asks for more.  It is an error if it asks again.            *)
FinishFlush ==
  /\ pc = "finish" /\ outcome = "none" /\ ~AllFlushed
  /\ SendMessage(<<>>, pending, "finish")
  /\ pending' = <<>>
  /\ UNCHANGED <<data, started, outcome, signalled, callVars, s2c, serverVars, fileVars, trouble>>

FinishEmpty ==
  /\ pc = "finish" /\ outcome = "none" /\ AllFlushed
  /\ SendMessage(Start, <<>>, "finish_again")
  /\ started' = TRUE
  /\ UNCHANGED <<data, pending, outcome, signalled, callVars, s2c, serverVars, fileVars, trouble>>

FinishEmptyAgain ==
  /\ pc = "finish_again" /\ outcome = "none"
  /\ SendMessage(<<>>, <<>>, "finished")
  /\ UNCHANGED <<data, pending, started, outcome, signalled, callVars, s2c, serverVars,
                 fileVars, trouble>>

FinishGivesUp ==
  /\ pc = "finished" /\ outcome = "none"
  /\ pc' = "done" /\ ret' = "broken"
  /\ UNCHANGED <<resume, data, pending, started, outcome, signalled, producer_error,
                 refused, c2s, s2c, serverVars, fileVars, trouble>>

FinishOutcome ==
  /\ pc \in {"finish", "finish_again", "finished"} /\ outcome # "none"
  /\ Proceed(producer_error)
  /\ UNCHANGED <<resume, data, pending, started, outcome, signalled, producer_error,
                 refused, c2s, s2c, serverVars, fileVars, trouble>>

(* The transport fails, and the call ends with its error.  The one write    *)
(* that does not end it is that of the newline in start: the sink keeps its *)
(* socket, and when nothing was sent all is as before for the callback.  If *)
(* that returns the error, the file is refused on the same socket           *)
(* (CallbackFails), or this fails too (Break in "produce").  A newline that *)
(* is sent in part is not modelled.                                         *)
Break ==
  /\ pc # "done"
  /\ pc' = "done" /\ ret' = "broken"
  /\ UNCHANGED <<resume, data, pending, started, outcome, signalled, producer_error,
                 refused, c2s, s2c, serverVars, fileVars, trouble>>

-----------------------------------------------------------------------------
(* The server.                                                              *)
ServerRequests(known) ==
  /\ spc = "run" /\ requests < MaxRequests
  /\ s2c' = Append(s2c, Message("request", known))
  /\ requests' = requests + 1
  /\ spc' = "file" /\ first' = TRUE /\ incoming' = <<>> /\ got' = <<>> /\ ended' = FALSE
  /\ UNCHANGED <<clientVars, callVars, c2s, fileVars, trouble>>

ServerResponds(ok) ==
  /\ spc = "run"
  /\ s2c' = Append(s2c, Message("response", ok))
  /\ spc' = "done"
  /\ UNCHANGED <<clientVars, callVars, c2s, incoming, first, got, requests, ended,
                 fileVars, trouble>>

ServerReadsFragment ==
  /\ spc = "file" /\ c2s # <<>> /\ ~Head(c2s).last
  /\ incoming' = incoming \o Head(c2s).bytes
  /\ c2s' = Tail(c2s)
  /\ UNCHANGED <<clientVars, callVars, s2c, spc, first, got, requests, ended, fileVars,
                 trouble>>

(* A message is complete.  A first line that is not empty refuses the file. *)
(* Else the rest is data, and an empty message says that there is no more.  *)
(* The server may ask for more, or have enough, or end the statement.       *)
ServerReadsMessage(answer, ok) ==
  /\ spc = "file" /\ c2s # <<>> /\ Head(c2s).last
  /\ c2s' = Tail(c2s)
  /\ incoming' = <<>>
  /\ LET message == incoming \o Head(c2s).bytes
         body == IF first THEN Tail(message) ELSE message
     IN  IF first /\ Head(message) # Newline
           THEN spc' = "run" /\ UNCHANGED <<s2c, first, got, ended>>
           ELSE /\ got' = got \o body
                /\ ended' = (ended \/ body = <<>>)
                /\ first' = FALSE
                /\ s2c' = Append(s2c, Message(answer, ok))
                /\ spc' = CASE answer = "more" -> "file"
                            [] answer = "complete" -> "run"
                            [] answer = "response" -> "done"
  /\ UNCHANGED <<clientVars, callVars, requests, fileVars, trouble>>

-----------------------------------------------------------------------------
Init ==
  /\ pc = "reply" /\ resume = "reply" /\ data = <<>>
  /\ pending = <<>> /\ started = FALSE /\ outcome = "none" /\ signalled = FALSE
  /\ producer_error = FALSE /\ refused = FALSE /\ ret = "none"
  /\ c2s = <<>> /\ s2c = <<>>
  /\ spc = "run" /\ incoming = <<>> /\ first = FALSE /\ got = <<>> /\ requests = 0
  /\ written = 0 /\ given = FALSE /\ ended = FALSE /\ trouble = FALSE

Client ==
  \/ ReadReply \/ ReadPrompt \/ ChunkTurn
  \/ FinishFlush \/ FinishEmpty \/ FinishEmptyAgain \/ FinishGivesUp \/ FinishOutcome

Callback ==
  \/ \E own \in BOOLEAN : CallbackFails(own)
  \/ CallbackReturns

Server ==
  \/ \E ok \in BOOLEAN : ServerRequests(ok) \/ ServerResponds(ok)
  \/ ServerReadsFragment
  \/ \E answer \in {"more", "complete", "response"}, ok \in BOOLEAN :
       (answer # "response" => ok) /\ ServerReadsMessage(answer, ok)

(* The call has returned.                                                   *)
Returned == pc = "done" /\ UNCHANGED vars

Next ==
  \/ Client \/ Callback \/ Server \/ Break \/ Returned
  \/ \E k \in 1 .. MaxWrite : WriteChunk(k)

Spec == Init /\ [][Next]_vars

(* The client goes on, the callback comes to an end, the server answers.    *)
FairSpec == Spec /\ WF_vars(Client) /\ WF_vars(Callback) /\ WF_vars(Server)

-----------------------------------------------------------------------------
(* Properties.                                                              *)

(* Every field keeps its range.  pending never fills a whole chunk between  *)
(* two calls, and no message is longer than a chunk and its newline.        *)
TypeOK ==
  /\ pc \in {"reply", "produce", "chunk", "prompt", "finish", "finish_again",
             "finished", "done"}
  /\ resume \in {"reply", "chunk", "finish", "finish_again", "finished"}
  /\ spc \in {"run", "file", "done"}
  /\ outcome \in {"none", "complete", "response", "error_response"}
  /\ ret \in {"none", "ok", "producer", "refused", "server", "broken"}
  /\ data \in Seq(Nat) /\ pending \in Seq(Nat) /\ Len(pending) < ChunkSize
  /\ \A i \in 1 .. Len(c2s) : Len(c2s[i].bytes) <= ChunkSize
  /\ incoming \in {<<>>, <<Newline>>} /\ got \in Seq(Nat)
  /\ requests \in 0 .. MaxRequests /\ written \in 0 .. MaxBytes
  /\ started \in BOOLEAN /\ signalled \in BOOLEAN /\ first \in BOOLEAN
  /\ producer_error \in BOOLEAN /\ refused \in BOOLEAN /\ given \in BOOLEAN
  /\ ended \in BOOLEAN /\ trouble \in BOOLEAN

(* Client and server take the same message for the same thing: the client   *)
(* never reads a prompt as the response or a request, it sends nothing that *)
(* the server does not read as part of a file, and when the call returns    *)
(* with the connection intact nothing is left to be read on either side.    *)
TransferInStep ==
  /\ pc = "reply" /\ s2c # <<>> => Head(s2c).kind \in {"request", "response"}
  /\ pc = "prompt" /\ s2c # <<>> => Head(s2c).kind # "request"
  /\ spc # "file" => c2s = <<>>
  /\ pc = "done" /\ ret # "broken" => s2c = <<>> /\ c2s = <<>> /\ spc = "done"

(* The server gets the bytes of a file in the order they were written, and  *)
(* when it has seen the end of the file it has all of them and the callback *)
(* has returned Ok: a callback that fails half way never passes for a file  *)
(* that is complete.                                                        *)
FileIsWhole ==
  /\ got = [i \in 1 .. Len(got) |-> i]
  /\ ended => given /\ got = [i \in 1 .. written |-> i]

(* The call returns Ok only if every request was granted and no callback    *)
(* reported an error of its own, also one that came after the server had    *)
(* enough of the file.                                                      *)
OkMeansNoTrouble == ret = "ok" => ~trouble

(* The call returns: neither side waits for the other for ever, whatever    *)
(* the callback does and whenever the server has enough.                    *)
UploadEnds == <>(pc = "done")
=============================================================================
