------------------------------- MODULE Cursor -------------------------------
(***************************************************************************)
(* A Cursor of src/cursor/mod.rs on one connection: the replies of the     *)
(* last command (ReplyParser), the rows of the current result set (RowSet),*)
(* the windows it fetches with Xexport, and the results that the server    *)
(* keeps for it until they are closed.                                     *)
(*                                                                         *)
(* A reply is a record: what its bytes say, not the bytes.  One command is *)
(* one exchange, which Connection and Session show to be exclusive and in  *)
(* step; it can fail as a whole.  The loops over replies and rows are one  *)
(* step per turn.  Rows are numbered from 0 within their result.           *)
(***************************************************************************)
EXTENDS Integers, Sequences, FiniteSetsExt

CONSTANTS
  Replies,           \* the replies the server may send to a statement
  MaxReplies,        \* bound: replies to one statement
  MaxResults,        \* bound: results the server creates
  UsizeMax,          \* usize::MAX
  MaxPrefetches,     \* values of maxprefetch, Unlimited among them
  InitialReplySize,  \* Conn::reply_size
  ReplySizes         \* arguments of set_reply_size

Unlimited == -1
NoId == 0

(* What a reply says.  A header that includes more rows than it counts is   *)
(* rejected, so such a reply is a bad one; the rows of a result without     *)
(* slices are counted as they are; and the code relies on a prepared one to *)
(* come whole, since it never closes it.                                    *)
DataReplies ==
  {reply \in [kind : {"data"}, id : Nat, noslice : BOOLEAN, prepared : BOOLEAN,
              total : Nat, included : Nat] :
     /\ reply.included <= reply.total
     /\ reply.noslice \/ reply.prepared => reply.included = reply.total}
ReplyRecords == [kind : {"success", "error", "bad"}] \cup DataReplies

ASSUME CursorAssumption ==
  /\ Replies \subseteq ReplyRecords
  /\ UsizeMax \in Nat \ {0} /\ MaxResults \in Nat /\ MaxReplies \in Nat
  /\ MaxPrefetches \subseteq 0 .. UsizeMax \cup {Unlimited}
  /\ InitialReplySize \in 1 .. UsizeMax /\ ReplySizes \subseteq 1 .. UsizeMax

VARIABLES
  pc,          \* the loop that runs, or "idle"
  then,        \* what follows the loop
  cur,         \* ReplyParser
  rest,        \* the replies behind the current one in its buffer
  reply_size,
  max_prefetch,
  collected,   \* Drop: result_ids
  closes,      \* results queued for Xclose with the next command
  conn,        \* the connection works
  live,        \* server: results kept for this session
  opened,      \* server: results created so far
  asked,       \* the export that is on its way
  seen,        \* rows returned from the current result
  lost,        \* a reply or a row could not be parsed
  ret          \* what the last call returned

cursorVars == <<cur, rest, reply_size, max_prefetch, collected>>
serverVars == <<live, opened>>
ghostVars == <<seen, lost>>
vars == <<pc, then, cursorVars, closes, conn, serverVars, asked, ghostVars, ret>>

NoExport == [kind |-> "none", id |-> NoId, start |-> 0, n |-> 0]

-----------------------------------------------------------------------------
(* ReplyParser.                                                             *)
Exhausted == [kind |-> "exhausted"]

(* parse_data and parse_noslice.  The rows from .. to - 1 are in row_set.   *)
ParseData(reply) ==
  [kind |-> "data", id |-> reply.id, noslice |-> reply.noslice,
   prepared |-> reply.prepared, next_row |-> 0, total |-> reply.total,
   included |-> reply.included, from |-> 0, to |-> reply.included,
   stuck |-> FALSE,
   to_close |-> IF ~reply.prepared /\ reply.included < reply.total
                  THEN reply.id ELSE NoId]

Parse(buf) ==
  IF buf = <<>> THEN [ok |-> TRUE, cur |-> Exhausted, rest |-> <<>>]
  ELSE [ok |-> Head(buf).kind # "bad",
        cur |-> IF Head(buf).kind = "data" THEN ParseData(Head(buf))
                                           ELSE [kind |-> Head(buf).kind],
        rest |-> Tail(buf)]

(* RowSet::finish: on to the next line that starts with & or =, which skips *)
(* error lines and stops at an unread row of a result without slices.       *)
Finish ==
  LET unread == cur.to - cur.from
      headers == {i \in 1 .. Len(rest) : rest[i].kind # "error"}
  IN  IF cur.noslice /\ unread > 0
        THEN <<[kind |-> "data", id |-> NoId, noslice |-> TRUE, prepared |-> FALSE,
                total |-> unread, included |-> unread]>> \o rest
        ELSE IF headers = {} THEN <<>> ELSE SubSeq(rest, Min(headers), Len(rest))

IntoNextReply == Parse(IF cur.kind = "data" THEN Finish ELSE rest)

ToCloseForgotten == {}
ToClose == IF cur.kind = "data" /\ cur.to_close # NoId THEN {cur.to_close} ELSE {}

-----------------------------------------------------------------------------
Goto(label) == pc' = label

(* Cursor::close consumes the cursor, whatever it returns.                  *)
Return(value) ==
  /\ pc' = IF pc = "exhaust" /\ then = "close" THEN "gone" ELSE "idle"
  /\ ret' = value

(* A public call starts the loop it begins with.                            *)
Call(label, next) ==
  /\ pc = "idle"
  /\ Goto(label) /\ then' = next
  /\ UNCHANGED <<cursorVars, closes, conn, serverVars, asked, ghostVars, ret>>

Execute == Call("exhaust", "execute")

Close == Call("exhaust", "close")

NextReplyCall == Call("next_reply", "return")

NextRow == Call("skip", "next_row")

FetchBinary == Call("skip", "fetch_binary")

SetReplySize(n) ==
  /\ pc = "idle"
  /\ reply_size' = n
  /\ UNCHANGED <<pc, then, cur, rest, max_prefetch, collected, closes, conn,
                 serverVars, asked, ghostVars, ret>>

(* next_reply.  self.replies is taken first, so a reply that cannot be      *)
(* parsed leaves the cursor exhausted, and to_close is dropped with it.     *)
NextReply ==
  /\ seen' = <<>>
  /\ LET next == IntoNextReply
     IN IF next.ok
        THEN /\ cur' = next.cur /\ rest' = next.rest
             /\ closes' = closes \cup ToClose
             /\ UNCHANGED lost
        ELSE /\ cur' = Exhausted /\ rest' = <<>>
             /\ lost' = TRUE
             /\ UNCHANGED closes

StepNextReply ==
  /\ pc = "next_reply"
  /\ NextReply
  /\ Return(CASE ~IntoNextReply.ok -> "err"
              [] IntoNextReply.ok -> IF cur' = Exhausted THEN "false" ELSE "true")
  /\ UNCHANGED <<then, max_prefetch, reply_size, collected, conn, serverVars, asked>>

(* exhaust.  discard is the tail of install_response and                    *)
(* discard_sql_response, which report an error whatever exhaust returns.    *)
ExhaustTurn ==
  /\ pc = "exhaust" /\ cur # Exhausted
  /\ NextReply
  /\ IF IntoNextReply.ok THEN UNCHANGED <<pc, ret>> ELSE Return("err")
  /\ UNCHANGED <<then, max_prefetch, reply_size, collected, conn, serverVars, asked>>

Discarded ==
  /\ pc = "exhaust" /\ cur = Exhausted /\ then = "discard"
  /\ Return("err")
  /\ UNCHANGED <<then, cursorVars, closes, conn, serverVars, asked, ghostVars>>

-----------------------------------------------------------------------------
(* A command takes the queued closes along.  The server closes them before  *)
(* it looks at the command.                                                 *)
Flush == closes' = {} /\ live' = live \ closes

(* run_locked fails: the connection was closed or breaks now.               *)
CommandFails ==
  /\ \/ pc = "exhaust" /\ cur = Exhausted /\ then \in {"execute", "close"}
     \/ pc = "receive"
  /\ conn' = FALSE
  /\ Return("err")
  /\ asked' = NoExport
  /\ UNCHANGED <<then, cursorVars, closes, serverVars, ghostVars>>

(* The ids that the server gives to the results of a response.              *)
WithIds(response) ==
  [i \in 1 .. Len(response) |->
     IF response[i].kind # "data" THEN response[i]
     ELSE [response[i] EXCEPT !.id =
             IF response[i].noslice THEN NoId
             ELSE opened + Cardinality({j \in 1 .. i : response[j].kind = "data"
                                                     /\ ~response[j].noslice})]]

(* Lines that start with = make one reply as long as they follow each other. *)
WellFormed(response) ==
  \A i \in 1 .. Len(response) - 1 :
    ~(\A j \in {i, i + 1} : response[j].kind = "data" /\ response[j].noslice)

Created(response) ==
  {i \in 1 .. Len(response) : response[i].kind = "data" /\ ~response[i].noslice}

(* What the server keeps: results that the response does not include whole. *)
Kept(response) ==
  {WithIds(response)[i].id : i \in
     {i \in Created(response) : /\ ~response[i].prepared
                                /\ response[i].included < response[i].total}}

(* command_with_uploads and install_response, or discard_sql_response when  *)
(* a delayed command has failed.  Any error line fails the call and         *)
(* discards all replies.                                                    *)
ExecuteCommand(response, delayed_error) ==
  /\ pc = "exhaust" /\ cur = Exhausted /\ then = "execute" /\ conn
  /\ WellFormed(response) /\ opened + Cardinality(Created(response)) <= MaxResults
  /\ LET parsed == Parse(WithIds(response))
         failed == \/ delayed_error
                   \/ \E i \in 1 .. Len(response) : response[i].kind = "error"
     IN  IF parsed.ok
           THEN /\ cur' = parsed.cur /\ rest' = parsed.rest
                /\ seen' = <<>>
                /\ IF failed THEN then' = "discard" /\ UNCHANGED <<pc, ret>>
                             ELSE Return("ok") /\ UNCHANGED then
                /\ UNCHANGED lost
           ELSE /\ Return("err")
                /\ lost' = TRUE
                /\ UNCHANGED <<then, cur, rest, seen>>
  /\ closes' = {}
  /\ live' = (live \ closes) \cup Kept(response)
  /\ opened' = opened + Cardinality(Created(response))
  /\ UNCHANGED <<max_prefetch, reply_size, collected, conn, asked>>

(* do_close sends what is delayed; the Drop that follows finds nothing.     *)
CloseCommand(delayed_error) ==
  /\ pc = "exhaust" /\ cur = Exhausted /\ then = "close" /\ conn
  /\ Flush
  /\ Return(IF delayed_error THEN "err" ELSE "ok")
  /\ UNCHANGED <<then, cursorVars, conn, opened, asked, ghostVars>>

-----------------------------------------------------------------------------
(* skip_to_result_set.                                                      *)
SkipTurn ==
  /\ pc = "skip" /\ cur.kind \notin {"data", "exhausted"}
  /\ NextReply
  /\ IF IntoNextReply.ok THEN UNCHANGED <<pc, ret>> ELSE Return("err")
  /\ UNCHANGED <<then, max_prefetch, reply_size, collected, conn, serverVars, asked>>

SkipEnds ==
  /\ pc = "skip" /\ cur.kind \in {"data", "exhausted"}
  /\ IF cur = Exhausted THEN Return("err") ELSE Goto(then) /\ UNCHANGED ret
  /\ UNCHANGED <<then, cursorVars, closes, conn, serverVars, asked, ghostVars>>

(* RowSet::advance and count_row.                                           *)
Advance ==
  /\ pc = "next_row" /\ cur.from < cur.to /\ ~cur.stuck
  /\ IF cur.next_row >= cur.total
       THEN cur' = [cur EXCEPT !.from = @ + 1] /\ Return("err") /\ UNCHANGED seen
       ELSE /\ cur' = [cur EXCEPT !.from = @ + 1, !.next_row = @ + 1]
            /\ seen' = Append(seen, cur.from)
            /\ Return("true")
  /\ UNCHANGED <<then, max_prefetch, rest, reply_size, collected, closes, conn, serverVars, asked,
                 lost>>

(* A row that cannot be parsed.  What follows it is no longer found, unless *)
(* the row does not even start as a row: that one fails again and again.    *)
AdvanceFails(stuck) ==
  /\ pc = "next_row" /\ cur.from < cur.to /\ ~cur.noslice
  /\ cur.stuck => stuck
  /\ cur' = IF stuck THEN [cur EXCEPT !.stuck = TRUE]
                     ELSE [cur EXCEPT !.to = cur.from]
  /\ lost' = TRUE
  /\ Return("err")
  /\ UNCHANGED <<then, max_prefetch, rest, reply_size, collected, closes, conn, serverVars, asked,
                 seen>>

AllIncluded == cur.next_row >= cur.included
AllRead == cur.next_row >= cur.total

NoMoreRows ==
  /\ pc = "next_row" /\ cur.from = cur.to /\ AllRead
  /\ Return("false")
  /\ UNCHANGED <<then, cursorVars, closes, conn, serverVars, asked, ghostVars>>

WrappingDouble(n) == (2 * n) % (UsizeMax + 1)
SaturatingDouble(n) == IF 2 * n <= UsizeMax THEN 2 * n ELSE UsizeMax
SaturatingSucc(n) == IF n < UsizeMax THEN n + 1 ELSE UsizeMax
Least(m, n) == IF m <= n THEN m ELSE n

NextWindowSize(previous) ==
  IF max_prefetch = Unlimited THEN SaturatingDouble(previous)
  ELSE Least(SaturatingDouble(previous), SaturatingSucc(max_prefetch))

ExportFromIncluded == cur.included
ExportFrom == cur.next_row

(* decide_next_fetch and the request.  The old row set is out of place from *)
(* here on; the first one is stashed, which keeps the replies in rest.      *)
FetchMoreRows ==
  /\ pc = "next_row" /\ cur.from = cur.to /\ ~AllRead
  /\ cur' = [cur EXCEPT !.from = 0, !.to = 0]
  /\ IF conn
       THEN /\ asked' = [kind |-> "text", id |-> cur.id, start |-> ExportFrom,
                         n |-> Least(cur.total - cur.next_row,
                                     NextWindowSize(reply_size))]
            /\ Flush /\ Goto("receive") /\ UNCHANGED ret
       ELSE Return("err") /\ UNCHANGED <<asked, closes, live>>
  /\ UNCHANGED <<then, max_prefetch, rest, reply_size, collected, conn, opened, ghostVars>>

(* validate_fetch_progress.                                                 *)
AnyRows(k) == TRUE
HasPendingRow(k) == k > 0

(* The export arrives with k rows, which may be fewer or more than its      *)
(* header says.  refused: an error of a delayed command, an error reply or  *)
(* a header that does not match the request.                                *)
ReceiveRows(k, refused) ==
  /\ pc = "receive" /\ asked.kind = "text" /\ k <= asked.n + 1
  /\ IF refused \/ ~HasPendingRow(k) THEN Return("err") /\ UNCHANGED <<cur, reply_size>>
     ELSE /\ cur' = [cur EXCEPT !.from = asked.start, !.to = asked.start + k]
          /\ reply_size' = NextWindowSize(reply_size)
          /\ Goto("next_row") /\ UNCHANGED ret
  /\ asked' = NoExport
  /\ UNCHANGED <<then, max_prefetch, rest, collected, closes, conn, serverVars, ghostVars>>

NotChecked == TRUE
Resident == cur.included # cur.total

(* fetch_binary_into.                                                       *)
FetchBinaryInto(start, count) ==
  /\ pc = "fetch_binary"
  /\ IF ~cur.prepared /\ Resident /\ count > 0 /\ start < cur.total /\ conn
       THEN /\ asked' = [kind |-> "binary", id |-> cur.id, start |-> start,
                         n |-> Least(count, cur.total - start)]
            /\ Flush /\ Goto("receive") /\ UNCHANGED ret
       ELSE Return("err") /\ UNCHANGED <<asked, closes, live>>
  /\ UNCHANGED <<then, cursorVars, conn, opened, ghostVars>>

ReceiveBinary(ok) ==
  /\ pc = "receive" /\ asked.kind = "binary"
  /\ Return(IF ok THEN "ok" ELSE "err")
  /\ asked' = NoExport
  /\ UNCHANGED <<then, cursorVars, closes, conn, serverVars, ghostVars>>

-----------------------------------------------------------------------------
(* Drop: like exhaust, but the ids are queued together at the end, which a  *)
(* reply that cannot be parsed brings forward.                              *)
Drop ==
  /\ pc = "idle"
  /\ Goto("drop") /\ collected' = {}
  /\ UNCHANGED <<then, max_prefetch, cur, rest, reply_size, closes, conn, serverVars, asked,
                 ghostVars, ret>>

DropTurn ==
  /\ pc = "drop"
  /\ LET next == IntoNextReply
         ids == IF next.ok THEN collected \cup ToClose ELSE collected
     IN  /\ cur' = IF next.ok THEN next.cur ELSE Exhausted
         /\ rest' = IF next.ok THEN next.rest ELSE <<>>
         /\ lost' = (lost \/ ~next.ok) /\ seen' = <<>>
         /\ IF cur' = Exhausted
              THEN closes' = closes \cup ids /\ collected' = {} /\ Goto("gone")
              ELSE collected' = ids /\ UNCHANGED <<closes, pc>>
  /\ UNCHANGED <<then, max_prefetch, reply_size, conn, serverVars, asked, ret>>

(* Connection::cursor.                                                      *)
New ==
  /\ pc = "gone"
  /\ pc' = "idle" /\ ret' = "ok"
  /\ cur' = Exhausted /\ rest' = <<>> /\ reply_size' = InitialReplySize
  /\ seen' = <<>>
  /\ UNCHANGED <<then, max_prefetch, collected, closes, conn, serverVars, asked, lost>>

-----------------------------------------------------------------------------
Init ==
  /\ pc = "idle" /\ then = "return" /\ ret = "ok"
  /\ cur = Exhausted /\ rest = <<>> /\ reply_size = InitialReplySize
  /\ max_prefetch \in MaxPrefetches
  /\ collected = {} /\ closes = {} /\ conn = TRUE
  /\ live = {} /\ opened = 0
  /\ asked = NoExport /\ seen = <<>> /\ lost = FALSE

Begin ==
  \/ Execute \/ Close \/ NextReplyCall \/ NextRow \/ FetchBinary \/ Drop \/ New
  \/ \E n \in ReplySizes : SetReplySize(n)

Responses == UNION {[1 .. n -> Replies] : n \in 0 .. MaxReplies}

Running ==
  \/ StepNextReply \/ ExhaustTurn \/ Discarded \/ CommandFails
  \/ \E delayed_error \in BOOLEAN : CloseCommand(delayed_error)
  \/ \E response \in Responses, delayed_error \in BOOLEAN :
       ExecuteCommand(response, delayed_error)
  \/ SkipTurn \/ SkipEnds
  \/ Advance \/ NoMoreRows \/ FetchMoreRows
  \/ \E k \in 0 .. UsizeMax + 1, refused \in BOOLEAN : ReceiveRows(k, refused)
  \/ \E start, count \in 0 .. 2 : FetchBinaryInto(start, count)
  \/ \E ok \in BOOLEAN : ReceiveBinary(ok)
  \/ \E stuck \in BOOLEAN : AdvanceFails(stuck)
  \/ DropTurn

Next == Begin \/ Running

Spec == Init /\ [][Next]_vars

(* A call that has begun goes on, and the server answers or the transport   *)
(* fails.                                                                   *)
FairSpec == Spec /\ WF_vars(Running)
-----------------------------------------------------------------------------
(* Properties.                                                              *)

DataParsers ==
  [kind : {"data"}, id : Nat, noslice : BOOLEAN, prepared : BOOLEAN, next_row : Nat,
   total : Nat, included : Nat, from : Nat, to : Nat, stuck : BOOLEAN, to_close : Nat]
Parsers == [kind : {"exhausted", "success", "error"}] \cup DataParsers
Exports == [kind : {"none", "text", "binary"}, id : Nat, start : Nat, n : Nat]

(* Every field keeps its range; in particular reply_size, which each fetch  *)
(* doubles in a usize, never wraps to zero, and a window is never empty.    *)
TypeOK ==
  /\ pc \in {"idle", "next_reply", "exhaust", "skip", "next_row", "fetch_binary",
             "receive", "drop", "gone"}
  /\ then \in {"return", "execute", "close", "discard", "next_row", "fetch_binary"}
  /\ cur \in Parsers /\ rest \in Seq(ReplyRecords) /\ seen \in Seq(Nat)
  /\ reply_size \in 1 .. UsizeMax /\ max_prefetch \in MaxPrefetches
  /\ opened \in Nat /\ closes \cup collected \cup live \subseteq 1 .. opened
  /\ conn \in BOOLEAN /\ lost \in BOOLEAN
  /\ asked \in Exports /\ (asked.kind = "text" => asked.n \in 1 .. UsizeMax)
  /\ ret \in {"ok", "true", "false", "err"}

(* next_row returns the rows of a result one after the other, each once and *)
(* never more than the result has, however the rows are spread over windows *)
(* and whatever fails in between: an export that is refused, a row that     *)
(* cannot be parsed, a window that holds fewer or more rows than requested. *)
RowsInOrder ==
  cur.kind = "data" => seen = [i \in 1 .. cur.next_row |-> i - 1]
                       /\ cur.next_row <= cur.total

(* next_row says that there are no more rows only behind the last row.      *)
EndMeansAllRows ==
  [][pc = "next_row" /\ pc' = "idle" /\ ret' = "false" => Len(seen) = cur.total]_vars

Unclosed(replies) ==
  {replies[i].id : i \in {i \in 1 .. Len(replies) :
     /\ replies[i].kind = "data" /\ ~replies[i].prepared
     /\ replies[i].included < replies[i].total}}
Held == ToClose \cup Unclosed(rest)

(* Every result that the server keeps is in exactly one place: still to be  *)
(* read, on its way to the queue, or queued for Xclose.  So each is closed  *)
(* once and none is forgotten, through execute, next_reply, close, Drop and *)
(* failing calls, as long as every reply can be parsed.                     *)
ResultsAccounted ==
  /\ conn /\ ~lost => live = Held \cup collected \cup closes
  /\ Held \cap closes = {} /\ Held \cap collected = {} /\ collected \cap closes = {}

(* No Xexport or Xexportbin names a result that the server does not keep:   *)
(* one that was closed, also by the closes sent ahead of the export, or one *)
(* that came whole with its response.  (When a row of the latter cannot be  *)
(* parsed, next_row does ask for it again, which the server refuses.)       *)
ExportedResultIsLive ==
  asked.kind # "none" => asked.id \in live \/ (lost /\ cur.to_close = NoId)

(* An export asks for at least one row and for rows the result has, however *)
(* often its size has doubled in a usize; a text window starts behind the   *)
(* last row returned, and reads at most maxprefetch rows ahead of it.       *)
WindowBounds ==
  asked.kind # "none" =>
    /\ asked.n >= 1 /\ asked.start + asked.n <= cur.total
    /\ asked.kind = "text" =>
         /\ asked.start = Len(seen)
         /\ max_prefetch # Unlimited => asked.n <= max_prefetch + 1

UnreadPlan == cur.kind = "data" /\ cur.noslice /\ cur.from < cur.to

(* A call returns once the server answers or the transport fails: the loops *)
(* of exhaust, skip_to_result_set, next_row and Drop end, unless they come  *)
(* upon unread lines that start with = (see EarlierResultsAreDiscarded).    *)
CallsReturn == pc \notin {"idle", "gone"} ~> pc \in {"idle", "gone"} \/ UnreadPlan

(* "The results of any earlier queries on this cursor are discarded."       *)
(* (execute): the loop that discards them ends.                             *)
EarlierResultsAreDiscarded ==
  pc = "exhaust" /\ then = "execute" ~> cur = Exhausted \/ pc = "idle"
=============================================================================
