# A TLA+ model of monetdb-rust

`monetdb-rust` is a synchronous client for the MonetDB database. This directory
holds TLA+ modules for the parts of it that keep state or parse text, the TLC configurations
that check them on small instances, and TLAPS proofs of the safety properties of seven of
the modules for every instance. All paths below are relative to the crate (`src/conn.rs`);
`PROJECT.json` maps every definition to its lines.

## The system and its parts

| part | code | module | status |
|---|---|---|---|
| connection object: mutex, cancel, close, clean-up queues | `src/conn.rs` | `Connection`, `Lifecycle` | modelled, checked, proved |
| operation watchdog: one timer thread per connection | `src/conn.rs` | `Connection` | modelled, checked, proved |
| message framing: headers, blocks, `MapiBuf`, `MapiReader`, `ServerSock` | `src/framing/` | `BlockState`, `Framing` | modelled, checked, proved |
| delayed commands, autocommit | `src/cursor/delayed.rs`, `src/conn.rs` | `Session` | modelled, checked, proved |
| cursor: replies, rows, export windows, closing of results | `src/cursor/` | `Cursor` | modelled, checked, proved |
| client-side uploads | `src/cursor/upload.rs` | `Upload` | modelled, checked, proved |
| connecting, login, redirects | `src/framing/connecting.rs` | `Login` | modelled, checked, proved; texts and digests abstracted |
| socket timeouts: idle limits, deadlines, socket options | `src/framing/mod.rs` | `SocketTimeouts` | modelled, checked, proved |
| parameters: typed table, setters, validation | `src/parms/parameters.rs` | `ParameterTable`, `Parameters` | modelled, checked |
| URLs: three forms, percent coding, generated URLs | `src/parms/urlparser.rs` | `Url` | modelled, checked |
| reply text: headers, columns, rows, escapes | `src/cursor/replies.rs`, `src/cursor/rowset.rs` | `ReplyText`, `ReplyStream` | modelled, checked |
| value conversions: decimals, dates, times | `src/convert/` | `Decimal`, `Temporal` | own parsers modelled, checked |
| metadata, TLS library, digests, logging | | | not modelled, see the end |

How they interact. A `Connection` is an `Arc<Conn>` shared with its cursors, with
cancel handles and with the watchdog's thread. Every operation (a statement, a
fetch, `set_autocommit`, `Cursor::close`) runs a closure inside
`run_locked_with_timeouts`: it takes the mutex and the socket, arms the watchdog,
adds the clean-up commands that others have left, runs the closure, and puts the
socket back if nothing interrupted it. The closure writes the delayed commands
and its own command in one go and reads the responses in order. Login creates the
first delayed commands.

The modules cut at the interfaces of the code. `Connection` treats the closure as
a step that ends in any way; `Session` is one closure after another, with the
server's side; `Cursor` and `Upload` look at one kind of operation in detail,
with the transport reduced to "answers" or "fails"; `Framing` is the byte stream
under all of them. `ReplyStream` is what `Cursor` abstracts: the text of one response
and the calls that read it. `SocketTimeouts` is the time that the closure's reads and
writes may take. `Parameters` and `Url` come before a connection exists; `Login` keeps
an extract of them, what a redirect can change, because the whole table would
multiply its states.

## Modules

**`Connection`**. `pc[t]` is the statement thread `t` is about to execute. A step is
what the code does between two accesses to state that others can see. `closing`,
`operation_state`, `raw` (the socket can still be shut down), `holder` and `poisoned`
(the mutex), `sock`, the watchdog's fields, `pending_closes`, `pending_deallocates`
and `delayed` are the fields of the code; `queued` and `sent` are history.

| action | code |
|---|---|
| `Call` `Lock` `Poisoned` `CheckClosing` `TakeSock` | head of `run_locked_with_timeouts` |
| `Arm` `Disarm`, `DeadlinePasses` `WorkerLoop` `WorkerWake` `WorkerShutdown` | `OperationWatchdog::arm`, `disarm`, `run` |
| `TakePendingCloses` `TakePendingDeallocates` | the two pending lists |
| `ClosureSend` `ClosureReturn` `ClosurePanic` | the closure, with any outcome |
| `SwapIdle` `Install` | the tail: cancelled, timed out, failed, put back |
| `Cancel` `CancelShutdown` | `Conn::cancel`, the exchange and the shutdown |
| `Close` `CloseShutdown` `CloseTryLock` `CloseSock` | `close_connection` |
| `TryQueueCloses` `TryQueueDeallocate` `Add...` `Push...` | `try_queue_closes`, `try_queue_deallocate` |
| `DropHandle` `DropArc` `DropWatchdog` `Join` | the drops, of which the last one joins the worker |

**`Lifecycle`** is what the connection promises: one operation at a time, an
interrupted operation does not succeed, a failed one ends the connection.
`Connection` implements it with `user <- User`, `open <- ~closing /\ ~poisoned`,
`interrupted <- Interrupted`: an operation is served from the check of `closing` to
the exchange of `operation_state`.

**`BlockState`** holds the header and `BlockState::skip_headers` as operators (the
turns of its loop, one after the other). **`Framing`** has the sender (`MapiBuf`: `AppendData`,
`EndMessage`, `SendDelayed`, `WriteReset`), a server that may cut messages into
smaller blocks than this client does, a wire that may be cut, and the reader
(`NewReader`, `ReadHeader`, `ReadBody`, `ReadEof`, `Finish`, `LimitReached`, `Done`)
on top of the buffer of `ServerSock` (`SockRead`). Bytes are numbers below `Base`,
so that headers are really encoded and decoded. `Payload` is all that the callers
append, one byte after the other, in pieces of any size; `total` counts what was.

**`Session`**. `unsent` and `responses` are `DelayedCommands`; `c2s` and `s2c` are the
two directions of the socket; commands are numbered so that a response can be told
from another. `BeginOperation`, `Send`, `ReceiveDelayed`, `ReceiveAnswer`,
`ReturnClose` are an operation; `AddCleanup` and `QueueCleanup` other threads;
`Serve` the server; `Break` everything that ends the connection.

**`Cursor`**. `cur` is `self.replies` and `rest` the part of the response behind it;
a reply is a record of its kind and its numbers of rows. `closes` stands for the
queue of `Xclose` commands, `live` for the results the server keeps. The public
calls (`Execute`, `NextReplyCall`, `NextRow`, `FetchBinary`, `Close`, `Drop`,
`SetReplySize`) start the loop they begin with; each turn of a loop is an action
(`ExhaustTurn`, `SkipTurn`, `Advance`, `FetchMoreRows`, `DropTurn`). `ReceiveRows`
lets the server send fewer or more rows than asked for, an error, or rubbish.
Integers saturate at `UsizeMax`.

**`Upload`** has the loop of `command_with_uploads`, the sink that the callback
writes to, and the server: it asks for files, wants more, has enough, or ends the
statement at any point. Bytes are numbered, so that the file can be compared. A write
that fails ends the call (`Break`), except for the newline with which `start` accepts the
file: there the sink keeps its socket, and the refusal that follows is tried on it.

**`Login`** has the loop of `establish_connection`: parameters, unix and TCP
addresses, TLS, challenge and response, restarts and redirects, and the one
deadline. The origin of user and password is a number: 0 the default, 1 the
caller, n + 1 the n-th redirect. The URL of a redirect has a host or not, user and
password or not, and a query (`Queries`) that can set or clear the socket path, ask for
a language other than SQL, which validation refuses, and change the options of the next
login. A connect timeout in it has no effect on the deadline, which is made before the
loop. Parameters that are not modelled can make a URL invalid (`GoesWrong`).

**`SocketTimeouts`** has the two layers that share the work: `ActiveTimeouts` decides how
long the next call may wait (`Limit`), the socket options make the kernel wait no
longer (`option`), and a cache (`last`) saves setting them again. `Read`, `Write` and
`TakeBuffered` are the calls of an operation; `Tick`, `TimerFires`, `Proceeds`,
`Interrupted` and `Breaks` the clock, the kernel and the peer. A deadline is kept as the
time left until it.

**`ParameterTable`** is `Parm`, `Value` and the table; **`Url`** parses and generates URLs;
**`Parameters`** is a `Parameters` object under any sequence of calls, with
`Validated::new` as the operators `Checks` (its conditions in their order) and
`Validated` (what it derives). Text is a sequence of tokens (`Text` has the string
methods): a token is a character that means something to the code, or a run of
characters that does not (`"db"`, a number). `%`, `&`, `+`, `/` and the others are tokens of
their own, so coding and splitting are done, not assumed. The `url` crate is modelled
as the code uses it.

**`ReplyText`** translates `ReplyBuf`, `RowSet` and `ReplyParser` over such texts,
with the buffer overwritten in place by `ConvertBackslashes`. **`ReplyStream`** adds
the server's rendering (`Render`), the calls (`InstallResponse`, `NextReply`, `NextRow`,
`ExhaustReplies`) and the history `seen`. **`Decimal`** and **`Temporal`** are the
conversions, with the range of the integer type as a parameter.

The `MC` modules give the constants that a configuration cannot write.

## Runs

| run | bounds | states | shows |
|---|---|---|---|
| `conn_lifecycle` | 3 threads, tokens mod 2, no clean-up | 50 thousand | types; late interrupts; refinement of `Lifecycle`; deadline, cancel and close end an operation; join returns |
| `conn_cleanup` | 2 threads, 2 ids, tokens mod 2 | 1.9 million | clean-up commands neither lost nor doubled; `try_deallocate` |
| `framing` | blocks of 2, read buffer of 3, limit 3, 2 messages, 4 bytes | 345 thousand | round trip, reader in step, limit exact, no reader waits for nothing |
| `session` | 6 commands, 2 pending | 317 thousand | pipeline in step, autocommit, errors; operations end |
| `cursor` | 2 replies of every kind per response, 2 results, up to 6 rows, `usize` up to 3, maxprefetch none and 0 | 251 thousand | results closed once, none used after; row order, windows; calls return |
| `upload` | chunks of 2, writes up to 5, files up to 6 bytes, 2 files | 5 thousand | in step, whole files, error priority; the call returns |
| `login` | 3 logins, 2 addresses, levels 2 and 6, offsets 0 and -5430 s, 4 queries of URLs | 119 thousand | TLS, credentials, options; the login ends |
| `parameters` | 3 calls, values at and next to the limits, 20 URLs (6 names or URLs with `basic`) | 71 thousand | URL round trip, validation, failed calls |
| `timeouts` | longest timeout 3, timeouts none, 0, 2, 4, buffer of 2 | 74 thousand | no wait too long, no timeout early, deadline ends an operation |
| `reply_text` | responses of up to 3 replies, 17 field texts; results with each of them cut off at every token; decimals of up to 4 tokens and at the limits of `i8`, `u8` | 37 thousand | what is read is what was sent; conversions are exact |
| `cursor_unread_plan` | one `=` reply | | violation, below |
| `reply_empty_result` | a result without rows, an EXPLAIN | | violation, below |

Why the bounds are enough for the cases they are meant for. Three threads are an
operation, its interrupter, and the next operation that must not be hit; two
tokens wrap around at once. Blocks of two bytes with reads of any size put a
boundary at every place of a header and a body, and 4 bytes with a limit of 3 hit
the limit exactly, below and above. Two replies and two results have every kind of
reply in front of and behind a result. Six rows, one of them in the response, take
a window that has doubled to 2 and one that saturates at 3, both full; with a
maxprefetch of 0 they take five windows of one row. Files of three chunks with writes of up to two and a half cover
pending data that fills a chunk exactly, partly, and several times. With level 2
only one option goes into the response and the reply size is just beyond it, with level 6
all do, and -5430 seconds are not whole minutes. The queries of redirects ask for nothing;
for a socket and another time zone; for no socket and other options; for another language. Three calls on parameters are two that must not
disturb each other and a URL, and the inputs are values on both sides of the
checks; an `i32` ends at 999 there, so that 16 minutes fit and 17 do not. A timeout of 2
is below and one of 4 above the longest, 3. The field texts of `reply_text` are each
token that means something to the parser alone, and the orders of tokens that would
be a header, an error, an autocommit line or a row if they were read as lines; the
widths of decimals are 8 and 16 bits, with a `u8` scale that ends at 7, and
microseconds have 27 bits.

Deadlock is checked except in `framing`, `session`, `parameters`, `timeouts` and
`reply_text`, where the bounded sender, the bounded number of commands or calls, a
closed socket, or a response that is read to its end simply leave nothing to do.
`Connection`, `Upload` and `Login` state their legal ends as a stuttering action.

No run uses symmetry. `TypeOK` is checked in a run for `Connection` only; the modules
with proofs prove theirs, `Parameters` and `ReplyStream` state it for the reader.

`CallsReturn` lets a call off that comes upon unread `=` lines: there the loops do not
end, which is the finding of `cursor_unread_plan`. Everywhere else they do.

### Fairness

* `Connection`: a thread finishes the call it is in; it gets the mutex if that
  stays free; a closure whose socket is shut down fails; time passes and the
  worker is scheduled. No thread need begin a call, no server need answer, no
  condition variable need wake spuriously.
* `Framing`: a reader that has begun goes on.
* `Session`, `Upload`: the client's thread goes on, the server answers, and the
  callback comes to an end. That is what these properties are about: nobody waits
  for something that nobody owes.
* `Cursor`: a call that has begun goes on, and its command is answered or fails.
* `Login`: local steps and time. No peer has to answer; the second half of `LoginEnds`
  assumes that they do, in the property.
* `SocketTimeouts`: the clock and the kernel's timers run, and an operation that is not
  over makes its next call. No peer has to send or take a byte.

### Properties

Each is stated in words above its definition. The ones to know:

* `OpenIsUsable`, `InterruptsHitTheirOperation` (`Connection`): cancel and the
  watchdog shut the socket down outside the mutex, possibly after their operation
  has returned. Nevertheless the next operation is never hit, and a connection that
  is not marked closing works.
* `CleanupConserved` (`Connection`): ids that are queued while others operate end
  up on the wire exactly once.
* `InStep` (`Framing`): a second decoder, a byte at a time, applied to everything
  the reader has not taken yet gives exactly the messages not yet received.
* `PipelineInStep`, `AutocommitAgrees`, `ErrorsReachTheCaller` (`Session`).
* `RowsInOrder`, `ResultsAccounted`, `ExportedResultIsLive` (`Cursor`).
* `TransferInStep`, `FileIsWhole` (`Upload`).
* `TlsNeverDowngraded`, `CredentialsBelongTogether`, `OptionsReachTheServer` (`Login`).
* `TimeoutsAreExact` (`SocketTimeouts`): the cache, the socket option and the kernel's
  timer never let a call wait by an earlier operation's limit.
* `UrlRoundTrip` (`Parameters`): generated URLs mean the parameters they were made from.
* `ReadsWhatWasSent` (`ReplyStream`): against the server's rendering, for every number of
  rows read before the next reply, and for results that are cut off at any token.

For every property there is a mutant in `PROJECT.json`: a definition with a
plausible mistake in it (`...Forgotten`, `...Ignored`) under which TLC finds the
property violated.

### What the runs found

* `cursor_unread_plan`. The reply to EXPLAIN has lines that start with `=`.
  `RowSet::finish` looks for the next line that starts with `&` or `=`, and an
  unread row of such a result is one. `into_next_reply` then parses the same rows
  again, and the loop of `exhaust` (in `execute` and `close`) or of `Drop` never
  ends, although "the results of any earlier queries on this cursor are discarded".
  TLC shows the turn as a step back to the same state, which it calls stuttering.
  The test `test_explain_rows_and_connection_reuse` reads the plan to its end.
* `reply_empty_result`. `parse_data` decides by the text behind the column lines whether
  a result is a plan (rows that start with `=`). When a result has no rows, that text
  is the next reply, and an EXPLAIN there starts with `=`. Its lines become rows of the
  empty result and `next_row` fails with `TooManyRows`; it is said to return "a
  boolean that indicates whether such a row was present".

Also visible in the models, and accepted by the properties:

* A result whose following reply cannot be parsed is not closed until the connection
  ends (`lost` in `Cursor`). A row that cannot be parsed in a result that came whole
  makes `next_row` export a result the server does not keep, which the server refuses.
* An `Xexport` after `set_reply_size(n)` asks for 2n rows, then 4n, and so on up to
  maxprefetch + 1. The README describes the doubling, the comment on the method does not.
* After an error on a response that was cut off, the buffer is partly unescaped, and
  calls that go on can find an empty row or a reply that was none. `ReadsWhatWasSent`
  therefore ends at the first error.
* `monetdb://host` leaves a database set before as it is (without a path the
  `url` crate gives no path segments, and `parse_monetdb_url` sets the database from the
  first one). `tests.md` says that a URL sets tls, host, port and database "even if left
  out of the URL".
* The last two sentences of rule 7 in `Validated::new` (`table` needs `tableschema`, which
  needs `database`) are not checked by the code.
* A generated URL cannot say: host `localhost`, time zone 0 set on purpose, the names
  `.` and `..` (`Expressible` in `Parameters`).
* `set_binary` with a number or a boolean is always refused, since the type of the
  parameter is text.
* `RawDecimal` compares two zeros as different when the scale needs a power of ten that
  does not fit the type (`i8`: 0 and 0.000).

Seen in the code only; the responses of `reply_text` leave these cases out:

* The lines of an EXPLAIN end at the first line that does not start with `=`, so a reply
  of `=` lines directly behind it is read as part of it.
* The column lines are cut at the first ` # ` and at each comma with a tab, before quotes
  are looked at (`replies.rs`), so a column name with one of them is not read back.

## Proofs

Eight modules hold theorems. Each of them is about every value of the constants that
the assumption named allows, where a run has one small instance.

| theorem | statement | for every |
|---|---|---|
| `ConnectionProofs`: `Invariance`, `TypeCorrect` | `Spec => []IInv`, `Spec => []TypeOK` | set of threads and of ids, token width above 1 (`ThreadsAssumption`, `TokenModAssumption`; the code has 2^64) |
| `OpenUsable` | `Spec => []OpenIsUsable` | |
| `InterruptsHit` | `Spec => []InterruptsHitTheirOperation` | |
| `DeallocateFalse` | `Spec => []DeallocateFalseMeansClosed` | |
| `CleanupIsConserved` | `Spec => []CleanupConserved` | |
| `Refinement` | `Spec => ImplementsLifecycle` | |
| `FramingProofs`: `Invariance`, `TypeCorrect` | `Spec => []IInv`, `Spec => []TypeOK` | payload, limit, sizes of the read buffer and of reads, number of messages and of early blocks (`FramingAssumption`), block size above 0 and even base with room for a header in two bytes (`BlockAssumption`; the code has 8190 and 256) |
| `StaysInStep` | `Spec => []InStep` | |
| `ReceivesInOrder` | `Spec => []ReceivedInOrder` | |
| `AcceptsSoundStreams` | `Spec => []SoundStreamIsAccepted` | |
| `LimitExact` | `Spec => []LimitIsExact` | |
| `SessionProofs`: `Invariance` | `Spec => []IInv` | login, number of commands and of waiting clean-ups (`SessionAssumption`) |
| `InStep` | `Spec => []PipelineInStep` | |
| `Autocommit` | `Spec => []AutocommitAgrees` | |
| `Errors` | `Spec => ErrorsReachTheCaller` (an action property) | |
| `CursorProofs`: `Invariance` | `Spec => []IInv` | set of replies, number of results, largest `usize`, maxprefetch and reply sizes above 0 (`CursorAssumption`) |
| `Accounted` | `Spec => []ResultsAccounted` | |
| `Exported` | `Spec => []ExportedResultIsLive` | |
| `InOrder` | `Spec => []RowsInOrder` | |
| `Windows` | `Spec => []WindowBounds` | |
| `AllRows` | `Spec => EndMeansAllRows` (an action property) | |
| `UploadProofs`: `Invariance`, `TypeCorrect` | `Spec => []IInv`, `Spec => []TypeOK` | chunk size above 0, sizes of writes and files, number of requests (`UploadAssumption`) |
| `InStep` | `Spec => []TransferInStep` | |
| `FilesAreWhole` | `Spec => []FileIsWhole` | |
| `NoTrouble` | `Spec => []OkMeansNoTrouble` | |
| `LoginProofs`: `Invariance` | `Spec => []IInv` | number of logins and addresses, option levels, time zones, queries of URLs (`LoginAssumption`) |
| `TlsKept` | `Spec => []TlsNeverDowngraded` | |
| `CredentialsTogether` | `Spec => []CredentialsBelongTogether` | |
| `OptionsReach` | `Spec => []OptionsReachTheServer` | |
| `SocketTimeoutsProofs`: `Invariance` | `Spec => []IInv` | longest timeout, set of durations, buffer size (`SocketTimeoutsAssumption`) |
| `Exact` | `Spec => []TimeoutsAreExact` | |

Hardly any of these properties is inductive as it stands. Every proof module begins with an
invariant `IInv` that is; its parts say why the code is right. TLC has checked each
`IInv` on the instance of the module's run. `TypeOK` is a part of all of them.

**Connection**. `OpenIsUsable` says nothing of the states in
which the mutex is held. `IInv` adds, in the order in which its parts are proved:

1. `LockInv`: a thread is in the critical section exactly when it holds the mutex;
   nobody operates on a poisoned connection; the owner's handle goes only after
   `closing` is set.
2. `MarkInv`: `operation_state` is not idle only while the holder is between the two
   exchanges (or has panicked there); a token belongs to an operation under way; a
   canceller on its way to the shutdown still finds its mark, or `closing`.
3. `SockInv`: the socket is missing only because of the holder, `closing` or a panic.
4. `FireInv`: what is armed has not fired and belongs to the holder; an operation
   whose token fired knows it when it has disarmed.
5. `CauseInv`: a shutdown, done or about to be, has a cause that is still visible:
   `closing`, poison, the mark, or the fired token of the holder. The holder turns
   the last two into `closing` before it releases the mutex, and this is why a late
   shutdown finds no later operation.

`CleanupConserved` needs only the types and that no two threads hold the same command
(`Parted`): then a command that leaves one list is in no other. The refinement is proved
from `IInv` action by action: four kinds of steps are steps of `Lifecycle`, the others
leave the mapped variables alone (`Stutter`).

**Framing**. `InStep` says what the bytes that are left decode to, at one moment; to show that
a step keeps it one has to know how they decode. A *point* is what a reader that takes one
byte at a time knows (what the block still needs, half of a header, the message so far, the
number of messages before it), and `Leads` is the step from one point to the next. `Carries`
says that a stream has a path of points along which the messages come out. The heart of `IInv`
is `StreamOK`: the read buffer, the socket and the finished blocks of `MapiBuf`, one
behind the other, carry the messages from the point where `MapiReader` is, up to what
is in the open block. The rest is the shape of the buffer, of the socket and of the reader's state
(`SenderOK`, `SocketOK`, `ReaderOK`), what was handed out (`HandedOut`) and how long a
message may be in each mode of reading (`Limited`).

`BlockStreams` has the lemmas that do not speak of the system's state. `HeaderSays`: a header
says the size and the flag that it was made from, for every base and block size. The
`Skip...` lemmas say what `skip_headers` returns for each piece that a reader can give it,
`BodyAndHeader` where the reader is after a read that went up to two bytes into
the next header, `AppendLongPacks` that the loop of `append_long` adds
exactly its data, and `DecodeAllIs` that the reference reader of `InStep`, which was written
from the protocol and not from the code, hands out the same messages as the points.
A step of the sender changes the end of the stream and a step of the reader its
front, so every action is one of these lemmas and the bookkeeping around it. A cut takes
bytes off the end; what is left carries the same messages as far as it goes,
which is why no truncated message is handed out.

The loops are recursive functions, and what they compute is shown for every length: each
proof takes the least turn at which the claim fails (`LeastNumber`, from the library's
theorem on well-founded sets) and shows that there is none.

**Session**. `PipelineInStep` looks at the next response; a later one could be wrong.
`PipeInv` compares position by position: the answers on their way back, the commands on
their way to the server and those still in the buffer are, one after the other, the
responses the client expects, with the operation's own command at the end. `ModeInv`
follows the autocommit mode through the commands on their way, `FaultInv` says that an
error that counts is remembered or still to be read, and `NumberInv` keeps the
operation's own command apart from the delayed ones.

**Cursor**. `RowInv`: the row set begins at the next row of the result unless it is empty
or the result has been read to its end; a result that came whole stays in the row set
until a row of it is lost. `AskedInv` says what an export on its way asks for, while
nothing moves the row set. `KeptInv`: results of one response have ids of their own, and what
the cursor holds, in the reply it reads and in the rest of the response, the server
keeps. `CallInv` ties the statement to the reply.

**Upload**. What is on the wire and what the server waits for is one of eight phases, and the
statement of the client decides which ones are possible (`PhaseInv`). In a file, the bytes
the server has, those under way, `pending` and the rest of the slice are the bytes
written so far, in this order (`Follows`, `GotInv`). A message without bytes ends the
file, and `Sent` has it that only `finish` sends one. `TroubleInv` remembers what went wrong.

**Login**. `SockInv`: the socket is encrypted exactly if the parameters of the moment say
so, since `apply_redirect` changes them and drops the socket in one step. `SecuredInv`:
parameters that required TLS once go on to, or the login has failed. `CredentialsInv` and
`OptionsInv` say of each login what the properties say of the last.

**SocketTimeouts**. `CacheInv`: the cache is empty or true. `WaitInv`: the time left and
the time waited add up to the idle timeout, or the time left is the deadline's.
`ErrorInv`: an error closes the connection, so that its cause stays visible.

Only model-checked:

* All liveness: fairness and ENABLED are beyond the prover.
* `Parameters` and `Url` (`UrlRoundTrip`, `ValidatedIsSound`, `FailedCallsChangeNothing`), and
  `ReplyStream`, `Decimal`, `Temporal` (`ReadsWhatWasSent`, `ConversionsAreExact`). They are
  built on `Text`, whose operators are recursive, as are the ones of `ReplyText` and
  `ReplyStream`; the prover does not take modules that have any. Written as functions, a round
  trip of texts would still need a proof for each of the nested parsers of the kind that
  `Framing` has for one.
* In `Framing`, that `to_limited` refuses every message above the limit: `LimitIsExact` says that it
  hands out none that is longer, and `EverythingArrives` that it does not wait instead.

## Assumptions about the server

The server answers commands in order, one message each. `Xauto_commit` sets the
mode even when the commit that goes with it fails; only the answer to enabling may
then tell another mode. The rows of a prepared statement's description come whole.
A file request is answered by a refusal or by data, and the server may end a
transfer after any message. A proxy (merovingian) challenge gets fixed credentials. Text fields are quoted with
`\t`, `\n`, `\"`, `\\` and octal escapes; column names are quoted when they have a blank, a
comma, a quote or a backslash; other fields have no tab.

## Not modelled

* The text of challenges and SQL statements, and the client-info command (a delayed
  command whose errors are ignored, like clean-up).
* Password digests and TLS, which libraries do; the code chooses an algorithm and
  builds a configuration, without state of its own. The reads and writes of a socket
  under TLS pass the buffer and the options of `SocketTimeouts` by on the outer
  socket and go through them on the inner one.
* UTF-8: a token is a whole character. Conversions that only call `FromStr` of a type of
  a library (integers, floats, uuid, other decimal and time crates).
* In `Upload`, a newline of `start` of which only a part is written before the write fails;
  whether anything can be written to such a socket is up to the transport.
* `write_fragment`'s own division into blocks, the same format as in `Framing`.
* Metadata: `metadata` is a local operation, a query and another local operation; two
  threads may both run the query, which the code accepts.
* Logging, error texts, redacted debug output, the test support in `util`.

## Plan

1. Proofs: of `Parameters`, first that calls that fail change nothing
   (`FailedCallsChangeNothing`, once `SplitAt` of `Text` is a recursive function instead of an
   operator).
2. Composition of `Session` with `Connection`: the closure as the pipeline, so that
   an interrupt between sending and receiving is the one of `Connection`.
3. Abstract specifications for `Cursor` (a sequence of results, each a sequence of
   rows) and `Framing` (a sequence of messages), with refinement mappings.
