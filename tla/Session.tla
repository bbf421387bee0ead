------------------------------ MODULE Session -------------------------------
(***************************************************************************)
(* What one connection says to the server: commands that are delayed until *)
(* the next exchange (src/cursor/delayed.rs), the exchange itself, and the *)
(* autocommit mode that ServerState caches (set_autocommit in src/conn.rs, *)
(* response_autocommit in src/cursor/replies.rs).                          *)
(*                                                                         *)
(* The mutex of Conn makes operations exclusive (Connection), and messages *)
(* arrive whole and in order (Framing).  Commands carry a number, so that  *)
(* an answer can be told from the answer to another command.               *)
(***************************************************************************)
EXTENDS Integers, Sequences, FiniteSetsExt

CONSTANTS
  LoginCommands,  \* sequences of commands that the login leaves behind
  MaxCommands,    \* bound: commands of one session
  MaxPending      \* bound: closes and releases that wait at the same time

(* Commands as they are sent.  The login delays the first three kinds.      *)
Commands(kinds) == [kind : kinds, n : Nat, enabled : BOOLEAN]
Delayable == {"auto", "set", "cleanup"}

ASSUME SessionAssumption ==
  /\ MaxCommands \in Nat /\ MaxPending \in Nat
  /\ LoginCommands \subseteq Seq(Commands(Delayable))
  /\ \A commands \in LoginCommands : Len(commands) <= MaxCommands

VARIABLES
  unsent,     \* DelayedCommands::buffer
  responses,  \* DelayedCommands::responses
  c2s, s2c,   \* what is under way to the server and back
  pending,    \* pending_closes and pending_deallocates
  issued,     \* commands numbered so far
  pc,         \* "idle", "send" or "receive"
  op,         \* the operation that runs
  delayed_error,
  autocommit, \* ServerState::autocommit
  open,       \* the socket is in place
  mode,       \* server: autocommit mode
  faults,     \* commands that were answered by an error that counts
  ret         \* what the last operation that talked returned

clientVars == <<unsent, responses, pending, issued>>
vars == <<clientVars, c2s, s2c, pc, op, delayed_error, autocommit, open, mode,
          faults, ret>>

NoOp == [kind |-> "none", n |-> 0, enabled |-> FALSE]

(* An answer: the number of its command, whether it has an error line, and  *)
(* the mode that its last &4 line tells, if it has one.                     *)
Answer(n, error, notice) == [n |-> n, error |-> error, notice |-> notice]

Told(answer, default) ==
  IF answer.notice = {} THEN default ELSE CHOOSE m \in answer.notice : TRUE

Numbers(commands) == [i \in 1 .. Len(commands) |-> commands[i].n]

-----------------------------------------------------------------------------
(* add and add_cleanup.                                                     *)
Expected(command) == [n |-> command.n, ignore |-> command.kind = "cleanup"]
ExpectedTwice(commands) == [i \in 1 .. 2 * Len(commands) |-> Expected(commands[(i + 1) \div 2])]
ExpectedAll(commands) == [i \in 1 .. Len(commands) |-> Expected(commands[i])]

(* try_queue_closes and try_queue_deallocate: the command goes to delayed   *)
(* if the mutex is free; else it waits for the next operation.              *)
Cleanup(n) == [kind |-> "cleanup", n |-> n, enabled |-> FALSE]

AddCleanup ==
  /\ pc = "idle" /\ open /\ issued < MaxCommands
  /\ issued' = issued + 1
  /\ unsent' = Append(unsent, Cleanup(issued'))
  /\ responses' = responses \o ExpectedAll(<<Cleanup(issued')>>)
  /\ UNCHANGED <<pending, c2s, s2c, pc, op, delayed_error, autocommit, open, mode,
                 faults, ret>>

QueueCleanup ==
  /\ open /\ Len(pending) < MaxPending /\ issued < MaxCommands
  /\ issued' = issued + 1
  /\ pending' = Append(pending, Cleanup(issued'))
  /\ UNCHANGED <<unsent, responses, c2s, s2c, pc, op, delayed_error, autocommit, open,
                 mode, faults, ret>>

(* run_locked_with_timeouts hands the pending commands to delayed.          *)
TakePending ==
  /\ unsent' = unsent \o pending
  /\ responses' = responses \o ExpectedAll(pending)
  /\ pending' = <<>>

HasNothingDelayed == responses' = <<>>

(* What an operation does without the server: server_info and metadata      *)
(* always, set_autocommit when nothing changes, do_close when nothing is    *)
(* delayed.                                                                 *)
IsLocal(kind, enabled) ==
  \/ kind = "local"
  \/ kind = "auto" /\ enabled = autocommit
  \/ kind = "close" /\ HasNothingDelayed

HasCommand(kind) == kind \in {"statement", "raw", "auto"}

BeginOperation(kind, enabled) ==
  /\ pc = "idle" /\ open /\ issued < MaxCommands
  /\ TakePending
  /\ IF IsLocal(kind, enabled)
       THEN UNCHANGED <<pc, op, issued>>
       ELSE /\ pc' = "send"
            /\ issued' = IF HasCommand(kind) THEN issued + 1 ELSE issued
            /\ op' = [kind |-> kind, n |-> IF HasCommand(kind) THEN issued' ELSE 0,
                      enabled |-> enabled]
  /\ delayed_error' = FALSE
  /\ UNCHANGED <<c2s, s2c, autocommit, open, mode, faults, ret>>

(* write_reset_plus: the delayed commands first, then the command itself.   *)
Plain(command) == IF HasCommand(command.kind) THEN <<command>> ELSE <<>>
CommandFirst(command) == Plain(command) \o unsent
DelayedPlus(command) == unsent \o Plain(command)

(* send_delayed and send_delayed_plus.                                      *)
Send ==
  /\ pc = "send"
  /\ c2s' = c2s \o DelayedPlus(op)
  /\ unsent' = <<>>
  /\ pc' = "receive"
  /\ UNCHANGED <<responses, pending, issued, s2c, op, delayed_error, autocommit, open,
                 mode, faults, ret>>

(* recv_delayed_inner: the first error that is not ignored stays.           *)
ErrorOfLast(answer) == answer.error /\ ~Head(responses).ignore
FirstError(answer) == delayed_error \/ (answer.error /\ ~Head(responses).ignore)

ReceiveDelayed ==
  /\ pc = "receive" /\ responses # <<>> /\ s2c # <<>>
  /\ delayed_error' = FirstError(Head(s2c))
  /\ responses' = Tail(responses)
  /\ s2c' = Tail(s2c)
  /\ UNCHANGED <<unsent, pending, issued, c2s, pc, op, autocommit, open, mode, faults,
                 ret>>

Finish(value) ==
  /\ pc' = "idle" /\ op' = NoOp /\ ret' = value /\ faults' = {}
  /\ UNCHANGED <<clientVars, c2s, open, mode>>

(* do_close.                                                                *)
ReturnClose ==
  /\ pc = "receive" /\ responses = <<>> /\ op.kind = "close"
  /\ Finish(IF delayed_error THEN "err" ELSE "ok")
  /\ UNCHANGED <<s2c, delayed_error, autocommit>>

(* set_autocommit: an empty answer and the notice of the mode mean success. *)
(* With an error line the mode has changed all the same.                    *)
Confirmed(answer) == ~answer.error /\ answer.notice \subseteq {op.enabled}
ModeKept(answer) == autocommit
ModeOnError(answer) == Told(answer, op.enabled)

(* command_with_uploads takes over the last notice of a response;           *)
(* command_raw does not look at them.                                       *)
NewAutocommit(answer) ==
  CASE op.kind = "raw" -> autocommit
    [] op.kind = "statement" -> Told(answer, autocommit)
    [] op.kind = "auto" -> IF Confirmed(answer) THEN op.enabled
                           ELSE IF answer.error THEN ModeOnError(answer)
                           ELSE autocommit

ReceiveAnswer ==
  /\ pc = "receive" /\ responses = <<>> /\ s2c # <<>> /\ HasCommand(op.kind)
  /\ LET answer == Head(s2c)
         unexpected == op.kind = "auto" /\ ~Confirmed(answer)
     IN  /\ autocommit' = NewAutocommit(answer)
         /\ Finish(IF delayed_error \/ answer.error \/ unexpected THEN "err" ELSE "ok")
  /\ s2c' = Tail(s2c)
  /\ UNCHANGED delayed_error

(* The transport fails, a timeout or a cancel ends the operation: the       *)
(* socket is not put back.                                                  *)
Break ==
  /\ pc # "idle"
  /\ pc' = "idle" /\ op' = NoOp /\ open' = FALSE
  /\ UNCHANGED <<clientVars, c2s, s2c, delayed_error, autocommit, mode, faults, ret>>

-----------------------------------------------------------------------------
(* The server answers its commands in order.  A statement may change the    *)
(* mode, which its response then tells, perhaps even when nothing changed.  *)
(* Xauto_commit sets the mode, also when the commit that goes with enabling *)
(* it fails; its answer to that may tell another mode.                      *)
Serve(error, new, tells) ==
  /\ c2s # <<>>
  /\ LET command == Head(c2s)
     IN  /\ CASE command.kind = "statement" -> new # mode => tells
              [] command.kind = "auto" ->
                   \/ new = command.enabled
                   \/ error /\ command.enabled /\ tells /\ command.n = op.n
              [] OTHER -> new = mode /\ ~tells
         /\ mode' = new
         /\ s2c' = Append(s2c, Answer(command.n, error, IF tells THEN {new} ELSE {}))
         /\ faults' = IF error /\ command.kind # "cleanup"
                        THEN faults \cup {command.n} ELSE faults
  /\ c2s' = Tail(c2s)
  /\ UNCHANGED <<clientVars, pc, op, delayed_error, autocommit, open, ret>>

-----------------------------------------------------------------------------
(* establish_connection sends the delayed commands of the login and leaves  *)
(* their responses to the first operation that talks.                       *)
ModeAfter(commands, before) ==
  LET changes == {i \in 1 .. Len(commands) : commands[i].kind = "auto"}
  IN  IF changes = {} THEN before ELSE commands[Max(changes)].enabled

Init ==
  /\ \E commands \in LoginCommands, m \in BOOLEAN :
       LET numbered == [i \in 1 .. Len(commands) |-> [commands[i] EXCEPT !.n = i]]
       IN  /\ c2s = numbered
           /\ responses = ExpectedAll(numbered)
           /\ issued = Len(commands)
           /\ mode = m
           /\ autocommit = ModeAfter(numbered, m)
  /\ unsent = <<>> /\ s2c = <<>> /\ pending = <<>>
  /\ pc = "idle" /\ op = NoOp /\ delayed_error = FALSE
  /\ open = TRUE /\ faults = {} /\ ret = "ok"

Kinds == {"local", "statement", "raw", "auto", "close"}

Client == Send \/ ReceiveDelayed \/ ReturnClose \/ ReceiveAnswer

Server == \E error, new, tells \in BOOLEAN : Serve(error, new, tells)

Next ==
  \/ AddCleanup \/ QueueCleanup
  \/ \E kind \in Kinds, enabled \in BOOLEAN :
       (enabled => kind = "auto") /\ BeginOperation(kind, enabled)
  \/ Client \/ Server \/ Break

Spec == Init /\ [][Next]_vars

(* The thread that runs the operation goes on, and the server answers.      *)
FairSpec == Spec /\ WF_vars(Client) /\ WF_vars(Server)

-----------------------------------------------------------------------------
(* Properties.                                                              *)
Answers == [n : Nat, error : BOOLEAN, notice : SUBSET BOOLEAN]
Responses == [n : Nat, ignore : BOOLEAN]

(* Every field keeps its range, and the buffer holds no command for which   *)
(* no response is expected.                                                 *)
TypeOK ==
  /\ unsent \in Seq(Commands({"cleanup"})) /\ pending \in Seq(Commands({"cleanup"}))
  /\ c2s \in Seq(Commands(Delayable \cup {"statement", "raw"}))
  /\ s2c \in Seq(Answers)
  /\ responses \in Seq(Responses)
  /\ pc \in {"idle", "send", "receive"} /\ op \in Commands(Kinds \cup {"none"})
  /\ issued \in 0 .. MaxCommands /\ op.n \in 0 .. issued
  /\ Len(unsent) <= Len(responses)
  /\ delayed_error \in BOOLEAN /\ autocommit \in BOOLEAN
  /\ open \in BOOLEAN /\ mode \in BOOLEAN
  /\ faults \subseteq 1 .. issued /\ ret \in {"ok", "err"}

(* The two directions stay in step: the answers that come back, now or once *)
(* the server has worked on what it is sent, are in number and order those  *)
(* that the client is going to read.  No operation takes the answer to      *)
(* another command for its own.                                             *)
PipelineInStep ==
  open => Numbers(s2c \o c2s \o unsent)
            = Numbers(responses)
                \o (IF pc = "receive" /\ op.n # 0 THEN <<op.n>> ELSE <<>>)

(* Between operations the cached mode is the mode the server has, or will   *)
(* have after the commands already sent or delayed: set_autocommit, which   *)
(* does nothing when the cached mode is the wanted one, may rely on it.     *)
AutocommitAgrees ==
  open /\ pc = "idle" => autocommit = ModeAfter(c2s \o unsent, mode)

(* An operation that talks to the server returns success exactly if neither *)
(* its own command nor a delayed one before it was answered by an error; an *)
(* error of an Xclose, a release or the client info never fails anybody.    *)
ErrorsReachTheCaller ==
  [][pc = "receive" /\ pc' = "idle" /\ open' =>
       /\ ret' = "ok" => faults = {}
       /\ ret' = "err" => faults # {}]_vars

(* An operation ends, also when earlier commands are still to be answered:  *)
(* it never waits for an answer that does not come.                         *)
OperationsEnd == pc # "idle" ~> pc = "idle"
=============================================================================
