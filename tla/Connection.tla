----------------------------- MODULE Connection -----------------------------
(***************************************************************************)
(* The shared connection object of src/conn.rs: the mutex that serialises  *)
(* operations, the flags and the socket handle that interrupt one from     *)
(* outside the mutex (cancel, close, the operation watchdog), and the      *)
(* clean-up commands that other threads leave for the next operation.      *)
(*                                                                         *)
(* A thread makes one call at a time; pc[t] is the statement it is about   *)
(* to execute.  A step is what the code does between two accesses to state *)
(* that another thread can observe: the fields behind `locked` are only    *)
(* touched by the holder of the mutex, and `closing` is only read by it,   *)
(* so the tail of an operation that fails (store closing, shut the socket  *)
(* down, release the mutex) is one step.                                   *)
(***************************************************************************)
EXTENDS Integers

CONSTANTS
  Threads,      \* the threads that hold an Arc<Conn>
  Owner,        \* the thread whose handle is the Connection itself
  NoThread,     \* "the mutex is free"
  Ids,          \* ids of result sets and of prepared statements
  TokenMod      \* the watchdog's tokens are u64: TokenMod = 2^64 in the code

ASSUME ThreadsAssumption == Owner \in Threads /\ NoThread \notin Threads

ASSUME TokenModAssumption == TokenMod \in Nat /\ TokenMod > 1

NoToken == -1    \* None, for an Option of a token

VARIABLES
  pc, result,                      \* per thread: next statement, outcome of the
                                   \* operation or try_deallocate just made
  token, fres,                     \* per thread: locals of run_locked
  handles,                         \* threads that still own an Arc<Conn>
  holder, poisoned,                \* Mutex<Locked>
  sock,                            \* Locked.sock is Some(_)
  closing, operation_state,        \* the two atomics of Conn
  raw,                             \* SocketControl.raw is Some(_): not shut down
  active, expired, fired_token, next_token, stopped, worker,  \* the watchdog
  pending_closes, pending_deallocates, delayed, \* clean-up commands, by stage
  hand, queued, sent               \* in a thread's hands; history: ever queued, written

threadVars   == <<pc, result, token, fres, handles>>
stateVars    == <<holder, poisoned, sock, closing, operation_state, raw>>
watchdogVars == <<active, expired, fired_token, next_token, stopped, worker>>
cleanupVars  == <<pending_closes, pending_deallocates, delayed, hand, queued, sent>>
vars == <<threadVars, stateVars, watchdogVars, cleanupVars>>

(* The two kinds of clean-up command: Xclose of a result set, Xrelease of a *)
(* prepared statement.                                                      *)
Commands == {"close", "release"} \X Ids
Closes(ids)   == {"close"} \X ids
Releases(ids) == {"release"} \X ids

(* The statements of run_locked_with_timeouts after it has found the        *)
(* connection open; the ones in which the operation's closure runs; all     *)
(* statements that run with the mutex held; and the others.                 *)
InClosure == {"f", "reply"}
Operating == {"take", "arm", "closes", "deallocs", "disarm", "swap", "install"}
               \cup InClosure
Locked    == {"poisoned", "check", "close_sock", "add_closes", "add_deallocate"}
               \cup Operating
Unlocked  == {"idle", "lock", "cancel", "close_shutdown", "close_try_lock",
              "push_closes", "push_deallocate", "drop", "stop", "join", "gone"}
Results   == {"None", "Ok", "Closed", "Poisoned", "Cancelled", "Timeout",
              "Err", "Panic", "False"}

Init ==
  /\ pc = [t \in Threads |-> "idle"]
  /\ result = [t \in Threads |-> "None"]
  /\ token = [t \in Threads |-> NoToken]
  /\ fres = [t \in Threads |-> "Ok"]
  /\ handles = Threads
  /\ holder = NoThread /\ poisoned = FALSE
  /\ sock = TRUE /\ raw = TRUE
  /\ closing = FALSE /\ operation_state = "IDLE"
  /\ active = NoToken /\ expired = FALSE
  /\ fired_token = 0 /\ next_token = 0
  /\ stopped = FALSE /\ worker = "none"
  /\ pending_closes = {} /\ pending_deallocates = {} /\ delayed = {}
  /\ hand = [t \in Threads |-> {}]
  /\ queued = {} /\ sent = {}

Goto(t, label) == pc' = [pc EXCEPT ![t] = label]

(* A thread begins a call: the outcome of its last one is forgotten.        *)
Begin(t, label) ==
  /\ pc[t] = "idle" /\ t \in handles
  /\ Goto(t, label)
  /\ result' = [result EXCEPT ![t] = "None"]

(* A call returns, and its locals go out of scope.                          *)
Return(t, outcome) ==
  /\ pc' = [pc EXCEPT ![t] = "idle"]
  /\ result' = [result EXCEPT ![t] = outcome]
  /\ token' = [token EXCEPT ![t] = NoToken]
  /\ fres' = [fres EXCEPT ![t] = "Ok"]

(* SocketControl::shutdown: the first caller takes the raw socket and shuts *)
(* it down in both directions, later callers find None.                     *)
ShutdownForgotten == raw' = raw
Shutdown == raw' = FALSE

(* Condvar::notify_one on the watchdog's condition variable.                *)
NotifyForgotten == worker
Notified == IF worker \in {"wait", "wait_timeout"} THEN "loop" ELSE worker

-----------------------------------------------------------------------------
(* run_locked_with_timeouts                                                 *)

Call(t) ==
  /\ Begin(t, "lock")
  /\ UNCHANGED <<token, fres, handles, stateVars, watchdogVars, cleanupVars>>

(* self.locked.lock(): a poisoned mutex ends the connection.                *)
Lock(t) ==
  /\ pc[t] = "lock" /\ holder = NoThread
  /\ holder' = t
  /\ Goto(t, IF poisoned THEN "poisoned" ELSE "check")
  /\ UNCHANGED <<result, token, fres, handles, poisoned, sock, closing,
                 operation_state, raw, watchdogVars, cleanupVars>>

Poisoned(t) ==
  /\ pc[t] = "poisoned"
  /\ closing' = TRUE /\ Shutdown
  /\ holder' = NoThread
  /\ Return(t, "Poisoned")
  /\ UNCHANGED <<handles, poisoned, sock, operation_state,
                 watchdogVars, cleanupVars>>

ClosingIgnored == FALSE
ClosingSeen == closing

CheckClosing(t) ==
  /\ pc[t] = "check"
  /\ IF ClosingSeen
       THEN /\ sock' = FALSE /\ Shutdown
            /\ holder' = NoThread
            /\ Return(t, "Closed")
       ELSE /\ Goto(t, "take")
            /\ UNCHANGED <<sock, raw, holder, result, token, fres>>
  /\ UNCHANGED <<handles, poisoned, closing, operation_state,
                 watchdogVars, cleanupVars>>

(* guard.sock.take() and the compare_exchange IDLE -> ACTIVE.               *)
TakeSock(t) ==
  /\ pc[t] = "take"
  /\ sock' = FALSE
  /\ IF sock /\ operation_state = "IDLE"
       THEN /\ operation_state' = "ACTIVE"
            /\ Goto(t, "arm")
            /\ UNCHANGED <<closing, raw, holder, result, token, fres>>
       ELSE /\ holder' = NoThread
            /\ IF sock THEN closing' = TRUE /\ Shutdown
                       ELSE UNCHANGED <<closing, raw>>
            /\ Return(t, IF sock THEN "Poisoned" ELSE "Closed")
            /\ UNCHANGED operation_state
  /\ UNCHANGED <<handles, poisoned, watchdogVars, cleanupVars>>

(* next_token.wrapping_add(1), skipping 0, which stands for "none fired".   *)
NextTokenOrZero == (next_token + 1) % TokenMod
NextToken == IF (next_token + 1) % TokenMod = 0 THEN 1
                                                ELSE (next_token + 1) % TokenMod

(* start_operation and OperationWatchdog::arm (with ensure_worker); without *)
(* an operation timeout arm returns None and touches nothing.               *)
Arm(t, timeout) ==
  /\ pc[t] = "arm"
  /\ Goto(t, "closes")
  /\ token' = [token EXCEPT ![t] = IF timeout THEN NextToken ELSE NoToken]
  /\ IF timeout
       THEN /\ active' = NextToken /\ expired' = FALSE
            /\ next_token' = NextToken
            /\ fired_token' = 0
            /\ worker' = IF worker = "none" THEN "loop" ELSE Notified
       ELSE UNCHANGED <<active, expired, next_token, fired_token, worker>>
  /\ UNCHANGED <<result, fres, handles, stopped, stateVars, cleanupVars>>

TakePendingCloses(t) ==
  /\ pc[t] = "closes"
  /\ Goto(t, "deallocs")
  /\ delayed' = delayed \cup Closes(pending_closes)
  /\ pending_closes' = {}
  /\ UNCHANGED <<result, token, fres, handles, pending_deallocates, hand,
                 queued, sent, stateVars, watchdogVars>>

TakePendingDeallocates(t) ==
  /\ pc[t] = "deallocs"
  /\ Goto(t, "f")
  /\ delayed' = delayed \cup Releases(pending_deallocates)
  /\ pending_deallocates' = {}
  /\ UNCHANGED <<result, token, fres, handles, pending_closes, hand,
                 queued, sent, stateVars, watchdogVars>>

(* The closure f.  It either only looks at the cached state (metadata,      *)
(* server_info), or sends the delayed commands together with its own        *)
(* request and reads the replies; either half may fail, and a closure that  *)
(* runs a user's callback may panic.                                        *)
ClosureSend(t) ==
  /\ pc[t] = "f"
  /\ Goto(t, "reply")
  /\ sent' = sent \cup delayed
  /\ delayed' = {}
  /\ UNCHANGED <<result, token, fres, handles, pending_closes,
                 pending_deallocates, hand, queued, stateVars, watchdogVars>>

ClosureReturn(t, outcome) ==
  /\ pc[t] \in InClosure
  /\ Goto(t, "disarm")
  /\ fres' = [fres EXCEPT ![t] = outcome]
  /\ UNCHANGED <<result, token, handles, stateVars, watchdogVars, cleanupVars>>

(* The socket is dropped with the closure's frame and the guard poisons the *)
(* mutex; operation_state and the watchdog are left as they are.            *)
ClosurePanic(t) ==
  /\ pc[t] \in InClosure
  /\ holder' = NoThread /\ poisoned' = TRUE
  /\ Return(t, "Panic")
  /\ UNCHANGED <<handles, sock, closing, operation_state, raw,
                 watchdogVars, cleanupVars>>

(* OperationWatchdog::disarm: an operation whose token has fired has timed  *)
(* out, whatever its closure returned.                                      *)
TimedOutIgnored(t) == FALSE
OperationTimedOut(t) == token[t] # NoToken /\ fired_token = token[t]

Disarm(t) ==
  /\ pc[t] = "disarm"
  /\ Goto(t, "swap")
  /\ IF token[t] # NoToken /\ active = token[t]
       THEN /\ active' = NoToken /\ expired' = FALSE
            /\ worker' = Notified
            /\ UNCHANGED fres
       ELSE /\ fres' = IF OperationTimedOut(t) THEN [fres EXCEPT ![t] = "Expired"]
                                            ELSE fres
            /\ UNCHANGED <<active, expired, worker>>
  /\ UNCHANGED <<result, token, handles, fired_token, next_token, stopped,
                 stateVars, cleanupVars>>

(* What run_locked returns: cancellation comes first, then the deadline,    *)
(* then the closure's error, and a success only if nobody closed meanwhile. *)
CancelIgnored == FALSE
CancelSeen == operation_state = "CANCELLED"

Outcome(t) ==
  IF CancelSeen THEN "Cancelled"
  ELSE IF fres[t] \in {"Expired", "TimedOut"} THEN "Timeout"
  ELSE IF fres[t] = "Err" THEN "Err"
  ELSE IF closing THEN "Closed" ELSE "Ok"

(* operation_state.swap(IDLE) and the returns that depend on it.  A         *)
(* cancelled operation leaves the shutdown to the canceller.                *)
SwapIdle(t) ==
  /\ pc[t] = "swap"
  /\ operation_state' = "IDLE"
  /\ IF Outcome(t) = "Ok"
       THEN /\ Goto(t, "install")
            /\ UNCHANGED <<closing, raw, holder, result, token, fres>>
       ELSE /\ closing' = TRUE
            /\ IF Outcome(t) \in {"Timeout", "Err"} THEN Shutdown ELSE UNCHANGED raw
            /\ holder' = NoThread
            /\ Return(t, Outcome(t))
  /\ UNCHANGED <<handles, poisoned, sock, watchdogVars, cleanupVars>>

InstallForgotten(t) ==
  /\ pc[t] = "install"
  /\ holder' = NoThread
  /\ Return(t, "Ok")
  /\ UNCHANGED <<handles, poisoned, sock, closing, operation_state, raw,
                 watchdogVars, cleanupVars>>

(* guard.sock = Some(sock), then the guard is dropped.                      *)
Install(t) ==
  /\ pc[t] = "install"
  /\ sock' = TRUE
  /\ holder' = NoThread
  /\ Return(t, "Ok")
  /\ UNCHANGED <<handles, poisoned, closing, operation_state, raw,
                 watchdogVars, cleanupVars>>

-----------------------------------------------------------------------------
(* cancel, from any handle, without the mutex                               *)

NothingToShutDown == "idle"
AfterCancel == IF operation_state = "ACTIVE" THEN "cancel" ELSE "idle"

Cancel(t) ==
  /\ Begin(t, AfterCancel)
  /\ operation_state' = IF operation_state = "ACTIVE" THEN "CANCELLED"
                                                     ELSE operation_state
  /\ UNCHANGED <<token, fres, handles, holder, poisoned, sock, closing, raw,
                 watchdogVars, cleanupVars>>

CancelShutdown(t) ==
  /\ pc[t] = "cancel"
  /\ Shutdown
  /\ Return(t, "None")
  /\ UNCHANGED <<handles, holder, poisoned, sock, closing,
                 operation_state, watchdogVars, cleanupVars>>

(* close_connection, run when the Connection is dropped                     *)

Close(t) ==
  /\ t = Owner
  /\ closing' = TRUE
  /\ Begin(t, "close_shutdown")
  /\ UNCHANGED <<token, fres, handles, holder, poisoned, sock,
                 operation_state, raw, watchdogVars, cleanupVars>>

CloseShutdown(t) ==
  /\ pc[t] = "close_shutdown"
  /\ Shutdown
  /\ Goto(t, "close_try_lock")
  /\ UNCHANGED <<result, token, fres, handles, holder, poisoned, sock, closing,
                 operation_state, watchdogVars, cleanupVars>>

CloseTryLock(t) ==
  /\ pc[t] = "close_try_lock"
  /\ IF holder = NoThread THEN holder' = t /\ Goto(t, "close_sock")
                          ELSE UNCHANGED holder /\ Goto(t, "drop")
  /\ UNCHANGED <<result, token, fres, handles, poisoned, sock, closing,
                 operation_state, raw, watchdogVars, cleanupVars>>

CloseSock(t) ==
  /\ pc[t] = "close_sock"
  /\ sock' = FALSE
  /\ holder' = NoThread
  /\ Goto(t, "drop")
  /\ UNCHANGED <<result, token, fres, handles, poisoned, closing,
                 operation_state, raw, watchdogVars, cleanupVars>>

-----------------------------------------------------------------------------
(* Vec::extend_from_slice and Vec::push on a pending list.                  *)
Overwritten(pending, ids) == ids
Extended(pending, ids) == pending \cup ids

(* try_queue_closes and try_queue_deallocate: never wait for the mutex.     *)
(* Each id is queued once: its only owner queues it when it is dropped.     *)

TryQueue(t, commands, ids, add, push) ==
  /\ commands \cap queued = {}
  /\ queued' = queued \cup commands
  /\ hand' = [hand EXCEPT ![t] = ids]
  /\ IF holder = NoThread THEN holder' = t /\ Begin(t, add)
                          ELSE UNCHANGED holder /\ Begin(t, push)
  /\ UNCHANGED <<token, fres, handles, poisoned, sock, closing,
                 operation_state, raw, watchdogVars,
                 pending_closes, pending_deallocates, delayed, sent>>

TryQueueCloses(t, ids) ==
  TryQueue(t, Closes(ids), ids, "add_closes", "push_closes")

TryQueueDeallocate(t, id) ==
  TryQueue(t, Releases({id}), {id}, "add_deallocate", "push_deallocate")

AddCloses(t) ==
  /\ pc[t] = "add_closes"
  /\ delayed' = delayed \cup Closes(hand[t])
  /\ hand' = [hand EXCEPT ![t] = {}]
  /\ holder' = NoThread
  /\ Return(t, "None")
  /\ UNCHANGED <<handles, poisoned, sock, closing, operation_state,
                 raw, watchdogVars, pending_closes, pending_deallocates,
                 queued, sent>>

(* Without a socket the statement is not queued and the caller is told so.  *)
AddDeallocate(t) ==
  /\ pc[t] = "add_deallocate"
  /\ IF sock
       THEN /\ delayed' = delayed \cup Releases(hand[t])
            /\ UNCHANGED queued
       ELSE /\ queued' = queued \ Releases(hand[t])
            /\ UNCHANGED delayed
  /\ hand' = [hand EXCEPT ![t] = {}]
  /\ holder' = NoThread
  /\ Return(t, IF sock THEN "None" ELSE "False")
  /\ UNCHANGED <<handles, poisoned, sock, closing, operation_state,
                 raw, watchdogVars, pending_closes, pending_deallocates, sent>>

PushCloses(t) ==
  /\ pc[t] = "push_closes"
  /\ pending_closes' = Extended(pending_closes, hand[t])
  /\ hand' = [hand EXCEPT ![t] = {}]
  /\ Return(t, "None")
  /\ UNCHANGED <<handles, pending_deallocates, delayed, queued,
                 sent, stateVars, watchdogVars>>

PushDeallocate(t) ==
  /\ pc[t] = "push_deallocate"
  /\ pending_deallocates' = Extended(pending_deallocates, hand[t])
  /\ hand' = [hand EXCEPT ![t] = {}]
  /\ Return(t, "None")
  /\ UNCHANGED <<handles, pending_closes, delayed, queued,
                 sent, stateVars, watchdogVars>>

-----------------------------------------------------------------------------
(* The last Arc<Conn> to go drops the fields of Conn in order: the socket   *)
(* and its control, then the watchdog, which stops and joins its worker.    *)

DropHandle(t) ==
  /\ t # Owner
  /\ Begin(t, "drop")
  /\ UNCHANGED <<token, fres, handles, stateVars, watchdogVars, cleanupVars>>

DropArc(t) ==
  /\ pc[t] = "drop"
  /\ handles' = handles \ {t}
  /\ IF handles = {t}
       THEN sock' = FALSE /\ raw' = FALSE /\ Goto(t, "stop")
       ELSE UNCHANGED <<sock, raw>> /\ Goto(t, "gone")
  /\ UNCHANGED <<result, token, fres, holder, poisoned, closing, operation_state,
                 watchdogVars, cleanupVars>>

DropWatchdog(t) ==
  /\ pc[t] = "stop"
  /\ stopped' = TRUE
  /\ worker' = Notified
  /\ Goto(t, "join")
  /\ UNCHANGED <<result, token, fres, handles, stateVars, active, expired,
                 fired_token, next_token, cleanupVars>>

Join(t) ==
  /\ pc[t] = "join" /\ worker \in {"none", "exit"}
  /\ Goto(t, "gone")
  /\ UNCHANGED <<result, token, fres, handles, stateVars, watchdogVars, cleanupVars>>

-----------------------------------------------------------------------------
(* The watchdog's worker thread, OperationWatchdog::run.                    *)

(* The deadline of the armed operation passes.                              *)
DeadlinePasses ==
  /\ active # NoToken /\ ~expired
  /\ expired' = TRUE
  /\ UNCHANGED <<threadVars, stateVars, active, fired_token, next_token,
                 stopped, worker, cleanupVars>>

(* One turn of the loop, with the watchdog's mutex held.                    *)
WorkerLoop ==
  /\ worker = "loop"
  /\ worker' = IF stopped THEN "exit"
               ELSE IF active = NoToken THEN "wait"
               ELSE IF ~expired THEN "wait_timeout" ELSE "shutdown"
  /\ IF ~stopped /\ active # NoToken /\ expired
       THEN active' = NoToken /\ expired' = FALSE /\ fired_token' = active
       ELSE UNCHANGED <<active, expired, fired_token>>
  /\ UNCHANGED <<threadVars, stateVars, next_token, stopped, cleanupVars>>

(* wait_timeout runs out, or either wait wakes up spuriously.               *)
WorkerWake ==
  /\ worker \in {"wait", "wait_timeout"}
  /\ worker' = "loop"
  /\ UNCHANGED <<threadVars, stateVars, active, expired, fired_token,
                 next_token, stopped, cleanupVars>>

(* control.shutdown(), after the watchdog's mutex has been released.        *)
WorkerShutdown ==
  /\ worker = "shutdown"
  /\ Shutdown
  /\ worker' = "loop"
  /\ UNCHANGED <<threadVars, holder, poisoned, sock, closing, operation_state,
                 active, expired, fired_token, next_token, stopped, cleanupVars>>

-----------------------------------------------------------------------------
Operation(t) ==
  \/ Call(t) \/ Lock(t) \/ Poisoned(t) \/ CheckClosing(t) \/ TakeSock(t)
  \/ \E timeout \in BOOLEAN : Arm(t, timeout)
  \/ TakePendingCloses(t) \/ TakePendingDeallocates(t)
  \/ Disarm(t) \/ SwapIdle(t) \/ Install(t)

Closure(t) ==
  \/ ClosureSend(t)
  \/ \E outcome \in {"Ok", "TimedOut", "Err"} : ClosureReturn(t, outcome)
  \/ ClosurePanic(t)

Interrupt(t) ==
  \/ Cancel(t) \/ CancelShutdown(t)
  \/ Close(t) \/ CloseShutdown(t) \/ CloseTryLock(t) \/ CloseSock(t)

Cleanup(t) ==
  \/ \E ids \in SUBSET Ids \ {{}} : TryQueueCloses(t, ids)
  \/ \E id \in Ids : TryQueueDeallocate(t, id)
  \/ AddCloses(t) \/ AddDeallocate(t) \/ PushCloses(t) \/ PushDeallocate(t)

Drop(t) == DropHandle(t) \/ DropArc(t) \/ DropWatchdog(t) \/ Join(t)

(* Every handle has been dropped and the watchdog is gone.                  *)
Finished == (\A t \in Threads : pc[t] = "gone") /\ UNCHANGED vars

Watchdog == DeadlinePasses \/ WorkerLoop \/ WorkerWake \/ WorkerShutdown

Next ==
  \/ \E t \in Threads :
       Operation(t) \/ Closure(t) \/ Interrupt(t) \/ Cleanup(t) \/ Drop(t)
  \/ Watchdog
  \/ Finished

Spec == Init /\ [][Next]_vars

(* Every thread finishes the call it is in, and takes the mutex when it     *)
(* stays free; a closure whose transport has been shut down gets an error   *)
(* or an end of file; time passes and the watchdog's worker is scheduled.   *)
(* Nothing makes a thread begin a call, a server answer or a wait wake up   *)
(* without a reason.                                                        *)
ThreadStep(t) ==
  \/ Lock(t) \/ Poisoned(t) \/ CheckClosing(t) \/ TakeSock(t)
  \/ \E timeout \in BOOLEAN : Arm(t, timeout)
  \/ TakePendingCloses(t) \/ TakePendingDeallocates(t)
  \/ Disarm(t) \/ SwapIdle(t) \/ Install(t)
  \/ CancelShutdown(t) \/ CloseShutdown(t) \/ CloseTryLock(t) \/ CloseSock(t)
  \/ AddCloses(t) \/ AddDeallocate(t) \/ PushCloses(t) \/ PushDeallocate(t)
  \/ DropArc(t) \/ DropWatchdog(t) \/ Join(t)

TransportError(t) == ~raw /\ ClosureReturn(t, "Err")

Fairness ==
  /\ \A t \in Threads : WF_vars(ThreadStep(t)) /\ WF_vars(TransportError(t))
  /\ WF_vars(DeadlinePasses) /\ WF_vars(WorkerLoop) /\ WF_vars(WorkerShutdown)
  /\ WF_vars(worker = "wait_timeout" /\ expired /\ WorkerWake)

FairSpec == Spec /\ Fairness

-----------------------------------------------------------------------------
TypeThreads ==
  /\ pc \in [Threads -> Locked \cup Unlocked]
  /\ result \in [Threads -> Results]
  /\ token \in [Threads -> {NoToken} \cup 1 .. (TokenMod - 1)]
  /\ fres \in [Threads -> {"Ok", "Err", "TimedOut", "Expired"}]
  /\ handles \subseteq Threads
  /\ holder \in Threads \cup {NoThread}

TypeFlags ==
  /\ poisoned \in BOOLEAN /\ sock \in BOOLEAN /\ closing \in BOOLEAN /\ raw \in BOOLEAN
  /\ expired \in BOOLEAN /\ stopped \in BOOLEAN
  /\ operation_state \in {"IDLE", "ACTIVE", "CANCELLED"}

TypeWatchdog ==
  /\ active \in {NoToken} \cup 1 .. (TokenMod - 1)
  /\ fired_token \in 0 .. (TokenMod - 1) /\ next_token \in 0 .. (TokenMod - 1)
  /\ worker \in {"none", "loop", "wait", "wait_timeout", "shutdown", "exit"}

TypeCleanup ==
  /\ pending_closes \subseteq Ids /\ pending_deallocates \subseteq Ids
  /\ delayed \subseteq Commands /\ queued \subseteq Commands /\ sent \subseteq Commands
  /\ hand \in [Threads -> SUBSET Ids]

(* Every variable has its type: tokens are never 0, which means "none", and *)
(* no thread is anywhere but at a statement of its call.                    *)
TypeOK == TypeThreads /\ TypeFlags /\ TypeWatchdog /\ TypeCleanup

(* A connection that the next caller of run_locked will accept is usable:   *)
(* its socket is in place and not shut down, no operation is marked active, *)
(* and no canceller and no watchdog is still on its way to shut the socket  *)
(* down (conn.rs: cancel and the watchdog shut down outside the mutex,      *)
(* after the operation they meant may already have returned).               *)
OpenIsUsable ==
  holder = NoThread /\ ~closing /\ ~poisoned =>
    /\ sock /\ raw
    /\ operation_state = "IDLE" /\ active = NoToken
    /\ worker # "shutdown"
    /\ \A t \in Threads : pc[t] # "cancel"

(* The deadline of t's operation has passed and its watchdog token fired.   *)
Fired(t) == token[t] # NoToken /\ fired_token = token[t]

(* A shutdown that is done or under way while an operation runs is meant    *)
(* for that operation or for the whole connection: a canceller or watchdog  *)
(* that was late for the operation before never hits the next one.          *)
InterruptsHitTheirOperation ==
  \A t \in Threads :
    /\ pc[t] \in Operating /\ ~closing
    /\ ~raw \/ worker = "shutdown" \/ \E u \in Threads : pc[u] = "cancel"
    => operation_state = "CANCELLED" \/ Fired(t)

(* Where a clean-up command can be, and that it is in one place only: none  *)
(* is lost between the pending lists, the delayed buffer and the wire, and  *)
(* none is sent twice.                                                      *)
InHand(t) ==
  IF pc[t] \in {"add_closes", "push_closes"} THEN Closes(hand[t])
  ELSE IF pc[t] \in {"add_deallocate", "push_deallocate"} THEN Releases(hand[t])
  ELSE {}

CleanupConserved ==
  LET pending == Closes(pending_closes) \cup Releases(pending_deallocates)
      inHand  == UNION {InHand(t) : t \in Threads}
  IN /\ queued = pending \cup inHand \cup delayed \cup sent
     /\ pending \cap (inHand \cup delayed \cup sent) = {}
     /\ inHand \cap (delayed \cup sent) = {}
     /\ delayed \cap sent = {}

(* try_deallocate "returns `false` only when the connection is already      *)
(* closed" (conn.rs:398), a poisoned one included.                          *)
DeallocateFalseMeansClosed ==
  \A t \in Threads : result[t] = "False" => closing \/ poisoned

(* The connection keeps the promise of Lifecycle.  An operation is being    *)
(* served from the check of `closing` to the swap of operation_state.       *)
At(labels) == holder \in Threads /\ pc[holder] \in labels

Served == Operating \ {"install"}

User == IF At(Served) THEN holder ELSE NoThread

Interrupted ==
  /\ At(Served)
  /\ closing \/ operation_state = "CANCELLED" \/ Fired(holder)

Abstract == INSTANCE Lifecycle WITH
  user <- User, open <- ~closing /\ ~poisoned, interrupted <- Interrupted

ImplementsLifecycle == Abstract!Spec

(* An operation with a deadline ends, although neither the server nor the   *)
(* transport ever answers: arming wakes the worker and the worker's         *)
(* shutdown ends the read.                                                  *)
TimedOperationEnds ==
  \A t \in Threads :
    pc[t] \in Operating /\ token[t] # NoToken ~> pc[t] \notin Operating

(* A cancelled operation ends, although the canceller shuts the socket down *)
(* only after it has marked the operation.                                  *)
CancelEndsOperation ==
  \A t \in Threads :
    pc[t] \in Operating /\ operation_state = "CANCELLED" ~> pc[t] \notin Operating

(* Once the connection is closing its transport is shut down and whoever    *)
(* was using it stops.                                                      *)
ClosingEndsEverything ==
  closing ~> ~raw /\ \A t \in Threads : pc[t] \notin Operating

(* Dropping the last handle returns: the worker never sleeps through the    *)
(* stop request, so join does not hang.                                     *)
JoinReturns == \A t \in Threads : pc[t] = "stop" ~> pc[t] = "gone"
=============================================================================
