-------------------------- MODULE ConnectionProofs --------------------------
(***************************************************************************)
(* Type correctness and the safety invariants of the module Connection, and*)
(* that Connection implements Lifecycle, for any set of threads, any set of*)
(* ids and any width of the watchdog's tokens.                             *)
(*                                                                         *)
(* The argument.  The mutex makes everything between Lock and the release  *)
(* of the mutex exclusive (MutexInv), so operation_state, the armed token  *)
(* and the absence of the socket are always due to the one thread that     *)
(* holds the mutex or to a panic that poisoned it (StateInv, ActiveInv,    *)
(* SockInv).  A shutdown, done or about to be done by a canceller or by    *)
(* the watchdog, always has a cause that is still visible: the connection  *)
(* is closing or poisoned, the operation is marked CANCELLED, or its token *)
(* has fired (CauseInv, CancelInv).  The holder turns each of the last two *)
(* into the first one before it releases the mutex (SwapInv), and that is  *)
(* why a late shutdown never reaches the next operation.                   *)
(*                                                                         *)
(* The refinement.  An operation is served from the check of `closing`     *)
(* (Begin) to the swap of operation_state (Succeed or Fail); a canceller's *)
(* compare-exchange, the firing of the watchdog and the store of `closing` *)
(* are Interrupt and Close; everything else stutters.                      *)
(***************************************************************************)
EXTENDS Connection, TLAPS

USE DEF NoToken, ClosingSeen, CancelSeen, AfterCancel, Extended

-----------------------------------------------------------------------------
(* Every step keeps every variable in its type.                             *)

(* wrapping_add and the skipped 0 keep a token in 1 .. TokenMod - 1.        *)
LEMMA NextTokenType ==
  ASSUME next_token \in 0 .. (TokenMod - 1)
  PROVE  NextToken \in 1 .. (TokenMod - 1)
<1>1. CASE next_token + 1 = TokenMod
  BY <1>1, TokenModAssumption DEF NextToken
<1>2. CASE next_token + 1 < TokenMod
  BY <1>2, TokenModAssumption DEF NextToken
<1> QED BY <1>1, <1>2, TokenModAssumption

(* A step of any thread keeps the types of the threads' locals and of the   *)
(* holder of the mutex.                                                     *)
LEMMA TypeThreadsStep == TypeThreads /\ TypeWatchdog /\ [Next]_vars =>
     TypeThreads'
<1> SUFFICES ASSUME TypeThreads, TypeWatchdog, [Next]_vars PROVE TypeThreads'
  OBVIOUS
<1> USE ThreadsAssumption, NextTokenType DEF TypeThreads, TypeWatchdog,
     Results, InClosure, Operating, Locked, Unlocked, Goto, Begin, Return,
     threadVars, stateVars, watchdogVars, cleanupVars, Outcome
<1>1. ASSUME NEW t \in Threads, Operation(t) PROVE TypeThreads'
  <2>1. CASE Call(t)
    BY <2>1, Zenon DEF Call
  <2>2. CASE Lock(t)
    BY <2>2, Zenon DEF Lock
  <2>3. CASE Poisoned(t)
    BY <2>3, Zenon DEF Poisoned
  <2>4. CASE CheckClosing(t)
    BY <2>4 DEF CheckClosing
  <2>5. CASE TakeSock(t)
    BY <2>5 DEF TakeSock
  <2>6. ASSUME NEW timeout \in BOOLEAN, Arm(t, timeout) PROVE TypeThreads'
    BY <2>6, Zenon DEF Arm
  <2>7. CASE TakePendingCloses(t)
    BY <2>7, Zenon DEF TakePendingCloses
  <2>8. CASE TakePendingDeallocates(t)
    BY <2>8, Zenon DEF TakePendingDeallocates
  <2>9. CASE Disarm(t)
    BY <2>9, Zenon DEF Disarm
  <2>10. CASE SwapIdle(t)
    BY <2>10 DEF SwapIdle
  <2>11. CASE Install(t)
    BY <2>11, Zenon DEF Install
  <2> QED BY <1>1, <2>1, <2>2, <2>3, <2>4, <2>5, <2>6, <2>7, <2>8, <2>9,
       <2>10, <2>11, Zenon DEF Operation
<1>2. ASSUME NEW t \in Threads, Closure(t) PROVE TypeThreads'
  <2>1. CASE ClosureSend(t)
    BY <2>1, Zenon DEF ClosureSend
  <2>2. ASSUME NEW outcome \in {"Ok", "TimedOut", "Err"}, ClosureReturn(t, outcome) PROVE TypeThreads'
    BY <2>2, Zenon DEF ClosureReturn
  <2>3. CASE ClosurePanic(t)
    BY <2>3, Zenon DEF ClosurePanic
  <2> QED BY <1>2, <2>1, <2>2, <2>3, Zenon DEF Closure
<1>3. ASSUME NEW t \in Threads, Interrupt(t) PROVE TypeThreads'
  <2>1. CASE Cancel(t)
    BY <2>1, Zenon DEF Cancel
  <2>2. CASE CancelShutdown(t)
    BY <2>2, Zenon DEF CancelShutdown
  <2>3. CASE Close(t)
    BY <2>3, Zenon DEF Close
  <2>4. CASE CloseShutdown(t)
    BY <2>4, Zenon DEF CloseShutdown
  <2>5. CASE CloseTryLock(t)
    BY <2>5, Zenon DEF CloseTryLock
  <2>6. CASE CloseSock(t)
    BY <2>6, Zenon DEF CloseSock
  <2> QED BY <1>3, <2>1, <2>2, <2>3, <2>4, <2>5, <2>6, Zenon DEF Interrupt
<1>4. ASSUME NEW t \in Threads, Cleanup(t) PROVE TypeThreads'
  <2>1. ASSUME NEW ids \in SUBSET Ids \ {{}}, TryQueueCloses(t, ids) PROVE TypeThreads'
    BY <2>1, Zenon DEF TryQueueCloses, TryQueue
  <2>2. ASSUME NEW id \in Ids, TryQueueDeallocate(t, id) PROVE TypeThreads'
    BY <2>2 DEF TryQueueDeallocate, TryQueue
  <2>3. CASE AddCloses(t)
    BY <2>3, Zenon DEF AddCloses
  <2>4. CASE AddDeallocate(t)
    BY <2>4, Zenon DEF AddDeallocate
  <2>5. CASE PushCloses(t)
    BY <2>5, Zenon DEF PushCloses
  <2>6. CASE PushDeallocate(t)
    BY <2>6, Zenon DEF PushDeallocate
  <2> QED BY <1>4, <2>1, <2>2, <2>3, <2>4, <2>5, <2>6, Zenon DEF Cleanup
<1>5. ASSUME NEW t \in Threads, Drop(t) PROVE TypeThreads'
  <2>1. CASE DropHandle(t)
    BY <2>1, Zenon DEF DropHandle
  <2>2. CASE DropArc(t)
    BY <2>2, Zenon DEF DropArc
  <2>3. CASE DropWatchdog(t)
    BY <2>3, Zenon DEF DropWatchdog
  <2>4. CASE Join(t)
    BY <2>4, Zenon DEF Join
  <2> QED BY <1>5, <2>1, <2>2, <2>3, <2>4, Zenon DEF Drop
<1>6. CASE Watchdog
  <2>1. CASE DeadlinePasses
    BY <2>1, Zenon DEF DeadlinePasses
  <2>2. CASE WorkerLoop
    BY <2>2, Zenon DEF WorkerLoop
  <2>3. CASE WorkerWake
    BY <2>3, Zenon DEF WorkerWake
  <2>4. CASE WorkerShutdown
    BY <2>4, Zenon DEF WorkerShutdown
  <2> QED BY <1>6, <2>1, <2>2, <2>3, <2>4, Zenon DEF Watchdog
<1>7. CASE Finished \/ UNCHANGED vars
  BY <1>7, Zenon DEF Finished, vars
<1> QED BY <1>1, <1>2, <1>3, <1>4, <1>5, <1>6, <1>7, Zenon DEF Next

(* A step keeps the flags and atomics of Conn in their types.               *)
LEMMA TypeFlagsStep == TypeFlags /\ [Next]_vars => TypeFlags'
<1> SUFFICES ASSUME TypeFlags, [Next]_vars PROVE TypeFlags'
  OBVIOUS
<1> USE DEF TypeFlags, Shutdown, threadVars, stateVars, watchdogVars,
     cleanupVars
<1>1. ASSUME NEW t \in Threads, Operation(t) PROVE TypeFlags'
  <2>1. CASE Call(t)
    BY <2>1, Zenon DEF Call
  <2>2. CASE Lock(t)
    BY <2>2, Zenon DEF Lock
  <2>3. CASE Poisoned(t)
    BY <2>3, Zenon DEF Poisoned
  <2>4. CASE CheckClosing(t)
    BY <2>4, Zenon DEF CheckClosing
  <2>5. CASE TakeSock(t)
    BY <2>5, Zenon DEF TakeSock
  <2>6. ASSUME NEW timeout \in BOOLEAN, Arm(t, timeout) PROVE TypeFlags'
    BY <2>6, Zenon DEF Arm
  <2>7. CASE TakePendingCloses(t)
    BY <2>7, Zenon DEF TakePendingCloses
  <2>8. CASE TakePendingDeallocates(t)
    BY <2>8, Zenon DEF TakePendingDeallocates
  <2>9. CASE Disarm(t)
    BY <2>9, Zenon DEF Disarm
  <2>10. CASE SwapIdle(t)
    BY <2>10, Zenon DEF SwapIdle
  <2>11. CASE Install(t)
    BY <2>11, Zenon DEF Install
  <2> QED BY <1>1, <2>1, <2>2, <2>3, <2>4, <2>5, <2>6, <2>7, <2>8, <2>9,
       <2>10, <2>11, Zenon DEF Operation
<1>2. ASSUME NEW t \in Threads, Closure(t) PROVE TypeFlags'
  <2>1. CASE ClosureSend(t)
    BY <2>1, Zenon DEF ClosureSend
  <2>2. ASSUME NEW outcome \in {"Ok", "TimedOut", "Err"}, ClosureReturn(t, outcome) PROVE TypeFlags'
    BY <2>2, Zenon DEF ClosureReturn
  <2>3. CASE ClosurePanic(t)
    BY <2>3, Zenon DEF ClosurePanic
  <2> QED BY <1>2, <2>1, <2>2, <2>3, Zenon DEF Closure
<1>3. ASSUME NEW t \in Threads, Interrupt(t) PROVE TypeFlags'
  <2>1. CASE Cancel(t)
    BY <2>1, Zenon DEF Cancel
  <2>2. CASE CancelShutdown(t)
    BY <2>2, Zenon DEF CancelShutdown
  <2>3. CASE Close(t)
    BY <2>3, Zenon DEF Close
  <2>4. CASE CloseShutdown(t)
    BY <2>4, Zenon DEF CloseShutdown
  <2>5. CASE CloseTryLock(t)
    BY <2>5, Zenon DEF CloseTryLock
  <2>6. CASE CloseSock(t)
    BY <2>6, Zenon DEF CloseSock
  <2> QED BY <1>3, <2>1, <2>2, <2>3, <2>4, <2>5, <2>6, Zenon DEF Interrupt
<1>4. ASSUME NEW t \in Threads, Cleanup(t) PROVE TypeFlags'
  <2>1. ASSUME NEW ids \in SUBSET Ids \ {{}}, TryQueueCloses(t, ids) PROVE TypeFlags'
    BY <2>1, Zenon DEF TryQueueCloses, TryQueue
  <2>2. ASSUME NEW id \in Ids, TryQueueDeallocate(t, id) PROVE TypeFlags'
    BY <2>2, Zenon DEF TryQueueDeallocate, TryQueue
  <2>3. CASE AddCloses(t)
    BY <2>3, Zenon DEF AddCloses
  <2>4. CASE AddDeallocate(t)
    BY <2>4, Zenon DEF AddDeallocate
  <2>5. CASE PushCloses(t)
    BY <2>5, Zenon DEF PushCloses
  <2>6. CASE PushDeallocate(t)
    BY <2>6, Zenon DEF PushDeallocate
  <2> QED BY <1>4, <2>1, <2>2, <2>3, <2>4, <2>5, <2>6, Zenon DEF Cleanup
<1>5. ASSUME NEW t \in Threads, Drop(t) PROVE TypeFlags'
  <2>1. CASE DropHandle(t)
    BY <2>1, Zenon DEF DropHandle
  <2>2. CASE DropArc(t)
    BY <2>2, Zenon DEF DropArc
  <2>3. CASE DropWatchdog(t)
    BY <2>3, Zenon DEF DropWatchdog
  <2>4. CASE Join(t)
    BY <2>4, Zenon DEF Join
  <2> QED BY <1>5, <2>1, <2>2, <2>3, <2>4, Zenon DEF Drop
<1>6. CASE Watchdog
  <2>1. CASE DeadlinePasses
    BY <2>1, Zenon DEF DeadlinePasses
  <2>2. CASE WorkerLoop
    BY <2>2, Zenon DEF WorkerLoop
  <2>3. CASE WorkerWake
    BY <2>3, Zenon DEF WorkerWake
  <2>4. CASE WorkerShutdown
    BY <2>4, Zenon DEF WorkerShutdown
  <2> QED BY <1>6, <2>1, <2>2, <2>3, <2>4, Zenon DEF Watchdog
<1>7. CASE Finished \/ UNCHANGED vars
  BY <1>7, Zenon DEF Finished, vars
<1> QED BY <1>1, <1>2, <1>3, <1>4, <1>5, <1>6, <1>7, Zenon DEF Next

(* A step keeps the state of the watchdog in its type: tokens stay below    *)
(* TokenMod.                                                                *)
LEMMA TypeWatchdogStep == TypeWatchdog /\ [Next]_vars => TypeWatchdog'
<1> SUFFICES ASSUME TypeWatchdog, [Next]_vars PROVE TypeWatchdog'
  OBVIOUS
<1> USE TokenModAssumption, NextTokenType DEF TypeWatchdog, Notified,
     threadVars, stateVars, watchdogVars, cleanupVars
<1>1. ASSUME NEW t \in Threads, Operation(t) PROVE TypeWatchdog'
  BY <1>1 DEF Operation, Call, Lock, Poisoned, CheckClosing, TakeSock, Arm,
       TakePendingCloses, TakePendingDeallocates, Disarm, SwapIdle, Install
<1>2. ASSUME NEW t \in Threads, Closure(t) PROVE TypeWatchdog'
  BY <1>2, Zenon DEF Closure, ClosureSend, ClosureReturn, ClosurePanic
<1>3. ASSUME NEW t \in Threads, Interrupt(t) PROVE TypeWatchdog'
  BY <1>3, Zenon DEF Interrupt, Cancel, CancelShutdown, Close, CloseShutdown,
       CloseTryLock, CloseSock
<1>4. ASSUME NEW t \in Threads, Cleanup(t) PROVE TypeWatchdog'
  BY <1>4, Zenon DEF Cleanup, TryQueueCloses, TryQueueDeallocate, AddCloses,
       AddDeallocate, PushCloses, PushDeallocate, TryQueue
<1>5. ASSUME NEW t \in Threads, Drop(t) PROVE TypeWatchdog'
  BY <1>5, Zenon DEF Drop, DropHandle, DropArc, DropWatchdog, Join
<1>6. CASE Watchdog
  BY <1>6 DEF Watchdog, DeadlinePasses, WorkerLoop, WorkerWake, WorkerShutdown
<1>7. CASE Finished \/ UNCHANGED vars
  BY <1>7, Zenon DEF Finished, vars
<1> QED BY <1>1, <1>2, <1>3, <1>4, <1>5, <1>6, <1>7, Zenon DEF Next

(* A step keeps the clean-up lists and buffers in their types.              *)
LEMMA TypeCleanupStep == TypeThreads /\ TypeCleanup /\ [Next]_vars =>
     TypeCleanup'
<1> SUFFICES ASSUME TypeThreads, TypeCleanup, [Next]_vars PROVE TypeCleanup'
  BY Zenon
<1> USE DEF TypeThreads, TypeCleanup, Commands, Closes, Releases, threadVars,
     stateVars, watchdogVars, cleanupVars
<1>1. ASSUME NEW t \in Threads, Operation(t) PROVE TypeCleanup'
  BY <1>1, Zenon DEF Operation, Call, Lock, Poisoned, CheckClosing, TakeSock, Arm,
       TakePendingCloses, TakePendingDeallocates, Disarm, SwapIdle, Install
<1>2. ASSUME NEW t \in Threads, Closure(t) PROVE TypeCleanup'
  BY <1>2, Zenon DEF Closure, ClosureSend, ClosureReturn, ClosurePanic
<1>3. ASSUME NEW t \in Threads, Interrupt(t) PROVE TypeCleanup'
  BY <1>3, Zenon DEF Interrupt, Cancel, CancelShutdown, Close, CloseShutdown,
       CloseTryLock, CloseSock
<1>4. ASSUME NEW t \in Threads, Cleanup(t) PROVE TypeCleanup'
  BY <1>4 DEF Cleanup, TryQueueCloses, TryQueueDeallocate, AddCloses,
       AddDeallocate, PushCloses, PushDeallocate, TryQueue
<1>5. ASSUME NEW t \in Threads, Drop(t) PROVE TypeCleanup'
  BY <1>5, Zenon DEF Drop, DropHandle, DropArc, DropWatchdog, Join
<1>6. CASE Watchdog
  BY <1>6, Zenon DEF Watchdog, DeadlinePasses, WorkerLoop, WorkerWake, WorkerShutdown
<1>7. CASE Finished \/ UNCHANGED vars
  BY <1>7, Zenon DEF Finished, vars
<1> QED BY <1>1, <1>2, <1>3, <1>4, <1>5, <1>6, <1>7, Zenon DEF Next

(* Every step keeps every variable in its type.                             *)
LEMMA TypeStep == TypeOK /\ [Next]_vars => TypeOK'
  BY TypeThreadsStep, TypeFlagsStep, TypeWatchdogStep, TypeCleanupStep, Zenon DEF TypeOK

-----------------------------------------------------------------------------
(* The inductive invariant.                                                 *)

(* Statements at which operation_state is not IDLE; statements at which the *)
(* operation's token is armed or has fired.                                 *)
Marked == {"arm", "closes", "deallocs", "f", "reply", "disarm", "swap"}
Armed  == {"closes", "deallocs", "f", "reply", "disarm"}

MutexInv == \A t \in Threads : pc[t] \in Locked <=> holder = t

PoisonInv == poisoned => \A t \in Threads : pc[t] \notin Operating \cup {"check"}

OwnerInv ==
  /\ \A t \in Threads : t \in handles \/ pc[t] \in {"stop", "join", "gone"}
  /\ Owner \notin handles => closing
  /\ pc[Owner] = "drop" => closing
  /\ \A t \in Threads :
       pc[t] \in {"close_shutdown", "close_try_lock", "close_sock"} => closing

StateInv == operation_state # "IDLE" => poisoned \/ At(Marked)

SockInv ==
  /\ sock \/ closing \/ poisoned \/ At(Marked \cup {"install"})
  /\ At({"take"}) => sock

TokenInv ==
  \A t \in Threads :
    pc[t] \notin Armed \cup {"swap", "install"} => token[t] = NoToken

ActiveInv ==
  active # NoToken =>
    /\ fired_token # active
    /\ poisoned \/ (At(Armed) /\ token[holder] = active)

SwapInv == \A t \in Threads : pc[t] = "swap" /\ Fired(t) => fres[t] = "Expired"

CauseInv ==
  ~raw \/ worker = "shutdown" =>
    \/ closing \/ poisoned \/ operation_state = "CANCELLED"
    \/ At(Armed \cup {"swap"}) /\ Fired(holder)

CancelInv ==
  \A t \in Threads :
    pc[t] = "cancel" => closing \/ poisoned \/ operation_state = "CANCELLED"

(* The inductive invariant, in the order in which its parts are proved.     *)
LockInv == MutexInv /\ PoisonInv /\ OwnerInv

MarkInv == StateInv /\ TokenInv /\ CancelInv

FireInv == ActiveInv /\ SwapInv

IInv ==
  /\ TypeOK /\ LockInv /\ MarkInv /\ SockInv /\ FireInv /\ CauseInv
  /\ DeallocateFalseMeansClosed

-----------------------------------------------------------------------------
(* From a state of the invariant, every step is a step of Lifecycle.        *)

(* A step that leaves the flags, the operation being served and whether its *)
(* token has fired as they are is a stuttering step of Lifecycle.           *)
Quiet ==
  /\ UNCHANGED <<closing, poisoned, operation_state>>
  /\ At(Served)' <=> At(Served)
  /\ At(Served) => holder' = holder /\ (Fired(holder)' <=> Fired(holder))

(* The Lifecycle variables are functions of what Quiet keeps.               *)
LEMMA Stutter == Quiet => UNCHANGED Abstract!vars
<1> SUFFICES ASSUME Quiet PROVE UNCHANGED Abstract!vars
  OBVIOUS
<1> USE DEF Quiet
<1>1. User' = User
  BY Zenon DEF User
<1>2. Interrupted' <=> Interrupted
  BY Zenon DEF Interrupted
<1>3. Interrupted' = Interrupted
  BY <1>2, Zenon DEF Interrupted
<1>4. (~closing /\ ~poisoned)' = (~closing /\ ~poisoned)
  OBVIOUS
<1> QED BY <1>1, <1>3, <1>4, Zenon DEF Abstract!vars

(* Marking the operation being served as interrupted is Interrupt.          *)
LEMMA InterruptStep ==
  ASSUME TypeThreads, UNCHANGED <<closing, poisoned, holder>>,
         At(Served), At(Served)', Interrupted'
  PROVE  Abstract!Interrupt
<1>1. User' = User /\ User # NoThread
  BY ThreadsAssumption, Zenon DEF User, At, TypeThreads
<1>2. Interrupted' = TRUE
  BY Zenon DEF Interrupted
<1>3. (~closing /\ ~poisoned)' = (~closing /\ ~poisoned)
  OBVIOUS
<1> QED BY <1>1, <1>2, <1>3, Zenon DEF Abstract!Interrupt

(* Every step of the connection is a step of Lifecycle or leaves its        *)
(* variables alone.                                                         *)
LEMMA RefinementStep == IInv /\ [Next]_vars =>
     [Abstract!Next]_(Abstract!vars)
<1> SUFFICES ASSUME IInv, [Next]_vars PROVE [Abstract!Next]_(Abstract!vars)
  OBVIOUS
<1>0. /\ TypeThreads /\ TypeWatchdog
      /\ LockInv /\ MarkInv /\ FireInv /\ SockInv
  BY Zenon DEF IInv, TypeOK
<1> USE <1>0, ThreadsAssumption DEF LockInv, MutexInv, TypeThreads, At,
     Served, InClosure, Operating, Locked, Unlocked, Goto, Begin, Return,
     threadVars, stateVars, watchdogVars, cleanupVars
<1>1. ASSUME NEW t \in Threads, Operation(t) PROVE [Abstract!Next]_(Abstract!vars)
  <2>1. CASE Call(t)
    <3>1. Quiet
      BY <2>1, Zenon DEF Quiet, Fired, Call
    <3> QED BY ONLY <3>1, Stutter, Zenon
  <2>2. CASE Lock(t)
    <3>1. Quiet
      BY <2>2, Zenon DEF Quiet, Fired, Lock
    <3> QED BY ONLY <3>1, Stutter, Zenon
  <2>3. CASE Poisoned(t)
    <3>1. ~At(Served) /\ ~At(Served)' /\ closing'
      BY <2>3, Zenon DEF Poisoned
    <3>2. User = NoThread /\ User' = NoThread /\ Interrupted' = FALSE
      BY <3>1, Zenon DEF User, Interrupted
    <3>3. (~closing /\ ~poisoned)' = FALSE
      BY <3>1, Zenon
    <3> QED BY <3>2, <3>3, Zenon DEF Abstract!Close, Abstract!Next
  <2>4. CASE CheckClosing(t)
    <3>1. CASE closing
      <4>1. UNCHANGED <<closing, poisoned, operation_state>>
        BY <2>4, Zenon DEF CheckClosing
      <4>2. ~At(Served) /\ ~At(Served)'
        BY <2>4, <3>1, Zenon DEF CheckClosing
      <4> QED BY <4>1, <4>2, Stutter, Zenon DEF Quiet
    <3>2. CASE ~closing
      <4>1. ~At(Served) /\ At(Served)' /\ holder' = t
        BY <2>4, <3>2 DEF CheckClosing
      <4>2. UNCHANGED <<closing, poisoned, operation_state, token, fired_token>>
        BY <2>4, <3>2, Zenon DEF CheckClosing
      <4>3. ~poisoned /\ operation_state = "IDLE" /\ token[t] = NoToken
        BY <2>4, <1>0, Zenon DEF CheckClosing, PoisonInv, MarkInv, StateInv, TokenInv,
             Marked, Armed
      <4>4. User = NoThread /\ User' = t
        BY <4>1, Zenon DEF User
      <4>5. Interrupted = FALSE /\ Interrupted' = FALSE
        BY <3>2, <4>1, <4>2, <4>3, Zenon DEF Interrupted, Fired
      <4>6. (~closing /\ ~poisoned) /\ (~closing /\ ~poisoned)' = (~closing /\ ~poisoned)
        BY <3>2, <4>2, <4>3, Zenon
      <4>7. Abstract!Begin(t)
        BY <4>4, <4>5, <4>6, Zenon DEF Abstract!Begin
      <4> QED BY <4>7, Zenon DEF Abstract!Next
    <3> QED BY <3>1, <3>2, Zenon
  <2>5. CASE TakeSock(t)
    <3>1. sock /\ operation_state = "IDLE" /\ token[t] = NoToken
      BY <2>5, <1>0, Zenon DEF TakeSock, SockInv, MarkInv, StateInv, TokenInv, PoisonInv,
           Marked, Armed
    <3>2. UNCHANGED <<closing, poisoned, holder, token, fired_token>>
      BY <2>5, <3>1, Zenon DEF TakeSock
    <3>3. At(Served) /\ At(Served)'
      BY <2>5, <3>1 DEF TakeSock
    <3>4. operation_state' = "ACTIVE"
      BY <2>5, <3>1, Zenon DEF TakeSock
    <3>5. User' = User
      BY <3>2, <3>3, Zenon DEF User
    <3>6. Interrupted' <=> Interrupted
      BY <3>1, <3>2, <3>3, <3>4, Zenon DEF Interrupted, Fired
    <3>7. Interrupted' = Interrupted
      BY <3>6, Zenon DEF Interrupted
    <3>8. (~closing /\ ~poisoned)' = (~closing /\ ~poisoned)
      BY <3>2, Zenon
    <3> QED BY <3>5, <3>7, <3>8, Zenon DEF Abstract!vars
  <2>6. ASSUME NEW timeout \in BOOLEAN, Arm(t, timeout) PROVE [Abstract!Next]_(Abstract!vars)
    <3>1. UNCHANGED <<closing, poisoned, operation_state, holder>>
      BY <2>6, Zenon DEF Arm
    <3>2. At(Served)' <=> At(Served)
      BY <2>6, Zenon DEF Arm
    <3>3. holder = t /\ ~Fired(t)
      BY <2>6, <1>0, Zenon DEF Arm, Fired, MarkInv, TokenInv, Armed
    <3>4. ~Fired(t)'
      BY <2>6, <1>0, NextTokenType, SMTT(30) DEF Arm, Fired, TypeWatchdog
    <3> QED BY <3>1, <3>2, <3>3, <3>4, Stutter, Zenon DEF Quiet
  <2>7. CASE TakePendingCloses(t)
    <3>1. Quiet
      BY <2>7, Zenon DEF Quiet, Fired, TakePendingCloses
    <3> QED BY ONLY <3>1, Stutter, Zenon
  <2>8. CASE TakePendingDeallocates(t)
    <3>1. Quiet
      BY <2>8, Zenon DEF Quiet, Fired, TakePendingDeallocates
    <3> QED BY ONLY <3>1, Stutter, Zenon
  <2>9. CASE Disarm(t)
    <3>1. Quiet
      BY <2>9, Zenon DEF Quiet, Fired, Disarm
    <3> QED BY ONLY <3>1, Stutter, Zenon
  <2>10. CASE SwapIdle(t)
    <3>0. At(Served) /\ holder = t /\ ~At(Served)'
      BY <2>10, Zenon DEF SwapIdle
    <3>1. User = t /\ User' = NoThread /\ Interrupted' = FALSE
      BY <3>0, Zenon DEF User, Interrupted
    <3>2. CASE Outcome(t) = "Ok"
      <4>1. ~Fired(t) /\ ~closing /\ operation_state # "CANCELLED"
        BY <2>10, <3>2, <1>0, Zenon DEF SwapIdle, Outcome, FireInv, SwapInv
      <4>2. Interrupted = FALSE
        BY <3>0, <4>1, Zenon DEF Interrupted
      <4>3. UNCHANGED <<closing, poisoned>>
        BY <2>10, <3>2, Zenon DEF SwapIdle
      <4>4. Abstract!Succeed(t)
        BY <3>1, <4>2, <4>3, Zenon DEF Abstract!Succeed
      <4> QED BY <4>4, Zenon DEF Abstract!Next
    <3>3. CASE Outcome(t) # "Ok"
      <4>1. (~closing /\ ~poisoned)' = FALSE
        BY <2>10, <3>3, Zenon DEF SwapIdle
      <4>2. Abstract!Fail(t)
        BY <3>1, <4>1, Zenon DEF Abstract!Fail
      <4> QED BY <4>2, Zenon DEF Abstract!Next
    <3> QED BY <3>2, <3>3, Zenon
  <2>11. CASE Install(t)
    <3>1. Quiet
      BY <2>11, Zenon DEF Quiet, Fired, Install
    <3> QED BY ONLY <3>1, Stutter, Zenon
  <2> QED BY <1>1, <2>1, <2>2, <2>3, <2>4, <2>5, <2>6, <2>7, <2>8, <2>9,
       <2>10, <2>11, Zenon DEF Operation
<1>2. ASSUME NEW t \in Threads, Closure(t) PROVE [Abstract!Next]_(Abstract!vars)
  <2>1. CASE ClosureSend(t)
    <3>1. Quiet
      BY <2>1, Zenon DEF Quiet, Fired, ClosureSend
    <3> QED BY ONLY <3>1, Stutter, Zenon
  <2>2. ASSUME NEW outcome \in {"Ok", "TimedOut", "Err"}, ClosureReturn(t, outcome) PROVE [Abstract!Next]_(Abstract!vars)
    <3>1. Quiet
      BY <2>2, Zenon DEF Quiet, Fired, ClosureReturn
    <3> QED BY ONLY <3>1, Stutter, Zenon
  <2>3. CASE ClosurePanic(t)
    <3>1. At(Served) /\ holder = t /\ ~At(Served)' /\ poisoned'
      BY <2>3, Zenon DEF ClosurePanic
    <3>2. User = t /\ User' = NoThread /\ Interrupted' = FALSE
      BY <3>1, Zenon DEF User, Interrupted
    <3>3. (~closing /\ ~poisoned)' = FALSE
      BY <3>1, Zenon
    <3>4. Abstract!Fail(t)
      BY <3>2, <3>3, Zenon DEF Abstract!Fail
    <3> QED BY <3>4, Zenon DEF Abstract!Next
  <2> QED BY <1>2, <2>1, <2>2, <2>3, Zenon DEF Closure
<1>3. ASSUME NEW t \in Threads, Interrupt(t) PROVE [Abstract!Next]_(Abstract!vars)
  <2>1. CASE Cancel(t)
    <3>1. CASE operation_state = "ACTIVE" /\ ~poisoned
      <4>1. UNCHANGED <<closing, poisoned, holder>> /\ operation_state' = "CANCELLED"
        BY <2>1, <3>1, Zenon DEF Cancel
      <4>2. At(Served) /\ At(Served)'
        BY <2>1, <3>1, <1>0, Zenon DEF Cancel, MarkInv, StateInv, Marked
      <4> QED BY <4>1, <4>2, InterruptStep, Zenon DEF Interrupted, Abstract!Next
    <3>2. CASE poisoned
      <4>1. UNCHANGED <<closing, poisoned, holder>> /\ ~At(Served) /\ ~At(Served)'
        BY <2>1, <3>2, <1>0, Zenon DEF Cancel, PoisonInv
      <4>2. User' = User /\ Interrupted' = Interrupted
        BY <4>1, Zenon DEF User, Interrupted
      <4> QED BY <4>1, <4>2, Zenon DEF Abstract!vars
    <3>3. CASE operation_state # "ACTIVE"
      <4>1. UNCHANGED <<closing, poisoned, operation_state, holder, token, fired_token>>
        BY <2>1, <3>3, Zenon DEF Cancel
      <4>2. At(Served)' <=> At(Served)
        BY <2>1, <3>3, Zenon DEF Cancel
      <4> QED BY <4>1, <4>2, Stutter, Zenon DEF Quiet, Fired
    <3> QED BY <3>1, <3>2, <3>3, Zenon
  <2>2. CASE CancelShutdown(t)
    <3>1. Quiet
      BY <2>2, Zenon DEF Quiet, Fired, CancelShutdown
    <3> QED BY ONLY <3>1, Stutter, Zenon
  <2>3. CASE Close(t)
    <3>1. UNCHANGED <<poisoned, holder>> /\ closing' = TRUE
      BY <2>3, Zenon DEF Close
    <3>2. At(Served)' <=> At(Served)
      BY <2>3, Zenon DEF Close
    <3>3. User' = User
      BY <3>1, <3>2, Zenon DEF User
    <3>4. Interrupted' <=> User # NoThread
      BY <3>1, <3>2, Zenon DEF User, Interrupted
    <3>5. Interrupted' = (User # NoThread)
      BY <3>4, Zenon DEF Interrupted
    <3>6. (~closing /\ ~poisoned)' = FALSE
      BY <3>1, Zenon
    <3> QED BY <3>3, <3>5, <3>6, Zenon DEF Abstract!Close, Abstract!Next
  <2>4. CASE CloseShutdown(t)
    <3>1. Quiet
      BY <2>4, Zenon DEF Quiet, Fired, CloseShutdown
    <3> QED BY ONLY <3>1, Stutter, Zenon
  <2>5. CASE CloseTryLock(t)
    <3>1. Quiet
      BY <2>5, SMTT(30) DEF Quiet, Fired, CloseTryLock
    <3> QED BY ONLY <3>1, Stutter, Zenon
  <2>6. CASE CloseSock(t)
    <3>1. Quiet
      BY <2>6, Zenon DEF Quiet, Fired, CloseSock
    <3> QED BY ONLY <3>1, Stutter, Zenon
  <2> QED BY <1>3, <2>1, <2>2, <2>3, <2>4, <2>5, <2>6, Zenon DEF Interrupt
<1>4. ASSUME NEW t \in Threads, Cleanup(t) PROVE [Abstract!Next]_(Abstract!vars)
  <2>1. ASSUME NEW ids \in SUBSET Ids \ {{}}, TryQueueCloses(t, ids) PROVE [Abstract!Next]_(Abstract!vars)
    <3>1. Quiet
      BY <2>1, SMTT(30) DEF Quiet, Fired, TryQueueCloses, TryQueue
    <3> QED BY ONLY <3>1, Stutter, Zenon
  <2>2. ASSUME NEW id \in Ids, TryQueueDeallocate(t, id) PROVE [Abstract!Next]_(Abstract!vars)
    <3>1. Quiet
      BY <2>2, SMTT(30) DEF Quiet, Fired, TryQueueDeallocate, TryQueue
    <3> QED BY ONLY <3>1, Stutter, Zenon
  <2>3. CASE AddCloses(t)
    <3>1. Quiet
      BY <2>3, Zenon DEF Quiet, Fired, AddCloses
    <3> QED BY ONLY <3>1, Stutter, Zenon
  <2>4. CASE AddDeallocate(t)
    <3>1. Quiet
      BY <2>4, Zenon DEF Quiet, Fired, AddDeallocate
    <3> QED BY ONLY <3>1, Stutter, Zenon
  <2>5. CASE PushCloses(t)
    <3>1. Quiet
      BY <2>5, Zenon DEF Quiet, Fired, PushCloses
    <3> QED BY ONLY <3>1, Stutter, Zenon
  <2>6. CASE PushDeallocate(t)
    <3>1. Quiet
      BY <2>6, Zenon DEF Quiet, Fired, PushDeallocate
    <3> QED BY ONLY <3>1, Stutter, Zenon
  <2> QED BY <1>4, <2>1, <2>2, <2>3, <2>4, <2>5, <2>6, Zenon DEF Cleanup
<1>5. ASSUME NEW t \in Threads, Drop(t) PROVE [Abstract!Next]_(Abstract!vars)
  <2>1. CASE DropHandle(t)
    <3>1. Quiet
      BY <2>1, Zenon DEF Quiet, Fired, DropHandle
    <3> QED BY ONLY <3>1, Stutter, Zenon
  <2>2. CASE DropArc(t)
    <3>1. Quiet
      BY <2>2, Zenon DEF Quiet, Fired, DropArc
    <3> QED BY ONLY <3>1, Stutter, Zenon
  <2>3. CASE DropWatchdog(t)
    <3>1. Quiet
      BY <2>3, Zenon DEF Quiet, Fired, DropWatchdog
    <3> QED BY ONLY <3>1, Stutter, Zenon
  <2>4. CASE Join(t)
    <3>1. Quiet
      BY <2>4, Zenon DEF Quiet, Fired, Join
    <3> QED BY ONLY <3>1, Stutter, Zenon
  <2> QED BY <1>5, <2>1, <2>2, <2>3, <2>4, Zenon DEF Drop
<1>6. CASE Watchdog
  <2>1. CASE DeadlinePasses
    <3>1. Quiet
      BY <2>1, Zenon DEF Quiet, Fired, DeadlinePasses
    <3> QED BY ONLY <3>1, Stutter, Zenon
  <2>2. CASE WorkerLoop
    <3>1. UNCHANGED <<closing, poisoned, operation_state, holder, pc, token>>
      BY <2>2, Zenon DEF WorkerLoop
    <3>2. CASE fired_token' = fired_token
      BY <3>1, <3>2, Stutter, Zenon DEF Quiet, Fired
    <3>3. CASE fired_token' # fired_token
      <4>1. active # NoToken /\ fired_token' = active
        BY <2>2, <3>3, Zenon DEF WorkerLoop
      <4>2. CASE poisoned
        <5>1. ~At(Served)
          BY <1>0, <4>2, Zenon DEF PoisonInv
        <5> QED BY <3>1, <5>1, Stutter, Zenon DEF Quiet
      <4>3. CASE ~poisoned
        <5>1. At(Served) /\ token[holder] = active
          BY <1>0, <4>1, <4>3, Zenon DEF FireInv, ActiveInv, Armed
        <5>2. Interrupted'
          BY <3>1, <4>1, <5>1, Zenon DEF Interrupted, Fired
        <5> QED BY <3>1, <5>1, <5>2, InterruptStep, Zenon DEF Abstract!Next
      <4> QED BY <4>2, <4>3, Zenon
    <3> QED BY <3>2, <3>3, Zenon
  <2>3. CASE WorkerWake
    <3>1. Quiet
      BY <2>3, Zenon DEF Quiet, Fired, WorkerWake
    <3> QED BY ONLY <3>1, Stutter, Zenon
  <2>4. CASE WorkerShutdown
    <3>1. Quiet
      BY <2>4, Zenon DEF Quiet, Fired, WorkerShutdown
    <3> QED BY ONLY <3>1, Stutter, Zenon
  <2> QED BY <1>6, <2>1, <2>2, <2>3, <2>4, Zenon DEF Watchdog
<1>7. CASE Finished \/ UNCHANGED vars
  BY <1>7, Stutter, Zenon DEF Quiet, Finished, vars, Fired
<1> QED BY <1>1, <1>2, <1>3, <1>4, <1>5, <1>6, <1>7, Zenon DEF Next

-----------------------------------------------------------------------------
(* The parts of the inductive invariant, each preserved by every step.      *)

(* A thread is at a statement of the critical section exactly when it holds *)
(* the mutex, nobody operates on a connection whose mutex is poisoned, and  *)
(* the owner marks the connection closing before its handle goes.           *)
LEMMA LockStep == TypeThreads /\ LockInv /\ [Next]_vars => LockInv'
<1> SUFFICES ASSUME TypeThreads, LockInv, [Next]_vars PROVE LockInv'
  OBVIOUS
<1> USE ThreadsAssumption DEF LockInv, TypeThreads, MutexInv, PoisonInv,
     OwnerInv, InClosure, Operating, Locked, Unlocked, Goto, Begin, Return,
     threadVars, stateVars, watchdogVars, cleanupVars
<1>1. ASSUME NEW t \in Threads, Operation(t) PROVE LockInv'
  <2>1. CASE Call(t)
    BY <2>1, Zenon DEF Call
  <2>2. CASE Lock(t)
    BY <2>2, Zenon DEF Lock
  <2>3. CASE Poisoned(t)
    BY <2>3 DEF Poisoned
  <2>4. CASE CheckClosing(t)
    BY <2>4 DEF CheckClosing
  <2>5. CASE TakeSock(t)
    BY <2>5 DEF TakeSock
  <2>6. ASSUME NEW timeout \in BOOLEAN, Arm(t, timeout) PROVE LockInv'
    BY <2>6, Zenon DEF Arm
  <2>7. CASE TakePendingCloses(t)
    BY <2>7, Zenon DEF TakePendingCloses
  <2>8. CASE TakePendingDeallocates(t)
    BY <2>8, Zenon DEF TakePendingDeallocates
  <2>9. CASE Disarm(t)
    BY <2>9, Zenon DEF Disarm
  <2>10. CASE SwapIdle(t)
    BY <2>10 DEF SwapIdle
  <2>11. CASE Install(t)
    BY <2>11, Zenon DEF Install
  <2> QED BY <1>1, <2>1, <2>2, <2>3, <2>4, <2>5, <2>6, <2>7, <2>8, <2>9, Zenon,
       <2>10, <2>11 DEF Operation
<1>2. ASSUME NEW t \in Threads, Closure(t) PROVE LockInv'
  <2>1. CASE ClosureSend(t)
    BY <2>1, Zenon DEF ClosureSend
  <2>2. ASSUME NEW outcome \in {"Ok", "TimedOut", "Err"}, ClosureReturn(t, outcome) PROVE LockInv'
    BY <2>2, Zenon DEF ClosureReturn
  <2>3. CASE ClosurePanic(t)
    BY <2>3, SMTT(30) DEF ClosurePanic
  <2> QED BY <1>2, <2>1, <2>2, <2>3, Zenon DEF Closure
<1>3. ASSUME NEW t \in Threads, Interrupt(t) PROVE LockInv'
  <2>1. CASE Cancel(t)
    BY <2>1 DEF Cancel
  <2>2. CASE CancelShutdown(t)
    BY <2>2, Zenon DEF CancelShutdown
  <2>3. CASE Close(t)
    BY <2>3, Zenon DEF Close
  <2>4. CASE CloseShutdown(t)
    BY <2>4, Zenon DEF CloseShutdown
  <2>5. CASE CloseTryLock(t)
    BY <2>5 DEF CloseTryLock
  <2>6. CASE CloseSock(t)
    BY <2>6, SMTT(30) DEF CloseSock
  <2> QED BY <1>3, <2>1, <2>2, <2>3, <2>4, <2>5, <2>6, Zenon DEF Interrupt
<1>4. ASSUME NEW t \in Threads, Cleanup(t) PROVE LockInv'
  <2>1. ASSUME NEW ids \in SUBSET Ids \ {{}}, TryQueueCloses(t, ids) PROVE LockInv'
    BY <2>1 DEF TryQueueCloses, TryQueue
  <2>2. ASSUME NEW id \in Ids, TryQueueDeallocate(t, id) PROVE LockInv'
    BY <2>2 DEF TryQueueDeallocate, TryQueue
  <2>3. CASE AddCloses(t)
    BY <2>3 DEF AddCloses
  <2>4. CASE AddDeallocate(t)
    BY <2>4 DEF AddDeallocate
  <2>5. CASE PushCloses(t)
    BY <2>5, Zenon DEF PushCloses
  <2>6. CASE PushDeallocate(t)
    BY <2>6, Zenon DEF PushDeallocate
  <2> QED BY <1>4, <2>1, <2>2, <2>3, <2>4, <2>5, <2>6, Zenon DEF Cleanup
<1>5. ASSUME NEW t \in Threads, Drop(t) PROVE LockInv'
  <2>1. CASE DropHandle(t)
    BY <2>1, Zenon DEF DropHandle
  <2>2. CASE DropArc(t)
    BY <2>2 DEF DropArc
  <2>3. CASE DropWatchdog(t)
    BY <2>3, Zenon DEF DropWatchdog
  <2>4. CASE Join(t)
    BY <2>4 DEF Join
  <2> QED BY <1>5, <2>1, <2>2, <2>3, <2>4, Zenon DEF Drop
<1>6. CASE Watchdog
  <2>1. CASE DeadlinePasses
    BY <2>1, Zenon DEF DeadlinePasses
  <2>2. CASE WorkerLoop
    BY <2>2, Zenon DEF WorkerLoop
  <2>3. CASE WorkerWake
    BY <2>3, Zenon DEF WorkerWake
  <2>4. CASE WorkerShutdown
    BY <2>4, Zenon DEF WorkerShutdown
  <2> QED BY <1>6, <2>1, <2>2, <2>3, <2>4, Zenon DEF Watchdog
<1>7. CASE Finished \/ UNCHANGED vars
  BY <1>7, SMTT(30) DEF Finished, vars
<1> QED BY <1>1, <1>2, <1>3, <1>4, <1>5, <1>6, <1>7, Zenon DEF Next

(* operation_state differs from IDLE only on behalf of the holder of the    *)
(* mutex or after a panic, a thread has a watchdog token only between arm   *)
(* and its return, and a canceller on its way to shut the socket down has a *)
(* visible cause.                                                           *)
LEMMA MarkStep == TypeThreads /\ LockInv /\ MarkInv /\ [Next]_vars => MarkInv'
<1> SUFFICES ASSUME TypeThreads, LockInv, MarkInv, [Next]_vars PROVE MarkInv'
  BY Zenon
<1> USE ThreadsAssumption DEF LockInv, MarkInv, TypeThreads, MutexInv,
     StateInv, TokenInv, CancelInv, At, Marked, Armed, InClosure, Operating,
     Locked, Unlocked, Goto, Begin, Return, threadVars, stateVars,
     watchdogVars, cleanupVars
<1>1. ASSUME NEW t \in Threads, Operation(t) PROVE MarkInv'
  <2>1. CASE Call(t)
    BY <2>1, Zenon DEF Call
  <2>2. CASE Lock(t)
    BY <2>2, Zenon DEF Lock
  <2>3. CASE Poisoned(t)
    BY <2>3, Zenon DEF Poisoned
  <2>4. CASE CheckClosing(t)
    BY <2>4 DEF CheckClosing
  <2>5. CASE TakeSock(t)
    BY <2>5 DEF TakeSock
  <2>6. ASSUME NEW timeout \in BOOLEAN, Arm(t, timeout) PROVE MarkInv'
    BY <2>6, Zenon DEF Arm
  <2>7. CASE TakePendingCloses(t)
    BY <2>7, Zenon DEF TakePendingCloses
  <2>8. CASE TakePendingDeallocates(t)
    BY <2>8, Zenon DEF TakePendingDeallocates
  <2>9. CASE Disarm(t)
    BY <2>9, Zenon DEF Disarm
  <2>10. CASE SwapIdle(t)
    BY <2>10 DEF SwapIdle, Outcome
  <2>11. CASE Install(t)
    BY <2>11, Zenon DEF Install
  <2> QED BY <1>1, <2>1, <2>2, <2>3, <2>4, <2>5, <2>6, <2>7, <2>8, <2>9, Zenon,
       <2>10, <2>11 DEF Operation
<1>2. ASSUME NEW t \in Threads, Closure(t) PROVE MarkInv'
  <2>1. CASE ClosureSend(t)
    BY <2>1, Zenon DEF ClosureSend
  <2>2. ASSUME NEW outcome \in {"Ok", "TimedOut", "Err"}, ClosureReturn(t, outcome) PROVE MarkInv'
    BY <2>2, Zenon DEF ClosureReturn
  <2>3. CASE ClosurePanic(t)
    BY <2>3, Zenon DEF ClosurePanic
  <2> QED BY <1>2, <2>1, <2>2, <2>3, Zenon DEF Closure
<1>3. ASSUME NEW t \in Threads, Interrupt(t) PROVE MarkInv'
  <2>1. CASE Cancel(t)
    BY <2>1, Zenon DEF Cancel
  <2>2. CASE CancelShutdown(t)
    BY <2>2, Zenon DEF CancelShutdown
  <2>3. CASE Close(t)
    BY <2>3, Zenon DEF Close
  <2>4. CASE CloseShutdown(t)
    BY <2>4, Zenon DEF CloseShutdown
  <2>5. CASE CloseTryLock(t)
    BY <2>5 DEF CloseTryLock
  <2>6. CASE CloseSock(t)
    BY <2>6, Zenon DEF CloseSock
  <2> QED BY <1>3, <2>1, <2>2, <2>3, <2>4, <2>5, <2>6, Zenon DEF Interrupt
<1>4. ASSUME NEW t \in Threads, Cleanup(t) PROVE MarkInv'
  <2>1. ASSUME NEW ids \in SUBSET Ids \ {{}}, TryQueueCloses(t, ids) PROVE MarkInv'
    BY <2>1 DEF TryQueueCloses, TryQueue
  <2>2. ASSUME NEW id \in Ids, TryQueueDeallocate(t, id) PROVE MarkInv'
    BY <2>2 DEF TryQueueDeallocate, TryQueue
  <2>3. CASE AddCloses(t)
    BY <2>3, Zenon DEF AddCloses
  <2>4. CASE AddDeallocate(t)
    BY <2>4, Zenon DEF AddDeallocate
  <2>5. CASE PushCloses(t)
    BY <2>5, Zenon DEF PushCloses
  <2>6. CASE PushDeallocate(t)
    BY <2>6, Zenon DEF PushDeallocate
  <2> QED BY <1>4, <2>1, <2>2, <2>3, <2>4, <2>5, <2>6, Zenon DEF Cleanup
<1>5. ASSUME NEW t \in Threads, Drop(t) PROVE MarkInv'
  <2>1. CASE DropHandle(t)
    BY <2>1, Zenon DEF DropHandle
  <2>2. CASE DropArc(t)
    BY <2>2 DEF DropArc
  <2>3. CASE DropWatchdog(t)
    BY <2>3, Zenon DEF DropWatchdog
  <2>4. CASE Join(t)
    BY <2>4, Zenon DEF Join
  <2> QED BY <1>5, <2>1, <2>2, <2>3, <2>4, Zenon DEF Drop
<1>6. CASE Watchdog
  <2>1. CASE DeadlinePasses
    BY <2>1, Zenon DEF DeadlinePasses
  <2>2. CASE WorkerLoop
    BY <2>2, Zenon DEF WorkerLoop
  <2>3. CASE WorkerWake
    BY <2>3, Zenon DEF WorkerWake
  <2>4. CASE WorkerShutdown
    BY <2>4, Zenon DEF WorkerShutdown
  <2> QED BY <1>6, <2>1, <2>2, <2>3, <2>4, Zenon DEF Watchdog
<1>7. CASE Finished \/ UNCHANGED vars
  BY <1>7, SMTT(30) DEF Finished, vars
<1> QED BY <1>1, <1>2, <1>3, <1>4, <1>5, <1>6, <1>7, Zenon DEF Next

(* The socket is missing only while an operation has it or for good, and    *)
(* try_deallocate has answered false only in the second case.               *)
LEMMA SockStep == TypeThreads /\ LockInv /\ MarkInv /\ SockInv /\
     DeallocateFalseMeansClosed /\ [Next]_vars => (SockInv /\
     DeallocateFalseMeansClosed)'
<1> SUFFICES ASSUME TypeThreads, LockInv, MarkInv, SockInv,
     DeallocateFalseMeansClosed, [Next]_vars PROVE (SockInv /\
     DeallocateFalseMeansClosed)'
  BY Zenon
<1> USE ThreadsAssumption DEF LockInv, MutexInv, PoisonInv, OwnerInv, MarkInv,
     StateInv, SockInv, DeallocateFalseMeansClosed, TypeThreads, At, Marked,
     InClosure, Operating, Locked, Unlocked, Goto, Begin, Return, threadVars,
     stateVars, watchdogVars, cleanupVars
<1>1. ASSUME NEW t \in Threads, Operation(t) PROVE (SockInv /\ DeallocateFalseMeansClosed)'
  <2>1. CASE Call(t)
    BY <2>1, Zenon DEF Call
  <2>2. CASE Lock(t)
    BY <2>2, Zenon DEF Lock
  <2>3. CASE Poisoned(t)
    BY <2>3, Zenon DEF Poisoned
  <2>4. CASE CheckClosing(t)
    BY <2>4, Zenon DEF CheckClosing
  <2>5. CASE TakeSock(t)
    BY <2>5 DEF TakeSock
  <2>6. ASSUME NEW timeout \in BOOLEAN, Arm(t, timeout) PROVE (SockInv /\ DeallocateFalseMeansClosed)'
    BY <2>6, Zenon DEF Arm
  <2>7. CASE TakePendingCloses(t)
    BY <2>7, Zenon DEF TakePendingCloses
  <2>8. CASE TakePendingDeallocates(t)
    BY <2>8, Zenon DEF TakePendingDeallocates
  <2>9. CASE Disarm(t)
    BY <2>9, Zenon DEF Disarm
  <2>10. CASE SwapIdle(t)
    BY <2>10 DEF SwapIdle, Outcome
  <2>11. CASE Install(t)
    BY <2>11, Zenon DEF Install
  <2> QED BY <1>1, <2>1, <2>2, <2>3, <2>4, <2>5, <2>6, <2>7, <2>8, <2>9, Zenon,
       <2>10, <2>11 DEF Operation
<1>2. ASSUME NEW t \in Threads, Closure(t) PROVE (SockInv /\ DeallocateFalseMeansClosed)'
  <2>1. CASE ClosureSend(t)
    BY <2>1, Zenon DEF ClosureSend
  <2>2. ASSUME NEW outcome \in {"Ok", "TimedOut", "Err"}, ClosureReturn(t, outcome) PROVE (SockInv /\ DeallocateFalseMeansClosed)'
    BY <2>2, Zenon DEF ClosureReturn
  <2>3. CASE ClosurePanic(t)
    BY <2>3, Zenon DEF ClosurePanic
  <2> QED BY <1>2, <2>1, <2>2, <2>3, Zenon DEF Closure
<1>3. ASSUME NEW t \in Threads, Interrupt(t) PROVE (SockInv /\ DeallocateFalseMeansClosed)'
  <2>1. CASE Cancel(t)
    BY <2>1, Zenon DEF Cancel
  <2>2. CASE CancelShutdown(t)
    BY <2>2, Zenon DEF CancelShutdown
  <2>3. CASE Close(t)
    BY <2>3, Zenon DEF Close
  <2>4. CASE CloseShutdown(t)
    BY <2>4, Zenon DEF CloseShutdown
  <2>5. CASE CloseTryLock(t)
    BY <2>5 DEF CloseTryLock
  <2>6. CASE CloseSock(t)
    BY <2>6, Zenon DEF CloseSock
  <2> QED BY <1>3, <2>1, <2>2, <2>3, <2>4, <2>5, <2>6, Zenon DEF Interrupt
<1>4. ASSUME NEW t \in Threads, Cleanup(t) PROVE (SockInv /\ DeallocateFalseMeansClosed)'
  <2>1. ASSUME NEW ids \in SUBSET Ids \ {{}}, TryQueueCloses(t, ids) PROVE (SockInv /\ DeallocateFalseMeansClosed)'
    BY <2>1 DEF TryQueueCloses, TryQueue
  <2>2. ASSUME NEW id \in Ids, TryQueueDeallocate(t, id) PROVE (SockInv /\ DeallocateFalseMeansClosed)'
    BY <2>2 DEF TryQueueDeallocate, TryQueue
  <2>3. CASE AddCloses(t)
    BY <2>3, Zenon DEF AddCloses
  <2>4. CASE AddDeallocate(t)
    BY <2>4, Zenon DEF AddDeallocate
  <2>5. CASE PushCloses(t)
    BY <2>5, Zenon DEF PushCloses
  <2>6. CASE PushDeallocate(t)
    BY <2>6, Zenon DEF PushDeallocate
  <2> QED BY <1>4, <2>1, <2>2, <2>3, <2>4, <2>5, <2>6, Zenon DEF Cleanup
<1>5. ASSUME NEW t \in Threads, Drop(t) PROVE (SockInv /\ DeallocateFalseMeansClosed)'
  <2>1. CASE DropHandle(t)
    BY <2>1, Zenon DEF DropHandle
  <2>2. CASE DropArc(t)
    <3>1. CASE handles = {t}
      <4>1. closing
        BY <2>2, <3>1, Zenon DEF DropArc
      <4>2. ~At({"take"})'
        BY <2>2, <3>1, Zenon DEF DropArc
      <4> QED BY <2>2, <4>1, <4>2, Zenon DEF DropArc
    <3>2. CASE handles # {t}
      BY <2>2, <3>2, Zenon DEF DropArc
    <3> QED BY <3>1, <3>2, Zenon
  <2>3. CASE DropWatchdog(t)
    BY <2>3, Zenon DEF DropWatchdog
  <2>4. CASE Join(t)
    BY <2>4, Zenon DEF Join
  <2> QED BY <1>5, <2>1, <2>2, <2>3, <2>4, Zenon DEF Drop
<1>6. CASE Watchdog
  <2>1. CASE DeadlinePasses
    BY <2>1, Zenon DEF DeadlinePasses
  <2>2. CASE WorkerLoop
    BY <2>2, Zenon DEF WorkerLoop
  <2>3. CASE WorkerWake
    BY <2>3, Zenon DEF WorkerWake
  <2>4. CASE WorkerShutdown
    BY <2>4, Zenon DEF WorkerShutdown
  <2> QED BY <1>6, <2>1, <2>2, <2>3, <2>4, Zenon DEF Watchdog
<1>7. CASE Finished \/ UNCHANGED vars
  BY <1>7, Zenon DEF Finished, vars
<1> QED BY <1>1, <1>2, <1>3, <1>4, <1>5, <1>6, <1>7, Zenon DEF Next

(* What is armed is the token of the operation that holds the mutex, and    *)
(* after disarm an operation whose token has fired knows it.                *)
LEMMA FireStep == TypeThreads /\ TypeWatchdog /\ LockInv /\ MarkInv /\ FireInv
     /\ [Next]_vars => FireInv'
<1> SUFFICES ASSUME TypeThreads, TypeWatchdog, LockInv, MarkInv, FireInv,
     [Next]_vars PROVE FireInv'
  BY Zenon
<1> USE ThreadsAssumption, NextTokenType DEF LockInv, MarkInv, FireInv,
     TypeThreads, TypeWatchdog, MutexInv, PoisonInv, TokenInv, ActiveInv,
     SwapInv, OperationTimedOut, Fired, At, Armed, InClosure, Operating,
     Locked, Unlocked, Goto, Begin, Return, threadVars, stateVars,
     watchdogVars, cleanupVars
<1>1. ASSUME NEW t \in Threads, Operation(t) PROVE FireInv'
  <2>1. CASE Call(t)
    BY <2>1, Zenon DEF Call
  <2>2. CASE Lock(t)
    BY <2>2, Zenon DEF Lock
  <2>3. CASE Poisoned(t)
    BY <2>3, Zenon DEF Poisoned
  <2>4. CASE CheckClosing(t)
    BY <2>4 DEF CheckClosing
  <2>5. CASE TakeSock(t)
    BY <2>5 DEF TakeSock
  <2>6. ASSUME NEW timeout \in BOOLEAN, Arm(t, timeout) PROVE FireInv'
    BY <2>6 DEF Arm
  <2>7. CASE TakePendingCloses(t)
    BY <2>7, Zenon DEF TakePendingCloses
  <2>8. CASE TakePendingDeallocates(t)
    BY <2>8, Zenon DEF TakePendingDeallocates
  <2>9. CASE Disarm(t)
    BY <2>9 DEF Disarm
  <2>10. CASE SwapIdle(t)
    BY <2>10 DEF SwapIdle
  <2>11. CASE Install(t)
    BY <2>11, Zenon DEF Install
  <2> QED BY <1>1, <2>1, <2>2, <2>3, <2>4, <2>5, <2>6, <2>7, <2>8, <2>9, Zenon,
       <2>10, <2>11 DEF Operation
<1>2. ASSUME NEW t \in Threads, Closure(t) PROVE FireInv'
  <2>1. CASE ClosureSend(t)
    BY <2>1, Zenon DEF ClosureSend
  <2>2. ASSUME NEW outcome \in {"Ok", "TimedOut", "Err"}, ClosureReturn(t, outcome) PROVE FireInv'
    BY <2>2, Zenon DEF ClosureReturn
  <2>3. CASE ClosurePanic(t)
    BY <2>3, Zenon DEF ClosurePanic
  <2> QED BY <1>2, <2>1, <2>2, <2>3, Zenon DEF Closure
<1>3. ASSUME NEW t \in Threads, Interrupt(t) PROVE FireInv'
  <2>1. CASE Cancel(t)
    BY <2>1, Zenon DEF Cancel
  <2>2. CASE CancelShutdown(t)
    BY <2>2, Zenon DEF CancelShutdown
  <2>3. CASE Close(t)
    BY <2>3, Zenon DEF Close
  <2>4. CASE CloseShutdown(t)
    BY <2>4, Zenon DEF CloseShutdown
  <2>5. CASE CloseTryLock(t)
    BY <2>5 DEF CloseTryLock
  <2>6. CASE CloseSock(t)
    BY <2>6, Zenon DEF CloseSock
  <2> QED BY <1>3, <2>1, <2>2, <2>3, <2>4, <2>5, <2>6, Zenon DEF Interrupt
<1>4. ASSUME NEW t \in Threads, Cleanup(t) PROVE FireInv'
  <2>1. ASSUME NEW ids \in SUBSET Ids \ {{}}, TryQueueCloses(t, ids) PROVE FireInv'
    BY <2>1 DEF TryQueueCloses, TryQueue
  <2>2. ASSUME NEW id \in Ids, TryQueueDeallocate(t, id) PROVE FireInv'
    BY <2>2 DEF TryQueueDeallocate, TryQueue
  <2>3. CASE AddCloses(t)
    BY <2>3, Zenon DEF AddCloses
  <2>4. CASE AddDeallocate(t)
    BY <2>4, Zenon DEF AddDeallocate
  <2>5. CASE PushCloses(t)
    BY <2>5, Zenon DEF PushCloses
  <2>6. CASE PushDeallocate(t)
    BY <2>6, Zenon DEF PushDeallocate
  <2> QED BY <1>4, <2>1, <2>2, <2>3, <2>4, <2>5, <2>6, Zenon DEF Cleanup
<1>5. ASSUME NEW t \in Threads, Drop(t) PROVE FireInv'
  <2>1. CASE DropHandle(t)
    BY <2>1, Zenon DEF DropHandle
  <2>2. CASE DropArc(t)
    BY <2>2, Zenon DEF DropArc
  <2>3. CASE DropWatchdog(t)
    BY <2>3, Zenon DEF DropWatchdog
  <2>4. CASE Join(t)
    BY <2>4, Zenon DEF Join
  <2> QED BY <1>5, <2>1, <2>2, <2>3, <2>4, Zenon DEF Drop
<1>6. CASE Watchdog
  <2>1. CASE DeadlinePasses
    BY <2>1, Zenon DEF DeadlinePasses
  <2>2. CASE WorkerLoop
    BY <2>2, Zenon DEF WorkerLoop
  <2>3. CASE WorkerWake
    BY <2>3, Zenon DEF WorkerWake
  <2>4. CASE WorkerShutdown
    BY <2>4, Zenon DEF WorkerShutdown
  <2> QED BY <1>6, <2>1, <2>2, <2>3, <2>4, Zenon DEF Watchdog
<1>7. CASE Finished \/ UNCHANGED vars
  BY <1>7, Zenon DEF Finished, vars
<1> QED BY <1>1, <1>2, <1>3, <1>4, <1>5, <1>6, <1>7, Zenon DEF Next

(* A shutdown of the socket, done or decided by the watchdog, has a visible *)
(* cause.                                                                   *)
LEMMA CauseStep == TypeThreads /\ LockInv /\ MarkInv /\ FireInv /\ CauseInv /\
     [Next]_vars => CauseInv'
<1> SUFFICES ASSUME TypeThreads, LockInv, MarkInv, FireInv, CauseInv,
     [Next]_vars PROVE CauseInv'
  BY Zenon
<1> USE ThreadsAssumption DEF LockInv, MarkInv, FireInv, TypeThreads,
     MutexInv, PoisonInv, OwnerInv, StateInv, TokenInv, CancelInv, ActiveInv,
     SwapInv, CauseInv, Shutdown, Notified, Fired, At, Armed, Marked,
     InClosure, Operating, Locked, Unlocked, Goto, Begin, Return, threadVars,
     stateVars, watchdogVars, cleanupVars
<1>1. ASSUME NEW t \in Threads, Operation(t) PROVE CauseInv'
  <2>1. CASE Call(t)
    BY <2>1, Zenon DEF Call
  <2>2. CASE Lock(t)
    BY <2>2, Zenon DEF Lock
  <2>3. CASE Poisoned(t)
    BY <2>3, Zenon DEF Poisoned
  <2>4. CASE CheckClosing(t)
    BY <2>4, Zenon DEF CheckClosing
  <2>5. CASE TakeSock(t)
    BY <2>5, Zenon DEF TakeSock
  <2>6. ASSUME NEW timeout \in BOOLEAN, Arm(t, timeout) PROVE CauseInv'
    BY <2>6, Zenon DEF Arm
  <2>7. CASE TakePendingCloses(t)
    BY <2>7, Zenon DEF TakePendingCloses
  <2>8. CASE TakePendingDeallocates(t)
    BY <2>8, Zenon DEF TakePendingDeallocates
  <2>9. CASE Disarm(t)
    BY <2>9, Zenon DEF Disarm
  <2>10. CASE SwapIdle(t)
    BY <2>10, Zenon DEF SwapIdle, Outcome
  <2>11. CASE Install(t)
    BY <2>11, Zenon DEF Install
  <2> QED BY <1>1, <2>1, <2>2, <2>3, <2>4, <2>5, <2>6, <2>7, <2>8, <2>9, Zenon,
       <2>10, <2>11 DEF Operation
<1>2. ASSUME NEW t \in Threads, Closure(t) PROVE CauseInv'
  <2>1. CASE ClosureSend(t)
    BY <2>1, Zenon DEF ClosureSend
  <2>2. ASSUME NEW outcome \in {"Ok", "TimedOut", "Err"}, ClosureReturn(t, outcome) PROVE CauseInv'
    BY <2>2, Zenon DEF ClosureReturn
  <2>3. CASE ClosurePanic(t)
    BY <2>3, Zenon DEF ClosurePanic
  <2> QED BY <1>2, <2>1, <2>2, <2>3, Zenon DEF Closure
<1>3. ASSUME NEW t \in Threads, Interrupt(t) PROVE CauseInv'
  <2>1. CASE Cancel(t)
    BY <2>1, Zenon DEF Cancel
  <2>2. CASE CancelShutdown(t)
    BY <2>2, Zenon DEF CancelShutdown
  <2>3. CASE Close(t)
    BY <2>3, Zenon DEF Close
  <2>4. CASE CloseShutdown(t)
    BY <2>4, Zenon DEF CloseShutdown
  <2>5. CASE CloseTryLock(t)
    BY <2>5, Zenon DEF CloseTryLock
  <2>6. CASE CloseSock(t)
    BY <2>6, Zenon DEF CloseSock
  <2> QED BY <1>3, <2>1, <2>2, <2>3, <2>4, <2>5, <2>6, Zenon DEF Interrupt
<1>4. ASSUME NEW t \in Threads, Cleanup(t) PROVE CauseInv'
  <2>1. ASSUME NEW ids \in SUBSET Ids \ {{}}, TryQueueCloses(t, ids) PROVE CauseInv'
    BY <2>1, SMTT(30) DEF TryQueueCloses, TryQueue
  <2>2. ASSUME NEW id \in Ids, TryQueueDeallocate(t, id) PROVE CauseInv'
    BY <2>2 DEF TryQueueDeallocate, TryQueue
  <2>3. CASE AddCloses(t)
    BY <2>3, Zenon DEF AddCloses
  <2>4. CASE AddDeallocate(t)
    BY <2>4, Zenon DEF AddDeallocate
  <2>5. CASE PushCloses(t)
    BY <2>5, Zenon DEF PushCloses
  <2>6. CASE PushDeallocate(t)
    BY <2>6, Zenon DEF PushDeallocate
  <2> QED BY <1>4, <2>1, <2>2, <2>3, <2>4, <2>5, <2>6, Zenon DEF Cleanup
<1>5. ASSUME NEW t \in Threads, Drop(t) PROVE CauseInv'
  <2>1. CASE DropHandle(t)
    BY <2>1, Zenon DEF DropHandle
  <2>2. CASE DropArc(t)
    BY <2>2 DEF DropArc
  <2>3. CASE DropWatchdog(t)
    BY <2>3, Zenon DEF DropWatchdog
  <2>4. CASE Join(t)
    BY <2>4, Zenon DEF Join
  <2> QED BY <1>5, <2>1, <2>2, <2>3, <2>4, Zenon DEF Drop
<1>6. CASE Watchdog
  <2>1. CASE DeadlinePasses
    BY <2>1, Zenon DEF DeadlinePasses
  <2>2. CASE WorkerLoop
    BY <2>2, Zenon DEF WorkerLoop
  <2>3. CASE WorkerWake
    BY <2>3, Zenon DEF WorkerWake
  <2>4. CASE WorkerShutdown
    BY <2>4, Zenon DEF WorkerShutdown
  <2> QED BY <1>6, <2>1, <2>2, <2>3, <2>4, Zenon DEF Watchdog
<1>7. CASE Finished \/ UNCHANGED vars
  BY <1>7, Zenon DEF Finished, vars
<1> QED BY <1>1, <1>2, <1>3, <1>4, <1>5, <1>6, <1>7, Zenon DEF Next

-----------------------------------------------------------------------------
(* The initial state satisfies the inductive invariant.                     *)
LEMMA InitInv == Init => IInv
<1> SUFFICES ASSUME Init PROVE IInv
  OBVIOUS
<1> USE ThreadsAssumption, TokenModAssumption DEF Init
<1>1. TypeThreads
  BY Zenon DEF TypeThreads, Unlocked, Results
<1>2. TypeFlags
  BY Zenon DEF TypeFlags
<1>3. TypeWatchdog /\ TypeCleanup
  BY DEF TypeWatchdog, TypeCleanup
<1>4. LockInv
  BY Zenon DEF LockInv, MutexInv, PoisonInv, OwnerInv, Locked, Operating, InClosure
<1>5. MarkInv
  BY Zenon DEF MarkInv, StateInv, TokenInv, CancelInv
<1>6. SockInv /\ FireInv /\ CauseInv
  BY Zenon DEF SockInv, FireInv, ActiveInv, SwapInv, CauseInv, At
<1>7. DeallocateFalseMeansClosed
  BY Zenon DEF DeallocateFalseMeansClosed
<1> QED BY <1>1, <1>2, <1>3, <1>4, <1>5, <1>6, <1>7, Zenon DEF IInv, TypeOK

(* Every step preserves the inductive invariant.                            *)
LEMMA StepInv == IInv /\ [Next]_vars => IInv'
  BY TypeStep, LockStep, MarkStep, SockStep, FireStep,
     CauseStep, Zenon
     DEF IInv, TypeOK

(* The inductive invariant holds in every reachable state.                  *)
THEOREM Invariance == Spec => []IInv
<1>1. Init => IInv
  BY InitInv, Zenon
<1>2. IInv /\ [Next]_vars => IInv'
  BY StepInv, Zenon
<1> QED BY <1>1, <1>2, PTL DEF Spec

(* Every variable of the connection keeps its type: in particular a         *)
(* watchdog token is never the 0 that means "none fired", although          *)
(* next_token wraps around.                                                 *)
THEOREM TypeCorrect == Spec => []TypeOK
<1>1. IInv => TypeOK
  BY Zenon DEF IInv
<1> QED BY <1>1, Invariance, PTL

(* A connection that the next caller of run_locked will accept has its      *)
(* socket in place and nobody is about to shut it down: whatever            *)
(* interrupted an earlier operation ended the connection as well.           *)
THEOREM OpenUsable == Spec => []OpenIsUsable
<1>1. IInv => OpenIsUsable
  <2> SUFFICES ASSUME IInv, holder = NoThread, ~closing, ~poisoned
               PROVE  /\ sock /\ raw
                      /\ operation_state = "IDLE" /\ active = NoToken
                      /\ worker # "shutdown"
                      /\ \A t \in Threads : pc[t] # "cancel"
    BY Zenon DEF OpenIsUsable
  <2>1. \A labels : ~At(labels)
    BY ThreadsAssumption, Zenon DEF At
  <2>2. sock /\ operation_state = "IDLE" /\ active = NoToken
    BY <2>1, Zenon DEF IInv, SockInv, MarkInv, StateInv, FireInv, ActiveInv
  <2>3. raw /\ worker # "shutdown"
    BY <2>1, <2>2, Zenon DEF IInv, CauseInv, TypeOK, TypeFlags
  <2>4. \A t \in Threads : pc[t] # "cancel"
    BY <2>2, Zenon DEF IInv, MarkInv, CancelInv
  <2> QED BY <2>2, <2>3, <2>4, Zenon
<1> QED BY <1>1, Invariance, PTL

(* A shutdown seen by a running operation, or on its way while it runs, was *)
(* meant for it: the operation itself was cancelled or ran out of time, or  *)
(* the whole connection is closing.                                         *)
THEOREM InterruptsHit == Spec => []InterruptsHitTheirOperation
<1>1. IInv => InterruptsHitTheirOperation
  <2> SUFFICES ASSUME IInv, NEW t \in Threads, pc[t] \in Operating, ~closing,
                      \/ ~raw \/ worker = "shutdown"
                      \/ \E u \in Threads : pc[u] = "cancel"
               PROVE  operation_state = "CANCELLED" \/ Fired(t)
    BY Zenon DEF InterruptsHitTheirOperation
  <2>1. holder = t /\ ~poisoned
    BY Zenon DEF IInv, LockInv, MutexInv, PoisonInv, Locked
  <2>2. CASE ~raw \/ worker = "shutdown"
    BY <2>1, <2>2, Zenon DEF IInv, CauseInv
  <2>3. CASE \E u \in Threads : pc[u] = "cancel"
    BY <2>1, <2>3, Zenon DEF IInv, MarkInv, CancelInv
  <2> QED BY <2>2, <2>3, Zenon
<1> QED BY <1>1, Invariance, PTL

(* try_deallocate returns false only when the connection is over, as its    *)
(* documentation says.                                                      *)
THEOREM DeallocateFalse == Spec => []DeallocateFalseMeansClosed
<1>1. IInv => DeallocateFalseMeansClosed
  BY Zenon DEF IInv
<1> QED BY <1>1, Invariance, PTL

-----------------------------------------------------------------------------
(* Clean-up commands.                                                       *)

(* The commands on the pending lists, and the ones in the hands of threads. *)
Pending == Closes(pending_closes) \cup Releases(pending_deallocates)
Held == UNION {InHand(t) : t \in Threads}
Others(t) == UNION {InHand(s) : s \in Threads \ {t}}

(* No two threads are queueing the same command.                            *)
Parted == \A s, t \in Threads : s # t => InHand(s) \cap InHand(t) = {}

(* What keeps the clean-up commands conserved: the lists are disjoint, and  *)
(* so are the hands that they are filled from.                              *)
CleanupInv == CleanupConserved /\ Parted

(* No ids, no commands; and a close is not a release.                       *)
LEMMA CommandLists ==
  /\ Closes({}) = {} /\ Releases({}) = {}
  /\ \A A, B : Closes(A) \cap Releases(B) = {}
  BY Zenon DEF Closes, Releases

(* Lists of commands grow with the lists of ids.                            *)
LEMMA CommandListsGrow ==
  ASSUME NEW A, NEW B
  PROVE  /\ Closes(A \cup B) = Closes(A) \cup Closes(B)
         /\ Releases(A \cup B) = Releases(A) \cup Releases(B)
  BY Zenon DEF Closes, Releases

(* A command is held by a given thread or by another, never by both.        *)
LEMMA HeldSplits ==
  Parted => \A t \in Threads : Held = Others(t) \cup InHand(t)
                               /\ Others(t) \cap InHand(t) = {}
  BY Zenon DEF Parted, Held, Others

(* A step that changes no thread's hands.                                   *)
LEMMA HandsKept ==
  ASSUME Parted, \A s \in Threads : InHand(s)' = InHand(s)
  PROVE  Held' = Held /\ Parted'
<1>1. Parted'
  BY Zenon DEF Parted
<1>2. ASSUME NEW c PROVE c \in Held' <=> c \in Held
  BY Zenon DEF Held
<1> QED BY <1>1, <1>2, Zenon

(* A step that changes the hands of one thread.                             *)
LEMMA OneHand ==
  ASSUME Parted, NEW t \in Threads, InHand(t)' \cap Others(t) = {},
         \A s \in Threads \ {t} : InHand(s)' = InHand(s)
  PROVE  /\ Parted'
         /\ Held = Others(t) \cup InHand(t) /\ Others(t) \cap InHand(t) = {}
         /\ Held' = Others(t) \cup InHand(t)'
<1>1. Held = Others(t) \cup InHand(t) /\ Others(t) \cap InHand(t) = {}
  BY HeldSplits, Zenon
<1>2. Parted'
  <2> SUFFICES ASSUME NEW s \in Threads, NEW u \in Threads, s # u,
                      NEW c, c \in InHand(s)', c \in InHand(u)'
               PROVE  FALSE
    BY Zenon DEF Parted
  <2>1. CASE s = t
    BY <2>1, Zenon DEF Others
  <2>2. CASE u = t
    BY <2>2, Zenon DEF Others
  <2>3. CASE s # t /\ u # t
    BY <2>3 DEF Parted
  <2> QED BY <2>1, <2>2, <2>3, Zenon
<1>3. ASSUME NEW c PROVE c \in Held' <=> c \in Others(t) \cup InHand(t)'
  BY Zenon DEF Held, Others
<1> QED BY <1>1, <1>2, <1>3, Zenon

(* Every step moves a command from one place to the next, or to none.       *)
LEMMA CleanupStep ==
  TypeThreads /\ TypeCleanup /\ CleanupInv /\ [Next]_vars => CleanupInv'
<1> SUFFICES ASSUME TypeThreads, TypeCleanup, CleanupInv, [Next]_vars
             PROVE  CleanupInv'
  OBVIOUS
<1> DEFINE Lists == <<pending_closes, pending_deallocates, delayed, queued, sent>>
           Conserved == /\ queued = Pending \cup Held \cup delayed \cup sent
                        /\ Pending \cap (Held \cup delayed \cup sent) = {}
                        /\ Held \cap (delayed \cup sent) = {}
                        /\ delayed \cap sent = {}
<1>1. Conserved /\ Parted
  BY Zenon DEF CleanupInv, CleanupConserved, Pending, Held
<1>2. Conserved' /\ Parted' => CleanupInv'
  BY Zenon DEF CleanupInv, CleanupConserved, Pending, Held
<1>3. ASSUME \A s \in Threads : InHand(s)' = InHand(s), UNCHANGED Lists
      PROVE  CleanupInv'
  <2>1. Pending' = Pending /\ Held' = Held /\ Parted'
    BY <1>1, <1>3, HandsKept, Zenon DEF Pending
  <2> QED BY <1>1, <1>2, <1>3, <2>1, Zenon
<1> USE DEF TypeThreads, Goto, Begin, Return, threadVars, stateVars,
     watchdogVars, cleanupVars
<1>4. ASSUME NEW t \in Threads, Operation(t) PROVE CleanupInv'
  <2>1. CASE Call(t)
    BY <1>3, <2>1, Zenon DEF Call, InHand
  <2>2. CASE Lock(t)
    BY <1>3, <2>2, Zenon DEF Lock, InHand
  <2>3. CASE Poisoned(t)
    BY <1>3, <2>3, Zenon DEF Poisoned, InHand
  <2>4. CASE CheckClosing(t)
    BY <1>3, <2>4 DEF CheckClosing, InHand
  <2>5. CASE TakeSock(t)
    BY <1>3, <2>5 DEF TakeSock, InHand
  <2>6. ASSUME NEW timeout \in BOOLEAN, Arm(t, timeout) PROVE CleanupInv'
    BY <1>3, <2>6, Zenon DEF Arm, InHand
  <2>7. CASE TakePendingCloses(t)
    <3>1. \A s \in Threads : InHand(s)' = InHand(s)
      BY <2>7, Zenon DEF TakePendingCloses, InHand
    <3>2. Held' = Held /\ Parted'
      BY <1>1, <3>1, HandsKept, Zenon
    <3>3. /\ Pending' = Releases(pending_deallocates)
          /\ Closes(pending_closes) \cap Releases(pending_deallocates) = {}
      BY <2>7, CommandLists, Zenon DEF TakePendingCloses, Pending
    <3>4. /\ delayed' = delayed \cup Closes(pending_closes)
          /\ queued' = queued /\ sent' = sent
      BY <2>7, Zenon DEF TakePendingCloses
    <3>5. Conserved'
      BY <1>1, <3>2, <3>3, <3>4, Zenon DEF Pending
    <3> QED BY <1>2, <3>2, <3>5, Zenon
  <2>8. CASE TakePendingDeallocates(t)
    <3>1. \A s \in Threads : InHand(s)' = InHand(s)
      BY <2>8, Zenon DEF TakePendingDeallocates, InHand
    <3>2. Held' = Held /\ Parted'
      BY <1>1, <3>1, HandsKept, Zenon
    <3>3. /\ Pending' = Closes(pending_closes)
          /\ Closes(pending_closes) \cap Releases(pending_deallocates) = {}
      BY <2>8, CommandLists, Zenon DEF TakePendingDeallocates, Pending
    <3>4. /\ delayed' = delayed \cup Releases(pending_deallocates)
          /\ queued' = queued /\ sent' = sent
      BY <2>8, Zenon DEF TakePendingDeallocates
    <3>5. Conserved'
      BY <1>1, <3>2, <3>3, <3>4, Zenon DEF Pending
    <3> QED BY <1>2, <3>2, <3>5, Zenon
  <2>9. CASE Disarm(t)
    BY <1>3, <2>9, Zenon DEF Disarm, InHand
  <2>10. CASE SwapIdle(t)
    BY <1>3, <2>10, Zenon DEF SwapIdle, InHand
  <2>11. CASE Install(t)
    BY <1>3, <2>11, Zenon DEF Install, InHand
  <2> QED BY <1>4, <2>1, <2>2, <2>3, <2>4, <2>5, <2>6, <2>7, <2>8, <2>9,
       <2>10, <2>11, Zenon DEF Operation
<1>5. ASSUME NEW t \in Threads, Closure(t) PROVE CleanupInv'
  <2>1. CASE ClosureSend(t)
    <3>1. \A s \in Threads : InHand(s)' = InHand(s)
      BY <2>1, Zenon DEF ClosureSend, InHand
    <3>2. Held' = Held /\ Parted'
      BY <1>1, <3>1, HandsKept, Zenon
    <3>3. /\ Pending' = Pending /\ queued' = queued
          /\ sent' = sent \cup delayed /\ delayed' = {}
      BY <2>1, Zenon DEF ClosureSend, Pending
    <3>4. Conserved'
      BY <1>1, <3>2, <3>3, Zenon
    <3> QED BY <1>2, <3>2, <3>4, Zenon
  <2>2. ASSUME NEW outcome \in {"Ok", "TimedOut", "Err"}, ClosureReturn(t, outcome)
        PROVE  CleanupInv'
    BY <1>3, <2>2, Zenon DEF ClosureReturn, InClosure, InHand
  <2>3. CASE ClosurePanic(t)
    BY <1>3, <2>3, Zenon DEF ClosurePanic, InClosure, InHand
  <2> QED BY <1>5, <2>1, <2>2, <2>3, Zenon DEF Closure
<1>6. ASSUME NEW t \in Threads, Interrupt(t) PROVE CleanupInv'
  <2>1. CASE Cancel(t)
    BY <1>3, <2>1, Zenon DEF Cancel, InHand
  <2>2. CASE CancelShutdown(t)
    BY <1>3, <2>2, Zenon DEF CancelShutdown, InHand
  <2>3. CASE Close(t)
    BY <1>3, <2>3, Zenon DEF Close, InHand
  <2>4. CASE CloseShutdown(t)
    BY <1>3, <2>4, Zenon DEF CloseShutdown, InHand
  <2>5. CASE CloseTryLock(t)
    BY <1>3, <2>5, Zenon DEF CloseTryLock, InHand
  <2>6. CASE CloseSock(t)
    BY <1>3, <2>6, Zenon DEF CloseSock, InHand
  <2> QED BY <1>6, <2>1, <2>2, <2>3, <2>4, <2>5, <2>6, Zenon DEF Interrupt
<1>7. ASSUME NEW t \in Threads, Cleanup(t) PROVE CleanupInv'
  <2>1. ASSUME NEW commands, commands \cap queued = {}, InHand(t) = {},
               InHand(t)' = commands, queued' = queued \cup commands,
               \A s \in Threads \ {t} : InHand(s)' = InHand(s),
               UNCHANGED <<pending_closes, pending_deallocates, delayed, sent>>
        PROVE  CleanupInv'
    <3>1. InHand(t)' \cap Others(t) = {}
      BY <1>1, <2>1, HeldSplits, Zenon
    <3>2. /\ Parted' /\ Held' = Others(t) \cup InHand(t)'
          /\ Held = Others(t) \cup InHand(t)
      <4> HIDE DEF Conserved
      <4> QED BY ONLY <1>1, <2>1, <3>1, OneHand, Zenon
    <3>3. Pending' = Pending /\ delayed' = delayed /\ sent' = sent
      BY <2>1, Zenon DEF Pending
    <3>4. Conserved'
      BY <1>1, <2>1, <3>2, <3>3, Zenon
    <3> QED BY <1>2, <3>2, <3>4, Zenon
  <2>2. ASSUME NEW ids \in SUBSET Ids \ {{}}, TryQueueCloses(t, ids)
        PROVE  CleanupInv'
    <3>1. InHand(t) = {} /\ InHand(t)' = Closes(ids)
      BY <2>2, Zenon DEF TypeCleanup, TryQueueCloses, TryQueue, InHand
    <3>2. \A s \in Threads \ {t} : InHand(s)' = InHand(s)
      BY <2>2, Zenon DEF TypeCleanup, TryQueueCloses, TryQueue, InHand
    <3> QED BY <2>1, <2>2, <3>1, <3>2, Zenon DEF TryQueueCloses, TryQueue
  <2>3. ASSUME NEW id \in Ids, TryQueueDeallocate(t, id) PROVE CleanupInv'
    <3>1. InHand(t) = {} /\ InHand(t)' = Releases({id})
      BY <2>3, Zenon DEF TypeCleanup, TryQueueDeallocate, TryQueue, InHand
    <3>2. \A s \in Threads \ {t} : InHand(s)' = InHand(s)
      BY <2>3, Zenon DEF TypeCleanup, TryQueueDeallocate, TryQueue, InHand
    <3> QED BY <2>1, <2>3, <3>1, <3>2, Zenon DEF TryQueueDeallocate, TryQueue
  <2>4. ASSUME pc' = [pc EXCEPT ![t] = "idle"], hand' = [hand EXCEPT ![t] = {}]
        PROVE  /\ Parted' /\ Held' = Others(t)
               /\ Held = Others(t) \cup InHand(t) /\ Others(t) \cap InHand(t) = {}
    <3>1. InHand(t)' = {}
      BY <2>4, Zenon DEF InHand
    <3>2. \A s \in Threads \ {t} : InHand(s)' = InHand(s)
      BY <2>4, Zenon DEF TypeCleanup, InHand
    <3>3. InHand(t)' \cap Others(t) = {}
      BY <3>1, Zenon
    <3>4. /\ Parted' /\ Held' = Others(t) \cup InHand(t)'
          /\ Held = Others(t) \cup InHand(t) /\ Others(t) \cap InHand(t) = {}
      <4> HIDE DEF Conserved
      <4> QED BY ONLY <1>1, <3>2, <3>3, OneHand, Zenon
    <3> QED BY <3>1, <3>4, Zenon
  <2>5. CASE AddCloses(t)
    <3>1. InHand(t) = Closes(hand[t])
      BY <2>5, Zenon DEF AddCloses, InHand
    <3>2. /\ Parted' /\ Held' = Others(t)
          /\ Held = Others(t) \cup InHand(t) /\ Others(t) \cap InHand(t) = {}
      BY <2>4, <2>5, Zenon DEF AddCloses
    <3>3. /\ Pending' = Pending /\ queued' = queued /\ sent' = sent
          /\ delayed' = delayed \cup InHand(t)
      BY <2>5, <3>1, Zenon DEF AddCloses, Pending
    <3>4. Conserved'
      BY <1>1, <3>2, <3>3, Zenon
    <3> QED BY <1>2, <3>2, <3>4, Zenon
  <2>6. CASE AddDeallocate(t)
    <3>1. InHand(t) = Releases(hand[t])
      BY <2>6, Zenon DEF AddDeallocate, InHand
    <3>2. /\ Parted' /\ Held' = Others(t)
          /\ Held = Others(t) \cup InHand(t) /\ Others(t) \cap InHand(t) = {}
      BY <2>4, <2>6, Zenon DEF AddDeallocate
    <3>3. /\ Pending' = Pending /\ sent' = sent
          /\ \/ queued' = queued /\ delayed' = delayed \cup InHand(t)
             \/ queued' = queued \ InHand(t) /\ delayed' = delayed
      BY <2>6, <3>1, Zenon DEF AddDeallocate, Pending
    <3>4. Conserved'
      BY <1>1, <3>2, <3>3, Zenon
    <3> QED BY <1>2, <3>2, <3>4, Zenon
  <2>7. CASE PushCloses(t)
    <3>1. InHand(t) = Closes(hand[t])
      BY <2>7, Zenon DEF PushCloses, InHand
    <3>2. /\ Parted' /\ Held' = Others(t)
          /\ Held = Others(t) \cup InHand(t) /\ Others(t) \cap InHand(t) = {}
      BY <2>4, <2>7, Zenon DEF PushCloses
    <3>3. /\ pending_closes' = pending_closes \cup hand[t]
          /\ pending_deallocates' = pending_deallocates
          /\ queued' = queued /\ sent' = sent /\ delayed' = delayed
      BY ONLY <2>7, Zenon DEF PushCloses, Extended
    <3>4. Pending' = Pending \cup InHand(t)
      <4>1. Closes(pending_closes \cup hand[t]) = Closes(pending_closes) \cup Closes(hand[t])
        BY ONLY CommandListsGrow, Zenon
      <4>2. Pending' = Closes(pending_closes \cup hand[t]) \cup Releases(pending_deallocates)
        BY ONLY <3>3, Zenon DEF Pending
      <4> QED BY ONLY <3>1, <4>1, <4>2, Zenon DEF Pending
    <3>5. Conserved'
      BY <1>1, <3>2, <3>3, <3>4, Zenon
    <3> QED BY <1>2, <3>2, <3>5, Zenon
  <2>8. CASE PushDeallocate(t)
    <3>1. InHand(t) = Releases(hand[t])
      BY <2>8, Zenon DEF PushDeallocate, InHand
    <3>2. /\ Parted' /\ Held' = Others(t)
          /\ Held = Others(t) \cup InHand(t) /\ Others(t) \cap InHand(t) = {}
      BY <2>4, <2>8, Zenon DEF PushDeallocate
    <3>3. /\ pending_deallocates' = pending_deallocates \cup hand[t]
          /\ pending_closes' = pending_closes
          /\ queued' = queued /\ sent' = sent /\ delayed' = delayed
      BY ONLY <2>8, Zenon DEF PushDeallocate, Extended
    <3>4. Pending' = Pending \cup InHand(t)
      <4>1. Releases(pending_deallocates \cup hand[t]) = Releases(pending_deallocates) \cup Releases(hand[t])
        BY ONLY CommandListsGrow, Zenon
      <4>2. Pending' = Closes(pending_closes) \cup Releases(pending_deallocates \cup hand[t])
        BY <3>3, Zenon DEF Pending
      <4> QED BY ONLY <3>1, <4>1, <4>2, Zenon DEF Pending
    <3>5. Conserved'
      BY <1>1, <3>2, <3>3, <3>4, Zenon
    <3> QED BY <1>2, <3>2, <3>5, Zenon
  <2> QED BY <1>7, <2>2, <2>3, <2>5, <2>6, <2>7, <2>8, Zenon DEF Cleanup
<1>8. ASSUME NEW t \in Threads, Drop(t) PROVE CleanupInv'
  <2>1. CASE DropHandle(t)
    BY <1>3, <2>1, Zenon DEF DropHandle, InHand
  <2>2. CASE DropArc(t)
    BY <1>3, <2>2, Zenon DEF DropArc, InHand
  <2>3. CASE DropWatchdog(t)
    BY <1>3, <2>3, Zenon DEF DropWatchdog, InHand
  <2>4. CASE Join(t)
    BY <1>3, <2>4, Zenon DEF Join, InHand
  <2> QED BY <1>8, <2>1, <2>2, <2>3, <2>4, Zenon DEF Drop
<1>9. CASE Watchdog
  BY <1>3, <1>9, Zenon DEF Watchdog, DeadlinePasses, WorkerLoop, WorkerWake,
       WorkerShutdown, InHand
<1>10. CASE Finished \/ UNCHANGED vars
  BY <1>3, <1>10, Zenon DEF Finished, vars, InHand
<1> QED BY <1>4, <1>5, <1>6, <1>7, <1>8, <1>9, <1>10, Zenon DEF Next

(* A clean-up command that a dropped result set or prepared statement has   *)
(* queued is in one place until it is sent: whatever other threads do with  *)
(* the mutex, the pending lists and the delayed buffer meanwhile, none is   *)
(* lost and none is sent twice.                                             *)
THEOREM CleanupIsConserved == Spec => []CleanupConserved
<1>1. Init => CleanupInv
  <2> SUFFICES ASSUME Init PROVE CleanupInv
    OBVIOUS
  <2>1. \A t \in Threads : InHand(t) = {}
    BY Zenon DEF Init, InHand
  <2>2. Closes(pending_closes) = {} /\ Releases(pending_deallocates) = {}
    BY CommandLists, Zenon DEF Init
  <2> QED BY <2>1, <2>2, Zenon DEF Init, CleanupInv, CleanupConserved, Parted
<1>2. TypeOK /\ CleanupInv /\ [Next]_vars => CleanupInv'
  BY CleanupStep, Zenon DEF TypeOK
<1>3. CleanupInv => CleanupConserved
  BY Zenon DEF CleanupInv
<1> QED BY <1>1, <1>2, <1>3, TypeCorrect, PTL DEF Spec

-----------------------------------------------------------------------------
(* The connection implements Lifecycle: one operation at a time, no success *)
(* for an interrupted operation, and no operation on a connection on which  *)
(* one has failed.                                                          *)
THEOREM Refinement == Spec => ImplementsLifecycle
<1>1. Init => Abstract!Init
  BY ThreadsAssumption, Zenon DEF Init, Abstract!Init, User, Interrupted, At
<1>2. IInv /\ [Next]_vars => [Abstract!Next]_(Abstract!vars)
  BY RefinementStep, Zenon
<1> QED BY <1>1, <1>2, Invariance, PTL DEF Spec, Abstract!Spec, ImplementsLifecycle
=============================================================================
