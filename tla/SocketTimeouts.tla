--------------------------- MODULE SocketTimeouts ---------------------------
(***************************************************************************)
(* The timeouts of a ServerSock of src/framing/mod.rs: ActiveTimeouts,     *)
(* the socket options that follow them, the cache of what was set last,    *)
(* and the read buffer, in reads and writes of any number of operations.   *)
(*                                                                         *)
(* Time is discrete.  A deadline is the time left until it; below 0 it has *)
(* passed.                                                                 *)
(***************************************************************************)
EXTENDS Integers, FiniteSetsExt

CONSTANTS
  None,        \* Option::None
  MaxTimeout,  \* MAX_TIMEOUT
  Durations,   \* bound: timeouts that callers ask for
  MaxBuffered  \* bound: READ_BUFFER_SIZE

ASSUME SocketTimeoutsAssumption ==
  /\ MaxTimeout \in Nat \ {0} /\ MaxBuffered \in Nat \ {0}
  /\ Durations \subseteq Nat /\ None \notin Int

VARIABLES
  pc,        \* "idle", in an operation: "running", "read", "write"; "closed"
  active,    \* ActiveTimeouts
  option,    \* SO_RCVTIMEO and SO_SNDTIMEO
  last,      \* last_read_timeout, last_write_timeout; {} before the first
  buffered,  \* bytes of the read buffer not yet taken
  left,      \* of the timer of the call that waits
  waited,    \* how long it has waited, as far as a timeout can tell
  result     \* of the last call that waited or would have

vars == <<pc, active, option, last, buffered, left, waited, result>>
socket == <<option, last, buffered>>

-----------------------------------------------------------------------------
Optional(S) == S \cup {None}
Timeouts == [read : Optional(Durations), write : Optional(Durations),
             operation : Optional(Durations)]

Bounded(timeout) == IF timeout = None THEN None ELSE Min({timeout, MaxTimeout})

ActiveNew(timeouts) ==
  [read |-> Bounded(timeouts.read), write |-> Bounded(timeouts.write),
   deadline |-> Bounded(timeouts.operation)]
ForConnection(timeouts, deadline) ==
  [read |-> Bounded(timeouts.read), write |-> Bounded(timeouts.write), deadline |-> deadline]

(* ActiveTimeouts::limit of a direction.                                    *)
IdleOnly(direction) == {active[direction]} \ {None}
Limits(direction) == {active[direction], active.deadline} \ {None}
Expired == active.deadline # None /\ active.deadline <= 0
Limit(direction) == IF Limits(direction) = {} THEN None ELSE Min(Limits(direction))
TooLong(direction) == Limit(direction) # None /\ Limit(direction) > MaxTimeout

TimeoutActive(direction) == Limits(direction) # {}
NormalizeTimeout(error, direction) ==
  IF error = "WouldBlock" /\ TimeoutActive(direction) THEN "TimedOut" ELSE error

-----------------------------------------------------------------------------
(* start_operation, and the end of an operation.                            *)
StartOperation(timeouts) ==
  /\ pc = "idle"
  /\ active' = ActiveNew(timeouts)
  /\ pc' = "running"
  /\ UNCHANGED <<socket, left, waited, result>>

EndOperation ==
  /\ pc = "running"
  /\ pc' = "idle"
  /\ UNCHANGED <<active, socket, left, waited, result>>

(* set_connection_deadline, when the login is complete.                     *)
SetConnectionDeadline(timeouts) ==
  /\ pc = "running"
  /\ active' = ForConnection(timeouts, None)
  /\ pc' = "idle"
  /\ UNCHANGED <<socket, left, waited, result>>

Fails(error) ==
  /\ pc' = "closed"
  /\ result' = error
  /\ UNCHANGED <<active, buffered, left>>

(* A call that needs the socket: the option is set unless the cache says    *)
(* that it has this value, and setting it can fail, always for 0.           *)
CacheUpToDate(direction) == last[direction] # {}
OptionIsSet(direction) == last[direction] = {Limit(direction)}

Begin(direction) ==
  /\ waited' = 0
  /\ IF Expired THEN Fails("TimedOut") /\ UNCHANGED <<option, last>>
     ELSE IF TooLong(direction) \/ (~OptionIsSet(direction) /\ Limit(direction) = 0)
       THEN Fails("InvalidInput") /\ UNCHANGED <<option, last>>
     ELSE /\ pc' = direction
          /\ IF OptionIsSet(direction) THEN UNCHANGED <<option, last>>
             ELSE /\ option' = [option EXCEPT ![direction] = Limit(direction)]
                  /\ last' = [last EXCEPT ![direction] = {Limit(direction)}]
          /\ left' = option'[direction]
          /\ UNCHANGED <<active, buffered, result>>

CannotSet(direction) ==
  /\ ~Expired /\ ~OptionIsSet(direction)
  /\ waited' = 0 /\ Fails("Other") /\ UNCHANGED <<option, last>>

(* read: buffered bytes are returned without a look at the time.            *)
TakeBuffered ==
  /\ pc = "running" /\ buffered > 0
  /\ \E n \in 1 .. buffered : buffered' = buffered - n
  /\ UNCHANGED <<pc, active, option, last, left, waited, result>>
Read == pc = "running" /\ buffered = 0 /\ (Begin("read") \/ CannotSet("read"))

(* write, write_vectored and flush.                                         *)
Write == pc = "running" /\ (Begin("write") \/ CannotSet("write"))

Waiting == pc \in {"read", "write"}

(* Bytes come or go, or a signal interrupts the call and it is made again.  *)
Proceeds ==
  /\ Waiting
  /\ pc' = "running"
  /\ left' = None /\ result' = "ok"
  /\ IF pc = "read" THEN \E n \in 1 .. MaxBuffered : buffered' = n - 1 ELSE UNCHANGED buffered
  /\ UNCHANGED <<active, option, last, waited>>
Interrupted ==
  /\ Waiting
  /\ pc' = "running"
  /\ left' = None /\ result' = "Interrupted"
  /\ UNCHANGED <<active, socket, waited>>

(* The timer of the option runs out; or the call fails, for one because     *)
(* another thread shut the socket down.                                     *)
TimerFires ==
  /\ Waiting /\ left = 0
  /\ Fails(NormalizeTimeout("WouldBlock", pc))
  /\ UNCHANGED <<option, last, waited>>
Breaks ==
  /\ Waiting
  /\ Fails("Other")
  /\ UNCHANGED <<option, last, waited>>

(* Time passes; timers are on time.                                         *)
Elapse(t) == IF t = None THEN None ELSE Max({t - 1, -1})
Tick ==
  /\ ~(Waiting /\ left = 0) /\ pc # "closed"
  /\ active' = [active EXCEPT !.deadline = Elapse(@)]
  /\ left' = IF Waiting THEN Elapse(left) ELSE left
  /\ waited' = IF Waiting THEN Min({waited + 1, MaxTimeout + 1}) ELSE waited
  /\ UNCHANGED <<pc, socket, result>>

-----------------------------------------------------------------------------
(* from_tcp and from_unix: a socket for a login.                            *)
Init ==
  /\ pc = "running"
  /\ \E timeouts \in Timeouts, deadline \in Optional(1 .. MaxTimeout) :
       active = ForConnection(timeouts, deadline)
  /\ option = [read |-> None, write |-> None]
  /\ last = [read |-> {}, write |-> {}]
  /\ buffered = 0 /\ left = None /\ waited = 0 /\ result = "ok"

Calls == Read \/ Write \/ TakeBuffered
Next ==
  \/ \E timeouts \in Timeouts : StartOperation(timeouts) \/ SetConnectionDeadline(timeouts)
  \/ EndOperation \/ Calls \/ Proceeds \/ Interrupted \/ TimerFires \/ Breaks \/ Tick

Spec == Init /\ [][Next]_vars

(* Clock and timers run, and an operation that is not over makes calls.     *)
FairSpec == Spec /\ WF_vars(Tick) /\ WF_vars(TimerFires) /\ WF_vars(Calls)

-----------------------------------------------------------------------------
(* Properties.                                                              *)

(* Every field keeps its range: timeouts are bounded by MAX_TIMEOUT.        *)
TypeOK ==
  /\ pc \in {"idle", "running", "read", "write", "closed"}
  /\ active \in [read : Optional(0 .. MaxTimeout), write : Optional(0 .. MaxTimeout),
                 deadline : Optional(-1 .. MaxTimeout)]
  /\ option \in [read : Optional(0 .. MaxTimeout), write : Optional(0 .. MaxTimeout)]
  /\ last \in [read : SUBSET Optional(0 .. MaxTimeout), write : SUBSET Optional(0 .. MaxTimeout)]
  /\ buffered \in 0 .. MaxBuffered
  /\ left \in Optional(-1 .. MaxTimeout) /\ waited \in 0 .. MaxTimeout + 1
  /\ result \in {"ok", "Interrupted", "TimedOut", "InvalidInput", "Other"}

(* Whatever the operations before it left in the socket options and in the  *)
(* cache, no call waits longer than its idle timeout or past the deadline;  *)
(* one that reports a timeout has reached either; the error that the system *)
(* gives for an option never reaches the caller; and InvalidInput is        *)
(* reported for a timeout of 0 only, not for one that is too long.          *)
TimeoutsAreExact ==
  /\ Waiting => /\ active[pc] # None => waited <= active[pc]
                /\ active.deadline # None => active.deadline >= 0
                /\ active.deadline = None /\ active[pc] = None => left = None
  /\ result = "TimedOut" =>
       \/ Expired
       \/ \E direction \in {"read", "write"} :
            active[direction] # None /\ waited >= active[direction]
  /\ result # "WouldBlock"
  /\ result = "InvalidInput" => 0 \in {active.read, active.write}

(* With a deadline an operation ends, also when the server sends a byte     *)
(* whenever the idle timeout is about to end the wait.                      *)
DeadlineEndsOperation ==
  active.deadline # None ~> pc \in {"idle", "closed"} \/ active.deadline = None
=============================================================================
