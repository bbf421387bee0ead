------------------------ MODULE SocketTimeoutsProofs ------------------------
(***************************************************************************)
(* TimeoutsAreExact of the module SocketTimeouts, for every longest        *)
(* timeout, every set of timeouts that callers ask for and every size of   *)
(* the read buffer.                                                        *)
(*                                                                         *)
(* The argument.  What the cache says of a socket option is true           *)
(* (CacheInv), so a call that waits started with the timer of its own      *)
(* limit, whichever operation set the option.  From then on the time left  *)
(* of the timer and the time waited add up to the idle timeout, or the     *)
(* time left is that of the deadline (WaitInv).  Errors end the connection *)
(* and with it the clock, so that their cause stays visible (ErrorInv).    *)
(***************************************************************************)
EXTENDS SocketTimeouts, TLAPS

Directions == {"read", "write"}

(* The cache is empty or holds the value of the option.                     *)
CacheInv == \A direction \in Directions : last[direction] \in {{}, {option[direction]}}

(* The timer of a call that waits ends with the idle timeout or with the    *)
(* deadline, whichever comes first.                                         *)
WaitInv ==
  Waiting =>
    /\ left = None <=> active[pc] = None /\ active.deadline = None
    /\ left # None =>
         /\ left >= 0
         /\ active[pc] # None => waited + left <= active[pc]
         /\ active.deadline # None => left <= active.deadline
         /\ \/ active[pc] # None /\ waited + left = active[pc]
            \/ active.deadline # None /\ left = active.deadline

(* An error that is not an interrupt closes the connection.                 *)
ErrorInv ==
  /\ result \notin {"ok", "Interrupted"} => pc = "closed"
  /\ result = "TimedOut" =>
       \/ Expired
       \/ \E direction \in Directions :
            active[direction] # None /\ waited >= active[direction]
  /\ result = "InvalidInput" => 0 \in {active.read, active.write}

IInv == TypeOK /\ CacheInv /\ WaitInv /\ ErrorInv

-----------------------------------------------------------------------------
(* Lemmas about the operators.                                              *)

(* The least element of a set of integers that has one.                     *)
LEMMA MinIs ==
  ASSUME NEW S \in SUBSET Int, NEW x \in S, \A y \in S : x <= y
  PROVE  Min(S) = x
<1>1. \E m \in S : \A y \in S : m <= y
  OBVIOUS
<1>2. Min(S) \in S /\ \A y \in S : Min(S) <= y
  BY <1>1, Zenon DEF Min
<1>3. Min(S) <= x /\ x <= Min(S) /\ Min(S) \in Int /\ x \in Int
  BY <1>2
<1> QED BY <1>3

(* The greatest element of a set of integers that has one.                  *)
LEMMA MaxIs ==
  ASSUME NEW S \in SUBSET Int, NEW x \in S, \A y \in S : x >= y
  PROVE  Max(S) = x
<1>1. \E m \in S : \A y \in S : m >= y
  OBVIOUS
<1>2. Max(S) \in S /\ \A y \in S : Max(S) >= y
  BY <1>1, Zenon DEF Max
<1>3. Max(S) <= x /\ x <= Max(S) /\ Max(S) \in Int /\ x \in Int
  BY <1>2
<1> QED BY <1>3

(* The lesser of two numbers.                                               *)
LEMMA MinPair ==
  ASSUME NEW a \in Int, NEW b \in Int
  PROVE  Min({a, b}) = IF a <= b THEN a ELSE b
<1>1. CASE a <= b
  BY <1>1, MinIs
<1>2. CASE ~(a <= b)
  BY <1>2, MinIs
<1> QED BY <1>1, <1>2

(* A timeout is cut at MAX_TIMEOUT.                                         *)
LEMMA BoundedType ==
  ASSUME NEW t \in Optional(Durations)
  PROVE  Bounded(t) \in Optional(0 .. MaxTimeout)
BY SocketTimeoutsAssumption, MinPair DEF Bounded, Optional

(* A tick takes one from the time left, and stops at -1.                    *)
LEMMA ElapseIs ==
  ASSUME NEW t \in Optional(-1 .. MaxTimeout)
  PROVE  /\ Elapse(t) \in Optional(-1 .. MaxTimeout)
         /\ t = None => Elapse(t) = None
         /\ t # None => Elapse(t) = IF t = -1 THEN -1 ELSE t - 1
<1> USE SocketTimeoutsAssumption DEF Optional, Elapse
<1>1. CASE t = None
  BY <1>1
<1>2. CASE t = -1
  BY <1>2, MaxIs
<1>3. CASE t \in 0 .. MaxTimeout
  BY <1>3, MaxIs
<1> QED BY <1>1, <1>2, <1>3

(* limit is the lesser of idle timeout and deadline, as far as there are    *)
(* any, and with a deadline that has not passed it fits MAX_TIMEOUT.        *)
LEMMA LimitIs ==
  ASSUME TypeOK, ~Expired, NEW direction \in Directions
  PROVE  /\ Limit(direction) \in Optional(0 .. MaxTimeout)
         /\ Limit(direction) = None <=>
              active[direction] = None /\ active.deadline = None
         /\ Limit(direction) # None =>
              /\ active[direction] # None => Limit(direction) <= active[direction]
              /\ active.deadline # None => Limit(direction) <= active.deadline
              /\ \/ active[direction] # None /\ Limit(direction) = active[direction]
                 \/ active.deadline # None /\ Limit(direction) = active.deadline
<1> DEFINE idle == active[direction]
           deadline == active.deadline
<1>0. idle \in Optional(0 .. MaxTimeout) /\ deadline \in Optional(1 .. MaxTimeout)
  BY DEF TypeOK, Directions, Expired, Optional
<1> USE SocketTimeoutsAssumption DEF Optional
<1>1. CASE idle = None /\ deadline = None
  BY <1>1 DEF Limit, Limits
<1>2. CASE idle # None /\ deadline = None
  <2>1. Limits(direction) = {idle}
    BY <1>2 DEF Limits
  <2>2. Limit(direction) = idle
    BY <1>0, <1>2, <2>1, MinIs DEF Limit
  <2> QED BY <1>0, <1>2, <2>2
<1>3. CASE idle = None /\ deadline # None
  <2>1. Limits(direction) = {deadline}
    BY <1>3 DEF Limits
  <2>2. Limit(direction) = deadline
    BY <1>0, <1>3, <2>1, MinIs DEF Limit
  <2> QED BY <1>0, <1>3, <2>2
<1>4. CASE idle # None /\ deadline # None
  <2>1. Limits(direction) = {idle, deadline}
    BY <1>4 DEF Limits
  <2> QED BY <1>0, <1>4, <2>1, MinPair DEF Limit
<1> QED BY <1>1, <1>2, <1>3, <1>4

-----------------------------------------------------------------------------
(* No call waits yet, and no option is set.                                 *)
LEMMA InitIInv == Init => IInv
<1> SUFFICES ASSUME Init PROVE IInv
  OBVIOUS
<1> USE SocketTimeoutsAssumption DEF Init
<1>1. PICK timeouts \in Timeouts, deadline \in Optional(1 .. MaxTimeout) :
        active = ForConnection(timeouts, deadline)
  OBVIOUS
<1>2. active \in [read : Optional(0 .. MaxTimeout), write : Optional(0 .. MaxTimeout),
                  deadline : Optional(-1 .. MaxTimeout)]
  <2>1. /\ Bounded(timeouts.read) \in Optional(0 .. MaxTimeout)
        /\ Bounded(timeouts.write) \in Optional(0 .. MaxTimeout)
    BY BoundedType DEF Timeouts
  <2> QED BY <1>1, <2>1 DEF ForConnection, Optional
<1>3. TypeOK
  BY <1>2 DEF TypeOK, Optional
<1>4. CacheInv /\ WaitInv /\ ErrorInv
  BY DEF CacheInv, WaitInv, ErrorInv, Waiting, Directions
<1> QED BY <1>3, <1>4 DEF IInv

(* A new operation changes the limits while no call waits.                  *)
LEMMA OperationStep ==
  ASSUME IInv,
         \/ \E timeouts \in Timeouts :
              StartOperation(timeouts) \/ SetConnectionDeadline(timeouts)
         \/ EndOperation
  PROVE  IInv'
<1> USE SocketTimeoutsAssumption DEF IInv
<1>1. /\ UNCHANGED <<socket, left, waited, result>>
      /\ pc \in {"idle", "running"} /\ pc' \in {"idle", "running"}
  BY DEF StartOperation, SetConnectionDeadline, EndOperation
<1>2. active' \in [read : Optional(0 .. MaxTimeout), write : Optional(0 .. MaxTimeout),
                   deadline : Optional(-1 .. MaxTimeout)]
  <2>1. ASSUME NEW timeouts \in Timeouts,
               StartOperation(timeouts) \/ SetConnectionDeadline(timeouts)
        PROVE  active' \in [read : Optional(0 .. MaxTimeout), write : Optional(0 .. MaxTimeout),
                            deadline : Optional(-1 .. MaxTimeout)]
    <3>1. /\ Bounded(timeouts.read) \in Optional(0 .. MaxTimeout)
          /\ Bounded(timeouts.write) \in Optional(0 .. MaxTimeout)
          /\ Bounded(timeouts.operation) \in Optional(0 .. MaxTimeout)
      BY BoundedType DEF Timeouts
    <3> QED BY <2>1, <3>1 DEF StartOperation, SetConnectionDeadline, ActiveNew, ForConnection,
         Optional
  <2>2. CASE EndOperation
    BY <2>2 DEF EndOperation, TypeOK
  <2> QED BY <2>1, <2>2
<1>3. TypeOK'
  BY <1>1, <1>2 DEF TypeOK, socket
<1>4. CacheInv'
  BY <1>1 DEF CacheInv, socket
<1>5. WaitInv' /\ ErrorInv'
  BY <1>1 DEF WaitInv, ErrorInv, Waiting
<1> QED BY <1>3, <1>4, <1>5

(* A call that fails leaves a closed connection and limits that show why.   *)
LEMMA FailStep ==
  ASSUME IInv, NEW error \in {"TimedOut", "InvalidInput", "Other"}, Fails(error),
         UNCHANGED <<option, last>>, waited' \in 0 .. MaxTimeout + 1,
         error = "TimedOut" =>
           \/ Expired
           \/ \E direction \in Directions :
                active[direction] # None /\ waited' >= active[direction],
         error = "InvalidInput" => 0 \in {active.read, active.write}
  PROVE  IInv'
<1> USE DEF IInv, Fails
<1>1. TypeOK'
  BY DEF TypeOK
<1>2. CacheInv' /\ WaitInv'
  BY DEF CacheInv, WaitInv, Waiting
<1>3. ErrorInv'
  BY DEF ErrorInv, Expired
<1> QED BY <1>1, <1>2, <1>3

(* A call that begins: the option has the value of the limit, newly set or  *)
(* because the cache is right.                                              *)
LEMMA BeginStep ==
  ASSUME IInv, NEW direction \in Directions, pc = "running",
         Begin(direction) \/ CannotSet(direction)
  PROVE  IInv'
<1> USE SocketTimeoutsAssumption DEF IInv
<1>0. waited' = 0 /\ 0 \in 0 .. MaxTimeout + 1
  BY DEF Begin, CannotSet
<1>1. CASE CannotSet(direction)
  BY <1>0, <1>1, FailStep DEF CannotSet
<1>2. CASE Begin(direction) /\ Expired
  BY <1>0, <1>2, FailStep DEF Begin
<1>3. CASE Begin(direction) /\ ~Expired
  <2>1. ~TooLong(direction)
    BY <1>3, LimitIs DEF TooLong, Optional
  <2>2. CASE ~OptionIsSet(direction) /\ Limit(direction) = 0
    <3>1. active[direction] = 0
      BY <1>3, <2>2, LimitIs DEF Expired, TypeOK, Optional
    <3>2. 0 \in {active.read, active.write}
      BY <3>1 DEF Directions
    <3> QED BY <1>0, <1>3, <2>2, <3>2, FailStep DEF Begin
  <2>3. CASE OptionIsSet(direction) \/ Limit(direction) # 0
    <3>1. /\ pc' = direction /\ left' = option'[direction]
          /\ UNCHANGED <<active, buffered, result>>
          /\ IF OptionIsSet(direction) THEN UNCHANGED <<option, last>>
             ELSE /\ option' = [option EXCEPT ![direction] = Limit(direction)]
                  /\ last' = [last EXCEPT ![direction] = {Limit(direction)}]
      BY <1>3, <2>1, <2>3 DEF Begin
    <3>2. Limit(direction) \in Optional(0 .. MaxTimeout)
      BY <1>3, LimitIs
    <3>3. /\ option' \in [read : Optional(0 .. MaxTimeout), write : Optional(0 .. MaxTimeout)]
          /\ last' \in [read : SUBSET Optional(0 .. MaxTimeout),
                        write : SUBSET Optional(0 .. MaxTimeout)]
      BY <3>1, <3>2 DEF TypeOK, Directions
    <3>4. CacheInv'
      BY <3>1 DEF CacheInv, TypeOK, Directions
    <3>5. left' = Limit(direction)
      BY <3>1 DEF OptionIsSet, CacheInv, TypeOK, Directions
    <3>6. TypeOK'
      BY <1>0, <3>1, <3>2, <3>3, <3>5 DEF TypeOK, Directions, Optional
    <3>7. WaitInv'
      BY <1>0, <1>3, <3>1, <3>2, <3>5, LimitIs DEF WaitInv, Waiting, TypeOK, Optional, Directions
    <3>8. ErrorInv'
      BY <3>1 DEF ErrorInv, Directions
    <3> QED BY <3>4, <3>6, <3>7, <3>8
  <2> QED BY <2>2, <2>3
<1> QED BY <1>1, <1>2, <1>3

(* The kernel ends a wait: with bytes, with an interrupt, with an error.    *)
LEMMA WakeStep ==
  ASSUME IInv, Proceeds \/ Interrupted \/ TimerFires \/ Breaks
  PROVE  IInv'
<1> USE SocketTimeoutsAssumption DEF IInv
<1>1. CASE Proceeds \/ Interrupted
  <2>1. /\ pc' = "running" /\ left' = None /\ result' \in {"ok", "Interrupted"}
        /\ UNCHANGED <<active, option, last, waited>>
    BY <1>1 DEF Proceeds, Interrupted, socket
  <2>2. buffered' \in 0 .. MaxBuffered
    BY <1>1 DEF Proceeds, Interrupted, socket, TypeOK
  <2>3. TypeOK'
    BY <2>1, <2>2 DEF TypeOK, Optional
  <2>4. CacheInv' /\ WaitInv' /\ ErrorInv'
    BY <2>1 DEF CacheInv, WaitInv, ErrorInv, Waiting
  <2> QED BY <2>3, <2>4
<1>2. CASE TimerFires
  <2>1. /\ pc \in Directions /\ left = 0 /\ UNCHANGED <<option, last, waited>>
        /\ Fails(NormalizeTimeout("WouldBlock", pc))
    BY <1>2 DEF TimerFires, Waiting, Directions
  <2>2. /\ active[pc] # None \/ active.deadline # None
        /\ \/ active[pc] # None /\ waited >= active[pc]
           \/ active.deadline # None /\ active.deadline <= 0
    BY <1>2, <2>1 DEF WaitInv, TimerFires, TypeOK, Optional
  <2>3. NormalizeTimeout("WouldBlock", pc) = "TimedOut"
    BY <2>2 DEF NormalizeTimeout, TimeoutActive, Limits
  <2> QED BY <2>1, <2>2, <2>3, FailStep DEF Expired, TypeOK
<1>3. CASE Breaks
  BY <1>3, FailStep DEF Breaks, TypeOK
<1> QED BY <1>1, <1>2, <1>3

(* A tick takes one from the deadline and from the timer of a call that     *)
(* waits, and adds one to the time it has waited.                           *)
LEMMA TickStep ==
  ASSUME IInv, Tick
  PROVE  IInv'
<1> USE SocketTimeoutsAssumption DEF IInv
<1>1. /\ UNCHANGED <<pc, option, last, buffered, result>> /\ pc # "closed"
      /\ active' = [active EXCEPT !.deadline = Elapse(@)]
      /\ left' = IF Waiting THEN Elapse(left) ELSE left
      /\ Waiting => left # 0
      /\ waited' = IF Waiting THEN Min({waited + 1, MaxTimeout + 1}) ELSE waited
  BY DEF Tick, socket
<1>2. waited \in 0 .. MaxTimeout + 1
  BY DEF TypeOK
<1>3. Min({waited + 1, MaxTimeout + 1}) =
        IF waited <= MaxTimeout THEN waited + 1 ELSE MaxTimeout + 1
  BY <1>2, MinPair
<1>4. /\ active.read \in Optional(0 .. MaxTimeout) /\ active.write \in Optional(0 .. MaxTimeout)
      /\ active.deadline \in Optional(-1 .. MaxTimeout)
      /\ left \in Optional(-1 .. MaxTimeout)
  BY DEF TypeOK
<1>5. /\ active'.read = active.read /\ active'.write = active.write
      /\ active'.deadline = Elapse(active.deadline)
  BY <1>1 DEF TypeOK
<1>6. TypeOK'
  <2>1. active' \in [read : Optional(0 .. MaxTimeout), write : Optional(0 .. MaxTimeout),
                     deadline : Optional(-1 .. MaxTimeout)]
    BY <1>1, <1>4, ElapseIs DEF TypeOK
  <2>2. left' \in Optional(-1 .. MaxTimeout)
    BY <1>1, <1>4, ElapseIs
  <2>3. waited' \in 0 .. MaxTimeout + 1
    BY <1>1, <1>2, <1>3
  <2> QED BY <1>1, <2>1, <2>2, <2>3 DEF TypeOK
<1>7. CacheInv' /\ ErrorInv'
  BY <1>1 DEF CacheInv, ErrorInv
<1>8. WaitInv'
  <2> SUFFICES ASSUME pc \in Directions PROVE WaitInv'
    BY <1>1 DEF WaitInv, Waiting, Directions
  <2>1. Waiting /\ Waiting' /\ pc' = pc
    BY <1>1 DEF Waiting, Directions
  <2>2. active'[pc] = active[pc] /\ active[pc] \in Optional(0 .. MaxTimeout)
    BY <1>4, <1>5 DEF Directions
  <2>3. CASE left = None
    <3>1. active.deadline = None /\ active[pc] = None
      BY <2>1, <2>3 DEF WaitInv
    <3>2. left' = None /\ active'.deadline = None
      BY <1>1, <1>4, <1>5, <2>1, <2>3, <3>1, ElapseIs
    <3> QED BY <2>1, <2>2, <3>1, <3>2 DEF WaitInv
  <2>4. CASE left # None
    <3>1. left \in 1 .. MaxTimeout /\ left' = left - 1
      BY <1>1, <1>4, <2>1, <2>4, ElapseIs DEF WaitInv, Optional
    <3>2. active.deadline # None =>
            active.deadline \in 1 .. MaxTimeout /\ active'.deadline = active.deadline - 1
      BY <1>4, <1>5, <2>1, <2>4, <3>1, ElapseIs DEF WaitInv, Optional
    <3>3. active.deadline = None => active'.deadline = None
      BY <1>4, <1>5, ElapseIs
    <3>4. active[pc] # None => waited + left <= active[pc] /\ waited' = waited + 1
      BY <1>1, <1>2, <1>3, <2>1, <2>2, <2>4, <3>1 DEF WaitInv, Optional
    <3> QED BY <1>2, <1>4, <2>1, <2>2, <2>4, <3>1, <3>2, <3>3, <3>4 DEF WaitInv, Optional
  <2> QED BY <2>3, <2>4
<1> QED BY <1>6, <1>7, <1>8

(* The inductive invariant.                                                 *)
THEOREM Invariance == Spec => []IInv
<1>1. IInv /\ [Next]_vars => IInv'
  <2> SUFFICES ASSUME IInv, [Next]_vars PROVE IInv'
    OBVIOUS
  <2>1. CASE Read \/ Write
    BY <2>1, BeginStep DEF Read, Write, Directions
  <2>2. CASE TakeBuffered \/ UNCHANGED vars
    <3>1. /\ UNCHANGED <<pc, active, option, last, left, waited, result>>
          /\ buffered' \in 0 .. MaxBuffered
      BY <2>2, SocketTimeoutsAssumption DEF TakeBuffered, vars, IInv, TypeOK
    <3> QED BY <3>1 DEF IInv, TypeOK, CacheInv, WaitInv, ErrorInv, Waiting, Expired
  <2> QED BY <2>1, <2>2, OperationStep, WakeStep, TickStep DEF Next, Calls
<1> QED BY InitIInv, <1>1, PTL DEF Spec

(* No call of any operation waits longer than its own limit, and none       *)
(* reports a timeout before it.                                             *)
THEOREM Exact == Spec => []TimeoutsAreExact
<1>1. IInv => TimeoutsAreExact
  <2> SUFFICES ASSUME IInv PROVE TimeoutsAreExact
    OBVIOUS
  <2>1. ASSUME Waiting
        PROVE  /\ active[pc] # None => waited <= active[pc]
               /\ active.deadline # None => active.deadline >= 0
               /\ active.deadline = None /\ active[pc] = None => left = None
    <3>1. active[pc] \in Optional(0 .. MaxTimeout)
      BY <2>1 DEF IInv, TypeOK, Waiting
    <3> QED BY <2>1, <3>1, SocketTimeoutsAssumption DEF IInv, WaitInv, TypeOK, Optional
  <2>2. result # "WouldBlock"
    BY DEF IInv, TypeOK
  <2> QED BY <2>1, <2>2 DEF IInv, ErrorInv, TimeoutsAreExact, Directions
<1> QED BY Invariance, <1>1, PTL

=============================================================================
