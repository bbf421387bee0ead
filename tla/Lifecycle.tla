------------------------------ MODULE Lifecycle ------------------------------
(***************************************************************************)
(* What a connection promises to the threads that share it: it serves one  *)
(* operation at a time; an operation that is interrupted (by cancel, by    *)
(* its deadline, by close) does not succeed; an operation that fails ends  *)
(* the connection, and an ended connection serves no further operation.    *)
(***************************************************************************)
CONSTANTS Threads, NoThread

VARIABLES
  user,         \* the thread whose operation is being served, or NoThread
  open,         \* the connection accepts operations
  interrupted   \* the operation being served has been interrupted

vars == <<user, open, interrupted>>

Init == user = NoThread /\ open = TRUE /\ interrupted = FALSE

Begin(t) ==
  /\ user = NoThread /\ open
  /\ user' = t
  /\ UNCHANGED <<open, interrupted>>

Succeed(t) ==
  /\ user = t /\ ~interrupted
  /\ user' = NoThread
  /\ UNCHANGED <<open, interrupted>>

Fail(t) ==
  /\ user = t
  /\ user' = NoThread /\ open' = FALSE /\ interrupted' = FALSE

Interrupt ==
  /\ user # NoThread
  /\ interrupted' = TRUE
  /\ UNCHANGED <<user, open>>

Close ==
  /\ open' = FALSE
  /\ interrupted' = (user # NoThread)
  /\ UNCHANGED user

Next ==
  \/ \E t \in Threads : Begin(t) \/ Succeed(t) \/ Fail(t)
  \/ Interrupt \/ Close

Spec == Init /\ [][Next]_vars
=============================================================================
