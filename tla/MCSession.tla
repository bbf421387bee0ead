----------------------------- MODULE MCSession ------------------------------
(* Instances of Session for TLC.                                           *)
EXTENDS Session

Command(kind) == [kind |-> kind, n |-> 0, enabled |-> FALSE]

(* Nothing (all handshake options), the commands for an old server that    *)
(* knows none, and the client info.                                        *)
Logins ==
  {<<>>, <<Command("auto"), Command("set")>>, <<Command("set"), Command("cleanup")>>}
=============================================================================
