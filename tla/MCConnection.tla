---------------------------- MODULE MCConnection ----------------------------
(* Connection with three threads, for TLC.                                  *)
EXTENDS Connection
=============================================================================
