-------------------------- MODULE MCSocketTimeouts --------------------------
(* Instance of SocketTimeouts for TLC.                                     *)
EXTENDS SocketTimeouts
=============================================================================
