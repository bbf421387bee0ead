------------------------------ MODULE MCLogin -------------------------------
(* Instances of Login for TLC.                                             *)
EXTENDS Login

(* No offset, and one that is not a whole number of minutes.               *)
Offsets == {0, -5430}

(* Nothing; a socket and a time zone, with the default of another option;  *)
(* no socket and UTC, with other values of the rest; another language.     *)
Query(path, sql, names, differs, east) ==
  [sock |-> path, sql |-> sql, names |-> names, differs |-> differs, seconds |-> east]
SomeQueries ==
  {Query("keep", TRUE, {}, {}, 0),
   Query("set", TRUE, {TimeZone, AutoCommit}, {TimeZone}, 3600),
   Query("clear", TRUE, Options, Options \ {TimeZone}, 0),
   Query("keep", FALSE, {}, {}, 0)}
=============================================================================
