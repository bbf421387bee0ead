------------------------------ MODULE MCCursor ------------------------------
(* Instances of Cursor for TLC.                                            *)
EXTENDS Cursor

Simple(kind) == [kind |-> kind]
Data(total, included) ==
  [kind |-> "data", id |-> NoId, noslice |-> FALSE, prepared |-> FALSE,
   total |-> total, included |-> included]
Prepared(total) == [Data(total, total) EXCEPT !.prepared = TRUE]
Plan(rows) == [Data(rows, rows) EXCEPT !.noslice = TRUE]

(* One of each kind, and what reads one reply after the other.             *)
AllReplies ==
  {Simple("success"), Simple("error"), Simple("bad"), Data(6, 1), Data(1, 1),
   Prepared(1), Plan(1)}
(* What EXPLAIN answers.                                                   *)
PlanReplies == {Simple("success"), Plan(2)}

PrefetchLimits == {Unlimited, 0}
NoLimit == {Unlimited}
=============================================================================
