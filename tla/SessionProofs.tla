---------------------------- MODULE SessionProofs ---------------------------
(***************************************************************************)
(* PipelineInStep, AutocommitAgrees and ErrorsReachTheCaller of the module *)
(* Session, for every login, every number of commands and every number of  *)
(* cleanups that wait.                                                     *)
(*                                                                         *)
(* The argument.  Position by position, the answers on their way back, the *)
(* commands on their way to the server and the commands still in the       *)
(* buffer are the responses that the client expects, with the command of   *)
(* the operation at the end once it is sent (PipeInv).  So the operation   *)
(* that has read the expected responses finds its own answer, alone, and   *)
(* when it returns nothing is under way.  The server works on the commands *)
(* in order; the mode after the last of those that are delayed is the      *)
(* cached one, and the answer to the command of the operation tells what   *)
(* it changed (ModeInv).  An error that counts is in delayed_error, or in  *)
(* an answer that the operation is still going to read (FaultInv).         *)
(***************************************************************************)
EXTENDS Session, WellFoundedInduction, TLAPS

(* The operation waits for the answer to a command of its own.              *)
Own == pc = "receive" /\ op.n # 0

OpInv ==
  /\ pc # "idle" => open
  /\ pc = "idle" <=> op.kind = "none"
  /\ op.n # 0 <=> HasCommand(op.kind)
  /\ pc = "receive" => unsent = <<>>

(* Commands have numbers of their own.                                      *)
Numbered(commands) ==
  \A i \in 1 .. Len(commands) : commands[i].n \in 1 .. issued
NumberInv ==
  /\ Numbered(pending) /\ Numbered(unsent) /\ Numbered(c2s)
  /\ \A i \in 1 .. Len(unsent) : unsent[i].n # op.n
  /\ open => \A i \in 1 .. Len(c2s) :
               IF Own /\ i = Len(c2s) THEN c2s[i] = op
               ELSE c2s[i].kind \in Delayable /\ c2s[i].n # op.n

PipeInv ==
  open =>
    /\ Len(s2c) + Len(c2s) + Len(unsent) = Len(responses) + (IF Own THEN 1 ELSE 0)
    /\ \A i \in 1 .. Len(s2c) :
         s2c[i].n = IF i <= Len(responses) THEN responses[i].n ELSE op.n
    /\ \A i \in 1 .. Len(c2s) :
         Len(s2c) + i <= Len(responses) => responses[Len(s2c) + i] = Expected(c2s[i])
    /\ \A i \in 1 .. Len(unsent) :
         responses[Len(s2c) + Len(c2s) + i] = Expected(unsent[i])

(* The first commands of a sequence take the server from one mode to        *)
(* another.                                                                 *)
LeadsTo(commands, number, before, after) ==
  \/ /\ \A i \in 1 .. number : commands[i].kind # "auto"
     /\ after = before
  \/ \E k \in 1 .. number :
       /\ commands[k].kind = "auto" /\ after = commands[k].enabled
       /\ \A i \in k + 1 .. number : commands[i].kind # "auto"

ModeInv ==
  open =>
    /\ ~Own => LeadsTo(c2s, Len(c2s), mode, autocommit)
    /\ Own /\ c2s # <<>> => LeadsTo(c2s, Len(c2s) - 1, mode, autocommit)
    /\ Own /\ c2s = <<>> =>
         /\ NewAutocommit(s2c[Len(s2c)]) = mode
         /\ op.kind = "auto" /\ ~s2c[Len(s2c)].error => Confirmed(s2c[Len(s2c)])

(* The answer at a position is an error that the client will not ignore.    *)
Counts(i) == s2c[i].error /\ ~(i <= Len(responses) /\ responses[i].ignore)
FaultInv ==
  open => (faults # {} <=> \/ pc # "idle" /\ delayed_error
                           \/ \E i \in 1 .. Len(s2c) : Counts(i))

IInv == TypeOK /\ OpInv /\ NumberInv /\ PipeInv /\ ModeInv /\ FaultInv

-----------------------------------------------------------------------------
(* Lemmas about the operators.                                              *)

(* A set of positions that is not empty has a last one, which Max finds.    *)
LEMMA LastPosition ==
  ASSUME NEW n \in Nat, NEW S \in SUBSET (1 .. n), S # {}
  PROVE  Max(S) \in S /\ \A i \in S : Max(S) >= i
<1> DEFINE Less == {ss \in Nat \X Nat : ss[1] < ss[2]}
           T == {k \in Nat : n - k \in S}
<1>1. IsWellFoundedOn(Less, Nat)
  BY NatLessThanWellFounded DEF OpToRel
<1>2. T \subseteq Nat /\ T # {}
  <2>1. PICK i \in S : TRUE
    OBVIOUS
  <2>2. n - i \in T
    OBVIOUS
  <2> QED BY <2>2
<1>3. \E x \in T : \A y \in T : ~(<<y, x>> \in Less)
  <2> HIDE DEF Less, T
  <2> QED BY <1>1, <1>2, WFMin
<1>4. PICK x \in T : \A y \in T : ~(<<y, x>> \in Less)
  BY <1>3
<1>5. ASSUME NEW i \in S PROVE n - x >= i
  <2>1. n - i \in T /\ <<n - i, x>> \notin Less
    BY <1>4
  <2>2. ~(n - i < x)
    BY <2>1
  <2> QED BY <2>2
<1>6. \E m \in S : \A i \in S : m >= i
  BY <1>5
<1> QED BY <1>6, Zenon DEF Max

(* The mode after a sequence of commands: that of the last Xauto_commit, or *)
(* the mode before if there is none.                                        *)
LEMMA ModeAfterIs ==
  ASSUME NEW K, NEW commands \in Seq(Commands(K)), NEW m
  PROVE  LeadsTo(commands, Len(commands), m, ModeAfter(commands, m))
<1> DEFINE I == {i \in 1 .. Len(commands) : commands[i].kind = "auto"}
           last == Max(I)
<1>1. ModeAfter(commands, m) = IF I = {} THEN m ELSE commands[last].enabled
  BY Zenon DEF ModeAfter
<1> HIDE DEF last
<1>2. CASE I = {}
  BY <1>1, <1>2 DEF LeadsTo
<1>3. CASE I # {}
  <2>1. Max(I) \in I /\ \A i \in I : Max(I) >= i
    <3>1. Len(commands) \in Nat /\ I \in SUBSET (1 .. Len(commands))
      OBVIOUS
    <3> HIDE DEF I
    <3> QED BY <1>3, <3>1, LastPosition
  <2>2. last \in I /\ \A i \in I : last >= i
    BY <2>1 DEF last
  <2>3. /\ last \in 1 .. Len(commands) /\ commands[last].kind = "auto"
        /\ \A i \in last + 1 .. Len(commands) : commands[i].kind # "auto"
    BY <2>2
  <2>4. ModeAfter(commands, m) = commands[last].enabled
    BY <1>1, <1>3
  <2> QED BY <2>3, <2>4 DEF LeadsTo
<1> QED BY <1>2, <1>3

(* Commands lead to one mode only.                                          *)
LEMMA LeadsToOne ==
  ASSUME NEW K, NEW commands \in Seq(Commands(K)), NEW m, NEW x, NEW y,
         LeadsTo(commands, Len(commands), m, x), LeadsTo(commands, Len(commands), m, y)
  PROVE  x = y
<1>1. CASE \A i \in 1 .. Len(commands) : commands[i].kind # "auto"
  BY <1>1 DEF LeadsTo
<1>2. CASE \E i \in 1 .. Len(commands) : commands[i].kind = "auto"
  <2>1. PICK j \in 1 .. Len(commands) :
          /\ commands[j].kind = "auto" /\ x = commands[j].enabled
          /\ \A i \in j + 1 .. Len(commands) : commands[i].kind # "auto"
    BY <1>2 DEF LeadsTo
  <2>2. PICK k \in 1 .. Len(commands) :
          /\ commands[k].kind = "auto" /\ y = commands[k].enabled
          /\ \A i \in k + 1 .. Len(commands) : commands[i].kind # "auto"
    BY <1>2 DEF LeadsTo
  <2>3. ~(j < k) /\ ~(k < j)
    BY <2>1, <2>2
  <2>4. j = k
    BY <2>3
  <2> QED BY <2>1, <2>2, <2>4
<1> QED BY <1>1, <1>2

(* The elements of a sequence of commands.                                  *)
LEMMA Element ==
  ASSUME NEW K, NEW commands \in Seq(Commands(K)), NEW i \in 1 .. Len(commands)
  PROVE  /\ commands[i] \in Commands(K)
         /\ commands[i].kind \in K /\ commands[i].n \in Nat
         /\ commands[i].enabled \in BOOLEAN
<1>1. commands[i] \in Commands(K)
  OBVIOUS
<1> QED BY <1>1, Zenon DEF Commands

(* A sequence of commands of some kinds is one of more kinds.               *)
LEMMA MoreKinds ==
  ASSUME NEW K, NEW L, K \subseteq L, NEW commands \in Seq(Commands(K))
  PROVE  commands \in Seq(Commands(L))
<1>1. Commands(K) \subseteq Commands(L)
  BY Zenon DEF Commands
<1>2. \A i \in 1 .. Len(commands) : commands[i] \in Commands(L)
  BY <1>1
<1> QED BY <1>2

(* add and add_cleanup expect one response for each command.                *)
LEMMA ExpectedAllIs ==
  ASSUME NEW K, NEW commands \in Seq(Commands(K))
  PROVE  /\ ExpectedAll(commands) \in Seq(Responses)
         /\ Len(ExpectedAll(commands)) = Len(commands)
         /\ \A i \in 1 .. Len(commands) : ExpectedAll(commands)[i] = Expected(commands[i])
<1>1. ASSUME NEW i \in 1 .. Len(commands)
      PROVE  Expected(commands[i]) \in Responses
  <2> DEFINE ignore == commands[i].kind = "cleanup"
  <2>1. ignore \in BOOLEAN /\ commands[i].n \in Nat
    BY Element, Zenon
  <2> HIDE DEF ignore
  <2>2. [n |-> commands[i].n, ignore |-> ignore] \in Responses
    BY <2>1 DEF Responses
  <2> QED BY <2>2, Zenon DEF Expected, ignore
<1> HIDE DEF Expected
<1>2. Len(commands) \in Nat
  OBVIOUS
<1> QED BY <1>1, <1>2 DEF ExpectedAll

-----------------------------------------------------------------------------
(* After the login its commands are under way, and nothing else.            *)
LEMMA InitIInv == Init => IInv
<1> SUFFICES ASSUME Init PROVE IInv
  OBVIOUS
<1>1. PICK commands \in LoginCommands, m \in BOOLEAN :
        LET numbered == [i \in 1 .. Len(commands) |-> [commands[i] EXCEPT !.n = i]]
        IN  /\ c2s = numbered
            /\ responses = ExpectedAll(numbered)
            /\ issued = Len(commands)
            /\ mode = m
            /\ autocommit = ModeAfter(numbered, m)
  BY DEF Init
<1>2. /\ unsent = <<>> /\ s2c = <<>> /\ pending = <<>>
      /\ pc = "idle" /\ op = NoOp /\ delayed_error = FALSE
      /\ open = TRUE /\ faults = {} /\ ret = "ok"
  BY DEF Init
<1>3. /\ commands \in Seq(Commands(Delayable)) /\ Len(commands) \in Nat
      /\ Len(commands) <= MaxCommands
  BY SessionAssumption
<1>4. /\ c2s \in Seq(Commands(Delayable)) /\ Len(c2s) = issued /\ issued \in 0 .. MaxCommands
      /\ \A i \in 1 .. Len(c2s) : c2s[i].n = i
  <2>1. /\ c2s = [i \in 1 .. Len(commands) |-> [commands[i] EXCEPT !.n = i]]
        /\ issued = Len(commands)
    BY <1>1
  <2>2. ASSUME NEW i \in 1 .. Len(commands)
        PROVE  /\ [commands[i] EXCEPT !.n = i] \in Commands(Delayable)
               /\ [commands[i] EXCEPT !.n = i].n = i
    BY <1>3, Element DEF Commands
  <2>3. c2s \in Seq(Commands(Delayable)) /\ Len(c2s) = Len(commands)
    BY <1>3, <2>1, <2>2
  <2>4. \A i \in 1 .. Len(c2s) : c2s[i].n = i
    BY <2>1, <2>2, <2>3
  <2> QED BY <1>3, <2>1, <2>3, <2>4, SessionAssumption
<1>5. /\ responses \in Seq(Responses) /\ Len(responses) = Len(c2s)
      /\ \A i \in 1 .. Len(c2s) : responses[i] = Expected(c2s[i])
  BY <1>1, <1>4, ExpectedAllIs
<1>6. LeadsTo(c2s, Len(c2s), mode, autocommit) /\ autocommit = ModeAfter(c2s, mode)
  BY <1>1, <1>4, ModeAfterIs
<1>7. autocommit \in BOOLEAN /\ mode \in BOOLEAN
  <2>1. mode \in BOOLEAN
    BY <1>1
  <2>2. \A i \in 1 .. Len(c2s) : c2s[i].enabled \in BOOLEAN
    BY <1>4, Element
  <2>3. autocommit = mode \/ \E i \in 1 .. Len(c2s) : autocommit = c2s[i].enabled
    BY <1>6 DEF LeadsTo
  <2> QED BY <2>1, <2>2, <2>3
<1>8. TypeOK
  <2>1. c2s \in Seq(Commands(Delayable \cup {"statement", "raw"}))
    BY <1>4, MoreKinds
  <2>2. /\ op \in Commands(Kinds \cup {"none"}) /\ op.n = 0
    BY <1>2 DEF NoOp, Commands
  <2>3. /\ unsent \in Seq(Commands({"cleanup"})) /\ pending \in Seq(Commands({"cleanup"}))
        /\ s2c \in Seq(Answers)
        /\ Len(unsent) <= Len(responses)
    BY <1>2, <1>5
  <2>4. issued \in 0 .. MaxCommands /\ op.n \in 0 .. issued /\ faults \subseteq 1 .. issued
    BY <1>2, <1>4, <2>2
  <2>5. /\ pc \in {"idle", "send", "receive"} /\ ret \in {"ok", "err"}
        /\ delayed_error \in BOOLEAN /\ open \in BOOLEAN
    BY <1>2
  <2> QED BY <1>5, <1>7, <2>1, <2>2, <2>3, <2>4, <2>5, Zenon DEF TypeOK
<1>9. OpInv /\ ~Own
  BY <1>2 DEF OpInv, Own, NoOp, HasCommand
<1>10. NumberInv
  <2>1. op.n = 0 /\ Len(pending) = 0 /\ Len(unsent) = 0
    BY <1>2 DEF NoOp
  <2>2. \A i \in 1 .. Len(c2s) : c2s[i].kind \in Delayable
    BY <1>4, Element
  <2> QED BY <1>4, <1>9, <2>1, <2>2 DEF NumberInv, Numbered
<1>11. PipeInv
  BY <1>2, <1>4, <1>5, <1>9 DEF PipeInv
<1>12. ModeInv /\ FaultInv
  BY <1>2, <1>6, <1>9 DEF ModeInv, FaultInv
<1> QED BY <1>8, <1>9, <1>10, <1>11, <1>12 DEF IInv

(* A sequence is two others, one after the other.                           *)
Joined(a, b, c) ==
  /\ Len(c) = Len(a) + Len(b)
  /\ \A i \in 1 .. Len(a) : c[i] = a[i]
  /\ \A i \in 1 .. Len(b) : c[Len(a) + i] = b[i]

(* Concatenation joins.                                                     *)
LEMMA ConcatJoins ==
  ASSUME NEW S, NEW a \in Seq(S), NEW b \in Seq(S)
  PROVE  a \o b \in Seq(S) /\ Joined(a, b, a \o b)
BY DEF Joined

(* What is left of a sequence without its first element.                    *)
LEMMA TailIs ==
  ASSUME NEW S, NEW s \in Seq(S), s # <<>>
  PROVE  /\ Tail(s) \in Seq(S) /\ Len(s) \in Nat /\ Len(s) >= 1
         /\ Len(Tail(s)) = Len(s) - 1 /\ Head(s) = s[1] /\ s[1] \in S
         /\ \A i \in 1 .. Len(s) - 1 : Tail(s)[i] = s[i + 1]
OBVIOUS

(* A sequence of length 0.                                                  *)
LEMMA NothingLeft ==
  ASSUME NEW S, NEW s \in Seq(S), Len(s) = 0
  PROVE  s = <<>>
OBVIOUS

(* Cleanups go to the buffer between operations, and perhaps an operation   *)
(* with a new number begins.                                                *)
LEMMA ExtendStep ==
  ASSUME IInv, open, pc = "idle",
         NEW u \in Seq(Commands({"cleanup"})),
         unsent' \in Seq(Commands({"cleanup"})), Joined(unsent, u, unsent'),
         responses' \in Seq(Responses),
         Joined(responses, ExpectedAll(u), responses'),
         UNCHANGED <<c2s, s2c, autocommit, open, mode, faults, ret>>,
         pending' \in Seq(Commands({"cleanup"})), Numbered(pending)',
         issued' \in 0 .. MaxCommands, issued' >= issued,
         \A i \in 1 .. Len(u) : u[i].n \in 1 .. issued' /\ u[i].n # op'.n,
         pc' \in {"idle", "send"}, op' \in Commands(Kinds \cup {"none"}),
         op'.n \in 0 .. issued', op'.n = 0 \/ op'.n > issued,
         pc' = "idle" <=> op'.kind = "none", op'.n # 0 <=> HasCommand(op'.kind),
         delayed_error' \in BOOLEAN, pc' = "send" => ~delayed_error'
  PROVE  IInv'
<1> USE DEF IInv
<1>1. /\ Len(ExpectedAll(u)) = Len(u)
      /\ \A i \in 1 .. Len(u) : ExpectedAll(u)[i] = Expected(u[i])
  BY ExpectedAllIs
<1>2. /\ unsent \in Seq(Commands({"cleanup"})) /\ responses \in Seq(Responses)
      /\ c2s \in Seq(Commands(Delayable \cup {"statement", "raw"}))
      /\ s2c \in Seq(Answers)
      /\ issued \in Nat /\ issued' \in Nat /\ Len(unsent) <= Len(responses)
  BY DEF TypeOK
<1>0. /\ Len(unsent) \in Nat /\ Len(responses) \in Nat /\ Len(c2s) \in Nat
      /\ Len(s2c) \in Nat /\ Len(u) \in Nat
  BY <1>2
<1>3. /\ Len(unsent') = Len(unsent) + Len(u) /\ Len(responses') = Len(responses) + Len(u)
      /\ \A i \in 1 .. Len(unsent) : unsent'[i] = unsent[i]
      /\ \A i \in 1 .. Len(u) : unsent'[Len(unsent) + i] = u[i]
      /\ \A i \in 1 .. Len(responses) : responses'[i] = responses[i]
      /\ \A i \in 1 .. Len(u) : responses'[Len(responses) + i] = Expected(u[i])
  BY <1>1 DEF Joined
<1>4. ~Own /\ ~Own'
  BY DEF Own
<1>5. TypeOK'
  <2>1. faults' \subseteq 1 .. issued'
    BY <1>2 DEF TypeOK
  <2>2. Len(unsent') <= Len(responses')
    BY <1>2, <1>3
  <2>3. /\ (autocommit \in BOOLEAN)' /\ (open \in BOOLEAN)' /\ (mode \in BOOLEAN)'
        /\ (ret \in {"ok", "err"})' /\ c2s' = c2s /\ s2c' = s2c
        /\ pc' \in {"idle", "send", "receive"}
    BY DEF TypeOK
  <2> QED BY <1>2, <1>3, <2>1, <2>2, <2>3, Zenon DEF TypeOK
<1>6. OpInv'
  BY DEF OpInv
<1>7. \A i \in 1 .. Len(unsent') : unsent'[i].n \in 1 .. issued' /\ unsent'[i].n # op'.n
  <2>1. ASSUME NEW i \in 1 .. Len(unsent)
        PROVE  unsent'[i].n \in 1 .. issued' /\ unsent'[i].n # op'.n
    <3>1. unsent[i].n \in 1 .. issued
      BY DEF NumberInv, Numbered
    <3>2. unsent'[i] = unsent[i] /\ issued \in Nat /\ issued' \in Nat
      BY <1>2, <1>3
    <3> QED BY <3>1, <3>2
  <2>2. ASSUME NEW i \in 1 .. Len(u)
        PROVE  unsent'[Len(unsent) + i].n \in 1 .. issued'
               /\ unsent'[Len(unsent) + i].n # op'.n
    BY <1>3
  <2>3. ASSUME NEW i \in 1 .. Len(unsent')
        PROVE  i \in 1 .. Len(unsent) \/ \E j \in 1 .. Len(u) : i = Len(unsent) + j
    <3>1. i \in 1 .. Len(unsent) \/ i - Len(unsent) \in 1 .. Len(u)
      BY ONLY <1>0, <1>3
    <3>2. i \in 1 .. Len(unsent) \/ i = Len(unsent) + (i - Len(unsent))
      BY ONLY <1>0, <1>3
    <3> QED BY ONLY <3>1, <3>2
  <2> QED BY <2>1, <2>2, <2>3
<1>8. \A i \in 1 .. Len(c2s) : /\ c2s[i].n \in 1 .. issued' /\ c2s[i].n # op'.n
                              /\ c2s[i].kind \in Delayable
  BY <1>2, <1>4 DEF NumberInv, Numbered
<1>9. NumberInv'
  BY <1>4, <1>7, <1>8 DEF NumberInv, Numbered
<1>10. PipeInv'
  <2>1. /\ Len(s2c) + Len(c2s) + Len(unsent) = Len(responses)
        /\ \A i \in 1 .. Len(s2c) : s2c[i].n = responses[i].n
        /\ \A i \in 1 .. Len(c2s) : responses[Len(s2c) + i] = Expected(c2s[i])
        /\ \A i \in 1 .. Len(unsent) :
             responses[Len(s2c) + Len(c2s) + i] = Expected(unsent[i])
    <3>1. Len(s2c) + Len(c2s) + Len(unsent) = Len(responses)
      BY <1>0, <1>4 DEF PipeInv
    <3>2. ASSUME NEW i \in 1 .. Len(s2c) PROVE s2c[i].n = responses[i].n
      <4>1. i <= Len(responses)
        BY ONLY <1>0, <3>1
      <4> QED BY <4>1 DEF PipeInv
    <3>3. ASSUME NEW i \in 1 .. Len(c2s)
          PROVE  responses[Len(s2c) + i] = Expected(c2s[i])
      <4>1. Len(s2c) + i <= Len(responses)
        BY ONLY <1>0, <3>1
      <4> QED BY <4>1 DEF PipeInv
    <3>4. \A i \in 1 .. Len(unsent) :
            responses[Len(s2c) + Len(c2s) + i] = Expected(unsent[i])
      BY DEF PipeInv
    <3> QED BY ONLY <3>1, <3>2, <3>3, <3>4
  <2>2. ASSUME NEW i \in 1 .. Len(unsent')
        PROVE  responses'[Len(s2c) + Len(c2s) + i] = Expected(unsent'[i])
    <3>1. CASE i \in 1 .. Len(unsent)
      <4>1. Len(s2c) + Len(c2s) + i \in 1 .. Len(responses)
        BY ONLY <1>0, <2>1, <3>1
      <4> QED BY <1>3, <2>1, <3>1, <4>1
    <3>2. CASE i \notin 1 .. Len(unsent)
      <4>1. PICK j \in 1 .. Len(u) : i = Len(unsent) + j
        <5>1. i - Len(unsent) \in 1 .. Len(u)
          BY ONLY <1>0, <1>3, <3>2
        <5> QED BY ONLY <1>0, <5>1
      <4>2. Len(s2c) + Len(c2s) + i = Len(responses) + j
        <5>1. j \in Int
          BY ONLY <1>0
        <5>2. i = Len(unsent) + j /\ Len(s2c) + Len(c2s) + Len(unsent) = Len(responses)
          BY ONLY <2>1, <4>1
        <5> QED BY ONLY <1>0, <5>1, <5>2
      <4> QED BY <1>1, <1>3, <4>1, <4>2
    <3> QED BY <3>1, <3>2
  <2>3. \A i \in 1 .. Len(s2c) : i <= Len(responses') /\ s2c[i].n = responses'[i].n
    <3> SUFFICES ASSUME NEW i \in 1 .. Len(s2c)
                 PROVE  i <= Len(responses') /\ s2c[i].n = responses'[i].n
      OBVIOUS
    <3>1. i \in 1 .. Len(responses) /\ i <= Len(responses')
      BY ONLY <1>0, <1>3, <2>1
    <3> QED BY ONLY <1>3, <2>1, <3>1
  <2>4. \A i \in 1 .. Len(c2s) : responses'[Len(s2c) + i] = Expected(c2s[i])
    <3> SUFFICES ASSUME NEW i \in 1 .. Len(c2s)
                 PROVE  responses'[Len(s2c) + i] = Expected(c2s[i])
      OBVIOUS
    <3>1. Len(s2c) + i \in 1 .. Len(responses)
      BY ONLY <1>0, <1>3, <2>1
    <3> QED BY ONLY <1>3, <2>1, <3>1
  <2>5. Len(s2c) + Len(c2s) + Len(unsent') = Len(responses')
    BY ONLY <1>0, <1>3, <2>1
  <2> QED BY <1>4, <2>2, <2>3, <2>4, <2>5 DEF PipeInv
<1>11. ModeInv'
  BY <1>4 DEF ModeInv, LeadsTo
<1>12. FaultInv'
  <2>1. \A i \in 1 .. Len(s2c) : i \in 1 .. Len(responses) /\ i <= Len(responses')
    BY <1>2, <1>3, <1>4 DEF PipeInv
  <2>2. \A i \in 1 .. Len(s2c) : responses'[i] = responses[i] /\ i <= Len(responses)
    BY <1>3, <2>1
  <2> QED BY <2>1, <2>2 DEF FaultInv, Counts
<1> QED BY <1>5, <1>6, <1>9, <1>10, <1>11, <1>12

(* A close or a release between operations.                                 *)
LEMMA AddStep == IInv /\ AddCleanup => IInv'
<1> SUFFICES ASSUME IInv, AddCleanup PROVE IInv'
  OBVIOUS
<1> DEFINE u == <<Cleanup(issued')>>
<1>1. /\ issued \in 0 .. MaxCommands /\ issued < MaxCommands /\ MaxCommands \in Nat
      /\ unsent \in Seq(Commands({"cleanup"})) /\ pending \in Seq(Commands({"cleanup"}))
      /\ responses \in Seq(Responses) /\ op \in Commands(Kinds \cup {"none"})
      /\ pc = "idle" /\ op.kind = "none" /\ op.n = 0 /\ open
  BY SessionAssumption DEF AddCleanup, IInv, TypeOK, OpInv, HasCommand
<1>2. /\ issued' = issued + 1
      /\ unsent' = Append(unsent, Cleanup(issued')) /\ responses' = responses \o ExpectedAll(u)
      /\ UNCHANGED <<pending, c2s, s2c, pc, op, delayed_error, autocommit, open, mode,
                     faults, ret>>
  BY DEF AddCleanup
<1>3. issued' \in 0 .. MaxCommands /\ issued' >= issued /\ issued' \in 1 .. issued'
  BY <1>1, <1>2
<1>4. Cleanup(issued') \in Commands({"cleanup"}) /\ Cleanup(issued').n = issued'
  BY <1>3 DEF Cleanup, Commands
<1> HIDE DEF Cleanup
<1>5. /\ u \in Seq(Commands({"cleanup"})) /\ Len(u) = 1 /\ u[1] = Cleanup(issued')
      /\ unsent' = unsent \o u
  BY <1>1, <1>2, <1>4
<1> HIDE DEF u
<1>6. /\ unsent' \in Seq(Commands({"cleanup"})) /\ Joined(unsent, u, unsent')
      /\ responses' \in Seq(Responses) /\ Joined(responses, ExpectedAll(u), responses')
  BY <1>1, <1>2, <1>5, ExpectedAllIs, ConcatJoins
<1>7. Numbered(pending)'
  <2>1. Numbered(pending)
    BY DEF IInv, NumberInv
  <2> QED BY <1>1, <1>2, <2>1 DEF Numbered
<1>8. \A i \in 1 .. Len(u) : u[i].n \in 1 .. issued' /\ u[i].n # op'.n
  BY <1>1, <1>2, <1>3, <1>4, <1>5
<1>9. delayed_error' \in BOOLEAN
  BY <1>2 DEF IInv, TypeOK
<1>10. op'.n \in 0 .. issued' /\ op'.n = 0 /\ (op'.n # 0 <=> HasCommand(op'.kind))
  BY <1>1, <1>2, <1>3 DEF HasCommand
<1> QED BY <1>1, <1>2, <1>3, <1>5, <1>6, <1>7, <1>8, <1>9, <1>10, ExtendStep

(* An operation begins, with the cleanups that waited for it.               *)
LEMMA BeginStep ==
  ASSUME IInv, NEW kind \in Kinds, NEW enabled \in BOOLEAN, BeginOperation(kind, enabled)
  PROVE  IInv'
<1>1. /\ issued \in 0 .. MaxCommands /\ issued < MaxCommands /\ MaxCommands \in Nat
      /\ unsent \in Seq(Commands({"cleanup"})) /\ pending \in Seq(Commands({"cleanup"}))
      /\ responses \in Seq(Responses) /\ op \in Commands(Kinds \cup {"none"})
      /\ pc = "idle" /\ op.kind = "none" /\ op.n = 0 /\ open
  BY SessionAssumption DEF BeginOperation, IInv, TypeOK, OpInv, HasCommand
<1>2. /\ unsent' = unsent \o pending /\ responses' = responses \o ExpectedAll(pending)
      /\ pending' = <<>> /\ delayed_error' = FALSE
      /\ UNCHANGED <<c2s, s2c, autocommit, open, mode, faults, ret>>
  BY DEF BeginOperation, TakePending
<1>3. /\ unsent' \in Seq(Commands({"cleanup"})) /\ Joined(unsent, pending, unsent')
      /\ responses' \in Seq(Responses) /\ Joined(responses, ExpectedAll(pending), responses')
  BY <1>1, <1>2, ExpectedAllIs, ConcatJoins
<1>4. pending' \in Seq(Commands({"cleanup"})) /\ Numbered(pending)'
  BY <1>2 DEF Numbered
<1>5. \A i \in 1 .. Len(pending) : pending[i].n \in 1 .. issued
  BY DEF IInv, NumberInv, Numbered
<1>6. /\ issued' \in 0 .. MaxCommands /\ issued' >= issued /\ issued' \in Nat
      /\ pc' \in {"idle", "send"} /\ op' \in Commands(Kinds \cup {"none"})
      /\ op'.n \in 0 .. issued' /\ (op'.n = 0 \/ op'.n > issued)
      /\ (pc' = "idle" <=> op'.kind = "none") /\ (op'.n # 0 <=> HasCommand(op'.kind))
  <2>1. CASE IsLocal(kind, enabled)
    <3>1. UNCHANGED <<pc, op, issued>>
      BY <2>1 DEF BeginOperation
    <3> QED BY <1>1, <3>1 DEF HasCommand
  <2>2. CASE ~IsLocal(kind, enabled)
    <3>1. /\ pc' = "send" /\ issued' = IF HasCommand(kind) THEN issued + 1 ELSE issued
          /\ op' = [kind |-> kind, n |-> IF HasCommand(kind) THEN issued' ELSE 0,
                    enabled |-> enabled]
      BY <2>2 DEF BeginOperation
    <3>2. issued' \in 0 .. MaxCommands /\ issued' >= issued /\ issued' \in Nat
      BY <1>1, <3>1
    <3>3. op'.kind = kind /\ op'.n = (IF HasCommand(kind) THEN issued' ELSE 0)
      BY <3>1
    <3>4. op' \in Commands(Kinds \cup {"none"})
      <4> DEFINE n == IF HasCommand(kind) THEN issued' ELSE 0
      <4>1. n \in Nat
        BY <3>2
      <4> HIDE DEF n
      <4>2. [kind |-> kind, n |-> n, enabled |-> enabled] \in Commands(Kinds \cup {"none"})
        BY <4>1 DEF Commands
      <4> QED BY <3>1, <4>2, Zenon DEF n
    <3>5. kind # "none"
      BY DEF Kinds
    <3>6. op'.n \in 0 .. issued' /\ (op'.n = 0 \/ op'.n > issued)
      BY <1>1, <3>1, <3>2, <3>3
    <3>7. op'.n # 0 <=> HasCommand(op'.kind)
      BY <1>1, <3>1, <3>3
    <3> QED BY <3>1, <3>2, <3>3, <3>4, <3>5, <3>6, <3>7
  <2> QED BY <2>1, <2>2
<1>7. \A i \in 1 .. Len(pending) : pending[i].n \in 1 .. issued' /\ pending[i].n # op'.n
  BY <1>1, <1>5, <1>6
<1> QED BY <1>1, <1>2, <1>3, <1>4, <1>6, <1>7, ExtendStep

(* What an answer says depends on the operation and the cached mode only.   *)
LEMMA SameReading ==
  ASSUME op' = op, autocommit' = autocommit
  PROVE  \A a : (Confirmed(a)' <=> Confirmed(a)) /\ NewAutocommit(a)' = NewAutocommit(a)
<1>1. \A a : Confirmed(a)' <=> Confirmed(a)
  BY Zenon DEF Confirmed
<1>2. \A a : ModeOnError(a)' = ModeOnError(a)
  BY Zenon DEF ModeOnError
<1>3. \A a : NewAutocommit(a)' = NewAutocommit(a)
  BY <1>1, <1>2 DEF NewAutocommit
<1> QED BY <1>1, <1>3

(* A close or a release while the mutex is taken, or no step at all.        *)
LEMMA QueueStep ==
  ASSUME IInv, QueueCleanup \/ UNCHANGED vars
  PROVE  IInv'
<1>1. UNCHANGED <<unsent, responses, c2s, s2c, pc, op, delayed_error, autocommit, open,
                  mode, faults, ret>>
  BY DEF QueueCleanup, vars, clientVars
<1>2. issued \in Nat /\ issued' \in 0 .. MaxCommands /\ issued' >= issued
  BY SessionAssumption DEF QueueCleanup, vars, clientVars, IInv, TypeOK
<1>3. pending' \in Seq(Commands({"cleanup"})) /\ Numbered(pending)'
  <2>1. pending \in Seq(Commands({"cleanup"})) /\ Numbered(pending)
    BY DEF IInv, TypeOK, NumberInv
  <2>2. CASE QueueCleanup
    <3>1. pending' = Append(pending, Cleanup(issued')) /\ issued' = issued + 1
      BY <2>2 DEF QueueCleanup
    <3>2. /\ Cleanup(issued') \in Commands({"cleanup"})
          /\ Cleanup(issued').n = issued' /\ issued' \in 1 .. issued'
      BY <1>2, <3>1 DEF Cleanup, Commands
    <3> HIDE DEF Cleanup
    <3> QED BY <1>2, <2>1, <3>1, <3>2 DEF Numbered
  <2>3. CASE UNCHANGED vars
    BY <2>1, <2>3 DEF vars, clientVars, Numbered
  <2> QED BY <2>2, <2>3
<1>4. TypeOK'
  <2>1. op'.n \in 0 .. issued' /\ faults' \subseteq 1 .. issued'
    BY <1>1, <1>2 DEF IInv, TypeOK
  <2> QED BY <1>1, <1>2, <1>3, <2>1 DEF IInv, TypeOK
<1>5. Own' = Own
  BY <1>1 DEF Own
<1>6. NumberInv'
  BY <1>1, <1>2, <1>3, <1>5 DEF IInv, NumberInv, Numbered
<1>7. OpInv' /\ PipeInv' /\ FaultInv'
  BY <1>1, <1>5 DEF IInv, OpInv, PipeInv, FaultInv, Counts
<1>8. ModeInv'
  <2>1. /\ c2s' = c2s /\ s2c' = s2c /\ op' = op /\ open' = open /\ mode' = mode
        /\ autocommit' = autocommit
    BY <1>1
  <2> QED BY <1>5, <2>1, SameReading DEF IInv, ModeInv, LeadsTo
<1> QED BY <1>4, <1>6, <1>7, <1>8 DEF IInv

(* The transport fails: nothing is claimed about a closed connection.       *)
LEMMA BreakStep == IInv /\ Break => IInv'
<1> SUFFICES ASSUME IInv, Break PROVE IInv'
  OBVIOUS
<1>1. /\ pc' = "idle" /\ op' = NoOp /\ open' = FALSE
      /\ UNCHANGED <<unsent, responses, pending, issued, c2s, s2c, delayed_error, autocommit,
                     mode, faults, ret>>
  BY DEF Break, clientVars
<1>2. op'.kind = "none" /\ op'.n = 0 /\ op' \in Commands(Kinds \cup {"none"})
  BY <1>1 DEF NoOp, Commands
<1>3. issued \in Nat /\ op'.n \in 0 .. issued
  BY <1>2 DEF IInv, TypeOK
<1>4. TypeOK'
  BY <1>1, <1>2, <1>3 DEF IInv, TypeOK
<1>5. OpInv' /\ NumberInv'
  BY <1>1, <1>2, <1>3 DEF IInv, OpInv, NumberInv, Numbered, HasCommand
<1> QED BY <1>1, <1>4, <1>5 DEF IInv, PipeInv, ModeInv, FaultInv

(* The buffer goes to the server, with the command of the operation.        *)
LEMMA SendStep == IInv /\ Send => IInv'
<1> SUFFICES ASSUME IInv, Send PROVE IInv'
  OBVIOUS
<1> DEFINE K == Delayable \cup {"statement", "raw"}
           C == Len(c2s)
           U == Len(unsent)
<1>1. /\ pc = "send" /\ pc' = "receive" /\ unsent' = <<>>
      /\ c2s' = c2s \o (unsent \o Plain(op))
      /\ UNCHANGED <<responses, pending, issued, s2c, op, delayed_error, autocommit, open,
                     mode, faults, ret>>
  BY DEF Send, DelayedPlus
<1>2. /\ c2s \in Seq(Commands(K)) /\ unsent \in Seq(Commands({"cleanup"}))
      /\ s2c \in Seq(Answers) /\ responses \in Seq(Responses)
      /\ op \in Commands(Kinds \cup {"none"})
  BY DEF IInv, TypeOK
<1>3. C \in Nat /\ U \in Nat /\ Len(s2c) \in Nat /\ Len(responses) \in Nat
  BY <1>2
<1>4. ~Own /\ (Own' <=> HasCommand(op.kind))
  BY <1>1 DEF Own, IInv, OpInv
<1>5. /\ Plain(op) \in Seq(Commands(K)) /\ Len(Plain(op)) = (IF Own' THEN 1 ELSE 0)
      /\ Own' => Plain(op)[1] = op
  <2>1. CASE HasCommand(op.kind)
    <3>1. op \in Commands(K)
      BY <1>2, <2>1 DEF HasCommand, Commands, Delayable
    <3> QED BY <1>4, <2>1, <3>1 DEF Plain
  <2>2. CASE ~HasCommand(op.kind)
    BY <1>4, <2>2 DEF Plain
  <2> QED BY <2>1, <2>2
<1>6. unsent \in Seq(Commands(K))
  BY <1>2, MoreKinds DEF Delayable
<1>7. /\ c2s' \in Seq(Commands(K))
      /\ Len(c2s') = C + U + (IF Own' THEN 1 ELSE 0)
      /\ \A i \in 1 .. C : c2s'[i] = c2s[i]
      /\ \A i \in 1 .. U : c2s'[C + i] = unsent[i]
      /\ Own' => c2s'[C + U + 1] = op
  <2> DEFINE x == unsent \o Plain(op)
  <2>1. x \in Seq(Commands(K)) /\ Joined(unsent, Plain(op), x)
    BY <1>5, <1>6, ConcatJoins
  <2> HIDE DEF x
  <2>2. c2s' \in Seq(Commands(K)) /\ Joined(c2s, x, c2s')
    BY <1>1, <1>2, <2>1, ConcatJoins DEF x
  <2>3. Len(c2s') = C + U + (IF Own' THEN 1 ELSE 0)
    <3>1. Len(x) = U + (IF Own' THEN 1 ELSE 0) /\ Len(c2s') = C + Len(x)
      BY <1>5, <2>1, <2>2 DEF Joined
    <3> QED BY ONLY <1>3, <3>1
  <2>4. \A i \in 1 .. U : c2s'[C + i] = unsent[i]
    <3> SUFFICES ASSUME NEW i \in 1 .. U PROVE c2s'[C + i] = unsent[i]
      OBVIOUS
    <3>1. i \in 1 .. Len(x) /\ x[i] = unsent[i]
      BY ONLY <1>3, <1>5, <2>1 DEF Joined
    <3> QED BY ONLY <2>2, <3>1 DEF Joined
  <2>5. ASSUME Own' PROVE c2s'[C + U + 1] = op
    <3>1. U + 1 \in 1 .. Len(x) /\ x[U + 1] = op
      BY ONLY <1>3, <1>5, <2>1, <2>5 DEF Joined
    <3>2. c2s'[C + (U + 1)] = op
      BY ONLY <2>2, <3>1 DEF Joined
    <3> QED BY ONLY <1>3, <3>2
  <2> QED BY <2>2, <2>3, <2>4, <2>5 DEF Joined
<1> HIDE DEF C, U
<1>8. ASSUME NEW i \in 1 .. C + U
      PROVE  i \in 1 .. C \/ \E j \in 1 .. U : i = C + j
  <2>1. i \in 1 .. C \/ (i - C \in 1 .. U /\ i = C + (i - C))
    BY ONLY <1>3
  <2> QED BY <2>1
<1>9. TypeOK'
  <2>1. Len(unsent') <= Len(responses)
    BY <1>1, <1>3
  <2>2. unsent' \in Seq(Commands({"cleanup"}))
    BY <1>1
  <2> QED BY <1>1, <1>7, <2>1, <2>2 DEF IInv, TypeOK
<1>10. OpInv'
  BY <1>1 DEF IInv, OpInv
<1>11. NumberInv'
  <2>1. Numbered(pending)' /\ Numbered(unsent)' /\ Len(unsent') = 0
    BY <1>1 DEF IInv, NumberInv, Numbered
  <2>0. open
    BY <1>1 DEF IInv, OpInv
  <2>2. ASSUME NEW i \in 1 .. C + U
        PROVE  c2s'[i].n \in 1 .. issued /\ c2s'[i].kind \in Delayable /\ c2s'[i].n # op.n
    <3>1. CASE i \in 1 .. C
      BY <1>4, <1>7, <2>0, <3>1 DEF IInv, NumberInv, Numbered, C
    <3>2. CASE \E j \in 1 .. U : i = C + j
      <4>1. PICK j \in 1 .. U : i = C + j
        BY <3>2
      <4>2. c2s'[i] = unsent[j]
        BY <1>7, <4>1
      <4>3. unsent[j].n \in 1 .. issued /\ unsent[j].n # op.n
        BY DEF IInv, NumberInv, Numbered, U
      <4>4. unsent[j].kind = "cleanup"
        BY <1>2, Element DEF U
      <4> QED BY <4>2, <4>3, <4>4 DEF Delayable
    <3> QED BY <1>8, <3>1, <3>2
  <2>3. ASSUME Own' PROVE op.n \in 1 .. issued
    BY <1>1, <2>3 DEF Own, IInv, TypeOK
  <2>4. ASSUME NEW i \in 1 .. Len(c2s')
        PROVE  IF Own' /\ i = Len(c2s') THEN c2s'[i] = op /\ c2s'[i].n \in 1 .. issued
               ELSE c2s'[i].n \in 1 .. issued /\ c2s'[i].kind \in Delayable /\ c2s'[i].n # op.n
    <3>1. CASE Own' /\ i = Len(c2s')
      <4>1. i = C + U + 1
        BY <1>3, <1>7, <3>1
      <4> QED BY <1>7, <2>3, <3>1, <4>1
    <3>2. CASE ~(Own' /\ i = Len(c2s'))
      <4>1. i \in 1 .. C + U
        BY <1>3, <1>7, <3>2
      <4> QED BY <2>2, <3>2, <4>1
    <3> QED BY <3>1, <3>2
  <2> QED BY <1>1, <2>1, <2>4 DEF NumberInv, Numbered
<1>12. PipeInv'
  <2> SUFFICES ASSUME open PROVE PipeInv'
    BY <1>1 DEF PipeInv
  <2>1. Len(s2c) + C + U = Len(responses)
    BY <1>3, <1>4 DEF IInv, PipeInv, C, U
  <2>2. ASSUME NEW i \in 1 .. Len(s2c) PROVE i <= Len(responses) /\ s2c[i].n = responses[i].n
    <3>1. i <= Len(responses)
      BY ONLY <1>3, <2>1
    <3> QED BY <3>1 DEF IInv, PipeInv
  <2>3. ASSUME NEW i \in 1 .. Len(c2s'), Len(s2c) + i <= Len(responses)
        PROVE  responses[Len(s2c) + i] = Expected(c2s'[i])
    <3>1. i \in 1 .. C + U
      BY ONLY <1>3, <1>7, <2>1, <2>3
    <3>2. CASE i \in 1 .. C
      BY <1>7, <2>3, <3>2 DEF IInv, PipeInv, C
    <3>3. CASE \E j \in 1 .. U : i = C + j
      <4>1. PICK j \in 1 .. U : i = C + j
        BY <3>3
      <4>2. c2s'[i] = unsent[j] /\ responses[Len(s2c) + C + j] = Expected(unsent[j])
        BY <1>7, <4>1 DEF IInv, PipeInv, C, U
      <4>3. Len(s2c) + C + j = Len(s2c) + i
        <5>1. j \in Int
          BY ONLY <1>3
        <5> QED BY ONLY <1>3, <4>1, <5>1
      <4> QED BY <4>2, <4>3
    <3> QED BY <1>8, <3>1, <3>2, <3>3
  <2>4. Len(s2c) + Len(c2s') + Len(unsent') = Len(responses) + (IF Own' THEN 1 ELSE 0)
    <3>1. Len(unsent') = 0
      BY <1>1
    <3> QED BY ONLY <1>3, <1>7, <2>1, <3>1
  <2>5. Len(unsent') = 0
    BY <1>1
  <2> QED BY <1>1, <2>2, <2>3, <2>4, <2>5 DEF PipeInv
<1>13. ModeInv'
  <2> SUFFICES ASSUME open PROVE ModeInv'
    BY <1>1 DEF ModeInv
  <2>1. LeadsTo(c2s, C, mode, autocommit)
    BY <1>4 DEF IInv, ModeInv, C
  <2>2. ASSUME NEW j \in 1 .. U PROVE c2s'[C + j].kind # "auto"
    <3>1. unsent[j].kind = "cleanup"
      BY <1>2, Element DEF U
    <3> QED BY <1>7, <3>1
  <2>3. \A i \in 1 .. C + U : i \in 1 .. C \/ c2s'[i].kind # "auto"
    BY <1>8, <2>2
  <2>4. LeadsTo(c2s', C + U, mode, autocommit)
    <3>1. CASE /\ \A i \in 1 .. C : c2s[i].kind # "auto"
               /\ autocommit = mode
      BY <1>7, <2>3, <3>1 DEF LeadsTo
    <3>2. CASE \E k \in 1 .. C :
                 /\ c2s[k].kind = "auto" /\ autocommit = c2s[k].enabled
                 /\ \A i \in k + 1 .. C : c2s[i].kind # "auto"
      <4>1. PICK k \in 1 .. C :
              /\ c2s[k].kind = "auto" /\ autocommit = c2s[k].enabled
              /\ \A i \in k + 1 .. C : c2s[i].kind # "auto"
        BY <3>2
      <4>2. k \in 1 .. C + U /\ c2s'[k] = c2s[k]
        BY <1>3, <1>7
      <4>3. ASSUME NEW i \in k + 1 .. C + U PROVE c2s'[i].kind # "auto"
        <5>1. i \in 1 .. C + U /\ (i \in 1 .. C => i \in k + 1 .. C)
          BY ONLY <1>3
        <5> QED BY <1>7, <2>3, <4>1, <5>1
      <4> QED BY <4>1, <4>2, <4>3 DEF LeadsTo
    <3> QED BY <2>1, <3>1, <3>2 DEF LeadsTo
  <2>5. CASE Own'
    <3>1. Len(c2s') - 1 = C + U /\ c2s' # <<>>
      BY <1>3, <1>7, <2>5
    <3> QED BY <1>1, <2>4, <2>5, <3>1 DEF ModeInv
  <2>6. CASE ~Own'
    <3>1. Len(c2s') = C + U
      BY <1>3, <1>7, <2>6
    <3> QED BY <1>1, <2>4, <2>6, <3>1 DEF ModeInv
  <2> QED BY <2>5, <2>6
<1>14. FaultInv'
  BY <1>1 DEF IInv, FaultInv, Counts
<1> QED BY <1>9, <1>10, <1>11, <1>12, <1>13, <1>14 DEF IInv

(* The response to a delayed command.                                       *)
LEMMA ReceiveStep == IInv /\ ReceiveDelayed => IInv'
<1> SUFFICES ASSUME IInv, ReceiveDelayed PROVE IInv'
  OBVIOUS
<1> DEFINE A == Len(s2c)
           R == Len(responses)
<1>1. /\ pc = "receive" /\ responses # <<>> /\ s2c # <<>>
      /\ delayed_error' = FirstError(Head(s2c))
      /\ responses' = Tail(responses) /\ s2c' = Tail(s2c)
      /\ UNCHANGED <<unsent, pending, issued, c2s, pc, op, autocommit, open, mode, faults,
                     ret>>
  BY DEF ReceiveDelayed
<1>2. /\ s2c \in Seq(Answers) /\ responses \in Seq(Responses) /\ Len(c2s) \in Nat
      /\ unsent = <<>> /\ Len(unsent) = 0 /\ open
  BY <1>1 DEF IInv, TypeOK, OpInv
<1>3. /\ A \in Nat /\ A >= 1 /\ R \in Nat /\ R >= 1
      /\ s2c' \in Seq(Answers) /\ Len(s2c') = A - 1 /\ Head(s2c) = s2c[1] /\ s2c[1] \in Answers
      /\ responses' \in Seq(Responses) /\ Len(responses') = R - 1
      /\ Head(responses) = responses[1] /\ responses[1] \in Responses
      /\ \A i \in 1 .. A - 1 : s2c'[i] = s2c[i + 1]
      /\ \A i \in 1 .. R - 1 : responses'[i] = responses[i + 1]
  BY <1>1, <1>2, TailIs
<1>4. Own' = Own
  BY <1>1 DEF Own
<1>5. A + Len(c2s) = R + (IF Own THEN 1 ELSE 0)
  BY <1>2, <1>3 DEF IInv, PipeInv
<1>6. TypeOK'
  <2>1. delayed_error' \in BOOLEAN
    BY <1>1, Zenon DEF FirstError
  <2>2. Len(unsent') <= Len(responses')
    BY <1>1, <1>2, <1>3
  <2> QED BY <1>1, <1>3, <2>1, <2>2 DEF IInv, TypeOK
<1>7. OpInv' /\ NumberInv'
  BY <1>1, <1>4 DEF IInv, OpInv, NumberInv, Numbered
<1>8. PipeInv'
  <2>1. ASSUME NEW i \in 1 .. A - 1
        PROVE  s2c'[i].n = IF i <= R - 1 THEN responses'[i].n ELSE op.n
    <3>1. /\ i + 1 \in 1 .. A /\ (i <= R - 1 <=> i + 1 <= R)
          /\ (i <= R - 1 => i \in 1 .. R - 1)
      BY ONLY <1>3
    <3>2. s2c[i + 1].n = IF i + 1 <= R THEN responses[i + 1].n ELSE op.n
      BY <1>2, <3>1 DEF IInv, PipeInv
    <3> QED BY ONLY <1>3, <3>1, <3>2
  <2>2. ASSUME NEW i \in 1 .. Len(c2s), (A - 1) + i <= R - 1
        PROVE  responses'[(A - 1) + i] = Expected(c2s[i])
    <3>1. /\ A + i <= R /\ (A - 1) + i \in 1 .. R - 1 /\ ((A - 1) + i) + 1 = A + i
      BY ONLY <1>2, <1>3, <2>2
    <3>2. responses[A + i] = Expected(c2s[i])
      BY <1>2, <3>1 DEF IInv, PipeInv
    <3> QED BY ONLY <1>3, <3>1, <3>2
  <2>3. (A - 1) + Len(c2s) + Len(unsent) = (R - 1) + (IF Own THEN 1 ELSE 0)
    BY ONLY <1>2, <1>3, <1>5
  <2>4. /\ A - 1 = Len(s2c') /\ R - 1 = Len(responses') /\ c2s' = c2s /\ op' = op
        /\ unsent' = unsent
    BY <1>1, <1>3
  <2> HIDE DEF A, R
  <2>5. \A i \in 1 .. Len(s2c') :
          s2c'[i].n = IF i <= Len(responses') THEN responses'[i].n ELSE op'.n
    BY ONLY <2>1, <2>4
  <2>6. \A i \in 1 .. Len(c2s') : Len(s2c') + i <= Len(responses') =>
          responses'[Len(s2c') + i] = Expected(c2s'[i])
    BY ONLY <2>2, <2>4
  <2>7. Len(s2c') + Len(c2s') + Len(unsent') = Len(responses') + (IF Own' THEN 1 ELSE 0)
    BY ONLY <1>4, <2>3, <2>4
  <2>8. Len(unsent') = 0
    BY <1>2, <2>4
  <2> QED BY <2>5, <2>6, <2>7, <2>8 DEF PipeInv
<1>9. ModeInv'
  <2>1. ASSUME Own, c2s = <<>> PROVE s2c'[Len(s2c')] = s2c[A]
    <3>1. A - 1 \in 1 .. A - 1 /\ (A - 1) + 1 = A
      <4>1. Len(c2s) = 0
        BY <2>1
      <4> QED BY <1>2, <1>3, <1>5, <2>1, <4>1
    <3> QED BY ONLY <1>3, <3>1
  <2>2. /\ c2s' = c2s /\ op' = op /\ open' = open /\ mode' = mode
        /\ autocommit' = autocommit
    BY <1>1
  <2> QED BY <1>4, <2>1, <2>2, SameReading DEF IInv, ModeInv, LeadsTo
<1>10. FaultInv'
  <2>1. ASSUME NEW i \in 1 .. A - 1 PROVE i + 1 \in 1 .. A /\ (Counts(i)' <=> Counts(i + 1))
    <3>1. /\ i + 1 \in 1 .. A /\ (i <= R - 1 <=> i + 1 <= R)
          /\ (i <= R - 1 => i \in 1 .. R - 1)
      BY ONLY <1>3
    <3>2. /\ s2c'[i] = s2c[i + 1] /\ Len(responses') = R - 1
          /\ i <= R - 1 => responses'[i] = responses[i + 1]
      BY ONLY <1>3, <3>1
    <3> HIDE DEF A, R
    <3> QED BY <3>1, <3>2 DEF Counts, R
  <2>2. ASSUME NEW i \in 1 .. A PROVE i = 1 \/ \E j \in 1 .. A - 1 : i = j + 1
    <3>1. i = 1 \/ (i - 1 \in 1 .. A - 1 /\ i = (i - 1) + 1)
      BY ONLY <1>3
    <3> QED BY <3>1
  <2>3. 1 \in 1 .. A /\ 1 <= R
    BY ONLY <1>3
  <2>4. delayed_error' <=> delayed_error \/ Counts(1)
    BY <1>1, <1>3, <2>3 DEF FirstError, Counts
  <2>5. (\E i \in 1 .. A : Counts(i)) <=> Counts(1) \/ \E i \in 1 .. A - 1 : Counts(i)'
    BY <2>1, <2>2, <2>3
  <2>6. faults # {} <=> delayed_error \/ \E i \in 1 .. A : Counts(i)
    BY <1>1, <1>2 DEF IInv, FaultInv
  <2>7. faults' # {} <=> delayed_error' \/ \E i \in 1 .. Len(s2c') : Counts(i)'
    BY <1>1, <1>3, <2>4, <2>5, <2>6
  <2> QED BY <1>1, <2>7 DEF FaultInv
<1> QED BY <1>6, <1>7, <1>8, <1>9, <1>10 DEF IInv

(* When an operation has its answer nothing is under way, and the error it  *)
(* returns is that of a command that failed.                                *)
LEMMA FinishFacts ==
  ASSUME IInv, ReturnClose \/ ReceiveAnswer
  PROVE  /\ Len(c2s) = 0 /\ Len(unsent) = 0 /\ Len(responses) = 0 /\ s2c' = <<>>
         /\ autocommit' = mode /\ ret' \in {"ok", "err"}
         /\ ret' = "err" <=> faults # {}
<1>1. /\ pc = "receive" /\ responses = <<>> /\ unsent = <<>> /\ open
      /\ Len(responses) = 0 /\ Len(unsent) = 0
  BY DEF IInv, OpInv, ReturnClose, ReceiveAnswer
<1>2. /\ s2c \in Seq(Answers) /\ c2s \in Seq(Commands(Delayable \cup {"statement", "raw"}))
      /\ Len(s2c) \in Nat /\ Len(c2s) \in Nat /\ delayed_error \in BOOLEAN
  BY DEF IInv, TypeOK
<1>3. Len(s2c) + Len(c2s) = (IF Own THEN 1 ELSE 0)
  BY <1>1, <1>2 DEF IInv, PipeInv
<1>4. faults # {} <=> delayed_error \/ \E i \in 1 .. Len(s2c) : s2c[i].error
  BY <1>1, <1>2 DEF IInv, FaultInv, Counts
<1>5. CASE ReturnClose
  <2>1. ~Own
    BY <1>5 DEF ReturnClose, Own, IInv, OpInv, HasCommand
  <2>2. Len(s2c) = 0 /\ Len(c2s) = 0 /\ s2c = <<>>
    BY <1>2, <1>3, <2>1
  <2>3. autocommit = mode
    BY <1>1, <2>1, <2>2 DEF IInv, ModeInv, LeadsTo
  <2>4. ret' = IF delayed_error THEN "err" ELSE "ok"
    BY <1>5 DEF ReturnClose, Finish
  <2> QED BY <1>1, <1>4, <1>5, <2>2, <2>3, <2>4 DEF ReturnClose
<1>6. CASE ReceiveAnswer
  <2>1. Own /\ s2c # <<>>
    BY <1>1, <1>6 DEF ReceiveAnswer, Own, IInv, OpInv
  <2>2. Len(s2c) = 1 /\ Len(c2s) = 0 /\ c2s = <<>>
    <3>1. Len(s2c) >= 1
      BY <1>2, <2>1, TailIs
    <3>2. Len(s2c) + Len(c2s) = 1 /\ Len(s2c) \in Nat /\ Len(c2s) \in Nat
      BY ONLY <1>2, <1>3, <2>1
    <3>3. Len(s2c) = 1 /\ Len(c2s) = 0
      <4>1. \A a, b \in Nat : a >= 1 /\ a + b = 1 => a = 1 /\ b = 0
        OBVIOUS
      <4> QED BY ONLY <3>1, <3>2, <4>1, Zenon
    <3>4. c2s = <<>>
      BY ONLY <1>2, <3>3
    <3> QED BY <3>3, <3>4
  <2>3. Head(s2c) = s2c[1] /\ Tail(s2c) = <<>>
    <3>1. Tail(s2c) \in Seq(Answers) /\ Len(Tail(s2c)) = 0
      BY <1>2, <2>1, <2>2, TailIs
    <3>2. Tail(s2c) = <<>>
      BY <3>1, NothingLeft
    <3> QED BY <1>2, <2>1, <3>2, TailIs
  <2>4. /\ NewAutocommit(s2c[1]) = mode
        /\ op.kind = "auto" /\ ~s2c[1].error => Confirmed(s2c[1])
    BY <1>1, <2>1, <2>2 DEF IInv, ModeInv
  <2>5. /\ autocommit' = NewAutocommit(s2c[1]) /\ s2c' = <<>>
        /\ ret' = IF delayed_error \/ s2c[1].error \/ (op.kind = "auto" /\ ~Confirmed(s2c[1]))
                  THEN "err" ELSE "ok"
    BY <1>6, <2>3 DEF ReceiveAnswer, Finish
  <2>6. faults # {} <=> delayed_error \/ s2c[1].error
    BY <1>4, <2>2
  <2> QED BY <1>1, <2>2, <2>4, <2>5, <2>6
<1> QED BY <1>5, <1>6

(* The operation returns.                                                   *)
LEMMA FinishStep ==
  ASSUME IInv, ReturnClose \/ ReceiveAnswer
  PROVE  IInv'
<1>0. /\ Len(c2s) = 0 /\ Len(unsent) = 0 /\ Len(responses) = 0 /\ s2c' = <<>>
      /\ autocommit' = mode /\ ret' \in {"ok", "err"}
  BY FinishFacts, Zenon
<1>1. /\ Len(c2s) = 0 /\ Len(unsent) = 0 /\ Len(responses) = 0 /\ s2c' = <<>> /\ Len(s2c') = 0
      /\ autocommit' = mode /\ ret' \in {"ok", "err"} /\ s2c' \in Seq(Answers)
  BY <1>0
<1>2. /\ pc' = "idle" /\ op' = NoOp /\ faults' = {}
      /\ UNCHANGED <<unsent, responses, pending, issued, c2s, open, mode, delayed_error>>
  BY DEF ReturnClose, ReceiveAnswer, Finish, clientVars
<1>3. op'.kind = "none" /\ op'.n = 0 /\ op' \in Commands(Kinds \cup {"none"}) /\ ~Own'
  BY <1>2 DEF NoOp, Commands, Own
<1>4. issued \in Nat /\ op'.n \in 0 .. issued
  BY <1>3 DEF IInv, TypeOK
<1>5. TypeOK'
  BY <1>1, <1>2, <1>3, <1>4 DEF IInv, TypeOK
<1>6. OpInv'
  BY <1>2, <1>3 DEF OpInv, HasCommand
<1>7. NumberInv'
  BY <1>1, <1>2, <1>3, <1>4 DEF IInv, NumberInv, Numbered
<1>8. PipeInv'
  BY <1>1, <1>2, <1>3 DEF PipeInv
<1>9. ModeInv' /\ FaultInv'
  BY <1>1, <1>2, <1>3 DEF ModeInv, FaultInv, LeadsTo
<1> QED BY <1>5, <1>6, <1>7, <1>8, <1>9 DEF IInv

(* The server has worked on the first of the commands.                      *)
LEMMA ServedLeads ==
  ASSUME NEW c, NEW d, NEW number \in Nat, number >= 1,
         \A i \in 1 .. number - 1 : d[i] = c[i + 1],
         NEW m, NEW x, LeadsTo(c, number, m, x)
  PROVE  LeadsTo(d, number - 1, IF c[1].kind = "auto" THEN c[1].enabled ELSE m, x)
<1>1. ASSUME NEW i \in 1 .. number PROVE i = 1 \/ i - 1 \in 1 .. number - 1
  OBVIOUS
<1>2. \A i \in 1 .. number - 1 : i + 1 \in 1 .. number /\ d[i] = c[i + 1]
  OBVIOUS
<1>3. CASE (\A i \in 1 .. number : c[i].kind # "auto") /\ x = m
  <2>1. 1 \in 1 .. number
    OBVIOUS
  <2> QED BY <1>2, <1>3, <2>1 DEF LeadsTo
<1>4. CASE \E k \in 1 .. number :
             /\ c[k].kind = "auto" /\ x = c[k].enabled
             /\ \A i \in k + 1 .. number : c[i].kind # "auto"
  <2>1. PICK k \in 1 .. number :
          /\ c[k].kind = "auto" /\ x = c[k].enabled
          /\ \A i \in k + 1 .. number : c[i].kind # "auto"
    BY <1>4
  <2>2. CASE k = 1
    <3>1. ASSUME NEW i \in 1 .. number - 1 PROVE d[i].kind # "auto"
      <4>1. i + 1 \in k + 1 .. number
        BY <2>2
      <4> QED BY <1>2, <2>1, <4>1
    <3> QED BY <2>1, <2>2, <3>1 DEF LeadsTo
  <2>3. CASE k # 1
    <3>1. k - 1 \in 1 .. number - 1 /\ (k - 1) + 1 = k
      BY <2>3
    <3>2. d[k - 1] = c[k]
      BY ONLY <1>2, <3>1
    <3>3. ASSUME NEW i \in (k - 1) + 1 .. number - 1 PROVE d[i].kind # "auto"
      <4>1. i \in 1 .. number - 1 /\ i + 1 \in k + 1 .. number
        BY <3>1
      <4> QED BY <1>2, <2>1, <4>1
    <3> QED BY <2>1, <3>1, <3>2, <3>3 DEF LeadsTo
  <2> QED BY <2>2, <2>3
<1> QED BY <1>3, <1>4 DEF LeadsTo

(* The server answers a command.                                            *)
LEMMA ServeStep ==
  ASSUME IInv, NEW error \in BOOLEAN, NEW new \in BOOLEAN, NEW tells \in BOOLEAN,
         Serve(error, new, tells)
  PROVE  IInv'
<1> DEFINE A == Len(s2c)
           C == Len(c2s)
           R == Len(responses)
           U == Len(unsent)
           command == c2s[1]
           notice == IF tells THEN {new} ELSE {}
           answer == [n |-> command.n, error |-> error, notice |-> notice]
           K == Delayable \cup {"statement", "raw"}
<1>1. /\ c2s # <<>> /\ c2s \in Seq(Commands(K)) /\ s2c \in Seq(Answers)
      /\ responses \in Seq(Responses) /\ unsent \in Seq(Commands({"cleanup"}))
      /\ issued \in Nat
  BY DEF Serve, IInv, TypeOK
<1>2. /\ C \in Nat /\ C >= 1 /\ c2s' \in Seq(Commands(K)) /\ Len(c2s') = C - 1
      /\ Head(c2s) = command /\ command \in Commands(K)
      /\ \A i \in 1 .. C - 1 : c2s'[i] = c2s[i + 1]
  <2>1. c2s' = Tail(c2s)
    BY DEF Serve
  <2> QED BY <1>1, <2>1, TailIs
<1>3. /\ mode' = new /\ s2c' = Append(s2c, answer)
      /\ faults' = IF error /\ command.kind # "cleanup"
                     THEN faults \cup {command.n} ELSE faults
      /\ UNCHANGED <<unsent, responses, pending, issued, pc, op, delayed_error, autocommit,
                     open, ret>>
  BY <1>2 DEF Serve, Answer, clientVars
<1>4. /\ command.kind = "statement" => (new # mode => tells)
      /\ command.kind = "auto" =>
           \/ new = command.enabled
           \/ error /\ command.enabled /\ tells /\ command.n = op.n
      /\ command.kind \notin {"statement", "auto"} => new = mode /\ ~tells
  BY <1>2 DEF Serve
<1>5. answer \in Answers
  <2>1. notice \in SUBSET BOOLEAN /\ command.n \in Nat
    BY <1>2 DEF Commands
  <2> HIDE DEF notice, command
  <2> QED BY <2>1 DEF Answers
<1>6. A \in Nat /\ R \in Nat /\ U \in Nat
  BY <1>1
<1>7. /\ s2c' \in Seq(Answers) /\ Len(s2c') = A + 1 /\ s2c'[A + 1] = answer
      /\ \A i \in 1 .. A : s2c'[i] = s2c[i]
  <2> HIDE DEF answer
  <2> QED BY <1>1, <1>3, <1>5
<1>8. answer.n = command.n /\ answer.error = error /\ answer.notice = notice
  OBVIOUS
<1> HIDE DEF A, C, R, U, answer, notice
<1>9. Own' = Own /\ Own \in BOOLEAN
  BY <1>3 DEF Own
<1>10. command.n \in 1 .. issued
  BY <1>2 DEF IInv, NumberInv, Numbered, C
<1>11. TypeOK'
  <2>1. faults' \subseteq 1 .. issued
    BY <1>3, <1>10 DEF IInv, TypeOK
  <2> QED BY <1>2, <1>3, <1>7, <2>1 DEF IInv, TypeOK
<1>12. OpInv'
  BY <1>3 DEF IInv, OpInv
<1>13. NumberInv'
  <2>1. ASSUME NEW i \in 1 .. C - 1
        PROVE  /\ c2s'[i] = c2s[i + 1] /\ i + 1 \in 1 .. C /\ (i = C - 1 <=> i + 1 = C)
    BY <1>2
  <2> HIDE DEF command
  <2>2. \A i \in 1 .. C - 1 : c2s'[i].n \in 1 .. issued
    BY <2>1 DEF IInv, NumberInv, Numbered, C
  <2>3. ASSUME open, NEW i \in 1 .. C - 1
        PROVE  IF Own /\ i = C - 1 THEN c2s'[i] = op
               ELSE c2s'[i].kind \in Delayable /\ c2s'[i].n # op.n
    BY <2>1, <2>3 DEF IInv, NumberInv, C
  <2>4. Len(c2s') = C - 1
    BY <1>2
  <2>5. Numbered(pending)' /\ Numbered(unsent)' /\ Numbered(c2s)'
    BY <1>3, <2>2, <2>4 DEF IInv, NumberInv, Numbered
  <2>6. \A i \in 1 .. Len(unsent') : unsent'[i].n # op'.n
    BY <1>3 DEF IInv, NumberInv
  <2> QED BY <1>3, <1>9, <2>3, <2>4, <2>5, <2>6 DEF NumberInv
<1> HIDE DEF command
<1>14. ASSUME open
       PROVE  /\ A + C + U = R + (IF Own THEN 1 ELSE 0)
              /\ A + 1 <= R => responses[A + 1] = Expected(command)
              /\ A + 1 > R => Own /\ C = 1
              /\ Own /\ C = 1 => command = op
              /\ ~(Own /\ C = 1) => command.kind \in Delayable /\ command.n # op.n
  <2>1. A + C + U = R + (IF Own THEN 1 ELSE 0)
    BY <1>14 DEF IInv, PipeInv, A, C, U, R
  <2>2. 1 \in 1 .. C
    BY ONLY <1>2
  <2>3. A + 1 <= R => responses[A + 1] = Expected(command)
    BY <1>14, <2>2 DEF IInv, PipeInv, A, C, R, command
  <2>4. A + 1 > R => Own /\ C = 1
    <3>1. \A a, c, u, r \in Nat : c >= 1 /\ a + 1 > r =>
            (a + c + u = r + 1 => c = 1) /\ a + c + u # r + 0
      OBVIOUS
    <3>2. /\ A + 1 > R => (A + C + U = R + 1 => C = 1) /\ A + C + U # R + 0
      BY ONLY <1>2, <1>6, <3>1
    <3> QED BY ONLY <2>1, <3>2
  <2>5. IF Own /\ 1 = C THEN command = op
        ELSE command.kind \in Delayable /\ command.n # op.n
    BY <1>14, <2>2 DEF IInv, NumberInv, C, command
  <2> QED BY <2>1, <2>3, <2>4, <2>5
<1>15. PipeInv'
  <2> SUFFICES ASSUME open PROVE PipeInv'
    BY <1>3 DEF PipeInv
  <2>1. Len(s2c') + Len(c2s') + Len(unsent') = Len(responses') + (IF Own' THEN 1 ELSE 0)
    <3>1. \A a, c, u \in Nat : (a + 1) + (c - 1) + u = a + c + u
      OBVIOUS
    <3>2. (A + 1) + (C - 1) + U = R + (IF Own THEN 1 ELSE 0)
      BY <1>2, <1>6, <1>14, <3>1
    <3> QED BY <1>2, <1>3, <1>7, <1>9, <3>2 DEF U, R
  <2>2. ASSUME NEW i \in 1 .. A + 1
        PROVE  s2c'[i].n = IF i <= R THEN responses[i].n ELSE op.n
    <3>1. CASE i \in 1 .. A
      BY <1>7, <3>1 DEF IInv, PipeInv, A, R
    <3>2. CASE i = A + 1 /\ A + 1 <= R
      BY <1>7, <1>8, <1>14, <3>2 DEF Expected
    <3>3. CASE i = A + 1 /\ A + 1 > R
      <4>1. command = op /\ ~(A + 1 <= R)
        BY <1>6, <1>14, <3>3
      <4> QED BY <1>7, <1>8, <3>3, <4>1
    <3>4. (i \in 1 .. A \/ i = A + 1) /\ (A + 1 <= R \/ A + 1 > R)
      BY ONLY <1>6
    <3> QED BY <3>1, <3>2, <3>3, <3>4
  <2>3. ASSUME NEW i \in 1 .. C - 1, (A + 1) + i <= R
        PROVE  responses[(A + 1) + i] = Expected(c2s'[i])
    <3>1. i + 1 \in 1 .. C /\ (A + 1) + i = A + (i + 1)
      BY ONLY <1>2, <1>6
    <3>2. responses[A + (i + 1)] = Expected(c2s[i + 1])
      BY <2>3, <3>1 DEF IInv, PipeInv, A, C, R
    <3> QED BY <1>2, <3>1, <3>2
  <2>4. ASSUME NEW i \in 1 .. U
        PROVE  responses[(A + 1) + (C - 1) + i] = Expected(unsent[i])
    <3>1. (A + 1) + (C - 1) + i = A + C + i
      BY ONLY <1>2, <1>6
    <3>2. responses[A + C + i] = Expected(unsent[i])
      BY DEF IInv, PipeInv, A, C, U
    <3> QED BY <3>1, <3>2
  <2> QED BY <1>2, <1>3, <1>7, <2>1, <2>2, <2>3, <2>4 DEF PipeInv, U, R
<1>16. ModeInv'
  <2> SUFFICES ASSUME open PROVE ModeInv'
    BY <1>3 DEF ModeInv
  <2>1. CASE ~(Own /\ C = 1)
    <3>1. command.kind \in Delayable /\ command.n # op.n
      BY <1>14, <2>1
    <3>2. mode' = IF command.kind = "auto" THEN command.enabled ELSE mode
      BY <1>3, <1>4, <3>1 DEF Delayable
    <3>3. CASE ~Own
      <4>1. LeadsTo(c2s, C, mode, autocommit)
        BY <3>3 DEF IInv, ModeInv, C
      <4>2. LeadsTo(c2s', C - 1, mode', autocommit)
        BY <1>2, <3>2, <4>1, ServedLeads DEF command
      <4> QED BY <1>2, <1>3, <1>9, <3>3, <4>2 DEF ModeInv
    <3>4. CASE Own
      <4>1. LeadsTo(c2s, C - 1, mode, autocommit)
        BY <1>1, <3>4 DEF IInv, ModeInv, C
      <4>2. /\ C - 1 \in Nat /\ C - 1 >= 1 /\ (C - 1) - 1 = Len(c2s') - 1
            /\ \A i \in 1 .. (C - 1) - 1 : c2s'[i] = c2s[i + 1]
        BY <1>2, <2>1, <3>4
      <4>3. LeadsTo(c2s', Len(c2s') - 1, mode', autocommit)
        BY <3>2, <4>1, <4>2, ServedLeads DEF command
      <4>4. c2s' # <<>>
        BY <1>2, <4>2
      <4> QED BY <1>3, <1>9, <3>4, <4>3, <4>4 DEF ModeInv
    <3> QED BY <3>3, <3>4
  <2>2. CASE Own /\ C = 1
    <3>1. command = op /\ LeadsTo(c2s, C - 1, mode, autocommit)
      BY <1>1, <1>14, <2>2 DEF IInv, ModeInv, C
    <3>2. autocommit = mode
      BY <2>2, <3>1 DEF LeadsTo
    <3>3. c2s' = <<>> /\ s2c'[Len(s2c')] = answer
      <4>1. c2s' = <<>>
        BY <1>2, <2>2, NothingLeft
      <4> QED BY <1>7, <4>1
    <3>4. op.kind \in {"statement", "raw", "auto"}
      BY <2>2 DEF Own, IInv, OpInv, HasCommand
    <3>5. \A default : Told(answer, default) = IF tells THEN new ELSE default
      <4>1. (CHOOSE m \in {new} : TRUE) = new
        OBVIOUS
      <4> QED BY <1>8, <4>1 DEF Told, notice
    <3>6. op.kind = "auto" => (Confirmed(answer) <=> ~error /\ (tells => new = op.enabled))
      BY <1>8 DEF Confirmed, notice
    <3>7. op.kind = "auto" /\ ~error => Confirmed(answer)
      BY <1>4, <3>1, <3>6
    <3>8. NewAutocommit(answer) = new
      <4>1. CASE op.kind = "statement"
        BY <1>4, <3>1, <3>2, <3>5, <4>1 DEF NewAutocommit
      <4>2. CASE op.kind = "raw"
        BY <1>4, <3>1, <3>2, <4>2 DEF NewAutocommit
      <4>3. CASE op.kind = "auto"
        <5>1. CASE error
          BY <1>4, <1>8, <3>1, <3>5, <3>6, <4>3, <5>1 DEF NewAutocommit, ModeOnError
        <5>2. CASE ~error
          BY <1>4, <3>1, <3>7, <4>3, <5>2 DEF NewAutocommit
        <5> QED BY <5>1, <5>2
      <4> QED BY <3>4, <4>1, <4>2, <4>3
    <3>9. op' = op /\ autocommit' = autocommit
      BY <1>3
    <3>10. PICK a : a = answer
      OBVIOUS
    <3>11. NewAutocommit(a)' = NewAutocommit(a) /\ (Confirmed(a)' <=> Confirmed(a))
      BY <3>9, SameReading
    <3>12. /\ NewAutocommit(a)' = mode'
           /\ op'.kind = "auto" /\ ~a.error => Confirmed(a)'
      BY <1>3, <1>8, <3>7, <3>8, <3>9, <3>10, <3>11
    <3>13. c2s' = <<>> /\ s2c'[Len(s2c')] = a
      BY <3>3, <3>10
    <3> QED BY <1>9, <2>2, <3>12, <3>13 DEF ModeInv
  <2> QED BY <2>1, <2>2
<1>17. FaultInv'
  <2> SUFFICES ASSUME open PROVE FaultInv'
    BY <1>3 DEF FaultInv
  <2>1. \A i \in 1 .. A : Counts(i)' <=> Counts(i)
    BY <1>3, <1>7 DEF Counts
  <2>0. PICK k : k = A + 1
    OBVIOUS
  <2>2. Counts(k)' <=> error /\ command.kind # "cleanup"
    <3>1. Counts(k)' <=> error /\ ~(A + 1 <= R /\ responses[A + 1].ignore)
      BY <1>3, <1>7, <1>8, <2>0 DEF Counts, R
    <3>2. CASE A + 1 <= R
      <4>0. responses[A + 1] = Expected(command)
        BY <1>14, <3>2
      <4>1. Expected(command).ignore = (command.kind = "cleanup")
        BY Zenon DEF Expected
      <4>2. responses[A + 1].ignore = (command.kind = "cleanup")
        BY ONLY <4>0, <4>1, Zenon
      <4> QED BY <3>1, <3>2, <4>2
    <3>3. CASE A + 1 > R
      <4>1. command = op /\ Own /\ ~(A + 1 <= R)
        BY <1>6, <1>14, <3>3
      <4>2. command.kind # "cleanup"
        BY <4>1 DEF Own, IInv, OpInv, HasCommand
      <4> QED BY <3>1, <4>1, <4>2
    <3> QED BY <1>6, <3>2, <3>3
  <2>3. faults' # {} <=> faults # {} \/ (error /\ command.kind # "cleanup")
    BY <1>3
  <2>4. (\E i \in 1 .. A + 1 : Counts(i)') <=> (\E i \in 1 .. A : Counts(i)) \/ Counts(k)'
    <3>1. 1 .. A + 1 = (1 .. A) \cup {k}
      BY ONLY <1>6, <2>0
    <3> QED BY <2>1, <3>1
  <2>5. faults # {} <=> (pc # "idle" /\ delayed_error) \/ \E i \in 1 .. A : Counts(i)
    BY DEF IInv, FaultInv, A
  <2> QED BY <1>3, <1>7, <2>2, <2>3, <2>4, <2>5 DEF FaultInv
<1> QED BY <1>11, <1>12, <1>13, <1>15, <1>16, <1>17 DEF IInv

-----------------------------------------------------------------------------
(* IInv is an invariant of the session: the buffers on both sides agree     *)
(* with what the client expects, through every operation, clean-up and      *)
(* transport error.                                                         *)
THEOREM Invariance == Spec => []IInv
<1>1. IInv /\ [Next]_vars => IInv'
  BY AddStep, BeginStep, QueueStep, SendStep, ReceiveStep, FinishStep, BreakStep, ServeStep
     DEF Next, Client, Server
<1> QED BY InitIInv, <1>1, PTL DEF Spec

(* Whatever is delayed, and whenever, the answers that come back are those  *)
(* that the client is going to read, in their order.                        *)
THEOREM InStep == Spec => []PipelineInStep
<1>1. IInv => PipelineInStep
  <2> SUFFICES ASSUME IInv, open PROVE PipelineInStep
    BY DEF PipelineInStep
  <2> DEFINE K == Delayable \cup {"statement", "raw"}
             S == Answers \cup Commands(K)
             A == Len(s2c)
             C == Len(c2s)
             U == Len(unsent)
             R == Len(responses)
             both == s2c \o c2s
             all == both \o unsent
             own == IF pc = "receive" /\ op.n # 0 THEN <<op.n>> ELSE <<>>
  <2>1. /\ s2c \in Seq(Answers) /\ c2s \in Seq(Commands(K))
        /\ unsent \in Seq(Commands({"cleanup"})) /\ responses \in Seq(Responses)
        /\ op.n \in Nat
    BY DEF IInv, TypeOK
  <2>2. A \in Nat /\ C \in Nat /\ U \in Nat /\ R \in Nat
    BY <2>1
  <2>3. s2c \in Seq(S) /\ c2s \in Seq(S) /\ unsent \in Seq(S)
    <3>1. unsent \in Seq(Commands(K))
      BY <2>1, MoreKinds DEF Delayable
    <3> HIDE DEF K
    <3> QED BY <2>1, <3>1
  <2>4. both \in Seq(S) /\ Joined(s2c, c2s, both) /\ Joined(both, unsent, all) /\ all \in Seq(S)
    <3> HIDE DEF S
    <3>1. both \in Seq(S) /\ Joined(s2c, c2s, both)
      BY <2>3, ConcatJoins
    <3> HIDE DEF both
    <3> QED BY <2>3, <3>1, ConcatJoins
  <2> HIDE DEF both, all
  <2>5. Len(own) = (IF Own THEN 1 ELSE 0) /\ own \in Seq(Nat) /\ (Own => own[1] = op.n)
    BY <2>1 DEF Own
  <2>6. Len(both) = A + C /\ Len(all) = A + C + U /\ A + C + U = R + Len(own)
    <3>1. A + C + U = R + Len(own)
      BY <2>5 DEF IInv, PipeInv
    <3> QED BY <2>4, <3>1 DEF Joined
  <2> HIDE DEF own
  <2>7. /\ \A i \in 1 .. A : all[i] = s2c[i]
        /\ \A i \in 1 .. C : all[A + i] = c2s[i]
        /\ \A i \in 1 .. U : all[A + C + i] = unsent[i]
    <3>1. ASSUME NEW i \in 1 .. A PROVE all[i] = s2c[i]
      <4>1. i \in 1 .. Len(both)
        BY ONLY <2>2, <2>6
      <4> QED BY ONLY <2>4, <4>1 DEF Joined
    <3>2. ASSUME NEW i \in 1 .. C PROVE all[A + i] = c2s[i]
      <4>1. A + i \in 1 .. Len(both)
        BY ONLY <2>2, <2>6
      <4> QED BY ONLY <2>4, <4>1 DEF Joined
    <3>3. \A i \in 1 .. U : all[Len(both) + i] = unsent[i]
      BY ONLY <2>4 DEF Joined
    <3> QED BY <2>6, <3>1, <3>2, <3>3
  <2> DEFINE numbers == Numbers(responses) \o own
  <2>8. /\ Numbers(responses) \in Seq(Nat) /\ Len(Numbers(responses)) = R
        /\ \A i \in 1 .. R : Numbers(responses)[i] = responses[i].n
    <3>1. ASSUME NEW i \in 1 .. R PROVE responses[i].n \in Nat
      <4>1. responses[i] \in Responses
        BY <2>1
      <4> QED BY <4>1 DEF Responses
    <3> QED BY <2>2, <3>1 DEF Numbers
  <2>9. /\ numbers \in Seq(Nat) /\ Len(numbers) = R + Len(own)
        /\ \A i \in 1 .. R : numbers[i] = responses[i].n
        /\ Own => numbers[R + 1] = op.n
    <3>1. numbers \in Seq(Nat) /\ Joined(Numbers(responses), own, numbers)
      BY <2>5, <2>8, ConcatJoins
    <3> HIDE DEF numbers
    <3>2. Own => 1 \in 1 .. Len(own)
      BY <2>5
    <3> QED BY <2>5, <2>8, <3>1, <3>2 DEF Joined
  <2> HIDE DEF numbers
  <2>10. ASSUME NEW i \in 1 .. A + C + U PROVE all[i].n = numbers[i]
    <3> USE DEF IInv
    <3>1. CASE i \in 1 .. A
      <4>1. s2c[i].n = IF i <= R THEN responses[i].n ELSE op.n
        BY <3>1 DEF PipeInv
      <4>2. CASE i <= R
        <5>1. i \in 1 .. R
          BY ONLY <2>2, <3>1, <4>2
        <5> QED BY <2>7, <2>9, <3>1, <4>1, <4>2, <5>1
      <4>3. CASE ~(i <= R)
        <5>1. Own /\ i = R + 1
          BY <2>2, <2>5, <2>6, <3>1, <4>3
        <5> QED BY <2>7, <2>9, <3>1, <4>1, <4>3, <5>1
      <4> QED BY <4>2, <4>3
    <3>2. ASSUME NEW j \in 1 .. C, i = A + j PROVE all[i].n = numbers[i]
      <4>1. all[i] = c2s[j]
        BY <2>7, <3>2
      <4>2. CASE A + j <= R
        <5>1. A + j \in 1 .. R
          BY ONLY <2>2, <4>2
        <5>2. responses[A + j] = Expected(c2s[j])
          BY <4>2 DEF PipeInv
        <5> QED BY <2>9, <3>2, <4>1, <5>1, <5>2 DEF Expected
      <4>3. CASE ~(A + j <= R)
        <5>1. Own /\ j = C /\ A + j = R + 1
          BY <2>2, <2>5, <2>6, <4>3
        <5>2. c2s[j] = op
          BY <5>1 DEF NumberInv
        <5> QED BY <2>9, <3>2, <4>1, <5>1, <5>2
      <4> QED BY <4>2, <4>3
    <3>3. ASSUME NEW j \in 1 .. U, i = A + C + j PROVE all[i].n = numbers[i]
      <4>1. all[i] = unsent[j] /\ responses[A + C + j] = Expected(unsent[j])
        BY <2>7, <3>3 DEF PipeInv
      <4>2. ~Own
        <5>1. unsent # <<>>
          BY <3>3
        <5> QED BY <5>1 DEF OpInv, Own
      <4>3. A + C + j \in 1 .. R
        BY <2>2, <2>5, <2>6, <4>2
      <4> QED BY <2>9, <3>3, <4>1, <4>3 DEF Expected
    <3>4. \/ i \in 1 .. A
          \/ i - A \in 1 .. C /\ i = A + (i - A)
          \/ i - (A + C) \in 1 .. U /\ i = A + C + (i - (A + C))
      BY ONLY <2>2
    <3> QED BY <3>1, <3>2, <3>3, <3>4
  <2>11. Numbers(all) = numbers
    <3>1. /\ numbers = [i \in 1 .. A + C + U |-> numbers[i]]
      BY <2>6, <2>9
    <3>2. Numbers(all) = [i \in 1 .. A + C + U |-> all[i].n]
      BY <2>6, Zenon DEF Numbers
    <3> QED BY ONLY <2>10, <3>1, <3>2
  <2> QED BY <2>11, Zenon DEF PipelineInStep, numbers, all, both, own
<1> QED BY Invariance, <1>1, PTL

(* Between operations the cached autocommit mode can be relied on.          *)
THEOREM Autocommit == Spec => []AutocommitAgrees
<1>1. IInv => AutocommitAgrees
  <2> SUFFICES ASSUME IInv, open, pc = "idle"
               PROVE  autocommit = ModeAfter(c2s \o unsent, mode)
    BY DEF AutocommitAgrees
  <2> DEFINE K == Delayable \cup {"statement", "raw"}
             C == Len(c2s)
             U == Len(unsent)
             all == c2s \o unsent
  <2>1. c2s \in Seq(Commands(K)) /\ unsent \in Seq(Commands({"cleanup"}))
    BY DEF IInv, TypeOK
  <2>2. C \in Nat /\ U \in Nat /\ unsent \in Seq(Commands(K))
    BY <2>1, MoreKinds DEF Delayable
  <2> HIDE DEF K
  <2>3. all \in Seq(Commands(K)) /\ Joined(c2s, unsent, all)
    BY <2>1, <2>2, ConcatJoins
  <2> HIDE DEF all
  <2>4. LeadsTo(c2s, C, mode, autocommit)
    BY DEF IInv, ModeInv, Own
  <2>5. Len(all) = C + U /\ \A i \in 1 .. C : all[i] = c2s[i]
    BY <2>3 DEF Joined
  <2>6. ASSUME NEW i \in 1 .. C + U PROVE i \in 1 .. C \/ all[i].kind # "auto"
    <3>1. ASSUME NEW j \in 1 .. U PROVE all[C + j].kind # "auto"
      BY <2>1, <2>3, Element DEF Joined
    <3>2. i \in 1 .. C \/ (i - C \in 1 .. U /\ i = C + (i - C))
      BY ONLY <2>2
    <3> QED BY <3>1, <3>2
  <2>7. LeadsTo(all, Len(all), mode, autocommit)
    <3>1. CASE (\A i \in 1 .. C : c2s[i].kind # "auto") /\ autocommit = mode
      BY <2>5, <2>6, <3>1 DEF LeadsTo
    <3>2. CASE \E k \in 1 .. C :
                 /\ c2s[k].kind = "auto" /\ autocommit = c2s[k].enabled
                 /\ \A i \in k + 1 .. C : c2s[i].kind # "auto"
      <4>1. PICK k \in 1 .. C :
              /\ c2s[k].kind = "auto" /\ autocommit = c2s[k].enabled
              /\ \A i \in k + 1 .. C : c2s[i].kind # "auto"
        BY <3>2
      <4>2. k \in 1 .. C + U /\ all[k] = c2s[k]
        BY <2>2, <2>5
      <4>3. ASSUME NEW i \in k + 1 .. C + U PROVE all[i].kind # "auto"
        <5>1. i \in 1 .. C + U /\ (i \in 1 .. C => i \in k + 1 .. C)
          BY ONLY <2>2
        <5> QED BY <2>5, <2>6, <4>1, <5>1
      <4> QED BY <2>5, <4>1, <4>2, <4>3 DEF LeadsTo
    <3> QED BY <2>4, <3>1, <3>2 DEF LeadsTo
  <2>8. autocommit = ModeAfter(all, mode)
    BY <2>3, <2>7, ModeAfterIs, LeadsToOne
  <2> QED BY <2>8 DEF all
<1> QED BY Invariance, <1>1, PTL

(* An operation fails exactly if a command that counts has failed.          *)
THEOREM Errors == Spec => ErrorsReachTheCaller
<1>1. IInv /\ [Next]_vars =>
        [pc = "receive" /\ pc' = "idle" /\ open' =>
           /\ ret' = "ok" => faults = {}
           /\ ret' = "err" => faults # {}]_vars
  <2> SUFFICES ASSUME IInv, [Next]_vars, pc = "receive", pc' = "idle", open'
               PROVE  /\ ret' = "ok" => faults = {}
                      /\ ret' = "err" => faults # {}
    OBVIOUS
  <2>1. CASE ReturnClose \/ ReceiveAnswer
    BY <2>1, FinishFacts
  <2>2. CASE AddCleanup \/ QueueCleanup \/ Send \/ ReceiveDelayed \/ Break \/ UNCHANGED vars
    BY <2>2 DEF AddCleanup, QueueCleanup, Send, ReceiveDelayed, Break, vars
  <2>3. ASSUME NEW kind \in Kinds, NEW enabled \in BOOLEAN, BeginOperation(kind, enabled)
        PROVE  FALSE
    BY <2>3 DEF BeginOperation
  <2>4. ASSUME NEW error \in BOOLEAN, NEW new \in BOOLEAN, NEW tells \in BOOLEAN,
               Serve(error, new, tells)
        PROVE  FALSE
    BY <2>4 DEF Serve
  <2> QED BY <2>1, <2>2, <2>3, <2>4 DEF Next, Client, Server
<1> QED BY Invariance, <1>1, PTL DEF Spec, ErrorsReachTheCaller

=============================================================================
