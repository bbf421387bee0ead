--------------------------- MODULE ParameterTable ---------------------------
(***************************************************************************)
(* Connection parameters: Parm, Value and the table of Parameters, of      *)
(* src/parms/parameters.rs.                                                *)
(*                                                                         *)
(* Numbers, names and "localhost" are tokens of a text.  An Option is a    *)
(* set with at most one element.                                           *)
(***************************************************************************)
EXTENDS Text

CONSTANT Numbers  \* bound: the integers that occur

U16Max == 65535
DefaultPort == 50000
MaxTimeoutSeconds == 4294967

The(option) == CHOOSE x \in option : TRUE

-----------------------------------------------------------------------------
ParmIter ==
  <<"database", "host", "port", "tls", "user", "password", "autocommit", "binary",
    "cert", "certhash", "clientcert", "clientkey", "language", "replysize",
    "schema", "sock", "sockdir", "timezone", "connect_timeout", "read_timeout",
    "write_timeout", "operation_timeout", "client_info", "client_application",
    "client_prefix", "client_remark", "max_response_size", "tableschema", "table",
    "hash", "debug", "logfile", "maxprefetch">>
Parm == ToSet(ParmIter)

AsStr(parm) == <<parm>>
FromStr(name) ==
  {parm \in Parm : name = AsStr(parm)}
    \cup {parm \in {"replysize"} : name = <<"fetchsize">>}

IsCore(parm) == parm \in {"tls", "host", "port", "database", "tableschema", "table"}
IsSensitive(parm) == parm \in {"user", "password"}
Ignored(name) == Contains(name, "_")

TimeoutParms == {"connect_timeout", "read_timeout", "write_timeout", "operation_timeout"}
ParmType(parm) ==
  CASE parm \in {"tls", "autocommit", "client_info"} -> "bool"
    [] parm \in TimeoutParms
         \cup {"port", "replysize", "timezone", "maxprefetch", "max_response_size"} -> "int"
    [] OTHER -> "str"

-----------------------------------------------------------------------------
(* Value: what it was set as, and its text.                                 *)
CaseFold == ("ON" :> "on") @@ ("A" :> "a")
Lower(token) == IF token \in DOMAIN CaseFold THEN CaseFold[token] ELSE token

ParseBool(text) ==
  LET lower == [i \in DOMAIN text |-> Lower(text[i])]
  IN  {b \in BOOLEAN :
         lower \in IF b THEN {<<"yes">>, <<"true">>, <<"on">>}
                        ELSE {<<"no">>, <<"false">>, <<"off">>}}
RenderBool(b) == IF b THEN <<"on">> ELSE <<"off">>

(* i64::from_str and i64::to_string.                                        *)
ParseInt(text) ==
  {i \in Numbers : \/ text = <<ToString(i)>>
                   \/ i >= 0 /\ text = <<"+", ToString(i)>>}
RenderInt(i) == <<ToString(i)>>

BoolValue(b) == [kind |-> "bool", text |-> RenderBool(b)]
IntValue(i) == [kind |-> "int", text |-> RenderInt(i)]
StrValue(text) == [kind |-> "str", text |-> text]

AsBool(value) == IF value.kind = "int" THEN {} ELSE ParseBool(value.text)
AsInt(value) == IF value.kind = "bool" THEN {} ELSE ParseInt(value.text)
AsBinary(value) ==
  IF AsBool(value) # {} THEN {IF b THEN U16Max ELSE 0 : b \in AsBool(value)}
  ELSE {i \in AsInt(value) : i \in 0 .. U16Max}

VerifyAssign(parm, value) ==
  CASE ParmType(parm) = "bool" -> IF AsBool(value) = {} THEN "InvalidBool" ELSE "none"
    [] ParmType(parm) = "int" -> IF AsInt(value) = {} THEN "InvalidInt" ELSE "none"
    [] OTHER -> IF value.kind # "str" THEN "MustBeString" ELSE "none"

-----------------------------------------------------------------------------
(* Parameters.                                                              *)
DefaultValue(parm) ==
  CASE parm = "tls" -> BoolValue(FALSE)
    [] parm \in {"autocommit", "client_info"} -> BoolValue(TRUE)
    [] parm = "port" -> IntValue(-1)
    [] parm \in {"timezone", "read_timeout", "operation_timeout"} -> IntValue(0)
    [] parm = "replysize" -> IntValue(200)
    [] parm = "maxprefetch" -> IntValue(2500)
    [] parm = "connect_timeout" -> IntValue(30)
    [] parm = "write_timeout" -> IntValue(60)
    [] parm = "max_response_size" -> IntValue(1024 * 1024 * 1024)
    [] parm = "sockdir" -> StrValue(<<"/", "tmp">>)
    [] parm = "language" -> StrValue(<<"sql">>)
    [] parm = "binary" -> StrValue(<<"on">>)
    [] OTHER -> StrValue(<<>>)

DefaultParameters ==
  [table |-> [parm \in Parm |-> DefaultValue(parm)],
   user_changed |-> FALSE, password_changed |-> FALSE, timezone_set |-> FALSE]

Ok(p) == [err |-> "none", parms |-> p]
Err(p, err) == [err |-> err, parms |-> p]

(* replace, and set: on an error the table is as it was.                    *)
Replace(p, parm, value) ==
  IF VerifyAssign(parm, value) # "none" THEN Err(p, VerifyAssign(parm, value))
  ELSE Ok([p EXCEPT !.table[parm] = value,
                    !.user_changed = @ \/ parm = "user",
                    !.password_changed = @ \/ parm = "password",
                    !.timezone_set = @ \/ parm = "timezone"])

(* reset, and take, which also returns the old value.                       *)
Reset(p, parm) ==
  [Replace(p, parm, DefaultValue(parm)).parms EXCEPT
     !.timezone_set = @ /\ parm # "timezone"]

SetNamed(p, name, value) ==
  IF FromStr(name) # {} THEN Replace(p, The(FromStr(name)), value)
  ELSE IF Ignored(name) THEN Ok(p) ELSE Err(p, "UnknownParameter")

Bool(p, parm) == The(AsBool(p.table[parm]))
Number(p, parm) == The(AsInt(p.table[parm]))
Str(p, parm) == p.table[parm].text

IsDefault(p, parm) ==
  LET value == p.table[parm]
      default == DefaultValue(parm)
  IN  CASE default.kind = "bool" -> AsBool(value) = AsBool(default)
        [] default.kind = "int" -> AsInt(value) = AsInt(default)
        [] OTHER -> value.text = default.text

Boundary(p) ==
  [(CASE p.user_changed /\ ~p.password_changed -> Reset(p, "password")
      [] ~p.user_changed /\ p.password_changed -> Reset(p, "user")
      [] OTHER -> p)
     EXCEPT !.user_changed = FALSE, !.password_changed = FALSE]
=============================================================================
