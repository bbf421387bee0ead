---------------------------- MODULE MCParameters ----------------------------
(* Instances of Parameters for TLC.                                        *)
EXTENDS Parameters

(* The defaults, the limits of the code's checks, and their neighbours.     *)
TheNumbers ==
  {-2, -1, 0, 1, 30, 60, 200, 2500, 1024 * 1024 * 1024, 1000, 16, 17,
   DefaultPort, U16Max, U16Max + 1, MaxTimeoutSeconds, MaxTimeoutSeconds + 1}

(* 16 minutes fit, 17 do not, 1000 is no i32.                              *)
SmallI32 == 999

Texts(parm) ==
  CASE parm = "host" -> {<<"h">>, <<"::1">>, <<"localhost">>, <<"a", " ">>}
    [] parm \in {"database", "tableschema", "table"} -> {<<"db">>, <<".", ".">>, <<"a", "/">>}
    [] parm = "certhash" -> {<<"sha256:", "A", ":", "7">>, <<"sha256:", "7">>}
    [] parm = "language" -> {<<"mal">>}
    [] parm = "binary" -> {<<"off">>, RenderInt(U16Max), RenderInt(U16Max + 1)}
    [] parm = "client_remark" -> {<<"a", "\n">>}
    [] parm \in {"user", "password"} -> {<<"me">>, <<"a", "&", "=", "+", "%", "25">>}
    [] parm \in {"sock", "sockdir"} -> {<<"/", "s">>, <<>>}
    [] OTHER -> {<<"x">>}
IntegersFor(parm) ==
  CASE parm = "port" -> {0, 1, DefaultPort}
    [] parm = "timezone" -> {0, 16, 17, 1000}
    [] parm \in TimeoutParms -> {0, MaxTimeoutSeconds, MaxTimeoutSeconds + 1}
    [] parm = "maxprefetch" -> {-2, -1, 0}
    [] OTHER -> {-1, 0, 1}
Typed ==
  UNION {{parm} \X CASE ParmType(parm) = "bool" -> {BoolValue(DefaultValue(parm) = BoolValue(FALSE))}
                     [] ParmType(parm) = "int" -> {IntValue(i) : i \in IntegersFor(parm)}
                     [] OTHER -> {StrValue(text) : text \in Texts(parm)} :
         parm \in Parm \ {"client_info", "client_application", "client_prefix", "debug",
                          "logfile", "hash", "schema", "tableschema", "table", "read_timeout",
                          "write_timeout", "operation_timeout"}}
    \cup {<<"client_info", StrValue(<<"no">>)>>, <<"binary", IntValue(1)>>}

Named ==
  {<< <<"fetchsize">>, RenderInt(60)>>, << <<"my", "_", "option">>, <<"x">> >>,
   << <<"nonsense">>, <<"x">> >>, << <<"tls">>, <<"ON">> >>, << <<"tls">>, <<"x">> >>,
   << <<"port">>, RenderInt(U16Max + 1)>>, << <<"timezone">>, <<"+", "16">> >>}

MonetdbUrls ==
  {<<"monetdb://">>, <<"monetdb://", "h">>, <<"monetdbs://", "h", ":", "1", "/">>,
   <<"monetdb://", "localhost", "/", "db">>, <<"monetdb://", "localhost", ".", "/", "db">>,
   <<"monetdb://", "[", "::1", "]", "/", "db", "/", "s", "/", "t", "?", "user", "=", "you">>,
   <<"monetdbs://", "h", "/", "d", "%", "20", "?", "password", "=", "%", "26", "+", "#", "x">>,
   <<"monetdb://", "/", "db", "?", "timezone", "=", "16", "&", "my", "_", "x", "=", "1">>}
BadUrls ==
  {<<"monetdb://", "me", "@", "h", "/", "db">>, <<"monetdb://", ":", "1">>,
   <<"monetdb://", "h", "/", "a", "/", "b", "/", "c", "/", "d">>,
   <<"monetdb://", "h", "/", "%", "/", "s">>, <<"monetdb://", "h", "/", "%", "80">>,
   <<"monetdbs://", "h", "/", "db", "?", "user", "=", "you", "&", "replysize", "=", "x">>,
   <<"monetdb://", "h", "/", "db", "?", "port", "=", "1">>,
   <<"monetdb://", "h", "?", "nonsense", "=", "1">>, <<"http://", "h">>}
LegacyUrls ==
  {<<"mapi:monetdb://", "h", ":", "1", "/", "d", "%", "20", "?", "language", "=", "mal">>,
   <<"mapi:monetdb://", "/", "s", "/", "t", "?", "database", "=", "db", "&", "user", "=", "you">>,
   <<"mapi:monetdb://", "[", "::1", "]", "/", "a", "/", "b">>}
(* A name, URLs with and without credentials, and one that is refused.       *)
NamesAndUrls ==
  {<<"db">>, <<"monetdb://">>, <<"http://", "h">>, <<"monetdb://", "me", "@", "h", "/", "db">>,
   <<"monetdb://", "[", "::1", "]", "/", "db", "/", "s", "/", "t", "?", "user", "=", "you">>,
   <<"monetdbs://", "h", "/", "d", "%", "20", "?", "password", "=", "%", "26", "+", "#", "x">>}
AllUrls == MonetdbUrls \cup BadUrls \cup LegacyUrls
=============================================================================
