----------------------------- MODULE Parameters -----------------------------
(***************************************************************************)
(* A Parameters object of src/parms/parameters.rs through the calls that   *)
(* change it, and what Validated::new makes of it.                         *)
(***************************************************************************)
EXTENDS Url

CONSTANTS
  I32Max,        \* i32::MAX
  MinHashDigits, \* 16
  MaxHashDigits, \* 64
  TypedInputs,   \* bound: arguments <<parm, value>> of the builder's setters
  NamedInputs,   \* bound: arguments <<name, text>> of set_named
  Urls,          \* bound: arguments of apply_url and from_url
  Databases,     \* bound: first arguments of basic, names or URLs
  MaxCalls       \* bound: calls on one object

ASSUME ParametersAssumption ==
  /\ I32Max \in Nat /\ MinHashDigits \in Nat /\ MaxHashDigits \in Nat /\ MaxCalls \in Nat
  /\ \A input \in TypedInputs : input[1] \in Parm

VARIABLES
  parms,
  result,  \* what the last call returned
  calls

vars == <<parms, result, calls>>

-----------------------------------------------------------------------------
(* Validated::new.                                                          *)
Empty(p, parm) == Str(p, parm) = <<>>

ValidName(text) ==
  /\ \A i \in DOMAIN text : Safe(text[i]) /\ text[i] # "~"
  /\ text = <<>> \/ text[1] \notin {"-", "-1", "-2"}

ValidTimeout(p, parm) == Number(p, parm) \in 0 .. MaxTimeoutSeconds

HexDigits == {"a", "0", "7"}
CertHashDigits(text) ==
  SelectSeq([i \in DOMAIN text |-> Lower(text[i])],
            LAMBDA token : token \notin {"sha256:", ":"})
ValidCertHash(text) ==
  /\ text[1] = "sha256:"
  /\ \A i \in 2 .. Len(text) : Lower(text[i]) \in HexDigits \cup {":"}
  /\ Len(CertHashDigits(text)) \in MinHashDigits .. MaxHashDigits

OverflowIgnored(minutes) == minutes \in -I32Max - 1 .. I32Max
TimezoneFits(minutes) ==
  /\ minutes \in -I32Max - 1 .. I32Max
  /\ minutes * 60 \in -I32Max - 1 .. I32Max

(* The checks in their order: the first that holds is the error.            *)
SockWithTls(p) == ~Empty(p, "sock") /\ Bool(p, "tls")
Checks(p) ==
  LET newline(parm) == Bool(p, "client_info") /\ Contains(Str(p, parm), "\n")
      tls == Bool(p, "tls")
  IN  << <<~Empty(p, "host") /\ ~Empty(p, "sock"), "HostSockConflict">>,
         <<AsBinary(p.table["binary"]) = {}, "InvalidBinary">>,
         <<SockWithTls(p), "OnlyWithTls">>,
         <<~Empty(p, "certhash") /\ ~ValidCertHash(Str(p, "certhash")), "InvalidValue">>,
         <<~tls /\ ~(Empty(p, "cert") /\ Empty(p, "certhash")), "OnlyWithTls">>,
         <<\E parm \in {"database", "tableschema", "table"} : ~ValidName(Str(p, parm)), "InvalidValue">>,
         <<Number(p, "port") # -1 /\ Number(p, "port") \notin 1 .. U16Max, "InvalidValue">>,
         <<~Empty(p, "clientcert") /\ Empty(p, "clientkey"), "ClientCertRequiresKey">>,
         <<\E parm \in {"client_application", "client_prefix", "client_remark"} :
             newline(parm), "ClientInfoNewline">>,
         <<Str(p, "language") # <<"sql">>, "InvalidValue">>,
         <<p.timezone_set /\ ~TimezoneFits(Number(p, "timezone")), "InvalidValue">>,
         <<\E parm \in TimeoutParms : ~ValidTimeout(p, parm), "InvalidValue">>,
         <<Number(p, "replysize") < 1, "InvalidValue">>,
         <<Number(p, "maxprefetch") < -1, "InvalidValue">>,
         <<Number(p, "max_response_size") < 1, "InvalidValue">> >>

FirstError(checks) ==
  LET first == SelectInSeq(checks, LAMBDA check : check[1])
  IN  IF first = 0 THEN "none" ELSE checks[first][2]
ValidationError(p) == FirstError(Checks(p))
Valid(p) == ValidationError(p) = "none"

ConnectPort(p) == IF Number(p, "port") = -1 THEN DefaultPort ELSE Number(p, "port")
ConnectScan(p) ==
  /\ ~Empty(p, "database") /\ Empty(p, "sock") /\ Empty(p, "host")
  /\ Number(p, "port") = -1 /\ ~Bool(p, "tls")
ConnectUnix(p) ==
  CASE ~Empty(p, "sock") -> Str(p, "sock")
    [] Empty(p, "sock") /\ ~Bool(p, "tls") /\ Empty(p, "host") ->
         Str(p, "sockdir") \o <<"/", ".s.monetdb.">> \o RenderInt(ConnectPort(p))
    [] OTHER -> <<>>
ConnectTcp(p) ==
  CASE ~Empty(p, "sock") -> <<>>
    [] Empty(p, "sock") /\ Empty(p, "host") -> <<"localhost">>
    [] OTHER -> Str(p, "host")
TlsVerify(p) ==
  CASE ~Bool(p, "tls") -> "Off"
    [] Bool(p, "tls") /\ ~Empty(p, "certhash") -> "Hash"
    [] Bool(p, "tls") /\ Empty(p, "certhash") /\ ~Empty(p, "cert") -> "Cert"
    [] OTHER -> "System"
TimezoneSeconds(p) == IF p.timezone_set THEN {60 * Number(p, "timezone")} ELSE {}

Validated(p) ==
  [bools |-> [parm \in {"tls", "autocommit", "client_info"} |-> Bool(p, parm)],
   texts |-> [parm \in {"database", "user", "password", "cert", "language", "schema",
                        "client_application", "client_prefix", "client_remark"} |-> Str(p, parm)],
   numbers |-> [parm \in {"replysize", "max_response_size"} |-> Number(p, parm)],
   maxprefetch |-> {Number(p, "maxprefetch")} \ {-1},
   timeouts |-> [parm \in TimeoutParms |-> {Number(p, parm)} \ {0}],
   connect_timezone_seconds |-> TimezoneSeconds(p),
   connect_scan |-> ConnectScan(p),
   connect_unix |-> ConnectUnix(p),
   connect_tcp |-> ConnectTcp(p),
   connect_port |-> ConnectPort(p),
   connect_tls_verify |-> TlsVerify(p),
   connect_certhash_digits |-> CertHashDigits(Str(p, "certhash")),
   connect_clientkey |-> Str(p, "clientkey"),
   connect_clientcert |-> IF Empty(p, "clientcert") THEN Str(p, "clientkey") ELSE Str(p, "clientcert"),
   connect_binary |-> The(AsBinary(p.table["binary"]))]

-----------------------------------------------------------------------------
(* The calls.                                                               *)
InPlace(p, url) == [ParseAnyUrl(Boundary(p), url) EXCEPT !.parms = Boundary(@)]
Applied(p, parsed) ==
  IF parsed.err = "none" THEN Ok(Boundary(parsed.parms)) ELSE Err(p, parsed.err)
ApplyUrl(p, url) == Applied(p, ParseAnyUrl(Boundary(p), url))

FromUrl(url) == ApplyUrl(DefaultParameters, url)

WithCredentials(start, user, password) ==
  LET given == SelectSeq(<<Assign("user", StrValue(user)), Assign("password", StrValue(password))>>,
                         LAMBDA step : step.value.text # <<>>)
  IN  IF start.err # "none" THEN start ELSE Ok(Boundary(Perform(start.parms, given).parms))
Basic(database, user, password) ==
  WithCredentials(IF IsOurUrl(database) THEN FromUrl(database)
                  ELSE Replace(DefaultParameters, "database", StrValue(database)), user, password)

(* The types of the builder's setters, which all call set.                  *)
SetterTakes(parm, value) ==
  CASE parm = "binary" -> TRUE
    [] parm = "client_info" -> value.kind = "str"
    [] parm = "port" -> value.kind = "int" /\ The(AsInt(value)) \in 0 .. U16Max
    [] OTHER -> value.kind = ParmType(parm)

Call(r) ==
  /\ calls < MaxCalls
  /\ parms' = r.parms
  /\ result' = r.err
  /\ calls' = calls + 1

Setter(parm, value) == SetterTakes(parm, value) /\ Call(Replace(parms, parm, value))
CallSetNamed(name, text) == Call(SetNamed(parms, name, StrValue(text)))
CallReset(parm) == Call(Ok(Reset(parms, parm)))
CallBoundary == Call(Ok(Boundary(parms)))
CallApplyUrl(url) == Call(ApplyUrl(parms, url))

(* The caller replaces the object by a new one, when there is one.          *)
Construct(r) == Call(IF r.err = "none" THEN r ELSE Err(parms, r.err))
CallBasic(database, user, password) == Construct(Basic(database, user, password))
CallFromUrl(url) == Construct(FromUrl(url))

Init ==
  /\ parms = DefaultParameters
  /\ result = "none"
  /\ calls = 0

Next ==
  \/ \E input \in TypedInputs : Setter(input[1], input[2])
  \/ \E input \in NamedInputs : CallSetNamed(input[1], input[2])
  \/ \E parm \in {"timezone", "user", "host"} : CallReset(parm)
  \/ CallBoundary
  \/ \E url \in Urls : CallApplyUrl(url) \/ CallFromUrl(url)
  \/ \E database \in Databases, user, password \in {<<>>, <<"me">>} :
       CallBasic(database, user, password)

Spec == Init /\ [][Next]_vars

-----------------------------------------------------------------------------
(* Properties.                                                              *)

(* What a URL cannot say: a TCP connection to localhost (its host is        *)
(* written as no host, which tries the Unix domain socket first), a time    *)
(* zone set to 0 (a default, so left out), and the names "." and "..".      *)
Expressible(p) ==
  /\ Str(p, "host") \notin {<<"localhost">>, <<"localhost", ".">>}
  /\ p.timezone_set => ~IsDefault(p, "timezone")
  /\ \A parm \in {"database", "tableschema", "table"} :
       Str(p, parm) \notin {<<".">>, <<".", ".">>}

(* connect_scan tells port 50000 from no port, and no connection does.      *)
Meaning(p) == [Validated(p) EXCEPT !.connect_scan = FALSE]

(* After any calls url_with_credentials and url_without_credentials give    *)
(* URLs that from_url accepts, unless the port is out of range, and         *)
(* parameters that are valid come back with the same addresses, checks,     *)
(* credentials and options, whatever characters their values have.          *)
UrlRoundTrip ==
  \A back \in {FromUrl(UrlFromParms(parms, Parm))},
     public \in {FromUrl(UrlFromParms(parms, {parm \in Parm : ~IsSensitive(parm)}))} :
    /\ Number(parms, "port") \in -1 .. U16Max => back.err = "none" /\ public.err = "none"
    /\ Valid(parms) /\ Expressible(parms) =>
         Valid(back.parms) /\ Meaning(back.parms) = Meaning(parms)

(* Whatever Validated::new accepts can be connected to as it was asked for: *)
(* there is an address; TLS never goes to a Unix domain socket and is       *)
(* always verified one way or another; a certificate or a pin is not        *)
(* ignored for want of TLS; a socket path excludes TCP; a time zone that is *)
(* not the default is sent, as seconds that fit an i32.                     *)
ValidatedIsSound ==
  LET v == Validated(parms)
  IN  Valid(parms) =>
        /\ v.connect_unix # <<>> \/ v.connect_tcp # <<>>
        /\ v.bools["tls"] => v.connect_unix = <<>> /\ v.connect_tls_verify # "Off"
        /\ ~v.bools["tls"] => Empty(parms, "cert") /\ Empty(parms, "certhash")
        /\ ~Empty(parms, "sock") => v.connect_tcp = <<>>
        /\ v.connect_scan => v.connect_unix # <<>> /\ v.connect_tcp # <<>>
        /\ v.connect_timezone_seconds = {} => IsDefault(parms, "timezone")
        /\ \A seconds \in v.connect_timezone_seconds : seconds \in -I32Max - 1 .. I32Max
        /\ v.connect_clientcert = <<>> <=> v.connect_clientkey = <<>>

(* A call that fails, also halfway through a URL, changes no parameter and  *)
(* no flag.                                                                 *)
FailedCallsChangeNothing == [][result' # "none" => parms' = parms]_vars
=============================================================================
