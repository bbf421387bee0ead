-------------------------------- MODULE Url ---------------------------------
(***************************************************************************)
(* src/parms/urlparser.rs: parameters from URLs and URLs from parameters.  *)
(*                                                                         *)
(* A URL is a text whose first token is the scheme with its "://".  What   *)
(* the url crate does with it is UrlParse and QueryPairs.                  *)
(***************************************************************************)
EXTENDS ParameterTable

(* The hexadecimal codes of the tokens that are not letters, digits, "-",   *)
(* ".", "_" or "~".                                                         *)
Hex == ("/" :> "2f") @@ ("%" :> "25") @@ ("&" :> "26") @@ ("=" :> "3d")
         @@ ("+" :> "2b") @@ (" " :> "20") @@ ("?" :> "3f") @@ ("#" :> "23")
         @@ (":" :> "3a") @@ ("@" :> "40") @@ ("[" :> "5b") @@ ("]" :> "5d")
         @@ ("\n" :> "0a") @@ ("::1" :> "3a3a31") @@ ("sha256:" :> "7368613235363a")
HalfCharacter == "80"

Safe(token) == token \notin DOMAIN Hex
AmpersandKept(text) ==
  FlattenSeq([i \in DOMAIN text |->
                IF Safe(text[i]) \/ text[i] = "&" THEN <<text[i]>> ELSE <<"%", Hex[text[i]]>>])
PercentEncode(text) ==
  FlattenSeq([i \in DOMAIN text |->
                IF Safe(text[i]) THEN <<text[i]>> ELSE <<"%", Hex[text[i]]>>])

(* A "%" needs its code, and the whole must be UTF-8.                       *)
PercentDecode(text) ==
  LET coded(i) == i > 1 /\ text[i - 1] = "%"
      codes == {Hex[token] : token \in DOMAIN Hex} \cup {HalfCharacter}
      bytes(i) == CASE text[i] = "%" -> <<>>
                    [] coded(i) -> <<CHOOSE token \in DOMAIN Hex : Hex[token] = text[i]>>
                    [] OTHER -> <<text[i]>>
  IN  CASE \E i \in DOMAIN text : text[i] = "%" /\ (i = Len(text) \/ text[i + 1] \notin codes) ->
             [err |-> "InvalidPercentEncoding", text |-> <<>>]
        [] \E i \in DOMAIN text : coded(i) /\ text[i] = HalfCharacter ->
             [err |-> "InvalidPercentUtf8", text |-> <<>>]
        [] OTHER -> [err |-> "none", text |-> FlattenSeq([i \in DOMAIN text |-> bytes(i)])]

-----------------------------------------------------------------------------
(* The url crate.                                                           *)

(* "." and ".." are not path segments but steps.                            *)
Normalized(segments) ==
  FoldLeftDomain(LAMBDA out, i :
      LET up == segments[i] = <<".", ".">>
          kept == IF up /\ out # <<>> THEN Front(out) ELSE out
      IN  IF up \/ segments[i] = <<".">>
            THEN IF i = Len(segments) THEN Append(kept, <<>>) ELSE kept
            ELSE Append(out, segments[i]),
    <<>>, segments)

(* Url::parse of what follows the scheme.  No segments: path_segments is    *)
(* None, as for a URL that ends after its host.                             *)
UrlParts(userinfo, host, port, path, query) ==
  [ok |-> /\ port = <<>> \/ (host # <<>> /\ \E i \in Numbers : i \in 0 .. U16Max /\ port = RenderInt(i))
          /\ ~Contains(host, " "),
   userinfo |-> userinfo,
   host |-> host,
   port |-> ParseInt(port),
   segments |-> IF path = <<>> THEN <<>> ELSE Normalized(Split(Tail(path), "/")),
   query |-> query]
UrlOf(authority, at, tail) ==
  LET host == Until(After(authority, at), {":"})
      path == Until(tail, {"?"})
  IN  UrlParts(at > 1, host, After(authority, at + Len(host) + 1), path, After(tail, Len(path) + 1))
UrlSplit(text, authority) ==
  UrlOf(authority, SelectLastInSeq(authority, LAMBDA token : token = "@"),
        After(text, Len(authority)))
UrlParse(rest) ==
  LET text == Until(rest, {"#"})
  IN  UrlSplit(text, Until(text, {"/", "?"}))

(* Url::query_pairs: form decoding, which takes a "%" without code as it is.*)
DecodedOr(decoded, text) == IF decoded.err = "none" THEN decoded.text ELSE text
FormDecode(text) ==
  LET spaced == ReplaceAll(text, "+", " ")
  IN  DecodedOr(PercentDecode(spaced), spaced)
QueryPair(piece, name) ==
  [name |-> FormDecode(name), value |-> FormDecode(After(piece, Len(name) + 1))]
Pieces(query) == SelectSeq(Split(query, "&"), LAMBDA piece : piece # <<>>)
QueryPairs(pieces) ==
  [i \in DOMAIN pieces |-> QueryPair(pieces[i], Until(pieces[i], {"="}))]

-----------------------------------------------------------------------------
(* Parsing is a series of assignments, up to the first error.               *)
Assign(parm, value) == [parm |-> parm, value |-> value, err |-> "none"]
Error(err) == [parm |-> "", value |-> StrValue(<<>>), err |-> err]
AssignOr(parm, decoded) ==
  IF decoded.err = "none" THEN Assign(parm, StrValue(decoded.text)) ELSE Error(decoded.err)
AssignDecoded(parm, text) == AssignOr(parm, PercentDecode(text))

Perform(p, steps) ==
  FoldLeft(LAMBDA r, step :
             CASE r.err # "none" -> r
               [] r.err = "none" /\ step.err # "none" -> Err(r.parms, step.err)
               [] OTHER -> Replace(r.parms, step.parm, step.value),
           Ok(p), steps)

AssignHost(host) ==
  CASE host = <<>> -> Assign("host", StrValue(<<>>))
    [] host # <<>> /\ host[1] = "[" -> Assign("host", StrValue(Tail(Front(host))))
    [] OTHER ->
         LET step == AssignDecoded("host", host)
         IN  CASE step.value.text = <<"localhost">> -> Assign("host", StrValue(<<>>))
               [] step.value.text = <<"localhost", ".">> -> Assign("host", StrValue(<<"localhost">>))
               [] OTHER -> step
AssignPort(port) == Assign("port", IntValue(IF port = {} THEN -1 ELSE The(port)))

PathSteps(segments) ==
  LET parms == <<"database", "tableschema", "table">>
  IN  [i \in DOMAIN segments |-> IF i > 3 THEN Error("InvalidUrl")
                                 ELSE AssignDecoded(parms[i], segments[i])]

QueryStep(pair) ==
  LET parm == FromStr(pair.name)
  IN  CASE parm = {} /\ Ignored(pair.name) -> <<>>
        [] parm = {} /\ ~Ignored(pair.name) -> <<Error("UnknownParameter")>>
        [] parm # {} /\ IsCore(The(parm)) -> <<Error("NotAllowedAsQuery")>>
        [] OTHER -> <<Assign(The(parm), StrValue(pair.value))>>

QuerySteps(pairs) == FlattenSeq([i \in DOMAIN pairs |-> QueryStep(pairs[i])])
MonetdbSteps(useTls, parsed) ==
  <<Assign("tls", BoolValue(useTls)), AssignHost(parsed.host), AssignPort(parsed.port)>>
  \o PathSteps(parsed.segments) \o QuerySteps(QueryPairs(Pieces(parsed.query)))

(* Nothing is decoded, and of the query only two names count.               *)
LegacyPath(parsed) ==
  IF parsed.host # <<>>
    THEN <<Assign("host", StrValue(parsed.host)), Assign("sock", StrValue(<<>>)),
           IF Len(parsed.segments) > 1 THEN Error("InvalidUrl")
           ELSE Assign("database", StrValue(FlattenSeq(parsed.segments)))>>
    ELSE <<Assign("host", StrValue(<<>>)),
           Assign("sock", StrValue(FlattenSeq([i \in DOMAIN parsed.segments |->
                                                 <<"/">> \o parsed.segments[i]]))),
           Assign("database", StrValue(<<>>))>>
LegacyQueryStep(piece) ==
  LET name == Until(piece, {"="})
  IN  IF Len(name) < Len(piece) /\ name \in {<<"language">>, <<"database">>}
        THEN <<Assign(name[1], StrValue(After(piece, Len(name) + 1)))>> ELSE <<>>

LegacyQuerySteps(pieces) == FlattenSeq([i \in DOMAIN pieces |-> LegacyQueryStep(pieces[i])])
LegacySteps(parsed) ==
  LegacyPath(parsed) \o <<AssignPort(parsed.port)>> \o LegacyQuerySteps(Split(parsed.query, "&"))

(* parse_monetdb_url and parse_legacy_url.                                  *)
ParseParts(p, scheme, parsed) ==
  CASE ~parsed.ok \/ parsed.userinfo -> Err(p, "InvalidUrl")
    [] parsed.ok /\ ~parsed.userinfo /\ scheme = "mapi:monetdb://" ->
         Perform(p, LegacySteps(parsed))
    [] OTHER -> Perform(p, MonetdbSteps(scheme = "monetdbs://", parsed))

IsOurUrl(url) ==
  url # <<>> /\ url[1] \in {"monetdb://", "monetdbs://", "mapi:monetdb://"}
ParseAnyUrl(p, url) ==
  IF IsOurUrl(url) THEN ParseParts(p, url[1], UrlParse(Tail(url))) ELSE Err(p, "InvalidUrl")

-----------------------------------------------------------------------------
(* url_from_parms.                                                          *)
UrlHost(p, port) ==
  LET host == IF Str(p, "host") = <<"localhost">> THEN <<>> ELSE Str(p, "host")
  IN  CASE port # {} /\ host = <<>> -> <<"localhost">>
        [] host = <<"::1">> -> <<"[">> \o host \o <<"]">>
        [] OTHER -> PercentEncode(host)

UrlPath(p) ==
  LET names == <<Str(p, "database"), Str(p, "tableschema"), Str(p, "table")>>
      last == SelectLastInSeq(names, LAMBDA name : name # <<>>)
  IN  FlattenSeq([i \in 1 .. last |-> <<"/">> \o PercentEncode(names[i])])

UrlFromParms(p, selection) ==
  LET port == {Number(p, "port")} \ {-1, DefaultPort}
      shown == SelectSeq(ParmIter, LAMBDA parm : /\ parm \in selection /\ ~IsCore(parm)
                                                 /\ ~IsDefault(p, parm))
  IN  <<IF Bool(p, "tls") THEN "monetdbs://" ELSE "monetdb://">>
      \o UrlHost(p, port)
      \o (IF port = {} THEN <<>> ELSE <<":">> \o RenderInt(The(port)))
      \o UrlPath(p)
      \o FlattenSeq([i \in DOMAIN shown |->
           <<IF i = 1 THEN "?" ELSE "&">> \o AsStr(shown[i]) \o <<"=">>
             \o PercentEncode(Str(p, shown[i]))])
=============================================================================
