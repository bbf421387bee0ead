---------------------------- MODULE LoginProofs -----------------------------
(***************************************************************************)
(* The safety invariants of the module Login, for every number of logins   *)
(* and addresses, all option levels of servers, all time zones and all     *)
(* queries that a redirect can have.                                       *)
(*                                                                         *)
(* The argument.  A socket is encrypted exactly if the parameters of the   *)
(* moment say so (SockInv): apply_redirect changes them and drops the      *)
(* socket in one step.  Parameters that once required TLS go on to do so   *)
(* or the login has failed (SecuredInv).  User and password of the         *)
(* parameters have the same origin, unless one is the default              *)
(* (CredentialsInv).  What a login has sent and delayed is decided anew    *)
(* for each server, from the options of the moment (OptionsInv).           *)
(***************************************************************************)
EXTENDS Login, TLAPS

(* A socket in use has the protection that the parameters ask for.          *)
SockInv ==
  /\ sock # "none" => (sock = "tls" <=> parms.tls)
  /\ pc \in {"challenge", "reply", "complete"} => sock # "none"
  /\ pc \in {"reply", "complete"} => (sent.tls <=> sock = "tls")
  /\ pc = "unix" => ~parms.tls

SecuredInv == secured => parms.tls \/ pc = "failed"

CredentialsInv ==
  /\ parms.user # 0 /\ parms.password # 0 => parms.user = parms.password
  /\ CredentialsBelongTogether

(* What OptionsReachTheServer says of a complete login, from the response   *)
(* to the challenge on.                                                     *)
OptionsInv ==
  pc \in {"reply", "complete"} =>
    /\ sent.options \cup delayed = wanted \cup {SizeHeader}
    /\ sent.options \cap delayed = {}
    /\ \A option \in sent.options : option < level
    /\ time_zone = IF TimeZone \in wanted THEN ServerTimeZone ELSE 0

IInv == TypeOK /\ SockInv /\ SecuredInv /\ CredentialsInv /\ OptionsInv

-----------------------------------------------------------------------------
(* Lemmas about the operators.                                              *)

(* boundary keeps the types of the parameters, leaves no change marked, and *)
(* lets user and password go together.                                      *)
LEMMA BoundaryType ==
  ASSUME NEW p \in ParmsType
  PROVE  /\ Boundary(p) \in ParmsType
         /\ Boundary(p).tls = p.tls
         /\ Boundary(p).user_changed = FALSE /\ Boundary(p).password_changed = FALSE
         /\ Boundary(p).user =
              IF p.password_changed /\ ~p.user_changed THEN 0 ELSE p.user
         /\ Boundary(p).password =
              IF p.user_changed /\ ~p.password_changed THEN 0 ELSE p.password
<1> DEFINE user == IF p.password_changed /\ ~p.user_changed THEN 0 ELSE p.user
           password == IF p.user_changed /\ ~p.password_changed THEN 0 ELSE p.password
           new == [p EXCEPT !.user = user, !.password = password,
                            !.user_changed = FALSE, !.password_changed = FALSE]
<1>1. user \in 0 .. MaxLogins + 1 /\ password \in 0 .. MaxLogins + 1
  BY LoginAssumption DEF ParmsType
<1>2. Boundary(p) = new
  BY DEF Boundary
<1> HIDE DEF user, password
<1>3. /\ new \in ParmsType /\ new.tls = p.tls
      /\ new.user_changed = FALSE /\ new.password_changed = FALSE
      /\ new.user = user /\ new.password = password
  BY <1>1 DEF ParmsType
<1> HIDE DEF new
<1> QED BY <1>2, <1>3, Zenon DEF user, password

(* Parsing a URL keeps the types; what it marks as changed has the source   *)
(* of the URL, and the rest its old value.                                  *)
LEMMA ParseUrlType ==
  ASSUME NEW p \in ParmsType, NEW url \in Urls, NEW source \in 0 .. MaxLogins + 1,
         p.user_changed = FALSE, p.password_changed = FALSE
  PROVE  /\ ParseUrl(p, url, source) \in ParmsType
         /\ ParseUrl(p, url, source).user =
              IF ParseUrl(p, url, source).user_changed THEN source ELSE p.user
         /\ ParseUrl(p, url, source).password =
              IF ParseUrl(p, url, source).password_changed THEN source ELSE p.password
<1>1. url.query \in QueryType
  BY LoginAssumption DEF Urls
<1>2. url.query.sql \in BOOLEAN /\ QuerySock(url, p.sock) \in BOOLEAN
  BY <1>1 DEF QueryType, QuerySock, ParmsType
<1>3. url.host \in BOOLEAN /\ url.user \in BOOLEAN /\ url.password \in BOOLEAN
  BY DEF Urls
<1>4. CASE url.scheme = "legacy"
  <2> DEFINE sql == p.sql /\ url.query.sql
             new == [p EXCEPT !.host = url.host, !.sock = ~url.host, !.sql = sql]
  <2>1. sql \in BOOLEAN /\ url.host \in BOOLEAN
    BY <1>2, <1>3 DEF ParmsType
  <2>2. ParseUrl(p, url, source) = new
    BY <1>4 DEF ParseUrl, ParseLegacyUrl
  <2> HIDE DEF sql
  <2>3. /\ new \in ParmsType /\ new.user = p.user /\ new.password = p.password
        /\ new.user_changed = FALSE /\ new.password_changed = FALSE
    BY <2>1 DEF ParmsType
  <2> HIDE DEF new
  <2> QED BY <2>2, <2>3, Zenon
<1>5. CASE url.scheme # "legacy"
  <2> DEFINE tls == url.scheme = "monetdbs"
             path == QuerySock(url, p.sock)
             sql == p.sql /\ url.query.sql
             user == IF url.user THEN source ELSE p.user
             password == IF url.password THEN source ELSE p.password
             userChanged == p.user_changed \/ url.user
             passwordChanged == p.password_changed \/ url.password
             new == [p EXCEPT !.tls = tls, !.host = url.host, !.sock = path,
                              !.sql = sql, !.user = user, !.password = password,
                              !.user_changed = userChanged,
                              !.password_changed = passwordChanged]
  <2>1. /\ tls \in BOOLEAN /\ path \in BOOLEAN /\ sql \in BOOLEAN /\ user \in 0 .. MaxLogins + 1
        /\ password \in 0 .. MaxLogins + 1
        /\ userChanged \in BOOLEAN /\ passwordChanged \in BOOLEAN /\ url.host \in BOOLEAN
    BY <1>2, <1>3 DEF ParmsType
  <2>2. /\ user = IF userChanged THEN source ELSE p.user
        /\ password = IF passwordChanged THEN source ELSE p.password
    BY <1>3
  <2>3. ParseUrl(p, url, source) = new
    BY <1>5 DEF ParseUrl, ParseMonetdbUrl
  <2> HIDE DEF tls, path, sql, user, password, userChanged, passwordChanged
  <2>4. new \in ParmsType
    BY <2>1 DEF ParmsType
  <2>5. /\ new.user = user /\ new.password = password
        /\ new.user_changed = userChanged /\ new.password_changed = passwordChanged
    BY DEF ParmsType
  <2> HIDE DEF new
  <2> QED BY <2>2, <2>3, <2>4, <2>5, Zenon
<1> QED BY <1>4, <1>5

(* A redirect leaves parameters of the right types in which user and        *)
(* password still go together.                                              *)
LEMMA ApplyUrlSound ==
  ASSUME NEW p \in ParmsType, NEW url \in Urls, NEW source \in 0 .. MaxLogins + 1,
         p.user # 0 /\ p.password # 0 => p.user = p.password
  PROVE  /\ ApplyUrl(p, url, source) \in ParmsType
         /\ LET new == ApplyUrl(p, url, source)
            IN  new.user # 0 /\ new.password # 0 => new.user = new.password
<1> DEFINE before == Boundary(p)
           parsed == ParseUrl(before, url, source)
<1>1. /\ before \in ParmsType
      /\ before.user_changed = FALSE /\ before.password_changed = FALSE
      /\ before.user # 0 /\ before.password # 0 => before.user = before.password
  BY BoundaryType
<1>2. /\ parsed \in ParmsType
      /\ parsed.user = IF parsed.user_changed THEN source ELSE before.user
      /\ parsed.password = IF parsed.password_changed THEN source ELSE before.password
  BY <1>1, ParseUrlType
<1>3. parsed.user_changed \in BOOLEAN /\ parsed.password_changed \in BOOLEAN
  BY <1>2 DEF ParmsType
<1> HIDE DEF before, parsed
<1> DEFINE new == Boundary(parsed)
<1>4. /\ new \in ParmsType
      /\ new.user = IF parsed.password_changed /\ ~parsed.user_changed
                      THEN 0 ELSE parsed.user
      /\ new.password = IF parsed.user_changed /\ ~parsed.password_changed
                          THEN 0 ELSE parsed.password
  BY <1>2, BoundaryType
<1> HIDE DEF new
<1>5. new.user # 0 /\ new.password # 0 => new.user = new.password
  <2>1. CASE parsed.user_changed = TRUE /\ parsed.password_changed = TRUE
    BY <1>2, <1>4, <2>1
  <2>2. CASE parsed.user_changed = TRUE /\ parsed.password_changed = FALSE
    BY <1>4, <2>2
  <2>3. CASE parsed.user_changed = FALSE /\ parsed.password_changed = TRUE
    BY <1>4, <2>3
  <2>4. CASE parsed.user_changed = FALSE /\ parsed.password_changed = FALSE
    BY <1>1, <1>2, <1>4, <2>4
  <2> QED BY <1>3, <2>1, <2>2, <2>3, <2>4
<1> QED BY <1>4, <1>5 DEF ApplyUrl, before, parsed, new

(* The interval of SET TIME ZONE, taken apart into hours and minutes and    *)
(* put together again by the server, is the number of minutes it came from. *)
LEMMA IntervalExact ==
  ASSUME NEW mins \in Int
  PROVE  LET interval == Interval(mins)
         IN  60 * interval.sign * (60 * interval.hours + interval.minutes) = 60 * mins
<1>1. Abs(mins) \in Nat /\ mins = Sign(mins) * Abs(mins) /\ Sign(mins) \in {-1, 1}
  BY DEF Abs, Sign
<1> DEFINE hours == Abs(mins) \div 60
           minutes == Abs(mins) % 60
<1>2. hours \in Nat /\ minutes \in Nat /\ 60 * hours + minutes = Abs(mins)
  BY <1>1
<1>3. Interval(mins) = [sign |-> Sign(mins), hours |-> hours, minutes |-> minutes]
  BY DEF Interval
<1> HIDE DEF hours, minutes
<1>4. 60 * Sign(mins) * (60 * hours + minutes) = 60 * mins
  BY <1>1, <1>2
<1> QED BY <1>3, <1>4

(* Whole minutes of an integer number of seconds are an integer.            *)
LEMMA MinutesType == ASSUME NEW s \in Int PROVE Minutes(s) \in Int
BY DEF Minutes, Sign, Abs

-----------------------------------------------------------------------------
(* Nothing is secured, sent or delayed yet.                                 *)
LEMMA InitIInv == Init => IInv
<1> SUFFICES ASSUME Init PROVE IInv
  OBVIOUS
<1> USE LoginAssumption DEF Init
<1>1. PICK tls \in BOOLEAN, at \in {"sock", "host", "localhost"}, changed \in BOOLEAN :
        parms = [tls |-> tls, sock |-> at = "sock", host |-> at = "host", sql |-> TRUE,
                 user |-> 1, password |-> 1, user_changed |-> changed,
                 password_changed |-> FALSE]
  BY DEF Parms
<1>2. parms \in ParmsType /\ parms.user = parms.password
  BY <1>1 DEF ParmsType
<1>3. TypeOK
  <2>1. sent \in ResponseType
    BY DEF NoResponse, ResponseType
  <2>2. wanted \subseteq Options
    OBVIOUS
  <2>3. logins \in 0 .. MaxLogins /\ addresses \in 0 .. MaxAddresses /\ time_zone \in Int
    OBVIOUS
  <2>4. /\ pc = "loop" /\ sock = "none" /\ level = 0 /\ delayed = {}
        /\ has_deadline \in BOOLEAN /\ expired \in BOOLEAN /\ secured \in BOOLEAN
        /\ seconds \in Int
    OBVIOUS
  <2> QED BY ONLY <1>2, <2>1, <2>2, <2>3, <2>4 DEF TypeOK
<1>4. SockInv /\ SecuredInv /\ CredentialsInv /\ OptionsInv
  BY <1>2 DEF SockInv, SecuredInv, CredentialsInv, CredentialsBelongTogether, OptionsInv,
     NoResponse
<1> QED BY <1>3, <1>4 DEF IInv

(* Every step keeps the types.                                              *)
LEMMA TypeStep == IInv /\ [Next]_vars => TypeOK'
<1> SUFFICES ASSUME IInv, [Next]_vars PROVE TypeOK'
  OBVIOUS
<1> USE LoginAssumption DEF IInv, TypeOK, config, loginVars, Goto, Fail
<1>1. CASE LoopHead
  BY <1>1 DEF LoopHead, LoginsLeft, ParmsType
<1>2. CASE NoAddressLeft \/ WrapTls \/ Complete
  BY <1>2 DEF NoAddressLeft, WrapTls, Complete
<1>3. NoResponse \in ResponseType
  BY DEF NoResponse, ResponseType
<1>4. CASE Restart
  BY <1>3, <1>4 DEF Restart, Forget
<1>5. ASSUME NEW ok \in BOOLEAN, TryUnix(ok) \/ TryTcp(ok) PROVE TypeOK'
  BY <1>5 DEF TryUnix, TryTcp
<1>6. ASSUME NEW n \in 0 .. MaxAddresses, Resolve(n) PROVE TypeOK'
  BY <1>6 DEF Resolve
<1>7. ASSUME NEW merovingian \in BOOLEAN, NEW lim \in Levels, Respond(merovingian, lim)
      PROVE  TypeOK'
  <2> USE DEF Options, AutoCommit, ReplySize, SizeHeader, TimeZone, Schema
  <2>1. CredentialsFor(merovingian) \in
          [user : 0 .. MaxLogins + 1, password : 0 .. MaxLogins + 1]
    BY DEF CredentialsFor, CallerCredentials, ParmsType
  <2>2. sent' \in ResponseType
    <3> DEFINE options == {o \in (wanted \ {Schema}) \cup {SizeHeader} : Handshake(o, lim)}
    <3>1. options \in SUBSET Nat
      <4>1. options \subseteq {AutoCommit, ReplySize, SizeHeader, TimeZone, Schema}
        OBVIOUS
      <4> QED BY <4>1
    <3>2. sent' = [user |-> CredentialsFor(merovingian).user,
                   password |-> CredentialsFor(merovingian).password,
                   options |-> options, tls |-> sock = "tls", genuine |-> ~merovingian]
      BY <1>7 DEF Respond
    <3> HIDE DEF options
    <3> QED BY <2>1, <3>1, <3>2 DEF ResponseType
  <2>3. TimeZoneOf(lim) \in Int
    BY MinutesType DEF TimeZoneOf
  <2>4. delayed' \subseteq {AutoCommit, ReplySize, SizeHeader, TimeZone, Schema}
    BY <1>7 DEF Respond
  <2>5. time_zone' \in Int
    BY <1>7, <2>3 DEF Respond
  <2> QED BY <1>7, <2>2, <2>4, <2>5 DEF Respond
<1>8. ASSUME NEW url \in Urls, Redirect(url) PROVE TypeOK'
  <2>1. url.query \in QueryType
    BY DEF Urls
  <2>2. wanted' \subseteq Options /\ seconds' \in Int
    BY <1>8, <2>1 DEF Redirect, Named, QueryType
  <2>3. parms' \in ParmsType
    BY <1>8, ApplyUrlSound DEF Redirect, CredentialsInv
  <2> QED BY <1>3, <1>8, <2>2, <2>3 DEF Redirect, Forget
<1>9. CASE GoesWrong \/ TimesOut \/ DeadlinePasses
  BY <1>9 DEF GoesWrong, TimesOut, DeadlinePasses
<1>10. CASE Ended \/ UNCHANGED vars
  BY <1>10 DEF Ended, vars
<1> QED BY <1>1, <1>2, <1>4, <1>5, <1>6, <1>7, <1>8, <1>9, <1>10
     DEF Next, Local, Peers

(* The socket that a login uses is encrypted exactly if the parameters say  *)
(* so, and once they have said so they do not change their mind.            *)
LEMMA SecurityStep == IInv /\ [Next]_vars => SockInv' /\ SecuredInv'
<1> SUFFICES ASSUME IInv, [Next]_vars PROVE SockInv' /\ SecuredInv'
  OBVIOUS
<1> USE DEF IInv, SockInv, SecuredInv, config, loginVars, Goto, Fail
<1>0. parms.tls \in BOOLEAN /\ parms.sock \in BOOLEAN /\ parms.host \in BOOLEAN
      /\ sock \in {"none", "plain", "tls"}
  BY DEF TypeOK, ParmsType
<1>1. CASE LoopHead
  BY <1>0, <1>1 DEF LoopHead, LoginsLeft, Valid, ConnectUnix
<1>2. CASE NoAddressLeft \/ WrapTls \/ Complete \/ Restart
  BY <1>0, <1>2 DEF NoAddressLeft, WrapTls, Complete, Restart
<1>3. ASSUME NEW ok \in BOOLEAN, TryUnix(ok) \/ TryTcp(ok) PROVE SockInv' /\ SecuredInv'
  BY <1>3 DEF TryUnix, TryTcp
<1>4. ASSUME NEW n \in 0 .. MaxAddresses, Resolve(n) PROVE SockInv' /\ SecuredInv'
  BY <1>4 DEF Resolve
<1>5. ASSUME NEW merovingian \in BOOLEAN, NEW lim \in Levels, Respond(merovingian, lim)
      PROVE  SockInv' /\ SecuredInv'
  BY <1>5 DEF Respond
<1>6. ASSUME NEW url \in Urls, Redirect(url) PROVE SockInv' /\ SecuredInv'
  BY <1>6 DEF Redirect, TlsDowngrade
<1>7. CASE GoesWrong \/ TimesOut \/ DeadlinePasses
  BY <1>7 DEF GoesWrong, TimesOut, DeadlinePasses
<1>8. CASE Ended \/ UNCHANGED vars
  BY <1>8 DEF Ended, vars
<1> QED BY <1>1, <1>2, <1>3, <1>4, <1>5, <1>6, <1>7, <1>8 DEF Next, Local, Peers

(* Only a redirect changes user and password, and only the response to a    *)
(* challenge sends them.                                                    *)
LEMMA CredentialsStep == IInv /\ [Next]_vars => CredentialsInv'
<1> SUFFICES ASSUME IInv, [Next]_vars PROVE CredentialsInv'
  OBVIOUS
<1> USE LoginAssumption
     DEF IInv, CredentialsInv, CredentialsBelongTogether, config, loginVars
<1>1. CASE UNCHANGED <<parms, sent>>
  BY <1>1
<1>2. ASSUME NEW merovingian \in BOOLEAN, NEW lim \in Levels, Respond(merovingian, lim)
      PROVE  CredentialsInv'
  BY <1>2 DEF Respond, CredentialsFor, CallerCredentials
<1>4. CASE Restart
  BY <1>4 DEF Restart, Forget, NoResponse
<1>3. ASSUME NEW url \in Urls, Redirect(url) PROVE CredentialsInv'
  <2>1. logins + 1 \in 0 .. MaxLogins + 1
    BY DEF TypeOK
  <2> QED BY <1>3, <2>1, ApplyUrlSound DEF Redirect, Forget, NoResponse, TypeOK
<1> QED BY <1>1, <1>2, <1>3, <1>4 DEF Next, Local, Peers, LoopHead, TryUnix, TryTcp, Resolve,
     NoAddressLeft, WrapTls, Complete, GoesWrong, TimesOut, DeadlinePasses, Ended, vars

(* The response to a challenge and the delayed commands divide the options  *)
(* among them, and the time zone that ServerState remembers is the one that *)
(* the server makes of the form in which it is told.                        *)
LEMMA OptionsStep == IInv /\ [Next]_vars => OptionsInv'
<1> SUFFICES ASSUME IInv, [Next]_vars PROVE OptionsInv'
  OBVIOUS
<1> USE DEF IInv, OptionsInv, config, loginVars, Goto, Fail
<1>1. ASSUME NEW merovingian \in BOOLEAN, NEW lim \in Levels, Respond(merovingian, lim)
      PROVE  OptionsInv'
  <2> DEFINE options == (wanted \ {Schema}) \cup {SizeHeader}
  <2>1. /\ sent'.options = {o \in options : Handshake(o, lim)}
        /\ delayed' = {o \in options : ~Handshake(o, lim)} \cup (wanted \cap {Schema})
        /\ level' = lim /\ wanted' = wanted /\ seconds' = seconds
        /\ time_zone' = IF TimeZone \in wanted THEN TimeZoneOf(lim) ELSE 0
    BY <1>1 DEF Respond
  <2>2. /\ sent'.options \cup delayed' = wanted' \cup {SizeHeader}
        /\ sent'.options \cap delayed' = {}
    BY <2>1 DEF SizeHeader, Schema
  <2>3. \A option \in sent'.options : option < level'
    BY <2>1 DEF Handshake
  <2>4. TimeZone \in wanted => TimeZoneOf(lim) = ServerTimeZone'
    <3>1. seconds \in Int
      BY LoginAssumption DEF TypeOK
    <3>2. TimeZone \in wanted => (TimeZone \in sent'.options <=> TimeZone < lim)
      BY <2>1 DEF Handshake, TimeZone, Schema
    <3>3. LET interval == Interval(Minutes(seconds))
          IN  60 * interval.sign * (60 * interval.hours + interval.minutes)
                = 60 * Minutes(seconds)
      BY <3>1, MinutesType, IntervalExact
    <3> QED BY <2>1, <3>2, <3>3 DEF TimeZoneOf, ServerTimeZone
  <2> QED BY <2>1, <2>2, <2>3, <2>4
<1>2. CASE UNCHANGED <<wanted, seconds, sent, delayed, level, time_zone>>
           /\ (pc' \in {"reply", "complete"} => pc \in {"reply", "complete"})
  BY <1>2 DEF ServerTimeZone
<1>3. CASE pc' \notin {"reply", "complete"}
  BY <1>3
<1> QED BY <1>1, <1>2, <1>3 DEF Next, Local, Peers, LoopHead, TryUnix, TryTcp, Resolve,
     NoAddressLeft, WrapTls, Complete, Restart, Redirect, GoesWrong, TimesOut, DeadlinePasses,
     Ended, vars

(* IInv is an invariant of the login, through addresses that fail,          *)
(* restarts, redirects and timeouts.                                        *)
THEOREM Invariance == Spec => []IInv
<1>1. IInv /\ [Next]_vars => IInv'
  BY TypeStep, SecurityStep, CredentialsStep, OptionsStep DEF IInv
<1> QED BY InitIInv, <1>1, PTL DEF Spec

(* Once a login has required TLS nothing is sent over a plain socket, for   *)
(* any number of redirects and whatever their URLs are.                     *)
THEOREM TlsKept == Spec => []TlsNeverDowngraded
<1>1. IInv => TlsNeverDowngraded
  BY DEF IInv, SockInv, SecuredInv, TlsNeverDowngraded
<1> QED BY Invariance, <1>1, PTL

(* User and password of a login never come from two different places.       *)
THEOREM CredentialsTogether == Spec => []CredentialsBelongTogether
<1>1. IInv => CredentialsBelongTogether
  BY DEF IInv, CredentialsInv
<1> QED BY Invariance, <1>1, PTL

(* The server that completes a login is told every option exactly once, in  *)
(* a form of its level, and its time zone is the one that is remembered.    *)
THEOREM OptionsReach == Spec => []OptionsReachTheServer
<1>1. IInv => OptionsReachTheServer
  BY DEF IInv, OptionsInv, OptionsReachTheServer
<1> QED BY Invariance, <1>1, PTL

=============================================================================
