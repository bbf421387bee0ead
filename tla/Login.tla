------------------------------- MODULE Login --------------------------------
(***************************************************************************)
(* establish_connection of src/framing/connecting.rs: connect, log in,     *)
(* follow redirects, all under one deadline, with the parameters that a    *)
(* redirect changes (apply_url and boundary of src/parms/parameters.rs).   *)
(*                                                                         *)
(* A user name or a password is the number of the place it comes from: 0   *)
(* the default, 1 the caller, n + 1 the URL that the n-th login was        *)
(* answered with.  Session options have the numbers of mapi.h.             *)
(***************************************************************************)
EXTENDS Integers

CONSTANTS
  MaxLogins,     \* 10
  MaxAddresses,  \* bound: addresses of a host name
  Levels,        \* handshake option levels of servers
  SecondsEast,   \* offsets of the local time zone
  Queries        \* query parts of URLs

AutoCommit == 1
ReplySize == 2
SizeHeader == 3
TimeZone == 5
Schema == 100
Options == {AutoCommit, ReplySize, TimeZone, Schema}

(* A query sets the socket path, to a path or to nothing, may ask for a     *)
(* language other than SQL, and names options.  Some of these then differ   *)
(* from the server's default.  A time zone in a URL is in minutes.          *)
QueryType == [sock : {"keep", "set", "clear"}, sql : BOOLEAN, names : SUBSET Options,
              differs : SUBSET Options, seconds : Int]

ASSUME LoginAssumption ==
  /\ MaxLogins \in Nat \ {0} /\ MaxAddresses \in Nat
  /\ Levels \subseteq Nat /\ SecondsEast \subseteq Int
  /\ Queries \subseteq QueryType
  /\ \A query \in Queries :
       /\ query.differs \subseteq query.names /\ query.seconds % 60 = 0
       /\ TimeZone \in query.names => (TimeZone \in query.differs <=> query.seconds # 0)

VARIABLES
  pc,
  parms,       \* Parameters: what a redirect can change
  wanted,      \* options whose value differs from the server's default
  seconds,     \* offset of the time zone
  logins,      \* turns of the loop
  addresses,   \* TCP addresses left to try
  sock,        \* "none", or how the socket is connected
  level,       \* Challenge: sql_handshake_option_level
  sent,        \* the response to the challenge
  delayed,     \* DelayedCommands of this login
  time_zone,   \* ServerState::time_zone_seconds
  has_deadline, expired,
  secured      \* a login has required TLS

config == <<wanted, seconds, has_deadline>>
loginVars == <<level, sent, delayed, time_zone>>
vars == <<pc, parms, config, logins, addresses, sock, loginVars, expired, secured>>

NoResponse == [user |-> 0, password |-> 0, options |-> {}, tls |-> FALSE, genuine |-> FALSE]

-----------------------------------------------------------------------------
(* Parameters.                                                              *)
BoundaryForgotten(p) == [p EXCEPT !.user_changed = FALSE, !.password_changed = FALSE]
Boundary(p) ==
  [p EXCEPT !.user = IF p.password_changed /\ ~p.user_changed THEN 0 ELSE @,
            !.password = IF p.user_changed /\ ~p.password_changed THEN 0 ELSE @,
            !.user_changed = FALSE, !.password_changed = FALSE]

(* The query of a monetdb:// or monetdbs:// URL can have any parameter that *)
(* is not a core one.  Those that are not here only decide whether the      *)
(* parameters are valid.                                                    *)
QuerySock(url, old) ==
  CASE url.query.sock = "keep" -> old
    [] url.query.sock = "set" -> TRUE
    [] url.query.sock = "clear" -> FALSE

ParseMonetdbUrl(p, url, source) ==
  [p EXCEPT !.tls = (url.scheme = "monetdbs"), !.host = url.host,
            !.sock = QuerySock(url, @), !.sql = @ /\ url.query.sql,
            !.user = IF url.user THEN source ELSE @,
            !.password = IF url.password THEN source ELSE @,
            !.user_changed = @ \/ url.user,
            !.password_changed = @ \/ url.password]

(* Only the language comes from the query, and TLS is left alone.           *)
ParseLegacyUrl(p, url) ==
  [p EXCEPT !.host = url.host, !.sock = ~url.host, !.sql = @ /\ url.query.sql]

ParseUrl(p, url, source) ==
  IF url.scheme = "legacy" THEN ParseLegacyUrl(p, url) ELSE ParseMonetdbUrl(p, url, source)

(* The options that a URL sets.                                             *)
Named(url) == IF url.scheme = "legacy" THEN {} ELSE url.query.names

ApplyUrl(p, url, source) == Boundary(ParseUrl(Boundary(p), url, source))

(* Validated::new, as far as a redirect can make a difference, and the      *)
(* addresses it derives.                                                    *)
Valid(p) == p.sql /\ ~(p.host /\ p.sock) /\ ~(p.sock /\ p.tls)
ConnectUnix(p) == p.sock \/ (~p.tls /\ ~p.host)
ConnectTcp(p) == ~p.sock

-----------------------------------------------------------------------------
Goto(label) == pc' = label

Fail == Goto("failed") /\ sock' = "none"

LoginsLeft == logins < MaxLogins

(* The head of the loop: a socket that is restarted is used again.          *)
LoopHead ==
  /\ pc = "loop"
  /\ IF ~LoginsLeft \/ ~Valid(parms) THEN Fail /\ UNCHANGED <<logins, secured>>
     ELSE /\ logins' = logins + 1
          /\ secured' = (secured \/ parms.tls)
          /\ Goto(CASE sock # "none" -> "challenge"
                    [] sock = "none" /\ ConnectUnix(parms) -> "unix"
                    [] OTHER -> "resolve")
          /\ UNCHANGED sock
  /\ UNCHANGED <<parms, config, addresses, loginVars, expired>>

(* connect_unix_socket; when it fails the TCP address is tried, if any.     *)
TryUnix(ok) ==
  /\ pc = "unix" /\ (ok => ~expired)
  /\ IF ok THEN sock' = "plain" /\ Goto("challenge")
     ELSE IF ConnectTcp(parms) THEN Goto("resolve") /\ UNCHANGED sock ELSE Fail
  /\ UNCHANGED <<parms, config, logins, addresses, loginVars, expired, secured>>

(* resolve_tcp_addresses.                                                   *)
Resolve(n) ==
  /\ pc = "resolve" /\ ~expired
  /\ addresses' = n
  /\ Goto("tcp")
  /\ UNCHANGED <<parms, config, logins, sock, loginVars, expired, secured>>

(* A turn of connect_tcp_addresses, which checks the deadline first.  The   *)
(* first address that works ends the loop.                                  *)
TryTcp(ok) ==
  /\ pc = "tcp" /\ ~expired /\ addresses > 0
  /\ addresses' = IF ok THEN 0 ELSE addresses - 1
  /\ IF ok THEN Goto("tls") ELSE UNCHANGED pc
  /\ UNCHANGED <<parms, config, logins, sock, loginVars, expired, secured>>

NoAddressLeft ==
  /\ pc = "tcp" /\ addresses = 0
  /\ Fail
  /\ UNCHANGED <<parms, config, logins, addresses, loginVars, expired, secured>>

(* wrap_tls.                                                                *)
WrapTls ==
  /\ pc = "tls"
  /\ sock' = IF parms.tls THEN "tls" ELSE "plain"
  /\ Goto("challenge")
  /\ UNCHANGED <<parms, config, logins, addresses, loginVars, expired, secured>>

-----------------------------------------------------------------------------
(* The SQL interval of the delayed SET TIME ZONE, and the division that     *)
(* truncates.                                                               *)
Abs(n) == IF n < 0 THEN -n ELSE n
Sign(n) == IF n < 0 THEN -1 ELSE 1
Minutes(s) == Sign(s) * (Abs(s) \div 60)
Interval(mins) ==
  [sign |-> Sign(mins), hours |-> Abs(mins) \div 60, minutes |-> Abs(mins) % 60]

SecondsAlways(lim) == seconds
TimeZoneOf(lim) == IF TimeZone < lim THEN seconds ELSE 60 * Minutes(seconds)

HandshakeAt(option, lim) == option <= lim
Handshake(option, lim) == option < lim

CallerCredentials == [user |-> parms.user, password |-> parms.password]
CredentialsFor(merovingian) ==
  IF merovingian THEN [user |-> 0, password |-> 0] ELSE CallerCredentials

(* login and challenge_response: what the server understands goes into the  *)
(* response, the rest is delayed.  State and delayed commands are new.      *)
Respond(merovingian, lim) ==
  /\ pc = "challenge"
  /\ LET options == (wanted \ {Schema}) \cup {SizeHeader}
     IN  /\ sent' = [user |-> CredentialsFor(merovingian).user,
                     password |-> CredentialsFor(merovingian).password,
                     options |-> {o \in options : Handshake(o, lim)},
                     tls |-> sock = "tls", genuine |-> ~merovingian]
         /\ delayed' = {o \in options : ~Handshake(o, lim)} \cup (wanted \cap {Schema})
  /\ level' = lim
  /\ time_zone' = IF TimeZone \in wanted THEN TimeZoneOf(lim) ELSE 0
  /\ Goto("reply")
  /\ UNCHANGED <<parms, config, logins, addresses, sock, expired, secured>>

(* process_redirects: the login is complete, and the delayed commands are   *)
(* sent.                                                                    *)
Complete ==
  /\ pc = "reply"
  /\ Goto("complete")
  /\ UNCHANGED <<parms, config, logins, addresses, sock, loginVars, expired, secured>>

(* What login has made for a server that sends the client on is dropped.    *)
Forget == level' = 0 /\ sent' = NoResponse /\ delayed' = {} /\ time_zone' = 0

Restart ==
  /\ pc = "reply"
  /\ Goto("loop")
  /\ Forget
  /\ UNCHANGED <<parms, config, logins, addresses, sock, expired, secured>>

DowngradeAllowed(old, new) == FALSE
TlsDowngrade(old, new) == old.tls /\ ~new.tls

(* apply_redirect: the socket is dropped.  The options of the next login    *)
(* may be others, but the deadline stays, whatever connect timeout the URL  *)
(* has: there is one ConnectionDeadline for the whole loop.                 *)
Redirect(url) ==
  /\ pc = "reply"
  /\ LET new == ApplyUrl(parms, url, logins + 1)
     IN  /\ parms' = new
         /\ Goto(IF ~Valid(new) \/ TlsDowngrade(parms, new) THEN "failed" ELSE "loop")
  /\ wanted' = (wanted \ Named(url)) \cup (url.query.differs \cap Named(url))
  /\ seconds' = IF TimeZone \in Named(url) THEN url.query.seconds ELSE seconds
  /\ sock' = "none" /\ Forget
  /\ UNCHANGED <<has_deadline, logins, addresses, expired, secured>>

(* An address, a handshake, a read or a write fails; the server rejects the *)
(* login, or the client does not understand it; the URL cannot be parsed or *)
(* has a parameter that is refused.                                         *)
GoesWrong ==
  /\ pc \in {"resolve", "tls", "challenge", "reply"}
  /\ Fail
  /\ UNCHANGED <<parms, config, logins, addresses, loginVars, expired, secured>>

(* The deadline has passed: whatever waits, or is about to, gives up.       *)
IgnoresDeadline == pc \in {"resolve", "tcp", "tls"}
ObeysDeadline == pc \in {"resolve", "tcp", "tls", "challenge", "reply"}

TimesOut ==
  /\ expired /\ ObeysDeadline
  /\ Fail
  /\ UNCHANGED <<parms, config, logins, addresses, loginVars, expired, secured>>

DeadlinePasses ==
  /\ has_deadline /\ ~expired /\ pc \notin {"complete", "failed"}
  /\ expired' = TRUE
  /\ UNCHANGED <<pc, parms, config, logins, addresses, sock, loginVars, secured>>

Ended == pc \in {"complete", "failed"} /\ UNCHANGED vars

-----------------------------------------------------------------------------
Parms ==
  {[tls |-> tls, sock |-> at = "sock", host |-> at = "host", sql |-> TRUE, user |-> 1,
    password |-> 1, user_changed |-> changed, password_changed |-> FALSE] :
     tls \in BOOLEAN, at \in {"sock", "host", "localhost"}, changed \in BOOLEAN}

Urls == {url \in [scheme : {"monetdb", "monetdbs", "legacy"}, host : BOOLEAN,
                   user : BOOLEAN, password : BOOLEAN, query : Queries] :
           url.scheme = "legacy" => ~url.user /\ ~url.password}

Init ==
  /\ pc = "loop"
  /\ parms \in Parms
  /\ wanted \in SUBSET Options
  /\ seconds \in SecondsEast /\ (TimeZone \in wanted <=> seconds # 0)
  /\ logins = 0 /\ addresses = 0 /\ sock = "none"
  /\ level = 0 /\ sent = NoResponse /\ delayed = {} /\ time_zone = 0
  /\ has_deadline \in BOOLEAN /\ expired = FALSE /\ secured = FALSE

(* The steps of the client that wait for nobody.                            *)
Local == LoopHead \/ NoAddressLeft

(* What the name service, the network and the servers do.                   *)
Peers ==
  \/ \E ok \in BOOLEAN : TryUnix(ok) \/ TryTcp(ok)
  \/ \E n \in 0 .. MaxAddresses : Resolve(n)
  \/ WrapTls
  \/ \E merovingian \in BOOLEAN, lim \in Levels : Respond(merovingian, lim)
  \/ Complete \/ Restart
  \/ \E url \in Urls : Redirect(url)
  \/ GoesWrong

Next == Local \/ Peers \/ TimesOut \/ DeadlinePasses \/ Ended

Spec == Init /\ [][Next]_vars

(* Time passes, and the client goes on when it need not wait; nobody else   *)
(* has to do anything.                                                      *)
FairSpec ==
  Spec /\ WF_vars(Local) /\ WF_vars(TimesOut) /\ WF_vars(DeadlinePasses)
       /\ WF_vars(\E ok \in BOOLEAN : expired /\ TryUnix(ok))

-----------------------------------------------------------------------------
(* Properties.                                                              *)

ParmsType == [tls : BOOLEAN, sock : BOOLEAN, host : BOOLEAN, sql : BOOLEAN,
              user : 0 .. MaxLogins + 1, password : 0 .. MaxLogins + 1,
              user_changed : BOOLEAN, password_changed : BOOLEAN]
ResponseType == [user : 0 .. MaxLogins + 1, password : 0 .. MaxLogins + 1,
                 options : SUBSET Nat, tls : BOOLEAN, genuine : BOOLEAN]

(* Every field keeps its range, and no more logins are tried than allowed.  *)
TypeOK ==
  /\ pc \in {"loop", "unix", "resolve", "tcp", "tls", "challenge", "reply",
             "complete", "failed"}
  /\ parms \in ParmsType
  /\ wanted \subseteq Options /\ seconds \in Int
  /\ logins \in 0 .. MaxLogins /\ addresses \in 0 .. MaxAddresses
  /\ sock \in {"none", "plain", "tls"}
  /\ level \in Levels \cup {0}
  /\ sent \in ResponseType
  /\ delayed \subseteq {AutoCommit, ReplySize, SizeHeader, TimeZone, Schema}
  /\ time_zone \in Int
  /\ has_deadline \in BOOLEAN /\ expired \in BOOLEAN /\ secured \in BOOLEAN

(* Once a login has required TLS, by the caller's parameters or by a        *)
(* redirect, nothing is sent over a plain socket any more, whatever URLs    *)
(* the redirects that follow have.                                          *)
TlsNeverDowngraded ==
  secured => /\ pc \in {"challenge", "reply", "complete"} => sock = "tls"
             /\ pc \in {"reply", "complete"} => sent.tls

(* A user name is never sent with the password of another one: a redirect   *)
(* that replaces one of the two takes the other back to its default.        *)
CredentialsBelongTogether ==
  sent.user # 0 /\ sent.password # 0 => sent.user = sent.password

(* What the server does with an interval.                                   *)
ServerTimeZone ==
  IF TimeZone \in sent.options THEN seconds
  ELSE LET interval == Interval(Minutes(seconds))
       IN  60 * interval.sign * (60 * interval.hours + interval.minutes)

(* When the login is complete the server that accepted it knows, or is      *)
(* being told, every option that was asked for, each exactly once and in a  *)
(* form it understands, nothing is left over from servers that redirected   *)
(* the client, and the time zone it ends up with is the one in ServerState. *)
OptionsReachTheServer ==
  pc = "complete" =>
    /\ sent.options \cup delayed = wanted \cup {SizeHeader}
    /\ sent.options \cap delayed = {}
    /\ \A option \in sent.options : option < level
    /\ time_zone = IF TimeZone \in wanted THEN ServerTimeZone ELSE 0

(* With a connect timeout the call ends, even if servers, name service and  *)
(* network never answer.  Without one it ends if they do answer, whatever   *)
(* chain of redirects and restarts the answers make (the loop of            *)
(* establish_connection).                                                   *)
LoginEnds ==
  /\ has_deadline ~> pc \in {"complete", "failed"}
  /\ WF_vars(Peers) => <>(pc \in {"complete", "failed"})
=============================================================================
