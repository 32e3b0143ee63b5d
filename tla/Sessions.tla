------------------------------ MODULE Sessions ------------------------------
(***************************************************************************)
(* The panel's logins: backend/web/auth.go.                                *)
(*                                                                         *)
(* A session is a signed cookie: an id, an expiry, and a key that depends  *)
(* on the password and on SESSION_SECRET (or, without one, on the life of  *)
(* the process).  The server keeps the ids that logged out and, for the    *)
(* login limiter, the times of failed logins; a restart forgets both.      *)
(* Login requests overlap: a handler asks the limiter, then reads the body *)
(* and checks the password, then tells the limiter.                        *)
(***************************************************************************)
EXTENDS Integers, Sequences, FiniteSets

CONSTANTS
  Addresses,       \* client addresses
  Logins,          \* goroutines that handle a login
  SessionTTL, LoginWindow, Cooldown,     \* in ticks of the clock
  MaxPerIP, MaxGlobal, MaxAddresses,     \* loginMaxPerIP, loginMaxGlobal, 10000
  MaxTime, MaxCookies, MaxTries, MaxRestart    \* bounds

ASSUME SessionsAssumption ==
  /\ {SessionTTL, LoginWindow, Cooldown, MaxPerIP, MaxGlobal} \subseteq Nat \ {0}
  /\ {MaxAddresses, MaxTime, MaxCookies, MaxTries, MaxRestart} \subseteq Nat
  /\ IsFiniteSet(Logins)

VARIABLES
  now,
  secret,         \* SESSION_SECRET is configured
  password,       \* which password is configured
  life,           \* which start of the process this is
  cookies,        \* the cookies issued: cookies[id]
  revoked,        \* id -> until when it is kept; 0 when it is not in the map
  loggedOut,      \* history: the ids that logged out, each with the life in which
  perIP,          \* address in the map -> times of its failures
  global, blockedGlobal,
  failures,       \* address -> times of its failures since its last success
  swept,          \* the limiter dropped idle addresses in this life
  login,          \* goroutine -> the login it handles
  tries

configVars == <<secret, password, life>>
cookieVars == <<cookies, revoked, loggedOut>>
limiterVars == <<perIP, global, blockedGlobal, failures, swept>>
sessionsVars == <<now, configVars, cookieVars, limiterVars, login, tries>>

IdleLogin == [pc |-> "free", ip |-> "none", right |-> FALSE]

FreshLimiter ==
  /\ perIP' = <<>>
  /\ global' = <<>> /\ blockedGlobal' = 0
  /\ failures' = [ip \in Addresses |-> <<>>]
  /\ swept' = FALSE

SessionsInit ==
  /\ now = 0
  /\ secret \in BOOLEAN /\ password = 1 /\ life = 1
  /\ cookies = <<>> /\ loggedOut = {}
  /\ revoked = [id \in 1..MaxCookies |-> 0]
  /\ perIP = <<>>
  /\ global = <<>> /\ blockedGlobal = 0
  /\ failures = [ip \in Addresses |-> <<>>]
  /\ swept = FALSE
  /\ login = [l \in Logins |-> IdleLogin]
  /\ tries = 0

Tick ==
  /\ now < MaxTime
  /\ now' = now + 1
  /\ UNCHANGED <<configVars, cookieVars, limiterVars, login, tries>>

-----------------------------------------------------------------------------
(* Cookies.                                                                *)

(* NewAuthenticator: the key a cookie is signed with.                      *)
SigningKey == [password |-> password, life |-> IF secret THEN 0 ELSE life]

(* newSessionValue                                                         *)
IssueCookie == cookies' = Append(cookies, [exp |-> now + SessionTTL, key |-> SigningKey])

(* parseSession: authentic, not expired and not revoked.                   *)
Accepted(id) ==
  /\ cookies[id].key = SigningKey
  /\ now < cookies[id].exp
  /\ revoked[id] = 0

(* Mutant: what has not expired is dropped as well.                        *)
RevokedAlone(id) == [k \in DOMAIN revoked |-> IF k = id THEN now + SessionTTL ELSE 0]

(* revoke: drop what has expired, add the id.                              *)
Revoked(id) ==
  [k \in DOMAIN revoked |->
    IF k = id THEN now + SessionTTL ELSE IF now > revoked[k] THEN 0 ELSE revoked[k]]

Logout(id) ==
  /\ Accepted(id)
  /\ revoked' = Revoked(id)
  /\ loggedOut' = loggedOut \cup {[id |-> id, life |-> life]}
  /\ UNCHANGED <<now, configVars, cookies, limiterVars, login, tries>>

-----------------------------------------------------------------------------
(* loginLimiter.                                                           *)

(* prune keeps the times after `since`...                                  *)
Prune(ts, since) ==
  LET out[i \in 0..Len(ts)] ==
        IF i = 0 THEN <<>> ELSE IF ts[i] > since THEN Append(out[i - 1], ts[i]) ELSE out[i - 1]
  IN out[Len(ts)]

(* ...in the array it was given: who keeps the old slice sees this.        *)
PrunedInPlace(ts, since) ==
  LET kept == Prune(ts, since) IN kept \o SubSeq(ts, Len(kept) + 1, Len(ts))

Since == now - LoginWindow

FailedAt(ip) == IF ip \in DOMAIN perIP THEN perIP[ip] ELSE <<>>

(* Mutant: a failure from an address not in the table is not counted.     *)
StoredKnown(ip, ts) == [a \in DOMAIN perIP |-> IF a = ip THEN ts ELSE perIP[a]]

Stored(ip, ts) == [a \in DOMAIN perIP \cup {ip} |-> IF a = ip THEN ts ELSE perIP[a]]

Blocked(ip) == now < blockedGlobal \/ Len(Prune(FailedAt(ip), Since)) >= MaxPerIP

(* HandleLogin begins: the limiter is asked; then the body may be           *)
(* unreadable.                                                             *)
OpenLogin(l, ip) ==
  /\ login[l].pc = "free"
  /\ tries < MaxTries
  /\ tries' = tries + 1
  /\ IF Blocked(ip)
     THEN UNCHANGED login
     ELSE \/ \E right \in BOOLEAN : login' = [login EXCEPT ![l] = [pc |-> "check", ip |-> ip, right |-> right]]
          \/ UNCHANGED login
  /\ perIP' = IF now < blockedGlobal THEN perIP ELSE Stored(ip, Prune(FailedAt(ip), Since))
  /\ UNCHANGED <<now, configVars, cookieVars, global, blockedGlobal, failures, swept>>

(* With too many addresses the idle ones are deleted.                      *)
Swept(table) ==
  [ip \in {a \in DOMAIN table : Prune(table[a], Since) # <<>>} |-> PrunedInPlace(table[ip], Since)]

(* fail                                                                    *)
FailLogin(l) ==
  LET ip == login[l].ip
      counted == Stored(ip, Append(Prune(FailedAt(ip), Since), now))
      all == Append(Prune(global, Since), now)
      many == Cardinality(DOMAIN counted) > MaxAddresses
  IN /\ login[l].pc = "check" /\ ~login[l].right
     /\ perIP' = IF many THEN Swept(counted) ELSE counted
     /\ swept' = (swept \/ many)
     /\ IF Len(all) >= MaxGlobal
        THEN global' = <<>> /\ blockedGlobal' = now + Cooldown
        ELSE global' = all /\ UNCHANGED blockedGlobal
     /\ failures' = [failures EXCEPT ![ip] = Append(@, now)]
     /\ login' = [login EXCEPT ![l] = IdleLogin]
     /\ UNCHANGED <<now, configVars, cookieVars, tries>>

(* reset, and the cookie.                                                  *)
PassLogin(l) ==
  /\ login[l].pc = "check" /\ login[l].right
  /\ Len(cookies) < MaxCookies
  /\ perIP' = [ip \in DOMAIN perIP \ {login[l].ip} |-> perIP[ip]]
  /\ failures' = [failures EXCEPT ![login[l].ip] = <<>>]
  /\ IssueCookie
  /\ login' = [login EXCEPT ![l] = IdleLogin]
  /\ UNCHANGED <<now, configVars, revoked, loggedOut, global, blockedGlobal, swept, tries>>

(* The process starts again, perhaps with another ADMIN_PASSWORD.          *)
RestartServer ==
  /\ life <= MaxRestart
  /\ life' = life + 1
  /\ password' \in {password, password + 1}
  /\ revoked' = [id \in DOMAIN revoked |-> 0]
  /\ FreshLimiter
  /\ login' = [l \in Logins |-> IdleLogin]
  /\ UNCHANGED <<now, secret, cookies, loggedOut, tries>>

SessionsNext ==
  \/ Tick \/ RestartServer
  \/ \E id \in DOMAIN cookies : Logout(id)
  \/ \E l \in Logins : FailLogin(l) \/ PassLogin(l) \/ \E ip \in Addresses : OpenLogin(l, ip)

SessionsSpec == SessionsInit /\ [][SessionsNext]_sessionsVars

-----------------------------------------------------------------------------
(* Properties.                                                             *)

SessionsTypeOK ==
  /\ {now, password, life, blockedGlobal, tries} \subseteq Nat
  /\ {secret, swept} \subseteq BOOLEAN
  /\ cookies \in Seq([exp : Nat, key : [password : Nat, life : Nat]])
  /\ revoked \in [1..MaxCookies -> Nat]
  /\ loggedOut \subseteq [id : DOMAIN cookies, life : Nat]
  /\ DOMAIN perIP \subseteq Addresses /\ \A ip \in DOMAIN perIP : perIP[ip] \in Seq(Nat)
  /\ failures \in [Addresses -> Seq(Nat)]
  /\ global \in Seq(Nat)
  /\ login \in [Logins -> [pc : {"free", "check"}, ip : Addresses \cup {"none"}, right : BOOLEAN]]

(* A cookie that logged out is accepted again only once the process, with   *)
(* SESSION_SECRET, has started again and forgotten the logout; never in the *)
(* same life, however many others log out and drop what expired, and never  *)
(* without the secret. (revoke, auth.go 140-149; NewAuthenticator, 49-78)   *)
SessionsEnd ==
  \A out \in loggedOut : Accepted(out.id) => secret /\ out.life < life

Recent(ip) == Len(Prune(failures[ip], Since))

(* An address is refused for its own failures only when it has that many in *)
(* the window; and it never has more than the limit and the requests that   *)
(* were already past the question. Once idle addresses were swept the table *)
(* may count a failure twice. (loginLimiter, auth.go 314-396)               *)
LimiterCounts ==
  \A ip \in Addresses :
    /\ ~swept => Len(Prune(FailedAt(ip), Since)) = Recent(ip)
    /\ Recent(ip) <= MaxPerIP - 1 + Cardinality(Logins)

=============================================================================
