------------------------------ MODULE Sessions ------------------------------
(***************************************************************************)
(* The sessions of one account: sign-in by password or by the e-mailed     *)
(* link, rotation of refresh tokens, and the two flows that bump the       *)
(* account's version and revoke its sessions (logout and password reset;   *)
(* an e-mail change takes the steps of a logout).  The account row is in   *)
(* PostgreSQL, sessions and rotation chains in Redis, the tokens with the  *)
(* devices, whose refreshes are serialised by the client's coordinator.    *)
(*                                                                         *)
(* A command is a sequence of awaits, and anything may happen between two  *)
(* of them; one SQL statement or Lua script is one step.                   *)
(***************************************************************************)
EXTENDS Naturals, Sequences, FiniteSets

CONSTANTS
  Devices,      \* browsers and apps: one cookie jar and one coordinator each
  Requests,     \* server slots running RefreshTokensCommand
  Revokers,     \* server slots running LogoutCommand or ResetPasswordCommand
  None,         \* no device or request
  Cap,          \* MAX_ACTIVE_SESSIONS
  MaxSessions,  \* how many sessions are ever opened (bound)
  MaxTokens,    \* how many refresh tokens are ever signed (bound)
  MaxVersion,   \* how far the account's version goes (bound)
  FaultKinds,   \* which of AllFaultKinds may happen
  MaxFaults     \* how many of them (bound)

\* timeout: a client stops waiting; crash: a process dies or the answer to a
\* call is lost; redis: the client of Redis is not ready, or a command fails.
AllFaultKinds == {"timeout", "crash", "redis"}

ASSUME ConstantsAssumption ==
  /\ Cap \in Nat \ {0}
  /\ MaxSessions \in Nat
  /\ MaxTokens \in Nat
  /\ MaxVersion \in Nat
  /\ FaultKinds \subseteq AllFaultKinds
  /\ MaxFaults \in Nat
  /\ None \notin Devices \union Requests

VARIABLES
  user,        \* the account row: version, password, e-mailed link
  opened,      \* history: every session so far, and what its sign-in had read
  live,        \* the sessions whose session:<id> is in Redis
  index,       \* user:<id>:sessions, a sorted set by creation
  revoked,     \* revoked:<id>
  head,        \* auth:refresh:family:<id>, 0 when absent
  used,        \* auth:refresh:used:<id>:<jti>
  signed,      \* every refresh token signed so far
  cookie,      \* the refresh token each device holds, 0 for none
  lock,        \* the request each device's coordinator waits for
  login,       \* what each device's sign-in is executing
  refresh,     \* what each refresh request is executing
  revocation,  \* what each logout or reset is executing
  lost,        \* history: tokens presented by a refresh that got no answer
  faults       \* history: faults so far

redis == <<live, index, revoked, head, used>>
vars == <<user, opened, live, index, revoked, head, used, signed,
          cookie, lock, login, refresh, revocation, lost, faults>>

-----------------------------------------------------------------------------
(* Types.  Sessions and tokens are numbered in the order they are made.    *)

Sids == 1..MaxSessions
Jtis == 1..MaxTokens

\* password: how often it was changed; link: the e-mailed verification link.
UserType == [version : Nat, password : Nat, link : {"out", "spent"}]

OpenedType == [device : Devices, version : Nat, password : Nat]
SignedType == [sid : Sids, version : Nat]

LoginPcs == {"idle", "verified", "read", "created"}
LoginType == [pc : LoginPcs, password : Nat, version : Nat, token : 0..MaxTokens]
LoginAt(pc, password, version, token) ==
  [pc |-> pc, password |-> password, version |-> version, token |-> token]
IdleLogin == LoginAt("idle", 0, 0, 0)

\* device: who still waits for the answer.  token: the one presented; version:
\* the account's, as it was read; new: the token it was rotated to.
RefreshPcs == {"idle", "received", "loaded", "checked", "rotated",
               "reused", "found", "deleted", "unlisted", "invalid"}
RefreshType == [pc : RefreshPcs, device : Devices \union {None},
                token : 0..MaxTokens, version : Nat, new : 0..MaxTokens]
RefreshAt(pc, device, token, version, new) ==
  [pc |-> pc, device |-> device, token |-> token, version |-> version, new |-> new]
IdleRefresh == RefreshAt("idle", None, 0, 0, 0)

RevocationType == [pc : {"idle", "bumped", "listed", "killed", "done"},
                   device : Devices \union {None}, sids : SUBSET Sids]
RevocationAt(pc, device, sids) == [pc |-> pc, device |-> device, sids |-> sids]
IdleRevocation == RevocationAt("idle", None, {})

TypeOK ==
  /\ user \in UserType
  /\ opened \in Seq(OpenedType) /\ Len(opened) <= MaxSessions
  /\ live \subseteq Sids
  /\ index \subseteq Sids
  /\ revoked \subseteq Sids
  /\ head \in [Sids -> 0..MaxTokens]
  /\ used \subseteq Jtis
  /\ signed \in Seq(SignedType) /\ Len(signed) <= MaxTokens
  /\ cookie \in [Devices -> 0..MaxTokens]
  /\ lock \in [Devices -> Requests \union {None}]
  /\ login \in [Devices -> LoginType]
  /\ refresh \in [Requests -> RefreshType]
  /\ revocation \in [Revokers -> RevocationType]
  /\ lost \subseteq Jtis
  /\ faults \in 0..MaxFaults

-----------------------------------------------------------------------------
(* Faults. *)

Fault(kind) ==
  /\ kind \in FaultKinds
  /\ faults < MaxFaults
  /\ faults' = faults + 1

-----------------------------------------------------------------------------
(* Signing in.  All of it ends with a session and a first refresh token.   *)

\* VerifyUserCredentialsQuery reads the password hash and verifies it.
VerifyCredentials(d) ==
  /\ login[d].pc = "idle"
  /\ login' = [login EXCEPT ![d] = LoginAt("verified", user.password, 0, 0)]
  /\ UNCHANGED <<user, opened, redis, signed, cookie, lock, refresh, revocation, lost, faults>>

\* It then reads the account anew; LoginCommand turns an unverified one away.
ReadAccount(d) ==
  /\ login[d].pc = "verified"
  /\ login' = [login EXCEPT ![d] =
       IF user.link = "spent" THEN LoginAt("read", @.password, user.version, 0)
                              ELSE IdleLogin]
  /\ UNCHANGED <<user, opened, redis, signed, cookie, lock, refresh, revocation, lost, faults>>

\* VerifyEmailCommand: one UPDATE stamps the account and spends the link.
VerifyEmail(d) ==
  /\ login[d].pc = "idle"
  /\ user.link = "out"
  /\ user' = [user EXCEPT !.link = "spent"]
  /\ login' = [login EXCEPT ![d] = LoginAt("read", user.password, user.version, 0)]
  /\ UNCHANGED <<opened, redis, signed, cookie, lock, refresh, revocation, lost, faults>>

\* ZRANGE 0 overflow-1: all but the Cap newest of the listed sessions.
Overflow(listed) == {s \in listed : Cardinality({n \in listed : n > s}) >= Cap}

\* CREATE_SESSION_SCRIPT, and the first refresh token is signed for it.
OpenSession(d) ==
  LET s == Len(opened) + 1
      over == Overflow(index \union {s})
  IN /\ login[d].pc = "read"
     /\ s <= MaxSessions /\ Len(signed) < MaxTokens
     /\ opened' = Append(opened, [device |-> d, version |-> login[d].version,
                                  password |-> login[d].password])
     /\ live' = (live \union {s}) \ over
     /\ index' = (index \union {s}) \ over
     /\ signed' = Append(signed, [sid |-> s, version |-> login[d].version])
     /\ login' = [login EXCEPT ![d] = LoginAt("created", @.password, @.version, Len(signed) + 1)]
     /\ UNCHANGED <<user, revoked, head, used, cookie, lock, refresh, revocation, lost, faults>>

\* The answer sets the device's cookie.
AnswerLogin(d) ==
  /\ login[d].pc = "created"
  /\ cookie' = [cookie EXCEPT ![d] = login[d].token]
  /\ login' = [login EXCEPT ![d] = IdleLogin]
  /\ UNCHANGED <<user, opened, redis, signed, lock, refresh, revocation, lost, faults>>

\* SESSION_UNAVAILABLE, a process that dies, an answer that never arrives; as
\* often as you like, since it only leaves what the sign-in has done so far.
AbortLogin(d) ==
  /\ login[d].pc # "idle"
  /\ login' = [login EXCEPT ![d] = IdleLogin]
  /\ UNCHANGED <<user, opened, redis, signed, cookie, lock, refresh, revocation, lost, faults>>

-----------------------------------------------------------------------------
(* Refreshing. *)

Sid(r) == signed[refresh[r].token].sid

\* Mutation: a tab refreshes whatever the others do.
StartRefreshUnlocked(r, d) ==
  /\ refresh[r].pc = "idle"
  /\ cookie[d] # 0
  /\ lock' = [lock EXCEPT ![d] = r]
  /\ refresh' = [refresh EXCEPT ![r] = RefreshAt("received", d, cookie[d], 0, 0)]
  /\ UNCHANGED <<user, opened, redis, signed, cookie, login, revocation, lost, faults>>

\* The coordinator of a device has one refresh outstanding: one promise in
\* each tab or app, one Web Lock among the tabs of a browser.
StartRefresh(r, d) ==
  /\ refresh[r].pc = "idle"
  /\ lock[d] = None
  /\ cookie[d] # 0
  /\ lock' = [lock EXCEPT ![d] = r]
  /\ refresh' = [refresh EXCEPT ![r] = RefreshAt("received", d, cookie[d], 0, 0)]
  /\ UNCHANGED <<user, opened, redis, signed, cookie, login, revocation, lost, faults>>

Goto(r, pc) ==
  /\ refresh' = [refresh EXCEPT ![r] = RefreshAt(pc, @.device, @.token, @.version, @.new)]
  /\ UNCHANGED <<user, opened, signed, cookie, lock, login, revocation, lost>>

\* Mutation: the version is not compared.
AlwaysCurrent(t, version) == TRUE

\* decoded.version !== user.authVersion
Current(t, version) == signed[t].version = version

\* getRefreshSession.
LoadSession(r) ==
  /\ refresh[r].pc = "received"
  /\ Goto(r, IF Sid(r) \in live \ revoked THEN "loaded" ELSE "invalid")
  /\ UNCHANGED <<redis, faults>>

\* executeFresh, and the token's version compared to what it read.
CheckVersion(r) ==
  /\ refresh[r].pc = "loaded"
  /\ refresh' = [refresh EXCEPT ![r] =
       RefreshAt(IF Current(@.token, user.version) THEN "checked" ELSE "invalid",
                 @.device, @.token, user.version, 0)]
  /\ UNCHANGED <<user, opened, redis, signed, cookie, lock, login, revocation, lost, faults>>

\* What ROTATE_REFRESH_SCRIPT answers to a token.
Verdict(t) ==
  LET s == signed[t].sid
  IN IF s \notin live THEN "unavailable"
     ELSE IF t \in used \/ head[s] \notin {0, t} THEN "reused"
     ELSE "rotated"

\* Mutation: the rotation stores the presented token.
HeadStaysPresented(token, new) == token

\* The head of the session's chain after the rotation of token to new.
NewHead(token, new) == new

\* Mutation: the rotation stores the session as well, whether or not it is still there.
RotateAnew(r) ==
  LET t == refresh[r].token
      new == Len(signed) + 1
  IN /\ refresh[r].pc = "checked"
     /\ Verdict(t) # "reused"
     /\ new <= MaxTokens
     /\ live' = live \union {Sid(r)}
     /\ head' = [head EXCEPT ![Sid(r)] = NewHead(t, new)]
     /\ used' = used \union {t}
     /\ signed' = Append(signed, [sid |-> Sid(r), version |-> refresh[r].version])
     /\ refresh' = [refresh EXCEPT ![r] = RefreshAt("rotated", @.device, t, @.version, new)]
     /\ UNCHANGED <<user, opened, index, revoked, cookie, lock, login, revocation, lost, faults>>

\* The rotation; the new token is signed with the version that was read.
Rotate(r) ==
  LET t == refresh[r].token
      new == Len(signed) + 1
  IN /\ refresh[r].pc = "checked"
     /\ Verdict(t) = "rotated"
     /\ new <= MaxTokens
     /\ head' = [head EXCEPT ![Sid(r)] = NewHead(t, new)]
     /\ used' = used \union {t}
     /\ signed' = Append(signed, [sid |-> Sid(r), version |-> refresh[r].version])
     /\ refresh' = [refresh EXCEPT ![r] = RefreshAt("rotated", @.device, t, @.version, new)]
     /\ UNCHANGED <<user, opened, live, index, revoked, cookie, lock, login,
                    revocation, lost, faults>>

RefuseRotation(r) ==
  /\ refresh[r].pc = "checked"
  /\ Verdict(refresh[r].token) # "rotated"
  /\ Goto(r, IF Verdict(refresh[r].token) = "reused" THEN "reused" ELSE "invalid")
  /\ UNCHANGED <<redis, faults>>

\* revoke: look the session up, delete it, take it off the index, mark it.
FindSession(r) ==
  /\ refresh[r].pc = "reused"
  /\ Goto(r, IF Sid(r) \in live THEN "found" ELSE "invalid")
  /\ UNCHANGED <<redis, faults>>

DeleteSession(r) ==
  /\ refresh[r].pc = "found"
  /\ live' = live \ {Sid(r)}
  /\ Goto(r, "deleted")
  /\ UNCHANGED <<index, revoked, head, used, faults>>

UnlistSession(r) ==
  /\ refresh[r].pc = "deleted"
  /\ index' = index \ {Sid(r)}
  /\ Goto(r, "unlisted")
  /\ UNCHANGED <<live, revoked, head, used, faults>>

MarkRevoked(r) ==
  /\ refresh[r].pc = "unlisted"
  /\ revoked' = revoked \union {Sid(r)}
  /\ Goto(r, "invalid")
  /\ UNCHANGED <<live, index, head, used, faults>>

\* Redis is not ready: no session, no verdict, or nothing is revoked.
RefreshWithoutRedis(r) ==
  /\ refresh[r].pc \in {"received", "checked", "reused"}
  /\ Fault("redis")
  /\ Goto(r, "invalid")
  /\ UNCHANGED redis

\* No one waits for the request any more.
Leave(r) == lock' = [d \in Devices |-> IF lock[d] = r THEN None ELSE lock[d]]

\* A device that waits takes the new cookie.  A refusal leaves it the old one,
\* which no script can reach: its tabs sign out, but may present it once more.
Answer(r) ==
  LET d == refresh[r].device
  IN /\ refresh[r].pc \in {"rotated", "invalid"}
     /\ refresh' = [refresh EXCEPT ![r] = IdleRefresh]
     /\ cookie' =
          IF d # None /\ refresh[r].pc = "rotated" THEN [cookie EXCEPT ![d] = refresh[r].new]
          ELSE cookie
     /\ Leave(r)
     /\ UNCHANGED <<user, opened, redis, signed, login, revocation, lost, faults>>

\* REFRESH_DEADLINE_MS passes; the server works on.
TimeoutRefresh(r) ==
  /\ refresh[r].device # None
  /\ Fault("timeout")
  /\ refresh' = [refresh EXCEPT ![r] = RefreshAt(@.pc, None, @.token, @.version, @.new)]
  /\ lost' = lost \union {refresh[r].token}
  /\ Leave(r)
  /\ UNCHANGED <<user, opened, redis, signed, cookie, login, revocation>>

\* The API process dies, a command fails after all, or the answer is lost.
CrashRefresh(r) ==
  /\ refresh[r].pc # "idle"
  /\ Fault("crash")
  /\ refresh' = [refresh EXCEPT ![r] = IdleRefresh]
  /\ lost' = lost \union {refresh[r].token}
  /\ Leave(r)
  /\ UNCHANGED <<user, opened, redis, signed, cookie, login, revocation>>

-----------------------------------------------------------------------------
(* Revoking all sessions.  A logout ends by clearing its device's cookie.  *)

Logout(v, d) ==
  /\ revocation[v].pc = "idle"
  /\ user.version < MaxVersion
  /\ user' = [user EXCEPT !.version = @ + 1]
  /\ revocation' = [revocation EXCEPT ![v] = RevocationAt("bumped", d, {})]
  /\ UNCHANGED <<opened, redis, signed, cookie, lock, login, refresh, lost, faults>>

ResetPassword(v) ==
  /\ revocation[v].pc = "idle"
  /\ user.version < MaxVersion
  /\ user' = [user EXCEPT !.version = @ + 1, !.password = @ + 1]
  /\ revocation' = [revocation EXCEPT ![v] = RevocationAt("bumped", None, {})]
  /\ UNCHANGED <<opened, redis, signed, cookie, lock, login, refresh, lost, faults>>

Advance(v, pc, sids) ==
  /\ revocation' = [revocation EXCEPT ![v] = RevocationAt(pc, @.device, sids)]
  /\ UNCHANGED <<user, opened, signed, head, used, cookie, lock, login, refresh, lost>>

ListSessions(v) ==
  /\ revocation[v].pc = "bumped"
  /\ Advance(v, "listed", index)
  /\ UNCHANGED <<live, index, revoked, faults>>

\* Redis is not ready, or ZRANGE fails: no session is touched, and the index
\* may be deleted.  The caller takes it for done.
ListWithoutRedis(v) ==
  /\ revocation[v].pc = "bumped"
  /\ Fault("redis")
  /\ index' \in {index, {}}
  /\ Advance(v, "done", {})
  /\ UNCHANGED <<live, revoked>>

KillSessions(v) ==
  /\ revocation[v].pc = "listed"
  /\ live' = live \ revocation[v].sids
  /\ revoked' = revoked \union revocation[v].sids
  /\ Advance(v, "killed", {})
  /\ UNCHANGED <<index, faults>>

DropIndex(v) ==
  /\ revocation[v].pc = "killed"
  /\ index' = {}
  /\ Advance(v, "done", {})
  /\ UNCHANGED <<live, revoked, faults>>

AnswerRevocation(v) ==
  /\ revocation[v].pc = "done"
  /\ cookie' = [d \in Devices |-> IF d = revocation[v].device THEN 0 ELSE cookie[d]]
  /\ revocation' = [revocation EXCEPT ![v] = IdleRevocation]
  /\ UNCHANGED <<user, opened, redis, signed, lock, login, refresh, lost, faults>>

CrashRevocation(v) ==
  /\ revocation[v].pc # "idle"
  /\ Fault("crash")
  /\ revocation' = [revocation EXCEPT ![v] = IdleRevocation]
  /\ UNCHANGED <<user, opened, redis, signed, cookie, lock, login, refresh, lost>>

\* The session's TTL runs out, and with it the TTL of its chain's keys, which
\* are not read without it.
ExpireSession(s) ==
  /\ s \in live
  /\ live' = live \ {s}
  /\ UNCHANGED <<user, opened, index, revoked, head, used, signed, cookie, lock,
                 login, refresh, revocation, lost, faults>>

-----------------------------------------------------------------------------
Init ==
  /\ user \in {[version |-> 0, password |-> 0, link |-> l] : l \in {"out", "spent"}}
  /\ opened = <<>> /\ signed = <<>>
  /\ live = {} /\ index = {} /\ revoked = {} /\ used = {}
  /\ head = [s \in Sids |-> 0]
  /\ cookie = [d \in Devices |-> 0]
  /\ lock = [d \in Devices |-> None]
  /\ login = [d \in Devices |-> IdleLogin]
  /\ refresh = [r \in Requests |-> IdleRefresh]
  /\ revocation = [v \in Revokers |-> IdleRevocation]
  /\ lost = {} /\ faults = 0

LoginStep(d) ==
  \/ VerifyCredentials(d) \/ ReadAccount(d) \/ VerifyEmail(d)
  \/ OpenSession(d) \/ AnswerLogin(d) \/ AbortLogin(d)

RefreshStep(r) ==
  \/ \E d \in Devices : StartRefresh(r, d)
  \/ LoadSession(r) \/ CheckVersion(r) \/ Rotate(r) \/ RefuseRotation(r)
  \/ FindSession(r) \/ DeleteSession(r) \/ UnlistSession(r) \/ MarkRevoked(r)
  \/ RefreshWithoutRedis(r) \/ Answer(r) \/ TimeoutRefresh(r) \/ CrashRefresh(r)

RevocationStep(v) ==
  \/ \E d \in Devices : Logout(v, d)
  \/ ResetPassword(v) \/ ListSessions(v) \/ ListWithoutRedis(v)
  \/ KillSessions(v) \/ DropIndex(v) \/ AnswerRevocation(v) \/ CrashRevocation(v)

Next ==
  \/ \E d \in Devices : LoginStep(d)
  \/ \E r \in Requests : RefreshStep(r)
  \/ \E v \in Revokers : RevocationStep(v)
  \/ \E s \in Sids : ExpireSession(s)

Spec == Init /\ [][Next]_vars

-----------------------------------------------------------------------------
(* What holds. *)

Newest(t) == \A u \in DOMAIN signed : signed[u].sid = signed[t].sid => u <= t

\* Of a live session exactly the newest token rotates, whatever rotations raced,
\* timed out or died (ROTATE_REFRESH_SCRIPT keeps one chain of single-use tokens).
OnlyNewestRotates ==
  \A t \in DOMAIN signed :
    signed[t].sid \in live => (Verdict(t) = "rotated" <=> Newest(t))

\* What a refresh that starts and ends now would accept.
Usable(t) ==
  /\ Verdict(t) = "rotated"
  /\ signed[t].sid \notin revoked
  /\ signed[t].version = user.version

\* A token that still works belongs to a sign-in that read the account as it is:
\* no session is carried over a logout or a reset, though the revocation of
\* the sessions themselves crashed, was skipped or is under way.
NoSessionOutlivesItsVersion ==
  \A t \in DOMAIN signed : Usable(t) => opened[signed[t].sid].version = user.version

\* The server takes a refresh for reuse, and ends the session, only if the answer
\* to an earlier refresh with this token was lost: the coordinator's lock keeps
\* the tabs of one browser from accusing each other.
ReuseOnlyAfterLostAnswer ==
  \A r \in Requests :
    refresh[r].pc \in {"reused", "found", "deleted", "unlisted"} => refresh[r].token \in lost

\* The tokens of a session that a refresh would accept.
Working(s) == {t \in DOMAIN signed : signed[t].sid = s /\ Usable(t)}

Keys == INSTANCE SessionKeys
  WITH version <- user.version, known <- DOMAIN opened, issued <- DOMAIN signed,
       works <- [s \in Sids |-> Working(s)]

\* Commands of several awaits, their races and their failures keep what sessions promise
\* (SessionKeys): one working token each, exchanged one for one, and no way back from a
\* logout or a reset, not even for a refresh that was under way.
KeepsKeys == Keys!KeysSpec

\* docs/PRODUCTION_ARCHITECTURE.md:211: a password reset ends the sessions opened
\* with the old password, once no reset is under way any more.
CurrentPasswordOnly ==
  (\A v \in Revokers : revocation[v].pc = "idle") =>
    \A t \in DOMAIN signed : Usable(t) => opened[signed[t].sid].password = user.password

=============================================================================
