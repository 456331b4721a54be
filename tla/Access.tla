------------------------------- MODULE Access -------------------------------
(***************************************************************************)
(* Who may use the control plane: the edition and its licence file         *)
(* (control-plane/lib/edition.ts), password sign-in, sessions and bearer   *)
(* tokens (cloud-auth.ts, auth.ts, jwt.ts), single sign-on (sso-routes.ts, *)
(* oidc.ts) and the address list (ipacl.ts).                               *)
(*                                                                         *)
(* A browser runs one sign-in request at a time beside the requests that   *)
(* use its session; what a request reads before it writes is an action of  *)
(* its own.  Time appears as what it does: a session, token, state or      *)
(* licence runs out.  Sign-up, verification and the money they bring are   *)
(* in Tenants; here a user is registered and verified.                     *)
(***************************************************************************)
EXTENDS Integers

CONSTANTS
  Users, Browsers,
  Flows,        \* the states issueState draws
  EnvEdition,   \* 2PAPI_EDITION, "unset" when it is empty
  Lists,        \* the address lists operators save, as sets of <<base, bits>>
  Width,        \* bits of an address (32)
  MaxInstalls,  \* bound on the licence files written
  Direct,       \* the address of a request without X-Forwarded-For
  NoUser, NoFlow

ASSUME AccessAssumption ==
  /\ Width \in Nat /\ MaxInstalls \in Nat
  \* parseCidrs refuses any other entry.
  /\ \A list \in Lists : list \subseteq (0..(2^Width - 1)) \X (0..Width)
  /\ NoUser \notin Users /\ NoFlow \notin Flows /\ Browsers # {}

VARIABLES
  account,   \* the row in users
  session,   \* the session a browser's cookie names
  bearer,    \* the API token minted with it
  job,       \* the sign-in request of a browser
  flow,      \* a single sign-on round trip
  cookie,    \* the state cookie of a browser
  oidc,      \* whether system_settings.oidc is set
  acl,       \* system_settings.ipacl
  file,      \* 2papi.license
  cache      \* the process's cache of what the file said

people == <<account, session, bearer, job>>
signon == <<flow, cookie, oidc>>
licence == <<file, cache>>
vars == <<people, signon, acl, licence>>

Addresses == 0..(2^Width - 1)
NoSession == [user |-> NoUser, live |-> FALSE]
Idle == [at |-> "idle", user |-> NoUser, flow |-> NoFlow]
NoCache == [mtime |-> 0, hosted |-> FALSE]

-----------------------------------------------------------------------------
(* The edition. *)

\* validateLicense: signature, prefix, edition and features are one flag; the
\* period is what time changes.
validateLicense == file.kind = "good" /\ file.period = "valid"

\* resolve reads the file again only when its mtime moved.
resolve_Once ==
  IF file.kind = "absent" \/ cache # NoCache THEN cache
  ELSE [mtime |-> file.mtime, hosted |-> validateLicense]
resolve ==
  IF EnvEdition # "unset" \/ file.kind = "absent" \/ cache.mtime = file.mtime THEN cache
  ELSE [mtime |-> file.mtime, hosted |-> validateLicense]

\* activeEdition # 'oss'; the features are those of a licence that lists all.
Hosted ==
  IF EnvEdition # "unset" THEN EnvEdition \in {"cloud", "ent"}
  ELSE file.kind # "absent" /\ resolve.hosted

\* requireHosted, requireFeature: they leave the cache filled either way.
Required == Hosted /\ cache' = resolve /\ UNCHANGED file
Refused ==
  /\ ~Hosted /\ cache' = resolve
  /\ UNCHANGED <<people, signon, acl, file>>

\* A file is written; the period of one that does not validate is immaterial.
InstallLicense(kind, period) ==
  /\ file.mtime < MaxInstalls /\ (kind = "garbage" => period = "expired")
  /\ file' = [kind |-> kind, mtime |-> file.mtime + 1, period |-> period, written |-> period]
  /\ UNCHANGED <<people, signon, acl, cache>>

RemoveLicense ==
  /\ file.kind # "absent"
  /\ file' = [file EXCEPT !.kind = "absent", !.period = "expired", !.written = "expired"]
  /\ UNCHANGED <<people, signon, acl, cache>>

PeriodMoves ==
  /\ file.period # "expired"
  /\ file' = [file EXCEPT !.period = IF @ = "early" THEN "valid" ELSE "expired"]
  /\ UNCHANGED <<people, signon, acl, cache>>

Restarts ==
  /\ cache' = NoCache /\ job' = [b \in Browsers |-> Idle]
  /\ UNCHANGED <<account, session, bearer, signon, acl, file>>

-----------------------------------------------------------------------------
(* Users.  Roles and suspensions are set in the database itself. *)

Known(u) == account[u].state # "none"

Registers(u) ==
  /\ account[u].state = "none"
  /\ account' = [account EXCEPT ![u] = [@ EXCEPT !.state = "new", !.password = TRUE]]
  /\ Required
  /\ UNCHANGED <<session, bearer, job, signon, acl>>

Verifies(u) ==
  /\ account[u].state = "new"
  /\ account' = [account EXCEPT ![u].state = "verified"]
  /\ Required
  /\ UNCHANGED <<session, bearer, job, signon, acl>>

SetRow(u, role, disabled) ==
  /\ Known(u) /\ <<role, disabled>> # <<account[u].role, account[u].disabled>>
  /\ account' = [account EXCEPT ![u] = [@ EXCEPT !.role = role, !.disabled = disabled]]
  /\ UNCHANGED <<session, bearer, job, signon, acl, licence>>

-----------------------------------------------------------------------------
(* Sessions. *)

\* loginCore's checks on the row it read.
MayLogin_Unverified(u) == Known(u) /\ account[u].password /\ ~account[u].disabled
MayLogin(u) ==
  /\ account[u].state = "verified"
  /\ account[u].password /\ ~account[u].disabled

LoginLooks(b, u) ==
  /\ job[b].at = "idle" /\ MayLogin(u) /\ Required
  /\ job' = [job EXCEPT ![b] = [Idle EXCEPT !.at = "session", !.user = u]]
  /\ UNCHANGED <<account, session, bearer, signon, acl>>

\* Every check of the sign-in is behind it.
Ready(b) == job[b].at = "session"

\* The last step of both sign-ins: the row and the browser's cookie; single
\* sign-on also clears its state cookie.
createSession(b) ==
  /\ Ready(b)
  /\ session' = [session EXCEPT ![b] = [user |-> job[b].user, live |-> TRUE]]
  /\ job' = [job EXCEPT ![b] = Idle]
  /\ cookie' = IF job[b].flow = NoFlow THEN cookie ELSE [cookie EXCEPT ![b] = NoFlow]
  /\ UNCHANGED <<account, bearer, flow, oidc, acl, licence>>

SessionExpires(b) ==
  /\ session[b].live
  /\ session' = [session EXCEPT ![b].live = FALSE]
  /\ UNCHANGED <<account, bearer, job, signon, acl, licence>>

\* The user of a live session whose row is not suspended.
resolveSession_AnyRow(b) == IF session[b].live THEN session[b].user ELSE NoUser
resolveSession(b) ==
  IF session[b].live /\ ~account[session[b].user].disabled THEN session[b].user ELSE NoUser

\* resolveSession deletes the row when it has expired.
Sweep(b) == session' = IF session[b].live THEN session ELSE [session EXCEPT ![b] = NoSession]

\* meCore and billingCore read what belongs to the session's user.
UseSession(b) ==
  /\ session[b] # NoSession /\ Required /\ Sweep(b)
  /\ UNCHANGED <<account, bearer, job, signon, acl>>

logoutCore(b) ==
  /\ session[b] # NoSession /\ Required
  /\ session' = [session EXCEPT ![b] = NoSession]
  /\ UNCHANGED <<account, bearer, job, signon, acl>>

Operator(u) == u # NoUser /\ account[u].role = "operator"

\* tokenCore: a token says 'operator' for as long as it lasts.
tokenCore(b) ==
  /\ Required /\ Operator(resolveSession(b))
  /\ bearer' = [bearer EXCEPT ![b] = resolveSession(b)]
  /\ UNCHANGED <<account, session, job, signon, acl>>

\* verifyJwt refuses the token once exp and the skew have passed.
BearerExpires(b) ==
  /\ bearer[b] # NoUser
  /\ bearer' = [bearer EXCEPT ![b] = NoUser]
  /\ UNCHANGED <<account, session, job, signon, acl, licence>>

-----------------------------------------------------------------------------
(* Single sign-on. *)

\* A signed state: what it was drawn for is in it.
issueState(b) == [at |-> "started", browser |-> b, user |-> NoUser]

\* The state goes into the redirect and into the browser's cookie.
oidcStartCore(b, f) ==
  /\ Required /\ oidc /\ flow[f].at = "unused"
  /\ flow' = [flow EXCEPT ![f] = issueState(b)]
  /\ cookie' = [cookie EXCEPT ![b] = f]
  /\ UNCHANGED <<people, oidc, acl>>

\* The identity provider sends the browser back with a code for this user.
Approves(f, u) ==
  /\ flow[f].at = "started"
  /\ flow' = [flow EXCEPT ![f] = [@ EXCEPT !.at = "approved", !.user = u]]
  /\ UNCHANGED <<people, cookie, oidc, acl, licence>>

\* The state, in the cookie or the redirect, is older than ten minutes.
StateLapses(b) ==
  /\ cookie[b] # NoFlow
  /\ cookie' = [cookie EXCEPT ![b] = NoFlow]
  /\ UNCHANGED <<people, flow, oidc, acl, licence>>

\* oidcCallbackCore compares the cookie with the state of the redirect.  What
\* does not match is answered with a cleared cookie: a second tab's as well.
CallbackLooks(b, f) ==
  /\ Required /\ job[b].at = "idle"
  /\ flow[f].browser = b /\ flow[f].at \in {"approved", "redeemed"}
  /\ IF cookie[b] = f
       THEN /\ job' = [job EXCEPT ![b] = [Idle EXCEPT !.at = "exchange", !.flow = f]]
            /\ UNCHANGED cookie
       ELSE /\ cookie' = [cookie EXCEPT ![b] = NoFlow]
            /\ UNCHANGED job
  /\ UNCHANGED <<account, session, bearer, flow, oidc, acl>>

\* The identity provider sends the browser back with an error.
Denied(b, f) ==
  /\ Required /\ flow[f].browser = b /\ flow[f].at = "started"
  /\ flow' = [flow EXCEPT ![f].at = "redeemed"]
  /\ cookie' = [cookie EXCEPT ![b] = NoFlow]
  /\ UNCHANGED <<people, oidc, acl>>

\* A row made or verified by the identity provider's word.
findOrCreateOidcUser(u) == [account EXCEPT ![u].state = "verified"]

\* The code is redeemed once, and verifyIdToken accepts the token: the user
\* is found or made, and a suspended one refused.
Exchanges(b) ==
  LET f == job[b].flow  u == flow[f].user IN
  /\ job[b].at = "exchange" /\ flow[f].at = "approved"
  /\ flow' = [flow EXCEPT ![f].at = "redeemed"]
  /\ account' = findOrCreateOidcUser(u)
  /\ job' = [job EXCEPT ![b] =
       IF account[u].disabled THEN Idle ELSE [at |-> "session", user |-> u, flow |-> f]]
  /\ UNCHANGED <<session, bearer, cookie, oidc, acl, licence>>

\* Discovery, the exchange or the token is refused; a token without this
\* flow's nonce is.
ExchangeRefused(b) ==
  LET f == job[b].flow IN
  /\ job[b].at = "exchange"
  /\ flow' = [flow EXCEPT ![f].at = "redeemed"]
  /\ job' = [job EXCEPT ![b] = Idle]
  /\ UNCHANGED <<account, session, bearer, cookie, oidc, acl, licence>>

-----------------------------------------------------------------------------
(* The control API: assertIpacl, then requireOperator. *)

\* An entry covers the addresses from lo to hi.
v4Range_Unmasked(c) == c[1]..(c[1] + 2^(Width - c[2]) - 1)
v4Range(c) ==
  LET size == 2^(Width - c[2])  lo == (c[1] \div size) * size IN lo..(lo + size - 1)

ipAllowed(ip, list) == list = {} \/ \E c \in list : ip \in v4Range(c)

\* A direct request carries no X-Forwarded-For and always passes.
assertIpacl(ip) == ip = Direct \/ ~Hosted \/ ipAllowed(ip, acl)

\* requireOperator with this user's token or session.
Passes(b, u) == bearer[b] = u \/ (resolveSession(b) = u /\ Operator(u))
requireOperator(b) == Hosted => \E u \in Users : Passes(b, u)

\* What a request that passes does to the session it came with.
Allowed(b, ip) ==
  /\ assertIpacl(ip) /\ requireOperator(b) /\ Required
  /\ IF bearer[b] = NoUser THEN Sweep(b) ELSE UNCHANGED session
  /\ UNCHANGED <<account, bearer, job, flow, cookie>>

\* POST ipacl: parseCidrs takes the list as a whole or not at all.
SaveList(b, ip, list) == Allowed(b, ip) /\ acl' = list /\ UNCHANGED oidc

saveOidcSettings(b, ip) == Allowed(b, ip) /\ oidc' = TRUE /\ UNCHANGED acl

-----------------------------------------------------------------------------
Init ==
  /\ account = [u \in Users |-> [state |-> "none", password |-> FALSE,
                                 role |-> "user", disabled |-> FALSE]]
  /\ session = [b \in Browsers |-> NoSession]
  /\ bearer = [b \in Browsers |-> NoUser]
  /\ job = [b \in Browsers |-> Idle]
  /\ flow = [f \in Flows |-> [at |-> "unused", browser |-> CHOOSE b \in Browsers : TRUE, user |-> NoUser]]
  /\ cookie = [b \in Browsers |-> NoFlow]
  /\ oidc = FALSE /\ acl = {}
  /\ file = [kind |-> "absent", mtime |-> 0, period |-> "expired", written |-> "expired"]
  /\ cache = NoCache

Licensing ==
  \/ \E kind \in {"good", "garbage"}, period \in {"early", "valid", "expired"} :
       InstallLicense(kind, period)
  \/ RemoveLicense \/ PeriodMoves \/ Restarts \/ Refused

Rows ==
  \E u \in Users :
    \/ Registers(u) \/ Verifies(u)
    \/ \E role \in {"user", "operator"}, disabled \in BOOLEAN : SetRow(u, role, disabled)

Browse(b) ==
  \/ \E u \in Users : LoginLooks(b, u)
  \/ createSession(b) \/ SessionExpires(b) \/ UseSession(b) \/ logoutCore(b)
  \/ tokenCore(b) \/ BearerExpires(b)
  \/ \E ip \in Addresses \cup {Direct} :
       saveOidcSettings(b, ip) \/ \E list \in Lists : SaveList(b, ip, list)

SignOn(b) ==
  \/ \E f \in Flows : oidcStartCore(b, f) \/ CallbackLooks(b, f) \/ Denied(b, f)
  \/ StateLapses(b) \/ Exchanges(b) \/ ExchangeRefused(b)

Next ==
  \/ Licensing \/ Rows
  \/ \E b \in Browsers : Browse(b) \/ SignOn(b)
  \/ \E f \in Flows, u \in Users : Approves(f, u)

Spec == Init /\ [][Next]_vars

\* A token's lifetime passes.
FairSpec == Spec /\ \A b \in Browsers : WF_vars(BearerExpires(b))

-----------------------------------------------------------------------------
(* Properties. *)

Account == [state : {"none", "new", "verified"}, password : BOOLEAN,
            role : {"user", "operator"}, disabled : BOOLEAN]
Session == [user : Users, live : BOOLEAN] \cup {NoSession}
Job == [at : {"idle", "session", "exchange"}, user : Users \cup {NoUser},
        flow : Flows \cup {NoFlow}]
Flow == [at : {"unused", "started", "approved", "redeemed"}, browser : Browsers,
         user : Users \cup {NoUser}]
Periods == {"early", "valid", "expired"}
LicenceFile == [kind : {"absent", "garbage", "good"}, mtime : 0..MaxInstalls,
                period : Periods, written : Periods]

TypeOK ==
  /\ account \in [Users -> Account]
  /\ session \in [Browsers -> Session]
  /\ bearer \in [Browsers -> Users \cup {NoUser}]
  /\ job \in [Browsers -> Job]
  /\ flow \in [Flows -> Flow]
  /\ cookie \in [Browsers -> Flows \cup {NoFlow}]
  /\ oidc \in BOOLEAN /\ acl \in Lists \cup {{}}
  /\ file \in LicenceFile
  /\ cache \in [mtime : 0..MaxInstalls, hosted : BOOLEAN]

(* The edition follows the licence file although it is read once per mtime: *)
(* a good file written in its period takes effect and lasts at least for    *)
(* the period, whatever the process had cached before, and a file that is   *)
(* garbage or gone unlocks nothing.                                         *)
LicenseTakes ==
  EnvEdition = "unset" =>
    /\ file.kind = "good" /\ file.written = "valid" /\ file.period = "valid" => Hosted
    /\ file.kind # "good" => ~Hosted

(* Every session belongs to a user whose e-mail was verified, by the link   *)
(* or by the identity provider: the password sign-in refuses an unverified  *)
(* row, single sign-on verifies the row it signs in, and nothing takes a    *)
(* verification back.                                                       *)
VerifiedOnly ==
  \A b \in Browsers : session[b] # NoSession => account[session[b].user].state = "verified"

\* May change the configuration by what the database says now.
Entitled(u) == Operator(u) /\ ~account[u].disabled

(* Authority ends: once a user stays demoted or suspended, no session and   *)
(* no token of it passes requireOperator any more; what was minted before   *)
(* runs out and cannot renew itself.                                        *)
AuthorityEnds ==
  \A u \in Users : <>[]~Entitled(u) => <>[](\A b \in Browsers : ~Passes(b, u))

\* The i-th bit of an address.
Bit(x, i) == (x \div 2^i) % 2

(* The range arithmetic of the address list in force is the prefix match    *)
(* CIDR means, for every address, entry and prefix length, 0 and Width      *)
(* included, also when an entry has host bits set.                          *)
RangeIsPrefix ==
  \A ip \in Addresses, c \in acl \cup (Addresses \X (0..Width)) :
    ip \in v4Range(c) <=> \A i \in (Width - c[2])..(Width - 1) : Bit(ip, i) = Bit(c[1], i)
=============================================================================
