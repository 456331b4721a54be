---------------------------- MODULE AccessProofs ----------------------------
(***************************************************************************)
(* Proofs about Access, for any number of users, browsers, sign-on flows   *)
(* and licence files.                                                      *)
(***************************************************************************)
EXTENDS Access, FiniteSetTheorems, FunctionTheorems, WellFoundedInduction, TLAPS

-----------------------------------------------------------------------------
(* The inductive invariants. *)

\* A request that is past its checks acts for a verified user, and one that
\* talks to the identity provider belongs to a flow.
JobOK(b) ==
  /\ job[b].at = "exchange" => job[b].flow \in Flows
  /\ job[b].at = "session" => /\ job[b].user \in Users
                              /\ account[job[b].user].state = "verified"
JobsOK == \A b \in Browsers : JobOK(b)

\* What the identity provider approved names a user.
FlowsOK == \A f \in Flows : flow[f].at = "approved" => flow[f].user \in Users

PeopleInv == TypeOK /\ JobsOK /\ FlowsOK /\ VerifiedOnly

\* What the process has cached of the file in force is what that file allows:
\* the cache is never of a later file, a file there has a number, a file whose
\* period is yet to come was written before it, and a cache of this file has
\* its licence when it was good and in its period from the start, and none when
\* it is garbage.
CacheInv ==
  /\ cache.mtime <= file.mtime
  /\ file.period = "early" => file.written = "early"
  /\ file.kind # "absent" => file.mtime > 0
  /\ cache.mtime = 0 => ~cache.hosted
  /\ EnvEdition = "unset" /\ cache.mtime = file.mtime =>
       /\ (file.kind = "good" /\ file.written = "valid" /\ file.period = "valid") => cache.hosted
       /\ file.kind = "garbage" => ~cache.hosted

-----------------------------------------------------------------------------
(* The licence. *)

Cache == [mtime : 0..MaxInstalls, hosted : BOOLEAN]
LicenceOK == file \in LicenceFile /\ cache \in Cache

LEMMA ResolveType ==
  ASSUME LicenceOK
  PROVE  /\ resolve \in Cache
         /\ \/ resolve = cache
            \/ /\ file.kind # "absent" /\ resolve.mtime = file.mtime
               /\ resolve.hosted <=> (file.kind = "good" /\ file.period = "valid")
<1>1. CASE EnvEdition # "unset" \/ file.kind = "absent" \/ cache.mtime = file.mtime
  BY <1>1 DEF resolve, LicenceOK
<1>2. CASE ~(EnvEdition # "unset" \/ file.kind = "absent" \/ cache.mtime = file.mtime)
  <2>1. PICK v \in BOOLEAN : v = validateLicense
    BY DEF validateLicense
  <2>2. resolve = [mtime |-> file.mtime, hosted |-> v]
    BY <1>2, <2>1 DEF resolve
  <2>3. file.mtime \in 0..MaxInstalls
    BY DEF LicenceOK, LicenceFile
  <2>4. resolve \in Cache /\ resolve.mtime = file.mtime /\ resolve.hosted = v
    BY <2>2, <2>3 DEF Cache
  <2>5. QED
    BY <1>2, <2>1, <2>4 DEF validateLicense
<1>3. QED
  BY <1>1, <1>2

\* What steps do to the file and to the cache.
LicenceStep ==
  \/ file' = file /\ cache' \in {cache, resolve, NoCache}
  \/ /\ cache' = cache
     /\ \/ \E kind \in {"good", "garbage"}, period \in Periods : InstallLicense(kind, period)
        \/ RemoveLicense \/ PeriodMoves

LEMMA EveryLicenceStep == ASSUME [Next]_vars PROVE LicenceStep
<1>1. CASE Licensing
  BY <1>1 DEF Licensing, InstallLicense, RemoveLicense, PeriodMoves, Restarts, Refused,
              LicenceStep, Periods
<1>2. CASE Rows
  BY <1>2 DEF Rows, Registers, Verifies, SetRow, Required, licence, LicenceStep
<1>3. ASSUME NEW b \in Browsers, Browse(b) PROVE LicenceStep
  BY <1>3 DEF Browse, LoginLooks, createSession, SessionExpires, UseSession, logoutCore,
              tokenCore, BearerExpires, saveOidcSettings, SaveList, Allowed, Required,
              licence, LicenceStep
<1>4. ASSUME NEW b \in Browsers, SignOn(b) PROVE LicenceStep
  BY <1>4 DEF SignOn, oidcStartCore, CallbackLooks, Denied, StateLapses, Exchanges,
              ExchangeRefused, Required, licence, LicenceStep
<1>5. ASSUME NEW f \in Flows, NEW u \in Users, Approves(f, u) PROVE LicenceStep
  BY <1>5 DEF Approves, licence, LicenceStep
<1>6. CASE UNCHANGED vars
  BY <1>6 DEF vars, licence, LicenceStep
<1>7. QED
  BY <1>1, <1>2, <1>3, <1>4, <1>5, <1>6 DEF Next

LEMMA LicenceInit == Init => LicenceOK /\ CacheInv
  BY AccessAssumption
     DEF Init, LicenceOK, LicenceFile, Periods, Cache, NoCache, CacheInv

LEMMA LicenceStepOK ==
  ASSUME LicenceOK, CacheInv, LicenceStep
  PROVE  LicenceOK' /\ CacheInv'
<1>1. MaxInstalls \in Nat
  BY AccessAssumption
<1>2. /\ file \in LicenceFile /\ file.mtime \in 0..MaxInstalls /\ file.period \in Periods
      /\ cache \in Cache /\ cache.mtime \in 0..MaxInstalls
  BY DEF LicenceOK, LicenceFile, Cache
<1>3. CASE file' = file /\ cache' = cache
  BY <1>3 DEF LicenceOK, CacheInv
<1>4. CASE file' = file /\ cache' = resolve
  <2>1. resolve \in Cache /\ (resolve = cache \/
          /\ file.kind # "absent" /\ resolve.mtime = file.mtime
          /\ resolve.hosted <=> (file.kind = "good" /\ file.period = "valid"))
    BY ResolveType
  <2>2. CASE resolve = cache
    BY <1>3, <1>4, <2>2
  <2>3. CASE /\ file.kind # "absent" /\ resolve.mtime = file.mtime
             /\ resolve.hosted <=> (file.kind = "good" /\ file.period = "valid")
    BY <1>1, <1>2, <1>4, <2>1, <2>3 DEF LicenceOK, CacheInv
  <2>4. QED
    BY <2>1, <2>2, <2>3
<1>5. CASE file' = file /\ cache' = NoCache
  <2>1. NoCache \in Cache /\ NoCache.mtime = 0 /\ ~NoCache.hosted
    BY <1>1 DEF NoCache, Cache
  <2>2. QED
    BY <1>1, <1>2, <1>5, <2>1 DEF LicenceOK, CacheInv
<1>6. ASSUME NEW kind \in {"good", "garbage"}, NEW period \in Periods,
             InstallLicense(kind, period), cache' = cache
      PROVE  LicenceOK' /\ CacheInv'
  <2>1. /\ file' = [kind |-> kind, mtime |-> file.mtime + 1, period |-> period,
                    written |-> period]
        /\ file.mtime < MaxInstalls
    BY <1>6 DEF InstallLicense
  <2>2. file' \in LicenceFile
    BY <1>1, <1>2, <2>1 DEF LicenceFile
  <2>3. file'.mtime = file.mtime + 1 /\ file'.written = file'.period
    BY <2>1
  <2>4. CacheInv'
    BY <1>1, <1>2, <1>6, <2>3 DEF CacheInv
  <2>5. QED
    BY <1>2, <1>6, <2>2, <2>4 DEF LicenceOK
<1>7. CASE RemoveLicense /\ cache' = cache
  <2>1. /\ file' \in LicenceFile /\ file'.kind = "absent" /\ file'.mtime = file.mtime
        /\ file'.period = "expired"
    BY <1>2, <1>7 DEF RemoveLicense, LicenceFile, Periods
  <2>2. QED
    BY <1>2, <1>7, <2>1 DEF LicenceOK, CacheInv
<1>8. CASE PeriodMoves /\ cache' = cache
  <2>1. PICK p \in Periods : /\ file' = [file EXCEPT !.period = p]
                             /\ p = IF file.period = "early" THEN "valid" ELSE "expired"
    BY <1>8 DEF PeriodMoves, Periods
  <2>2. /\ file' \in LicenceFile /\ file'.kind = file.kind /\ file'.mtime = file.mtime
        /\ file'.written = file.written /\ file'.period = p
    BY <1>2, <2>1 DEF LicenceFile
  <2>3. QED
    BY <1>2, <1>8, <2>1, <2>2 DEF LicenceOK, CacheInv
<1>9. QED
  BY <1>3, <1>4, <1>5, <1>6, <1>7, <1>8 DEF LicenceStep

LEMMA LicenceIsInvariant == Spec => [](LicenceOK /\ CacheInv)
<1>1. LicenceOK /\ CacheInv /\ [Next]_vars => (LicenceOK /\ CacheInv)'
  BY LicenceStepOK, EveryLicenceStep
<1>2. QED
  BY <1>1, LicenceInit, PTL DEF Spec

LEMMA CacheImplies == LicenceOK /\ CacheInv => LicenseTakes
<1> SUFFICES ASSUME LicenceOK, CacheInv, EnvEdition = "unset"
             PROVE  /\ file.kind = "good" /\ file.written = "valid" /\ file.period = "valid"
                         => Hosted
                    /\ file.kind # "good" => ~Hosted
  BY DEF LicenseTakes
<1>1. Hosted <=> file.kind # "absent" /\ resolve.hosted
  BY DEF Hosted
<1>2. file.kind \in {"absent", "garbage", "good"}
  BY DEF LicenceOK, LicenceFile
<1>3. CASE file.kind = "absent"
  BY <1>1, <1>3
<1>4. CASE file.kind # "absent" /\ cache.mtime = file.mtime
  <2>1. resolve = cache
    BY <1>4 DEF resolve
  <2>2. QED
    BY <1>1, <1>2, <1>4, <2>1 DEF CacheInv
<1>5. CASE file.kind # "absent" /\ cache.mtime # file.mtime
  <2>1. resolve = [mtime |-> file.mtime, hosted |-> validateLicense]
    BY <1>5 DEF resolve
  <2>2. resolve.hosted = validateLicense
    BY <2>1
  <2>3. QED
    BY <1>1, <1>2, <1>5, <2>2 DEF validateLicense
<1>6. QED
  BY <1>3, <1>4, <1>5

\* The edition follows the licence file although edition.ts reads it once per
\* mtime: whatever the process had cached and however often files were written,
\* removed, ran out or the process restarted, a good file written in its period
\* takes effect for the period, and a file that is garbage or gone unlocks
\* nothing.
THEOREM LicencesTake == Spec => []LicenseTakes
<1>1. QED
  BY CacheImplies, LicenceIsInvariant, PTL

-----------------------------------------------------------------------------
(* Sessions. *)

\* A verified user stays verified.
StaysVerified ==
  \A u \in Users : account[u].state = "verified" => account'[u].state = "verified"

LEMMA IdleType == Idle \in Job /\ Idle.at = "idle"
  BY DEF Idle, Job

LEMMA PeopleInit == Init => PeopleInv
<1> SUFFICES ASSUME Init PROVE PeopleInv
  OBVIOUS
<1>1. account \in [Users -> Account] /\ bearer \in [Browsers -> Users \cup {NoUser}]
      /\ cookie \in [Browsers -> Flows \cup {NoFlow}] /\ oidc \in BOOLEAN
      /\ acl \in Lists \cup {{}}
  BY DEF Init, Account
<1>2. session \in [Browsers -> Session] /\ job \in [Browsers -> Job]
  BY IdleType DEF Init, Session
<1>3. flow \in [Flows -> Flow]
  <2>1. (CHOOSE b \in Browsers : TRUE) \in Browsers
    BY AccessAssumption
  <2>2. QED
    BY <2>1 DEF Init, Flow
<1>4. file \in LicenceFile /\ cache \in [mtime : 0..MaxInstalls, hosted : BOOLEAN]
  BY LicenceInit DEF LicenceOK, Cache
<1>5. JobsOK /\ FlowsOK /\ VerifiedOnly
  BY IdleType DEF Init, JobsOK, JobOK, FlowsOK, VerifiedOnly
<1>6. QED
  BY <1>1, <1>2, <1>3, <1>4, <1>5 DEF PeopleInv, TypeOK

\* The licence never disturbs the people: its part of the type is carried by
\* the licence's own invariant.
LEMMA TypeFromParts ==
  ASSUME LicenceOK', account' \in [Users -> Account], session' \in [Browsers -> Session],
         bearer' \in [Browsers -> Users \cup {NoUser}], job' \in [Browsers -> Job],
         flow' \in [Flows -> Flow], cookie' \in [Browsers -> Flows \cup {NoFlow}],
         oidc' \in BOOLEAN, acl' \in Lists \cup {{}}
  PROVE  TypeOK'
  BY DEF TypeOK, LicenceOK, Cache

\* The sign-on state of steps that do not touch it.
SameSignOn == flow' = flow /\ cookie' = cookie /\ oidc' = oidc

LEMMA SamePeople ==
  ASSUME PeopleInv, LicenceOK', account' = account, session' = session,
         bearer' \in [Browsers -> Users \cup {NoUser}],
         \A b \in Browsers : job'[b] \in {job[b], Idle}, job' \in [Browsers -> Job],
         flow' \in [Flows -> Flow], FlowsOK',
         cookie' \in [Browsers -> Flows \cup {NoFlow}],
         oidc' \in BOOLEAN, acl' \in Lists \cup {{}}
  PROVE  PeopleInv'
<1>1. TypeOK'
  BY TypeFromParts DEF PeopleInv, TypeOK
<1>2. JobsOK' /\ VerifiedOnly'
  BY IdleType DEF PeopleInv, JobsOK, JobOK, VerifiedOnly
<1>3. QED
  BY <1>1, <1>2 DEF PeopleInv

\* Rows change, nobody is unverified.
LEMMA NewRows ==
  ASSUME PeopleInv, LicenceOK', account' \in [Users -> Account], StaysVerified,
         session' = session, bearer' = bearer, job' = job, SameSignOn, acl' = acl
  PROVE  PeopleInv'
<1>1. TypeOK'
  BY TypeFromParts DEF PeopleInv, TypeOK, SameSignOn
<1>2. JobsOK' /\ FlowsOK'
  BY DEF PeopleInv, JobsOK, JobOK, FlowsOK, SameSignOn, StaysVerified
<1>3. VerifiedOnly'
  BY DEF PeopleInv, TypeOK, Session, VerifiedOnly, StaysVerified
<1>4. QED
  BY <1>1, <1>2, <1>3 DEF PeopleInv

LEMMA RowSteps ==
  ASSUME PeopleInv, LicenceOK', Rows
  PROVE  PeopleInv'
<1>1. PICK u \in Users :
        \/ Registers(u) \/ Verifies(u)
        \/ \E role \in {"user", "operator"}, disabled \in BOOLEAN : SetRow(u, role, disabled)
  BY DEF Rows
<1>2. account \in [Users -> Account] /\ account[u] \in Account
  BY DEF PeopleInv, TypeOK
<1>3. session' = session /\ bearer' = bearer /\ job' = job /\ SameSignOn /\ acl' = acl
  BY <1>1 DEF Registers, Verifies, SetRow, signon, SameSignOn
<1>4. \E row \in Account :
        /\ account' = [account EXCEPT ![u] = row]
        /\ account[u].state = "verified" => row.state = "verified"
  <2>1. CASE Registers(u)
    <3> DEFINE row == [account[u] EXCEPT !.state = "new", !.password = TRUE]
    <3>1. account' = [account EXCEPT ![u] = row] /\ account[u].state = "none"
      BY <2>1 DEF Registers
    <3>2. row \in Account
      BY <1>2 DEF Account
    <3>3. QED
      BY <3>1, <3>2
  <2>2. CASE Verifies(u)
    <3> DEFINE row == [account[u] EXCEPT !.state = "verified"]
    <3>1. account' = [account EXCEPT ![u] = row]
      BY <1>2, <2>2 DEF Verifies
    <3>2. row \in Account /\ row.state = "verified"
      BY <1>2 DEF Account
    <3>3. QED
      BY <3>1, <3>2
  <2>3. ASSUME NEW role \in {"user", "operator"}, NEW disabled \in BOOLEAN,
               SetRow(u, role, disabled)
        PROVE  \E row \in Account :
                 /\ account' = [account EXCEPT ![u] = row]
                 /\ account[u].state = "verified" => row.state = "verified"
    <3> DEFINE row == [account[u] EXCEPT !.role = role, !.disabled = disabled]
    <3>1. account' = [account EXCEPT ![u] = row]
      BY <2>3 DEF SetRow
    <3>2. row \in Account /\ row.state = account[u].state
      BY <1>2 DEF Account
    <3>3. QED
      BY <3>1, <3>2
  <2>4. QED
    BY <1>1, <2>1, <2>2, <2>3
<1>5. account' \in [Users -> Account] /\ StaysVerified
  BY <1>2, <1>4 DEF StaysVerified
<1>6. QED
  BY <1>3, <1>5, NewRows

\* One browser's request moves on.
LEMMA NewJob ==
  ASSUME PeopleInv, LicenceOK', NEW b \in Browsers, NEW j \in Job,
         job' = [job EXCEPT ![b] = j], account' = account, session' = session,
         bearer' = bearer, flow' = flow, cookie' \in [Browsers -> Flows \cup {NoFlow}],
         oidc' = oidc, acl' = acl,
         j.at = "exchange" => j.flow \in Flows,
         j.at = "session" => j.user \in Users /\ account[j.user].state = "verified"
  PROVE  PeopleInv'
<1>1. \A c \in Browsers : job'[c] = IF c = b THEN j ELSE job[c]
  BY DEF PeopleInv, TypeOK
<1>2. TypeOK'
  BY TypeFromParts DEF PeopleInv, TypeOK
<1>3. JobsOK'
  BY <1>1 DEF PeopleInv, JobsOK, JobOK
<1>4. FlowsOK' /\ VerifiedOnly'
  BY DEF PeopleInv, FlowsOK, VerifiedOnly
<1>5. QED
  BY <1>2, <1>3, <1>4 DEF PeopleInv

\* A session is written for a verified user, or goes, or runs out.
LEMMA NewSession ==
  ASSUME PeopleInv, LicenceOK', NEW b \in Browsers, NEW s \in Session,
         session' = [session EXCEPT ![b] = s], account' = account, bearer' = bearer,
         \A c \in Browsers : job'[c] \in {job[c], Idle}, job' \in [Browsers -> Job],
         flow' = flow, cookie' \in [Browsers -> Flows \cup {NoFlow}],
         oidc' \in BOOLEAN, acl' \in Lists \cup {{}},
         s # NoSession => account[s.user].state = "verified"
  PROVE  PeopleInv'
<1>1. \A c \in Browsers : session'[c] = IF c = b THEN s ELSE session[c]
  BY DEF PeopleInv, TypeOK
<1>2. TypeOK'
  BY TypeFromParts DEF PeopleInv, TypeOK
<1>3. JobsOK' /\ FlowsOK'
  BY IdleType DEF PeopleInv, JobsOK, JobOK, FlowsOK
<1>4. VerifiedOnly'
  BY <1>1 DEF PeopleInv, VerifiedOnly
<1>5. QED
  BY <1>2, <1>3, <1>4 DEF PeopleInv

LEMMA LicensingSteps ==
  ASSUME PeopleInv, LicenceOK', Licensing
  PROVE  PeopleInv'
<1>1. /\ account' = account /\ session' = session /\ bearer' = bearer /\ flow' = flow
      /\ cookie' = cookie /\ oidc' = oidc /\ acl' = acl
      /\ job' = job \/ job' = [b \in Browsers |-> Idle]
  BY DEF Licensing, InstallLicense, RemoveLicense, PeriodMoves, Restarts, Refused, people, signon
<1>2. job' \in [Browsers -> Job] /\ \A b \in Browsers : job'[b] \in {job[b], Idle}
  BY <1>1, IdleType DEF PeopleInv, TypeOK
<1>3. FlowsOK'
  BY <1>1 DEF PeopleInv, FlowsOK
<1>4. QED
  BY <1>1, <1>2, <1>3, SamePeople DEF PeopleInv, TypeOK

\* What sweeping an expired session leaves.
LEMMA Swept ==
  ASSUME PeopleInv, NEW b \in Browsers, Sweep(b) \/ session' = session
  PROVE  \E s \in Session : /\ session' = [session EXCEPT ![b] = s]
                            /\ s # NoSession => account[s.user].state = "verified"
<1>1. session \in [Browsers -> Session] /\ NoSession \in Session
  BY DEF PeopleInv, TypeOK, Session
<1>2. CASE session' = session
  BY <1>1, <1>2 DEF PeopleInv, VerifiedOnly
<1>3. CASE session' = [session EXCEPT ![b] = NoSession]
  BY <1>1, <1>3
<1>4. QED
  BY <1>2, <1>3 DEF Sweep

LEMMA ResolveUser ==
  ASSUME PeopleInv, NEW b \in Browsers
  PROVE  resolveSession(b) \in Users \cup {NoUser}
<1>1. session[b] \in Session
  BY DEF PeopleInv, TypeOK
<1>2. session[b].user \in Users \cup {NoUser}
  BY <1>1 DEF Session, NoSession
<1>3. QED
  BY <1>2 DEF resolveSession

LEMMA BrowseSteps ==
  ASSUME PeopleInv, LicenceOK', NEW b \in Browsers, Browse(b)
  PROVE  PeopleInv'
<1>0. /\ session \in [Browsers -> Session] /\ session[b] \in Session
      /\ bearer \in [Browsers -> Users \cup {NoUser}] /\ job \in [Browsers -> Job]
      /\ job[b] \in Job /\ flow \in [Flows -> Flow]
      /\ cookie \in [Browsers -> Flows \cup {NoFlow}] /\ oidc \in BOOLEAN
      /\ acl \in Lists \cup {{}} /\ FlowsOK
  BY DEF PeopleInv, TypeOK
<1>1. ASSUME NEW u \in Users, LoginLooks(b, u) PROVE PeopleInv'
  <2> DEFINE j == [Idle EXCEPT !.at = "session", !.user = u]
  <2>1. /\ job' = [job EXCEPT ![b] = j] /\ account' = account /\ session' = session
        /\ bearer' = bearer /\ flow' = flow /\ cookie' = cookie /\ oidc' = oidc /\ acl' = acl
    BY <1>1 DEF LoginLooks, signon
  <2>2. j \in Job /\ j.at = "session" /\ j.user = u
    BY DEF Idle, Job
  <2>3. account[u].state = "verified"
    BY <1>1 DEF LoginLooks, MayLogin
  <2> HIDE DEF j
  <2>4. QED
    BY <1>0, <2>1, <2>2, <2>3, NewJob
<1>2. CASE createSession(b)
  <2> DEFINE s == [user |-> job[b].user, live |-> TRUE]
  <2>1. /\ session' = [session EXCEPT ![b] = s] /\ job' = [job EXCEPT ![b] = Idle]
        /\ cookie' \in {cookie, [cookie EXCEPT ![b] = NoFlow]}
        /\ account' = account /\ bearer' = bearer /\ flow' = flow /\ oidc' = oidc /\ acl' = acl
    BY <1>2 DEF createSession
  <2>2. job[b].user \in Users /\ account[job[b].user].state = "verified"
    BY <1>2 DEF createSession, Ready, PeopleInv, JobsOK, JobOK
  <2>3. s \in Session /\ account[s.user].state = "verified"
    BY <2>2 DEF Session
  <2>4. /\ job' \in [Browsers -> Job] /\ \A c \in Browsers : job'[c] \in {job[c], Idle}
        /\ cookie' \in [Browsers -> Flows \cup {NoFlow}]
    BY <1>0, <2>1, IdleType
  <2> HIDE DEF s
  <2>5. QED
    BY <1>0, <2>1, <2>3, <2>4, NewSession
<1>3. ASSUME NEW s \in Session, session' = [session EXCEPT ![b] = s],
             s # NoSession => account[s.user].state = "verified",
             account' = account, bearer' = bearer, job' = job, flow' = flow,
             cookie' = cookie, oidc' \in BOOLEAN, acl' \in Lists \cup {{}}
      PROVE  PeopleInv'
  BY <1>0, <1>3, NewSession
<1>4. CASE SessionExpires(b)
  <2> DEFINE s == [session[b] EXCEPT !.live = FALSE]
  <2>1. /\ session' = [session EXCEPT ![b] = s] /\ session[b].live
        /\ account' = account /\ bearer' = bearer /\ job' = job /\ flow' = flow
        /\ cookie' = cookie /\ oidc' = oidc /\ acl' = acl
    BY <1>0, <1>4 DEF SessionExpires, signon
  <2>2. session[b] # NoSession
    BY <2>1 DEF NoSession
  <2>3. session[b] \in [user : Users, live : BOOLEAN]
    BY <1>0, <2>2 DEF Session
  <2>4. s \in Session /\ s.user = session[b].user
    BY <2>3 DEF Session
  <2>5. account[session[b].user].state = "verified"
    BY <2>2 DEF PeopleInv, VerifiedOnly
  <2> HIDE DEF s
  <2>6. QED
    BY <1>0, <1>3, <2>1, <2>4, <2>5
<1>5. CASE UseSession(b)
  <2>1. /\ account' = account /\ bearer' = bearer /\ job' = job /\ flow' = flow
        /\ cookie' = cookie /\ oidc' = oidc /\ acl' = acl /\ Sweep(b)
    BY <1>5 DEF UseSession, signon
  <2>2. QED
    BY <1>0, <1>3, <2>1, Swept
<1>6. CASE logoutCore(b)
  <2>1. /\ account' = account /\ bearer' = bearer /\ job' = job /\ flow' = flow
        /\ cookie' = cookie /\ oidc' = oidc /\ acl' = acl
        /\ session' = [session EXCEPT ![b] = NoSession]
    BY <1>6 DEF logoutCore, signon
  <2>2. NoSession \in Session
    BY DEF Session
  <2>3. QED
    BY <1>0, <1>3, <2>1, <2>2
<1>7. CASE tokenCore(b) \/ BearerExpires(b)
  <2>1. /\ account' = account /\ session' = session /\ job' = job /\ flow' = flow
        /\ cookie' = cookie /\ oidc' = oidc /\ acl' = acl
        /\ \E u \in Users \cup {NoUser} : bearer' = [bearer EXCEPT ![b] = u]
    BY <1>7, ResolveUser DEF tokenCore, BearerExpires, signon
  <2>2. bearer' \in [Browsers -> Users \cup {NoUser}] /\ FlowsOK'
    BY <1>0, <2>1 DEF FlowsOK
  <2>3. QED
    BY <1>0, <2>1, <2>2, SamePeople
<1>8. ASSUME NEW ip, saveOidcSettings(b, ip) \/ \E list \in Lists : SaveList(b, ip, list)
      PROVE  PeopleInv'
  <2>1. /\ account' = account /\ bearer' = bearer /\ job' = job /\ flow' = flow
        /\ cookie' = cookie /\ oidc' \in BOOLEAN /\ acl' \in Lists \cup {{}}
        /\ Sweep(b) \/ session' = session
    BY <1>0, <1>8 DEF saveOidcSettings, SaveList, Allowed
  <2>2. QED
    BY <1>0, <1>3, <2>1, Swept
<1>9. QED
  BY <1>1, <1>2, <1>4, <1>5, <1>6, <1>7, <1>8 DEF Browse

-----------------------------------------------------------------------------
(* Single sign-on. *)

LEMMA NewFlow ==
  ASSUME PeopleInv, LicenceOK', NEW f \in Flows, NEW g \in Flow,
         flow' = [flow EXCEPT ![f] = g], g.at = "approved" => g.user \in Users,
         account' = account, session' = session, bearer' = bearer,
         \A b \in Browsers : job'[b] \in {job[b], Idle}, job' \in [Browsers -> Job],
         cookie' \in [Browsers -> Flows \cup {NoFlow}], oidc' = oidc, acl' = acl
  PROVE  PeopleInv'
<1>1. flow' \in [Flows -> Flow] /\ FlowsOK'
  BY DEF PeopleInv, TypeOK, FlowsOK
<1>2. QED
  BY <1>1, SamePeople DEF PeopleInv, TypeOK

LEMMA SignOnSteps ==
  ASSUME PeopleInv, LicenceOK', NEW b \in Browsers, SignOn(b)
  PROVE  PeopleInv'
<1>0. /\ account \in [Users -> Account] /\ job \in [Browsers -> Job] /\ job[b] \in Job
      /\ flow \in [Flows -> Flow]
      /\ cookie \in [Browsers -> Flows \cup {NoFlow}] /\ oidc \in BOOLEAN
      /\ acl \in Lists \cup {{}} /\ FlowsOK /\ JobOK(b)
      /\ bearer \in [Browsers -> Users \cup {NoUser}]
  BY DEF PeopleInv, TypeOK, JobsOK
<1>1. ASSUME NEW f \in Flows, oidcStartCore(b, f) PROVE PeopleInv'
  <2>1. /\ flow' = [flow EXCEPT ![f] = issueState(b)]
        /\ cookie' = [cookie EXCEPT ![b] = f] /\ account' = account /\ session' = session
        /\ bearer' = bearer /\ job' = job /\ oidc' = oidc /\ acl' = acl
    BY <1>1 DEF oidcStartCore, people
  <2>2. issueState(b) \in Flow /\ issueState(b).at # "approved"
    BY DEF issueState, Flow
  <2>3. cookie' \in [Browsers -> Flows \cup {NoFlow}]
    BY <1>0, <2>1
  <2>4. QED
    BY <1>0, <2>1, <2>2, <2>3, NewFlow
<1>2. ASSUME NEW f \in Flows, CallbackLooks(b, f) PROVE PeopleInv'
  <2> DEFINE j == [Idle EXCEPT !.at = "exchange", !.flow = f]
  <2>1. /\ account' = account /\ session' = session /\ bearer' = bearer /\ flow' = flow
        /\ oidc' = oidc /\ acl' = acl
    BY <1>2 DEF CallbackLooks
  <2>2. CASE job' = [job EXCEPT ![b] = j] /\ cookie' = cookie
    <3>1. j \in Job /\ j.at = "exchange" /\ j.flow = f
      BY DEF Idle, Job
    <3> HIDE DEF j
    <3>2. QED
      BY <1>0, <2>1, <2>2, <3>1, NewJob
  <2>3. CASE cookie' = [cookie EXCEPT ![b] = NoFlow] /\ job' = job
    <3>1. cookie' \in [Browsers -> Flows \cup {NoFlow}] /\ FlowsOK'
      BY <1>0, <2>1, <2>3 DEF FlowsOK
    <3>2. QED
      BY <1>0, <2>1, <2>3, <3>1, SamePeople
  <2>4. QED
    BY <1>2, <2>2, <2>3 DEF CallbackLooks
<1>3. ASSUME NEW f \in Flows, Denied(b, f) PROVE PeopleInv'
  <2> DEFINE g == [flow[f] EXCEPT !.at = "redeemed"]
  <2>1. /\ flow' = [flow EXCEPT ![f] = g] /\ cookie' = [cookie EXCEPT ![b] = NoFlow]
        /\ account' = account /\ session' = session
        /\ bearer' = bearer /\ job' = job /\ oidc' = oidc /\ acl' = acl
    BY <1>0, <1>3 DEF Denied, people
  <2>2. g \in Flow /\ g.at = "redeemed"
    BY <1>0 DEF Flow
  <2>3. cookie' \in [Browsers -> Flows \cup {NoFlow}]
    BY <1>0, <2>1
  <2> HIDE DEF g
  <2>4. QED
    BY <1>0, <2>1, <2>2, <2>3, NewFlow
<1>4. CASE StateLapses(b)
  <2>1. /\ cookie' = [cookie EXCEPT ![b] = NoFlow] /\ account' = account
        /\ session' = session /\ bearer' = bearer /\ job' = job /\ flow' = flow
        /\ oidc' = oidc /\ acl' = acl
    BY <1>4 DEF StateLapses, people
  <2>2. cookie' \in [Browsers -> Flows \cup {NoFlow}] /\ FlowsOK'
    BY <1>0, <2>1 DEF FlowsOK
  <2>3. QED
    BY <1>0, <2>1, <2>2, SamePeople
<1>5. CASE Exchanges(b)
  <2>1. PICK f \in Flows : f = job[b].flow
    BY <1>0, <1>5 DEF Exchanges, JobOK
  <2>2. flow[f].at = "approved"
    BY <1>5, <2>1 DEF Exchanges
  <2>3. PICK u \in Users : u = flow[f].user
    BY <1>0, <2>2 DEF FlowsOK
  <2> DEFINE g == [flow[f] EXCEPT !.at = "redeemed"]
             row == [account[u] EXCEPT !.state = "verified"]
             j == IF account[u].disabled THEN Idle
                  ELSE [at |-> "session", user |-> u, flow |-> f]
  <2>4. /\ flow' = [flow EXCEPT ![f] = g] /\ account' = [account EXCEPT ![u] = row]
        /\ job' = [job EXCEPT ![b] = j] /\ session' = session /\ bearer' = bearer
        /\ cookie' = cookie /\ oidc' = oidc /\ acl' = acl
    BY <1>0, <1>5, <2>1, <2>3 DEF Exchanges, findOrCreateOidcUser
  <2>5. g \in Flow /\ g.at = "redeemed"
    BY <1>0 DEF Flow
  <2>6. row \in Account /\ row.state = "verified"
    BY <1>0 DEF Account
  <2>7. j \in Job /\ j.at # "exchange" /\ (j.at = "session" => j.user = u)
    BY IdleType DEF Job
  <2> HIDE DEF g, row, j
  <2>8. /\ account' \in [Users -> Account] /\ StaysVerified
        /\ account'[u].state = "verified"
    BY <1>0, <2>4, <2>6 DEF StaysVerified
  <2>9. /\ flow' \in [Flows -> Flow] /\ FlowsOK'
    BY <1>0, <2>4, <2>5 DEF FlowsOK
  <2>10. job' \in [Browsers -> Job] /\ \A c \in Browsers : job'[c] = IF c = b THEN j ELSE job[c]
    BY <1>0, <2>4, <2>7
  <2>11. JobsOK'
    BY <2>7, <2>8, <2>10 DEF PeopleInv, JobsOK, JobOK, StaysVerified
  <2>12. VerifiedOnly'
    BY <2>4, <2>8 DEF PeopleInv, TypeOK, Session, VerifiedOnly, StaysVerified
  <2>13. TypeOK'
    BY <1>0, <2>4, <2>8, <2>9, <2>10, TypeFromParts DEF PeopleInv, TypeOK
  <2>14. QED
    BY <2>9, <2>11, <2>12, <2>13 DEF PeopleInv
<1>6. CASE ExchangeRefused(b)
  <2>1. PICK f \in Flows : f = job[b].flow
    BY <1>0, <1>6 DEF ExchangeRefused, JobOK
  <2> DEFINE g == [flow[f] EXCEPT !.at = "redeemed"]
  <2>2. /\ flow' = [flow EXCEPT ![f] = g] /\ job' = [job EXCEPT ![b] = Idle]
        /\ account' = account /\ session' = session /\ bearer' = bearer
        /\ cookie' = cookie /\ oidc' = oidc /\ acl' = acl
    BY <1>0, <1>6, <2>1 DEF ExchangeRefused
  <2>3. g \in Flow /\ g.at = "redeemed"
    BY <1>0 DEF Flow
  <2>4. job' \in [Browsers -> Job] /\ \A c \in Browsers : job'[c] \in {job[c], Idle}
    BY <1>0, <2>2, IdleType
  <2> HIDE DEF g
  <2>5. QED
    BY <1>0, <2>2, <2>3, <2>4, NewFlow
<1>7. QED
  BY <1>1, <1>2, <1>3, <1>4, <1>5, <1>6 DEF SignOn

LEMMA PeopleStep ==
  ASSUME PeopleInv, LicenceOK', [Next]_vars
  PROVE  PeopleInv'
<1>1. CASE Licensing
  BY <1>1, LicensingSteps
<1>2. CASE Rows
  BY <1>2, RowSteps
<1>3. ASSUME NEW b \in Browsers, Browse(b) \/ SignOn(b) PROVE PeopleInv'
  BY <1>3, BrowseSteps, SignOnSteps
<1>4. ASSUME NEW f \in Flows, NEW u \in Users, Approves(f, u) PROVE PeopleInv'
  <2> DEFINE g == [flow[f] EXCEPT !.at = "approved", !.user = u]
  <2>1. /\ flow' = [flow EXCEPT ![f] = g] /\ account' = account /\ session' = session
        /\ bearer' = bearer /\ job' = job /\ cookie' = cookie /\ oidc' = oidc /\ acl' = acl
    BY <1>4 DEF Approves, people
  <2>2. g \in Flow /\ g.user = u
    BY DEF PeopleInv, TypeOK, Flow
  <2> HIDE DEF g
  <2>3. QED
    BY <2>1, <2>2, NewFlow DEF PeopleInv, TypeOK
<1>5. CASE UNCHANGED vars
  <2>1. /\ flow' = flow /\ account' = account /\ session' = session
        /\ bearer' = bearer /\ job' = job /\ cookie' = cookie /\ oidc' = oidc /\ acl' = acl
    BY <1>5 DEF vars, people, signon
  <2>2. FlowsOK'
    BY <2>1 DEF PeopleInv, FlowsOK
  <2>3. QED
    BY <2>1, <2>2, SamePeople DEF PeopleInv, TypeOK
<1>6. QED
  BY <1>1, <1>2, <1>3, <1>4, <1>5 DEF Next

LEMMA PeopleIsInvariant == Spec => []PeopleInv
<1>1. PeopleInv /\ LicenceOK' /\ [Next]_vars => PeopleInv'
  BY PeopleStep
<1>2. QED
  BY <1>1, PeopleInit, LicenceIsInvariant, PTL DEF Spec

\* Every row, session, token, flow and cookie keeps its type: in particular a
\* token is only ever minted for a user there is.
THEOREM TypeCorrect == Spec => []TypeOK
<1>1. PeopleInv => TypeOK
  BY DEF PeopleInv
<1>2. QED
  BY <1>1, PeopleIsInvariant, PTL

\* Every session belongs to a verified user: loginCore refuses an unverified
\* row, oidcCallbackCore signs in a verified one, and no step of any request
\* takes a verification back before or after createSession writes.
THEOREM SessionsAreVerified == Spec => []VerifiedOnly
<1>1. PeopleInv => VerifiedOnly
  BY DEF PeopleInv
<1>2. QED
  BY <1>1, PeopleIsInvariant, PTL

-----------------------------------------------------------------------------
(***************************************************************************)
(* The address list.  A range is the addresses with the quotient of the    *)
(* entry, by the size of its host part; and two addresses have the same    *)
(* quotient exactly when they agree on the bits above the host part: going *)
(* up, a quotient is half of the one below it; going down, it is twice the *)
(* one above it plus a bit.                                                *)
(***************************************************************************)

LEMMA TimesMono ==
  ASSUME NEW a \in Nat, NEW p \in Int, NEW q \in Int, p <= q
  PROVE  a * p <= a * q /\ a * p \in Int /\ a * q \in Int
OBVIOUS

\* A set of naturals that is not empty has a least member: the form in which
\* the proofs below use induction.
LEMMA LeastOf ==
  ASSUME NEW T \in SUBSET Nat, T # {} PROVE \E x \in T : \A y \in T : x <= y
<1>1. PICK x \in T : \A y \in T : ~(<<y, x>> \in OpToRel(<, Nat))
  BY WFMin, NatLessThanWellFounded
<1>2. \A y \in T : ~(y < x)
  BY <1>1 DEF OpToRel
<1> QED
  BY <1>2

\* The quotient is the one number whose multiple x lies at or above, by less
\* than the divisor.
LEMMA DivIs ==
  ASSUME NEW x \in Nat, NEW a \in Nat \ {0}
  PROVE  /\ x \div a \in Nat /\ a * (x \div a) <= x /\ x < a * (x \div a) + a
OBVIOUS

LEMMA DivUnique ==
  ASSUME NEW x \in Nat, NEW a \in Nat \ {0}, NEW q \in Int, a * q <= x, x < a * q + a
  PROVE  x \div a = q
<1> DEFINE p == x \div a
<1>1. p \in Nat /\ a * p <= x /\ x < a * p + a
  BY DivIs
<1> HIDE DEF p
<1>m. a * p \in Int /\ a * q \in Int
  BY <1>1
<1>2. ~(p < q)
  <2> SUFFICES ASSUME p + 1 <= q PROVE FALSE
    BY <1>1
  <2>1. a * (p + 1) <= a * q
    BY <1>1, TimesMono
  <2>2. a * (p + 1) = a * p + a
    BY <1>1
  <2> QED
    BY <1>1, <1>m, <2>1, <2>2
<1>3. ~(q < p)
  <2> SUFFICES ASSUME q + 1 <= p PROVE FALSE
    BY <1>1
  <2>1. a * (q + 1) <= a * p
    BY <1>1, TimesMono
  <2>2. a * (q + 1) = a * q + a
    OBVIOUS
  <2> QED
    BY <1>1, <1>m, <2>1, <2>2
<1> QED
  BY <1>1, <1>2, <1>3 DEF p

LEMMA HalfIs ==
  ASSUME NEW n \in Nat
  PROVE  /\ n \div 2 \in Nat /\ n % 2 \in {0, 1} /\ n = 2 * (n \div 2) + (n % 2)
OBVIOUS

\* Dividing by twice a is dividing by a and then by two.
LEMMA DivHalf ==
  ASSUME NEW x \in Nat, NEW a \in Nat \ {0}
  PROVE  x \div (2 * a) = (x \div a) \div 2
<1>1. PICK p \in Nat : p = x \div a /\ a * p <= x /\ x < a * p + a
  BY DivIs
<1>2. PICK h \in Nat : h = p \div 2 /\ 2 * h <= p /\ p <= 2 * h + 1
  BY <1>1, HalfIs
<1>3. a * (2 * h) <= a * p /\ a * p <= a * (2 * h + 1) /\ a * p \in Int
  BY <1>2, TimesMono
<1>4. a * (2 * h) = (2 * a) * h /\ a * (2 * h + 1) = (2 * a) * h + a
  OBVIOUS
<1>5. (2 * a) * h \in Int /\ 2 * a \in Nat \ {0}
  OBVIOUS
<1>6. (2 * a) * h <= x /\ x < (2 * a) * h + 2 * a
  BY <1>1, <1>3, <1>4, <1>5
<1>7. x \div (2 * a) = h
  BY <1>5, <1>6, DivUnique
<1> QED
  BY <1>1, <1>2, <1>7

\* 2^(n + 1) is twice 2^n: the subsets of 1..(n + 1) are those of 1..n, without
\* and with n + 1.
LEMMA PowerDouble ==
  ASSUME NEW n \in Nat PROVE 2^(n + 1) = 2 * 2^n /\ 2^n \in Nat \ {0}
<1> DEFINE S == 1..n
           U == 1..(n + 1)
           x == n + 1
           A == SUBSET S
           B == {T \in SUBSET U : x \in T}
           f == [T \in A |-> T \cup {x}]
<1>1. IsFiniteSet(S) /\ Cardinality(S) = n /\ IsFiniteSet(U) /\ Cardinality(U) = n + 1
  BY FS_Interval
<1>2. U = S \cup {x} /\ x \notin S
  OBVIOUS
<1> HIDE DEF S, U, x
<1>3. /\ IsFiniteSet(A) /\ Cardinality(A) = 2^n
      /\ IsFiniteSet(SUBSET U) /\ Cardinality(SUBSET U) = 2^(n + 1)
  BY <1>1, FS_SUBSET
<1>4. f \in Bijection(A, B)
  <2>1. f \in [A -> B]
    BY <1>2
  <2>2. ASSUME NEW T1 \in A, NEW T2 \in A, f[T1] = f[T2] PROVE T1 = T2
    <3>1. T1 \cup {x} = T2 \cup {x} /\ x \notin T1 /\ x \notin T2
      BY <1>2, <2>2
    <3> QED
      BY <3>1
  <2>3. ASSUME NEW T \in B PROVE \E V \in A : f[V] = T
    <3>1. T \ {x} \in A
      BY <1>2
    <3>2. f[T \ {x}] = T
      BY <3>1
    <3> QED
      BY <3>1, <3>2
  <2> HIDE DEF A, B, f
  <2> QED
    BY <2>1, <2>2, <2>3, Fun_IsBij
<1>5. IsFiniteSet(B) /\ Cardinality(B) = Cardinality(A)
  BY <1>3, <1>4, FS_Bijection DEF ExistsBijection
<1>6. SUBSET U = A \cup B /\ A \cap B = {}
  BY <1>2
<1> HIDE DEF A, B, f
<1>7. Cardinality(SUBSET U) = Cardinality(A) + Cardinality(B) - Cardinality(A \cap B)
  BY <1>3, <1>5, <1>6, FS_Union
<1>8. Cardinality(A \cap B) = 0 /\ Cardinality(A) \in Nat
  BY <1>3, <1>6, FS_EmptySet, FS_CardinalityType
<1>9. A # {}
  BY DEF A
<1>10. Cardinality(A) # 0
  BY <1>3, <1>9, FS_EmptySet
<1>11. PICK c \in Nat : c = Cardinality(A)
  BY <1>8
<1>12. Cardinality(SUBSET U) = 2 * c /\ c # 0
  BY <1>5, <1>7, <1>8, <1>10, <1>11
<1> QED
  BY <1>3, <1>11, <1>12

\* What is left of an address above its lowest i bits.
Quotient(x, i) == x \div 2^i

\* Successive quotients of an address, and the bit between them.
LEMMA QuotientStep ==
  ASSUME NEW x \in Nat, NEW i \in Nat
  PROVE  /\ Quotient(x, i) \in Nat /\ Quotient(x, i + 1) \in Nat
         /\ Bit(x, i) \in Int
         /\ Quotient(x, i + 1) = Quotient(x, i) \div 2
         /\ Quotient(x, i) = 2 * Quotient(x, i + 1) + Bit(x, i)
<1>1. PICK a \in Nat \ {0} : a = 2^i /\ 2^(i + 1) = 2 * a
  BY PowerDouble
<1>2. PICK q \in Nat : q = x \div a
  BY DivIs
<1>3. x \div (2 * a) = q \div 2
  BY <1>2, DivHalf
<1>4. q = 2 * (q \div 2) + (q % 2) /\ q \div 2 \in Nat /\ q % 2 \in Int
  BY HalfIs
<1> QED
  BY <1>1, <1>2, <1>3, <1>4 DEF Quotient, Bit

\* Addresses of w bits agree on the bits from m up iff their quotients by 2^m
\* are the same.
LEMMA PrefixIsQuotient ==
  ASSUME NEW w \in Nat, NEW m \in 0..w, NEW x \in 0..(2^w - 1), NEW y \in 0..(2^w - 1)
  PROVE  (\A i \in m..(w - 1) : Bit(x, i) = Bit(y, i)) <=> Quotient(x, m) = Quotient(y, m)
<1> DEFINE Same == {i \in Nat : Quotient(x, i) = Quotient(y, i)}
<1>0. x \in Nat /\ y \in Nat /\ m \in Nat
  OBVIOUS
<1>s. \A i \in Nat : i \in Same <=> Quotient(x, i) = Quotient(y, i)
  OBVIOUS
<1> HIDE DEF Same
<1>1. ASSUME NEW i \in Nat, i \in Same PROVE i + 1 \in Same
  <2>1. Quotient(x, i) = Quotient(y, i) /\ i + 1 \in Nat
    BY <1>1, <1>s
  <2>2. Quotient(x, i + 1) = Quotient(y, i + 1)
    BY <1>0, <2>1, QuotientStep
  <2> QED
    BY <1>s, <2>1, <2>2
<1>2. ASSUME NEW i \in Nat, i + 1 \in Same, Bit(x, i) = Bit(y, i) PROVE i \in Same
  <2>1. Quotient(x, i + 1) = Quotient(y, i + 1)
    BY <1>2, <1>s
  <2>2. Quotient(x, i) = Quotient(y, i)
    BY <1>0, <1>2, <2>1, QuotientStep
  <2> QED
    BY <1>s, <2>2
<1>3. ASSUME NEW i \in Nat, i \in Same, i + 1 \in Same PROVE Bit(x, i) = Bit(y, i)
  <2>1. Quotient(x, i) = Quotient(y, i) /\ Quotient(x, i + 1) = Quotient(y, i + 1)
    BY <1>3, <1>s
  <2>2. /\ Quotient(x, i) = 2 * Quotient(x, i + 1) + Bit(x, i)
        /\ Quotient(x, i) = 2 * Quotient(x, i + 1) + Bit(y, i)
        /\ Quotient(x, i) \in Nat /\ Quotient(x, i + 1) \in Nat
        /\ Bit(x, i) \in Int /\ Bit(y, i) \in Int
    BY <1>0, <2>1, QuotientStep
  <2> QED
    BY <2>2
<1>4. w \in Same
  <2>1. PICK a \in Nat \ {0} : a = 2^w
    BY PowerDouble
  <2>2. a * 0 <= x /\ x < a * 0 + a /\ a * 0 <= y /\ y < a * 0 + a
    BY <2>1
  <2>3. x \div a = 0 /\ y \div a = 0
    BY <1>0, <2>2, DivUnique
  <2> QED
    BY <1>s, <2>1, <2>3 DEF Quotient
<1>5. ASSUME m \in Same PROVE \A i \in m..(w - 1) : Bit(x, i) = Bit(y, i)
  <2> DEFINE T == {i \in Nat : i >= m /\ i \notin Same}
  <2>1. T = {}
    <3> SUFFICES ASSUME T # {} PROVE FALSE
      OBVIOUS
    <3>1. PICK i \in T : \A j \in T : i <= j
      BY LeastOf
    <3>2. i \in Nat /\ i > m
      BY <1>0, <1>5, <3>1
    <3>3. i - 1 \in Nat /\ i - 1 \notin T /\ i - 1 >= m /\ (i - 1) + 1 = i
      BY <1>0, <3>1, <3>2
    <3> QED
      BY <1>1, <3>1, <3>3
  <2>2. \A i \in m..(w - 1) : i \in Nat /\ i + 1 \in Nat /\ i \in Same /\ i + 1 \in Same
    BY <1>0, <2>1
  <2> QED
    BY <1>3, <2>2
<1>6. ASSUME \A i \in m..(w - 1) : Bit(x, i) = Bit(y, i) PROVE m \in Same
  <2> DEFINE T == {i \in Nat : i >= m /\ i <= w /\ i \in Same}
  <2>1. w \in T
    BY <1>4
  <2>2. PICK i \in T : \A j \in T : i <= j
    BY <2>1, LeastOf
  <2>3. CASE i = m
    BY <2>2, <2>3
  <2>4. CASE i # m
    <3>1. /\ i - 1 \in Nat /\ i - 1 >= m /\ i - 1 <= w - 1 /\ (i - 1) + 1 = i
          /\ i - 1 \notin T
      BY <1>0, <2>2, <2>4
    <3>2. i - 1 \in m..(w - 1)
      BY <1>0, <3>1
    <3>3. i - 1 \in Same
      BY <1>2, <1>6, <2>2, <3>1, <3>2
    <3> QED
      BY <3>1, <3>3
  <2> QED
    BY <2>3, <2>4
<1>7. m \in Same <=> Quotient(x, m) = Quotient(y, m)
  BY <1>0, <1>s
<1> QED
  BY <1>5, <1>6, <1>7

\* The range of an entry holds the addresses with the entry's quotient.
LEMMA RangeIsQuotient ==
  ASSUME NEW x \in Nat, NEW base \in Nat, NEW size \in Nat \ {0}
  PROVE  LET lo == (base \div size) * size
         IN  x \in lo..(lo + size - 1) <=> x \div size = base \div size
<1>1. PICK q \in Nat : q = base \div size
  BY DivIs
<1>2. size * q = q * size /\ q * size \in Int
  OBVIOUS
<1>3. ASSUME x \in (q * size)..(q * size + size - 1) PROVE x \div size = q
  <2>1. size * q <= x /\ x < size * q + size
    BY <1>2, <1>3
  <2> QED
    BY <2>1, DivUnique
<1>4. ASSUME x \div size = q PROVE x \in (q * size)..(q * size + size - 1)
  <2>1. size * q <= x /\ x < size * q + size
    BY <1>4, DivIs
  <2> QED
    BY <1>2, <2>1
<1> QED
  BY <1>1, <1>3, <1>4

\* For every address width, the range arithmetic of ipacl.ts admits exactly the
\* addresses that share the entry's prefix, for every prefix length and for
\* entries with host bits set.
THEOREM RangesArePrefixes == Spec => []RangeIsPrefix
<1>1. TypeOK => RangeIsPrefix
  <2> SUFFICES ASSUME TypeOK, NEW ip \in Addresses,
                      NEW c \in acl \cup (Addresses \X (0..Width))
               PROVE  ip \in v4Range(c)
                        <=> \A i \in (Width - c[2])..(Width - 1) : Bit(ip, i) = Bit(c[1], i)
    BY DEF RangeIsPrefix
  <2>1. c \in Addresses \X (0..Width)
    BY AccessAssumption DEF TypeOK, Addresses
  <2>2. PICK base \in Addresses, bits \in 0..Width : c[1] = base /\ c[2] = bits
    BY <2>1
  <2>3. PICK m \in 0..Width : m = Width - bits
    BY AccessAssumption
  <2>4. PICK size \in Nat \ {0} : size = 2^m
    BY <2>3, AccessAssumption, PowerDouble
  <2>5. ip \in Nat /\ base \in Nat
    BY DEF Addresses
  <2>6. ip \in v4Range(c) <=> ip \div size = base \div size
    <3>1. v4Range(c) = ((base \div size) * size)..((base \div size) * size + size - 1)
      BY <2>2, <2>3, <2>4 DEF v4Range
    <3> QED
      BY <2>5, <3>1, RangeIsQuotient
  <2>7. (\A i \in m..(Width - 1) : Bit(ip, i) = Bit(base, i))
          <=> Quotient(ip, m) = Quotient(base, m)
    BY AccessAssumption, PrefixIsQuotient DEF Addresses
  <2> QED
    BY <2>2, <2>3, <2>4, <2>6, <2>7 DEF Quotient
<1>2. QED
  BY <1>1, TypeCorrect, PTL
=============================================================================
