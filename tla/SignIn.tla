------------------------------- MODULE SignIn -------------------------------
(***************************************************************************)
(* How provider accounts are signed in: browser logins of Codex and Claude *)
(* with their one-time sessions in Redis, the Codex device flow with its   *)
(* polling modal and leased session, imports of auth files, and the        *)
(* account rows they all end in -- while the gateway writes refreshed      *)
(* credentials back and operators delete accounts.                         *)
(*                                                                         *)
(* A handler is one request in the control plane.  It reads and writes     *)
(* Redis in single scripts, the provider in calls whose answer may be      *)
(* lost, and the accounts table in a transaction that holds the row it     *)
(* found.                                                                  *)
(***************************************************************************)
EXTENDS Integers, FiniteSets, Sequences

CONSTANTS
  Logins,         \* browser logins, by their state parameter
  ClaudeLogins,   \* those of Claude; the others are Codex logins
  Handlers,       \* requests the control plane serves at a time
  People,         \* provider identities (chatgpt_account_id, account uuid)
  Labels,         \* account names an operator may type
  Files,          \* auth files to import, see normalize
  Pasted,         \* credentials an operator may paste into an account
  Mixed,          \* bound: FALSE keeps the device dialog apart from other sign-ins
  None,
  MaxWrites       \* bound on the writes to the accounts table

ASSUME SignInAssumption ==
  /\ ClaudeLogins \subseteq Logins
  /\ People \cap Labels = {} /\ None \notin People \union Labels \union Logins
  /\ Mixed \in BOOLEAN
  /\ MaxWrites \in Nat \ {0}

VARIABLES
  session,    \* codex:oauth and claude:oauth keys in Redis
  code,       \* the authorization code the provider issued for a login
  device,     \* the codex:device key in Redis
  grant,      \* the provider's side of the device code
  modal,      \* the account dialog in the operator's browser
  req,        \* what each handler is doing
  accounts,   \* the rows, by their unique name
  writes,     \* the writes made so far, which also number the secrets
  wrote,      \* how often each login has been written
  gw,         \* the credential of each account that the gateway works with
  overrun     \* some poll of the provider outlived its lease

vars == <<session, code, device, grant, modal, req, accounts, writes, wrote, gw,
          overrun>>
rows == <<accounts, writes, wrote, gw>>
flow == <<device, grant, modal, overrun>>
browser == <<session, code>>

-----------------------------------------------------------------------------
ClaudeName(p) == <<"claude", p>>
Names == People \union Labels \union {ClaudeName(p) : p \in People}

\* A stored credential: the identity it names (chatgpt_account_id), if any, and
\* the people its access and refresh tokens were issued to, as far as known.
Bundle == [id : People \union {None}, of : SUBSET People]

\* Whether the credential is p's own and nobody else's.
OwnBundle(b, p) == b.id = p /\ b.of = {p}

\* A row: external_account_id, the secret and the credential it holds, the
\* credential's revision, and the secret of the last sign-in.  History: since
\* then it was given a credential that is not the identity's own.
Row == [ext : People, secret : 1..MaxWrites, cred : Bundle, rev : 1..MaxWrites,
        login : 1..MaxWrites, foreign : BOOLEAN]

\* What the gateway knows of a credential, and what a provider knows of a code.
Credential == [rev : 1..MaxWrites, secret : 1..MaxWrites, cred : Bundle]
Code == [person : People, spent : BOOLEAN]

ASSUME PastedAssumption == Pasted \subseteq Bundle
ASSUME NoneAssumption == None \notin Row \union Credential \union Code

Idle == [pc |-> "idle", login |-> None, using |-> None, person |-> None,
         of |-> {}, name |-> None, target |-> None, found |-> None, rest |-> <<>>,
         heard |-> FALSE, answer |-> "none", leased |-> FALSE]

Free(h) == req[h].pc = "idle"

\* accountName: the typed name, or one derived from the identity.
accountName(label, p) == IF label = None THEN p ELSE label

-----------------------------------------------------------------------------
(* Browser logins. *)

Gone == [st |-> "gone", label |-> None, target |-> None]

\* startOAuthSession, for a new account under an optional name or, from
\* reauthorize, for an account there is.
CodexSessions ==
  [st : {"open"}, label : Labels \union {None}, target : {None}]
    \union [st : {"open"}, label : {None},
            target : {n \in People \union Labels : accounts[n] # None}]

\* startClaudeOAuthSession has neither.
ClaudeSessions == [st : {"open"}, label : {None}, target : {None}]

\* Unless Mixed, the device dialog opens before anything else has happened, and
\* nobody signs in otherwise after that.
Untouched ==
  /\ writes = 0
  /\ \A l \in Logins : session[l].st = "new"
  /\ \A h \in Handlers : Free(h)
MaySignIn == Mixed \/ modal = "off"

StartLogin(l) ==
  /\ session[l].st = "new" /\ MaySignIn
  /\ \E s \in IF l \in ClaudeLogins THEN ClaudeSessions ELSE CodexSessions :
       session' = [session EXCEPT ![l] = s]
  /\ UNCHANGED <<code, flow, req, rows>>

\* The key's ten minutes are over.
SessionExpires(l) ==
  /\ session[l].st = "open"
  /\ session' = [session EXCEPT ![l] = Gone]
  /\ UNCHANGED <<code, flow, req, rows>>

\* Someone signs in at the provider.
Approve(l) ==
  /\ session[l].st # "new"
  /\ code[l] = None
  /\ \E p \in People : code' = [code EXCEPT ![l] = [person |-> p, spent |-> FALSE]]
  /\ UNCHANGED <<session, flow, req, rows>>

\* Wrong variant: the session is read now and deleted when the login is done.
consumeJsonOnce_Peeks(l) == UNCHANGED session

\* consumeJsonOnce: read and deleted in one script.
consumeJsonOnce(l) == session' = [session EXCEPT ![l] = Gone]

\* The handler goes on to the provider with the code of c, if c was issued one;
\* otherwise the exchange fails, and nothing comes of the login.
Redeem(h, l, c) ==
  IF code[c] = None THEN UNCHANGED req
  ELSE req' = [req EXCEPT ![h] = [Idle EXCEPT !.pc = "exchange", !.login = l, !.using = c,
                                              !.name = session[l].label,
                                              !.target = session[l].target]]

\* codexCallbackCore with the state of l and the code of c, or with an error: it
\* may be repeated, late, or put together from two logins.  The session is used
\* up in every case.
CodexCallback(h, l, c) ==
  /\ Free(h)
  /\ l \notin ClaudeLogins
  /\ session[l].st = "open"
  /\ consumeJsonOnce(l)
  /\ IF c = None THEN UNCHANGED req ELSE Redeem(h, l, c)
  /\ UNCHANGED <<code, flow, rows>>

\* claudeCallbackCore: without a code the session is not looked at.
ClaudeCallback(h, l, c) ==
  /\ Free(h)
  /\ l \in ClaudeLogins
  /\ c # None
  /\ session[l].st = "open"
  /\ consumeJsonOnce(l)
  /\ Redeem(h, l, c)
  /\ UNCHANGED <<code, flow, rows>>

\* The provider takes a code once, with the verifier it was asked for with;
\* verifyOpenAIIDToken compares the nonce.
Verified(h) == ~code[req[h].using].spent /\ req[h].using = req[h].login

\* The tokens come back, or the login ends here.
Exchanged(h) ==
  /\ IF Verified(h)
     THEN /\ code' = [code EXCEPT ![req[h].using].spent = TRUE]
          /\ req' = [req EXCEPT ![h].pc = "look",
                                ![h].person = code[req[h].using].person,
                                ![h].of = {code[req[h].using].person}]
     ELSE /\ req' = [req EXCEPT ![h] = Idle]
          /\ UNCHANGED code
  /\ UNCHANGED <<session, flow, rows>>

exchangeAuthorizationCode(h) ==
  req[h].pc = "exchange" /\ req[h].login \notin ClaudeLogins /\ Exchanged(h)

exchangeClaudeCode(h) ==
  req[h].pc = "exchange" /\ req[h].login \in ClaudeLogins /\ Exchanged(h)

-----------------------------------------------------------------------------
(* Auth files. *)

\* What the schemas let through: tokens that verify ("good"), that have expired
\* ("stale"), that do neither ("bad"), or that are not there, each issued to
\* someone; a refresh token, and whose; the account the file says it is of; and
\* a name for it.
Token == [st : {"good", "stale", "bad", "none"}, owner : People]
AuthFile ==
  [id : Token, access : Token, refresh : People \union {None},
   hint : People \union {None}, name : Labels \union {None}]

Batch == Seq(AuthFile)

ASSUME FilesAssumption == Files \subseteq Batch

\* applyIdentity: the file names no account, or this one.
applyIdentity(f, p) == f.hint \in {None, p}

\* Whom the tokens of the file identify: an id token that has not expired, else
\* an access token that verifies.
Named(f) ==
  IF f.id.st = "good" THEN f.id.owner
  ELSE IF f.access.st = "good" /\ applyIdentity(f, f.access.owner) THEN f.access.owner
  ELSE None

\* refreshOAuthCredential answers with tokens of the refresh token's owner.  A
\* new id token is among them or not: then an old one that has not expired
\* names the account still.
Refreshed(f) ==
  {p \in {f.refresh} : applyIdentity(f, p)}
    \union {p \in {f.id.owner} : f.id.st = "good"}

\* normalize: the credentials an auth file may be accepted as; none when it is
\* refused.  An id token that has not expired refuses the file when it does not
\* verify or names another account than the file claims.  With no name or no
\* access token that is still good, the file is refreshed.  Whose the access
\* token is, is not compared with the name.
normalize(f) ==
  LET refused == f.id.st = "bad" \/ (f.id.st = "good" /\ ~applyIdentity(f, f.id.owner))
      live == f.access.st \in {"good", "bad"}
      owners == {f.access.owner} \union ({f.refresh} \ {None})
  IN  IF refused THEN {}
      ELSE IF Named(f) # None /\ live THEN {[id |-> Named(f), of |-> owners]}
      ELSE IF f.refresh # None THEN {[id |-> p, of |-> {f.refresh}] : p \in Refreshed(f)}
      ELSE {}

\* codexImportAuthCore: one file, under no name.
Import(h, files) ==
  /\ Free(h) /\ MaySignIn
  /\ Len(files) = 1 /\ files[1].name = None
  /\ req' = [req EXCEPT ![h] = [Idle EXCEPT !.pc = "parse", !.rest = files]]
  /\ UNCHANGED <<browser, flow, rows>>

\* codexImportAuthBatchCore: the entries are parsed and written one after the
\* other, and the first that is refused ends the request.
ImportBatch(h, files) ==
  /\ Free(h) /\ MaySignIn
  /\ files # <<>>
  /\ req' = [req EXCEPT ![h] = [Idle EXCEPT !.pc = "parse", !.rest = files]]
  /\ UNCHANGED <<browser, flow, rows>>

\* parseCodexAuthFile and what the batch makes of its answer.
Parse(h) ==
  LET f == Head(req[h].rest)
  IN  /\ req[h].pc = "parse"
      /\ \/ /\ normalize(f) = {}
            /\ req' = [req EXCEPT ![h] = Idle]
         \/ \E c \in normalize(f) :
              req' = [req EXCEPT ![h] = [@ EXCEPT !.pc = "look", !.person = c.id,
                                                  !.of = c.of, !.name = f.name,
                                                  !.rest = Tail(req[h].rest)]]
      /\ UNCHANGED <<browser, flow, rows>>

-----------------------------------------------------------------------------
(* The account row. *)

Held(n) == \E h \in Handlers : req[h].pc = "write" /\ req[h].found = n

Remaining(h) ==
  IF req[h].rest = <<>> THEN Idle ELSE [Idle EXCEPT !.pc = "parse", !.rest = req[h].rest]

Done(h) == req' = [req EXCEPT ![h] = Remaining(h)]

\* createCodexAccount looks for the account asked for, else one of the same
\* identity, else one of the same name, and locks it.
Look(h) ==
  /\ req[h].pc = "look"
  /\ req[h].login \notin ClaudeLogins
  /\ LET name == accountName(req[h].name, req[h].person)
         same == {n \in People \union Labels :
                    accounts[n] # None /\ accounts[n].ext = req[h].person}
         candidates == IF req[h].target # None THEN {req[h].target}
                       ELSE IF same # {} THEN same ELSE {name}
         go(n) == req' = [req EXCEPT ![h].pc = "write", ![h].name = name, ![h].found = n]
     IN  \E n \in candidates :
           /\ ~Held(n)
           /\ \/ accounts[n] # None /\ go(n)
              \/ accounts[n] = None /\ req[h].target = None /\ go(None)
              \/ accounts[n] = None /\ req[h].target # None /\ req' = [req EXCEPT ![h] = Idle]
  /\ UNCHANGED <<browser, flow, rows>>

\* Wrong variant: a row that is there keeps its revision.
Upserted_KeepsRevision(n, b) ==
  [ext |-> b.id, secret |-> writes + 1, cred |-> b, login |-> writes + 1,
   rev |-> IF accounts[n] = None THEN 1 ELSE accounts[n].rev,
   foreign |-> ~OwnBundle(b, b.id)]

\* Wrong variant: a row that is there keeps its external_account_id.
Upserted_KeepsIdentity(n, b) ==
  [ext |-> IF accounts[n] = None THEN b.id ELSE accounts[n].ext,
   secret |-> writes + 1, cred |-> b, login |-> writes + 1,
   rev |-> IF accounts[n] = None THEN 1 ELSE accounts[n].rev + 1,
   foreign |-> ~OwnBundle(b, b.id)]

\* What the UPDATE, and the INSERT with its ON CONFLICT (name), leave behind.
Upserted(n, b) ==
  [ext |-> b.id, secret |-> writes + 1, cred |-> b, login |-> writes + 1,
   rev |-> IF accounts[n] = None THEN 1 ELSE accounts[n].rev + 1,
   foreign |-> ~OwnBundle(b, b.id)]

\* The row is written with a new secret, under the identity of the sign-in.
Put(h, n) ==
  /\ writes < MaxWrites
  /\ accounts' = [accounts EXCEPT ![n] = Upserted(n, [id |-> req[h].person, of |-> req[h].of])]
  /\ writes' = writes + 1
  /\ wrote' = [l \in Logins |-> IF l = req[h].login THEN wrote[l] + 1 ELSE wrote[l]]
  /\ UNCHANGED gw

\* The dialog's poll hears of the account when it is still waiting for it.
Tell(h, st) ==
  modal' = IF req[h].heard /\ modal = "polling" THEN st ELSE modal

\* createCodexAccount writes the row it found, or inserts; a row inserted under
\* the name meanwhile is updated.
WriteCodex(h) ==
  /\ req[h].pc = "write"
  /\ LET n == IF req[h].found = None THEN req[h].name ELSE req[h].found
     IN  ~(req[h].found = None /\ Held(n)) /\ Put(h, n)
  /\ Tell(h, "complete")
  /\ Done(h)
  /\ UNCHANGED <<browser, device, grant, overrun>>

\* createClaudeOAuthAccount: one statement, under the identity's own name.
WriteClaude(h) ==
  /\ req[h].pc = "look"
  /\ req[h].login \in ClaudeLogins
  /\ Put(h, ClaudeName(req[h].person))
  /\ Done(h)
  /\ UNCHANGED <<browser, flow>>

\* The request dies: the process restarts, the database or the provider's
\* answer is lost.  Its transaction is rolled back, nothing else is.
Dies(h) ==
  /\ ~Free(h)
  /\ req' = [req EXCEPT ![h] = Idle]
  /\ Tell(h, "waiting")
  /\ UNCHANGED <<browser, device, grant, overrun, rows>>

-----------------------------------------------------------------------------
(* The device flow. *)

Closed == [st |-> "gone", ttl |-> TRUE, over |-> FALSE, lease |-> FALSE, due |-> TRUE]

\* startDeviceFlow, and the dialog that shows the user code.
StartDevice ==
  /\ modal = "off" /\ (Mixed \/ Untouched)
  /\ modal' = "waiting"
  /\ device' = [Closed EXCEPT !.st = "open"]
  /\ grant' = "waiting"
  /\ UNCHANGED <<browser, req, rows, overrun>>

\* The user approves or refuses the code at the provider, or lets it lapse.
Decide ==
  /\ grant = "waiting"
  /\ grant' \in People \union {"denied", "lapsed"}
  /\ UNCHANGED <<browser, device, modal, req, rows, overrun>>

\* Wrong variant: the lease is written without the key's remaining time.
Leased_NoTtl == [device EXCEPT !.lease = TRUE, !.ttl = FALSE]

\* leaseJsonWhenDue, when the session is there, due and not leased.
Leased == [device EXCEPT !.lease = TRUE]

\* Wrong variant: a lease is not looked at.
TooSoon_AnyLease == ~device.due

TooSoon == ~device.due \/ device.lease

\* codexDeviceStatusCore begins: the session has gone, or it is too soon, or
\* the provider will be asked.
Poll(h) ==
  /\ modal = "waiting"
  /\ Free(h)
  /\ \/ device.st = "gone" /\ modal' = "expired" /\ UNCHANGED <<req, device>>
     \/ device.st = "open" /\ TooSoon /\ UNCHANGED <<modal, req, device>>
     \/ /\ device.st = "open" /\ ~TooSoon
        /\ device' = Leased
        /\ req' = [req EXCEPT ![h] = [Idle EXCEPT !.pc = "ask", !.heard = TRUE,
                                                  !.leased = TRUE]]
        /\ modal' = "polling"
  /\ UNCHANGED <<browser, grant, rows, overrun>>

\* The effect that polls is set up again (the operator types in the dialog, the
\* page renders): the answer under way is no longer listened to.
Rerender ==
  /\ modal = "polling"
  /\ modal' = "waiting"
  /\ req' = [h \in Handlers |-> [req[h] EXCEPT !.heard = FALSE]]
  /\ UNCHANGED <<browser, device, grant, rows, overrun>>

CloseModal ==
  /\ modal \in {"waiting", "polling"}
  /\ modal' = "closed"
  /\ UNCHANGED <<browser, device, grant, req, rows, overrun>>

\* Thirty seconds have passed since the lease was taken.
LeaseExpires ==
  /\ device.lease
  /\ device' = [device EXCEPT !.lease = FALSE]
  /\ overrun' = (overrun \/ \E h \in Handlers : req[h].leased)
  /\ req' = [h \in Handlers |-> [req[h] EXCEPT !.leased = FALSE]]
  /\ UNCHANGED <<browser, grant, modal, rows>>

\* The interval has passed.
DueAgain ==
  /\ ~device.due
  /\ device' = [device EXCEPT !.due = TRUE]
  /\ UNCHANGED <<browser, grant, modal, req, rows, overrun>>

\* expires_at_ms has passed, and Redis drops a key that has its time.
DeviceExpires ==
  /\ modal # "off" /\ ~device.over
  /\ device' = IF device.ttl THEN [device EXCEPT !.st = "gone", !.over = TRUE, !.lease = FALSE]
                             ELSE [device EXCEPT !.over = TRUE]
  /\ req' = [h \in Handlers |-> [req[h] EXCEPT !.leased = @ /\ ~device.ttl]]
  /\ UNCHANGED <<browser, grant, modal, rows, overrun>>

\* The provider answers a poll: it hands the tokens of an approved code out
\* once.  No connection, an error, or tokens that do not verify: "failed".
Ask(h) ==
  /\ req[h].pc = "ask"
  /\ \/ /\ req' = [req EXCEPT ![h].pc = "update", ![h].answer = "failed"]
        /\ UNCHANGED grant
     \/ /\ grant = "waiting"
        /\ req' = [req EXCEPT ![h].pc = "update", ![h].answer = "pending"]
        /\ UNCHANGED grant
     \/ /\ grant \in People
        /\ grant' = "spent"
        /\ req' = [req EXCEPT ![h].pc = "update", ![h].answer = "complete",
                              ![h].person = grant, ![h].of = {grant}]
     \/ /\ grant \in {"denied", "lapsed", "spent"}
        /\ req' = [req EXCEPT ![h].pc = "update",
                     ![h].answer = IF grant = "denied" THEN "denied" ELSE "expired"]
        /\ UNCHANGED grant
  /\ UNCHANGED <<browser, device, modal, rows, overrun>>

\* updateLeasedJson: the session is deleted, or stored again without a lease,
\* whoever holds one now and even if it was deleted meanwhile.
Update(h) ==
  LET again == [device EXCEPT !.st = "open", !.lease = FALSE, !.due = FALSE]
      gone == [device EXCEPT !.st = "gone", !.lease = FALSE]
      ends == req[h].answer \in {"complete", "denied", "expired"}
  IN  /\ req[h].pc = "update"
      /\ device' = IF ends \/ device.over THEN gone ELSE again
      /\ req' = [req EXCEPT ![h] = IF req[h].answer = "complete"
                                   THEN [@ EXCEPT !.pc = "look", !.leased = FALSE] ELSE Idle]
      /\ CASE req[h].answer = "complete" -> UNCHANGED modal
           [] req[h].answer \in {"denied", "expired"} -> Tell(h, req[h].answer)
           [] OTHER -> Tell(h, "waiting")
      /\ UNCHANGED <<browser, grant, rows, overrun>>

-----------------------------------------------------------------------------
(* The other users of the rows. *)

\* The gateway takes the credential over with a snapshot.
GatewayReads(n) ==
  /\ accounts[n] # None
  /\ gw' = [gw EXCEPT ![n] = [rev |-> accounts[n].rev, secret |-> accounts[n].secret,
                              cred |-> accounts[n].cred]]
  /\ UNCHANGED <<browser, flow, req, accounts, writes, wrote>>

\* expected_revision is the row's.
SameRevision(n) == gw[n].rev = accounts[n].rev

\* A refresh answers with tokens of the refresh token's owner.
Fresh(b) ==
  IF b.of = {} THEN {b} ELSE {[b EXCEPT !.of = {p}] : p \in b.of}

\* PUT accounts/:id/credentials: what the gateway refreshed, if the revision is
\* still the one it refreshed.  The identity the credential names, if any, goes
\* into the row.
GatewayPuts(n) ==
  /\ accounts[n] # None /\ gw[n] # None
  /\ ~Held(n)
  /\ SameRevision(n)
  /\ writes < MaxWrites
  /\ \E b \in Fresh(gw[n].cred) :
       /\ accounts' = [accounts EXCEPT
            ![n].secret = writes + 1, ![n].rev = @ + 1, ![n].cred = b,
            ![n].ext = IF b.id = None THEN @ ELSE b.id]
       /\ gw' = [gw EXCEPT ![n] = [rev |-> accounts[n].rev + 1, secret |-> writes + 1,
                                   cred |-> b]]
  /\ writes' = writes + 1
  /\ UNCHANGED <<browser, flow, req, wrote>>

\* PATCH accounts/:id with a credential, whosoever it is: a new secret under the
\* same revision and identity.
PatchCredential(n) ==
  /\ accounts[n] # None
  /\ ~Held(n)
  /\ writes < MaxWrites
  /\ \E b \in Pasted :
       accounts' = [accounts EXCEPT
         ![n].secret = writes + 1, ![n].cred = b,
         ![n].foreign = @ \/ ~OwnBundle(b, accounts[n].ext)]
  /\ writes' = writes + 1
  /\ UNCHANGED <<browser, flow, req, wrote, gw>>

\* deleteAccountResource: the id is gone, the name may be used again.
DeleteAccount(n) ==
  /\ accounts[n] # None
  /\ ~Held(n)
  /\ accounts' = [accounts EXCEPT ![n] = None]
  /\ gw' = [gw EXCEPT ![n] = None]
  /\ UNCHANGED <<browser, flow, req, writes, wrote>>

-----------------------------------------------------------------------------
Init ==
  /\ session = [l \in Logins |-> [Gone EXCEPT !.st = "new"]]
  /\ code = [l \in Logins |-> None]
  /\ device = Closed
  /\ grant = "none"
  /\ modal = "off"
  /\ req = [h \in Handlers |-> Idle]
  /\ accounts = [n \in Names |-> None]
  /\ writes = 0
  /\ wrote = [l \in Logins |-> 0]
  /\ gw = [n \in Names |-> None]
  /\ overrun = FALSE

Login(l) == StartLogin(l) \/ SessionExpires(l) \/ Approve(l)

Handle(h) ==
  \/ \E l \in Logins : \E c \in Logins \union {None} :
       CodexCallback(h, l, c) \/ ClaudeCallback(h, l, c)
  \/ exchangeAuthorizationCode(h) \/ exchangeClaudeCode(h)
  \/ \E fs \in Files : Import(h, fs) \/ ImportBatch(h, fs)
  \/ Poll(h)
  \/ Parse(h) \/ Look(h) \/ WriteCodex(h) \/ WriteClaude(h)
  \/ Ask(h) \/ Update(h) \/ Dies(h)

Next ==
  \/ \E l \in Logins : Login(l)
  \/ \E h \in Handlers : Handle(h)
  \/ StartDevice \/ Decide \/ Rerender \/ CloseModal
  \/ LeaseExpires \/ DueAgain \/ DeviceExpires
  \/ \E n \in Names : GatewayReads(n) \/ GatewayPuts(n) \/ PatchCredential(n)
                      \/ DeleteAccount(n)

Spec == Init /\ [][Next]_vars

\* Keys in Redis expire, a request comes to an end one way or the other, and
\* the dialog's timer fires while it is open.
Fairness ==
  /\ WF_vars(DeviceExpires) /\ WF_vars(LeaseExpires) /\ WF_vars(DueAgain)
  /\ \A h \in Handlers : WF_vars(Dies(h))
  /\ SF_vars(\E h \in Handlers : Poll(h))

FairSpec == Spec /\ Fairness

-----------------------------------------------------------------------------
(* Properties. *)

Session == [st : {"new", "open", "gone"}, label : Labels \union {None},
            target : People \union Labels \union {None}]
Device == [st : {"open", "gone"}, ttl : BOOLEAN, over : BOOLEAN, lease : BOOLEAN,
           due : BOOLEAN]
Request ==
  [pc : {"idle", "exchange", "parse", "look", "write", "ask", "update"},
   login : Logins \union {None}, using : Logins \union {None},
   person : People \union {None}, of : SUBSET People, name : People \union Labels \union {None},
   target : People \union Labels \union {None},
   found : People \union Labels \union {None}, rest : Batch, heard : BOOLEAN,
   answer : {"none", "failed", "pending", "complete", "denied", "expired"},
   leased : BOOLEAN]

TypeOK ==
  /\ session \in [Logins -> Session] /\ code \in [Logins -> Code \union {None}]
  /\ device \in Device
  /\ grant \in People \union {"none", "waiting", "denied", "lapsed", "spent"}
  /\ modal \in {"off", "waiting", "polling", "complete", "expired", "denied", "closed"}
  /\ overrun \in BOOLEAN
  /\ req \in [Handlers -> Request]
  /\ accounts \in [Names -> Row \union {None}] /\ gw \in [Names -> Credential \union {None}]
  /\ writes \in 0..MaxWrites /\ wrote \in [Logins -> Nat]

\* A login is carried through at most once, however often its callback comes
\* in and however the requests interleave (consumeJsonOnce).
LoginOnce ==
  \A l \in Logins :
    wrote[l] + Cardinality({h \in Handlers : req[h].login = l}) <= 1

\* The identity an account shows is the one whose tokens it holds, whoever
\* signs in under it, re-authorizes it or has it deleted while the gateway
\* refreshes it and writes identity and tokens back -- unless the tokens came
\* from an auth file that mixes owners, or were patched in, since the last
\* sign-in (create-account.ts, createCodexAccount; PUT accounts/:id/credentials).
OwnCredential ==
  \A n \in Names :
    (accounts[n] # None /\ ~accounts[n].foreign)
      => OwnBundle(accounts[n].cred, accounts[n].ext)

\* What the gateway refreshed never replaces the credential of a later sign-in:
\* as long as the revisions agree, and its PUT would be accepted, the gateway
\* works from that sign-in or from what followed it.
LoginStays ==
  \A n \in Names :
    (accounts[n] # None /\ gw[n] # None /\ gw[n].rev = accounts[n].rev)
      => gw[n].secret >= accounts[n].login

\* As long as no poll outlives its lease, the provider is asked by one request
\* at a time, whatever dialogs do (leaseJsonWhenDue, updateLeasedJson).
OnePoll ==
  ~overrun => Cardinality({h \in Handlers : req[h].pc = "ask" /\ req[h].leased}) <= 1

\* A dialog that waits for a device code ends: connected, refused, expired, or
\* closed -- also when polls fail, die, or are no longer listened to.
DialogEnds ==
  modal \in {"waiting", "polling"} ~> modal \in {"complete", "expired", "denied", "closed"}

=============================================================================
