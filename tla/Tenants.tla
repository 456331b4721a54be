------------------------------ MODULE Tenants ------------------------------
(***************************************************************************)
(* The hosted edition's tenants and their prepaid money: self-serve        *)
(* sign-up and verification (control-plane/lib/cloud-auth.ts), the Paddle  *)
(* webhook (webhooks.ts), the operator's adjustments, the telemetry that   *)
(* carries what requests cost from the gateway (internal/telemetry) to     *)
(* request_events (request-events.ts), and the nightly reconcile           *)
(* (balance.ts).                                                           *)
(*                                                                         *)
(* A user is named by its e-mail, and so is the team that verification     *)
(* gives it.  Requests to the control plane run side by side; what one     *)
(* transaction does is one action, what a request reads before its         *)
(* transaction is an action of its own.  A reconcile is two steps: its     *)
(* SELECT sums ledger and spend as they are when the statement starts, and *)
(* FOR UPDATE may then wait for teams that others are changing; only the   *)
(* locked row is read again, the sums are not.                             *)
(***************************************************************************)
EXTENDS Integers, FiniteSets

CONSTANTS
  Users, Handlers, Payments, Events, Keys,
  PayerOf,      \* the team custom_data.team_id of a payment names
  KeyOf,        \* the virtual key a request was made with
  Bonus,        \* SIGNUP_BONUS_USD
  Topup,        \* the amount of a payment
  Cost,         \* what a request costs
  Adjustments,  \* the amounts an operator enters
  MaxAdjust,    \* bound on the number of adjustments
  MaxMoves,     \* bound on the number of times a key is put in a team or out
  Capacity,     \* capacity of the telemetry queue
  BatchSize,    \* events per batch
  NoUser        \* the user of an idle handler, the team of a key that has none

ASSUME AmountsAssumption ==
  /\ Bonus \in Nat /\ Topup \in Nat \ {0} /\ Cost \in Nat
  /\ Adjustments \subseteq Int \ {0}
ASSUME PartiesAssumption ==
  /\ PayerOf \in [Payments -> Users] /\ KeyOf \in [Events -> Keys]
  /\ IsFiniteSet(Events) /\ NoUser \notin Users /\ Users \cap Payments = {}

VARIABLES
  user,      \* users: none, new (e-mail unverified) or verified
  token,     \* email_verification_tokens: none, live or lapsed
  req,       \* what a handler has read or done so far
  teams,     \* the users whose team exists
  balance,   \* teams.balance_usd
  ledger,    \* the sum of a team's credit_transactions
  granted,   \* credit_transactions rows with this external_id
  adjusts,   \* adjustments entered
  teamOf,    \* virtual_keys.team_id
  moves,     \* how often a key's team was set
  owners,    \* history: the teams a key is or ever was in
  event,     \* where the record of a request is, and whether it succeeded
  rec,       \* the reconcile under way: its sums, and what was credited since
  missed     \* credits the last reconcile overtook, per team

accounts == <<user, token, req>>
money == <<teams, balance, ledger, granted, adjusts>>
keys == <<teamOf, moves, owners>>
vars == <<accounts, money, keys, event, rec, missed>>

States == {"none", "new", "verified"}
Places == {"none", "queued", "kept", "old", "purged", "lost"}
Stages == {"idle", "absent", "created", "verifying"}
Idle == [at |-> "idle", user |-> NoUser]
NoSums == [u \in Users |-> 0]
NoReconcile == [on |-> FALSE, rows |-> {}, computed |-> NoSums, late |-> NoSums]

Move(h, at, u) == req' = [req EXCEPT ![h] = [at |-> at, user |-> u]]
Finish(h) == req' = [req EXCEPT ![h] = Idle]

-----------------------------------------------------------------------------
(* Sign-up.  The three statements are not one transaction. *)

\* signupCore looks for the e-mail; a known one is answered the same way and
\* gets no new token.
SignupLooks(h, u) ==
  /\ req[h].at = "idle"
  /\ IF user[u] = "none" THEN Move(h, "absent", u) ELSE UNCHANGED req
  /\ UNCHANGED <<user, token, money, keys, event, rec, missed>>

\* INSERT INTO users: the unique index on lower(email) refuses the second of
\* two sign-ups that both found nothing.
SignupInserts(h) ==
  LET u == req[h].user IN
  /\ req[h].at = "absent"
  /\ IF user[u] = "none"
       THEN user' = [user EXCEPT ![u] = "new"] /\ Move(h, "created", u)
       ELSE Finish(h) /\ UNCHANGED user
  /\ UNCHANGED <<token, money, keys, event, rec, missed>>

issueVerificationToken(h) ==
  /\ req[h].at = "created"
  /\ token' = [token EXCEPT ![req[h].user] = "live"]
  /\ Finish(h)
  /\ UNCHANGED <<user, money, keys, event, rec, missed>>

TokenLapses(u) ==
  /\ token[u] = "live"
  /\ token' = [token EXCEPT ![u] = "lapsed"]
  /\ UNCHANGED <<user, req, money, keys, event, rec, missed>>

\* A sign-in through the identity provider creates the user or marks it
\* verified; it gives it no team.
findOrCreateOidcUser(u) ==
  /\ user[u] # "verified"
  /\ user' = [user EXCEPT ![u] = "verified"]
  /\ UNCHANGED <<token, req, money, keys, event, rec, missed>>

-----------------------------------------------------------------------------
(* Verification: the look-up, then one transaction. *)

VerifyLooks(h, u) ==
  /\ req[h].at = "idle" /\ token[u] = "live"
  /\ IF user[u] = "verified"
       THEN token' = [token EXCEPT ![u] = "none"] /\ UNCHANGED req
       ELSE Move(h, "verifying", u) /\ UNCHANGED token
  /\ UNCHANGED <<user, money, keys, event, rec, missed>>

\* INSERT INTO teams and INSERT INTO credit_transactions hit their unique
\* indexes, and the transaction rolls back.
Conflict(u) == u \in teams \/ (Bonus > 0 /\ granted[u] > 0)

\* verifyCore's transaction: the e-mail is verified, its token spent, and the
\* user owns a team whose balance is the bonus.
VerifyCommits(h) ==
  LET u == req[h].user IN
  /\ req[h].at = "verifying"
  /\ Finish(h)
  /\ IF Conflict(u)
       THEN UNCHANGED <<user, token, teams, balance, ledger, granted>>
       ELSE /\ user' = [user EXCEPT ![u] = "verified"]
            /\ token' = [token EXCEPT ![u] = "none"]
            /\ teams' = teams \cup {u}
            /\ balance' = [balance EXCEPT ![u] = Bonus]
            /\ ledger' = [ledger EXCEPT ![u] = @ + Bonus]
            /\ granted' = [granted EXCEPT ![u] = @ + (IF Bonus > 0 THEN 1 ELSE 0)]
  /\ UNCHANGED <<adjusts, keys, event, rec, missed>>

\* The process dies under a request: statements that ran stay.
Dies(h) ==
  /\ req[h].at # "idle"
  /\ Finish(h)
  /\ UNCHANGED <<user, token, money, keys, event, rec, missed>>

-----------------------------------------------------------------------------
(* Credits.  Each is a ledger row and the balance in one transaction; late  *)
(* counts those a reconcile under way has not summed.                       *)

Credit(u, delta) ==
  /\ ledger' = [ledger EXCEPT ![u] = @ + delta]
  /\ balance' = [balance EXCEPT ![u] = @ + delta]
  /\ rec' = IF rec.on /\ delta > 0 THEN [rec EXCEPT !.late[u] = @ + delta] ELSE rec

\* ON CONFLICT (source, external_id) DO NOTHING RETURNING id: a row comes
\* back when the payment was unknown.
Inserted_Always(p) == TRUE
Inserted(p) == granted[p] = 0

\* transaction.completed, delivered any number of times.  Another type of
\* event, a bad signature or currency, or an unknown team changes nothing.
paddleWebhookCore(p) ==
  LET u == PayerOf[p] IN
  /\ u \in teams /\ Inserted(p)
  /\ granted' = [granted EXCEPT ![p] = @ + 1]
  /\ Credit(u, Topup)
  /\ UNCHANGED <<accounts, teams, adjusts, keys, event, missed>>

\* POST billing/adjust: any non-zero amount, below zero too.
Adjust(u, delta) ==
  /\ u \in teams /\ adjusts < MaxAdjust
  /\ adjusts' = adjusts + 1
  /\ Credit(u, delta)
  /\ UNCHANGED <<accounts, teams, granted, keys, event, missed>>

-----------------------------------------------------------------------------
(* Keys.  A key is made in a team or without one, and may be put in another *)
(* at any time; a record of a request names its key only, so the queries    *)
(* below see all of a key's requests as those of the team it is in.         *)

\* The team_id of POST and PATCH virtual-keys: a team there is, or none.
PatchKey(k, t) ==
  /\ t \in (teams \cup {NoUser}) \ {teamOf[k]} /\ moves < MaxMoves
  /\ teamOf' = [teamOf EXCEPT ![k] = t]
  /\ owners' = [owners EXCEPT ![k] = @ \cup ({t} \ {NoUser})]
  /\ moves' = moves + 1
  /\ UNCHANGED <<accounts, money, event, rec, missed>>

-----------------------------------------------------------------------------
(* Spend.  The gateway queues one event per request and posts them in       *)
(* batches; a batch that fails is not sent again.                           *)

SpenderOf(e) == teamOf[KeyOf[e]]
Waiting == {e \in Events : event[e].at = "queued"}
Kept(u) == {e \in Events : /\ event[e].at \in {"kept", "old"}
                           /\ event[e].success /\ SpenderOf(e) = u}
Put(B, place) == [e \in Events |-> IF e \in B THEN [event[e] EXCEPT !.at = place] ELSE event[e]]

\* Record never blocks: a full queue drops the event.
Record(e, success) ==
  /\ event[e].at = "none"
  /\ event' = [event EXCEPT ![e] =
       [at |-> IF Cardinality(Waiting) < Capacity THEN "queued" ELSE "lost", success |-> success]]
  /\ UNCHANGED <<accounts, money, keys, rec, missed>>

\* Publish fails, or the gateway dies with its queue.
BatchLost(B) ==
  /\ B # {} /\ B \subseteq Waiting
  /\ event' = Put(B, "lost")
  /\ UNCHANGED <<accounts, money, keys, rec, missed>>

\* The rows ON CONFLICT (gateway_id, request_id) DO NOTHING lets in.
Fresh_All(B) == B
Fresh(B) == {e \in B : event[e].at = "queued"}

\* What a batch takes from a team that tracks a balance.
Charge(u, B) == Cost * Cardinality({e \in Fresh(B) : event[e].success /\ SpenderOf(e) = u})

\* A batch as the route accepts it.
RequestEventBatchSchema(B) == B # {} /\ Cardinality(B) <= BatchSize

\* storeRequestEvents, one transaction: rows older than 30 days go, the
\* batch's new rows come, and their teams' balances fall.  A batch may be
\* delivered again.
storeRequestEvents(B) ==
  /\ RequestEventBatchSchema(B)
  /\ B \subseteq {e \in Events : event[e].at \in {"queued", "kept"}}
  /\ event' = [e \in Events |->
       CASE event[e].at = "old" -> [event[e] EXCEPT !.at = "purged"]
         [] e \in Fresh(B) -> [event[e] EXCEPT !.at = "kept"]
         [] OTHER -> event[e]]
  /\ balance' = [u \in Users |->
       IF balance[u] > 0 THEN balance[u] - Charge(u, B) ELSE balance[u]]
  /\ UNCHANGED <<accounts, teams, ledger, granted, adjusts, keys, rec, missed>>

\* Thirty days pass.
Ages(e) ==
  /\ event[e].at = "kept"
  /\ event' = [event EXCEPT ![e].at = "old"]
  /\ UNCHANGED <<accounts, money, keys, rec, missed>>

-----------------------------------------------------------------------------
(* The reconcile. *)

Due(u) == ledger[u] - Cost * Cardinality(Kept(u))

ReconcileSums ==
  /\ ~rec.on
  /\ rec' = [on |-> TRUE, rows |-> teams, computed |-> [u \in Users |-> Due(u)], late |-> NoSums]
  /\ UNCHANGED <<accounts, money, keys, event, missed>>

\* The teams a reconcile writes: all it selected, whatever their balance.  A
\* team made after the SELECT is not among them.
Reconciled_Tracked == {u \in rec.rows : balance[u] > 0}
Reconciled == rec.rows

\* With every team locked, Math.max(computed, 0) replaces the balance.
ReconcileWrites ==
  /\ rec.on
  /\ balance' = [u \in Users |->
       IF u \notin Reconciled THEN balance[u]
       ELSE IF rec.computed[u] > 0 THEN rec.computed[u] ELSE 0]
  /\ missed' = [u \in Users |-> IF u \in Reconciled THEN rec.late[u] ELSE missed[u]]
  /\ rec' = NoReconcile
  /\ UNCHANGED <<accounts, teams, ledger, granted, adjusts, keys, event>>

\* It fails and rolls back, to be tried again after the interval.
ReconcileFails ==
  /\ rec.on
  /\ rec' = NoReconcile
  /\ UNCHANGED <<accounts, money, keys, event, missed>>

-----------------------------------------------------------------------------
Init ==
  /\ user = [u \in Users |-> "none"]
  /\ token = [u \in Users |-> "none"]
  /\ req = [h \in Handlers |-> Idle]
  /\ teams = {}
  /\ balance = NoSums /\ ledger = NoSums
  /\ granted = [x \in Users \cup Payments |-> 0]
  /\ adjusts = 0 /\ moves = 0
  /\ teamOf = [k \in Keys |-> NoUser] /\ owners = [k \in Keys |-> {}]
  /\ event = [e \in Events |-> [at |-> "none", success |-> FALSE]]
  /\ rec = NoReconcile
  /\ missed = NoSums

Handle(h) ==
  \/ \E u \in Users : SignupLooks(h, u) \/ VerifyLooks(h, u)
  \/ SignupInserts(h) \/ issueVerificationToken(h)
  \/ VerifyCommits(h) \/ Dies(h)

Telemetry ==
  \/ \E e \in Events : Ages(e) \/ \E success \in BOOLEAN : Record(e, success)
  \/ \E B \in SUBSET Events : storeRequestEvents(B) \/ BatchLost(B)

Next ==
  \/ \E h \in Handlers : Handle(h)
  \/ \E u \in Users : TokenLapses(u) \/ findOrCreateOidcUser(u)
  \/ \E u \in Users, delta \in Adjustments : Adjust(u, delta)
  \/ \E p \in Payments : paddleWebhookCore(p)
  \/ \E k \in Keys, t \in Users \cup {NoUser} : PatchKey(k, t)
  \/ Telemetry
  \/ ReconcileSums \/ ReconcileWrites \/ ReconcileFails

Spec == Init /\ [][Next]_vars

\* The reconcile is started again after every interval, and does not fail
\* every night.
FairSpec == Spec /\ WF_vars(ReconcileSums) /\ SF_vars(ReconcileWrites)

-----------------------------------------------------------------------------
(* Properties. *)

TypeOK ==
  /\ user \in [Users -> States]
  /\ token \in [Users -> {"none", "live", "lapsed"}]
  /\ req \in [Handlers -> [at : Stages, user : Users \cup {NoUser}]]
  /\ \A h \in Handlers : req[h].at # "idle" => req[h].user \in Users
  /\ teams \in SUBSET Users
  /\ balance \in [Users -> Int] /\ ledger \in [Users -> Int]
  /\ granted \in [Users \cup Payments -> Nat]
  /\ adjusts \in Nat /\ moves \in Nat
  /\ teamOf \in [Keys -> Users \cup {NoUser}] /\ owners \in [Keys -> SUBSET Users]
  /\ event \in [Events -> [at : Places, success : BOOLEAN]]
  /\ rec \in [on : BOOLEAN, rows : SUBSET Users, computed : [Users -> Int], late : [Users -> Nat]]
  /\ missed \in [Users -> Nat]

\* What the requests cost that were made with keys a team has or ever had, as
\* far as their records arrived; the purge of request_events forgets none.
Spent(u) == Cost * Cardinality({e \in Events : /\ event[e].at \in {"kept", "old", "purged"}
                                              /\ event[e].success /\ u \in owners[KeyOf[e]]})

(* A tenant keeps what it paid for: whatever overlaps, is delivered twice,  *)
(* ages out or fails, its balance is never below its ledger less what the   *)
(* keys it has or had have spent, each request counted once, except for     *)
(* credits that were committed while the last reconcile was between its     *)
(* sums and its writes.  A key that comes from another team brings along    *)
(* what it spent there (balance.ts, the join on virtual_keys).              *)
NeverShort ==
  \A u \in teams : balance[u] >= ledger[u] - Spent(u) - missed[u]

(* A verification that is repeated or overlaps another gives one team and   *)
(* one bonus, together or not at all; a payment is credited at most once    *)
(* however often its webhook arrives; and nobody without a team has money.  *)
CreditedOnce ==
  /\ \A x \in Users \cup Payments : granted[x] <= 1
  /\ \A u \in Users : granted[u] = 1 => u \in teams /\ user[u] = "verified"
  /\ \A u \in Users \ teams : ledger[u] = 0 /\ balance[u] = 0 /\ granted[u] = 0

(* Once payments, changes of keys and traffic cease, the nightly reconcile  *)
(* brings every team to what its ledger and the events kept say, and leaves *)
(* it there: what a reconcile overtook is given back.                       *)
Settles ==
  <>[](\A u \in teams : balance[u] = IF Due(u) > 0 THEN Due(u) ELSE 0)
=============================================================================
