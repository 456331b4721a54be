# Verification of the 2papi gateway

TLA+ models of the core of 2papi, the TLC runs that check them on small
instances, and TLAPS proofs of the properties that matter most.
`PROJECT.json` is the index: components, runs, the source lines behind every
definition, hazards, theorems, and the wrong variants of definitions that the
properties must notice (mutants).

1. [The system](#1-the-system)
2. [Modules and how they correspond to the code](#2-modules-and-how-they-correspond-to-the-code)
3. [Runs](#3-runs)
4. [Fairness](#4-fairness)
5. [Proofs](#5-proofs)
6. [Behaviours found while modelling](#6-behaviours-found-while-modelling)
7. [Plan](#7-plan)
8. [What is not modelled](#8-what-is-not-modelled)

## 1. The system

2papi is an LLM gateway. The **data plane** is a Go program (`cmd/gateway`,
`internal/`): it accepts OpenAI-, Anthropic- and Gemini-shaped requests from
clients that hold a virtual key, picks a provider account, forwards the request
and meters it. The **control plane** is a Next.js application over PostgreSQL
(`control-plane/`): operators edit providers, accounts, models, teams and keys,
publish an immutable *snapshot*, and the gateway polls and adopts it.

A model request passes through these parts in order:

    server.Authenticate -> guardrails, cache -> policy.Begin -> router.Plan
      -> for each account of the plan: TryAcquire, adapter (token), upstream, Release
      -> resilience (cooldown, circuit, lockout), affinity -> policy.Finalize -> telemetry

Every request runs in a goroutine of its own. There is no lock around a request:
each step takes a lock for itself, so all state below is shared and changes
between any two steps of a request. Snapshots are adopted at any moment, and the
control plane calls in with provider operations at any moment.

| Component | State it keeps | Operations | What is hard about it | What makes it correct |
|---|---|---|---|---|
| Virtual-key metering (`internal/policy`) | per key: in-flight slots, RPM and TPM buckets, spend ledger; per team: spend ledger; adopted snapshot | Authenticate, Begin, Finalize, Adopt | the clock is read before the lock; a slot is taken before later stages refuse; two callers (proxy, MCP) with different habits; ledgers change window | caps hold, rates hold, a used-up budget blocks, no slot is lost |
| Account health (`internal/resilience`) | per account: cooldown, failures, circuit, lockout, slots | Cooldown, Failure, Success, CircuitOpen, Lockout, TryAcquire, Release | every call locks by itself; answers of several attempts interleave | slots exact; a tripped circuit is open; no exclusion lasts for ever |
| Router (`internal/router`) | affinity, last known good account, cursors, snapshot | Plan, CommitAffinity, CommitLKGP, Adopt | plans are built from state that moves, probing an account takes a slot | a plan never makes an account exceed its cap |
| Attempt loop (`internal/proxy`) | per request: plan, chain of aliases, committed or not | ServeHTTP, try, modelChain | client leaves at any time; failure before or after the first byte; rings of fallbacks | no retry after the first byte; every request ends, and with an answer |
| OAuth tokens (`internal/adapter/oauthrefresh`, `adapter/codex/auth.go`) | credential and revision per account, refreshes in flight, persist retries | AccessToken, refresh, persist, retry loop | refresh tokens rotate: a lost or replayed one is gone; control plane down; operator logs in meanwhile | one refresh at a time; nothing older is stored; callers return |
| Credential endpoint (control plane) | credential and revision | PUT credentials, sign-in | compare-and-set on the revision; lost answers | the newer credential stays |
| Codex quota reset (`lib/codex/quota.ts`) | a row per idempotency key: status, lease, preflight | reset, reconcile, resolve, read | spends a scarce credit exactly once over crash, timeout, retry and two tabs | one active reset, one credit per key, settled rows stay, nothing stays pending |
| Provider operations (`lib/provider-operations.ts`, `internal/operations`) | none | dispatch, handle | the request may arrive after its caller gave up | inconclusive answers are not taken for failures |
| Snapshot publication (`lib/snapshots.ts`, `lib/control.ts`, the control API) | the tables, `config_versions`, open transactions | every edit of a resource (a transaction that ends in a draft), publish, roll back, import, migrate, seed, discover | READ COMMITTED: a compilation reads in several statements; drafts of overlapping requests; the gate before a publish | what is published is what was committed, and is self-contained |
| Snapshot adoption (`cmd/gateway/main.go`, `internal/controlplane`) | version run, version acknowledged | heartbeat, fetch, build, adopt, acknowledge | lost calls, restarts, secrets that rotate under an old declaration, two generations of binaries | only published versions, never back, and the newest in the end |
| Codex and Claude sign-in (`lib/codex`, `lib/claude`, `lib/redis.ts`) | one-time sessions, a leased device session, the account rows | start, callback, exchange, poll, import, upsert | repeated, late and crossed callbacks; slow polls; dialogs that render again; gateways that write back | a login counts once and is not overwritten, a row shows whose tokens it holds; a dialog ends |
| Tenants and money (`lib/cloud-auth.ts`, `lib/webhooks.ts`, `lib/request-events.ts`, `lib/balance.ts`, `internal/telemetry`) | users, tokens, teams, balances, ledger, events | sign up, verify, pay, adjust, record, ingest, reconcile | statements outside transactions, repeated webhooks and batches, lost batches, a reconcile that overlaps everything | each credit once, nobody short, balances settle |
| Operator access (`lib/auth.ts`, `lib/cloud-auth.ts`, `lib/oidc.ts`, `lib/sso-routes.ts`, `lib/edition.ts`, `lib/ipacl.ts`) | accounts, sessions, bearer tokens, SSO flows, address list, cached licence | log in, mint, sign on, change settings, install a licence | rows read before sessions are written, tokens that outlive a role, a cache keyed by mtime | the edition follows the licence; authority that was taken away ends |
| Lite store (`internal/lite`) | a JSON file | save, update callbacks | callbacks started with `go` may arrive out of order | the newest state is adopted |
| Response cache (`internal/cache`) | LRU with TTL, index of similar prompts | Get, Put, similar look-up | capacity, expiry and eviction interleave | bounds hold, nothing stale is served |
| MCP gateway (`internal/mcp`) | pinned tool hashes | Serve | metering shared with model traffic | the same limits as model traffic |
| Proxy transports (`internal/proxy/transport.go`) | rotation, bad marks | pick, mark | pool of proxies under failures | a good proxy is used when there is one |
| Schedulers (control plane) | timers, running flags | tick | overlapping runs | one run at a time |

The remaining parts (protocol translation, compression, guardrails, adapters'
request building, most of the dashboard) are sequential
code without shared state of their own; `PROJECT.json` lists each of them.

## 2. Modules and how they correspond to the code

| Module | Models | Proofs |
|---|---|---|
| `Policy` | `internal/policy/policy.go` and its callers in `internal/proxy/proxy.go` and `internal/mcp/mcp.go` | `PolicyProofs` |
| `Gateway` | `internal/resilience/state.go`, `internal/router/router.go`, the loop of `internal/proxy/proxy.go` | `GatewayProofs` |
| `TokenRefresh` | `internal/adapter/oauthrefresh/manager.go`, `internal/adapter/codex/auth.go`, the credential endpoint and its client | `TokenRefreshProofs` |
| `QuotaReset` | `control-plane/lib/codex/quota.ts`, `lib/provider-operations.ts`, `internal/operations/server.go`, `internal/adapter/codex/quota.go`, the provider | `QuotaResetProofs` |
| `Publication` | `control-plane/lib/control.ts`, `snapshots.ts`, `snapshot-envelope.ts`, `snapshot-transfer.ts`, `snapshot-migration.ts`, `resource-deletion.ts`, `model-routes.ts`, the control API route, `scripts/seed.ts`, `cmd/gateway/main.go`, `internal/controlplane/client.go` | `PublicationProofs` |
| `Rollout` | what publication promises, without tables or messages; `Publication` implements it | in `PublicationProofs` |
| `SignIn` | `control-plane/lib/codex`, `lib/claude`, `lib/redis.ts`, the device dialog, the writers of `accounts` | `SignInProofs` |
| `Tenants` | `control-plane/lib/cloud-auth.ts` (sign-up, verification), `webhooks.ts`, `request-events.ts`, `balance.ts`, `internal/telemetry/telemetry.go` | `TenantsProofs` |
| `Access` | `control-plane/lib/auth.ts`, `cloud-auth.ts` (login, tokens), `jwt.ts`, `oidc.ts`, `sso-routes.ts`, `edition.ts`, `ipacl.ts` | `AccessProofs` |

A module `MCx` defines the values of the constants of module `x` for TLC. A definition whose name ends in `_Something` directly
before the definition of the same name is a wrong variant of it, kept to show
that the properties notice the difference (`PROJECT.json`, mutants).

**Policy.** The variables `inflight`, `buckets`, `tpmBuckets`, `spend` are the
maps of a shard, `teamSpend` the map of `Auth`. Sharding is not visible: a key
always hashes to the same shard. `Authenticate` fixes the virtual key of a
request for its whole life, as the runtime of the moment does. `CallBegin` reads
the clock, `Begin` is the critical section; likewise `CallFinalize` and
`Finalize`. `MaxLockWait` bounds how long a goroutine may wait between the two.
`Stage` is the sequence of early returns of Begin, and `BeginMeters` says how far
the meters got when a stage refused. Tokens are multiplied by `Minute` so that
the refill `elapsed * rpm / 60` is an integer; money is an integer unit. The
history variables `bill`, `teamBill`, `taken`, `takenBy` and `leaked` record what
was charged, what was taken and which slots were lost to late refusals,
independently of the ledgers, buckets and counters, and no action reads them.

**Gateway.** `cooldown`, `fails`, `opened`, `active`, `lockouts` are the maps of
`resilience.State`; deadlines are kept as the ticks that remain, which is the
same to every reader and leaves the clock unbounded. `opened = 0` is an entry
whose time is over but which `CircuitOpen` has not deleted yet. `Probe` and
`ReleaseProbe` are the TryAcquire and Release that Plan does per candidate;
`OrderPlan` applies the strategy. Strategies that sort by snapshot values are
`"priority"` with `Rank`; strategies that compare live counters may return any
order, because other requests change the counters during the sort. `Attempt`,
`Return`, `Throttle`, `Failure`, `ReadFails`, `Lockout`, `Success`, `Commit` are
the stretches of the loop between two lock acquisitions. `NextAlias` is
`modelChain` walked lazily. `Leave` is the cancellation of the client's context.
An attempt in its adapter may have to refresh the account's token, before it sends
and once more after a 401 (`TokenCalls`): it leads a refresh (`Lead`) or joins one
that another request leads (`Join`), and `Refreshed` gives leader and waiters the
same result, the error of the leader's context included. How revisions and
generations move is left to `TokenRefresh`; here only who waits for whom matters.
`cut` marks a request whose last attempt failed with a context error although its
client was there. With `DialDeadline` accounts are reached through a SOCKS proxy,
whose dial has a deadline of its own (`internal/proxylib/proxylib.go:465`, `:544`).

**TokenRefresh.** A credential is a generation of a grant; the provider exchanges
only the newest generation of a grant (`issued`). `calls` is the single-flight
map, keyed by revision as in the code, `retries` the background persist loops.
`Lookup` is AccessToken under its lock. `Exchange`, `Store`, `Persist`, `Saved`,
`Degrade`, `Finish` are the steps of the leader, each under a lock of its own or
a call of its own. `Faults` chooses what may go wrong, so that a run can say
which fault a behaviour needs.

**QuotaReset.** `ops` is the table `provider_operations`, one row per key; each
transaction is one step, and one that throws changes nothing (`Prepare`, second
disjunct). `flying` holds consume requests that left the gateway and may still
arrive. `quota` and `spent` are the provider. `Outcomes` is what a caller may
learn; a timeout is possible at any time, a success only after the credit was
taken, and a refusal whether it was taken or not, since the gateway reports every
error status of the provider but 401 as one. `Crash` loses every handler and
nothing else.

**Publication.** `db` is every table at once, a function from rows to values. A
request of an operator is a transaction: `Submit` writes its rows and reads the
account list, `Compile` reads the rest, checks it and appends a draft, `Commit` or
`Abort` ends it. Other transactions may commit between the two reads, as READ
COMMITTED allows; row locks are `Blocked`. `Changes` has one operator per kind of
request, each the set of writes it may make; `f ++ g` is the writes of `f` over
those of `g`. A number in `config_versions` is
taken when a draft is stored, also by a transaction that is rolled back later.
`Migrate` and `Seed` are `npm run migrate && npm run seed`, which the container
runs before the server. A gateway is a loop of `Heartbeat`, `Fetch`, `Ack`, each of
which may fail; it runs what it built before it acknowledges, and compares the
next snapshot with what it heard was accepted. The digest of a snapshot is
modelled by what it digests (`Identity`). A row's `raced` remembers that its
transaction overlapped the commit of another one; no action reads it.

**Rollout** is the abstract specification: published versions only grow upwards,
and a gateway moves to a published version that is not older, or restarts. The
mapping takes the published rows for `published` and the version of the running
identity for `running`.

**SignIn.** `session` and `device` are keys in Redis, read and changed in single
scripts (`consumeJsonOnce`, `leaseJsonWhenDue`, `updateLeasedJson`). `Look` and
`WriteCodex` are the SELECT ... FOR UPDATE and the write of `createCodexAccount`;
`WriteClaude` is the single upsert of Claude. `Exchanged` and `Ask` are calls to
the provider, whose answers may be lost (`Dies`, or the answer "failed").
`normalize` is the decision of `auth-file.ts` on an auth file, by what its tokens
are worth and whom they were issued to rather than by their text; the tokens of one
file may belong to several people. A credential is a `Bundle`: the identity it
names and the owners of the access and refresh tokens it holds. A refresh by the
gateway answers with tokens of the refresh token's owner and leaves the name
(`Fresh`). A row's `foreign` remembers that since its last sign-in it was given a
credential that is not its identity's own; no action reads it. Secrets are numbered
by the writes to the table, so that a later one is larger.

**Tenants.** Each statement outside a transaction is a step of its own
(`SignupLooks`, `SignupInserts`, `issueVerificationToken`), a transaction is one
step. The reconcile is two: `ReconcileSums` is the snapshot of its SELECT,
`ReconcileWrites` follows once FOR UPDATE has every row. `rec.late` and `missed`
record the credits that came in between; no action decides by them. `event` says
where the record of a request is: in the queue, lost, stored, older than 30 days
or purged. A request is made with a key (`KeyOf`); its team is the key's team of
the moment a query asks for it (`teamOf`, `SpenderOf`), which `PatchKey` changes.
`owners` remembers the teams a key has been of; no action reads it.

**Access.** `Hosted` is `edition()` with its cache by mtime (`resolve`). A browser
runs one sign-in at a time (`job`), beside requests that use its session. A single
sign-on flow is named by its state parameter; `cookie` is the state cookie, which
the browser's tabs share. `v4Range` is the arithmetic of `ipacl.ts` over addresses
of `Width` bits.

## 3. Runs

Between them the passing runs take every action of their specifications. Runs
check for deadlock, except those of `Publication` and `SignIn`, where the bound on
versions or writes ends the behaviour. `gateway_shared` ends in a violation: it states
what a document of the repository promises, and its counterexample is how the code
breaks it (`PROJECT.json`, findings; section 6).

| Run | Instance | Checks | Shows |
|---|---|---|---|
| `policy_traffic` | one key, two requests, caps and RPM limits 1 and 2 switched by adoption, TPM 1, clock to 4, lock waits of one tick; model traffic only | SlotsAccounted, CapHeld, RateBound | the slot count is exactly the requests that hold a slot plus the slots lost to late refusals, no admission exceeds its cap, and no window of time sees more admissions than a full bucket plus the window's refill plus the refill of one longest wait for the lock (`rpm * MaxLockWait`): what a late caller that turns the bucket's clock back can gain |
| `policy_budget` | two keys (daily and monthly budget) in a team whose budget the organization or the balance lowers, both callers, days of one tick, months of two | TypeOK, BudgetBlocks | nobody is admitted in a window in which its key, share or team has used up its budget |
| `gateway_pool` | two accounts, one alias, last-known-good routing with affinity, two requests, caps lowered and an account disabled by adoption | TypeOK, SlotsExact, AttemptCap | the slot count is exact at every step, and no attempt exceeds the cap of its plan |
| `gateway_chain` | one account behind two aliases that fall back to each other, circuit after two failures, lockout after one, two requests that share refreshes, dials with a deadline | NoRetryAfterCommit, AnsweredOrCut, TrippedIsOpen, RequestsEnd, AccountsReturn | no second answer or attempt after the first byte; every request ends unless it waits for ever for an answer from outside, its own or that of the refresh it joined, and ends with an answer unless its client left or its last attempt failed with a context error; a tripped circuit is open, and no account stays excluded |
| `gateway_shared` | as `gateway_pool`, no dial deadline | AnsweredOrGone | **violation**: a request whose client is there joins a refresh, the leader's client leaves, and the request ends without an answer |
| `token` | two callers, a second login, generations 0 to 2, all four faults | OneLeader, NeverOlder, CallersReturn | one refresh of a revision at a time; the stored generation of a grant never goes back, over lost answers, cancelled leaders, retry loops and restarts; every caller returns unless an exchange is never answered |
| `quota_reset` | two keys, two handlers, two credits, another client on the account | TypeOK, OneActive, OncePerKey, SettledStays, AnsweredSendsNoMore, PendingEnds | one active reset, one credit per key, nothing is sent any more for a key whose dispatch was answered, settled rows stay, and no row stays pending |
| `publication_tables` | two accounts, two models, every kind of change, two operators, three versions, no gateway | NothingLost, SelfContained | the next publish lacks nothing committed and routes only to what it carries, unless its transaction overlapped another one |
| `publication_fleet` | one gateway of either generation, one operator, rollbacks, deletions, rotations, a setting no gateway can build, three versions, one active gateway required (the default) | ImplementsRollout, RevisionsNeverGoBack, Converges | the refinement of `Rollout`; no older secret is adopted; a gateway that can be served gets to the newest version |
| `signin` | one login of each provider, two handlers, two identities, a name, a file with tokens of two owners, a batch of two files, write-backs, patches, deletions; or a device code, its dialog and two handlers | LoginOnce, LoginStays, OwnCredential, OnePoll, DialogEnds | a login is carried through once, and a gateway's refresh never replaces it; the identity a row shows is the one whose tokens it holds, unless a mixed file or a patch brought them since the last sign-in; one poll of the provider at a time unless a poll outlives its lease, and every dialog ends |
| `tenants` | two tenants, two handlers, one payment, one adjustment, one request with a key that changes teams, a queue of one | NeverShort, CreditedOnce, Settles | one team and one bonus per user and one credit per payment, however verifications overlap and webhooks repeat; nobody is below its ledger less what the keys it has or had cost, except for credits the last reconcile overtook; balances settle once credits, requests and moves stop |
| `access` | one user, a browser with two sign-on tabs, two licence installations, addresses of two bits | LicenseTakes, VerifiedOnly, RangeIsPrefix, AuthorityEnds | the edition follows its file; sessions belong to verified users; the range arithmetic is prefix match; authority that was taken away ends |

**Bounds, and why they are enough.** Two requests are what the races need: every
hazard listed is between one goroutine and one other (or an adoption, a tick, a
crash); the proofs remove the bound for the properties they cover. `MaxNow`
covers four days and a change of month in `policy_budget`, two minutes (two full
refills) in `policy_traffic`. `MaxLockWait = 1` is the shortest wait that turns
a bucket's clock back. `MaxFails` is at least both thresholds, so the saturated
count compares like the real one. `CursorPeriod` is a multiple of every plan
length that occurs, so the cursor modulo it rotates as the unbounded one does.
`ChainLinks = 8` is the constant of the code. `MaxGen = 2` allows a refresh to
overtake a retry of the generation before; `MaxRetries` is 1 instead of 6, which
only shortens the loop. `MaxWindow = 1` in `quota_reset` because no property there
depends on the window. `MaxVersion = 3` leaves room for the seed, a draft and a
draft, publication or rollback that overtakes it; two accounts and two models
allow a mapping, a fallback and a pooled model to break. `MaxCred = 2` is one
rotation. `MaxWrites = 2` in `SignIn` is a login
and one write of the gateway, of an import or of a second login in either order. A
write-back that comes late to a row that was signed in twice needs three writes; with
`MaxWrites = 3`, and without the liveness property, TLC finds no violation in 3.7
million states, and the theorems hold for every bound. `Mixed = FALSE` keeps the device
dialog and the other sign-ins in separate behaviours: they share only the account rows
and the handlers, a device login writes its row the way a browser login does, and the
theorems do not assume the bound. In `Tenants` the bonus, the payment and the cost are
such that a balance can reach zero and below; `MaxMoves = 2` gives the key a team and
moves it on after it has spent. One request is enough for a repeated, lost, late or
purged batch, as a repetition is the same event again. A queue that overflows needs
two: with two keys, two requests, three moves and one handler TLC finds no violation
of NeverShort in 3.6 million states. `Width = 2` has every prefix
length the code distinguishes: none, some and all bits.

Symmetry is used for requests and operators only, and only in runs
without liveness. Strategies `round_robin` and `priority` are exercised by
`gateway_chain`, `lkgp` by `gateway_pool`; the others are covered by the theorems,
which hold for every strategy.

## 4. Fairness

* `Gateway`: weak fairness of the clock and of every step of a request except its
  calls to the outside while its client is there. The Go scheduler runs every
  goroutine, but the HTTP clients of the upstreams and of the token endpoint have no
  timeout (`proxy.go:61`), so such a call ends for certain only when the context of
  its client does. A request that has joined a refresh has no step of its own: it
  waits on its leader's channel without watching its own context (`auth.go:82`), so
  it hangs with its leader, with its slot, even when its own client is gone.
  RequestsEnd excepts exactly these waits (`Waits`). Refreshes led by a provider
  operation have a timeout (`operations/server.go:127`) and are not actors of this
  module. Arrivals, departures and adoptions are not assumed.
* `TokenRefresh`: weak fairness of the steps of a caller except the exchange, and
  of the retry loops. A persist is a call to the control plane with a timeout of
  10 s (`controlplane/client.go:88`) and ends in one of its outcomes, none in
  particular; the exchange has no timeout, which CallersReturn excepts. A waiter
  does not watch its own context, so it waits as long as its leader does.
* `QuotaReset`: weak fairness of GetQuota and of LeaseEnds only. Leases end with
  time; the dashboard polls the quota of an account while its page is open
  (`docs/codex-provider.md`). The handlers themselves get no fairness: they may
  crash, and PendingEnds must hold all the same.
* `Publication`: weak fairness of migration and seed (the container is restarted
  until they end), of the polling loop of every gateway, and strong fairness of
  `Fetch`: a poll that is tried every few seconds is answered again and again.
  Nothing is assumed of operators.
* `SignIn`: keys and leases in Redis end with time, a request ends one way or the
  other, and the timer of an open dialog fires; strong fairness because a poll
  needs a free handler. No answer of the provider is assumed.
* `Tenants`: the reconcile is started after every interval, and does not fail
  every night (strong fairness of `ReconcileWrites`).
* `Access`: the lifetime of a bearer token passes.

Policy is checked for safety only.

## 5. Proofs

All theorems hold for every value of the constants that satisfies the named
assumptions of the modules (finite sets of requests, numeric limits, snapshots
that map every key or account to a setting).

**PolicyProofs.** `TypeCorrect` proves TypeOK. `SlotAccount` and `ConcurrencyCap`
prove SlotsAccounted and CapHeld for model traffic (`Paths = {"proxy"}`),
provided adoption changes the value of a cap but does not switch it on or off
(`CapsStable`). Both premises are needed: MCP traffic violates CapHeld, and a
request admitted while its key had no cap would later release a slot of
somebody else. CapHeld is not inductive: the strengthening is
`CapInv == TypeOK /\ Provenance /\ LeakInv /\ SlotsAccounted`, where Provenance
ties the key a request carries to some adopted snapshot. The count of holders
changes by one element per step, which the cardinality lemmas turn into
arithmetic. From the same invariant and under the same premises
`LostSlotsStayLost` proves that no step gives a lost slot back, and that a key
admits only as many requests as its cap less its lost slots: once these reach the
cap, it admits nobody.

`RateIsBounded` proves RateBound for every snapshot, path, clock and wait for the
lock. RateBound speaks of what was taken since an instant t and is not inductive;
`RateInv == TypeOK /\ LockInv /\ FreshInv /\ LevelInv /\ RateBound` is. Its core,
LevelInv, adds to the tokens taken since t the level the bucket has for *any*
instant a caller may still come with, the past ones included: the sum is at most
one full bucket plus the refill from t to that instant plus the refill of one
longest wait. Quantifying over the caller's instant is what covers a late caller
that turns the bucket's clock back: if the account balances at the instant a
caller comes with, it balances for the drained bucket at every other instant,
earlier or later (`DrainedLevel`). The products of limits and times are isolated
in lemmas of plain arithmetic (`AccountStep`).

`BudgetIsEnforced` proves BudgetBlocks for every caller, MCP calls included, from
`BudgetInv == TypeOK /\ LockInv /\ Carried /\ LedgerInv /\ TeamInv`: what a key or
a team was charged in the present window is at most what its ledger holds for
that window, so the comparison Begin makes with the ledger covers the bill. It
has two premises. `MaxLockWait = 0` because a caller that waits across midnight
prunes the new day's entry (section 6). `BudgetsStable`, no adoption changes the
window of a key or switches a ledger on or off, because what is charged while a
key has no budget is not booked anywhere. `MCPolicy` assumes CapsStable and
BudgetsStable by name, so TLC evaluates both on the instances of its runs. The
invariants of all three arguments were checked by TLC on those instances first.

**GatewayProofs.** `TypeCorrect` proves TypeOK, including that the operators that
order a plan return plans (`ToFrontType`, `RotatedType`, `ShufflesType`,
`OrdersType`). `SlotsAreExact` proves SlotsExact with
`SlotInv == TypeOK /\ SlotsExact`; every action either leaves the set of holders
alone (`SlotsSame`), adds one (`SlotTaken`) or removes one (`SlotGiven`).
`AttemptsAreCapped` proves the action property AttemptCap from the same
invariant: the slot count that TryAcquire compares counts at least the attempts
upstream. `TrippedStaysOpen` proves TrippedIsOpen with
`CircuitInv == TypeOK /\ TrippedIsOpen`. `CommittedIsFinal` proves
NoRetryAfterCommit and `EveryoneIsAnswered` AnsweredOrCut, without premises. Their
invariant `AnswerInv` fixes how many responses a request has sent at each point of
the loop (none before an attempt returned, and after it one exactly when the attempt
was served), and that a request that was handed a context error has lost its client
or is marked as cut. AnsweredOrGone, without the second exception, is what
`gateway_shared` refutes.

**QuotaResetProofs.** Every step but the insertion of a row is *quiet* (`QuietRow`):
it changes no settled row, makes no row active and creates none. From it follow
`TypeCorrect`, `OneActiveReset` (an insertion happens only when, after the
expiry of leases, nothing is active) and `SettledRowsStay`. `SpentOncePerKey` and
`AnsweredRowsSendNoMore` need `SpendInv`: for each key, a request on its way means
nothing was taken yet, a key without a row has no handler that sends, nothing on its
way and nothing taken, a row its own dispatch settled has no handler that sends, a
handler about to send has sent nothing, and two handlers never send for the same key.
TLC checked SpendInv on the instance of `quota_reset` before it was proved.
That a failed row has spent nothing is no theorem, because it is not so (section 6).

**TenantsProofs.** `TypeCorrect` proves TypeOK. `CreditsAreOnce` proves
CreditedOnce with `CreditInv == TypeOK /\ CreditedOnce /\ SelectedExist`: a
reconcile only writes teams that exist, so nobody without a team gets money.
`NobodyIsShort` proves NeverShort, for any moves of keys between teams, with
`MoneyInv == CreditInv /\ Owned /\ NeverShort /\ SumsCover`. Owned says that the team
of a key is among the teams it has been of, so that whatever the join charges to a
team is part of what NeverShort allows. NeverShort alone is not inductive, because
the write of a reconcile replaces the balance: SumsCover says that what it is about to write covers the
ledger less the credits that came late and less what was spent until now. A
credit moves ledger and balance (or ledger and `late`) together, a batch adds to
the spend what it takes from the balance (`BatchCovers`, from the cardinality of a
disjoint union), and an event that ages or is purged stays billed.

**TokenRefreshProofs.** `RefreshInv == TypeOK /\ KnownOK /\ FreshInv /\ Counted`
carries `TypeCorrect` and `StoredNeverGoesBack` (NeverOlder). KnownOK says that
nobody knows a revision or a login that does not exist yet. FreshInv is the core:
whoever is about to write under the revision the endpoint holds, a leader or a
retry loop, carries a generation that was issued and is newer than the stored one
if that is of the same grant. Counted bounds the revisions: each revision but the first stored a
credential of its own, so there are no more of them than the provider has issued
and the operator has logged in; an accepted write adds one to both sides, and the
bound on the counter follows from the cardinality of that set. `LeadersAreOne`
proves OneLeader with `LeadInv`: the leader of a revision is the entry of the
single-flight map, and the entry is its own until it closes the channel.

**SignInProofs.** `BaseInv == TypeOK /\ HandlersOK /\ CodesIssued /\ RowsOK` gives
`TypeCorrect`: what a handler holds at each of its points, that codes exchanged
were issued, and that a row's revision and secret, and those of the gateway's
copy, are not ahead of the writes. `LoginsAreOnce` adds `OnceInv` (a login is with
its session, then with at most one handler, then written once);
`RowsHoldTheirOwn` proves OwnCredential with `OwnInv`: a row that was given its
identity's own credential holds it, and so does a gateway whose write-back would be
accepted; a sign-in raises the revision and so cuts off a gateway that refreshes what
it replaced. `OnePollAtATime` adds `LeaseInv` (until a poll has outlived
its lease, only the holder of the lease is at the provider, and a finished session
is leased to nobody). `SignInsStay` needs RowsOK only: an accepted write-back
carries the revision of the row, and every sign-in raises that revision.

**AccessProofs.** `LicencesTake` proves LicenseTakes from `CacheInv`, which says of
the cached answer what the file of that mtime is worth; mtimes only grow, so a
cache that matches the file's mtime was filled from that file.
`SessionsAreVerified` proves VerifiedOnly from `PeopleInv`: a request past its
checks holds a verified user, an approved sign-on flow a user, and no step takes a
verification back (`StaysVerified`).
`TypeCorrect` follows from the same invariant. `RangesArePrefixes` proves
RangeIsPrefix for every `Width`: an entry with n prefix bits is the range of
2^(Width - n) addresses that starts at the entry's address rounded down, and an
address lies in that range exactly when its quotient by the size of the range is
that of the entry (`RangeIsQuotient`), which is to say when the first n bits are
the same (`PrefixIsQuotient`). Facts about all bit lengths are proved through the
least member of the set of counterexamples (`LeastOf`), as the library's induction
theorems cannot be used by the installed provers. That a list holds pairs of an
address and a prefix length is part of `AccessAssumption`: `parseCidrs` refuses
any other entry.

**PublicationProofs.** The base is `TablesInv == TypeOK /\ AccountsFine /\ LocksOK
/\ BootOK /\ OpenOK`: a revision above 1 is counted up with the secret only, open
transactions write disjoint rows, nothing is open and nobody runs a version before
the server runs, and a stored draft belongs to one open transaction. That
every kind of change keeps it is one lemma per kind (`...Fine`): it writes values
its rows can hold, and never makes an account new again or lowers a revision
(`WriteFine`). That a set of version numbers has a newest member, which `Newest`
chooses, comes from the well-foundedness of the natural numbers.

* `RolloutImplemented` proves the refinement, ImplementsRollout. The initial states
  map to initial states; Migrate maps to the abstract withdrawal (or a stutter),
  Seed and Publish to a publication, Fetch to an adoption, Start and Crash to a
  restart, and everything else to a stutter. The strengthening is `RunsPublished`:
  what a gateway runs is published, which the withdrawal cannot disturb because no
  gateway has adopted anything before the server runs (BootOK). A publication is
  the newest because candidates are newer than everything published (`Candidates`)
  or are appended at the end.
* `RevisionsGoForward` proves RevisionsNeverGoBack with `RunsKnown`: the revisions
  a gateway runs are not ahead of the table's, an account that is gone keeps its
  last one, and an import uses new ids.
* `VersionsAreContained` proves SelfContained with `ContentInv`: what a transaction
  has read is still so unless it is marked as raced (`Undisturbed`), and every
  version that was not raced is contained in itself (`StoreOK`). The interesting
  step is Compile, where the account list read earlier meets the rest read now.
* `DraftsLoseNothing` proves NothingLost with `DraftsOK`: the newest candidate, if
  it was not raced and is no rollback, says what the tables say, and the
  transactions still open have stored newer drafts. That a draft in an open
  transaction says what the tables overlaid with its writes say is part of
  `Undisturbed`, so a commit makes it true of the tables. Discovery and rotation
  change only rows this does not read.

The assumptions about the constants are that the seed inserts accounts and that
the bound on versions leaves room for the seed beside a historical row
(`MaxVersion` at least 2); both are facts of `seed.ts`.

Only model-checked: the liveness properties RequestsEnd, AccountsReturn,
CallersReturn, PendingEnds, Converges, DialogEnds, Settles and
AuthorityEnds, since fairness and ENABLED are beyond the prover. Every invariant
and every action property of the passing runs, and the refinement, is proved. `TypeOK` of
TokenRefresh, Publication, SignIn, Access and Tenants is proved and not listed by
a run.

## 6. Behaviours found while modelling

What follows is what the code does and the models reproduce. Where a line of the
repository says something else it is named; `design.md` is
`docs/history/specs/2026-08-05-openai-codex-provider-design.md`.

Gateway:

* **A refused request keeps its slot** (`policy.go:156`). Begin takes the
  concurrency slot first; when the rate, the budget or the share then refuses,
  the slot is not given back, and the proxy returns before it defers Finalize.
  As many refusals as the cap allows lock the key out until a restart
  (SlotsAccounted, LostSlotsStayLost).
* **A refused MCP call gives away a slot it never had** (`mcp.go:73`). The MCP
  gateway calls Finalize after every refusal, also after `concurrency_limited`;
  with `"mcp"` in `Paths`, CapHeld fails.
* **A foreign cancellation is answered with nothing** (`proxy.go:789`; run
  `gateway_shared`). `try` takes any context error for the departure of its own
  client; a request that waits for another one's token refresh is given the error of
  that one's context (`auth.go:82`). The loop then returns without writing, which
  `net/http` turns into an empty 200, where `docs/error-catalog.md:22` promises a 502.
  An expired dial deadline of a SOCKS proxy has the same effect on a single request.
* **A waiter does not watch its own client** (`auth.go:82`, `manager.go:150`). It
  keeps its slot as long as the leader's exchange takes, also after its client left.
* A refresh that fails with an error that contains the word "invalid" is answered
  with 400 instead of the next account (`proxy.go:792`).
* Between two stores of `server.Adopt` (`server.go:98`) a request may be
  authenticated by the new snapshot and handled by the old runtime. A key that is new
  is unknown to that runtime, and the request goes on unmetered (`proxy.go:563`). The
  model adopts in one step and has no such request.
* **A refresh that overlaps a new login restores the old login**
  (`manager.go:191`). `refreshToken` stores the fresh credential without comparing
  revisions; the next refresh persists it under the new revision. `design.md:246`
  says a newer login is kept. NeverOlder is therefore about the generations of one
  grant.
* A caller of Begin that waits for the lock across midnight works with
  yesterday's window and deletes today's ledger entry, so a budget may be spent
  again. `policy_budget` and `BudgetIsEnforced` therefore assume `MaxLockWait = 0`.
* An exhausted prepaid balance is no limit: the snapshot carries it, and Begin
  compares with it, only when it is above zero (`snapshots.ts:131`,
  `policy.go:135`), while `error-catalog.md:20` lists it as a refusal. It changes on
  the gateway only with the next publication, and it caps a day.
* Plan's probe takes a slot for a moment; another planner may see an idle account
  with `max_concurrency: 1` as saturated and answer 503.
* A first alias with no usable account is answered 503 although its fallback
  alias has one; fallbacks are tried only after a plan failed.
* Round robin reduces its cursor modulo the accounts usable at the moment, so an
  account may come first twice in a row when that number changes.
* A second 429 with a shorter Retry-After shortens a cooldown.
* The single-flight is per revision: when a persist retry moves the revision
  during an exchange, the next caller may present the same refresh token again.
* A retry loop keeps the generation it was started with; it may persist an older
  generation while the newest one is only in memory, where the next snapshot
  replaces it. A leader whose client leaves during the exchange loses the new
  generation altogether. Both end in a new login by the operator.
* A telemetry batch that fails is not sent again, and what it held is never billed.

Quota reset:

* **A reconciliation can credit a reset that never arrived** (`quota.ts:132`). The
  preflight is read before the lock, so its credit count may include a credit that
  another reset spends before the row is written; `design.md:592` takes the
  evidence for proof.
* **An error after the credit was taken makes a failed row** (`quota.go:191`).
  Every error status but 401 becomes `codex_reset_credit_failed` or
  `codex_quota_unsupported`, which `server.go:151` answers with 409 and `quota.ts:302`
  takes for conclusive, 5xx included. `design.md:592` wants upstream evidence that
  nothing was consumed. The operator is told that the reset failed and may spend a
  second credit under a new key; the key itself never spends two (OncePerKey).

Publication:

* **A fresh installation waits for itself** (`control.ts:277`).
  With the default `MIN_ACTIVE_GATEWAYS` of 1
  (`env.ts:18`), which `compose.yaml` does not change, the seed is refused until
  a gateway has been heard, and gateways are heard only by the server that starts
  after the seed (`control-plane/Dockerfile:27`). `README.md:72` offers
  `docker compose up --build` as the installation of the full stack. The same holds of
  an old database whose published version cannot be reconstructed. `publication_fleet`
  runs with this default: of its initial databases only those that need no first
  publish come up, and Converges speaks of those.
* Two overlapping requests may store drafts neither of which has both changes, and
  a compilation may read the account list before and the mappings after another
  commit; `raced` marks such drafts. The next change of anything compiles anew.
* A gateway whose acknowledgement was refused, or that rejected a version, blocks
  every further publish until it has adopted something or is no longer counted.
* A publish that has committed may still fail to notify Redis; gateways learn of it
  with their next poll. A rollback from the dashboard is two requests, a draft and
  its publication, and another draft may come between them.
* An import leaves MCP servers as they are and drops pooled models.

Sign-in:

* **PATCH of a credential keeps its revision** (`route.ts:290`; `design.md:214` says
  the revision names the credential). A gateway that refreshes at that moment
  replaces the patched secret.
* **The tokens of an auth file may be of several people** (`auth-file.ts:73`). An
  id token that has not expired names the account; the access and the refresh token
  are not compared with it, before or after a refresh. Such a row shows one person and
  spends the other's quota. The same goes for a credential pasted with PATCH. Both are
  the exceptions of OwnCredential.
* Re-authorizing an account with somebody else's login turns the row into that
  person's account; nothing compares the two.
* A batch import stops at the first refused entry and keeps the ones before it.
  Reauthorizing an account with an identity that another account has leaves both
  with the same identity.
* A poll that outlives its lease of 30 seconds stores the session again although
  another poll has finished it.

Tenants:

* A sign-up that dies between its INSERT and its token, or whose token lapses, can
  never get a new one: the e-mail is known, and `signupCore` answers without one.
  The comment at `cloud-auth.ts:67` speaks of a fresh request. A user verified
  through the identity provider gets neither team nor bonus.
* A reconcile that overlaps a top-up writes the balance without it; the next
  night's restores it (`missed`, Settles). A purge after 30 days makes the
  reconcile give the old spend back.
* **A key that changes teams takes its past spend along** (`route.ts:305`,
  `balance.ts:20`, `request-events.ts:118`). Spend is joined with the key's team of the
  moment: the next reconcile takes what the key spent before from the new team and
  gives it back to the old one. NeverShort therefore counts the spend of every key a
  team has or ever had. A snapshot import deletes keys altogether, and the spend of
  their requests is then nobody's; the model keeps its keys.
* `Record` may send on a channel that `Close` has closed (`telemetry.go:115`).

Access:

* `buildAuthUrl` sends no nonce, though `verifyIdToken` requires one (`oidc.ts:45`,
  `oidc.ts:119`): a conforming provider's sign-ins are refused. The model lets a
  provider send one all the same.
* A failing sign-on tab clears the state cookie of the other tab.
* The licence is judged once per mtime: one that expires stays active, one that is
  not valid yet stays inactive, until the file is touched or the process restarts. The
  comment at `edition.ts:113` ("Invalid/garbage/expired/wrong-key licenses degrade to
  OSS") holds only of the moment the file is read. LicenseTakes leaves both cases
  open, and assumes that two files never have the same mtime.
* A bearer token keeps its role until it expires.

## 7. Plan

Done: metering, the attempt loop, token refresh, quota reset, publication and
adoption with their abstract specification, sign-in, tenants, access; the proofs
of everything but liveness. Next:

1. `ResponseCache`: LRU, TTL and the look-up of similar prompts.
2. `LiteStore`, `ProxyPool`, `McpPins`, `Schedulers`.
3. The stream translators of the adapters, as machines over events.

## 8. What is not modelled

`PROJECT.json` lists every part with the reason. In short: pure conversions
(protocols, compression, configuration, proxy lists), byte-level streaming, request
building of the adapters, cryptography, read-only queries, rate limiting per
address, and the dashboard apart from the device dialog. Of the modelled components
these details are left out: latency averages and request counters of
`resilience.State` (they only order candidates, and the model allows every order),
`refreshCodexQuota` (it stores a value for display), encryption and validation in
the credential endpoint, what the adapters do between the token and the answer,
the gateway's last-good file, the three stores of `server.Adopt` and the unmetered
path of a key the runtime does not know (`proxy.go:563`), addresses and list entries
that are not IPv4 and are compared as text (`ipacl.ts:23`, `ipacl.ts:55`), the
deletion of keys by a snapshot import as far as it concerns balances, the audit log,
and the closing of the telemetry queue.
