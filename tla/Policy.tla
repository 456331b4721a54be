------------------------------- MODULE Policy -------------------------------
(***************************************************************************)
(* Virtual-key metering of the gateway: internal/policy/policy.go, with    *)
(* the two callers that drive it, the model proxy (internal/proxy) and the *)
(* MCP gateway (internal/mcp).                                             *)
(*                                                                         *)
(* A request captures its virtual key when it is routed to a runtime,      *)
(* calls Begin, runs, and calls Finalize.  Begin and Finalize read the     *)
(* clock BEFORE they take the shard lock, so each is two steps here: the   *)
(* call (which reads the clock) and the critical section.                  *)
(*                                                                         *)
(* Time is counted in ticks.  A bucket's tokens are scaled by Minute, the  *)
(* number of ticks in a minute, so that the refill is an integer.  Money   *)
(* is counted in an integer unit.                                          *)
(***************************************************************************)
EXTENDS Integers, FiniteSets

CONSTANTS
    Keys,         \* virtual keys, by name
    Teams,        \* team identifiers
    NoTeam,       \* a key with no team
    Requests,     \* request goroutines
    Paths,        \* the callers in play, a subset of {"proxy", "mcp"}
    Snapshots,    \* the snapshots that may be adopted, [Keys -> VirtualKey]
    Minute,       \* ticks per minute
    Day,          \* ticks per day
    DaysInMonth,  \* days per month
    Costs,        \* what a request may cost
    TokenCounts,  \* what a request may use of its TPM bucket
    MaxNow,       \* bound: the clock stops here
    MaxLockWait   \* bound: ticks that may pass between time.Now() and the lock

\* A virtual key as the snapshot carries it; 0 means "no limit" throughout.
VirtualKey ==
    [maxConcurrency : Nat, rpm : Nat, tpm : Nat, budget : Nat, month : BOOLEAN,
     team : Teams \cup {NoTeam}, teamBudget : Nat, orgBudget : Nat,
     balance : Nat, share : Nat]

ASSUME TimeAssumption ==
    /\ Minute \in Nat \ {0} /\ Day \in Nat \ {0} /\ DaysInMonth \in Nat \ {0}
    /\ MaxNow \in Nat /\ MaxLockWait \in Nat
ASSUME KeyAssumption ==
    /\ Snapshots # {} /\ Snapshots \subseteq [Keys -> VirtualKey]
    /\ Keys # {} /\ NoTeam \notin Teams
ASSUME LoadAssumption ==
    /\ IsFiniteSet(Requests)
    /\ Paths \subseteq {"proxy", "mcp"}
    /\ Costs \subseteq Nat /\ Costs # {}
    /\ TokenCounts \subseteq Nat /\ TokenCounts # {}

VARIABLES
    now,        \* the wall clock
    snap,       \* Auth.snap: the adopted snapshot
    inflight,   \* shard.inflight
    buckets,    \* shard.buckets: the RPM buckets
    tpmBuckets, \* shard.tpm
    spend,      \* shard.spend: the per-key ledger
    teamSpend,  \* Auth.teamSpend
    req,        \* what each request goroutine is doing
    bill,       \* history: what each key was charged in the current day and month
    teamBill,   \* history: what each team was charged today
    taken,      \* history: RPM tokens each key has taken
    takenBy,    \* history: takenBy[k][t], the tokens k had taken when t began
    leaked      \* history: slots a refused request of k took and left counted

meters  == <<inflight, buckets, tpmBuckets, spend, teamSpend>>
history == <<bill, teamBill, taken, takenBy, leaked>>
vars    == <<now, snap, meters, req, history>>

-----------------------------------------------------------------------------
(* Buckets and ledgers *)

\* rpm = 0 stands for the absent map entry: a stored bucket has rpm > 0.
NoBucket == [tokens |-> 0, last |-> 0, rpm |-> 0]

NewBucket(limit, t) == [tokens |-> limit * Minute, last |-> t, rpm |-> limit]

\* The bucket is created with the caller's limit and keeps that limit for life.
BucketFor(b, limit, t) == IF b = NoBucket THEN NewBucket(limit, t) ELSE b

Refill_Uncapped(b, t) ==
    [b EXCEPT !.tokens = @ + (t - b.last) * b.rpm, !.last = t]

\* Lazy refill; t may lie before b.last when a caller waited for the lock.
Refill(b, t) ==
    LET full == b.tokens + (t - b.last) * b.rpm
        cap  == b.rpm * Minute
    IN  [b EXCEPT !.tokens = IF full > cap THEN cap ELSE full, !.last = t]

Drain(b, n) == [b EXCEPT !.tokens = @ - n * Minute]

HasToken(b) == b.tokens >= Minute

DayOf(t) == t \div Day
MonthOf(t) == DayOf(t) \div DaysInMonth

DayWindow(t) == <<"day", DayOf(t)>>
MonthWindow(t) == <<"month", MonthOf(t)>>
budgetWindow(vk, t) == IF vk.month THEN MonthWindow(t) ELSE DayWindow(t)

NoSpend == [window |-> <<"none", 0>>, spent |-> 0]

\* spendFor and teamSpendFor return the entry's amount, and delete an entry
\* of another window as a side effect.
SpendIn(entry, w) == IF entry.window = w THEN entry.spent ELSE 0
Pruned(entry, w) == IF entry.window = w THEN entry ELSE NoSpend
Charged_Overwrites(entry, w, cost) == [window |-> w, spent |-> cost]
Charged(entry, w, cost) == [window |-> w, spent |-> SpendIn(entry, w) + cost]

effectiveTeamBudget(vk) ==
    LET byOrg == IF /\ vk.orgBudget > 0
                    /\ vk.teamBudget = 0 \/ vk.teamBudget > vk.orgBudget
                 THEN vk.orgBudget ELSE vk.teamBudget
    IN  IF vk.team = NoTeam THEN 0
        ELSE IF vk.balance > 0 /\ (byOrg = 0 \/ vk.balance < byOrg)
             THEN vk.balance ELSE byOrg

HasShare(vk) == vk.team # NoTeam /\ vk.share > 0

-----------------------------------------------------------------------------
(* Begin: the stages in the order of the code.  Each stage is reached only *)
(* when the ones before it did not refuse.                                 *)

RpmBucket(k, vk, t) == Refill(BucketFor(buckets[k], vk.rpm, t), t)
TpmBucket(k, vk, t) == Refill(BucketFor(tpmBuckets[k], vk.tpm, t), t)

ConcurrencyLimited_OffByOne(k, vk) ==
    vk.maxConcurrency > 0 /\ inflight[k] > vk.maxConcurrency
ConcurrencyLimited(k, vk) ==
    vk.maxConcurrency > 0 /\ inflight[k] >= vk.maxConcurrency
RpmLimited(k, vk, t) == vk.rpm > 0 /\ ~HasToken(RpmBucket(k, vk, t))
TpmLimited(k, vk, t) == vk.tpm > 0 /\ ~HasToken(TpmBucket(k, vk, t))
BudgetExceeded(k, vk, t) ==
    vk.budget > 0 /\ SpendIn(spend[k], budgetWindow(vk, t)) >= vk.budget
TeamExceeded(vk, t) ==
    /\ effectiveTeamBudget(vk) > 0
    /\ SpendIn(teamSpend[vk.team], DayWindow(t)) >= effectiveTeamBudget(vk)
ShareExceeded(k, vk, t) ==
    HasShare(vk) /\ SpendIn(spend[k], budgetWindow(vk, t)) >= vk.share

\* The stage Begin stops at: 1 concurrency, 2 RPM, 3 TPM, 4 key budget,
\* 5 team budget, 6 fair share; 7 is admission.
Stage(k, vk, t) ==
    IF ConcurrencyLimited(k, vk) THEN 1
    ELSE IF RpmLimited(k, vk, t) THEN 2
    ELSE IF TpmLimited(k, vk, t) THEN 3
    ELSE IF BudgetExceeded(k, vk, t) THEN 4
    ELSE IF TeamExceeded(vk, t) THEN 5
    ELSE IF ShareExceeded(k, vk, t) THEN 6
    ELSE 7
Admitted == 7

ReleaseSlot_Unguarded(k) == [inflight EXCEPT ![k] = @ - 1]
ReleaseSlot(k) ==
    IF inflight[k] > 0 THEN [inflight EXCEPT ![k] = @ - 1] ELSE inflight

\* The meters after Begin got as far as stage s.  The slot taken at stage 1
\* is NOT given back when a later stage refuses.
BeginMeters(k, vk, t, s) ==
    /\ inflight' = IF s > 1 /\ vk.maxConcurrency > 0
                   THEN [inflight EXCEPT ![k] = @ + 1] ELSE inflight
    /\ buckets' = IF s > 1 /\ vk.rpm > 0
                  THEN [buckets EXCEPT ![k] =
                          Drain(RpmBucket(k, vk, t), IF s > 2 THEN 1 ELSE 0)]
                  ELSE buckets
    /\ tpmBuckets' = IF s > 2 /\ vk.tpm > 0
                     THEN [tpmBuckets EXCEPT ![k] = TpmBucket(k, vk, t)]
                     ELSE tpmBuckets
    /\ spend' = IF \/ s > 3 /\ vk.budget > 0
                   \/ s > 5 /\ HasShare(vk)
                THEN [spend EXCEPT ![k] = Pruned(@, budgetWindow(vk, t))]
                ELSE spend
    /\ teamSpend' = IF s > 4 /\ effectiveTeamBudget(vk) > 0
                    THEN [teamSpend EXCEPT ![vk.team] = Pruned(@, DayWindow(t))]
                    ELSE teamSpend
    /\ taken' = IF s > 2 /\ vk.rpm > 0
                THEN [taken EXCEPT ![k] = @ + 1] ELSE taken

(* Finalize *)
FinalizeMeters(k, vk, t, tokens, cost, committed) ==
    /\ inflight' = ReleaseSlot(k)
    /\ tpmBuckets' =
         IF committed /\ vk.tpm > 0 /\ tokens > 0
         THEN [tpmBuckets EXCEPT ![k] = Drain(TpmBucket(k, vk, t), tokens)]
         ELSE tpmBuckets
    /\ spend' =
         IF committed /\ cost > 0 /\ (vk.budget > 0 \/ HasShare(vk))
         THEN [spend EXCEPT ![k] = Charged(@, budgetWindow(vk, t), cost)]
         ELSE spend
    /\ teamSpend' =
         IF committed /\ cost > 0 /\ effectiveTeamBudget(vk) > 0
         THEN [teamSpend EXCEPT ![vk.team] = Charged(@, DayWindow(t), cost)]
         ELSE teamSpend
    /\ bill' =
         IF committed
         THEN [bill EXCEPT
                 ![k].day   = IF DayOf(t) = DayOf(now) THEN @ + cost ELSE @,
                 ![k].month = IF MonthOf(t) = MonthOf(now) THEN @ + cost ELSE @]
         ELSE bill
    /\ teamBill' =
         IF committed /\ vk.team # NoTeam /\ DayOf(t) = DayOf(now)
         THEN [teamBill EXCEPT ![vk.team] = @ + cost] ELSE teamBill
    /\ UNCHANGED <<buckets, taken, takenBy, leaked>>

-----------------------------------------------------------------------------
(* Actions *)

Unlimited ==
    [maxConcurrency |-> 0, rpm |-> 0, tpm |-> 0, budget |-> 0, month |-> FALSE,
     team |-> NoTeam, teamBudget |-> 0, orgBudget |-> 0, balance |-> 0, share |-> 0]

Arrived(k, path, vk) ==
    [pc |-> "arrived", path |-> path, key |-> k, vk |-> vk, at |-> 0,
     tokens |-> 0, cost |-> 0, committed |-> FALSE]

Idle == [Arrived(CHOOSE k \in Keys : TRUE, "proxy", Unlimited)
           EXCEPT !.pc = "idle"]

Init ==
    /\ now = 0
    /\ snap \in Snapshots
    /\ inflight = [k \in Keys |-> 0]
    /\ buckets = [k \in Keys |-> NoBucket]
    /\ tpmBuckets = [k \in Keys |-> NoBucket]
    /\ spend = [k \in Keys |-> NoSpend]
    /\ teamSpend = [t \in Teams |-> NoSpend]
    /\ req = [r \in Requests |-> Idle]
    /\ bill = [k \in Keys |-> [day |-> 0, month |-> 0]]
    /\ teamBill = [t \in Teams |-> 0]
    /\ taken = [k \in Keys |-> 0]
    /\ takenBy = [k \in Keys |-> [t \in 0..MaxNow |-> 0]]
    /\ leaked = [k \in Keys |-> 0]

Become(r, pc) == req' = [req EXCEPT ![r].pc = pc]

\* The server authenticates the request and hands it to the runtime of the
\* moment; the key it carries is the key of that snapshot until it ends. A key
\* the runtime does not know passes unmetered (proxy.go:563), and is no actor
\* here: only between the two stores of server.Adopt can there be one.
Authenticate(r, k, path) ==
    /\ req[r].pc = "idle"
    /\ req' = [req EXCEPT ![r] = Arrived(k, path, snap[k])]
    /\ UNCHANGED <<now, snap, meters, history>>

LeaveEarly_Finalizes(r) ==
    /\ req[r].pc = "arrived"
    /\ inflight' = ReleaseSlot(req[r].key)
    /\ req' = [req EXCEPT ![r] = Idle]
    /\ UNCHANGED <<now, snap, buckets, tpmBuckets, spend, teamSpend, history>>

\* A request refused before the policy gate (guardrails, cache hit, unknown
\* MCP server) ends without touching a meter.
LeaveEarly(r) ==
    /\ req[r].pc = "arrived"
    /\ req' = [req EXCEPT ![r] = Idle]
    /\ UNCHANGED <<now, snap, meters, history>>

CallBegin(r) ==
    /\ req[r].pc = "arrived"
    /\ req' = [req EXCEPT ![r].pc = "beginning", ![r].at = now]
    /\ UNCHANGED <<now, snap, meters, history>>

\* The proxy returns before it defers Finalize; the MCP gateway calls
\* Finalize on every refusal.
Begin(r) ==
    LET k == req[r].key
        vk == req[r].vk
        s == Stage(k, vk, req[r].at)
    IN  /\ req[r].pc = "beginning"
        /\ BeginMeters(k, vk, req[r].at, s)
        /\ \/ s = Admitted /\ Become(r, "running") /\ UNCHANGED leaked
           \/ /\ s # Admitted /\ req[r].path = "mcp"
              /\ Become(r, "refused") /\ UNCHANGED leaked
           \/ /\ s # Admitted /\ req[r].path = "proxy"
              /\ req' = [req EXCEPT ![r] = Idle]
              /\ leaked' = IF s > 1 /\ vk.maxConcurrency > 0
                           THEN [leaked EXCEPT ![k] = @ + 1] ELSE leaked
        /\ UNCHANGED <<now, snap, bill, teamBill, takenBy>>

\* A served request ends with whatever usage the upstream reported; an MCP
\* call carries no tokens and no cost, and a refused one is not committed.
CallFinalize(r, tokens, cost, committed) ==
    /\ req[r].pc \in {"running", "refused"}
    /\ req[r].path = "mcp" => tokens = 0 /\ cost = 0
    /\ req[r].pc = "refused" => ~committed
    /\ req' = [req EXCEPT ![r].pc = IF @ = "running" THEN "finalizing"
                                                      ELSE "refunding",
                          ![r].at = now, ![r].tokens = tokens,
                          ![r].cost = cost, ![r].committed = committed]
    /\ UNCHANGED <<now, snap, meters, history>>

Finalize(r) ==
    /\ req[r].pc \in {"finalizing", "refunding"}
    /\ FinalizeMeters(req[r].key, req[r].vk, req[r].at, req[r].tokens,
                      req[r].cost, req[r].committed)
    /\ req' = [req EXCEPT ![r] = Idle]
    /\ UNCHANGED <<now, snap>>

\* Auth.Adopt: the snapshot pointer is swapped, the meters stay.
Adopt ==
    /\ \E s \in Snapshots \ {snap} : snap' = s
    /\ UNCHANGED <<now, meters, req, history>>

AwaitsLock(r) == req[r].pc \in {"beginning", "finalizing", "refunding"}

Tick ==
    /\ now < MaxNow
    /\ \A r \in Requests : AwaitsLock(r) => now - req[r].at < MaxLockWait
    /\ now' = now + 1
    /\ bill' = [k \in Keys |->
                  [day   |-> IF DayOf(now') = DayOf(now) THEN bill[k].day ELSE 0,
                   month |-> IF MonthOf(now') = MonthOf(now)
                             THEN bill[k].month ELSE 0]]
    /\ teamBill' = IF DayOf(now') = DayOf(now)
                   THEN teamBill ELSE [t \in Teams |-> 0]
    /\ takenBy' = [k \in Keys |-> [takenBy[k] EXCEPT ![now'] = taken[k]]]
    /\ UNCHANGED <<snap, meters, req, taken, leaked>>

Next ==
    \/ \E r \in Requests :
         \/ \E k \in Keys, path \in Paths : Authenticate(r, k, path)
         \/ LeaveEarly(r)
         \/ CallBegin(r)
         \/ Begin(r)
         \/ \E tokens \in TokenCounts \cup {0}, cost \in Costs \cup {0},
               committed \in BOOLEAN : CallFinalize(r, tokens, cost, committed)
         \/ Finalize(r)
    \/ Adopt
    \/ Tick

Spec == Init /\ [][Next]_vars

-----------------------------------------------------------------------------
(* Properties *)

Bucket == [tokens : Int, last : Nat, rpm : Nat]
Window == {"none", "day", "month"} \X Nat
Ledger == [window : Window, spent : Nat]
Request ==
    [pc : {"idle", "arrived", "beginning", "running", "refused", "finalizing",
           "refunding"},
     path : {"proxy", "mcp"}, key : Keys, vk : VirtualKey, at : Nat,
     tokens : Nat, cost : Nat, committed : BOOLEAN]

\* Every meter keeps its type; in particular a slot count and a ledger never
\* go below zero (a TPM bucket may: its commit is deferred to Finalize).
TypeOK ==
    /\ now \in Nat /\ snap \in Snapshots
    /\ inflight \in [Keys -> Nat]
    /\ buckets \in [Keys -> Bucket] /\ tpmBuckets \in [Keys -> Bucket]
    /\ spend \in [Keys -> Ledger] /\ teamSpend \in [Teams -> Ledger]
    /\ req \in [Requests -> Request]
    /\ bill \in [Keys -> [day : Nat, month : Nat]]
    /\ teamBill \in [Teams -> Nat] /\ taken \in [Keys -> Nat]
    /\ takenBy \in [Keys -> [0..MaxNow -> Nat]] /\ leaked \in [Keys -> Nat]

\* The requests of a key that Begin admitted against a concurrency cap and
\* that have not been finalized.
Holders(k) ==
    {r \in Requests : /\ req[r].pc \in {"running", "finalizing"}
                      /\ req[r].key = k
                      /\ req[r].vk.maxConcurrency > 0}

Admits(r) == req[r].pc = "beginning" /\ req'[r].pc = "running"

\* Admission never puts more requests of a key in flight than the cap the
\* admitted request was authenticated under (policy.go, Begin: inflight is
\* compared with MaxConcurrency).
CapHeld ==
    [][\A r \in Requests, k \in Keys :
         Admits(r) /\ req[r].key = k /\ req[r].vk.maxConcurrency > 0
           => Cardinality(Holders(k)') <= req[r].vk.maxConcurrency]_vars

\* No snapshot switches the cap of a key on or off (it may change its value).
CapsStable ==
    \A k \in Keys : \/ \A s \in Snapshots : s[k].maxConcurrency > 0
                    \/ \A s \in Snapshots : s[k].maxConcurrency = 0

\* A key's slot count is the requests that hold a slot plus the slots lost to
\* requests the proxy turned away at a later stage of Begin (policy.go, Begin:
\* the slot is counted at stage 1, and no later refusal gives it back).  It
\* never falls short of the holders, and no other path loses a slot.
SlotsAccounted ==
    \A k \in Keys : inflight[k] = Cardinality(Holders(k)) + leaked[k]

\* A key whose charges Finalize books in the key's own ledger.
Metered(vk) == vk.budget > 0 \/ HasShare(vk)

\* No snapshot changes a key's window or switches its ledger, or its team's,
\* on or off (the amounts may change): what is charged while a ledger is off
\* is never booked.
BudgetsStable ==
    \A s1, s2 \in Snapshots : \A k1, k2 \in Keys :
      /\ s1[k1].month = s2[k1].month
      /\ Metered(s1[k1]) <=> Metered(s2[k1])
      /\ s1[k1].team = s2[k2].team
           => (effectiveTeamBudget(s1[k1]) > 0 <=> effectiveTeamBudget(s2[k2]) > 0)

\* No request is admitted in a window in which what its key, or its team, was
\* charged has reached the budget (policy.go, Begin and spendFor).
BudgetBlocks ==
    [][\A r \in Requests :
         LET k == req[r].key
             vk == req[r].vk
             owed == IF vk.month THEN bill[k].month ELSE bill[k].day
         IN  Admits(r) /\ DayOf(req[r].at) = DayOf(now) =>
               /\ vk.budget > 0 => owed < vk.budget
               /\ HasShare(vk) => owed < vk.share
               /\ effectiveTeamBudget(vk) > 0
                    => teamBill[vk.team] < effectiveTeamBudget(vk)]_vars

\* In any window of time a key takes at most one full bucket plus the refill
\* of that window, at the limit its bucket was created with, however long it
\* idled before, whatever is adopted, and although a caller that waited for
\* the lock turns the bucket's clock back (policy.go, Begin: the refill is
\* capped, and elapsed may be negative).
RateBound ==
    \A k \in Keys : \A t \in 0..now :
      (taken[k] - takenBy[k][t]) * Minute
        <= buckets[k].rpm * (Minute + MaxLockWait + now - t)
=============================================================================
