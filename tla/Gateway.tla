------------------------------ MODULE Gateway ------------------------------
(***************************************************************************)
(* How a request finds an account: the account state shared by all request *)
(* goroutines (internal/resilience/state.go), the planning of an alias     *)
(* (internal/router/router.go) and the attempt loop of the proxy           *)
(* (internal/proxy/proxy.go, ServeHTTP, try and modelChain), with the      *)
(* token refreshes that attempts of one account share.                     *)
(*                                                                         *)
(* Every call into resilience.State or the router's maps takes a lock of   *)
(* its own, so the loop is modelled step by step.  Timers hold the ticks   *)
(* that remain instead of a deadline, which needs no bound on the clock.   *)
(***************************************************************************)
EXTENDS Integers, Sequences, SequencesExt, FiniteSets

CONSTANTS
    Accounts, NoAccount,
    Aliases, NoAlias,
    Asked,            \* the aliases clients ask for; the others are fallbacks
    Sessions,         \* affinity keys (AffinityKey is never empty)
    Requests, NoRequest,
    AccountsOf,       \* model.Accounts: the declared account list of an alias
    Fallback,         \* model.Fallbacks[0] of an alias, or NoAlias
    Strategy,         \* the routing strategy of an alias
    Rank,             \* what the snapshot-ordered strategies sort accounts by
    Snapshots,        \* adoptable snapshots: [Accounts -> Setting]
    MaxAttempts,      \* routing.max_attempts
    CircuitFailures,  \* resilience.circuit_failures
    LockoutFailures,  \* resilience.lockout_failures
    CircuitReset, LockoutTicks, StickyTTL,
    Cooldowns,        \* what ParseQuotaCooldown may return for a 429
    ChainLinks,       \* modelChain follows at most 8 fallbacks
    CursorPeriod,     \* the cursor is kept modulo this
    MaxFails,         \* bound: the failure count saturates here
    DialDeadline      \* accounts are reached through a SOCKS proxy: the dial has
                      \* a deadline of its own, whose error is a context's

Setting == [enabled : BOOLEAN, maxConcurrency : Nat]

ASSUME SetAssumption ==
    /\ IsFiniteSet(Requests) /\ NoRequest \notin Requests
    /\ Snapshots # {} /\ Snapshots \subseteq [Accounts -> Setting]
    /\ NoAccount \notin Accounts /\ NoAlias \notin Aliases
    /\ Asked \subseteq Aliases /\ Asked # {} /\ Sessions # {}
    /\ AccountsOf \in [Aliases -> Seq(Accounts)]
    /\ Fallback \in [Aliases -> Aliases \cup {NoAlias}]
    /\ Rank \in [Accounts -> Int]
ASSUME LimitAssumption ==
    /\ MaxAttempts \in Nat /\ CircuitFailures \in Nat /\ LockoutFailures \in Nat
    /\ CircuitReset \in Nat /\ LockoutTicks \in Nat /\ StickyTTL \in Nat
    /\ Cooldowns \subseteq Nat /\ ChainLinks \in Nat
    /\ CursorPeriod \in Nat \ {0}
    /\ MaxFails \in Nat /\ MaxFails >= CircuitFailures
    /\ MaxFails >= LockoutFailures /\ DialDeadline \in BOOLEAN

VARIABLES
    snap,      \* Router.snap
    cooldown,  \* State.cooldown: ticks left
    fails,     \* State.fails
    opened,    \* State.opened: Closed, or the ticks left (0: expired, not yet deleted)
    active,    \* State.active
    lockouts,  \* State.lockouts: ticks left
    affinity,  \* Router.affinity
    lkgp,      \* Router.lkgp: the last known good account
    cursor,    \* Router.cursor
    req        \* the request goroutines

health  == <<cooldown, fails, opened, lockouts>>
routing == <<affinity, lkgp, cursor>>
vars    == <<snap, health, active, routing, req>>

Closed == -1

-----------------------------------------------------------------------------
(* resilience.State *)

Cooling(a) == cooldown[a] > 0
LockedOut(a) == lockouts[a] > 0

\* CircuitOpen deletes an expired entry and forgets the failures behind it.
CircuitOpen(a) == opened[a] > 0
Expired(a) == opened[a] = 0
CircuitOpenEffect_KeepsFails(a) ==
    /\ opened' = IF Expired(a) THEN [opened EXCEPT ![a] = Closed] ELSE opened
    /\ fails' = fails
CircuitOpenEffect_Restarts(a) ==
    /\ opened' = IF Expired(a) THEN [opened EXCEPT ![a] = Closed]
                 ELSE IF CircuitOpen(a) THEN [opened EXCEPT ![a] = CircuitReset]
                 ELSE opened
    /\ fails' = IF Expired(a) THEN [fails EXCEPT ![a] = 0] ELSE fails
CircuitOpenEffect(a) ==
    /\ opened' = IF Expired(a) THEN [opened EXCEPT ![a] = Closed] ELSE opened
    /\ fails' = IF Expired(a) THEN [fails EXCEPT ![a] = 0] ELSE fails

Saturated_OffByOne(a, max) == max > 0 /\ active[a] > max
Saturated(a, max) == max > 0 /\ active[a] >= max

Acquired(a) == [active EXCEPT ![a] = @ + 1]
Released(a) == IF active[a] > 0 THEN [active EXCEPT ![a] = @ - 1] ELSE active

\* Failure: the circuit opens, or its timer restarts, at the threshold.
Failed(a) == IF fails[a] < MaxFails THEN fails[a] + 1 ELSE fails[a]
FailureEffect(a) ==
    /\ fails' = [fails EXCEPT ![a] = Failed(a)]
    /\ opened' = IF CircuitFailures > 0 /\ Failed(a) >= CircuitFailures
                 THEN [opened EXCEPT ![a] = CircuitReset] ELSE opened

-----------------------------------------------------------------------------
(* Router.Plan: the orders a strategy may put the candidates c in.         *)
(* "priority" stands for every strategy that sorts by values of the        *)
(* snapshot (priority, fallback-chain, cheapest, quota-drain, reset-aware);*)
(* "balanced" and "p2c" for those that compare live counters, which other  *)
(* requests change while the sort reads them, so any order may come out.   *)

Strategies == {"round_robin", "quota_failover", "priority", "balanced", "p2c",
               "lkgp"}

ToFront(c, i) == <<c[i]>> \o RemoveAt(c, i)
Shuffles(c) ==
    {[i \in DOMAIN c |-> c[p[i]]] :
       p \in {q \in [DOMAIN c -> DOMAIN c] :
                \A i, j \in DOMAIN c : q[i] = q[j] => i = j}}
StableSorted(c) ==
    {s \in Shuffles(c) :
       \A i, j \in DOMAIN s : i < j =>
         \/ Rank[s[i].acct] < Rank[s[j].acct]
         \/ /\ Rank[s[i].acct] = Rank[s[j].acct]
            /\ \E m, n \in DOMAIN c : m < n /\ c[m] = s[i] /\ c[n] = s[j]}
Rotated(c, n) == SubSeq(c, n + 1, Len(c)) \o SubSeq(c, 1, n)

\* Where the account is among the candidates; 0 when it is not.
IndexIn(c, a) ==
    IF \E i \in DOMAIN c : c[i].acct = a
    THEN CHOOSE i \in DOMAIN c : c[i].acct = a ELSE 0

UsesAffinity(strategy) ==
    strategy \notin {"round_robin", "quota_failover", "p2c"}

Pinned(alias, session, c) ==
    /\ UsesAffinity(Strategy[alias])
    /\ affinity[session].left > 0
    /\ IndexIn(c, affinity[session].acct) > 0

Orders(alias, session, c) ==
    LET s == Strategy[alias]
    IN  IF Pinned(alias, session, c)
        THEN {ToFront(c, IndexIn(c, affinity[session].acct))}
        ELSE IF s = "round_robin" THEN {Rotated(c, cursor[alias] % Len(c))}
        ELSE IF s = "quota_failover" THEN {c}
        ELSE IF s = "priority" THEN StableSorted(c)
        ELSE IF s = "lkgp" /\ IndexIn(c, lkgp[alias]) > 0
        THEN {ToFront(c, IndexIn(c, lkgp[alias]))}
        ELSE Shuffles(c)

Limited(alias, plan) ==
    IF Strategy[alias] # "quota_failover" /\ MaxAttempts > 0
       /\ Len(plan) > MaxAttempts
    THEN SubSeq(plan, 1, MaxAttempts) ELSE plan

-----------------------------------------------------------------------------
(* The requests *)

\* Where an attempt is in its adapter: at the upstream, refreshing the
\* account's token, or waiting for another request that refreshes it.
InAdapter == {"upstream", "refresh", "joined"}
Pcs == {"idle", "scan", "probed", "attempt", "record", "counted", "locking",
        "commit"} \cup InAdapter
Placed == {"probed", "record", "counted", "locking", "commit"} \cup InAdapter
Outcomes == {"served", "throttled", "failed", "canceled"}
Tokens == {"ok", "failed", "canceled"}

\* An adapter asks for the token before it sends, and once more, by force, when
\* the upstream answers 401.
TokenCalls == 2
Candidate == [acct : Accounts, cap : Nat]
Plans == Seq(Candidate)
Chains == Seq(Aliases) \ {<<>>}
Positions == Nat \ {0}

Request ==
    [pc : Pcs, alias : Aliases, session : Sessions,
     chain : Chains,         \* modelChain up to the alias in use
     view : Snapshots,       \* the snapshot Plan loaded
     scan : Positions,       \* position in the alias's account list
     plan : Plans,           \* the candidates found so far, then the plan
     pos : Positions,        \* position in the plan
     acct : Accounts \cup {NoAccount},  \* the account of this step
     outcome : Outcomes,     \* how the last attempt ended
     calls : 0..TokenCalls,  \* the refreshes this attempt led or joined
     on : Requests \cup {NoRequest},  \* the request whose refresh it waits for
     token : Tokens,         \* what the last refresh came to
     gone : BOOLEAN,         \* the client left: r.Context() is done
     cut : BOOLEAN,          \* history: given the error of another context
     answers : Nat]          \* history: responses sent to the client

NoView == CHOOSE s \in Snapshots : TRUE

NewRequest(alias, session, view) ==
    [pc |-> "scan", alias |-> alias, session |-> session, chain |-> <<alias>>,
     view |-> view, scan |-> 1, plan |-> <<>>, pos |-> 1, acct |-> NoAccount,
     outcome |-> "failed", calls |-> 0, on |-> NoRequest, token |-> "ok",
     gone |-> FALSE, cut |-> FALSE, answers |-> 0]

Idle ==
    [NewRequest(CHOOSE m \in Aliases : TRUE, CHOOSE s \in Sessions : TRUE, NoView)
       EXCEPT !.pc = "idle", !.answers = 1]

\* The handler returns, having sent this many more responses.
Ended(q, answers) ==
    [Idle EXCEPT !.gone = q.gone, !.cut = q.cut, !.answers = q.answers + answers]

\* modelChain: the alias a request asked for, then each first fallback not
\* seen before.  The chain is walked as the loop needs it.
Current(q) == Last(q.chain)
HasNext(q) ==
    /\ Len(q.chain) <= ChainLinks
    /\ Fallback[Current(q)] \notin Range(q.chain) \cup {NoAlias}

\* The loop moves to the next alias of the chain, or gives up with a 502
\* unless the client is gone.
NextAlias_Silent(q) ==
    IF HasNext(q)
    THEN [q EXCEPT !.pc = "scan", !.chain = Append(@, Fallback[Current(q)]),
                   !.view = snap, !.scan = 1, !.plan = <<>>, !.pos = 1,
                   !.acct = NoAccount]
    ELSE Ended(q, 0)
NextAlias(q) ==
    IF HasNext(q)
    THEN [q EXCEPT !.pc = "scan", !.chain = Append(@, Fallback[Current(q)]),
                   !.view = snap, !.scan = 1, !.plan = <<>>, !.pos = 1,
                   !.acct = NoAccount]
    ELSE Ended(q, IF q.gone THEN 0 ELSE 1)

Put(r, q) == req' = [req EXCEPT ![r] = q]

Init ==
    /\ snap \in Snapshots
    /\ cooldown = [a \in Accounts |-> 0]
    /\ fails = [a \in Accounts |-> 0]
    /\ opened = [a \in Accounts |-> Closed]
    /\ active = [a \in Accounts |-> 0]
    /\ lockouts = [a \in Accounts |-> 0]
    /\ affinity = [s \in Sessions |-> [acct |-> NoAccount, left |-> 0]]
    /\ lkgp = [m \in Aliases |-> NoAccount]
    /\ cursor = [m \in Aliases |-> 0]
    /\ req = [r \in Requests |-> Idle]

Arrive(r, alias, session) ==
    /\ req[r].pc = "idle"
    /\ Put(r, NewRequest(alias, session, snap))
    /\ UNCHANGED <<snap, health, active, routing>>

\* The client disconnects.
Leave(r) ==
    /\ req[r].pc # "idle" /\ ~req[r].gone
    /\ Put(r, [req[r] EXCEPT !.gone = TRUE])
    /\ UNCHANGED <<snap, health, active, routing>>

\* Plan looks at the next account: disabled, Cooling, CircuitOpen, LockedOut
\* and TryAcquire, in this order, each only when those before it passed.
\* They are one step here: a plan may be stale by the time it is used anyway.
Probe(r) ==
    LET q == req[r]
        a == AccountsOf[Current(q)][q.scan]
        asked == q.view[a].enabled /\ ~Cooling(a)
        usable == /\ asked /\ ~CircuitOpen(a) /\ ~LockedOut(a)
                  /\ ~Saturated(a, q.view[a].maxConcurrency)
    IN  /\ q.pc = "scan" /\ q.scan <= Len(AccountsOf[Current(q)])
        /\ \/ asked /\ CircuitOpenEffect(a)
           \/ ~asked /\ UNCHANGED <<opened, fails>>
        /\ \/ /\ usable
              /\ active' = Acquired(a)
              /\ Put(r, [q EXCEPT !.pc = "probed", !.acct = a])
           \/ /\ ~usable
              /\ Put(r, [q EXCEPT !.scan = @ + 1])
              /\ UNCHANGED active
        /\ UNCHANGED <<snap, cooldown, lockouts, routing>>

\* Plan gives the probed slot back and keeps a copy of the account.
ReleaseProbe(r) ==
    LET q == req[r]
        found == [acct |-> q.acct, cap |-> q.view[q.acct].maxConcurrency]
    IN  /\ q.pc = "probed"
        /\ active' = Released(q.acct)
        /\ Put(r, [q EXCEPT !.pc = "scan", !.scan = @ + 1, !.acct = NoAccount,
                            !.plan = Append(@, found)])
        /\ UNCHANGED <<snap, health, routing>>

\* Nothing usable: the first alias answers 503 and ends the request, a
\* fallback alias is passed over.
EmptyPlan(r) ==
    LET q == req[r]
    IN  /\ q.pc = "scan" /\ q.scan > Len(AccountsOf[Current(q)])
        /\ q.plan = <<>>
        /\ Put(r, IF Len(q.chain) = 1 THEN Ended(q, 1) ELSE NextAlias(q))
        /\ UNCHANGED <<snap, health, active, routing>>

OrderPlan(r) ==
    LET q == req[r]
        m == Current(q)
        spins == Strategy[m] = "round_robin"
    IN  /\ q.pc = "scan" /\ q.scan > Len(AccountsOf[m])
        /\ q.plan # <<>>
        /\ \E order \in Orders(m, q.session, q.plan) :
             Put(r, [q EXCEPT !.pc = "attempt", !.plan = Limited(m, order),
                              !.scan = 1, !.view = NoView])
        /\ cursor' = IF spins
                     THEN [cursor EXCEPT ![m] = (@ + 1) % CursorPeriod] ELSE cursor
        /\ UNCHANGED <<snap, health, active, affinity, lkgp>>

-----------------------------------------------------------------------------
(* The attempt loop *)

\* The plan is exhausted.
Exhausted(r) ==
    /\ req[r].pc = "attempt" /\ req[r].pos > Len(req[r].plan)
    /\ Put(r, NextAlias(req[r]))
    /\ UNCHANGED <<snap, health, active, routing>>

\* The next account of the plan: nothing for a client that left, the next
\* one when it is saturated, otherwise the attempt holds a slot.
Attempt(r) ==
    LET q == req[r]
        c == q.plan[q.pos]
    IN  /\ q.pc = "attempt" /\ q.pos <= Len(q.plan)
        /\ \/ q.gone /\ Put(r, Ended(q, 0)) /\ UNCHANGED active
           \/ /\ ~q.gone /\ Saturated(c.acct, c.cap)
              /\ Put(r, [q EXCEPT !.pos = @ + 1])
              /\ UNCHANGED active
           \/ /\ ~q.gone /\ ~Saturated(c.acct, c.cap)
              /\ active' = Acquired(c.acct)
              /\ Put(r, [q EXCEPT !.pc = "upstream", !.acct = c.acct])
        /\ UNCHANGED <<snap, health, routing>>

\* accessToken finds the token expired, or is forced, and this request leads a
\* refresh.  The calls under way are keyed by account and revision; the revision
\* is left to TokenRefresh, so a second leader of an account is possible here.
Lead(r) ==
    LET q == req[r]
    IN  /\ q.pc = "upstream" /\ q.token = "ok" /\ q.calls < TokenCalls
        /\ Put(r, [q EXCEPT !.pc = "refresh", !.calls = @ + 1])
        /\ UNCHANGED <<snap, health, active, routing>>

\* ... or another request of the account leads one: this one waits for it and
\* for nothing else, not for its own context.
Join(r, leader) ==
    LET q == req[r]
    IN  /\ q.pc = "upstream" /\ q.token = "ok" /\ q.calls < TokenCalls
        /\ req[leader].pc = "refresh" /\ req[leader].acct = q.acct
        /\ Put(r, [q EXCEPT !.pc = "joined", !.on = leader, !.calls = @ + 1])
        /\ UNCHANGED <<snap, health, active, routing>>

\* Wrong variant: the leader returns without waking anyone.
Refreshed_LeaderOnly(r, token) ==
    /\ req[r].pc = "refresh"
    /\ token = "canceled" => req[r].gone \/ DialDeadline
    /\ Put(r, [req[r] EXCEPT !.pc = "upstream", !.token = token,
                             !.cut = token = "canceled" /\ ~req[r].gone])
    /\ UNCHANGED <<snap, health, active, routing>>

\* The refresh of r ends: by its answer, or with r's context.  Everyone who
\* waits for it gets the same result, the error of r's context included.
Told(s, r) == s = r \/ (req[s].pc = "joined" /\ req[s].on = r)
Refreshed(r, token) ==
    /\ req[r].pc = "refresh"
    /\ token = "canceled" => req[r].gone \/ DialDeadline
    /\ req' = [s \in Requests |->
                 IF Told(s, r)
                 THEN [req[s] EXCEPT !.pc = "upstream", !.on = NoRequest, !.token = token,
                                     !.cut = token = "canceled" /\ (s # r \/ ~req[r].gone)]
                 ELSE req[s]]
    /\ UNCHANGED <<snap, health, active, routing>>

\* How an attempt may end.  An error of a context counts as the client's leaving,
\* whoever's context it was (errorsIsContextDone); a refresh that failed is a
\* failed attempt, or a 400 when its error says "invalid".
Ends(q) ==
    IF q.token = "canceled" \/ (q.token = "failed" /\ q.gone) THEN {"canceled"}
    ELSE IF q.token = "failed" THEN {"failed", "served"}
    ELSE {o \in Outcomes : o = "canceled" => q.gone \/ DialDeadline}

\* try and Release.  A served attempt has sent the response head; a canceled
\* one returns (0, committed), and the loop returns without a response.  A client
\* that left ends the request before the outcome is counted.
Return_KeepsSlotWhenGone(r, outcome) ==
    LET q == req[r]
        answered == IF outcome = "served" THEN 1 ELSE 0
        lapsed == outcome = "canceled" /\ q.token = "ok" /\ ~q.gone
    IN  /\ q.pc = "upstream" /\ outcome \in Ends(q)
        /\ active' = IF q.gone THEN active ELSE Released(q.acct)
        /\ Put(r, IF q.gone \/ outcome = "canceled"
                  THEN Ended([q EXCEPT !.cut = @ \/ lapsed], answered)
                  ELSE [q EXCEPT !.pc = "record", !.outcome = outcome, !.calls = 0,
                                 !.token = "ok", !.answers = @ + answered])
        /\ UNCHANGED <<snap, health, routing>>
Return(r, outcome) ==
    LET q == req[r]
        answered == IF outcome = "served" THEN 1 ELSE 0
        lapsed == outcome = "canceled" /\ q.token = "ok" /\ ~q.gone
    IN  /\ q.pc = "upstream" /\ outcome \in Ends(q)
        /\ active' = Released(q.acct)
        /\ Put(r, IF q.gone \/ outcome = "canceled"
                  THEN Ended([q EXCEPT !.cut = @ \/ lapsed], answered)
                  ELSE [q EXCEPT !.pc = "record", !.outcome = outcome, !.calls = 0,
                                 !.token = "ok", !.answers = @ + answered])
        /\ UNCHANGED <<snap, health, routing>>

\* The account failed the request: on to the next one of the plan.
Advanced(q) ==
    [q EXCEPT !.pc = "attempt", !.pos = @ + 1, !.acct = NoAccount,
              !.outcome = "failed"]

\* State.Cooldown overwrites whatever cooldown the account has.
Throttle(r) ==
    /\ req[r].pc = "record" /\ req[r].outcome = "throttled"
    /\ \E d \in Cooldowns : cooldown' = [cooldown EXCEPT ![req[r].acct] = d]
    /\ Put(r, Advanced(req[r]))
    /\ UNCHANGED <<snap, fails, opened, lockouts, active, routing>>

Failure(r) ==
    /\ req[r].pc = "record" /\ req[r].outcome = "failed"
    /\ FailureEffect(req[r].acct)
    /\ Put(r, IF LockoutFailures > 0 THEN [req[r] EXCEPT !.pc = "counted"]
              ELSE Advanced(req[r]))
    /\ UNCHANGED <<snap, cooldown, lockouts, active, routing>>

\* State.Fails is read, and State.Lockout called, each under its own lock.
ReadFails(r) ==
    /\ req[r].pc = "counted"
    /\ Put(r, IF fails[req[r].acct] >= LockoutFailures
              THEN [req[r] EXCEPT !.pc = "locking"] ELSE Advanced(req[r]))
    /\ UNCHANGED <<snap, health, active, routing>>

Lockout(r) ==
    /\ req[r].pc = "locking"
    /\ lockouts' = IF LockoutTicks > 0
                   THEN [lockouts EXCEPT ![req[r].acct] = LockoutTicks]
                   ELSE lockouts
    /\ Put(r, Advanced(req[r]))
    /\ UNCHANGED <<snap, cooldown, fails, opened, active, routing>>

Success(r) ==
    /\ req[r].pc = "record" /\ req[r].outcome = "served"
    /\ fails' = [fails EXCEPT ![req[r].acct] = 0]
    /\ Put(r, [req[r] EXCEPT !.pc = "commit"])
    /\ UNCHANGED <<snap, cooldown, opened, lockouts, active, routing>>

\* ResetLockout, CommitAffinity and CommitLKGP, then the request returns.
\* The last known good account is filed under the alias the client asked
\* for, whichever alias of the chain served it.
Commit_NoReturn(r) ==
    LET q == req[r]
    IN  /\ q.pc = "commit"
        /\ lockouts' = [lockouts EXCEPT ![q.acct] = 0]
        /\ affinity' = [affinity EXCEPT ![q.session] =
                          [acct |-> q.acct, left |-> StickyTTL]]
        /\ lkgp' = [lkgp EXCEPT ![q.alias] = q.acct]
        /\ Put(r, Advanced(q))
        /\ UNCHANGED <<snap, cooldown, fails, opened, active, cursor>>
Commit(r) ==
    LET q == req[r]
    IN  /\ q.pc = "commit"
        /\ lockouts' = [lockouts EXCEPT ![q.acct] = 0]
        /\ affinity' = [affinity EXCEPT ![q.session] =
                          [acct |-> q.acct, left |-> StickyTTL]]
        /\ lkgp' = [lkgp EXCEPT ![q.alias] = q.acct]
        /\ Put(r, Ended(q, 0))
        /\ UNCHANGED <<snap, cooldown, fails, opened, active, cursor>>

\* Router.Adopt
Adopt ==
    /\ \E s \in Snapshots \ {snap} : snap' = s
    /\ UNCHANGED <<health, active, routing, req>>

Down_Below(n) == n - 1
Down(n) == IF n > 0 THEN n - 1 ELSE n

\* A tick passes; it matters only while a timer runs.
Tick ==
    /\ \/ \E a \in Accounts : cooldown[a] > 0 \/ opened[a] > 0 \/ lockouts[a] > 0
       \/ \E s \in Sessions : affinity[s].left > 0
    /\ cooldown' = [a \in Accounts |-> Down(cooldown[a])]
    /\ opened' = [a \in Accounts |-> Down(opened[a])]
    /\ lockouts' = [a \in Accounts |-> Down(lockouts[a])]
    /\ affinity' = [s \in Sessions |->
                      [affinity[s] EXCEPT !.left = Down(@)]]
    /\ UNCHANGED <<snap, fails, active, lkgp, cursor, req>>

Planning(r) == Probe(r) \/ ReleaseProbe(r) \/ EmptyPlan(r) \/ OrderPlan(r)
Attempting(r) ==
    \/ Exhausted(r) \/ Attempt(r)
    \/ Lead(r)
    \/ \E leader \in Requests : Join(r, leader)
    \/ \E token \in Tokens : Refreshed(r, token)
    \/ \E outcome \in Outcomes : Return(r, outcome)
Recording(r) ==
    \/ Throttle(r) \/ Failure(r) \/ ReadFails(r) \/ Lockout(r)
    \/ Success(r) \/ Commit(r)
Step(r) == Planning(r) \/ Attempting(r) \/ Recording(r)

Next ==
    \/ \E r \in Requests :
         \/ \E m \in Asked, s \in Sessions : Arrive(r, m, s)
         \/ Leave(r)
         \/ Step(r)
    \/ Adopt
    \/ Tick

Spec == Init /\ [][Next]_vars

\* The scheduler runs every goroutine and time passes.  An upstream, or the
\* provider's token endpoint, need not answer: the HTTP clients have no timeout,
\* and a call ends for certain only when the context of its client does.  A
\* request that has joined a refresh takes no step of its own: it ends waiting
\* when its leader does, whether its own client is there or not.
Asks(r) == req[r].pc \in {"upstream", "refresh"} /\ req[r].token = "ok" /\ ~req[r].gone
Waits(r) == Asks(r) \/ (req[r].pc = "joined" /\ Asks(req[r].on))
Fairness == WF_vars(Tick) /\ \A r \in Requests : WF_vars(~Asks(r) /\ Step(r))
FairSpec == Spec /\ Fairness

-----------------------------------------------------------------------------
(* Properties *)

\* Every variable keeps its type; in particular no slot count goes below
\* zero and an attempt always has an account.
TypeOK ==
    /\ snap \in Snapshots
    /\ cooldown \in [Accounts -> Nat] /\ lockouts \in [Accounts -> Nat]
    /\ fails \in [Accounts -> 0..MaxFails]
    /\ opened \in [Accounts -> Nat \cup {Closed}]
    /\ active \in [Accounts -> Nat]
    /\ affinity \in [Sessions -> [acct : Accounts \cup {NoAccount}, left : Nat]]
    /\ lkgp \in [Aliases -> Accounts \cup {NoAccount}]
    /\ cursor \in [Aliases -> 0..(CursorPeriod - 1)]
    /\ req \in [Requests -> Request]
    /\ \A r \in Requests :
         req[r].pc \in Placed => req[r].acct \in Accounts

\* The requests that hold a slot of account a: planners that probe it and
\* attempts that are in their adapter.
SlotHolders(a) ==
    {r \in Requests : req[r].pc \in InAdapter \cup {"probed"} /\ req[r].acct = a}

\* The slot count of an account is exactly the number of requests that hold a
\* slot, whichever way each request ends: success, failure, disconnect,
\* saturation (proxy.go: TryAcquire and Release; router.go: the probe in Plan).
SlotsExact == \A a \in Accounts : active[a] = Cardinality(SlotHolders(a))

\* An attempt never starts on an account that already carries as many
\* attempts as the cap in the plan allows (proxy.go, the TryAcquire of the
\* loop), although plans are stale and adoption changes the caps.
AttemptCap ==
    [][\A r \in Requests :
         LET a == req'[r].acct
             cap == req[r].plan[req[r].pos].cap
         IN  req[r].pc = "attempt" /\ req'[r].pc = "upstream" /\ cap > 0
               => Cardinality({s \in Requests : req'[s].pc \in InAdapter
                                                  /\ req'[s].acct = a}) <= cap]_vars

\* After the first client-visible byte the gateway never tries another account
\* and sends no second response (proxy.go: the loop returns once an attempt is
\* committed).
NoRetryAfterCommit ==
    \A r \in Requests :
      /\ req[r].answers <= 1
      /\ req[r].pc \notin {"idle", "record", "commit"} => req[r].answers = 0

\* A request ends with a response, whatever its plans, attempts and fallbacks
\* came to, unless its client left or the last attempt failed with the error of
\* a context: the only two ways the loop returns without an answer (proxy.go,
\* ServeHTTP and try).
AnsweredOrCut ==
    \A r \in Requests :
      req[r].pc = "idle" => req[r].answers = 1 \/ req[r].gone \/ req[r].cut

\* A request whose client is there ends with a response: docs/error-catalog.md
\* has a 502 for when every attempt failed.  The loop takes the error of any
\* context for the departure of its own client (proxy.go, try), but a request
\* that joined a refresh is given the error of its leader's context (auth.go,
\* accessToken).
AnsweredOrGone ==
    \A r \in Requests : req[r].pc = "idle" => req[r].answers = 1 \/ req[r].gone

\* An account whose consecutive failures reached the threshold has an open
\* circuit, until CircuitOpen both deletes the entry and clears the count
\* (state.go: Failure, Success and CircuitOpen take the lock separately).
TrippedIsOpen ==
    CircuitFailures > 0 =>
      \A a \in Accounts : fails[a] >= CircuitFailures => opened[a] # Closed

\* Every request ends, however the accounts fail, the aliases fall back to
\* each other, the clients leave and refreshes are shared, unless it waits for
\* ever for one answer from outside: its own with its client there, or that of
\* the request whose refresh it joined (proxy.go, ServeHTTP; accessToken).
RequestsEnd ==
    \A r \in Requests :
      <>[]Waits(r) \/ (req[r].pc # "idle" ~> req[r].pc = "idle")

Excluded(a) == Cooling(a) \/ CircuitOpen(a) \/ LockedOut(a)

\* No account is excluded for ever: in-flight attempts may extend a cooldown,
\* a circuit or a lockout, but an excluded account gets no new plans.
AccountsReturn == \A a \in Accounts : Excluded(a) ~> ~Excluded(a)
=============================================================================
