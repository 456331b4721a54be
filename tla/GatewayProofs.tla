--------------------------- MODULE GatewayProofs ---------------------------
(***************************************************************************)
(* Proofs about Gateway for any set of accounts, aliases and snapshots and *)
(* any finite set of requests: type correctness, exact slot counts, the    *)
(* concurrency cap of attempts, the circuit breaker, and one answer for    *)
(* every request.                                                          *)
(***************************************************************************)
EXTENDS Gateway, FiniteSetTheorems, SequenceTheorems, TLAPS

-----------------------------------------------------------------------------
(* The values the actions are built from *)

\* A new request of proxy.ServeHTTP is well typed.
LEMMA NewRequestType ==
    ASSUME NEW alias \in Aliases, NEW session \in Sessions, NEW view \in Snapshots
    PROVE  /\ NewRequest(alias, session, view) \in Request
           /\ NewRequest(alias, session, view).pc = "scan"
<1>1. <<alias>> \in Chains
  BY DEF Chains
<1>2. <<>> \in Plans
  BY DEF Plans
<1>3. 1 \in Positions
  BY DEF Positions
<1>4. QED
  BY <1>1, <1>2, <1>3 DEF NewRequest, Request, Pcs, Outcomes, Tokens, TokenCalls

\* NoView is a snapshot.
LEMMA NoViewType == NoView \in Snapshots
  BY SetAssumption DEF NoView

\* A goroutine that has no request is well typed and holds nothing.
LEMMA IdleType == Idle \in Request /\ Idle.pc = "idle"
<1> DEFINE m == CHOOSE x \in Aliases : TRUE
           s == CHOOSE x \in Sessions : TRUE
           q == NewRequest(m, s, NoView)
<1>1. m \in Aliases /\ s \in Sessions
  BY SetAssumption
<1>2. q \in Request
  BY <1>1, NoViewType, NewRequestType
<1>3. Idle = [q EXCEPT !.pc = "idle", !.answers = 1]
  BY DEF Idle
<1>4. QED
  BY <1>2, <1>3 DEF Request, Pcs, InAdapter

\* The end of a handler leaves an idle goroutine.
LEMMA EndedType ==
    ASSUME NEW q \in Request, NEW n \in Nat
    PROVE  Ended(q, n) \in Request /\ Ended(q, n).pc = "idle"
<1>1. q.gone \in BOOLEAN /\ q.cut \in BOOLEAN /\ q.answers + n \in Nat
  BY DEF Request
<1>2. QED
  BY <1>1, IdleType DEF Ended, Request

\* The loop is always at an alias of the snapshot.
LEMMA CurrentType ==
    ASSUME NEW q \in Request
    PROVE  Current(q) \in Aliases
<1>1. q.chain \in Seq(Aliases) /\ q.chain # <<>>
  BY DEF Request, Chains
<1>2. Len(q.chain) \in 1..Len(q.chain)
  BY <1>1, EmptySeq
<1>3. QED
  BY <1>1, <1>2, ElementOfSeq DEF Current, Last

\* Moving to the next alias, or giving up, keeps the type and no slot.
LEMMA NextAliasType ==
    ASSUME NEW q \in Request, snap \in Snapshots
    PROVE  NextAlias(q) \in Request /\ NextAlias(q).pc \in {"scan", "idle"}
<1>1. CASE HasNext(q)
  <2> DEFINE next == Fallback[Current(q)]
             chain == Append(q.chain, next)
  <2>1. next \in Aliases
    BY <1>1, CurrentType, SetAssumption DEF HasNext
  <2>2. q.chain \in Seq(Aliases)
    BY DEF Request, Chains
  <2>3. chain \in Chains
    BY <2>1, <2>2, AppendProperties DEF Chains
  <2>4. <<>> \in Plans /\ 1 \in Positions
    BY DEF Plans, Positions
  <2> DEFINE u == [q EXCEPT !.pc = "scan", !.chain = chain, !.view = snap,
                     !.scan = 1, !.plan = <<>>, !.pos = 1, !.acct = NoAccount]
  <2>5. NextAlias(q) = u
    BY <1>1 DEF NextAlias
  <2> HIDE DEF next, chain
  <2>6. u \in Request /\ u.pc = "scan"
    BY <2>3, <2>4 DEF Request, Pcs, InAdapter
  <2>7. QED
    BY <2>5, <2>6
<1>2. CASE ~HasNext(q)
  BY <1>2, EndedType DEF NextAlias
<1>3. QED
  BY <1>1, <1>2

\* Moving one candidate to the front keeps a plan a plan.
LEMMA ToFrontType ==
    ASSUME NEW c \in Plans, NEW i \in 1..Len(c)
    PROVE  ToFront(c, i) \in Plans /\ ToFront(c, i) # <<>>
<1> DEFINE left == SubSeq(c, 1, i - 1)
           right == SubSeq(c, i + 1, Len(c))
<1>1. c \in Seq(Candidate) /\ Len(c) \in Nat /\ \A j \in 1..Len(c) : c[j] \in Candidate
  BY LenProperties, ElementOfSeq DEF Plans
<1>2. left \in Seq(Candidate)
  BY <1>1, SubSeqProperties
<1>3. right \in Seq(Candidate)
  BY <1>1, SubSeqProperties
<1> HIDE DEF left, right
<1>4. left \o right \in Seq(Candidate)
  BY <1>2, <1>3, ConcatProperties
<1>5. <<c[i]>> \in Seq(Candidate) /\ Len(<<c[i]>>) = 1
  BY <1>1
<1>6. ToFront(c, i) = <<c[i]>> \o (left \o right)
  BY DEF ToFront, RemoveAt, left, right
<1> DEFINE t == left \o right
           h == <<c[i]>>
<1> HIDE DEF t, h
<1>7. h \o t \in Seq(Candidate) /\ Len(h \o t) = 1 + Len(t) /\ Len(t) \in Nat
  BY <1>4, <1>5, ConcatProperties, LenProperties DEF t, h
<1>8. QED
  BY <1>6, <1>7, EmptySeq DEF t, h, Plans

\* So does rotating it.
LEMMA RotatedType ==
    ASSUME NEW c \in Plans, c # <<>>, NEW n \in 0..(Len(c) - 1)
    PROVE  Rotated(c, n) \in Plans /\ Rotated(c, n) # <<>>
<1> DEFINE back == SubSeq(c, n + 1, Len(c))
           front == SubSeq(c, 1, n)
<1>1. c \in Seq(Candidate) /\ Len(c) \in Nat /\ \A j \in 1..Len(c) : c[j] \in Candidate
  BY LenProperties, ElementOfSeq DEF Plans
<1>2. back \in Seq(Candidate) /\ Len(back) = Len(c) - n
  BY <1>1, SubSeqProperties
<1>3. front \in Seq(Candidate)
  BY <1>1, SubSeqProperties
<1>4. Rotated(c, n) = back \o front
  BY DEF Rotated
<1> HIDE DEF back, front
<1>5. back \o front \in Seq(Candidate) /\ Len(back \o front) = Len(back) + Len(front)
  BY <1>2, <1>3, ConcatProperties
<1>6. Len(back) > 0 /\ Len(front) \in Nat
  BY <1>1, <1>2, <1>3, LenProperties
<1>7. QED
  BY <1>1, <1>2, <1>4, <1>5, <1>6, EmptySeq DEF Plans

\* And any reordering of the candidates.
LEMMA ShufflesType ==
    ASSUME NEW c \in Plans, c # <<>>, NEW s \in Shuffles(c)
    PROVE  s \in Plans /\ s # <<>>
<1>1. c \in Seq(Candidate) /\ Len(c) \in Nat /\ DOMAIN c = 1..Len(c)
      /\ c \in [1..Len(c) -> Candidate]
  BY LenProperties DEF Plans
<1>2. PICK p \in [DOMAIN c -> DOMAIN c] : s = [i \in DOMAIN c |-> c[p[i]]]
  BY DEF Shuffles
<1>3. s \in [1..Len(c) -> Candidate]
  BY <1>1, <1>2
<1>4. s \in Seq(Candidate) /\ Len(s) = Len(c)
  BY <1>1, <1>3
<1>5. Len(c) # 0
  BY <1>1, EmptySeq
<1>6. QED
  BY <1>4, <1>5, EmptySeq DEF Plans

\* Router.Plan only reorders the candidates it found.
LEMMA OrdersType ==
    ASSUME NEW alias \in Aliases, NEW session \in Sessions,
           NEW c \in Plans, c # <<>>,
           cursor \in [Aliases -> 0..(CursorPeriod - 1)],
           NEW order \in Orders(alias, session, c)
    PROVE  order \in Plans /\ order # <<>>
<1>1. Len(c) \in Nat \ {0} /\ DOMAIN c = 1..Len(c)
  BY LenProperties, EmptySeq DEF Plans
<1>2. ASSUME NEW a, IndexIn(c, a) > 0
      PROVE  IndexIn(c, a) \in 1..Len(c)
  BY <1>1, <1>2 DEF IndexIn
<1>3. CASE Pinned(alias, session, c)
  <2>1. order = ToFront(c, IndexIn(c, affinity[session].acct))
    BY <1>3 DEF Orders
  <2>2. QED
    BY <1>2, <1>3, <2>1, ToFrontType DEF Pinned
<1>4. CASE ~Pinned(alias, session, c) /\ Strategy[alias] = "round_robin"
  <2>1. order = Rotated(c, cursor[alias] % Len(c))
    BY <1>4 DEF Orders
  <2>2. cursor[alias] \in Nat
    BY LimitAssumption
  <2>3. cursor[alias] % Len(c) \in 0..(Len(c) - 1)
    BY <1>1, <2>2
  <2>4. QED
    BY <2>1, <2>3, RotatedType
<1>5. CASE ~Pinned(alias, session, c) /\ Strategy[alias] = "quota_failover"
  BY <1>5 DEF Orders
<1>6. CASE ~Pinned(alias, session, c) /\ Strategy[alias] = "priority"
  BY <1>6, ShufflesType DEF Orders, StableSorted
<1>7. CASE /\ ~Pinned(alias, session, c) /\ Strategy[alias] = "lkgp"
           /\ IndexIn(c, lkgp[alias]) > 0
  <2>1. order = ToFront(c, IndexIn(c, lkgp[alias]))
    BY <1>7 DEF Orders
  <2>2. QED
    BY <1>2, <1>7, <2>1, ToFrontType
<1>8. CASE /\ ~Pinned(alias, session, c)
           /\ Strategy[alias] \notin {"round_robin", "quota_failover", "priority"}
           /\ ~(Strategy[alias] = "lkgp" /\ IndexIn(c, lkgp[alias]) > 0)
  BY <1>8, ShufflesType DEF Orders
<1>9. QED
  BY <1>3, <1>4, <1>5, <1>6, <1>7, <1>8

\* Cutting a plan at max_attempts leaves a plan.
LEMMA LimitedType ==
    ASSUME NEW alias, NEW plan \in Plans
    PROVE  Limited(alias, plan) \in Plans
<1>1. /\ plan \in Seq(Candidate) /\ Len(plan) \in Nat
      /\ \A j \in 1..Len(plan) : plan[j] \in Candidate
  BY LenProperties, ElementOfSeq DEF Plans
<1>2. ASSUME Len(plan) > MaxAttempts
      PROVE  SubSeq(plan, 1, MaxAttempts) \in Plans
  BY <1>1, <1>2, SubSeqProperties, LimitAssumption DEF Plans
<1>3. QED
  BY <1>2 DEF Limited

-----------------------------------------------------------------------------
(* Type correctness *)

RequestsTyped ==
    /\ req \in [Requests -> Request]
    /\ \A r \in Requests : req[r].pc \in Placed => req[r].acct \in Accounts

\* A step that replaces one request by a well-typed one keeps them all so.
LEMMA PutType ==
    ASSUME TypeOK, NEW r \in Requests, NEW q \in Request, Put(r, q),
           q.pc \in Placed => q.acct \in Accounts
    PROVE  RequestsTyped'
<1>1. req' = [req EXCEPT ![r] = q] /\ req \in [Requests -> Request]
  BY DEF Put, TypeOK
<1>2. req' \in [Requests -> Request]
  BY <1>1
<1>3. ASSUME NEW s \in Requests, req'[s].pc \in Placed
      PROVE  req'[s].acct \in Accounts
  BY <1>1, <1>3 DEF TypeOK
<1>4. QED
  BY <1>2, <1>3 DEF RequestsTyped

LEMMA ArriveType ==
    ASSUME TypeOK, NEW r \in Requests, NEW m \in Asked, NEW s \in Sessions,
           Arrive(r, m, s)
    PROVE  TypeOK'
<1> DEFINE u == NewRequest(m, s, snap)
<1>1. u \in Request /\ u.pc = "scan"
  BY NewRequestType, SetAssumption DEF TypeOK
<1>2. Put(r, u)
  BY DEF Arrive
<1> HIDE DEF u
<1>3. RequestsTyped'
  BY <1>1, <1>2, PutType DEF Placed, InAdapter
<1>4. QED
  BY <1>3 DEF Arrive, TypeOK, RequestsTyped, health, routing

LEMMA LeaveType ==
    ASSUME TypeOK, NEW r \in Requests, Leave(r)
    PROVE  TypeOK'
<1> DEFINE u == [req[r] EXCEPT !.gone = TRUE]
<1>1. req[r] \in Request /\ (req[r].pc \in Placed => req[r].acct \in Accounts)
  BY DEF TypeOK
<1>2. u \in Request /\ u.pc = req[r].pc /\ u.acct = req[r].acct
  BY <1>1 DEF Request
<1>3. Put(r, u)
  BY DEF Leave
<1> HIDE DEF u
<1>4. RequestsTyped'
  BY <1>1, <1>2, <1>3, PutType
<1>5. QED
  BY <1>4 DEF Leave, TypeOK, RequestsTyped, health, routing

\* The account a plan looks at, and its setting.
LEMMA ScannedType ==
    ASSUME NEW q \in Request, q.scan <= Len(AccountsOf[Current(q)])
    PROVE  /\ AccountsOf[Current(q)][q.scan] \in Accounts
           /\ q.view \in [Accounts -> Setting]
<1>1. AccountsOf[Current(q)] \in Seq(Accounts)
  BY CurrentType, SetAssumption
<1>2. q.scan \in Nat \ {0} /\ q.view \in Snapshots
  BY DEF Request, Positions
<1>3. Len(AccountsOf[Current(q)]) \in Nat
  BY <1>1
<1>4. q.scan \in 1..Len(AccountsOf[Current(q)])
  BY <1>2, <1>3
<1>5. QED
  BY <1>1, <1>2, <1>4, ElementOfSeq, SetAssumption

LEMMA ProbeType ==
    ASSUME TypeOK, NEW r \in Requests, Probe(r)
    PROVE  TypeOK'
<1> DEFINE q == req[r]
           a == AccountsOf[Current(q)][q.scan]
           found == [q EXCEPT !.pc = "probed", !.acct = a]
           next == [q EXCEPT !.scan = @ + 1]
<1>1. q \in Request /\ q.pc = "scan" /\ q.scan <= Len(AccountsOf[Current(q)])
  BY DEF TypeOK, Probe
<1>2. a \in Accounts
  BY <1>1, ScannedType
<1>3. /\ \/ active' = Acquired(a) /\ Put(r, found)
         \/ active' = active /\ Put(r, next)
      /\ \/ CircuitOpenEffect(a)
         \/ opened' = opened /\ fails' = fails
      /\ UNCHANGED <<snap, cooldown, lockouts, routing>>
  BY DEF Probe
<1> HIDE DEF q, a
<1>4. found \in Request /\ found.acct = a
  BY <1>1, <1>2 DEF Request, Pcs, InAdapter
<1>5. q.scan + 1 \in Positions
  BY <1>1 DEF Request, Positions
<1>6. next \in Request /\ next.pc = "scan"
  BY <1>1, <1>5 DEF Request
<1> HIDE DEF found, next
<1>7. RequestsTyped'
  <2>1. CASE Put(r, found)
    BY <2>1, <1>2, <1>4, PutType
  <2>2. CASE Put(r, next)
    BY <2>2, <1>6, PutType DEF Placed, InAdapter
  <2>3. QED
    BY <1>3, <2>1, <2>2
<1>8. active' \in [Accounts -> Nat]
  BY <1>2, <1>3 DEF TypeOK, Acquired
<1>9. fails' \in [Accounts -> 0..MaxFails] /\ opened' \in [Accounts -> Nat \cup {Closed}]
  BY <1>2, <1>3, LimitAssumption DEF TypeOK, CircuitOpenEffect
<1>10. QED
  BY <1>3, <1>7, <1>8, <1>9 DEF TypeOK, RequestsTyped, routing

LEMMA ReleasedType ==
    ASSUME TypeOK, NEW a \in Accounts, active' = Released(a)
    PROVE  active' \in [Accounts -> Nat]
  BY DEF TypeOK, Released

LEMMA ReleaseProbeType ==
    ASSUME TypeOK, NEW r \in Requests, ReleaseProbe(r)
    PROVE  TypeOK'
<1> DEFINE q == req[r]
           found == [acct |-> q.acct, cap |-> q.view[q.acct].maxConcurrency]
           plan == Append(q.plan, found)
           u == [q EXCEPT !.pc = "scan", !.scan = @ + 1, !.acct = NoAccount,
                          !.plan = plan]
<1>1. q \in Request /\ q.acct \in Accounts
  BY DEF TypeOK, ReleaseProbe, Placed, InAdapter
<1>2. Put(r, u) /\ active' = Released(q.acct) /\ UNCHANGED <<snap, health, routing>>
  BY DEF ReleaseProbe
<1> HIDE DEF q
<1>3. found \in Candidate
  BY <1>1, SetAssumption DEF Request, Candidate, Setting
<1> HIDE DEF found
<1>4. plan \in Plans /\ q.scan + 1 \in Positions
  BY <1>1, <1>3, AppendProperties DEF Request, Plans, Positions
<1> HIDE DEF plan
<1>5. u \in Request /\ u.pc = "scan"
  BY <1>1, <1>4 DEF Request, Pcs, InAdapter
<1> HIDE DEF u
<1>6. RequestsTyped'
  BY <1>2, <1>5, PutType DEF Placed, InAdapter
<1>7. active' \in [Accounts -> Nat]
  BY <1>1, <1>2, ReleasedType
<1>8. QED
  BY <1>2, <1>6, <1>7 DEF TypeOK, RequestsTyped, health, routing

LEMMA EmptyPlanType ==
    ASSUME TypeOK, NEW r \in Requests, EmptyPlan(r)
    PROVE  TypeOK'
<1> DEFINE u == IF Len(req[r].chain) = 1 THEN Ended(req[r], 1) ELSE NextAlias(req[r])
<1>1. req[r] \in Request /\ snap \in Snapshots
  BY DEF TypeOK
<1>2. u \in Request /\ u.pc \in {"scan", "idle"}
  BY <1>1, EndedType, NextAliasType
<1>3. Put(r, u) /\ UNCHANGED <<snap, health, active, routing>>
  BY DEF EmptyPlan
<1> HIDE DEF u
<1>4. RequestsTyped'
  BY <1>2, <1>3, PutType DEF Placed, InAdapter
<1>5. QED
  BY <1>3, <1>4 DEF TypeOK, RequestsTyped, health, routing

LEMMA OrderPlanType ==
    ASSUME TypeOK, NEW r \in Requests, OrderPlan(r)
    PROVE  TypeOK'
<1> DEFINE q == req[r]
           m == Current(q)
           spins == Strategy[m] = "round_robin"
           u(order) == [q EXCEPT !.pc = "attempt", !.plan = Limited(m, order),
                                 !.scan = 1, !.view = NoView]
<1>1. q \in Request /\ q.plan # <<>>
  BY DEF TypeOK, OrderPlan
<1>2. m \in Aliases /\ q.plan \in Plans /\ q.session \in Sessions
  BY <1>1, CurrentType DEF Request
<1>3. PICK order \in Orders(m, q.session, q.plan) : Put(r, u(order))
  BY DEF OrderPlan
<1>4. /\ cursor' = IF spins THEN [cursor EXCEPT ![m] = (@ + 1) % CursorPeriod]
                   ELSE cursor
      /\ UNCHANGED <<snap, health, active, affinity, lkgp>>
  BY DEF OrderPlan
<1> HIDE DEF q, m, spins
<1>5. order \in Plans /\ order # <<>>
  BY <1>1, <1>2, OrdersType DEF TypeOK
<1>8. Limited(m, order) \in Plans /\ 1 \in Positions
  BY <1>5, LimitedType DEF Positions
<1>9. u(order) \in Request /\ u(order).pc = "attempt"
  BY <1>1, <1>8, NoViewType DEF Request, Pcs, InAdapter
<1>10. RequestsTyped'
  BY <1>3, <1>9, PutType DEF Placed, InAdapter
<1>11. cursor' \in [Aliases -> 0..(CursorPeriod - 1)]
  <2>1. (cursor[m] + 1) % CursorPeriod \in 0..(CursorPeriod - 1)
    BY <1>2, LimitAssumption DEF TypeOK
  <2>2. QED
    BY <1>2, <1>4, <2>1 DEF TypeOK
<1>12. QED
  BY <1>4, <1>10, <1>11 DEF TypeOK, RequestsTyped, health

LEMMA ExhaustedType ==
    ASSUME TypeOK, NEW r \in Requests, Exhausted(r)
    PROVE  TypeOK'
<1>1. NextAlias(req[r]) \in Request /\ NextAlias(req[r]).pc \in {"scan", "idle"}
  BY NextAliasType DEF TypeOK
<1>2. RequestsTyped'
  BY <1>1, PutType DEF Exhausted, Placed, InAdapter
<1>3. QED
  BY <1>2 DEF Exhausted, TypeOK, RequestsTyped, health, routing

\* The candidate of the next attempt.
LEMMA PlannedType ==
    ASSUME NEW q \in Request, q.pos <= Len(q.plan)
    PROVE  q.plan[q.pos].acct \in Accounts /\ q.plan[q.pos].cap \in Nat
<1>1. q.plan \in Seq(Candidate) /\ q.pos \in Nat \ {0}
  BY DEF Request, Plans, Positions
<1>2. q.pos \in 1..Len(q.plan)
  BY <1>1, LenProperties
<1>3. q.plan[q.pos] \in Candidate
  BY <1>1, <1>2, ElementOfSeq
<1>4. QED
  BY <1>3 DEF Candidate

LEMMA AttemptType ==
    ASSUME TypeOK, NEW r \in Requests, Attempt(r)
    PROVE  TypeOK'
<1> DEFINE q == req[r]
           c == q.plan[q.pos]
           passed == [q EXCEPT !.pos = @ + 1]
           started == [q EXCEPT !.pc = "upstream", !.acct = c.acct]
<1>1. q \in Request /\ q.pc = "attempt" /\ q.pos <= Len(q.plan)
  BY DEF TypeOK, Attempt
<1>2. c.acct \in Accounts
  BY <1>1, PlannedType
<1>3. /\ \/ Put(r, Ended(q, 0)) /\ active' = active
         \/ Put(r, passed) /\ active' = active
         \/ Put(r, started) /\ active' = Acquired(c.acct)
      /\ UNCHANGED <<snap, health, routing>>
  BY DEF Attempt
<1> HIDE DEF q, c
<1>4. passed \in Request /\ passed.pc = "attempt"
  <2>1. q.pos + 1 \in Positions
    BY <1>1 DEF Request, Positions
  <2>2. QED
    BY <1>1, <2>1 DEF Request
<1>5. started \in Request /\ started.acct = c.acct
  BY <1>1, <1>2 DEF Request, Pcs, InAdapter
<1>6. Ended(q, 0) \in Request /\ Ended(q, 0).pc = "idle"
  BY <1>1, EndedType
<1> HIDE DEF passed, started
<1>7. RequestsTyped'
  BY <1>2, <1>3, <1>4, <1>5, <1>6, PutType DEF Placed, InAdapter
<1>8. active' \in [Accounts -> Nat]
  BY <1>2, <1>3 DEF TypeOK, Acquired
<1>9. QED
  BY <1>3, <1>7, <1>8 DEF TypeOK, RequestsTyped, health, routing

\* The two requests an attempt that returns may leave behind.
Counted(q, outcome, n) ==
    [q EXCEPT !.pc = "record", !.outcome = outcome, !.calls = 0, !.token = "ok",
              !.answers = @ + n]
Silent(q, outcome) ==
    [q EXCEPT !.cut = @ \/ (outcome = "canceled" /\ q.token = "ok" /\ ~q.gone)]

LEMMA SilentType ==
    ASSUME NEW q \in Request, NEW outcome
    PROVE  /\ Silent(q, outcome) \in Request
           /\ Silent(q, outcome).gone = q.gone /\ Silent(q, outcome).answers = q.answers
           /\ q.cut => Silent(q, outcome).cut
           /\ outcome = "canceled" /\ q.token = "ok" /\ ~q.gone => Silent(q, outcome).cut
<1>1. q.cut \in BOOLEAN
  BY DEF Request
<1>2. PICK b \in BOOLEAN : b = (q.cut \/ (outcome = "canceled" /\ q.token = "ok" /\ ~q.gone))
  BY <1>1, Zenon
<1>3. Silent(q, outcome) = [q EXCEPT !.cut = b]
  BY <1>1, <1>2, Zenon DEF Silent
<1>4. /\ [q EXCEPT !.cut = b] \in Request /\ [q EXCEPT !.cut = b].gone = q.gone
      /\ [q EXCEPT !.cut = b].answers = q.answers /\ [q EXCEPT !.cut = b].cut = b
  BY DEF Request
<1>5. QED
  BY <1>1, <1>2, <1>3, <1>4

LEMMA CountedType ==
    ASSUME NEW q \in Request, NEW outcome \in Outcomes, NEW n \in Nat
    PROVE  /\ Counted(q, outcome, n) \in Request /\ Counted(q, outcome, n).acct = q.acct
           /\ Counted(q, outcome, n).pc = "record" /\ Counted(q, outcome, n).outcome = outcome
           /\ Counted(q, outcome, n).answers = q.answers + n
           /\ Counted(q, outcome, n).token = "ok"
<1>1. q.answers + n \in Nat
  BY DEF Request
<1>2. "record" \in Pcs /\ "ok" \in Tokens /\ 0 \in 0..TokenCalls
  BY DEF Pcs, Tokens, TokenCalls
<1>3. QED
  BY <1>1, <1>2 DEF Counted, Request

LEMMA ReturnType ==
    ASSUME TypeOK, NEW r \in Requests, NEW outcome \in Outcomes, Return(r, outcome)
    PROVE  TypeOK'
<1> DEFINE q == req[r]
           n == IF outcome = "served" THEN 1 ELSE 0
           u == Counted(q, outcome, n)
           e == Ended(Silent(q, outcome), n)
<1>1. q \in Request /\ q.acct \in Accounts
  BY DEF TypeOK, Return, Placed, InAdapter
<1>2. /\ Put(r, e) \/ Put(r, u)
      /\ active' = Released(q.acct) /\ UNCHANGED <<snap, health, routing>>
  BY DEF Return, Silent, Counted
<1>3. n \in Nat
  OBVIOUS
<1> HIDE DEF q, n
<1>4. u \in Request /\ u.acct = q.acct
  BY <1>1, <1>3, CountedType
<1>5. e \in Request /\ e.pc = "idle"
  BY <1>1, <1>3, SilentType, EndedType
<1> HIDE DEF u, e
<1>6. RequestsTyped'
  BY <1>1, <1>2, <1>4, <1>5, PutType DEF Placed, InAdapter
<1>7. active' \in [Accounts -> Nat]
  BY <1>1, <1>2, ReleasedType
<1>8. QED
  BY <1>2, <1>6, <1>7 DEF TypeOK, RequestsTyped, health, routing

\* The request of an attempt that leads a refresh or joins one.
Leading(q) == [q EXCEPT !.pc = "refresh", !.calls = @ + 1]
Joined(q, leader) == [q EXCEPT !.pc = "joined", !.on = leader, !.calls = @ + 1]

LEMMA TokenCallType ==
    ASSUME NEW q \in Request, q.calls < TokenCalls, NEW leader \in Requests
    PROVE  /\ Leading(q) \in Request /\ Leading(q).pc = "refresh"
           /\ Leading(q).acct = q.acct /\ Leading(q).answers = q.answers
           /\ Leading(q).token = q.token
           /\ Joined(q, leader) \in Request /\ Joined(q, leader).pc = "joined"
           /\ Joined(q, leader).acct = q.acct /\ Joined(q, leader).answers = q.answers
           /\ Joined(q, leader).token = q.token
<1>1. q.calls + 1 \in 0..TokenCalls
  BY DEF Request, TokenCalls
<1>2. QED
  BY <1>1 DEF Leading, Joined, Request, Pcs, InAdapter

LEMMA TokenCallForm ==
    ASSUME TypeOK, NEW r \in Requests, Lead(r) \/ \E l \in Requests : Join(r, l)
    PROVE  /\ req[r] \in Request /\ req[r].pc = "upstream" /\ req[r].calls < TokenCalls
           /\ req[r].token = "ok"
           /\ UNCHANGED <<snap, health, active, routing>>
           /\ Put(r, Leading(req[r])) \/ \E l \in Requests : Put(r, Joined(req[r], l))
  BY DEF TypeOK, Lead, Join, Leading, Joined

LEMMA TokenCallOK ==
    ASSUME TypeOK, NEW r \in Requests, Lead(r) \/ \E l \in Requests : Join(r, l)
    PROVE  TypeOK'
<1>1. PICK l \in Requests : Put(r, Leading(req[r])) \/ Put(r, Joined(req[r], l))
  BY TokenCallForm
<1>2. /\ req[r] \in Request /\ req[r].acct \in Accounts
      /\ req[r].calls < TokenCalls /\ UNCHANGED <<snap, health, active, routing>>
  BY TokenCallForm DEF TypeOK, Placed, InAdapter
<1>3. RequestsTyped'
  BY <1>1, <1>2, TokenCallType, PutType
<1>4. QED
  BY <1>2, <1>3 DEF TypeOK, RequestsTyped, health, routing

\* What the end of a refresh makes of each request.
Refreshes(r, token, s) ==
    [req[s] EXCEPT !.pc = "upstream", !.on = NoRequest, !.token = token,
                   !.cut = token = "canceled" /\ (s # r \/ ~req[r].gone)]

LEMMA RefreshesType ==
    ASSUME TypeOK, NEW r \in Requests, NEW token \in Tokens, NEW s \in Requests
    PROVE  /\ Refreshes(r, token, s) \in Request /\ Refreshes(r, token, s).pc = "upstream"
           /\ Refreshes(r, token, s).acct = req[s].acct
           /\ Refreshes(r, token, s).answers = req[s].answers
           /\ Refreshes(r, token, s).token = token
           /\ Refreshes(r, token, s).gone = req[s].gone
           /\ token = "canceled" /\ (s # r \/ ~req[r].gone) => Refreshes(r, token, s).cut
<1>1. req[s] \in Request /\ req[r] \in Request
  BY DEF TypeOK
<1>2. PICK b \in BOOLEAN : b = (token = "canceled" /\ (s # r \/ ~req[r].gone))
  BY Zenon
<1>3. Refreshes(r, token, s) = [req[s] EXCEPT !.pc = "upstream", !.on = NoRequest,
                                              !.token = token, !.cut = b]
  BY <1>2, Zenon DEF Refreshes
<1> DEFINE q == req[s]
           u == [q EXCEPT !.pc = "upstream", !.on = NoRequest, !.token = token, !.cut = b]
<1> HIDE DEF q
<1>4. q \in Request
  BY <1>1 DEF q
<1>5. /\ u \in Request /\ u.pc = "upstream" /\ u.acct = q.acct /\ u.answers = q.answers
      /\ u.token = token /\ u.gone = q.gone /\ u.cut = b
  BY <1>4 DEF Request, Pcs, InAdapter
<1>6. QED
  BY <1>2, <1>3, <1>5 DEF q

LEMMA RefreshedForm ==
    ASSUME TypeOK, NEW r \in Requests, NEW token \in Tokens, Refreshed(r, token)
    PROVE  /\ DOMAIN req' = Requests /\ req' = [s \in Requests |-> req'[s]]
           /\ UNCHANGED <<snap, health, active, routing>>
           /\ \A s \in Requests :
                \/ req'[s] = req[s]
                \/ req[s].pc \in {"refresh", "joined"} /\ req'[s] = Refreshes(r, token, s)
  BY DEF Refreshed, Told, Refreshes

LEMMA RefreshedType ==
    ASSUME TypeOK, NEW r \in Requests, NEW token \in Tokens, Refreshed(r, token)
    PROVE  TypeOK'
<1>1. req' = [s \in Requests |-> req'[s]] /\ UNCHANGED <<snap, health, active, routing>>
  BY RefreshedForm
<1>2. ASSUME NEW s \in Requests
      PROVE  req'[s] \in Request /\ (req'[s].pc \in Placed => req'[s].acct \in Accounts)
  <2>1. CASE req'[s] = req[s]
    BY <2>1 DEF TypeOK
  <2>2. CASE req[s].pc \in {"refresh", "joined"} /\ req'[s] = Refreshes(r, token, s)
    <3>1. req[s].acct \in Accounts
      BY <2>2 DEF TypeOK, Placed, InAdapter
    <3>2. QED
      BY <2>2, <3>1, RefreshesType
  <2>3. QED
    BY <2>1, <2>2, RefreshedForm
<1>3. RequestsTyped'
  BY <1>1, <1>2 DEF RequestsTyped
<1>4. QED
  BY <1>1, <1>3 DEF TypeOK, RequestsTyped, health, routing

\* A request that moves to the next account of its plan.
LEMMA AdvancedType ==
    ASSUME NEW q \in Request
    PROVE  Advanced(q) \in Request /\ Advanced(q).pc = "attempt"
<1>1. q.pos + 1 \in Positions
  BY DEF Request, Positions
<1>2. QED
  BY <1>1 DEF Advanced, Request, Pcs, Outcomes

\* A step of the recording code keeps the account of the request.
LEMMA MovedType ==
    ASSUME NEW q \in Request, NEW pc \in Pcs
    PROVE  /\ [q EXCEPT !.pc = pc] \in Request
           /\ [q EXCEPT !.pc = pc].acct = q.acct
           /\ [q EXCEPT !.pc = pc].pc = pc
  BY DEF Request

LEMMA RecordingType ==
    ASSUME TypeOK, NEW r \in Requests, Recording(r)
    PROVE  TypeOK'
<1> DEFINE q == req[r]
           a == q.acct
<1>1. q \in Request /\ (q.pc \in Placed => a \in Accounts)
  BY DEF TypeOK
<1>2. q.pc \in Placed
  BY DEF Recording, Throttle, Failure, ReadFails, Lockout, Success, Commit, Placed, InAdapter
<1>3. q \in Request /\ a \in Accounts
  BY <1>1, <1>2
<1>4. Advanced(q) \in Request /\ Advanced(q).pc = "attempt"
  BY <1>3, AdvancedType
<1>5. ASSUME Put(r, Advanced(q))
      PROVE  RequestsTyped'
  BY <1>4, <1>5, PutType DEF Placed, InAdapter
<1>6. ASSUME NEW pc \in Pcs, Put(r, [q EXCEPT !.pc = pc])
      PROVE  RequestsTyped'
  <2> DEFINE u == [q EXCEPT !.pc = pc]
  <2>1. u \in Request /\ u.acct = a
    BY <1>3, MovedType
  <2>2. Put(r, u)
    BY <1>6
  <2> HIDE DEF u
  <2>3. QED
    BY <1>3, <2>1, <2>2, PutType
<1>7. CASE Throttle(r)
  <2>1. RequestsTyped'
    BY <1>5, <1>7 DEF Throttle
  <2>2. cooldown' \in [Accounts -> Nat]
    BY <1>3, <1>7, LimitAssumption DEF Throttle, TypeOK
  <2>3. QED
    BY <1>7, <2>1, <2>2 DEF Throttle, TypeOK, RequestsTyped, routing
<1>8. CASE Failure(r)
  <2>1. RequestsTyped'
    BY <1>5, <1>6, <1>8 DEF Failure, Pcs
  <2>2. Failed(a) \in 0..MaxFails
    BY <1>3, LimitAssumption DEF Failed, TypeOK
  <2>3. fails' \in [Accounts -> 0..MaxFails] /\ opened' \in [Accounts -> Nat \cup {Closed}]
    BY <1>3, <1>8, <2>2, LimitAssumption DEF Failure, FailureEffect, TypeOK
  <2>4. QED
    BY <1>8, <2>1, <2>3 DEF Failure, TypeOK, RequestsTyped, routing
<1>9. CASE ReadFails(r)
  <2>1. RequestsTyped'
    BY <1>5, <1>6, <1>9 DEF ReadFails, Pcs
  <2>2. QED
    BY <1>9, <2>1 DEF ReadFails, TypeOK, RequestsTyped, health, routing
<1>10. CASE Lockout(r)
  <2>1. RequestsTyped'
    BY <1>5, <1>10 DEF Lockout
  <2>2. lockouts' \in [Accounts -> Nat]
    BY <1>3, <1>10, LimitAssumption DEF Lockout, TypeOK
  <2>3. QED
    BY <1>10, <2>1, <2>2 DEF Lockout, TypeOK, RequestsTyped, routing
<1>11. CASE Success(r)
  <2>1. RequestsTyped'
    BY <1>6, <1>11 DEF Success, Pcs
  <2>2. fails' \in [Accounts -> 0..MaxFails]
    BY <1>3, <1>11, LimitAssumption DEF Success, TypeOK
  <2>3. QED
    BY <1>11, <2>1, <2>2 DEF Success, TypeOK, RequestsTyped, routing
<1>12. CASE Commit(r)
  <2>1. q.session \in Sessions /\ q.alias \in Aliases
    BY <1>3 DEF Request
  <2>2. RequestsTyped'
    <3>1. Ended(q, 0) \in Request /\ Ended(q, 0).pc = "idle"
      BY <1>3, EndedType
    <3>2. QED
      BY <1>12, <3>1, PutType DEF Commit, Placed, InAdapter
  <2>3. lockouts' \in [Accounts -> Nat] /\ lkgp' \in [Aliases -> Accounts \cup {NoAccount}]
    BY <1>3, <1>12, <2>1 DEF Commit, TypeOK
  <2>4. affinity' \in [Sessions -> [acct : Accounts \cup {NoAccount}, left : Nat]]
    BY <1>3, <1>12, <2>1, LimitAssumption DEF Commit, TypeOK
  <2>5. QED
    BY <1>12, <2>2, <2>3, <2>4 DEF Commit, TypeOK, RequestsTyped
<1>13. QED
  BY <1>7, <1>8, <1>9, <1>10, <1>11, <1>12 DEF Recording

LEMMA TickType ==
    ASSUME TypeOK, Tick
    PROVE  TypeOK'
<1>1. \A n \in Nat : Down(n) \in Nat
  BY DEF Down
<1>2. \A n \in Nat \cup {Closed} : Down(n) \in Nat \cup {Closed}
  BY DEF Down, Closed
<1>3. cooldown' \in [Accounts -> Nat] /\ lockouts' \in [Accounts -> Nat]
      /\ opened' \in [Accounts -> Nat \cup {Closed}]
  BY <1>1, <1>2 DEF Tick, TypeOK
<1>4. affinity' \in [Sessions -> [acct : Accounts \cup {NoAccount}, left : Nat]]
  BY <1>1 DEF Tick, TypeOK
<1>5. QED
  BY <1>3, <1>4 DEF Tick, TypeOK

LEMMA TypeInit == Init => TypeOK
<1> SUFFICES ASSUME Init PROVE TypeOK
  OBVIOUS
<1>1. req \in [Requests -> Request]
  BY IdleType DEF Init
<1>2. \A r \in Requests : req[r].pc \notin Placed
  BY IdleType DEF Init, Placed, InAdapter
<1>3. 0 \in 0..(CursorPeriod - 1) /\ 0 \in 0..MaxFails
  BY LimitAssumption
<1>4. affinity \in [Sessions -> [acct : Accounts \cup {NoAccount}, left : Nat]]
  BY DEF Init
<1>5. QED
  BY <1>1, <1>2, <1>3, <1>4 DEF Init, TypeOK

LEMMA TypeNext == TypeOK /\ [Next]_vars => TypeOK'
<1> SUFFICES ASSUME TypeOK, [Next]_vars PROVE TypeOK'
  OBVIOUS
<1>1. ASSUME NEW r \in Requests, Step(r) PROVE TypeOK'
  BY <1>1, ProbeType, ReleaseProbeType, EmptyPlanType, OrderPlanType,
     ExhaustedType, AttemptType, TokenCallOK, RefreshedType, ReturnType, RecordingType
     DEF Step, Planning, Attempting
<1>2. CASE Adopt
  BY <1>2 DEF Adopt, TypeOK, health, routing
<1>3. CASE UNCHANGED vars
  BY <1>3 DEF vars, TypeOK, health, routing
<1>4. QED
  BY <1>1, <1>2, <1>3, ArriveType, LeaveType, TickType DEF Next

\* Every state of the gateway is well typed: an attempt always has an account
\* of the snapshot, and no slot count, timer or failure count leaves its range
\* (state.go, router.go and the loop of proxy.go).
THEOREM TypeCorrect == Spec => []TypeOK
  BY TypeInit, TypeNext, PTL DEF Spec

-----------------------------------------------------------------------------
(* Slots *)

\* The account a request holds a slot of.
Slot(q) == IF q.pc \in InAdapter \cup {"probed"} THEN q.acct ELSE NoAccount

\* What one replaced request does to the holders of an account.
LEMMA HoldersAfter ==
    ASSUME TypeOK, NEW r \in Requests, NEW q, Put(r, q), NEW b \in Accounts
    PROVE  /\ IsFiniteSet(SlotHolders(b))
           /\ Slot(q) = b => SlotHolders(b)' = SlotHolders(b) \cup {r}
           /\ Slot(q) # b => SlotHolders(b)' = SlotHolders(b) \ {r}
           /\ r \in SlotHolders(b) <=> Slot(req[r]) = b
<1>1. req' = [req EXCEPT ![r] = q] /\ DOMAIN req = Requests /\ b # NoAccount
  BY SetAssumption DEF Put, TypeOK
<1>2. \A s \in Requests : req'[s] = IF s = r THEN q ELSE req[s]
  BY <1>1
<1>3. \A s : s \in SlotHolders(b) <=> s \in Requests /\ Slot(req[s]) = b
  BY <1>1 DEF SlotHolders, Slot
<1>4. \A s : s \in SlotHolders(b)' <=> s \in Requests /\ Slot(req'[s]) = b
  BY <1>1 DEF SlotHolders, Slot
<1>5. SlotHolders(b) \in SUBSET Requests
  BY DEF SlotHolders
<1>6. IsFiniteSet(SlotHolders(b))
  BY <1>5, SetAssumption, FS_Subset
<1>7. ASSUME Slot(q) = b PROVE SlotHolders(b)' = SlotHolders(b) \cup {r}
  BY <1>2, <1>3, <1>4, <1>7
<1>8. ASSUME Slot(q) # b PROVE SlotHolders(b)' = SlotHolders(b) \ {r}
  BY <1>2, <1>3, <1>4, <1>8
<1>9. QED
  BY <1>3, <1>6, <1>7, <1>8

\* A step that takes or gives no slot.
LEMMA SlotsSame ==
    ASSUME TypeOK, SlotsExact, NEW r \in Requests, NEW q, Put(r, q),
           Slot(q) = Slot(req[r]), active' = active
    PROVE  SlotsExact'
<1> SUFFICES ASSUME NEW b \in Accounts
             PROVE  active'[b] = Cardinality(SlotHolders(b)')
  BY DEF SlotsExact
<1>1. SlotHolders(b)' = SlotHolders(b)
  <2>1. CASE Slot(q) = b
    <3>1. SlotHolders(b)' = SlotHolders(b) \cup {r} /\ r \in SlotHolders(b)
      BY <2>1, HoldersAfter
    <3>2. QED
      BY <3>1
  <2>2. CASE Slot(q) # b
    <3>1. SlotHolders(b)' = SlotHolders(b) \ {r} /\ r \notin SlotHolders(b)
      BY <2>2, HoldersAfter
    <3>2. QED
      BY <3>1
  <2>3. QED
    BY <2>1, <2>2
<1>2. QED
  BY <1>1 DEF SlotsExact

\* TryAcquire succeeds.
LEMMA SlotTaken ==
    ASSUME TypeOK, SlotsExact, NEW r \in Requests, NEW q, Put(r, q),
           NEW a \in Accounts, Slot(q) = a, Slot(req[r]) = NoAccount,
           active' = Acquired(a)
    PROVE  SlotsExact'
<1> SUFFICES ASSUME NEW b \in Accounts
             PROVE  active'[b] = Cardinality(SlotHolders(b)')
  BY DEF SlotsExact
<1>1. active[b] = Cardinality(SlotHolders(b)) /\ b # NoAccount
  BY SetAssumption DEF SlotsExact
<1>2. r \notin SlotHolders(b) /\ IsFiniteSet(SlotHolders(b))
  BY <1>1, HoldersAfter
<1>3. CASE b = a
  <2>1. SlotHolders(b)' = SlotHolders(b) \cup {r}
    BY <1>3, HoldersAfter
  <2>2. Cardinality(SlotHolders(b)') = Cardinality(SlotHolders(b)) + 1
    BY <1>2, <2>1, FS_AddElement
  <2>3. active'[b] = active[b] + 1
    BY <1>3 DEF Acquired, TypeOK
  <2>4. QED
    BY <1>1, <2>2, <2>3
<1>4. CASE b # a
  <2>1. SlotHolders(b)' = SlotHolders(b)
    BY <1>2, <1>4, HoldersAfter
  <2>2. active'[b] = active[b]
    BY <1>4 DEF Acquired, TypeOK
  <2>3. QED
    BY <1>1, <2>1, <2>2
<1>5. QED
  BY <1>3, <1>4

\* Release: the count of a held slot is positive, so it always goes down.
LEMMA SlotGiven ==
    ASSUME TypeOK, SlotsExact, NEW r \in Requests, NEW q, Put(r, q),
           NEW a \in Accounts, Slot(q) = NoAccount, Slot(req[r]) = a,
           active' = Released(a)
    PROVE  SlotsExact'
<1> SUFFICES ASSUME NEW b \in Accounts
             PROVE  active'[b] = Cardinality(SlotHolders(b)')
  BY DEF SlotsExact
<1>1. active[b] = Cardinality(SlotHolders(b)) /\ b # NoAccount
  BY SetAssumption DEF SlotsExact
<1>2. IsFiniteSet(SlotHolders(b)) /\ SlotHolders(b)' = SlotHolders(b) \ {r}
  BY <1>1, HoldersAfter
<1>3. CASE b = a
  <2>1. r \in SlotHolders(b)
    BY <1>3, HoldersAfter
  <2>2. Cardinality(SlotHolders(b)') = Cardinality(SlotHolders(b)) - 1
    BY <1>2, <2>1, FS_RemoveElement
  <2>3. Cardinality(SlotHolders(b)) # 0
    BY <1>2, <2>1, FS_EmptySet
  <2>4. active[b] \in Nat
    BY DEF TypeOK
  <2>5. active'[b] = active[b] - 1
    BY <1>1, <1>3, <2>3, <2>4 DEF Released, TypeOK
  <2>6. QED
    BY <1>1, <2>2, <2>5
<1>4. CASE b # a
  <2>1. SlotHolders(b)' = SlotHolders(b)
    BY <1>2, <1>4, HoldersAfter
  <2>2. active'[b] = active[b]
    BY <1>4 DEF Released, TypeOK
  <2>3. QED
    BY <1>1, <2>1, <2>2
<1>5. QED
  BY <1>3, <1>4

SlotInv == TypeOK /\ SlotsExact

LEMMA SlotsStep ==
    ASSUME SlotInv, NEW r \in Requests, Step(r)
    PROVE  SlotsExact'
<1> DEFINE q == req[r]
<1>1. TypeOK /\ SlotsExact /\ q \in Request
  BY DEF SlotInv, TypeOK
<1>2. ASSUME NEW u, Put(r, u), u.pc \notin InAdapter \cup {"probed"},
             q.pc \notin InAdapter \cup {"probed"}, active' = active
      PROVE  SlotsExact'
  BY <1>1, <1>2, SlotsSame DEF Slot, InAdapter
<1>3. CASE Probe(r)
  <2> DEFINE a == AccountsOf[Current(q)][q.scan]
             found == [q EXCEPT !.pc = "probed", !.acct = a]
             next == [q EXCEPT !.scan = @ + 1]
  <2>1. q.pc = "scan" /\ q.scan <= Len(AccountsOf[Current(q)])
    BY <1>3 DEF Probe
  <2>2. a \in Accounts
    BY <1>1, <2>1, ScannedType
  <2>3. \/ active' = Acquired(a) /\ Put(r, found)
        \/ active' = active /\ Put(r, next)
    BY <1>3 DEF Probe
  <2> HIDE DEF a
  <2>4. found.pc = "probed" /\ found.acct = a /\ next.pc = "scan"
    BY <1>1, <2>1 DEF Request
  <2> HIDE DEF found, next
  <2>5. QED
    BY <1>1, <1>2, <2>1, <2>2, <2>3, <2>4, SlotTaken DEF Slot, InAdapter
<1>4. CASE ReleaseProbe(r)
  <2> DEFINE plan == Append(q.plan, [acct |-> q.acct,
                                     cap |-> q.view[q.acct].maxConcurrency])
             u == [q EXCEPT !.pc = "scan", !.scan = @ + 1, !.acct = NoAccount,
                            !.plan = plan]
  <2>1. q.pc = "probed" /\ Put(r, u) /\ active' = Released(q.acct)
    BY <1>4 DEF ReleaseProbe
  <2>2. q.acct \in Accounts
    BY <1>1, <2>1 DEF TypeOK, Placed, InAdapter
  <2> HIDE DEF plan
  <2>3. u.pc = "scan"
    BY <1>1 DEF Request
  <2> HIDE DEF u
  <2>4. QED
    BY <1>1, <2>1, <2>2, <2>3, SlotGiven DEF Slot, InAdapter
<1>5. CASE EmptyPlan(r)
  <2> DEFINE u == IF Len(q.chain) = 1 THEN Ended(q, 1) ELSE NextAlias(q)
  <2>1. u.pc \in {"scan", "idle"}
    BY <1>1, EndedType, NextAliasType DEF TypeOK
  <2>2. Put(r, u) /\ q.pc = "scan" /\ active' = active
    BY <1>5 DEF EmptyPlan
  <2> HIDE DEF u
  <2>3. QED
    BY <1>2, <2>1, <2>2 DEF InAdapter
<1>6. CASE OrderPlan(r)
  <2> DEFINE u(order) == [q EXCEPT !.pc = "attempt",
                            !.plan = Limited(Current(q), order),
                            !.scan = 1, !.view = NoView]
  <2>1. \E order : Put(r, u(order))
    BY <1>6 DEF OrderPlan
  <2>2. PICK order : Put(r, u(order))
    BY <2>1
  <2>3. q.pc = "scan" /\ active' = active
    BY <1>6 DEF OrderPlan
  <2>4. u(order).pc = "attempt"
    BY <1>1 DEF Request
  <2> HIDE DEF u
  <2>5. QED
    BY <1>2, <2>2, <2>3, <2>4 DEF InAdapter
<1>7. CASE Exhausted(r)
  <2>1. NextAlias(q).pc \in {"scan", "idle"}
    BY <1>1, NextAliasType DEF TypeOK
  <2>2. QED
    BY <1>2, <1>7, <2>1 DEF Exhausted, InAdapter
<1>8. CASE Attempt(r)
  <2> DEFINE c == q.plan[q.pos]
             passed == [q EXCEPT !.pos = @ + 1]
             started == [q EXCEPT !.pc = "upstream", !.acct = c.acct]
  <2>1. q.pc = "attempt" /\ q.pos <= Len(q.plan)
    BY <1>8 DEF Attempt
  <2>2. c.acct \in Accounts
    BY <1>1, <2>1, PlannedType
  <2>3. \/ Put(r, Ended(q, 0)) /\ active' = active
        \/ Put(r, passed) /\ active' = active
        \/ Put(r, started) /\ active' = Acquired(c.acct)
    BY <1>8 DEF Attempt
  <2> HIDE DEF c
  <2>4. passed.pc = "attempt" /\ started.pc = "upstream" /\ started.acct = c.acct
    BY <1>1, <2>1 DEF Request
  <2>5. Ended(q, 0).pc = "idle"
    BY <1>1, EndedType
  <2> HIDE DEF passed, started
  <2>6. QED
    BY <1>1, <1>2, <2>1, <2>2, <2>3, <2>4, <2>5, SlotTaken DEF Slot, InAdapter
<1>9. ASSUME NEW outcome \in Outcomes, Return(r, outcome) PROVE SlotsExact'
  <2> DEFINE n == IF outcome = "served" THEN 1 ELSE 0
             u == Counted(q, outcome, n)
             e == Ended(Silent(q, outcome), n)
  <2>1. /\ q.pc = "upstream" /\ active' = Released(q.acct)
        /\ Put(r, e) \/ Put(r, u)
    BY <1>9 DEF Return, Silent, Counted
  <2>2. q.acct \in Accounts
    BY <1>1, <2>1 DEF TypeOK, Placed, InAdapter
  <2>3. n \in Nat
    OBVIOUS
  <2> HIDE DEF n
  <2>4. u.pc = "record" /\ e.pc = "idle"
    BY <1>1, <2>3, SilentType, CountedType, EndedType
  <2> HIDE DEF u, e
  <2>5. QED
    BY <1>1, <2>1, <2>2, <2>4, SlotGiven DEF Slot, InAdapter
<1>t. CASE Lead(r) \/ \E l \in Requests : Join(r, l)
  <2>1. PICK l \in Requests : Put(r, Leading(q)) \/ Put(r, Joined(q, l))
    BY <1>1, <1>t, TokenCallForm
  <2>2. q.pc = "upstream" /\ q.calls < TokenCalls /\ active' = active
    BY <1>1, <1>t, TokenCallForm
  <2>3. Slot(Leading(q)) = Slot(q) /\ Slot(Joined(q, l)) = Slot(q)
    BY <1>1, <2>2, TokenCallType DEF Slot, InAdapter
  <2>4. QED
    BY <1>1, <2>1, <2>2, <2>3, SlotsSame
<1>r. ASSUME NEW token \in Tokens, Refreshed(r, token) PROVE SlotsExact'
  <2>1. active' = active
    BY <1>1, <1>r, RefreshedForm
  <2>2. ASSUME NEW s \in Requests PROVE Slot(req'[s]) = Slot(req[s])
    BY <1>1, <1>r, RefreshedForm, RefreshesType DEF Slot, InAdapter
  <2>3. ASSUME NEW b \in Accounts PROVE SlotHolders(b)' = SlotHolders(b)
    <3>1. b # NoAccount
      BY SetAssumption
    <3>2. QED
      BY <2>2, <3>1 DEF SlotHolders, Slot
  <2>4. QED
    BY <1>1, <2>1, <2>3 DEF SlotsExact
<1>10. CASE Recording(r)
  <2>1. q.pc \in {"record", "counted", "locking", "commit"} /\ active' = active
    BY <1>10 DEF Recording, Throttle, Failure, ReadFails, Lockout, Success,
       Commit
  <2>2. \/ Put(r, Advanced(q)) \/ Put(r, Ended(q, 0))
        \/ \E pc \in {"counted", "locking", "commit"} : Put(r, [q EXCEPT !.pc = pc])
    BY <1>10 DEF Recording, Throttle, Failure, ReadFails, Lockout, Success, Commit
  <2>3. Advanced(q).pc = "attempt" /\ Ended(q, 0).pc = "idle"
    BY <1>1, AdvancedType, EndedType
  <2>4. CASE Put(r, Advanced(q)) \/ Put(r, Ended(q, 0))
    BY <1>2, <2>1, <2>3, <2>4 DEF InAdapter
  <2>5. ASSUME NEW pc \in {"counted", "locking", "commit"},
               Put(r, [q EXCEPT !.pc = pc])
        PROVE  SlotsExact'
    <3> DEFINE u == [q EXCEPT !.pc = pc]
    <3>1. u.pc = pc /\ Put(r, u)
      BY <1>1, <2>5, MovedType DEF Pcs
    <3> HIDE DEF u
    <3>2. QED
      BY <1>2, <2>1, <3>1 DEF InAdapter
  <2>6. QED
    BY <2>2, <2>4, <2>5
<1>11. QED
  BY <1>3, <1>4, <1>5, <1>6, <1>7, <1>8, <1>9, <1>t, <1>r, <1>10
     DEF Step, Planning, Attempting

LEMMA SlotsNext == SlotInv /\ [Next]_vars => SlotInv'
<1> SUFFICES ASSUME SlotInv, [Next]_vars PROVE SlotsExact'
  BY TypeNext DEF SlotInv
<1>1. ASSUME NEW r \in Requests, NEW m \in Asked, NEW s \in Sessions, Arrive(r, m, s)
      PROVE  SlotsExact'
  <2>1. NewRequest(m, s, snap).pc = "scan"
    BY NewRequestType, SetAssumption DEF SlotInv, TypeOK
  <2>2. QED
    BY <1>1, <2>1, SlotsSame DEF Arrive, Slot, SlotInv, InAdapter
<1>2. ASSUME NEW r \in Requests, Leave(r) PROVE SlotsExact'
  <2> DEFINE u == [req[r] EXCEPT !.gone = TRUE]
  <2>1. req[r] \in Request
    BY DEF SlotInv, TypeOK
  <2>2. u.pc = req[r].pc /\ u.acct = req[r].acct
    BY <2>1 DEF Request
  <2>3. Put(r, u) /\ active' = active
    BY <1>2 DEF Leave
  <2> HIDE DEF u
  <2>4. QED
    BY <2>2, <2>3, SlotsSame DEF Slot, SlotInv
<1>3. CASE Adopt \/ Tick \/ UNCHANGED vars
  BY <1>3 DEF Adopt, Tick, vars, SlotInv, SlotsExact, SlotHolders
<1>4. QED
  BY <1>1, <1>2, <1>3, SlotsStep DEF Next

LEMMA SlotsInit == Init => SlotsExact
<1> SUFFICES ASSUME Init, NEW a \in Accounts
             PROVE  active[a] = Cardinality(SlotHolders(a))
  BY DEF SlotsExact
<1>1. SlotHolders(a) = {}
  BY IdleType DEF Init, SlotHolders, InAdapter
<1>2. QED
  BY <1>1, FS_EmptySet DEF Init

\* The slot count of an account always is the number of requests that hold a
\* slot of it, however the requests interleave and end (TryAcquire and Release
\* in state.go, called from router.Plan and the loop of proxy.go).
THEOREM SlotsAreExact == Spec => []SlotsExact
  BY TypeInit, SlotsInit, SlotsNext, PTL DEF Spec, SlotInv

-----------------------------------------------------------------------------
(* The cap of an attempt *)

AttemptCapStep ==
    \A r \in Requests :
      LET a == req'[r].acct
          cap == req[r].plan[req[r].pos].cap
      IN  req[r].pc = "attempt" /\ req'[r].pc = "upstream" /\ cap > 0
            => Cardinality({s \in Requests : req'[s].pc \in InAdapter
                                               /\ req'[s].acct = a}) <= cap

\* Only Attempt sends a request upstream.
LEMMA OnlyAttempt ==
    ASSUME SlotInv, [Next]_vars, NEW r \in Requests,
           req[r].pc = "attempt", req'[r].pc = "upstream"
    PROVE  Attempt(r)
<1> DEFINE q == req[r]
<1>1. TypeOK /\ q \in Request /\ DOMAIN req = Requests
  BY DEF SlotInv, TypeOK
<1>r. ASSUME NEW s \in Requests, NEW token \in Tokens, Refreshed(s, token) PROVE FALSE
  <2>1. req'[r] = req[r] \/ req[r].pc \in {"refresh", "joined"}
    BY <1>1, <1>r, RefreshedForm
  <2>2. QED
    BY <2>1
<1>2. ASSUME NEW s \in Requests, Step(s), s # r PROVE FALSE
  <2>1. \E u : Put(s, u)
    BY <1>2, <1>r DEF Step, Planning, Attempting, Recording, Probe, ReleaseProbe,
       EmptyPlan, OrderPlan, Exhausted, Attempt, Lead, Join, Return, Throttle, Failure,
       ReadFails, Lockout, Success, Commit
  <2>2. req'[r] = req[r]
    BY <1>1, <1>2, <2>1 DEF Put
  <2>3. QED
    BY <2>2
<1>3. CASE Step(r)
  <2>1. ASSUME Exhausted(r) PROVE FALSE
    <3>1. NextAlias(q).pc # "upstream"
      BY <1>1, NextAliasType DEF TypeOK
    <3>2. req'[r] = NextAlias(q)
      BY <1>1, <2>1 DEF Exhausted, Put
    <3>3. QED
      BY <3>1, <3>2
  <2>2. QED
    BY <1>3, <1>r, <2>1 DEF Step, Planning, Attempting, Recording, Probe, ReleaseProbe,
       EmptyPlan, OrderPlan, Lead, Join, Return, Throttle, Failure, ReadFails, Lockout,
       Success, Commit
<1>4. ASSUME NEW s \in Requests, NEW m \in Asked, NEW k \in Sessions, Arrive(s, m, k)
      PROVE  FALSE
  <2>1. s # r
    BY <1>4 DEF Arrive
  <2>2. req'[r] = req[r]
    BY <1>1, <1>4, <2>1 DEF Arrive, Put
  <2>3. QED
    BY <2>2
<1>5. ASSUME NEW s \in Requests, Leave(s) PROVE FALSE
  <2>1. req'[r] = req[r] \/ req'[r] = [q EXCEPT !.gone = TRUE]
    BY <1>1, <1>5 DEF Leave, Put
  <2>2. [q EXCEPT !.gone = TRUE].pc = q.pc
    BY <1>1 DEF Request
  <2>3. QED
    BY <2>1, <2>2
<1>6. CASE Adopt \/ Tick \/ UNCHANGED vars
  BY <1>6 DEF Adopt, Tick, vars
<1>7. QED
  BY <1>2, <1>3, <1>4, <1>5, <1>6 DEF Next

LEMMA CapStep == SlotInv /\ [Next]_vars => AttemptCapStep
<1> SUFFICES ASSUME SlotInv, [Next]_vars, NEW r \in Requests,
                    req[r].pc = "attempt", req'[r].pc = "upstream",
                    req[r].plan[req[r].pos].cap > 0
             PROVE  Cardinality({s \in Requests : req'[s].pc \in InAdapter
                                   /\ req'[s].acct = req'[r].acct})
                      <= req[r].plan[req[r].pos].cap
  BY DEF AttemptCapStep
<1> DEFINE q == req[r]
           c == q.plan[q.pos]
           a == req'[r].acct
           up == {s \in Requests : req'[s].pc \in InAdapter /\ req'[s].acct = a}
           passed == [q EXCEPT !.pos = @ + 1]
           started == [q EXCEPT !.pc = "upstream", !.acct = c.acct]
<1>1. Attempt(r) /\ SlotInv'
  BY OnlyAttempt, SlotsNext
<1>2. q \in Request /\ TypeOK /\ q.pos <= Len(q.plan) /\ DOMAIN req = Requests
  BY <1>1 DEF Attempt, SlotInv, TypeOK
<1>3. c.acct \in Accounts /\ c.cap \in Nat
  BY <1>2, PlannedType
<1>4. \/ req'[r] = Ended(q, 0)
      \/ req'[r] = passed
      \/ /\ req'[r] = started /\ active' = Acquired(c.acct)
         /\ ~Saturated(c.acct, c.cap)
  BY <1>1, <1>2 DEF Attempt, Put
<1>5. Ended(q, 0).pc = "idle" /\ passed.pc = q.pc /\ started.acct = c.acct
  BY <1>2, EndedType DEF Request
<1>6. a = c.acct /\ active' = Acquired(c.acct) /\ ~Saturated(c.acct, c.cap)
  BY <1>4, <1>5
<1> HIDE DEF c, a, q
<1>7. PICK b \in Accounts : b = c.acct
  BY <1>3
<1>t. active \in [Accounts -> Nat]
  BY <1>2 DEF TypeOK
<1>8. active[b] < c.cap /\ active'[b] = active[b] + 1 /\ active[b] \in Nat
  <2>1. c.cap > 0
    BY DEF c, q
  <2> QED
    BY <1>3, <1>6, <1>7, <1>t, <2>1 DEF Saturated, Acquired
<1>9. active'[b] = Cardinality(SlotHolders(b)')
  BY <1>1 DEF SlotInv, SlotsExact
<1>10. up \in SUBSET (SlotHolders(b)') /\ SlotHolders(b)' \in SUBSET Requests
  BY <1>6, <1>7 DEF SlotHolders
<1> HIDE DEF up
<1>11. IsFiniteSet(SlotHolders(b)')
  BY <1>10, SetAssumption, FS_Subset
<1>12. Cardinality(up) <= Cardinality(SlotHolders(b)')
       /\ Cardinality(up) \in Nat
  BY <1>10, <1>11, FS_Subset, FS_CardinalityType
<1>13. Cardinality(up) <= c.cap
  BY <1>3, <1>8, <1>9, <1>12
<1>14. QED
  BY <1>13 DEF up, c, q, a

\* An attempt never starts on an account that already carries as many attempts
\* as the plan's copy of max_concurrency allows, however stale the plan is
\* (the TryAcquire of the loop of proxy.go).
THEOREM AttemptsAreCapped == Spec => AttemptCap
<1>1. SlotInv /\ [Next]_vars => [AttemptCapStep]_vars
  BY CapStep
<1>2. QED
  BY <1>1, TypeInit, SlotsInit, SlotsNext, PTL
     DEF Spec, SlotInv, AttemptCap, AttemptCapStep

-----------------------------------------------------------------------------
(* The circuit breaker *)

CircuitInv == TypeOK /\ TrippedIsOpen

LEMMA CircuitStep ==
    ASSUME CircuitInv, NEW r \in Requests, Step(r)
    PROVE  TrippedIsOpen'
<1> SUFFICES ASSUME CircuitFailures > 0, NEW b \in Accounts,
                    fails'[b] >= CircuitFailures
             PROVE  opened'[b] # Closed
  BY DEF TrippedIsOpen
<1>1. /\ fails \in [Accounts -> 0..MaxFails] /\ opened \in [Accounts -> Nat \cup {Closed}]
      /\ fails[b] >= CircuitFailures => opened[b] # Closed
      /\ CircuitFailures \in Nat /\ CircuitReset \in Nat /\ Closed = -1
  BY LimitAssumption DEF CircuitInv, TypeOK, TrippedIsOpen, Closed
<1>2. CASE Probe(r)
  <2>1. UNCHANGED <<opened, fails>> \/ \E a : CircuitOpenEffect(a)
    BY <1>2 DEF Probe
  <2>2. QED
    BY <1>1, <2>1 DEF CircuitOpenEffect
<1>3. CASE Failure(r)
  <2>1. FailureEffect(req[r].acct)
    BY <1>3 DEF Failure
  <2>2. req[r].acct \in Accounts
    BY <1>3 DEF Failure, CircuitInv, TypeOK, Placed, InAdapter
  <2>3. QED
    BY <1>1, <2>1, <2>2 DEF FailureEffect
<1>4. CASE Success(r)
  <2>1. fails' = [fails EXCEPT ![req[r].acct] = 0] /\ opened' = opened
    BY <1>4 DEF Success
  <2>2. QED
    BY <1>1, <2>1
<1>5. CASE UNCHANGED <<opened, fails>>
  BY <1>1, <1>5
<1>6. QED
  BY <1>2, <1>3, <1>4, <1>5 DEF Step, Planning, Attempting, Recording,
     ReleaseProbe, EmptyPlan, OrderPlan, Exhausted, Attempt, Lead, Join, Refreshed,
     Return, Throttle,
     ReadFails, Lockout, Commit, health

LEMMA CircuitNext == CircuitInv /\ [Next]_vars => CircuitInv'
<1> SUFFICES ASSUME CircuitInv, [Next]_vars PROVE TrippedIsOpen'
  BY TypeNext DEF CircuitInv
<1>1. ASSUME UNCHANGED <<opened, fails>> PROVE TrippedIsOpen'
  BY <1>1 DEF CircuitInv, TrippedIsOpen
<1>2. CASE Tick
  <2>1. \A a \in Accounts : opened'[a] = Down(opened[a]) /\ fails' = fails
    BY <1>2 DEF Tick
  <2>2. \A n \in Nat \cup {Closed} : n # Closed => Down(n) # Closed
    BY DEF Down, Closed
  <2>3. QED
    BY <2>1, <2>2 DEF CircuitInv, TypeOK, TrippedIsOpen
<1>3. QED
  BY <1>1, <1>2, CircuitStep DEF Next, Arrive, Leave, Adopt, vars, health

\* An account whose consecutive failures reached the threshold has an open
\* circuit, although Failure, Success and CircuitOpen interleave freely
\* (state.go): no order of them leaves a tripped account in rotation.
THEOREM TrippedStaysOpen == Spec => []TrippedIsOpen
<1>1. Init => CircuitInv
  <2>1. Init => TrippedIsOpen
    BY LimitAssumption DEF Init, TrippedIsOpen
  <2>2. QED
    BY <2>1, TypeInit DEF CircuitInv
<1>2. QED
  BY <1>1, CircuitNext, PTL DEF Spec, CircuitInv
-----------------------------------------------------------------------------
(* One answer per request *)

\* What makes NoRetryAfterCommit and AnsweredOrCut inductive: how many responses
\* a request has sent at each point of the loop, and that the error of a context
\* is its own or marks it.
Accounted(q) ==
    /\ q.pc \notin {"idle", "record", "commit"} => q.answers = 0
    /\ q.pc = "record" => q.answers = IF q.outcome = "served" THEN 1 ELSE 0
    /\ q.pc = "commit" => q.answers = 1
    /\ q.pc = "idle" => q.answers <= 1
    /\ q.pc = "idle" => q.answers = 1 \/ q.gone \/ q.cut
    /\ q.pc # "upstream" => q.token = "ok"
    /\ q.token = "canceled" => q.gone \/ q.cut
AnswerInv == \A r \in Requests : Accounted(req[r])

LEMMA PutAccounted ==
    ASSUME TypeOK, AnswerInv, NEW r \in Requests, NEW q, Accounted(q), Put(r, q)
    PROVE  AnswerInv'
  BY DEF TypeOK, AnswerInv, Put

\* The loop goes on and has sent nothing.
LEMMA GoesOnAccounted ==
    ASSUME TypeOK, AnswerInv, NEW r \in Requests, NEW q, Put(r, q), q.answers = 0,
           q.token = "ok",
           q.pc \in {"scan", "probed", "attempt", "counted", "locking"} \cup InAdapter
    PROVE  AnswerInv'
<1>1. Accounted(q)
  BY DEF Accounted, InAdapter
<1>2. QED
  BY <1>1, PutAccounted

\* The end of a request, by the responses it has sent.
LEMMA EndedAccounted ==
    ASSUME NEW q \in Request, NEW n \in Nat, q.answers + n <= 1,
           q.answers + n = 1 \/ q.gone \/ q.cut
    PROVE  Accounted(Ended(q, n))
<1>1. Idle \in Request /\ Idle.pc = "idle" /\ Idle.token = "ok"
  BY IdleType DEF Idle, NewRequest
<1>2. /\ Ended(q, n).pc = "idle" /\ Ended(q, n).gone = q.gone
      /\ Ended(q, n).answers = q.answers + n
      /\ Ended(q, n).cut = q.cut /\ Ended(q, n).token = "ok"
  BY <1>1 DEF Ended, Request
<1>3. q.answers + n \in Nat
  BY DEF Request
<1>4. QED
  BY <1>2, <1>3 DEF Accounted

LEMMA NextAliasAccounted ==
    ASSUME NEW q \in Request, q.answers = 0, q.token = "ok"
    PROVE  Accounted(NextAlias(q))
<1>1. CASE HasNext(q)
  <2>1. /\ NextAlias(q).pc = "scan" /\ NextAlias(q).answers = q.answers
        /\ NextAlias(q).token = q.token
    BY <1>1 DEF NextAlias, Request
  <2>2. QED
    BY <2>1 DEF Accounted
<1>2. CASE ~HasNext(q) /\ q.gone
  BY <1>2, EndedAccounted DEF NextAlias
<1>3. CASE ~HasNext(q) /\ ~q.gone
  BY <1>3, EndedAccounted DEF NextAlias
<1>4. QED
  BY <1>1, <1>2, <1>3

LEMMA OrderPlanAccounted ==
    ASSUME TypeOK, AnswerInv, NEW r \in Requests, OrderPlan(r)
    PROVE  AnswerInv'
<1> DEFINE q == req[r]
           m == Current(q)
           u(order) == [q EXCEPT !.pc = "attempt", !.plan = Limited(m, order),
                                 !.scan = 1, !.view = NoView]
<1>1. q \in Request /\ q.answers = 0 /\ q.token = "ok"
  <2>1. q.pc = "scan"
    BY DEF OrderPlan
  <2>2. q \in Request /\ Accounted(q)
    BY DEF TypeOK, AnswerInv
  <2>3. QED
    BY <2>1, <2>2 DEF Accounted
<1>2. PICK order \in Orders(m, q.session, q.plan) : Put(r, u(order))
  BY DEF OrderPlan
<1>3. u(order).pc = "attempt" /\ u(order).answers = 0 /\ u(order).token = "ok"
  BY <1>1 DEF Request
<1> HIDE DEF u
<1>4. QED
  BY <1>2, <1>3, GoesOnAccounted

LEMMA PlanningAccounted ==
    ASSUME TypeOK, AnswerInv, NEW r \in Requests, Planning(r)
    PROVE  AnswerInv'
<1> DEFINE q == req[r]
<1>1. /\ q \in Request /\ q.pc \in {"scan", "probed"}
      /\ q.answers = 0 /\ q.token = "ok"
  <2>1. q \in Request /\ Accounted(q)
    BY DEF TypeOK, AnswerInv
  <2>2. q.pc \in {"scan", "probed"}
    <3>1. Probe(r) => q.pc = "scan"
      BY DEF Probe
    <3>2. ReleaseProbe(r) => q.pc = "probed"
      BY DEF ReleaseProbe
    <3>3. EmptyPlan(r) => q.pc = "scan"
      BY DEF EmptyPlan
    <3>4. OrderPlan(r) => q.pc = "scan"
      BY DEF OrderPlan
    <3>5. QED
      BY <3>1, <3>2, <3>3, <3>4 DEF Planning
  <2>3. QED
    BY <2>1, <2>2 DEF Accounted
<1>2. CASE EmptyPlan(r)
  <2>1. Put(r, Ended(q, 1)) \/ Put(r, NextAlias(q))
    BY <1>2 DEF EmptyPlan
  <2>2. Accounted(Ended(q, 1)) /\ Accounted(NextAlias(q))
    BY <1>1, EndedAccounted, NextAliasAccounted
  <2>3. QED
    BY <2>1, <2>2, PutAccounted
<1>3. CASE Probe(r)
  <2> DEFINE a == AccountsOf[Current(q)][q.scan]
             found == [q EXCEPT !.pc = "probed", !.acct = a]
             next == [q EXCEPT !.scan = @ + 1]
  <2>1. q.pc = "scan" /\ (Put(r, found) \/ Put(r, next))
    BY <1>3 DEF Probe
  <2>2. /\ found.pc = "probed" /\ found.answers = 0 /\ found.token = "ok"
        /\ next.pc = "scan" /\ next.answers = 0 /\ next.token = "ok"
    BY <1>1, <2>1 DEF Request
  <2> HIDE DEF found, next
  <2>3. QED
    BY <2>1, <2>2, GoesOnAccounted
<1>4. CASE ReleaseProbe(r)
  <2> DEFINE c == [acct |-> q.acct, cap |-> q.view[q.acct].maxConcurrency]
             u == [q EXCEPT !.pc = "scan", !.scan = @ + 1, !.acct = NoAccount,
                            !.plan = Append(@, c)]
  <2>1. Put(r, u)
    BY <1>4 DEF ReleaseProbe
  <2>2. u.pc = "scan" /\ u.answers = 0 /\ u.token = "ok"
    BY <1>1 DEF Request
  <2> HIDE DEF u
  <2>3. QED
    BY <2>1, <2>2, GoesOnAccounted
<1>5. CASE OrderPlan(r)
  BY <1>5, OrderPlanAccounted
<1>6. QED
  BY <1>2, <1>3, <1>4, <1>5 DEF Planning

\* The end of a refresh hands the error of its context to a request that is
\* gone or is marked as cut.
LEMMA RefreshedAccounted ==
    ASSUME TypeOK, AnswerInv, NEW r \in Requests, NEW token \in Tokens, Refreshed(r, token)
    PROVE  AnswerInv'
<1> SUFFICES ASSUME NEW s \in Requests PROVE Accounted(req'[s])
  BY DEF AnswerInv
<1>1. Accounted(req[s]) /\ req[s] \in Request
  BY DEF AnswerInv, TypeOK
<1>2. CASE req'[s] = req[s]
  BY <1>1, <1>2
<1>3. CASE req[s].pc \in {"refresh", "joined"} /\ req'[s] = Refreshes(r, token, s)
  <2>1. req[s].answers = 0
    BY <1>1, <1>3 DEF Accounted
  <2>2. token = "canceled" => Refreshes(r, token, s).gone \/ Refreshes(r, token, s).cut
    BY RefreshesType
  <2>3. QED
    BY <1>3, <2>1, <2>2, RefreshesType DEF Accounted
<1>4. QED
  BY <1>2, <1>3, RefreshedForm

\* An attempt that ends without a response is gone or cut.
LEMMA ReturnAccounted ==
    ASSUME TypeOK, AnswerInv, NEW r \in Requests, NEW outcome \in Outcomes,
           Return(r, outcome)
    PROVE  AnswerInv'
<1> DEFINE q == req[r]
           n == IF outcome = "served" THEN 1 ELSE 0
           w == Silent(q, outcome)
<1>1. q \in Request /\ Accounted(q) /\ q.pc = "upstream" /\ outcome \in Ends(q)
  BY DEF TypeOK, AnswerInv, Return
<1>2. q.answers = 0 /\ n \in Nat /\ n <= 1
  BY <1>1 DEF Accounted
<1>3. w \in Request /\ w.gone = q.gone /\ w.answers = 0 /\ (q.cut => w.cut)
  BY <1>1, <1>2, SilentType
<1>4. CASE q.gone \/ outcome = "canceled"
  <2>1. Put(r, Ended(w, n))
    BY <1>4 DEF Return, Silent
  <2>2. w.gone \/ w.cut
    <3>1. CASE q.gone
      BY <1>3, <3>1
    <3>2. CASE ~q.gone /\ outcome = "canceled" /\ q.token = "ok"
      BY <1>1, <3>2, SilentType
    <3>3. CASE ~q.gone /\ outcome = "canceled" /\ q.token # "ok"
      <4>1. q.token = "canceled"
        BY <1>1, <3>3 DEF Ends, Request, Tokens
      <4>2. QED
        BY <1>1, <1>3, <3>3, <4>1 DEF Accounted
    <3>4. QED
      BY <1>4, <3>1, <3>2, <3>3
  <2> HIDE DEF w, n
  <2>3. Accounted(Ended(w, n))
    BY <1>2, <1>3, <2>2, EndedAccounted
  <2>4. QED
    BY <2>1, <2>3, PutAccounted
<1>5. CASE ~(q.gone \/ outcome = "canceled")
  <2>1. Put(r, Counted(q, outcome, n))
    BY <1>5 DEF Return, Counted
  <2>2. Accounted(Counted(q, outcome, n))
    BY <1>1, <1>2, CountedType DEF Accounted
  <2>3. QED
    BY <2>1, <2>2, PutAccounted
<1>6. QED
  BY <1>4, <1>5

LEMMA AttemptingAccounted ==
    ASSUME TypeOK, AnswerInv, NEW r \in Requests, Attempting(r)
    PROVE  AnswerInv'
<1> DEFINE q == req[r]
<1>1. q \in Request /\ Accounted(q)
  BY DEF TypeOK, AnswerInv
<1>2. CASE Exhausted(r)
  <2>1. Put(r, NextAlias(q)) /\ q.pc = "attempt"
    BY <1>2 DEF Exhausted
  <2>2. q.answers = 0 /\ q.token = "ok"
    BY <1>1, <2>1 DEF Accounted
  <2>3. QED
    BY <1>1, <2>1, <2>2, NextAliasAccounted, PutAccounted
<1>3. CASE Attempt(r)
  <2> DEFINE next == [q EXCEPT !.pos = @ + 1]
             sent == [q EXCEPT !.pc = "upstream", !.acct = q.plan[q.pos].acct]
  <2>1. /\ q.pc = "attempt"
        /\ (q.gone /\ Put(r, Ended(q, 0))) \/ Put(r, next) \/ Put(r, sent)
    BY <1>3 DEF Attempt
  <2>2. q.answers = 0 /\ q.token = "ok"
    BY <1>1, <2>1 DEF Accounted
  <2>3. /\ next.pc = "attempt" /\ next.answers = 0 /\ next.token = "ok"
        /\ sent.pc = "upstream" /\ sent.answers = 0 /\ sent.token = "ok"
    BY <1>1, <2>1, <2>2 DEF Request
  <2> HIDE DEF next, sent
  <2>4. q.gone => Accounted(Ended(q, 0))
    BY <1>1, <2>2, EndedAccounted
  <2>5. QED
    BY <2>1, <2>3, <2>4, PutAccounted, GoesOnAccounted DEF InAdapter
<1>4. CASE Lead(r) \/ \E l \in Requests : Join(r, l)
  <2>1. PICK l \in Requests : Put(r, Leading(q)) \/ Put(r, Joined(q, l))
    BY <1>4, TokenCallForm
  <2>2. q.answers = 0 /\ q.token = "ok" /\ q.calls < TokenCalls
    BY <1>1, <1>4, TokenCallForm DEF Accounted
  <2>3. QED
    BY <1>1, <2>1, <2>2, TokenCallType, GoesOnAccounted DEF InAdapter
<1>5. QED
  BY <1>2, <1>3, <1>4, RefreshedAccounted, ReturnAccounted DEF Attempting

LEMMA RecordingAccounted ==
    ASSUME TypeOK, AnswerInv, NEW r \in Requests, Recording(r)
    PROVE  AnswerInv'
<1> DEFINE q == req[r]
<1>1. q \in Request /\ Accounted(q)
  BY DEF TypeOK, AnswerInv
<1>2. CASE Commit(r)
  <2>1. Put(r, Ended(q, 0)) /\ q.answers = 1
    BY <1>1, <1>2 DEF Commit, Accounted
  <2>2. QED
    BY <1>1, <2>1, EndedAccounted, PutAccounted
<1>3. CASE Success(r)
  <2> DEFINE u == [q EXCEPT !.pc = "commit"]
  <2>1. Put(r, u) /\ q.answers = 1 /\ q.token = "ok"
    BY <1>1, <1>3 DEF Success, Accounted
  <2>2. u.pc = "commit" /\ u.answers = 1 /\ u.token = "ok"
    BY <1>1, <2>1 DEF Request
  <2>3. Accounted(u)
    BY <2>2 DEF Accounted
  <2>4. QED
    BY <2>1, <2>3, PutAccounted
<1>4. CASE Throttle(r) \/ Failure(r) \/ ReadFails(r) \/ Lockout(r)
  <2>1. q.answers = 0 /\ q.token = "ok"
    BY <1>1, <1>4 DEF Throttle, Failure, ReadFails, Lockout, Accounted
  <2> DEFINE u(pc) == [q EXCEPT !.pc = pc]
  <2>2. \/ Put(r, Advanced(q)) \/ Put(r, u("counted")) \/ Put(r, u("locking"))
    BY <1>4 DEF Throttle, Failure, ReadFails, Lockout
  <2>3. /\ Advanced(q).pc = "attempt" /\ Advanced(q).answers = 0
        /\ Advanced(q).token = "ok"
        /\ \A pc \in {"counted", "locking"} :
             u(pc).pc = pc /\ u(pc).answers = 0 /\ u(pc).token = "ok"
    BY <1>1, <2>1 DEF Advanced, Request
  <2> HIDE DEF u
  <2>4. QED
    BY <2>2, <2>3, GoesOnAccounted
<1>5. QED
  BY <1>2, <1>3, <1>4 DEF Recording

LEMMA AnswerNext == TypeOK /\ AnswerInv /\ [Next]_vars => AnswerInv'
<1> SUFFICES ASSUME TypeOK, AnswerInv, [Next]_vars PROVE AnswerInv'
  OBVIOUS
<1>1. ASSUME NEW r \in Requests, NEW m \in Asked, NEW s \in Sessions, Arrive(r, m, s)
      PROVE  AnswerInv'
  <2>1. PICK u : Put(r, u) /\ u.pc = "scan" /\ u.answers = 0 /\ u.token = "ok"
    BY <1>1 DEF Arrive, NewRequest
  <2>2. Accounted(u)
    BY <2>1 DEF Accounted
  <2>3. QED
    BY <2>1, <2>2, PutAccounted
<1>2. ASSUME NEW r \in Requests, Leave(r)
      PROVE  AnswerInv'
  <2> DEFINE u == [req[r] EXCEPT !.gone = TRUE]
  <2>1. req[r] \in Request /\ Accounted(req[r]) /\ req[r].pc # "idle" /\ Put(r, u)
    BY <1>2 DEF TypeOK, AnswerInv, Leave
  <2>2. /\ u.pc = req[r].pc /\ u.answers = req[r].answers /\ u.outcome = req[r].outcome
        /\ u.token = req[r].token /\ u.gone
    BY <2>1 DEF Request
  <2>3. Accounted(u)
    BY <2>1, <2>2 DEF Accounted
  <2>4. QED
    BY <2>1, <2>3, PutAccounted
<1>3. CASE Adopt \/ Tick \/ UNCHANGED vars
  BY <1>3 DEF Adopt, Tick, vars, AnswerInv
<1>4. QED
  BY <1>1, <1>2, <1>3, PlanningAccounted, AttemptingAccounted, RecordingAccounted
     DEF Next, Step

LEMMA AnswerInvariant == Spec => []AnswerInv
<1>1. Init => AnswerInv
  <2>1. Idle.pc = "idle" /\ Idle.answers = 1 /\ Idle.token = "ok"
    BY DEF Idle, NewRequest
  <2>2. QED
    BY <2>1 DEF Init, AnswerInv, Accounted
<1>2. QED
  BY <1>1, AnswerNext, TypeCorrect, PTL DEF Spec

\* After the first client-visible byte no other account is tried and no second
\* response is sent, for any plans, fallback chains and disconnects.
THEOREM CommittedIsFinal == Spec => []NoRetryAfterCommit
<1>1. TypeOK /\ AnswerInv => NoRetryAfterCommit
  BY DEF TypeOK, AnswerInv, Accounted, NoRetryAfterCommit
<1>2. QED
  BY <1>1, TypeCorrect, AnswerInvariant, PTL

\* Every request ends with a response unless its client left or its last attempt
\* failed with the error of a context, for any accounts, fallback graph and
\* sharing of refreshes: the loop has no third way to return silently.
THEOREM EveryoneIsAnswered == Spec => []AnsweredOrCut
<1>1. AnswerInv => AnsweredOrCut
  BY DEF AnswerInv, Accounted, AnsweredOrCut
<1>2. QED
  BY <1>1, AnswerInvariant, PTL
=============================================================================
