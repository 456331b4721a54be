--------------------------- MODULE TenantsProofs ---------------------------
(***************************************************************************)
(* Proofs about tenants and their prepaid money, for any number of users,  *)
(* payments, requests and handlers, and for any amounts.                   *)
(***************************************************************************)
EXTENDS Tenants, FiniteSetTheorems, TLAPS

\* A set of events is finite and has a number of elements.
LEMMA Countable ==
  ASSUME NEW S \in SUBSET Events
  PROVE  IsFiniteSet(S) /\ Cardinality(S) \in Nat
BY PartiesAssumption, FS_Subset, FS_CardinalityType

\* A larger set of events costs at least as much.
LEMMA CostGrows ==
  ASSUME NEW T \in SUBSET Events, NEW S \in SUBSET T
  PROVE  /\ Cost * Cardinality(S) \in Nat /\ Cost * Cardinality(T) \in Nat
         /\ Cost * Cardinality(S) <= Cost * Cardinality(T)
<1>1. IsFiniteSet(T) /\ Cardinality(T) \in Nat /\ Cardinality(S) \in Nat
  BY Countable
<1>2. Cardinality(S) <= Cardinality(T)
  BY <1>1, FS_Subset
<1>3. \A a, b, c \in Nat : a <= b => c * a \in Nat /\ c * b \in Nat /\ c * a <= c * b
  OBVIOUS
<1> QED
  BY <1>1, <1>2, <1>3, AmountsAssumption

\* Two sets of events without a common element cost what both cost.
LEMMA CostAdds ==
  ASSUME NEW S \in SUBSET Events, NEW T \in SUBSET Events, S \cap T = {}
  PROVE  Cost * Cardinality(S \cup T) = Cost * Cardinality(S) + Cost * Cardinality(T)
<1>1. IsFiniteSet(S) /\ IsFiniteSet(T) /\ Cardinality(S) \in Nat /\ Cardinality(T) \in Nat
  BY Countable
<1>2. Cardinality(S \cup T) = Cardinality(S) + Cardinality(T)
  <2>1. Cardinality(S \cup T) = Cardinality(S) + Cardinality(T) - Cardinality(S \cap T)
    BY <1>1, FS_Union
  <2>2. Cardinality(S \cap T) = 0
    BY FS_EmptySet
  <2> QED
    BY <1>1, <2>1, <2>2
<1>3. \A a, b, c \in Nat : c * (a + b) = c * a + c * b
  OBVIOUS
<1> QED
  BY <1>1, <1>2, <1>3, AmountsAssumption

\* The requests a team may ever be charged for: made with a key it has or had.
Billed(u) == {e \in Events : /\ event[e].at \in {"kept", "old", "purged"}
                             /\ event[e].success /\ u \in owners[KeyOf[e]]}

\* The requests of a batch a team is charged for.
New(u, B) == {e \in Fresh(B) : event[e].success /\ SpenderOf(e) = u}

LEMMA AmountTypes ==
  ASSUME NEW u \in Users
  PROVE  /\ Spent(u) \in Nat
         /\ Cost * Cardinality(Kept(u)) \in Nat
         /\ \A B \in SUBSET Events : Charge(u, B) \in Nat
<1>1. Billed(u) \in SUBSET Events /\ Kept(u) \in SUBSET Events
  BY DEF Billed, Kept
<1>2. Spent(u) = Cost * Cardinality(Billed(u))
  BY DEF Spent, Billed
<1>3. ASSUME NEW B \in SUBSET Events PROVE Charge(u, B) \in Nat
  <2>1. New(u, B) \in SUBSET Events
    BY DEF New, Fresh
  <2>2. Charge(u, B) = Cost * Cardinality(New(u, B))
    BY DEF Charge, New
  <2> QED
    BY <2>1, <2>2, CostGrows
<1> QED
  BY <1>1, <1>2, <1>3, CostGrows

\* The team a key is in is among those it ever was in.
Owned == \A k \in Keys : teamOf[k] # NoUser => teamOf[k] \in owners[k]

LEMMA OwnerKnown ==
  ASSUME Owned, NEW u \in Users, NEW e \in Events, SpenderOf(e) = u
  PROVE  u \in owners[KeyOf[e]]
BY PartiesAssumption DEF Owned, SpenderOf

\* What a reconcile subtracts is part of what the team may be charged for.
LEMMA KeptIsBilled ==
  ASSUME Owned, NEW u \in Users
  PROVE  Cost * Cardinality(Kept(u)) <= Spent(u)
<1>1. Billed(u) \in SUBSET Events /\ Kept(u) \in SUBSET Billed(u)
  BY OwnerKnown DEF Billed, Kept
<1>2. Spent(u) = Cost * Cardinality(Billed(u))
  BY DEF Spent, Billed
<1> QED
  BY <1>1, <1>2, CostGrows

-----------------------------------------------------------------------------
(* Types. *)

LEMMA InitType == Init => TypeOK
BY AmountsAssumption DEF Init, TypeOK, States, Stages, Places, Idle, NoSums, NoReconcile

\* The bookkeeping of a credit keeps its types.
LEMMA CreditType ==
  ASSUME TypeOK, NEW u \in Users, NEW delta \in Int, Credit(u, delta)
  PROVE  /\ ledger' \in [Users -> Int] /\ balance' \in [Users -> Int]
         /\ rec' \in [on : BOOLEAN, rows : SUBSET Users, computed : [Users -> Int],
                      late : [Users -> Nat]]
<1>1. ledger' \in [Users -> Int] /\ balance' \in [Users -> Int]
  BY DEF TypeOK, Credit
<1>2. CASE rec.on /\ delta > 0
  <2>1. rec' = [rec EXCEPT !.late = [rec.late EXCEPT ![u] = @ + delta]]
    BY <1>2 DEF Credit
  <2>2. [rec.late EXCEPT ![u] = @ + delta] \in [Users -> Nat]
    BY <1>2 DEF TypeOK
  <2> QED
    BY <1>1, <2>1, <2>2 DEF TypeOK
<1>3. CASE ~(rec.on /\ delta > 0)
  BY <1>1, <1>3 DEF TypeOK, Credit
<1> QED
  BY <1>2, <1>3

\* A request's record keeps its type wherever it moves.
LEMMA MoveType ==
  ASSUME TypeOK, NEW h \in Handlers, NEW at \in Stages, NEW u \in Users,
         Move(h, at, u)
  PROVE  /\ req' \in [Handlers -> [at : Stages, user : Users \cup {NoUser}]]
         /\ \A i \in Handlers : req'[i].at # "idle" => req'[i].user \in Users
BY DEF TypeOK, Move, Stages

LEMMA FinishType ==
  ASSUME TypeOK, NEW h \in Handlers, Finish(h)
  PROVE  /\ req' \in [Handlers -> [at : Stages, user : Users \cup {NoUser}]]
         /\ \A i \in Handlers : req'[i].at # "idle" => req'[i].user \in Users
BY DEF TypeOK, Finish, Idle, Stages

LEMMA HandleType ==
  ASSUME TypeOK, NEW h \in Handlers, Handle(h)
  PROVE  TypeOK'
<1> USE DEF vars, accounts, money, keys
<1>1. ASSUME NEW u \in Users, SignupLooks(h, u) PROVE TypeOK'
  <2>1. "absent" \in Stages
    BY DEF Stages
  <2> QED
    BY <1>1, <2>1, MoveType DEF SignupLooks, TypeOK
<1>2. ASSUME NEW u \in Users, VerifyLooks(h, u) PROVE TypeOK'
  <2>1. "verifying" \in Stages
    BY DEF Stages
  <2> QED
    BY <1>2, <2>1, MoveType DEF VerifyLooks, TypeOK
<1>3. CASE SignupInserts(h)
  <2>1. "created" \in Stages /\ req[h].user \in Users
    BY <1>3 DEF Stages, SignupInserts, TypeOK
  <2> QED
    BY <1>3, <2>1, MoveType, FinishType DEF SignupInserts, TypeOK, States
<1>4. CASE issueVerificationToken(h)
  BY <1>4, FinishType DEF issueVerificationToken, TypeOK
<1>5. CASE VerifyCommits(h)
  <2>1. req[h].user \in Users
    BY <1>5 DEF VerifyCommits, TypeOK
  <2>2. CASE Conflict(req[h].user)
    BY <1>5, <2>1, <2>2, FinishType DEF VerifyCommits, TypeOK
  <2>3. CASE ~Conflict(req[h].user)
    <3> DEFINE u == req[h].user
    <3>1. /\ user' = [user EXCEPT ![u] = "verified"]
          /\ token' = [token EXCEPT ![u] = "none"]
          /\ teams' = teams \cup {u}
          /\ balance' = [balance EXCEPT ![u] = Bonus]
          /\ ledger' = [ledger EXCEPT ![u] = @ + Bonus]
          /\ granted' = [granted EXCEPT ![u] = @ + (IF Bonus > 0 THEN 1 ELSE 0)]
      BY <1>5, <2>3 DEF VerifyCommits
    <3>2. /\ user' \in [Users -> States] /\ token' \in [Users -> {"none", "live", "lapsed"}]
          /\ teams' \in SUBSET Users
      BY <2>1, <3>1 DEF TypeOK, States
    <3>3. /\ balance' \in [Users -> Int] /\ ledger' \in [Users -> Int]
          /\ granted' \in [Users \cup Payments -> Nat]
      BY <2>1, <3>1, AmountsAssumption DEF TypeOK
    <3> QED
      BY <1>5, <3>2, <3>3, FinishType DEF VerifyCommits, TypeOK
  <2> QED
    BY <2>2, <2>3
<1>6. CASE Dies(h)
  BY <1>6, FinishType DEF Dies, TypeOK
<1> QED
  BY <1>1, <1>2, <1>3, <1>4, <1>5, <1>6 DEF Handle

LEMMA TelemetryType ==
  ASSUME TypeOK, Telemetry
  PROVE  TypeOK'
<1> USE DEF vars, accounts, money, keys
<1>1. ASSUME NEW e \in Events, Ages(e) PROVE TypeOK'
  BY <1>1 DEF Ages, TypeOK, Places
<1>2. ASSUME NEW e \in Events, NEW success \in BOOLEAN, Record(e, success) PROVE TypeOK'
  BY <1>2 DEF Record, TypeOK, Places
<1>3. ASSUME NEW B \in SUBSET Events, BatchLost(B) PROVE TypeOK'
  BY <1>3 DEF BatchLost, Put, TypeOK, Places
<1>4. ASSUME NEW B \in SUBSET Events, storeRequestEvents(B) PROVE TypeOK'
  <2>1. event' \in [Events -> [at : Places, success : BOOLEAN]]
    BY <1>4 DEF storeRequestEvents, TypeOK, Places
  <2>2. balance' \in [Users -> Int]
    BY <1>4, AmountTypes DEF storeRequestEvents, TypeOK
  <2> QED
    BY <1>4, <2>1, <2>2 DEF storeRequestEvents, TypeOK
<1> QED
  BY <1>1, <1>2, <1>3, <1>4 DEF Telemetry

LEMMA TypeStep == TypeOK /\ [Next]_vars => TypeOK'
<1> SUFFICES ASSUME TypeOK, [Next]_vars PROVE TypeOK'
  OBVIOUS
<1> USE DEF vars, accounts, money, keys
<1>1. ASSUME NEW h \in Handlers, Handle(h) PROVE TypeOK'
  BY <1>1, HandleType
<1>2. ASSUME NEW u \in Users, TokenLapses(u) PROVE TypeOK'
  BY <1>2 DEF TokenLapses, TypeOK
<1>3. ASSUME NEW u \in Users, findOrCreateOidcUser(u) PROVE TypeOK'
  BY <1>3 DEF findOrCreateOidcUser, TypeOK, States
<1>4. ASSUME NEW u \in Users, NEW delta \in Adjustments, Adjust(u, delta) PROVE TypeOK'
  <2>1. delta \in Int
    BY AmountsAssumption
  <2> QED
    BY <1>4, <2>1, CreditType DEF Adjust, TypeOK
<1>5. ASSUME NEW p \in Payments, paddleWebhookCore(p) PROVE TypeOK'
  <2>1. PayerOf[p] \in Users /\ Topup \in Int
    BY AmountsAssumption, PartiesAssumption
  <2> QED
    BY <1>5, <2>1, CreditType DEF paddleWebhookCore, TypeOK
<1>k. ASSUME NEW k \in Keys, NEW t \in Users \cup {NoUser}, PatchKey(k, t) PROVE TypeOK'
  <2>1. owners' \in [Keys -> SUBSET Users]
    BY <1>k DEF PatchKey, TypeOK
  <2> QED
    BY <1>k, <2>1 DEF PatchKey, TypeOK
<1>6. CASE Telemetry
  BY <1>6, TelemetryType
<1>7. CASE ReconcileSums
  <2>1. \A u \in Users : Due(u) \in Int
    BY AmountTypes DEF Due, TypeOK
  <2>2. NoSums \in [Users -> Nat]
    BY DEF NoSums
  <2> QED
    BY <1>7, <2>1, <2>2 DEF ReconcileSums, TypeOK
<1>8. CASE ReconcileWrites
  <2>1. NoReconcile \in [on : BOOLEAN, rows : SUBSET Users, computed : [Users -> Int],
                         late : [Users -> Nat]]
    BY DEF NoReconcile, NoSums
  <2>2. balance' \in [Users -> Int] /\ missed' \in [Users -> Nat]
    BY <1>8 DEF ReconcileWrites, TypeOK
  <2> QED
    BY <1>8, <2>1, <2>2 DEF ReconcileWrites, TypeOK
<1>9. CASE ReconcileFails
  BY <1>9 DEF ReconcileFails, NoReconcile, NoSums, TypeOK
<1>10. CASE UNCHANGED vars
  BY <1>10 DEF TypeOK
<1> QED
  BY <1>1, <1>2, <1>3, <1>4, <1>5, <1>6, <1>7, <1>8, <1>9, <1>10, <1>k DEF Next

\* Every variable of the tenants' model keeps its type, for every number of
\* users, payments and events: the tables of cloud-auth.ts, webhooks.ts,
\* request-events.ts and balance.ts hold what they may hold.
THEOREM TypeCorrect == Spec => []TypeOK
<1>1. Init => TypeOK
  BY InitType
<1>2. TypeOK /\ [Next]_vars => TypeOK'
  BY TypeStep
<1> QED
  BY <1>1, <1>2, PTL DEF Spec

-----------------------------------------------------------------------------
(* Every credit once. *)

\* A reconcile writes only teams there are.
SelectedExist == rec.rows \subseteq teams

CreditInv == TypeOK /\ CreditedOnce /\ SelectedExist

LEMMA InitCredit == Init => CreditInv
<1>1. Init => CreditedOnce /\ SelectedExist
  BY DEF Init, CreditedOnce, SelectedExist, NoSums, NoReconcile
<1> QED
  BY <1>1, InitType DEF CreditInv

\* A step that touches neither money nor reconcile keeps the invariant, as long
\* as nobody verified is forgotten.
LEMMA CreditSame ==
  ASSUME CreditInv, UNCHANGED <<money, rec>>,
         \A u \in Users : user[u] = "verified" => user'[u] = "verified"
  PROVE  CreditedOnce' /\ SelectedExist'
BY DEF CreditInv, CreditedOnce, SelectedExist, money

LEMMA HandleCredit ==
  ASSUME CreditInv, NEW h \in Handlers, Handle(h)
  PROVE  CreditedOnce' /\ SelectedExist'
<1> USE DEF accounts, money, keys
<1>0. TypeOK
  BY DEF CreditInv
<1>1. ASSUME NEW u \in Users, SignupLooks(h, u) PROVE CreditedOnce' /\ SelectedExist'
  BY <1>1, CreditSame DEF SignupLooks
<1>2. ASSUME NEW u \in Users, VerifyLooks(h, u) PROVE CreditedOnce' /\ SelectedExist'
  BY <1>2, CreditSame DEF VerifyLooks
<1>3. CASE SignupInserts(h)
  <2>1. \A u \in Users : user[u] = "verified" => user'[u] = "verified"
    BY <1>0, <1>3 DEF SignupInserts, TypeOK
  <2> QED
    BY <1>3, <2>1, CreditSame DEF SignupInserts
<1>4. CASE issueVerificationToken(h)
  BY <1>4, CreditSame DEF issueVerificationToken
<1>5. CASE VerifyCommits(h)
  <2> DEFINE u == req[h].user
  <2>1. u \in Users
    BY <1>0, <1>5 DEF VerifyCommits, TypeOK
  <2>2. CASE Conflict(u)
    BY <1>5, <2>2, CreditSame DEF VerifyCommits
  <2>3. CASE ~Conflict(u)
    <3>1. /\ user' = [user EXCEPT ![u] = "verified"]
          /\ teams' = teams \cup {u}
          /\ balance' = [balance EXCEPT ![u] = Bonus]
          /\ ledger' = [ledger EXCEPT ![u] = @ + Bonus]
          /\ granted' = [granted EXCEPT ![u] = @ + (IF Bonus > 0 THEN 1 ELSE 0)]
          /\ rec' = rec
      BY <1>5, <2>3 DEF VerifyCommits
    <3>2. granted[u] = 0
      BY <2>1, <2>3 DEF Conflict, CreditInv, CreditedOnce
    <3>3. granted'[u] \in {0, 1} /\ \A x \in Users \cup Payments : x # u => granted'[x] = granted[x]
      BY <1>0, <2>1, <3>1, <3>2 DEF TypeOK
    <3>4. \A x \in Users \cup Payments : granted'[x] <= 1
      BY <3>3 DEF CreditInv, CreditedOnce
    <3>5. \A v \in Users : granted'[v] = 1 => v \in teams' /\ user'[v] = "verified"
      BY <1>0, <2>1, <3>1, <3>3 DEF CreditInv, CreditedOnce, TypeOK
    <3>6. \A v \in Users \ teams' : ledger'[v] = 0 /\ balance'[v] = 0 /\ granted'[v] = 0
      BY <1>0, <2>1, <3>1, <3>3 DEF CreditInv, CreditedOnce, TypeOK
    <3> QED
      BY <3>1, <3>4, <3>5, <3>6 DEF CreditInv, CreditedOnce, SelectedExist
  <2> QED
    BY <2>2, <2>3
<1>6. CASE Dies(h)
  BY <1>6, CreditSame DEF Dies
<1> QED
  BY <1>1, <1>2, <1>3, <1>4, <1>5, <1>6 DEF Handle

\* A credit goes to a team there is.
LEMMA CreditKept ==
  ASSUME CreditInv, NEW u \in teams, NEW delta \in Int, Credit(u, delta), teams' = teams
  PROVE  /\ \A v \in Users \ teams' : ledger'[v] = 0 /\ balance'[v] = 0
         /\ SelectedExist'
<1>1. \A v \in Users \ teams' : ledger'[v] = 0 /\ balance'[v] = 0
  BY DEF CreditInv, CreditedOnce, Credit, TypeOK
<1>2. rec'.rows = rec.rows
  BY DEF CreditInv, Credit, TypeOK
<1> QED
  BY <1>1, <1>2 DEF CreditInv, SelectedExist

\* A step that changes balances only of teams there are, and selects only teams
\* there are, keeps the invariant.
LEMMA BalancesOfTeams ==
  ASSUME CreditInv, teams' = teams, ledger' = ledger, granted' = granted, user' = user,
         \A v \in Users \ teams : balance'[v] = 0,
         rec'.rows \subseteq teams
  PROVE  CreditedOnce' /\ SelectedExist'
BY DEF CreditInv, CreditedOnce, SelectedExist

LEMMA CreditStep == CreditInv /\ [Next]_vars => CreditInv'
<1> SUFFICES ASSUME CreditInv, [Next]_vars PROVE CreditInv'
  OBVIOUS
<1> USE DEF vars, accounts, money, keys
<1>0. TypeOK /\ TypeOK'
  BY TypeStep DEF CreditInv
<1>1. ASSUME NEW h \in Handlers, Handle(h) PROVE CreditedOnce' /\ SelectedExist'
  BY <1>1, HandleCredit
<1>2. ASSUME NEW u \in Users, TokenLapses(u) PROVE CreditedOnce' /\ SelectedExist'
  BY <1>2, CreditSame DEF TokenLapses
<1>3. ASSUME NEW u \in Users, findOrCreateOidcUser(u) PROVE CreditedOnce' /\ SelectedExist'
  <2>1. \A v \in Users : user[v] = "verified" => user'[v] = "verified"
    BY <1>0, <1>3 DEF findOrCreateOidcUser, TypeOK
  <2> QED
    BY <1>3, <2>1, CreditSame DEF findOrCreateOidcUser
<1>4. ASSUME NEW u \in Users, NEW delta \in Adjustments, Adjust(u, delta)
      PROVE  CreditedOnce' /\ SelectedExist'
  <2>1. /\ u \in teams /\ delta \in Int /\ Credit(u, delta)
        /\ teams' = teams /\ granted' = granted /\ user' = user
    BY <1>4, AmountsAssumption DEF Adjust
  <2> QED
    BY <2>1, CreditKept DEF CreditInv, CreditedOnce
<1>5. ASSUME NEW p \in Payments, paddleWebhookCore(p) PROVE CreditedOnce' /\ SelectedExist'
  <2>1. /\ PayerOf[p] \in teams /\ Topup \in Int /\ Credit(PayerOf[p], Topup)
        /\ teams' = teams /\ user' = user
        /\ granted[p] = 0 /\ granted' = [granted EXCEPT ![p] = @ + 1]
    BY <1>5, AmountsAssumption DEF paddleWebhookCore, Inserted
  <2>2. \A x \in Users \cup Payments : granted'[x] <= 1
    BY <1>0, <2>1 DEF CreditInv, CreditedOnce, TypeOK
  <2>3. \A u \in Users : granted'[u] = granted[u]
    BY <1>0, <2>1, PartiesAssumption DEF TypeOK
  <2> QED
    BY <2>1, <2>2, <2>3, CreditKept DEF CreditInv, CreditedOnce
<1>k. ASSUME NEW k \in Keys, NEW t \in Users \cup {NoUser}, PatchKey(k, t)
      PROVE  CreditedOnce' /\ SelectedExist'
  BY <1>k, CreditSame DEF PatchKey
<1>6. ASSUME Telemetry PROVE CreditedOnce' /\ SelectedExist'
  <2>1. CASE UNCHANGED <<accounts, money, rec>>
    <3>1. user' = user /\ UNCHANGED <<money, rec>>
      BY <2>1
    <3> QED
      BY <3>1, CreditSame
  <2>2. ASSUME NEW B \in SUBSET Events, storeRequestEvents(B)
        PROVE  CreditedOnce' /\ SelectedExist'
    <3>1. /\ teams' = teams /\ ledger' = ledger /\ granted' = granted /\ rec' = rec
          /\ user' = user
      BY <2>2 DEF storeRequestEvents
    <3>2. \A v \in Users \ teams : balance'[v] = 0
      BY <2>2 DEF storeRequestEvents, CreditInv, CreditedOnce
    <3> QED
      BY <3>1, <3>2, BalancesOfTeams DEF CreditInv, SelectedExist
  <2>3. ASSUME NEW e \in Events, Ages(e) \/ \E success \in BOOLEAN : Record(e, success)
        PROVE  UNCHANGED <<accounts, money, rec>>
    BY <2>3 DEF Ages, Record
  <2>4. ASSUME NEW B \in SUBSET Events, BatchLost(B) PROVE UNCHANGED <<accounts, money, rec>>
    BY <2>4 DEF BatchLost
  <2> QED
    BY <1>6, <2>1, <2>2, <2>3, <2>4 DEF Telemetry
<1>7. ASSUME ReconcileSums PROVE CreditedOnce' /\ SelectedExist'
  <2>1. /\ teams' = teams /\ ledger' = ledger /\ granted' = granted /\ user' = user
        /\ balance' = balance /\ rec'.rows = teams
    BY <1>7 DEF ReconcileSums
  <2>2. \A v \in Users \ teams : balance'[v] = 0
    BY <2>1 DEF CreditInv, CreditedOnce
  <2> QED
    BY <2>1, <2>2, BalancesOfTeams
<1>8. ASSUME ReconcileWrites PROVE CreditedOnce' /\ SelectedExist'
  <2>1. /\ teams' = teams /\ ledger' = ledger /\ granted' = granted /\ user' = user
        /\ rec'.rows = {}
    BY <1>8 DEF ReconcileWrites, NoReconcile
  <2>2. ASSUME NEW v \in Users \ teams PROVE balance'[v] = 0
    <3>1. v \notin Reconciled /\ balance[v] = 0
      BY DEF Reconciled, CreditInv, CreditedOnce, SelectedExist
    <3> QED
      BY <1>8, <3>1 DEF ReconcileWrites
  <2> QED
    BY <2>1, <2>2, BalancesOfTeams
<1>9. ASSUME ReconcileFails PROVE CreditedOnce' /\ SelectedExist'
  <2>1. /\ teams' = teams /\ ledger' = ledger /\ granted' = granted /\ user' = user
        /\ balance' = balance /\ rec'.rows = {}
    BY <1>9 DEF ReconcileFails, NoReconcile
  <2>2. \A v \in Users \ teams : balance'[v] = 0
    BY <2>1 DEF CreditInv, CreditedOnce
  <2> QED
    BY <2>1, <2>2, BalancesOfTeams
<1>10. ASSUME UNCHANGED vars PROVE CreditedOnce' /\ SelectedExist'
  <2>1. user' = user /\ UNCHANGED <<money, rec>>
    BY <1>10
  <2> QED
    BY <2>1, CreditSame
<1>11. CreditedOnce' /\ SelectedExist'
  BY <1>1, <1>2, <1>3, <1>4, <1>5, <1>6, <1>7, <1>8, <1>9, <1>10, <1>k DEF Next
<1> QED
  BY <1>0, <1>11 DEF CreditInv

\* One team and one bonus per user, together, and one credit per payment, for
\* any interleaving of verifications, webhooks, batches and reconciles: the
\* unique indexes behind verifyCore and paddleWebhookCore are enough.
THEOREM CreditsAreOnce == Spec => []CreditedOnce
<1>1. Init => CreditInv
  BY InitCredit
<1>2. CreditInv /\ [Next]_vars => CreditInv'
  BY CreditStep
<1>3. CreditInv => CreditedOnce
  BY DEF CreditInv
<1> QED
  BY <1>1, <1>2, <1>3, PTL DEF Spec

-----------------------------------------------------------------------------
(* Nobody is short. *)

\* What a reconcile is about to write covers the ledger, less the credits that
\* came after its sums and less what was spent until now.
SumsCover ==
  rec.on => \A u \in rec.rows : rec.computed[u] >= ledger[u] - rec.late[u] - Spent(u)

MoneyInv == CreditInv /\ Owned /\ NeverShort /\ SumsCover

LEMMA OwnedStep == TypeOK /\ Owned /\ [Next]_vars => Owned'
<1> SUFFICES ASSUME TypeOK, Owned, [Next]_vars PROVE Owned'
  OBVIOUS
<1>1. ASSUME NEW k \in Keys, NEW t \in Users \cup {NoUser}, PatchKey(k, t) PROVE Owned'
  BY <1>1 DEF PatchKey, Owned, TypeOK
<1>2. CASE UNCHANGED keys
  BY <1>2 DEF keys, Owned
<1>3. ASSUME NEW h \in Handlers, Handle(h) PROVE UNCHANGED keys
  BY <1>3 DEF Handle, SignupLooks, VerifyLooks, SignupInserts, issueVerificationToken,
              VerifyCommits, Dies
<1>4. Telemetry => UNCHANGED keys
  BY DEF Telemetry, Ages, Record, storeRequestEvents, BatchLost
<1> QED
  BY <1>1, <1>2, <1>3, <1>4
     DEF Next, vars, TokenLapses, findOrCreateOidcUser, Adjust, paddleWebhookCore,
         ReconcileSums, ReconcileWrites, ReconcileFails

\* The requests billed so far stay billed, and cost what they cost.
LEMMA SpentSame ==
  ASSUME event' = event, owners' = owners, NEW u \in Users
  PROVE  Spent(u)' = Spent(u)
BY DEF Spent

LEMMA SpentGrows ==
  ASSUME NEW u \in Users, Billed(u) \subseteq Billed(u)'
  PROVE  Spent(u)' \in Nat /\ Spent(u) <= Spent(u)'
<1>1. Spent(u) = Cost * Cardinality(Billed(u)) /\ Spent(u)' = Cost * Cardinality(Billed(u)')
  BY DEF Spent, Billed
<1>2. Billed(u)' \in SUBSET Events
  BY DEF Billed
<1> QED
  BY <1>1, <1>2, CostGrows

\* A step that leaves the money alone, and forgets no billed request.
LEMMA MoneySame ==
  ASSUME MoneyInv, TypeOK', UNCHANGED <<money, rec, missed>>,
         \A u \in Users : Billed(u) \subseteq Billed(u)'
  PROVE  NeverShort' /\ SumsCover'
<1>1. \A u \in Users : Spent(u) \in Nat /\ Spent(u)' \in Nat /\ Spent(u) <= Spent(u)'
  BY SpentGrows, AmountTypes
<1>2. /\ teams' = teams /\ balance' = balance /\ ledger' = ledger /\ rec' = rec
      /\ missed' = missed
  BY DEF money
<1>3. TypeOK
  BY DEF MoneyInv, CreditInv
<1>4. ASSUME NEW u \in teams PROVE balance[u] >= ledger[u] - Spent(u)' - missed[u]
  <2>1. u \in Users /\ balance[u] \in Int /\ ledger[u] \in Int /\ missed[u] \in Nat
    BY <1>3 DEF TypeOK
  <2>2. balance[u] >= ledger[u] - Spent(u) - missed[u]
    BY DEF MoneyInv, NeverShort
  <2> QED
    BY <1>1, <2>1, <2>2
<1>5. ASSUME rec.on, NEW u \in rec.rows
      PROVE  rec.computed[u] >= ledger[u] - rec.late[u] - Spent(u)'
  <2>1. u \in Users /\ rec.computed[u] \in Int /\ ledger[u] \in Int /\ rec.late[u] \in Nat
    BY <1>3 DEF TypeOK
  <2>2. rec.computed[u] >= ledger[u] - rec.late[u] - Spent(u)
    BY <1>5 DEF MoneyInv, SumsCover
  <2> QED
    BY <1>1, <2>1, <2>2
<1> QED
  BY <1>2, <1>4, <1>5 DEF NeverShort, SumsCover

\* A credit raises the balance with the ledger; one that a reconcile under way
\* has not summed is late by as much.
LEMMA CreditCovers ==
  ASSUME MoneyInv, NEW u \in teams, NEW delta \in Int, Credit(u, delta),
         teams' = teams, missed' = missed, event' = event, owners' = owners
  PROVE  NeverShort' /\ SumsCover'
<1>0. TypeOK /\ u \in Users
  BY DEF MoneyInv, CreditInv, TypeOK
<1>1. \A v \in Users : Spent(v) \in Nat /\ Spent(v)' = Spent(v)
  BY SpentSame, AmountTypes
<1>2. ASSUME NEW v \in teams PROVE balance'[v] >= ledger'[v] - Spent(v)' - missed'[v]
  <2>1. v \in Users /\ balance[v] \in Int /\ ledger[v] \in Int /\ missed[v] \in Nat
    BY <1>0 DEF TypeOK
  <2>2. balance[v] >= ledger[v] - Spent(v) - missed[v]
    BY DEF MoneyInv, NeverShort
  <2>3. balance'[v] - ledger'[v] = balance[v] - ledger[v]
        /\ balance'[v] \in Int /\ ledger'[v] \in Int
    <3>1. CASE v = u
      BY <1>0, <2>1, <3>1 DEF Credit, TypeOK
    <3>2. CASE v # u
      BY <1>0, <2>1, <3>2 DEF Credit, TypeOK
    <3> QED
      BY <3>1, <3>2
  <2> QED
    BY <1>1, <2>1, <2>2, <2>3
<1>3. ASSUME rec'.on, NEW v \in rec'.rows
      PROVE  rec'.computed[v] >= ledger'[v] - rec'.late[v] - Spent(v)'
  <2>1. rec.on /\ v \in rec.rows /\ rec'.computed = rec.computed
    BY <1>0, <1>3 DEF Credit, TypeOK
  <2>2. /\ v \in Users /\ rec.computed[v] \in Int /\ ledger[v] \in Int
        /\ rec.late[v] \in Nat
    BY <1>0, <2>1 DEF TypeOK
  <2>3. rec.computed[v] >= ledger[v] - rec.late[v] - Spent(v)
    BY <2>1 DEF MoneyInv, SumsCover
  <2>4. /\ ledger'[v] \in Int /\ rec'.late[v] \in Int
        /\ ledger'[v] - rec'.late[v] <= ledger[v] - rec.late[v]
    <3>1. CASE v # u
      <4>1. ledger'[v] = ledger[v]
        BY <1>0, <2>2, <3>1 DEF Credit, TypeOK
      <4>2. rec'.late[v] = rec.late[v]
        BY <1>0, <2>2, <3>1 DEF Credit, TypeOK
      <4> QED
        BY <2>2, <4>1, <4>2
    <3>2. CASE v = u /\ delta > 0
      <4>1. ledger'[v] = ledger[v] + delta
        BY <1>0, <2>2, <3>2 DEF Credit, TypeOK
      <4>2. rec'.late[v] = rec.late[v] + delta
        BY <1>0, <2>1, <2>2, <3>2 DEF Credit, TypeOK
      <4> QED
        BY <2>2, <4>1, <4>2
    <3>3. CASE v = u /\ ~(delta > 0)
      <4>1. ledger'[v] = ledger[v] + delta
        BY <1>0, <2>2, <3>3 DEF Credit, TypeOK
      <4>2. rec'.late[v] = rec.late[v]
        BY <3>3 DEF Credit
      <4> QED
        BY <2>2, <3>3, <4>1, <4>2
    <3> QED
      BY <3>1, <3>2, <3>3
  <2> QED
    BY <1>1, <2>1, <2>2, <2>3, <2>4
<1> QED
  BY <1>2, <1>3 DEF NeverShort, SumsCover

\* A batch takes from a balance what it adds to what was spent.
LEMMA BatchCovers ==
  ASSUME MoneyInv, NEW B \in SUBSET Events, storeRequestEvents(B)
  PROVE  NeverShort' /\ SumsCover'
<1>0. TypeOK
  BY DEF MoneyInv, CreditInv
<1>1. /\ teams' = teams /\ ledger' = ledger /\ rec' = rec /\ missed' = missed
      /\ owners' = owners
  BY DEF storeRequestEvents, keys
<1>2. ASSUME NEW u \in Users
      PROVE  /\ Spent(u) \in Nat /\ Spent(u)' \in Nat /\ Charge(u, B) \in Nat
             /\ Spent(u)' >= Spent(u) + Charge(u, B)
  <2> DEFINE S == Billed(u) \cup New(u, B)
             T == Billed(u)'
  <2>1. T \in SUBSET Events /\ S \in SUBSET T
    <3>1. T \in SUBSET Events /\ Billed(u) \in SUBSET T
      BY <1>0, <1>1 DEF Billed, storeRequestEvents, Fresh, TypeOK
    <3>2. ASSUME NEW e \in New(u, B) PROVE e \in T
      <4>1. e \in Fresh(B) /\ e \in Events /\ event[e].success /\ SpenderOf(e) = u
        BY DEF New, Fresh
      <4>2. u \in owners[KeyOf[e]]
        BY <4>1, OwnerKnown DEF MoneyInv
      <4>3. event'[e].at = "kept" /\ event'[e].success
        BY <1>0, <4>1 DEF storeRequestEvents, Fresh, TypeOK
      <4> QED
        BY <1>1, <4>1, <4>2, <4>3 DEF Billed
    <3> QED
      BY <3>1, <3>2
  <2>2. Billed(u) \cap New(u, B) = {} /\ Billed(u) \in SUBSET Events
        /\ New(u, B) \in SUBSET Events
    BY DEF Billed, New, Fresh
  <2>3. /\ Spent(u) = Cost * Cardinality(Billed(u)) /\ Spent(u)' = Cost * Cardinality(T)
        /\ Charge(u, B) = Cost * Cardinality(New(u, B))
    BY DEF Spent, Billed, Charge, New
  <2> HIDE DEF T
  <2>4. /\ Cost * Cardinality(S) = Spent(u) + Charge(u, B)
        /\ Cost * Cardinality(S) <= Spent(u)' /\ Spent(u)' \in Nat
    BY <2>1, <2>2, <2>3, CostAdds, CostGrows
  <2> QED
    BY <2>4, AmountTypes
<1>3. ASSUME NEW u \in teams PROVE balance'[u] >= ledger[u] - Spent(u)' - missed[u]
  <2>1. u \in Users /\ balance[u] \in Int /\ ledger[u] \in Int /\ missed[u] \in Nat
    BY <1>0 DEF TypeOK
  <2>2. balance[u] >= ledger[u] - Spent(u) - missed[u]
    BY DEF MoneyInv, NeverShort
  <2>3. balance'[u] = balance[u] - Charge(u, B) \/ balance'[u] = balance[u]
    BY <2>1 DEF storeRequestEvents
  <2> QED
    BY <1>2, <2>1, <2>2, <2>3
<1>4. ASSUME rec.on, NEW u \in rec.rows
      PROVE  rec.computed[u] >= ledger[u] - rec.late[u] - Spent(u)'
  <2>1. u \in Users /\ rec.computed[u] \in Int /\ ledger[u] \in Int /\ rec.late[u] \in Nat
    BY <1>0 DEF TypeOK
  <2>2. rec.computed[u] >= ledger[u] - rec.late[u] - Spent(u)
    BY <1>4 DEF MoneyInv, SumsCover
  <2> QED
    BY <1>2, <2>1, <2>2
<1> QED
  BY <1>1, <1>3, <1>4 DEF NeverShort, SumsCover

\* A new team begins with its bonus, which is all its ledger says, and no
\* reconcile under way knows of it.
LEMMA VerifyCovers ==
  ASSUME MoneyInv, NEW h \in Handlers, VerifyCommits(h), TypeOK'
  PROVE  NeverShort' /\ SumsCover'
<1>0. TypeOK /\ CreditedOnce /\ SelectedExist
  BY DEF MoneyInv, CreditInv
<1>1. PICK u \in Users : u = req[h].user
  BY <1>0 DEF VerifyCommits, TypeOK
<1>2. event' = event /\ rec' = rec /\ missed' = missed /\ owners' = owners
  BY DEF VerifyCommits, keys
<1>3. \A v \in Users : Spent(v) \in Nat /\ Spent(v)' = Spent(v)
  BY <1>2, SpentSame, AmountTypes
<1>4. CASE Conflict(u)
  <2>1. teams' = teams /\ balance' = balance /\ ledger' = ledger
    BY <1>1, <1>4 DEF VerifyCommits
  <2>2. \A v \in Users : v \in teams \/ v \in rec.rows => Spent(v)' = Spent(v)
    BY <1>3
  <2>3. teams \subseteq Users /\ rec.rows \subseteq Users
    BY <1>0 DEF TypeOK
  <2> QED
    BY <1>2, <2>1, <2>2, <2>3 DEF MoneyInv, NeverShort, SumsCover
<1>5. CASE ~Conflict(u)
  <2>1. /\ teams' = teams \cup {u}
        /\ balance' = [balance EXCEPT ![u] = Bonus]
        /\ ledger' = [ledger EXCEPT ![u] = @ + Bonus]
    BY <1>1, <1>5 DEF VerifyCommits
  <2>2. u \notin teams /\ u \notin rec.rows /\ ledger[u] = 0
    BY <1>0, <1>1, <1>5 DEF Conflict, CreditedOnce, SelectedExist
  <2>3. balance'[u] = Bonus /\ ledger'[u] = Bonus /\ Bonus \in Nat /\ missed[u] \in Nat
    BY <1>0, <1>1, <2>1, <2>2, AmountsAssumption DEF TypeOK
  <2>4. balance'[u] >= ledger'[u] - Spent(u)' - missed'[u]
    BY <1>1, <1>2, <1>3, <2>3
  <2>5. \A v \in Users : v # u => balance'[v] = balance[v] /\ ledger'[v] = ledger[v]
    BY <1>0, <2>1 DEF TypeOK
  <2>6. ASSUME NEW v \in teams PROVE balance'[v] >= ledger'[v] - Spent(v)' - missed'[v]
    BY <1>0, <1>2, <1>3, <2>2, <2>5 DEF MoneyInv, NeverShort, TypeOK
  <2>7. ASSUME rec.on, NEW v \in rec.rows
        PROVE  rec.computed[v] >= ledger'[v] - rec.late[v] - Spent(v)'
    BY <1>0, <1>3, <2>2, <2>5, <2>7 DEF MoneyInv, SumsCover, TypeOK
  <2> QED
    BY <1>2, <2>1, <2>4, <2>6, <2>7 DEF NeverShort, SumsCover
<1> QED
  BY <1>4, <1>5

\* The sums of a reconcile cover what the ledger says.
LEMMA SumsAreCover ==
  ASSUME MoneyInv, ReconcileSums
  PROVE  NeverShort' /\ SumsCover'
<1>0. TypeOK
  BY DEF MoneyInv, CreditInv
<1>1. /\ teams' = teams /\ balance' = balance /\ ledger' = ledger /\ missed' = missed
      /\ event' = event /\ owners' = owners
  BY DEF ReconcileSums, money, keys
<1>2. \A u \in Users : Spent(u) \in Nat /\ Spent(u)' = Spent(u)
  BY <1>1, SpentSame, AmountTypes
<1>3. ASSUME NEW u \in teams PROVE balance'[u] >= ledger'[u] - Spent(u)' - missed'[u]
  BY <1>0, <1>1, <1>2 DEF MoneyInv, NeverShort, TypeOK
<1>4. ASSUME NEW u \in rec'.rows
      PROVE  rec'.computed[u] >= ledger'[u] - rec'.late[u] - Spent(u)'
  <2>1. u \in Users /\ ledger[u] \in Int
    BY <1>0, <1>4 DEF ReconcileSums, TypeOK
  <2>2. rec'.computed[u] = Due(u) /\ rec'.late[u] = 0
    BY <2>1 DEF ReconcileSums, NoSums
  <2>3. Due(u) >= ledger[u] - Spent(u)
    BY <2>1, AmountTypes, KeptIsBilled DEF Due, MoneyInv
  <2>4. Due(u) \in Int
    BY <2>1, AmountTypes DEF Due
  <2> QED
    BY <1>1, <1>2, <2>1, <2>2, <2>3, <2>4
<1> QED
  BY <1>1, <1>3, <1>4 DEF NeverShort, SumsCover

\* What it writes is no less than its sums; what came late is missed.
LEMMA WritesCover ==
  ASSUME MoneyInv, ReconcileWrites
  PROVE  NeverShort' /\ SumsCover'
<1>0. TypeOK
  BY DEF MoneyInv, CreditInv
<1>1. /\ teams' = teams /\ ledger' = ledger /\ event' = event /\ rec'.on = FALSE
      /\ owners' = owners
  BY DEF ReconcileWrites, keys, NoReconcile
<1>2. \A u \in Users : Spent(u) \in Nat /\ Spent(u)' = Spent(u)
  BY <1>1, SpentSame, AmountTypes
<1>3. ASSUME NEW u \in teams PROVE balance'[u] >= ledger'[u] - Spent(u)' - missed'[u]
  <2>1. /\ u \in Users /\ balance[u] \in Int /\ ledger[u] \in Int /\ missed[u] \in Nat
        /\ rec.computed[u] \in Int /\ rec.late[u] \in Nat
    BY <1>0 DEF TypeOK
  <2>2. CASE u \in rec.rows
    <3>1. missed'[u] = rec.late[u]
      BY <2>1, <2>2 DEF ReconcileWrites, Reconciled
    <3>2. balance'[u] = IF rec.computed[u] > 0 THEN rec.computed[u] ELSE 0
      BY <2>1, <2>2 DEF ReconcileWrites, Reconciled
    <3>3. rec.computed[u] >= ledger[u] - rec.late[u] - Spent(u)
      BY <2>2 DEF MoneyInv, SumsCover, ReconcileWrites
    <3> QED
      BY <1>1, <1>2, <2>1, <3>1, <3>2, <3>3
  <2>3. CASE u \notin rec.rows
    <3>1. missed'[u] = missed[u] /\ balance'[u] = balance[u]
      BY <2>1, <2>3 DEF ReconcileWrites, Reconciled
    <3>2. balance[u] >= ledger[u] - Spent(u) - missed[u]
      BY DEF MoneyInv, NeverShort
    <3> QED
      BY <1>1, <1>2, <2>1, <3>1, <3>2
  <2> QED
    BY <2>2, <2>3
<1> QED
  BY <1>1, <1>3 DEF NeverShort, SumsCover

\* The steps of a request to the control plane other than the verification
\* touch no money, and those of the telemetry other than a batch bill nobody.
LEMMA QuietCovers ==
  ASSUME MoneyInv, TypeOK', UNCHANGED <<money, owners, rec, missed>>, event' = event
  PROVE  NeverShort' /\ SumsCover'
<1>1. \A u \in Users : Billed(u)' = Billed(u)
  BY DEF Billed
<1> QED
  BY <1>1, MoneySame

LEMMA TelemetryCovers ==
  ASSUME MoneyInv, TypeOK', Telemetry
  PROVE  NeverShort' /\ SumsCover'
<1>0. TypeOK
  BY DEF MoneyInv, CreditInv
<1>1. ASSUME NEW e \in Events, Ages(e) PROVE NeverShort' /\ SumsCover'
  <2>1. \A u \in Users : Billed(u) \subseteq Billed(u)'
    BY <1>0, <1>1 DEF keys, Ages, Billed, TypeOK
  <2> QED
    BY <1>1, <2>1, MoneySame DEF Ages
<1>2. ASSUME NEW e \in Events, NEW success \in BOOLEAN, Record(e, success)
      PROVE  NeverShort' /\ SumsCover'
  <2>1. \A u \in Users : Billed(u) \subseteq Billed(u)'
    BY <1>0, <1>2 DEF keys, Record, Billed, TypeOK
  <2> QED
    BY <1>2, <2>1, MoneySame DEF Record
<1>3. ASSUME NEW B \in SUBSET Events, BatchLost(B) PROVE NeverShort' /\ SumsCover'
  <2>1. \A u \in Users : Billed(u) \subseteq Billed(u)'
    BY <1>0, <1>3 DEF keys, BatchLost, Put, Waiting, Billed, TypeOK
  <2> QED
    BY <1>3, <2>1, MoneySame DEF BatchLost
<1>4. ASSUME NEW B \in SUBSET Events, storeRequestEvents(B) PROVE NeverShort' /\ SumsCover'
  BY <1>4, BatchCovers
<1> QED
  BY <1>1, <1>2, <1>3, <1>4 DEF Telemetry

LEMMA MoneyStep == MoneyInv /\ [Next]_vars => MoneyInv'
<1> SUFFICES ASSUME MoneyInv, [Next]_vars PROVE MoneyInv'
  OBVIOUS
<1> DEFINE Good == NeverShort' /\ SumsCover'
<1>0. CreditInv' /\ TypeOK'
  BY CreditStep DEF MoneyInv, CreditInv
<1>1. ASSUME NEW h \in Handlers, Handle(h) PROVE Good
  <2>1. CASE VerifyCommits(h)
    BY <1>0, <2>1, VerifyCovers
  <2>2. CASE ~VerifyCommits(h)
    <3>1. UNCHANGED <<money, owners, rec, missed>> /\ event' = event
      BY <1>1, <2>2
        DEF keys, Handle, SignupLooks, VerifyLooks, SignupInserts, issueVerificationToken, Dies
    <3> QED
      BY <1>0, <3>1, QuietCovers
  <2> QED
    BY <2>1, <2>2
<1>2. ASSUME NEW u \in Users, TokenLapses(u) \/ findOrCreateOidcUser(u) PROVE Good
  BY <1>0, <1>2, QuietCovers DEF TokenLapses, findOrCreateOidcUser, keys
<1>3. ASSUME NEW u \in Users, NEW delta \in Adjustments, Adjust(u, delta) PROVE Good
  BY <1>3, CreditCovers, AmountsAssumption DEF Adjust, keys
<1>4. ASSUME NEW p \in Payments, paddleWebhookCore(p) PROVE Good
  BY <1>4, CreditCovers, AmountsAssumption DEF paddleWebhookCore, keys
<1>k. ASSUME NEW k \in Keys, NEW t \in Users \cup {NoUser}, PatchKey(k, t) PROVE Good
  <2>1. \A i \in Keys : owners[i] \subseteq owners'[i]
    BY <1>k DEF PatchKey, MoneyInv, CreditInv, TypeOK
  <2>2. \A u \in Users : Billed(u) \subseteq Billed(u)'
    BY <1>k, <2>1, PartiesAssumption DEF PatchKey, Billed
  <2> QED
    BY <1>0, <1>k, <2>2, MoneySame DEF PatchKey
<1>5. ASSUME Telemetry PROVE Good
  BY <1>0, <1>5, TelemetryCovers
<1>6. ASSUME ReconcileSums PROVE Good
  BY <1>6, SumsAreCover
<1>7. ASSUME ReconcileWrites PROVE Good
  BY <1>7, WritesCover
<1>8. ASSUME ReconcileFails PROVE Good
  <2>1. /\ teams' = teams /\ balance' = balance /\ ledger' = ledger /\ missed' = missed
        /\ event' = event /\ rec'.on = FALSE /\ owners' = owners
    BY <1>8 DEF ReconcileFails, NoReconcile, money, keys
  <2>2. \A u \in Users : Spent(u)' = Spent(u)
    BY <2>1, SpentSame
  <2>3. teams \subseteq Users
    BY DEF MoneyInv, CreditInv, TypeOK
  <2> QED
    BY <2>1, <2>2, <2>3 DEF MoneyInv, NeverShort, SumsCover
<1>9. ASSUME UNCHANGED vars PROVE Good
  <2>1. UNCHANGED <<money, owners, rec, missed>> /\ event' = event
    BY <1>9 DEF vars, keys
  <2> QED
    BY <1>0, <2>1, QuietCovers
<1>10. Good
  BY <1>1, <1>2, <1>3, <1>4, <1>5, <1>6, <1>7, <1>8, <1>9, <1>k DEF Next
<1>11. Owned'
  BY OwnedStep DEF MoneyInv, CreditInv
<1> QED
  BY <1>0, <1>10, <1>11 DEF MoneyInv

\* A tenant keeps what it paid for less what the keys it has or had have spent,
\* each request once, whatever overlaps, is delivered twice, ages out, fails or
\* moves to another team, except for credits its last reconcile overtook
\* (storeRequestEvents, reconcileTeamBalances and the credits they race).
THEOREM NobodyIsShort == Spec => []NeverShort
<1>1. Init => MoneyInv
  <2>1. Init => Owned /\ NeverShort /\ SumsCover
    BY DEF Init, Owned, NeverShort, SumsCover, NoReconcile
  <2> QED
    BY <2>1, InitCredit DEF MoneyInv
<1>2. MoneyInv /\ [Next]_vars => MoneyInv'
  BY MoneyStep
<1>3. MoneyInv => NeverShort
  BY DEF MoneyInv
<1> QED
  BY <1>1, <1>2, <1>3, PTL DEF Spec
=============================================================================
